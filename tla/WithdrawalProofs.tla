-------------------------- MODULE WithdrawalProofs --------------------------
(***************************************************************************)
(* What the tables say of L1 is true, no poll passes over a withdrawal,    *)
(* and no withdrawal is in two roots: for any withdrawals, batch size,     *)
(* list size, number of polls and faults.                                  *)
(***************************************************************************)
EXTENDS Withdrawals, FiniteSetTheorems, WellFoundedInduction, TLAPS

USE WithdrawalPipelineAssumption, NoRowAssumption

L1States == {"none", "queued", "due", "barred"} \cup Payers

ChainInv ==
    /\ l2Head \in 0..MaxL2Block
    /\ initBlock \in [WithdrawalIds -> 0..MaxL2Block]
    /\ \A w \in WithdrawalIds : initBlock[w] <= l2Head
    /\ l1 \in [WithdrawalIds -> L1States]

FaultInv == faults \in [{"db", "rpc", "crash"} -> Nat]

RowIsTrue(w) ==
    rows[w] # NoRow =>
        /\ rows[w].block = initBlock[w]
        /\ rows[w].queued > 0 => l1[w] # "none"
        /\ rows[w].finalized => rows[w].queued > 0 /\ Paid(w)
        /\ rows[w].hash # NoHash => rows[w].finalized /\ rows[w].hash = l1[w]

TableInv ==
    /\ rows \in [WithdrawalIds -> Row \cup {NoRow}]
    /\ \A w \in WithdrawalIds : RowIsTrue(w)

\* Up to that block, all is stored or in the hands of a poll.
PollType == [upTo : Nat, todo : SUBSET WithdrawalIds]
InHand(w) == \E p \in Polls : w \in polls[p].todo
StoredUpTo(block) ==
    faults["db"] = 0 =>
        \A w \in WithdrawalIds :
            initBlock[w] \in (origin + 1)..block => rows[w] # NoRow \/ InHand(w)

ListenerInv ==
    /\ polls \in [Polls -> PollType]
    /\ cursor \in Nat /\ origin \in Nat /\ cursor <= l2Head
    /\ StoredUpTo(cursor)
    /\ \A p \in Polls :
          /\ polls[p].upTo <= l2Head /\ StoredUpTo(polls[p].upTo)
          /\ \A w \in polls[p].todo : initBlock[w] # 0

\* The submitter has rows that are not queued, of the next range as long as
\* its root is not sent.
SubmitType ==
    [phase : {"idle", "send", "queue", "mark"}, todo : SUBSET WithdrawalIds,
     mined : SUBSET WithdrawalIds]
InNextRange(w) == initBlock[w] \in (Len(roots) * BatchSize + 1)..((Len(roots) + 1) * BatchSize)
SubmitInv ==
    /\ submit \in SubmitType
    /\ \A w \in submit.todo : rows[w] # NoRow /\ rows[w].queued = 0
    /\ \A w \in submit.mined : w \in submit.todo /\ l1[w] # "none"
    /\ submit.phase = "send" => \A w \in submit.todo : InNextRange(w)

BatchInv ==
    /\ roots \in Seq(SUBSET WithdrawalIds)
    /\ \A n \in 1..Len(roots) : \A w \in roots[n] :
          initBlock[w] \in ((n - 1) * BatchSize + 1)..(n * BatchSize)
    /\ batches \in [BatchNumbers -> {"none", "saved", "submitted"}]
    /\ \A n \in BatchNumbers : batches[n] # "none" => n <= Len(roots)

\* The finalizer has rows that are queued, the script rows that are finalized.
PassType ==
    [todo : SUBSET WithdrawalIds, paid : SUBSET WithdrawalIds, known : SUBSET WithdrawalIds]
PassInv ==
    /\ pass \in PassType
    /\ \A w \in pass.todo : IsQueued(w)
    /\ \A w \in pass.paid : IsQueued(w) /\ l1[w] = "relayer"
    /\ \A w \in pass.known : IsQueued(w) /\ Paid(w)

ScriptInv ==
    /\ script \in SUBSET WithdrawalIds
    /\ \A w \in script : rows[w] # NoRow /\ rows[w].finalized

PipelineInv ==
    /\ ChainInv /\ FaultInv /\ TableInv /\ ListenerInv
    /\ SubmitInv /\ BatchInv /\ PassInv /\ ScriptInv

----------------------------------------------------------------------------
LEMMA PipelineInvInit == WithdrawalInit => PipelineInv
<1> SUFFICES ASSUME WithdrawalInit PROVE PipelineInv
  OBVIOUS
<1>1. ChainInv /\ FaultInv /\ TableInv /\ BatchInv
  BY DEF WithdrawalInit, ChainInv, FaultInv, TableInv, RowIsTrue, BatchInv, L1States
<1>2. ListenerInv
  BY DEF WithdrawalInit, ListenerInv, PollType, StoredUpTo, NoPoll
<1>3. SubmitInv /\ PassInv /\ ScriptInv
  BY DEF WithdrawalInit, SubmitInv, SubmitType, NoSubmit, PassInv, PassType, NoPass, ScriptInv
<1> QED  BY <1>1, <1>2, <1>3 DEF PipelineInv

\* Blocks, payments, rows and their marks stay; nothing gets a block that the
\* listener has passed.
ChainGrows ==
    /\ l2Head <= l2Head'
    /\ \A w \in WithdrawalIds :
          /\ initBlock'[w] = initBlock[w] \/ (initBlock[w] = 0 /\ initBlock'[w] > l2Head)
          /\ l1[w] # "none" => l1'[w] # "none"
          /\ Paid(w) => l1'[w] = l1[w]
RowsGrow ==
    \A w \in WithdrawalIds :
        rows[w] # NoRow =>
            /\ rows'[w] # NoRow
            /\ rows[w].queued > 0 => rows'[w].queued > 0
            /\ rows[w].finalized => rows'[w].finalized
NoneIsQueued ==
    \A w \in WithdrawalIds :
        rows[w] # NoRow /\ rows[w].queued = 0 => rows'[w].queued = 0
FaultsGrow == faults["db"] <= faults'["db"]

LEMMA ChainRests ==
    ASSUME ChainInv, UNCHANGED <<l2Head, initBlock, l1>>
    PROVE  ChainInv' /\ ChainGrows
BY DEF ChainInv, ChainGrows, Paid

LEMMA L1Moves ==
    ASSUME ChainInv, NEW w \in WithdrawalIds, NEW s \in L1States \ {"none"}, ~Paid(w),
           l1' = [l1 EXCEPT ![w] = s], UNCHANGED <<l2Head, initBlock>>
    PROVE  ChainInv' /\ ChainGrows
BY DEF ChainInv, ChainGrows, Paid

LEMMA FaultHappens ==
    ASSUME FaultInv, NEW kind \in {"db", "rpc", "crash"}, Happens(kind)
    PROVE  FaultInv' /\ FaultsGrow /\ (kind = "db" => faults'["db"] # 0)
BY DEF FaultInv, FaultsGrow, Happens

LEMMA NoFaultHappens ==
    ASSUME FaultInv, UNCHANGED faults
    PROVE  FaultInv' /\ FaultsGrow
BY DEF FaultInv, FaultsGrow

LEMMA RowsRest ==
    ASSUME UNCHANGED rows
    PROVE  RowsGrow /\ NoneIsQueued
BY DEF RowsGrow, NoneIsQueued

LEMMA TableRests ==
    ASSUME TableInv, ChainInv, ChainGrows, UNCHANGED rows
    PROVE  TableInv'
<1>1. ASSUME NEW w \in WithdrawalIds PROVE RowIsTrue(w)'
  <2>1. CASE rows[w] = NoRow
    BY <2>1 DEF RowIsTrue
  <2>2. CASE rows[w] # NoRow
    <3>1. rows[w] \in Row /\ RowIsTrue(w)
      BY <2>2 DEF TableInv
    <3>2. initBlock[w] # 0
      BY <2>2, <3>1 DEF RowIsTrue, Row
    <3>3. initBlock'[w] = initBlock[w]
      BY <3>2 DEF ChainGrows
    <3> QED  BY <2>2, <3>1, <3>3 DEF RowIsTrue, ChainGrows, Paid
  <2> QED  BY <2>1, <2>2
<1> QED  BY <1>1 DEF TableInv

LEMMA ListenerRests ==
    ASSUME ListenerInv, FaultInv, FaultInv', ChainInv, ChainInv', ChainGrows, FaultsGrow, RowsGrow,
           UNCHANGED <<polls, cursor, origin>>
    PROVE  ListenerInv'
<1>1. ASSUME NEW k \in Nat, k <= l2Head, StoredUpTo(k)
      PROVE  StoredUpTo(k)'
  <2> SUFFICES ASSUME faults'["db"] = 0, NEW w \in WithdrawalIds,
                      initBlock'[w] \in (origin + 1)..k
               PROVE  rows'[w] # NoRow \/ InHand(w)'
    BY DEF StoredUpTo
  <2>1. faults["db"] = 0
    BY DEF FaultsGrow, FaultInv
  <2>2. l2Head \in Nat /\ initBlock'[w] \in Nat
    BY DEF ChainInv
  <2>3. initBlock'[w] = initBlock[w]
    BY <1>1, <2>2 DEF ChainGrows, ListenerInv
  <2>4. rows[w] # NoRow \/ InHand(w)
    BY <1>1, <2>1, <2>3 DEF StoredUpTo
  <2> QED  BY <2>4 DEF RowsGrow, InHand
<1>2. l2Head \in Nat /\ l2Head' \in Nat /\ l2Head <= l2Head'
  BY DEF ChainInv, ChainGrows
<1>3. StoredUpTo(cursor)'
  <2>1. StoredUpTo(cursor) /\ cursor \in Nat /\ cursor <= l2Head
    BY DEF ListenerInv
  <2>2. \A k \in Nat : k <= l2Head /\ StoredUpTo(k) =>
            (faults'["db"] = 0 => \A w \in WithdrawalIds :
                initBlock'[w] \in (origin + 1)..k => rows'[w] # NoRow \/ InHand(w)')
    BY <1>1 DEF StoredUpTo
  <2> QED  BY <2>1, <2>2 DEF StoredUpTo
<1>4. ASSUME NEW p \in Polls
      PROVE  /\ polls'[p].upTo <= l2Head' /\ StoredUpTo(polls[p].upTo)'
             /\ \A w \in polls'[p].todo : initBlock'[w] # 0
  <2>1. /\ polls[p] \in PollType /\ polls[p].upTo <= l2Head /\ StoredUpTo(polls[p].upTo)
        /\ \A w \in polls[p].todo : initBlock[w] # 0
    BY DEF ListenerInv
  <2>2. \A k \in Nat : k <= l2Head /\ StoredUpTo(k) =>
            (faults'["db"] = 0 => \A w \in WithdrawalIds :
                initBlock'[w] \in (origin + 1)..k => rows'[w] # NoRow \/ InHand(w)')
    BY <1>1 DEF StoredUpTo
  <2>3. polls[p].upTo \in Nat /\ polls[p].todo \subseteq WithdrawalIds
    BY <2>1 DEF PollType
  <2>4. StoredUpTo(polls[p].upTo)'
    BY <2>1, <2>2, <2>3 DEF StoredUpTo
  <2>5. polls'[p].upTo <= l2Head'
    BY <1>2, <2>1, <2>3
  <2>6. \A w \in polls'[p].todo : initBlock'[w] # 0
    BY <2>1, <2>3 DEF ChainGrows
  <2> QED  BY <2>4, <2>5, <2>6
<1> QED  BY <1>2, <1>3, <1>4 DEF ListenerInv

LEMMA SubmitRests ==
    ASSUME SubmitInv, ChainInv, TableInv, ChainGrows, RowsGrow, NoneIsQueued,
           UNCHANGED <<submit, roots>>
    PROVE  SubmitInv'
<1>1. ASSUME NEW w \in submit.todo
      PROVE  /\ rows'[w] # NoRow /\ rows'[w].queued = 0 /\ initBlock'[w] = initBlock[w]
             /\ w \in WithdrawalIds
  <2>1. w \in WithdrawalIds /\ rows[w] # NoRow /\ rows[w].queued = 0
    BY DEF SubmitInv, SubmitType
  <2>2. initBlock[w] # 0
    BY <2>1 DEF TableInv, RowIsTrue, Row
  <2> QED  BY <2>1, <2>2 DEF RowsGrow, NoneIsQueued, ChainGrows
<1>2. \A w \in submit.mined : w \in WithdrawalIds /\ l1'[w] # "none"
  BY DEF SubmitInv, SubmitType, ChainGrows
<1>3. ASSUME submit.phase = "send", NEW w \in submit.todo PROVE InNextRange(w)'
  <2>1. InNextRange(w)
    BY <1>3 DEF SubmitInv
  <2>2. PICK range : range = (Len(roots) * BatchSize + 1)..((Len(roots) + 1) * BatchSize)
    OBVIOUS
  <2>3. range = (Len(roots') * BatchSize + 1)..((Len(roots') + 1) * BatchSize)
    BY <2>2, Zenon
  <2>4. initBlock'[w] \in range
    BY <1>1, <2>1, <2>2, Zenon DEF InNextRange
  <2> QED  BY <2>3, <2>4, Zenon DEF InNextRange
<1>4. submit' \in SubmitType /\ \A w \in submit'.mined : w \in submit'.todo
  BY DEF SubmitInv
<1>5. UNCHANGED submit
  OBVIOUS
<1> QED  BY <1>1, <1>2, <1>3, <1>4, <1>5, Zenon DEF SubmitInv

LEMMA BatchRests ==
    ASSUME BatchInv, ChainInv, ChainGrows, UNCHANGED <<roots, batches>>
    PROVE  BatchInv'
<1>1. ASSUME NEW n \in 1..Len(roots), NEW w \in roots[n]
      PROVE  initBlock'[w] = initBlock[w]
  <2>1. w \in WithdrawalIds /\ initBlock[w] \in ((n - 1) * BatchSize + 1)..(n * BatchSize)
    BY DEF BatchInv
  <2>2. (n - 1) * BatchSize >= 0
    BY DEF BatchInv
  <2>3. initBlock[w] # 0
    BY <2>1, <2>2
  <2> QED  BY <2>1, <2>3 DEF ChainGrows
<1>2. ASSUME NEW n \in 1..Len(roots), NEW w \in roots[n]
      PROVE  initBlock'[w] \in ((n - 1) * BatchSize + 1)..(n * BatchSize)
  BY <1>1, Zenon DEF BatchInv
<1>3. UNCHANGED <<roots, batches>>
  OBVIOUS
<1>4. /\ roots' \in Seq(SUBSET WithdrawalIds)
      /\ batches' \in [BatchNumbers -> {"none", "saved", "submitted"}]
      /\ \A n \in BatchNumbers : batches'[n] # "none" => n <= Len(roots')
  BY <1>3 DEF BatchInv
<1>5. \A n \in 1..Len(roots') : \A w \in roots'[n] :
          initBlock'[w] \in ((n - 1) * BatchSize + 1)..(n * BatchSize)
  BY <1>2, <1>3, Zenon
<1> QED  BY <1>4, <1>5, Zenon DEF BatchInv

LEMMA PassRests ==
    ASSUME PassInv, ChainGrows, RowsGrow, UNCHANGED pass
    PROVE  PassInv'
BY DEF PassInv, PassType, IsQueued, ChainGrows, RowsGrow, Paid, Payers

LEMMA ScriptRests ==
    ASSUME ScriptInv, RowsGrow, UNCHANGED script
    PROVE  ScriptInv'
BY DEF ScriptInv, RowsGrow

\* A step keeps what it does not touch.
LEMMA Composes ==
    ASSUME PipelineInv, ChainInv', ChainGrows, FaultInv', FaultsGrow, TableInv', RowsGrow,
           ListenerInv' \/ UNCHANGED <<polls, cursor, origin>>,
           SubmitInv' \/ (NoneIsQueued /\ UNCHANGED <<submit, roots>>),
           BatchInv' \/ UNCHANGED <<roots, batches>>,
           PassInv' \/ UNCHANGED pass,
           ScriptInv' \/ UNCHANGED script
    PROVE  PipelineInv'
<1> USE DEF PipelineInv
<1>1. ListenerInv'
  BY ListenerRests
<1>2. SubmitInv'
  BY SubmitRests
<1>3. BatchInv'
  BY BatchRests
<1>4. PassInv' /\ ScriptInv'
  BY PassRests, ScriptRests
<1> QED  BY <1>1, <1>2, <1>3, <1>4

\* One row becomes r.
LEMMA RowChanges ==
    ASSUME TableInv, NEW w \in WithdrawalIds, NEW r \in Row, rows' = [rows EXCEPT ![w] = r],
           UNCHANGED <<initBlock, l1>>,
           r.block = initBlock[w],
           r.queued > 0 => l1[w] # "none",
           r.finalized => r.queued > 0 /\ Paid(w),
           r.hash # NoHash => r.finalized /\ r.hash = l1[w]
    PROVE  /\ TableInv' /\ rows'[w] = r
           /\ \A v \in WithdrawalIds : v # w => rows'[v] = rows[v]
BY DEF TableInv, RowIsTrue, Paid

LEMMA RowGrows ==
    ASSUME NEW w \in WithdrawalIds, NEW r \in Row, rows'[w] = r,
           \A v \in WithdrawalIds : v # w => rows'[v] = rows[v],
           rows[w] # NoRow => /\ rows[w].queued > 0 => r.queued > 0
                              /\ rows[w].finalized => r.finalized
    PROVE  RowsGrow
BY DEF RowsGrow

----------------------------------------------------------------------------
(* The chains *)

LEMMA ChainStepKeeps ==
    ASSUME PipelineInv, ChainInv', ChainGrows, UNCHANGED <<InChains, roots>>
    PROVE  PipelineInv'
<1>1. FaultInv' /\ FaultsGrow
  BY NoFaultHappens DEF PipelineInv, InChains
<1>2. RowsGrow /\ NoneIsQueued /\ TableInv'
  BY RowsRest, TableRests DEF PipelineInv, InChains, dbVars
<1>3. UNCHANGED <<polls, cursor, origin, submit, roots, batches, pass, script>>
  BY DEF InChains, dbVars, listenerVars
<1> QED  BY <1>1, <1>2, <1>3, Composes

LEMMA BecomesKeeps ==
    ASSUME PipelineInv, NEW w \in WithdrawalIds, NEW from, NEW to,
           to \in {"due", "barred", "other"}, from \subseteq {"queued", "due"},
           Becomes(w, from, to)
    PROVE  PipelineInv'
<1>1. /\ l1[w] \in from /\ l1' = [l1 EXCEPT ![w] = to]
      /\ UNCHANGED <<InChains, l2Head, initBlock, roots>>
  BY DEF Becomes
<1>2. to \in L1States \ {"none"} /\ ~Paid(w)
  BY <1>1 DEF L1States, Paid, Payers
<1>3. ChainInv' /\ ChainGrows
  BY <1>1, <1>2, L1Moves DEF PipelineInv
<1> QED  BY <1>1, <1>3, ChainStepKeeps

LEMMA ChainNextKeeps == ASSUME PipelineInv, ChainNext PROVE PipelineInv'
<1>1. ASSUME NEW ids \in SUBSET WithdrawalIds, MineL2(ids) PROVE PipelineInv'
  <2>1. /\ l2Head < MaxL2Block /\ l2Head' = l2Head + 1
        /\ \A w \in ids : initBlock[w] = 0
        /\ initBlock' = [w \in WithdrawalIds |-> IF w \in ids THEN l2Head' ELSE initBlock[w]]
        /\ UNCHANGED <<InChains, roots, l1>>
    BY <1>1 DEF MineL2
  <2>2. ChainInv' /\ ChainGrows
    BY <2>1 DEF PipelineInv, ChainInv, ChainGrows, Paid
  <2> QED  BY <2>1, <2>2, ChainStepKeeps
<1>2. CASE Upgrade
  <2>1. UNCHANGED <<InChains, l2Head, initBlock, roots, l1>>
    BY <1>2 DEF Upgrade
  <2> QED  BY <2>1, ChainRests, ChainStepKeeps DEF PipelineInv
<1>3. ASSUME NEW w \in WithdrawalIds, FallsDue(w) \/ IsBarred(w) \/ OtherFinalizes(w)
      PROVE  PipelineInv'
  <2>1. CASE FallsDue(w)
    BY <2>1, BecomesKeeps DEF FallsDue
  <2>2. CASE IsBarred(w)
    BY <2>2, BecomesKeeps DEF IsBarred
  <2>3. CASE OtherFinalizes(w)
    BY <2>3, BecomesKeeps DEF OtherFinalizes
  <2> QED  BY <1>3, <2>1, <2>2, <2>3
<1> QED  BY <1>1, <1>2, <1>3 DEF ChainNext

----------------------------------------------------------------------------
(* The listener *)

LEMMA PollBeginsKeeps ==
    ASSUME PipelineInv, NEW p \in Polls, NEW upTo \in 0..MaxL2Block, PollBegins(p, upTo)
    PROVE  PipelineInv'
<1>1. /\ cursor < upTo /\ upTo <= l2Head /\ polls[p] = NoPoll
      /\ UNCHANGED <<InListener, cursor, origin, rows, faults>>
  BY DEF PollBegins
<1> DEFINE found == {w \in WithdrawalIds :
                        initBlock[w] # 0 /\ initBlock[w] \in (cursor + 1)..upTo}
<1>2. PICK s : s = [upTo |-> upTo, todo |-> found]
  OBVIOUS
<1>3. polls' = [polls EXCEPT ![p] = s] /\ s \in PollType
  BY <1>2 DEF PollBegins, NextBlock, PollType
<1>4. UNCHANGED <<l2Head, initBlock, l1, roots, submit, pass, script, batches>>
  BY <1>1 DEF InListener, chainVars
<1>5. ChainInv' /\ ChainGrows /\ FaultInv' /\ FaultsGrow
  BY <1>1, <1>4, ChainRests, NoFaultHappens DEF PipelineInv
<1>6. RowsGrow /\ NoneIsQueued /\ TableInv'
  BY <1>1, <1>5, RowsRest, TableRests DEF PipelineInv
<1>7. cursor \in Nat /\ origin \in Nat /\ l2Head \in Nat /\ polls \in [Polls -> PollType]
  BY DEF PipelineInv, ListenerInv, ChainInv
<1>8. polls'[p] = s /\ \A q \in Polls : q # p => polls'[q] = polls[q]
  BY <1>3, <1>7
<1>9. ASSUME NEW w \in WithdrawalIds, InHand(w) PROVE InHand(w)'
  BY <1>1, <1>8, <1>9 DEF InHand, NoPoll
<1>10. ASSUME NEW k \in Nat, StoredUpTo(k) PROVE StoredUpTo(k)'
  BY <1>1, <1>4, <1>9, <1>10 DEF StoredUpTo
<1>11. StoredUpTo(upTo)'
  <2> SUFFICES ASSUME faults'["db"] = 0, NEW w \in WithdrawalIds,
                      initBlock'[w] \in (origin' + 1)..upTo
               PROVE  rows'[w] # NoRow \/ InHand(w)'
    BY DEF StoredUpTo
  <2>1. initBlock[w] \in Nat /\ initBlock'[w] = initBlock[w]
    BY <1>4 DEF PipelineInv, ChainInv
  <2>2. CASE initBlock[w] > cursor
    <3>1. w \in s.todo
      BY <1>2, <1>7, <2>1, <2>2
    <3> QED  BY <1>8, <3>1 DEF InHand
  <2>3. CASE initBlock[w] <= cursor
    <3>1. initBlock[w] \in (origin + 1)..cursor
      BY <1>1, <1>7, <2>1, <2>3
    <3>2. rows[w] # NoRow \/ InHand(w)
      BY <1>1, <3>1 DEF PipelineInv, ListenerInv, StoredUpTo
    <3> QED  BY <1>1, <1>9, <3>2
  <2> QED  BY <1>7, <2>1, <2>2, <2>3
<1>12. ListenerInv'
  <2>1. polls' \in [Polls -> PollType]
    BY <1>3, <1>7
  <2>2. cursor' \in Nat /\ origin' \in Nat /\ cursor' <= l2Head'
    BY <1>1, <1>4 DEF PipelineInv, ListenerInv
  <2>3. StoredUpTo(cursor)'
    <3>1. StoredUpTo(cursor)
      BY DEF PipelineInv, ListenerInv
    <3> QED  BY <1>1, <1>4, <1>7, <1>9, <3>1 DEF StoredUpTo
  <2>4. ASSUME NEW q \in Polls
        PROVE  /\ polls'[q].upTo <= l2Head' /\ StoredUpTo(polls[q].upTo)'
               /\ \A w \in polls'[q].todo : initBlock'[w] # 0
    <3>1. CASE q = p
      BY <1>1, <1>2, <1>4, <1>8, <1>11, <3>1 DEF StoredUpTo
    <3>2. CASE q # p
      <4>1. /\ polls'[q] = polls[q] /\ polls[q].upTo <= l2Head /\ StoredUpTo(polls[q].upTo)
            /\ \A w \in polls[q].todo : initBlock[w] # 0
        BY <1>8, <3>2 DEF PipelineInv, ListenerInv
      <4>2. StoredUpTo(polls[q].upTo)'
        BY <1>1, <1>4, <1>9, <4>1 DEF StoredUpTo
      <4> QED  BY <1>4, <4>1, <4>2
    <3> QED  BY <3>1, <3>2
  <2> QED  BY <2>1, <2>2, <2>3, <2>4 DEF ListenerInv
<1> QED  BY <1>4, <1>5, <1>6, <1>12, Composes

\* A row that is saved is there; what was there stays.
LEMMA SaveKeepsTable ==
    ASSUME PipelineInv, NEW w \in WithdrawalIds, initBlock[w] # 0, SaveWithdrawal(w),
           UNCHANGED <<initBlock, l1>>
    PROVE  TableInv' /\ RowsGrow /\ NoneIsQueued /\ rows'[w] # NoRow
<1>1. TableInv /\ ChainInv
  BY DEF PipelineInv
<1>2. CASE rows[w] # NoRow
  <2>1. rows' = rows
    BY <1>1, <1>2 DEF SaveWithdrawal, TableInv
  <2> QED  BY <1>1, <1>2, <2>1, RowsRest DEF TableInv, RowIsTrue, Paid
<1>3. CASE rows[w] = NoRow
  <2>1. PICK r : r = [block |-> initBlock[w], queued |-> 0, finalized |-> FALSE,
                      hash |-> NoHash]
    OBVIOUS
  <2>2. r \in Row
    <3>1. initBlock[w] \in 1..MaxL2Block
      BY <1>1 DEF ChainInv
    <3> QED  BY <2>1, <3>1 DEF Row
  <2>3. rows' = [rows EXCEPT ![w] = r]
    BY <1>1, <1>3, <2>1 DEF SaveWithdrawal, TableInv
  <2>4. /\ r.block = initBlock[w] /\ ~(r.queued > 0) /\ ~r.finalized /\ r.hash = NoHash
    BY <2>1
  <2>5. /\ TableInv' /\ rows'[w] = r
        /\ \A v \in WithdrawalIds : v # w => rows'[v] = rows[v]
    BY <1>1, <2>2, <2>3, <2>4, RowChanges
  <2>6. RowsGrow
    BY <1>3, <2>2, <2>5, RowGrows
  <2>7. NoneIsQueued
    BY <1>3, <2>5 DEF NoneIsQueued
  <2>8. rows'[w] # NoRow
    BY <2>2, <2>5
  <2> QED  BY <2>5, <2>6, <2>7, <2>8
<1> QED  BY <1>2, <1>3

LEMMA HandleWithdrawalEventKeeps ==
    ASSUME PipelineInv, NEW p \in Polls, NEW w \in WithdrawalIds, HandleWithdrawalEvent(p, w)
    PROVE  PipelineInv'
<1>1. /\ w \in polls[p].todo
      /\ polls' = [polls EXCEPT ![p].todo = polls[p].todo \ {w}]
      /\ \/ SaveWithdrawal(w) /\ UNCHANGED faults
         \/ Happens("db") /\ UNCHANGED rows
      /\ UNCHANGED <<InListener, cursor, origin>>
  BY DEF HandleWithdrawalEvent
<1>2. UNCHANGED <<l2Head, initBlock, l1, roots, submit, pass, script, batches>>
  BY <1>1 DEF InListener, chainVars
<1>3. ChainInv' /\ ChainGrows
  BY <1>2, ChainRests DEF PipelineInv
<1>4. polls[p] \in PollType /\ initBlock[w] # 0
  BY <1>1 DEF PipelineInv, ListenerInv
<1>5. /\ FaultInv' /\ FaultsGrow /\ TableInv' /\ RowsGrow /\ NoneIsQueued
      /\ faults'["db"] = 0 => rows'[w] # NoRow
  <2>1. CASE SaveWithdrawal(w) /\ UNCHANGED faults
    BY <1>2, <1>4, <2>1, SaveKeepsTable, NoFaultHappens DEF PipelineInv
  <2>2. CASE Happens("db") /\ UNCHANGED rows
    BY <1>3, <2>2, FaultHappens, RowsRest, TableRests DEF PipelineInv
  <2> QED  BY <1>1, <2>1, <2>2
<1>6. PICK s : s = [upTo |-> polls[p].upTo, todo |-> polls[p].todo \ {w}]
  OBVIOUS
<1>7. s \in PollType /\ polls' = [polls EXCEPT ![p] = s]
  <2>1. PICK s0 \in PollType : s0 = polls[p]
    BY <1>4
  <2>2. s = [s0 EXCEPT !.todo = s0.todo \ {w}]
    BY <1>6, <2>1 DEF PollType
  <2>3. s \in PollType
    BY <1>6, <2>1 DEF PollType
  <2> QED  BY <1>1, <2>1, <2>2, <2>3
<1>8. /\ polls' \in [Polls -> PollType] /\ polls'[p] = s
      /\ \A q \in Polls : q # p => polls'[q] = polls[q]
  BY <1>7 DEF PipelineInv, ListenerInv
<1>9. ASSUME NEW v \in WithdrawalIds, InHand(v), v # w PROVE InHand(v)'
  <2>1. PICK q \in Polls : v \in polls[q].todo
    BY <1>9 DEF InHand
  <2>2. v \in polls'[q].todo
    BY <1>6, <1>8, <1>9, <2>1
  <2> QED  BY <2>2 DEF InHand
<1>10. \A k \in Nat : StoredUpTo(k) =>
          (faults'["db"] = 0 => \A v \in WithdrawalIds :
              initBlock'[v] \in (origin' + 1)..k => rows'[v] # NoRow \/ InHand(v)')
  <2> SUFFICES ASSUME NEW k \in Nat, StoredUpTo(k), faults'["db"] = 0,
                      NEW v \in WithdrawalIds, initBlock'[v] \in (origin' + 1)..k
               PROVE  rows'[v] # NoRow \/ InHand(v)'
    OBVIOUS
  <2>1. faults["db"] = 0
    BY <1>5 DEF FaultsGrow, FaultInv, PipelineInv
  <2>2. rows[v] # NoRow \/ InHand(v)
    BY <1>1, <1>2, <2>1 DEF StoredUpTo
  <2>3. CASE v = w
    BY <1>5, <2>3
  <2>4. CASE v # w
    BY <1>5, <1>9, <2>2, <2>4 DEF RowsGrow
  <2> QED  BY <2>3, <2>4
<1>11. ListenerInv'
  <2>1. /\ cursor' \in Nat /\ origin' \in Nat /\ cursor' <= l2Head'
        /\ cursor' = cursor /\ StoredUpTo(cursor)
    BY <1>1, <1>2 DEF PipelineInv, ListenerInv
  <2>2. StoredUpTo(cursor)'
    BY <1>10, <2>1 DEF StoredUpTo
  <2>3. ASSUME NEW q \in Polls
        PROVE  /\ polls'[q].upTo <= l2Head' /\ StoredUpTo(polls[q].upTo)'
               /\ \A v \in polls'[q].todo : initBlock'[v] # 0
    <3>1. /\ polls[q].upTo \in Nat /\ polls[q].upTo <= l2Head /\ StoredUpTo(polls[q].upTo)
          /\ \A v \in polls[q].todo : initBlock[v] # 0
      BY DEF PipelineInv, ListenerInv, PollType
    <3>2. polls'[q].upTo = polls[q].upTo /\ polls'[q].todo \subseteq polls[q].todo
      BY <1>6, <1>8
    <3>3. StoredUpTo(polls[q].upTo)'
      BY <1>10, <3>1, <3>2 DEF StoredUpTo
    <3> QED  BY <1>2, <3>1, <3>2, <3>3
  <2> QED  BY <1>8, <2>1, <2>2, <2>3 DEF ListenerInv
<1> QED  BY <1>2, <1>3, <1>5, <1>11, Composes

LEMMA PollEndsKeeps ==
    ASSUME PipelineInv, NEW p \in Polls, PollEnds(p)
    PROVE  PipelineInv'
<1>1. /\ polls[p].todo = {} /\ cursor' = polls[p].upTo
      /\ polls' = [polls EXCEPT ![p] = NoPoll]
      /\ UNCHANGED <<InListener, origin, rows, faults>>
  BY DEF PollEnds
<1>2. UNCHANGED <<l2Head, initBlock, l1, roots, submit, pass, script, batches>>
  BY <1>1 DEF InListener, chainVars
<1>3. ChainInv' /\ ChainGrows /\ FaultInv' /\ FaultsGrow
  BY <1>1, <1>2, ChainRests, NoFaultHappens DEF PipelineInv
<1>4. RowsGrow /\ NoneIsQueued /\ TableInv'
  BY <1>1, <1>3, RowsRest, TableRests DEF PipelineInv
<1>5. /\ polls' \in [Polls -> PollType] /\ polls'[p] = NoPoll
      /\ \A q \in Polls : q # p => polls'[q] = polls[q]
  BY <1>1 DEF PipelineInv, ListenerInv, PollType, NoPoll
<1>6. ASSUME NEW v \in WithdrawalIds, InHand(v) PROVE InHand(v)'
  <2>1. PICK q \in Polls : v \in polls[q].todo
    BY <1>6 DEF InHand
  <2>2. v \in polls'[q].todo
    BY <1>1, <1>5, <2>1
  <2> QED  BY <2>2 DEF InHand
<1>7. \A k : StoredUpTo(k) =>
          (faults'["db"] = 0 => \A v \in WithdrawalIds :
              initBlock'[v] \in (origin' + 1)..k => rows'[v] # NoRow \/ InHand(v)')
  BY <1>1, <1>2, <1>6 DEF StoredUpTo
<1>8. \A q \in Polls :
          /\ polls[q].upTo \in Nat /\ polls[q].upTo <= l2Head /\ StoredUpTo(polls[q].upTo)
          /\ \A v \in polls[q].todo : initBlock[v] # 0
  BY DEF PipelineInv, ListenerInv, PollType
<1>9. ListenerInv'
  <2>1. origin' \in Nat /\ origin' = origin /\ l2Head \in Nat
    BY <1>1 DEF PipelineInv, ListenerInv, ChainInv
  <2>2. cursor' \in Nat /\ cursor' <= l2Head' /\ StoredUpTo(cursor)'
    BY <1>1, <1>2, <1>7, <1>8 DEF StoredUpTo
  <2>3. ASSUME NEW q \in Polls
        PROVE  /\ polls'[q].upTo <= l2Head' /\ StoredUpTo(polls[q].upTo)'
               /\ \A v \in polls'[q].todo : initBlock'[v] # 0
    <3>1. CASE q = p
      <4>1. polls'[q].upTo = 0 /\ polls'[q].todo = {}
        BY <1>5, <3>1 DEF NoPoll
      <4>2. \A v \in WithdrawalIds : initBlock'[v] \notin (origin' + 1)..0
        BY <2>1
      <4> QED  BY <1>2, <2>1, <4>1, <4>2 DEF StoredUpTo
    <3>2. CASE q # p
      BY <1>2, <1>5, <1>7, <1>8, <3>2 DEF StoredUpTo
    <3> QED  BY <3>1, <3>2
  <2> QED  BY <1>5, <2>1, <2>2, <2>3 DEF ListenerInv
<1> QED  BY <1>2, <1>3, <1>4, <1>9, Composes

----------------------------------------------------------------------------
(* The submitter *)

\* What the submitter leaves alone, whatever fails.
LEMMA SubmitterFrame ==
    ASSUME PipelineInv, UNCHANGED InSubmitter, UNCHANGED faults \/ Happens("rpc") \/ Happens("db")
    PROVE  /\ UNCHANGED <<l2Head, initBlock, polls, cursor, origin, pass, script>>
           /\ FaultInv' /\ FaultsGrow
BY NoFaultHappens, FaultHappens DEF PipelineInv, InSubmitter, listenerVars

\* It changes only its own pass, and the batches.
LEMMA SubmitterOnly ==
    ASSUME PipelineInv, UNCHANGED <<InSubmitter, l1, rows>>,
           UNCHANGED faults \/ Happens("rpc") \/ Happens("db"),
           SubmitInv', BatchInv'
    PROVE  PipelineInv'
<1>1. /\ UNCHANGED <<l2Head, initBlock, polls, cursor, origin, pass, script>>
      /\ FaultInv' /\ FaultsGrow
  BY SubmitterFrame
<1>2. ChainInv' /\ ChainGrows
  BY <1>1, ChainRests DEF PipelineInv
<1>3. RowsGrow /\ NoneIsQueued /\ TableInv'
  BY <1>1, <1>2, RowsRest, TableRests DEF PipelineInv
<1> QED  BY <1>1, <1>2, <1>3, Composes

LEMMA NoSubmitIsGood == UNCHANGED roots /\ submit' = NoSubmit => SubmitInv'
BY DEF SubmitInv, SubmitType, NoSubmit

LEMMA SubmitBeginsKeeps == ASSUME PipelineInv, SubmitBegins PROVE PipelineInv'
<1> DEFINE range == WithdrawalsInRange(NextRotationBlock - BatchSize + 1, NextRotationBlock)
<1>1. PICK s : s = [phase |-> "send", todo |-> range, mined |-> {}]
  OBVIOUS
<1>2. submit' = s /\ UNCHANGED <<InSubmitter, roots, l1, dbVars, faults>>
  <2>1. submit' = [NoSubmit EXCEPT !.phase = "send", !.todo = range]
    BY Zenon DEF SubmitBegins
  <2>2. ASSUME NEW ids, submit' = [NoSubmit EXCEPT !.phase = "send", !.todo = ids]
        PROVE  submit' = [phase |-> "send", todo |-> ids, mined |-> {}]
    BY <2>2 DEF NoSubmit
  <2>3. submit' = s
    BY <1>1, <2>1, <2>2, Zenon
  <2> QED  BY <2>3, Zenon DEF SubmitBegins
<1>3. UNCHANGED <<initBlock, rows, batches>>
  BY <1>2 DEF InSubmitter, dbVars
<1>4. Len(roots) \in Nat
  BY DEF PipelineInv, BatchInv
<1>5. /\ NextRotationBlock - BatchSize + 1 = Len(roots) * BatchSize + 1
      /\ NextRotationBlock = (Len(roots) + 1) * BatchSize
  <2>1. ASSUME NEW n \in Nat, NEW b \in Nat PROVE (n + 1) * b - b + 1 = n * b + 1
    BY <2>1
  <2> QED  BY <1>4, <2>1 DEF NextRotationBlock, NextBatch
<1>6. ASSUME NEW w \in range
      PROVE  /\ w \in WithdrawalIds /\ rows[w] # NoRow /\ rows[w].queued = 0
             /\ InNextRange(w)
  <2>1. /\ w \in WithdrawalIds /\ rows[w] # NoRow /\ rows[w].queued = 0
        /\ rows[w].block \in (Len(roots) * BatchSize + 1)..((Len(roots) + 1) * BatchSize)
    BY <1>5, <1>6, Zenon DEF WithdrawalsInRange
  <2>2. rows[w].block = initBlock[w]
    BY <2>1 DEF PipelineInv, TableInv, RowIsTrue
  <2> QED  BY <2>1, <2>2, Zenon DEF InNextRange
<1>7. SubmitInv'
  <2>1. submit' \in SubmitType
    BY <1>1, <1>2, <1>6 DEF SubmitType
  <2>2. \A w \in submit'.todo : InNextRange(w)'
    <3>1. s.todo = range
      BY <1>1, Zenon
    <3>2. UNCHANGED <<roots, initBlock>>
      BY <1>2, <1>3
    <3> QED  BY <1>2, <1>6, <3>1, <3>2, Zenon DEF InNextRange
  <2>3. \A w \in submit'.todo : rows'[w] # NoRow /\ rows'[w].queued = 0
    <3> HIDE DEF range
    <3> QED  BY <1>1, <1>2, <1>3, <1>6
  <2>4. submit'.mined = {}
    BY <1>1, <1>2
  <2> QED  BY <2>1, <2>2, <2>3, <2>4, Zenon DEF SubmitInv
<1>8. BatchInv'
  <2>1. ChainInv /\ UNCHANGED <<l2Head, initBlock, l1, roots, batches>> /\ BatchInv
    BY <1>2, <1>3 DEF PipelineInv, InSubmitter
  <2> QED  BY <2>1, ChainRests, BatchRests
<1> QED  BY <1>2, <1>3, <1>7, <1>8, SubmitterOnly

\* The next batch commits to rows of its own range.
LEMMA NextBatchIsGood ==
    ASSUME BatchInv, NEW ids \in SUBSET WithdrawalIds, \A w \in ids : InNextRange(w),
           roots' = Append(roots, ids), UNCHANGED <<initBlock, batches>>
    PROVE  BatchInv'
<1>1. roots \in Seq(SUBSET WithdrawalIds) /\ Len(roots) \in Nat
  BY DEF BatchInv
<1>2. /\ roots' \in Seq(SUBSET WithdrawalIds) /\ Len(roots') = Len(roots) + 1
      /\ roots'[Len(roots) + 1] = ids
      /\ \A n \in 1..Len(roots) : roots'[n] = roots[n]
  BY <1>1
<1>3. ASSUME NEW n \in 1..Len(roots), NEW w \in roots'[n]
      PROVE  initBlock'[w] \in ((n - 1) * BatchSize + 1)..(n * BatchSize)
  <2>1. w \in roots[n]
    BY <1>2
  <2> QED  BY <2>1, Zenon DEF BatchInv
<1>4. ASSUME NEW n, n = Len(roots) + 1, NEW w \in roots'[n]
      PROVE  initBlock'[w] \in ((n - 1) * BatchSize + 1)..(n * BatchSize)
  <2>1. InNextRange(w) /\ UNCHANGED initBlock
    BY <1>2, <1>4
  <2>2. n - 1 = Len(roots)
    BY <1>1, <1>4
  <2> QED  BY <1>4, <2>1, <2>2, Zenon DEF InNextRange
<1>5. ASSUME NEW n \in 1..Len(roots') PROVE n \in 1..Len(roots) \/ n = Len(roots) + 1
  BY <1>1, <1>2
<1>6. \A n \in 1..Len(roots') : \A w \in roots'[n] :
          initBlock'[w] \in ((n - 1) * BatchSize + 1)..(n * BatchSize)
  BY <1>3, <1>4, <1>5, Zenon
<1>7. /\ batches' \in [BatchNumbers -> {"none", "saved", "submitted"}]
      /\ \A n \in BatchNumbers : batches'[n] # "none" => n <= Len(roots')
  <2>1. BatchNumbers \subseteq Nat
    BY DEF BatchNumbers
  <2> QED  BY <1>1, <1>2, <2>1 DEF BatchInv
<1> QED  BY <1>2, <1>6, <1>7, Zenon DEF BatchInv

LEMMA SubmitBatchKeeps == ASSUME PipelineInv, SubmitBatch PROVE PipelineInv'
<1>1. /\ submit.phase = "send" /\ UNCHANGED <<InSubmitter, l1, dbVars>>
      /\ roots' = roots \/ roots' = Append(roots, submit.todo)
      /\ submit' = NoSubmit \/ submit' = [submit EXCEPT !.phase = "queue"]
      /\ UNCHANGED faults \/ Happens("rpc")
  BY DEF SubmitBatch
<1>2. UNCHANGED <<l2Head, initBlock, rows, batches>>
  BY <1>1 DEF InSubmitter, dbVars
<1>3. BatchInv'
  <2>1. submit.todo \in SUBSET WithdrawalIds /\ \A w \in submit.todo : InNextRange(w)
    <3>1. SubmitInv
      BY DEF PipelineInv
    <3> QED  BY <1>1, <3>1, Zenon DEF SubmitInv, SubmitType
  <2>2. ChainInv' /\ ChainGrows
    BY <1>1, <1>2, ChainRests DEF PipelineInv
  <2>3. ChainInv /\ BatchInv
    BY DEF PipelineInv
  <2>4. CASE roots' = roots
    BY <1>2, <2>2, <2>3, <2>4, BatchRests
  <2>5. CASE roots' = Append(roots, submit.todo)
    BY <1>2, <2>1, <2>3, <2>5, NextBatchIsGood
  <2> QED  BY <1>1, <2>4, <2>5
<1>4. SubmitInv'
  <2>1. SubmitInv
    BY DEF PipelineInv
  <2>2. CASE submit' = NoSubmit
    BY <2>2 DEF SubmitInv, SubmitType, NoSubmit
  <2>3. CASE submit' = [submit EXCEPT !.phase = "queue"]
    <3>1. /\ submit' \in SubmitType /\ submit'.phase = "queue"
          /\ submit'.todo = submit.todo /\ submit'.mined = submit.mined
      BY <2>1, <2>3 DEF SubmitInv, SubmitType
    <3> QED  BY <1>1, <1>2, <2>1, <3>1 DEF SubmitInv
  <2> QED  BY <1>1, <2>2, <2>3
<1> QED  BY <1>1, <1>2, <1>3, <1>4, SubmitterOnly

LEMMA QueueWithdrawalOnL1Keeps ==
    ASSUME PipelineInv, NEW w \in WithdrawalIds, QueueWithdrawalOnL1(w)
    PROVE  PipelineInv'
<1>1. /\ submit.phase = "queue" /\ submit.mined = {} /\ w \in submit.todo
      /\ UNCHANGED <<InSubmitter, roots, dbVars>>
      /\ UNCHANGED faults \/ Happens("rpc")
      /\ l1' = l1 \/ (l1[w] = "none" /\ l1' = [l1 EXCEPT ![w] = "queued"])
      /\ \/ l1'[w] # "none" /\ submit' = [submit EXCEPT !.mined = {w}]
         \/ submit' = [submit EXCEPT !.todo = submit.todo \ {w}]
  BY DEF QueueWithdrawalOnL1, TakesQueueWithdrawal, PipelineInv, ChainInv
<1>2. /\ UNCHANGED <<l2Head, initBlock, polls, cursor, origin, pass, script>>
      /\ FaultInv' /\ FaultsGrow
  BY <1>1, SubmitterFrame
<1>3. ChainInv' /\ ChainGrows
  <2>1. ~Paid(w) \/ l1[w] # "none"
    BY DEF Paid, Payers
  <2>2. CASE l1' = l1
    BY <1>2, <2>2, ChainRests DEF PipelineInv
  <2>3. CASE l1[w] = "none" /\ l1' = [l1 EXCEPT ![w] = "queued"]
    BY <1>2, <2>1, <2>3, L1Moves DEF PipelineInv, L1States
  <2> QED  BY <1>1, <2>2, <2>3
<1>4. UNCHANGED <<rows, roots, batches>>
  BY <1>1 DEF dbVars
<1>5. RowsGrow /\ NoneIsQueued /\ TableInv'
  BY <1>3, <1>4, RowsRest, TableRests DEF PipelineInv
<1>6. SubmitInv'
  <2>1. SubmitInv
    BY DEF PipelineInv
  <2>2. PICK s \in SubmitType : s = submit
    BY <2>1 DEF SubmitInv
  <2>3. /\ submit'.phase = "queue" /\ submit' \in SubmitType
        /\ submit'.todo \subseteq submit.todo
        /\ \A v \in submit'.mined : v = w /\ w \in submit'.todo /\ l1'[w] # "none"
    BY <1>1, <2>2 DEF SubmitType
  <2> QED  BY <1>4, <2>1, <2>3 DEF SubmitInv
<1> QED  BY <1>2, <1>3, <1>4, <1>5, <1>6, Composes

LEMMA LastQueuedIsNatural == LastQueued \in Nat
<1>1. {w \in WithdrawalIds : IsQueued(w)} \subseteq WithdrawalIds
  OBVIOUS
<1> QED  BY <1>1, FS_Subset, FS_CardinalityType DEF LastQueued

LEMMA MarkWithdrawalQueuedKeeps ==
    ASSUME PipelineInv, NEW w \in WithdrawalIds, MarkWithdrawalQueued(w)
    PROVE  PipelineInv'
<1>1. /\ w \in submit.mined
      /\ submit' = [submit EXCEPT !.mined = {}, !.todo = submit.todo \ {w}]
      /\ \/ rows' = [rows EXCEPT ![w].queued = LastQueued + 1] /\ UNCHANGED faults
         \/ Happens("db") /\ UNCHANGED rows
      /\ UNCHANGED <<InSubmitter, roots, l1, batches>>
  BY DEF MarkWithdrawalQueued
<1>2. /\ UNCHANGED <<l2Head, initBlock, polls, cursor, origin, pass, script>>
      /\ FaultInv' /\ FaultsGrow
  BY <1>1, SubmitterFrame
<1>3. ChainInv' /\ ChainGrows
  BY <1>1, <1>2, ChainRests DEF PipelineInv
<1>4. SubmitInv /\ TableInv
  BY DEF PipelineInv
<1>5. /\ w \in submit.todo /\ l1[w] # "none"
      /\ rows[w] # NoRow /\ rows[w] \in Row /\ rows[w].queued = 0 /\ RowIsTrue(w)
  BY <1>1, <1>4 DEF SubmitInv, TableInv
<1>6. /\ TableInv' /\ RowsGrow
      /\ \A v \in WithdrawalIds : v # w => rows'[v] = rows[v]
  <2>1. CASE rows' = [rows EXCEPT ![w].queued = LastQueued + 1]
    <3>1. PICK r0 \in Row : r0 = rows[w]
      BY <1>5
    <3>2. PICK r : r = [block |-> r0.block, queued |-> LastQueued + 1,
                        finalized |-> r0.finalized, hash |-> r0.hash]
      OBVIOUS
    <3>3. /\ r \in Row /\ r.block = r0.block /\ r.queued = LastQueued + 1
          /\ r.finalized = r0.finalized /\ r.hash = r0.hash
      BY <3>2, LastQueuedIsNatural DEF Row
    <3>4. r = [r0 EXCEPT !.queued = LastQueued + 1]
      BY <3>2 DEF Row
    <3>5. rows' = [rows EXCEPT ![w] = r]
      BY <2>1, <3>1, <3>4
    <3>6. /\ r0.block = initBlock[w] /\ ~r0.finalized /\ r0.hash = NoHash
      BY <1>5, <3>1 DEF RowIsTrue, Row
    <3>7. /\ TableInv' /\ rows'[w] = r
          /\ \A v \in WithdrawalIds : v # w => rows'[v] = rows[v]
      BY <1>1, <1>2, <1>4, <1>5, <3>3, <3>5, <3>6, RowChanges
    <3>8. r.queued > 0
      BY <3>3, LastQueuedIsNatural
    <3>9. RowsGrow
      BY <3>3, <3>6, <3>1, <3>7, <3>8, RowGrows
    <3> QED  BY <3>7, <3>9
  <2>2. CASE rows' = rows
    BY <1>3, <2>2, RowsRest, TableRests DEF PipelineInv
  <2> QED  BY <1>1, <2>1, <2>2
<1>7. SubmitInv'
  <2>1. PICK s \in SubmitType : s = submit
    BY <1>4 DEF SubmitInv
  <2>2. /\ submit' \in SubmitType /\ submit'.phase = submit.phase
        /\ submit'.todo = submit.todo \ {w} /\ submit'.mined = {}
    BY <1>1, <2>1 DEF SubmitType
  <2>3. \A v \in submit'.todo : rows'[v] # NoRow /\ rows'[v].queued = 0
    BY <1>4, <1>6, <2>2 DEF SubmitInv, SubmitType
  <2>4. \A v \in submit'.mined : v \in submit'.todo /\ l1'[v] # "none"
    BY <2>2
  <2>5. submit'.phase = "send" => \A v \in submit'.todo : InNextRange(v)'
    <3>1. UNCHANGED <<roots, initBlock>>
      BY <1>1, <1>2
    <3> QED  BY <1>4, <2>2, <3>1, Zenon DEF SubmitInv, InNextRange
  <2> QED  BY <2>2, <2>3, <2>4, <2>5, Zenon DEF SubmitInv
<1> QED  BY <1>1, <1>2, <1>3, <1>6, <1>7, Composes

LEMMA SaveBatchKeeps == ASSUME PipelineInv, SaveBatch PROVE PipelineInv'
<1>1. /\ submit.todo = {} /\ submit.phase = "queue"
      /\ UNCHANGED <<InSubmitter, roots, l1, rows>>
      /\ UNCHANGED faults \/ Happens("db")
      /\ submit' = NoSubmit \/ submit' = [submit EXCEPT !.phase = "mark"]
      /\ \/ UNCHANGED batches
         \/ batches' = [batches EXCEPT ![Len(roots)] =
                           IF batches[Len(roots)] = "none" THEN "saved" ELSE batches[Len(roots)]]
  BY DEF SaveBatch
<1>2. SubmitInv /\ BatchInv
  BY DEF PipelineInv
<1>3. SubmitInv'
  <2>1. CASE submit' = NoSubmit
    BY <1>1, <2>1, NoSubmitIsGood
  <2>2. CASE submit' = [submit EXCEPT !.phase = "mark"]
    <3>1. /\ submit' \in SubmitType /\ submit'.phase = "mark"
          /\ submit'.todo = {} /\ submit'.mined = submit.mined
      BY <1>1, <1>2, <2>2 DEF SubmitInv, SubmitType
    <3> QED  BY <1>1, <1>2, <3>1 DEF SubmitInv
  <2> QED  BY <1>1, <2>1, <2>2
<1>4. BatchInv'
  <2>1. /\ batches' \in [BatchNumbers -> {"none", "saved", "submitted"}]
        /\ \A n \in BatchNumbers : batches'[n] # "none" => n <= Len(roots')
    BY <1>1, <1>2 DEF BatchInv
  <2>2. UNCHANGED <<roots, initBlock>>
    BY <1>1 DEF InSubmitter
  <2> QED  BY <1>2, <2>1, <2>2, Zenon DEF BatchInv
<1> QED  BY <1>1, <1>3, <1>4, SubmitterOnly

LEMMA MarkBatchSubmittedKeeps == ASSUME PipelineInv, MarkBatchSubmitted PROVE PipelineInv'
<1>1. /\ submit' = NoSubmit
      /\ UNCHANGED <<InSubmitter, roots, l1, rows>>
      /\ UNCHANGED faults \/ Happens("db")
      /\ UNCHANGED batches \/ batches' = [batches EXCEPT ![Len(roots)] = "submitted"]
  BY DEF MarkBatchSubmitted
<1>2. BatchInv
  BY DEF PipelineInv
<1>3. BatchInv'
  <2>1. BatchNumbers \subseteq Nat /\ Len(roots) \in Nat
    BY <1>2 DEF BatchNumbers, BatchInv
  <2>2. /\ batches' \in [BatchNumbers -> {"none", "saved", "submitted"}]
        /\ \A n \in BatchNumbers : batches'[n] # "none" => n <= Len(roots')
    BY <1>1, <1>2, <2>1 DEF BatchInv
  <2>3. UNCHANGED <<roots, initBlock>>
    BY <1>1 DEF InSubmitter
  <2> QED  BY <1>2, <2>2, <2>3, Zenon DEF BatchInv
<1> QED  BY <1>1, <1>3, NoSubmitIsGood, SubmitterOnly

LEMMA SubmitterNextKeeps == ASSUME PipelineInv, SubmitterNext PROVE PipelineInv'
BY SubmitBeginsKeeps, SubmitBatchKeeps, QueueWithdrawalOnL1Keeps, MarkWithdrawalQueuedKeeps,
   SaveBatchKeeps, MarkBatchSubmittedKeeps DEF SubmitterNext

LEMMA ListenerNextKeeps == ASSUME PipelineInv, ListenerNext PROVE PipelineInv'
BY PollBeginsKeeps, HandleWithdrawalEventKeeps, PollEndsKeeps DEF ListenerNext

----------------------------------------------------------------------------
(* The finalizer and the script *)

LEMMA FinalizerFrame ==
    ASSUME PipelineInv, UNCHANGED InFinalizer, UNCHANGED faults \/ Happens("rpc") \/ Happens("db")
    PROVE  /\ UNCHANGED <<l2Head, initBlock, roots, polls, cursor, origin, submit, script, batches>>
           /\ FaultInv' /\ FaultsGrow
BY NoFaultHappens, FaultHappens DEF PipelineInv, InFinalizer, listenerVars

\* The next row is queued, and the pass goes on without it.
LEMMA GoingOn ==
    ASSUME PassInv, RowsGrow, NEW w \in WithdrawalIds, GoesOn(w)
    PROVE  PassInv'
<1>1. PICK s \in PassType : s = pass
  BY DEF PassInv
<1>2. /\ pass' \in PassType /\ pass'.todo \subseteq pass.todo
      /\ pass'.paid = {} /\ pass'.known = {}
  BY <1>1 DEF GoesOn, PassType, NoPass
<1>3. \A v \in pass'.todo : IsQueued(v)'
  BY <1>1, <1>2 DEF PassInv, PassType, IsQueued, RowsGrow
<1> QED  BY <1>2, <1>3 DEF PassInv

LEMMA ProcessEligibleWithdrawalsKeeps ==
    ASSUME PipelineInv, ProcessEligibleWithdrawals PROVE PipelineInv'
<1>1. /\ UNCHANGED <<InFinalizer, l1, rows, faults>>
      /\ pass' = [NoPass EXCEPT !.todo = QueuedUnfinalizedWithdrawals]
  BY DEF ProcessEligibleWithdrawals
<1>2. /\ UNCHANGED <<l2Head, initBlock, roots, polls, cursor, origin, submit, script, batches>>
      /\ FaultInv' /\ FaultsGrow
  BY <1>1, FinalizerFrame
<1>3. ChainInv' /\ ChainGrows
  BY <1>1, <1>2, ChainRests DEF PipelineInv
<1>4. RowsGrow /\ NoneIsQueued /\ TableInv'
  BY <1>1, <1>3, RowsRest, TableRests DEF PipelineInv
<1>5. \A w \in QueuedUnfinalizedWithdrawals : w \in WithdrawalIds /\ IsQueued(w)
  BY DEF QueuedUnfinalizedWithdrawals, Unfinalized
<1>6. PassInv'
  <2>1. pass' \in PassType /\ pass'.todo = QueuedUnfinalizedWithdrawals
        /\ pass'.paid = {} /\ pass'.known = {}
    BY <1>1, <1>5 DEF PassType, NoPass
  <2> QED  BY <1>1, <1>5, <2>1 DEF PassInv, IsQueued
<1> QED  BY <1>2, <1>3, <1>4, <1>6, Composes

LEMMA HandleWithdrawalKeeps ==
    ASSUME PipelineInv, NEW w \in WithdrawalIds, HandleWithdrawal(w) PROVE PipelineInv'
<1>1. /\ w \in pass.todo /\ pass.paid = {} /\ pass.known = {}
      /\ UNCHANGED <<InFinalizer, rows>>
      /\ UNCHANGED faults \/ Happens("rpc")
      /\ l1' = l1 \/ (l1[w] = "due" /\ l1' = [l1 EXCEPT ![w] = "relayer"])
      /\ \/ GoesOn(w)
         \/ l1'[w] = "relayer" /\ pass' = [pass EXCEPT !.paid = {w}]
         \/ Paid(w) /\ l1' = l1 /\ pass' = [pass EXCEPT !.known = {w}]
  BY DEF HandleWithdrawal, IsNext, SaysFinalized, PipelineInv, ChainInv
<1>2. /\ UNCHANGED <<l2Head, initBlock, roots, polls, cursor, origin, submit, script, batches>>
      /\ FaultInv' /\ FaultsGrow
  BY <1>1, FinalizerFrame
<1>3. ChainInv' /\ ChainGrows
  <2>1. CASE l1' = l1
    BY <1>2, <2>1, ChainRests DEF PipelineInv
  <2>2. CASE l1[w] = "due" /\ l1' = [l1 EXCEPT ![w] = "relayer"]
    <3>1. ~Paid(w) /\ "relayer" \in L1States \ {"none"}
      BY <2>2 DEF Paid, Payers, L1States
    <3> QED  BY <1>2, <2>2, <3>1, L1Moves DEF PipelineInv
  <2> QED  BY <1>1, <2>1, <2>2
<1>4. RowsGrow /\ NoneIsQueued /\ TableInv'
  BY <1>1, <1>3, RowsRest, TableRests DEF PipelineInv
<1>5. PassInv'
  <2>1. PassInv /\ IsQueued(w)
    BY <1>1 DEF PipelineInv, PassInv
  <2>2. PICK s \in PassType : s = pass
    BY <2>1 DEF PassInv
  <2>3. \A v \in WithdrawalIds : IsQueued(v)' = IsQueued(v)
    BY <1>1 DEF IsQueued
  <2>4. CASE GoesOn(w)
    BY <1>4, <2>1, <2>4, GoingOn
  <2>5. CASE l1'[w] = "relayer" /\ pass' = [pass EXCEPT !.paid = {w}]
    <3>1. pass' \in PassType /\ pass'.todo = pass.todo /\ pass'.paid = {w} /\ pass'.known = {}
      BY <1>1, <2>2, <2>5 DEF PassType
    <3> QED  BY <2>1, <2>3, <2>5, <3>1 DEF PassInv, PassType
  <2>6. CASE Paid(w) /\ l1' = l1 /\ pass' = [pass EXCEPT !.known = {w}]
    <3>1. pass' \in PassType /\ pass'.todo = pass.todo /\ pass'.paid = {} /\ pass'.known = {w}
      BY <1>1, <2>2, <2>6 DEF PassType
    <3> QED  BY <2>1, <2>3, <2>6, <3>1 DEF PassInv, PassType, Paid
  <2> QED  BY <1>1, <2>4, <2>5, <2>6
<1> QED  BY <1>2, <1>3, <1>4, <1>5, Composes

\* A row that is marked finalized, with the hash of what paid or with none.
LEMMA FinalizedKeepsTable ==
    ASSUME TableInv, NEW w \in WithdrawalIds, IsQueued(w), Paid(w), NEW hash,
           hash = NoHash \/ hash = l1[w], Finalized(w, hash), UNCHANGED <<initBlock, l1>>
    PROVE  TableInv' /\ RowsGrow /\ NoneIsQueued
<1>1. PICK r0 \in Row : r0 = rows[w]
  BY DEF TableInv, IsQueued
<1>2. PICK h : h = IF hash = NoHash THEN r0.hash ELSE hash
  OBVIOUS
<1>3. PICK r : r = [block |-> r0.block, queued |-> r0.queued, finalized |-> TRUE, hash |-> h]
  OBVIOUS
<1>4. h \in Payers \cup {NoHash} /\ (h = NoHash \/ h = l1[w])
  BY <1>1, <1>2 DEF Row, Paid, TableInv, RowIsTrue, IsQueued
<1>5. /\ r \in Row /\ r.block = r0.block /\ r.queued = r0.queued
      /\ r.finalized /\ r.hash = h
  BY <1>1, <1>3, <1>4 DEF Row
<1>6. rows' = [rows EXCEPT ![w] = r]
  <2>1. rows \in [WithdrawalIds -> Row \cup {NoRow}]
    BY DEF TableInv
  <2>2. [[r0 EXCEPT !.finalized = TRUE] EXCEPT !.hash = h] = r
    <3>1. PICK r1 \in Row : r1 = [r0 EXCEPT !.finalized = TRUE]
      BY DEF Row
    <3>2. r1.block = r0.block /\ r1.queued = r0.queued /\ r1.finalized
      BY <3>1 DEF Row
    <3>3. [r1 EXCEPT !.hash = h] = [block |-> r1.block, queued |-> r1.queued,
                                    finalized |-> r1.finalized, hash |-> h]
      BY DEF Row
    <3>4. r1.finalized = TRUE
      BY <3>2 DEF Row
    <3> QED  BY <1>3, <3>1, <3>2, <3>3, <3>4
  <2>3. rows' = [rows EXCEPT ![w].finalized = TRUE,
                             ![w].hash = IF hash = NoHash THEN @ ELSE hash]
    BY DEF Finalized
  <2>4. /\ DOMAIN rows' = WithdrawalIds
        /\ \A v \in WithdrawalIds : v # w => rows'[v] = rows[v]
    BY <2>1, <2>3
  <2>5. rows'[w] = [[r0 EXCEPT !.finalized = TRUE] EXCEPT !.hash = h]
    BY <1>1, <1>2, <2>1, <2>3 DEF Row
  <2> QED  BY <2>1, <2>2, <2>3, <2>4, <2>5
<1>7. /\ r.block = initBlock[w] /\ r.queued > 0 /\ l1[w] # "none"
      /\ (r.hash # NoHash => r.finalized /\ r.hash = l1[w])
  BY <1>1, <1>4, <1>5 DEF TableInv, RowIsTrue, IsQueued, Paid, Payers
<1>8. /\ TableInv' /\ rows'[w] = r
      /\ \A v \in WithdrawalIds : v # w => rows'[v] = rows[v]
  BY <1>1, <1>5, <1>6, <1>7, RowChanges
<1>9. RowsGrow
  BY <1>5, <1>7, <1>8, RowGrows
<1>10. NoneIsQueued
  BY <1>1, <1>5, <1>8 DEF NoneIsQueued
<1> QED  BY <1>8, <1>9, <1>10

\* The update of a row of the pass.
LEMMA MarkKeeps ==
    ASSUME PipelineInv, NEW w \in WithdrawalIds, IsQueued(w), Paid(w), NEW hash,
           hash = NoHash \/ hash = l1[w], UNCHANGED <<InFinalizer, l1>>,
           \/ Finalized(w, hash) /\ UNCHANGED faults
           \/ Happens("db") /\ UNCHANGED rows,
           GoesOn(w) \/ pass' = NoPass
    PROVE  PipelineInv'
<1>1. /\ UNCHANGED <<l2Head, initBlock, roots, polls, cursor, origin, submit, script, batches>>
      /\ FaultInv' /\ FaultsGrow
  BY FinalizerFrame
<1>2. ChainInv' /\ ChainGrows
  BY <1>1, ChainRests DEF PipelineInv
<1>3. RowsGrow /\ NoneIsQueued /\ TableInv'
  <2>1. TableInv
    BY DEF PipelineInv
  <2>2. CASE Finalized(w, hash)
    BY <1>1, <2>1, <2>2, FinalizedKeepsTable
  <2>3. CASE UNCHANGED rows
    BY <1>2, <2>3, RowsRest, TableRests DEF PipelineInv
  <2> QED  BY <2>2, <2>3
<1>4. PassInv'
  <2>1. CASE GoesOn(w)
    BY <1>3, <2>1, GoingOn DEF PipelineInv
  <2>2. CASE pass' = NoPass
    BY <2>2 DEF PassInv, PassType, NoPass
  <2> QED  BY <2>1, <2>2
<1> QED  BY <1>1, <1>2, <1>3, <1>4, Composes

LEMMA FinalizerNextKeeps == ASSUME PipelineInv, FinalizerNext PROVE PipelineInv'
<1>1. ASSUME NEW w \in WithdrawalIds, MarkFinalized(w) PROVE PipelineInv'
  <2>1. /\ w \in pass.paid /\ GoesOn(w) /\ UNCHANGED <<InFinalizer, l1>>
        /\ \/ Finalized(w, "relayer") /\ UNCHANGED faults
           \/ Happens("db") /\ UNCHANGED rows
    BY <1>1 DEF MarkFinalized
  <2>2. IsQueued(w) /\ l1[w] = "relayer" /\ Paid(w)
    BY <2>1 DEF PipelineInv, PassInv, Paid, Payers
  <2> QED  BY <2>1, <2>2, MarkKeeps
<1>2. ASSUME NEW w \in WithdrawalIds, SyncFinalized(w) PROVE PipelineInv'
  <2>1. /\ w \in pass.known /\ UNCHANGED <<InFinalizer, l1>>
        /\ GoesOn(w) \/ pass' = NoPass
        /\ \/ Finalized(w, NoHash) /\ UNCHANGED faults
           \/ Happens("db") /\ UNCHANGED rows
    BY <1>2 DEF SyncFinalized
  <2>2. IsQueued(w) /\ Paid(w)
    BY <2>1 DEF PipelineInv, PassInv
  <2> QED  BY <2>1, <2>2, MarkKeeps
<1> QED
  BY <1>1, <1>2, ProcessEligibleWithdrawalsKeeps, HandleWithdrawalKeeps DEF FinalizerNext

LEMMA ScriptNextKeeps == ASSUME PipelineInv, ScriptNext PROVE PipelineInv'
<1>1. UNCHANGED InScript
  BY DEF ScriptNext, BackfillBegins, BackfillUpdates, BackfillEnds
<1>2. UNCHANGED <<l2Head, initBlock, roots, l1, polls, cursor, origin, submit, pass, batches>>
  BY <1>1 DEF InScript, chainVars, listenerVars
<1>3. ChainInv' /\ ChainGrows /\ FaultInv' /\ FaultsGrow
  BY <1>1, <1>2, ChainRests, NoFaultHappens DEF PipelineInv, InScript
<1>4. ASSUME UNCHANGED rows,
             \A w \in script' : w \in WithdrawalIds /\ rows[w] # NoRow /\ rows[w].finalized
      PROVE  PipelineInv'
  <2>1. RowsGrow /\ NoneIsQueued /\ TableInv'
    BY <1>3, <1>4, RowsRest, TableRests DEF PipelineInv
  <2>2. ScriptInv'
    BY <1>4 DEF ScriptInv
  <2> QED  BY <1>2, <1>3, <2>1, <2>2, Composes
<1>5. CASE BackfillBegins
  BY <1>4, <1>5 DEF BackfillBegins, MissingFinalizations
<1>6. CASE BackfillEnds
  BY <1>4, <1>6 DEF BackfillEnds
<1>7. ASSUME NEW w \in WithdrawalIds, BackfillUpdates(w) PROVE PipelineInv'
  <2>1. /\ w \in script /\ Paid(w) /\ script' = script \ {w}
        /\ rows' = [rows EXCEPT ![w].hash = l1[w]]
    BY <1>7 DEF BackfillUpdates
  <2>2. TableInv /\ ScriptInv /\ rows[w] # NoRow /\ rows[w].finalized /\ rows[w] \in Row
    BY <2>1 DEF PipelineInv, ScriptInv, TableInv
  <2>3. PICK r0 \in Row : r0 = rows[w]
    BY <2>2
  <2>4. PICK r : r = [block |-> r0.block, queued |-> r0.queued, finalized |-> r0.finalized,
                      hash |-> l1[w]]
    OBVIOUS
  <2>5. /\ r \in Row /\ r.block = r0.block /\ r.queued = r0.queued
        /\ r.finalized = r0.finalized /\ r.hash = l1[w]
    BY <2>1, <2>4 DEF Row, Paid
  <2>6. rows' = [rows EXCEPT ![w] = r]
    <3>1. r = [r0 EXCEPT !.hash = l1[w]]
      BY <2>4 DEF Row
    <3> QED  BY <2>1, <2>3, <3>1
  <2>7. r.block = initBlock[w] /\ r.queued > 0 /\ r.finalized /\ l1[w] # "none"
    BY <2>1, <2>2, <2>3, <2>5 DEF TableInv, RowIsTrue, Paid, Payers
  <2>8. /\ TableInv' /\ rows'[w] = r
        /\ \A v \in WithdrawalIds : v # w => rows'[v] = rows[v]
    BY <1>2, <2>1, <2>2, <2>5, <2>6, <2>7, RowChanges
  <2>9. RowsGrow
    BY <2>5, <2>7, <2>8, RowGrows
  <2>10. NoneIsQueued
    BY <2>3, <2>5, <2>8 DEF NoneIsQueued
  <2>11. ScriptInv'
    BY <2>1, <2>2, <2>9 DEF ScriptInv, RowsGrow
  <2> QED  BY <1>2, <1>3, <2>8, <2>9, <2>10, <2>11, Composes
<1> QED  BY <1>5, <1>6, <1>7 DEF ScriptNext

----------------------------------------------------------------------------
(* The process *)

LEMMA RipenKeeps == ASSUME PipelineInv, NEW w \in WithdrawalIds, Ripen(w) PROVE PipelineInv'
<1>1. UNCHANGED <<l2Head, initBlock, l1, InChains, roots>>
  BY DEF Ripen, chainVars
<1> QED  BY <1>1, ChainRests, ChainStepKeeps DEF PipelineInv

LEMMA CrashKeeps == ASSUME PipelineInv, Crash PROVE PipelineInv'
<1>1. /\ cursor' = 0 /\ origin' = 0 /\ polls' = [p \in Polls |-> NoPoll]
      /\ submit' = NoSubmit /\ pass' = NoPass /\ Happens("crash")
      /\ UNCHANGED <<l2Head, initBlock, roots, l1, rows, batches, script>>
  BY DEF Crash, chainVars, dbVars
<1>2. ChainInv' /\ ChainGrows /\ FaultInv' /\ FaultsGrow
  BY <1>1, ChainRests, FaultHappens DEF PipelineInv
<1>3. RowsGrow /\ TableInv'
  BY <1>1, <1>2, RowsRest, TableRests DEF PipelineInv
<1>4. ListenerInv'
  <2>1. l2Head' \in Nat
    BY <1>2 DEF ChainInv
  <2> QED  BY <1>1, <2>1 DEF ListenerInv, PollType, NoPoll, StoredUpTo
<1>5. SubmitInv'
  BY <1>1, NoSubmitIsGood
<1>6. PassInv'
  BY <1>1 DEF PassInv, PassType, NoPass
<1> QED  BY <1>1, <1>2, <1>3, <1>4, <1>5, <1>6, Composes

\* A listener that starts has nothing behind it.
LEMMA StartKeeps == ASSUME PipelineInv, Start PROVE PipelineInv'
<1>1. /\ cursor' = l2Head /\ origin' = l2Head
      /\ UNCHANGED <<l2Head, initBlock, roots, l1, polls, submit, pass, script, rows, batches,
                     faults>>
  BY DEF Start, chainVars, dbVars
<1>2. ChainInv' /\ ChainGrows /\ FaultInv' /\ FaultsGrow
  BY <1>1, ChainRests, NoFaultHappens DEF PipelineInv
<1>3. RowsGrow /\ NoneIsQueued /\ TableInv'
  BY <1>1, <1>2, RowsRest, TableRests DEF PipelineInv
<1>4. ListenerInv'
  <2>1. l2Head \in Nat
    BY DEF PipelineInv, ChainInv
  <2>2. ASSUME NEW k \in Nat, k <= l2Head
        PROVE  faults'["db"] = 0 => \A w \in WithdrawalIds :
                   initBlock'[w] \in (origin' + 1)..k => rows'[w] # NoRow \/ InHand(w)'
    BY <1>1, <2>1, <2>2
  <2>3. \A p \in Polls : /\ polls[p].upTo \in Nat /\ polls[p].upTo <= l2Head
                         /\ \A w \in polls[p].todo : initBlock[w] # 0
    BY DEF PipelineInv, ListenerInv, PollType
  <2>4. StoredUpTo(cursor)'
    BY <1>1, <2>1, <2>2 DEF StoredUpTo
  <2>5. \A p \in Polls : StoredUpTo(polls[p].upTo)'
    BY <1>1, <2>2, <2>3 DEF StoredUpTo
  <2> QED  BY <1>1, <2>1, <2>3, <2>4, <2>5 DEF ListenerInv, PipelineInv
<1> QED  BY <1>1, <1>2, <1>3, <1>4, Composes

LEMMA PipelineInvStep ==
    PipelineInv /\ [WithdrawalNext]_withdrawalVars => PipelineInv'
<1> SUFFICES ASSUME PipelineInv, [WithdrawalNext]_withdrawalVars PROVE PipelineInv'
  OBVIOUS
<1>1. CASE UNCHANGED withdrawalVars
  <2>1. UNCHANGED <<l2Head, initBlock, l1, InChains, roots>>
    BY <1>1 DEF withdrawalVars, chainVars, InChains
  <2> QED  BY <2>1, ChainRests, ChainStepKeeps DEF PipelineInv
<1>2. CASE WithdrawalNext
  BY <1>2, ChainNextKeeps, RipenKeeps, ListenerNextKeeps, SubmitterNextKeeps,
     FinalizerNextKeeps, ScriptNextKeeps, CrashKeeps, StartKeeps DEF WithdrawalNext
<1> QED  BY <1>1, <1>2

LEMMA PipelineInvHolds == WithdrawalSpec => []PipelineInv
BY PipelineInvInit, PipelineInvStep, PTL DEF WithdrawalSpec

----------------------------------------------------------------------------
\* saveWithdrawal, markWithdrawalQueued, markWithdrawalFinalized and the
\* script write of L1 only what is true of it: for any number of withdrawals,
\* overlapping polls, faults and crashes.
THEOREM MarksAlwaysFollowL1 == WithdrawalSpec => []MarksFollowL1
<1>1. PipelineInv => MarksFollowL1
  BY DEF PipelineInv, TableInv, RowIsTrue, MarksFollowL1
<1> QED  BY <1>1, PipelineInvHolds, PTL

\* pollForWithdrawals passes over no event as long as every insert works:
\* for any number of overlapping polls and any number of restarts.
THEOREM PollsNeverLeaveGap == WithdrawalSpec => []PollsLeaveNoGap
<1>1. PipelineInv => PollsLeaveNoGap
  BY DEF PipelineInv, ListenerInv, StoredUpTo, InHand, PollsLeaveNoGap
<1> QED  BY <1>1, PipelineInvHolds, PTL

----------------------------------------------------------------------------
\* A set of natural numbers up to k has a least and a greatest element.
LEMMA LeastExists ==
    ASSUME NEW T, T \subseteq Nat, T # {}
    PROVE  \E x \in T : \A y \in T : x <= y
<1> DEFINE R == OpToRel(<, Nat)
<1>1. IsWellFoundedOn(R, Nat)
  BY NatLessThanWellFounded
<1>2. \A x, y \in Nat : <<y, x>> \in R <=> y < x
  BY DEF OpToRel
<1> HIDE DEF R
<1>3. PICK x \in T : \A y \in T : ~(<<y, x>> \in R)
  BY <1>1, WFMin
<1>4. \A y \in T : ~(y < x)
  BY <1>2, <1>3
<1>5. \A y \in T : x <= y
  BY <1>4
<1> QED  BY <1>5

LEMMA GreatestExists ==
    ASSUME NEW S, NEW k \in Nat, S \subseteq 0..k, S # {}
    PROVE  \E x \in S : \A y \in S : x >= y
<1> DEFINE T == {n \in Nat : k - n \in S}
<1>1. T \subseteq Nat
  OBVIOUS
<1>2. T # {}
  <2>1. PICK x \in S : TRUE
    OBVIOUS
  <2>2. x \in 0..k /\ k - x \in Nat /\ k - (k - x) = x
    BY <2>1
  <2>3. k - x \in T
    BY <2>1, <2>2
  <2> QED  BY <2>3
<1>3. PICK t \in T : \A u \in T : t <= u
  <2> HIDE DEF T
  <2> QED  BY <1>1, <1>2, LeastExists
<1>4. ASSUME NEW y \in S PROVE k - t >= y
  <2>1. y \in 0..k /\ k - y \in Nat /\ k - (k - y) = y
    BY <1>4
  <2>2. k - y \in T
    BY <1>4, <2>1
  <2> QED  BY <1>3, <2>1, <2>2
<1>5. k - t \in S
  BY <1>3
<1> QED  BY <1>4, <1>5

\* saveBatch and markBatchSubmitted follow the root on L1, and
\* getWithdrawalsInRange gives no withdrawal to two roots: for any batch size
\* and any heights.
THEOREM BatchesAlwaysFollowL1 == WithdrawalSpec => []BatchesFollowL1
<1>1. ASSUME PipelineInv PROVE BatchesFollowL1
  <2>1. BatchInv /\ Len(roots) \in Nat /\ DOMAIN roots = 1..Len(roots)
    BY <1>1 DEF PipelineInv, BatchInv
  <2> DEFINE S == {0} \cup {n \in BatchNumbers : batches[n] = "submitted"}
  <2>2. \A n \in S : n \in 0..Len(roots)
    BY <2>1 DEF BatchInv, BatchNumbers
  <2>3. Max(S) \in S
    <3>1. S # {} /\ S \subseteq 0..Len(roots)
      BY <2>2
    <3> HIDE DEF S
    <3>2. \E x \in S : \A y \in S : x >= y
      BY <2>1, <3>1, GreatestExists
    <3> QED  BY <3>2, Zenon DEF Max
  <2>4. PICK m \in 0..Len(roots) : m = Max(S)
    BY <2>2, <2>3
  <2>5. BatchSize * m <= Len(roots) * BatchSize
    <3>1. ASSUME NEW a \in Nat, NEW b \in Nat, NEW c \in Nat, a <= b PROVE c * a <= b * c
      BY <3>1
    <3> QED  BY <2>1, <2>4, <3>1
  <2>6. LastSubmittedBlock <= Len(roots) * BatchSize
    BY <2>4, <2>5, Zenon DEF LastSubmittedBlock
  <2> QED  BY <2>1, <2>6, Zenon DEF BatchInv, BatchesFollowL1
<1> QED  BY <1>1, PipelineInvHolds, PTL
=============================================================================
