--------------------------- MODULE DepositProofs ---------------------------
(***************************************************************************)
(* A deposit is credited once at most, a row is marked only if its deposit *)
(* was credited, and a backfill passes a deposit over in no way but the    *)
(* three that are counted: for any deposits, number of passes, list limit, *)
(* lookback, chunks and faults.                                            *)
(***************************************************************************)
EXTENDS Deposits, WellFoundedInduction, TLAPS

USE L2BridgeAssumption, DepositPipelineAssumption

\* Whatever an id stands in (the wire, a backfill, a row, a pass, a transaction
\* on L2), its deposit was made on L1.
OnL1(ids) == \A id \in ids : id \in DepositIds /\ depositBlock[id] # 0
AreCredited(ids) == \A id \in ids : id \in DepositIds /\ credits[id] = 1

Backfilled(f) ==
    /\ f = [phase |-> f.phase, latest |-> f.latest, next |-> f.next, todo |-> f.todo]
    /\ OnL1(f.todo)
PassType == [todo : SUBSET DepositIds, sent : SUBSET DepositIds, done : SUBSET DepositIds]
Processed(s) ==
    /\ s \in PassType
    /\ OnL1(s.todo) /\ OnL1(s.sent) /\ AreCredited(s.done)

CreditInv ==
    /\ credits \in [DepositIds -> {0, 1}]
    /\ \A id \in DepositIds : credits[id] = 1 <=> id \in processedDeposits
    /\ OnL1(processedDeposits)

L1Inv == l1Head \in Nat /\ depositBlock \in [DepositIds -> Nat]

ListenerInv ==
    /\ OnL1(live)
    /\ Backfilled(backfill)

RowInv ==
    /\ rows = [id \in DepositIds |-> rows[id]]
    /\ \A id \in DepositIds : rows[id] # NoRow =>
          depositBlock[id] # 0 /\ (rows[id].processed => credits[id] = 1)

ProcessorInv ==
    /\ passes = [p \in Passes |-> passes[p]]
    /\ \A p \in Passes : Processed(passes[p])
    /\ OnL1(orphans)

DepositInv == CreditInv /\ L1Inv /\ ListenerInv /\ RowInv /\ ProcessorInv

----------------------------------------------------------------------------
LEMMA DepositInvInit == DepositInit => DepositInv
BY DEF DepositInit, PipelineInit, L2Init, DepositInv, CreditInv, L1Inv, ListenerInv, RowInv,
   ProcessorInv, OnL1, AreCredited, Backfilled, Processed, PassType, NoBackfill, NoPass

\* What was made on L1 and what was credited stays so.
Grows ==
    /\ \A id \in DepositIds : depositBlock[id] # 0 => depositBlock'[id] # 0
    /\ \A id \in DepositIds : credits[id] = 1 => credits'[id] = 1

LEMMA OnL1Stays ==
    ASSUME Grows, NEW ids, OnL1(ids)
    PROVE  \A id \in ids : id \in DepositIds /\ depositBlock'[id] # 0
BY DEF Grows, OnL1

LEMMA ListenerRests ==
    ASSUME ListenerInv, Grows, UNCHANGED <<live, backfill>>
    PROVE  ListenerInv'
BY DEF ListenerInv, Backfilled, OnL1, Grows

LEMMA ProcessorRests ==
    ASSUME ProcessorInv, Grows, UNCHANGED <<passes, orphans>>
    PROVE  ProcessorInv'
BY DEF ProcessorInv, Processed, OnL1, AreCredited, Grows

LEMMA RowsRest ==
    ASSUME RowInv, Grows, UNCHANGED rows
    PROVE  RowInv'
BY DEF RowInv, Grows

\* Nothing but the listener's, the processor's or the chains' own variables.
LEMMA NothingMoves == UNCHANGED <<credits, depositBlock>> => Grows
BY DEF Grows

LEMMA CreditsRest ==
    ASSUME CreditInv, L1Inv, UNCHANGED <<depositVars, l1Vars>>
    PROVE  CreditInv' /\ L1Inv' /\ Grows
BY DEF CreditInv, L1Inv, OnL1, depositVars, l1Vars, Grows

\* processDeposit on L2
LEMMA CreditKeeps ==
    ASSUME CreditInv, L1Inv, NEW id \in DepositIds, depositBlock[id] # 0,
           ProcessDeposit(Wallet, id), UNCHANGED l1Vars
    PROVE  CreditInv' /\ L1Inv' /\ Grows /\ credits'[id] = 1
<1>0. /\ credits' = [credits EXCEPT ![id] = credits[id] + 1]
      /\ processedDeposits' = processedDeposits \cup {id} /\ id \notin processedDeposits
  BY DEF ProcessDeposit, MayCredit
<1>1. credits[id] = 0 /\ credits' = [credits EXCEPT ![id] = 1]
  <2>1. credits[id] \in {0, 1} /\ credits[id] # 1
    BY <1>0 DEF CreditInv
  <2>2. credits[id] = 0 /\ credits[id] + 1 = 1
    BY <2>1
  <2> QED  BY <1>0, <2>2
<1>2. UNCHANGED <<l1Head, depositBlock>>
  BY DEF l1Vars
<1>3. CreditInv'
  BY <1>0, <1>1, <1>2 DEF CreditInv, OnL1
<1> QED  BY <1>1, <1>2, <1>3 DEF CreditInv, L1Inv, Grows

\* A transaction on L2 takes effect or not; neither takes a credit back.
LEMMA MinedKeeps ==
    ASSUME CreditInv, L1Inv, NEW id \in DepositIds, depositBlock[id] # 0,
           ProcessDeposit(Wallet, id) \/ UNCHANGED l2Vars, UNCHANGED l1Vars
    PROVE  CreditInv' /\ L1Inv' /\ Grows
<1>1. CASE ProcessDeposit(Wallet, id)
  BY <1>1, CreditKeeps
<1>2. CASE UNCHANGED l2Vars
  BY <1>2, CreditsRest DEF l2Vars
<1> QED  BY <1>1, <1>2

----------------------------------------------------------------------------
(* L1 and the listener *)

LEMMA MineL1Keeps ==
    ASSUME DepositInv, NEW ids \in SUBSET DepositIds, MineL1(ids)
    PROVE  DepositInv'
<1>1. /\ l1Head \in Nat /\ l1Head' = l1Head + 1 /\ UNCHANGED <<credits, processedDeposits>>
      /\ depositBlock' = [id \in DepositIds |-> IF id \in ids THEN l1Head' ELSE depositBlock[id]]
  BY DEF MineL1, DepositInv, L1Inv, l2Vars, depositVars
<1>2. Grows /\ L1Inv'
  BY <1>1 DEF Grows, DepositInv, L1Inv
<1>3. CreditInv'
  BY <1>1, <1>2 DEF DepositInv, CreditInv, OnL1, Grows
<1>4. OnL1(live)'
  <2>1. OnL1(ids)'
    BY <1>1 DEF OnL1
  <2>2. live' \subseteq live \cup ids
    BY DEF MineL1
  <2>3. \A id \in live : id \in DepositIds /\ depositBlock'[id] # 0
    BY <1>2, OnL1Stays DEF DepositInv, ListenerInv
  <2> QED  BY <2>1, <2>2, <2>3 DEF OnL1
<1>5. ListenerInv'
  <2>1. backfill' = backfill
    BY DEF MineL1
  <2> QED  BY <1>2, <1>4, <2>1 DEF DepositInv, ListenerInv, Backfilled, OnL1, Grows
<1>6. RowInv' /\ ProcessorInv'
  BY <1>2, RowsRest, ProcessorRests DEF MineL1, DepositInv, processorVars
<1> QED  BY <1>2, <1>3, <1>5, <1>6 DEF DepositInv

\* The listener leaves chains and processor alone and adds rows of deposits.
LEMMA ListenerStepKeeps ==
    ASSUME DepositInv, UNCHANGED <<l2Vars, l1Vars, processorVars>>, ListenerInv', RowInv'
    PROVE  DepositInv'
<1>1. CreditInv' /\ L1Inv' /\ Grows
  BY CreditsRest DEF DepositInv, l2Vars
<1> QED  BY <1>1, ProcessorRests DEF DepositInv, processorVars

LEMMA SaveKeeps ==
    ASSUME DepositInv, UNCHANGED <<l2Vars, l1Vars>>, NEW id, OnL1({id}), NEW block,
           Save(id, block) \/ UNCHANGED rows
    PROVE  RowInv'
<1>1. CreditInv' /\ L1Inv' /\ Grows
  BY CreditsRest DEF DepositInv, l2Vars
<1>2. CASE UNCHANGED rows
  BY <1>1, <1>2, RowsRest DEF DepositInv
<1>3. CASE Save(id, block)
  <2>1. /\ id \in DepositIds /\ depositBlock'[id] # 0
        /\ rows' = [rows EXCEPT ![id] = IF @ = NoRow THEN [block |-> block, processed |-> FALSE]
                                                  ELSE @]
    BY <1>1, <1>3 DEF OnL1, Save, Grows
  <2>2. rows' = [d \in DepositIds |-> rows'[d]]
    BY <2>1 DEF DepositInv, RowInv
  <2>3. ASSUME NEW d \in DepositIds, rows'[d] # NoRow
        PROVE  depositBlock'[d] # 0 /\ (rows'[d].processed => credits'[d] = 1)
    <3>1. CASE rows'[d] = rows[d]
      BY <1>1, <2>3, <3>1 DEF DepositInv, RowInv, Grows
    <3>2. CASE rows'[d] # rows[d]
      <4>1. d = id /\ rows'[d] = [block |-> block, processed |-> FALSE]
        BY <2>1, <3>2 DEF DepositInv, RowInv
      <4> QED  BY <2>1, <4>1
    <3> QED  BY <3>1, <3>2
  <2> QED  BY <2>2, <2>3 DEF RowInv
<1> QED  BY <1>2, <1>3

LEMMA LiveEventKeeps ==
    ASSUME DepositInv, NEW id \in DepositIds, LiveEvent(id)
    PROVE  DepositInv'
<1>1. UNCHANGED <<l2Vars, l1Vars, processorVars, backfill, depositBlock>>
  BY DEF LiveEvent, l1Vars
<1>2. OnL1({id}) /\ (Save(id, 0) \/ UNCHANGED rows)
  BY DEF LiveEvent, LiveBlock, DepositInv, ListenerInv, OnL1
<1>3. RowInv'
  BY <1>1, <1>2, SaveKeeps
<1>4. ListenerInv'
  BY <1>1 DEF LiveEvent, DepositInv, ListenerInv, OnL1, Backfilled
<1> QED  BY <1>1, <1>3, <1>4, ListenerStepKeeps

\* The backfill becomes f.
LEMMA BackfillGoesOn ==
    ASSUME DepositInv, NEW f, Backfilled(f), UNCHANGED <<depositBlock, live>>, backfill' = f
    PROVE  ListenerInv'
BY DEF DepositInv, ListenerInv, Backfilled, OnL1

LEMMA NoBackfillIsGood == Backfilled(NoBackfill)
BY DEF NoBackfill, Backfilled, OnL1

LEMMA RowsStay ==
    ASSUME DepositInv, UNCHANGED <<l2Vars, l1Vars, rows>>
    PROVE  RowInv'
BY CreditsRest, RowsRest DEF DepositInv, l2Vars

LEMMA StartKeeps ==
    ASSUME DepositInv, Start
    PROVE  DepositInv'
<1>1. UNCHANGED <<l2Vars, l1Vars, processorVars, depositBlock, live, rows>>
  BY DEF Start, l1Vars
<1>2. PICK f : f = [NoBackfill EXCEPT !.phase = "head"]
  OBVIOUS
<1>3. Backfilled(f)
  BY <1>2 DEF NoBackfill, Backfilled, OnL1
<1>4. backfill' = f
  BY <1>2 DEF Start
<1> QED  BY <1>1, <1>3, <1>4, BackfillGoesOn, RowsStay, ListenerStepKeeps

LEMMA RestIsGood ==
    ASSUME NEW f, Backfilled(f)
    PROVE  Backfilled(Rest(f))
BY NoBackfillIsGood DEF Rest

LEMMA BackfillEventKeeps ==
    ASSUME DepositInv, NEW id \in DepositIds, BackfillEvent(id)
    PROVE  DepositInv'
<1>1. UNCHANGED <<l2Vars, l1Vars, processorVars, depositBlock, live>>
  BY DEF BackfillEvent, InBackfill, l1Vars
<1>2. Backfilled(backfill)
  BY DEF DepositInv, ListenerInv
<1>3. PICK f : f = [backfill EXCEPT !.todo = backfill.todo \ {id}]
  OBVIOUS
<1>4. Backfilled(Rest(f))
  <2>1. Backfilled(f)
    BY <1>2, <1>3 DEF Backfilled, OnL1
  <2> QED  BY <2>1, RestIsGood
<1>5. backfill' = Rest(f)
  BY <1>3 DEF BackfillEvent
<1>6. OnL1({id}) /\ (Save(id, depositBlock[id]) \/ UNCHANGED rows)
  BY <1>2 DEF BackfillEvent, Backfilled, OnL1
<1>7. PICK block : block = depositBlock[id]
  OBVIOUS
<1>8. Save(id, block) \/ UNCHANGED rows
  BY <1>6, <1>7
<1>9. RowInv'
  BY <1>1, <1>6, <1>8, SaveKeeps
<1> QED  BY <1>1, <1>4, <1>5, <1>9, BackfillGoesOn, ListenerStepKeeps

LEMMA ListenerNextKeeps ==
    ASSUME DepositInv, ListenerNext
    PROVE  DepositInv'
<1>1. CASE Subscribe
  <2>1. UNCHANGED <<l2Vars, l1Vars, processorVars, depositBlock, live, backfill, rows>>
    BY <1>1 DEF Subscribe, l1Vars
  <2>2. ListenerInv'
    BY <2>1 DEF DepositInv, ListenerInv, Backfilled, OnL1
  <2> QED  BY <2>1, <2>2, RowsStay, ListenerStepKeeps
<1>2. CASE BackfillHead \/ BackfillFrom \/ BackfillQuery \/ BackfillFails
  <2>1. UNCHANGED <<l2Vars, l1Vars, processorVars, depositBlock, live, rows>>
    BY <1>2
       DEF BackfillHead, BackfillFrom, BackfillQuery, BackfillFails, InBackfill, l1Vars
  <2>2. Backfilled(backfill)
    BY DEF DepositInv, ListenerInv
  <2>3. \E f : Backfilled(f) /\ backfill' = f
    <3>1. CASE BackfillHead
      <4>1. PICK f : f = [backfill EXCEPT !.phase = "last", !.latest = l1Head]
        OBVIOUS
      <4>2. Backfilled(f)
        BY <2>2, <4>1 DEF Backfilled
      <4> QED  BY <3>1, <4>1, <4>2 DEF BackfillHead
    <3>2. CASE BackfillFrom
      <4> DEFINE from == FromBlock(LastDepositBlock, backfill.latest)
      <4> HIDE DEF from
      <4>1. PICK f : f = [backfill EXCEPT !.phase = "scan", !.next = from]
        OBVIOUS
      <4>2. Backfilled(f)
        BY <2>2, <4>1 DEF Backfilled
      <4>3. backfill' = NoBackfill \/ backfill' = f
        BY <3>2, <4>1 DEF BackfillFrom, from
      <4> QED  BY <4>2, <4>3, NoBackfillIsGood
    <3>3. CASE BackfillQuery
      <4> DEFINE end == Min({backfill.next + Step - 1, backfill.latest})
                 found == {id \in DepositIds :
                     depositBlock[id] # 0 /\ depositBlock[id] \in backfill.next..end}
      <4>1. OnL1(found)
        BY DEF OnL1
      <4> HIDE DEF end, found
      <4>2. PICK f : f = [backfill EXCEPT !.next = end + 1, !.todo = found]
        OBVIOUS
      <4>3. Backfilled(f)
        BY <2>2, <4>1, <4>2 DEF Backfilled
      <4>4. Backfilled(Rest(f))
        BY <4>3, RestIsGood
      <4>5. backfill' = Rest(f)
        BY <3>3, <4>2 DEF BackfillQuery, end, found
      <4> QED  BY <4>4, <4>5
    <3>4. CASE BackfillFails
      BY <3>4, NoBackfillIsGood DEF BackfillFails
    <3> QED  BY <1>2, <3>1, <3>2, <3>3, <3>4
  <2> QED  BY <2>1, <2>3, BackfillGoesOn, RowsStay, ListenerStepKeeps
<1> QED  BY <1>1, <1>2, LiveEventKeeps, BackfillEventKeeps DEF ListenerNext

----------------------------------------------------------------------------
(* The processor *)

\* One pass becomes s.
LEMMA PassGoesOn ==
    ASSUME ProcessorInv, Grows, NEW p \in Passes, NEW s,
           s \in PassType, OnL1(s.todo), OnL1(s.sent), AreCredited(s.done)',
           passes' = [passes EXCEPT ![p] = s], OnL1(orphans)'
    PROVE  ProcessorInv'
<1>1. passes' = [q \in Passes |-> passes'[q]]
  BY DEF ProcessorInv
<1>2. ASSUME NEW q \in Passes PROVE Processed(passes[q])'
  <2>1. CASE q = p
    <3>1. passes'[q] = s
      BY <2>1 DEF ProcessorInv
    <3>2. /\ \A id \in s.todo : id \in DepositIds /\ depositBlock'[id] # 0
          /\ \A id \in s.sent : id \in DepositIds /\ depositBlock'[id] # 0
      BY OnL1Stays
    <3> QED  BY <3>1, <3>2 DEF Processed, OnL1, AreCredited
  <2>2. CASE q # p
    BY <2>2 DEF ProcessorInv, Processed, OnL1, AreCredited, Grows
  <2> QED  BY <2>1, <2>2
<1> QED  BY <1>1, <1>2 DEF ProcessorInv

\* The processor leaves L1 and the listener alone.
LEMMA ProcessorStepKeeps ==
    ASSUME DepositInv, UNCHANGED InPass, CreditInv', L1Inv', Grows, RowInv', ProcessorInv'
    PROVE  DepositInv'
BY ListenerRests DEF DepositInv, InPass, listenerVars

LEMMA PassIsGood ==
    ASSUME DepositInv, NEW p \in Passes
    PROVE  Processed(passes[p]) /\ OnL1(orphans)
BY DEF DepositInv, ProcessorInv

\* A pass that goes on to its next row.
LEMMA GoesOnKeeps ==
    ASSUME DepositInv, Grows, NEW p \in Passes, NEW id, GoesOn(p, id),
           OnL1(orphans)'
    PROVE  ProcessorInv'
<1>1. PICK s : s = [NoPass EXCEPT !.todo = passes[p].todo \ {id}]
  OBVIOUS
<1>2. s = [todo |-> passes[p].todo \ {id}, sent |-> {}, done |-> {}]
  BY <1>1 DEF NoPass
<1>3. s \in PassType /\ OnL1(s.todo) /\ OnL1(s.sent) /\ AreCredited(s.done)'
  BY <1>2, PassIsGood DEF Processed, PassType, OnL1, AreCredited
<1>4. passes' = [passes EXCEPT ![p] = s]
  BY <1>1 DEF GoesOn
<1> QED  BY <1>3, <1>4, PassGoesOn DEF DepositInv

LEMMA StartPassKeeps ==
    ASSUME DepositInv, NEW p \in Passes, StartPass(p)
    PROVE  DepositInv'
<1>1. UNCHANGED <<InPass, l2Vars, l1Vars, orphans, rows>>
  BY DEF StartPass, InPass
<1>2. CreditInv' /\ L1Inv' /\ Grows
  BY <1>1, CreditsRest DEF DepositInv, l2Vars
<1>3. PICK ids \in PendingDeposits : passes' = [passes EXCEPT ![p].todo = ids]
  BY DEF StartPass
<1>4. PICK s0 \in PassType : s0 = passes[p]
  BY PassIsGood DEF Processed
<1>5. PICK s : s = [todo |-> ids, sent |-> s0.sent, done |-> s0.done]
  OBVIOUS
<1>6. passes' = [passes EXCEPT ![p] = s]
  <2>1. s = [s0 EXCEPT !.todo = ids]
    BY <1>5 DEF PassType
  <2> QED  BY <1>3, <1>4, <2>1
<1>7. s \in PassType
  <2>1. ids \in SUBSET DepositIds
    BY DEF PendingDeposits, Unprocessed
  <2>2. s0.sent \in SUBSET DepositIds /\ s0.done \in SUBSET DepositIds
    BY DEF PassType
  <2> QED  BY <1>5, <2>1, <2>2 DEF PassType
<1>8. s.todo = ids /\ s.sent = passes[p].sent /\ s.done = passes[p].done
  BY <1>4, <1>5
<1>9. OnL1(s.todo)
  BY <1>8 DEF PendingDeposits, Unprocessed, OnL1, DepositInv, RowInv
<1>10. OnL1(s.sent) /\ AreCredited(s.done)'
  BY <1>2, <1>8, PassIsGood DEF Processed, AreCredited, Grows
<1>11. OnL1(orphans)'
  BY <1>1, <1>2, PassIsGood DEF OnL1, Grows
<1>12. ProcessorInv'
  BY <1>2, <1>6, <1>7, <1>9, <1>10, <1>11, PassGoesOn DEF DepositInv
<1> QED  BY <1>1, <1>2, <1>12, RowsStay, ProcessorStepKeeps

LEMMA SendKeeps ==
    ASSUME DepositInv, NEW p \in Passes, NEW id \in DepositIds, Send(p, id)
    PROVE  DepositInv'
<1>1. UNCHANGED <<InPass, l2Vars, l1Vars, rows>>
  BY DEF Send, InPass
<1>2. CreditInv' /\ L1Inv' /\ Grows
  BY <1>1, CreditsRest DEF DepositInv, l2Vars
<1>3. OnL1({id})
  BY PassIsGood DEF Send, IsNext, Processed, OnL1
<1>4. OnL1(orphans)'
  BY <1>2, <1>3, PassIsGood DEF Send, OnL1, Grows
<1>5. CASE passes' = [passes EXCEPT ![p].sent = {id}]
  <2>0. PICK s0 \in PassType : s0 = passes[p]
    BY PassIsGood DEF Processed
  <2>1. PICK s : s = [s0 EXCEPT !.sent = {id}]
    OBVIOUS
  <2>2. /\ s \in PassType
        /\ s.todo = passes[p].todo /\ s.sent = {id} /\ s.done = passes[p].done
    <3>1. s = [todo |-> s0.todo, sent |-> {id}, done |-> s0.done]
      BY <2>1 DEF PassType
    <3>2. s0.todo \in SUBSET DepositIds /\ s0.done \in SUBSET DepositIds
      BY DEF PassType
    <3> QED  BY <2>0, <3>1, <3>2 DEF PassType
  <2>2a. passes' = [passes EXCEPT ![p] = s]
    BY <1>5, <2>0, <2>1
  <2>3. OnL1(s.todo) /\ OnL1(s.sent) /\ AreCredited(s.done)'
    BY <1>2, <1>3, <2>2, PassIsGood DEF Processed, AreCredited, Grows
  <2> QED
    BY <1>1, <1>2, <1>4, <2>2, <2>2a, <2>3, PassGoesOn, RowsStay, ProcessorStepKeeps
       DEF DepositInv
<1>6. CASE GoesOn(p, id)
  BY <1>1, <1>2, <1>4, <1>6, GoesOnKeeps, RowsStay, ProcessorStepKeeps
<1>7. CASE UNCHANGED passes
  <2>1. ProcessorInv'
    BY <1>2, <1>4, <1>7, ProcessorRests
       DEF DepositInv, ProcessorInv, Processed, OnL1, AreCredited, Grows
  <2> QED  BY <1>1, <1>2, <2>1, RowsStay, ProcessorStepKeeps
<1> QED  BY <1>5, <1>6, <1>7 DEF Send

\* The transaction of a pass is mined; a row is marked done only if credited.
LEMMA ExecuteKeeps ==
    ASSUME DepositInv, NEW p \in Passes, NEW id \in DepositIds, Execute(p, id)
    PROVE  DepositInv'
<1>1. UNCHANGED <<InPass, l1Vars, orphans, rows>>
  BY DEF Execute, InPass
<1>2. depositBlock[id] # 0
  BY PassIsGood DEF Execute, Processed, OnL1
<1>3. CASE ProcessDeposit(Wallet, id) /\ Mined(p, id)
  <2>1. CreditInv' /\ L1Inv' /\ Grows /\ credits'[id] = 1
    BY <1>1, <1>2, <1>3, CreditKeeps DEF DepositInv
  <2>0. PICK s0 \in PassType : s0 = passes[p]
    BY PassIsGood DEF Processed
  <2>2. PICK s : s = [s0 EXCEPT !.sent = {}, !.done = {id}]
    OBVIOUS
  <2>3. s \in PassType /\ s.todo = passes[p].todo /\ s.sent = {} /\ s.done = {id}
    <3>1. s = [todo |-> s0.todo, sent |-> {}, done |-> {id}]
      BY <2>2 DEF PassType
    <3>2. s0.todo \in SUBSET DepositIds
      BY DEF PassType
    <3> QED  BY <2>0, <3>1, <3>2 DEF PassType
  <2>4. /\ s \in PassType
        /\ OnL1(s.todo) /\ OnL1(s.sent) /\ AreCredited(s.done)'
    BY <2>1, <2>3, PassIsGood DEF Processed, OnL1, AreCredited
  <2>5. passes' = [passes EXCEPT ![p] = s]
    BY <1>3, <2>0, <2>2 DEF Mined
  <2>6. OnL1(orphans)'
    BY <1>1, <2>1, PassIsGood DEF OnL1, Grows
  <2> QED
    BY <1>1, <2>1, <2>4, <2>5, <2>6, PassGoesOn, RowsRest, ProcessorStepKeeps DEF DepositInv
<1>4. CASE GoesOn(p, id) /\ UNCHANGED l2Vars
  <2>1. CreditInv' /\ L1Inv' /\ Grows
    BY <1>1, <1>4, CreditsRest DEF DepositInv, l2Vars
  <2>2. OnL1(orphans)'
    BY <1>1, <2>1, PassIsGood DEF OnL1, Grows
  <2> QED
    BY <1>1, <1>4, <2>1, <2>2, GoesOnKeeps, RowsRest, ProcessorStepKeeps DEF DepositInv
<1> QED  BY <1>3, <1>4 DEF Execute

LEMMA ExecuteOrphanKeeps ==
    ASSUME DepositInv, NEW id \in DepositIds, ExecuteOrphan(id)
    PROVE  DepositInv'
<1>1. UNCHANGED <<InPass, l1Vars, passes, rows>> /\ orphans' \subseteq orphans
  BY DEF ExecuteOrphan, InPass
<1>2. depositBlock[id] # 0
  BY DEF ExecuteOrphan, DepositInv, ProcessorInv, OnL1
<1>3. ProcessDeposit(Wallet, id) \/ UNCHANGED l2Vars
  BY DEF ExecuteOrphan
<1>4. CreditInv' /\ L1Inv' /\ Grows
  BY <1>1, <1>2, <1>3, MinedKeeps DEF DepositInv
<1>5. ProcessorInv'
  BY <1>1, <1>4 DEF DepositInv, ProcessorInv, Processed, OnL1, AreCredited, Grows
<1> QED  BY <1>1, <1>4, <1>5, RowsRest, ProcessorStepKeeps DEF DepositInv

LEMMA MarkKeeps ==
    ASSUME DepositInv, NEW p \in Passes, NEW id \in DepositIds, Mark(p, id)
    PROVE  DepositInv'
<1>1. UNCHANGED <<InPass, l2Vars, l1Vars, orphans>> /\ GoesOn(p, id)
  BY DEF Mark, InPass
<1>2. CreditInv' /\ L1Inv' /\ Grows
  BY <1>1, CreditsRest DEF DepositInv, l2Vars
<1>3. OnL1(orphans)'
  BY <1>1, <1>2, PassIsGood DEF OnL1, Grows
<1>4. credits[id] = 1
  BY PassIsGood DEF Mark, Processed, AreCredited
<1>5. RowInv'
  <2>1. CASE UNCHANGED rows
    BY <1>2, <2>1, RowsRest DEF DepositInv
  <2>2. CASE rows' = [rows EXCEPT ![id].processed = TRUE]
    <3>1. rows' = [d \in DepositIds |-> rows'[d]]
      BY <2>2 DEF DepositInv, RowInv
    <3>2. ASSUME NEW d \in DepositIds, rows'[d] # NoRow
          PROVE  depositBlock'[d] # 0 /\ (rows'[d].processed => credits'[d] = 1)
      <4>1. CASE d = id
        <5>1. credits'[d] = 1 /\ depositBlock'[d] # 0
          BY <1>2, <1>4, <4>1 DEF CreditInv, OnL1, Grows, DepositInv
        <5> QED  BY <5>1
      <4>2. CASE d # id
        <5>1. rows'[d] = rows[d]
          BY <2>2, <4>2 DEF DepositInv, RowInv
        <5> QED  BY <1>2, <3>2, <5>1 DEF DepositInv, RowInv, Grows
      <4> QED  BY <4>1, <4>2
    <3> QED  BY <3>1, <3>2 DEF RowInv
  <2> QED  BY <2>1, <2>2 DEF Mark
<1> QED  BY <1>1, <1>2, <1>3, <1>5, GoesOnKeeps, ProcessorStepKeeps

LEMMA LoseReceiptKeeps ==
    ASSUME DepositInv, NEW p \in Passes, NEW id \in DepositIds, LoseReceipt(p, id)
    PROVE  DepositInv'
<1>1. /\ UNCHANGED <<InPass, l2Vars, l1Vars, rows>> /\ GoesOn(p, id)
      /\ orphans' = orphans \cup passes[p].sent
  BY DEF LoseReceipt, InPass
<1>2. CreditInv' /\ L1Inv' /\ Grows
  BY <1>1, CreditsRest DEF DepositInv, l2Vars
<1>3. OnL1(orphans)'
  BY <1>1, <1>2, PassIsGood DEF Processed, OnL1, Grows
<1> QED  BY <1>1, <1>2, <1>3, GoesOnKeeps, RowsStay, ProcessorStepKeeps

----------------------------------------------------------------------------
(* The process, the owner of the L2 bridge *)

LEMMA CrashKeeps ==
    ASSUME DepositInv, Crash
    PROVE  DepositInv'
<1>1. UNCHANGED <<l2Vars, l1Vars, rows>>
  BY DEF Crash
<1>2. CreditInv' /\ L1Inv' /\ Grows
  BY <1>1, CreditsRest DEF DepositInv, l2Vars
<1>3. ListenerInv'
  BY NoBackfillIsGood DEF Crash, ListenerInv, Backfilled, OnL1, NoBackfill
<1>4. OnL1(orphans)'
  <2>1. \A p \in Passes : OnL1(passes[p].sent)
    BY PassIsGood DEF Processed
  <2>2. OnL1(orphans) /\ orphans' = orphans \cup UNION {passes[p].sent : p \in Passes}
    BY DEF Crash, DepositInv, ProcessorInv
  <2> QED  BY <1>2, <2>1, <2>2 DEF OnL1, Grows
<1>5. ProcessorInv'
  <2>1. passes' = [p \in Passes |-> NoPass]
    BY DEF Crash
  <2> QED  BY <1>4, <2>1 DEF ProcessorInv, Processed, PassType, OnL1, AreCredited, NoPass
<1> QED  BY <1>1, <1>2, <1>3, <1>5, RowsStay DEF DepositInv

LEMMA DepositInvStep == DepositInv /\ [PipelineNext]_depositPipelineVars => DepositInv'
<1> SUFFICES ASSUME DepositInv, [PipelineNext]_depositPipelineVars PROVE DepositInv'
  OBVIOUS
<1>1. ASSUME NEW ids \in SUBSET DepositIds, MineL1(ids) PROVE DepositInv'
  BY <1>1, MineL1Keeps
<1>2. CASE Close
  <2>1. UNCHANGED <<l2Vars, l1Vars, processorVars, rows, backfill>> /\ live' \subseteq live
    BY <1>2 DEF Close
  <2>2. ListenerInv'
    BY <2>1 DEF DepositInv, ListenerInv, Backfilled, OnL1, l1Vars
  <2> QED  BY <2>1, <2>2, RowsStay, ListenerStepKeeps
<1>3. CASE ListenerNext
  BY <1>3, ListenerNextKeeps
<1>4. CASE ProcessorNext
  BY <1>4, StartPassKeeps, SendKeeps, ExecuteKeeps, MarkKeeps, LoseReceiptKeeps
     DEF ProcessorNext
<1>5. ASSUME NEW id \in DepositIds, ExecuteOrphan(id) PROVE DepositInv'
  BY <1>5, ExecuteOrphanKeeps
<1>6. CASE L2OwnerNext \/ UNCHANGED depositPipelineVars
  <2>1. UNCHANGED <<pipeVars, depositVars>>
    BY <1>6
       DEF L2OwnerNext, AddTokenPair, RemoveTokenPair, UpdateSequencer, Fund, depositPipelineVars,
           l2Vars
  <2>2. UNCHANGED <<l1Vars, live, backfill, passes, orphans, rows>>
    BY <2>1 DEF pipeVars, listenerVars, processorVars
  <2>3. CreditInv' /\ L1Inv' /\ Grows
    BY <2>1, <2>2, CreditsRest DEF DepositInv
  <2> QED  BY <2>2, <2>3, ListenerRests, RowsRest, ProcessorRests DEF DepositInv
<1>7. CASE Crash
  BY <1>7, CrashKeeps
<1>8. CASE Start
  BY <1>8, StartKeeps
<1> QED  BY <1>1, <1>2, <1>3, <1>4, <1>5, <1>6, <1>7, <1>8 DEF PipelineNext

LEMMA DepositInvHolds == DepositSpec => []DepositInv
BY DepositInvInit, DepositInvStep, PTL DEF DepositSpec

\* processDeposit credits a deposit once at most, and only one that was made,
\* however often the services send it (L2BridgeV3.sol:133-153,
\* l2-processor.service.ts:47-131).
THEOREM CreditedAtMostOnce == DepositSpec => []CreditedOnce
<1>1. DepositInv => CreditedOnce
  BY DEF DepositInv, CreditInv, OnL1, CreditedOnce
<1> QED  BY <1>1, DepositInvHolds, PTL

\* markDepositProcessed marks only rows whose deposit was credited
\* (l2-processor.service.ts:108-125).
THEOREM MarkedAlwaysCredited == DepositSpec => []MarkedIsCredited
<1>1. DepositInv => MarkedIsCredited
  BY DEF DepositInv, RowInv, MarkedIsCredited
<1> QED  BY <1>1, DepositInvHolds, PTL

----------------------------------------------------------------------------
(* What a backfill passes over *)

\* The deposits of L1's first n blocks have their rows, or are kept otherwise:
\* the backfill has them or they are counted as missed.
Stored(at, table, kept, n) ==
    \A id \in DepositIds : at[id] \in 1..n /\ table[id] = NoRow => id \in kept
Kept == backfill.todo \cup missed

BackfillType ==
    [phase : {"idle", "head", "last", "scan"}, latest : Nat, next : Nat,
     todo : SUBSET DepositIds]

Row == [block : Nat, processed : BOOLEAN]

\* The backfill looks no further than L1 was high, and its events are of blocks
\* it has looked at.
Scans(f) ==
    /\ f \in BackfillType
    /\ f.latest <= l1Head /\ f.next <= f.latest + 1
    /\ \A id \in f.todo : depositBlock[id] \in 1..(f.next - 1)
    /\ f.phase # "scan" => f.todo = {}

\* It stores in the order of L1: no row is of a block past its next event or
\* the blocks it has looked at.
Behind(f, table) ==
    \A d \in DepositIds : table[d] # NoRow =>
        /\ \A id \in f.todo : table[d].block <= depositBlock[id]
        /\ f.phase = "scan" => table[d].block = 0 \/ table[d].block < f.next

HeightInv ==
    /\ l1Head \in Nat
    /\ depositBlock \in [DepositIds -> 0..l1Head]
    /\ rows = [id \in DepositIds |-> rows[id]]
    /\ \A id \in DepositIds : rows[id] # NoRow => rows[id] \in Row /\ rows[id].block \in 0..l1Head
    /\ Scans(backfill)
    /\ ~up => backfill = NoBackfill

NoGap(at, table, kept) ==
    \A id \in DepositIds : table[id] # NoRow => Stored(at, table, kept, table[id].block)

GapInv ==
    /\ HeightInv
    /\ NoGap(depositBlock, rows, Kept)
    /\ Stored(depositBlock, rows, Kept, backfill.next - 1)
    /\ Behind(backfill, rows)

LEMMA GapInvInit == DepositInit => GapInv
<1> SUFFICES ASSUME DepositInit PROVE GapInv
  OBVIOUS
<1>1. /\ l1Head = 0 /\ depositBlock = [id \in DepositIds |-> 0]
      /\ backfill = NoBackfill
      /\ rows = [id \in DepositIds |-> NoRow]
  BY DEF DepositInit, PipelineInit
<1>2. HeightInv
  BY <1>1 DEF HeightInv, Scans, BackfillType, NoBackfill
<1>3. NoGap(depositBlock, rows, Kept) /\ Behind(backfill, rows)
  BY <1>1 DEF NoGap, Behind
<1>4. Stored(depositBlock, rows, Kept, backfill.next - 1)
  BY <1>1 DEF Stored
<1> QED  BY <1>2, <1>3, <1>4 DEF GapInv

\* What was stored stays stored, where what was kept is kept or gets its row.
LEMMA StoredStays ==
    ASSUME NEW at, NEW at2, NEW table, NEW table2, NEW kept, NEW kept2, NEW n \in Int,
           Stored(at, table, kept, n),
           \A id \in DepositIds : at2[id] \in 1..n => at[id] \in 1..n,
           \A id \in DepositIds : table[id] # NoRow => table2[id] # NoRow,
           \A id \in DepositIds : id \in kept => id \in kept2 \/ table2[id] # NoRow
    PROVE  Stored(at2, table2, kept2, n)
BY DEF Stored

\* The blocks the invariant speaks of are integers.
LEMMA BlocksAreIntegers ==
    ASSUME HeightInv
    PROVE  /\ \A id \in DepositIds : rows[id] # NoRow =>
                  rows[id].block \in Int /\ 0 <= rows[id].block /\ rows[id].block <= l1Head
           /\ backfill.next - 1 \in Int /\ backfill.next - 1 <= l1Head
<1>1. backfill.next \in Nat /\ backfill.latest \in Nat /\ l1Head \in Nat
  BY DEF HeightInv, Scans, BackfillType
<1>2. backfill.next <= backfill.latest + 1 /\ backfill.latest <= l1Head
  BY DEF HeightInv, Scans
<1> QED  BY <1>1, <1>2 DEF HeightInv

\* Nothing but the processor's, the owner's or the chains' own state moves.
LEMMA GapRests ==
    ASSUME GapInv, UNCHANGED <<l1Head, depositBlock, backfill, missed, up>>,
           rows' = [id \in DepositIds |-> rows'[id]],
           \A id \in DepositIds :
               /\ rows[id] = NoRow <=> rows'[id] = NoRow
               /\ rows[id] # NoRow => rows'[id] \in Row /\ rows'[id].block = rows[id].block
    PROVE  GapInv'
<1>1. HeightInv'
  BY DEF GapInv, HeightInv, Scans
<1>2. NoGap(depositBlock', rows', Kept') /\ Stored(depositBlock', rows', Kept', backfill'.next - 1)
  BY DEF GapInv, NoGap, Stored, Kept
<1>3. Behind(backfill, rows)'
  BY DEF GapInv, Behind
<1> QED  BY <1>1, <1>2, <1>3 DEF GapInv

LEMMA MineL1LeavesNoGap ==
    ASSUME GapInv, NEW ids \in SUBSET DepositIds, MineL1(ids)
    PROVE  GapInv'
<1>1. HeightInv
  BY DEF GapInv
<1>2. /\ l1Head \in Nat /\ l1Head' = l1Head + 1
      /\ UNCHANGED <<rows, backfill, missed, up>>
      /\ depositBlock' = [id \in DepositIds |-> IF id \in ids THEN l1Head' ELSE depositBlock[id]]
      /\ \A id \in ids : depositBlock[id] = 0
  BY <1>1 DEF MineL1, HeightInv
<1>3. \A id \in backfill.todo : id \in DepositIds /\ depositBlock'[id] = depositBlock[id]
  <2>1. \A id \in backfill.todo : id \in DepositIds /\ depositBlock[id] # 0
    BY <1>1 DEF HeightInv, Scans, BackfillType
  <2> QED  BY <1>2, <2>1
<1>4. Scans(backfill)'
  <2>1. backfill.latest \in Nat /\ backfill.next \in Nat /\ Scans(backfill)
    BY <1>1 DEF HeightInv, Scans, BackfillType
  <2> QED  BY <1>2, <1>3, <2>1 DEF Scans
<1>5. HeightInv'
  <2>1. depositBlock' \in [DepositIds -> 0..l1Head']
    BY <1>1, <1>2 DEF HeightInv
  <2>2. \A id \in DepositIds : rows'[id] # NoRow =>
                 rows'[id] \in Row /\ rows'[id].block \in 0..l1Head'
    BY <1>1, <1>2 DEF HeightInv
  <2> QED  BY <1>1, <1>2, <1>4, <2>1, <2>2 DEF HeightInv
<1>6. ASSUME NEW n \in Int, n <= l1Head, Stored(depositBlock, rows, Kept, n)
      PROVE  Stored(depositBlock', rows', Kept', n)
  <2>1. ASSUME NEW id \in DepositIds, depositBlock'[id] \in 1..n
        PROVE  depositBlock[id] \in 1..n
    <3>1. id \notin ids
      BY <1>2, <1>6, <2>1
    <3> QED  BY <1>2, <2>1, <3>1
  <2> QED  BY <1>2, <1>6, <2>1, StoredStays DEF Kept
<1>7. NoGap(depositBlock', rows', Kept')
  BY <1>1, <1>2, <1>6, BlocksAreIntegers DEF GapInv, NoGap
<1>8. Stored(depositBlock', rows', Kept', backfill'.next - 1)
  <2>1. Stored(depositBlock', rows', Kept', backfill.next - 1)
    BY <1>1, <1>6, BlocksAreIntegers DEF GapInv
  <2> QED  BY <1>2, <2>1
<1>9. Behind(backfill, rows)'
  BY <1>2, <1>3 DEF GapInv, Behind
<1> QED  BY <1>5, <1>7, <1>8, <1>9 DEF GapInv

\* The backfill becomes f, and what was kept stays kept.
LEMMA BackfillMoves ==
    ASSUME GapInv, NEW f, Scans(f), backfill' = f, Kept \subseteq f.todo \cup missed',
           UNCHANGED <<l1Head, depositBlock, rows>>,
           Stored(depositBlock, rows, f.todo \cup missed', f.next - 1),
           Behind(f, rows), up' \/ f = NoBackfill
    PROVE  GapInv'
<1>1. HeightInv
  BY DEF GapInv
<1>2. HeightInv'
  BY <1>1 DEF HeightInv, Scans
<1>3. Kept' = f.todo \cup missed'
  BY DEF Kept
<1>4. NoGap(depositBlock', rows', Kept')
  BY <1>3 DEF GapInv, NoGap, Stored
<1>5. Stored(depositBlock', rows', Kept', backfill'.next - 1)
  BY <1>3
<1>6. Behind(backfill, rows)'
  BY DEF Behind
<1> QED  BY <1>2, <1>4, <1>5, <1>6 DEF GapInv

LEMMA NoBackfillScans ==
    ASSUME HeightInv
    PROVE  /\ Scans(NoBackfill) /\ Behind(NoBackfill, rows)
           /\ NoBackfill.next - 1 = 0 - 1 /\ NoBackfill.todo = {}
BY DEF HeightInv, Scans, Behind, NoBackfill, BackfillType

\* What nothing is to be scanned of is stored.
LEMMA NothingScanned ==
    ASSUME NEW at, NEW table, NEW kept PROVE Stored(at, table, kept, 0 - 1)
BY DEF Stored

\* The backfill is over, or given up between two chunks.
LEMMA BackfillEnds ==
    ASSUME GapInv, backfill.todo = {}, backfill' = NoBackfill, missed \subseteq missed',
           UNCHANGED <<l1Head, depositBlock, rows>>
    PROVE  GapInv'
<1>1. HeightInv
  BY DEF GapInv
<1>2. /\ Scans(NoBackfill) /\ Behind(NoBackfill, rows)
      /\ NoBackfill.next - 1 = 0 - 1 /\ NoBackfill.todo = {}
  BY <1>1, NoBackfillScans
<1>3. Stored(depositBlock, rows, NoBackfill.todo \cup missed', NoBackfill.next - 1)
  BY <1>2, NothingScanned
<1>4. Kept \subseteq NoBackfill.todo \cup missed'
  BY DEF Kept
<1>5. PICK f : f = NoBackfill
  OBVIOUS
<1> QED  BY <1>2, <1>3, <1>4, <1>5, BackfillMoves

\* A set of natural numbers up to k has a least and a greatest element.
LEMMA LeastExists ==
    ASSUME NEW T, T \subseteq Nat, T # {}
    PROVE  \E x \in T : \A y \in T : x <= y
<1> DEFINE R == OpToRel(<, Nat)
<1>1. IsWellFoundedOn(R, Nat)
  BY NatLessThanWellFounded
<1>2. \A x, y \in Nat : <<y, x>> \in R <=> y < x
  BY DEF OpToRel
<1> HIDE DEF R
<1>3. PICK x \in T : \A y \in T : ~(<<y, x>> \in R)
  BY <1>1, WFMin
<1>4. \A y \in T : ~(y < x)
  BY <1>2, <1>3
<1>5. \A y \in T : x <= y
  BY <1>4
<1> QED  BY <1>5

LEMMA GreatestExists ==
    ASSUME NEW S, NEW k \in Nat, S \subseteq 0..k, S # {}
    PROVE  \E x \in S : \A y \in S : x >= y
<1> DEFINE T == {n \in Nat : k - n \in S}
<1>1. T \subseteq Nat
  OBVIOUS
<1>2. T # {}
  <2>1. PICK x \in S : TRUE
    OBVIOUS
  <2>2. x \in 0..k /\ k - x \in Nat /\ k - (k - x) = x
    BY <2>1
  <2>3. k - x \in T
    BY <2>1, <2>2
  <2> QED  BY <2>3
<1>3. PICK t \in T : \A u \in T : t <= u
  <2> HIDE DEF T
  <2> QED  BY <1>1, <1>2, LeastExists
<1>4. ASSUME NEW y \in S PROVE k - t >= y
  <2>1. y \in 0..k /\ k - y \in Nat /\ k - (k - y) = y
    BY <1>4
  <2>2. k - y \in T
    BY <1>4, <2>1
  <2>3. t \in Nat /\ t <= k - y
    BY <1>3, <2>2
  <2> QED  BY <2>1, <2>3
<1>5. k - t \in S
  BY <1>3
<1> QED  BY <1>4, <1>5

LEMMA LeastIsIn ==
    ASSUME NEW S, S \subseteq Nat, S # {} PROVE Min(S) \in S
<1>1. \E x \in S : \A y \in S : x =< y
  BY LeastExists
<1> QED  BY <1>1, Zenon DEF Min

LEMMA GreatestIsIn ==
    ASSUME NEW S, NEW k \in Nat, S \subseteq 0..k, S # {} PROVE Max(S) \in S
<1>1. \E x \in S : \A y \in S : x >= y
  BY GreatestExists
<1> QED  BY <1>1, Zenon DEF Max

\* getLastDepositBlock: a block of the table, or 0.
LEMMA LastBlockIsStored ==
    ASSUME HeightInv
    PROVE  \/ LastDepositBlock = 0
           \/ \E id \in DepositIds : rows[id] # NoRow /\ LastDepositBlock = rows[id].block
<1> DEFINE S == {0} \cup {rows[id].block : id \in {d \in DepositIds : rows[d] # NoRow}}
<1>1. S \subseteq 0..l1Head /\ S # {} /\ l1Head \in Nat
  BY DEF HeightInv
<1>2. LastDepositBlock = Max(S)
  BY DEF LastDepositBlock
<1>3. \A x \in S : x = 0 \/ \E id \in DepositIds : rows[id] # NoRow /\ x = rows[id].block
  OBVIOUS
<1> HIDE DEF S
<1>4. Max(S) \in S
  BY <1>1, GreatestIsIn
<1> QED  BY <1>2, <1>3, <1>4

\* No row is of a block past getLastDepositBlock.
LEMMA LastBlockIsLast ==
    ASSUME HeightInv, NEW d \in DepositIds, rows[d] # NoRow
    PROVE  rows[d].block <= LastDepositBlock
<1> DEFINE S == {0} \cup {rows[id].block : id \in {e \in DepositIds : rows[e] # NoRow}}
<1>1. S \subseteq 0..l1Head /\ S # {} /\ l1Head \in Nat /\ rows[d].block \in S
  BY DEF HeightInv
<1>2. LastDepositBlock = Max(S)
  BY DEF LastDepositBlock
<1> HIDE DEF S
<1>3. \E x \in S : \A y \in S : x >= y
  BY <1>1, GreatestExists
<1>4. Max(S) \in S /\ \A y \in S : Max(S) >= y
  BY <1>3, Zenon DEF Max
<1>5. PICK m : m = Max(S)
  OBVIOUS
<1>6. PICK x : x = rows[d].block
  OBVIOUS
<1>7. m \in S /\ x \in S /\ m >= x
  BY <1>1, <1>4, <1>5, <1>6
<1>8. m \in Nat /\ x \in Nat /\ x <= m
  BY <1>1, <1>7
<1> QED  BY <1>2, <1>5, <1>6, <1>8

LEMMA StartLeavesNoGap ==
    ASSUME GapInv, Start
    PROVE  GapInv'
<1>1. HeightInv /\ backfill = NoBackfill
  BY DEF GapInv, HeightInv, Start
<1>2. UNCHANGED <<l1Head, depositBlock, rows, missed>> /\ up'
  BY DEF Start, l1Vars
<1>3. PICK f : f = [NoBackfill EXCEPT !.phase = "head"]
  OBVIOUS
<1>4. f.todo = {} /\ f.next - 1 = 0 - 1 /\ Scans(f) /\ Behind(f, rows)
  BY <1>1, <1>3 DEF HeightInv, Scans, Behind, NoBackfill, BackfillType
<1>5. Stored(depositBlock, rows, f.todo \cup missed', f.next - 1)
  BY <1>4, NothingScanned
<1>6. Kept \subseteq f.todo \cup missed'
  BY <1>1, <1>2 DEF Kept, NoBackfill
<1>7. backfill' = f
  BY <1>3 DEF Start
<1> QED  BY <1>2, <1>4, <1>5, <1>6, <1>7, BackfillMoves

LEMMA HeadLeavesNoGap ==
    ASSUME GapInv, BackfillHead
    PROVE  GapInv'
<1>1. HeightInv /\ Scans(backfill)
  BY DEF GapInv, HeightInv
<1>2. UNCHANGED <<l1Head, depositBlock, rows, missed, up>> /\ up
  BY <1>1 DEF BackfillHead, InBackfill, l1Vars, HeightInv, NoBackfill
<1>3. PICK f : f = [backfill EXCEPT !.phase = "last", !.latest = l1Head]
  OBVIOUS
<1>4. /\ f.next = backfill.next /\ f.latest = l1Head /\ f.todo = {} /\ f.phase = "last"
      /\ backfill.todo = {} /\ f \in BackfillType
  BY <1>1, <1>3 DEF HeightInv, Scans, BackfillType, BackfillHead
<1>5. Scans(f) /\ Behind(f, rows)
  <2>1. f.next \in Nat /\ l1Head \in Nat /\ backfill.latest \in Nat
    BY <1>1, <1>4 DEF HeightInv, Scans, BackfillType
  <2> QED  BY <1>1, <1>4, <2>1 DEF Scans, Behind
<1>6. backfill' = f
  BY <1>3 DEF BackfillHead
<1>7. f.todo \cup missed' = Kept
  BY <1>2, <1>4 DEF Kept
<1>8. Stored(depositBlock, rows, f.todo \cup missed', f.next - 1)
  BY <1>4, <1>7 DEF GapInv
<1> QED  BY <1>2, <1>5, <1>6, <1>7, <1>8, BackfillMoves

\* The greater of two integers is one of them.
LEMMA GreaterOf ==
    ASSUME NEW x \in Int PROVE Max({x, 0}) \in {x, 0} /\ Max({x, 0}) >= 0
<1>1. \E m \in {x, 0} : \A y \in {x, 0} : m >= y
  <2>1. x >= 0 \/ 0 >= x
    OBVIOUS
  <2> QED  BY <2>1
<1>2. Max({x, 0}) \in {x, 0} /\ \A y \in {x, 0} : Max({x, 0}) >= y
  BY <1>1, Zenon DEF Max
<1> QED  BY <1>2

LEMMA FromLeavesNoGap ==
    ASSUME GapInv, BackfillFrom
    PROVE  GapInv'
<1>1. HeightInv /\ Scans(backfill) /\ backfill.latest \in Nat
  BY DEF GapInv, HeightInv, Scans, BackfillType
<1>2. UNCHANGED <<l1Head, depositBlock, rows, up>> /\ up
  BY <1>1 DEF BackfillFrom, InBackfill, l1Vars, HeightInv, NoBackfill
<1>3. PICK from : from = FromBlock(LastDepositBlock, backfill.latest)
  OBVIOUS
<1>4. LastDepositBlock \in Nat
  BY <1>1, LastBlockIsStored DEF HeightInv
<1>5. from \in Nat
  <2>1. backfill.latest - Lookback \in Int
    BY <1>1
  <2>2. Max({backfill.latest - Lookback, 0}) \in Nat
    BY <2>1, GreaterOf
  <2> QED  BY <1>3, <1>4, <2>2 DEF FromBlock
<1>6. missed' = missed \cup TooOld(from) /\ backfill.phase = "last"
  BY <1>3 DEF BackfillFrom
<1>7. backfill' = IF UpToDate(from, backfill.latest) THEN NoBackfill
                  ELSE [backfill EXCEPT !.phase = "scan", !.next = from]
  BY <1>3 DEF BackfillFrom
<1>8. backfill.todo = {}
  BY <1>1, <1>6 DEF Scans
<1>9. CASE UpToDate(from, backfill.latest)
  BY <1>2, <1>6, <1>7, <1>8, <1>9, BackfillEnds
<1>10. CASE ~UpToDate(from, backfill.latest)
  <2>1. PICK f : f = [backfill EXCEPT !.phase = "scan", !.next = from]
    OBVIOUS
  <2>2. /\ f \in BackfillType /\ f.next = from /\ f.latest = backfill.latest
        /\ f.todo = {} /\ f.phase = "scan"
    BY <1>1, <1>5, <1>8, <2>1 DEF Scans, BackfillType
  <2>3. Scans(f)
    BY <1>1, <1>5, <1>10, <2>2 DEF Scans, UpToDate
  <2>4. backfill' = f
    BY <1>7, <1>10, <2>1
  <2>5. Kept \subseteq f.todo \cup missed'
    BY <1>6, <1>8 DEF Kept
  <2>6. CASE LastDepositBlock = 0
    <3>1. Stored(depositBlock, rows, f.todo \cup missed', f.next - 1)
      BY <1>6, <2>2, <2>6 DEF Stored, TooOld
    <3>2. Behind(f, rows)
      <4>1. ASSUME NEW d \in DepositIds, rows[d] # NoRow PROVE rows[d].block = 0
        <5>1. rows[d].block <= 0 /\ rows[d].block \in Nat
          BY <1>1, <2>6, <4>1, LastBlockIsLast DEF HeightInv
        <5> QED  BY <5>1
      <4> QED  BY <2>2, <4>1 DEF Behind
    <3> QED  BY <1>2, <2>3, <2>4, <2>5, <3>1, <3>2, BackfillMoves
  <2>7. CASE LastDepositBlock # 0
    <3>1. PICK id \in DepositIds : rows[id] # NoRow /\ LastDepositBlock = rows[id].block
      BY <1>1, <2>7, LastBlockIsStored
    <3>2. from = LastDepositBlock + 1 /\ f.next - 1 = rows[id].block
      BY <1>3, <1>4, <2>2, <2>7, <3>1 DEF FromBlock
    <3>3. Stored(depositBlock, rows, f.todo \cup missed', f.next - 1)
      <4>1. Stored(depositBlock, rows, Kept, rows[id].block)
        BY <3>1 DEF GapInv, NoGap
      <4> QED  BY <2>5, <3>2, <4>1 DEF Stored
    <3>4. Behind(f, rows)
      <4>1. ASSUME NEW d \in DepositIds, rows[d] # NoRow PROVE rows[d].block < from
        <5>1. rows[d].block <= LastDepositBlock /\ rows[d].block \in Nat
          BY <1>1, <4>1, LastBlockIsLast DEF HeightInv
        <5> QED  BY <1>4, <3>2, <5>1
      <4> QED  BY <2>2, <4>1 DEF Behind
    <3> QED  BY <1>2, <2>3, <2>4, <2>5, <3>3, <3>4, BackfillMoves
  <2> QED  BY <2>6, <2>7
<1> QED  BY <1>9, <1>10

LEMMA FailsLeavesNoGap ==
    ASSUME GapInv, BackfillFails
    PROVE  GapInv'
BY BackfillEnds DEF BackfillFails, InBackfill, l1Vars

\* The end of a chunk.
LEMMA ChunkEnds ==
    ASSUME NEW next \in Nat, NEW latest \in Nat
    PROVE  /\ Min({next + Step - 1, latest}) \in Nat
           /\ Min({next + Step - 1, latest}) <= latest
           /\ next <= latest + 1 => next <= Min({next + Step - 1, latest}) + 1
<1>1. next + Step - 1 \in Nat
  OBVIOUS
<1>2. {next + Step - 1, latest} \subseteq Nat
  BY <1>1
<1>3. \E x \in {next + Step - 1, latest} : \A y \in {next + Step - 1, latest} : x =< y
  BY <1>2, LeastExists
<1>4. /\ Min({next + Step - 1, latest}) \in {next + Step - 1, latest}
      /\ \A y \in {next + Step - 1, latest} : Min({next + Step - 1, latest}) =< y
  BY <1>3, Zenon DEF Min
<1> QED  BY <1>2, <1>4

LEMMA QueryLeavesNoGap ==
    ASSUME GapInv, BackfillQuery
    PROVE  GapInv'
<1>1. HeightInv /\ Scans(backfill)
  BY DEF GapInv, HeightInv
<1>2. /\ UNCHANGED <<l1Head, depositBlock, rows, missed, up>> /\ up
      /\ backfill.phase = "scan" /\ backfill.todo = {}
  BY <1>1 DEF BackfillQuery, InBackfill, l1Vars, HeightInv, NoBackfill
<1>3. /\ backfill.next \in Nat /\ backfill.latest \in Nat
      /\ backfill.latest <= l1Head /\ l1Head \in Nat
  BY <1>1 DEF Scans, BackfillType, HeightInv
<1>4. PICK end \in Nat : /\ end = Min({backfill.next + Step - 1, backfill.latest})
                         /\ end <= backfill.latest
  BY <1>3, ChunkEnds
<1>5. PICK found : found = {id \in DepositIds : /\ depositBlock[id] # 0
                                                /\ depositBlock[id] \in backfill.next..end}
  OBVIOUS
<1>6. PICK f : f = [backfill EXCEPT !.next = end + 1, !.todo = found]
  OBVIOUS
<1>7. backfill' = Rest(f)
  BY <1>4, <1>5, <1>6 DEF BackfillQuery
<1>8. /\ f \in BackfillType /\ f.next = end + 1 /\ f.latest = backfill.latest
      /\ f.todo = found /\ f.phase = "scan"
  <2>1. found \in SUBSET DepositIds /\ end + 1 \in Nat
    BY <1>5
  <2>2. backfill \in BackfillType
    BY <1>1 DEF Scans
  <2> QED  BY <1>2, <1>6, <2>1, <2>2 DEF BackfillType
<1>9. Scans(f)
  <2>1. \A id \in found : depositBlock[id] \in 1..end
    BY <1>1, <1>5 DEF HeightInv
  <2>2. f.next - 1 = end /\ f.next <= f.latest + 1 /\ f.latest <= l1Head
    BY <1>3, <1>4, <1>8
  <2> QED  BY <1>8, <2>1, <2>2 DEF Scans
<1>10. CASE Rest(f) = NoBackfill
  BY <1>2, <1>7, <1>10, BackfillEnds
<1>11. CASE Rest(f) = f /\ ~(f.todo = {} /\ f.next > f.latest)
  <2>1. ASSUME NEW id \in DepositIds, depositBlock[id] \in 1..end, rows[id] = NoRow
        PROVE  id \in found \cup missed
    <3>1. CASE depositBlock[id] \in 1..(backfill.next - 1)
      BY <1>2, <2>1, <3>1 DEF GapInv, Stored, Kept
    <3>2. CASE depositBlock[id] \in backfill.next..end
      <4>1. depositBlock[id] # 0
        BY <2>1
      <4> QED  BY <1>5, <3>2, <4>1
    <3>3. depositBlock[id] < backfill.next \/ depositBlock[id] >= backfill.next
      BY <1>3, <2>1
    <3> QED  BY <1>3, <2>1, <3>1, <3>2, <3>3
  <2>2. Stored(depositBlock, rows, f.todo \cup missed', f.next - 1)
    <3>1. f.next - 1 = end
      BY <1>8
    <3> QED  BY <1>2, <1>8, <2>1, <3>1 DEF Stored
  <2>3. Behind(f, rows)
    <3>1. ASSUME NEW d \in DepositIds, rows[d] # NoRow
          PROVE  /\ \A id \in found : rows[d].block <= depositBlock[id]
                 /\ rows[d].block = 0 \/ rows[d].block < end + 1
      <4>1. rows[d].block \in Nat /\ (rows[d].block = 0 \/ rows[d].block < backfill.next)
        BY <1>1, <1>2, <3>1 DEF GapInv, Behind, HeightInv
      <4>2. \A id \in found : depositBlock[id] \in Nat /\ backfill.next <= depositBlock[id]
        BY <1>3, <1>5
      <4>3. backfill.next <= end + 1
        BY <1>1, <1>3, <1>4, ChunkEnds DEF Scans
      <4> QED  BY <1>3, <4>1, <4>2, <4>3
    <3> QED  BY <1>8, <3>1 DEF Behind
  <2>4. Kept \subseteq f.todo \cup missed'
    BY <1>2 DEF Kept
  <2>5. backfill' = f
    BY <1>7, <1>11
  <2> QED  BY <1>2, <1>9, <2>2, <2>3, <2>4, <2>5, BackfillMoves
<1> QED  BY <1>10, <1>11 DEF Rest

\* saveDeposit keeps the rows there are and gives the deposit one.
LEMMA SaveStores ==
    ASSUME HeightInv, NEW id \in DepositIds, NEW block \in 0..l1Head, Save(id, block)
    PROVE  /\ rows' = [d \in DepositIds |-> rows'[d]]
           /\ rows'[id] # NoRow
           /\ \A d \in DepositIds : rows[d] # NoRow => rows'[d] = rows[d]
           /\ \A d \in DepositIds : rows'[d] # NoRow =>
                 \/ rows[d] # NoRow /\ rows'[d] = rows[d]
                 \/ d = id /\ rows'[d] \in Row /\ rows'[d].block = block
<1>1. rows = [d \in DepositIds |-> rows[d]]
  BY DEF HeightInv
<1>2. PICK row : row = [block |-> block, processed |-> FALSE]
  OBVIOUS
<1>3. row # NoRow /\ row \in Row /\ row.block = block
  <2>1. row \in Row
    BY <1>2 DEF HeightInv, Row
  <2> QED  BY <1>2, <2>1 DEF Row
<1>4. rows' = [rows EXCEPT ![id] = IF rows[id] = NoRow THEN row ELSE rows[id]]
  BY <1>2 DEF Save
<1> QED  BY <1>1, <1>3, <1>4

LEMMA LiveEventLeavesNoGap ==
    ASSUME GapInv, NEW id \in DepositIds, LiveEvent(id)
    PROVE  GapInv'
<1>1. HeightInv /\ 0 \in 0..l1Head
  BY DEF GapInv, HeightInv
<1>2. UNCHANGED <<l1Head, depositBlock, backfill, missed, up>>
  BY DEF LiveEvent, l1Vars
<1>3. CASE UNCHANGED rows
  BY <1>1, <1>2, <1>3, GapRests DEF HeightInv
<1>4. CASE Save(id, 0)
  <2>1. /\ rows' = [d \in DepositIds |-> rows'[d]]
        /\ \A d \in DepositIds : rows[d] # NoRow => rows'[d] = rows[d]
        /\ \A d \in DepositIds : rows'[d] # NoRow =>
              \/ rows[d] # NoRow /\ rows'[d] = rows[d]
              \/ d = id /\ rows'[d] \in Row /\ rows'[d].block = 0
    BY <1>1, <1>4, SaveStores
  <2>2. HeightInv'
    <3>1. \A d \in DepositIds : rows'[d] # NoRow =>
              rows'[d] \in Row /\ rows'[d].block \in 0..l1Head
      BY <1>1, <2>1 DEF HeightInv
    <3> QED  BY <1>1, <1>2, <2>1, <3>1 DEF HeightInv, Scans
  <2>3. ASSUME NEW n \in Int, Stored(depositBlock, rows, Kept, n)
        PROVE  Stored(depositBlock', rows', Kept', n)
    BY <1>2, <2>1, <2>3 DEF Stored, Kept
  <2>4. ASSUME NEW d \in DepositIds, rows'[d] # NoRow
        PROVE  Stored(depositBlock', rows', Kept', rows'[d].block)
    <3>1. CASE rows[d] # NoRow /\ rows'[d] = rows[d]
      BY <1>1, <2>3, <3>1, BlocksAreIntegers DEF GapInv, NoGap
    <3>2. CASE rows'[d].block = 0
      BY <3>2 DEF Stored
    <3> QED  BY <2>1, <2>4, <3>1, <3>2
  <2>5. NoGap(depositBlock', rows', Kept')
    BY <2>4 DEF NoGap
  <2>6. Stored(depositBlock', rows', Kept', backfill'.next - 1)
    <3>1. Stored(depositBlock', rows', Kept', backfill.next - 1)
      BY <1>1, <2>3, BlocksAreIntegers DEF GapInv
    <3> QED  BY <1>2, <3>1
  <2>7. Behind(backfill, rows)'
    <3>1. \A e \in backfill.todo : e \in DepositIds /\ depositBlock[e] >= 0
      BY <1>1 DEF HeightInv, Scans, BackfillType
    <3> QED  BY <1>2, <2>1, <3>1 DEF GapInv, Behind
  <2> QED  BY <2>2, <2>5, <2>6, <2>7 DEF GapInv
<1> QED  BY <1>3, <1>4 DEF LiveEvent, LiveBlock

LEMMA EventLeavesNoGap ==
    ASSUME GapInv, NEW id \in DepositIds, BackfillEvent(id)
    PROVE  GapInv'
<1>1. HeightInv /\ Scans(backfill)
  BY DEF GapInv, HeightInv
<1>2. /\ UNCHANGED <<l1Head, depositBlock, up>> /\ up /\ id \in backfill.todo
      /\ \A other \in backfill.todo : depositBlock[id] <= depositBlock[other]
  BY <1>1 DEF BackfillEvent, InBackfill, l1Vars, HeightInv, NoBackfill
<1>3. PICK f : f = [backfill EXCEPT !.todo = backfill.todo \ {id}]
  OBVIOUS
<1>4. /\ f \in BackfillType /\ f.todo = backfill.todo \ {id}
      /\ f.next = backfill.next /\ f.latest = backfill.latest
      /\ f.phase = "scan" /\ backfill.phase = "scan"
  BY <1>1, <1>2, <1>3 DEF Scans, BackfillType
<1>5. Scans(f)
  BY <1>1, <1>4 DEF Scans
<1>6. PICK g : g = Rest(f)
  OBVIOUS
<1>7. g = f \/ (g = NoBackfill /\ f.todo = {})
  BY <1>6 DEF Rest
<1>8. Scans(g) /\ g.todo = f.todo /\ (g = f \/ g.next - 1 = 0 - 1)
  <2>1. CASE g = f
    BY <1>5, <2>1
  <2>2. CASE g = NoBackfill /\ f.todo = {}
    BY <1>1, <2>2, NoBackfillScans
  <2> QED  BY <1>7, <2>1, <2>2
<1>9. backfill' = g
  BY <1>3, <1>6 DEF BackfillEvent
<1>10. CASE missed' = missed \cup {id} /\ UNCHANGED rows
  <2>1. Kept \subseteq g.todo \cup missed'
    BY <1>4, <1>8, <1>10 DEF Kept
  <2>2. Stored(depositBlock, rows, g.todo \cup missed', g.next - 1)
    <3>1. CASE g = f
      BY <1>4, <2>1, <3>1 DEF GapInv, Stored
    <3>2. CASE g.next - 1 = 0 - 1
      BY <3>2, NothingScanned
    <3> QED  BY <1>8, <3>1, <3>2
  <2>3. Behind(g, rows)
    <3>1. CASE g = f
      BY <1>4, <3>1 DEF GapInv, Behind
    <3>2. CASE g = NoBackfill
      BY <1>1, <3>2, NoBackfillScans
    <3> QED  BY <1>7, <3>1, <3>2
  <2> QED  BY <1>2, <1>8, <1>9, <1>10, <2>1, <2>2, <2>3, BackfillMoves
<1>11. CASE Save(id, depositBlock[id]) /\ UNCHANGED missed
  <2> DEFINE block == depositBlock[id]
  <2>0. block \in 0..l1Head /\ block \in 1..(backfill.next - 1)
    BY <1>1, <1>2 DEF HeightInv, Scans
  <2>1. /\ rows' = [d \in DepositIds |-> rows'[d]]
        /\ rows'[id] # NoRow
        /\ \A d \in DepositIds : rows[d] # NoRow => rows'[d] = rows[d]
        /\ \A d \in DepositIds : rows'[d] # NoRow =>
              \/ rows[d] # NoRow /\ rows'[d] = rows[d]
              \/ d = id /\ rows'[d] \in Row /\ rows'[d].block = block
    BY <1>1, <1>11, <2>0, SaveStores
  <2>2. HeightInv'
    <3>1. \A d \in DepositIds : rows'[d] # NoRow =>
              rows'[d] \in Row /\ rows'[d].block \in 0..l1Head
      BY <1>1, <2>0, <2>1 DEF HeightInv
    <3>2. Scans(backfill)'
      BY <1>2, <1>8, <1>9 DEF Scans
    <3> QED  BY <1>1, <1>2, <2>1, <3>1, <3>2 DEF HeightInv
  <2>3. ASSUME NEW n \in Int, Stored(depositBlock, rows, Kept, n)
        PROVE  Stored(depositBlock', rows', Kept', n)
    <3>1. ASSUME NEW d \in DepositIds, d \in Kept
          PROVE  d \in Kept' \/ rows'[d] # NoRow
      BY <1>4, <1>8, <1>9, <1>11, <2>1, <3>1 DEF Kept
    <3> QED  BY <1>2, <2>1, <2>3, <3>1 DEF Stored
  <2>4. Stored(depositBlock', rows', Kept', backfill.next - 1)
    BY <1>1, <2>3, BlocksAreIntegers DEF GapInv
  <2>5. Stored(depositBlock', rows', Kept', block)
    <3>1. backfill.next - 1 \in Int
      BY <1>1, BlocksAreIntegers
    <3>2. \A m \in 1..block : m \in 1..(backfill.next - 1)
      BY <2>0, <3>1
    <3> HIDE DEF block
    <3> QED  BY <2>4, <3>2 DEF Stored
  <2>6. ASSUME NEW d \in DepositIds, rows'[d] # NoRow
        PROVE  Stored(depositBlock', rows', Kept', rows'[d].block)
    <3>1. CASE rows[d] # NoRow /\ rows'[d] = rows[d]
      BY <1>1, <2>3, <3>1, BlocksAreIntegers DEF GapInv, NoGap
    <3> QED  BY <2>1, <2>5, <2>6, <3>1
  <2>7. NoGap(depositBlock', rows', Kept')
    BY <2>6 DEF NoGap
  <2>8. Stored(depositBlock', rows', Kept', backfill'.next - 1)
    <3>1. CASE g = f
      BY <1>4, <1>9, <2>4, <3>1
    <3>2. CASE g.next - 1 = 0 - 1
      <4>1. Stored(depositBlock', rows', Kept', 0 - 1)
        BY NothingScanned
      <4> QED  BY <1>9, <3>2, <4>1
    <3> QED  BY <1>8, <3>1, <3>2
  <2>9. ASSUME NEW d \in DepositIds, rows'[d] # NoRow
        PROVE  /\ \A e \in g.todo : rows'[d].block <= depositBlock[e]
               /\ g.phase = "scan" => rows'[d].block = 0 \/ rows'[d].block < g.next
    <3>1. /\ \A e \in f.todo : rows'[d].block <= depositBlock[e]
          /\ rows'[d].block = 0 \/ rows'[d].block < f.next
      <4>1. CASE rows[d] # NoRow /\ rows'[d] = rows[d]
        BY <1>4, <4>1 DEF GapInv, Behind
      <4>2. CASE rows'[d].block = block
        <5>1. block < backfill.next
          BY <2>0, <1>1 DEF Scans, BackfillType
        <5> QED  BY <1>2, <1>4, <4>2, <5>1
      <4> QED  BY <2>1, <2>9, <4>1, <4>2
    <3>2. g = f \/ (g.todo = {} /\ g.phase # "scan")
      BY <1>7 DEF NoBackfill
    <3> QED  BY <3>1, <3>2
  <2>10. Behind(backfill, rows)'
    BY <1>2, <1>9, <2>9 DEF Behind
  <2> QED  BY <2>2, <2>7, <2>8, <2>10 DEF GapInv
<1> QED  BY <1>10, <1>11 DEF BackfillEvent

\* A crash cuts off only events of the block that was being stored.
LEMMA CrashLeavesNoGap ==
    ASSUME GapInv, Crash
    PROVE  GapInv'
<1>1. HeightInv /\ Scans(backfill)
  BY DEF GapInv, HeightInv
<1>2. /\ UNCHANGED <<l1Head, depositBlock, rows>> /\ missed' = missed \cup CutOff
      /\ backfill' = NoBackfill
  BY DEF Crash, l1Vars
<1>3. /\ Scans(NoBackfill) /\ Behind(NoBackfill, rows)
      /\ NoBackfill.next - 1 = 0 - 1 /\ NoBackfill.todo = {}
  BY <1>1, NoBackfillScans
<1>4. HeightInv'
  BY <1>1, <1>2, <1>3 DEF HeightInv, Scans
<1>5. Kept' = missed \cup CutOff
  BY <1>2, <1>3 DEF Kept
<1>6. ASSUME NEW d \in DepositIds, rows[d] # NoRow, NEW id \in DepositIds,
             depositBlock[id] \in 1..rows[d].block, rows[id] = NoRow
      PROVE  id \in missed \cup CutOff
  <2>1. id \in backfill.todo \cup missed
    BY <1>6 DEF GapInv, NoGap, Stored, Kept
  <2>2. CASE id \in backfill.todo
    <3>1. rows[d].block <= depositBlock[id]
      BY <1>6, <2>2 DEF GapInv, Behind
    <3>2. rows[d].block = depositBlock[id]
      BY <1>1, <1>6, <3>1, BlocksAreIntegers
    <3> QED  BY <1>6, <2>2, <3>2 DEF CutOff
  <2> QED  BY <2>1, <2>2
<1>7. NoGap(depositBlock', rows', Kept')
  BY <1>2, <1>5, <1>6 DEF NoGap, Stored
<1>8. Stored(depositBlock', rows', Kept', backfill'.next - 1)
  <2>1. Stored(depositBlock', rows', Kept', 0 - 1)
    BY NothingScanned
  <2> QED  BY <1>2, <1>3, <2>1
<1>9. Behind(backfill, rows)'
  BY <1>2, <1>3 DEF Behind
<1> QED  BY <1>4, <1>7, <1>8, <1>9 DEF GapInv

\* Whatever a pass has stands in the table.
Listed(s) == s.todo \cup s.sent \cup s.done
ListedInv == \A p \in Passes : \A id \in Listed(passes[p]) : id \in DepositIds /\ rows[id] # NoRow

LEMMA ListedInvInit == DepositInit => ListedInv
BY DEF DepositInit, PipelineInit, ListedInv, Listed, NoPass

\* One pass becomes s.
LEMMA PassLists ==
    ASSUME DepositInv, ListedInv, NEW p \in Passes, NEW s,
           passes' = [passes EXCEPT ![p] = s],
           \A id \in Listed(s) : id \in DepositIds /\ rows[id] # NoRow,
           \A id \in DepositIds : rows[id] # NoRow => rows'[id] # NoRow
    PROVE  ListedInv'
<1>1. passes = [q \in Passes |-> passes[q]]
  BY DEF DepositInv, ProcessorInv
<1>2. passes'[p] = s /\ \A q \in Passes : q # p => passes'[q] = passes[q]
  BY <1>1
<1>3. ASSUME NEW q \in Passes, NEW id \in Listed(passes'[q])
      PROVE  id \in DepositIds /\ rows'[id] # NoRow
  <2>1. CASE q = p
    BY <1>2, <1>3, <2>1
  <2>2. CASE q # p
    BY <1>2, <1>3, <2>2 DEF ListedInv
  <2> QED  BY <2>1, <2>2
<1> QED  BY <1>3 DEF ListedInv, Listed

LEMMA GoesOnLists ==
    ASSUME DepositInv, ListedInv, NEW p \in Passes, NEW id, GoesOn(p, id),
           \A d \in DepositIds : rows[d] # NoRow => rows'[d] # NoRow
    PROVE  ListedInv'
<1>1. PICK s : s = [NoPass EXCEPT !.todo = passes[p].todo \ {id}]
  OBVIOUS
<1>2. \A d \in Listed(s) : d \in Listed(passes[p])
  BY <1>1 DEF NoPass, Listed
<1>3. passes' = [passes EXCEPT ![p] = s]
  BY <1>1 DEF GoesOn
<1> QED  BY <1>2, <1>3, PassLists DEF ListedInv

\* The processor writes nothing of a row but whether it was processed.
LEMMA PassStepLists ==
    ASSUME DepositInv, HeightInv, ListedInv, NEW p \in Passes, NEW id \in DepositIds,
           StartPass(p) \/ Send(p, id) \/ Execute(p, id) \/ LoseReceipt(p, id)
    PROVE  ListedInv' /\ UNCHANGED rows
<1>1. UNCHANGED rows
  BY DEF StartPass, Send, Execute, LoseReceipt
<1>2. PICK s0 \in PassType : s0 = passes[p]
  BY PassIsGood DEF Processed
<1>3. CASE StartPass(p)
  <2>1. PICK ids \in PendingDeposits : passes' = [passes EXCEPT ![p].todo = ids]
    BY <1>3 DEF StartPass
  <2>2. ids \subseteq Unprocessed
    BY DEF PendingDeposits
  <2>3. PICK s : s = [s0 EXCEPT !.todo = ids]
    OBVIOUS
  <2>4. \A d \in Listed(s) : d \in DepositIds /\ rows[d] # NoRow
    <3>1. s.todo = ids /\ s.sent = s0.sent /\ s.done = s0.done
      BY <2>3 DEF PassType
    <3>2. \A d \in ids : d \in DepositIds /\ rows[d] # NoRow
      BY <2>2 DEF Unprocessed
    <3> QED  BY <1>2, <3>1, <3>2 DEF Listed, ListedInv
  <2>5. passes' = [passes EXCEPT ![p] = s]
    BY <1>2, <2>1, <2>3
  <2> QED  BY <1>1, <2>4, <2>5, PassLists
<1>4. CASE GoesOn(p, id)
  BY <1>1, <1>4, GoesOnLists
<1>5. CASE UNCHANGED passes
  BY <1>1, <1>5 DEF ListedInv
<1>6. CASE Send(p, id) /\ passes' = [passes EXCEPT ![p].sent = {id}]
  <2>1. PICK s : s = [s0 EXCEPT !.sent = {id}]
    OBVIOUS
  <2>2. s.todo = s0.todo /\ s.sent = {id} /\ s.done = s0.done /\ id \in s0.todo
    BY <1>2, <1>6, <2>1 DEF PassType, Send, IsNext
  <2>3. \A d \in Listed(s) : d \in Listed(passes[p])
    BY <1>2, <2>2 DEF Listed
  <2>4. passes' = [passes EXCEPT ![p] = s]
    BY <1>2, <1>6, <2>1
  <2> QED  BY <1>1, <2>3, <2>4, PassLists DEF ListedInv
<1>7. CASE Execute(p, id) /\ Mined(p, id)
  <2>1. PICK s : s = [s0 EXCEPT !.sent = {}, !.done = {id}]
    OBVIOUS
  <2>2. s.todo = s0.todo /\ s.sent = {} /\ s.done = {id} /\ id \in s0.sent
    BY <1>2, <1>7, <2>1 DEF PassType, Execute
  <2>3. \A d \in Listed(s) : d \in Listed(passes[p])
    BY <1>2, <2>2 DEF Listed
  <2>4. passes' = [passes EXCEPT ![p] = s]
    BY <1>2, <1>7, <2>1 DEF Mined
  <2> QED  BY <1>1, <2>3, <2>4, PassLists DEF ListedInv
<1> QED  BY <1>1, <1>3, <1>4, <1>5, <1>6, <1>7 DEF Send, Execute, LoseReceipt

\* markDepositProcessed keeps the block of a row that is there.
LEMMA MarkedRow ==
    ASSUME HeightInv, NEW id \in DepositIds, rows[id] # NoRow,
           rows' = [rows EXCEPT ![id].processed = TRUE]
    PROVE  /\ rows' = [d \in DepositIds |-> rows'[d]]
           /\ \A d \in DepositIds :
                 /\ rows[d] = NoRow <=> rows'[d] = NoRow
                 /\ rows[d] # NoRow => rows'[d] \in Row /\ rows'[d].block = rows[d].block
<1>1. PICK row \in Row : row = rows[id]
  BY DEF HeightInv
<1>2. PICK marked : marked = [row EXCEPT !.processed = TRUE]
  OBVIOUS
<1>3. marked \in Row /\ marked.block = row.block
  BY <1>2 DEF Row
<1>4. marked # NoRow
  BY <1>3 DEF Row
<1>5. rows' = [rows EXCEPT ![id] = marked]
  BY <1>1, <1>2
<1> QED  BY <1>1, <1>3, <1>4, <1>5 DEF HeightInv

LEMMA ProcessorLeavesNoGap ==
    ASSUME DepositInv, ListedInv, GapInv, NEW p \in Passes, NEW id \in DepositIds,
           \/ StartPass(p) \/ Send(p, id) \/ Execute(p, id) \/ Mark(p, id) \/ LoseReceipt(p, id)
    PROVE  ListedInv' /\ GapInv'
<1>1. HeightInv /\ rows = [d \in DepositIds |-> rows[d]]
  BY DEF GapInv, HeightInv
<1>2. UNCHANGED <<l1Head, depositBlock, backfill, missed, up>>
  BY DEF StartPass, Send, Execute, Mark, LoseReceipt, InPass, l1Vars, listenerVars
<1>4. CASE StartPass(p) \/ Send(p, id) \/ Execute(p, id) \/ LoseReceipt(p, id)
  <2>1. ListedInv' /\ UNCHANGED rows
    BY <1>1, <1>4, PassStepLists
  <2> QED  BY <1>1, <1>2, <2>1, GapRests DEF HeightInv
<1>5. CASE Mark(p, id)
  <2>1. /\ GoesOn(p, id) /\ id \in passes[p].done
        /\ rows' = [rows EXCEPT ![id].processed = TRUE] \/ UNCHANGED rows
    BY <1>5 DEF Mark
  <2>2. rows[id] # NoRow
    BY <2>1 DEF ListedInv, Listed
  <2>3. /\ rows' = [d \in DepositIds |-> rows'[d]]
        /\ \A d \in DepositIds :
              /\ rows[d] = NoRow <=> rows'[d] = NoRow
              /\ rows[d] # NoRow => rows'[d] \in Row /\ rows'[d].block = rows[d].block
    BY <1>1, <2>1, <2>2, MarkedRow DEF HeightInv
  <2> QED  BY <1>2, <2>1, <2>3, GoesOnLists, GapRests
<1> QED  BY <1>4, <1>5

\* Where passes stay, what they have stays in the table.
LEMMA ListedRests ==
    ASSUME ListedInv, UNCHANGED passes, \A d \in DepositIds : rows[d] # NoRow => rows'[d] # NoRow
    PROVE  ListedInv'
BY DEF ListedInv, Listed

LEMMA GapInvStep ==
    ASSUME DepositInv, ListedInv, GapInv, [PipelineNext]_depositPipelineVars
    PROVE  ListedInv' /\ GapInv'
<1>1. HeightInv /\ rows = [d \in DepositIds |-> rows[d]]
  BY DEF GapInv, HeightInv
<1>2. ASSUME NEW ids \in SUBSET DepositIds, MineL1(ids) PROVE ListedInv' /\ GapInv'
  <2>1. UNCHANGED <<rows, passes>>
    BY <1>2 DEF MineL1, processorVars
  <2> QED  BY <1>2, <2>1, MineL1LeavesNoGap, ListedRests
<1>3. CASE Close \/ Subscribe \/ (\E id \in DepositIds : ExecuteOrphan(id)) \/ L2OwnerNext
           \/ UNCHANGED depositPipelineVars
  <2>1. UNCHANGED <<rows, passes, l1Head, depositBlock, backfill, missed, up>>
    BY <1>3 DEF Close, Subscribe, ExecuteOrphan, L2OwnerNext, pipeVars, depositPipelineVars,
       InPass, l1Vars, listenerVars, processorVars
  <2> QED  BY <1>1, <2>1, GapRests, ListedRests DEF HeightInv
<1>4. CASE Start
  <2>1. UNCHANGED <<rows, passes>>
    BY <1>4 DEF Start, processorVars
  <2> QED  BY <1>4, <2>1, StartLeavesNoGap, ListedRests
<1>5. ASSUME NEW id \in DepositIds, LiveEvent(id) PROVE ListedInv' /\ GapInv'
  <2>1. UNCHANGED passes /\ (Save(id, 0) \/ UNCHANGED rows)
    BY <1>5 DEF LiveEvent, LiveBlock, processorVars
  <2>2. \A d \in DepositIds : rows[d] # NoRow => rows'[d] # NoRow
    BY <1>1, <2>1 DEF Save
  <2> QED  BY <1>5, <2>1, <2>2, LiveEventLeavesNoGap, ListedRests
<1>6. CASE BackfillHead \/ BackfillFrom \/ BackfillQuery \/ BackfillFails
  <2>1. UNCHANGED <<rows, passes>>
    BY <1>6 DEF BackfillHead, BackfillFrom, BackfillQuery, BackfillFails, InBackfill, processorVars
  <2> QED  BY <1>6, <2>1, HeadLeavesNoGap, FromLeavesNoGap, QueryLeavesNoGap, FailsLeavesNoGap,
              ListedRests
<1>7. ASSUME NEW id \in DepositIds, BackfillEvent(id)
      PROVE  ListedInv' /\ GapInv'
  <2>1. UNCHANGED passes /\ (Save(id, depositBlock[id]) \/ UNCHANGED rows)
    BY <1>7 DEF BackfillEvent, InBackfill, processorVars
  <2>2. \A d \in DepositIds : rows[d] # NoRow => rows'[d] # NoRow
    BY <1>1, <2>1 DEF Save
  <2> QED  BY <1>7, <2>1, <2>2, EventLeavesNoGap, ListedRests
<1>8. CASE ListenerNext
  BY <1>3, <1>5, <1>6, <1>7, <1>8 DEF ListenerNext
<1>9. CASE ProcessorNext
  <2>1. ASSUME NEW p \in Passes, StartPass(p) PROVE ListedInv' /\ GapInv'
    <3>1. PICK id : id \in DepositIds
      BY <2>1 DEF StartPass, Unprocessed
    <3> QED  BY <2>1, <3>1, ProcessorLeavesNoGap
  <2> QED  BY <1>9, <2>1, ProcessorLeavesNoGap DEF ProcessorNext
<1>10. CASE Crash
  <2>1. UNCHANGED rows /\ passes' = [p \in Passes |-> NoPass]
    BY <1>10 DEF Crash
  <2>2. ListedInv'
    BY <2>1 DEF ListedInv, Listed, NoPass
  <2> QED  BY <1>10, <2>2, CrashLeavesNoGap
<1> QED  BY <1>2, <1>3, <1>4, <1>8, <1>9, <1>10 DEF PipelineNext

\* Every deposit below the block the next backfill starts after has its row,
\* is among the events the backfill still stores, or was lost in one of three
\* ways (l1-listener.service.ts:205-255): its insert failed, the process went
\* down between the inserts of its block, or it was past the lookback.
THEOREM BackfillsNeverLeaveGap == DepositSpec => []BackfillLeavesNoGap
<1>1. DepositInv /\ ListedInv /\ GapInv /\ [PipelineNext]_depositPipelineVars
          => (ListedInv /\ GapInv)'
  BY GapInvStep
<1>2. DepositInit => ListedInv /\ GapInv
  BY GapInvInit, ListedInvInit
<1>3. GapInv => BackfillLeavesNoGap
  <2> SUFFICES ASSUME GapInv, NEW id \in DepositIds,
                      depositBlock[id] \in 1..LastDepositBlock, rows[id] = NoRow
               PROVE  id \in backfill.todo \cup missed
    BY DEF BackfillLeavesNoGap
  <2>1. HeightInv /\ NoGap(depositBlock, rows, Kept)
    BY DEF GapInv
  <2>2. PICK d \in DepositIds : rows[d] # NoRow /\ LastDepositBlock = rows[d].block
    <3>1. LastDepositBlock # 0
      BY <2>1 DEF HeightInv
    <3> QED  BY <2>1, <3>1, LastBlockIsStored
  <2> QED  BY <2>1, <2>2 DEF NoGap, Stored, Kept
<1> QED  BY <1>1, <1>2, <1>3, DepositInvHolds, PTL DEF DepositSpec
============================================================================
