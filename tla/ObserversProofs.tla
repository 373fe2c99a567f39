-------------------------- MODULE ObserversProofs --------------------------
(***************************************************************************)
(* The cursor of the block listener never passes a block that is not       *)
(* stored as a whole; what a cursor of the bridge listener has passed is   *)
(* in the rows; and a client of the gateway is told of all that its        *)
(* cursors have passed: for any number of passes and polls, batch size and *)
(* faults.                                                                 *)
(***************************************************************************)
EXTENDS Observers, FiniteSetTheorems, TLAPS

\* A block is stored as a whole, or a read of it came back empty; below k all are.
Good(b) == IsWhole(b) \/ b \in excused
CoveredBelow(k) == \A b \in Int : 1 <= b /\ b < k => Good(b)

Phases == {"idle", "event", "poll", "block", "txs", "logs", "set", "wait"}
PassType == [phase : Phases, sync : BOOLEAN, n : Nat, lo : Nat, hi : Nat, to : Nat]

\* What a pass knows of the block it is at.
BlockIsIn(s) == s.phase \in {"txs", "logs"} => s.n \in blocks
TransactionsAreIn(s) ==
    s.phase = "logs" /\ s.n \in TxBlocks =>
        s.n \in txs \/ s.n \in excused \/ s.n \in LogBlocks
StoredIsGood(s) == s.phase = "set" => Good(s.n)

\* The pass leaves nothing out behind it, nor behind its batch.
PassLeavesNoHole(s) ==
    /\ s.phase \in {"block", "txs", "logs", "set"} => CoveredBelow(s.n)
    /\ s.phase \notin {"idle", "event", "poll"} /\ s.sync => CoveredBelow(s.lo)
    /\ BlockIsIn(s) /\ TransactionsAreIn(s) /\ StoredIsGood(s)
    /\ s.phase \in {"event", "poll"} => ~s.sync
    /\ s.phase = "wait" => s.sync

BlockInv ==
    /\ head \in Nat /\ cursor \in Nat
    /\ passes \in [Passes -> PassType]
    /\ CoveredBelow(cursor + 1)
    /\ \A p \in Passes : PassLeavesNoHole(passes[p])

----------------------------------------------------------------------------
LEMMA MinOfTwo ==
    ASSUME NEW a \in Int, NEW b \in Int
    PROVE  Min({a, b}) \in {a, b}
<1>1. \E x \in {a, b} : \A y \in {a, b} : x <= y
  <2>1. CASE a <= b
    BY <2>1
  <2>2. CASE ~(a <= b)
    BY <2>2
  <2> QED  BY <2>1, <2>2
<1> QED  BY <1>1 DEF Min

\* The start of a sync at a block below which all is covered.
LEMMA SyncLeavesNoHole ==
    ASSUME NEW from \in Nat, NEW to \in Nat, CoveredBelow(from)
    PROVE  Sync(from, to) \in PassType /\ PassLeavesNoHole(Sync(from, to))
<1>1. from + BatchSize - 1 \in Nat
  BY BlockIndexAssumption
<1>2. EndOfBatch(from, to) \in Nat
  BY <1>1, MinOfTwo DEF EndOfBatch
<1> QED
  BY <1>2 DEF Sync, NoPass, PassType, Phases, PassLeavesNoHole, BlockIsIn, TransactionsAreIn,
     StoredIsGood

LEMMA NoPassLeavesNoHole == NoPass \in PassType /\ PassLeavesNoHole(NoPass)
BY DEF NoPass, PassType, Phases, PassLeavesNoHole, BlockIsIn, TransactionsAreIn, StoredIsGood

\* Rows and excuses only grow: what was good stays good, and what a pass knows
\* stays true.
TablesGrow ==
    blocks \subseteq blocks' /\ txs \subseteq txs' /\ logs \subseteq logs'
    /\ excused \subseteq excused'

LEMMA GoodStays ==
    ASSUME TablesGrow, NEW b, Good(b)
    PROVE  Good(b)'
BY DEF TablesGrow, Good, IsWhole

LEMMA CoverStays ==
    ASSUME TablesGrow, NEW k, CoveredBelow(k)
    PROVE  \A b \in Int : 1 <= b /\ b < k => Good(b)'
BY GoodStays DEF CoveredBelow

LEMMA PassStaysGood ==
    ASSUME TablesGrow, NEW s \in PassType, PassLeavesNoHole(s), NEW p, s = passes[p],
           passes'[p] = s
    PROVE  PassLeavesNoHole(passes[p])'
BY CoverStays, GoodStays
   DEF PassLeavesNoHole, CoveredBelow, BlockIsIn, TransactionsAreIn, StoredIsGood, TablesGrow

\* A step of one pass keeps the invariant, if it keeps that pass and the cursor.
LEMMA OnePassSteps ==
    ASSUME BlockInv, TablesGrow, NEW p \in Passes,
           passes' = [passes EXCEPT ![p] = passes'[p]],
           passes'[p] \in PassType, PassLeavesNoHole(passes[p])',
           head' = head, cursor' \in Nat,
           cursor' = cursor \/ CoveredBelow(cursor + 1)'
    PROVE  BlockInv'
<1>1. passes' \in [Passes -> PassType]
  BY DEF BlockInv
<1>2. ASSUME NEW q \in Passes PROVE PassLeavesNoHole(passes[q])'
  <2>1. CASE q = p
    BY <2>1
  <2>2. CASE q # p
    <3>1. passes'[q] = passes[q] /\ passes[q] \in PassType /\ PassLeavesNoHole(passes[q])
      BY <2>2 DEF BlockInv
    <3> QED  BY <3>1, PassStaysGood
  <2> QED  BY <2>1, <2>2
<1>3. CoveredBelow(cursor + 1)'
  <2>1. CASE cursor' = cursor
    BY <2>1, CoverStays DEF BlockInv, CoveredBelow
  <2> QED  BY <2>1
<1> QED  BY <1>1, <1>2, <1>3 DEF BlockInv

----------------------------------------------------------------------------
\* The steps of a pass

\* What a pass does after a block that is good.
LEMMA AfterBlockLeavesNoHole ==
    ASSUME NEW s \in PassType, CoveredBelow(s.n + 1), s.sync => CoveredBelow(s.lo)
    PROVE  AfterBlock(s) \in PassType /\ PassLeavesNoHole(AfterBlock(s))
<1>1. CASE ~s.sync \/ ~IsRunning
  BY <1>1, NoPassLeavesNoHole DEF AfterBlock
<1>2. CASE s.sync /\ IsRunning /\ s.n < s.hi
  <2>1. AfterBlock(s) = [s EXCEPT !.phase = "block", !.n = @ + 1]
    BY <1>2 DEF AfterBlock
  <2> DEFINE r == [s EXCEPT !.phase = "block", !.n = @ + 1]
  <2>2. r \in PassType
    <3>1. s.n + 1 \in Nat /\ "block" \in Phases
      BY DEF PassType, Phases
    <3> QED  BY <3>1 DEF PassType
  <2>3. r.phase = "block" /\ r.n = s.n + 1 /\ r.lo = s.lo /\ r.sync = s.sync
    BY DEF PassType
  <2>4. PassLeavesNoHole(r)
    BY <2>3, <1>2 DEF PassLeavesNoHole, BlockIsIn, TransactionsAreIn, StoredIsGood
  <2> QED
    BY <2>1, <2>2, <2>4
<1>3. CASE s.sync /\ IsRunning /\ ~(s.n < s.hi)
  <2>1. s.hi + 1 \in Nat /\ s.to \in Nat /\ CoveredBelow(s.hi + 1)
    BY <1>3 DEF PassType, CoveredBelow
  <2>2. AfterBlock(s) = Sync(s.hi + 1, s.to)
    BY <1>3 DEF AfterBlock
  <2> QED  BY <2>1, <2>2, SyncLeavesNoHole
<1> QED  BY <1>1, <1>2, <1>3

\* A failed pass waits behind its batch, or is gone.
LEMMA ThrownLeavesNoHole ==
    ASSUME NEW s \in PassType, PassLeavesNoHole(s),
           s.phase \notin {"idle", "event", "poll"} \/ ~s.sync
    PROVE  Thrown(s) \in PassType /\ PassLeavesNoHole(Thrown(s))
<1>1. CASE s.sync
  BY <1>1 DEF Thrown, PassType, Phases, PassLeavesNoHole, BlockIsIn, TransactionsAreIn,
     StoredIsGood
<1>2. CASE ~s.sync
  BY <1>2, NoPassLeavesNoHole DEF Thrown
<1> QED  BY <1>1, <1>2

\* A pass that goes on as s, which knows nothing that is not so before the step.
LEMMA PassGoesOn ==
    ASSUME BlockInv, TablesGrow, NEW p \in Passes, NEW s \in PassType, PassLeavesNoHole(s),
           passes' = [passes EXCEPT ![p] = s],
           head' = head, cursor' \in Nat,
           cursor' = cursor \/ CoveredBelow(cursor + 1)'
    PROVE  BlockInv'
<1>1. passes'[p] = s /\ passes' = [passes EXCEPT ![p] = passes'[p]]
  BY DEF BlockInv
<1>2. PassLeavesNoHole(passes[p])'
  BY <1>1, CoverStays, GoodStays
     DEF PassLeavesNoHole, CoveredBelow, BlockIsIn, TransactionsAreIn, StoredIsGood, TablesGrow
<1> QED  BY <1>1, <1>2, OnePassSteps

LEMMA PassesAreTyped ==
    ASSUME BlockInv, NEW p \in Passes
    PROVE  passes[p] \in PassType /\ PassLeavesNoHole(passes[p])
BY DEF BlockInv

LEMMA ReadCursorKeeps ==
    ASSUME BlockInv, NEW p \in Passes, ReadCursor(p)
    PROVE  BlockInv'
<1> DEFINE r == IF passes[p].phase = "event" /\ passes[p].to = cursor + 1
                THEN [passes[p] EXCEPT !.phase = "block", !.n = passes[p].to]
                ELSE Sync(cursor + 1, passes[p].to)
<1>1. TablesGrow /\ head' = head /\ cursor' = cursor /\ cursor \in Nat
  BY DEF ReadCursor, TablesGrow, tables, BlockInv
<1>2. passes' = [passes EXCEPT ![p] = r]
  BY DEF ReadCursor
<1>3. r \in PassType /\ PassLeavesNoHole(r)
  <2>1. CASE passes[p].phase = "event" /\ passes[p].to = cursor + 1
    <3>1. passes[p] \in PassType /\ ~passes[p].sync /\ CoveredBelow(passes[p].to)
      BY <2>1, PassesAreTyped DEF BlockInv, PassLeavesNoHole
    <3> DEFINE e == [passes[p] EXCEPT !.phase = "block", !.n = passes[p].to]
    <3>2. e \in PassType /\ e.phase = "block" /\ e.n = passes[p].to /\ ~e.sync
      BY <3>1 DEF PassType, Phases
    <3>3. PassLeavesNoHole(e)
      BY <3>1, <3>2 DEF PassLeavesNoHole, BlockIsIn, TransactionsAreIn, StoredIsGood
    <3> QED  BY <2>1, <3>2, <3>3
  <2>2. CASE ~(passes[p].phase = "event" /\ passes[p].to = cursor + 1)
    <3>1. cursor + 1 \in Nat /\ passes[p].to \in Nat /\ CoveredBelow(cursor + 1)
      BY PassesAreTyped DEF PassType, BlockInv
    <3> QED  BY <2>2, <3>1, SyncLeavesNoHole
  <2> QED  BY <2>1, <2>2
<1> HIDE DEF r
<1>4. PICK s : s = r
  OBVIOUS
<1> QED  BY <1>1, <1>2, <1>3, <1>4, PassGoesOn

LEMMA StoreBlockKeeps ==
    ASSUME BlockInv, NEW p \in Passes, StoreBlock(p)
    PROVE  BlockInv'
<1>1. TablesGrow /\ head' = head /\ cursor' = cursor /\ cursor \in Nat
      /\ blocks' = blocks \cup {passes[p].n}
  BY DEF StoreBlock, InsertBlock, TablesGrow, BlockInv
<1>2. passes[p] \in PassType /\ PassLeavesNoHole(passes[p]) /\ passes[p].phase = "block"
  BY PassesAreTyped DEF StoreBlock
<1>3. /\ passes' = [passes EXCEPT ![p] = passes'[p]]
      /\ passes'[p] = [passes[p] EXCEPT !.phase = "txs"]
  BY DEF StoreBlock, BlockInv
<1>4. /\ passes'[p] \in PassType /\ passes'[p].phase = "txs" /\ passes'[p].n = passes[p].n
      /\ passes'[p].lo = passes[p].lo /\ passes'[p].sync = passes[p].sync
  BY <1>2, <1>3 DEF PassType, Phases
<1>5. PassLeavesNoHole(passes[p])'
  BY <1>1, <1>2, <1>4, CoverStays
     DEF PassLeavesNoHole, CoveredBelow, BlockIsIn, TransactionsAreIn, StoredIsGood
<1> QED  BY <1>1, <1>3, <1>4, <1>5, OnePassSteps

LEMMA StoreTransactionsKeeps ==
    ASSUME BlockInv, NEW p \in Passes, StoreTransactions(p)
    PROVE  BlockInv'
<1>1. TablesGrow /\ head' = head /\ cursor' = cursor /\ cursor \in Nat
  BY DEF StoreTransactions, InsertTransaction, TablesGrow, BlockInv
<1>2. passes[p] \in PassType /\ PassLeavesNoHole(passes[p]) /\ passes[p].phase = "txs"
  BY PassesAreTyped DEF StoreTransactions
<1>3. passes[p].n \in TxBlocks => passes[p].n \in txs'
  BY DEF StoreTransactions, InsertTransaction, GetTransactionsInBlock
<1>4. /\ passes' = [passes EXCEPT ![p] = passes'[p]]
      /\ passes'[p] = [passes[p] EXCEPT !.phase = "logs"]
  BY DEF StoreTransactions, BlockInv
<1>5. /\ passes'[p] \in PassType /\ passes'[p].phase = "logs" /\ passes'[p].n = passes[p].n
      /\ passes'[p].lo = passes[p].lo /\ passes'[p].sync = passes[p].sync
  BY <1>2, <1>4 DEF PassType, Phases
<1>6. passes[p].n \in blocks'
  BY <1>1, <1>2 DEF TablesGrow, PassLeavesNoHole, BlockIsIn
<1>7. PassLeavesNoHole(passes[p])'
  BY <1>1, <1>2, <1>3, <1>5, <1>6, CoverStays
     DEF PassLeavesNoHole, CoveredBelow, BlockIsIn, TransactionsAreIn, StoredIsGood
<1> QED  BY <1>1, <1>4, <1>5, <1>7, OnePassSteps

LEMMA StoreLogsKeeps ==
    ASSUME BlockInv, NEW p \in Passes, StoreLogs(p)
    PROVE  BlockInv'
<1>1. TablesGrow /\ head' = head /\ cursor' = cursor /\ cursor \in Nat
  BY DEF StoreLogs, InsertLog, TablesGrow, BlockInv
<1>2. passes[p] \in PassType /\ PassLeavesNoHole(passes[p]) /\ passes[p].phase = "logs"
  BY PassesAreTyped DEF StoreLogs
<1>3. CASE passes' = [passes EXCEPT ![p] = Thrown(@)]
  <2>1. PICK s : s = Thrown(passes[p])
    OBVIOUS
  <2>2. s \in PassType /\ PassLeavesNoHole(s)
    BY <1>2, <2>1, ThrownLeavesNoHole
  <2> QED  BY <1>1, <1>3, <2>1, <2>2, PassGoesOn
<1>4. CASE /\ GetLogsInBlock(passes[p].n) \ txs = {}
           /\ passes' = [passes EXCEPT ![p].phase = "set"]
           /\ passes[p].n \in LogBlocks => passes[p].n \in logs'
  <2>1. /\ passes' = [passes EXCEPT ![p] = passes'[p]]
        /\ passes'[p] = [passes[p] EXCEPT !.phase = "set"]
    BY <1>4 DEF BlockInv
  <2>2. /\ passes'[p] \in PassType /\ passes'[p].phase = "set" /\ passes'[p].n = passes[p].n
        /\ passes'[p].lo = passes[p].lo /\ passes'[p].sync = passes[p].sync
    BY <1>2, <2>1 DEF PassType, Phases
  <2>3. /\ passes[p].n \in blocks
        /\ passes[p].n \in TxBlocks => passes[p].n \in txs \/ passes[p].n \in excused
    BY <1>2, <1>4 DEF PassLeavesNoHole, BlockIsIn, TransactionsAreIn, GetLogsInBlock
  <2>4. Good(passes[p].n)'
    BY <1>1, <1>4, <2>2, <2>3 DEF Good, IsWhole, TablesGrow
  <2>5. PassLeavesNoHole(passes[p])'
    BY <1>1, <1>2, <2>2, <2>4, CoverStays
       DEF PassLeavesNoHole, CoveredBelow, BlockIsIn, TransactionsAreIn, StoredIsGood
  <2> QED  BY <1>1, <2>1, <2>2, <2>5, OnePassSteps
<1> QED  BY <1>3, <1>4 DEF StoreLogs, InsertLog, GetLogsInBlock

LEMMA SetCursorKeeps ==
    ASSUME BlockInv, NEW p \in Passes, SetCursor(p)
    PROVE  BlockInv'
<1>1. TablesGrow /\ head' = head /\ cursor' = passes[p].n
  BY DEF SetCursor, TablesGrow
<1>2. passes[p] \in PassType /\ PassLeavesNoHole(passes[p]) /\ passes[p].phase = "set"
  BY PassesAreTyped DEF SetCursor
<1>3. passes[p].n \in Nat /\ CoveredBelow(passes[p].n + 1)
  BY <1>2 DEF PassType, PassLeavesNoHole, StoredIsGood, CoveredBelow
<1>4. CoveredBelow(cursor + 1)'
  BY <1>1, <1>3, CoverStays DEF CoveredBelow
<1>5. passes[p].sync => CoveredBelow(passes[p].lo)
  BY <1>2 DEF PassLeavesNoHole
<1>6. PICK s : s = AfterBlock(passes[p])
  OBVIOUS
<1>7. s \in PassType /\ PassLeavesNoHole(s)
  BY <1>2, <1>3, <1>5, <1>6, AfterBlockLeavesNoHole
<1>8. passes' = [passes EXCEPT ![p] = s]
  BY <1>6 DEF SetCursor
<1> QED  BY <1>1, <1>3, <1>4, <1>7, <1>8, PassGoesOn

LEMMA RetryKeeps ==
    ASSUME BlockInv, NEW p \in Passes, Retry(p)
    PROVE  BlockInv'
<1>1. TablesGrow /\ head' = head /\ cursor' = cursor /\ cursor \in Nat
  BY DEF Retry, TablesGrow, tables, BlockInv
<1>2. passes[p] \in PassType /\ PassLeavesNoHole(passes[p]) /\ passes[p].phase = "wait"
  BY PassesAreTyped DEF Retry
<1>3. CASE passes' = [passes EXCEPT ![p] = NoPass]
  <2>1. PICK s : s = NoPass
    OBVIOUS
  <2> QED  BY <1>1, <1>3, <2>1, NoPassLeavesNoHole, PassGoesOn
<1>4. CASE passes' = [passes EXCEPT ![p] = [passes[p] EXCEPT !.phase = "block", !.n = passes[p].lo]]
  <2>1. PICK s : s = [passes[p] EXCEPT !.phase = "block", !.n = passes[p].lo]
    OBVIOUS
  <2>2. /\ s \in PassType /\ s.phase = "block" /\ s.n = passes[p].lo
        /\ s.lo = passes[p].lo /\ s.sync = passes[p].sync
    BY <1>2, <2>1 DEF PassType, Phases
  <2>3. CoveredBelow(passes[p].lo)
    BY <1>2 DEF PassLeavesNoHole
  <2>4. PassLeavesNoHole(s)
    BY <2>2, <2>3 DEF PassLeavesNoHole, BlockIsIn, TransactionsAreIn, StoredIsGood
  <2> QED  BY <1>1, <1>4, <2>1, <2>2, <2>4, PassGoesOn
<1> QED  BY <1>3, <1>4 DEF Retry

LEMMA PassStepKeeps ==
    ASSUME BlockInv, NEW p \in Passes, PassStep(p)
    PROVE  BlockInv'
BY ReadCursorKeeps, StoreBlockKeeps, StoreTransactionsKeeps, StoreLogsKeeps, SetCursorKeeps,
   RetryKeeps DEF PassStep

\* An empty answer by mistake: the block is excused, but where the insert of
\* the log is going to fail.
LEMMA ReadsNothingKeeps ==
    ASSUME BlockInv, NEW p \in Passes, ReadsNothing(p)
    PROVE  BlockInv'
<1>1. TablesGrow /\ head' = head /\ cursor' = cursor /\ cursor \in Nat
  BY DEF ReadsNothing, TablesGrow, tables, BlockInv
<1>2. passes[p] \in PassType /\ PassLeavesNoHole(passes[p])
  BY PassesAreTyped
<1>3. passes[p].phase \in {"block", "txs", "logs"}
  BY DEF ReadsNothing, AfterEmpty
<1>4. /\ passes' = [passes EXCEPT ![p] = passes'[p]]
      /\ passes'[p] = [passes[p] EXCEPT !.phase = AfterEmpty[passes[p].phase]]
  BY DEF ReadsNothing, BlockInv
<1>5. passes'[p].phase = IF passes[p].phase = "txs" THEN "logs" ELSE "set"
  BY <1>2, <1>3, <1>4 DEF PassType, AfterEmpty
<1>6. /\ passes'[p] \in PassType /\ passes'[p].n = passes[p].n
      /\ passes'[p].lo = passes[p].lo /\ passes'[p].sync = passes[p].sync
  BY <1>2, <1>3, <1>4, <1>5 DEF PassType, Phases, AfterEmpty
<1>7. \/ passes[p].n \in excused'
      \/ passes[p].phase = "txs" /\ passes[p].n \in LogBlocks
  BY <1>3 DEF ReadsNothing, Excuses
<1>8. BlockIsIn(passes[p])'
  BY <1>1, <1>2, <1>3, <1>5, <1>6 DEF BlockIsIn, PassLeavesNoHole, TablesGrow
<1>9. TransactionsAreIn(passes[p])' /\ StoredIsGood(passes[p])'
  BY <1>3, <1>5, <1>6, <1>7 DEF TransactionsAreIn, StoredIsGood, Good
<1>10. /\ passes'[p].phase \in {"logs", "set"}
       /\ CoveredBelow(passes[p].n)'
       /\ passes[p].sync => CoveredBelow(passes[p].lo)'
  BY <1>1, <1>2, <1>3, <1>5, <1>6, CoverStays DEF PassLeavesNoHole, CoveredBelow
<1>11. PassLeavesNoHole(passes[p])'
  BY <1>6, <1>8, <1>9, <1>10 DEF PassLeavesNoHole, CoveredBelow
<1> QED  BY <1>1, <1>4, <1>6, <1>11, OnePassSteps

LEMMA StatementFailsKeeps ==
    ASSUME BlockInv, NEW p \in Passes, StatementFails(p)
    PROVE  BlockInv'
<1>1. TablesGrow /\ head' = head /\ cursor' = cursor /\ cursor \in Nat
  BY DEF StatementFails, TablesGrow, tables, BlockInv
<1>2. passes[p] \in PassType /\ PassLeavesNoHole(passes[p]) /\ passes[p].phase # "idle"
  BY PassesAreTyped DEF StatementFails
<1>3. PICK s : s = Thrown(passes[p])
  OBVIOUS
<1>4. passes[p].phase \in {"event", "poll"} => ~passes[p].sync
  BY <1>2 DEF PassLeavesNoHole
<1>5. s \in PassType /\ PassLeavesNoHole(s)
  BY <1>2, <1>3, <1>4, ThrownLeavesNoHole
<1> QED  BY <1>1, <1>3, <1>5, PassGoesOn DEF StatementFails

----------------------------------------------------------------------------
\* The steps that begin passes, and those that do not touch them

LEMMA PassBegins ==
    ASSUME BlockInv, NEW p \in Passes, NEW to \in Nat, NEW phase \in {"event", "poll"},
           passes' = [passes EXCEPT ![p] = [NoPass EXCEPT !.phase = phase, !.to = to]],
           head' = head, UNCHANGED <<tables, excused>>
    PROVE  BlockInv'
<1>1. TablesGrow /\ cursor' = cursor /\ cursor \in Nat
  BY DEF TablesGrow, tables, BlockInv
<1>2. PICK s : s = [NoPass EXCEPT !.phase = phase, !.to = to]
  OBVIOUS
<1>3. s \in PassType /\ PassLeavesNoHole(s)
  BY <1>2 DEF NoPass, PassType, Phases, PassLeavesNoHole, BlockIsIn, TransactionsAreIn,
     StoredIsGood
<1> QED  BY <1>1, <1>2, <1>3, PassGoesOn

LEMMA PassesRest ==
    ASSUME BlockInv, UNCHANGED <<passes, tables, excused>>, head' \in Nat
    PROVE  BlockInv'
BY DEF BlockInv, tables, CoveredBelow, Good, IsWhole, PassLeavesNoHole, BlockIsIn,
   TransactionsAreIn, StoredIsGood

LEMMA AllPassesEnd ==
    ASSUME BlockInv, passes' = [p \in Passes |-> NoPass], UNCHANGED <<head, tables, excused>>
    PROVE  BlockInv'
<1>1. passes' \in [Passes -> PassType] /\ \A p \in Passes : passes'[p].phase = "idle"
  BY NoPassLeavesNoHole DEF NoPass
<1>2. \A p \in Passes : PassLeavesNoHole(passes[p])'
  BY <1>1 DEF PassLeavesNoHole, BlockIsIn, TransactionsAreIn, StoredIsGood
<1> QED  BY <1>1, <1>2 DEF BlockInv, tables, CoveredBelow, Good, IsWhole

LEMMA StartKeeps ==
    ASSUME BlockInv, StartIndexer
    PROVE  BlockInv'
<1>1. TablesGrow /\ head' = head /\ cursor' = cursor /\ 1 \in Passes
  BY BlockIndexAssumption DEF StartIndexer, TablesGrow, tables
<1>2. cursor \in Nat /\ cursor + 1 \in Nat /\ head \in Nat /\ CoveredBelow(cursor + 1)
  BY DEF BlockInv
<1>3. PICK s : s = Sync(cursor + 1, head)
  OBVIOUS
<1>4. s \in PassType /\ PassLeavesNoHole(s)
  BY <1>2, <1>3, SyncLeavesNoHole
<1>5. passes' = [passes EXCEPT ![1] = s]
  BY <1>3 DEF StartIndexer
<1> QED  BY <1>1, <1>2, <1>4, <1>5, PassGoesOn

LEMMA BlockNextKeeps ==
    ASSUME BlockInv, BlockIndexNext
    PROVE  BlockInv'
<1>1. CASE MineBlock
  <2>1. UNCHANGED <<passes, tables, excused>> /\ head' = head + 1
    BY <1>1 DEF MineBlock
  <2> QED  BY <2>1, PassesRest DEF BlockInv
<1>2. ASSUME NEW p \in Passes, NEW b \in 1..MaxHead, BlockEvent(p, b)
      PROVE  BlockInv'
  <2>1. b \in Nat /\ UNCHANGED <<head, tables, excused>>
    BY <1>2, BlockIndexAssumption DEF BlockEvent
  <2>2. passes' = [passes EXCEPT ![p] = [NoPass EXCEPT !.phase = "event", !.to = b]]
    BY <1>2 DEF BlockEvent
  <2> QED  BY <2>1, <2>2, PassBegins
<1>3. ASSUME NEW p \in Passes, PollTick(p)
      PROVE  BlockInv'
  <2>1. PICK to \in Nat : to = head
    BY DEF BlockInv
  <2>2. /\ passes' = [passes EXCEPT ![p] = [NoPass EXCEPT !.phase = "poll", !.to = to]]
        /\ UNCHANGED <<head, tables, excused>>
    BY <1>3, <2>1 DEF PollTick
  <2> QED  BY <2>2, PassBegins
<1>4. ASSUME NEW p \in Passes, PassStep(p)
      PROVE  BlockInv'
  BY <1>4, PassStepKeeps
<1>5. ASSUME NEW a \in Asks, NEW b \in 1..MaxHead, AskTransactions(a, b) \/ AskLogs(a, b)
      PROVE  BlockInv'
  <2>1. UNCHANGED <<passes, tables, excused>> /\ head' = head
    BY <1>5 DEF AskTransactions, AskLogs, Ask
  <2> QED  BY <2>1, PassesRest DEF BlockInv
<1>6. ASSUME NEW a \in Asks, CacheAnswer(a)
      PROVE  BlockInv'
  <2>1. UNCHANGED <<passes, tables, excused>> /\ head' = head
    BY <1>6 DEF CacheAnswer
  <2> QED  BY <2>1, PassesRest DEF BlockInv
<1>7. ASSUME NEW key \in Keys, Expire(key)
      PROVE  BlockInv'
  <2>1. UNCHANGED <<passes, tables, excused>> /\ head' = head
    BY <1>7 DEF Expire
  <2> QED  BY <2>1, PassesRest DEF BlockInv
<1>8. CASE IndexFails
  <2>1. ASSUME NEW p \in Passes, ReadsNothing(p) \/ StatementFails(p)
        PROVE  BlockInv'
    BY <2>1, ReadsNothingKeeps, StatementFailsKeeps
  <2>2. CASE CacheError
    <3>1. UNCHANGED <<passes, tables, excused>> /\ head' = head
      BY <2>2 DEF CacheError
    <3> QED  BY <3>1, PassesRest DEF BlockInv
  <2> QED  BY <1>8, <2>1, <2>2 DEF IndexFails
<1> QED  BY <1>1, <1>2, <1>3, <1>4, <1>5, <1>6, <1>7, <1>8 DEF BlockIndexNext

----------------------------------------------------------------------------
LEMMA BlockInvHolds == ObserversSpec => []BlockInv
<1>1. ObserversInit => BlockInv
  <2> SUFFICES ASSUME ObserversInit PROVE BlockInv
    OBVIOUS
  <2>1. head = 0 /\ cursor = 0 /\ passes = [p \in Passes |-> NoPass]
    BY DEF ObserversInit, BlockIndexInit
  <2>2. CoveredBelow(cursor + 1)
    BY <2>1 DEF CoveredBelow
  <2> QED  BY <2>1, <2>2, NoPassLeavesNoHole DEF BlockInv
<1>2. BlockInv /\ [ObserversNext]_observerVars => BlockInv'
  <2> SUFFICES ASSUME BlockInv, [ObserversNext]_observerVars PROVE BlockInv'
    OBVIOUS
  <2>1. CASE UNCHANGED blockIndexVars
    <3>1. UNCHANGED <<passes, tables, excused>> /\ head' = head
      BY <2>1 DEF blockIndexVars
    <3> QED  BY <3>1, PassesRest DEF BlockInv
  <2>2. CASE StartIndexer
    BY <2>2, StartKeeps
  <2>3. CASE Listen \/ StopIndexer
    <3>1. UNCHANGED <<passes, tables, excused>> /\ head' = head
      BY <2>3 DEF Listen, StopIndexer
    <3> QED  BY <3>1, PassesRest DEF BlockInv
  <2>4. CASE ExitIndexer \/ CrashIndexer
    BY <2>4, AllPassesEnd DEF ExitIndexer, CrashIndexer, Ended
  <2>5. CASE BlockIndexNext
    BY <2>5, BlockNextKeeps
  <2>6. CASE IndexerNext
    BY <2>1, <2>2, <2>3, <2>4, <2>5, <2>6
       DEF IndexerNext, StartBlocks, StartBridge, StopAll, Exit, Crash
  <2>7. CASE UNCHANGED indexerVars
    BY <2>1, <2>7 DEF indexerVars
  <2> QED  BY <2>6, <2>7 DEF ObserversNext, observerVars
<1> QED  BY <1>1, <1>2, PTL DEF ObserversSpec

\* The cursor of the indexer never passes a block that is not stored as a
\* whole (block-listener.ts:62-174), but for blocks the node answered with
\* nothing by mistake.
THEOREM CursorNeverLeavesHole == ObserversSpec => []CursorLeavesNoHole
<1>1. BlockInv => CursorLeavesNoHole
  BY DEF BlockInv, CoveredBelow, Good, CursorLeavesNoHole
<1> QED  BY <1>1, BlockInvHolds, PTL

----------------------------------------------------------------------------
\* The events of each bridge, each once, and a withdrawal is paid after it was
\* queued.
KindsOf(c) ==
    IF c = "l1" THEN {"Deposited", "queued", "finalized"}
    ELSE {"DepositProcessed", "WithdrawalInitiated"}
EventOf(c) ==
    {e \in [kind : KindsOf(c), id : Deposits \cup Withdrawals] :
        e.id \in Deposits <=> e.kind \in {"Deposited", "DepositProcessed"}}

QueuedAt(b, w) == events["l1"][b].kind = "queued" /\ events["l1"][b].id = w

EventsInOrder ==
    /\ DOMAIN events = Sides
    /\ \A c \in Sides : events[c] \in Seq(EventOf(c))
    /\ \A w \in Withdrawals : \A b1, b2 \in 1..Len(events["l1"]) :
          QueuedAt(b1, w) /\ QueuedAt(b2, w) => b1 = b2
    /\ \A b \in 1..Len(events["l1"]) :
          events["l1"][b].kind = "finalized" =>
              \E q \in 1..Len(events["l1"]) : q < b /\ QueuedAt(q, events["l1"][b].id)

\* How far the rows of a chain are written: to the cursor, or where the pass is.
Reach(c) == IF sync[c].phase = "range" THEN sync[c].at - 1 ELSE saved[c]

SyncType ==
    [phase : {"idle", "head", "range", "done"}, at : Nat, end : Int, to : Int]
CursorsInRange ==
    /\ saved \in [Sides -> Int] /\ first \in [Sides -> Nat]
    /\ sync \in [Sides -> SyncType]
    /\ \A c \in Sides :
          /\ -1 <= saved[c] /\ saved[c] <= Len(events[c])
          /\ sync[c].phase = "range" =>
                /\ sync[c].at <= sync[c].end + 1
                /\ sync[c].end <= sync[c].to /\ sync[c].to <= Len(events[c])
                /\ saved[c] <= sync[c].at - 1

DepositRow == [status : {"none", "initiated", "processed"}, l1 : BOOLEAN, l2 : BOOLEAN]
WithdrawalRow ==
    [status : {"none", "initiated", "queued", "finalized"}, l2 : BOOLEAN, queued : BOOLEAN,
     finalized : BOOLEAN]
RowsWellFormed ==
    deposits \in [Deposits -> DepositRow] /\ withdrawals \in [Withdrawals -> WithdrawalRow]

\* An event the rows should know of.
Indexed(c, kind, id) ==
    \E b \in BlocksOf(c, kind, id) : first[c] <= b /\ b <= Reach(c)

IsProcessed(d) == deposits[d].l2 /\ deposits[d].status = "processed"
IsQueued(w) == withdrawals[w].status \in {"queued", "finalized"}
IsFinal(w) == withdrawals[w].status = "finalized" \/ w \in relapsed

RowsFollowReach ==
    /\ \A d \in Deposits :
          /\ Indexed("l1", "Deposited", d) => deposits[d].l1
          /\ Indexed("l2", "DepositProcessed", d) => IsProcessed(d)
    /\ \A w \in Withdrawals :
          /\ Indexed("l2", "WithdrawalInitiated", w) => withdrawals[w].l2
          /\ Indexed("l1", "queued", w) => IsQueued(w)
          /\ Indexed("l1", "finalized", w) => IsFinal(w)

RowInv ==
    EventsInOrder /\ CursorsInRange /\ RowsWellFormed /\ RowsFollowReach

\* What a row says it goes on saying, all but that a withdrawal is paid.
RowsStay ==
    /\ \A d \in Deposits :
          /\ deposits[d].l1 => deposits'[d].l1
          /\ IsProcessed(d) => IsProcessed(d)'
    /\ \A w \in Withdrawals :
          /\ withdrawals[w].l2 => withdrawals'[w].l2
          /\ IsQueued(w) => IsQueued(w)'

LEMMA DepositInitiated ==
    ASSUME RowsWellFormed, NEW d \in Deposits, UpsertL1DepositInitiated(d), UNCHANGED withdrawals
    PROVE  RowsWellFormed' /\ RowsStay /\ deposits'[d].l1
<1>1. PICK r \in DepositRow : r = deposits[d]
  BY DEF RowsWellFormed
<1>2. PICK n : n = [status |-> IF r.status = "processed" THEN r.status ELSE "initiated",
                    l1 |-> TRUE, l2 |-> r.l2]
  OBVIOUS
<1>3. /\ n \in DepositRow /\ n.l1 /\ (r.l2 => n.l2)
      /\ r.status = "processed" => n.status = "processed"
  BY <1>1, <1>2 DEF DepositRow
<1>4. deposits' = [deposits EXCEPT ![d] = n]
  BY <1>1, <1>2 DEF UpsertL1DepositInitiated
<1>5. deposits'[d] = n /\ \A c \in Deposits : c # d => deposits'[c] = deposits[c]
  BY <1>4 DEF RowsWellFormed
<1>6. deposits' \in [Deposits -> DepositRow]
  BY <1>3, <1>4 DEF RowsWellFormed
<1>7. ASSUME NEW c \in Deposits
      PROVE  (deposits[c].l1 => deposits'[c].l1) /\ (IsProcessed(c) => IsProcessed(c)')
  BY <1>1, <1>3, <1>5 DEF IsProcessed
<1>8. RowsStay
  BY <1>7 DEF RowsStay, IsQueued
<1> QED  BY <1>3, <1>5, <1>6, <1>8 DEF RowsWellFormed

LEMMA DepositProcessed ==
    ASSUME RowsWellFormed, NEW d \in Deposits, UpsertL2DepositProcessed(d), UNCHANGED withdrawals
    PROVE  RowsWellFormed' /\ RowsStay /\ IsProcessed(d)'
<1>1. PICK r \in DepositRow : r = deposits[d]
  BY DEF RowsWellFormed
<1>2. PICK n : n = [r EXCEPT !.status = "processed", !.l2 = TRUE]
  OBVIOUS
<1>3. n \in DepositRow /\ n.l2 /\ n.status = "processed" /\ (r.l1 => n.l1)
  BY <1>1, <1>2 DEF DepositRow
<1>4. deposits' = [deposits EXCEPT ![d] = n]
  BY <1>1, <1>2 DEF UpsertL2DepositProcessed
<1>5. deposits'[d] = n /\ \A c \in Deposits : c # d => deposits'[c] = deposits[c]
  BY <1>4 DEF RowsWellFormed
<1>6. deposits' \in [Deposits -> DepositRow]
  BY <1>3, <1>4 DEF RowsWellFormed
<1>7. ASSUME NEW c \in Deposits
      PROVE  (deposits[c].l1 => deposits'[c].l1) /\ (IsProcessed(c) => IsProcessed(c)')
  BY <1>1, <1>3, <1>5 DEF IsProcessed
<1>8. RowsStay
  BY <1>7 DEF RowsStay, IsQueued
<1> QED  BY <1>3, <1>5, <1>6, <1>8 DEF RowsWellFormed, IsProcessed

LEMMA WithdrawalInitiated ==
    ASSUME RowsWellFormed, NEW w \in Withdrawals, UpsertL2WithdrawalInitiated(w), UNCHANGED deposits
    PROVE  /\ RowsWellFormed' /\ RowsStay /\ withdrawals'[w].l2
           /\ \A v \in Withdrawals :
                 withdrawals[v].status = "finalized" => withdrawals'[v].status = "finalized"
<1>1. PICK r \in WithdrawalRow : r = withdrawals[w]
  BY DEF RowsWellFormed
<1>2. PICK n : n = [r EXCEPT !.status = StatusWhenInitiated(@), !.l2 = TRUE]
  OBVIOUS
<1>3. /\ n \in WithdrawalRow /\ n.l2
      /\ r.status \in {"queued", "finalized"} => n.status = r.status
  BY <1>1, <1>2 DEF WithdrawalRow, StatusWhenInitiated
<1>4. withdrawals' = [withdrawals EXCEPT ![w] = n]
  BY <1>1, <1>2 DEF UpsertL2WithdrawalInitiated
<1>5. withdrawals'[w] = n /\ \A c \in Withdrawals : c # w => withdrawals'[c] = withdrawals[c]
  BY <1>4 DEF RowsWellFormed
<1>6. withdrawals' \in [Withdrawals -> WithdrawalRow]
  BY <1>3, <1>4 DEF RowsWellFormed
<1>7. ASSUME NEW v \in Withdrawals
      PROVE  /\ withdrawals[v].l2 => withdrawals'[v].l2
             /\ IsQueued(v) => IsQueued(v)'
             /\ withdrawals[v].status = "finalized" => withdrawals'[v].status = "finalized"
  BY <1>1, <1>3, <1>5 DEF IsQueued
<1>8. RowsStay
  BY <1>7 DEF RowsStay, IsProcessed
<1> QED  BY <1>3, <1>5, <1>6, <1>7, <1>8 DEF RowsWellFormed

LEMMA WithdrawalStatus ==
    ASSUME RowsWellFormed, NEW w \in Withdrawals, NEW status \in {"queued", "finalized"},
           UpsertL1WithdrawalStatus(w, status), UNCHANGED deposits
    PROVE  /\ RowsWellFormed' /\ RowsStay /\ withdrawals'[w].status = status
           /\ \A v \in Withdrawals : v # w => withdrawals'[v] = withdrawals[v]
<1>1. PICK r \in WithdrawalRow : r = withdrawals[w]
  BY DEF RowsWellFormed
<1>2. PICK n : n = [r EXCEPT !.status = status,
                             !.queued = @ \/ (r # NoWithdrawal /\ status = "queued"),
                             !.finalized = @ \/ (r # NoWithdrawal /\ status = "finalized")]
  OBVIOUS
<1>3. n \in WithdrawalRow /\ n.status = status /\ (r.l2 => n.l2)
  BY <1>1, <1>2 DEF WithdrawalRow
<1>4. withdrawals' = [withdrawals EXCEPT ![w] = n]
  BY <1>1, <1>2 DEF UpsertL1WithdrawalStatus
<1>5. withdrawals'[w] = n /\ \A c \in Withdrawals : c # w => withdrawals'[c] = withdrawals[c]
  BY <1>4 DEF RowsWellFormed
<1>6. withdrawals' \in [Withdrawals -> WithdrawalRow]
  BY <1>3, <1>4 DEF RowsWellFormed
<1>7. ASSUME NEW v \in Withdrawals
      PROVE  /\ withdrawals[v].l2 => withdrawals'[v].l2
             /\ IsQueued(v) => IsQueued(v)'
  BY <1>1, <1>3, <1>5 DEF IsQueued
<1>8. RowsStay
  BY <1>7 DEF RowsStay, IsProcessed
<1> QED  BY <1>3, <1>5, <1>6, <1>8 DEF RowsWellFormed

\* Rows that say what they said, and what the pass has just read.
LEMMA RowsFollow ==
    ASSUME RowsFollowReach, RowsStay,
           \A d \in Deposits :
              /\ Indexed("l1", "Deposited", d)' =>
                    Indexed("l1", "Deposited", d) \/ deposits'[d].l1
              /\ Indexed("l2", "DepositProcessed", d)' =>
                    Indexed("l2", "DepositProcessed", d) \/ IsProcessed(d)',
           \A w \in Withdrawals :
              /\ Indexed("l2", "WithdrawalInitiated", w)' =>
                    Indexed("l2", "WithdrawalInitiated", w) \/ withdrawals'[w].l2
              /\ Indexed("l1", "queued", w)' => Indexed("l1", "queued", w) \/ IsQueued(w)'
              /\ Indexed("l1", "finalized", w)' =>
                    \/ IsFinal(w)'
                    \/ Indexed("l1", "finalized", w) /\ (IsFinal(w) => IsFinal(w)')
    PROVE  RowsFollowReach'
BY DEF RowsFollowReach, RowsStay

\* A chain whose rows reach no further, and begin where they began.
LEMMA IndexedShrinks ==
    ASSUME UNCHANGED events, NEW c \in Sides,
           first[c] \in Int, Reach(c) \in Int, first'[c] \in Int, Reach(c)' \in Int,
           \/ first'[c] = first[c] /\ Reach(c)' <= Reach(c)
           \/ Reach(c)' < first'[c]
           \/ Reach(c)' <= 0
    PROVE  \A kind, id : Indexed(c, kind, id)' => Indexed(c, kind, id)
<1>1. \A kind, id : BlocksOf(c, kind, id)' = BlocksOf(c, kind, id)
  BY DEF BlocksOf
<1>2. \A kind, id : \A b \in BlocksOf(c, kind, id) : b \in Nat /\ b >= 1
  BY DEF BlocksOf
<1> QED  BY <1>1, <1>2 DEF Indexed

LEMMA ReachType ==
    ASSUME CursorsInRange, NEW c \in Sides
    PROVE  Reach(c) \in Int /\ first[c] \in Int
<1>1. sync[c] \in SyncType /\ saved[c] \in Int /\ first[c] \in Nat
  BY DEF CursorsInRange
<1> QED  BY <1>1 DEF SyncType, Reach

\* Passes begin, end and fail, and nothing is written.
LEMMA PassesMove ==
    ASSUME RowInv, UNCHANGED <<events, rows, relapsed, first, saved>>,
           sync' \in [Sides -> SyncType],
           \A c \in Sides : sync'[c] = sync[c] \/ sync'[c].phase # "range"
    PROVE  RowInv'
<1>1. EventsInOrder' /\ RowsWellFormed'
  BY DEF RowInv, EventsInOrder, RowsWellFormed, QueuedAt, rows
<1>2. CursorsInRange'
  <2>1. saved' = saved /\ first' = first /\ events' = events
    OBVIOUS
  <2> QED  BY <2>1 DEF RowInv, CursorsInRange
<1>3. ASSUME NEW c \in Sides PROVE Reach(c)' <= Reach(c)
  <2>1. /\ sync[c] \in SyncType /\ saved[c] \in Int
        /\ sync[c].phase = "range" => saved[c] <= sync[c].at - 1
    BY DEF RowInv, CursorsInRange
  <2> QED  BY <2>1 DEF Reach, SyncType
<1>4. ASSUME NEW c \in Sides
      PROVE  \A kind, id : Indexed(c, kind, id)' => Indexed(c, kind, id)
  <2>1. Reach(c) \in Int /\ first[c] \in Int
    BY ReachType DEF RowInv
  <2>2. Reach(c)' \in Int /\ first'[c] = first[c]
    <3>1. sync'[c] \in SyncType /\ saved'[c] \in Int
      BY DEF RowInv, CursorsInRange
    <3> QED  BY <3>1 DEF SyncType, Reach
  <2> QED  BY <1>3, <2>1, <2>2, IndexedShrinks
<1>5. RowsStay
  BY DEF RowsStay, IsProcessed, IsQueued, rows
<1>6. \A w \in Withdrawals : IsFinal(w) => IsFinal(w)'
  BY DEF IsFinal, rows
<1>7. "l1" \in Sides /\ "l2" \in Sides
  BY DEF Sides
<1>8. RowsFollowReach'
  BY <1>4, <1>5, <1>6, <1>7, RowsFollow DEF RowInv
<1> QED  BY <1>1, <1>2, <1>8 DEF RowInv

\* A script writes a row and moves no cursor.
LEMMA ScriptWrites ==
    ASSUME RowInv, UNCHANGED <<events, first, saved, sync>>,
           RowsWellFormed', RowsStay, \A w \in Withdrawals : IsFinal(w) => IsFinal(w)'
    PROVE  RowInv'
<1>1. EventsInOrder'
  BY DEF RowInv, EventsInOrder, QueuedAt
<1>2. CursorsInRange'
  BY DEF RowInv, CursorsInRange
<1>3. \A c, kind, id : Indexed(c, kind, id)' <=> Indexed(c, kind, id)
  BY DEF Indexed, BlocksOf, Reach
<1>4. RowsFollowReach'
  BY <1>3, RowsFollow DEF RowInv
<1> QED  BY <1>1, <1>2, <1>4 DEF RowInv

LEMMA LifecycleUpdatesKeeps ==
    ASSUME RowInv, NEW w \in Withdrawals, LifecycleUpdates(w)
    PROVE  RowInv'
<1>1. PICK status \in {"queued", "finalized"} : status = script.phase
  BY DEF LifecycleUpdates
<1>2. /\ UpsertL1WithdrawalStatus(w, status)
      /\ UNCHANGED <<events, first, saved, sync, deposits>>
      /\ relapsed' =
             IF status = "queued" /\ withdrawals[w].status = "finalized"
             THEN relapsed \cup {w}
             ELSE IF status = "finalized" THEN relapsed \ {w} ELSE relapsed
  BY <1>1 DEF LifecycleUpdates
<1>3. /\ RowsWellFormed' /\ RowsStay /\ withdrawals'[w].status = status
      /\ \A v \in Withdrawals : v # w => withdrawals'[v] = withdrawals[v]
  BY <1>2, WithdrawalStatus DEF RowInv
<1>4. \A v \in Withdrawals : IsFinal(v) => IsFinal(v)'
  BY <1>2, <1>3 DEF IsFinal
<1> QED  BY <1>2, <1>3, <1>4, ScriptWrites

LEMMA InitiationUpdatesKeeps ==
    ASSUME RowInv, NEW w \in Withdrawals, InitiationUpdates(w)
    PROVE  RowInv'
<1>1. /\ UpsertL2WithdrawalInitiated(w)
      /\ UNCHANGED <<events, first, saved, sync, deposits, relapsed>>
  BY DEF InitiationUpdates
<1>2. /\ RowsWellFormed' /\ RowsStay
      /\ \A v \in Withdrawals :
            withdrawals[v].status = "finalized" => withdrawals'[v].status = "finalized"
  BY <1>1, WithdrawalInitiated DEF RowInv
<1>3. \A v \in Withdrawals : IsFinal(v) => IsFinal(v)'
  BY <1>1, <1>2 DEF IsFinal
<1> QED  BY <1>1, <1>2, <1>3, ScriptWrites

----------------------------------------------------------------------------
\* One event of a range is read: the rows reach it, and its own says it.
LEMMA EventRead ==
    ASSUME RowInv, NEW c \in Sides, SyncEvent(c)
    PROVE  /\ EventsInOrder' /\ CursorsInRange'
           /\ Reach(c)' = sync[c].at /\ Reach(c) = sync[c].at - 1 /\ sync[c].at \in Nat
           /\ sync[c].at <= Len(events[c])
           /\ \A d \in Sides : d # c =>
                 \A kind, id : Indexed(d, kind, id)' <=> Indexed(d, kind, id)
           /\ \A kind, id : Indexed(c, kind, id)' =>
                 \/ Indexed(c, kind, id)
                 \/ /\ sync[c].at # 0
                    /\ events[c][sync[c].at].kind = kind /\ events[c][sync[c].at].id = id
<1>1. PICK s \in SyncType : s = sync[c]
  BY DEF RowInv, CursorsInRange
<1>2. /\ s.phase = "range" /\ s.at <= s.end
      /\ sync' = [sync EXCEPT ![c].at = s.at + 1]
      /\ UNCHANGED <<events, first, saved>>
  BY <1>1 DEF SyncEvent
<1>3. PICK t : t = [s EXCEPT !.at = s.at + 1]
  OBVIOUS
<1>4. /\ t \in SyncType /\ t.phase = "range" /\ t.at = s.at + 1 /\ t.end = s.end /\ t.to = s.to
  BY <1>2, <1>3 DEF SyncType
<1>5. sync \in [Sides -> SyncType]
  BY DEF RowInv, CursorsInRange
<1>6. sync'[c] = t /\ (\A d \in Sides : d # c => sync'[d] = sync[d])
      /\ sync' \in [Sides -> SyncType]
  BY <1>1, <1>2, <1>3, <1>4, <1>5
<1>7. /\ s.at <= s.end + 1 /\ s.end <= s.to /\ s.to <= Len(events[c])
      /\ saved[c] <= s.at - 1 /\ saved[c] \in Int
      /\ s.at \in Nat /\ s.end \in Int /\ s.to \in Int /\ Len(events[c]) \in Nat
  BY <1>1, <1>2 DEF RowInv, CursorsInRange, SyncType, EventsInOrder
<1>8. CursorsInRange'
  <2>1. ASSUME NEW d \in Sides
        PROVE  /\ -1 <= saved[d] /\ saved[d] <= Len(events[d])
               /\ sync'[d].phase = "range" =>
                     /\ sync'[d].at <= sync'[d].end + 1
                     /\ sync'[d].end <= sync'[d].to /\ sync'[d].to <= Len(events[d])
                     /\ saved[d] <= sync'[d].at - 1
    <3>1. CASE d = c
      <4>1. -1 <= saved[c] /\ saved[c] <= Len(events[c])
        BY DEF RowInv, CursorsInRange
      <4>2. /\ s.at + 1 <= s.end + 1 /\ saved[c] <= s.at + 1 - 1
        BY <1>2, <1>7
      <4>3. /\ t.at <= t.end + 1 /\ t.end <= t.to /\ t.to <= Len(events[c])
            /\ saved[c] <= t.at - 1
        BY <1>4, <1>7, <4>2
      <4> QED  BY <1>6, <3>1, <4>1, <4>3
    <3>2. CASE d # c
      BY <1>6, <3>2 DEF RowInv, CursorsInRange
    <3> QED  BY <3>1, <3>2
  <2> QED  BY <1>2, <1>6, <2>1 DEF RowInv, CursorsInRange
<1>9. EventsInOrder'
  BY <1>2 DEF RowInv, EventsInOrder, QueuedAt
<1>10. Reach(c)' = s.at /\ Reach(c) = s.at - 1
  BY <1>1, <1>2, <1>4, <1>6, <1>7 DEF Reach
<1>11. \A d \in Sides : d # c => Reach(d)' = Reach(d)
  BY <1>2, <1>6 DEF Reach
<1>12. \A d \in Sides : d # c =>
          \A kind, id : Indexed(d, kind, id)' <=> Indexed(d, kind, id)
  BY <1>2, <1>11 DEF Indexed, BlocksOf
<1>13. ASSUME NEW kind, NEW id, Indexed(c, kind, id)', ~Indexed(c, kind, id)
       PROVE  s.at # 0 /\ events[c][s.at].kind = kind /\ events[c][s.at].id = id
  <2>1. PICK b \in 1..Len(events[c]) :
           /\ events[c][b] = [kind |-> kind, id |-> id]
           /\ first[c] <= b /\ b <= s.at
    BY <1>2, <1>10, <1>13 DEF Indexed, BlocksOf
  <2>2. ~(b <= s.at - 1)
    BY <1>10, <1>13, <2>1 DEF Indexed, BlocksOf
  <2>3. b = s.at /\ s.at # 0
    BY <1>7, <2>1, <2>2
  <2> QED  BY <2>1, <2>3
<1>14. s.at <= Len(events[c])
  BY <1>2, <1>7
<1> QED  BY <1>1, <1>7, <1>8, <1>9, <1>10, <1>12, <1>13, <1>14

LEMMA SidesAre == "l1" \in Sides /\ "l2" \in Sides /\ \A c \in Sides : c = "l1" \/ c = "l2"
BY DEF Sides

\* The row an event of a range makes.  That of a withdrawal queued again, when
\* a range is read once more, is not yet said to be paid: its payment comes
\* later on the chain.
LEMMA SyncEventKeeps ==
    ASSUME RowInv, NEW c \in Sides, SyncEvent(c)
    PROVE  RowInv'
<1>a. PICK at : at = sync[c].at
  OBVIOUS
<1>e. PICK e : e = events[c][at]
  OBVIOUS
<1>1. /\ EventsInOrder' /\ CursorsInRange'
      /\ Reach(c)' = at /\ Reach(c) = at - 1 /\ at \in Nat /\ at <= Len(events[c])
      /\ \A d \in Sides : d # c =>
            \A kind, id : Indexed(d, kind, id)' <=> Indexed(d, kind, id)
      /\ \A kind, id : Indexed(c, kind, id)' =>
            Indexed(c, kind, id) \/ (at # 0 /\ e.kind = kind /\ e.id = id)
  BY <1>a, <1>e, EventRead
<1>2. RowsWellFormed /\ EventsInOrder /\ UNCHANGED events
  BY DEF RowInv, SyncEvent
<1>3. CASE at = 0
  <2>1. UNCHANGED <<rows, relapsed>>
    BY <1>a, <1>3 DEF SyncEvent
  <2>2. RowsWellFormed' /\ RowsStay /\ \A w \in Withdrawals : IsFinal(w) => IsFinal(w)'
    BY <1>2, <2>1 DEF RowsWellFormed, RowsStay, IsProcessed, IsQueued, IsFinal, rows
  <2>3. \A d \in Sides : \A kind, id : Indexed(d, kind, id)' => Indexed(d, kind, id)
    BY <1>1, <1>3
  <2>4. RowsFollowReach'
    BY <2>2, <2>3, RowsFollow, SidesAre DEF RowInv
  <2> QED  BY <1>1, <2>2, <2>4 DEF RowInv
<1>4. CASE at # 0
  <2>1. /\ Index(e)
        /\ relapsed' = IF e.kind = "finalized" THEN relapsed \ {e.id} ELSE relapsed
    BY <1>a, <1>e, <1>4 DEF SyncEvent
  <2>2. at \in 1..Len(events[c]) /\ e \in EventOf(c)
    BY <1>e, <1>1, <1>2, <1>4 DEF EventsInOrder
  <2>3. ASSUME NEW kind, NEW id, NEW d \in Sides, Indexed(d, kind, id)'
        PROVE  Indexed(d, kind, id) \/ (d = c /\ e.kind = kind /\ e.id = id)
    BY <1>1, <2>3
  <2>4. CASE e.kind = "Deposited"
    <3>1. c = "l1" /\ e.id \in Deposits
      BY <2>2, <2>4, SidesAre DEF EventOf, KindsOf
    <3>2. UpsertL1DepositInitiated(e.id) /\ UNCHANGED <<withdrawals, relapsed>>
      BY <2>1, <2>4 DEF Index
    <3>3. RowsWellFormed' /\ RowsStay /\ deposits'[e.id].l1
      BY <1>2, <3>1, <3>2, DepositInitiated
    <3>4. \A w \in Withdrawals : IsFinal(w) => IsFinal(w)'
      BY <3>2 DEF IsFinal
    <3>5. RowsFollowReach'
      BY <2>3, <2>4, <3>1, <3>3, <3>4, RowsFollow, SidesAre DEF RowInv
    <3> QED  BY <1>1, <3>3, <3>5 DEF RowInv
  <2>5. CASE e.kind = "DepositProcessed"
    <3>1. c = "l2" /\ e.id \in Deposits
      BY <2>2, <2>5, SidesAre DEF EventOf, KindsOf
    <3>2. UpsertL2DepositProcessed(e.id) /\ UNCHANGED <<withdrawals, relapsed>>
      BY <2>1, <2>5 DEF Index
    <3>3. RowsWellFormed' /\ RowsStay /\ IsProcessed(e.id)'
      BY <1>2, <3>1, <3>2, DepositProcessed
    <3>4. \A w \in Withdrawals : IsFinal(w) => IsFinal(w)'
      BY <3>2 DEF IsFinal
    <3>5. RowsFollowReach'
      BY <2>3, <2>5, <3>1, <3>3, <3>4, RowsFollow, SidesAre DEF RowInv
    <3> QED  BY <1>1, <3>3, <3>5 DEF RowInv
  <2>6. CASE e.kind = "WithdrawalInitiated"
    <3>1. c = "l2" /\ e.id \in Withdrawals
      BY <2>2, <2>6, SidesAre DEF EventOf, KindsOf
    <3>2. UpsertL2WithdrawalInitiated(e.id) /\ UNCHANGED <<deposits, relapsed>>
      BY <2>1, <2>6 DEF Index
    <3>3. /\ RowsWellFormed' /\ RowsStay /\ withdrawals'[e.id].l2
          /\ \A v \in Withdrawals :
                withdrawals[v].status = "finalized" => withdrawals'[v].status = "finalized"
      BY <1>2, <3>1, <3>2, WithdrawalInitiated
    <3>4. \A w \in Withdrawals : IsFinal(w) => IsFinal(w)'
      BY <3>2, <3>3 DEF IsFinal
    <3>5. RowsFollowReach'
      BY <2>3, <2>6, <3>1, <3>3, <3>4, RowsFollow, SidesAre DEF RowInv
    <3> QED  BY <1>1, <3>3, <3>5 DEF RowInv
  <2>7. CASE e.kind = "queued"
    <3>1. c = "l1" /\ e.id \in Withdrawals
      BY <2>2, <2>7, SidesAre DEF EventOf, KindsOf
    <3>2. UpsertL1WithdrawalStatus(e.id, "queued") /\ UNCHANGED <<deposits, relapsed>>
      BY <2>1, <2>7 DEF Index
    <3>3. /\ RowsWellFormed' /\ RowsStay /\ withdrawals'[e.id].status = "queued"
          /\ \A v \in Withdrawals : v # e.id => withdrawals'[v] = withdrawals[v]
      BY <1>2, <3>1, <3>2, WithdrawalStatus
    <3>4. ~Indexed("l1", "finalized", e.id)
      <4>1. SUFFICES ASSUME NEW b \in 1..Len(events["l1"]),
                            events["l1"][b] = [kind |-> "finalized", id |-> e.id],
                            b <= at - 1
                     PROVE  FALSE
        BY <1>1, <3>1 DEF Indexed, BlocksOf
      <4>2. events["l1"][b].kind = "finalized" /\ events["l1"][b].id = e.id
        BY <4>1
      <4>3. PICK q \in 1..Len(events["l1"]) : q < b /\ QueuedAt(q, e.id)
        BY <1>2, <4>2 DEF EventsInOrder
      <4>4. QueuedAt(at, e.id) /\ at \in 1..Len(events["l1"])
        BY <1>e, <2>2, <2>7, <3>1 DEF QueuedAt
      <4>5. q = at
        BY <1>2, <3>1, <4>3, <4>4 DEF EventsInOrder
      <4> QED  BY <1>1, <4>1, <4>3, <4>5
    <3>5. \A w \in Withdrawals :
             Indexed("l1", "finalized", w) => (IsFinal(w) => IsFinal(w)')
      BY <3>2, <3>3, <3>4 DEF IsFinal
    <3>6. IsQueued(e.id)'
      BY <3>3 DEF IsQueued
    <3>7. RowsFollowReach'
      BY <2>3, <2>7, <3>1, <3>3, <3>5, <3>6, RowsFollow, SidesAre DEF RowInv
    <3> QED  BY <1>1, <3>3, <3>7 DEF RowInv
  <2>8. CASE e.kind = "finalized"
    <3>1. c = "l1" /\ e.id \in Withdrawals
      BY <2>2, <2>8, SidesAre DEF EventOf, KindsOf
    <3>2. UpsertL1WithdrawalStatus(e.id, "finalized") /\ UNCHANGED deposits
          /\ relapsed' = relapsed \ {e.id}
      BY <2>1, <2>8 DEF Index
    <3>3. /\ RowsWellFormed' /\ RowsStay /\ withdrawals'[e.id].status = "finalized"
          /\ \A v \in Withdrawals : v # e.id => withdrawals'[v] = withdrawals[v]
      BY <1>2, <3>1, <3>2, WithdrawalStatus
    <3>4. IsFinal(e.id)' /\ \A w \in Withdrawals : IsFinal(w) => IsFinal(w)'
      BY <3>2, <3>3 DEF IsFinal
    <3>5. RowsFollowReach'
      BY <2>3, <2>8, <3>1, <3>3, <3>4, RowsFollow, SidesAre DEF RowInv
    <3> QED  BY <1>1, <3>3, <3>5 DEF RowInv
  <2>9. e.kind \in {"Deposited", "queued", "finalized", "DepositProcessed", "WithdrawalInitiated"}
    BY <2>2 DEF EventOf, KindsOf
  <2> QED  BY <2>4, <2>5, <2>6, <2>7, <2>8, <2>9
<1> QED  BY <1>3, <1>4

----------------------------------------------------------------------------
\* The pass at the head of a chain, and at the end of a range.
LEMMA RangeIsGood ==
    ASSUME NEW from \in Nat, NEW to \in Nat, from <= to
    PROVE  /\ BlockRange(from, to) \in SyncType
           /\ BlockRange(from, to).phase = "range" /\ BlockRange(from, to).at = from
           /\ from <= BlockRange(from, to).end + 1
           /\ BlockRange(from, to).end <= to /\ BlockRange(from, to).to = to
<1>1. PICK e : e = Min({from + BridgeBatch - 1, to})
  OBVIOUS
<1>2. BridgeBatch \in Nat /\ BridgeBatch >= 1
  BY BridgeIndexAssumption
<1>3. \E x \in {from + BridgeBatch - 1, to} :
          \A y \in {from + BridgeBatch - 1, to} : x <= y
  <2>1. CASE from + BridgeBatch - 1 <= to
    BY <1>2, <2>1
  <2>2. CASE to <= from + BridgeBatch - 1
    BY <1>2, <2>2
  <2> QED  BY <1>2, <2>1, <2>2
<1>4. e \in {from + BridgeBatch - 1, to} /\ e <= to
  BY <1>1, <1>3 DEF Min
<1>5. e \in Int /\ e <= to /\ from <= e + 1
  BY <1>2, <1>4
<1>6. BlockRange(from, to) = [phase |-> "range", at |-> from, end |-> e, to |-> to]
  BY <1>1 DEF BlockRange
<1> QED  BY <1>5, <1>6 DEF SyncType

LEMMA DoneIsGood == Done \in SyncType /\ Done.phase = "done"
BY DEF Done, NoSync, SyncType

LEMMA CursorsAre ==
    ASSUME RowInv, NEW c \in Sides
    PROVE  /\ saved[c] \in Int /\ first[c] \in Nat /\ sync[c] \in SyncType
           /\ Len(events[c]) \in Nat
           /\ -1 <= saved[c] /\ saved[c] <= Len(events[c])
           /\ Reach(c) \in Int /\ Reach(c) <= Len(events[c])
<1>1. /\ saved[c] \in Int /\ first[c] \in Nat /\ sync[c] \in SyncType
      /\ Len(events[c]) \in Nat
      /\ -1 <= saved[c] /\ saved[c] <= Len(events[c])
      /\ sync[c].phase = "range" =>
            sync[c].at <= sync[c].end + 1 /\ sync[c].end <= sync[c].to
            /\ sync[c].to <= Len(events[c])
  BY DEF RowInv, CursorsInRange, EventsInOrder
<1>2. PICK s \in SyncType : s = sync[c]
  BY <1>1
<1>3. s.at \in Nat /\ s.end \in Int /\ s.to \in Int
  BY DEF SyncType
<1> QED  BY <1>1, <1>2, <1>3 DEF Reach

\* The rows of one chain move on, and nothing is written.
LEMMA CursorMoves ==
    ASSUME RowInv, NEW c \in Sides, UNCHANGED <<events, rows, relapsed>>,
           saved' \in [Sides -> Int], first' \in [Sides -> Nat], sync' \in [Sides -> SyncType],
           \A d \in Sides : d # c =>
              saved'[d] = saved[d] /\ first'[d] = first[d] /\ sync'[d] = sync[d],
           -1 <= saved'[c], saved'[c] <= Len(events[c]),
           sync'[c].phase = "range" =>
              /\ sync'[c].at <= sync'[c].end + 1
              /\ sync'[c].end <= sync'[c].to /\ sync'[c].to <= Len(events[c])
              /\ saved'[c] <= sync'[c].at - 1,
           \/ first'[c] = first[c] /\ Reach(c)' <= Reach(c)
           \/ Reach(c)' < first'[c]
    PROVE  RowInv'
<1>1. EventsInOrder' /\ RowsWellFormed'
  BY DEF RowInv, EventsInOrder, RowsWellFormed, QueuedAt, rows
<1>2. CursorsInRange'
  <2>1. ASSUME NEW d \in Sides
        PROVE  /\ -1 <= saved'[d] /\ saved'[d] <= Len(events[d])
               /\ sync'[d].phase = "range" =>
                     /\ sync'[d].at <= sync'[d].end + 1
                     /\ sync'[d].end <= sync'[d].to /\ sync'[d].to <= Len(events[d])
                     /\ saved'[d] <= sync'[d].at - 1
    <3>1. CASE d = c
      BY <3>1
    <3>2. CASE d # c
      BY <3>2 DEF RowInv, CursorsInRange
    <3> QED  BY <3>1, <3>2
  <2>2. events' = events
    OBVIOUS
  <2> QED  BY <2>1, <2>2 DEF CursorsInRange
<1>3. ASSUME NEW d \in Sides
      PROVE  \A kind, id : Indexed(d, kind, id)' => Indexed(d, kind, id)
  <2>1. Reach(d) \in Int /\ first[d] \in Int
    BY CursorsAre
  <2>2. Reach(d)' \in Int /\ first'[d] \in Int
    <3>1. sync'[d] \in SyncType /\ saved'[d] \in Int /\ first'[d] \in Nat
      OBVIOUS
    <3> QED  BY <3>1 DEF SyncType, Reach
  <2>3. CASE d = c
    BY <2>1, <2>2, <2>3, IndexedShrinks
  <2>4. CASE d # c
    <3>1. first'[d] = first[d] /\ Reach(d)' <= Reach(d)
      BY <2>1, <2>4 DEF Reach
    <3> QED  BY <2>1, <2>2, <3>1, IndexedShrinks
  <2> QED  BY <2>3, <2>4
<1>4. RowsStay
  BY DEF RowsStay, IsProcessed, IsQueued, rows
<1>5. \A w \in Withdrawals : IsFinal(w) => IsFinal(w)'
  BY DEF IsFinal, rows
<1>6. RowsFollowReach'
  BY <1>3, <1>4, <1>5, SidesAre, RowsFollow DEF RowInv
<1> QED  BY <1>1, <1>2, <1>6 DEF RowInv

LEMMA SyncHeadKeeps ==
    ASSUME RowInv, NEW c \in Sides, SyncHead(c)
    PROVE  RowInv'
<1>1. PICK n : n = Len(events[c])
  OBVIOUS
<1>2. /\ saved[c] \in Int /\ first[c] \in Nat /\ n \in Nat
      /\ -1 <= saved[c] /\ saved[c] <= n /\ StartBlock[c] \in Nat
  BY <1>1, CursorsAre, BridgeIndexAssumption
<1>3. PICK from : from = FromBlock(c)
  OBVIOUS
<1>4. from \in Nat /\ saved[c] <= from - 1 /\ (saved[c] # NoCursor => from = saved[c] + 1)
  BY <1>1, <1>2, <1>3 DEF FromBlock, NoCursor
<1>5. PICK s \in SyncType :
        /\ s = IF from > n THEN Done ELSE BlockRange(from, n)
        /\ s.phase = "range" =>
              s.at = from /\ from <= s.end + 1 /\ s.end <= s.to /\ s.to = n
  <2>1. CASE from > n
    BY <2>1, DoneIsGood
  <2>2. CASE from <= n
    <3>1. ~(from > n)
      BY <1>2, <1>4, <2>2
    <3> QED  BY <1>2, <1>4, <2>2, <3>1, RangeIsGood
  <2> QED  BY <1>2, <1>4, <2>1, <2>2
<1>6. /\ sync[c].phase = "head"
      /\ first' = IF saved[c] = NoCursor THEN [first EXCEPT ![c] = from] ELSE first
      /\ sync' = [sync EXCEPT ![c] = s]
      /\ UNCHANGED <<events, saved, rows, relapsed>>
  BY <1>1, <1>3, <1>5 DEF SyncHead
<1>7. /\ first \in [Sides -> Nat] /\ sync \in [Sides -> SyncType] /\ saved \in [Sides -> Int]
  BY DEF RowInv, CursorsInRange
<1>8. /\ sync' \in [Sides -> SyncType] /\ sync'[c] = s
      /\ \A d \in Sides : d # c => sync'[d] = sync[d]
  BY <1>6, <1>7
<1>9. /\ first' \in [Sides -> Nat]
      /\ \A d \in Sides : d # c => first'[d] = first[d]
      /\ saved[c] = NoCursor => first'[c] = from
      /\ saved[c] # NoCursor => first'[c] = first[c]
  BY <1>4, <1>6, <1>7
<1>10. Reach(c) = saved[c]
  BY <1>6 DEF Reach
<1>11. saved' = saved
  BY <1>6
<1>12. Reach(c)' = IF s.phase = "range" THEN from - 1 ELSE saved[c]
  BY <1>5, <1>8, <1>11 DEF Reach
<1>13. \/ first'[c] = first[c] /\ Reach(c)' <= Reach(c)
       \/ Reach(c)' < first'[c]
  <2>1. CASE saved[c] = NoCursor
    BY <1>2, <1>4, <1>9, <1>12, <2>1 DEF NoCursor
  <2>2. CASE saved[c] # NoCursor
    BY <1>2, <1>4, <1>9, <1>10, <1>12, <2>2
  <2> QED  BY <2>1, <2>2
<1>14. /\ -1 <= saved'[c] /\ saved'[c] <= n /\ saved' \in [Sides -> Int]
       /\ \A d \in Sides : saved'[d] = saved[d]
  BY <1>2, <1>7, <1>11
<1>15. s.phase = "range" =>
         /\ s.at <= s.end + 1 /\ s.end <= s.to /\ s.to <= n /\ saved'[c] <= s.at - 1
  BY <1>2, <1>4, <1>5, <1>11 DEF SyncType
<1> QED  BY <1>1, <1>6, <1>8, <1>9, <1>13, <1>14, <1>15, CursorMoves

LEMMA SaveCursorKeeps ==
    ASSUME RowInv, NEW c \in Sides, SaveCursor(c)
    PROVE  RowInv'
<1>1. PICK s \in SyncType : s = sync[c]
  BY DEF RowInv, CursorsInRange
<1>2. PICK n : n = Len(events[c])
  OBVIOUS
<1>3. s.phase = "range" /\ s.at > s.end
  BY <1>1 DEF SaveCursor
<1>4. /\ s.at \in Nat /\ s.end \in Int /\ s.to \in Int /\ n \in Nat
      /\ s.at <= s.end + 1 /\ s.end <= s.to /\ s.to <= n
  BY <1>1, <1>2, <1>3, CursorsAre DEF RowInv, CursorsInRange, SyncType
<1>5. s.at = s.end + 1
  BY <1>3, <1>4
<1>6. PICK t \in SyncType :
        /\ t = IF s.end < s.to THEN BlockRange(s.end + 1, s.to) ELSE Done
        /\ t.phase = "range" =>
              t.at = s.end + 1 /\ t.at <= t.end + 1 /\ t.end <= t.to /\ t.to = s.to
  <2>1. CASE s.end < s.to
    <3>1. s.end + 1 \in Nat /\ s.to \in Nat /\ s.end + 1 <= s.to
      BY <1>4, <1>5, <2>1
    <3> QED  BY <2>1, <3>1, RangeIsGood
  <2>2. CASE ~(s.end < s.to)
    BY <2>2, DoneIsGood
  <2> QED  BY <2>1, <2>2
<1>7. /\ saved' = [saved EXCEPT ![c] = s.end]
      /\ sync' = [sync EXCEPT ![c] = t]
      /\ UNCHANGED <<events, first, rows, relapsed>>
  BY <1>1, <1>6 DEF SaveCursor
<1>8. /\ first \in [Sides -> Nat] /\ sync \in [Sides -> SyncType] /\ saved \in [Sides -> Int]
  BY DEF RowInv, CursorsInRange
<1>9. /\ sync' \in [Sides -> SyncType] /\ sync'[c] = t
      /\ \A d \in Sides : d # c => sync'[d] = sync[d]
  BY <1>7, <1>8
<1>10. /\ saved' \in [Sides -> Int] /\ saved'[c] = s.end
       /\ \A d \in Sides : d # c => saved'[d] = saved[d]
  BY <1>4, <1>7, <1>8
<1>11. first' \in [Sides -> Nat] /\ \A d \in Sides : first'[d] = first[d]
  BY <1>7, <1>8
<1>12. Reach(c) = s.end
  BY <1>1, <1>3, <1>4, <1>5 DEF Reach
<1>13. Reach(c)' = s.end
  BY <1>4, <1>6, <1>9, <1>10 DEF Reach
<1>14. -1 <= saved'[c] /\ saved'[c] <= n
  BY <1>4, <1>5, <1>10
<1>15. t.phase = "range" =>
         /\ t.at <= t.end + 1 /\ t.end <= t.to /\ t.to <= n /\ saved'[c] <= t.at - 1
  <2>1. t.end \in Int /\ t.to \in Int
    BY DEF SyncType
  <2> QED  BY <1>4, <1>6, <1>10, <2>1
<1>16. first'[c] = first[c] /\ Reach(c)' <= Reach(c)
  BY <1>4, <1>11, <1>12, <1>13
<1> QED  BY <1>2, <1>7, <1>9, <1>10, <1>11, <1>14, <1>15, <1>16, CursorMoves

----------------------------------------------------------------------------
\* An event of a bridge, which no row reaches yet.
LEMMA EmitKeeps ==
    ASSUME RowInv, NEW c \in Sides, NEW e \in EventOf(c), Emit(c, e.kind, e.id),
           c = "l1" /\ e.kind = "finalized" => Happened("l1", "queued", e.id)
    PROVE  RowInv'
<1>1. e = [kind |-> e.kind, id |-> e.id]
  BY DEF EventOf
<1>2. /\ events' = [events EXCEPT ![c] = Append(events[c], e)]
      /\ UNCHANGED <<saved, rows, sync, first, relapsed>>
      /\ ~Happened(c, e.kind, e.id)
  BY <1>1 DEF Emit
<1>3. PICK n : n = Len(events[c])
  OBVIOUS
<1>4. /\ DOMAIN events = Sides /\ events[c] \in Seq(EventOf(c)) /\ n \in Nat
  BY <1>3 DEF RowInv, EventsInOrder
<1>5. events'[c] = Append(events[c], e)
  BY <1>2, <1>4
<1>6. /\ events'[c] \in Seq(EventOf(c)) /\ Len(events'[c]) = n + 1 /\ events'[c][n + 1] = e
      /\ \A b \in 1..n : events'[c][b] = events[c][b]
  BY <1>3, <1>4, <1>5
<1>7. DOMAIN events' = Sides /\ \A d \in Sides : d # c => events'[d] = events[d]
  BY <1>2, <1>4
<1>8. EventsInOrder'
  <2>1. \A d \in Sides : events'[d] \in Seq(EventOf(d))
    BY <1>6, <1>7 DEF RowInv, EventsInOrder
  <2>2. CASE c # "l1"
    <3>1. events'["l1"] = events["l1"]
      BY <1>7, <2>2, SidesAre
    <3> QED  BY <1>7, <2>1, <3>1 DEF RowInv, EventsInOrder, QueuedAt
  <2>3. CASE c = "l1"
    <3>1. \A w : \A b \in 1..n : QueuedAt(b, w)' <=> QueuedAt(b, w)
      BY <1>6, <2>3 DEF QueuedAt
    <3>2. \A w : QueuedAt(n + 1, w)' <=> e.kind = "queued" /\ e.id = w
      BY <1>6, <2>3 DEF QueuedAt
    <3>3. ASSUME NEW b \in 1..n, NEW w, QueuedAt(b, w), e.kind = "queued"
          PROVE  e.id # w
      <4>1. SUFFICES ASSUME e.id = w PROVE FALSE
        OBVIOUS
      <4>2. events[c][b] \in EventOf(c)
        BY <1>3, <1>4
      <4>3. events[c][b] = [kind |-> e.kind, id |-> e.id]
        BY <2>3, <3>3, <4>1, <4>2 DEF QueuedAt, EventOf
      <4> QED  BY <1>2, <1>3, <4>3 DEF Happened, BlocksOf
    <3>4. ASSUME NEW w \in Withdrawals, NEW b1 \in 1..n + 1, NEW b2 \in 1..n + 1,
                 QueuedAt(b1, w)', QueuedAt(b2, w)'
          PROVE  b1 = b2
      <4>1. \A b \in 1..n + 1 : b \in 1..n \/ b = n + 1
        BY <1>4
      <4>2. CASE b1 \in 1..n /\ b2 \in 1..n
        BY <1>3, <2>3, <3>1, <3>4, <4>2 DEF RowInv, EventsInOrder
      <4> QED  BY <3>1, <3>2, <3>3, <3>4, <4>1, <4>2
    <3>5. ASSUME NEW b \in 1..n + 1, events'["l1"][b].kind = "finalized"
          PROVE  \E q \in 1..n + 1 :
                    q < b /\ events'["l1"][q].kind = "queued"
                    /\ events'["l1"][q].id = events'["l1"][b].id
      <4>1. CASE b \in 1..n
        <5>1. events'["l1"][b] = events["l1"][b]
          BY <1>6, <2>3, <4>1
        <5>2. PICK q \in 1..n : q < b /\ QueuedAt(q, events["l1"][b].id)
          BY <1>3, <2>3, <3>5, <4>1, <5>1 DEF RowInv, EventsInOrder
        <5>3. events'["l1"][q] = events["l1"][q]
          BY <1>6, <2>3, <5>2
        <5> QED  BY <1>4, <5>1, <5>2, <5>3 DEF QueuedAt
      <4>2. CASE b = n + 1
        <5>1. events'["l1"][b] = e
          BY <1>6, <2>3, <4>2
        <5>2. PICK q \in 1..n : events["l1"][q] = [kind |-> "queued", id |-> e.id]
          BY <1>3, <2>3, <3>5, <5>1 DEF Happened, BlocksOf
        <5>3. events'["l1"][q] = events["l1"][q]
          BY <1>6, <2>3, <5>2
        <5>4. events["l1"][q].kind = "queued" /\ events["l1"][q].id = e.id
          BY <5>2
        <5> QED  BY <1>4, <4>2, <5>1, <5>2, <5>3, <5>4
      <4> QED  BY <1>4, <4>1, <4>2
    <3>6. \A w \in Withdrawals : \A b1, b2 \in 1..Len(events'["l1"]) :
             QueuedAt(b1, w)' /\ QueuedAt(b2, w)' => b1 = b2
      BY <1>6, <2>3, <3>4
    <3>7. \A b \in 1..Len(events'["l1"]) :
             events'["l1"][b].kind = "finalized" =>
                 \E q \in 1..Len(events'["l1"]) :
                    q < b /\ events'["l1"][q].kind = "queued"
                    /\ events'["l1"][q].id = events'["l1"][b].id
      BY <1>6, <2>3, <3>5
    <3> QED  BY <1>7, <2>1, <3>6, <3>7 DEF EventsInOrder, QueuedAt
  <2> QED  BY <2>2, <2>3
<1>9. \A d \in Sides : Len(events[d]) \in Nat /\ Len(events'[d]) \in Nat
                       /\ Len(events[d]) <= Len(events'[d])
  <2>1. \A d \in Sides : Len(events[d]) \in Nat
    BY CursorsAre
  <2> QED  BY <1>3, <1>4, <1>6, <1>7, <2>1
<1>10. CursorsInRange'
  <2>1. saved' = saved /\ first' = first /\ sync' = sync
    BY <1>2
  <2>2. ASSUME NEW d \in Sides
        PROVE  /\ saved[d] <= Len(events'[d])
               /\ sync[d].phase = "range" => sync[d].to <= Len(events'[d])
    <3>1. PICK s \in SyncType : s = sync[d]
      BY DEF RowInv, CursorsInRange
    <3>2. s.to \in Int
      BY DEF SyncType
    <3>3. saved[d] \in Int /\ saved[d] <= Len(events[d])
      BY CursorsAre
    <3>4. s.phase = "range" => s.to <= Len(events[d])
      BY <3>1 DEF RowInv, CursorsInRange
    <3> QED  BY <1>9, <3>1, <3>2, <3>3, <3>4
  <2> QED  BY <2>1, <2>2 DEF RowInv, CursorsInRange
<1>11. RowsWellFormed'
  BY <1>2 DEF RowInv, RowsWellFormed, rows
<1>12. ASSUME NEW d \in Sides, NEW kind, NEW id, Indexed(d, kind, id)'
       PROVE  Indexed(d, kind, id)
  <2>1. Reach(d)' = Reach(d) /\ first' = first
    BY <1>2 DEF Reach
  <2>2. PICK b \in 1..Len(events'[d]) :
           events'[d][b] = [kind |-> kind, id |-> id] /\ first[d] <= b /\ b <= Reach(d)
    BY <1>12, <2>1 DEF Indexed, BlocksOf
  <2>3. Reach(d) \in Int /\ Reach(d) <= Len(events[d])
    BY CursorsAre
  <2>4. b \in 1..Len(events[d])
    BY <1>9, <2>2, <2>3
  <2>5. events'[d][b] = events[d][b]
    BY <1>3, <1>6, <1>7, <2>4
  <2> QED  BY <2>2, <2>4, <2>5 DEF Indexed, BlocksOf
<1>13. RowsStay
  BY <1>2 DEF RowsStay, IsProcessed, IsQueued, rows
<1>14. \A w \in Withdrawals : IsFinal(w) => IsFinal(w)'
  BY <1>2 DEF IsFinal, rows
<1>15. RowsFollowReach'
  BY <1>12, <1>13, <1>14, SidesAre, RowsFollow DEF RowInv
<1> QED  BY <1>8, <1>10, <1>11, <1>15 DEF RowInv

LEMMA BridgeEventKeeps ==
    ASSUME RowInv, BridgeEvent
    PROVE  RowInv'
<1>1. ASSUME NEW d \in Deposits, NEW c \in Sides, NEW kind \in {"Deposited", "DepositProcessed"},
             kind \in KindsOf(c), Emit(c, kind, d)
      PROVE  RowInv'
  <2>1. PICK e : e = [kind |-> kind, id |-> d]
    OBVIOUS
  <2>2. e \in EventOf(c) /\ e.kind = kind /\ e.id = d /\ e.kind # "finalized"
    BY <1>1, <2>1 DEF EventOf
  <2> QED  BY <1>1, <2>2, EmitKeeps
<1>2. ASSUME NEW w \in Withdrawals, NEW c \in Sides,
             NEW kind \in {"WithdrawalInitiated", "queued", "finalized"},
             kind \in KindsOf(c), Emit(c, kind, w),
             kind = "finalized" => Happened("l1", "queued", w)
      PROVE  RowInv'
  <2>1. PICK e : e = [kind |-> kind, id |-> w]
    OBVIOUS
  <2>2. e \in EventOf(c) /\ e.kind = kind /\ e.id = w
    BY <1>2, <2>1, BridgeIndexAssumption DEF EventOf
  <2> QED  BY <1>2, <2>2, EmitKeeps
<1>3. "Deposited" \in KindsOf("l1") /\ "queued" \in KindsOf("l1") /\ "finalized" \in KindsOf("l1")
      /\ "DepositProcessed" \in KindsOf("l2") /\ "WithdrawalInitiated" \in KindsOf("l2")
  BY DEF KindsOf
<1>4. CASE \E d \in Deposits : Emit("l1", "Deposited", d) \/ Emit("l2", "DepositProcessed", d)
  BY <1>1, <1>3, <1>4, SidesAre
<1>5. CASE \E w \in Withdrawals :
             \/ Emit("l2", "WithdrawalInitiated", w) \/ Emit("l1", "queued", w)
             \/ Happened("l1", "queued", w) /\ Emit("l1", "finalized", w)
  BY <1>2, <1>3, <1>5, SidesAre
<1> QED  BY <1>4, <1>5 DEF BridgeEvent

\* Every pass begins and ends in a phase that reads nothing.
LEMMA PassesBegin ==
    ASSUME RowInv, UNCHANGED <<events, rows, relapsed, first, saved>>,
           \/ UNCHANGED sync
           \/ SyncOnce \/ AllSettled
           \/ sync' = [c \in Sides |-> NoSync]
           \/ \E c \in Sides : sync' = [sync EXCEPT ![c] = Done]
    PROVE  RowInv'
<1>1. sync \in [Sides -> SyncType]
  BY DEF RowInv, CursorsInRange
<1>2. NoSync \in SyncType /\ NoSync.phase = "idle"
  BY DEF NoSync, SyncType
<1>3. CASE UNCHANGED sync
  BY <1>1, <1>3, PassesMove
<1>4. CASE SyncOnce
  <2>1. \A c \in Sides : sync'[c] \in SyncType /\ sync'[c].phase \in {"done", "head"}
    BY <1>4 DEF SyncOnce, NoSync, SyncType
  <2>2. sync' \in [Sides -> SyncType]
    BY <1>4, <2>1 DEF SyncOnce
  <2> QED  BY <2>1, <2>2, PassesMove
<1>5. CASE AllSettled \/ sync' = [c \in Sides |-> NoSync]
  <2>1. sync' = [c \in Sides |-> NoSync]
    BY <1>5 DEF AllSettled
  <2> QED  BY <1>2, <2>1, PassesMove
<1>6. ASSUME NEW c \in Sides, sync' = [sync EXCEPT ![c] = Done] PROVE RowInv'
  <2>1. sync' \in [Sides -> SyncType] /\ \A d \in Sides : sync'[d] = sync[d] \/ sync'[d] = Done
    BY <1>1, <1>6, DoneIsGood
  <2> QED  BY <2>1, DoneIsGood, PassesMove
<1> QED  BY <1>3, <1>4, <1>5, <1>6

LEMMA ScriptKeeps ==
    ASSUME RowInv, ScriptStep
    PROVE  RowInv'
<1>1. CASE LifecycleBegins \/ LifecycleGoesOn \/ InitiationBegins \/ InitiationEnds
  <2>1. UNCHANGED <<events, rows, relapsed, first, saved, sync>>
    BY <1>1 DEF LifecycleBegins, LifecycleGoesOn, InitiationBegins, InitiationEnds
  <2> QED  BY <2>1, PassesBegin
<1>2. CASE \E w \in Withdrawals : LifecycleUpdates(w) \/ InitiationUpdates(w)
  BY <1>2, LifecycleUpdatesKeeps, InitiationUpdatesKeeps
<1> QED  BY <1>1, <1>2 DEF ScriptStep

LEMMA BridgeIndexKeeps ==
    ASSUME RowInv, BridgeIndexNext
    PROVE  RowInv'
<1>1. CASE BridgeEvent
  BY <1>1, BridgeEventKeeps
<1>2. CASE SyncOnce \/ AllSettled
  <2>1. UNCHANGED <<events, rows, relapsed, first, saved>>
    BY <1>2 DEF SyncOnce, AllSettled
  <2> QED  BY <1>2, <2>1, PassesBegin
<1>3. CASE \E c \in Sides : SyncStep(c) \/ BackoffEnds(c)
  <2>1. ASSUME NEW c \in Sides, BackoffEnds(c) PROVE RowInv'
    <3>1. UNCHANGED <<events, rows, relapsed, first, saved, sync>>
      BY <2>1 DEF BackoffEnds
    <3> QED  BY <3>1, PassesBegin
  <2> QED  BY <1>3, <2>1, SyncHeadKeeps, SyncEventKeeps, SaveCursorKeeps DEF SyncStep
<1>4. CASE ScriptStep
  BY <1>4, ScriptKeeps
<1>5. CASE BridgeFault
  <2>1. /\ UNCHANGED <<events, rows, relapsed, first, saved>>
        /\ UNCHANGED sync \/ \E c \in Sides : sync' = [sync EXCEPT ![c] = Done]
    BY <1>5 DEF BridgeFault, SyncFails, ScriptFails
  <2> QED  BY <2>1, PassesBegin
<1> QED  BY <1>1, <1>2, <1>3, <1>4, <1>5 DEF BridgeIndexNext

----------------------------------------------------------------------------
LEMMA RowInvHolds == ObserversSpec => []RowInv
<1>1. ObserversInit => RowInv
  <2> SUFFICES ASSUME ObserversInit PROVE RowInv
    OBVIOUS
  <2>1. /\ events = [c \in Sides |-> << >>] /\ saved = [c \in Sides |-> -1]
        /\ deposits = [d \in Deposits |-> NoDeposit]
        /\ withdrawals = [w \in Withdrawals |-> NoWithdrawal]
        /\ sync = [c \in Sides |-> NoSync] /\ first = [c \in Sides |-> 0]
    BY DEF ObserversInit, BridgeIndexInit, NoCursor
  <2>2. EventsInOrder
    BY <2>1, SidesAre DEF EventsInOrder
  <2>3. CursorsInRange
    BY <2>1 DEF CursorsInRange, NoSync, SyncType
  <2>4. RowsWellFormed
    BY <2>1 DEF RowsWellFormed, NoDeposit, NoWithdrawal, DepositRow, WithdrawalRow
  <2>5. \A c \in Sides : \A kind, id : ~Indexed(c, kind, id)
    BY <2>1 DEF Indexed, BlocksOf
  <2> QED  BY <2>2, <2>3, <2>4, <2>5, SidesAre DEF RowInv, RowsFollowReach
<1>2. RowInv /\ [ObserversNext]_observerVars => RowInv'
  <2> SUFFICES ASSUME RowInv, [ObserversNext]_observerVars PROVE RowInv'
    OBVIOUS
  <2>1. CASE UNCHANGED bridgeIndexVars
    <3>1. UNCHANGED <<events, rows, relapsed, first, saved, sync>>
      BY <2>1 DEF bridgeIndexVars
    <3> QED  BY <3>1, PassesBegin
  <2>2. CASE BridgeStart \/ BridgeStop
    <3>1. UNCHANGED <<events, rows, relapsed, first, saved, sync>>
      BY <2>2 DEF BridgeStart, BridgeStop
    <3> QED  BY <3>1, PassesBegin
  <2>3. CASE BridgeGone
    <3>1. UNCHANGED <<events, rows, relapsed, first, saved>> /\ sync' = [c \in Sides |-> NoSync]
      BY <2>3 DEF BridgeGone
    <3> QED  BY <3>1, PassesBegin
  <2>4. CASE IndexerNext
    BY <2>1, <2>2, <2>3, <2>4, BridgeIndexKeeps
       DEF IndexerNext, StartBlocks, StartBridge, StopAll, Exit, Crash
  <2>5. CASE UNCHANGED indexerVars
    BY <2>1, <2>5 DEF indexerVars
  <2> QED  BY <2>4, <2>5 DEF ObserversNext, observerVars
<1> QED  BY <1>1, <1>2, PTL DEF ObserversSpec

\* Whatever the cursor of a chain has passed is in the rows (bridge.ts:182,
\* bridge-listener.ts:125-135), for any number of deposits and withdrawals,
\* batch size, first block and faults.
THEOREM RowsAlwaysFollowBridge == ObserversSpec => []RowsFollowBridge
<1>1. RowInv => RowsFollowBridge
  <2> SUFFICES ASSUME RowInv PROVE RowsFollowBridge
    OBVIOUS
  <2>1. ASSUME NEW c \in Sides PROVE saved[c] <= Reach(c)
    BY CursorsAre DEF RowInv, CursorsInRange, Reach
  <2>2. ASSUME NEW c \in Sides, NEW kind, NEW id, Passed(c, kind, id)
        PROVE  Indexed(c, kind, id)
    <3>1. saved[c] \in Int /\ Reach(c) \in Int
      BY CursorsAre
    <3>2. PICK b \in BlocksOf(c, kind, id) : first[c] <= b /\ b <= saved[c]
      BY <2>2 DEF Passed
    <3>3. b \in Int
      BY <3>2, CursorsAre DEF BlocksOf
    <3> QED  BY <2>1, <3>1, <3>2, <3>3 DEF Indexed
  <2> QED
    BY <2>2, SidesAre
       DEF RowInv, RowsFollowReach, RowsFollowBridge, IsProcessed, IsQueued, IsFinal
<1> QED  BY <1>1, RowInvHolds, PTL

----------------------------------------------------------------------------
(* The event gateway *)

PollPhases == {"idle", "transfers", "bridge", "block", "receipt"}
PollType == [phase : PollPhases, chain : Chains, from : Nat, latest : Nat]

GatewayType ==
    /\ tip \in [Chains -> Nat] /\ base \in [Chains -> Nat] /\ pushed \in [Chains -> Nat]
    /\ \A c \in Chains : base[c] <= pushed[c] /\ pushed[c] <= tip[c]
    /\ polls \in [GatewayPolls -> PollType]
    /\ recent \in Seq(Nat)

\* What has been told of the blocks up to k.
ToldTo(stream, c, k) == \A b \in (base[c] + 1)..k : Told(stream, c, b)
IsOut(b) == Told("eth_transfer", "L2", b) \/ OnItsWayOut(b)
NativeTo(k) == \A b \in (base["L2"] + 1)..k : IsOut(b) \/ b \in unseen

\* What was told before a poll came to where it is.
PollFits(s) ==
    /\ s.phase # "idle" =>
          /\ base[s.chain] + 1 <= s.from
          /\ base[s.chain] <= s.latest /\ s.latest <= tip[s.chain]
    /\ s.phase \in {"transfers", "block", "receipt"} => s.chain = "L2"
    /\ s.phase \in {"transfers", "bridge"} => ToldTo("bridge_event", s.chain, s.from - 1)
    /\ s.phase = "transfers" => ToldTo("token_transfer", "L2", s.from - 1)
    /\ s.phase \in {"bridge", "block", "receipt"} /\ s.chain = "L2" =>
          ToldTo("token_transfer", "L2", s.latest)
    /\ s.phase \in {"block", "receipt"} =>
          /\ ToldTo("bridge_event", "L2", s.latest) /\ NativeTo(s.from - 1)
          /\ s.from <= s.latest

CursorsFit ==
    /\ \A c \in Chains : ToldTo("bridge_event", c, pushed[c])
    /\ ToldTo("token_transfer", "L2", pushed["L2"])
    /\ NativeTo(pushed["L2"])

RecentFits ==
    \A i \in 1..Len(recent) :
        /\ IsOut(recent[i])
        /\ base["L2"] + 1 <= recent[i] /\ recent[i] <= tip["L2"]

\* As long as none is forgotten, what is remembered is what was told or is on
\* its way, each once.
EachOnce ==
    tip["L2"] - base["L2"] <= Remembered =>
        /\ repeated = {}
        /\ \A i, j \in 1..Len(recent) : recent[i] = recent[j] => i = j
        /\ \A b \in Nat : Told("eth_transfer", "L2", b) => IsRemembered(b)
        /\ \A p \in GatewayPolls :
              polls[p].phase = "receipt" =>
                  /\ IsRemembered(polls[p].from)
                  /\ ~Told("eth_transfer", "L2", polls[p].from)
                  /\ \A q \in GatewayPolls :
                        polls[q].phase = "receipt" /\ polls[q].from = polls[p].from => q = p

PollsFit == \A p \in GatewayPolls : PollFits(polls[p])

GatewayInv ==
    /\ GatewayType
    /\ ~gatewayUp => \A p \in GatewayPolls : polls[p] = NoPoll
    /\ gatewayUp => PollsFit /\ CursorsFit /\ RecentFits /\ EachOnce

LEMMA NoPollFits == NoPoll \in PollType /\ PollFits(NoPoll) /\ NoPoll.phase = "idle"
BY DEF NoPoll, PollType, PollPhases, Chains, PollFits

LEMMA ChainsAre == "L1" \in Chains /\ "L2" \in Chains
BY DEF Chains

\* What was told stays told, and what is on its way arrives.
LEMMA OutStays ==
    ASSUME polls \in [GatewayPolls -> PollType], NEW p \in GatewayPolls, NEW t \in PollType,
           polls' = [polls EXCEPT ![p] = t], sent \subseteq sent',
           polls[p].phase = "receipt" => <<"eth_transfer", "L2", polls[p].from>> \in sent'
    PROVE  \A b : IsOut(b) => IsOut(b)'
<1> SUFFICES ASSUME NEW b, IsOut(b) PROVE IsOut(b)'
  OBVIOUS
<1>1. CASE Told("eth_transfer", "L2", b)
  BY <1>1 DEF Told, IsOut
<1>2. ASSUME NEW q \in GatewayPolls, polls[q].phase = "receipt", polls[q].from = b
      PROVE  IsOut(b)'
  <2>1. CASE q = p
    BY <1>2, <2>1 DEF IsOut, Told
  <2>2. CASE q # p
    <3>1. polls'[q] = polls[q]
      BY <2>2
    <3> QED  BY <1>2, <3>1 DEF IsOut, OnItsWayOut
  <2> QED  BY <2>1, <2>2
<1> QED  BY <1>1, <1>2 DEF IsOut, OnItsWayOut

LEMMA FitsStays ==
    ASSUME UNCHANGED base, tip \in [Chains -> Nat], tip' \in [Chains -> Nat],
           \A c \in Chains : tip[c] <= tip'[c],
           sent \subseteq sent', unseen \subseteq unseen', \A b : IsOut(b) => IsOut(b)'
    PROVE  /\ \A stream, c, k : ToldTo(stream, c, k) => ToldTo(stream, c, k)'
           /\ \A k : NativeTo(k) => NativeTo(k)'
           /\ \A s \in PollType : PollFits(s) => PollFits(s)'
<1>1. \A stream, c, k : ToldTo(stream, c, k) => ToldTo(stream, c, k)'
  BY DEF ToldTo, Told
<1>2. \A k : NativeTo(k) => NativeTo(k)'
  BY DEF NativeTo
<1>3. ASSUME NEW s \in PollType, PollFits(s) PROVE PollFits(s)'
  <2>1. s.chain \in Chains /\ s.latest \in Nat
    BY DEF PollType
  <2>2. tip[s.chain] \in Nat /\ tip'[s.chain] \in Nat /\ tip[s.chain] <= tip'[s.chain]
    BY <2>1
  <2> QED  BY <1>1, <1>2, <1>3, <2>1, <2>2 DEF PollFits
<1> QED  BY <1>1, <1>2, <1>3

\* One poll goes on.
LEMMA PollMoves ==
    ASSUME GatewayInv, gatewayUp, gatewayUp', UNCHANGED <<base, tip>>,
           NEW p \in GatewayPolls, NEW t \in PollType, polls' = [polls EXCEPT ![p] = t],
           sent \subseteq sent', unseen \subseteq unseen',
           polls[p].phase = "receipt" => <<"eth_transfer", "L2", polls[p].from>> \in sent',
           PollFits(t)', pushed' \in [Chains -> Nat],
           \A c \in Chains : base[c] <= pushed'[c] /\ pushed'[c] <= tip[c],
           CursorsFit', recent' \in Seq(Nat), RecentFits', EachOnce'
    PROVE  GatewayInv'
<1>1. polls \in [GatewayPolls -> PollType] /\ tip \in [Chains -> Nat] /\ tip' = tip
      /\ base' = base /\ base \in [Chains -> Nat]
  BY DEF GatewayInv, GatewayType
<1>2. polls' \in [GatewayPolls -> PollType] /\ polls'[p] = t
      /\ \A q \in GatewayPolls : q # p => polls'[q] = polls[q]
  BY <1>1
<1>3. \A b : IsOut(b) => IsOut(b)'
  BY <1>1, OutStays
<1>4. \A s \in PollType : PollFits(s) => PollFits(s)'
  <2>1. \A c \in Chains : tip[c] <= tip'[c]
    BY <1>1
  <2> QED  BY <1>1, <1>3, <2>1, FitsStays
<1>5. ASSUME NEW q \in GatewayPolls PROVE PollFits(polls[q])'
  <2>1. PICK s : s = polls'[q]
    OBVIOUS
  <2>2. CASE q = p
    <3>1. s = t
      BY <1>2, <2>1, <2>2
    <3>2. PollFits(s)'
      BY <3>1
    <3> QED  BY <2>1, <3>2 DEF PollFits
  <2>3. CASE q # p
    <3>1. s = polls[q] /\ s \in PollType
      BY <1>1, <1>2, <2>1, <2>3
    <3>2. PollFits(s)
      BY <3>1 DEF GatewayInv, PollsFit
    <3>3. PollFits(s)'
      BY <1>4, <3>1, <3>2
    <3> QED  BY <2>1, <3>3 DEF PollFits
  <2> QED  BY <2>2, <2>3
<1>6. GatewayType'
  BY <1>1, <1>2 DEF GatewayInv, GatewayType
<1> QED  BY <1>5, <1>6 DEF GatewayInv, PollsFit

\* Nothing is told of native transfers, and none is remembered.
LEMMA OnceRests ==
    ASSUME GatewayInv, gatewayUp, UNCHANGED <<base, tip, recent, repeated>>,
           NEW p \in GatewayPolls, NEW t \in PollType, polls' = [polls EXCEPT ![p] = t],
           t.phase # "receipt",
           \A b : Told("eth_transfer", "L2", b)' => Told("eth_transfer", "L2", b)
    PROVE  EachOnce'
<1>1. polls \in [GatewayPolls -> PollType]
  BY DEF GatewayInv, GatewayType
<1>2. \A q \in GatewayPolls :
         polls'[q].phase = "receipt" => q # p /\ polls'[q] = polls[q]
  BY <1>1
<1>3. \A b : IsRemembered(b)' <=> IsRemembered(b)
  BY DEF IsRemembered
<1>4. EachOnce
  BY DEF GatewayInv
<1>5. SUFFICES ASSUME tip["L2"] - base["L2"] <= Remembered
               PROVE  /\ repeated = {}
                      /\ \A i, j \in 1..Len(recent) : recent[i] = recent[j] => i = j
                      /\ \A b \in Nat : Told("eth_transfer", "L2", b)' => IsRemembered(b)
                      /\ \A q \in GatewayPolls :
                            polls'[q].phase = "receipt" =>
                                /\ IsRemembered(polls'[q].from)
                                /\ <<"eth_transfer", "L2", polls'[q].from>> \notin sent'
                                /\ \A r \in GatewayPolls :
                                      polls'[r].phase = "receipt"
                                      /\ polls'[r].from = polls'[q].from => r = q
  BY DEF EachOnce, IsRemembered, Told
<1>6. ASSUME NEW q \in GatewayPolls, polls'[q].phase = "receipt"
      PROVE  /\ IsRemembered(polls'[q].from)
             /\ <<"eth_transfer", "L2", polls'[q].from>> \notin sent'
             /\ \A r \in GatewayPolls :
                   polls'[r].phase = "receipt" /\ polls'[r].from = polls'[q].from => r = q
  <2>1. PICK b : b = polls[q].from
    OBVIOUS
  <2>2. polls'[q].from = b /\ polls[q].phase = "receipt"
    BY <1>2, <1>6, <2>1
  <2>3. /\ IsRemembered(b) /\ ~Told("eth_transfer", "L2", b)
        /\ \A r \in GatewayPolls : polls[r].phase = "receipt" /\ polls[r].from = b => r = q
    BY <1>4, <1>5, <2>1, <2>2 DEF EachOnce
  <2>4. ~Told("eth_transfer", "L2", b)'
    BY <2>3
  <2> QED  BY <1>2, <2>2, <2>3, <2>4 DEF Told
<1> QED  BY <1>4, <1>5, <1>6 DEF EachOnce

LEMMA CursorsRest ==
    ASSUME CursorsFit, UNCHANGED <<base, pushed>>,
           \A stream, c, k : ToldTo(stream, c, k) => ToldTo(stream, c, k)',
           \A k : NativeTo(k) => NativeTo(k)'
    PROVE  CursorsFit'
<1>1. ASSUME NEW c \in Chains PROVE ToldTo("bridge_event", c, pushed[c])'
  <2>1. PICK k : k = pushed[c]
    OBVIOUS
  <2>2. ToldTo("bridge_event", c, k)'
    BY <2>1 DEF CursorsFit
  <2> QED  BY <2>1, <2>2 DEF ToldTo
<1>2. PICK k : k = pushed["L2"]
  OBVIOUS
<1>3. ToldTo("token_transfer", "L2", k)' /\ NativeTo(k)'
  BY <1>2 DEF CursorsFit
<1> QED  BY <1>1, <1>2, <1>3 DEF CursorsFit, ToldTo, NativeTo

\* The cursor of a chain goes to a block up to which all was told.
LEMMA CursorMovesTo ==
    ASSUME GatewayInv, gatewayUp, UNCHANGED <<base, tip>>,
           \A stream, c, k : ToldTo(stream, c, k) => ToldTo(stream, c, k)',
           NEW chain \in Chains, NEW n \in Nat, pushed' = [pushed EXCEPT ![chain] = n],
           base[chain] <= n, n <= tip[chain],
           \A k : NativeTo(k) => NativeTo(k)',
           ToldTo("bridge_event", chain, n)',
           chain = "L2" => ToldTo("token_transfer", "L2", n)' /\ NativeTo(n)'
    PROVE  /\ pushed' \in [Chains -> Nat]
           /\ \A c \in Chains : base[c] <= pushed'[c] /\ pushed'[c] <= tip[c]
           /\ CursorsFit'
<1>1. pushed \in [Chains -> Nat] /\ CursorsFit
      /\ \A c \in Chains : base[c] <= pushed[c] /\ pushed[c] <= tip[c]
  BY DEF GatewayInv, GatewayType
<1>2. /\ pushed' \in [Chains -> Nat] /\ pushed'[chain] = n
      /\ \A c \in Chains : c # chain => pushed'[c] = pushed[c]
  BY <1>1
<1>3. \A c \in Chains : base[c] <= pushed'[c] /\ pushed'[c] <= tip[c]
  BY <1>1, <1>2
<1>4. ASSUME NEW c \in Chains, NEW k, k = pushed'[c]
      PROVE  /\ ToldTo("bridge_event", c, k)'
             /\ c = "L2" => ToldTo("token_transfer", "L2", k)' /\ NativeTo(k)'
  BY <1>1, <1>2, <1>4 DEF CursorsFit
<1>5. \A c \in Chains : \A b \in (base'[c] + 1)..pushed'[c] : Told("bridge_event", c, b)'
  BY <1>4 DEF ToldTo
<1>6. PICK k : k = pushed'["L2"]
  OBVIOUS
<1>7. ToldTo("token_transfer", "L2", k)' /\ NativeTo(k)'
  BY <1>4, <1>6, ChainsAre
<1>8. CursorsFit'
  BY <1>5, <1>6, <1>7 DEF CursorsFit, ToldTo, NativeTo
<1> QED  BY <1>2, <1>3, <1>8

\* The facts a step of a poll starts from.
LEMMA PollIs ==
    ASSUME GatewayInv, gatewayUp, NEW p \in GatewayPolls
    PROVE  /\ polls[p] \in PollType /\ PollFits(polls[p]) /\ CursorsFit /\ RecentFits /\ EachOnce
           /\ base \in [Chains -> Nat] /\ tip \in [Chains -> Nat] /\ pushed \in [Chains -> Nat]
           /\ \A c \in Chains : base[c] <= pushed[c] /\ pushed[c] <= tip[c]
           /\ polls \in [GatewayPolls -> PollType] /\ recent \in Seq(Nat)
BY DEF GatewayInv, GatewayType, PollsFit

\* What stays good while one poll goes on.
LEMMA AllStays ==
    ASSUME GatewayInv, gatewayUp, UNCHANGED <<base, tip>>,
           NEW p \in GatewayPolls, NEW t \in PollType, polls' = [polls EXCEPT ![p] = t],
           sent \subseteq sent', unseen \subseteq unseen',
           polls[p].phase = "receipt" => <<"eth_transfer", "L2", polls[p].from>> \in sent'
    PROVE  /\ \A stream, c, k : ToldTo(stream, c, k) => ToldTo(stream, c, k)'
           /\ \A k : NativeTo(k) => NativeTo(k)'
           /\ \A s \in PollType : PollFits(s) => PollFits(s)'
           /\ \A b : IsOut(b) => IsOut(b)'
           /\ UNCHANGED recent => RecentFits'
           /\ UNCHANGED pushed => CursorsFit'
<1>1. \A b : IsOut(b) => IsOut(b)'
  BY PollIs, OutStays
<1>2. \A c \in Chains : tip[c] <= tip'[c]
  BY PollIs
<1>3. /\ \A stream, c, k : ToldTo(stream, c, k) => ToldTo(stream, c, k)'
      /\ \A k : NativeTo(k) => NativeTo(k)'
      /\ \A s \in PollType : PollFits(s) => PollFits(s)'
  <2>1. tip' \in [Chains -> Nat] /\ tip \in [Chains -> Nat]
    BY PollIs
  <2> QED  BY <1>1, <1>2, <2>1, FitsStays
<1>4. ASSUME UNCHANGED recent PROVE RecentFits'
  <2>1. ASSUME NEW i \in 1..Len(recent)
        PROVE  IsOut(recent[i])' /\ base["L2"] + 1 <= recent[i] /\ recent[i] <= tip["L2"]
    <3>1. PICK b : b = recent[i]
      OBVIOUS
    <3>2. IsOut(b)' /\ base["L2"] + 1 <= b /\ b <= tip["L2"]
      BY <1>1, <3>1, PollIs DEF RecentFits
    <3> QED  BY <1>4, <3>1, <3>2 DEF IsOut, OnItsWayOut, Told
  <2> QED  BY <1>4, <2>1 DEF RecentFits
<1>5. UNCHANGED pushed => CursorsFit'
  BY <1>3, PollIs, CursorsRest
<1> QED  BY <1>1, <1>3, <1>4, <1>5

LEMMA LogsAre ==
    ASSUME NEW stream, NEW p, NEW x, NEW c, NEW b
    PROVE  <<x, c, b>> \in Logs(stream, p) <=>
               x = stream /\ c = polls[p].chain /\ b \in polls[p].from..polls[p].latest
BY DEF Logs

LEMMA PollTipKeeps ==
    ASSUME GatewayInv, NEW p \in GatewayPolls, NEW c \in Chains, PollTip(p, c)
    PROVE  GatewayInv'
<1>1. /\ gatewayUp /\ gatewayUp'
      /\ UNCHANGED <<tip, base, pushed, recent, sent, repeated, unseen>>
  BY DEF PollTip
<1>2. PICK k \in Nat, n \in Nat : k = pushed[c] /\ n = tip[c]
  BY <1>1, PollIs
<1>3. PICK t : t = [phase |-> IF c = "L2" THEN "transfers" ELSE "bridge",
                    chain |-> c, from |-> k + 1, latest |-> n]
  OBVIOUS
<1>4. polls' = [polls EXCEPT ![p] = t] /\ polls[p].phase = "idle"
  BY <1>2, <1>3 DEF PollTip, NoPoll
<1>5. t \in PollType
  BY <1>3 DEF PollType, PollPhases
<1>6. base[c] \in Nat /\ base[c] <= k /\ k <= n
  BY <1>1, <1>2, PollIs
<1>7. ToldTo("bridge_event", c, k) /\ (c = "L2" => ToldTo("token_transfer", "L2", k))
  BY <1>1, <1>2, PollIs DEF CursorsFit
<1>8. PollFits(t)
  <2>1. t.from - 1 = k /\ t.chain = c /\ t.latest = n /\ t.from = k + 1
    BY <1>3
  <2>2. t.phase = IF c = "L2" THEN "transfers" ELSE "bridge"
    BY <1>3
  <2> QED  BY <1>2, <1>6, <1>7, <2>1, <2>2 DEF PollFits, Chains
<1>9. PollFits(t)' /\ RecentFits' /\ CursorsFit'
  BY <1>1, <1>4, <1>5, <1>8, AllStays
<1>10. t.phase # "receipt"
  BY <1>3
<1>11. EachOnce'
  BY <1>1, <1>4, <1>5, <1>10, OnceRests DEF Told
<1> QED  BY <1>1, <1>4, <1>5, <1>9, <1>11, PollIs, PollMoves

\* The logs of a range are told, and with those before it all up to its end.
LEMMA LogsTell ==
    ASSUME NEW stream \in {"token_transfer", "bridge_event"}, NEW p \in GatewayPolls,
           NEW s \in PollType, s = polls[p], UNCHANGED base, base \in [Chains -> Nat],
           Broadcast(Logs(stream, p)), ToldTo(stream, s.chain, s.from - 1)
    PROVE  /\ ToldTo(stream, s.chain, s.latest)' /\ sent \subseteq sent'
           /\ \A b : Told("eth_transfer", "L2", b)' => Told("eth_transfer", "L2", b)
<1>1. sent' = sent \cup Logs(stream, p)
  BY DEF Broadcast
<1>2. \A b : Told("eth_transfer", "L2", b)' => Told("eth_transfer", "L2", b)
  BY <1>1, LogsAre DEF Told
<1>3. s.chain \in Chains /\ s.from \in Nat /\ s.latest \in Nat /\ base[s.chain] \in Nat
  BY DEF PollType
<1>4. ASSUME NEW b \in (base[s.chain] + 1)..s.latest
      PROVE  <<stream, s.chain, b>> \in sent'
  <2>1. CASE b <= s.from - 1
    <3>1. b \in (base[s.chain] + 1)..(s.from - 1)
      BY <1>3, <2>1
    <3> QED  BY <1>1, <3>1 DEF ToldTo, Told
  <2>2. CASE b > s.from - 1
    <3>1. b \in s.from..s.latest
      BY <1>3, <2>2
    <3>2. <<stream, s.chain, b>> \in Logs(stream, p)
      BY <3>1, LogsAre
    <3> QED  BY <1>1, <3>2
  <2> QED  BY <1>3, <2>1, <2>2
<1>5. ToldTo(stream, s.chain, s.latest)'
  BY <1>4 DEF ToldTo, Told
<1> QED  BY <1>1, <1>2, <1>5

LEMMA PollTransfersKeeps ==
    ASSUME GatewayInv, gatewayUp, NEW p \in GatewayPolls, PollTransfers(p)
    PROVE  GatewayInv'
<1>1. /\ polls[p].phase = "transfers" /\ (gatewayUp' <=> gatewayUp)
      /\ UNCHANGED <<tip, base, pushed, recent, repeated, unseen>>
      /\ Broadcast(Logs("token_transfer", p)) /\ PollGoesTo(p, "bridge")
  BY DEF PollTransfers
<1>2. PICK s \in PollType : s = polls[p]
  BY PollIs
<1>3. s.phase = "transfers" /\ s.chain = "L2" /\ PollFits(s)
  BY <1>1, <1>2, PollIs DEF PollFits
<1>4. PICK k \in Nat : k = pushed["L2"]
  BY PollIs, ChainsAre
<1>5. PICK t : t = [s EXCEPT !.phase = "bridge", !.from = k + 1]
  OBVIOUS
<1>6. /\ t \in PollType /\ t.phase = "bridge" /\ t.chain = "L2" /\ t.from = k + 1
      /\ t.latest = s.latest
  <2>1. /\ s = [phase |-> s.phase, chain |-> s.chain, from |-> s.from, latest |-> s.latest]
        /\ s.chain \in Chains /\ s.latest \in Nat
    BY DEF PollType
  <2>2. t = [phase |-> "bridge", chain |-> s.chain, from |-> k + 1, latest |-> s.latest]
    BY <1>5, <2>1
  <2> QED  BY <1>3, <2>1, <2>2 DEF PollType, PollPhases
<1>7. polls' = [polls EXCEPT ![p] = t]
  BY <1>1, <1>2, <1>3, <1>4, <1>5 DEF PollGoesTo
<1>8. ToldTo("token_transfer", "L2", s.from - 1)
  BY <1>3 DEF PollFits
<1>9. /\ ToldTo("token_transfer", "L2", s.latest)' /\ sent \subseteq sent'
      /\ \A b : Told("eth_transfer", "L2", b)' => Told("eth_transfer", "L2", b)
  BY <1>1, <1>2, <1>3, <1>8, PollIs, LogsTell
<1>10. /\ \A stream, c, j : ToldTo(stream, c, j) => ToldTo(stream, c, j)'
       /\ RecentFits' /\ CursorsFit'
  BY <1>1, <1>6, <1>7, <1>9, AllStays
<1>11. ToldTo("bridge_event", "L2", k)'
  BY <1>4, <1>10, PollIs, ChainsAre DEF CursorsFit
<1>12. PollFits(t)'
  <2>1. t.from - 1 = k
    BY <1>6
  <2>2. base["L2"] \in Nat /\ base["L2"] <= k
    BY <1>4, PollIs, ChainsAre
  <2>3. base["L2"] <= s.latest /\ s.latest <= tip["L2"]
    BY <1>3 DEF PollFits
  <2> QED  BY <1>1, <1>6, <1>9, <1>11, <2>1, <2>2, <2>3 DEF PollFits
<1>13. EachOnce'
  BY <1>1, <1>6, <1>7, <1>9, OnceRests
<1> QED  BY <1>1, <1>6, <1>7, <1>9, <1>10, <1>12, <1>13, PollIs, PollMoves

LEMMA NativeBelow ==
    ASSUME NEW k \in Int, NEW j \in Int, j <= k, base["L2"] \in Nat, NativeTo(k)
    PROVE  NativeTo(j)
BY DEF NativeTo

LEMMA PollBridgeKeeps ==
    ASSUME GatewayInv, gatewayUp, NEW p \in GatewayPolls, PollBridge(p)
    PROVE  GatewayInv'
<1>1. /\ polls[p].phase = "bridge" /\ (gatewayUp' <=> gatewayUp)
      /\ UNCHANGED <<tip, base, recent, repeated, unseen>>
      /\ Broadcast(Logs("bridge_event", p))
  BY DEF PollBridge
<1>2. PICK s \in PollType : s = polls[p]
  BY PollIs
<1>3. s.phase = "bridge" /\ PollFits(s) /\ s.chain \in Chains /\ s.latest \in Nat
  BY <1>1, <1>2, PollIs DEF PollType
<1>4. PICK k \in Nat : k = pushed["L2"]
  BY PollIs, ChainsAre
<1>5. ToldTo("bridge_event", s.chain, s.from - 1)
  BY <1>3 DEF PollFits
<1>6. /\ ToldTo("bridge_event", s.chain, s.latest)' /\ sent \subseteq sent'
      /\ \A b : Told("eth_transfer", "L2", b)' => Told("eth_transfer", "L2", b)
  BY <1>1, <1>2, <1>5, PollIs, LogsTell
<1>7. /\ base[s.chain] <= s.latest /\ s.latest <= tip[s.chain]
      /\ s.chain = "L2" => ToldTo("token_transfer", "L2", s.latest)
  BY <1>3 DEF PollFits
<1>8. NativeTo(k) /\ base["L2"] \in Nat /\ base["L2"] <= k
  BY <1>4, PollIs, ChainsAre DEF CursorsFit
<1>9. CASE s.chain = "L1" \/ k >= s.latest
  <2>1. /\ pushed' = [pushed EXCEPT ![s.chain] = s.latest]
        /\ polls' = [polls EXCEPT ![p] = NoPoll]
    BY <1>2, <1>4, <1>9 DEF PollBridge, PollDone
  <2>2. /\ \A stream, c, j : ToldTo(stream, c, j) => ToldTo(stream, c, j)'
        /\ \A j : NativeTo(j) => NativeTo(j)'
        /\ RecentFits' /\ PollFits(NoPoll)'
    BY <1>1, <1>6, <2>1, NoPollFits, AllStays
  <2>3. s.chain = "L2" => ToldTo("token_transfer", "L2", s.latest)' /\ NativeTo(s.latest)'
    <3>1. ASSUME s.chain = "L2" PROVE NativeTo(s.latest)
      BY <1>3, <1>8, <1>9, <3>1, NativeBelow
    <3> QED  BY <1>7, <2>2, <3>1
  <2>4. /\ pushed' \in [Chains -> Nat] /\ CursorsFit'
        /\ \A c \in Chains : base[c] <= pushed'[c] /\ pushed'[c] <= tip[c]
    BY <1>1, <1>3, <1>6, <1>7, <2>1, <2>2, <2>3, CursorMovesTo
  <2>5. EachOnce'
    BY <1>1, <1>6, <2>1, NoPollFits, OnceRests
  <2> QED  BY <1>1, <1>6, <2>1, <2>2, <2>4, <2>5, NoPollFits, PollIs, PollMoves
<1>10. CASE ~(s.chain = "L1" \/ k >= s.latest)
  <2>1. s.chain = "L2" /\ k < s.latest
    BY <1>3, <1>10 DEF Chains
  <2>2. PICK t : t = [s EXCEPT !.phase = "block", !.from = k + 1]
    OBVIOUS
  <2>3. /\ t \in PollType /\ t.phase = "block" /\ t.chain = "L2" /\ t.from = k + 1
        /\ t.latest = s.latest
    <3>1. /\ s = [phase |-> s.phase, chain |-> s.chain, from |-> s.from, latest |-> s.latest]
          /\ s.chain \in Chains /\ s.latest \in Nat
      BY DEF PollType
    <3>2. t = [phase |-> "block", chain |-> s.chain, from |-> k + 1, latest |-> s.latest]
      BY <2>2, <3>1
    <3> QED  BY <2>1, <3>1, <3>2 DEF PollType, PollPhases
  <2>4. polls' = [polls EXCEPT ![p] = t] /\ UNCHANGED pushed
    BY <1>2, <1>4, <1>10, <2>1, <2>2 DEF PollBridge, PollGoesTo
  <2>5. /\ \A stream, c, j : ToldTo(stream, c, j) => ToldTo(stream, c, j)'
        /\ \A j : NativeTo(j) => NativeTo(j)'
        /\ RecentFits' /\ CursorsFit'
    BY <1>1, <1>6, <2>3, <2>4, AllStays
  <2>6. PollFits(t)'
    <3>1. t.from - 1 = k /\ t.from <= t.latest
      BY <1>3, <2>1, <2>3
    <3>2. NativeTo(k)' /\ ToldTo("token_transfer", "L2", s.latest)'
          /\ ToldTo("bridge_event", "L2", s.latest)'
      BY <1>6, <1>7, <1>8, <2>1, <2>5
    <3> QED  BY <1>1, <1>7, <1>8, <2>1, <2>3, <3>1, <3>2 DEF PollFits
  <2>7. EachOnce'
    BY <1>1, <1>6, <2>3, <2>4, OnceRests
  <2> QED  BY <1>1, <1>6, <2>3, <2>4, <2>5, <2>6, <2>7, PollIs, PollMoves
<1> QED  BY <1>9, <1>10

\* The end of a block of a poll whose transfer is out or could not be read.
LEMMA NextBlockFits ==
    ASSUME GatewayInv, gatewayUp, UNCHANGED <<base, tip>>, NEW p \in GatewayPolls,
           NEW s \in PollType, s = polls[p], s.phase \in {"block", "receipt"},
           NextPollBlock(p), sent \subseteq sent', unseen \subseteq unseen',
           s.phase = "receipt" => <<"eth_transfer", "L2", s.from>> \in sent',
           \/ IsOut(s.from) \/ s.from \in unseen'
           \/ <<"eth_transfer", "L2", s.from>> \in sent'
    PROVE  \E t \in PollType :
              /\ polls' = [polls EXCEPT ![p] = t] /\ t.phase # "receipt" /\ PollFits(t)'
              /\ pushed' \in [Chains -> Nat] /\ CursorsFit'
              /\ \A c \in Chains : base[c] <= pushed'[c] /\ pushed'[c] <= tip[c]
<1>1. /\ s.chain = "L2" /\ s.from <= s.latest /\ base["L2"] + 1 <= s.from
      /\ base["L2"] <= s.latest /\ s.latest <= tip["L2"]
      /\ ToldTo("token_transfer", "L2", s.latest) /\ ToldTo("bridge_event", "L2", s.latest)
      /\ NativeTo(s.from - 1)
  BY PollIs DEF PollFits
<1>2. s.from \in Nat /\ s.latest \in Nat /\ base["L2"] \in Nat
  BY PollIs, ChainsAre DEF PollType
<1>3. PICK t : t = IF s.from < s.latest
                   THEN [s EXCEPT !.phase = "block", !.from = s.from + 1] ELSE NoPoll
  OBVIOUS
<1>4. /\ t \in PollType /\ t.phase # "receipt"
      /\ s.from < s.latest =>
            /\ t.phase = "block" /\ t.chain = "L2" /\ t.from = s.from + 1
            /\ t.latest = s.latest
  <2>1. CASE s.from < s.latest
    <3>1. /\ s = [phase |-> s.phase, chain |-> s.chain, from |-> s.from, latest |-> s.latest]
          /\ s.chain \in Chains /\ s.latest \in Nat
      BY DEF PollType
    <3>2. t = [phase |-> "block", chain |-> s.chain, from |-> s.from + 1, latest |-> s.latest]
      BY <1>3, <2>1, <3>1
    <3> QED  BY <1>1, <1>2, <2>1, <3>1, <3>2 DEF PollType, PollPhases
  <2>2. CASE ~(s.from < s.latest)
    BY <1>3, <2>2, NoPollFits
  <2> QED  BY <2>1, <2>2
<1>5. /\ polls' = [polls EXCEPT ![p] = t]
      /\ pushed' = IF s.from < s.latest THEN pushed
                   ELSE [pushed EXCEPT !["L2"] = s.latest]
  BY <1>1, <1>3 DEF NextPollBlock, PollDone
<1>6. /\ \A stream, c, j : ToldTo(stream, c, j) => ToldTo(stream, c, j)'
      /\ \A j : NativeTo(j) => NativeTo(j)'
      /\ \A b : IsOut(b) => IsOut(b)'
      /\ UNCHANGED pushed => CursorsFit'
      /\ PollFits(NoPoll)'
  BY <1>4, <1>5, NoPollFits, AllStays
<1>7. IsOut(s.from)' \/ s.from \in unseen'
  BY <1>6 DEF IsOut, Told
<1>8. NativeTo(s.from)'
  <2>1. ASSUME NEW b \in (base["L2"] + 1)..s.from PROVE IsOut(b)' \/ b \in unseen'
    <3>1. CASE b = s.from
      BY <1>7, <3>1
    <3>2. CASE b # s.from
      <4>1. b \in (base["L2"] + 1)..(s.from - 1)
        BY <1>2, <3>2
      <4>2. NativeTo(s.from - 1)'
        BY <1>1, <1>6
      <4> QED  BY <4>1, <4>2 DEF NativeTo
    <3> QED  BY <3>1, <3>2
  <2> QED  BY <2>1 DEF NativeTo
<1>9. CASE s.from < s.latest
  <2>1. UNCHANGED pushed
    BY <1>5, <1>9
  <2>2. PollFits(t)'
    <3>1. t.from - 1 = s.from /\ t.from <= t.latest /\ base["L2"] + 1 <= t.from
      BY <1>1, <1>2, <1>4, <1>9
    <3>2. ToldTo("token_transfer", "L2", s.latest)' /\ ToldTo("bridge_event", "L2", s.latest)'
      BY <1>1, <1>6
    <3> QED  BY <1>1, <1>4, <1>8, <1>9, <3>1, <3>2 DEF PollFits
  <2> QED  BY <1>4, <1>5, <1>6, <2>1, <2>2, PollIs
<1>10. CASE ~(s.from < s.latest)
  <2>1. s.from = s.latest /\ t = NoPoll /\ pushed' = [pushed EXCEPT !["L2"] = s.latest]
    BY <1>1, <1>2, <1>3, <1>5, <1>10
  <2>2. NativeTo(s.latest)' /\ ToldTo("token_transfer", "L2", s.latest)'
        /\ ToldTo("bridge_event", "L2", s.latest)'
    BY <1>1, <1>6, <1>8, <2>1
  <2>3. /\ pushed' \in [Chains -> Nat] /\ CursorsFit'
        /\ \A c \in Chains : base[c] <= pushed'[c] /\ pushed'[c] <= tip[c]
    BY <1>1, <1>2, <1>6, <2>1, <2>2, ChainsAre, CursorMovesTo
  <2> QED  BY <1>4, <1>5, <1>6, <2>1, <2>3
<1> QED  BY <1>9, <1>10

LEMMA PollReceiptKeeps ==
    ASSUME GatewayInv, gatewayUp, NEW p \in GatewayPolls, PollReceipt(p)
    PROVE  GatewayInv'
<1>1. PICK s \in PollType : s = polls[p]
  BY PollIs
<1>2. PICK m : m = <<"eth_transfer", "L2", s.from>>
  OBVIOUS
<1>3. /\ s.phase = "receipt" /\ (gatewayUp' <=> gatewayUp)
      /\ UNCHANGED <<tip, base, recent, unseen>> /\ NextPollBlock(p)
      /\ sent' = sent \cup {m}
      /\ repeated' = IF m \in sent THEN repeated \cup {s.from} ELSE repeated
  BY <1>1, <1>2 DEF PollReceipt, Broadcast
<1>4. sent \subseteq sent' /\ unseen \subseteq unseen'
      /\ <<"eth_transfer", "L2", s.from>> \in sent'
  BY <1>2, <1>3
<1>5. PICK t \in PollType :
         /\ polls' = [polls EXCEPT ![p] = t] /\ t.phase # "receipt" /\ PollFits(t)'
         /\ pushed' \in [Chains -> Nat] /\ CursorsFit'
         /\ \A c \in Chains : base[c] <= pushed'[c] /\ pushed'[c] <= tip[c]
  BY <1>1, <1>3, <1>4, NextBlockFits
<1>6. RecentFits'
  BY <1>1, <1>3, <1>4, <1>5, AllStays
<1>7. \A b : Told("eth_transfer", "L2", b)' <=> Told("eth_transfer", "L2", b) \/ b = s.from
  BY <1>2, <1>3 DEF Told
<1>8. \A q \in GatewayPolls :
         polls'[q].phase = "receipt" => q # p /\ polls'[q] = polls[q]
  BY <1>5, PollIs
<1>9. \A b : IsRemembered(b)' <=> IsRemembered(b)
  BY <1>3 DEF IsRemembered
<1>10. SUFFICES ASSUME tip["L2"] - base["L2"] <= Remembered PROVE EachOnce'
  <2>1. ASSUME ~(tip["L2"] - base["L2"] <= Remembered) PROVE EachOnce'
    BY <1>3, <2>1 DEF EachOnce
  <2>2. EachOnce'
    BY <2>1
  <2> QED  BY <1>1, <1>2, <1>3, <1>4, <1>5, <1>6, <2>2, PollIs, PollMoves
<1>11. /\ repeated = {}
       /\ \A i, j \in 1..Len(recent) : recent[i] = recent[j] => i = j
       /\ \A b \in Nat : Told("eth_transfer", "L2", b) => IsRemembered(b)
       /\ IsRemembered(s.from) /\ ~Told("eth_transfer", "L2", s.from)
       /\ \A q \in GatewayPolls :
             polls[q].phase = "receipt" /\ polls[q].from = s.from => q = p
  BY <1>1, <1>3, <1>10, PollIs DEF EachOnce
<1>12. repeated' = {}
  BY <1>2, <1>3, <1>11 DEF Told
<1>13. \A b \in Nat : Told("eth_transfer", "L2", b)' => IsRemembered(b)'
  BY <1>7, <1>9, <1>11
<1>14. ASSUME NEW q \in GatewayPolls, polls'[q].phase = "receipt"
       PROVE  /\ IsRemembered(polls[q].from)
              /\ <<"eth_transfer", "L2", polls[q].from>> \notin sent'
              /\ \A r \in GatewayPolls :
                    polls'[r].phase = "receipt" /\ polls'[r].from = polls[q].from => r = q
  <2>1. PICK b : b = polls[q].from
    OBVIOUS
  <2>2. polls[q].phase = "receipt" /\ q # p
    BY <1>8, <1>14
  <2>3. /\ IsRemembered(b) /\ ~Told("eth_transfer", "L2", b)
        /\ \A r \in GatewayPolls : polls[r].phase = "receipt" /\ polls[r].from = b => r = q
    BY <1>10, <2>1, <2>2, PollIs DEF EachOnce
  <2>4. b # s.from
    BY <1>11, <2>1, <2>2
  <2>5. <<"eth_transfer", "L2", b>> \notin sent'
    BY <1>7, <2>3, <2>4 DEF Told
  <2> QED  BY <1>8, <2>1, <2>3, <2>5
<1>15. \A q \in GatewayPolls :
          polls'[q].phase = "receipt" =>
              /\ \E i \in 1..Len(recent') : recent'[i] = polls'[q].from
              /\ <<"eth_transfer", "L2", polls'[q].from>> \notin sent'
              /\ \A o \in GatewayPolls :
                    polls'[o].phase = "receipt" /\ polls'[o].from = polls'[q].from => o = q
  BY <1>3, <1>8, <1>14 DEF IsRemembered
<1>16. \A i, j \in 1..Len(recent') : recent'[i] = recent'[j] => i = j
  BY <1>3, <1>11
<1> QED  BY <1>12, <1>13, <1>15, <1>16 DEF EachOnce, IsRemembered, Told

\* Distinct blocks of a range are no more than the range holds.
LEMMA DistinctFit ==
    ASSUME NEW r \in Seq(Nat), NEW lo \in Nat, NEW hi \in Nat, lo <= hi,
           \A i \in 1..Len(r) : r[i] \in (lo + 1)..hi,
           \A i, j \in 1..Len(r) : r[i] = r[j] => i = j
    PROVE  Len(r) <= hi - lo
<1> DEFINE S == 1..Len(r)
           T == (lo + 1)..hi
           f == [i \in S |-> r[i]]
<1>1. IsFiniteSet(S) /\ Cardinality(S) = Len(r)
  <2>1. 1 \in Int /\ Len(r) \in Int /\ (Len(r) - 1 + 1 = Len(r)) /\ (1 > Len(r) => Len(r) = 0)
    OBVIOUS
  <2> QED  BY <2>1, FS_Interval
<1>2. IsFiniteSet(T) /\ Cardinality(T) = hi - lo
  <2>1. lo + 1 \in Int /\ hi \in Int /\ (hi - (lo + 1)) + 1 = hi - lo
        /\ (lo + 1 > hi => hi - lo = 0)
    OBVIOUS
  <2> QED  BY <2>1, FS_Interval
<1>3. f \in [S -> T]
  OBVIOUS
<1>4. ASSUME hi - lo < Len(r) PROVE FALSE
  <2> HIDE DEF S, T, f
  <2>1. Cardinality(T) < Cardinality(S)
    BY <1>1, <1>2, <1>4
  <2>2. \E x, y \in S : x # y /\ f[x] = f[y]
    BY <1>1, <1>2, <1>3, <2>1, FS_PigeonHole
  <2> QED  BY <2>2 DEF S, T, f
<1> QED  BY <1>4

\* Of a transfer it did not remember, the gateway remembers one more: after
\* those of r, or in place of the oldest.
LEMMA RememberIs ==
    ASSUME NEW r \in Seq(Nat), NEW b \in Nat, r = recent, Remember(b)
    PROVE  /\ recent' \in Seq(Nat)
           /\ \A i \in 1..Len(recent') : recent'[i] = b \/ \E j \in 1..Len(r) : recent'[i] = r[j]
           /\ Len(r) + 1 <= Remembered =>
                 /\ Len(recent') = Len(r) + 1 /\ recent'[Len(r) + 1] = b
                 /\ \A i \in 1..Len(r) : recent'[i] = r[i]
<1>1. PICK q : q = Append(r, b)
  OBVIOUS
<1>2. /\ q \in Seq(Nat) /\ Len(q) = Len(r) + 1 /\ q[Len(r) + 1] = b
      /\ \A i \in 1..Len(r) : q[i] = r[i]
  BY <1>1
<1>3. recent' = IF Len(q) > Remembered THEN Tail(q) ELSE q
  BY <1>1 DEF Remember
<1>4. CASE Len(q) > Remembered
  <2>1. PICK u : u = Tail(q)
    OBVIOUS
  <2>2. u \in Seq(Nat) /\ Len(u) = Len(r) /\ \A i \in 1..Len(u) : u[i] = q[i + 1]
    BY <1>2, <2>1
  <2>3. recent' = u
    BY <1>3, <1>4, <2>1
  <2>4. ASSUME NEW i \in 1..Len(u)
        PROVE  u[i] = b \/ \E j \in 1..Len(r) : u[i] = r[j]
    <3>1. u[i] = q[i + 1]
      BY <2>2
    <3>2. i + 1 = Len(r) + 1 \/ i + 1 \in 1..Len(r)
      BY <2>2
    <3>3. ASSUME i + 1 \in 1..Len(r) PROVE u[i] = r[i + 1]
      BY <1>2, <3>1, <3>3
    <3> QED  BY <1>2, <3>1, <3>2, <3>3
  <2>5. ~(Len(r) + 1 <= Remembered)
    BY <1>2, <1>4, GatewayAssumption
  <2> QED  BY <2>2, <2>3, <2>4, <2>5
<1>5. CASE ~(Len(q) > Remembered)
  <2>1. recent' = q
    BY <1>3, <1>5
  <2> QED  BY <1>2, <2>1
<1> QED  BY <1>4, <1>5

\* A transfer is remembered before its receipt is asked for.
LEMMA OnceRemembered ==
    ASSUME GatewayInv, gatewayUp, UNCHANGED <<base, tip, sent, repeated>>,
           NEW p \in GatewayPolls, NEW s \in PollType, NEW t \in PollType, NEW r \in Seq(Nat),
           s = polls[p], r = recent, polls' = [polls EXCEPT ![p] = t], s.phase = "block",
           t.phase = "receipt", t.from = s.from, ~IsRemembered(s.from), Remember(s.from),
           s.from \in Nat, base["L2"] \in Nat, tip["L2"] \in Nat, base["L2"] <= tip["L2"]
    PROVE  EachOnce'
<1> SUFFICES ASSUME tip["L2"] - base["L2"] <= Remembered PROVE EachOnce'
  <2>1. ASSUME ~(tip["L2"] - base["L2"] <= Remembered) PROVE EachOnce'
    <3>1. ~(tip'["L2"] - base'["L2"] <= Remembered)
      BY <2>1
    <3> QED  BY <3>1 DEF EachOnce
  <2> QED  BY <2>1
<1>1. PICK b \in Nat : b = s.from
  OBVIOUS
<1>2. /\ repeated = {}
      /\ \A i, j \in 1..Len(r) : r[i] = r[j] => i = j
      /\ \A x \in Nat : Told("eth_transfer", "L2", x) => IsRemembered(x)
  BY PollIs DEF EachOnce
<1>3. \A q \in GatewayPolls :
         polls[q].phase = "receipt" =>
             /\ IsRemembered(polls[q].from)
             /\ ~Told("eth_transfer", "L2", polls[q].from)
             /\ \A o \in GatewayPolls :
                   polls[o].phase = "receipt" /\ polls[o].from = polls[q].from => o = q
  BY DEF GatewayInv, EachOnce
<1>4. \A i \in 1..Len(r) : r[i] \in (base["L2"] + 1)..tip["L2"] /\ r[i] # b
  <2>1. ASSUME NEW i \in 1..Len(r) PROVE r[i] \in (base["L2"] + 1)..tip["L2"]
    BY <2>1, PollIs DEF RecentFits
  <2> QED  BY <1>1, <2>1 DEF IsRemembered
<1>5. base["L2"] + 1 <= b /\ b <= tip["L2"]
  <2>1. PollFits(s) /\ s.latest \in Nat
    BY PollIs DEF PollType
  <2> QED  BY <1>1, <2>1 DEF PollFits
<1>6. Len(r) + 1 <= Remembered
  <2>1. PICK q : q = Append(r, b)
    OBVIOUS
  <2>2. /\ q \in Seq(Nat) /\ Len(q) = Len(r) + 1 /\ q[Len(r) + 1] = b
        /\ \A i \in 1..Len(r) : q[i] = r[i]
    BY <2>1
  <2>3. \A i \in 1..Len(q) : i = Len(r) + 1 \/ i \in 1..Len(r)
    BY <2>2
  <2>4. \A i \in 1..Len(q) : q[i] \in (base["L2"] + 1)..tip["L2"]
    BY <1>4, <1>5, <2>2, <2>3
  <2>5. \A i, j \in 1..Len(q) : q[i] = q[j] => i = j
    <3>1. ASSUME NEW i \in 1..Len(q), NEW j \in 1..Len(q), q[i] = q[j] PROVE i = j
      <4>1. CASE i = Len(r) + 1
        <5>1. q[j] = b
          BY <2>2, <3>1, <4>1
        <5>2. j \notin 1..Len(r)
          BY <1>4, <2>2, <5>1
        <5> QED  BY <2>3, <4>1, <5>2
      <4>2. CASE j = Len(r) + 1
        <5>1. q[i] = b
          BY <2>2, <3>1, <4>2
        <5>2. i \notin 1..Len(r)
          BY <1>4, <2>2, <5>1
        <5> QED  BY <2>3, <4>2, <5>2
      <4>3. CASE i \in 1..Len(r) /\ j \in 1..Len(r)
        <5>1. r[i] = r[j]
          BY <2>2, <3>1, <4>3
        <5> QED  BY <1>2, <4>3, <5>1
      <4> QED  BY <2>3, <4>1, <4>2, <4>3
    <3> QED  BY <3>1
  <2>6. Len(q) <= tip["L2"] - base["L2"]
    BY <2>2, <2>4, <2>5, DistinctFit
  <2> QED  BY <2>2, <2>6, GatewayAssumption
<1>7. PICK u : u = recent'
  OBVIOUS
<1>8. /\ u \in Seq(Nat) /\ Len(u) = Len(r) + 1 /\ u[Len(r) + 1] = b
      /\ \A i \in 1..Len(r) : u[i] = r[i]
  BY <1>1, <1>6, <1>7, RememberIs
<1>9. \A i \in 1..Len(u) : i = Len(r) + 1 \/ i \in 1..Len(r)
  BY <1>8
<1>10. \A i, j \in 1..Len(u) : u[i] = u[j] => i = j
  <2>1. ASSUME NEW i \in 1..Len(u), NEW j \in 1..Len(u), u[i] = u[j] PROVE i = j
    <3>1. CASE i = Len(r) + 1
      <4>1. u[j] = b
        BY <1>8, <2>1, <3>1
      <4>2. j \notin 1..Len(r)
        BY <1>4, <1>8, <4>1
      <4> QED  BY <1>9, <3>1, <4>2
    <3>2. CASE j = Len(r) + 1
      <4>1. u[i] = b
        BY <1>8, <2>1, <3>2
      <4>2. i \notin 1..Len(r)
        BY <1>4, <1>8, <4>1
      <4> QED  BY <1>9, <3>2, <4>2
    <3>3. CASE i \in 1..Len(r) /\ j \in 1..Len(r)
      <4>1. r[i] = r[j]
        BY <1>8, <2>1, <3>3
      <4> QED  BY <1>2, <3>3, <4>1
    <3> QED  BY <1>9, <3>1, <3>2, <3>3
  <2> QED  BY <2>1
<1>11. IsRemembered(b)' /\ \A x : IsRemembered(x) => IsRemembered(x)'
  <2>1. Len(r) + 1 \in 1..Len(u) /\ \A i \in 1..Len(r) : i \in 1..Len(u)
    BY <1>8
  <2> QED  BY <1>7, <1>8, <2>1 DEF IsRemembered
<1>12. \A x \in Nat : Told("eth_transfer", "L2", x)' => IsRemembered(x)'
  BY <1>2, <1>11 DEF Told
<1>13. /\ polls'[p] = t
       /\ \A q \in GatewayPolls : q # p => polls'[q] = polls[q]
  BY PollIs
<1>14. ~Told("eth_transfer", "L2", b)
  BY <1>1, <1>2
<1>15. ASSUME NEW q \in GatewayPolls, polls'[q].phase = "receipt",
              NEW x, x = polls'[q].from
       PROVE  /\ IsRemembered(x)' /\ ~Told("eth_transfer", "L2", x)
              /\ \A o \in GatewayPolls :
                    polls'[o].phase = "receipt" /\ polls'[o].from = x => o = q
  <2>1. CASE q = p
    <3>1. x = b
      BY <1>1, <1>13, <1>15, <2>1
    <3>2. ASSUME NEW o \in GatewayPolls, polls'[o].phase = "receipt", polls'[o].from = x,
                 o # q
          PROVE  FALSE
      <4>1. polls[o].phase = "receipt" /\ polls[o].from = b
        BY <1>13, <2>1, <3>1, <3>2
      <4> QED  BY <1>1, <1>3, <4>1
    <3> QED  BY <1>11, <1>14, <3>1, <3>2
  <2>2. CASE q # p
    <3>1. polls[q].phase = "receipt" /\ polls[q].from = x
      BY <1>13, <1>15, <2>2
    <3>2. /\ IsRemembered(x) /\ ~Told("eth_transfer", "L2", x)
          /\ \A o \in GatewayPolls :
                polls[o].phase = "receipt" /\ polls[o].from = x => o = q
      BY <1>3, <3>1
    <3>3. x # b
      BY <1>1, <3>2
    <3>4. ASSUME NEW o \in GatewayPolls, polls'[o].phase = "receipt", polls'[o].from = x
          PROVE  o = q
      <4>1. o # p
        BY <1>1, <1>13, <3>3, <3>4
      <4> QED  BY <1>13, <3>2, <3>4, <4>1
    <3> QED  BY <1>11, <3>2, <3>4
  <2> QED  BY <2>1, <2>2
<1>16. \A q \in GatewayPolls :
          polls'[q].phase = "receipt" =>
              /\ \E i \in 1..Len(recent') : recent'[i] = polls'[q].from
              /\ <<"eth_transfer", "L2", polls'[q].from>> \notin sent'
              /\ \A o \in GatewayPolls :
                    polls'[o].phase = "receipt" /\ polls'[o].from = polls'[q].from => o = q
  <2>1. ASSUME NEW q \in GatewayPolls, polls'[q].phase = "receipt"
        PROVE  /\ \E i \in 1..Len(recent') : recent'[i] = polls'[q].from
               /\ <<"eth_transfer", "L2", polls'[q].from>> \notin sent'
               /\ \A o \in GatewayPolls :
                     polls'[o].phase = "receipt" /\ polls'[o].from = polls'[q].from => o = q
    <3>1. PICK x : x = polls'[q].from
      OBVIOUS
    <3>2. /\ IsRemembered(x)' /\ ~Told("eth_transfer", "L2", x)
          /\ \A o \in GatewayPolls :
                polls'[o].phase = "receipt" /\ polls'[o].from = x => o = q
      BY <1>15, <2>1, <3>1
    <3>3. <<"eth_transfer", "L2", x>> \notin sent'
      BY <3>2 DEF Told
    <3>4. \E i \in 1..Len(recent') : recent'[i] = x
      BY <3>2 DEF IsRemembered
    <3> QED  BY <3>1, <3>2, <3>3, <3>4
  <2> QED  BY <2>1
<1> QED  BY <1>2, <1>7, <1>10, <1>12, <1>16 DEF EachOnce, IsRemembered, Told

LEMMA PollBlockKeeps ==
    ASSUME GatewayInv, gatewayUp, NEW p \in GatewayPolls, PollBlock(p)
    PROVE  GatewayInv'
<1>1. PICK s \in PollType : s = polls[p]
  BY PollIs
<1>2. /\ s.phase = "block" /\ (gatewayUp' <=> gatewayUp)
      /\ UNCHANGED <<tip, base, sent, repeated, unseen>>
  BY <1>1 DEF PollBlock
<1>3. CASE IsRemembered(s.from)
  <2>1. NextPollBlock(p) /\ UNCHANGED recent
    BY <1>1, <1>3 DEF PollBlock
  <2>2. IsOut(s.from)
    BY <1>3, PollIs DEF IsRemembered, RecentFits
  <2>3. PICK t \in PollType :
           /\ polls' = [polls EXCEPT ![p] = t] /\ t.phase # "receipt" /\ PollFits(t)'
           /\ pushed' \in [Chains -> Nat] /\ CursorsFit'
           /\ \A c \in Chains : base[c] <= pushed'[c] /\ pushed'[c] <= tip[c]
    BY <1>1, <1>2, <2>1, <2>2, NextBlockFits
  <2>4. RecentFits'
    BY <1>1, <1>2, <2>1, <2>3, AllStays
  <2>5. EachOnce'
    BY <1>2, <2>1, <2>3, OnceRests DEF Told
  <2> QED  BY <1>1, <1>2, <2>1, <2>3, <2>4, <2>5, PollIs, PollMoves
<1>4. CASE ~IsRemembered(s.from)
  <2>1. /\ Remember(s.from) /\ UNCHANGED pushed
        /\ polls' = [polls EXCEPT ![p].phase = "receipt"]
    BY <1>1, <1>4 DEF PollBlock
  <2>2. PICK t : t = [s EXCEPT !.phase = "receipt"]
    OBVIOUS
  <2>3. /\ t \in PollType /\ t.phase = "receipt" /\ t.from = s.from
        /\ t.chain = s.chain /\ t.latest = s.latest
    <3>1. /\ s = [phase |-> s.phase, chain |-> s.chain, from |-> s.from, latest |-> s.latest]
          /\ s.chain \in Chains /\ s.latest \in Nat /\ s.from \in Nat
      BY DEF PollType
    <3>2. t = [phase |-> "receipt", chain |-> s.chain, from |-> s.from, latest |-> s.latest]
      BY <2>2, <3>1
    <3> QED  BY <3>1, <3>2 DEF PollType, PollPhases
  <2>4. polls' = [polls EXCEPT ![p] = t]
    BY <1>1, <2>1, <2>2
  <2>5. /\ \A x \in PollType : PollFits(x) => PollFits(x)'
        /\ \A b : IsOut(b) => IsOut(b)'
        /\ CursorsFit'
    BY <1>1, <1>2, <2>1, <2>3, <2>4, AllStays
  <2>6. PollFits(s)' /\ PollFits(s)
    BY <1>1, <2>5, PollIs
  <2>7. PollFits(t)'
    BY <1>2, <2>3, <2>6 DEF PollFits
  <2>8. /\ s.chain = "L2" /\ s.from \in Nat /\ base["L2"] \in Nat /\ tip["L2"] \in Nat
        /\ base["L2"] + 1 <= s.from /\ s.from <= tip["L2"] /\ base["L2"] <= tip["L2"]
    <3>1. s.chain = "L2" /\ base["L2"] + 1 <= s.from /\ s.from <= s.latest
          /\ s.latest <= tip["L2"]
      BY <1>2, <2>6 DEF PollFits
    <3>2. s.from \in Nat /\ s.latest \in Nat /\ base["L2"] \in Nat /\ tip["L2"] \in Nat
      BY PollIs, ChainsAre DEF PollType
    <3> QED  BY <3>1, <3>2
  <2>9. PICK r \in Seq(Nat) : r = recent
    BY PollIs
  <2>10. /\ recent' \in Seq(Nat)
         /\ \A i \in 1..Len(recent') :
               recent'[i] = s.from \/ \E j \in 1..Len(r) : recent'[i] = r[j]
    BY <2>1, <2>8, <2>9, RememberIs
  <2>11. IsOut(s.from)'
    <3>1. polls'[p] = t
      BY <2>4, PollIs
    <3> QED  BY <2>3, <3>1 DEF IsOut, OnItsWayOut
  <2>12. RecentFits'
    <3>1. \A j \in 1..Len(r) :
             IsOut(r[j])' /\ base["L2"] + 1 <= r[j] /\ r[j] <= tip["L2"]
      <4>1. ASSUME NEW j \in 1..Len(r), NEW b, b = r[j]
            PROVE  IsOut(b)' /\ base["L2"] + 1 <= b /\ b <= tip["L2"]
        BY <2>5, <2>9, <4>1, PollIs DEF RecentFits
      <4> QED  BY <4>1
    <3>2. ASSUME NEW i \in 1..Len(recent'), NEW b, b = recent'[i]
          PROVE  IsOut(b)' /\ base["L2"] + 1 <= b /\ b <= tip["L2"]
      BY <2>8, <2>10, <2>11, <3>1, <3>2
    <3>3. PICK u : u = recent'
      OBVIOUS
    <3>4. \A i \in 1..Len(u) :
             /\ <<"eth_transfer", "L2", u[i]>> \in sent'
                \/ \E q \in GatewayPolls : polls'[q].phase = "receipt" /\ polls'[q].from = u[i]
             /\ base["L2"] + 1 <= u[i] /\ u[i] <= tip["L2"]
      BY <3>2, <3>3 DEF IsOut, OnItsWayOut, Told
    <3> QED  BY <1>2, <3>3, <3>4 DEF RecentFits, IsOut, OnItsWayOut, Told
  <2>13. EachOnce'
    BY <1>1, <1>2, <1>4, <2>1, <2>3, <2>4, <2>8, <2>9, OnceRemembered
  <2> QED  BY <1>1, <1>2, <2>1, <2>3, <2>4, <2>5, <2>7, <2>10, <2>12, <2>13, PollIs, PollMoves
<1> QED  BY <1>3, <1>4

LEMMA BlockFailsKeeps ==
    ASSUME GatewayInv, gatewayUp, NEW p \in GatewayPolls, BlockFails(p)
    PROVE  GatewayInv'
<1>1. PICK s \in PollType : s = polls[p]
  BY PollIs
<1>2. /\ s.phase = "block" /\ (gatewayUp' <=> gatewayUp) /\ NextPollBlock(p)
      /\ UNCHANGED <<tip, base, recent, sent, repeated>> /\ unseen' = unseen \cup {s.from}
  BY <1>1 DEF BlockFails
<1>3. PICK t \in PollType :
         /\ polls' = [polls EXCEPT ![p] = t] /\ t.phase # "receipt" /\ PollFits(t)'
         /\ pushed' \in [Chains -> Nat] /\ CursorsFit'
         /\ \A c \in Chains : base[c] <= pushed'[c] /\ pushed'[c] <= tip[c]
  BY <1>1, <1>2, NextBlockFits
<1>4. RecentFits'
  BY <1>1, <1>2, <1>3, AllStays
<1>5. EachOnce'
  BY <1>2, <1>3, OnceRests DEF Told
<1> QED  BY <1>1, <1>2, <1>3, <1>4, <1>5, PollIs, PollMoves

LEMMA PollFailsKeeps ==
    ASSUME GatewayInv, gatewayUp, NEW p \in GatewayPolls, PollFails(p)
    PROVE  GatewayInv'
<1>1. /\ polls[p].phase # "receipt" /\ (gatewayUp' <=> gatewayUp)
      /\ UNCHANGED <<tip, base, pushed, recent, sent, repeated, unseen>>
      /\ polls' = [polls EXCEPT ![p] = NoPoll]
  BY DEF PollFails
<1>2. PollFits(NoPoll)' /\ RecentFits' /\ CursorsFit'
  BY <1>1, NoPollFits, AllStays
<1>3. EachOnce'
  BY <1>1, NoPollFits, OnceRests DEF Told
<1> QED  BY <1>1, <1>2, <1>3, NoPollFits, PollIs, PollMoves

LEMMA GatewayStartKeeps ==
    ASSUME GatewayInv, GatewayStart
    PROVE  GatewayInv'
<1>1. /\ base' = tip /\ pushed' = tip /\ tip' = tip /\ recent' = <<>> /\ sent' = {}
      /\ repeated' = {} /\ polls' = polls /\ ~gatewayUp
  BY DEF GatewayStart
<1>2. /\ tip \in [Chains -> Nat] /\ polls \in [GatewayPolls -> PollType]
      /\ \A p \in GatewayPolls : polls[p] = NoPoll
  BY <1>1 DEF GatewayInv, GatewayType
<1>3. recent' \in Seq(Nat) /\ Len(recent') = 0
  BY <1>1
<1>4. GatewayType'
  BY <1>1, <1>2, <1>3 DEF GatewayType
<1>5. PollsFit'
  BY <1>1, <1>2, NoPollFits DEF PollsFit, PollFits
<1>6. CursorsFit'
  <2>1. \A c \in Chains : \A b : b \notin (tip[c] + 1)..tip[c]
    BY <1>2
  <2> QED  BY <1>1, <2>1, ChainsAre DEF CursorsFit, ToldTo, NativeTo
<1>7. RecentFits'
  BY <1>3 DEF RecentFits
<1>8. EachOnce'
  <2>1. \A p \in GatewayPolls : polls'[p].phase # "receipt"
    BY <1>1, <1>2, NoPollFits
  <2>2. \A i \in 1..Len(recent') : FALSE
    BY <1>3
  <2> QED  BY <1>1, <2>1, <2>2 DEF EachOnce, Told
<1> QED  BY <1>1, <1>2, <1>4, <1>5, <1>6, <1>7, <1>8 DEF GatewayInv

LEMMA GatewayStopKeeps ==
    ASSUME GatewayInv, GatewayStop
    PROVE  GatewayInv'
<1>1. /\ ~gatewayUp' /\ UNCHANGED <<tip, base, pushed, recent>>
      /\ polls' = [p \in GatewayPolls |-> NoPoll]
  BY DEF GatewayStop
<1>2. /\ polls' \in [GatewayPolls -> PollType] /\ \A p \in GatewayPolls : polls'[p] = NoPoll
  BY <1>1, NoPollFits
<1> QED  BY <1>1, <1>2 DEF GatewayInv, GatewayType

LEMMA TipGrowsKeeps ==
    ASSUME GatewayInv, NEW c \in Chains, TipGrows(c)
    PROVE  GatewayInv'
<1>1. /\ tip' = [tip EXCEPT ![c] = @ + 1] /\ (gatewayUp' <=> gatewayUp)
      /\ UNCHANGED <<base, pushed, polls, recent, sent, repeated, unseen>>
  BY DEF TipGrows
<1>2. GatewayType /\ tip \in [Chains -> Nat]
  BY DEF GatewayInv, GatewayType
<1>3. tip' \in [Chains -> Nat] /\ \A d \in Chains : tip[d] <= tip'[d]
  BY <1>1, <1>2
<1>4. GatewayType'
  <2>1. \A d \in Chains : base[d] \in Nat /\ pushed[d] \in Nat /\ tip[d] \in Nat /\ tip'[d] \in Nat
    BY <1>2, <1>3 DEF GatewayType
  <2> QED  BY <1>1, <1>2, <1>3, <2>1 DEF GatewayType
<1>5. \A b : IsOut(b) <=> IsOut(b)'
  BY <1>1 DEF IsOut, OnItsWayOut, Told
<1>6. /\ \A stream, d, k : ToldTo(stream, d, k) => ToldTo(stream, d, k)'
      /\ \A k : NativeTo(k) => NativeTo(k)'
      /\ \A s \in PollType : PollFits(s) => PollFits(s)'
  <2>1. base' = base /\ sent \subseteq sent' /\ unseen \subseteq unseen'
    BY <1>1
  <2> QED  BY <1>2, <1>3, <1>5, <2>1, FitsStays
<1>7. ASSUME gatewayUp PROVE PollsFit' /\ CursorsFit' /\ RecentFits' /\ EachOnce'
  <2>1. PollsFit /\ CursorsFit /\ RecentFits /\ EachOnce
    BY <1>7 DEF GatewayInv
  <2>2. PollsFit'
    <3>1. ASSUME NEW q \in GatewayPolls, NEW s, s = polls[q] PROVE PollFits(s)'
      BY <1>2, <1>6, <2>1, <3>1 DEF GatewayType, PollsFit
    <3>2. \A q \in GatewayPolls : PollFits(polls[q])'
      BY <1>1, <3>1 DEF PollFits
    <3> QED  BY <1>1, <3>2 DEF PollsFit, PollFits
  <2>3. CursorsFit'
    BY <1>1, <1>6, <2>1, CursorsRest
  <2>4. RecentFits'
    <3>1. tip["L2"] \in Nat /\ tip'["L2"] \in Nat /\ tip["L2"] <= tip'["L2"]
          /\ recent \in Seq(Nat) /\ base["L2"] \in Nat
      BY <1>2, <1>3, ChainsAre DEF GatewayType
    <3>2. ASSUME NEW i \in 1..Len(recent), NEW b, b = recent[i]
          PROVE  IsOut(b)' /\ base["L2"] + 1 <= b /\ b <= tip'["L2"]
      <4>1. IsOut(b) /\ base["L2"] + 1 <= b /\ b <= tip["L2"] /\ b \in Nat
        BY <2>1, <3>1, <3>2 DEF RecentFits
      <4> QED  BY <1>5, <3>1, <4>1
    <3> QED  BY <1>1, <3>2 DEF RecentFits, IsOut, OnItsWayOut, Told
  <2>5. EachOnce'
    <3>1. tip["L2"] \in Nat /\ tip'["L2"] \in Nat /\ tip["L2"] <= tip'["L2"] /\ base["L2"] \in Nat
      BY <1>2, <1>3, ChainsAre DEF GatewayType
    <3>2. tip'["L2"] - base["L2"] <= Remembered => tip["L2"] - base["L2"] <= Remembered
      BY <3>1, GatewayAssumption
    <3> QED  BY <1>1, <2>1, <3>2 DEF EachOnce, IsRemembered, Told
  <2> QED  BY <2>2, <2>3, <2>4, <2>5
<1> QED  BY <1>1, <1>4, <1>7, <1>2 DEF GatewayInv

LEMMA GatewayRests ==
    ASSUME GatewayInv, UNCHANGED gatewayVars
    PROVE  GatewayInv'
<1>1. /\ UNCHANGED <<tip, base, pushed, polls, recent, sent, repeated, unseen>>
      /\ (gatewayUp' <=> gatewayUp)
  BY DEF gatewayVars
<1> QED
  BY <1>1 DEF GatewayInv, GatewayType, PollsFit, PollFits, CursorsFit, RecentFits, EachOnce,
       ToldTo, NativeTo, IsOut, OnItsWayOut, Told, IsRemembered

LEMMA GatewayKeeps ==
    ASSUME GatewayInv, GatewayNext
    PROVE  GatewayInv'
<1>1. CASE GatewayStart
  BY <1>1, GatewayStartKeeps
<1>2. CASE GatewayStop
  BY <1>2, GatewayStopKeeps
<1>3. ASSUME NEW p \in GatewayPolls, GatewayStep(p) \/ BlockFails(p) \/ PollFails(p)
      PROVE  GatewayInv'
  <2>1. CASE \E c \in Chains : PollTip(p, c)
    BY <2>1, PollTipKeeps
  <2>2. CASE ~\E c \in Chains : PollTip(p, c)
    <3>1. polls[p].phase # "idle"
      BY <1>3, <2>2 DEF GatewayStep, PollTransfers, PollBridge, PollBlock, PollReceipt,
           RangeIsRefused, PollFails, BlockFails
    <3>2. gatewayUp
      BY <3>1, NoPollFits DEF GatewayInv
    <3> QED
      BY <1>3, <2>2, <3>2, PollTransfersKeeps, PollBridgeKeeps, PollBlockKeeps,
         PollReceiptKeeps, BlockFailsKeeps, PollFailsKeeps
         DEF GatewayStep, RangeIsRefused
  <2> QED  BY <2>1, <2>2
<1> QED  BY <1>1, <1>2, <1>3 DEF GatewayNext, GatewayFault

LEMMA GatewayInvHolds == ObserversSpec => []GatewayInv
<1>1. ObserversInit => GatewayInv
  <2> SUFFICES ASSUME GatewayInit PROVE GatewayInv
    BY DEF ObserversInit
  <2>1. /\ tip = [c \in Chains |-> 1] /\ base = tip /\ pushed = tip /\ recent = <<>>
        /\ ~gatewayUp /\ polls = [p \in GatewayPolls |-> NoPoll]
    BY DEF GatewayInit
  <2>2. polls \in [GatewayPolls -> PollType] /\ \A p \in GatewayPolls : polls[p] = NoPoll
    BY <2>1, NoPollFits
  <2>3. tip \in [Chains -> Nat] /\ recent \in Seq(Nat)
    BY <2>1
  <2> QED  BY <2>1, <2>2, <2>3 DEF GatewayInv, GatewayType
<1>2. GatewayInv /\ [ObserversNext]_observerVars => GatewayInv'
  <2> SUFFICES ASSUME GatewayInv, [ObserversNext]_observerVars PROVE GatewayInv'
    OBVIOUS
  <2>1. CASE UNCHANGED gatewayVars
    BY <2>1, GatewayRests
  <2>2. CASE GatewayNext
    BY <2>2, GatewayKeeps
  <2>3. CASE \E c \in Chains : TipGrows(c)
    BY <2>3, TipGrowsKeeps
  <2> QED  BY <2>1, <2>2, <2>3 DEF ObserversNext, observerVars
<1> QED  BY <1>1, <1>2, PTL DEF ObserversSpec

\* A client that stays connected is told of every event the cursors have
\* passed, and of no native transfer twice unless more happen than are
\* remembered (event-gateway.ts:49-64, 200-290), for any number of polls that
\* overlap, fail and move the cursor back, and any number remembered.
THEOREM GatewayAlwaysDelivers == ObserversSpec => []GatewayDelivers
<1>1. GatewayInv => GatewayDelivers
  BY ChainsAre DEF GatewayInv, CursorsFit, EachOnce, ToldTo, NativeTo, IsOut, GatewayDelivers
<1> QED  BY <1>1, GatewayInvHolds, PTL
============================================================================
