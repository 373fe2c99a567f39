------------------------- MODULE WithdrawalPipeline -------------------------
(***************************************************************************)
(* How a withdrawal gets from L2 to L1: the withdrawal listener stores     *)
(* WithdrawalInitiated events in the table withdrawals, the batch          *)
(* submitter commits the rows of each range of L2 blocks to a root on L1   *)
(* and queues them there, and the finalizer pays them out after the        *)
(* challenge period.  A script fills in hashes that are missing.           *)
(*                                                                         *)
(* Polls of the listener overlap; the submitter and the finalizer lock     *)
(* themselves.  L1 is reduced to what these services see of it: what the   *)
(* abstract escrow (WithdrawalEscrow) promises, and which version of the   *)
(* BridgeFacet is behind the diamond.  The one the services are written    *)
(* for takes queueWithdrawal with a proof against the latest root and      *)
(* reverts with texts; the one in the repository refuses that call and     *)
(* reverts with custom errors, of which the services' ABI knows nothing.   *)
(* A transaction takes effect when it is sent: nothing a service does      *)
(* could tell a later time apart.  Both chains are taken as final.         *)
(***************************************************************************)
EXTENDS Integers, Sequences, FiniteSetsExt

CONSTANTS
    WithdrawalIds,
    NoRow, NoHash,
    BatchSize,     \* config.batch.size, in L2 blocks
    ListSize,      \* DEFAULT_BATCH_SIZE of the finalizer
    MaxL2Block,    \* bound on the height of L2
    Polls,         \* 1..n, a bound on polls running at once
    MaxFaults      \* kind -> bound on how often it happens

ASSUME WithdrawalPipelineAssumption ==
    /\ BatchSize \in Nat \ {0} /\ ListSize \in Nat \ {0} /\ MaxL2Block \in Nat
    /\ Polls \subseteq Nat
    /\ IsFiniteSet(WithdrawalIds)
    /\ MaxFaults \in [{"db", "rpc", "crash"} -> Nat]

VARIABLES
    l2Head,     \* height of L2
    initBlock,  \* block of each withdrawal on L2, 0 for none yet
    facet,      \* "legacy" or "v3", the BridgeFacet behind the diamond
    roots,      \* the batches on L1: the withdrawals each root commits to
    l1,         \* each withdrawal on L1: its state, or who paid it
    up,         \* the sequencer process runs
    cursor,     \* lastProcessedBlock
    origin,     \* what lastProcessedBlock was when the listener started
    polls,
    submit,     \* the pass of the batch submitter
    pass,       \* the pass of the finalizer
    ripe,       \* queued rows older than CHALLENGE_PERIOD_SECONDS
    script,     \* rows the script is about to give a hash
    rows,       \* the table withdrawals
    batches,    \* the table batches
    faults      \* how often each kind happened

chainVars == <<l2Head, initBlock, facet, roots, l1>>
listenerVars == <<cursor, origin, polls>>
dbVars == <<rows, batches>>
withdrawalVars == <<chainVars, up, listenerVars, submit, pass, ripe, script, dbVars, faults>>

Payers == {"relayer", "other"}
Row == [block : 1..MaxL2Block, queued : Nat, finalized : BOOLEAN, hash : Payers \cup {NoHash}]
ASSUME NoRowAssumption == NoRow \notin Row
Paid(w) == l1[w] \in Payers
BatchNumbers == 1..(MaxL2Block \div BatchSize)

NoPoll == [upTo |-> 0, todo |-> {}]
NoSubmit == [phase |-> "idle", todo |-> {}, mined |-> {}]
NoPass == [todo |-> {}, paid |-> {}, known |-> {}]

Happens(kind) ==
    /\ faults[kind] < MaxFaults[kind]
    /\ faults' = [faults EXCEPT ![kind] = @ + 1]

WithdrawalInit ==
    /\ l2Head = 0
    /\ initBlock = [w \in WithdrawalIds |-> 0]
    /\ facet = "legacy"
    /\ roots = <<>>
    /\ l1 = [w \in WithdrawalIds |-> "none"]
    /\ up = FALSE
    /\ cursor = 0 /\ origin = 0
    /\ polls = [p \in Polls |-> NoPoll]
    /\ submit = NoSubmit
    /\ pass = NoPass
    /\ ripe = {} /\ script = {}
    /\ rows = [w \in WithdrawalIds |-> NoRow]
    /\ batches = [n \in BatchNumbers |-> "none"]
    /\ faults = [kind \in DOMAIN MaxFaults |-> 0]

----------------------------------------------------------------------------
\* The chains

InChains == <<up, listenerVars, submit, pass, script, dbVars, faults>>

\* L2BridgeV3: some users withdraw, in one block.
MineL2(ids) ==
    /\ l2Head < MaxL2Block
    /\ \A w \in ids : initBlock[w] = 0
    /\ l2Head' = l2Head + 1
    /\ initBlock' = [w \in WithdrawalIds |-> IF w \in ids THEN l2Head' ELSE initBlock[w]]
    /\ UNCHANGED <<InChains, facet, roots, l1, ripe>>

\* The diamond gets the facet of the repository.
Upgrade ==
    /\ facet = "legacy"
    /\ facet' = "v3"
    /\ UNCHANGED <<InChains, l2Head, initBlock, roots, l1, ripe>>

\* A queued withdrawal becomes payable, is barred (challenged, its batch
\* invalidated, its recipient refusing), or is finalized by somebody else.
Becomes(w, from, to) ==
    /\ l1[w] \in from
    /\ l1' = [l1 EXCEPT ![w] = to]
    /\ UNCHANGED <<InChains, l2Head, initBlock, facet, roots, ripe>>
FallsDue(w) == Becomes(w, {"queued"}, "due")
IsBarred(w) == Becomes(w, {"queued", "due"}, "barred")
OtherFinalizes(w) == Becomes(w, {"due"}, "other")

\* The local clock, which knows only when the row was marked.
IsQueued(w) == rows[w] # NoRow /\ rows[w].queued > 0
Ripen(w) ==
    /\ IsQueued(w) /\ w \notin ripe
    /\ \A v \in WithdrawalIds :
          IsQueued(v) /\ rows[v].queued < rows[w].queued => v \in ripe
    /\ ripe' = ripe \cup {w}
    /\ UNCHANGED <<InChains, chainVars>>

----------------------------------------------------------------------------
\* L2WithdrawalListenerService

InListener == <<chainVars, up, submit, pass, ripe, script, batches>>

\* saveWithdrawal: an id that is there already keeps its row.
SaveWithdrawal(w) ==
    rows' = [rows EXCEPT ![w] =
                 IF @ = NoRow
                 THEN [block |-> initBlock[w], queued |-> 0, finalized |-> FALSE,
                       hash |-> NoHash]
                 ELSE @]

\* Where the range of a poll begins.
SkipBlock(last) == last + 2
NextBlock(last) == last + 1

\* pollForWithdrawals up to queryFilter.  The height may be old when it
\* arrives; the events up to it are final, and a call that fails changes
\* nothing.
PollBegins(p, upTo) ==
    /\ up /\ polls[p] = NoPoll
    /\ \A q \in Polls : q < p => polls[q] # NoPoll
    /\ cursor < upTo /\ upTo <= l2Head
    /\ polls' = [polls EXCEPT ![p] =
           [upTo |-> upTo,
            todo |-> {w \in WithdrawalIds :
                        initBlock[w] # 0 /\ initBlock[w] \in NextBlock(cursor)..upTo}]]
    /\ UNCHANGED <<InListener, cursor, origin, rows, faults>>

\* handleWithdrawalEvent, in the order of the events; a failed insert is
\* logged and the next event follows.
HandleWithdrawalEvent(p, w) ==
    /\ w \in polls[p].todo
    /\ \A v \in polls[p].todo : initBlock[w] <= initBlock[v]
    /\ polls' = [polls EXCEPT ![p].todo = @ \ {w}]
    /\ \/ SaveWithdrawal(w) /\ UNCHANGED faults
       \/ Happens("db") /\ UNCHANGED rows
    /\ UNCHANGED <<InListener, cursor, origin>>

\* The cursor becomes the height the poll started with.
PollEnds(p) ==
    /\ polls[p] # NoPoll /\ polls[p].todo = {}
    /\ cursor' = polls[p].upTo
    /\ polls' = [polls EXCEPT ![p] = NoPoll]
    /\ UNCHANGED <<InListener, origin, rows, faults>>

----------------------------------------------------------------------------
\* BatchSubmitterService

InSubmitter == <<l2Head, initBlock, facet, up, listenerVars, pass, ripe, script>>

\* lastSubmitted + batch.size, from getLatestL2Block on L1
NextBatch == Len(roots) + 1
NextRotationBlock == NextBatch * BatchSize

\* getWithdrawalsInRange; one block too many below
WithdrawalsAround(startBlock, endBlock) ==
    {w \in WithdrawalIds :
        rows[w] # NoRow /\ rows[w].queued = 0 /\ rows[w].block \in (startBlock - 1)..endBlock}
WithdrawalsInRange(startBlock, endBlock) ==
    {w \in WithdrawalIds :
        rows[w] # NoRow /\ rows[w].queued = 0 /\ rows[w].block \in startBlock..endBlock}

\* submitBatch up to the Merkle tree.
SubmitBegins ==
    /\ up /\ submit = NoSubmit
    /\ l2Head >= NextRotationBlock
    /\ submit' = [NoSubmit EXCEPT
           !.phase = "send",
           !.todo = WithdrawalsInRange(NextRotationBlock - BatchSize + 1, NextRotationBlock)]
    /\ UNCHANGED <<InSubmitter, roots, l1, dbVars, faults>>

\* The batch is sent and mined, or not sent in any attempt, or the answer or
\* the receipt is lost: an attempt that repeats one that was mined reverts.
SubmitBatch ==
    /\ submit.phase = "send"
    /\ \/ /\ roots' = Append(roots, submit.todo)
          /\ submit' = [submit EXCEPT !.phase = "queue"]
          /\ UNCHANGED faults
       \/ /\ Happens("rpc")
          /\ roots' \in {roots, Append(roots, submit.todo)}
          /\ submit' = NoSubmit
    /\ UNCHANGED <<InSubmitter, l1, dbVars>>

\* queueWithdrawal on L1, with a proof against the latest root
TakesQueueWithdrawal(w) ==
    facet = "legacy" /\ l1[w] = "none" /\ w \in roots[Len(roots)]

\* queueWithdrawalOnL1 for the next row; one that fails is passed over.
QueueWithdrawalOnL1(w) ==
    /\ submit.phase = "queue" /\ submit.mined = {}
    /\ w \in submit.todo
    /\ \A v \in submit.todo : rows[w].block <= rows[v].block
    /\ \/ /\ TakesQueueWithdrawal(w)
          /\ l1' = [l1 EXCEPT ![w] = "queued"]
          /\ submit' = [submit EXCEPT !.mined = {w}]
          /\ UNCHANGED faults
       \/ /\ ~TakesQueueWithdrawal(w)
          /\ submit' = [submit EXCEPT !.todo = @ \ {w}]
          /\ UNCHANGED <<l1, faults>>
       \/ /\ Happens("rpc")
          /\ l1' \in {l1, IF TakesQueueWithdrawal(w) THEN [l1 EXCEPT ![w] = "queued"] ELSE l1}
          /\ submit' = [submit EXCEPT !.todo = @ \ {w}]
    /\ UNCHANGED <<InSubmitter, roots, dbVars>>

\* markWithdrawalQueued: queued_at is later than that of every other row.
LastQueued == Cardinality({w \in WithdrawalIds : IsQueued(w)})
MarkWithdrawalQueued(w) ==
    /\ w \in submit.mined
    /\ submit' = [submit EXCEPT !.mined = {}, !.todo = @ \ {w}]
    /\ \/ rows' = [rows EXCEPT ![w].queued = LastQueued + 1] /\ UNCHANGED faults
       \/ Happens("db") /\ UNCHANGED rows
    /\ UNCHANGED <<InSubmitter, roots, l1, batches>>

\* saveBatch, for the batch just submitted; nextRotationBlock / batch.size
SaveBatch ==
    /\ submit.phase = "queue" /\ submit.todo = {}
    /\ \/ /\ batches' = [batches EXCEPT ![Len(roots)] = IF @ = "none" THEN "saved" ELSE @]
          /\ submit' = [submit EXCEPT !.phase = "mark"]
          /\ UNCHANGED faults
       \/ /\ Happens("db")
          /\ submit' = NoSubmit
          /\ UNCHANGED batches
    /\ UNCHANGED <<InSubmitter, roots, l1, rows>>

MarkBatchSubmitted ==
    /\ submit.phase = "mark"
    /\ submit' = NoSubmit
    /\ \/ batches' = [batches EXCEPT ![Len(roots)] = "submitted"] /\ UNCHANGED faults
       \/ Happens("db") /\ UNCHANGED batches
    /\ UNCHANGED <<InSubmitter, roots, l1, rows>>

\* getLastSubmittedBlock, the lastBatchBlock of getStats
LastSubmittedBlock ==
    BatchSize * Max({0} \cup {n \in BatchNumbers : batches[n] = "submitted"})

----------------------------------------------------------------------------
\* WithdrawalFinalizerService

InFinalizer == <<l2Head, initBlock, facet, roots, up, listenerVars, submit, ripe, script, batches>>

Unfinalized == {w \in WithdrawalIds : IsQueued(w) /\ ~rows[w].finalized}

\* getQueuedUnfinalizedWithdrawals: the ListSize rows queued first.
QueuedUnfinalizedWithdrawals ==
    {w \in Unfinalized :
        Cardinality({v \in Unfinalized : rows[v].queued < rows[w].queued}) < ListSize}

\* processEligibleWithdrawals
ProcessEligibleWithdrawals ==
    /\ up /\ pass = NoPass
    /\ Unfinalized # {}
    /\ pass' = [NoPass EXCEPT !.todo = QueuedUnfinalizedWithdrawals]
    /\ UNCHANGED <<InFinalizer, l1, rows, faults>>

IsNext(w) ==
    /\ w \in pass.todo /\ pass.paid = {} /\ pass.known = {}
    /\ \A v \in pass.todo : rows[w].queued <= rows[v].queued

\* The pass goes on to the row after w; what fails is caught for each row.
GivesUp(w) == pass' = NoPass
GoesOn(w) == pass' = [NoPass EXCEPT !.todo = pass.todo \ {w}]

\* The revert of a withdrawal reads "Already finalized".
SaysNotPayable(w) == facet = "legacy" /\ l1[w] # "due"
SaysFinalized(w) == facet = "legacy" /\ Paid(w)

\* handleWithdrawal up to the receipt.
HandleWithdrawal(w) ==
    /\ IsNext(w)
    /\ \/ /\ w \notin ripe
          /\ GoesOn(w)
          /\ UNCHANGED <<l1, faults>>
       \/ /\ w \in ripe /\ l1[w] = "due"
          /\ l1' = [l1 EXCEPT ![w] = "relayer"]
          /\ pass' = [pass EXCEPT !.paid = {w}]
          /\ UNCHANGED faults
       \/ /\ w \in ripe /\ SaysFinalized(w)
          /\ pass' = [pass EXCEPT !.known = {w}]
          /\ UNCHANGED <<l1, faults>>
       \/ /\ w \in ripe /\ l1[w] # "due" /\ ~SaysFinalized(w)
          /\ GoesOn(w)
          /\ UNCHANGED <<l1, faults>>
       \/ /\ w \in ripe /\ Happens("rpc")
          /\ l1' \in {l1, IF l1[w] = "due" THEN [l1 EXCEPT ![w] = "relayer"] ELSE l1}
          /\ GoesOn(w)
    /\ UNCHANGED <<InFinalizer, rows>>

\* markWithdrawalFinalized
Finalized(w, hash) ==
    rows' = [rows EXCEPT ![w].finalized = TRUE,
                         ![w].hash = IF hash = NoHash THEN @ ELSE hash]

\* With the hash of the transaction; a failed update is caught.
MarkFinalized(w) ==
    /\ w \in pass.paid
    /\ GoesOn(w)
    /\ \/ Finalized(w, "relayer") /\ UNCHANGED faults
       \/ Happens("db") /\ UNCHANGED rows
    /\ UNCHANGED <<InFinalizer, l1>>

\* Without a hash, from the catch clause: here a failed update ends the pass.
SyncFinalized(w) ==
    /\ w \in pass.known
    /\ \/ Finalized(w, NoHash) /\ GoesOn(w) /\ UNCHANGED faults
       \/ Happens("db") /\ pass' = NoPass /\ UNCHANGED rows
    /\ UNCHANGED <<InFinalizer, l1>>

----------------------------------------------------------------------------
\* backfill-withdrawal-finalizations, a process of its own

InScript == <<chainVars, up, listenerVars, submit, pass, ripe, batches, faults>>

\* getMissingFinalizations
MissingFinalizations ==
    {w \in WithdrawalIds : rows[w] # NoRow /\ rows[w].finalized /\ rows[w].hash = NoHash}

BackfillBegins ==
    /\ script = {} /\ MissingFinalizations # {}
    /\ script' = MissingFinalizations
    /\ UNCHANGED <<InScript, rows>>

\* The next row gets the hash of its WithdrawalFinalized log.
BackfillUpdates(w) ==
    /\ w \in script /\ Paid(w)
    /\ script' = script \ {w}
    /\ rows' = [rows EXCEPT ![w].hash = l1[w]]
    /\ UNCHANGED InScript

\* A call or a statement fails, or no log is found for what is left.
BackfillEnds ==
    /\ script # {}
    /\ script' = {}
    /\ UNCHANGED <<InScript, rows>>

----------------------------------------------------------------------------
\* The process

\* Everything in memory is gone.
Crash ==
    /\ up
    /\ Happens("crash")
    /\ up' = FALSE
    /\ cursor' = 0 /\ origin' = 0
    /\ polls' = [p \in Polls |-> NoPoll]
    /\ submit' = NoSubmit
    /\ pass' = NoPass
    /\ UNCHANGED <<chainVars, ripe, script, dbVars>>

\* The listener starts at the height L2 has.
Start ==
    /\ ~up
    /\ up' = TRUE
    /\ cursor' = l2Head /\ origin' = l2Head
    /\ UNCHANGED <<chainVars, polls, submit, pass, ripe, script, dbVars, faults>>

----------------------------------------------------------------------------
ListenerNext ==
    \E p \in Polls :
        \/ \E upTo \in 0..MaxL2Block : PollBegins(p, upTo)
        \/ \E w \in WithdrawalIds : HandleWithdrawalEvent(p, w)
        \/ PollEnds(p)

SubmitterNext ==
    \/ SubmitBegins
    \/ SubmitBatch
    \/ \E w \in WithdrawalIds : QueueWithdrawalOnL1(w) \/ MarkWithdrawalQueued(w)
    \/ SaveBatch
    \/ MarkBatchSubmitted

FinalizerNext ==
    \/ ProcessEligibleWithdrawals
    \/ \E w \in WithdrawalIds : HandleWithdrawal(w) \/ MarkFinalized(w) \/ SyncFinalized(w)

ChainNext ==
    \/ \E ids \in SUBSET WithdrawalIds : MineL2(ids)
    \/ Upgrade
    \/ \E w \in WithdrawalIds : FallsDue(w) \/ IsBarred(w) \/ OtherFinalizes(w)

ScriptNext ==
    \/ BackfillBegins
    \/ \E w \in WithdrawalIds : BackfillUpdates(w)
    \/ BackfillEnds

WithdrawalNext ==
    \/ ChainNext
    \/ \E w \in WithdrawalIds : Ripen(w)
    \/ ListenerNext
    \/ SubmitterNext
    \/ FinalizerNext
    \/ ScriptNext
    \/ Crash
    \/ Start
=============================================================================
