---------------------------- MODULE BridgeIndex ----------------------------
(***************************************************************************)
(* The bridge part of the indexer: one pass at a time reads the events of  *)
(* the bridge from both chains, each from its own cursor, and upserts them *)
(* into one row per deposit and withdrawal.  The rows are written by both  *)
(* chains in any order, and by two backfill scripts an operator runs       *)
(* beside the service.                                                     *)
(*                                                                         *)
(* Every block numbered here holds one event of the bridge; block 0 stands *)
(* for what came before.  The backfills fetch all logs in one chunk.       *)
(***************************************************************************)
EXTENDS Integers, Sequences, FiniteSets, FiniteSetsExt

CONSTANTS
    Deposits, Withdrawals,  \* bridge ids
    BridgeBatch,            \* blocks of a range
    StartBlock,             \* chain -> the configured first block, 0 if none
    MaxBridgeFaults         \* bound on faults

Sides == {"l1", "l2"}

ASSUME BridgeIndexAssumption ==
    /\ Deposits \cap Withdrawals = {}
    /\ BridgeBatch \in Nat \ {0}
    /\ StartBlock \in [Sides -> Nat]
    /\ MaxBridgeFaults \in Nat

VARIABLES
    events,         \* chain -> the event of each block
    bridgeEnabled,  \* the addresses of the bridges are configured
    bridgeOn,       \* isRunning
    saved,          \* chain -> l1_bridge_last_block, l2_bridge_last_block
    deposits,       \* bridge_deposits
    withdrawals,    \* bridge_withdrawals
    sync,           \* chain -> its part of the pass
    backoff,        \* the chains whose backoff runs
    first,          \* chain -> the block the rows begin with
    script,         \* a backfill script
    relapsed,       \* withdrawals a script set back from finalized
    bridgeFaults

rows == <<deposits, withdrawals>>
bridgeIndexVars ==
    <<events, bridgeEnabled, bridgeOn, saved, rows, sync, backoff, first, script, relapsed,
      bridgeFaults>>

NoCursor == -1
NoSync == [phase |-> "idle", at |-> 0, end |-> 0, to |-> 0]
NoScript == [phase |-> "idle", latest |-> 0, ids |-> {}, todo |-> {}]
NoDeposit == [status |-> "none", l1 |-> FALSE, l2 |-> FALSE]
NoWithdrawal ==
    [status |-> "none", l2 |-> FALSE, queued |-> FALSE, finalized |-> FALSE]

BridgeIndexInit ==
    /\ events = [c \in Sides |-> <<>>]
    /\ bridgeEnabled \in BOOLEAN
    /\ bridgeOn = FALSE
    /\ saved = [c \in Sides |-> NoCursor]
    /\ deposits = [d \in Deposits |-> NoDeposit]
    /\ withdrawals = [w \in Withdrawals |-> NoWithdrawal]
    /\ sync = [c \in Sides |-> NoSync]
    /\ backoff = {}
    /\ first = [c \in Sides |-> 0]
    /\ script = NoScript
    /\ relapsed = {}
    /\ bridgeFaults = 0

----------------------------------------------------------------------------
\* The two bridges emit

BlocksOf(c, kind, id) ==
    {b \in 1..Len(events[c]) : events[c][b] = [kind |-> kind, id |-> id]}
Happened(c, kind, id) == BlocksOf(c, kind, id) # {}

Emit(c, kind, id) ==
    /\ ~Happened(c, kind, id)
    /\ events' = [events EXCEPT ![c] = Append(@, [kind |-> kind, id |-> id])]
    /\ UNCHANGED <<bridgeEnabled, bridgeOn, saved, rows, sync, backoff, first, script,
                   relapsed, bridgeFaults>>

BridgeEvent ==
    \/ \E d \in Deposits :
          \/ Emit("l1", "Deposited", d)
          \/ Happened("l1", "Deposited", d) /\ Emit("l2", "DepositProcessed", d)
    \/ \E w \in Withdrawals :
          \/ Emit("l2", "WithdrawalInitiated", w)
          \/ Happened("l2", "WithdrawalInitiated", w) /\ Emit("l1", "queued", w)
          \/ Happened("l1", "queued", w) /\ Emit("l1", "finalized", w)

----------------------------------------------------------------------------
\* The rows

UpsertL1DepositInitiated(d) ==
    deposits' = [deposits EXCEPT ![d] =
        [status |-> IF @.status = "processed" THEN @.status ELSE "initiated",
         l1 |-> TRUE, l2 |-> @.l2]]

UpsertL2DepositProcessed(d) ==
    deposits' = [deposits EXCEPT ![d].status = "processed", ![d].l2 = TRUE]

\* The status of a withdrawal whose event of L2 is seen.
Initiated(status) == "initiated"
StatusWhenInitiated(status) ==
    IF status \in {"queued", "finalized"} THEN status ELSE "initiated"

UpsertL2WithdrawalInitiated(w) ==
    withdrawals' = [withdrawals EXCEPT
        ![w].status = StatusWhenInitiated(@), ![w].l2 = TRUE]

\* The event of L1 decides the status, whatever it was.  The hash of the
\* transaction goes to a column of its own, but not when the row is new.
UpsertL1WithdrawalStatus(w, status) ==
    LET isNew == withdrawals[w] = NoWithdrawal IN
    withdrawals' = [withdrawals EXCEPT
        ![w].status = status,
        ![w].queued = @ \/ (~isNew /\ status = "queued"),
        ![w].finalized = @ \/ (~isNew /\ status = "finalized")]

\* processL1Range, processL2Range: one event.
Index(e) ==
    CASE e.kind = "Deposited" ->
            UpsertL1DepositInitiated(e.id) /\ UNCHANGED withdrawals
      [] e.kind = "DepositProcessed" ->
            UpsertL2DepositProcessed(e.id) /\ UNCHANGED withdrawals
      [] e.kind = "WithdrawalInitiated" ->
            UpsertL2WithdrawalInitiated(e.id) /\ UNCHANGED deposits
      [] e.kind \in {"queued", "finalized"} ->
            UpsertL1WithdrawalStatus(e.id, e.kind) /\ UNCHANGED deposits

----------------------------------------------------------------------------
\* syncOnce: both chains at once, and not again before both are done.  A pass
\* that would find nothing new on either chain changes nothing.
Behind(c) == saved[c] = NoCursor \/ saved[c] < Len(events[c])

SyncOnce ==
    /\ bridgeOn
    /\ \A c \in Sides : sync[c] = NoSync
    /\ \E c \in Sides \ backoff : Behind(c)
    /\ sync' = [c \in Sides |->
           [NoSync EXCEPT !.phase = IF c \in backoff THEN "done" ELSE "head"]]
    /\ UNCHANGED <<events, bridgeEnabled, bridgeOn, saved, rows, backoff, first, script,
                   relapsed, bridgeFaults>>

Done == [NoSync EXCEPT !.phase = "done"]

BlockRange(from, to) ==
    [phase |-> "range", at |-> from, end |-> Min({from + BridgeBatch - 1, to}),
     to |-> to]

\* The head and the saved cursor.  Without a cursor the configured block is
\* the first, or else the head, whatever it is by now.
FromBlock(c) ==
    IF saved[c] # NoCursor THEN saved[c] + 1
    ELSE IF StartBlock[c] > 0 THEN StartBlock[c] ELSE Len(events[c])

SyncHead(c) ==
    LET current == Len(events[c]) IN
    /\ sync[c].phase = "head"
    /\ first' = IF saved[c] = NoCursor THEN [first EXCEPT ![c] = FromBlock(c)]
                ELSE first
    /\ sync' = [sync EXCEPT ![c] =
           IF FromBlock(c) > current THEN Done ELSE BlockRange(FromBlock(c), current)]
    /\ UNCHANGED <<events, bridgeEnabled, bridgeOn, saved, rows, backoff, script, relapsed,
                   bridgeFaults>>

SyncEvent(c) ==
    LET at == sync[c].at IN
    /\ sync[c].phase = "range" /\ at <= sync[c].end
    /\ sync' = [sync EXCEPT ![c].at = at + 1]
    /\ IF at = 0 THEN UNCHANGED <<rows, relapsed>>
       ELSE /\ Index(events[c][at])
            /\ relapsed' = IF events[c][at].kind = "finalized"
                           THEN relapsed \ {events[c][at].id} ELSE relapsed
    /\ UNCHANGED <<events, bridgeEnabled, bridgeOn, saved, backoff, first, script, bridgeFaults>>

\* setState, after the whole range.
SaveCursor(c) ==
    LET s == sync[c] IN
    /\ s.phase = "range" /\ s.at > s.end
    /\ saved' = [saved EXCEPT ![c] = s.end]
    /\ sync' = [sync EXCEPT ![c] = IF s.end < s.to THEN BlockRange(s.end + 1, s.to) ELSE Done]
    /\ UNCHANGED <<events, bridgeEnabled, bridgeOn, rows, backoff, first, script, relapsed,
                   bridgeFaults>>

AllSettled ==
    /\ \A c \in Sides : sync[c].phase = "done"
    /\ sync' = [c \in Sides |-> NoSync]
    /\ UNCHANGED <<events, bridgeEnabled, bridgeOn, saved, rows, backoff, first, script,
                   relapsed, bridgeFaults>>

\* A failure ends the part of one chain; when it is the rate limit of the
\* provider, the chain is left alone for a while.
SyncFails(c, isRateLimit) ==
    /\ sync[c].phase \in {"head", "range"}
    /\ sync' = [sync EXCEPT ![c] = Done]
    /\ backoff' = IF isRateLimit THEN backoff \cup {c} ELSE backoff
    /\ UNCHANGED <<events, bridgeEnabled, bridgeOn, saved, rows, first, script, relapsed>>

NeverEnds(c) == FALSE
BackoffEnds(c) ==
    /\ c \in backoff
    /\ backoff' = backoff \ {c}
    /\ UNCHANGED <<events, bridgeEnabled, bridgeOn, saved, rows, sync, first, script,
                   relapsed, bridgeFaults>>

----------------------------------------------------------------------------
\* The scripts

IsRow(w) == withdrawals[w] # NoWithdrawal

\* getWithdrawalsMissingLifecycleFields
MissingLifecycle ==
    {w \in Withdrawals : IsRow(w) /\
        (\/ ~withdrawals[w].queued
         \/ withdrawals[w].status = "finalized" /\ ~withdrawals[w].finalized)}

LoggedUpTo(c, kind, latest, ids) ==
    {w \in ids : \E b \in BlocksOf(c, kind, w) : b <= latest}

LifecycleBegins ==
    LET latest == Len(events["l1"]) IN
    /\ script = NoScript
    /\ MissingLifecycle # {}
    /\ script' = [phase |-> "queued", latest |-> latest, ids |-> MissingLifecycle,
                  todo |-> LoggedUpTo("l1", "queued", latest, MissingLifecycle)]
    /\ UNCHANGED <<events, bridgeEnabled, bridgeOn, saved, rows, sync, backoff, first,
                   relapsed, bridgeFaults>>

\* One event of the chunk, queued ones before finalized ones.
LifecycleUpdates(w) ==
    /\ script.phase \in {"queued", "finalized"} /\ w \in script.todo
    /\ UpsertL1WithdrawalStatus(w, script.phase)
    /\ relapsed' =
           IF script.phase = "queued" /\ withdrawals[w].status = "finalized"
           THEN relapsed \cup {w}
           ELSE IF script.phase = "finalized" THEN relapsed \ {w} ELSE relapsed
    /\ script' = [script EXCEPT !.todo = @ \ {w}]
    /\ UNCHANGED <<events, bridgeEnabled, bridgeOn, saved, deposits, sync, backoff, first,
                   bridgeFaults>>

LifecycleGoesOn ==
    /\ script.phase \in {"queued", "finalized"} /\ script.todo = {}
    /\ script' =
           IF script.phase = "finalized" THEN NoScript
           ELSE [script EXCEPT !.phase = "finalized",
                    !.todo = LoggedUpTo("l1", "finalized", script.latest, script.ids)]
    /\ UNCHANGED <<events, bridgeEnabled, bridgeOn, saved, rows, sync, backoff, first,
                   relapsed, bridgeFaults>>

\* getMissingWithdrawals
MissingInitiation == {w \in Withdrawals : IsRow(w) /\ ~withdrawals[w].l2}

InitiationBegins ==
    LET latest == Len(events["l2"]) IN
    /\ script = NoScript
    /\ MissingInitiation # {}
    /\ script' = [phase |-> "initiated", latest |-> latest, ids |-> MissingInitiation,
                  todo |-> LoggedUpTo("l2", "WithdrawalInitiated", latest, MissingInitiation)]
    /\ UNCHANGED <<events, bridgeEnabled, bridgeOn, saved, rows, sync, backoff, first,
                   relapsed, bridgeFaults>>

InitiationUpdates(w) ==
    /\ script.phase = "initiated" /\ w \in script.todo
    /\ UpsertL2WithdrawalInitiated(w)
    /\ script' = [script EXCEPT !.todo = @ \ {w}]
    /\ UNCHANGED <<events, bridgeEnabled, bridgeOn, saved, deposits, sync, backoff, first,
                   relapsed, bridgeFaults>>

InitiationEnds ==
    /\ script.phase = "initiated" /\ script.todo = {}
    /\ script' = NoScript
    /\ UNCHANGED <<events, bridgeEnabled, bridgeOn, saved, rows, sync, backoff, first,
                   relapsed, bridgeFaults>>

\* Any call of a script may fail, and the script is over.
ScriptFails ==
    /\ script # NoScript
    /\ script' = NoScript
    /\ UNCHANGED <<events, bridgeEnabled, bridgeOn, saved, rows, sync, backoff, first, relapsed>>

ScriptStep ==
    \/ LifecycleBegins \/ LifecycleGoesOn
    \/ InitiationBegins \/ InitiationEnds
    \/ \E w \in Withdrawals : LifecycleUpdates(w) \/ InitiationUpdates(w)

----------------------------------------------------------------------------
BridgeStart ==
    /\ bridgeEnabled /\ ~bridgeOn
    /\ bridgeOn' = TRUE
    /\ UNCHANGED <<events, bridgeEnabled, saved, rows, sync, backoff, first, script, relapsed,
                   bridgeFaults>>

\* stop: the pass that runs goes on until the process ends.
BridgeStop ==
    /\ bridgeOn' = FALSE
    /\ UNCHANGED <<events, bridgeEnabled, saved, rows, sync, backoff, first, script, relapsed,
                   bridgeFaults>>

BridgeGone ==
    /\ bridgeOn' = FALSE
    /\ sync' = [c \in Sides |-> NoSync]
    /\ backoff' = {}
    /\ UNCHANGED <<events, bridgeEnabled, saved, rows, first, script, relapsed, bridgeFaults>>

BridgeFault ==
    /\ bridgeFaults < MaxBridgeFaults
    /\ bridgeFaults' = bridgeFaults + 1
    /\ \/ \E c \in Sides, isRateLimit \in BOOLEAN : SyncFails(c, isRateLimit)
       \/ ScriptFails

SyncStep(c) == SyncHead(c) \/ SyncEvent(c) \/ SaveCursor(c)

BridgeIndexNext ==
    \/ BridgeEvent
    \/ SyncOnce \/ AllSettled
    \/ \E c \in Sides : SyncStep(c) \/ BackoffEnds(c)
    \/ ScriptStep
    \/ BridgeFault

\* The timer goes on firing, answers arrive, a backoff runs out.
BridgeIndexFairness ==
    /\ WF_bridgeIndexVars(SyncOnce)
    /\ WF_bridgeIndexVars(AllSettled)
    /\ \A c \in Sides : WF_bridgeIndexVars(SyncStep(c)) /\ WF_bridgeIndexVars(BackoffEnds(c))

----------------------------------------------------------------------------
\* What the rows must say once a cursor has passed an event: a withdrawal that
\* was paid is finalized and one that was queued at least queued, whichever
\* chain was read first, and whatever failed between an event and the cursor
\* (bridge.ts:182, bridge-listener.ts:125-135).  Only a script that
\* started before the payment may set it back (relapsed).
Passed(c, kind, id) ==
    \E b \in BlocksOf(c, kind, id) : first[c] <= b /\ b <= saved[c]

RowsFollowBridge ==
    /\ \A d \in Deposits :
          /\ Passed("l1", "Deposited", d) => deposits[d].l1
          /\ Passed("l2", "DepositProcessed", d) =>
                 deposits[d].l2 /\ deposits[d].status = "processed"
    /\ \A w \in Withdrawals :
          /\ Passed("l2", "WithdrawalInitiated", w) => withdrawals[w].l2
          /\ Passed("l1", "queued", w) =>
                 withdrawals[w].status \in {"queued", "finalized"}
          /\ Passed("l1", "finalized", w) =>
                 withdrawals[w].status = "finalized" \/ w \in relapsed

\* A rate limit, a failing call or a stop delay the rows, but in the end both
\* cursors stand at the heads, and no pass that failed or waited keeps the
\* passes after it away (bridge-listener.ts:81-145).
AtHead(c) == saved[c] = Len(events[c]) \/ Len(events[c]) < StartBlock[c]
BridgeCatchesUp == bridgeEnabled => <>[](\A c \in Sides : AtHead(c))
============================================================================
