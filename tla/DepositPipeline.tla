--------------------------- MODULE DepositPipeline ---------------------------
(***************************************************************************)
(* How a deposit gets from L1 to L2: the L1 listener stores Deposited      *)
(* events in the table deposits, live ones while it is subscribed and      *)
(* older ones in the backfill it starts with; the L2 processor takes the   *)
(* oldest unprocessed rows every ten seconds, calls processDeposit on L2   *)
(* and marks the row when the transaction succeeded.                       *)
(*                                                                         *)
(* Every await is a place where the other services, the chains and a crash *)
(* come in between.  The backfill does not wait for the subscription, nor  *)
(* the subscription for it, and a tick of the processor's timer not for    *)
(* the pass before.  What goes wrong outside the process is bounded per    *)
(* kind: statements that fail, RPC calls that fail or lose their answer, a *)
(* websocket that closes, crashes.  L1 is taken as final.                  *)
(***************************************************************************)
EXTENDS L2BridgeV3, FiniteSetsExt

CONSTANTS
    Wallet,        \* the address the processor sends from
    NoRow,
    Limit,         \* maxConcurrentDeposits
    Lookback,      \* 50000 blocks
    Step,          \* 2000 blocks
    MaxL1Block,    \* bound on the height of L1
    Passes,        \* 1..n, a bound on passes running at once
    MaxFaults      \* kind -> bound on how often it happens

ASSUME DepositPipelineAssumption ==
    /\ Wallet \in L2Callers
    /\ Limit \in Nat \ {0} /\ Step \in Nat \ {0}
    /\ Lookback \in Nat /\ MaxL1Block \in Nat
    /\ Passes \subseteq Nat
    /\ MaxFaults \in [{"db", "rpc", "close", "crash"} -> Nat]
    /\ NoRow \notin [block : Nat, processed : BOOLEAN]

VARIABLES
    l1Head,        \* height of L1
    depositBlock,  \* block of each deposit on L1, 0 for none yet
    up,            \* the sequencer process runs
    socket,        \* the listener's subscription: "closed", "opening" or "open"
    live,          \* deposits whose live event is being handled
    backfill,      \* the one backfill of this run of the process
    passes,
    rows,          \* the table deposits: [block, processed]
    orphans,       \* deposits with a transaction on L2 nobody waits for
    faults,        \* how often each kind happened
    missed         \* (of no effect) deposits a backfill lost, by the three ways below

l1Vars == <<l1Head, depositBlock>>
listenerVars == <<socket, live, backfill>>
processorVars == <<passes, orphans>>
pipeVars == <<l1Vars, up, listenerVars, processorVars, rows, faults, missed>>
depositPipelineVars == <<l2Vars, pipeVars>>

NoBackfill == [phase |-> "idle", latest |-> 0, next |-> 0, todo |-> {}]
NoPass == [todo |-> {}, sent |-> {}, done |-> {}]

IdlePasses == {p \in Passes : passes[p] = NoPass}

Happens(kind) ==
    /\ faults[kind] < MaxFaults[kind]
    /\ faults' = [faults EXCEPT ![kind] = @ + 1]

PipelineInit ==
    /\ l1Head = 0
    /\ depositBlock = [id \in DepositIds |-> 0]
    /\ up = FALSE
    /\ socket = "closed"
    /\ live = {}
    /\ backfill = NoBackfill
    /\ passes = [p \in Passes |-> NoPass]
    /\ rows = [id \in DepositIds |-> NoRow]
    /\ orphans = {}
    /\ faults = [kind \in DOMAIN MaxFaults |-> 0]
    /\ missed = {}

----------------------------------------------------------------------------
\* A block of L1 (BridgeFacet), with what users deposit in it; an open
\* subscription delivers the events.
MineL1(ids) ==
    /\ l1Head < MaxL1Block
    /\ \A id \in ids : depositBlock[id] = 0
    /\ l1Head' = l1Head + 1
    /\ depositBlock' = [id \in DepositIds |->
                            IF id \in ids THEN l1Head' ELSE depositBlock[id]]
    /\ live' = IF socket = "open" THEN live \cup ids ELSE live
    /\ UNCHANGED <<l2Vars, up, socket, backfill, processorVars, rows, faults, missed>>

\* saveDeposit: an id that is there already keeps its row.
Save(id, block) ==
    rows' = [rows EXCEPT ![id] =
                 IF @ = NoRow THEN [block |-> block, processed |-> FALSE] ELSE @]

\* getLastDepositBlock
LastDepositBlock ==
    Max({0} \cup {rows[id].block : id \in {d \in DepositIds : rows[d] # NoRow}})

\* The block a live event's row gets: handleDeposit's last argument carries the
\* log in a field, so that event.blockNumber is undefined.
LogBlock(id) == depositBlock[id]
LiveBlock(id) == 0

\* handleDeposit of a live event
LiveEvent(id) ==
    /\ id \in live
    /\ live' = live \ {id}
    /\ \/ Save(id, LiveBlock(id)) /\ UNCHANGED faults
       \/ Happens("db") /\ UNCHANGED rows
    /\ UNCHANGED <<l2Vars, l1Vars, up, socket, backfill, processorVars, missed>>

\* eth_subscribe takes effect, some time after contract.on, which nobody
\* awaits.
Subscribe ==
    /\ socket = "opening"
    /\ socket' = "open"
    /\ UNCHANGED <<l2Vars, l1Vars, up, live, backfill, processorVars, rows, faults, missed>>

\* The websocket closes; events on the wire are lost.  No close handler is
\* attached, for ethers 6 providers have no field _websocket: nothing
\* reconnects, and the listener is deaf until the process starts again.
Close ==
    /\ socket # "closed"
    /\ Happens("close")
    /\ socket' = "closed"
    /\ live' \in SUBSET live
    /\ UNCHANGED <<l2Vars, l1Vars, up, backfill, processorVars, rows, missed>>

----------------------------------------------------------------------------
\* backfillDeposits

InBackfill == <<l2Vars, l1Vars, up, socket, live, processorVars>>

\* latestBlock, over HTTP
BackfillHead ==
    /\ backfill.phase = "head"
    /\ backfill' = [backfill EXCEPT !.phase = "last", !.latest = l1Head]
    /\ UNCHANGED <<InBackfill, rows, faults, missed>>

\* lastBlock and fromBlock
FromBlock(last, latest) == IF last > 0 THEN last + 1 ELSE Max({latest - Lookback, 0})

\* Whether there is nothing to look at.
AtHead(from, latest) == from >= latest
UpToDate(from, latest) == from > latest

\* Deposits older than an empty table (or one of live rows) looks back.
TooOld(from) ==
    {id \in DepositIds :
        LastDepositBlock = 0 /\ depositBlock[id] \in 1..(from - 1) /\ rows[id] = NoRow}

BackfillFrom ==
    LET from == FromBlock(LastDepositBlock, backfill.latest)
    IN  /\ backfill.phase = "last"
        /\ backfill' = IF UpToDate(from, backfill.latest) THEN NoBackfill
                       ELSE [backfill EXCEPT !.phase = "scan", !.next = from]
        /\ missed' = missed \cup TooOld(from)
        /\ UNCHANGED <<InBackfill, rows, faults>>

\* The rest of a backfill; it is over after the last event of the last chunk.
Rest(rest) == IF rest.todo = {} /\ rest.next > rest.latest THEN NoBackfill ELSE rest

\* queryFilter of the next chunk of blocks
BackfillQuery ==
    LET end == Min({backfill.next + Step - 1, backfill.latest})
    IN  /\ backfill.phase = "scan" /\ backfill.todo = {}
        /\ backfill' = Rest(
               [backfill EXCEPT !.next = end + 1,
                                !.todo = {id \in DepositIds :
                                    /\ depositBlock[id] # 0
                                    /\ depositBlock[id] \in backfill.next..end}])
        /\ UNCHANGED <<InBackfill, rows, faults, missed>>

\* handleDeposit of the next event of the chunk, with its block; a failed
\* insert is logged and the next event follows.
BackfillEvent(id) ==
    /\ id \in backfill.todo
    /\ \A other \in backfill.todo : depositBlock[id] <= depositBlock[other]
    /\ backfill' = Rest([backfill EXCEPT !.todo = backfill.todo \ {id}])
    /\ \/ Save(id, depositBlock[id]) /\ UNCHANGED <<faults, missed>>
       \/ Happens("db") /\ missed' = missed \cup {id} /\ UNCHANGED rows
    /\ UNCHANGED InBackfill

\* A call fails for the last of its attempts: the backfill is given up.
BackfillFails ==
    /\ backfill.phase # "idle" /\ backfill.todo = {}
    /\ Happens("rpc")
    /\ backfill' = NoBackfill
    /\ UNCHANGED <<InBackfill, rows, missed>>

----------------------------------------------------------------------------
\* The L2 processor

Unprocessed == {id \in DepositIds : rows[id] # NoRow /\ ~rows[id].processed}

\* getPendingDeposits: the oldest Limit rows, ties in any order.
PendingDeposits ==
    {ids \in SUBSET Unprocessed :
        /\ Cardinality(ids) = Min({Limit, Cardinality(Unprocessed)})
        /\ \A id \in ids, other \in Unprocessed \ ids :
              rows[id].block <= rows[other].block}

InPass == <<l1Vars, up, listenerVars, missed>>

\* processDeposits, on a tick of the timer or at start
StartPass(p) ==
    /\ up
    /\ IdlePasses # {} /\ p = Min(IdlePasses)
    /\ Unprocessed # {}
    /\ \E ids \in PendingDeposits :
          passes' = [passes EXCEPT ![p].todo = ids]
    /\ UNCHANGED <<InPass, l2Vars, orphans, rows, faults>>

\* The deposit a pass is at: rows come oldest first.
IsNext(p, id) ==
    /\ id \in passes[p].todo
    /\ \A other \in passes[p].todo : rows[id].block <= rows[other].block

\* A pass goes on to the row after id; what fails is caught for each row.
GivesUp(p, id) == passes' = [passes EXCEPT ![p] = NoPass]
GoesOn(p, id) ==
    passes' = [passes EXCEPT ![p] = [NoPass EXCEPT !.todo = passes[p].todo \ {id}]]

\* processDeposit (L2ProcessorService): the transaction is sent, not sent in
\* any attempt, or sent in an attempt whose answer is lost, which is repeated.
Send(p, id) ==
    /\ passes[p].sent = {} /\ passes[p].done = {}
    /\ IsNext(p, id)
    /\ \/ /\ passes' = [passes EXCEPT ![p].sent = {id}]
          /\ UNCHANGED <<orphans, faults>>
       \/ /\ Happens("rpc")
          /\ GoesOn(p, id)
          /\ UNCHANGED orphans
       \/ /\ Happens("rpc")
          /\ orphans' = orphans \cup {id}
          /\ UNCHANGED passes
    /\ UNCHANGED <<InPass, l2Vars, rows>>

Mined(p, id) == passes' = [passes EXCEPT ![p].sent = {}, ![p].done = {id}]

\* The transaction is mined.  One that reverts makes wait throw.
ExecuteAny(p, id) ==
    /\ id \in passes[p].sent
    /\ Mined(p, id)
    /\ IF MayCredit(Wallet, id) THEN ProcessDeposit(Wallet, id) ELSE UNCHANGED l2Vars
    /\ UNCHANGED <<InPass, orphans, rows, faults>>
Execute(p, id) ==
    /\ id \in passes[p].sent
    /\ IF MayCredit(Wallet, id)
       THEN ProcessDeposit(Wallet, id) /\ Mined(p, id)
       ELSE GoesOn(p, id) /\ UNCHANGED l2Vars
    /\ UNCHANGED <<InPass, orphans, rows, faults>>

ExecuteOrphan(id) ==
    /\ id \in orphans
    /\ orphans' = orphans \ {id}
    /\ IF MayCredit(Wallet, id) THEN ProcessDeposit(Wallet, id) ELSE UNCHANGED l2Vars
    /\ UNCHANGED <<InPass, passes, rows, faults>>

\* markDepositProcessed, after the receipt
Mark(p, id) ==
    /\ id \in passes[p].done
    /\ GoesOn(p, id)
    /\ \/ rows' = [rows EXCEPT ![id].processed = TRUE] /\ UNCHANGED faults
       \/ Happens("db") /\ UNCHANGED rows
    /\ UNCHANGED <<InPass, l2Vars, orphans>>

\* wait fails although the transaction is or will be mined.
LoseReceipt(p, id) ==
    /\ id \in passes[p].sent \cup passes[p].done
    /\ Happens("rpc")
    /\ GoesOn(p, id)
    /\ orphans' = orphans \cup passes[p].sent
    /\ UNCHANGED <<InPass, l2Vars, rows>>

----------------------------------------------------------------------------
\* The process

\* Events of a block of which a backfill has stored some and not all.
CutOff ==
    {id \in backfill.todo :
        \E other \in DepositIds :
            rows[other] # NoRow /\ rows[other].block = depositBlock[id]}

\* Everything in memory is gone; what was sent may still be mined.
Crash ==
    /\ up
    /\ Happens("crash")
    /\ up' = FALSE
    /\ socket' = "closed"
    /\ live' = {}
    /\ backfill' = NoBackfill
    /\ passes' = [p \in Passes |-> NoPass]
    /\ orphans' = orphans \cup UNION {passes[p].sent : p \in Passes}
    /\ missed' = missed \cup CutOff
    /\ UNCHANGED <<l2Vars, l1Vars, rows>>

\* startAll: the listener asks for a subscription and starts its backfill,
\* which run on by themselves; then the processor starts.
Start ==
    /\ ~up
    /\ up' = TRUE
    /\ socket' = "opening"
    /\ backfill' = [NoBackfill EXCEPT !.phase = "head"]
    /\ UNCHANGED <<l2Vars, l1Vars, live, processorVars, rows, faults, missed>>

----------------------------------------------------------------------------
ListenerNext ==
    \/ Subscribe
    \/ BackfillHead
    \/ BackfillFrom
    \/ BackfillQuery
    \/ BackfillFails
    \/ \E id \in DepositIds : LiveEvent(id) \/ BackfillEvent(id)

ProcessorNext ==
    \E p \in Passes :
        \/ StartPass(p)
        \/ \E id \in DepositIds :
              \/ Send(p, id)
              \/ Execute(p, id)
              \/ Mark(p, id)
              \/ LoseReceipt(p, id)

\* What the owner of the L2 bridge does to deposits meanwhile.
L2OwnerNext ==
    /\ \/ \E t \in L1Tokens, s \in L2Tokens : AddTokenPair(t, s)
       \/ \E t \in L1Tokens : RemoveTokenPair(t)
       \/ \E s \in L2Callers : UpdateSequencer(s)
       \/ Fund
    /\ UNCHANGED pipeVars

PipelineNext ==
    \/ \E ids \in SUBSET DepositIds : MineL1(ids)
    \/ Close
    \/ ListenerNext
    \/ ProcessorNext
    \/ \E id \in DepositIds : ExecuteOrphan(id)
    \/ L2OwnerNext
    \/ Crash
    \/ Start
============================================================================
