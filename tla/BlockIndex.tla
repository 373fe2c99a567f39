----------------------------- MODULE BlockIndex -----------------------------
(***************************************************************************)
(* The block part of the indexer, and the answers its API gives about      *)
(* blocks.  After the historical sync of the start, new-block events and a *)
(* timer each start passes over the blocks that are missing; all of them   *)
(* read and write one cursor in the database, and nothing keeps two passes *)
(* apart.  A pass stores a block, its transactions and its logs one        *)
(* statement after the other.                                              *)
(*                                                                         *)
(* Which blocks have transactions and logs is a constant; each of them has *)
(* one.  The counters of the statistics are left out.                      *)
(***************************************************************************)
EXTENDS Integers, FiniteSets, FiniteSetsExt

CONSTANTS
    Passes,         \* 1..n, a bound on passes running at once
    Asks,           \* a bound on requests running at once
    BatchSize,      \* blocks of a batch
    MaxHead,        \* bound on blocks
    TxBlocks,       \* the blocks with a transaction
    LogBlocks,      \* those whose transaction emits a log
    MaxIndexFaults  \* bound on faults: kind -> number

ASSUME BlockIndexAssumption ==
    /\ 1 \in Passes /\ Passes \subseteq Nat
    /\ BatchSize \in Nat \ {0}
    /\ MaxHead \in Nat
    /\ LogBlocks \subseteq TxBlocks

VARIABLES
    head,       \* the head of L2; block 0 is genesis
    process,    \* "down", "starting", "running", "stopping"
    heard,      \* the last block a new-block event came for
    cursor,     \* last_indexed_block
    blocks, txs, logs,  \* the tables: the blocks they have rows of
    passes,
    excused,    \* the blocks of which a read came back empty by mistake
    cache,      \* the requests of which an empty list is cached
    cacheOn,    \* enabled
    asks,       \* requests between their read and their write of the cache
    indexFaults

tables == <<cursor, blocks, txs, logs>>
api == <<cache, cacheOn, asks>>
blockIndexVars ==
    <<head, process, heard, tables, passes, excused, api, indexFaults>>

NoPass == [phase |-> "idle", sync |-> FALSE, n |-> 0, lo |-> 0, hi |-> 0, to |-> 0]
NoAsk == <<>>

BlockIndexInit ==
    /\ head = 0
    /\ process = "down"
    /\ heard = 0
    /\ cursor = 0
    /\ blocks = {} /\ txs = {} /\ logs = {}
    /\ passes = [p \in Passes |-> NoPass]
    /\ excused = {}
    /\ cache = {}
    /\ cacheOn = TRUE
    /\ asks = [a \in Asks |-> NoAsk]
    /\ indexFaults = [k \in DOMAIN MaxIndexFaults |-> 0]

MineBlock ==
    /\ head < MaxHead
    /\ head' = head + 1
    /\ UNCHANGED <<process, heard, tables, passes, excused, api, indexFaults>>

----------------------------------------------------------------------------
IsRunning == process \in {"starting", "running"}

EndOfBatch(lo, to) == Min({lo + BatchSize - 1, to})

\* syncHistoricalBlocks
Sync(from, to) ==
    IF from > to THEN NoPass
    ELSE [phase |-> "block", sync |-> TRUE, n |-> from,
          lo |-> from, hi |-> EndOfBatch(from, to), to |-> to]

FirstIdle(p) ==
    passes[p] = NoPass /\ \A q \in Passes : q < p => passes[q] # NoPass

\* A new-block event; the ones before it may never come.
BlockEvent(p, b) ==
    /\ process = "running"
    /\ FirstIdle(p)
    /\ b \in (heard + 1)..head
    /\ heard' = b
    /\ passes' = [passes EXCEPT ![p] = [NoPass EXCEPT !.phase = "event", !.to = b]]
    /\ UNCHANGED <<head, process, tables, excused, api, indexFaults>>

\* The timer fires and reads the head.  A tick that finds nothing new changes
\* nothing.
PollTick(p) ==
    /\ process = "running"
    /\ FirstIdle(p)
    /\ head > cursor
    /\ passes' = [passes EXCEPT ![p] = [NoPass EXCEPT !.phase = "poll", !.to = head]]
    /\ UNCHANGED <<head, process, heard, tables, excused, api, indexFaults>>

\* getLastIndexedBlock: an event that is next in sequence is processed alone.
ReadCursor(p) ==
    /\ passes[p].phase \in {"event", "poll"}
    /\ LET s == passes[p] IN
       passes' = [passes EXCEPT ![p] =
           IF s.phase = "event" /\ s.to = cursor + 1
           THEN [s EXCEPT !.phase = "block", !.n = s.to]
           ELSE Sync(cursor + 1, s.to)]
    /\ UNCHANGED <<head, process, heard, tables, excused, api, indexFaults>>

\* What a pass does after a block: the next one of its batch, the next batch,
\* or nothing more.
AfterBlock(s) ==
    IF ~s.sync \/ ~IsRunning THEN NoPass
    ELSE IF s.n < s.hi THEN [s EXCEPT !.phase = "block", !.n = @ + 1]
    ELSE Sync(s.hi + 1, s.to)

\* Upserts: a row that is there already stays.
InsertBlock(n) == blocks' = blocks \cup {n}
InsertTransaction(n) == txs' = txs \cup {n}
InsertLog(n) == logs' = logs \cup {n}

\* The transactions and the logs of a block, as the node lists them.
GetTransactionsInBlock(n) == TxBlocks \cap {n}
GetLogsInBlock(n) == LogBlocks \cap {n}

\* processBlock
StoreBlock(p) ==
    /\ passes[p].phase = "block"
    /\ InsertBlock(passes[p].n)
    /\ passes' = [passes EXCEPT ![p].phase = "txs"]
    /\ UNCHANGED <<head, process, heard, cursor, txs, logs, excused, api, indexFaults>>

StoreTransactions(p) ==
    /\ passes[p].phase = "txs"
    /\ IF GetTransactionsInBlock(passes[p].n) = {} THEN UNCHANGED txs
       ELSE InsertTransaction(passes[p].n)
    /\ passes' = [passes EXCEPT ![p].phase = "logs"]
    /\ UNCHANGED <<head, process, heard, cursor, blocks, logs, excused, api, indexFaults>>

\* A pass whose statement failed: a sync waits and repeats its batch, an
\* event is dropped.
ThrownAway(s) == IF s.sync THEN AfterBlock(s) ELSE NoPass
Thrown(s) == IF s.sync THEN [s EXCEPT !.phase = "wait"] ELSE NoPass

\* A log refers to its transaction: without the row the insert fails.
StoreLogs(p) ==
    LET n == passes[p].n IN
    /\ passes[p].phase = "logs"
    /\ \/ /\ GetLogsInBlock(n) \ txs # {}
          /\ passes' = [passes EXCEPT ![p] = Thrown(@)]
          /\ UNCHANGED logs
       \/ /\ GetLogsInBlock(n) \ txs = {}
          /\ passes' = [passes EXCEPT ![p].phase = "set"]
          /\ IF GetLogsInBlock(n) = {} THEN UNCHANGED logs ELSE InsertLog(n)
    /\ UNCHANGED <<head, process, heard, cursor, blocks, txs, excused, api, indexFaults>>

\* setLastIndexedBlock, whatever the cursor is by now.
SetCursor(p) ==
    /\ passes[p].phase = "set"
    /\ cursor' = passes[p].n
    /\ passes' = [passes EXCEPT ![p] = AfterBlock(@)]
    /\ UNCHANGED <<head, process, heard, blocks, txs, logs, excused, api, indexFaults>>

\* Five seconds after a failure the batch starts again.
Retry(p) ==
    /\ passes[p].phase = "wait"
    /\ LET s == passes[p] IN
       passes' = [passes EXCEPT ![p] =
           IF IsRunning THEN [s EXCEPT !.phase = "block", !.n = s.lo] ELSE NoPass]
    /\ UNCHANGED <<head, process, heard, tables, excused, api, indexFaults>>

PassStep(p) ==
    \/ ReadCursor(p) \/ StoreBlock(p) \/ StoreTransactions(p)
    \/ StoreLogs(p) \/ SetCursor(p) \/ Retry(p)

----------------------------------------------------------------------------
\* The RPC service answers a failed read with nothing: no block, and the pass
\* goes on to the cursor; no transactions; no logs.  Nothing is missed when
\* the transaction has a log, whose insert fails then, nor when the log is
\* stored already.
Excuses(phase, n) ==
    \/ phase = "block"
    \/ phase = "txs" /\ n \notin LogBlocks
    \/ phase = "logs"

AfterEmpty == [block |-> "set", txs |-> "logs", logs |-> "set"]

ReadsNothing(p) ==
    /\ passes[p].phase \in DOMAIN AfterEmpty
    /\ excused' = IF Excuses(passes[p].phase, passes[p].n)
                  THEN excused \cup {passes[p].n} ELSE excused
    /\ passes' = [passes EXCEPT ![p].phase = AfterEmpty[@]]
    /\ UNCHANGED <<head, process, heard, tables, api>>

\* A statement of the database fails, or a read of the head or the cursor.
StatementFails(p) ==
    /\ passes[p].phase \in {"event", "poll", "block", "txs", "logs", "set"}
    /\ passes' = [passes EXCEPT ![p] = Thrown(@)]
    /\ UNCHANGED <<head, process, heard, tables, excused, api>>

----------------------------------------------------------------------------
\* The start of the process: the API answers, and the blocks since the last
\* run are synced before anything listens.
StartIndexer ==
    /\ process = "down"
    /\ process' = "starting"
    /\ cacheOn' = TRUE
    /\ passes' = [passes EXCEPT ![1] = Sync(cursor + 1, head)]
    /\ UNCHANGED <<head, heard, tables, excused, cache, asks, indexFaults>>

Listen ==
    /\ process = "starting"
    /\ passes[1] = NoPass
    /\ process' = "running"
    /\ heard' = head
    /\ UNCHANGED <<head, tables, passes, excused, api, indexFaults>>

\* A signal; what runs goes on until the process ends.
StopIndexer ==
    /\ IsRunning
    /\ process' = "stopping"
    /\ UNCHANGED <<head, heard, tables, passes, excused, api>>

Ended ==
    /\ process' = "down"
    /\ passes' = [p \in Passes |-> NoPass]
    /\ asks' = [a \in Asks |-> NoAsk]
    /\ UNCHANGED <<head, heard, tables, excused, cache, cacheOn>>

ExitIndexer == process = "stopping" /\ Ended /\ UNCHANGED indexFaults
CrashIndexer == process # "down" /\ Ended

----------------------------------------------------------------------------
\* What the tables hold of a block: getTransactionsByBlock, and
\* getLogsByTransaction of its transaction.
Lists == {"txs", "logs"}
Keys == Lists \X (1..MaxHead)
Rows(key) == IF key[1] = "txs" THEN txs ELSE logs
IsEmptyList(key) == key[2] \notin Rows(key)

\* GET /block/:number/transactions and GET /transaction/:hash/logs: a miss of
\* the cache, and the read of the table.  What is cached is JSON; the rows hold
\* integers JSON has no form for, so that only empty lists are stored, and a
\* request that finds rows changes nothing.
Ask(a, key) ==
    /\ process # "down" /\ cacheOn
    /\ asks[a] = NoAsk
    /\ key \notin cache
    /\ IsEmptyList(key)
    /\ asks' = [asks EXCEPT ![a] = key]
    /\ UNCHANGED <<head, process, heard, tables, passes, excused, cache, cacheOn, indexFaults>>

AskTransactions(a, b) == Ask(a, <<"txs", b>>)
AskLogs(a, b) == Ask(a, <<"logs", b>>)

CacheAnswer(a) ==
    /\ asks[a] # NoAsk
    /\ cache' = IF cacheOn THEN cache \cup {asks[a]} ELSE cache
    /\ asks' = [asks EXCEPT ![a] = NoAsk]
    /\ UNCHANGED <<head, process, heard, tables, passes, excused, cacheOn, indexFaults>>

\* setex: five minutes later the entry is gone.
NeverExpires(key) == FALSE
Expire(key) ==
    /\ key \in cache
    /\ cache' = cache \ {key}
    /\ UNCHANGED <<head, process, heard, tables, passes, excused, cacheOn, asks, indexFaults>>

\* One error of the client turns the cache off until the next start.
CacheError ==
    /\ process # "down" /\ cacheOn
    /\ cacheOn' = FALSE
    /\ UNCHANGED <<head, process, heard, tables, passes, excused, cache, asks>>

----------------------------------------------------------------------------
IndexFault(kind) ==
    /\ indexFaults[kind] < MaxIndexFaults[kind]
    /\ indexFaults' = [indexFaults EXCEPT ![kind] = @ + 1]

IndexFails ==
    \/ IndexFault("read") /\ \E p \in Passes : ReadsNothing(p)
    \/ IndexFault("statement") /\ \E p \in Passes : StatementFails(p)
    \/ IndexFault("cache") /\ CacheError

\* What happens while the process runs.
BlockIndexNext ==
    \/ MineBlock
    \/ \E p \in Passes, b \in 1..MaxHead : BlockEvent(p, b)
    \/ \E p \in Passes : PollTick(p) \/ PassStep(p)
    \/ \E a \in Asks, b \in 1..MaxHead : AskTransactions(a, b) \/ AskLogs(a, b)
    \/ \E a \in Asks : CacheAnswer(a)
    \/ \E key \in Keys : Expire(key)
    \/ IndexFails

\* The timer goes on firing, answers arrive, entries expire and the process is
\* started again.
BlockIndexFairness ==
    /\ WF_blockIndexVars(\E p \in Passes : PollTick(p))
    /\ \A p \in Passes : WF_blockIndexVars(PassStep(p))
    /\ WF_blockIndexVars(StartIndexer)
    /\ WF_blockIndexVars(Listen)
    /\ WF_blockIndexVars(ExitIndexer)
    /\ \A a \in Asks : WF_blockIndexVars(CacheAnswer(a))
    /\ \A key \in Keys : WF_blockIndexVars(Expire(key))

----------------------------------------------------------------------------
IsWhole(b) ==
    b \in blocks /\ (b \in TxBlocks => b \in txs) /\ (b \in LogBlocks => b \in logs)

\* The cursor never passes a block that is not stored as a whole, however
\* passes overlap, fail, repeat batches and set the cursor back
\* (block-listener.ts:62-174), but for blocks of which the node gave an empty
\* answer by mistake, which nothing ever repairs (rpc.service.ts:46,88,112).
CursorLeavesNoHole ==
    \A b \in 1..cursor : IsWhole(b) \/ b \in excused

\* In the end the API answers with the transactions and the logs of every
\* block: it is indexed, whatever fails a finite number of times, and no empty
\* list read before that stays in the cache (block.routes.ts:95-134,
\* transaction.routes.ts:344-390).
Holding(list) == IF list = "txs" THEN TxBlocks ELSE LogBlocks
Served(key) == ~IsEmptyList(key) /\ (cacheOn => key \notin cache)
BlocksAreServed ==
    <>[](\A key \in Keys :
            key[2] \in Holding(key[1]) /\ key[2] <= head =>
                Served(key) \/ key[2] \in excused)
============================================================================
