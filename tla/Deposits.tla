------------------------------ MODULE Deposits ------------------------------
(***************************************************************************)
(* The deposit pipeline as a whole: its specification, with and without    *)
(* fairness, and what must hold of it.                                     *)
(***************************************************************************)
EXTENDS DepositPipeline

CONSTANTS InitialPairs, InitialRateLimit

DepositInit ==
    /\ PipelineInit
    /\ L2Init(InitialPairs, InitialRateLimit)
    /\ l2Sequencer = Wallet

DepositSpec == DepositInit /\ [][PipelineNext]_depositPipelineVars

\* The process is started again, and what the listener has begun goes on.
ListenerStep ==
    \/ Start
    \/ Subscribe
    \/ BackfillHead \/ BackfillFrom \/ BackfillQuery
    \/ \E id \in DepositIds : LiveEvent(id) \/ BackfillEvent(id)

\* A pass starts on a tick of the timer and goes on.
PassStep(p) ==
    \/ StartPass(p)
    \/ \E id \in DepositIds : Send(p, id) \/ Execute(p, id) \/ Mark(p, id)

\* Timers fire, promises settle, transactions a pass waits for get mined, a
\* process that went down is started again.  Nothing is assumed of what goes
\* wrong, of the users, of the owner, or of a transaction nobody waits for.
FairDepositSpec ==
    /\ DepositSpec
    /\ WF_depositPipelineVars(ListenerStep)
    /\ \A p \in Passes : WF_depositPipelineVars(PassStep(p))

----------------------------------------------------------------------------
\* A deposit is credited on L2 once at most, and only one made on L1:
\* although overlapping passes, repeated attempts and restarts send its
\* transaction any number of times ("Are deposit IDs replay-protected on L1
\* and L2 paths?", docs/SECURITY_REVIEW_GUIDE.md:26).
CreditedOnce ==
    \A id \in DepositIds :
        /\ credits[id] <= 1
        /\ credits[id] = 1 => depositBlock[id] # 0

\* A row that is marked processed was credited: a transaction that reverts,
\* is lost or was sent by an overlapping pass never marks one.
MarkedIsCredited ==
    \A id \in DepositIds :
        rows[id] # NoRow /\ rows[id].processed => credits[id] = 1

\* The next backfill starts after the highest block of the table, so what is
\* below it without a row is lost for good.  Whatever fails to answer, closes,
\* crashes and starts again, late and lost live events included: there are
\* three ways to be passed over and no other.  A deposit is among the events
\* the backfill still has to store, or its insert failed, or the process went
\* down between the inserts of its block, or the table was without a block
\* when L1 was more than the lookback past it.
BackfillLeavesNoGap ==
    \A id \in DepositIds :
        depositBlock[id] \in 1..LastDepositBlock /\ rows[id] = NoRow =>
            id \in backfill.todo \cup missed

\* Where it starts, the listener catches up: what is past the table then gets
\* its row from the backfill, unless the process goes down, a call fails, or
\* the deposit is lost in one of the ways above, whatever the subscription
\* does meanwhile.  And an event the subscription delivered gets its row,
\* unless the websocket closes or the insert fails.  (A deposit made after the
\* backfill looked at L1 and before the subscription takes effect is in
\* neither.)
ListenerCatchesUp ==
    \A id \in DepositIds :
        /\ backfill.phase = "head" /\ depositBlock[id] > LastDepositBlock
               ~> rows[id] # NoRow \/ id \in missed \/ ~up \/ faults["rpc"] > 0
        /\ id \in live ~> rows[id] # NoRow \/ socket = "closed" \/ faults["db"] > 0

\* Rows that stay in the list whatever the processor does: credited but not
\* marked (a crash, or a receipt or an update that failed), or not payable.
Stuck ==
    {id \in Unprocessed :
        \/ id \in processedDeposits
        \/ Wallet # l2Sequencer
        \/ ~CanPayOut(DepositOf[id].token, DepositOf[id].to)}

\* A deposit that stays stored and payable is credited, as long as the rows
\* that are stuck do not fill the list: the failures of the rows before it,
\* overlapping passes and restarts do not stop it.
StoredIsCredited ==
    \A id \in DepositIds :
        <>[](rows[id] # NoRow /\ id \notin Stuck /\ Cardinality(Stuck) < Limit)
            => <>(credits[id] = 1)

\* "L1 listener stores deposit event" (README.md:165): every event it has
\* read.
EveryEventIsStored ==
    \A id \in DepositIds : id \in backfill.todo ~> rows[id] # NoRow

\* The same of every deposit.  It fails with no fault at all, for one made
\* after the backfill looked at L1 and before the subscription takes effect;
\* no configuration checks it.
EveryDepositIsStored ==
    \A id \in DepositIds : depositBlock[id] # 0 ~> rows[id] # NoRow
============================================================================
