---------------------------- MODULE Withdrawals ----------------------------
(***************************************************************************)
(* The withdrawal pipeline as a whole: its specification, with and without *)
(* fairness, and what must hold of it.                                     *)
(***************************************************************************)
EXTENDS WithdrawalPipeline

WithdrawalSpec == WithdrawalInit /\ [][WithdrawalNext]_withdrawalVars

\* A pass of the finalizer begins on a tick of its timer and goes on.
FinalizerStep ==
    \/ ProcessEligibleWithdrawals
    \/ \E w \in WithdrawalIds : HandleWithdrawal(w) \/ MarkFinalized(w) \/ SyncFinalized(w)

\* A process that went down is started again, timers fire and promises
\* settle, time passes here and on L1.  Nothing is assumed of what goes
\* wrong, of users, challengers or other relayers, or of the script.
FairWithdrawalSpec ==
    /\ WithdrawalSpec
    /\ WF_withdrawalVars(Start)
    /\ WF_withdrawalVars(FinalizerStep)
    /\ \A w \in WithdrawalIds :
          WF_withdrawalVars(Ripen(w)) /\ WF_withdrawalVars(FallsDue(w))

----------------------------------------------------------------------------
\* What the table says of L1 is true, whatever was lost in between: a row is
\* marked queued only if its withdrawal was queued, finalized only if it was
\* paid, and the hash of a row is that of the transaction that paid, although
\* the relayer, other relayers and the backfill script all have a part in it.
MarksFollowL1 ==
    \A w \in WithdrawalIds :
        rows[w] # NoRow =>
            /\ rows[w].queued > 0 => l1[w] # "none"
            /\ rows[w].finalized => rows[w].queued > 0 /\ Paid(w)
            /\ rows[w].hash # NoHash => rows[w].finalized /\ rows[w].hash = l1[w]

\* No poll passes over a withdrawal, although polls overlap and the cursor
\* may go back: as long as every insert worked, a withdrawal of a block
\* between the one the listener started at and its cursor has a row, or a
\* poll that runs has it in hand.
PollsLeaveNoGap ==
    faults["db"] = 0 =>
        \A w \in WithdrawalIds :
            initBlock[w] \in (origin + 1)..cursor =>
                rows[w] # NoRow \/ \E p \in Polls : w \in polls[p].todo

\* The table batches never runs ahead of L1, and a withdrawal belongs to one
\* root at most, the one of the batch its block is in: submissions whose
\* receipt was lost, restarts and rows stored late give it no second one.
BatchesFollowL1 ==
    /\ LastSubmittedBlock <= Len(roots) * BatchSize
    /\ \A n \in BatchNumbers : batches[n] # "none" => n <= Len(roots)
    /\ \A n \in DOMAIN roots : \A w \in roots[n] :
          initBlock[w] \in ((n - 1) * BatchSize + 1)..(n * BatchSize)

\* Rows that keep their place in the finalizer's list whatever it does:
\* barred on L1, or paid while the revert says so in no text it knows.
Stuck == {w \in Unfinalized : l1[w] = "barred" \/ (Paid(w) /\ ~SaysFinalized(w))}

\* A row marked queued ends up marked finalized, its withdrawal paid, unless
\* it gets stuck or the rows that are stuck fill the list: whoever pays, and
\* although receipts and updates are lost and the process goes down between
\* the payment and the mark.
QueuedIsFinalized ==
    \A w \in WithdrawalIds :
        <>[](IsQueued(w) /\ w \notin Stuck /\ Cardinality(Stuck) < ListSize)
            => <>(rows[w] # NoRow /\ rows[w].finalized /\ Paid(w))

\* "Batch includes withdrawal root" (README.md:175): the root of a batch
\* commits to every withdrawal its blocks have, at least those mined while
\* the process runs.  Does not hold: the range may be submitted before the
\* poll that stores the withdrawal, and is never submitted again.
SettledIsCommitted ==
    \A w \in WithdrawalIds :
        up /\ initBlock[w] \in (origin + 1)..(Len(roots) * BatchSize) =>
            \E n \in DOMAIN roots : w \in roots[n]
============================================================================
