---------------------------- MODULE MCHonestPlay ----------------------------
(***************************************************************************)
(* Disputes between parties of which one plays honestly, on a chain whose  *)
(* true states are known: TrueRoots[k] is the state root after k - 1       *)
(* blocks of the disputed batch.  Everyone who calls resolveDispute shows  *)
(* the VM a true step.  What the tests of the repository assert of two     *)
(* one-step disputes is asked here of a batch of several steps.            *)
(***************************************************************************)
EXTENDS MCL1

CONSTANTS root3, TrueRoots

TrueSteps ==
    {[pre |-> TrueRoots[k], post |-> TrueRoots[k + 1], sound |-> TRUE] :
        k \in 1..(Len(TrueRoots) - 1)}

ThreeStates == <<root1, root2, root3>>

\* The batch that is disputed starts in the true state.
PlayScope ==
    /\ activeSequencers \in {<<>>, <<proposer>>}
    /\ requiredDaMode = DaNone
    /\ \A n \in batchRootSet :
          /\ stateCommitments[n] # NoCommitment
          /\ stateCommitments[n].preStateRoot = TrueRoots[1]
          /\ stateCommitments[n].withdrawalsRoot = root1
    /\ batchRootSet # {} =>
           bondGame = ThisGame /\ disputeGameAddress = ThisGame
    /\ bank.sequencerStake[user] = 0

\* Whoever answers this turn claims the true root of the midpoint.
AnswersTruly(turn, claim(_)) ==
    \A id \in DisputeIds :
        Bisecting(id) /\ disputes[id].currentTurn = turn
        /\ disputes'[id] # disputes[id] /\ disputes'[id].status = "BISECTING" =>
            claim(disputes'[id]) = TrueRoots[Midpoint(disputes[id]) + 1]

DefenderAnswersTruly ==
    LET claim(d) == d.defenderClaim IN AnswersTruly("DEFENDER", claim)
ChallengerAnswersTruly ==
    LET claim(d) == d.challengerClaim IN AnswersTruly("CHALLENGER", claim)

HonestDefenderSpec == L1Init /\ [][L1Next /\ DefenderAnswersTruly]_l1Vars
HonestChallengerSpec == L1Init /\ [][L1Next /\ ChallengerAnswersTruly]_l1Vars

PostRootIsTrue(n) ==
    stateCommitments[n].postStateRoot = TrueRoots[Len(TrueRoots)]

\* A sequencer that committed the true post state and answers truly is never
\* judged the loser: "defender should win false challenge"
\* (FraudProofAudit.t.sol:166), for batches of any number of blocks.
HonestDefenderPrevails ==
    \A id \in DisputeIds :
        disputes[id] # NoDispute /\ PostRootIsTrue(disputes[id].batchNumber) =>
            disputes[id].status # "RESOLVED_CHALLENGER_WIN"

\* A challenger of a false post state that answers truly is never judged the
\* loser: "challenger should win bad batch" (FraudProofAudit.t.sol:181).  Does
\* not hold: an answer is also taken when the range is one step.
HonestChallengerPrevails ==
    \A id \in DisputeIds :
        disputes[id] # NoDispute /\ ~PostRootIsTrue(disputes[id].batchNumber) =>
            disputes[id].status # "RESOLVED_DEFENDER_WIN"
============================================================================
