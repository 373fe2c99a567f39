------------------------------- MODULE MCL1 -------------------------------
(***************************************************************************)
(* Instances of L1 for TLC.                                                *)
(***************************************************************************)
EXTENDS L1, TLC

CONSTANTS user, proposer, root1, root2, w1

claim1 == [id |-> w1, token |-> ETH, to |-> proposer, amount |-> 1]
MCClaims == {claim1}
NoClaims == {}
MCLeaves == [r \in Roots |-> Claims]
NoQueueLists == {}

\* Any root follows from the state the batch starts in by some sound
\* transition; nobody knows a state with the root root2, or with NoRoot.
SoundClaims == [pre : {root1}, post : Roots, sound : {TRUE}]

RootSymmetry == Permutations({root1, root2})

\* The states the dispute instances explore on from: one sequencer, state
\* batches without DA policy, anchors or legacy batches, an open bridge.
DisputeScope ==
    /\ activeSequencers \in {<<>>, <<proposer>>}
    /\ requiredDaMode = DaNone
    /\ \A n \in batchRootSet :
          /\ stateCommitments[n] # NoCommitment
          /\ stateCommitments[n].sequencer = proposer
          /\ stateCommitments[n].withdrawalsRoot = root1
          /\ stateCommitments[n].preStateRoot = root1
    /\ ~paused
    /\ 0 \notin batchInvalidated
    /\ totalBatchesSubmitted = 0
    /\ batchRootSet # {} => bondGame = ThisGame /\ disputeGameAddress # NoAddress
    /\ nextDisputeId = 1 => disputeGameAddress \in {NoAddress, ThisGame}

\* Disputes of one challenger about a batch that ends in root2, which nobody can
\* show a step from; only the proposer stakes.
BisectionScope ==
    /\ DisputeScope
    /\ \A n \in batchRootSet : batches[n] = root2
    /\ \A p \in Parties \ {proposer} : bank.sequencerStake[p] = 0
    /\ batchRootSet = {} => bank = EmptyBank
    /\ \A id \in DisputeIds :
          disputes[id] # NoDispute => disputes[id].challenger = user

\* Bonds of two disputes, the second one never answered; what else the parties
\* may claim, and how often, is the matter of the bisection instance.
BondScope ==
    /\ BisectionScope
    /\ \A id \in DisputeIds :
          disputes[id] # NoDispute =>
              /\ NoRoot \notin {disputes[id].challengerClaim, disputes[id].defenderClaim}
              /\ id # 1 => disputes[id].currentTurn = "DEFENDER"
              /\ disputes[id].roundCount < MaxRounds

\* Two disputes while nothing happens at the bridge, its clock at its end.
BridgeRests ==
    /\ disputeGameAddress \in {NoAddress, ThisGame}
    /\ depositNonce = 0
    /\ nextDisputeId # 1 => now = MaxTime
    /\ \A id \in Ids : withdrawals[id] = NotQueued

\* The diamond around one dispute: the bridge is wired before it opens, the
\* owner may replace the game there once a batch is disputed.
OneDispute ==
    /\ nextDisputeId <= 2
    /\ bondAmount = 2 /\ bank.balance <= 4
    /\ challengePeriod = InitialChallengePeriod
    /\ batchRootSet = {} => depositNonce = 0 /\ now = 1
    /\ \A id \in DisputeIds : disputes[id] # NoDispute => disputes[id].roundCount = 0

L1Scope == BondScope /\ (BridgeRests \/ OneDispute)
=============================================================================
