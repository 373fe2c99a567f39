----------------------------- MODULE MCDiamond -----------------------------
(***************************************************************************)
(* Instances of Diamond for TLC.                                           *)
(***************************************************************************)
EXTENDS Diamond, TLC

CONSTANTS user, s2, s3, root1, root2, token, w1, w2

\* Two claims on one id, as a sequencer may commit by mistake in different
\* roots, and one on another.
claim1 == [id |-> w1, token |-> token, to |-> user, amount |-> 1]
claim1b == [id |-> w1, token |-> ETH, to |-> user, amount |-> 1]
claim2 == [id |-> w2, token |-> token, to |-> user, amount |-> 1]

MCClaims == {claim1, claim1b, claim2}
NoClaims == {}

\* root1 and root2 disagree about w1; root1 can also be opened in the
\* single-hashed form, as the root of a batch from before V3.
MCV3Leaves == root1 :> {claim1, claim2} @@ root2 :> {claim1b}
MCLegacyLeaves == root1 :> {claim1} @@ root2 :> {claim2}
EmptyLeaves == [r \in Roots |-> {}]

MCQueueLists == {<<claim1, claim2>>, <<claim1b, claim1, claim1b>>}
NoQueueLists == {}

RootSymmetry == Permutations({root1, root2})

\* The settlement instance: the pause flag means nothing to it, and it is
\* explored with one sequencer, or with none before the first numbered batch,
\* or with any number of them before the first batch.
SettlementScope ==
    /\ ~paused
    /\ \/ activeSequencers = <<user>>
       \/ activeSequencers = <<>> /\ latestBatchNumber = 0
       \/ /\ latestL2Block = 0
          /\ requiredDaMode = DaNone
          /\ \A n \in BatchNumbers : stateCommitments[n] = NoCommitment

\* The states the bridge instance explores on from (every state reached is
\* checked): those of EscrowScope and those of CustodyScope.  DA policy,
\* anchors and state commitments are the settlement instance's.
BridgeRules ==
    /\ requiredDaMode = DaNone
    /\ \A n \in BatchNumbers : stateCommitments[n] = NoCommitment
    /\ ~paused
    /\ 0 \notin batchInvalidated
    /\ \A n \in batchRootSet : batches[n] = batchWithdrawalRoots[n]
    /\ totalBatchesSubmitted = 0

\* The owner has registered a sequencer and set the dispute game before the
\* first V3 batch, when one deposit was made as well, and sets an oracle or
\* another period, not both.
EscrowScope ==
    /\ batchRootSet # {} =>
           activeSequencers # <<>> /\ disputeGameAddress # NoAddress
    /\ depositNonce <= 1 /\ donations = 0
    /\ batchRootSet # {} => depositNonce = 1
    /\ \/ challengePeriod = InitialChallengePeriod
       \/ challengePeriodAddress = NoAddress

\* One withdrawal, out of the first batch, and deposits and donations at any
\* time.
CustodyScope ==
    /\ disputeGameAddress = NoAddress
    /\ challengePeriodAddress = NoAddress
    /\ challengePeriod = InitialChallengePeriod
    /\ latestBatchNumber <= 1
    /\ latestL2Block = latestBatchNumber * BlocksPerRotation
    /\ \A n \in batchRootSet : batches[n] = root1
    /\ withdrawals[w2] = NotQueued
    /\ now <= 2

BridgeScope == BridgeRules /\ (EscrowScope \/ CustodyScope)

MCLegacyWithdrawals == {claim2}
============================================================================
