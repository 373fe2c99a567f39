-------------------------- MODULE SequencerUpgrade --------------------------
(***************************************************************************)
(* A diamond whose owner replaces one version of the sequencer facet by    *)
(* the other, at any time and in either direction, on the storage there    *)
(* is.  A cut may name some of a facet's functions only, so any order of   *)
(* calls of the two is possible, and nothing need be kept of which is      *)
(* installed.  The bridge's part of the storage rests.                     *)
(***************************************************************************)
EXTENDS SequencerFacet, SequencerFacetV3

upgradeVars == <<seqVars, sequencers, bridgeFacetVars>>

\* A commitment as BatchLog sees it is not the absence of one.
ASSUME UpgradeAssumption ==
    NoCommitment \notin [first : Nat, last : Nat, pre : Roots, post : Roots]

UpgradeInit ==
    /\ activeSequencers = <<>> /\ sequencers = {}
    /\ batches = [n \in BatchNumbers |-> NoRoot]
    /\ batchWithdrawalRoots = [n \in BatchNumbers |-> NoRoot]
    /\ batchRootSet = {}
    /\ latestBatchNumber = 0 /\ latestL2Block = 0
    /\ stateCommitments = [n \in BatchNumbers |-> NoCommitment]
    /\ requiredDaMode = DaNone /\ daActivationBatch = 0
    /\ totalBatchesSubmitted = 0
    /\ withdrawals = [id \in Ids |-> NotQueued]
    /\ processedWithdrawals = {} /\ withdrawalBatch = [id \in Ids |-> 0]
    /\ batchInvalidated = {}
    /\ disputeGameAddress = NoAddress /\ challengePeriodAddress = NoAddress
    /\ challengePeriod = MinPeriod
    /\ paused = FALSE /\ entered = FALSE
    /\ depositNonce = 0 /\ balance = [t \in Tokens |-> 0]

UpgradeNext ==
    \/ SequencerFacetNext /\ UNCHANGED <<sequencers, bridgeFacetVars>>
    \/ V3Next /\ UNCHANGED <<totalBatchesSubmitted, bridgeFacetVars>>

UpgradeSpec == UpgradeInit /\ [][UpgradeNext]_upgradeVars

----------------------------------------------------------------------------
Committed(n) ==
    LET c == stateCommitments[n]
    IN  IF c = NoCommitment THEN NoCommitment
        ELSE [first |-> c.l2StartBlock, last |-> c.l2EndBlock,
              pre |-> c.preStateRoot, post |-> c.postStateRoot]

Log == INSTANCE BatchLog WITH
    Numbers <- BatchNumbers, None <- NoCommitment, NoRootYet <- NoRoot,
    head <- latestBatchNumber, tip <- latestL2Block,
    chain <- [n \in BatchNumbers |-> Committed(n)],
    roots <- batchWithdrawalRoots

\* Both versions of the facet, taking turns on one storage, append batches
\* without a gap in the blocks, chain the state roots of neighbours, and
\* change no batch that is there ("Write-once protection", "Monotonic batch
\* numbering enforced", SequencerFacetV3.sol:14-15), although neither reads
\* all that the other writes.
ImplementsBatchLog == Log!LogSpec
=============================================================================
