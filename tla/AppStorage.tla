----------------------------- MODULE AppStorage -----------------------------
(***************************************************************************)
(* The storage the facets of the L1 diamond share (LibAppStorage.sol), the *)
(* part of it that the settlement path reads or writes.  Every facet runs  *)
(* by delegatecall on this one struct, so the modules SequencerFacet and   *)
(* BridgeFacet both extend this module and Diamond composes them.          *)
(*                                                                         *)
(* Abstractions                                                            *)
(*  - a 32-byte root is a member of Roots; NoRoot is bytes32(0).           *)
(*  - a Merkle proof verifies exactly when the leaf is among those the     *)
(*    root commits to (keccak collisions are left out): V3Leaves[r] holds  *)
(*    the claims r commits to in the double-hashed form of _computeLeaf,   *)
(*    LegacyLeaves[r] in the single-hashed form of _computeLegacyLeaf.     *)
(*  - mapping(uint => Batch) batches is only ever written and read at      *)
(*    multiples of 100, so batches[n] here is s.batches[n * 100], reduced  *)
(*    to the state root it stores.  transactionsRoot is left out.          *)
(*  - time is counted in days.                                             *)
(*  - a reverted transaction leaves no trace and is no step.               *)
(***************************************************************************)
EXTENDS Integers, Sequences, FiniteSets

CONSTANTS
    Addresses,          \* accounts that may register, send or receive
    NoAddress,          \* address(0)
    Owner,              \* LibDiamond.contractOwner()
    BlocksPerRotation,  \* BLOCKS_PER_ROTATION (100)
    MaxBatch,           \* bound: batch numbers 0..MaxBatch
    Roots,              \* nonzero 32-byte roots
    NoRoot,             \* bytes32(0)
    Tokens,             \* ERC-20 addresses, and ETH
    ETH,                \* token == address(0)
    Ids,                \* withdrawal ids
    Claims,             \* contents of withdrawal leaves
    V3Leaves,           \* root -> claims committed as double-hashed leaves
    LegacyLeaves,       \* root -> claims committed as single-hashed leaves
    DisputeGames,       \* addresses the owner may set as dispute game
    Oracles,            \* addresses the owner may set as period oracle
    Periods,            \* periods an oracle may answer or the owner may try
    MinPeriod,          \* 1 days
    MaxPeriod,          \* 30 days
    NotQueued,          \* withdrawals[id].timestamp == 0
    NoCommitment        \* stateCommitments[n].exists == false

BatchNumbers == 0..MaxBatch

Blocks == 0..(MaxBatch * BlocksPerRotation)

\* DA_MODE_NONE, DA_MODE_CALLDATA, DA_MODE_BLOB
DaNone == 0
DaCalldata == 1
DaBlob == 2
DaModes == {DaNone, DaCalldata, DaBlob}

\* What a withdrawal leaf hashes: keccak(withdrawalId, token, to, amount).
Claim == [id : Ids, token : Tokens, to : Addresses \cup {NoAddress}, amount : Nat]

StateCommitmentData ==
    [l2StartBlock : Nat, l2EndBlock : Nat,
     preStateRoot : Roots, postStateRoot : Roots,
     withdrawalsRoot : Roots \cup {NoRoot},
     sequencer : Addresses \cup {Owner}, daMode : DaModes]

Withdrawal ==
    [claim : Claims, timestamp : Nat, finalized : BOOLEAN,
     challenged : BOOLEAN, challengeExpiry : Nat]

ASSUME AppStorageAssumption ==
    /\ BlocksPerRotation \in Nat /\ BlocksPerRotation > 1
    /\ MaxBatch \in Nat
    /\ NoRoot \notin Roots
    /\ NoAddress \notin Addresses
    /\ Owner # NoAddress
    /\ NoAddress \notin DisputeGames \cup Oracles
    /\ ETH \in Tokens
    /\ Claims \subseteq Claim
    /\ V3Leaves \in [Roots -> SUBSET Claims]
    /\ LegacyLeaves \in [Roots -> SUBSET Claims]
    /\ Periods \subseteq Nat
    /\ MinPeriod \in Nat /\ MaxPeriod \in Nat
    /\ 0 < MinPeriod /\ MinPeriod <= MaxPeriod
    /\ NotQueued \notin Withdrawal
    /\ NoCommitment \notin StateCommitmentData

VARIABLES
    \* rotation and batches (SequencerFacet)
    activeSequencers,      \* sequence of addresses
    batches,               \* batch number -> state root at its end block
    batchWithdrawalRoots,  \* batch number -> withdrawal root
    batchRootSet,          \* batch numbers with a root explicitly committed
    latestBatchNumber,
    latestL2Block,
    stateCommitments,      \* batch number -> commitment
    requiredDaMode,
    daActivationBatch,
    \* bridge
    withdrawals,           \* withdrawal id -> queue entry
    processedWithdrawals,  \* ids paid out
    withdrawalBatch,       \* withdrawal id -> source batch number
    batchInvalidated,      \* batch numbers invalidated by the dispute game
    disputeGameAddress,
    challengePeriodAddress,
    challengePeriod,       \* fallback challenge period, 0 until set
    paused,
    entered,               \* reentrancyStatus == ENTERED
    depositNonce,
    balance                \* token -> amount the diamond holds

rotationVars == <<activeSequencers>>
batchVars == <<batches, batchWithdrawalRoots, batchRootSet, latestBatchNumber,
               latestL2Block, stateCommitments>>
daVars == <<requiredDaMode, daActivationBatch>>
queueVars == <<withdrawals, processedWithdrawals, withdrawalBatch>>
bridgeAdminVars == <<disputeGameAddress, challengePeriodAddress,
                     challengePeriod, paused>>
custodyVars == <<entered, depositNonce, balance>>

sequencerFacetVars == <<rotationVars, batchVars, daVars>>
bridgeFacetVars == <<queueVars, batchInvalidated, bridgeAdminVars, custodyVars>>

\* isRegisteredSequencer / _isRegisteredSequencer: both facets scan the list.
IsRegisteredSequencer(a) ==
    \E i \in DOMAIN activeSequencers : activeSequencers[i] = a
=============================================================================
