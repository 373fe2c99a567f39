------------------------------ MODULE Diamond ------------------------------
(***************************************************************************)
(* The L1 diamond: SequencerFacet and BridgeFacet on one AppStorage, the   *)
(* state a deployment starts from, and what must hold of the two together. *)
(*                                                                         *)
(* A deployment may predate the V3 storage fields: then some batches left  *)
(* only their state root (batches[n]) and some withdrawals are queued with *)
(* neither a batch number nor a stored expiry.                             *)
(***************************************************************************)
EXTENDS SequencerFacet, BridgeFacet, Functions

CONSTANTS
    LegacyBatches,          \* at most so many batches predate V3
    LegacyWithdrawals,      \* claims that may be queued from before V3
    InitialChallengePeriod  \* what the owner set before opening the bridge

ASSUME DiamondAssumption ==
    /\ LegacyBatches \in BatchNumbers
    /\ LegacyWithdrawals \subseteq Claims
    /\ \A c, d \in LegacyWithdrawals : c.id = d.id => c = d
    /\ InitialChallengePeriod \in {0} \cup (MinPeriod..MaxPeriod)
    /\ NotQueued \notin [claim : Claims, due : Nat]

vars == <<seqVars, bridgeVars>>

\* A queue entry from before V3.
LegacyEntry(claim) ==
    [claim |-> claim, timestamp |-> 1, finalized |-> FALSE,
     challenged |-> FALSE, challengeExpiry |-> 0]

Init ==
    /\ activeSequencers = <<>>
    /\ \E k \in 0..LegacyBatches, roots \in [1..LegacyBatches -> Roots] :
          /\ batches = [n \in BatchNumbers |->
                           IF n \in 1..k THEN roots[n] ELSE NoRoot]
          /\ latestL2Block = k * BlocksPerRotation
    /\ batchWithdrawalRoots = [n \in BatchNumbers |-> NoRoot]
    /\ batchRootSet = {}
    /\ latestBatchNumber = 0
    /\ stateCommitments = [n \in BatchNumbers |-> NoCommitment]
    /\ requiredDaMode = DaNone
    /\ daActivationBatch = 0
    /\ totalBatchesSubmitted = 0
    /\ \E queued \in SUBSET LegacyWithdrawals :
          withdrawals = [id \in Ids |->
              IF \E c \in queued : c.id = id
              THEN LegacyEntry(CHOOSE c \in queued : c.id = id)
              ELSE NotQueued]
    /\ processedWithdrawals = {}
    /\ withdrawalBatch = [id \in Ids |-> 0]
    /\ batchInvalidated = {}
    /\ disputeGameAddress = NoAddress
    /\ challengePeriodAddress = NoAddress
    /\ challengePeriod = InitialChallengePeriod
    /\ paused = FALSE
    /\ entered = FALSE
    /\ depositNonce = 0
    /\ balance = [t \in Tokens |-> 0]
    /\ now = 1
    /\ credited = [t \in Tokens |-> 0]
    /\ released = [t \in Tokens |-> 0]
    /\ payouts = [id \in Ids |-> 0]
    /\ donations = 0

\* The variables of BridgeFacet that no function of SequencerFacet writes,
\* and the reverse.
SequencerStep == SequencerFacetNext /\ UNCHANGED bridgeVars
BridgeStep == BridgeFacetNext /\ UNCHANGED seqVars

Next == SequencerStep \/ BridgeStep

Spec == Init /\ [][Next]_vars

----------------------------------------------------------------------------
\* Every variable has its type, through every function of both facets.
TypeOK == SettlementTypeOK /\ BridgeTypeOK

(***************************************************************************)
(* Settlement                                                              *)
(***************************************************************************)

\* No address holds two places of the rotation, whatever the owner adds and
\* removes: addSequencers refuses repetitions within its list and against the
\* storage, removeSequencer moves the last entry and pops it (lines 646-697).
RotationHasNoDuplicates == IsInjective(activeSequencers)

\* Batches only exist up to the latest one: no root, no commitment beyond
\* latestBatchNumber, and, once a batch is numbered, the latest L2 block is
\* the last block of the latest batch.  The "Block already submitted" and
\* "Batch not monotonic" checks and both kinds of submission rest on it.
HeadIsLatest ==
    /\ latestBatchNumber # 0 =>
           /\ latestL2Block = latestBatchNumber * BlocksPerRotation
           /\ latestBatchNumber \in batchRootSet
    /\ \A n \in BatchNumbers :
          /\ batches[n] # NoRoot => n * BlocksPerRotation <= latestL2Block
          /\ n \in batchRootSet => n <= latestBatchNumber /\ batches[n] # NoRoot
          /\ stateCommitments[n] # NoCommitment => n <= latestBatchNumber

\* The commitments a dispute bisects are chained: where batch n and batch n-1
\* both have one and n was submitted (not anchored), n starts at the block
\* after n-1 and from the state n-1 ended in.  Anchors and legacy batches may
\* come in between in any order ("preStateRoot -> postStateRoot chaining" and
\* "Batch number and L2 block continuity", docs/CONTRACTS.md:29-30).
CommitmentsAreChained ==
    \A n \in BatchNumbers \ {0} :
        LET c == stateCommitments[n]
            p == stateCommitments[n - 1]
        IN  (c # NoCommitment /\ p # NoCommitment /\ c.l2StartBlock # c.l2EndBlock)
            => /\ c.preStateRoot = p.postStateRoot
               /\ c.l2StartBlock = p.l2EndBlock + 1
               /\ c.l2EndBlock = n * BlocksPerRotation

\* A committed withdrawal root stays the root of its batch number for good,
\* the fallback of pre-V3 batches included: no submission path, legacy or
\* not, can put another root under withdrawals already proven against it.
BatchRootsAreFinal ==
    [][\A n \in BatchNumbers :
          BatchWithdrawalRoot(n) # NoRoot =>
              /\ BatchWithdrawalRoot(n)' = BatchWithdrawalRoot(n)
              /\ ProvableClaims(n)' = ProvableClaims(n)]_vars

\* "Can a legacy batch path bypass DA enforcement after activation?"
\* (docs/SECURITY_REVIEW_GUIDE.md:23).  No: a batch number that gets its root
\* while the policy covers it gets a commitment with a mode the policy takes,
\* through whichever entry point it came, and none is anchored later.
DaPolicyIsNotBypassed ==
    [][\A n \in BatchNumbers :
          IsDAPolicyActiveForBatch(n) =>
              /\ n \in batchRootSet' \ batchRootSet =>
                     /\ stateCommitments'[n] # NoCommitment
                     /\ stateCommitments'[n].daMode >= requiredDaMode
              /\ n \in batchRootSet => stateCommitments'[n] = stateCommitments[n]]_vars

(***************************************************************************)
(* Bridge                                                                  *)
(***************************************************************************)

\* Every withdrawal queued under a batch is one of the claims the root of
\* that batch commits to, for as long as it is queued ("Withdrawal roots tied
\* to exact batch numbers", docs/CONTRACTS.md:31): it was proven, its entry
\* was never overwritten and the root of the batch never moved.
QueuedIsCommitted ==
    \A id \in Ids :
        IsQueued(id) /\ withdrawalBatch[id] # 0 =>
            /\ withdrawals[id].claim.id = id
            /\ BatchWithdrawalRoot(withdrawalBatch[id]) # NoRoot
            /\ withdrawals[id].claim \in ProvableClaims(withdrawalBatch[id])

\* Each withdrawal is paid once at most, and exactly the paid ones are marked,
\* in both places finalizeWithdrawal marks them, although the recipient runs
\* code in the middle of the transaction; a challenged one is never paid.
PaidOnce ==
    \A id \in Ids :
        /\ payouts[id] <= 1
        /\ payouts[id] = 1 <=> id \in processedWithdrawals
        /\ id \in processedWithdrawals =>
               /\ IsQueued(id)
               /\ withdrawals[id].finalized
               /\ ~withdrawals[id].challenged
        /\ IsQueued(id) /\ withdrawals[id].finalized => id \in processedWithdrawals

\* What L2 was told to mint never exceeds what the diamond took in: the
\* custody covers the Deposited amounts less the payouts, also for tokens
\* that deliver less than they were asked to.
CustodyCoversCredits ==
    \A t \in Tokens : balance[t] + released[t] >= credited[t]

\* With a challenge period set before the bridge opens, a V3 withdrawal is
\* paid no earlier than a day after it was queued, and at most 30 days later
\* it is no longer held back: an oracle that answers nonsense, a changed
\* period or a removed oracle move nothing that is already queued.
DelayIsWithinPolicy ==
    InitialChallengePeriod # 0 =>
        \A id \in Ids :
            IsQueued(id) /\ withdrawalBatch[id] # 0 =>
                LET w == withdrawals[id]
                IN  /\ w.challengeExpiry >= w.timestamp + MinPeriod
                    /\ w.challengeExpiry <= w.timestamp + MaxPeriod
                    /\ payouts[id] # 0 => now >= w.timestamp + MinPeriod

(***************************************************************************)
(* The bridge implements the abstract escrow: its terms are the claim and  *)
(* the expiry stored when the withdrawal was queued, and a withdrawal is   *)
(* barred when it was challenged or its batch invalidated.                 *)
(***************************************************************************)
Barred ==
    {id \in Ids : /\ IsQueued(id)
                  /\ \/ withdrawals[id].challenged
                     \/ withdrawalBatch[id] \in batchInvalidated \ {0}}

Terms ==
    [id \in Ids |->
        IF IsQueued(id)
        THEN [claim |-> withdrawals[id].claim,
              due |-> withdrawals[id].challengeExpiry]
        ELSE NotQueued]

Escrow == INSTANCE WithdrawalEscrow
              WITH None <- NotQueued, terms <- Terms, payments <- payouts,
                   barred <- Barred, clock <- now

\* Every step of the two facets is a step of the abstract escrow or leaves it
\* as it is: no reset of an accepted withdrawal, no change of its recipient,
\* amount or expiry, no payment before the expiry, of a challenged withdrawal
\* or out of an invalidated batch, and no way back from either (the question
\* "Can an invalid/disputed batch release withdrawals?",
\* docs/SECURITY_REVIEW_GUIDE.md:24, for batches already invalidated).
ImplementsEscrow == Escrow!EscrowSpec
============================================================================
