----------------------------- MODULE ETHStaking -----------------------------
(***************************************************************************)
(* The staking contract on L2: ETH is staked and earns TEQ, so much per    *)
(* block, out of what the owner has put there.  Who unstakes claims first, *)
(* in the same transaction.  unstakeAll() is no action: it calls           *)
(* this.unstake(), which looks for a stake of the contract's own and       *)
(* reverts.  Accounts accept ETH.  Left out is what is only written and    *)
(* shown: stakedAt and totalRewardsDistributed.                            *)
(***************************************************************************)
EXTENDS Integers

CONSTANTS
    Users,
    StakeAmounts,       \* amounts staked or unstaked
    Rates,              \* annual reward rates the owner tries
    TeqAmounts,         \* amounts of TEQ put in or taken out
    Denominator,        \* BLOCKS_PER_YEAR * BASIS_POINTS
    MaxStake, MaxTeq, MaxBlock      \* bounds

BasisPoints == 10000
InitialRate == 50

ASSUME StakingAssumption ==
    /\ StakeAmounts \subseteq Nat \ {0} /\ Rates \subseteq Nat /\ TeqAmounts \subseteq Nat
    /\ Denominator \in Nat \ {0}

VARIABLES
    stakes,                     \* user -> Stake
    totalStaked,
    annualRewardRate,
    teqBalance,                 \* of the contract
    block,
    accrued,                    \* history: user -> stake * rate, block by block
    disturbed                   \* history: users whose unclaimed blocks were
                                \* given another rate or a larger stake

stakingVars == <<stakes, totalStaked, annualRewardRate, teqBalance, block,
                 accrued, disturbed>>

NoStake == [amount |-> 0, lastClaimBlock |-> 0, totalRewarded |-> 0]

StakingInit ==
    /\ stakes = [u \in Users |-> NoStake]
    /\ totalStaked = 0 /\ teqBalance = 0
    /\ annualRewardRate = InitialRate
    /\ block = 1
    /\ accrued = [u \in Users |-> 0]
    /\ disturbed = {}

----------------------------------------------------------------------------
CalculateRewards(u) ==
    (stakes[u].amount * annualRewardRate * (block - stakes[u].lastClaimBlock))
        \div Denominator

\* _claimRewards reverts without a stake, and when the contract is short of TEQ.
CanClaim(u) == stakes[u].amount > 0 /\ CalculateRewards(u) <= teqBalance

\* The block of the claim is not kept.
ClaimedAgain(u) == [stakes[u] EXCEPT !.totalRewarded = @ + CalculateRewards(u)]

\* The stake after _claimRewards: rewards that round to 0 leave it alone.
Claimed(u) ==
    LET rewards == CalculateRewards(u)
    IN  IF rewards = 0 THEN stakes[u]
        ELSE [stakes[u] EXCEPT !.lastClaimBlock = block,
                               !.totalRewarded = @ + rewards]

\* stake(): what is pending is claimed first.
Stake(u, v) ==
    /\ totalStaked + v <= MaxStake
    /\ stakes[u].amount > 0 => CanClaim(u)
    /\ stakes' = [stakes EXCEPT ![u] =
            IF stakes[u].amount > 0 THEN [Claimed(u) EXCEPT !.amount = @ + v]
            ELSE [stakes[u] EXCEPT !.amount = v, !.lastClaimBlock = block]]
    /\ totalStaked' = totalStaked + v
    /\ teqBalance' = teqBalance - CalculateRewards(u)
    /\ disturbed' = IF stakes[u].amount > 0 /\ Claimed(u).lastClaimBlock < block
                    THEN disturbed \cup {u} ELSE disturbed
    /\ UNCHANGED <<annualRewardRate, block, accrued>>

\* unstake(): a stake that is taken back wholly is deleted.
Unstake(u, v) ==
    /\ stakes[u].amount >= v
    /\ CanClaim(u)
    /\ stakes' = [stakes EXCEPT ![u] =
            IF stakes[u].amount = v THEN NoStake ELSE [Claimed(u) EXCEPT !.amount = @ - v]]
    /\ totalStaked' = totalStaked - v
    /\ teqBalance' = teqBalance - CalculateRewards(u)
    /\ accrued' = IF stakes[u].amount = v THEN [accrued EXCEPT ![u] = 0] ELSE accrued
    /\ disturbed' = IF stakes[u].amount = v THEN disturbed \ {u} ELSE disturbed
    /\ UNCHANGED <<annualRewardRate, block>>

\* claimRewards()
ClaimRewards(u) ==
    /\ CanClaim(u)
    /\ stakes' = [stakes EXCEPT ![u] = Claimed(u)]
    /\ teqBalance' = teqBalance - CalculateRewards(u)
    /\ UNCHANGED <<totalStaked, annualRewardRate, block, accrued, disturbed>>

----------------------------------------------------------------------------
\* setRewardRate (owner)
SetRewardRate(rate) ==
    /\ rate <= BasisPoints
    /\ annualRewardRate' = rate
    /\ disturbed' = disturbed \cup
            {u \in Users : stakes[u].amount > 0 /\ stakes[u].lastClaimBlock < block}
    /\ UNCHANGED <<stakes, totalStaked, teqBalance, block, accrued>>

\* depositRewards (owner), or anyone who sends TEQ.
DepositRewards(v) ==
    /\ teqBalance + v <= MaxTeq
    /\ teqBalance' = teqBalance + v
    /\ UNCHANGED <<stakes, totalStaked, annualRewardRate, block, accrued, disturbed>>

\* withdrawTEQ (owner)
WithdrawTEQ(v) ==
    /\ v <= teqBalance
    /\ teqBalance' = teqBalance - v
    /\ UNCHANGED <<stakes, totalStaked, annualRewardRate, block, accrued, disturbed>>

Mine ==
    /\ block < MaxBlock
    /\ block' = block + 1
    /\ accrued' = [u \in Users |-> accrued[u] + stakes[u].amount * annualRewardRate]
    /\ UNCHANGED <<stakes, totalStaked, annualRewardRate, teqBalance, disturbed>>

StakingNext ==
    \/ \E u \in Users :
          \/ \E v \in StakeAmounts : Stake(u, v) \/ Unstake(u, v)
          \/ ClaimRewards(u)
    \/ \E rate \in Rates : SetRewardRate(rate)
    \/ \E v \in TeqAmounts : DepositRewards(v) \/ WithdrawTEQ(v)
    \/ Mine

StakingSpec == StakingInit /\ [][StakingNext]_stakingVars

----------------------------------------------------------------------------
\* What a stake was rewarded it accrued in blocks that are not claimed any
\* more: no block is paid for twice or before it is mined, whatever is staked,
\* unstaked and claimed in between (ETHStaking.sol:72, 150), as long as no
\* new rate and no larger stake met blocks that were not claimed yet.
RewardsFollowAccrual ==
    \A u \in Users \ disturbed :
        stakes[u].totalRewarded * Denominator
            <= accrued[u] - stakes[u].amount * annualRewardRate
                                * (block - stakes[u].lastClaimBlock)
=============================================================================
