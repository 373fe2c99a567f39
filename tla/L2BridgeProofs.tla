--------------------------- MODULE L2BridgeProofs ---------------------------
(***************************************************************************)
(* Proofs about the L2 bridge, for any tokens, users, deposits, settings   *)
(* and bounds, and about the staking contract, for any users and rates.    *)
(***************************************************************************)
EXTENDS L2Bridge, ETHStaking, FiniteSetTheorems, TLAPS

----------------------------------------------------------------------------
(* Staking *)

\* What a user holds and when it was claimed last; a user without a stake has
\* no history.
StakeData == [amount : Nat, lastClaimBlock : Nat, totalRewarded : Nat]

StakesInv ==
    /\ stakes \in [Users -> StakeData]
    /\ accrued \in [Users -> Nat]
    /\ annualRewardRate \in Nat /\ block \in Nat
    /\ \A u \in Users :
          /\ stakes[u].lastClaimBlock <= block
          /\ stakes[u].amount = 0 => stakes[u] = NoStake /\ accrued[u] = 0

\* A stake with its rewards and its unclaimed blocks keeps within what accrued.
Fits(d, rate, b, earned) ==
    d.totalRewarded * Denominator + d.amount * rate * (b - d.lastClaimBlock) <= earned

RewardInv ==
    /\ StakesInv
    /\ \A u \in Users \ disturbed : Fits(stakes[u], annualRewardRate, block, accrued[u])

LEMMA ProductIsNat ==
    ASSUME NEW a \in Nat, NEW b \in Nat PROVE a * b \in Nat
OBVIOUS

\* Rewards round down.
LEMMA RewardsRoundDown ==
    ASSUME NEW x \in Nat, NEW d \in Nat \ {0}
    PROVE  /\ x \div d \in Nat
           /\ (x \div d) * d <= x
OBVIOUS

LEMMA LessOfFactor ==
    ASSUME NEW a \in Nat, NEW b \in Nat, NEW c \in Nat, a <= b
    PROVE  a * c <= b * c
OBVIOUS

LEMMA OneMore ==
    ASSUME NEW a \in Nat, NEW b \in Nat, NEW n \in Nat
    PROVE  a * b * (n + 1) = a * b * n + a * b
OBVIOUS

LEMMA SumTimes ==
    ASSUME NEW a \in Nat, NEW b \in Nat, NEW n \in Nat
    PROVE  (a + b) * n = a * n + b * n
OBVIOUS

\* A claim leaves the stake what it is, and no more rewarded than it accrued.
LEMMA ClaimFits ==
    ASSUME StakesInv, NEW u \in Users
    PROVE  /\ CalculateRewards(u) \in Nat
           /\ Claimed(u) \in StakeData
           /\ Claimed(u).amount = stakes[u].amount
           /\ Claimed(u).lastClaimBlock <= block
           /\ Claimed(u).lastClaimBlock < block => Claimed(u) = stakes[u]
           /\ Fits(stakes[u], annualRewardRate, block, accrued[u])
                  => Fits(Claimed(u), annualRewardRate, block, accrued[u])
<1> DEFINE s == stakes[u]
           x == s.amount * annualRewardRate * (block - s.lastClaimBlock)
           r == x \div Denominator
<1>1. /\ s \in StakeData /\ s.amount \in Nat /\ s.lastClaimBlock \in Nat
      /\ s.totalRewarded \in Nat /\ s.lastClaimBlock <= block
      /\ annualRewardRate \in Nat /\ block \in Nat /\ accrued[u] \in Nat
      /\ Denominator \in Nat \ {0}
  BY StakingAssumption DEF StakesInv, StakeData
<1>2. x \in Nat
  <2>1. s.amount * annualRewardRate \in Nat
    BY <1>1, ProductIsNat
  <2>2. block - s.lastClaimBlock \in Nat
    BY <1>1
  <2>3. QED
    BY <2>1, <2>2, ProductIsNat
<1>3. r \in Nat /\ r * Denominator <= x
  BY <1>1, <1>2, RewardsRoundDown
<1>4. CalculateRewards(u) = r
  BY DEF CalculateRewards
<1>5. CASE r = 0
  BY <1>1, <1>3, <1>4, <1>5 DEF Claimed
<1>6. CASE r # 0
  <2>1. Claimed(u) = [s EXCEPT !.lastClaimBlock = block, !.totalRewarded = @ + r]
    BY <1>4, <1>6 DEF Claimed
  <2> HIDE DEF r
  <2>2. /\ Claimed(u) \in StakeData /\ Claimed(u).amount = s.amount
        /\ Claimed(u).lastClaimBlock = block
        /\ Claimed(u).totalRewarded = s.totalRewarded + r
    <3>1. s.totalRewarded + r \in Nat
      BY <1>1, <1>3
    <3>2. Claimed(u) = [amount |-> s.amount, lastClaimBlock |-> block,
                        totalRewarded |-> s.totalRewarded + r]
      BY <1>1, <2>1 DEF StakeData
    <3> HIDE DEF s
    <3>3. QED
      BY <1>1, <3>1, <3>2 DEF StakeData
  <2>3. (s.totalRewarded + r) * Denominator
            = s.totalRewarded * Denominator + r * Denominator
    BY <1>1, <1>3, SumTimes
  <2>4. s.amount * annualRewardRate * (block - block) = 0
    BY <1>1, ProductIsNat
  <2>5. s.totalRewarded * Denominator \in Nat /\ r * Denominator \in Nat
    BY <1>1, <1>3, ProductIsNat
  <2>6. Fits(s, annualRewardRate, block, accrued[u]) <=>
            s.totalRewarded * Denominator + x <= accrued[u]
    BY DEF Fits
  <2>7. Fits(Claimed(u), annualRewardRate, block, accrued[u]) <=>
            s.totalRewarded * Denominator + r * Denominator + 0 <= accrued[u]
    BY <2>2, <2>3, <2>4 DEF Fits
  <2> HIDE DEF x
  <2>8. Fits(s, annualRewardRate, block, accrued[u])
            => Fits(Claimed(u), annualRewardRate, block, accrued[u])
    BY <1>1, <1>2, <1>3, <2>5, <2>6, <2>7
  <2>9. QED
    BY <1>1, <1>3, <1>4, <2>2, <2>8 DEF s
<1>7. QED
  BY <1>5, <1>6

\* A stake whose blocks are all claimed fits with any amount and rate that its
\* rewards fit with.
LEMMA NothingUnclaimed ==
    ASSUME NEW a \in Nat, NEW rate \in Nat, NEW b \in Nat
    PROVE  a * rate * (b - b) = 0
BY ProductIsNat

\* A smaller stake has less unclaimed.
LEMMA SmallerFits ==
    ASSUME NEW d \in StakeData, NEW a \in Nat, a <= d.amount,
           NEW rate \in Nat, NEW b \in Nat, d.lastClaimBlock <= b,
           NEW earned \in Nat, Fits(d, rate, b, earned)
    PROVE  Fits([d EXCEPT !.amount = a], rate, b, earned)
<1> DEFINE k == b - d.lastClaimBlock
           e == [d EXCEPT !.amount = a]
<1>1. /\ d.amount \in Nat /\ d.lastClaimBlock \in Nat /\ d.totalRewarded \in Nat
      /\ k \in Nat /\ Denominator \in Nat
  BY StakingAssumption DEF StakeData
<1>2. e.amount = a /\ e.lastClaimBlock = d.lastClaimBlock
      /\ e.totalRewarded = d.totalRewarded
  BY DEF StakeData
<1>3. a * rate <= d.amount * rate /\ a * rate \in Nat /\ d.amount * rate \in Nat
  BY <1>1, LessOfFactor, ProductIsNat
<1>4. a * rate * k <= d.amount * rate * k
  BY <1>1, <1>3, LessOfFactor
<1>5. a * rate * k \in Nat /\ d.amount * rate * k \in Nat
      /\ d.totalRewarded * Denominator \in Nat
  BY <1>1, <1>3, ProductIsNat
<1>6. d.totalRewarded * Denominator + d.amount * rate * k <= earned
  BY DEF Fits
<1> HIDE DEF k
<1>7. d.totalRewarded * Denominator + a * rate * k <= earned
  BY <1>4, <1>5, <1>6
<1>8. QED
  BY <1>2, <1>7 DEF Fits, k, e

\* With all blocks claimed only the rewards count.
LEMMA AllClaimedFits ==
    ASSUME NEW d \in StakeData, NEW rate \in Nat, NEW b \in Nat, NEW earned \in Nat,
           d.lastClaimBlock = b
    PROVE  Fits(d, rate, b, earned) <=> d.totalRewarded * Denominator <= earned
<1>1. d.amount \in Nat /\ d.totalRewarded \in Nat /\ Denominator \in Nat
  BY StakingAssumption DEF StakeData
<1>2. d.amount * rate * (b - d.lastClaimBlock) = 0
  BY <1>1, NothingUnclaimed
<1>3. d.totalRewarded * Denominator \in Nat
  BY <1>1, ProductIsNat
<1>4. QED
  BY <1>2, <1>3 DEF Fits

LEMMA NoStakeFits ==
    /\ NoStake \in StakeData
    /\ \A rate \in Nat, b \in Nat : Fits(NoStake, rate, b, 0)
<1>1. NoStake.amount = 0 /\ NoStake.lastClaimBlock = 0 /\ NoStake.totalRewarded = 0
      /\ Denominator \in Nat
  BY StakingAssumption DEF NoStake
<1>2. \A rate \in Nat, b \in Nat : 0 * rate * (b - 0) = 0
  OBVIOUS
<1>3. 0 * Denominator = 0
  BY <1>1
<1>4. QED
  BY <1>1, <1>2, <1>3 DEF Fits, NoStake, StakeData

LEMMA StakeStep ==
    ASSUME RewardInv, NEW u \in Users, NEW v \in StakeAmounts, Stake(u, v)
    PROVE  RewardInv'
<1> DEFINE s == stakes[u]
           d == IF s.amount > 0 THEN [Claimed(u) EXCEPT !.amount = @ + v]
                ELSE [s EXCEPT !.amount = v, !.lastClaimBlock = block]
<1>1. /\ s \in StakeData /\ s.amount \in Nat /\ block \in Nat /\ v \in Nat /\ v > 0
      /\ annualRewardRate \in Nat /\ accrued[u] \in Nat
  BY StakingAssumption DEF RewardInv, StakesInv, StakeData
<1>2. /\ stakes' = [stakes EXCEPT ![u] = d]
      /\ UNCHANGED <<annualRewardRate, block, accrued>>
      /\ disturbed \subseteq disturbed'
      /\ s.amount > 0 /\ Claimed(u).lastClaimBlock < block => u \in disturbed'
  BY DEF Stake
<1>3. /\ d \in StakeData /\ d.lastClaimBlock <= block /\ d.amount > 0
      /\ u \notin disturbed' => Fits(d, annualRewardRate, block, accrued[u])
  <2>1. CASE s.amount > 0
    <3>1. /\ Claimed(u) \in StakeData /\ Claimed(u).amount = s.amount
          /\ Claimed(u).lastClaimBlock <= block
          /\ Fits(s, annualRewardRate, block, accrued[u])
                 => Fits(Claimed(u), annualRewardRate, block, accrued[u])
      BY ClaimFits DEF RewardInv
    <3>2. /\ d = [Claimed(u) EXCEPT !.amount = @ + v] /\ d \in StakeData
          /\ d.amount = s.amount + v /\ d.lastClaimBlock = Claimed(u).lastClaimBlock
          /\ d.totalRewarded = Claimed(u).totalRewarded
      BY <1>1, <2>1, <3>1 DEF StakeData
    <3>3. ASSUME u \notin disturbed'
          PROVE  Fits(d, annualRewardRate, block, accrued[u])
      <4>1. Fits(Claimed(u), annualRewardRate, block, accrued[u])
        BY <1>2, <3>1, <3>3 DEF RewardInv
      <4>2. Claimed(u).lastClaimBlock \in Nat
        BY <3>1 DEF StakeData
      <4>3. Claimed(u).lastClaimBlock = block
        BY <1>1, <1>2, <2>1, <3>1, <3>3, <4>2
      <4> HIDE DEF d
      <4>4. QED
        BY <1>1, <3>1, <3>2, <4>1, <4>3, AllClaimedFits
    <3> HIDE DEF d
    <3>4. QED
      BY <1>1, <3>1, <3>2, <3>3
  <2>2. CASE s.amount = 0
    <3>1. s = NoStake /\ accrued[u] = 0
      BY <2>2 DEF RewardInv, StakesInv
    <3>2. d = [amount |-> v, lastClaimBlock |-> block, totalRewarded |-> 0]
      <4>1. d = [s EXCEPT !.amount = v, !.lastClaimBlock = block]
        BY <2>2
      <4>2. d = [NoStake EXCEPT !.amount = v, !.lastClaimBlock = block]
        BY <3>1, <4>1
      <4> HIDE DEF d
      <4>3. QED
        BY <4>2 DEF NoStake
    <3> HIDE DEF d
    <3>3. d \in StakeData /\ d.lastClaimBlock = block /\ d.totalRewarded = 0 /\ d.amount = v
      BY <1>1, <3>2 DEF StakeData
    <3>4. 0 * Denominator = 0
      BY StakingAssumption
    <3>5. Fits(d, annualRewardRate, block, accrued[u])
      BY <1>1, <3>1, <3>3, <3>4, AllClaimedFits
    <3>6. QED
      BY <1>1, <3>3, <3>5
  <2>3. QED
    BY <1>1, <2>1, <2>2
<1> HIDE DEF d, s
<1>4. StakesInv'
  BY <1>1, <1>2, <1>3 DEF RewardInv, StakesInv
<1>5. \A w \in Users \ disturbed' :
          Fits(stakes'[w], annualRewardRate', block', accrued'[w])
  BY <1>2, <1>3 DEF RewardInv, StakesInv
<1>6. QED
  BY <1>4, <1>5 DEF RewardInv

LEMMA UnstakeStep ==
    ASSUME RewardInv, NEW u \in Users, NEW v \in StakeAmounts, Unstake(u, v)
    PROVE  RewardInv'
<1>1. /\ stakes[u] \in StakeData /\ stakes[u].amount \in Nat /\ block \in Nat
      /\ v \in Nat /\ v > 0 /\ stakes[u].amount >= v
      /\ annualRewardRate \in Nat /\ accrued[u] \in Nat
      /\ UNCHANGED <<annualRewardRate, block>>
  BY StakingAssumption DEF RewardInv, StakesInv, StakeData, Unstake
<1>2. CASE stakes[u].amount = v
  <2>1. /\ stakes' = [stakes EXCEPT ![u] = NoStake]
        /\ accrued' = [accrued EXCEPT ![u] = 0]
        /\ disturbed' = disturbed \ {u}
    BY <1>2 DEF Unstake
  <2>2. NoStake.lastClaimBlock <= block
    BY <1>1 DEF NoStake
  <2>3. StakesInv'
    BY <1>1, <2>1, <2>2, NoStakeFits DEF RewardInv, StakesInv
  <2>4. \A w \in Users \ disturbed' :
            Fits(stakes'[w], annualRewardRate', block', accrued'[w])
    BY <1>1, <2>1, NoStakeFits DEF RewardInv, StakesInv
  <2>5. QED
    BY <2>3, <2>4 DEF RewardInv
<1>3. CASE stakes[u].amount # v
  <2> DEFINE d == [Claimed(u) EXCEPT !.amount = @ - v]
  <2>1. /\ stakes' = [stakes EXCEPT ![u] = d]
        /\ UNCHANGED <<accrued, disturbed>>
    BY <1>3 DEF Unstake
  <2>2. /\ Claimed(u) \in StakeData /\ Claimed(u).amount = stakes[u].amount
        /\ Claimed(u).lastClaimBlock <= block
        /\ Fits(stakes[u], annualRewardRate, block, accrued[u])
               => Fits(Claimed(u), annualRewardRate, block, accrued[u])
    BY ClaimFits DEF RewardInv
  <2> DEFINE a == stakes[u].amount - v
  <2>3. a \in Nat /\ a > 0 /\ a <= Claimed(u).amount
    BY <1>1, <1>3, <2>2
  <2>4. d = [Claimed(u) EXCEPT !.amount = a]
    BY <2>2
  <2> HIDE DEF d, a
  <2>5. d \in StakeData /\ d.amount = a /\ d.lastClaimBlock = Claimed(u).lastClaimBlock
    BY <2>2, <2>3, <2>4 DEF StakeData
  <2>6. Fits(Claimed(u), annualRewardRate, block, accrued[u])
            => Fits(d, annualRewardRate, block, accrued[u])
    BY <1>1, <2>2, <2>3, <2>4, SmallerFits
  <2>7. StakesInv'
    BY <1>1, <2>1, <2>2, <2>3, <2>5 DEF RewardInv, StakesInv
  <2>8. \A w \in Users \ disturbed' :
            Fits(stakes'[w], annualRewardRate', block', accrued'[w])
    BY <1>1, <2>1, <2>2, <2>6 DEF RewardInv, StakesInv
  <2>9. QED
    BY <2>7, <2>8 DEF RewardInv
<1>4. QED
  BY <1>2, <1>3

LEMMA ClaimStep ==
    ASSUME RewardInv, NEW u \in Users, ClaimRewards(u)
    PROVE  RewardInv'
<1>1. /\ stakes' = [stakes EXCEPT ![u] = Claimed(u)] /\ stakes[u].amount > 0
      /\ UNCHANGED <<annualRewardRate, block, accrued, disturbed>>
  BY DEF ClaimRewards, CanClaim
<1>2. /\ Claimed(u) \in StakeData /\ Claimed(u).amount = stakes[u].amount
      /\ Claimed(u).lastClaimBlock <= block
      /\ Fits(stakes[u], annualRewardRate, block, accrued[u])
             => Fits(Claimed(u), annualRewardRate, block, accrued[u])
  BY ClaimFits DEF RewardInv
<1>3. StakesInv'
  BY <1>1, <1>2 DEF RewardInv, StakesInv
<1>4. \A w \in Users \ disturbed' :
          Fits(stakes'[w], annualRewardRate', block', accrued'[w])
  BY <1>1, <1>2 DEF RewardInv, StakesInv
<1>5. QED
  BY <1>3, <1>4 DEF RewardInv

LEMMA RateStep ==
    ASSUME RewardInv, NEW rate \in Rates, SetRewardRate(rate)
    PROVE  RewardInv'
<1>1. /\ rate \in Nat /\ annualRewardRate' = rate
      /\ UNCHANGED <<stakes, block, accrued>>
      /\ disturbed' = disturbed \cup
            {u \in Users : stakes[u].amount > 0 /\ stakes[u].lastClaimBlock < block}
  BY StakingAssumption DEF SetRewardRate
<1>2. StakesInv'
  BY <1>1 DEF RewardInv, StakesInv
<1>3. ASSUME NEW w \in Users \ disturbed'
      PROVE  Fits(stakes[w], rate, block, accrued[w])
  <2>1. /\ stakes[w] \in StakeData /\ stakes[w].lastClaimBlock <= block
        /\ stakes[w].lastClaimBlock \in Nat /\ stakes[w].amount \in Nat
        /\ block \in Nat /\ annualRewardRate \in Nat /\ accrued[w] \in Nat
        /\ w \notin disturbed
        /\ Fits(stakes[w], annualRewardRate, block, accrued[w])
    BY <1>1 DEF RewardInv, StakesInv, StakeData
  <2>2. CASE stakes[w].amount = 0
    BY <1>1, <2>1, <2>2, NoStakeFits DEF RewardInv, StakesInv
  <2>3. CASE stakes[w].lastClaimBlock = block
    BY <1>1, <2>1, <2>3, AllClaimedFits
  <2>4. stakes[w].amount = 0 \/ stakes[w].lastClaimBlock = block
    BY <1>1, <2>1
  <2>5. QED
    BY <2>2, <2>3, <2>4
<1>4. QED
  BY <1>1, <1>2, <1>3 DEF RewardInv

LEMMA MineStep ==
    ASSUME RewardInv, Mine
    PROVE  RewardInv'
<1>1. /\ block' = block + 1 /\ block \in Nat /\ annualRewardRate \in Nat
      /\ accrued' = [u \in Users |-> accrued[u] + stakes[u].amount * annualRewardRate]
      /\ UNCHANGED <<stakes, annualRewardRate, disturbed>>
  BY DEF Mine, RewardInv, StakesInv
<1>2. ASSUME NEW w \in Users
      PROVE  /\ accrued'[w] \in Nat
             /\ stakes[w].lastClaimBlock <= block + 1
             /\ stakes[w].amount = 0 => stakes[w] = NoStake /\ accrued'[w] = 0
             /\ Fits(stakes[w], annualRewardRate, block, accrued[w])
                    => Fits(stakes[w], annualRewardRate, block + 1, accrued'[w])
  <2> DEFINE a == stakes[w].amount
             k == block - stakes[w].lastClaimBlock
  <2>1. /\ a \in Nat /\ stakes[w].lastClaimBlock \in Nat /\ stakes[w].totalRewarded \in Nat
        /\ stakes[w].lastClaimBlock <= block /\ accrued[w] \in Nat
        /\ a = 0 => stakes[w] = NoStake /\ accrued[w] = 0
    BY DEF RewardInv, StakesInv, StakeData
  <2>2. accrued'[w] = accrued[w] + a * annualRewardRate
    BY <1>1
  <2>3. k \in Nat /\ (block + 1) - stakes[w].lastClaimBlock = k + 1
    BY <1>1, <2>1
  <2>4. a * annualRewardRate \in Nat /\ a * annualRewardRate * k \in Nat
        /\ stakes[w].totalRewarded * Denominator \in Nat
    BY <1>1, <2>1, <2>3, ProductIsNat, StakingAssumption
  <2>5. a * annualRewardRate * (k + 1) = a * annualRewardRate * k + a * annualRewardRate
    BY <1>1, <2>1, <2>3, OneMore
  <2>6. a = 0 => a * annualRewardRate = 0
    BY <1>1
  <2>7. Fits(stakes[w], annualRewardRate, block, accrued[w]) <=>
            stakes[w].totalRewarded * Denominator + a * annualRewardRate * k <= accrued[w]
    BY DEF Fits
  <2>8. Fits(stakes[w], annualRewardRate, block + 1, accrued'[w]) <=>
            stakes[w].totalRewarded * Denominator
                + (a * annualRewardRate * k + a * annualRewardRate)
                    <= accrued[w] + a * annualRewardRate
    <3>1. a * annualRewardRate * ((block + 1) - stakes[w].lastClaimBlock)
              = a * annualRewardRate * k + a * annualRewardRate
      BY <2>3, <2>5
    <3>2. Fits(stakes[w], annualRewardRate, block + 1, accrued'[w]) <=>
              stakes[w].totalRewarded * Denominator
                  + a * annualRewardRate * ((block + 1) - stakes[w].lastClaimBlock)
                      <= accrued'[w]
      BY DEF Fits
    <3> HIDE DEF a, k
    <3>3. QED
      BY <2>2, <3>1, <3>2
  <2> HIDE DEF k, a
  <2>9. Fits(stakes[w], annualRewardRate, block, accrued[w])
            => Fits(stakes[w], annualRewardRate, block + 1, accrued'[w])
    BY <2>1, <2>4, <2>7, <2>8
  <2>10. accrued'[w] \in Nat /\ stakes[w].lastClaimBlock <= block + 1
    BY <1>1, <2>1, <2>2, <2>4
  <2>11. a = 0 => stakes[w] = NoStake /\ accrued'[w] = 0
    BY <2>1, <2>2, <2>6
  <2>12. QED
    BY <2>9, <2>10, <2>11 DEF a
<1>3. StakesInv'
  <2>1. accrued' \in [Users -> Nat]
    BY <1>1, <1>2
  <2>2. QED
    BY <1>1, <1>2, <2>1 DEF RewardInv, StakesInv
<1>4. \A w \in Users \ disturbed' :
          Fits(stakes'[w], annualRewardRate', block', accrued'[w])
  BY <1>1, <1>2 DEF RewardInv
<1>5. QED
  BY <1>3, <1>4 DEF RewardInv

\* No block is paid for twice or before it is mined, for any stakers, amounts
\* and rates, as long as no new rate and no larger stake met blocks that were
\* not claimed (ETHStaking.sol:140-165).
THEOREM RewardsAlwaysFollowAccrual == StakingSpec => []RewardsFollowAccrual
<1>1. ASSUME StakingInit PROVE RewardInv
  <2>1. InitialRate \in Nat
    BY DEF InitialRate
  <2>2. \A u \in Users : stakes[u] = NoStake /\ accrued[u] = 0
    BY <1>1 DEF StakingInit
  <2>3. StakesInv
    BY <1>1, <2>1, <2>2, NoStakeFits DEF StakingInit, StakesInv, NoStake
  <2>4. QED
    BY <2>2, <2>3, NoStakeFits DEF RewardInv, StakesInv
<1>2. ASSUME RewardInv, [StakingNext]_stakingVars PROVE RewardInv'
  <2>1. ASSUME NEW v \in TeqAmounts, DepositRewards(v) \/ WithdrawTEQ(v)
        PROVE  RewardInv'
    BY <1>2, <2>1 DEF DepositRewards, WithdrawTEQ, RewardInv, StakesInv
  <2>2. CASE UNCHANGED stakingVars
    BY <1>2, <2>2 DEF stakingVars, RewardInv, StakesInv
  <2>3. QED
    BY <1>2, <2>1, <2>2, StakeStep, UnstakeStep, ClaimStep, RateStep, MineStep
       DEF StakingNext
<1>3. ASSUME RewardInv PROVE RewardsFollowAccrual
  <2>1. ASSUME NEW u \in Users \ disturbed
        PROVE  stakes[u].totalRewarded * Denominator
                   <= accrued[u] - stakes[u].amount * annualRewardRate
                                       * (block - stakes[u].lastClaimBlock)
    <3>1. /\ stakes[u].totalRewarded \in Nat /\ stakes[u].amount \in Nat
          /\ stakes[u].lastClaimBlock \in Nat /\ stakes[u].lastClaimBlock <= block
          /\ block \in Nat /\ annualRewardRate \in Nat /\ accrued[u] \in Nat
          /\ block - stakes[u].lastClaimBlock \in Nat
      BY <1>3 DEF RewardInv, StakesInv, StakeData
    <3>2. /\ stakes[u].totalRewarded * Denominator \in Nat
          /\ stakes[u].amount * annualRewardRate
                 * (block - stakes[u].lastClaimBlock) \in Nat
      BY <3>1, ProductIsNat, StakingAssumption
    <3>3. stakes[u].totalRewarded * Denominator
              + stakes[u].amount * annualRewardRate
                    * (block - stakes[u].lastClaimBlock) <= accrued[u]
      BY <1>3, <2>1 DEF RewardInv, Fits
    <3>4. QED
      BY <3>1, <3>2, <3>3
  <2>2. QED
    BY <2>1 DEF RewardsFollowAccrual
<1>4. QED
  BY <1>1, <1>2, <1>3, PTL DEF StakingSpec

----------------------------------------------------------------------------
(* The bridge *)

USE L2BridgeAssumption, NoWithdrawalAssumption, InitialPairsAssumption

----------------------------------------------------------------------------
(* Types *)

\* One unit more of an asset for a user keeps the type of the balances.
LEMMA UnitMore ==
    ASSUME holdings \in [L2Users -> [Assets -> Nat]],
           NEW user \in L2Users, NEW a \in Assets,
           holdings' = [holdings EXCEPT ![user][a] = @ + 1]
    PROVE  holdings' \in [L2Users -> [Assets -> Nat]]
<1> DEFINE more == [holdings[user] EXCEPT ![a] = @ + 1]
<1>1. holdings[user] \in [Assets -> Nat] /\ holdings[user][a] \in Nat
    OBVIOUS
<1>2. more \in [Assets -> Nat]
    BY <1>1
<1>3. holdings' = [holdings EXCEPT ![user] = more]
    OBVIOUS
<1> HIDE DEF more
<1> QED  BY <1>2, <1>3

\* What is paid out has the types of the balances.
LEMMA PayOutType ==
    ASSUME L2TypeOK, NEW token \in L1Tokens \cup {ETH}, NEW user \in L2Users,
           CanPayOut(token, user), PayOut(token, user)
    PROVE  ethHeld' \in Nat /\ holdings' \in [L2Users -> [Assets -> Nat]]
<1>0. holdings \in [L2Users -> [Assets -> Nat]]
    BY DEF L2TypeOK
<1>1. CASE token = ETH
    <2>1. ethHeld > 0 /\ ethHeld \in Nat
        BY <1>1 DEF CanPayOut, L2TypeOK
    <2>2. holdings' = [holdings EXCEPT ![user][ETH] = @ + 1] /\ ethHeld' = ethHeld - 1
        BY <1>1 DEF PayOut
    <2>3. ETH \in Assets
        BY DEF Assets
    <2> QED  BY <1>0, <2>1, <2>2, <2>3, UnitMore
<1>2. CASE token # ETH
    <2>1. l1ToL2Tokens[token] \in Assets
        BY <1>2 DEF CanPayOut, L2TypeOK, Assets
    <2>2. /\ holdings' = [holdings EXCEPT ![user][l1ToL2Tokens[token]] = @ + 1]
          /\ ethHeld' = ethHeld
        BY <1>2 DEF PayOut
    <2>3. ethHeld \in Nat
        BY DEF L2TypeOK
    <2> QED  BY <1>0, <2>1, <2>2, <2>3, UnitMore
<1> QED  BY <1>1, <1>2

LEMMA TypeInit == L2BridgeInit => L2TypeOK
<1> SUFFICES ASSUME L2BridgeInit PROVE L2TypeOK
    OBVIOUS
<1>1. l2ToL1Tokens \in [L2Tokens -> L1Tokens \cup {NoToken}]
    BY DEF L2BridgeInit, L2Init
<1>2. pairings \subseteq L1Tokens \X L2Tokens
    BY DEF L2BridgeInit, L2Init
<1>3. /\ rateLimit \in [enabled : BOOLEAN, window : Nat, max : Nat]
      /\ rateLimit.enabled => rateLimit.window > 0 /\ rateLimit.max > 0
    BY DEF L2BridgeInit, L2Init
<1>4. holdings \in [L2Users -> [Assets -> Nat]]
    BY DEF L2BridgeInit, L2Init
<1>5. l2Withdrawals \in [Nonces -> Withdrawal \cup {NoWithdrawal}]
    BY DEF L2BridgeInit, L2Init
<1>6. /\ quota \in [L2Users -> [start : Nat, count : Nat]]
      /\ refunds \in [Nonces -> Nat] /\ marks \in [Nonces -> Nat]
      /\ credits \in [DepositIds -> Nat]
    BY DEF L2BridgeInit, L2Init
<1>7. /\ l2Sequencer \in L2Callers /\ processedDeposits = {}
      /\ l1ToL2Tokens = InitialPairs /\ withdrawalNonce = 0 /\ limitedFrom = 0
      /\ ethHeld = EthFunding /\ l2Now = 1
    BY DEF L2BridgeInit, L2Init
<1>8. InitialPairs \in [L1Tokens -> L2Tokens \cup {NoToken}]
    OBVIOUS
<1> HIDE InitialPairsAssumption, NoWithdrawalAssumption
<1> QED  BY <1>1, <1>2, <1>3, <1>4, <1>5, <1>6, <1>7, <1>8 DEF L2TypeOK

LEMMA TypeStep == L2TypeOK /\ [L2Next]_l2Vars => L2TypeOK'
<1> SUFFICES ASSUME L2TypeOK, [L2Next]_l2Vars PROVE L2TypeOK'
    OBVIOUS
<1> USE DEF limitVars, pairVars, depositVars, withdrawVars, assetVars
<1>1. ASSUME NEW user \in L2Users, NEW asset \in Assets, InitiateWithdrawal(user, asset)
      PROVE L2TypeOK'
    <2>1. L1TokenOf(asset) \in L1Tokens \cup {ETH}
        BY <1>1 DEF InitiateWithdrawal, L1TokenOf, L2TypeOK, Assets
    <2>2. l2Withdrawals' \in [Nonces -> Withdrawal \cup {NoWithdrawal}]
        BY <1>1, <2>1 DEF InitiateWithdrawal, L2TypeOK, Withdrawal
    <2>3. quota' \in [L2Users -> [start : Nat, count : Nat]]
        <3>1. CASE ~rateLimit.enabled
            BY <1>1, <3>1 DEF InitiateWithdrawal, ConsumeWithdrawalQuota, CountedFrom, L2TypeOK
        <3>2. CASE rateLimit.enabled /\ WindowIsOver(user)
            BY <1>1, <3>2 DEF InitiateWithdrawal, ConsumeWithdrawalQuota, CountedFrom, L2TypeOK
        <3>3. CASE rateLimit.enabled /\ ~WindowIsOver(user)
            <4>1. quota' = [quota EXCEPT ![user].count = @ + 1]
                BY <1>1, <3>3 DEF InitiateWithdrawal, ConsumeWithdrawalQuota, CountedFrom
            <4>2. quota \in [L2Users -> [start : Nat, count : Nat]]
                BY DEF L2TypeOK
            <4> QED  BY <4>1, <4>2
        <3> QED  BY <3>1, <3>2, <3>3
    <2>4. holdings' \in [L2Users -> [Assets -> Nat]]
        BY <1>1 DEF InitiateWithdrawal, L2TypeOK
    <2> QED  BY <1>1, <2>2, <2>3, <2>4 DEF InitiateWithdrawal, L2TypeOK
<1>2. ASSUME NEW user \in L2Users, NEW n \in Nonces, CancelWithdrawal(user, n)
      PROVE L2TypeOK'
    <2>1. l2Withdrawals[n] \in Withdrawal
        BY <1>2 DEF CancelWithdrawal, Open, L2TypeOK
    <2>2. ethHeld' \in Nat /\ holdings' \in [L2Users -> [Assets -> Nat]]
        BY <1>2, <2>1, PayOutType DEF CancelWithdrawal, Withdrawal
    <2>3. l2Withdrawals' \in [Nonces -> Withdrawal \cup {NoWithdrawal}]
        BY <1>2, <2>1 DEF CancelWithdrawal, L2TypeOK, Withdrawal
    <2> QED  BY <1>2, <2>2, <2>3 DEF CancelWithdrawal, L2TypeOK
<1>3. ASSUME NEW caller \in L2Callers, NEW id \in DepositIds, ProcessDeposit(caller, id)
      PROVE L2TypeOK'
    <2>1. ethHeld' \in Nat /\ holdings' \in [L2Users -> [Assets -> Nat]]
        BY <1>3, PayOutType DEF ProcessDeposit, MayCredit
    <2> QED  BY <1>3, <2>1 DEF ProcessDeposit, L2TypeOK
<1>4. ASSUME NEW caller \in L2Callers, NEW n \in Nonces, MarkWithdrawalProcessed(caller, n)
      PROVE L2TypeOK'
    <2>1. l2Withdrawals[n] \in Withdrawal
        BY <1>4 DEF MarkWithdrawalProcessed, Open, L2TypeOK
    <2>2. l2Withdrawals' \in [Nonces -> Withdrawal \cup {NoWithdrawal}]
        BY <1>4, <2>1 DEF MarkWithdrawalProcessed, L2TypeOK, Withdrawal
    <2> QED  BY <1>4, <2>2 DEF MarkWithdrawalProcessed, L2TypeOK
<1>5. ASSUME NEW t \in L1Tokens, NEW s \in L2Tokens, AddTokenPair(t, s)
      PROVE L2TypeOK'
    BY <1>5 DEF AddTokenPair, L2TypeOK
<1>6. ASSUME NEW t \in L1Tokens, RemoveTokenPair(t)
      PROVE L2TypeOK'
    BY <1>6 DEF RemoveTokenPair, L2TypeOK
<1>7. ASSUME NEW caller \in L2Callers, UpdateSequencer(caller)
      PROVE L2TypeOK'
    BY <1>7 DEF UpdateSequencer, L2TypeOK
<1>8. ASSUME NEW n \in Nonces, InitializeWithdrawalNonce(n)
      PROVE L2TypeOK'
    BY <1>8 DEF InitializeWithdrawalNonce, L2TypeOK
<1>9. ASSUME NEW limit \in RateLimits, SetWithdrawalRateLimit(limit)
      PROVE L2TypeOK'
    BY <1>9 DEF SetWithdrawalRateLimit, L2TypeOK
<1>10. ASSUME Fund PROVE L2TypeOK'
    BY <1>10 DEF Fund, L2TypeOK
<1>11. ASSUME L2Elapse PROVE L2TypeOK'
    BY <1>11 DEF L2Elapse, L2TypeOK
<1>12. ASSUME UNCHANGED l2Vars PROVE L2TypeOK'
    BY <1>12 DEF l2Vars, L2TypeOK
<1> QED  BY <1>1, <1>2, <1>3, <1>4, <1>5, <1>6, <1>7, <1>8, <1>9, <1>10, <1>11, <1>12
         DEF L2Next, UserNext, SequencerNext, OwnerNext

\* Every variable of the bridge keeps its type through every function.
THEOREM L2TypeCorrect == L2Spec => []L2TypeOK
BY TypeInit, TypeStep, PTL DEF L2Spec

----------------------------------------------------------------------------
(* The token registry *)

LEMMA PairsInit == L2BridgeInit => PairsMatch
<1> SUFFICES ASSUME L2BridgeInit, NEW t \in L1Tokens, NEW s \in L2Tokens
             PROVE  l1ToL2Tokens[t] = s <=> l2ToL1Tokens[s] = t
    BY DEF PairsMatch
<1>1. CASE InitialPairs[t] = s
    <2>1. \A u \in L1Tokens : InitialPairs[u] = s => u = t
        BY <1>1
    <2> QED  BY <1>1, <2>1 DEF L2BridgeInit, L2Init
<1>2. CASE InitialPairs[t] # s
    BY <1>2 DEF L2BridgeInit, L2Init
<1> QED  BY <1>1, <1>2

LEMMA PairsStep == L2TypeOK /\ PairsMatch /\ [L2Next]_l2Vars => PairsMatch'
<1> SUFFICES ASSUME L2TypeOK, PairsMatch, [L2Next]_l2Vars PROVE PairsMatch'
    OBVIOUS
<1>1. ASSUME NEW l1 \in L1Tokens, NEW l2 \in L2Tokens, AddTokenPair(l1, l2)
      PROVE PairsMatch'
    BY <1>1 DEF AddTokenPair, PairsMatch, L2TypeOK
<1>2. ASSUME NEW l1 \in L1Tokens, RemoveTokenPair(l1)
      PROVE PairsMatch'
    <2>1. l1ToL2Tokens[l1] \in L2Tokens /\ l2ToL1Tokens[l1ToL2Tokens[l1]] = l1
        BY <1>2 DEF RemoveTokenPair, PairsMatch, L2TypeOK
    <2> QED  BY <1>2, <2>1 DEF RemoveTokenPair, PairsMatch, L2TypeOK
<1>3. ASSUME UNCHANGED <<l1ToL2Tokens, l2ToL1Tokens>> PROVE PairsMatch'
    BY <1>3 DEF PairsMatch
<1> QED  BY <1>1, <1>2, <1>3
         DEF L2Next, UserNext, SequencerNext, OwnerNext, l2Vars, pairVars,
             InitiateWithdrawal, CancelWithdrawal, ProcessDeposit,
             MarkWithdrawalProcessed, UpdateSequencer, InitializeWithdrawalNonce,
             SetWithdrawalRateLimit, Fund, L2Elapse

\* However the owner adds and removes pairs, the two directions agree.
THEOREM PairsAlwaysMatch == L2Spec => []PairsMatch
BY TypeInit, TypeStep, PairsInit, PairsStep, PTL DEF L2Spec

----------------------------------------------------------------------------
(* Withdrawals are settled once *)

\* A nonce that is not given out yet has no withdrawal.
NoncesAhead ==
    \A n \in Nonces : n >= withdrawalNonce => l2Withdrawals[n] = NoWithdrawal

SettledInv == NoncesAhead /\ SettledOnce

LEMMA SettledInit == L2BridgeInit => SettledInv
BY DEF L2BridgeInit, L2Init, SettledInv, NoncesAhead, SettledOnce, Open

LEMMA SettledStep == L2TypeOK /\ SettledInv /\ [L2Next]_l2Vars => SettledInv'
<1> SUFFICES ASSUME L2TypeOK, SettledInv, [L2Next]_l2Vars PROVE SettledInv'
    OBVIOUS
<1> USE DEF SettledInv, NoncesAhead, SettledOnce, Open
<1>1. ASSUME NEW user \in L2Users, NEW asset \in Assets, InitiateWithdrawal(user, asset)
      PROVE SettledInv'
    <2> DEFINE new == [token |-> L1TokenOf(asset), from |-> user,
                       timestamp |-> l2Now, processed |-> FALSE]
    <2>1. L1TokenOf(asset) \in L1Tokens \cup {ETH}
        BY <1>1 DEF InitiateWithdrawal, L1TokenOf, L2TypeOK, Assets
    <2>2. new # NoWithdrawal /\ ~new.processed
        <3>1. new \in Withdrawal
            BY <2>1 DEF Withdrawal, L2TypeOK
        <3>2. ~new.processed
            OBVIOUS
        <3> HIDE DEF new
        <3> QED  BY <3>1, <3>2
    <2>3. /\ withdrawalNonce \in Nonces /\ withdrawalNonce' = withdrawalNonce + 1
          /\ l2Withdrawals' = [l2Withdrawals EXCEPT ![withdrawalNonce] = new]
          /\ UNCHANGED <<refunds, marks>>
        BY <1>1 DEF InitiateWithdrawal
    <2> HIDE DEF new
    <2>4. NoncesAhead'
        BY <2>3 DEF L2TypeOK
    <2>5. ASSUME NEW n \in Nonces
          PROVE /\ refunds'[n] + marks'[n] <= 1
                /\ refunds'[n] + marks'[n] = 1 <=>
                       l2Withdrawals'[n] # NoWithdrawal /\ ~Open(n)'
        <3>1. CASE n = withdrawalNonce
            BY <2>2, <2>3, <3>1 DEF L2TypeOK
        <3>2. CASE n # withdrawalNonce
            BY <2>3, <3>2 DEF L2TypeOK
        <3> QED  BY <3>1, <3>2
    <2> QED  BY <2>4, <2>5
<1>2. ASSUME NEW user \in L2Users, NEW n \in Nonces, CancelWithdrawal(user, n)
      PROVE SettledInv'
    <2>1. l2Withdrawals[n] \in Withdrawal
        BY <1>2 DEF CancelWithdrawal, L2TypeOK
    <2>2. [l2Withdrawals[n] EXCEPT !.processed = TRUE] \in Withdrawal
        BY <2>1 DEF Withdrawal
    <2>3. /\ ~l2Withdrawals[n].processed
          /\ l2Withdrawals' = [l2Withdrawals EXCEPT ![n].processed = TRUE]
          /\ refunds' = [refunds EXCEPT ![n] = @ + 1]
          /\ UNCHANGED <<marks, withdrawalNonce>>
        BY <1>2 DEF CancelWithdrawal
    <2>4. /\ l2Withdrawals' \in [Nonces -> Withdrawal \cup {NoWithdrawal}]
          /\ l2Withdrawals'[n].processed
          /\ l2Withdrawals'[n] # NoWithdrawal /\ l2Withdrawals[n] # NoWithdrawal
          /\ \A k \in Nonces \ {n} : l2Withdrawals'[k] = l2Withdrawals[k]
        BY <2>1, <2>2, <2>3 DEF L2TypeOK, Withdrawal
    <2>5. NoncesAhead'
        BY <2>3, <2>4 DEF L2TypeOK
    <2>6. ASSUME NEW k \in Nonces
          PROVE /\ refunds'[k] + marks'[k] <= 1
                /\ refunds'[k] + marks'[k] = 1 <=>
                       l2Withdrawals'[k] # NoWithdrawal /\ ~Open(k)'
        <3>1. refunds[k] \in Nat /\ marks[k] \in Nat
            BY DEF L2TypeOK
        <3>2. refunds[n] + marks[n] = 0
            <4>1. refunds[n] \in Nat /\ marks[n] \in Nat
                BY DEF L2TypeOK
            <4>2. /\ refunds[n] + marks[n] <= 1
                  /\ refunds[n] + marks[n] = 1 => l2Withdrawals[n].processed
                OBVIOUS
            <4>3. ~l2Withdrawals[n].processed
                BY <2>3
            <4> QED  BY <4>1, <4>2, <4>3
        <3>3. CASE k = n
            BY <2>3, <2>4, <3>2, <3>3 DEF L2TypeOK
        <3>4. CASE k # n
            BY <2>3, <2>4, <3>1, <3>4 DEF L2TypeOK
        <3> QED  BY <3>3, <3>4
    <2> QED  BY <2>5, <2>6
<1>3. ASSUME NEW caller \in L2Callers, NEW n \in Nonces, MarkWithdrawalProcessed(caller, n)
      PROVE SettledInv'
    <2>1. l2Withdrawals[n] \in Withdrawal
        BY <1>3 DEF MarkWithdrawalProcessed, L2TypeOK
    <2>2. [l2Withdrawals[n] EXCEPT !.processed = TRUE] \in Withdrawal
        BY <2>1 DEF Withdrawal
    <2>3. /\ ~l2Withdrawals[n].processed
          /\ l2Withdrawals' = [l2Withdrawals EXCEPT ![n].processed = TRUE]
          /\ marks' = [marks EXCEPT ![n] = @ + 1]
          /\ UNCHANGED <<refunds, withdrawalNonce>>
        BY <1>3 DEF MarkWithdrawalProcessed
    <2>4. /\ l2Withdrawals' \in [Nonces -> Withdrawal \cup {NoWithdrawal}]
          /\ l2Withdrawals'[n].processed
          /\ l2Withdrawals'[n] # NoWithdrawal /\ l2Withdrawals[n] # NoWithdrawal
          /\ \A k \in Nonces \ {n} : l2Withdrawals'[k] = l2Withdrawals[k]
        BY <2>1, <2>2, <2>3 DEF L2TypeOK, Withdrawal
    <2>5. NoncesAhead'
        BY <2>3, <2>4 DEF L2TypeOK
    <2>6. ASSUME NEW k \in Nonces
          PROVE /\ refunds'[k] + marks'[k] <= 1
                /\ refunds'[k] + marks'[k] = 1 <=>
                       l2Withdrawals'[k] # NoWithdrawal /\ ~Open(k)'
        <3>1. refunds[k] \in Nat /\ marks[k] \in Nat
            BY DEF L2TypeOK
        <3>2. refunds[n] + marks[n] = 0
            <4>1. refunds[n] \in Nat /\ marks[n] \in Nat
                BY DEF L2TypeOK
            <4>2. /\ refunds[n] + marks[n] <= 1
                  /\ refunds[n] + marks[n] = 1 => l2Withdrawals[n].processed
                OBVIOUS
            <4>3. ~l2Withdrawals[n].processed
                BY <2>3
            <4> QED  BY <4>1, <4>2, <4>3
        <3>3. CASE k = n
            BY <2>3, <2>4, <3>2, <3>3 DEF L2TypeOK
        <3>4. CASE k # n
            BY <2>3, <2>4, <3>1, <3>4 DEF L2TypeOK
        <3> QED  BY <3>3, <3>4
    <2> QED  BY <2>5, <2>6
<1>4. ASSUME NEW n \in Nonces, InitializeWithdrawalNonce(n)
      PROVE SettledInv'
    BY <1>4 DEF InitializeWithdrawalNonce, L2TypeOK
<1>5. ASSUME UNCHANGED <<withdrawalNonce, l2Withdrawals, refunds, marks>>
      PROVE SettledInv'
    BY <1>5
<1> QED  BY <1>1, <1>2, <1>3, <1>4, <1>5
         DEF L2Next, UserNext, SequencerNext, OwnerNext, l2Vars, withdrawVars,
             ProcessDeposit, AddTokenPair, RemoveTokenPair, UpdateSequencer,
             SetWithdrawalRateLimit, Fund, L2Elapse

\* No withdrawal is given back twice, or given back and marked.
THEOREM SettledAtMostOnce == L2Spec => []SettledOnce
<1>1. SettledInv => SettledOnce
    BY DEF SettledInv
<1> QED  BY <1>1, TypeInit, TypeStep, SettledInit, SettledStep, PTL DEF L2Spec

----------------------------------------------------------------------------
(* What users own *)

Taken(user, F) == {n \in Withdrawn(user, F) : refunds[n] = 0}
Owned(user, F) == Cardinality(Credited(user, F)) - Cardinality(Taken(user, F))

\* A pair that is registered is among those registered so far.
PairsAreKnown ==
    \A t \in L1Tokens : l1ToL2Tokens[t] # NoToken => <<t, l1ToL2Tokens[t]>> \in pairings

\* What is counted is finite.
CountsAreFinite ==
    /\ IsFiniteSet(processedDeposits)
    /\ \A user \in L2Users : IsFiniteSet(Units(user, Assets))

\* No pair so far joins a token of F with an asset outside S, or one of S with
\* a token outside F.
Apart(F, S) == \A p \in Paired : p[1] \in F <=> p[2] \in S

\* What is apart is accounted for apart.
GroupsAreExact ==
    \A F \in SUBSET (L1Tokens \cup {ETH}), S \in SUBSET Assets, user \in L2Users :
        Apart(F, S) => Cardinality(Units(user, S)) = Owned(user, F)

AccountInv == CountsAreFinite /\ PairsAreKnown /\ GroupsAreExact

\* The sets that are counted are finite.
LEMMA AccountsAreFinite ==
    ASSUME L2TypeOK, NoncesAhead, CountsAreFinite, NEW user, NEW F
    PROVE  /\ IsFiniteSet(Credited(user, F)) /\ IsFiniteSet(Taken(user, F))
           /\ Cardinality(Credited(user, F)) \in Nat
           /\ Cardinality(Taken(user, F)) \in Nat
<1>1. IsFiniteSet(Credited(user, F))
  BY FS_Subset DEF Credited, CountsAreFinite
<1>2. IsFiniteSet(Taken(user, F))
  <2>1. Taken(user, F) \subseteq Nat /\ withdrawalNonce \in Nat
    BY DEF Taken, Withdrawn, L2TypeOK
  <2>2. \A n \in Taken(user, F) : n <= withdrawalNonce
    BY DEF Taken, Withdrawn, NoncesAhead, L2TypeOK
  <2> HIDE DEF Taken
  <2> QED  BY <2>1, <2>2, FS_BoundedSetOfNaturals
<1> QED  BY <1>1, <1>2, FS_CardinalityType

\* A unit of an asset of a user comes or goes.
UnitMoves(user, asset, k) ==
    holdings' = [holdings EXCEPT ![user][asset] = @ + k]

\* The units of some assets that a user holds are those of each of them.
LEMMA UnitsAre ==
    ASSUME NEW user, NEW S, NEW x
    PROVE  x \in Units(user, S) <=>
             \E a \in S : \E i \in 1..holdings[user][a] : x = <<a, i>>
BY DEF Units

\* The same of the units after a step.
LEMMA UnitsWillBe ==
    ASSUME NEW user, NEW S, NEW x
    PROVE  x \in Units(user, S)' <=>
             \E a \in S : \E i \in 1..holdings'[user][a] : x = <<a, i>>
BY DEF Units

\* A unit that comes or goes is counted where its asset is counted.
LEMMA UnitsCount ==
    ASSUME L2TypeOK, CountsAreFinite, NEW user \in L2Users, NEW asset \in Assets,
           NEW k \in {1, -1}, UnitMoves(user, asset, k),
           k = -1 => holdings[user][asset] > 0,
           NEW v \in L2Users, NEW S \in SUBSET Assets
    PROVE  /\ IsFiniteSet(Units(v, S))'
           /\ Cardinality(Units(v, S)) \in Nat
           /\ Cardinality(Units(v, S))' =
                IF v = user /\ asset \in S THEN Cardinality(Units(v, S)) + k
                                           ELSE Cardinality(Units(v, S))
<1>1. holdings \in [L2Users -> [Assets -> Nat]]
  BY DEF L2TypeOK
<1>2. \A u \in L2Users, a \in Assets :
         holdings'[u][a] = IF u = user /\ a = asset THEN holdings[u][a] + k
                                                    ELSE holdings[u][a]
  BY <1>1 DEF UnitMoves
<1>3. PICK h \in Nat : h = holdings[user][asset]
  BY <1>1
<1>4. IsFiniteSet(Units(v, S)) /\ Cardinality(Units(v, S)) \in Nat
  <2>1. Units(v, S) \subseteq Units(v, Assets)
    BY UnitsAre
  <2>2. IsFiniteSet(Units(v, Assets))
    BY DEF CountsAreFinite
  <2> QED  BY <2>1, <2>2, FS_Subset, FS_CardinalityType
<1>5. CASE ~(v = user /\ asset \in S)
  <2>1. \A a \in S : holdings'[v][a] = holdings[v][a]
    BY <1>2, <1>5
  <2>2. \A x : x \in Units(v, S)' <=> x \in Units(v, S)
    BY <2>1, UnitsAre, UnitsWillBe
  <2>3. Units(v, S)' = Units(v, S)
    BY <2>2
  <2> QED  BY <1>4, <1>5, <2>3
<1>6. CASE v = user /\ asset \in S /\ k = 1
  <2>1. holdings'[v][asset] = h + 1 /\ \A a \in S : a # asset => holdings'[v][a] = holdings[v][a]
    BY <1>2, <1>3, <1>6
  <2>2. \A x : x \in Units(v, S)' <=> x \in Units(v, S) \/ x = <<asset, h + 1>>
    <3>1. \A i : i \in 1..(h + 1) <=> i \in 1..h \/ i = h + 1
      OBVIOUS
    <3> QED  BY <1>3, <1>6, <2>1, <3>1, UnitsAre, UnitsWillBe
  <2>3. Units(v, S)' = Units(v, S) \cup {<<asset, h + 1>>}
    BY <2>2
  <2>4. <<asset, h + 1>> \notin Units(v, S)
    <3>1. h + 1 \notin 1..holdings[v][asset]
      BY <1>3, <1>6
    <3> QED  BY <3>1, UnitsAre
  <2> QED  BY <1>4, <1>6, <2>3, <2>4, FS_AddElement
<1>7. CASE v = user /\ asset \in S /\ k = -1
  <2>1. holdings'[v][asset] = h - 1 /\ \A a \in S : a # asset => holdings'[v][a] = holdings[v][a]
    BY <1>2, <1>3, <1>7
  <2>2. h > 0
    BY <1>3, <1>7
  <2>3. \A x : x \in Units(v, S)' <=> x \in Units(v, S) /\ x # <<asset, h>>
    <3>1. \A i : i \in 1..(h - 1) <=> i \in 1..h /\ i # h
      BY <2>2
    <3> QED  BY <1>3, <1>7, <2>1, <3>1, UnitsAre, UnitsWillBe
  <2>4. Units(v, S)' = Units(v, S) \ {<<asset, h>>}
    BY <2>3
  <2>5. <<asset, h>> \in Units(v, S)
    <3>1. h \in 1..holdings[v][asset]
      BY <1>3, <1>7, <2>2
    <3> QED  BY <1>7, <3>1, UnitsAre
  <2> QED  BY <1>4, <1>7, <2>4, <2>5, FS_RemoveElement
<1> QED  BY <1>5, <1>6, <1>7

\* A unit that comes or goes is accounted for.
LEMMA UnitsMove ==
    ASSUME L2TypeOK, AccountInv, UNCHANGED pairVars, IsFiniteSet(processedDeposits)',
           NEW user \in L2Users, NEW token, NEW asset \in Assets, NEW k \in {1, -1},
           <<token, asset>> \in Paired, UnitMoves(user, asset, k),
           k = -1 => holdings[user][asset] > 0,
           \A v \in L2Users, F \in SUBSET (L1Tokens \cup {ETH}) :
              Owned(v, F)' = IF v = user /\ token \in F THEN Owned(v, F) + k ELSE Owned(v, F)
    PROVE  AccountInv'
<1>1. PairsAreKnown'
  BY DEF AccountInv, PairsAreKnown, pairVars
<1>2. CountsAreFinite'
  <2>1. ASSUME NEW v \in L2Users, NEW S, S = Assets
        PROVE  IsFiniteSet(Units(v, S))'
    BY <2>1, UnitsCount DEF AccountInv
  <2>2. Assets' = Assets
    BY DEF Assets
  <2> QED  BY <2>1, <2>2 DEF CountsAreFinite
<1>3. ASSUME NEW F \in SUBSET (L1Tokens \cup {ETH}), NEW S \in SUBSET Assets,
             NEW v \in L2Users, Apart(F, S)'
      PROVE  Cardinality(Units(v, S))' = Owned(v, F)'
  <2>1. Apart(F, S)
    BY <1>3 DEF Apart, Paired, pairVars
  <2>2. token \in F <=> asset \in S
    BY <2>1 DEF Apart
  <2>3. Cardinality(Units(v, S)) = Owned(v, F)
    BY <2>1 DEF AccountInv, GroupsAreExact
  <2>4. Cardinality(Units(v, S))' =
            IF v = user /\ asset \in S THEN Cardinality(Units(v, S)) + k
                                       ELSE Cardinality(Units(v, S))
    BY UnitsCount DEF AccountInv
  <2> QED  BY <2>2, <2>3, <2>4
<1>4. GroupsAreExact'
  <2>1. Assets' = Assets
    BY DEF Assets
  <2> QED  BY <1>3, <2>1 DEF GroupsAreExact
<1> QED  BY <1>1, <1>2, <1>4 DEF AccountInv

\* What PayOut pays is a unit of the partner of the token.
LEMMA PayOutPays ==
    ASSUME L2TypeOK, PairsAreKnown, NEW token \in L1Tokens \cup {ETH}, NEW user \in L2Users,
           CanPayOut(token, user), PayOut(token, user)
    PROVE  \E asset \in Assets : <<token, asset>> \in Paired /\ UnitMoves(user, asset, 1)
<1>1. CASE token = ETH
  BY <1>1 DEF PayOut, Paired, Assets, UnitMoves
<1>2. CASE token # ETH
  <2>1. l1ToL2Tokens[token] \in Assets /\ <<token, l1ToL2Tokens[token]>> \in Paired
    BY <1>2 DEF CanPayOut, L2TypeOK, Assets, PairsAreKnown, Paired
  <2> QED  BY <1>2, <2>1 DEF PayOut, UnitMoves
<1> QED  BY <1>1, <1>2

\* A deposit that is credited is accounted for.
LEMMA CreditKeeps ==
    ASSUME L2TypeOK, SettledInv, AccountInv, NEW caller \in L2Callers, NEW id \in DepositIds,
           ProcessDeposit(caller, id)
    PROVE  AccountInv'
<1>1. PICK token \in L1Tokens \cup {ETH}, user \in L2Users :
         token = DepositOf[id].token /\ user = DepositOf[id].to
  OBVIOUS
<1>2. /\ id \notin processedDeposits /\ processedDeposits' = processedDeposits \cup {id}
      /\ CanPayOut(token, user) /\ PayOut(token, user)
      /\ UNCHANGED <<pairVars, l2Withdrawals, refunds>>
  BY <1>1 DEF ProcessDeposit, MayCredit, withdrawVars
<1>3. PICK asset \in Assets : <<token, asset>> \in Paired /\ UnitMoves(user, asset, 1)
  BY <1>2, PayOutPays DEF AccountInv
<1>4. IsFiniteSet(processedDeposits)'
  BY <1>2, FS_AddElement DEF AccountInv, CountsAreFinite
<1>5. ASSUME NEW v \in L2Users, NEW F \in SUBSET (L1Tokens \cup {ETH})
      PROVE  Owned(v, F)' = IF v = user /\ token \in F THEN Owned(v, F) + 1 ELSE Owned(v, F)
  <2>1. Taken(v, F)' = Taken(v, F)
    BY <1>2 DEF Withdrawn, Taken
  <2>2. /\ IsFiniteSet(Credited(v, F)) /\ Cardinality(Credited(v, F)) \in Nat
        /\ Cardinality(Taken(v, F)) \in Nat
    BY AccountsAreFinite DEF AccountInv, SettledInv
  <2>3. CASE v = user /\ token \in F
    <3>1. Credited(v, F)' = Credited(v, F) \cup {id} /\ id \notin Credited(v, F)
      BY <1>1, <1>2, <2>3 DEF Credited
    <3>2. Cardinality(Credited(v, F)') = Cardinality(Credited(v, F)) + 1
      BY <2>2, <3>1, FS_AddElement
    <3> QED  BY <2>1, <2>2, <2>3, <3>2 DEF Owned
  <2>4. CASE ~(v = user /\ token \in F)
    <3>1. Credited(v, F)' = Credited(v, F)
      BY <1>1, <1>2, <2>4 DEF Credited
    <3> QED  BY <2>1, <2>4, <3>1 DEF Owned
  <2> QED  BY <2>3, <2>4
<1>6. 1 \in {1, -1} /\ 1 # -1
  OBVIOUS
<1> QED  BY <1>2, <1>3, <1>4, <1>5, <1>6, UnitsMove

\* A withdrawal that its user takes back is accounted for.
LEMMA CancelKeeps ==
    ASSUME L2TypeOK, SettledInv, AccountInv, NEW user \in L2Users, NEW n \in Nonces,
           CancelWithdrawal(user, n)
    PROVE  AccountInv'
<1>1. PICK w \in Withdrawal : w = l2Withdrawals[n]
  BY DEF CancelWithdrawal, Open, L2TypeOK
<1>2. PICK token \in L1Tokens \cup {ETH} : token = w.token
  BY DEF Withdrawal
<1>3. PICK x : x = [w EXCEPT !.processed = TRUE]
  OBVIOUS
<1>4. x \in Withdrawal /\ x.from = w.from /\ x.token = w.token
  BY <1>3 DEF Withdrawal
<1>5. /\ w.from = user /\ ~w.processed /\ w # NoWithdrawal
      /\ l2Withdrawals' = [l2Withdrawals EXCEPT ![n] = x]
      /\ refunds' = [refunds EXCEPT ![n] = @ + 1]
      /\ CanPayOut(token, user) /\ PayOut(token, user)
      /\ UNCHANGED <<pairVars, processedDeposits, withdrawalNonce>>
  BY <1>1, <1>2, <1>3 DEF CancelWithdrawal, Open, depositVars
<1>6. PICK asset \in Assets : <<token, asset>> \in Paired /\ UnitMoves(user, asset, 1)
  BY <1>5, PayOutPays DEF AccountInv
<1>7. /\ l2Withdrawals'[n] = x /\ x # NoWithdrawal
      /\ \A m \in Nonces : m # n => l2Withdrawals'[m] = l2Withdrawals[m]
  BY <1>4, <1>5 DEF L2TypeOK
<1>8. refunds[n] = 0 /\ refunds'[n] = 1 /\ \A m \in Nonces : m # n => refunds'[m] = refunds[m]
  <2>1. refunds[n] \in Nat /\ marks[n] \in Nat
    BY DEF L2TypeOK
  <2>2. refunds[n] + marks[n] # 1 /\ refunds[n] + marks[n] <= 1
    BY <1>1, <1>5 DEF SettledInv, SettledOnce, Open
  <2>3. refunds[n] = 0
    BY <2>1, <2>2
  <2> QED  BY <1>5, <2>3 DEF L2TypeOK
<1>9. \A v, F : Withdrawn(v, F)' = Withdrawn(v, F)
  BY <1>1, <1>4, <1>5, <1>7 DEF Withdrawn
<1>10. ASSUME NEW v \in L2Users, NEW F \in SUBSET (L1Tokens \cup {ETH})
       PROVE  Owned(v, F)' = IF v = user /\ token \in F THEN Owned(v, F) + 1 ELSE Owned(v, F)
  <2>1. Credited(v, F)' = Credited(v, F)
    BY <1>5 DEF Credited
  <2>2. /\ IsFiniteSet(Taken(v, F)) /\ Cardinality(Taken(v, F)) \in Nat
        /\ Cardinality(Credited(v, F)) \in Nat
    BY AccountsAreFinite DEF AccountInv, SettledInv
  <2>3. n \in Withdrawn(v, F) <=> v = user /\ token \in F
    BY <1>1, <1>2, <1>5 DEF Withdrawn
  <2>4. ASSUME NEW m PROVE m \in Taken(v, F)' <=> m \in Taken(v, F) /\ m # n
    <3>1. m \in Taken(v, F)' <=> m \in Withdrawn(v, F) /\ refunds'[m] = 0
      BY <1>9 DEF Taken
    <3>2. m \in Taken(v, F) <=> m \in Withdrawn(v, F) /\ refunds[m] = 0
      BY DEF Taken
    <3>3. m \in Withdrawn(v, F) => m \in Nonces
      BY DEF Withdrawn
    <3>4. m \in Nonces => (refunds'[m] = 0 <=> refunds[m] = 0 /\ m # n)
      BY <1>8
    <3> QED  BY <3>1, <3>2, <3>3, <3>4
  <2>5. CASE v = user /\ token \in F
    <3>1. n \in Taken(v, F) /\ Taken(v, F)' = Taken(v, F) \ {n}
      BY <1>8, <2>3, <2>4, <2>5 DEF Taken
    <3>2. Cardinality(Taken(v, F)') = Cardinality(Taken(v, F)) - 1
      BY <2>2, <3>1, FS_RemoveElement
    <3> QED  BY <2>1, <2>2, <2>5, <3>2 DEF Owned
  <2>6. CASE ~(v = user /\ token \in F)
    <3>1. n \notin Taken(v, F)
      BY <2>3, <2>6 DEF Taken
    <3>2. Taken(v, F)' = Taken(v, F)
      BY <2>4, <3>1 DEF Taken
    <3> QED  BY <2>1, <2>6, <3>2 DEF Owned
  <2> QED  BY <2>5, <2>6
<1>11. IsFiniteSet(processedDeposits)'
  BY <1>5 DEF AccountInv, CountsAreFinite
<1>12. 1 \in {1, -1} /\ 1 # -1
  OBVIOUS
<1> QED  BY <1>5, <1>6, <1>10, <1>11, <1>12, UnitsMove

\* A withdrawal that is made is accounted for.
LEMMA InitiateKeeps ==
    ASSUME L2TypeOK, PairsMatch, SettledInv, AccountInv, NEW user \in L2Users,
           NEW asset \in Assets, InitiateWithdrawal(user, asset)
    PROVE  AccountInv'
<1>1. PICK token : token = L1TokenOf(asset)
  OBVIOUS
<1>2. token \in L1Tokens \cup {ETH} /\ <<token, asset>> \in Paired
  <2>1. CASE asset = ETH
    BY <1>1, <2>1 DEF L1TokenOf, Paired
  <2>2. CASE asset # ETH
    <3>1. asset \in L2Tokens /\ token = l2ToL1Tokens[asset] /\ token \in L1Tokens
      BY <1>1, <2>2 DEF InitiateWithdrawal, L1TokenOf, Assets, L2TypeOK
    <3>2. l1ToL2Tokens[token] = asset /\ asset # NoToken
      BY <3>1 DEF PairsMatch
    <3> QED  BY <3>1, <3>2 DEF AccountInv, PairsAreKnown, Paired
  <2> QED  BY <2>1, <2>2
<1>3. PICK n \in Nonces : n = withdrawalNonce
  BY DEF InitiateWithdrawal
<1>4. PICK w : w = [token |-> token, from |-> user, timestamp |-> l2Now, processed |-> FALSE]
  OBVIOUS
<1>5. w \in Withdrawal /\ w.from = user /\ w.token = token /\ w # NoWithdrawal
  <2>1. w \in Withdrawal
    BY <1>2, <1>4 DEF Withdrawal, L2TypeOK
  <2> QED  BY <1>4, <2>1
<1>6. /\ holdings' = [holdings EXCEPT ![user][asset] = @ - 1]
      /\ l2Withdrawals' = [l2Withdrawals EXCEPT ![n] = w]
      /\ UNCHANGED <<pairVars, processedDeposits, refunds>>
  BY <1>1, <1>3, <1>4 DEF InitiateWithdrawal, depositVars
<1>7. /\ l2Withdrawals'[n] = w
      /\ \A m \in Nonces : m # n => l2Withdrawals'[m] = l2Withdrawals[m]
  BY <1>6 DEF L2TypeOK
<1>8. l2Withdrawals[n] = NoWithdrawal /\ refunds[n] = 0
  <2>1. l2Withdrawals[n] = NoWithdrawal
    BY <1>3 DEF SettledInv, NoncesAhead, L2TypeOK
  <2>2. refunds[n] \in Nat /\ marks[n] \in Nat
    BY DEF L2TypeOK
  <2>3. refunds[n] + marks[n] # 1 /\ refunds[n] + marks[n] <= 1
    BY <2>1 DEF SettledInv, SettledOnce
  <2> QED  BY <2>1, <2>2, <2>3
<1>9. ASSUME NEW v \in L2Users, NEW F \in SUBSET (L1Tokens \cup {ETH})
      PROVE  Owned(v, F)' = IF v = user /\ token \in F THEN Owned(v, F) + (-1)
                                                       ELSE Owned(v, F)
  <2>1. Credited(v, F)' = Credited(v, F)
    BY <1>6 DEF Credited
  <2>2. /\ IsFiniteSet(Taken(v, F)) /\ Cardinality(Taken(v, F)) \in Nat
        /\ Cardinality(Credited(v, F)) \in Nat
    BY AccountsAreFinite DEF AccountInv, SettledInv
  <2>3. n \notin Taken(v, F)
    BY <1>8 DEF Taken, Withdrawn
  <2>4. CASE v = user /\ token \in F
    <3>1. Taken(v, F)' = Taken(v, F) \cup {n}
      BY <1>5, <1>6, <1>7, <1>8, <2>4 DEF Taken, Withdrawn
    <3>2. Cardinality(Taken(v, F)') = Cardinality(Taken(v, F)) + 1
      BY <2>2, <2>3, <3>1, FS_AddElement
    <3> QED  BY <2>1, <2>2, <2>4, <3>2 DEF Owned
  <2>5. CASE ~(v = user /\ token \in F)
    <3>1. Taken(v, F)' = Taken(v, F)
      BY <1>5, <1>6, <1>7, <1>8, <2>5 DEF Taken, Withdrawn
    <3> QED  BY <2>1, <2>5, <3>1 DEF Owned
  <2> QED  BY <2>4, <2>5
<1>10. IsFiniteSet(processedDeposits)'
  BY <1>6 DEF AccountInv, CountsAreFinite
<1>11. UnitMoves(user, asset, -1) /\ holdings[user][asset] > 0
  <2>1. holdings \in [L2Users -> [Assets -> Nat]]
    BY DEF L2TypeOK
  <2>2. holdings[user][asset] > 0
    BY DEF InitiateWithdrawal
  <2>3. holdings[user][asset] - 1 = holdings[user][asset] + (-1)
    BY <2>1
  <2> QED  BY <1>6, <2>2, <2>3 DEF UnitMoves
<1>12. -1 \in {1, -1}
  OBVIOUS
<1> QED  BY <1>2, <1>6, <1>9, <1>10, <1>11, <1>12, UnitsMove

\* Nothing that is accounted for changes: a further pair only joins more tokens.
LEMMA AccountsRest ==
    ASSUME AccountInv, UNCHANGED <<processedDeposits, refunds, holdings>>,
           pairings \subseteq pairings', PairsAreKnown',
           \A n \in Nonces :
              /\ l2Withdrawals'[n] = NoWithdrawal <=> l2Withdrawals[n] = NoWithdrawal
              /\ l2Withdrawals[n] # NoWithdrawal =>
                    /\ l2Withdrawals'[n].from = l2Withdrawals[n].from
                    /\ l2Withdrawals'[n].token = l2Withdrawals[n].token
    PROVE  AccountInv'
<1>1. \A v, F : /\ Credited(v, F)' = Credited(v, F) /\ Units(v, F)' = Units(v, F)
               /\ Withdrawn(v, F)' = Withdrawn(v, F)
  <2>1. \A v, F : Credited(v, F)' = Credited(v, F) /\ Units(v, F)' = Units(v, F)
    BY DEF Credited, Units
  <2>2. ASSUME NEW v, NEW F PROVE Withdrawn(v, F)' = Withdrawn(v, F)
    <3>1. ASSUME NEW n \in Nonces
          PROVE  n \in Withdrawn(v, F)' <=> n \in Withdrawn(v, F)
      BY DEF Withdrawn
    <3>2. Withdrawn(v, F)' \subseteq Nonces /\ Withdrawn(v, F) \subseteq Nonces
      BY DEF Withdrawn
    <3> QED  BY <3>1, <3>2
  <2> QED  BY <2>1, <2>2
<1>2. CountsAreFinite'
  BY <1>1 DEF AccountInv, CountsAreFinite, Assets
<1>3. \A F, S : Apart(F, S)' => Apart(F, S)
  BY DEF Apart, Paired
<1>4. \A v, F : Owned(v, F)' = Owned(v, F)
  BY <1>1 DEF Owned, Taken
<1>5. GroupsAreExact'
  BY <1>1, <1>3, <1>4 DEF AccountInv, GroupsAreExact, Assets
<1> QED  BY <1>2, <1>5 DEF AccountInv

\* A pair that is registered joins tokens that are then accounted for together.
LEMMA AddPairKeeps ==
    ASSUME L2TypeOK, AccountInv, NEW t \in L1Tokens, NEW s \in L2Tokens, AddTokenPair(t, s)
    PROVE  AccountInv'
<1>1. /\ l1ToL2Tokens' = [l1ToL2Tokens EXCEPT ![t] = s] /\ pairings' = pairings \cup {<<t, s>>}
      /\ UNCHANGED <<processedDeposits, l2Withdrawals, refunds, holdings>>
  BY DEF AddTokenPair, depositVars, withdrawVars, assetVars
<1>2. PairsAreKnown'
  BY <1>1 DEF AccountInv, PairsAreKnown, L2TypeOK
<1> QED  BY <1>1, <1>2, AccountsRest

\* Every step of the contract keeps the accounts.
LEMMA AccountStep ==
    ASSUME L2TypeOK, PairsMatch, SettledInv, AccountInv, [L2Next]_l2Vars
    PROVE  AccountInv'
<1>1. ASSUME NEW caller \in L2Callers, NEW n \in Nonces, MarkWithdrawalProcessed(caller, n)
      PROVE  AccountInv'
  <2>1. PICK w \in Withdrawal : w = l2Withdrawals[n]
    BY <1>1 DEF MarkWithdrawalProcessed, Open, L2TypeOK
  <2>2. PICK x : x = [w EXCEPT !.processed = TRUE]
    OBVIOUS
  <2>3. x \in Withdrawal /\ x.from = w.from /\ x.token = w.token
    BY <2>2 DEF Withdrawal
  <2>4. /\ l2Withdrawals' = [l2Withdrawals EXCEPT ![n] = x]
        /\ UNCHANGED <<pairVars, processedDeposits, refunds, holdings>>
    BY <1>1, <2>1, <2>2 DEF MarkWithdrawalProcessed, depositVars, assetVars
  <2>5. l2Withdrawals'[n] = x /\ \A m \in Nonces : m # n => l2Withdrawals'[m] = l2Withdrawals[m]
    BY <2>4 DEF L2TypeOK
  <2>6. PairsAreKnown'
    BY <2>4 DEF AccountInv, PairsAreKnown, pairVars
  <2>7. x # NoWithdrawal /\ w # NoWithdrawal
    BY <2>1, <2>3
  <2> QED  BY <2>1, <2>3, <2>4, <2>5, <2>6, <2>7, AccountsRest DEF pairVars
<1>2. ASSUME NEW t \in L1Tokens, RemoveTokenPair(t) PROVE AccountInv'
  <2>1. /\ l1ToL2Tokens' = [l1ToL2Tokens EXCEPT ![t] = NoToken]
        /\ UNCHANGED <<processedDeposits, refunds, holdings, pairings, l2Withdrawals>>
    BY <1>2 DEF RemoveTokenPair, depositVars, withdrawVars, assetVars
  <2>2. PairsAreKnown'
    BY <2>1 DEF AccountInv, PairsAreKnown, L2TypeOK
  <2> QED  BY <2>1, <2>2, AccountsRest
<1>3. ASSUME UNCHANGED <<processedDeposits, refunds, holdings, pairVars, l2Withdrawals>>
      PROVE  AccountInv'
  <2>1. PairsAreKnown'
    BY <1>3 DEF AccountInv, PairsAreKnown, pairVars
  <2> QED  BY <1>3, <2>1, AccountsRest DEF pairVars
<1>4. CASE OwnerNext
  <2>1. ASSUME NEW caller \in L2Callers, UpdateSequencer(caller) PROVE AccountInv'
    BY <1>3, <2>1 DEF UpdateSequencer, depositVars, withdrawVars, assetVars
  <2>2. ASSUME NEW n \in Nonces, InitializeWithdrawalNonce(n) PROVE AccountInv'
    BY <1>3, <2>2 DEF InitializeWithdrawalNonce, depositVars, assetVars
  <2>3. ASSUME NEW limit \in RateLimits, SetWithdrawalRateLimit(limit) PROVE AccountInv'
    BY <1>3, <2>3 DEF SetWithdrawalRateLimit, depositVars, assetVars
  <2> QED  BY <1>2, <1>4, <2>1, <2>2, <2>3, AddPairKeeps DEF OwnerNext
<1>5. CASE UserNext
  BY <1>5, InitiateKeeps, CancelKeeps DEF UserNext
<1>6. CASE SequencerNext
  BY <1>1, <1>6, CreditKeeps DEF SequencerNext
<1>7. CASE Fund \/ L2Elapse
  BY <1>3, <1>7 DEF Fund, L2Elapse, depositVars, withdrawVars, assetVars
<1>8. CASE UNCHANGED l2Vars
  BY <1>3, <1>8 DEF l2Vars, depositVars, withdrawVars, assetVars
<1> QED  BY <1>4, <1>5, <1>6, <1>7, <1>8 DEF L2Next

\* At the start nobody has anything.
LEMMA AccountInit == L2BridgeInit => AccountInv
<1> SUFFICES ASSUME L2BridgeInit PROVE AccountInv
  OBVIOUS
<1>1. /\ processedDeposits = {} /\ l1ToL2Tokens = InitialPairs
      /\ pairings = {<<t, InitialPairs[t]>> : t \in {u \in L1Tokens : InitialPairs[u] # NoToken}}
      /\ l2Withdrawals = [n \in Nonces |-> NoWithdrawal]
      /\ holdings = [u \in L2Users |-> [a \in Assets |-> 0]]
  BY DEF L2BridgeInit, L2Init
<1>2. IsFiniteSet({}) /\ Cardinality({}) = 0
  BY FS_EmptySet
<1>3. \A v, F : Credited(v, F) = {} /\ Taken(v, F) = {}
  BY <1>1 DEF Credited, Withdrawn, Taken
<1>4. \A v \in L2Users, S \in SUBSET Assets : Units(v, S) = {}
  <2> SUFFICES ASSUME NEW v \in L2Users, NEW S \in SUBSET Assets PROVE Units(v, S) = {}
    OBVIOUS
  <2>1. \A a \in S : 1..holdings[v][a] = {}
    BY <1>1
  <2>2. \A x : x \notin Units(v, S)
    BY <2>1, UnitsAre
  <2> QED  BY <2>2
<1>5. PairsAreKnown
  BY <1>1 DEF PairsAreKnown
<1>6. CountsAreFinite
  BY <1>1, <1>2, <1>4 DEF CountsAreFinite
<1>7. GroupsAreExact
  <2> SUFFICES ASSUME NEW v \in L2Users, NEW F, NEW S \in SUBSET Assets
               PROVE  Cardinality(Units(v, S)) =
                        Cardinality(Credited(v, F)) - Cardinality(Taken(v, F))
    BY DEF GroupsAreExact, Owned
  <2>1. /\ Cardinality(Units(v, S)) = 0 /\ Cardinality(Credited(v, F)) = 0
        /\ Cardinality(Taken(v, F)) = 0
    BY <1>2, <1>3, <1>4
  <2> QED  BY <2>1
<1> QED  BY <1>5, <1>6, <1>7 DEF AccountInv

\* Tokens that no pair joins with others are a group, with the assets that had
\* no partner among those others.
LEMMA GroupsAreAccounts == ASSUME L2TypeOK, AccountInv PROVE AccountsAreExact
<1> SUFFICES ASSUME NEW F \in SUBSET (L1Tokens \cup {ETH}), NEW user \in L2Users,
                    \A p \in Paired : p[1] \in F => p[2] \in PartnersWithin(F)
             PROVE  Cardinality(Units(user, PartnersWithin(F))) = Owned(user, F)
  BY DEF AccountsAreExact, Owned, Taken
<1>1. PartnersWithin(F) \in SUBSET Assets
  BY DEF PartnersWithin
<1>2. Apart(F, PartnersWithin(F))
  BY DEF Apart, PartnersWithin
<1> QED  BY <1>1, <1>2 DEF AccountInv, GroupsAreExact

\* What a user owns is what was deposited for the user, less what the user
\* withdrew and did not take back (L2BridgeV3.sol:139-235): of ETH, of a token
\* whose wrapped token never had another partner, and of tokens that changed
\* partners taken together, for any tokens, users and deposits, and whatever
\* pairs the owner adds and removes.
THEOREM AccountsAlwaysExact == L2Spec => []AccountsAreExact
<1>1. L2TypeOK /\ AccountInv => AccountsAreExact
  BY GroupsAreAccounts
<1> QED
  BY <1>1, TypeInit, TypeStep, PairsInit, PairsStep, SettledInit, SettledStep, AccountInit,
     AccountStep, PTL DEF L2Spec

----------------------------------------------------------------------------
(* The rate limit *)

\* Of withdrawals made at the times T: those of a stretch, and those since a time.
Span(T, a, b) == {n \in DOMAIN T : T[n] \in a..b}
Since(T, a) == {n \in DOMAIN T : T[n] >= a}

\* What a window that began at s with c withdrawals says of all of them: those
\* before it fill no stretch of a window's length, and those that share a
\* stretch with the window leave room for it.
Counted(T, s, c, w, m) ==
    /\ \A n \in DOMAIN T : T[n] < s + w
    /\ Cardinality(Since(T, s)) <= c
    /\ s # 0 => Cardinality(Since(T, s + 1)) <= c - 1
    /\ Since(T, s) # {} => c <= m
    /\ \A a \in Nat :
          /\ a + w <= s => Cardinality(Span(T, a, a + w - 1)) <= 2 * m - 1
          /\ a + w > s => Cardinality(Span(T, a, s - 1)) <= m - 1

IsTimed(T) == IsFiniteSet(DOMAIN T) /\ \A n \in DOMAIN T : T[n] \in Nat

LEMMA SpansAreFinite ==
    ASSUME NEW T, IsTimed(T)
    PROVE  /\ \A a, b : IsFiniteSet(Span(T, a, b)) /\ Cardinality(Span(T, a, b)) \in Nat
           /\ \A a : IsFiniteSet(Since(T, a)) /\ Cardinality(Since(T, a)) \in Nat
<1>1. \A S \in SUBSET DOMAIN T : IsFiniteSet(S) /\ Cardinality(S) \in Nat
  BY FS_Subset, FS_CardinalityType DEF IsTimed
<1>2. \A a, b : Span(T, a, b) \in SUBSET DOMAIN T
  BY DEF Span
<1>3. \A a : Since(T, a) \in SUBSET DOMAIN T
  BY DEF Since
<1> QED  BY <1>1, <1>2, <1>3

LEMMA FewerInSubset ==
    ASSUME NEW S, NEW U, IsFiniteSet(U), S \subseteq U
    PROVE  IsFiniteSet(S) /\ Cardinality(S) <= Cardinality(U)
           /\ Cardinality(S) \in Nat /\ Cardinality(U) \in Nat
BY FS_Subset, FS_CardinalityType

LEMMA NoneIsNone == Cardinality({}) = 0
BY FS_EmptySet

LEMMA NoneCounted ==
    ASSUME NEW T, DOMAIN T = {}, NEW s \in Nat, NEW c \in Nat, NEW w \in Nat, NEW m \in Nat \ {0},
           s = 0 <=> c = 0
    PROVE  Counted(T, s, c, w, m)
<1>1. \A a, b : Span(T, a, b) = {}
  BY DEF Span
<1>2. \A a : Since(T, a) = {}
  BY DEF Since
<1>3. 0 <= 2 * m - 1 /\ 0 <= m - 1 /\ 0 <= c /\ (s # 0 => 0 <= c - 1)
  OBVIOUS
<1>4. /\ \A a, b : Cardinality(Span(T, a, b)) = 0
      /\ \A a : Cardinality(Since(T, a)) = 0
  BY <1>1, <1>2, NoneIsNone
<1>5. \A a \in Nat :
         /\ a + w <= s => Cardinality(Span(T, a, a + w - 1)) <= 2 * m - 1
         /\ a + w > s => Cardinality(Span(T, a, s - 1)) <= m - 1
  BY <1>3, <1>4
<1>6. Cardinality(Since(T, s)) <= c /\ (s # 0 => Cardinality(Since(T, s + 1)) <= c - 1)
  BY <1>3, <1>4
<1> QED  BY <1>2, <1>5, <1>6 DEF Counted

\* No stretch of a window's length holds twice the maximum.
LEMMA CountedIsBounded ==
    ASSUME NEW T, IsTimed(T), NEW s \in Nat, NEW c \in Nat, NEW w \in Nat, NEW m \in Nat \ {0},
           Counted(T, s, c, w, m), NEW a \in Nat
    PROVE  Cardinality(Span(T, a, a + w - 1)) <= 2 * m - 1
<1>1. CASE a + w <= s
  BY <1>1 DEF Counted
<1>2. CASE a + w > s
  <2>1. Cardinality(Span(T, a, s - 1)) <= m - 1
    BY <1>2 DEF Counted
  <2>2. Cardinality(Since(T, s)) <= m
    <3>1. CASE Since(T, s) = {}
      BY <3>1, FS_EmptySet
    <3>2. CASE Since(T, s) # {}
      <4>1. Cardinality(Since(T, s)) <= c /\ c <= m
        BY <3>2 DEF Counted
      <4> QED  BY <4>1, SpansAreFinite
    <3> QED  BY <3>1, <3>2
  <2>3. Span(T, a, a + w - 1) \subseteq Span(T, a, s - 1) \cup Since(T, s)
    BY DEF Span, Since, IsTimed
  <2>4. PICK A, B : A = Span(T, a, s - 1) /\ B = Since(T, s)
    OBVIOUS
  <2>5. IsFiniteSet(A) /\ IsFiniteSet(B) /\ Cardinality(A) \in Nat /\ Cardinality(B) \in Nat
    BY <2>4, SpansAreFinite
  <2>6. /\ IsFiniteSet(A \cup B) /\ Cardinality(A \cap B) \in Nat
        /\ Cardinality(A \cup B) = Cardinality(A) + Cardinality(B) - Cardinality(A \cap B)
    BY <2>5, FS_Union, FS_Intersection, FS_CardinalityType
  <2>7. /\ Cardinality(Span(T, a, a + w - 1)) <= Cardinality(A \cup B)
        /\ Cardinality(Span(T, a, a + w - 1)) \in Nat
    BY <2>3, <2>4, <2>6, FewerInSubset
  <2>8. Cardinality(A) <= m - 1 /\ Cardinality(B) <= m
    BY <2>1, <2>2, <2>4
  <2> QED  BY <2>5, <2>6, <2>7, <2>8
<1> QED  BY <1>1, <1>2

\* One more withdrawal, the last so far.
LEMMA OneMoreTimed ==
    ASSUME NEW T, IsTimed(T), NEW n, n \notin DOMAIN T, NEW now \in Nat,
           NEW U, DOMAIN U = DOMAIN T \cup {n}, U[n] = now, \A k \in DOMAIN T : U[k] = T[k]
    PROVE  /\ IsTimed(U)
           /\ \A a, b \in Int : b < now => Span(U, a, b) = Span(T, a, b)
           /\ \A a \in Int :
                 /\ Since(U, a) \subseteq Since(T, a) \cup {n}
                 /\ Cardinality(Since(U, a)) <= Cardinality(Since(T, a)) + 1
<1>1. IsTimed(U)
  BY FS_AddElement DEF IsTimed
<1>2. \A a, b \in Int : b < now => Span(U, a, b) = Span(T, a, b)
  BY DEF Span
<1>3. ASSUME NEW a \in Int
      PROVE  /\ Since(U, a) \subseteq Since(T, a) \cup {n}
             /\ Cardinality(Since(U, a)) <= Cardinality(Since(T, a)) + 1
  <2>1. Since(U, a) \subseteq Since(T, a) \cup {n}
    BY DEF Since
  <2>2. n \notin Since(T, a) /\ IsFiniteSet(Since(T, a))
    BY SpansAreFinite DEF Since
  <2>3. /\ IsFiniteSet(Since(T, a) \cup {n})
        /\ Cardinality(Since(T, a) \cup {n}) = Cardinality(Since(T, a)) + 1
    BY <2>2, FS_AddElement
  <2> QED  BY <2>1, <2>3, FewerInSubset
<1> QED  BY <1>1, <1>2, <1>3

\* A withdrawal in the window.
LEMMA WindowGoesOn ==
    ASSUME NEW T, IsTimed(T), NEW s \in Nat, NEW c \in Nat, NEW w \in Nat, NEW m \in Nat \ {0},
           Counted(T, s, c, w, m), s # 0, c < m,
           NEW n, n \notin DOMAIN T, NEW now \in Nat, s <= now, now < s + w,
           NEW U, DOMAIN U = DOMAIN T \cup {n}, U[n] = now, \A k \in DOMAIN T : U[k] = T[k]
    PROVE  Counted(U, s, c + 1, w, m)
<1>1. /\ \A a, b \in Int : b < now => Span(U, a, b) = Span(T, a, b)
      /\ \A a \in Int : Cardinality(Since(U, a)) <= Cardinality(Since(T, a)) + 1
      /\ IsTimed(U)
  BY OneMoreTimed
<1>2. \A k \in DOMAIN U : U[k] < s + w
  BY DEF Counted
<1>3. Cardinality(Since(U, s)) <= c + 1
  <2>1. Cardinality(Since(T, s)) <= c
    BY DEF Counted
  <2> QED  BY <1>1, <2>1, SpansAreFinite
<1>4. Cardinality(Since(U, s + 1)) <= c + 1 - 1
  <2>1. Cardinality(Since(T, s + 1)) <= c - 1
    BY DEF Counted
  <2>2. s + 1 \in Int
    OBVIOUS
  <2>3. Cardinality(Since(U, s + 1)) <= Cardinality(Since(T, s + 1)) + 1
    BY <1>1, <2>2
  <2> QED  BY <1>1, <2>1, <2>3, SpansAreFinite
<1>5. c + 1 <= m
  OBVIOUS
<1>6. ASSUME NEW a \in Nat
      PROVE  /\ a + w <= s => Cardinality(Span(U, a, a + w - 1)) <= 2 * m - 1
             /\ a + w > s => Cardinality(Span(U, a, s - 1)) <= m - 1
  <2>1. CASE a + w <= s
    <3>1. a + w - 1 \in Int /\ a + w - 1 < now
      BY <2>1
    <3>2. Span(U, a, a + w - 1) = Span(T, a, a + w - 1)
      BY <1>1, <3>1
    <3> QED  BY <2>1, <3>2 DEF Counted
  <2>2. CASE a + w > s
    <3>1. s - 1 \in Int /\ s - 1 < now
      OBVIOUS
    <3>2. Span(U, a, s - 1) = Span(T, a, s - 1)
      BY <1>1, <3>1
    <3> QED  BY <2>2, <3>2 DEF Counted
  <2> QED  BY <2>1, <2>2
<1> QED  BY <1>2, <1>3, <1>4, <1>5, <1>6 DEF Counted

\* A withdrawal that begins a window.
LEMMA WindowBegins ==
    ASSUME NEW T, IsTimed(T), NEW s \in Nat, NEW c \in Nat, NEW w \in Nat \ {0},
           NEW m \in Nat \ {0},
           Counted(T, s, c, w, m), s = 0 <=> c = 0,
           NEW n, n \notin DOMAIN T, NEW now \in Nat \ {0}, s = 0 \/ s + w <= now,
           NEW U, DOMAIN U = DOMAIN T \cup {n}, U[n] = now, \A k \in DOMAIN T : U[k] = T[k]
    PROVE  Counted(U, now, 1, w, m)
<1>1. /\ IsTimed(U)
      /\ \A a, b \in Int : b < now => Span(U, a, b) = Span(T, a, b)
      /\ \A a \in Int : Since(U, a) \subseteq Since(T, a) \cup {n}
  BY OneMoreTimed
<1>2. s = 0 => DOMAIN T = {}
  <2>1. SUFFICES ASSUME s = 0 PROVE DOMAIN T = {}
    OBVIOUS
  <2>2. Since(T, 0) = DOMAIN T
    <3>1. \A k \in DOMAIN T : T[k] >= 0
      BY DEF IsTimed
    <3> QED  BY <3>1 DEF Since
  <2>3. Cardinality(Since(T, 0)) <= 0
    BY <2>1 DEF Counted
  <2>4. Cardinality(DOMAIN T) = 0 /\ IsFiniteSet(DOMAIN T)
    BY <2>2, <2>3, SpansAreFinite
  <2> QED  BY <2>4, FS_EmptySet
<1>3. \A k \in DOMAIN T : T[k] < now
  BY <1>2 DEF Counted, IsTimed
<1>4. \A k \in DOMAIN U : U[k] < now + w
  BY <1>3 DEF IsTimed
<1>5. Since(U, now) = {n} /\ Since(U, now + 1) = {}
  <2>1. ASSUME NEW k \in DOMAIN U
        PROVE  (U[k] >= now <=> k = n) /\ ~(U[k] >= now + 1)
    <3>1. CASE k = n
      BY <3>1
    <3>2. CASE k # n
      BY <1>3, <3>2 DEF IsTimed
    <3> QED  BY <3>1, <3>2
  <2> QED  BY <2>1 DEF Since
<1>6. Cardinality(Since(U, now)) <= 1 /\ Cardinality(Since(U, now + 1)) <= 1 - 1
  <2>1. Cardinality({n}) = 1
    BY FS_Singleton
  <2>2. Cardinality(Since(U, now)) = 1
    BY <1>5, <2>1
  <2>3. Cardinality(Since(U, now + 1)) = 0
    BY <1>5, NoneIsNone
  <2> QED  BY <2>2, <2>3
<1>7. ASSUME NEW a \in Nat, a + w <= now
      PROVE  Cardinality(Span(U, a, a + w - 1)) <= 2 * m - 1
  <2>1. a + w - 1 \in Int /\ a + w - 1 < now
    BY <1>7
  <2>2. Span(U, a, a + w - 1) = Span(T, a, a + w - 1)
    BY <1>1, <2>1
  <2> QED  BY <2>2, CountedIsBounded
<1>8. ASSUME NEW a \in Nat, a + w > now
      PROVE  Cardinality(Span(U, a, now - 1)) <= m - 1
  <2>1. Span(U, a, now - 1) = Span(T, a, now - 1)
    BY <1>1
  <2>2. CASE s = 0
    <3>1. Span(T, a, now - 1) = {}
      BY <1>2, <2>2 DEF Span
    <3>2. 0 <= m - 1
      OBVIOUS
    <3> QED  BY <2>1, <3>1, <3>2, NoneIsNone
  <2>3. CASE s # 0
    <3>1. a >= s + 1
      BY <1>8, <2>3
    <3>2. Span(T, a, now - 1) \subseteq Since(T, s + 1) /\ Since(T, s + 1) \subseteq Since(T, s)
      BY <3>1 DEF Span, Since, IsTimed
    <3>3. Cardinality(Since(T, s + 1)) <= m - 1
      <4>1. CASE Since(T, s) = {}
        <5>1. Since(T, s + 1) = {}
          BY <3>2, <4>1
        <5>2. 0 <= m - 1
          OBVIOUS
        <5> QED  BY <5>1, <5>2, NoneIsNone
      <4>2. CASE Since(T, s) # {}
        <5>1. Cardinality(Since(T, s + 1)) <= c - 1 /\ c <= m
          BY <2>3, <4>2 DEF Counted
        <5> QED  BY <5>1, SpansAreFinite
      <4> QED  BY <4>1, <4>2
    <3>4. IsFiniteSet(Since(T, s + 1))
      BY SpansAreFinite
    <3>5. Cardinality(Span(T, a, now - 1)) <= Cardinality(Since(T, s + 1))
          /\ Cardinality(Span(T, a, now - 1)) \in Nat /\ Cardinality(Since(T, s + 1)) \in Nat
      BY <3>2, <3>4, FewerInSubset
    <3> QED  BY <2>1, <3>3, <3>5
  <2> QED  BY <2>2, <2>3
<1> QED  BY <1>4, <1>6, <1>7, <1>8 DEF Counted

----------------------------------------------------------------------------
\* Withdrawals of a user under the limit that stands, and when they were made.
Limited(user) ==
    {n \in Nonces : /\ n >= limitedFrom
                    /\ l2Withdrawals[n] # NoWithdrawal
                    /\ l2Withdrawals[n].from = user}
Times(user) == [n \in Limited(user) |-> l2Withdrawals[n].timestamp]

RateFits(user) ==
    /\ quota[user].start <= l2Now
    /\ quota[user].start = 0 <=> quota[user].count = 0
    /\ \A n \in Limited(user) : Times(user)[n] <= l2Now
    /\ rateLimit.enabled =>
          Counted(Times(user), quota[user].start, quota[user].count, rateLimit.window,
                  rateLimit.max)

RateInv == \A user \in L2Users : RateFits(user)

LEMMA TimesAre ==
    ASSUME L2TypeOK, NoncesAhead, NEW user \in L2Users
    PROVE  /\ IsTimed(Times(user)) /\ DOMAIN Times(user) = Limited(user)
           /\ \A n \in Limited(user) : n < withdrawalNonce /\ n \in Nat
<1>1. \A n \in Limited(user) :
         n \in Nat /\ n < withdrawalNonce /\ l2Withdrawals[n].timestamp \in Nat
  BY DEF Limited, NoncesAhead, L2TypeOK, Withdrawal
<1>2. IsFiniteSet(Limited(user))
  <2>1. Limited(user) \subseteq Nat /\ withdrawalNonce \in Nat
        /\ \A n \in Limited(user) : n <= withdrawalNonce
    BY <1>1 DEF L2TypeOK
  <2> QED  BY <2>1, FS_BoundedSetOfNaturals
<1>3. DOMAIN Times(user) = Limited(user)
      /\ \A n \in Limited(user) : Times(user)[n] = l2Withdrawals[n].timestamp
  BY DEF Times
<1> QED  BY <1>1, <1>2, <1>3 DEF IsTimed

LEMMA SettingsAre ==
    ASSUME L2TypeOK, NEW user \in L2Users
    PROVE  /\ quota[user].start \in Nat /\ quota[user].count \in Nat
           /\ rateLimit.window \in Nat /\ rateLimit.max \in Nat
           /\ rateLimit.enabled \in BOOLEAN
           /\ rateLimit.enabled => rateLimit.window > 0 /\ rateLimit.max > 0
           /\ l2Now \in Nat /\ l2Now >= 1
<1>1. quota[user] \in [start : Nat, count : Nat]
  BY DEF L2TypeOK
<1>2. rateLimit \in [enabled : BOOLEAN, window : Nat, max : Nat]
      /\ (rateLimit.enabled => rateLimit.window > 0 /\ rateLimit.max > 0)
  BY DEF L2TypeOK
<1>3. l2Now \in 1..MaxL2Time /\ MaxL2Time \in Nat
  BY DEF L2TypeOK
<1> QED  BY <1>1, <1>2, <1>3

\* The limit bounds every stretch.
LEMMA RateInvBounds ==
    ASSUME L2TypeOK, NoncesAhead, RateInv
    PROVE  RateIsLimited
<1> SUFFICES ASSUME rateLimit.enabled, NEW user \in L2Users, NEW from \in 1..l2Now
             PROVE  Cardinality({n \in Nonces :
                        /\ n >= limitedFrom
                        /\ l2Withdrawals[n] # NoWithdrawal
                        /\ l2Withdrawals[n].from = user
                        /\ l2Withdrawals[n].timestamp \in from..(from + rateLimit.window - 1)})
                    <= 2 * rateLimit.max - 1
  BY DEF RateIsLimited
<1>1. PICK s \in Nat, c \in Nat, w \in Nat, m \in Nat \ {0} :
         /\ s = quota[user].start /\ c = quota[user].count
         /\ w = rateLimit.window /\ m = rateLimit.max
  BY SettingsAre
<1>2. PICK T : T = Times(user)
  OBVIOUS
<1>3. IsTimed(T) /\ Counted(T, s, c, w, m)
  BY <1>1, <1>2, TimesAre DEF RateInv, RateFits
<1>4. from \in Nat
  BY SettingsAre
<1>5. Cardinality(Span(T, from, from + w - 1)) <= 2 * m - 1
  BY <1>3, <1>4, CountedIsBounded
<1>6. Span(T, from, from + w - 1) =
         {n \in Nonces :
             /\ n >= limitedFrom
             /\ l2Withdrawals[n] # NoWithdrawal
             /\ l2Withdrawals[n].from = user
             /\ l2Withdrawals[n].timestamp \in from..(from + w - 1)}
  BY <1>2 DEF Span, Times, Limited
<1> QED  BY <1>1, <1>5, <1>6

\* A user of whom the bridge counts what it counted.
LEMMA UserRests ==
    ASSUME L2TypeOK, NEW user \in L2Users, RateFits(user), l2Now' \in Nat, l2Now' >= l2Now,
           Times(user)' = Times(user), Limited(user)' = Limited(user),
           NoncesAhead,
           quota'[user] = quota[user], UNCHANGED rateLimit
    PROVE  RateFits(user)'
<1>1. /\ quota[user].start \in Nat /\ l2Now \in Nat
      /\ \A n \in Limited(user) : Times(user)[n] \in Nat
  BY SettingsAre, TimesAre DEF IsTimed
<1>2. quota'[user].start <= l2Now'
  BY <1>1 DEF RateFits
<1>3. \A n \in Limited(user)' : Times(user)'[n] <= l2Now'
  BY <1>1 DEF RateFits
<1> QED  BY <1>2, <1>3 DEF RateFits

\* The withdrawals that count are those that did.
LEMMA TimesRest ==
    ASSUME UNCHANGED limitedFrom,
           \A n \in Nonces :
              /\ l2Withdrawals'[n] = NoWithdrawal <=> l2Withdrawals[n] = NoWithdrawal
              /\ l2Withdrawals[n] # NoWithdrawal =>
                    /\ l2Withdrawals'[n].from = l2Withdrawals[n].from
                    /\ l2Withdrawals'[n].timestamp = l2Withdrawals[n].timestamp
    PROVE  \A user \in L2Users : Limited(user)' = Limited(user) /\ Times(user)' = Times(user)
<1> SUFFICES ASSUME NEW user \in L2Users
             PROVE  Limited(user)' = Limited(user) /\ Times(user)' = Times(user)
  OBVIOUS
<1>1. ASSUME NEW n \in Nonces PROVE n \in Limited(user)' <=> n \in Limited(user)
  BY DEF Limited
<1>2. Limited(user)' \subseteq Nonces /\ Limited(user) \subseteq Nonces
  BY DEF Limited
<1>3. Limited(user)' = Limited(user)
  BY <1>1, <1>2
<1>4. \A n \in Limited(user) : l2Withdrawals'[n].timestamp = l2Withdrawals[n].timestamp
  BY DEF Limited
<1> QED  BY <1>3, <1>4 DEF Times

LEMMA InitiateIsCounted ==
    ASSUME L2TypeOK, NoncesAhead, RateInv, NEW user \in L2Users, NEW asset \in Assets,
           InitiateWithdrawal(user, asset)
    PROVE  RateInv'
<1>1. PICK n \in Nonces : n = withdrawalNonce
  BY DEF InitiateWithdrawal
<1>2. PICK x : x = [token |-> L1TokenOf(asset), from |-> user, timestamp |-> l2Now,
                    processed |-> FALSE]
  OBVIOUS
<1>3. x.from = user /\ x.timestamp = l2Now /\ x # NoWithdrawal
  <2>1. L1TokenOf(asset) \in L1Tokens \cup {ETH}
    BY DEF InitiateWithdrawal, L1TokenOf, L2TypeOK, Assets
  <2>2. x \in Withdrawal
    BY <1>2, <2>1 DEF Withdrawal, L2TypeOK
  <2> QED  BY <1>2, <2>2
<1>4. /\ l2Withdrawals' = [l2Withdrawals EXCEPT ![n] = x]
      /\ HasQuota(user) /\ ConsumeWithdrawalQuota(user)
      /\ UNCHANGED <<limitVars, l2Now>>
  BY <1>1, <1>2 DEF InitiateWithdrawal
<1>5. rateLimit' = rateLimit /\ limitedFrom' = limitedFrom /\ l2Now' = l2Now
  BY <1>4 DEF limitVars
<1>6. /\ l2Withdrawals'[n] = x
      /\ \A k \in Nonces : k # n => l2Withdrawals'[k] = l2Withdrawals[k]
  BY <1>4 DEF L2TypeOK
<1>7. l2Withdrawals[n] = NoWithdrawal /\ n >= limitedFrom
  BY <1>1 DEF NoncesAhead, L2TypeOK
<1>8. ASSUME NEW v \in L2Users, v # user PROVE RateFits(v)'
  <2>1. Limited(v)' = Limited(v)
    BY <1>3, <1>5, <1>6, <1>7, <1>8 DEF Limited
  <2>2. n \notin Limited(v)
    BY <1>7 DEF Limited
  <2>3. Times(v)' = Times(v)
    <3>1. \A k \in Limited(v) : l2Withdrawals'[k].timestamp = l2Withdrawals[k].timestamp
      BY <1>6, <2>2 DEF Limited
    <3> QED  BY <2>1, <3>1 DEF Times
  <2>4. quota'[v] = quota[v]
    BY <1>4, <1>8 DEF ConsumeWithdrawalQuota, CountedFrom, L2TypeOK
  <2>5. l2Now' \in Nat /\ l2Now' >= l2Now
    BY <1>5, SettingsAre
  <2> QED  BY <1>5, <2>1, <2>3, <2>4, <2>5, UserRests DEF RateInv
<1>9. RateFits(user)'
  <2>1. PICK s \in Nat, c \in Nat, w \in Nat, m \in Nat, now \in Nat \ {0} :
           /\ s = quota[user].start /\ c = quota[user].count
           /\ w = rateLimit.window /\ m = rateLimit.max /\ now = l2Now
    <3>1. l2Now \in Nat \ {0}
      BY SettingsAre
    <3>2. /\ quota[user].start \in Nat /\ quota[user].count \in Nat
          /\ rateLimit.window \in Nat /\ rateLimit.max \in Nat
      BY SettingsAre
    <3> QED  BY <3>1, <3>2
  <2>2. PICK T, U : T = Times(user) /\ U = Times(user)'
    OBVIOUS
  <2>3. IsTimed(T) /\ DOMAIN T = Limited(user)
    BY <2>2, TimesAre
  <2>4. Limited(user)' = Limited(user) \cup {n} /\ n \notin Limited(user)
    BY <1>3, <1>5, <1>6, <1>7 DEF Limited
  <2>5. DOMAIN U = Limited(user)'
    BY <2>2 DEF Times
  <2>6. U[n] = now
    BY <1>3, <1>6, <2>1, <2>2, <2>4 DEF Times
  <2>7. \A k \in DOMAIN T : U[k] = T[k]
    <3>1. \A k \in Limited(user) : l2Withdrawals'[k] = l2Withdrawals[k]
      BY <1>6, <2>4 DEF Limited
    <3> QED  BY <2>2, <2>3, <2>4, <3>1 DEF Times
  <2>8. DOMAIN U = DOMAIN T \cup {n} /\ n \notin DOMAIN T
    BY <2>3, <2>4, <2>5
  <2>9. /\ s <= now /\ (s = 0 <=> c = 0) /\ \A k \in DOMAIN T : T[k] <= now
        /\ rateLimit.enabled => Counted(T, s, c, w, m)
    BY <2>1, <2>2, <2>3 DEF RateInv, RateFits
  <2>10. \A k \in Limited(user)' : U[k] <= now
    BY <2>3, <2>4, <2>6, <2>7, <2>9
  <2>11. CASE ~rateLimit.enabled
    <3>1. quota' = quota
      BY <1>4, <2>11 DEF ConsumeWithdrawalQuota, CountedFrom
    <3> QED  BY <1>5, <2>1, <2>2, <2>9, <2>10, <2>11, <3>1 DEF RateFits
  <2>12. CASE rateLimit.enabled
    <3>1. w > 0 /\ m > 0
      BY <2>1, <2>12, SettingsAre
    <3>2. CASE WindowIsOver(user)
      <4>1. quota' = [quota EXCEPT ![user] = [start |-> l2Now, count |-> 1]]
        BY <1>4, <2>12, <3>2 DEF ConsumeWithdrawalQuota, CountedFrom
      <4>2. quota'[user].start = now /\ quota'[user].count = 1
        BY <2>1, <4>1 DEF L2TypeOK
      <4>3. s = 0 \/ s + w <= now
        BY <2>1, <3>2 DEF WindowIsOver
      <4>4. Counted(U, now, 1, w, m)
        <5>1. Counted(T, s, c, w, m) /\ IsTimed(T) /\ (s = 0 <=> c = 0) /\ s <= now
          BY <2>3, <2>9, <2>12
        <5>2. w \in Nat \ {0} /\ m \in Nat \ {0}
          BY <3>1
        <5> QED  BY <2>6, <2>7, <2>8, <4>3, <5>1, <5>2, WindowBegins
      <4> QED  BY <1>5, <2>1, <2>2, <2>10, <4>2, <4>4 DEF RateFits
    <3>3. CASE ~WindowIsOver(user)
      <4>1. quota' = [quota EXCEPT ![user].count = @ + 1]
        BY <1>4, <2>12, <3>3 DEF ConsumeWithdrawalQuota, CountedFrom
      <4>2. quota'[user].start = s /\ quota'[user].count = c + 1
        BY <2>1, <4>1 DEF L2TypeOK
      <4>3. s # 0 /\ now < s + w /\ c < m
        BY <1>4, <2>1, <2>12, <3>3 DEF WindowIsOver, HasQuota
      <4>4. Counted(U, s, c + 1, w, m)
        <5>1. Counted(T, s, c, w, m) /\ IsTimed(T) /\ (s = 0 <=> c = 0) /\ s <= now
          BY <2>3, <2>9, <2>12
        <5>2. w \in Nat \ {0} /\ m \in Nat \ {0}
          BY <3>1
        <5> QED  BY <2>6, <2>7, <2>8, <4>3, <5>1, <5>2, WindowGoesOn
      <4>5. s <= now /\ (s = 0 <=> c + 1 = 0)
        BY <2>9, <4>3
      <4> QED  BY <1>5, <2>1, <2>2, <2>10, <4>2, <4>4, <4>5 DEF RateFits
    <3> QED  BY <3>2, <3>3
  <2> QED  BY <2>11, <2>12
<1> QED  BY <1>8, <1>9 DEF RateInv

LEMMA SettingStarts ==
    ASSUME L2TypeOK, NoncesAhead, RateInv, NEW limit \in RateLimits,
           SetWithdrawalRateLimit(limit)
    PROVE  RateInv'
<1>1. /\ rateLimit' = limit /\ limitedFrom' = withdrawalNonce
      /\ UNCHANGED <<quota, l2Withdrawals, l2Now>>
  BY DEF SetWithdrawalRateLimit
<1> SUFFICES ASSUME NEW user \in L2Users PROVE RateFits(user)'
  BY DEF RateInv
<1>2. Limited(user)' = {}
  BY <1>1 DEF Limited, NoncesAhead
<1>3. PICK U : U = Times(user)' /\ DOMAIN U = {}
  BY <1>2 DEF Times
<1>4. PICK s \in Nat, c \in Nat : s = quota[user].start /\ c = quota[user].count
  BY SettingsAre
<1>5. s <= l2Now /\ (s = 0 <=> c = 0)
  BY <1>4 DEF RateInv, RateFits
<1>6. PICK w \in Nat, m \in Nat : w = limit.window /\ m = limit.max
  OBVIOUS
<1>7. limit.enabled => Counted(U, s, c, w, m)
  <2>1. limit.enabled => m # 0
    BY <1>6
  <2> QED  BY <1>3, <1>5, <2>1, NoneCounted
<1> QED  BY <1>1, <1>2, <1>3, <1>4, <1>5, <1>6, <1>7 DEF RateFits

\* Nothing that is counted changes.
LEMMA RateRests ==
    ASSUME L2TypeOK, NoncesAhead, RateInv, UNCHANGED <<limitVars, quota>>,
           l2Now' \in Nat, l2Now' >= l2Now,
           \A n \in Nonces :
              /\ l2Withdrawals'[n] = NoWithdrawal <=> l2Withdrawals[n] = NoWithdrawal
              /\ l2Withdrawals[n] # NoWithdrawal =>
                    /\ l2Withdrawals'[n].from = l2Withdrawals[n].from
                    /\ l2Withdrawals'[n].timestamp = l2Withdrawals[n].timestamp
    PROVE  RateInv'
<1>1. UNCHANGED limitedFrom /\ UNCHANGED rateLimit /\ quota' = quota
  BY DEF limitVars
<1>2. \A user \in L2Users : Limited(user)' = Limited(user) /\ Times(user)' = Times(user)
  BY <1>1, TimesRest
<1>3. ASSUME NEW user \in L2Users PROVE RateFits(user)'
  BY <1>1, <1>2, UserRests DEF RateInv
<1> QED  BY <1>3 DEF RateInv

\* A withdrawal is settled, and its record otherwise stays what it is.
LEMMA SettlingRests ==
    ASSUME L2TypeOK, NoncesAhead, RateInv, NEW n \in Nonces, Open(n),
           l2Withdrawals' = [l2Withdrawals EXCEPT ![n].processed = TRUE],
           UNCHANGED <<limitVars, quota, l2Now>>
    PROVE  RateInv'
<1>1. PICK w \in Withdrawal : w = l2Withdrawals[n]
  BY DEF Open, L2TypeOK
<1>2. PICK x : x = [w EXCEPT !.processed = TRUE]
  OBVIOUS
<1>3. x \in Withdrawal /\ x.from = w.from /\ x.timestamp = w.timestamp
  BY <1>2 DEF Withdrawal
<1>4. x # NoWithdrawal /\ w # NoWithdrawal
  BY <1>1, <1>3
<1>5. /\ l2Withdrawals'[n] = x
      /\ \A k \in Nonces : k # n => l2Withdrawals'[k] = l2Withdrawals[k]
  BY <1>1, <1>2 DEF L2TypeOK
<1>6. l2Now' \in Nat /\ l2Now' >= l2Now
  BY DEF L2TypeOK
<1> QED  BY <1>1, <1>3, <1>4, <1>5, <1>6, RateRests

LEMMA RateInvStep ==
    ASSUME L2TypeOK, SettledInv, RateInv, [L2Next]_l2Vars
    PROVE  RateInv'
<1>1. NoncesAhead
  BY DEF SettledInv
<1>2. ASSUME UNCHANGED <<limitVars, quota, l2Withdrawals>>, l2Now' \in Nat, l2Now' >= l2Now
      PROVE  RateInv'
  BY <1>1, <1>2, RateRests
<1>3. ASSUME UNCHANGED <<limitVars, quota, l2Withdrawals, l2Now>> PROVE RateInv'
  <2>1. l2Now' \in Nat /\ l2Now' >= l2Now
    BY <1>3 DEF L2TypeOK
  <2> QED  BY <1>2, <1>3, <2>1
<1>4. ASSUME NEW user \in L2Users, NEW n \in Nonces, CancelWithdrawal(user, n) PROVE RateInv'
  BY <1>1, <1>4, SettlingRests DEF CancelWithdrawal
<1>5. ASSUME NEW caller \in L2Callers, NEW n \in Nonces, MarkWithdrawalProcessed(caller, n)
      PROVE  RateInv'
  BY <1>1, <1>5, SettlingRests DEF MarkWithdrawalProcessed
<1>6. ASSUME NEW caller \in L2Callers, NEW id \in DepositIds, ProcessDeposit(caller, id)
      PROVE  RateInv'
  BY <1>3, <1>6 DEF ProcessDeposit, withdrawVars
<1>7. CASE OwnerNext
  <2>1. ASSUME NEW t \in L1Tokens, NEW s \in L2Tokens, AddTokenPair(t, s) PROVE RateInv'
    BY <1>3, <2>1 DEF AddTokenPair, withdrawVars
  <2>2. ASSUME NEW t \in L1Tokens, RemoveTokenPair(t) PROVE RateInv'
    BY <1>3, <2>2 DEF RemoveTokenPair, withdrawVars
  <2>3. ASSUME NEW caller \in L2Callers, UpdateSequencer(caller) PROVE RateInv'
    BY <1>3, <2>3 DEF UpdateSequencer, withdrawVars
  <2>4. ASSUME NEW n \in Nonces, InitializeWithdrawalNonce(n) PROVE RateInv'
    BY <1>3, <2>4 DEF InitializeWithdrawalNonce
  <2> QED  BY <1>1, <1>7, <2>1, <2>2, <2>3, <2>4, SettingStarts DEF OwnerNext
<1>8. CASE UserNext
  BY <1>1, <1>4, <1>8, InitiateIsCounted DEF UserNext
<1>9. CASE SequencerNext
  BY <1>5, <1>6, <1>9 DEF SequencerNext
<1>10. CASE Fund
  BY <1>3, <1>10 DEF Fund, withdrawVars
<1>11. CASE L2Elapse
  <2>1. l2Now' = l2Now + 1 /\ UNCHANGED <<limitVars, quota, l2Withdrawals>>
    BY <1>11 DEF L2Elapse, withdrawVars
  <2>2. l2Now' \in Nat /\ l2Now' >= l2Now
    BY <2>1 DEF L2TypeOK
  <2> QED  BY <1>2, <2>1, <2>2
<1>12. CASE UNCHANGED l2Vars
  BY <1>3, <1>12 DEF l2Vars, withdrawVars
<1> QED  BY <1>7, <1>8, <1>9, <1>10, <1>11, <1>12 DEF L2Next

LEMMA RateInvInit == L2BridgeInit => RateInv
<1> SUFFICES ASSUME L2BridgeInit, NEW user \in L2Users PROVE RateFits(user)
  BY DEF RateInv
<1>1. /\ rateLimit = InitialRateLimit /\ quota[user].start = 0 /\ quota[user].count = 0
      /\ l2Withdrawals = [n \in Nonces |-> NoWithdrawal] /\ l2Now = 1
  BY DEF L2BridgeInit, L2Init
<1>2. Limited(user) = {}
  BY <1>1 DEF Limited
<1>3. DOMAIN Times(user) = {}
  BY <1>2 DEF Times
<1>4. PICK w \in Nat, m \in Nat \ {0} :
         w = InitialRateLimit.window /\ m = InitialRateLimit.max
  OBVIOUS
<1>5. Counted(Times(user), 0, 0, w, m)
  BY <1>3, NoneCounted
<1> QED  BY <1>1, <1>2, <1>4, <1>5 DEF RateFits

\* Under a rate limit no user withdraws twice the maximum in any stretch as
\* long as its window (L2BridgeV3.sol:271-286, 336-366), for any settings and however
\* the owner changes them.
THEOREM RateAlwaysLimited == L2Spec => []RateIsLimited
<1>1. L2TypeOK /\ SettledInv /\ RateInv => RateIsLimited
  BY RateInvBounds DEF SettledInv
<1> QED
  BY <1>1, TypeInit, TypeStep, SettledInit, SettledStep, RateInvInit, RateInvStep, PTL DEF L2Spec
=============================================================================
