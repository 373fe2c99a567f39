---------------------------- MODULE UpkeepProofs ----------------------------
(***************************************************************************)
(* Theorems about what changes around the bridge.  Both versions of the    *)
(* sequencer facet, taking turns on one storage, implement the log of      *)
(* batches, for every number of batches and any roots; and the oracle's    *)
(* periods go where its evidence moves them, for any factors, tiers,       *)
(* amounts and ages; and the proxy's table is a plain map, for any         *)
(* selectors and facets and cuts of any length.                            *)
(***************************************************************************)
EXTENDS Upkeep, SequenceTheorems, WellFoundedInduction, TLAPS

\* What a batch and an anchor find: the entries beyond the head are empty.
HeadInv ==
    /\ latestBatchNumber \in BatchNumbers
    /\ latestL2Block \in Nat
    /\ stateCommitments \in [BatchNumbers -> StateCommitmentData \cup {NoCommitment}]
    /\ batchWithdrawalRoots \in [BatchNumbers -> Roots \cup {NoRoot}]
    /\ \A n \in BatchNumbers : n > latestBatchNumber =>
          stateCommitments[n] = NoCommitment /\ batchWithdrawalRoots[n] = NoRoot

\* The chain of the log, whose entries are empty where the storage's are.
Chain == [n \in BatchNumbers |-> Committed(n)]

LEMMA NumbersAreNaturals ==
    /\ BatchNumbers \subseteq Nat /\ Blocks \subseteq Nat
    /\ 0 \in BatchNumbers
    /\ NoRoot \notin Roots /\ NoCommitment \notin StateCommitmentData
BY AppStorageAssumption DEF BatchNumbers, Blocks

LEMMA CommittedIsData ==
    ASSUME HeadInv, NEW n \in BatchNumbers
    PROVE  /\ Chain[n] = NoCommitment <=> stateCommitments[n] = NoCommitment
           /\ stateCommitments[n] # NoCommitment =>
                 Chain[n] = [first |-> stateCommitments[n].l2StartBlock,
                             last |-> stateCommitments[n].l2EndBlock,
                             pre |-> stateCommitments[n].preStateRoot,
                             post |-> stateCommitments[n].postStateRoot]
<1>1. stateCommitments[n] # NoCommitment => stateCommitments[n] \in StateCommitmentData
  BY DEF HeadInv
<1>2. ASSUME NEW c \in StateCommitmentData
      PROVE  [first |-> c.l2StartBlock, last |-> c.l2EndBlock,
              pre |-> c.preStateRoot, post |-> c.postStateRoot] # NoCommitment
  <2>1. /\ c.l2StartBlock \in Nat /\ c.l2EndBlock \in Nat
        /\ c.preStateRoot \in Roots /\ c.postStateRoot \in Roots
    BY DEF StateCommitmentData
  <2>2. [first |-> c.l2StartBlock, last |-> c.l2EndBlock,
         pre |-> c.preStateRoot, post |-> c.postStateRoot]
            \in [first : Nat, last : Nat, pre : Roots, post : Roots]
    BY <2>1
  <2>3. QED
    BY <2>2, UpgradeAssumption
<1>3. QED
  BY <1>1, <1>2 DEF Chain, Committed

\* An entry written into the storage is written into the chain, and no other.
LEMMA CommitmentFillsChain ==
    ASSUME HeadInv, NEW n \in BatchNumbers, NEW c \in StateCommitmentData,
           stateCommitments[n] = NoCommitment,
           stateCommitments' = [stateCommitments EXCEPT ![n] = c]
    PROVE  /\ Log!Fills(Chain, Chain', n, NoCommitment)
           /\ Chain'[n] = [first |-> c.l2StartBlock, last |-> c.l2EndBlock,
                           pre |-> c.preStateRoot, post |-> c.postStateRoot]
           /\ stateCommitments' \in [BatchNumbers -> StateCommitmentData \cup {NoCommitment}]
<1> DEFINE Seen(d) == IF d = NoCommitment THEN NoCommitment
                      ELSE [first |-> d.l2StartBlock, last |-> d.l2EndBlock,
                            pre |-> d.preStateRoot, post |-> d.postStateRoot]
<1>1. /\ Chain = [m \in BatchNumbers |-> Seen(stateCommitments[m])]
      /\ Chain' = [m \in BatchNumbers |-> Seen(stateCommitments'[m])]
  BY DEF Chain, Committed
<1>2. /\ stateCommitments'[n] = c /\ c # NoCommitment
      /\ \A m \in BatchNumbers : m # n => stateCommitments'[m] = stateCommitments[m]
      /\ stateCommitments' \in [BatchNumbers -> StateCommitmentData \cup {NoCommitment}]
  BY NumbersAreNaturals DEF HeadInv
<1>3. Seen(c) = [first |-> c.l2StartBlock, last |-> c.l2EndBlock,
                 pre |-> c.preStateRoot, post |-> c.postStateRoot]
  BY <1>2
<1>4. Seen(c) \in [first : Nat, last : Nat, pre : Roots, post : Roots]
  <2>1. /\ c.l2StartBlock \in Nat /\ c.l2EndBlock \in Nat
        /\ c.preStateRoot \in Roots /\ c.postStateRoot \in Roots
    BY DEF StateCommitmentData
  <2>2. QED
    BY <1>3, <2>1
<1>5. Seen(NoCommitment) = NoCommitment
  OBVIOUS
<1> HIDE DEF Seen
<1>6. Chain[n] = NoCommitment
  BY <1>1, <1>5
<1>7. Chain'[n] = Seen(c)
  BY <1>1, <1>2
<1>8. Seen(c) # NoCommitment
  BY <1>4, UpgradeAssumption
<1>9. Chain' = [Chain EXCEPT ![n] = Seen(c)]
  BY <1>1, <1>2
<1>10. QED
  BY <1>2, <1>3, <1>6, <1>7, <1>8, <1>9 DEF Log!Fills

\* A root written where there was none.
LEMMA RootFills ==
    ASSUME HeadInv, NEW n \in BatchNumbers, NEW r \in Roots,
           batchWithdrawalRoots[n] = NoRoot,
           batchWithdrawalRoots' = [batchWithdrawalRoots EXCEPT ![n] = r]
    PROVE  /\ Log!Fills(batchWithdrawalRoots, batchWithdrawalRoots', n, NoRoot)
           /\ batchWithdrawalRoots' \in [BatchNumbers -> Roots \cup {NoRoot}]
BY NumbersAreNaturals DEF HeadInv, Log!Fills

\* A batch with its commitment, as either facet stores it.
LEMMA StateBatchAppends ==
    ASSUME HeadInv, NEW n \in BatchNumbers, NEW c \in StateCommitmentData,
           n = latestBatchNumber + 1,
           c.l2StartBlock = latestL2Block + 1,
           c.l2StartBlock <= c.l2EndBlock,
           stateCommitments[n - 1] # NoCommitment =>
               c.preStateRoot = stateCommitments[n - 1].postStateRoot,
           c.withdrawalsRoot \in Roots,
           stateCommitments' = [stateCommitments EXCEPT ![n] = c],
           batchWithdrawalRoots' = [batchWithdrawalRoots EXCEPT ![n] = c.withdrawalsRoot],
           latestBatchNumber' = n,
           latestL2Block' = c.l2EndBlock
    PROVE  HeadInv' /\ Log!AppendBatch
<1>1. /\ latestBatchNumber \in Nat /\ n \in Nat /\ latestL2Block \in Nat
      /\ c.l2StartBlock \in Nat /\ c.l2EndBlock \in Nat
  BY NumbersAreNaturals DEF HeadInv, StateCommitmentData
<1>2. /\ stateCommitments[n] = NoCommitment /\ batchWithdrawalRoots[n] = NoRoot
  BY <1>1 DEF HeadInv
<1>3. /\ Log!Fills(Chain, Chain', n, NoCommitment)
      /\ Chain'[n] = [first |-> c.l2StartBlock, last |-> c.l2EndBlock,
                      pre |-> c.preStateRoot, post |-> c.postStateRoot]
      /\ stateCommitments' \in [BatchNumbers -> StateCommitmentData \cup {NoCommitment}]
  BY <1>2, CommitmentFillsChain
<1>4. /\ Log!Fills(batchWithdrawalRoots, batchWithdrawalRoots', n, NoRoot)
      /\ batchWithdrawalRoots' \in [BatchNumbers -> Roots \cup {NoRoot}]
  BY <1>2, RootFills
<1>5. HeadInv'
  BY <1>1, <1>3, <1>4, NumbersAreNaturals DEF HeadInv
<1>6. Chain[latestBatchNumber] # NoCommitment =>
          c.preStateRoot = Chain[latestBatchNumber].post
  <2>1. latestBatchNumber \in BatchNumbers /\ n - 1 = latestBatchNumber
    BY <1>1 DEF HeadInv
  <2>2. PICK k \in BatchNumbers : k = latestBatchNumber
    BY <2>1
  <2>3. /\ Chain[k] = NoCommitment <=> stateCommitments[k] = NoCommitment
        /\ stateCommitments[k] # NoCommitment =>
               Chain[k] = [first |-> stateCommitments[k].l2StartBlock,
                           last |-> stateCommitments[k].l2EndBlock,
                           pre |-> stateCommitments[k].preStateRoot,
                           post |-> stateCommitments[k].postStateRoot]
    BY CommittedIsData
  <2>4. QED
    BY <2>1, <2>2, <2>3
<1>7. Log!Follows(Chain'[n])
  BY <1>1, <1>3, <1>6 DEF Log!Follows, Chain
<1>8. latestL2Block' > latestL2Block
  BY <1>1
<1>9. QED
  BY <1>1, <1>3, <1>4, <1>5, <1>7, <1>8 DEF Log!AppendBatch, Chain

\* A batch without a commitment, which may skip numbers.
LEMMA LegacyBatchAppends ==
    ASSUME HeadInv, NEW n \in BatchNumbers, NEW b \in Blocks, NEW r \in Roots,
           n > latestBatchNumber, b > latestL2Block,
           batchWithdrawalRoots' = [batchWithdrawalRoots EXCEPT ![n] = r],
           latestBatchNumber' = n, latestL2Block' = b, UNCHANGED stateCommitments
    PROVE  HeadInv' /\ Log!AppendBatch
<1>1. latestBatchNumber \in Nat /\ n \in Nat /\ b \in Nat
  BY NumbersAreNaturals DEF HeadInv
<1>2. batchWithdrawalRoots[n] = NoRoot
  BY <1>1 DEF HeadInv
<1>3. /\ Log!Fills(batchWithdrawalRoots, batchWithdrawalRoots', n, NoRoot)
      /\ batchWithdrawalRoots' \in [BatchNumbers -> Roots \cup {NoRoot}]
  BY <1>2, RootFills
<1>4. HeadInv'
  BY <1>1, <1>3, NumbersAreNaturals DEF HeadInv
<1>5. UNCHANGED Chain
  BY DEF Chain, Committed
<1>6. QED
  BY <1>1, <1>3, <1>4, <1>5 DEF Log!AppendBatch, Chain

\* The owner's commitment of the latest batch, as either facet stores it.
LEMMA AnchorIsHeads ==
    ASSUME HeadInv, NEW n \in BatchNumbers, NEW post \in Roots,
           stateCommitments[n] = NoCommitment,
           n = latestBatchNumber,
           stateCommitments' = [stateCommitments EXCEPT ![n] =
               [l2StartBlock |-> latestL2Block, l2EndBlock |-> latestL2Block,
                preStateRoot |-> post, postStateRoot |-> post,
                withdrawalsRoot |-> batchWithdrawalRoots[n],
                sequencer |-> Owner, daMode |-> DaNone]],
           UNCHANGED <<batchWithdrawalRoots, latestBatchNumber, latestL2Block>>
    PROVE  HeadInv' /\ Log!AnchorHead
<1> DEFINE c == [l2StartBlock |-> latestL2Block, l2EndBlock |-> latestL2Block,
                 preStateRoot |-> post, postStateRoot |-> post,
                 withdrawalsRoot |-> batchWithdrawalRoots[n],
                 sequencer |-> Owner, daMode |-> DaNone]
<1>1. latestBatchNumber \in Nat /\ latestL2Block \in Nat
      /\ batchWithdrawalRoots[n] \in Roots \cup {NoRoot}
  BY NumbersAreNaturals DEF HeadInv
<1>2. c \in StateCommitmentData
  BY <1>1 DEF StateCommitmentData, DaModes
<1>3. c.l2EndBlock = latestL2Block /\ c.preStateRoot = post /\ c.postStateRoot = post
      /\ stateCommitments' = [stateCommitments EXCEPT ![n] = c]
  OBVIOUS
<1> HIDE DEF c
<1>4. /\ Log!Fills(Chain, Chain', n, NoCommitment)
      /\ Chain'[n] = [first |-> c.l2StartBlock, last |-> c.l2EndBlock,
                      pre |-> c.preStateRoot, post |-> c.postStateRoot]
      /\ stateCommitments' \in [BatchNumbers -> StateCommitmentData \cup {NoCommitment}]
  BY <1>2, <1>3, CommitmentFillsChain
<1>5. \A m \in BatchNumbers : m > latestBatchNumber => stateCommitments'[m] = NoCommitment
  BY <1>1, NumbersAreNaturals DEF HeadInv
<1>6. HeadInv'
  BY <1>4, <1>5 DEF HeadInv
<1>7. QED
  BY <1>3, <1>4, <1>6 DEF Log!AnchorHead, Chain

----------------------------------------------------------------------------
\* A step of the current facet.
LEMMA FacetStep ==
    ASSUME HeadInv, SequencerFacetNext
    PROVE  HeadInv' /\ (Log!AppendBatch \/ Log!AnchorHead \/ UNCHANGED Log!logVars)
<1>1. ASSUME NEW a \in Addresses, NEW n \in BatchNumbers, NEW b \in Blocks,
             NEW m \in DaModes, SubmitStateBatchWithDA(a, n, b, m)
      PROVE  HeadInv' /\ Log!AppendBatch
  <2>1. PICK c \in [l2StartBlock : Blocks, l2EndBlock : {b}, preStateRoot : Roots,
                    postStateRoot : Roots, withdrawalsRoot : Roots,
                    sequencer : {a}, daMode : {m}] :
            Continues(n, c) /\ StoreStateCommitment(n, c)
    BY <1>1 DEF SubmitStateBatchWithDA
  <2>2. c \in StateCommitmentData /\ c.l2EndBlock = b /\ c.withdrawalsRoot \in Roots
    BY NumbersAreNaturals DEF StateCommitmentData
  <2>3. n = latestBatchNumber + 1 /\ latestBatchNumber' = n /\ latestL2Block' = b
    BY <1>1 DEF SubmitStateBatchWithDA
  <2>4. QED
    BY <2>1, <2>2, <2>3, StateBatchAppends DEF Continues, StoreStateCommitment
<1>2. ASSUME NEW a \in Addresses, NEW n \in BatchNumbers, NEW b \in Blocks,
             NEW pairs \in SUBSET RootPairs, SubmitLegacyBatch(a, n, b, pairs)
      PROVE  HeadInv' /\ Log!AppendBatch
  <2>1. PICK r \in pairs :
            batchWithdrawalRoots' = [batchWithdrawalRoots EXCEPT ![n] = r.withdrawals]
    BY <1>2 DEF SubmitLegacyBatch
  <2>2. /\ r.withdrawals \in Roots
        /\ latestBatchNumber' = n /\ latestL2Block' = b /\ UNCHANGED stateCommitments
        /\ b > latestL2Block /\ b = n * BlocksPerRotation
        /\ latestBatchNumber # 0 => n > latestBatchNumber
    BY <1>2, <2>1 DEF SubmitLegacyBatch, MovesForward, MaySubmit, RootPairs
  <2>3. n \in Nat /\ latestL2Block \in Nat /\ latestBatchNumber \in Nat
    BY NumbersAreNaturals DEF HeadInv
  <2>4. n # 0
    <3>1. n = 0 => n * BlocksPerRotation = 0
      BY AppStorageAssumption
    <3>2. QED
      BY <2>2, <2>3, <3>1
  <2>5. n > latestBatchNumber
    BY <2>2, <2>3, <2>4
  <2>6. QED
    BY <2>1, <2>2, <2>5, LegacyBatchAppends
<1>3. ASSUME NEW n \in BatchNumbers, NEW b \in Blocks, NEW r \in Roots \cup {NoRoot},
             AnchorStateCommitment(n, b, r)
      PROVE  HeadInv' /\ Log!AnchorHead
  BY <1>3, AnchorIsHeads DEF AnchorStateCommitment
<1>4. ASSUME UNCHANGED batchVars
      PROVE  HeadInv' /\ UNCHANGED Log!logVars
  BY <1>4 DEF HeadInv, batchVars, Log!logVars, Committed
<1>5. DaNone \in DaModes /\ DaCalldata \in DaModes /\ DaBlob \in DaModes
  BY DEF DaModes
<1>6. RootPairs \in SUBSET RootPairs
      /\ {r \in RootPairs : r.withdrawals = r.state} \in SUBSET RootPairs
  OBVIOUS
<1>7. QED
  <2>1. CASE \E a \in Addresses, n \in BatchNumbers, b \in Blocks :
                \/ SubmitStateBatch(a, n, b)
                \/ SubmitStateBatchWithCalldata(a, n, b)
                \/ SubmitStateBatchWithBlob(a, n, b)
    BY <2>1, <1>1, <1>5
       DEF SubmitStateBatch, SubmitStateBatchWithCalldata, SubmitStateBatchWithBlob
  <2>2. CASE \E a \in Addresses, n \in BatchNumbers, b \in Blocks :
                SubmitBatch(a, n, b) \/ SubmitBatchV3(a, n, b)
    BY <2>2, <1>2, <1>6 DEF SubmitBatch, SubmitBatchV3
  <2>3. CASE \E n \in BatchNumbers, b \in Blocks, r \in Roots \cup {NoRoot} :
                AnchorStateCommitment(n, b, r)
    BY <2>3, <1>3
  <2>4. CASE \/ \E m \in DaModes, n \in BatchNumbers : SetRequiredDAMode(m, n)
             \/ \E a \in Addresses \cup {NoAddress} :
                   \/ AddSequencer(a)
                   \/ RemoveSequencer(a)
                   \/ \E b \in Addresses \cup {NoAddress} : AddSequencers(<<a, b>>)
    BY <2>4, <1>4 DEF SetRequiredDAMode, AddSequencer, AddSequencers, RemoveSequencer
  <2>5. QED
    BY <2>1, <2>2, <2>3, <2>4 DEF SequencerFacetNext

\* A step of the older facet.
LEMMA V3Step ==
    ASSUME HeadInv, V3Next
    PROVE  HeadInv' /\ (Log!AppendBatch \/ Log!AnchorHead \/ UNCHANGED Log!logVars)
<1>1. ASSUME NEW a \in Addresses, NEW n \in BatchNumbers \ {0}, V3SubmitBatch(a, n)
      PROVE  HeadInv' /\ Log!AppendBatch
  <2>1. PICK c \in [l2StartBlock : Blocks, l2EndBlock : Blocks,
                    preStateRoot : Roots, postStateRoot : Roots,
                    withdrawalsRoot : Roots, sequencer : {a}, daMode : {DaNone}] :
            /\ ContinuesExactly(n, c)
            /\ stateCommitments' = [stateCommitments EXCEPT ![n] = c]
            /\ batchWithdrawalRoots' = [batchWithdrawalRoots EXCEPT ![n] = c.withdrawalsRoot]
            /\ latestL2Block' = c.l2EndBlock
    BY <1>1 DEF V3SubmitBatch
  <2>2. c \in StateCommitmentData /\ c.withdrawalsRoot \in Roots
    BY NumbersAreNaturals DEF StateCommitmentData, DaModes
  <2>3. latestBatchNumber' = n
    BY <1>1 DEF V3SubmitBatch
  <2>4. QED
    BY <2>1, <2>2, <2>3, StateBatchAppends DEF ContinuesExactly
<1>2. ASSUME NEW n \in BatchNumbers, NEW b \in Blocks, NEW r \in Roots,
             V3AnchorStateCommitment(n, b, r)
      PROVE  HeadInv' /\ Log!AnchorHead
  BY <1>2, AnchorIsHeads DEF V3AnchorStateCommitment
<1>3. ASSUME NEW a, NEW active, V3SetSequencer(a, active)
      PROVE  HeadInv' /\ UNCHANGED Log!logVars
  BY <1>3 DEF V3SetSequencer, HeadInv, batchVars, Log!logVars, Committed
<1>4. QED
  BY <1>1, <1>2, <1>3 DEF V3Next

----------------------------------------------------------------------------
\* Whichever version answers, the storage is a log: batches are appended
\* without a gap in the blocks, state roots are chained, and nothing that is
\* there changes (SequencerFacet.sol:249-301, SequencerFacetV3.sol:103-160).
THEOREM FacetsImplementBatchLog == UpgradeSpec => ImplementsBatchLog
<1>1. UpgradeInit => HeadInv /\ Log!LogInit
  BY NumbersAreNaturals DEF UpgradeInit, HeadInv, Log!LogInit, Committed
<1>2. ASSUME HeadInv, [UpgradeNext]_upgradeVars
      PROVE  HeadInv' /\ [Log!AppendBatch \/ Log!AnchorHead]_(Log!logVars)
  <2>1. CASE SequencerFacetNext
    BY <1>2, <2>1, FacetStep
  <2>2. CASE V3Next
    BY <1>2, <2>2, V3Step
  <2>3. CASE UNCHANGED upgradeVars
    BY <1>2, <2>3
       DEF upgradeVars, seqVars, sequencerFacetVars, batchVars, HeadInv, Log!logVars, Committed
  <2>4. QED
    BY <1>2, <2>1, <2>2, <2>3 DEF UpgradeNext
<1>3. QED
  BY <1>1, <1>2, PTL DEF UpgradeSpec, ImplementsBatchLog, Log!LogSpec

----------------------------------------------------------------------------
(* The oracle of challenge periods *)

\* The factors and the period, as functions of what they are computed from.
Watch(factors, count) ==
    CASE count >= 5 -> factors[4]
      [] count \in 3..4 -> factors[3]
      [] count \in 1..2 -> factors[2]
      [] count = 0 -> factors[1]
Share(s, d) == ((s - d) * 10000) \div s
Trust(s, d, days) ==
    IF s = 0 THEN 100
    ELSE IF Share(s, d) > 9990 /\ days > 30 THEN 80
    ELSE IF Share(s, d) > 9900 /\ days > 14 THEN 90
    ELSE 100
Size(pair, amount) == IF amount < pair[1] THEN 30 ELSE IF amount < pair[2] THEN 50 ELSE 100
Maturity(days) == IF days > 90 THEN 80 ELSE IF days > 30 THEN 90 ELSE 100

Times(period, percent) == (period * percent) \div 100
Product(base, w, t, z, m) == Times(Times(Times(Times(base, w), t), z), m)
AtLeast(least, period) == IF period < least THEN least ELSE period
Period(base, least, factors, count, s, d, days, pair, amount) ==
    AtLeast(least, Product(base, Watch(factors, count), Trust(s, d, days),
                           Size(pair, amount), Maturity(days)))

Percents == 0..100
IsFactors(factors) == \A i \in 1..4 : factors[i] \in Percents
IsOrdered(factors) == \A i \in 1..3 : factors[i] >= factors[i + 1]

LEMMA WatchFalls ==
    ASSUME NEW factors, IsFactors(factors), NEW c \in Nat, NEW c1 \in Nat, c <= c1
    PROVE  /\ Watch(factors, c) \in Percents /\ Watch(factors, c1) \in Percents
           /\ IsOrdered(factors) => Watch(factors, c1) <= Watch(factors, c)
<1>1. /\ factors[1] \in Percents /\ factors[2] \in Percents
      /\ factors[3] \in Percents /\ factors[4] \in Percents
  BY DEF IsFactors
<1>2. ASSUME NEW n \in Nat
      PROVE  /\ n = 0 => Watch(factors, n) = factors[1]
             /\ n \in 1..2 => Watch(factors, n) = factors[2]
             /\ n \in 3..4 => Watch(factors, n) = factors[3]
             /\ n >= 5 => Watch(factors, n) = factors[4]
             /\ n = 0 \/ n \in 1..2 \/ n \in 3..4 \/ n >= 5
  BY DEF Watch
<1>3. IsOrdered(factors) =>
          factors[1] >= factors[2] /\ factors[2] >= factors[3] /\ factors[3] >= factors[4]
  BY DEF IsOrdered
<1>4. Watch(factors, c) \in Percents /\ Watch(factors, c1) \in Percents
  BY <1>1, <1>2
<1>5. ASSUME IsOrdered(factors) PROVE Watch(factors, c1) <= Watch(factors, c)
  <2>1. /\ factors[1] \in Int /\ factors[2] \in Int
        /\ factors[3] \in Int /\ factors[4] \in Int
    BY <1>1 DEF Percents
  <2>2. PICK a \in Int : a = factors[1]
    BY <2>1
  <2>3. PICK b \in Int : b = factors[2]
    BY <2>1
  <2>4. PICK x \in Int : x = factors[3]
    BY <2>1
  <2>5. PICK y \in Int : y = factors[4]
    BY <2>1
  <2>6. a = factors[1] /\ b = factors[2] /\ x = factors[3] /\ y = factors[4]
    BY <2>2, <2>3, <2>4, <2>5
  <2>7. a >= b /\ b >= x /\ x >= y
    BY <1>3, <1>5, <2>6
  <2>8. CASE c = 0
    BY <1>2, <2>6, <2>7, <2>8
  <2>9. CASE c \in 1..2
    <3>1. c1 \in 1..2 \/ c1 \in 3..4 \/ c1 >= 5
      BY <2>9
    <3> QED  BY <1>2, <2>6, <2>7, <2>9, <3>1
  <2>10. CASE c \in 3..4
    <3>1. c1 \in 3..4 \/ c1 >= 5
      BY <2>10
    <3> QED  BY <1>2, <2>6, <2>7, <2>10, <3>1
  <2>11. CASE c >= 5
    <3>1. c1 >= 5
      BY <2>11
    <3> QED  BY <1>2, <2>6, <2>11, <3>1
  <2> QED  BY <2>8, <2>9, <2>10, <2>11
<1> QED  BY <1>4, <1>5

\* A quotient is the greatest number that fits.
LEMMA QuotientFits ==
    ASSUME NEW x \in Nat, NEW n \in Nat \ {0}
    PROVE  /\ x \div n \in Nat /\ n * (x \div n) <= x
           /\ \A k \in Nat : n * k <= x => k <= x \div n
<1>1. PICK q \in Int, r \in Int : q = x \div n /\ r = x % n
  OBVIOUS
<1>2. x = n * q + r /\ 0 <= r /\ r < n
  BY <1>1
<1>3. q >= 0
  <2>1. CASE q < 0
    <3>1. n * q <= n * (-1)
      BY <2>1
    <3> QED  BY <1>2, <3>1
  <2> QED  BY <2>1
<1>4. ASSUME NEW k \in Nat, n * k <= x PROVE k <= q
  <2>1. CASE k > q
    <3>1. PICK e \in Nat : k = q + 1 + e
      BY <1>3, <2>1
    <3>2. n * k = n * q + n + n * e /\ n * e >= 0
      BY <3>1
    <3> QED  BY <1>2, <1>4, <3>2
  <2> QED  BY <2>1
<1> QED  BY <1>1, <1>2, <1>3, <1>4

LEMMA ProductsGrow ==
    ASSUME NEW a \in Nat, NEW b \in Nat, NEW x \in Nat, NEW y \in Nat, a <= x, b <= y
    PROVE  a * b <= x * y
<1>1. PICK e \in Nat, h \in Nat : x = a + e /\ y = b + h
  <2>1. x - a \in Nat /\ y - b \in Nat /\ x = a + (x - a) /\ y = b + (y - b)
    OBVIOUS
  <2> QED  BY <2>1
<1>2. x * y = a * b + a * h + e * b + e * h
  BY <1>1
<1>3. a * h >= 0 /\ e * b >= 0 /\ e * h >= 0
  OBVIOUS
<1>4. a * b \in Nat /\ a * h \in Nat /\ e * b \in Nat /\ e * h \in Nat
  OBVIOUS
<1> QED  BY <1>2, <1>3, <1>4

\* The part of the batches without a dispute falls with a dispute and grows
\* with a batch.
LEMMA ShareMoves ==
    ASSUME NEW s \in Nat \ {0}, NEW d \in Nat, NEW s1 \in Nat, NEW d1 \in Nat, d <= s
    PROVE  /\ Share(s, d) \in Nat
           /\ d <= d1 /\ d1 <= s => Share(s, d1) <= Share(s, d)
           /\ s <= s1 => Share(s, d) <= Share(s1, d)
<1>1. (s - d) * 10000 \in Nat /\ s \in Nat \ {0}
  OBVIOUS
<1>2. PICK q \in Nat : q = Share(s, d)
  BY <1>1, QuotientFits DEF Share
<1>3. s * q <= (s - d) * 10000 /\ \A k \in Nat : s * k <= (s - d) * 10000 => k <= q
  BY <1>1, <1>2, QuotientFits DEF Share
<1>4. ASSUME d <= d1, d1 <= s PROVE Share(s, d1) <= q
  <2>1. (s - d1) * 10000 \in Nat
    BY <1>4
  <2>2. PICK k \in Nat : k = Share(s, d1) /\ s * k <= (s - d1) * 10000
    BY <2>1, QuotientFits DEF Share
  <2>3. (s - d1) * 10000 <= (s - d) * 10000
    BY <1>4
  <2>4. s * k <= (s - d) * 10000
    <3>1. s * k \in Nat
      BY <2>2
    <3> QED  BY <1>1, <2>1, <2>2, <2>3, <3>1
  <2> QED  BY <1>3, <2>2, <2>4
<1>5. ASSUME s <= s1 PROVE q <= Share(s1, d)
  <2>1. PICK e \in Nat : s1 = s + e
    <3>1. s1 - s \in Nat /\ s1 = s + (s1 - s)
      BY <1>5
    <3> QED  BY <3>1
  <2>2. q <= 10000
    <3>1. CASE q > 10000
      <4>1. s * 10001 <= s * q
        <5>1. s <= s /\ 10001 <= q
          BY <3>1
        <5> QED  BY <5>1, ProductsGrow
      <4>2. s * q \in Nat
        OBVIOUS
      <4> QED  BY <1>3, <4>1, <4>2
    <3> QED  BY <3>1
  <2>3. e * q <= e * 10000
    <3>1. e <= e
      OBVIOUS
    <3> QED  BY <2>2, <3>1, ProductsGrow
  <2>4. s1 * q = s * q + e * q
    BY <2>1
  <2>5. (s1 - d) * 10000 = (s - d) * 10000 + e * 10000
    BY <2>1
  <2>6. s * q \in Nat /\ e * q \in Nat
    OBVIOUS
  <2>7. s1 * q <= (s1 - d) * 10000
    BY <1>1, <1>3, <2>3, <2>4, <2>5, <2>6
  <2>8. (s1 - d) * 10000 \in Nat /\ s1 \in Nat \ {0}
    BY <2>1
  <2> QED  BY <2>7, <2>8, QuotientFits DEF Share
<1> QED  BY <1>2, <1>4, <1>5

LEMMA TrustMoves ==
    ASSUME NEW s \in Nat, NEW d \in Nat, NEW days \in Nat, s # 0 => d <= s,
           NEW s1 \in Nat, NEW d1 \in Nat, NEW days1 \in Nat
    PROVE  /\ Trust(s, d, days) \in Percents
           /\ d <= d1 /\ (s # 0 => d1 <= s) => Trust(s, d, days) <= Trust(s, d1, days)
           /\ s <= s1 => Trust(s1, d, days) <= Trust(s, d, days)
           /\ days <= days1 => Trust(s, d, days1) <= Trust(s, d, days)
<1>1. CASE s = 0
  BY <1>1 DEF Trust, Percents
<1>2. CASE s # 0
  <2>1. s \in Nat \ {0} /\ d <= s
    BY <1>2
  <2>2. PICK q \in Nat : q = Share(s, d)
    BY <2>1, ShareMoves
  <2>3. ASSUME d <= d1, d1 <= s PROVE Trust(s, d, days) <= Trust(s, d1, days)
    <3>1. PICK k \in Nat : k = Share(s, d1)
      BY <2>1, <2>3, ShareMoves
    <3>2. k <= q
      BY <2>1, <2>2, <2>3, <3>1, ShareMoves
    <3> QED  BY <1>2, <2>2, <3>1, <3>2 DEF Trust
  <2>4. ASSUME s <= s1 PROVE Trust(s1, d, days) <= Trust(s, d, days)
    <3>1. s1 \in Nat \ {0} /\ d <= s1
      BY <2>1, <2>4
    <3>2. PICK k \in Nat : k = Share(s1, d)
      BY <3>1, ShareMoves
    <3>3. q <= k
      BY <2>1, <2>2, <2>4, <3>2, ShareMoves
    <3> QED  BY <1>2, <2>2, <3>1, <3>2, <3>3 DEF Trust
  <2>5. ASSUME days <= days1 PROVE Trust(s, d, days1) <= Trust(s, d, days)
    BY <1>2, <2>2, <2>5 DEF Trust
  <2>6. Trust(s, d, days) \in Percents
    BY <1>2, <2>2 DEF Trust, Percents
  <2> QED  BY <1>2, <2>3, <2>4, <2>5, <2>6
<1> QED  BY <1>1, <1>2

LEMMA TimesGrows ==
    ASSUME NEW p \in Nat, NEW c \in Percents, NEW p1 \in Nat, NEW c1 \in Percents,
           p <= p1, c <= c1
    PROVE  /\ Times(p, c) \in Nat /\ Times(p1, c1) \in Nat
           /\ Times(p, c) <= Times(p1, c1) /\ Times(p, c) <= p
<1>1. c \in Nat /\ c1 \in Nat /\ c <= 100 /\ 100 \in Nat \ {0}
  BY DEF Percents
<1>2. p * c \in Nat /\ p1 * c1 \in Nat /\ p * c <= p1 * c1
  BY <1>1, ProductsGrow
<1>3. PICK q \in Nat : q = Times(p, c) /\ 100 * q <= p * c
  BY <1>1, <1>2, QuotientFits DEF Times
<1>4. 100 * q <= p1 * c1
  BY <1>2, <1>3
<1>5. Times(p1, c1) \in Nat /\ q <= Times(p1, c1)
  BY <1>1, <1>2, <1>4, QuotientFits DEF Times
<1>6. p * c <= p * 100
  <2>1. p <= p
    OBVIOUS
  <2> QED  BY <1>1, <2>1, ProductsGrow
<1>7. q <= p
  BY <1>2, <1>3, <1>6
<1> QED  BY <1>3, <1>5, <1>7

LEMMA ProductGrows ==
    ASSUME NEW base \in Nat,
           NEW w \in Percents, NEW t \in Percents, NEW z \in Percents, NEW m \in Percents,
           NEW w1 \in Percents, NEW t1 \in Percents, NEW z1 \in Percents, NEW m1 \in Percents,
           w <= w1, t <= t1, z <= z1, m <= m1
    PROVE  /\ Product(base, w, t, z, m) \in 0..base /\ Product(base, w1, t1, z1, m1) \in 0..base
           /\ Product(base, w, t, z, m) <= Product(base, w1, t1, z1, m1)
<1>1. ASSUME NEW a \in Percents, NEW b \in Percents, NEW c \in Percents, NEW e \in Percents
      PROVE  /\ Times(base, a) \in Nat /\ Times(base, a) <= base
             /\ Times(Times(base, a), b) \in Nat
             /\ Times(Times(base, a), b) <= Times(base, a)
             /\ Times(Times(Times(base, a), b), c) \in Nat
             /\ Times(Times(Times(base, a), b), c) <= Times(Times(base, a), b)
             /\ Product(base, a, b, c, e) \in Nat
             /\ Product(base, a, b, c, e) <= Times(Times(Times(base, a), b), c)
  <2>1. \A p \in Nat : p <= p
    OBVIOUS
  <2>2. a <= a /\ b <= b /\ c <= c /\ e <= e
    BY DEF Percents
  <2>3. Times(base, a) \in Nat /\ Times(base, a) <= base
    BY <2>1, <2>2, TimesGrows
  <2>4. /\ Times(Times(base, a), b) \in Nat
        /\ Times(Times(base, a), b) <= Times(base, a)
    BY <2>1, <2>2, <2>3, TimesGrows
  <2>5. /\ Times(Times(Times(base, a), b), c) \in Nat
        /\ Times(Times(Times(base, a), b), c) <= Times(Times(base, a), b)
    BY <2>1, <2>2, <2>4, TimesGrows
  <2>6. /\ Times(Times(Times(Times(base, a), b), c), e) \in Nat
        /\ Times(Times(Times(Times(base, a), b), c), e) <= Times(Times(Times(base, a), b), c)
    BY <2>1, <2>2, <2>5, TimesGrows
  <2> QED  BY <2>3, <2>4, <2>5, <2>6 DEF Product
<1>2. ASSUME NEW a \in Percents, NEW b \in Percents, NEW c \in Percents, NEW e \in Percents
      PROVE  Product(base, a, b, c, e) \in 0..base
  BY <1>1
<1>3. Times(base, w) <= Times(base, w1)
  <2>1. base <= base
    OBVIOUS
  <2> QED  BY <2>1, TimesGrows
<1>4. Times(Times(base, w), t) <= Times(Times(base, w1), t1)
  BY <1>1, <1>3, TimesGrows
<1>5. Times(Times(Times(base, w), t), z) <= Times(Times(Times(base, w1), t1), z1)
  BY <1>1, <1>4, TimesGrows
<1>6. Product(base, w, t, z, m) <= Product(base, w1, t1, z1, m1)
  BY <1>1, <1>5, TimesGrows DEF Product
<1> QED  BY <1>2, <1>6

\* What moves which factor, and with it the period.
LEMMA PeriodMoves ==
    ASSUME NEW base \in Nat, NEW least \in Nat, least <= base,
           NEW factors, IsFactors(factors), IsOrdered(factors), NEW pair \in Nat \X Nat,
           NEW c \in Nat, NEW s \in Nat, NEW d \in Nat, NEW days \in Nat, NEW amount \in Nat,
           s # 0 => d <= s
    PROVE  /\ Period(base, least, factors, c, s, d, days, pair, amount) \in least..base
           /\ \A c1 \in Nat : c <= c1 =>
                 Period(base, least, factors, c1, s, d, days, pair, amount)
                 <= Period(base, least, factors, c, s, d, days, pair, amount)
           /\ \A s1 \in Nat : s <= s1 =>
                 Period(base, least, factors, c, s1, d, days, pair, amount)
                 <= Period(base, least, factors, c, s, d, days, pair, amount)
           /\ \A days1 \in Nat : days <= days1 =>
                 Period(base, least, factors, c, s, d, days1, pair, amount)
                 <= Period(base, least, factors, c, s, d, days, pair, amount)
           /\ \A d1 \in Nat : d <= d1 /\ (s # 0 => d1 <= s) =>
                 Period(base, least, factors, c, s, d, days, pair, amount)
                 <= Period(base, least, factors, c, s, d1, days, pair, amount)
           /\ \A more \in Nat : amount <= more =>
                 Period(base, least, factors, c, s, d, days, pair, amount)
                 <= Period(base, least, factors, c, s, d, days, pair, more)
<1>1. ASSUME NEW w \in Percents, NEW t \in Percents, NEW z \in Percents, NEW m \in Percents,
             NEW w1 \in Percents, NEW t1 \in Percents, NEW z1 \in Percents, NEW m1 \in Percents,
             w <= w1, t <= t1, z <= z1, m <= m1
      PROVE  /\ AtLeast(least, Product(base, w, t, z, m)) \in least..base
             /\ AtLeast(least, Product(base, w, t, z, m))
                <= AtLeast(least, Product(base, w1, t1, z1, m1))
  <2>1. PICK p : p = Product(base, w, t, z, m)
    OBVIOUS
  <2>2. PICK p1 : p1 = Product(base, w1, t1, z1, m1)
    OBVIOUS
  <2>3. p \in 0..base /\ p1 \in 0..base /\ p <= p1
    BY <1>1, <2>1, <2>2, ProductGrows
  <2>4. AtLeast(least, p) \in least..base /\ AtLeast(least, p) <= AtLeast(least, p1)
    BY <2>3 DEF AtLeast
  <2> QED  BY <2>1, <2>2, <2>4
<1>2. Watch(factors, c) \in Percents /\ c <= c
  BY WatchFalls
<1>3. Trust(s, d, days) \in Percents
  BY TrustMoves
<1>4. \A more \in Nat : Size(pair, more) \in Percents
  BY DEF Size, Percents
<1>5. \A later \in Nat : Maturity(later) \in Percents
  BY DEF Maturity, Percents
<1>6. \A x \in Percents : x <= x
  BY DEF Percents
<1>7. Period(base, least, factors, c, s, d, days, pair, amount) \in least..base
  BY <1>1, <1>2, <1>3, <1>4, <1>5, <1>6 DEF Period
<1>8. ASSUME NEW c1 \in Nat, c <= c1
      PROVE  Period(base, least, factors, c1, s, d, days, pair, amount)
             <= Period(base, least, factors, c, s, d, days, pair, amount)
  <2>1. Watch(factors, c1) \in Percents /\ Watch(factors, c1) <= Watch(factors, c)
    BY <1>8, WatchFalls
  <2> QED  BY <1>1, <1>2, <1>3, <1>4, <1>5, <1>6, <2>1 DEF Period
<1>9. ASSUME NEW s1 \in Nat, s <= s1
      PROVE  Period(base, least, factors, c, s1, d, days, pair, amount)
             <= Period(base, least, factors, c, s, d, days, pair, amount)
  <2>1. Trust(s1, d, days) <= Trust(s, d, days)
    BY <1>9, TrustMoves
  <2>2. Trust(s1, d, days) \in Percents
    BY <1>9 DEF Trust, Percents
  <2> QED  BY <1>1, <1>2, <1>3, <1>4, <1>5, <1>6, <2>1, <2>2 DEF Period
<1>10. ASSUME NEW days1 \in Nat, days <= days1
       PROVE  Period(base, least, factors, c, s, d, days1, pair, amount)
              <= Period(base, least, factors, c, s, d, days, pair, amount)
  <2>1. Trust(s, d, days1) \in Percents /\ Trust(s, d, days1) <= Trust(s, d, days)
    BY <1>10, TrustMoves
  <2>2. Maturity(days1) <= Maturity(days)
    BY <1>10 DEF Maturity
  <2> QED  BY <1>1, <1>2, <1>3, <1>4, <1>5, <1>6, <2>1, <2>2 DEF Period
<1>11. ASSUME NEW d1 \in Nat, d <= d1, s # 0 => d1 <= s
       PROVE  Period(base, least, factors, c, s, d, days, pair, amount)
              <= Period(base, least, factors, c, s, d1, days, pair, amount)
  <2>1. Trust(s, d1, days) \in Percents /\ Trust(s, d, days) <= Trust(s, d1, days)
    BY <1>11, TrustMoves
  <2> QED  BY <1>1, <1>2, <1>3, <1>4, <1>5, <1>6, <2>1 DEF Period
<1>12. ASSUME NEW more \in Nat, amount <= more
       PROVE  Period(base, least, factors, c, s, d, days, pair, amount)
              <= Period(base, least, factors, c, s, d, days, pair, more)
  <2>1. Size(pair, amount) <= Size(pair, more)
    BY <1>12 DEF Size
  <2> QED  BY <1>1, <1>2, <1>3, <1>4, <1>5, <1>6, <2>1 DEF Period
<1> QED  BY <1>7, <1>8, <1>9, <1>10, <1>11, <1>12

----------------------------------------------------------------------------
\* Types of what the periods are computed from: no factor is above 1.
PeriodInv ==
    /\ recordedBatches \in Nat /\ totalBatchesDisputed \in Nat /\ age \in Nat
    /\ tiers \in Nat \X Nat /\ IsFactors(watchtowerFactors)
    /\ batchConfirmationCount \in [Batches -> Nat]
    /\ diamondPeriod \in Nat

LEMMA SettingsAreNaturals ==
    /\ Amounts \subseteq Nat /\ Ages \subseteq Nat /\ DiamondPeriods \subseteq Nat
    /\ BatchCounts \subseteq Nat /\ Tiers \subseteq Nat \X Nat /\ InitialTiers \in Tiers
    /\ \A factors \in Factors \cup {InitialFactors} : \A i \in 1..4 : factors[i] \in Nat
    /\ \A i \in 1..4 : InitialFactors[i] <= 100
BY OracleAssumption DEF Oracle!ChallengePeriodAssumption

LEMMA PeriodInvBegins ==
    ASSUME Oracle!PeriodInit
    PROVE  PeriodInv
<1>1. /\ recordedBatches = 0 /\ totalBatchesDisputed = 0 /\ age = 0
      /\ tiers = InitialTiers /\ watchtowerFactors = InitialFactors
      /\ batchConfirmationCount = [n \in Batches |-> 0] /\ diamondPeriod \in DiamondPeriods
  BY DEF Oracle!PeriodInit
<1>2. IsFactors(InitialFactors)
  BY SettingsAreNaturals DEF IsFactors, Percents
<1> QED  BY <1>1, <1>2, SettingsAreNaturals DEF PeriodInv

LEMMA PeriodInvRests ==
    ASSUME PeriodInv, UNCHANGED oracleVars
    PROVE  PeriodInv'
BY DEF PeriodInv, oracleVars, IsFactors

\* What evidence changes: one more confirmation, more batches, a dispute, or
\* time; never a setting.
LEMMA EvidenceIs ==
    ASSUME PeriodInv, Oracle!EvidenceNext
    PROVE  /\ UNCHANGED <<tiers, watchtowerFactors, facetRecords, diamondPeriod>>
           /\ PeriodInv'
           /\ \A n \in Batches : batchConfirmationCount[n] <= batchConfirmationCount'[n]
           /\ recordedBatches <= recordedBatches' /\ age <= age'
           /\ \/ UNCHANGED totalBatchesDisputed
              \/ /\ UNCHANGED <<recordedBatches, batchConfirmationCount, age>>
                 /\ totalBatchesDisputed' = totalBatchesDisputed + 1
<1>1. ASSUME NEW w \in Watchtowers, NEW n \in Batches, Oracle!ConfirmBatch(w, n)
      PROVE  /\ UNCHANGED <<tiers, watchtowerFactors, facetRecords, diamondPeriod,
                            recordedBatches, totalBatchesDisputed, age>>
             /\ batchConfirmationCount' = [batchConfirmationCount EXCEPT ![n] = @ + 1]
  BY <1>1 DEF Oracle!ConfirmBatch, Oracle!statVars, Oracle!settingVars, Oracle!callerVars
<1>2. ASSUME NEW n \in Batches, NEW withState \in BOOLEAN, Oracle!SubmitBatch(n, withState)
      PROVE  /\ UNCHANGED <<tiers, watchtowerFactors, facetRecords, diamondPeriod,
                            batchConfirmationCount, totalBatchesDisputed, age>>
             /\ recordedBatches' \in {recordedBatches, recordedBatches + 1}
  BY <1>2 DEF Oracle!SubmitBatch, Oracle!RecordBatchSubmitted, Oracle!towerVars,
              Oracle!settingVars, Oracle!callerVars
<1>3. ASSUME NEW k \in BatchCounts, Oracle!SubmitOthers(k)
      PROVE  /\ UNCHANGED <<tiers, watchtowerFactors, facetRecords, diamondPeriod,
                            batchConfirmationCount, totalBatchesDisputed, age>>
             /\ recordedBatches' \in {recordedBatches, recordedBatches + k}
  BY <1>3 DEF Oracle!SubmitOthers, Oracle!RecordBatchSubmitted, Oracle!towerVars,
              Oracle!settingVars, Oracle!callerVars
<1>4. ASSUME NEW n \in Batches, Oracle!StartDispute(n)
      PROVE  /\ UNCHANGED <<tiers, watchtowerFactors, facetRecords, diamondPeriod,
                            batchConfirmationCount, recordedBatches, age>>
             /\ totalBatchesDisputed' \in {totalBatchesDisputed + 1, totalBatchesDisputed + 0}
  BY <1>4 DEF Oracle!StartDispute, Oracle!towerVars, Oracle!settingVars, Oracle!callerVars
<1>5. ASSUME Oracle!Elapse
      PROVE  /\ UNCHANGED <<tiers, watchtowerFactors, facetRecords, diamondPeriod,
                            batchConfirmationCount, recordedBatches, totalBatchesDisputed>>
             /\ age' \in Ages /\ age' > age
  BY <1>5 DEF Oracle!Elapse, Oracle!towerVars, Oracle!statVars, Oracle!settingVars,
              Oracle!callerVars
<1>6. /\ recordedBatches \in Nat /\ totalBatchesDisputed \in Nat /\ age \in Nat
      /\ batchConfirmationCount \in [Batches -> Nat]
      /\ \A n \in Batches : batchConfirmationCount[n] \in Nat
  BY DEF PeriodInv
<1>7. CASE \E w \in Watchtowers, n \in Batches : Oracle!ConfirmBatch(w, n)
  <2>1. PICK n \in Batches :
           /\ UNCHANGED <<tiers, watchtowerFactors, facetRecords, diamondPeriod,
                          recordedBatches, totalBatchesDisputed, age>>
           /\ batchConfirmationCount' = [batchConfirmationCount EXCEPT ![n] = @ + 1]
    BY <1>1, <1>7
  <2>2. /\ batchConfirmationCount' \in [Batches -> Nat]
        /\ \A b \in Batches : batchConfirmationCount[b] <= batchConfirmationCount'[b]
    BY <1>6, <2>1
  <2> QED  BY <1>6, <2>1, <2>2 DEF PeriodInv, IsFactors
<1>8. CASE \/ \E n \in Batches, withState \in BOOLEAN : Oracle!SubmitBatch(n, withState)
           \/ \E k \in BatchCounts : Oracle!SubmitOthers(k)
  <2>1. /\ UNCHANGED <<tiers, watchtowerFactors, facetRecords, diamondPeriod,
                       batchConfirmationCount, totalBatchesDisputed, age>>
        /\ \E k \in Nat : recordedBatches' \in {recordedBatches, recordedBatches + k}
    BY <1>2, <1>3, <1>8, SettingsAreNaturals
  <2>2. recordedBatches' \in Nat /\ recordedBatches <= recordedBatches'
    BY <1>6, <2>1
  <2> QED  BY <1>6, <2>1, <2>2 DEF PeriodInv, IsFactors
<1>9. CASE \E n \in Batches : Oracle!StartDispute(n)
  <2>1. /\ UNCHANGED <<tiers, watchtowerFactors, facetRecords, diamondPeriod,
                       batchConfirmationCount, recordedBatches, age>>
        /\ totalBatchesDisputed' \in {totalBatchesDisputed + 1, totalBatchesDisputed}
    BY <1>4, <1>6, <1>9
  <2> QED  BY <1>6, <2>1 DEF PeriodInv, IsFactors
<1>10. CASE Oracle!Elapse
  <2>1. age' \in Nat /\ age <= age'
    <3>1. age' \in Nat
      BY <1>5, <1>10, SettingsAreNaturals
    <3> QED  BY <1>5, <1>6, <1>10, <3>1
  <2> QED  BY <1>5, <1>6, <1>10, <2>1 DEF PeriodInv, IsFactors
<1> QED  BY <1>7, <1>8, <1>9, <1>10 DEF Oracle!EvidenceNext

LEMMA OwnersKeep ==
    ASSUME PeriodInv, Oracle!OwnersNext
    PROVE  PeriodInv'
<1>1. UNCHANGED <<recordedBatches, totalBatchesDisputed, age, batchConfirmationCount>>
  BY DEF Oracle!OwnersNext, Oracle!RegisterWatchtower, Oracle!RemoveWatchtower,
         Oracle!SetSizeTiers, Oracle!SetWatchtowerFactors, Oracle!SetAuthorizedContracts,
         Oracle!Wire, Oracle!SetDiamondPeriod, Oracle!towerVars, Oracle!statVars,
         Oracle!settingVars, Oracle!callerVars
<1>2. tiers' \in Tiers \/ tiers' = tiers
  BY DEF Oracle!OwnersNext, Oracle!RegisterWatchtower, Oracle!RemoveWatchtower,
         Oracle!SetSizeTiers, Oracle!SetWatchtowerFactors, Oracle!SetAuthorizedContracts,
         Oracle!Wire, Oracle!SetDiamondPeriod, Oracle!settingVars
<1>3. diamondPeriod' \in DiamondPeriods \/ diamondPeriod' = diamondPeriod
  BY DEF Oracle!OwnersNext, Oracle!RegisterWatchtower, Oracle!RemoveWatchtower,
         Oracle!SetSizeTiers, Oracle!SetWatchtowerFactors, Oracle!SetAuthorizedContracts,
         Oracle!Wire, Oracle!SetDiamondPeriod, Oracle!callerVars
<1>4. \/ watchtowerFactors' = watchtowerFactors
      \/ watchtowerFactors' \in Factors /\ \A i \in 1..4 : watchtowerFactors'[i] <= 100
  BY DEF Oracle!OwnersNext, Oracle!RegisterWatchtower, Oracle!RemoveWatchtower,
         Oracle!SetSizeTiers, Oracle!SetWatchtowerFactors, Oracle!SetAuthorizedContracts,
         Oracle!Wire, Oracle!SetDiamondPeriod, Oracle!settingVars
<1>5. IsFactors(watchtowerFactors)'
  <2>1. ASSUME watchtowerFactors' \in Factors, \A i \in 1..4 : watchtowerFactors'[i] <= 100
        PROVE  \A i \in 1..4 : watchtowerFactors'[i] \in 0..100
    BY <2>1, SettingsAreNaturals
  <2> QED  BY <1>4, <2>1 DEF PeriodInv, IsFactors, Percents
<1> QED  BY <1>1, <1>2, <1>3, <1>5, SettingsAreNaturals DEF PeriodInv

LEMMA PeriodInvHolds == UpkeepSpec => []PeriodInv
<1>1. UpkeepInit => PeriodInv
  BY PeriodInvBegins DEF UpkeepInit
<1>2. PeriodInv /\ [UpkeepNext]_<<upgradeVars, tableVars, oracleVars, part>> => PeriodInv'
  BY PeriodInvRests, EvidenceIs, OwnersKeep DEF UpkeepNext, Oracle!PeriodNext
<1> QED  BY <1>1, <1>2, PTL DEF UpkeepSpec

LEMMA PeriodBounds ==
    /\ Oracle!Day \in Nat /\ Oracle!MinimumPeriod \in Nat /\ Oracle!BasePeriod \in Nat
    /\ Oracle!MinimumPeriod = Oracle!Day /\ Oracle!BasePeriod = 7 * Oracle!Day
    /\ Oracle!MinimumPeriod <= Oracle!BasePeriod
<1>1. Oracle!Day \in Nat
  BY SMT DEF Oracle!Day
<1>2. Oracle!MinimumPeriod = Oracle!Day /\ Oracle!BasePeriod = 7 * Oracle!Day
  BY DEF Oracle!MinimumPeriod, Oracle!BasePeriod
<1> QED  BY <1>1, <1>2

\* The oracle's answer is the period of its state, now and after a step.
LEMMA OracleAnswers ==
    ASSUME NEW a, NEW n
    PROVE  /\ Oracle!GetChallengePeriod(a, n) =
                 Period(Oracle!BasePeriod, Oracle!MinimumPeriod,
                        watchtowerFactors, batchConfirmationCount[n], recordedBatches,
                        totalBatchesDisputed, age, tiers, a)
           /\ Oracle!GetChallengePeriod(a, n)' =
                 Period(Oracle!BasePeriod, Oracle!MinimumPeriod,
                        watchtowerFactors', batchConfirmationCount'[n], recordedBatches',
                        totalBatchesDisputed', age', tiers', a)
BY DEF Oracle!GetChallengePeriod, Oracle!WatchtowerFactor, Oracle!TrustFactor, Oracle!TrustBps,
       Oracle!SizeFactor, Oracle!MaturityFactor,
       Period, AtLeast, Product, Times, Watch, Share, Trust, Size, Maturity

LEMMA ReversalsAre ==
    /\ ~Oracle!Reverts <=> (recordedBatches # 0 => ~(totalBatchesDisputed > recordedBatches))
    /\ ~Oracle!Reverts' <=>
          (recordedBatches' # 0 => ~(totalBatchesDisputed' > recordedBatches'))
BY DEF Oracle!Reverts

\* While the oracle does not revert its answer is within the bridge's bounds.
LEMMA BridgeTakes ==
    ASSUME NEW a, NEW n
    PROVE  /\ (/\ ~Oracle!Reverts
               /\ Oracle!GetChallengePeriod(a, n) \in Oracle!MinimumPeriod..Oracle!BasePeriod) =>
                 Oracle!ChallengePeriodFor(a, n) =
                     IF facetRecords THEN Oracle!GetChallengePeriod(a, n) ELSE diamondPeriod
           /\ (/\ ~Oracle!Reverts'
               /\ Oracle!GetChallengePeriod(a, n)' \in Oracle!MinimumPeriod..Oracle!BasePeriod) =>
                 Oracle!ChallengePeriodFor(a, n)' =
                     IF facetRecords' THEN Oracle!GetChallengePeriod(a, n)' ELSE diamondPeriod'
<1>1. ASSUME NEW p, p \in Oracle!MinimumPeriod..Oracle!BasePeriod
      PROVE  p \in Oracle!Day..(30 * Oracle!Day)
  BY <1>1, PeriodBounds
<1> QED  BY <1>1 DEF Oracle!ChallengePeriodFor

\* One factor moves, and the period with it.
LEMMA AnswersMove ==
    ASSUME PeriodInv, Oracle!EvidenceNext, Oracle!OrderedFactors, ~Oracle!Reverts,
           ~Oracle!Reverts', NEW n \in Batches, NEW a \in Amounts
    PROVE  /\ Oracle!GetChallengePeriod(a, n) \in Oracle!MinimumPeriod..Oracle!BasePeriod
           /\ Oracle!GetChallengePeriod(a, n)' \in Oracle!MinimumPeriod..Oracle!BasePeriod
           /\ totalBatchesDisputed' > totalBatchesDisputed =>
                 Oracle!GetChallengePeriod(a, n)' >= Oracle!GetChallengePeriod(a, n)
           /\ totalBatchesDisputed' = totalBatchesDisputed =>
                 Oracle!GetChallengePeriod(a, n)' <= Oracle!GetChallengePeriod(a, n)
           /\ \A b \in Amounts : a <= b =>
                 Oracle!GetChallengePeriod(a, n) <= Oracle!GetChallengePeriod(b, n)
<1>1. PICK base \in Nat : base = Oracle!BasePeriod
  BY PeriodBounds
<1>2. PICK least \in Nat : least = Oracle!MinimumPeriod /\ least <= base
  BY <1>1, PeriodBounds
<1>3. PICK factors : factors = watchtowerFactors
  OBVIOUS
<1>4. PICK pair : pair = tiers
  OBVIOUS
<1>5. IsFactors(factors) /\ IsOrdered(factors) /\ pair \in Nat \X Nat
  BY <1>3, <1>4 DEF PeriodInv, Oracle!OrderedFactors, IsOrdered
<1>6. PICK c \in Nat : c = batchConfirmationCount[n]
  BY DEF PeriodInv
<1>7. PICK c1 \in Nat : c1 = batchConfirmationCount'[n]
  BY EvidenceIs DEF PeriodInv
<1>8. PICK s \in Nat : s = recordedBatches
  BY DEF PeriodInv
<1>9. PICK s1 \in Nat : s1 = recordedBatches'
  BY EvidenceIs DEF PeriodInv
<1>10. PICK d \in Nat : d = totalBatchesDisputed
  BY DEF PeriodInv
<1>11. PICK d1 \in Nat : d1 = totalBatchesDisputed'
  BY EvidenceIs DEF PeriodInv
<1>12. PICK t \in Nat : t = age
  BY DEF PeriodInv
<1>13. PICK t1 \in Nat : t1 = age'
  BY EvidenceIs DEF PeriodInv
<1>14. watchtowerFactors' = factors /\ tiers' = pair
  BY <1>3, <1>4, EvidenceIs
<1>15. /\ \A b : Oracle!GetChallengePeriod(b, n) = Period(base, least, factors, c, s, d, t, pair, b)
       /\ Oracle!GetChallengePeriod(a, n)' = Period(base, least, factors, c1, s1, d1, t1, pair, a)
  BY <1>1, <1>2, <1>3, <1>4, <1>6, <1>7, <1>8, <1>9, <1>10, <1>11, <1>12, <1>13, <1>14,
     OracleAnswers
<1>16. /\ c <= c1 /\ s <= s1 /\ t <= t1
       /\ d1 = d \/ (s1 = s /\ c1 = c /\ t1 = t /\ d1 = d + 1)
  <2>1. c <= c1 /\ s <= s1 /\ t <= t1
    BY <1>6, <1>7, <1>8, <1>9, <1>12, <1>13, EvidenceIs
  <2>2. d1 = d \/ (s1 = s /\ c1 = c /\ t1 = t /\ d1 = d + 1)
    BY <1>6, <1>7, <1>8, <1>9, <1>10, <1>11, <1>12, <1>13, EvidenceIs
  <2> QED  BY <2>1, <2>2
<1>17. (s # 0 => d <= s) /\ (s1 # 0 => d1 <= s1)
  <2>1. (s # 0 => ~(d > s)) /\ (s1 # 0 => ~(d1 > s1))
    BY <1>8, <1>9, <1>10, <1>11, ReversalsAre
  <2> QED  BY <2>1
<1>18. a \in Nat /\ \A b \in Amounts : b \in Nat
  BY SettingsAreNaturals
<1>19. PICK p : p = Period(base, least, factors, c, s, d, t, pair, a)
  OBVIOUS
<1>20. PICK p1 : p1 = Period(base, least, factors, c1, s1, d1, t1, pair, a)
  OBVIOUS
<1>21. p \in least..base /\ p1 \in least..base
  BY <1>2, <1>5, <1>17, <1>18, <1>19, <1>20, PeriodMoves
<1>22. ASSUME d1 = d + 1, s1 = s, c1 = c, t1 = t PROVE p <= p1
  <2>1. d <= d1
    BY <1>22
  <2> QED  BY <1>2, <1>5, <1>17, <1>18, <1>19, <1>20, <1>22, <2>1, PeriodMoves
<1>23. ASSUME d1 = d PROVE p1 <= p
  <2>1. PICK p2 : p2 = Period(base, least, factors, c1, s, d, t, pair, a)
    OBVIOUS
  <2>2. PICK p3 : p3 = Period(base, least, factors, c1, s1, d, t, pair, a)
    OBVIOUS
  <2>3. p2 \in least..base /\ p2 <= p
    BY <1>2, <1>5, <1>16, <1>17, <1>18, <1>19, <2>1, PeriodMoves
  <2>4. p3 <= p2
    BY <1>2, <1>5, <1>16, <1>17, <1>18, <2>1, <2>2, PeriodMoves
  <2>5. p3 \in least..base
    BY <1>2, <1>5, <1>17, <1>18, <1>23, <2>2, PeriodMoves
  <2>6. p1 <= p3
    BY <1>2, <1>5, <1>16, <1>17, <1>18, <1>20, <1>23, <2>2, PeriodMoves
  <2> QED  BY <1>21, <2>3, <2>4, <2>5, <2>6
<1>24. \A b \in Amounts : a <= b => p <= Period(base, least, factors, c, s, d, t, pair, b)
  BY <1>2, <1>5, <1>17, <1>18, <1>19, PeriodMoves
<1>25. ASSUME d1 > d PROVE p <= p1
  <2>1. ~(d1 = d)
    BY <1>25
  <2> QED  BY <1>16, <1>22, <2>1
<1>26. /\ p \in Oracle!MinimumPeriod..Oracle!BasePeriod
       /\ p1 \in Oracle!MinimumPeriod..Oracle!BasePeriod
  BY <1>1, <1>2, <1>21
<1>27. d1 > d => p1 >= p
  BY <1>21, <1>25
<1> QED
  BY <1>10, <1>11, <1>15, <1>19, <1>20, <1>23, <1>24, <1>26, <1>27

\* Confirmations, batches and time never lengthen a period, a dispute never
\* shortens one, and a larger amount waits no less (ChallengePeriod.sol:16-20),
\* for any factors that decrease, any tiers and however many of each there are.
THEOREM EvidenceAlwaysMovesPeriods == UpkeepSpec => EvidenceMovesPeriods
<1> DEFINE Moves(n, a) ==
               /\ totalBatchesDisputed' > totalBatchesDisputed =>
                     Oracle!ChallengePeriodFor(a, n)' >= Oracle!ChallengePeriodFor(a, n)
               /\ totalBatchesDisputed' = totalBatchesDisputed =>
                     Oracle!ChallengePeriodFor(a, n)' <= Oracle!ChallengePeriodFor(a, n)
               /\ \A b \in Amounts : a <= b =>
                     Oracle!ChallengePeriodFor(a, n) <= Oracle!ChallengePeriodFor(b, n)
           Directed ==
               Oracle!EvidenceNext /\ Oracle!OrderedFactors /\ ~Oracle!Reverts /\ ~Oracle!Reverts'
               => \A n \in Batches, a \in Amounts : Moves(n, a)
<1>1. ASSUME PeriodInv, Oracle!EvidenceNext, Oracle!OrderedFactors, ~Oracle!Reverts,
             ~Oracle!Reverts', NEW n \in Batches, NEW a \in Amounts
      PROVE  Moves(n, a)
  <2>1. /\ Oracle!GetChallengePeriod(a, n) \in Oracle!MinimumPeriod..Oracle!BasePeriod
        /\ Oracle!GetChallengePeriod(a, n)' \in Oracle!MinimumPeriod..Oracle!BasePeriod
        /\ totalBatchesDisputed' > totalBatchesDisputed =>
              Oracle!GetChallengePeriod(a, n)' >= Oracle!GetChallengePeriod(a, n)
        /\ totalBatchesDisputed' = totalBatchesDisputed =>
              Oracle!GetChallengePeriod(a, n)' <= Oracle!GetChallengePeriod(a, n)
        /\ \A b \in Amounts : a <= b =>
              Oracle!GetChallengePeriod(a, n) <= Oracle!GetChallengePeriod(b, n)
    BY <1>1, AnswersMove
  <2>2. /\ (facetRecords' <=> facetRecords) /\ diamondPeriod' = diamondPeriod
        /\ diamondPeriod \in Nat
    BY <1>1, EvidenceIs DEF PeriodInv
  <2>3. Oracle!ChallengePeriodFor(a, n) =
            IF facetRecords THEN Oracle!GetChallengePeriod(a, n) ELSE diamondPeriod
    BY <1>1, <2>1, BridgeTakes
  <2>4. Oracle!ChallengePeriodFor(a, n)' =
            IF facetRecords THEN Oracle!GetChallengePeriod(a, n)' ELSE diamondPeriod
    BY <1>1, <2>1, <2>2, BridgeTakes
  <2>5. ASSUME NEW b \in Amounts
        PROVE  Oracle!ChallengePeriodFor(b, n) =
                   IF facetRecords THEN Oracle!GetChallengePeriod(b, n) ELSE diamondPeriod
    <3>1. Oracle!GetChallengePeriod(b, n) \in Oracle!MinimumPeriod..Oracle!BasePeriod
      BY <1>1, AnswersMove
    <3> QED  BY <1>1, <3>1, BridgeTakes
  <2>6. diamondPeriod <= diamondPeriod
    BY <2>2
  <2>7. CASE facetRecords
    BY <2>1, <2>3, <2>4, <2>5, <2>7
  <2>8. CASE ~facetRecords
    BY <2>3, <2>4, <2>5, <2>6, <2>8
  <2> QED  BY <2>7, <2>8
<1>2. ASSUME PeriodInv, [UpkeepNext]_<<upgradeVars, tableVars, oracleVars, part>>
      PROVE  [Directed]_(Oracle!periodVars)
  <2>1. PeriodInv => Directed
    BY <1>1
  <2> QED  BY <1>2, <2>1
<1> QED  BY <1>2, PeriodInvHolds, PTL DEF UpkeepSpec, EvidenceMovesPeriods,
         Oracle!EvidenceMovesPeriods

----------------------------------------------------------------------------
(***************************************************************************)
(* The table.  The loops of the library are folds, which are rewritten     *)
(* first as the runs of results they go through: then a group, and a cut,  *)
(* can be followed selector by selector beside the plain map.              *)
(***************************************************************************)
\* One group of a cut.
GroupStep(u, group) ==
    CASE group.action = "Add" -> AddFunctions(u, group.facet, group.selectors)
      [] group.action = "Replace" -> ReplaceFunctions(u, group.facet, group.selectors)
      [] group.action = "Remove" -> RemoveFunctions(u, group.facet, group.selectors)

\* The step of each loop of a cut, and of the map's: a group taken or refused.
LoopStep(loop, u, e, facet, list, size) ==
    IF u = Reverted THEN Reverted
    ELSE CASE loop = "Add" ->
                  IF u.facetAddress[list[e]] # NoFacet THEN Reverted
                  ELSE AddFunction(u, list[e], size + e, facet)
           [] loop = "Replace" ->
                  IF u.facetAddress[list[e]] = facet
                     \/ RemoveFunction(u, u.facetAddress[list[e]], list[e]) = Reverted
                  THEN Reverted
                  ELSE AddFunction(RemoveFunction(u, u.facetAddress[list[e]], list[e]),
                                   list[e], size + e, facet)
           [] loop = "Remove" -> RemoveFunction(u, u.facetAddress[list[e]], list[e])
           [] loop = "Cut" -> GroupStep(u, list[e])
           [] loop = "Route" ->
                  IF Router!Accepts(u, e) THEN Router!Regrouped(u, e) ELSE Reverted

\* h is the function by which a loop over the elements of a sequence is folded.
Folds(h, loop, base, elements, facet, list, size) ==
    h = [s \in SUBSET DOMAIN elements |->
            IF s = {} THEN base
            ELSE LoopStep(loop, h[s \ {Max(s)}], elements[Max(s)], facet, list, size)]

\* A loop runs through the results after its first k elements.
Runs(after, loop, base, elements, facet, list, size) ==
    /\ after[0] = base
    /\ \A k \in 0..Len(elements) - 1 :
          after[k + 1] = LoopStep(loop, after[k], elements[k + 1], facet, list, size)

\* A set of naturals has a least element.
LEMMA LeastOf ==
    ASSUME NEW T, T \subseteq Nat, T # {}
    PROVE  \E x \in T : \A y \in T : x <= y
<1> DEFINE R == OpToRel(<, Nat)
<1>1. IsWellFoundedOn(R, Nat)
  BY NatLessThanWellFounded
<1>2. \A x, y \in Nat : <<y, x>> \in R <=> y < x
  BY DEF OpToRel
<1> HIDE DEF R
<1>3. PICK x \in T : \A y \in T : ~(<<y, x>> \in R)
  BY <1>1, WFMin
<1>4. \A y \in T : ~(y < x)
  BY <1>2, <1>3
<1>5. \A y \in T : x <= y
  BY <1>4
<1> QED  BY <1>5

\* Max, which the folds use, is the greatest element.
LEMMA MaxIsTop ==
    ASSUME NEW n \in Nat, NEW s \in SUBSET (1..n), s # {}
    PROVE  /\ Max(s) \in s
           /\ \A i \in s : (\A j \in s : i >= j) => Max(s) = i
<1> DEFINE Bounds == {m \in Nat : \A i \in s : i <= m}
<1>1. n \in Bounds
  OBVIOUS
<1>2. PICK m \in Bounds : \A k \in Bounds : m <= k
  <2>1. Bounds \subseteq Nat /\ Bounds # {}
    BY <1>1
  <2> HIDE DEF Bounds
  <2> QED  BY <2>1, LeastOf
<1>3. m \in s
  <2> SUFFICES ASSUME m \notin s PROVE FALSE
    OBVIOUS
  <2>1. \A i \in s : i \in Nat /\ i >= 1 /\ i <= m - 1
    OBVIOUS
  <2>2. m - 1 \in Bounds
    <3>1. PICK i : i \in s
      OBVIOUS
    <3>2. i \in Nat /\ i >= 1 /\ i <= m - 1
      BY <2>1, <3>1
    <3>3. m - 1 \in Nat
      BY <3>2
    <3> QED  BY <2>1, <3>3
  <2> QED  BY <1>2, <2>2
<1>4. Max(s) \in s /\ \A j \in s : Max(s) >= j
  BY <1>3 DEF Max
<1>5. ASSUME NEW i \in s, \A j \in s : i >= j PROVE Max(s) = i
  <2>1. Max(s) \in 1..n /\ i \in 1..n
    BY <1>4
  <2>2. Max(s) >= i /\ i >= Max(s)
    BY <1>4, <1>5
  <2> QED  BY <2>1, <2>2
<1> QED  BY <1>4, <1>5

\* A loop's function exists, on the sets of the first m places for each m.
LEMMA FoldExists ==
    ASSUME NEW loop, NEW base, NEW S, NEW elements \in Seq(S), NEW facet, NEW list, NEW size
    PROVE  \E h : Folds(h, loop, base, elements, facet, list, size)
<1> DEFINE Step(u, k) == LoopStep(loop, u, elements[k], facet, list, size)
           Upto(h, m) == h = [s \in SUBSET (1..m) |->
                                 IF s = {} THEN base ELSE Step(h[s \ {Max(s)}], Max(s))]
           Missing == {m \in Nat : ~ \E h : Upto(h, m)}
<1>1. \E h : Upto(h, 0)
  <2> DEFINE g == [s \in SUBSET (1..0) |-> base]
  <2>1. SUBSET (1..0) = {{}}
    OBVIOUS
  <2>2. Upto(g, 0)
    BY <2>1
  <2> QED  BY <2>2
<1>2. ASSUME NEW m \in Nat, NEW h, Upto(h, m)
      PROVE  \E g : Upto(g, m + 1)
  <2> DEFINE g == [s \in SUBSET (1..m + 1) |->
                      IF m + 1 \in s THEN Step(h[s \ {m + 1}], m + 1) ELSE h[s]]
  <2> HIDE DEF Step
  <2>1. ASSUME NEW s \in SUBSET (1..m + 1)
        PROVE  g[s] = IF s = {} THEN base ELSE Step(g[s \ {Max(s)}], Max(s))
    <3>1. CASE m + 1 \in s
      <4>1. Max(s) = m + 1
        <5>1. m + 1 \in Nat /\ s # {} /\ \A j \in s : m + 1 >= j
          BY <3>1
        <5> QED  BY <3>1, <5>1, MaxIsTop
      <4>2. s \ {m + 1} \in SUBSET (1..m) /\ s \ {m + 1} \in SUBSET (1..m + 1)
        OBVIOUS
      <4>3. g[s \ {m + 1}] = h[s \ {m + 1}]
        BY <4>2
      <4> QED  BY <3>1, <4>1, <4>3
    <3>2. CASE m + 1 \notin s
      <4>1. s \in SUBSET (1..m)
        BY <3>2
      <4>2. g[s] = h[s]
        BY <3>2
      <4>3. CASE s = {}
        BY <1>2, <4>1, <4>2, <4>3
      <4>4. CASE s # {}
        <5>1. Max(s) \in s
          BY <4>1, <4>4, MaxIsTop
        <5>2. g[s \ {Max(s)}] = h[s \ {Max(s)}]
          BY <3>2
        <5>3. h[s] = Step(h[s \ {Max(s)}], Max(s))
          BY <1>2, <4>1, <4>4
        <5> QED  BY <4>2, <4>4, <5>2, <5>3
      <4> QED  BY <4>3, <4>4
    <3> QED  BY <3>1, <3>2
  <2>2. g = [s \in SUBSET (1..m + 1) |->
                IF s = {} THEN base ELSE Step(g[s \ {Max(s)}], Max(s))]
    BY <2>1
  <2> QED  BY <2>2
<1>3. Missing = {}
  <2> HIDE DEF Upto
  <2> SUFFICES ASSUME Missing # {} PROVE FALSE
    OBVIOUS
  <2>1. PICK m \in Missing : \A k \in Missing : m <= k
    BY LeastOf
  <2>2. m # 0 /\ m - 1 \in Nat
    BY <1>1
  <2>3. m - 1 \notin Missing
    BY <2>1, <2>2
  <2>4. PICK h : Upto(h, m - 1)
    BY <2>2, <2>3
  <2>5. \E g : Upto(g, (m - 1) + 1)
    BY <1>2, <2>2, <2>4
  <2> QED  BY <2>5
<1>4. Len(elements) \in Nat /\ DOMAIN elements = 1..Len(elements)
  OBVIOUS
<1>5. PICK h : Upto(h, Len(elements))
  BY <1>3, <1>4
<1>6. Folds(h, loop, base, elements, facet, list, size)
  BY <1>4, <1>5 DEF Folds
<1> QED  BY <1>6

\* What it is after the first k places, up to all of them.
LEMMA FoldRuns ==
    ASSUME NEW loop, NEW base, NEW S, NEW elements \in Seq(S), NEW facet, NEW list, NEW size,
           NEW h, Folds(h, loop, base, elements, facet, list, size)
    PROVE  \E after : /\ Runs(after, loop, base, elements, facet, list, size)
                      /\ h[DOMAIN elements] = after[Len(elements)]
<1> DEFINE n == Len(elements)
           after == [k \in 0..n |-> h[1..k]]
<1>1. n \in Nat /\ DOMAIN elements = 1..n
  OBVIOUS
<1> HIDE DEF n
<1>2. after[0] = base
  <2>1. 1..0 = {} /\ {} \in SUBSET (1..n)
    OBVIOUS
  <2> QED  BY <1>1, <2>1 DEF Folds
<1>3. ASSUME NEW k \in 0..n - 1
      PROVE  after[k + 1] = LoopStep(loop, after[k], elements[k + 1], facet, list, size)
  <2>1. /\ 1..k + 1 \in SUBSET (1..n) /\ 1..k + 1 # {}
        /\ k + 1 \in 1..k + 1 /\ \A j \in 1..k + 1 : k + 1 >= j
        /\ (1..k + 1) \ {k + 1} = 1..k /\ k \in 0..n /\ k + 1 \in 0..n
    <3>1. k \in Nat /\ k + 1 <= n /\ k \in 0..n /\ k + 1 \in 0..n
      BY <1>1
    <3>2. 1..k + 1 \in SUBSET (1..n)
      BY <1>1, <3>1
    <3>3. k + 1 \in 1..k + 1 /\ \A j \in 1..k + 1 : k + 1 >= j
      BY <3>1
    <3>4. (1..k + 1) \ {k + 1} = 1..k
      BY <3>1
    <3> QED  BY <3>1, <3>2, <3>3, <3>4
  <2>2. Max(1..k + 1) = k + 1
    BY <1>1, <2>1, MaxIsTop
  <2>3. h[1..k + 1] = LoopStep(loop, h[(1..k + 1) \ {Max(1..k + 1)}],
                               elements[Max(1..k + 1)], facet, list, size)
    BY <1>1, <2>1 DEF Folds
  <2> QED  BY <2>1, <2>2, <2>3
<1>4. after[n] = h[DOMAIN elements]
  <2>1. n \in 0..n
    BY <1>1
  <2> QED  BY <1>1, <2>1
<1>5. Runs(after, loop, base, elements, facet, list, size)
  BY <1>2, <1>3 DEF Runs, n
<1> QED  BY <1>4, <1>5 DEF n

\* The loops of the library, over the places of a list.
Places(list) == [i \in DOMAIN list |-> i]

LoopRuns(result, loop, base, facet, list, size) ==
    \E after :
        /\ after[0] = base
        /\ \A k \in 0..Len(list) - 1 :
              after[k + 1] = LoopStep(loop, after[k], k + 1, facet, list, size)
        /\ result = after[Len(list)]

\* A fold over the places of a list is a run.
LEMMA PlacesRun ==
    ASSUME NEW loop, NEW base, NEW facet, NEW S, NEW list \in Seq(S), NEW size,
           NEW h, Folds(h, loop, base, Places(list), facet, list, size)
    PROVE  LoopRuns(h[DOMAIN Places(list)], loop, base, facet, list, size)
<1>1. /\ Places(list) \in Seq(Nat) /\ Len(Places(list)) = Len(list)
      /\ \A k \in 0..Len(list) - 1 : Places(list)[k + 1] = k + 1
  BY DEF Places
<1>2. PICK after : /\ Runs(after, loop, base, Places(list), facet, list, size)
                   /\ h[DOMAIN Places(list)] = after[Len(Places(list))]
  BY <1>1, FoldRuns
<1> QED  BY <1>1, <1>2 DEF Runs, LoopRuns

\* addFunctions is a run from the table with the facet listed.
LEMMA AddRuns ==
    ASSUME NEW t, NEW facet, NEW list \in Seq(Selectors)
    PROVE  LoopRuns(AddFunctions(t, facet, list), "Add", WithFacet(t, facet, list),
                    facet, list, Len(t.functionSelectors[facet]))
<1> DEFINE base == WithFacet(t, facet, list)
           size == Len(t.functionSelectors[facet])
           IsFold(h) ==
               h = [s \in SUBSET DOMAIN Places(list) |->
                       IF s = {} THEN base
                       ELSE IF h[s \ {Max(s)}] = Reverted THEN Reverted
                       ELSE IF h[s \ {Max(s)}].facetAddress[list[Places(list)[Max(s)]]] # NoFacet
                       THEN Reverted
                       ELSE AddFunction(h[s \ {Max(s)}], list[Places(list)[Max(s)]],
                                        size + Places(list)[Max(s)], facet)]
<1>1. AddFunctions(t, facet, list) = (CHOOSE h : IsFold(h))[DOMAIN Places(list)]
  BY DEF AddFunctions, ForEach, FoldLeftDomain, FoldLeft, MapThenFoldSet, Places
<1>2. \A h : IsFold(h) <=> Folds(h, "Add", base, Places(list), facet, list, size)
  BY DEF Folds, LoopStep
<1>3. \E h : IsFold(h)
  <2>1. Places(list) \in Seq(Nat)
    BY DEF Places
  <2> HIDE DEF IsFold, base, size
  <2> QED  BY <1>2, <2>1, FoldExists
<1> HIDE DEF IsFold, base, size
<1>4. Folds(CHOOSE h : IsFold(h), "Add", base, Places(list), facet, list, size)
  BY <1>2, <1>3
<1> QED  BY <1>1, <1>4, PlacesRun DEF base, size

\* So is replaceFunctions.
LEMMA ReplaceRuns ==
    ASSUME NEW t, NEW facet, NEW list \in Seq(Selectors)
    PROVE  LoopRuns(ReplaceFunctions(t, facet, list), "Replace", WithFacet(t, facet, list),
                    facet, list, Len(t.functionSelectors[facet]))
<1> DEFINE base == WithFacet(t, facet, list)
           size == Len(t.functionSelectors[facet])
           IsFold(h) ==
               h = [s \in SUBSET DOMAIN Places(list) |->
                       IF s = {} THEN base
                       ELSE IF h[s \ {Max(s)}] = Reverted THEN Reverted
                       ELSE LET u == h[s \ {Max(s)}]
                                i == Places(list)[Max(s)]
                                old == u.facetAddress[list[i]]
                                removed == RemoveFunction(u, old, list[i])
                            IN  IF old = facet \/ removed = Reverted THEN Reverted
                                ELSE AddFunction(removed, list[i], size + i, facet)]
<1>1. ReplaceFunctions(t, facet, list) = (CHOOSE h : IsFold(h))[DOMAIN Places(list)]
  BY DEF ReplaceFunctions, ForEach, FoldLeftDomain, FoldLeft, MapThenFoldSet, Places
<1>2. \A h : IsFold(h) <=> Folds(h, "Replace", base, Places(list), facet, list, size)
  BY DEF Folds, LoopStep
<1>3. \E h : IsFold(h)
  <2>1. Places(list) \in Seq(Nat)
    BY DEF Places
  <2> HIDE DEF IsFold, base, size
  <2> QED  BY <1>2, <2>1, FoldExists
<1> HIDE DEF IsFold, base, size
<1>4. Folds(CHOOSE h : IsFold(h), "Replace", base, Places(list), facet, list, size)
  BY <1>2, <1>3
<1> QED  BY <1>1, <1>4, PlacesRun DEF base, size

\* removeFunctions is a run from the table itself.
LEMMA RemoveRuns ==
    ASSUME NEW t, NEW facet, NEW list \in Seq(Selectors)
    PROVE  list # <<>> /\ facet = NoFacet =>
              LoopRuns(RemoveFunctions(t, facet, list), "Remove", t, facet, list,
                       Len(t.functionSelectors[facet]))
<1> SUFFICES ASSUME list # <<>>, facet = NoFacet
             PROVE  LoopRuns(RemoveFunctions(t, facet, list), "Remove", t, facet, list,
                             Len(t.functionSelectors[facet]))
  OBVIOUS
<1> DEFINE base == t
           size == Len(t.functionSelectors[facet])
           IsFold(h) ==
               h = [s \in SUBSET DOMAIN Places(list) |->
                       IF s = {} THEN base
                       ELSE IF h[s \ {Max(s)}] = Reverted THEN Reverted
                       ELSE LET u == h[s \ {Max(s)}]
                                i == Places(list)[Max(s)]
                            IN  RemoveFunction(u, u.facetAddress[list[i]], list[i])]
<1>1. RemoveFunctions(t, facet, list) = (CHOOSE h : IsFold(h))[DOMAIN Places(list)]
  BY DEF RemoveFunctions, ForEach, FoldLeftDomain, FoldLeft, MapThenFoldSet, Places
<1>2. \A h : IsFold(h) <=> Folds(h, "Remove", base, Places(list), facet, list, size)
  BY DEF Folds, LoopStep
<1>3. \E h : IsFold(h)
  <2>1. Places(list) \in Seq(Nat)
    BY DEF Places
  <2> HIDE DEF IsFold, base, size
  <2> QED  BY <1>2, <2>1, FoldExists
<1> HIDE DEF IsFold, base, size
<1>4. Folds(CHOOSE h : IsFold(h), "Remove", base, Places(list), facet, list, size)
  BY <1>2, <1>3
<1> QED  BY <1>1, <1>4, PlacesRun DEF base, size

\* A cut is a run over its groups.
LEMMA CutRuns ==
    ASSUME NEW t, NEW cut \in Seq(Groups)
    PROVE  LoopRuns(CutTable(t, cut), "Cut", t, NoFacet, cut, 0)
<1> DEFINE IsFold(h) ==
               h = [s \in SUBSET DOMAIN Places(cut) |->
                       IF s = {} THEN t
                       ELSE IF h[s \ {Max(s)}] = Reverted THEN Reverted
                       ELSE LET u == h[s \ {Max(s)}]
                                i == Places(cut)[Max(s)]
                            IN  GroupStep(u, cut[i])]
<1>1. CutTable(t, cut) = (CHOOSE h : IsFold(h))[DOMAIN Places(cut)]
  BY DEF CutTable, GroupStep, ForEach, FoldLeftDomain, FoldLeft, MapThenFoldSet, Places
<1>2. \A h : IsFold(h) <=> Folds(h, "Cut", t, Places(cut), NoFacet, cut, 0)
  BY DEF Folds, LoopStep
<1>3. \E h : IsFold(h)
  <2>1. Places(cut) \in Seq(Nat)
    BY DEF Places
  <2> HIDE DEF IsFold
  <2> QED  BY <1>2, <2>1, FoldExists
<1> HIDE DEF IsFold
<1>4. Folds(CHOOSE h : IsFold(h), "Cut", t, Places(cut), NoFacet, cut, 0)
  BY <1>2, <1>3
<1> QED  BY <1>1, <1>4, PlacesRun

\* The map's loop goes over the groups themselves.
LEMMA RouteRuns ==
    ASSUME NEW route, NEW cut \in Seq(Groups)
    PROVE  \E after :
              /\ Runs(after, "Route", route, cut, NoFacet, cut, 0)
              /\ Router!RouteAfter(route, cut) = after[Len(cut)]
<1> DEFINE IsFold(h) ==
               h = [s \in SUBSET DOMAIN cut |->
                       IF s = {} THEN route
                       ELSE IF /\ h[s \ {Router!Max(s)}] # Reverted
                               /\ Router!Accepts(h[s \ {Router!Max(s)}], cut[Router!Max(s)])
                            THEN Router!Regrouped(h[s \ {Router!Max(s)}], cut[Router!Max(s)])
                            ELSE Reverted]
<1>1. Router!RouteAfter(route, cut) = (CHOOSE h : IsFold(h))[DOMAIN cut]
  BY DEF Router!RouteAfter, Router!FoldLeft, Router!MapThenFoldSet
<1>2. \A s : Router!Max(s) = Max(s)
  BY DEF Router!Max, Max
<1>3. \A h : IsFold(h) <=> Folds(h, "Route", route, cut, NoFacet, cut, 0)
  BY <1>2 DEF Folds, LoopStep
<1>4. \E h : IsFold(h)
  <2> HIDE DEF IsFold
  <2> QED  BY <1>3, FoldExists
<1> HIDE DEF IsFold
<1>5. Folds(CHOOSE h : IsFold(h), "Route", route, cut, NoFacet, cut, 0)
  BY <1>3, <1>4
<1>6. PICK h : h = CHOOSE fold : IsFold(fold)
  OBVIOUS
<1>7. Folds(h, "Route", route, cut, NoFacet, cut, 0)
  BY <1>5, <1>6
<1>8. PICK after : /\ Runs(after, "Route", route, cut, NoFacet, cut, 0)
                   /\ h[DOMAIN cut] = after[Len(cut)]
  BY <1>7, FoldRuns
<1> QED  BY <1>1, <1>6, <1>8

----------------------------------------------------------------------------
\* Lists with the positions of their elements.

\* The list has the elements of the set, each at its position and nowhere
\* else.
Indexed(set, list, position) ==
    /\ \A i \in 1..Len(list) : list[i] \in set /\ position[list[i]] = i
    /\ \A x \in set : position[x] \in 1..Len(list) /\ list[position[x]] = x

\* Such a list has every element of its set once.
LEMMA IndexedIs ==
    ASSUME NEW S, NEW list \in Seq(S), NEW set, NEW position, Indexed(set, list, position)
    PROVE  /\ IsInjective(list) /\ ToSet(list) = set
           /\ \A i \in DOMAIN list : position[list[i]] = i
           /\ list = <<>> <=> set = {}
<1>1. DOMAIN list = 1..Len(list) /\ Len(list) \in Nat
  OBVIOUS
<1>2. IsInjective(list) /\ \A i \in DOMAIN list : position[list[i]] = i
  BY <1>1 DEF Indexed, IsInjective
<1>3. ToSet(list) = set
  BY <1>1 DEF Indexed, ToSet
<1>4. list = <<>> <=> set = {}
  <2>1. CASE list = <<>>
    BY <2>1 DEF Indexed
  <2>2. CASE list # <<>>
    <3>1. 1 \in 1..Len(list)
      BY <2>2
    <3> QED  BY <2>2, <3>1 DEF Indexed
  <2> QED  BY <2>1, <2>2
<1> QED  BY <1>2, <1>3, <1>4

\* Positions elsewhere do not matter.
LEMMA IndexedRests ==
    ASSUME NEW set, NEW list, NEW position, NEW moved, Indexed(set, list, position),
           \A x \in set : moved[x] = position[x]
    PROVE  Indexed(set, list, moved)
BY DEF Indexed

\* An element is appended, at the last position.
LEMMA IndexedGrows ==
    ASSUME NEW S, NEW list \in Seq(S), NEW set \in SUBSET S, NEW position \in [S -> Nat],
           Indexed(set, list, position), NEW x \in S \ set
    PROVE  /\ Append(list, x) \in Seq(S) /\ Len(Append(list, x)) = Len(list) + 1
           /\ [position EXCEPT ![x] = Len(list) + 1] \in [S -> Nat]
           /\ Indexed(set \cup {x}, Append(list, x), [position EXCEPT ![x] = Len(list) + 1])
<1> DEFINE more == Append(list, x)
           moved == [position EXCEPT ![x] = Len(list) + 1]
<1>1. /\ more \in Seq(S) /\ Len(more) = Len(list) + 1 /\ Len(list) \in Nat
      /\ \A i \in 1..Len(list) : more[i] = list[i]
      /\ more[Len(list) + 1] = x
  OBVIOUS
<1>2. /\ moved \in [S -> Nat] /\ moved[x] = Len(list) + 1
      /\ \A y \in S : y # x => moved[y] = position[y]
  OBVIOUS
<1> HIDE DEF more, moved
<1>3. ASSUME NEW i \in 1..Len(more) PROVE more[i] \in set \cup {x} /\ moved[more[i]] = i
  <2>1. CASE i \in 1..Len(list)
    <3>1. list[i] \in set /\ position[list[i]] = i
      BY <2>1 DEF Indexed
    <3>2. list[i] \in S /\ list[i] # x
      BY <3>1
    <3> QED  BY <1>1, <1>2, <2>1, <3>1, <3>2
  <2>2. CASE i = Len(list) + 1
    BY <1>1, <1>2, <2>2
  <2> QED  BY <1>1, <2>1, <2>2
<1>4. ASSUME NEW y \in set \cup {x} PROVE moved[y] \in 1..Len(more) /\ more[moved[y]] = y
  <2>1. CASE y = x
    BY <1>1, <1>2, <2>1
  <2>2. CASE y \in set
    <3>1. position[y] \in 1..Len(list) /\ list[position[y]] = y /\ moved[y] = position[y]
      BY <1>2, <2>2 DEF Indexed
    <3> QED  BY <1>1, <3>1
  <2> QED  BY <2>1, <2>2
<1>5. Indexed(set \cup {x}, more, moved)
  BY <1>3, <1>4 DEF Indexed
<1> QED  BY <1>1, <1>2, <1>5 DEF more, moved

\* The last element takes the place of another and is popped.
LEMMA MoveLastIs ==
    ASSUME NEW S, NEW list \in Seq(S), NEW k \in 1..Len(list)
    PROVE  /\ MoveLast(list, k) \in Seq(S) /\ Len(MoveLast(list, k)) = Len(list) - 1
           /\ \A i \in 1..Len(list) - 1 :
                 MoveLast(list, k)[i] = IF i = k THEN Last(list) ELSE list[i]
<1> DEFINE replaced == [list EXCEPT ![k] = Last(list)]
           n == Len(list)
<1>1. n \in Nat /\ n >= 1 /\ Last(list) \in S /\ list \in [1..n -> S]
  BY DEF Last
<1>2. /\ replaced \in [1..n -> S]
      /\ \A i \in 1..n : replaced[i] = IF i = k THEN Last(list) ELSE list[i]
  BY <1>1
<1>3. replaced \in Seq(S) /\ Len(replaced) = n
  BY <1>1, <1>2
<1> HIDE DEF replaced
<1>4. MoveLast(list, k) = SubSeq(replaced, 1, n - 1)
  BY <1>3 DEF MoveLast, Front, ReplaceAt, replaced
<1>5. /\ SubSeq(replaced, 1, n - 1) \in Seq(S) /\ Len(SubSeq(replaced, 1, n - 1)) = n - 1
      /\ \A i \in 1..n - 1 : SubSeq(replaced, 1, n - 1)[i] = replaced[i]
  BY <1>1, <1>3
<1> QED  BY <1>1, <1>2, <1>4, <1>5

\* The element that moves is one of the set.
LEMMA LastIsListed ==
    ASSUME NEW S, NEW list \in Seq(S), NEW set, NEW position, Indexed(set, list, position),
           NEW x \in set
    PROVE  Last(list) \in set
<1>1. Len(list) \in Nat /\ position[x] \in 1..Len(list)
  BY DEF Indexed
<1>2. Len(list) \in 1..Len(list)
  BY <1>1
<1> QED  BY <1>2 DEF Indexed, Last

\* The positions when the last element takes the place of x.
Vacated(position, list, x) == [position EXCEPT ![Last(list)] = position[x], ![x] = 0]

\* An element leaves: the list without it has the set without it.
LEMMA IndexedShrinks ==
    ASSUME NEW S, NEW list \in Seq(S), NEW set \in SUBSET S, NEW position \in [S -> Nat],
           Indexed(set, list, position), NEW x \in set,
           NEW moved, moved = Vacated(position, list, x)
    PROVE  /\ MoveLast(list, position[x]) \in Seq(S)
           /\ moved \in [S -> Nat]
           /\ Indexed(set \ {x}, MoveLast(list, position[x]), moved)
<1> DEFINE n == Len(list)
           k == position[x]
           less == MoveLast(list, k)
<1>1. n \in Nat /\ k \in 1..n /\ list[k] = x /\ n \in 1..n
  BY DEF Indexed
<1>2. Last(list) \in set /\ position[Last(list)] = n /\ Last(list) = list[n]
  BY <1>1 DEF Indexed, Last
<1>3. /\ less \in Seq(S) /\ Len(less) = n - 1
      /\ \A i \in 1..n - 1 : less[i] = IF i = k THEN Last(list) ELSE list[i]
  BY <1>1, MoveLastIs
<1>4. /\ moved \in [S -> Nat] /\ moved[x] = 0
      /\ Last(list) # x => moved[Last(list)] = k
      /\ \A y \in S : y # x /\ y # Last(list) => moved[y] = position[y]
  BY <1>1, <1>2 DEF Vacated
<1> HIDE DEF less, k, n
<1>5. ASSUME NEW i \in 1..Len(less) PROVE less[i] \in set \ {x} /\ moved[less[i]] = i
  <2>1. i \in 1..n - 1 /\ i \in 1..n /\ i # n
    BY <1>1, <1>3
  <2>2. CASE i = k
    <3>1. less[i] = Last(list)
      BY <1>3, <2>1, <2>2
    <3>2. Last(list) # x
      BY <1>1, <1>2, <2>1, <2>2 DEF k
    <3> QED  BY <1>2, <1>4, <2>2, <3>1, <3>2
  <2>3. CASE i # k
    <3>1. less[i] = list[i]
      BY <1>3, <2>1, <2>3
    <3>2. list[i] \in set /\ position[list[i]] = i
      BY <2>1 DEF Indexed, n
    <3>3. list[i] # x /\ list[i] # Last(list)
      BY <1>2, <2>1, <2>3, <3>2 DEF k
    <3> QED  BY <1>4, <3>1, <3>2, <3>3
  <2> QED  BY <2>2, <2>3
<1>6. ASSUME NEW y \in set \ {x} PROVE moved[y] \in 1..Len(less) /\ less[moved[y]] = y
  <2>1. position[y] \in 1..n /\ list[position[y]] = y /\ position[y] # k
    BY <1>1 DEF Indexed, n
  <2>2. CASE y = Last(list)
    <3>1. moved[y] = k
      BY <1>4, <2>2
    <3>2. k \in 1..n - 1
      BY <1>1, <1>2, <2>1, <2>2
    <3> QED  BY <1>3, <2>2, <3>1, <3>2
  <2>3. CASE y # Last(list)
    <3>1. moved[y] = position[y]
      BY <1>4, <2>3
    <3>2. position[y] \in 1..n - 1
      BY <1>1, <1>2, <2>1, <2>3
    <3> QED  BY <1>3, <2>1, <3>1, <3>2
  <2> QED  BY <2>2, <2>3
<1>7. Indexed(set \ {x}, less, moved)
  BY <1>5, <1>6 DEF Indexed
<1> QED  BY <1>2, <1>3, <1>4, <1>7 DEF less, k, n

----------------------------------------------------------------------------
\* What leads to a facet, and the facets with selectors.

Leads(t, f) == {s \in Selectors : t.facetAddress[s] = f}
Used(t) == {f \in Facets : t.functionSelectors[f] # <<>>}

\* The lists follow the routes, and the facets in use are listed, with those
\* that are kept without a selector for a moment.
Well(t, kept) ==
    /\ t \in Tables
    /\ \A f \in Facets :
          Indexed(Leads(t, f), t.functionSelectors[f], t.selectorPosition)
    /\ Indexed(Used(t) \cup kept, t.facetAddresses, t.facetPosition)
    /\ Used(t) \subseteq HasCode

\* What the assumption says of facets and selectors.
LEMMA FacetsAre ==
    /\ NoFacet \notin Facets /\ HasCode \subseteq Facets /\ Itself \in Facets
    /\ Reverted \notin Tables /\ Reverted \notin Routes
    /\ CutFacets \subseteq HasCode /\ CutSelector \in Selectors /\ Cuts \subseteq Seq(Groups)
BY SelectorTableAssumption

\* The parts of a table.
LEMMA TableIs ==
    ASSUME NEW t \in Tables
    PROVE  /\ t # Reverted
           /\ t.facetAddress \in [Selectors -> Facets \cup {NoFacet}]
           /\ t.selectorPosition \in [Selectors -> Nat]
           /\ t.functionSelectors \in [Facets -> Seq(Selectors)]
           /\ t.facetPosition \in [Facets -> Nat] /\ t.facetAddresses \in Seq(Facets)
           /\ t = [facetAddress |-> t.facetAddress, selectorPosition |-> t.selectorPosition,
                   functionSelectors |-> t.functionSelectors,
                   facetPosition |-> t.facetPosition, facetAddresses |-> t.facetAddresses]
           /\ Used(t) \subseteq Facets /\ \A f : Leads(t, f) \subseteq Selectors
BY FacetsAre DEF Tables, Routes, Used, Leads

\* A list is empty when nothing leads to its facet.
LEMMA UsedIs ==
    ASSUME NEW t, NEW kept, Well(t, kept), NEW f \in Facets
    PROVE  f \in Used(t) <=> Leads(t, f) # {}
<1>1. t \in Tables /\ Indexed(Leads(t, f), t.functionSelectors[f], t.selectorPosition)
  BY DEF Well
<1>2. t.functionSelectors[f] \in Seq(Selectors)
  BY <1>1, TableIs
<1>3. t.functionSelectors[f] = <<>> <=> Leads(t, f) = {}
  BY <1>1, <1>2, IndexedIs
<1> QED  BY <1>3 DEF Used

\* A facet without selectors is listed, and kept.
LEMMA FacetAdded ==
    ASSUME NEW t, Well(t, {}), NEW f \in Facets \ Used(t),
           NEW u, u = AddFacet(t, f)
    PROVE  /\ Well(u, {f}) /\ u.facetAddress = t.facetAddress
           /\ u.functionSelectors = t.functionSelectors
<1> DEFINE listed == Append(t.facetAddresses, f)
           position == [t.facetPosition EXCEPT ![f] = Len(t.facetAddresses) + 1]
<1>1. t \in Tables /\ Indexed(Used(t), t.facetAddresses, t.facetPosition)
  BY DEF Well
<1>2. u = [facetAddress |-> t.facetAddress, selectorPosition |-> t.selectorPosition,
           functionSelectors |-> t.functionSelectors,
           facetPosition |-> position, facetAddresses |-> listed]
  <2>1. PICK a, b, c, d, e :
           t = [facetAddress |-> a, selectorPosition |-> b, functionSelectors |-> c,
                facetPosition |-> d, facetAddresses |-> e]
    BY <1>1, TableIs
  <2> QED  BY <2>1 DEF AddFacet
<1>3. /\ listed \in Seq(Facets) /\ position \in [Facets -> Nat]
      /\ Indexed(Used(t) \cup {f}, listed, position)
  <2>1. /\ t.facetAddresses \in Seq(Facets) /\ t.facetPosition \in [Facets -> Nat]
        /\ Used(t) \in SUBSET Facets
    BY <1>1, TableIs
  <2> QED  BY <1>1, <2>1, IndexedGrows
<1> HIDE DEF listed, position
<1>4. /\ u.facetAddress = t.facetAddress /\ u.selectorPosition = t.selectorPosition
      /\ u.functionSelectors = t.functionSelectors
      /\ u.facetPosition = position /\ u.facetAddresses = listed
  BY <1>2
<1>5. u \in Tables
  BY <1>1, <1>2, <1>3, TableIs DEF Tables, Routes
<1>6. Used(u) = Used(t) /\ \A g : Leads(u, g) = Leads(t, g)
  BY <1>4 DEF Used, Leads
<1>7. Well(u, {f})
  BY <1>3, <1>4, <1>5, <1>6 DEF Well
<1> QED  BY <1>4, <1>7

\* A selector that leads to nothing, before and after it is led to a listed
\* facet.
Adds(t, f, s, u) ==
    /\ f \in HasCode /\ s \in Selectors /\ Well(t, {f}) /\ t.facetAddress[s] = NoFacet
    /\ u = AddFunction(t, s, Len(t.functionSelectors[f]) + 1, f)
Added(t, f, s, u) ==
    /\ Well(u, {}) /\ Well(u, {f})
    /\ u.facetAddress = [t.facetAddress EXCEPT ![s] = f]
    /\ Len(u.functionSelectors[f]) = Len(t.functionSelectors[f]) + 1

\* Adding the selector does that.
LEMMA FunctionAdded ==
    ASSUME NEW t, NEW f, NEW s, NEW u, Adds(t, f, s, u)
    PROVE  Added(t, f, s, u)
<1>0. /\ f \in HasCode /\ s \in Selectors /\ Well(t, {f}) /\ t.facetAddress[s] = NoFacet
      /\ u = AddFunction(t, s, Len(t.functionSelectors[f]) + 1, f)
  BY DEF Adds
<1> USE <1>0
<1> DEFINE list == t.functionSelectors[f]
           routes == [t.facetAddress EXCEPT ![s] = f]
           position == [t.selectorPosition EXCEPT ![s] = Len(list) + 1]
           lists == [t.functionSelectors EXCEPT ![f] = Append(list, s)]
<1>1. /\ t \in Tables /\ f \in Facets /\ f # NoFacet
      /\ \A g \in Facets : Indexed(Leads(t, g), t.functionSelectors[g], t.selectorPosition)
      /\ Indexed(Used(t) \cup {f}, t.facetAddresses, t.facetPosition)
      /\ Used(t) \subseteq HasCode
  BY FacetsAre DEF Well
<1>2. u = [facetAddress |-> routes, selectorPosition |-> position,
           functionSelectors |-> lists,
           facetPosition |-> t.facetPosition, facetAddresses |-> t.facetAddresses]
  <2>1. PICK a, b, c, d, e :
           t = [facetAddress |-> a, selectorPosition |-> b, functionSelectors |-> c,
                facetPosition |-> d, facetAddresses |-> e]
    BY <1>1, TableIs
  <2> QED  BY <2>1 DEF AddFunction
<1>3. /\ t.facetAddress \in [Selectors -> Facets \cup {NoFacet}]
      /\ t.selectorPosition \in [Selectors -> Nat]
      /\ t.functionSelectors \in [Facets -> Seq(Selectors)] /\ list \in Seq(Selectors)
      /\ Leads(t, f) \in SUBSET Selectors /\ s \notin Leads(t, f)
  <2>1. s \notin Leads(t, f)
    BY <1>1 DEF Leads
  <2> QED  BY <1>1, <2>1, TableIs
<1>4. /\ Append(list, s) \in Seq(Selectors) /\ Len(Append(list, s)) = Len(list) + 1
      /\ position \in [Selectors -> Nat]
      /\ Indexed(Leads(t, f) \cup {s}, Append(list, s), position)
  BY <1>1, <1>3, IndexedGrows
<1>5. routes \in [Selectors -> Facets \cup {NoFacet}] /\ lists \in [Facets -> Seq(Selectors)]
  BY <1>1, <1>3, <1>4
<1>6. /\ u.facetAddress = routes /\ u.selectorPosition = position
      /\ u.functionSelectors = lists
      /\ u.facetPosition = t.facetPosition /\ u.facetAddresses = t.facetAddresses
  BY <1>2
<1>7. u \in Tables
  BY <1>1, <1>2, <1>4, <1>5, TableIs DEF Tables, Routes
<1>8. Leads(u, f) = Leads(t, f) \cup {s} /\ \A g \in Facets \ {f} : Leads(u, g) = Leads(t, g)
  <2>1. /\ u.facetAddress[s] = f
        /\ \A x \in Selectors : x # s => u.facetAddress[x] = t.facetAddress[x]
    BY <1>3, <1>6
  <2> QED  BY <1>1, <2>1, FacetsAre DEF Leads
<1>9. ASSUME NEW g \in Facets
      PROVE  Indexed(Leads(u, g), u.functionSelectors[g], u.selectorPosition)
  <2>1. CASE g = f
    BY <1>1, <1>3, <1>4, <1>6, <1>8, <2>1
  <2>2. CASE g # f
    <3>1. s \notin Leads(t, g)
      BY FacetsAre DEF Leads
    <3>2. \A x \in Leads(t, g) : position[x] = t.selectorPosition[x]
      BY <1>3, <3>1 DEF Leads
    <3>3. Indexed(Leads(t, g), t.functionSelectors[g], position)
      BY <1>1, <3>2, IndexedRests
    <3>4. u.functionSelectors[g] = t.functionSelectors[g]
      BY <1>3, <1>6, <2>2
    <3> QED  BY <1>6, <1>8, <2>2, <3>3, <3>4
  <2> QED  BY <2>1, <2>2
<1>10. u.functionSelectors[f] = Append(list, s)
  BY <1>1, <1>3, <1>6
<1>11. Used(u) = Used(t) \cup {f}
  <2>1. Append(list, s) # <<>>
    <3>1. Len(list) \in Nat /\ Len(Append(list, s)) = Len(list) + 1
      BY <1>3, <1>4
    <3>2. Len(Append(list, s)) # Len(<<>>)
      BY <3>1
    <3> QED  BY <3>2
  <2>2. \A g \in Facets \ {f} : u.functionSelectors[g] = t.functionSelectors[g]
    BY <1>3, <1>6
  <2> QED  BY <1>1, <1>10, <2>1, <2>2 DEF Used
<1>12. /\ Used(u) \cup {} = Used(t) \cup {f} /\ Used(u) \cup {f} = Used(t) \cup {f}
       /\ Used(u) \subseteq HasCode
  BY <1>1, <1>11
<1>13. Well(u, {}) /\ Well(u, {f})
  BY <1>1, <1>6, <1>7, <1>9, <1>12 DEF Well
<1> QED  BY <1>4, <1>6, <1>10, <1>13 DEF Added

\* A selector before and after it leaves its facet, with it the facet when it
\* has no other.
Removes(t, kept, f, s, r) ==
    /\ f \in Facets \ {Itself} /\ f \notin kept /\ s \in Selectors
    /\ Well(t, kept) /\ t.facetAddress[s] = f /\ r = RemoveFunction(t, f, s)
Removed(t, kept, f, s, r) ==
    /\ Well(r, kept)
    /\ r.facetAddress = [t.facetAddress EXCEPT ![s] = NoFacet]
    /\ \A g \in Facets \ {f} : r.functionSelectors[g] = t.functionSelectors[g]

\* Removing the selector does that.
LEMMA FunctionRemoved ==
    ASSUME NEW t, NEW kept, NEW f, NEW s, NEW r, Removes(t, kept, f, s, r)
    PROVE  Removed(t, kept, f, s, r)
<1>0. /\ f \in Facets \ {Itself} /\ f \notin kept /\ s \in Selectors
      /\ Well(t, kept) /\ t.facetAddress[s] = f /\ r = RemoveFunction(t, f, s)
  BY DEF Removes
<1> USE <1>0
<1> DEFINE list == t.functionSelectors[f]
           place == t.selectorPosition[s]
           less == MoveLast(list, place)
           routes == [t.facetAddress EXCEPT ![s] = NoFacet]
           position == [t.selectorPosition EXCEPT ![Last(list)] = place, ![s] = 0]
           lists == [t.functionSelectors EXCEPT ![f] = less]
<1>1. /\ t \in Tables /\ f \in Facets /\ f # NoFacet /\ s \in Leads(t, f)
      /\ \A g \in Facets : Indexed(Leads(t, g), t.functionSelectors[g], t.selectorPosition)
      /\ Indexed(Used(t) \cup kept, t.facetAddresses, t.facetPosition)
      /\ Used(t) \subseteq HasCode
  BY FacetsAre DEF Well, Leads
<1>2. PICK u : u = [facetAddress |-> routes, selectorPosition |-> position,
                    functionSelectors |-> lists, facetPosition |-> t.facetPosition,
                    facetAddresses |-> t.facetAddresses]
  OBVIOUS
<1>3. r = IF Len(list) = 1 THEN DropFacet(u, f) ELSE u
  <2>1. PICK a, b, c, d, e :
           t = [facetAddress |-> a, selectorPosition |-> b, functionSelectors |-> c,
                facetPosition |-> d, facetAddresses |-> e]
    BY <1>1, TableIs
  <2>2. PICK w : w = [t EXCEPT
            !.functionSelectors[f] = MoveLast(@, place),
            !.selectorPosition = [@ EXCEPT ![Last(list)] = place, ![s] = 0],
            !.facetAddress[s] = NoFacet]
    OBVIOUS
  <2>3. w = u
    <3>1. w = [t EXCEPT !.functionSelectors = lists, !.selectorPosition = position,
                        !.facetAddress = routes]
      BY <2>1, <2>2
    <3>2. d = t.facetPosition /\ e = t.facetAddresses
      BY <2>1
    <3> HIDE DEF lists, position, routes
    <3>3. w = [facetAddress |-> routes, selectorPosition |-> position,
               functionSelectors |-> lists, facetPosition |-> d, facetAddresses |-> e]
      BY <2>1, <3>1
    <3> QED  BY <1>2, <3>2, <3>3
  <2>4. f \notin {NoFacet, Itself}
    BY <1>1
  <2> QED  BY <2>2, <2>3, <2>4 DEF RemoveFunction
<1>4. /\ t.facetAddress \in [Selectors -> Facets \cup {NoFacet}]
      /\ t.selectorPosition \in [Selectors -> Nat]
      /\ t.functionSelectors \in [Facets -> Seq(Selectors)] /\ list \in Seq(Selectors)
      /\ t.facetPosition \in [Facets -> Nat] /\ t.facetAddresses \in Seq(Facets)
      /\ Leads(t, f) \in SUBSET Selectors
  BY <1>1, TableIs
<1>5. /\ less \in Seq(Selectors) /\ Len(less) = Len(list) - 1 /\ Last(list) \in Leads(t, f)
      /\ position \in [Selectors -> Nat]
      /\ Indexed(Leads(t, f) \ {s}, less, position)
  <2>1. PICK at \in [Selectors -> Nat] : at = t.selectorPosition
    BY <1>4
  <2>2. PICK set \in SUBSET Selectors : set = Leads(t, f)
    BY <1>4
  <2>3. PICK own \in Seq(Selectors) : own = list
    BY <1>4
  <2>4. Indexed(set, own, at) /\ s \in set
    BY <1>1, <2>1, <2>2, <2>3
  <2>5. PICK moved : moved = Vacated(at, own, s)
    OBVIOUS
  <2>6. /\ MoveLast(own, at[s]) \in Seq(Selectors)
        /\ moved \in [Selectors -> Nat]
        /\ Indexed(set \ {s}, MoveLast(own, at[s]), moved)
    BY <2>4, <2>5, IndexedShrinks
  <2>7. Last(own) \in set
    BY <2>4, LastIsListed
  <2>8. Len(MoveLast(own, at[s])) = Len(own) - 1
    <3>1. at[s] \in 1..Len(own)
      BY <2>4 DEF Indexed
    <3> QED  BY <3>1, MoveLastIs
  <2> QED  BY <2>1, <2>2, <2>3, <2>5, <2>6, <2>7, <2>8 DEF Vacated
<1>6. routes \in [Selectors -> Facets \cup {NoFacet}] /\ lists \in [Facets -> Seq(Selectors)]
  BY <1>1, <1>4, <1>5
<1>7. /\ u.facetAddress = routes /\ u.selectorPosition = position
      /\ u.functionSelectors = lists
      /\ u.facetPosition = t.facetPosition /\ u.facetAddresses = t.facetAddresses
  BY <1>2
<1>8. u \in Tables
  BY <1>1, <1>2, <1>4, <1>5, <1>6 DEF Tables, Routes
<1>9. Leads(u, f) = Leads(t, f) \ {s} /\ \A g \in Facets \ {f} : Leads(u, g) = Leads(t, g)
  <2>1. /\ u.facetAddress[s] = NoFacet
        /\ \A x \in Selectors : x # s => u.facetAddress[x] = t.facetAddress[x]
    BY <1>4, <1>7
  <2> QED  BY <1>1, <2>1, FacetsAre DEF Leads
<1>10. ASSUME NEW g \in Facets
       PROVE  Indexed(Leads(u, g), u.functionSelectors[g], u.selectorPosition)
  <2>1. CASE g = f
    BY <1>1, <1>4, <1>5, <1>7, <1>9, <2>1
  <2>2. CASE g # f
    <3>1. \A x \in Leads(t, g) : x \in Selectors /\ x # s /\ x # Last(list)
      BY <1>1, <1>5, <2>2 DEF Leads
    <3>2. \A x \in Leads(t, g) : position[x] = t.selectorPosition[x]
      BY <1>4, <3>1
    <3>3. Indexed(Leads(t, g), t.functionSelectors[g], position)
      BY <1>1, <3>2, IndexedRests
    <3>4. u.functionSelectors[g] = t.functionSelectors[g]
      BY <1>4, <1>7, <2>2
    <3> QED  BY <1>7, <1>9, <2>2, <3>3, <3>4
  <2> QED  BY <2>1, <2>2
<1>11. /\ u.functionSelectors[f] = less
       /\ \A g \in Facets \ {f} : u.functionSelectors[g] = t.functionSelectors[g]
  BY <1>1, <1>4, <1>7
<1>12. list # <<>> /\ f \in Used(t) /\ Len(list) \in Nat
  BY <1>1, <1>4, IndexedIs DEF Used
<1>13. CASE Len(list) # 1
  <2>1. less # <<>>
    <3>1. Len(less) # Len(<<>>)
      BY <1>5, <1>12, <1>13
    <3> QED  BY <3>1
  <2>2. Used(u) = Used(t)
    BY <1>1, <1>11, <1>12, <2>1 DEF Used
  <2>3. Well(u, kept)
    BY <1>1, <1>7, <1>8, <1>10, <2>2 DEF Well
  <2> QED  BY <1>3, <1>7, <1>11, <1>13, <2>3 DEF Removed
<1>14. CASE Len(list) = 1
  <2> DEFINE listed == MoveLast(t.facetAddresses, t.facetPosition[f])
             at == [t.facetPosition EXCEPT ![Last(t.facetAddresses)] = t.facetPosition[f],
                                           ![f] = 0]
  <2>1. r = [facetAddress |-> routes, selectorPosition |-> position,
             functionSelectors |-> lists, facetPosition |-> at, facetAddresses |-> listed]
    <3>1. r = DropFacet(u, f)
      BY <1>3, <1>14
    <3>2. r = [u EXCEPT !.facetAddresses = MoveLast(@, u.facetPosition[f]),
                        !.facetPosition = [@ EXCEPT ![Last(u.facetAddresses)] =
                                               u.facetPosition[f], ![f] = 0]]
      BY <3>1 DEF DropFacet
    <3>3. r = [u EXCEPT !.facetAddresses = listed, !.facetPosition = at]
      BY <1>2, <1>7, <3>2
    <3> HIDE DEF listed, at, routes, position, lists
    <3> QED  BY <1>2, <3>3
  <2>2. Used(t) \cup kept \in SUBSET Facets
    <3>1. \A x \in Used(t) \cup kept : \E i \in 1..Len(t.facetAddresses) : t.facetAddresses[i] = x
      BY <1>1 DEF Indexed
    <3>2. \A i \in 1..Len(t.facetAddresses) : t.facetAddresses[i] \in Facets
      BY <1>4
    <3> QED  BY <3>1, <3>2
  <2>3. /\ listed \in Seq(Facets) /\ at \in [Facets -> Nat]
        /\ Indexed((Used(t) \cup kept) \ {f}, listed, at)
    <3>1. PICK from \in [Facets -> Nat] : from = t.facetPosition
      BY <1>4
    <3>2. PICK set \in SUBSET Facets : set = Used(t) \cup kept
      BY <2>2
    <3>3. PICK all \in Seq(Facets) : all = t.facetAddresses
      BY <1>4
    <3>4. Indexed(set, all, from) /\ f \in set
      BY <1>1, <1>12, <3>1, <3>2, <3>3
    <3>5. PICK x \in set : x = f
      BY <3>4
    <3>6. PICK moved : moved = Vacated(from, all, x)
      OBVIOUS
    <3>7. /\ MoveLast(all, from[x]) \in Seq(Facets) /\ moved \in [Facets -> Nat]
          /\ Indexed(set \ {x}, MoveLast(all, from[x]), moved)
      BY <3>4, <3>6, IndexedShrinks
    <3> QED  BY <3>1, <3>2, <3>3, <3>5, <3>6, <3>7 DEF Vacated
  <2> HIDE DEF listed, at
  <2>4. /\ r.facetAddress = routes /\ r.selectorPosition = position
        /\ r.functionSelectors = lists
        /\ r.facetPosition = at /\ r.facetAddresses = listed
    BY <2>1
  <2>5. r \in Tables
    <3> HIDE DEF routes, position, lists
    <3> QED  BY <1>5, <1>6, <2>1, <2>3 DEF Tables, Routes
  <2>6. less = <<>>
    <3>1. Len(less) = 0
      BY <1>5, <1>14
    <3> QED  BY <1>5, <3>1
  <2>7. Used(r) = Used(t) \ {f}
    BY <1>1, <1>7, <1>11, <2>4, <2>6 DEF Used
  <2>8. Used(r) \cup kept = (Used(t) \cup kept) \ {f}
    BY <2>7
  <2>9. \A g \in Facets : Indexed(Leads(r, g), r.functionSelectors[g], r.selectorPosition)
    BY <1>7, <1>10, <2>4 DEF Leads
  <2>10. Well(r, kept)
    BY <1>1, <2>3, <2>4, <2>5, <2>7, <2>8, <2>9 DEF Well
  <2> QED  BY <1>7, <1>11, <2>4, <2>10 DEF Removed
<1> QED  BY <1>13, <1>14

----------------------------------------------------------------------------
\* The loops over the selectors of a group.

\* The routes when the first k selectors of the list lead to the target, and
\* whether they could be led there one after the other: each from a route that
\* is taken, which the target is not.
Moved(route, list, k, target) ==
    [s \in Selectors |-> IF \E i \in 1..k : list[i] = s THEN target ELSE route[s]]
Movable(route, list, k, sources) ==
    /\ \A i \in 1..k : route[list[i]] \in sources
    /\ \A i, j \in 1..k : list[i] = list[j] => i = j

\* One selector more is moved.
LEMMA MoveOne ==
    ASSUME NEW route \in Routes, NEW list \in Seq(Selectors), NEW k \in 0..Len(list) - 1,
           NEW target, NEW sources, target \notin sources
    PROVE  /\ Moved(route, list, k + 1, target) =
                 [Moved(route, list, k, target) EXCEPT ![list[k + 1]] = target]
           /\ Movable(route, list, k + 1, sources) <=>
                 /\ Movable(route, list, k, sources)
                 /\ Moved(route, list, k, target)[list[k + 1]] \in sources
<1>1. /\ k \in Nat /\ k + 1 \in 1..Len(list) /\ list[k + 1] \in Selectors
      /\ \A i : i \in 1..k + 1 <=> i \in 1..k \/ i = k + 1
      /\ k + 1 \notin 1..k
  BY SMT
<1>2. PICK x \in Selectors : x = list[k + 1]
  BY <1>1
<1>3. Moved(route, list, k + 1, target) =
          [Moved(route, list, k, target) EXCEPT ![x] = target]
  BY <1>1, <1>2 DEF Moved
<1>4. Moved(route, list, k, target)[x] =
          IF \E i \in 1..k : list[i] = x THEN target ELSE route[x]
  BY DEF Moved
<1>5. ASSUME Movable(route, list, k + 1, sources)
      PROVE  /\ Movable(route, list, k, sources)
             /\ Moved(route, list, k, target)[x] \in sources
  <2>1. Movable(route, list, k, sources)
    BY <1>1, <1>5 DEF Movable
  <2>2. route[x] \in sources /\ ~ \E i \in 1..k : list[i] = x
    BY <1>1, <1>2, <1>5 DEF Movable
  <2> QED  BY <1>4, <2>1, <2>2
<1>6. ASSUME Movable(route, list, k, sources), Moved(route, list, k, target)[x] \in sources
      PROVE  Movable(route, list, k + 1, sources)
  <2>1. ~(\E i \in 1..k : list[i] = x) /\ route[x] \in sources
    BY <1>4, <1>6
  <2> QED  BY <1>1, <1>2, <1>6, <2>1 DEF Movable
<1> QED  BY <1>2, <1>3, <1>5, <1>6

\* From where each loop takes a selector, what it keeps listed meanwhile, and
\* what holds of the table after k selectors.
Sources(loop, facet) ==
    CASE loop = "Add" -> {NoFacet}
      [] loop = "Replace" -> Facets \ {Itself, facet}
      [] loop = "Remove" -> Facets \ {Itself}
InLoop(u, loop, facet, size, k) ==
    IF loop = "Remove" THEN Well(u, {})
    ELSE /\ Well(u, {facet}) /\ Len(u.functionSelectors[facet]) = size + k
         /\ k > 0 => Well(u, {})

\* One step of a loop takes the selector when the map can move it.
Steps(loop, facet, size, list, k, u, w) ==
    /\ IF loop = "Remove" THEN facet = NoFacet ELSE facet \in HasCode
    /\ InLoop(u, loop, facet, size, k) /\ w = LoopStep(loop, u, k + 1, facet, list, size)
Stepped(loop, facet, size, list, k, u, w) ==
    IF u.facetAddress[list[k + 1]] \in Sources(loop, facet)
    THEN /\ InLoop(w, loop, facet, size, k + 1)
         /\ w.facetAddress = [u.facetAddress EXCEPT ![list[k + 1]] = facet]
    ELSE w = Reverted

\* One selector of a group is taken by the table as by the map.
LEMMA StepMoves ==
    ASSUME NEW loop \in {"Add", "Replace", "Remove"}, NEW facet, NEW size \in Nat,
           NEW list \in Seq(Selectors), NEW k \in 0..Len(list) - 1, NEW u, NEW w,
           Steps(loop, facet, size, list, k, u, w)
    PROVE  Stepped(loop, facet, size, list, k, u, w)
<1>0. /\ IF loop = "Remove" THEN facet = NoFacet ELSE facet \in HasCode
      /\ InLoop(u, loop, facet, size, k) /\ w = LoopStep(loop, u, k + 1, facet, list, size)
  BY DEF Steps
<1> USE <1>0
<1>1. k \in Nat /\ k + 1 \in Nat /\ k + 1 > 0 /\ list[k + 1] \in Selectors
  OBVIOUS
<1>2. PICK s \in Selectors : s = list[k + 1]
  BY <1>1
<1>3. u \in Tables /\ u # Reverted
  BY TableIs DEF InLoop, Well
<1>4. /\ u.facetAddress \in [Selectors -> Facets \cup {NoFacet}]
      /\ u.facetAddress[s] \in Facets \cup {NoFacet}
      /\ u.functionSelectors \in [Facets -> Seq(Selectors)]
  BY <1>3, TableIs
<1>5. \A f \in {NoFacet, Itself} : RemoveFunction(u, f, s) = Reverted
  BY DEF RemoveFunction
<1>6. CASE loop = "Add"
  <2>1. /\ facet \in HasCode /\ Well(u, {facet})
        /\ Len(u.functionSelectors[facet]) = size + k
    BY <1>6 DEF InLoop
  <2>2. w = IF u.facetAddress[s] # NoFacet THEN Reverted
            ELSE AddFunction(u, s, size + (k + 1), facet)
    BY <1>2, <1>3, <1>6 DEF LoopStep
  <2>3. CASE u.facetAddress[s] = NoFacet
    <3>1. size + (k + 1) = Len(u.functionSelectors[facet]) + 1
      BY <1>1, <2>1
    <3>2. w = AddFunction(u, s, Len(u.functionSelectors[facet]) + 1, facet)
      BY <2>2, <2>3, <3>1
    <3>3. /\ Well(w, {}) /\ Well(w, {facet})
          /\ w.facetAddress = [u.facetAddress EXCEPT ![s] = facet]
          /\ Len(w.functionSelectors[facet]) = Len(u.functionSelectors[facet]) + 1
      <4>1. Adds(u, facet, s, w)
        BY <2>1, <2>3, <3>2 DEF Adds
      <4>2. Added(u, facet, s, w)
        BY <4>1, FunctionAdded
      <4> QED  BY <4>2 DEF Added
    <3>4. Len(w.functionSelectors[facet]) = size + (k + 1)
      BY <3>1, <3>3
    <3> QED  BY <1>2, <1>6, <2>3, <3>3, <3>4 DEF Stepped, InLoop, Sources
  <2>4. CASE u.facetAddress[s] # NoFacet
    BY <1>2, <1>6, <2>2, <2>4 DEF Stepped, Sources
  <2> QED  BY <2>3, <2>4
<1>7. CASE loop = "Replace"
  <2>1. /\ facet \in HasCode /\ facet \in Facets /\ Well(u, {facet})
        /\ Len(u.functionSelectors[facet]) = size + k
    BY <1>7, FacetsAre DEF InLoop
  <2>2. PICK old : old = u.facetAddress[s]
    OBVIOUS
  <2>3. PICK r : r = RemoveFunction(u, old, s)
    OBVIOUS
  <2>4. w = IF old = facet \/ r = Reverted THEN Reverted
            ELSE AddFunction(r, s, size + (k + 1), facet)
    BY <1>2, <1>3, <1>7, <2>2, <2>3 DEF LoopStep
  <2>5. CASE old \in Facets \ {Itself, facet}
    <3>1. /\ Well(r, {facet})
          /\ r.facetAddress = [u.facetAddress EXCEPT ![s] = NoFacet]
          /\ \A g \in Facets \ {old} : r.functionSelectors[g] = u.functionSelectors[g]
      <4>1. Removes(u, {facet}, old, s, r)
        BY <2>1, <2>2, <2>3, <2>5 DEF Removes
      <4>2. Removed(u, {facet}, old, s, r)
        BY <4>1, FunctionRemoved
      <4> QED  BY <2>5, <4>2 DEF Removed
    <3>2. r # Reverted
      BY <3>1, TableIs DEF Well
    <3>3. /\ r.functionSelectors[facet] = u.functionSelectors[facet]
          /\ r.facetAddress[s] = NoFacet
      BY <1>4, <2>1, <2>5, <3>1
    <3>4. size + (k + 1) = Len(r.functionSelectors[facet]) + 1
      BY <1>1, <2>1, <3>3
    <3>5. w = AddFunction(r, s, Len(r.functionSelectors[facet]) + 1, facet)
      BY <2>4, <2>5, <3>2, <3>4
    <3>6. /\ Well(w, {}) /\ Well(w, {facet})
          /\ w.facetAddress = [r.facetAddress EXCEPT ![s] = facet]
          /\ Len(w.functionSelectors[facet]) = Len(r.functionSelectors[facet]) + 1
      <4>1. Adds(r, facet, s, w)
        BY <2>1, <3>1, <3>3, <3>5 DEF Adds
      <4>2. Added(r, facet, s, w)
        BY <4>1, FunctionAdded
      <4> QED  BY <4>2 DEF Added
    <3>7. w.facetAddress = [u.facetAddress EXCEPT ![s] = facet]
      BY <1>4, <3>1, <3>6
    <3>8. Len(w.functionSelectors[facet]) = size + (k + 1)
      BY <3>4, <3>6
    <3> QED  BY <1>2, <1>7, <2>2, <2>5, <3>6, <3>7, <3>8 DEF Stepped, InLoop, Sources
  <2>6. CASE old \notin Facets \ {Itself, facet}
    <3>1. old = facet \/ r = Reverted
      BY <1>4, <1>5, <2>2, <2>3, <2>6
    <3> QED  BY <1>2, <1>7, <2>2, <2>4, <2>6, <3>1 DEF Stepped, Sources
  <2> QED  BY <2>5, <2>6
<1>8. CASE loop = "Remove"
  <2>1. facet = NoFacet /\ Well(u, {})
    BY <1>8 DEF InLoop
  <2>2. PICK old : old = u.facetAddress[s]
    OBVIOUS
  <2>3. w = RemoveFunction(u, old, s)
    BY <1>2, <1>3, <1>8, <2>2 DEF LoopStep
  <2>4. CASE old \in Facets \ {Itself}
    <3>1. Well(w, {}) /\ w.facetAddress = [u.facetAddress EXCEPT ![s] = NoFacet]
      <4>1. Removes(u, {}, old, s, w)
        BY <2>1, <2>2, <2>3, <2>4 DEF Removes
      <4>2. Removed(u, {}, old, s, w)
        BY <4>1, FunctionRemoved
      <4> QED  BY <4>2 DEF Removed
    <3> QED  BY <1>2, <1>8, <2>1, <2>2, <2>4, <3>1 DEF Stepped, InLoop, Sources
  <2>5. CASE old \notin Facets \ {Itself}
    <3>1. w = Reverted
      BY <1>4, <1>5, <2>2, <2>3, <2>5
    <3> QED  BY <1>2, <1>8, <2>2, <2>5, <3>1 DEF Stepped, Sources
  <2> QED  BY <2>4, <2>5
<1> QED  BY <1>6, <1>7, <1>8

\* The table before and after a whole loop.
Loops(loop, facet, size, list, base, result) ==
    /\ IF loop = "Remove" THEN facet = NoFacet ELSE facet \in HasCode
    /\ InLoop(base, loop, facet, size, 0)
    /\ LoopRuns(result, loop, base, facet, list, size)
Looped(loop, facet, size, list, base, result) ==
    IF Movable(base.facetAddress, list, Len(list), Sources(loop, facet))
    THEN /\ InLoop(result, loop, facet, size, Len(list))
         /\ result.facetAddress = Moved(base.facetAddress, list, Len(list), facet)
    ELSE result = Reverted

\* A loop that begins in a table as it should be ends in one, with all
\* selectors moved, or reverts when one of them cannot be.
LEMMA LoopMoves ==
    ASSUME NEW loop \in {"Add", "Replace", "Remove"}, NEW facet, NEW size \in Nat,
           NEW list \in Seq(Selectors), NEW base, NEW result,
           Loops(loop, facet, size, list, base, result)
    PROVE  Looped(loop, facet, size, list, base, result)
<1>0. /\ IF loop = "Remove" THEN facet = NoFacet ELSE facet \in HasCode
      /\ InLoop(base, loop, facet, size, 0)
      /\ LoopRuns(result, loop, base, facet, list, size)
  BY DEF Loops
<1> USE <1>0
<1>1. PICK after :
         /\ after[0] = base
         /\ \A k \in 0..Len(list) - 1 :
               after[k + 1] = LoopStep(loop, after[k], k + 1, facet, list, size)
         /\ result = after[Len(list)]
  BY DEF LoopRuns
<1>2. PICK route : route = base.facetAddress
  OBVIOUS
<1>3. PICK sources : sources = Sources(loop, facet)
  OBVIOUS
<1>4. route \in Routes /\ facet \notin sources
  <2>1. route \in Routes
    BY <1>2, TableIs DEF InLoop, Well, Routes
  <2>2. facet \notin sources
    BY <1>3, FacetsAre DEF Sources
  <2> QED  BY <2>1, <2>2
<1> DEFINE Moves(k) == IF Movable(route, list, k, sources)
                       THEN /\ InLoop(after[k], loop, facet, size, k)
                            /\ after[k].facetAddress = Moved(route, list, k, facet)
                       ELSE after[k] = Reverted
           Fails == {k \in 0..Len(list) : ~Moves(k)}
<1>5. Moves(0)
  <2>1. Movable(route, list, 0, sources)
    BY DEF Movable
  <2>2. Moved(route, list, 0, facet) = route
    BY <1>4 DEF Moved, Routes
  <2> QED  BY <1>1, <1>2, <2>1, <2>2
<1>6. ASSUME NEW k \in 0..Len(list) - 1, Moves(k) PROVE Moves(k + 1)
  <2>1. /\ Moved(route, list, k + 1, facet) =
              [Moved(route, list, k, facet) EXCEPT ![list[k + 1]] = facet]
        /\ Movable(route, list, k + 1, sources) <=>
              /\ Movable(route, list, k, sources)
              /\ Moved(route, list, k, facet)[list[k + 1]] \in sources
    BY <1>4, MoveOne
  <2>2. PICK u : u = after[k]
    OBVIOUS
  <2>3. PICK w : w = after[k + 1]
    OBVIOUS
  <2>4. w = LoopStep(loop, u, k + 1, facet, list, size)
    BY <1>1, <2>2, <2>3
  <2>5. CASE ~Movable(route, list, k, sources)
    <3>1. u = Reverted
      BY <1>6, <2>2, <2>5
    <3>2. w = Reverted
      BY <2>4, <3>1 DEF LoopStep
    <3> QED  BY <2>1, <2>3, <2>5, <3>2
  <2>6. CASE Movable(route, list, k, sources)
    <3>1. InLoop(u, loop, facet, size, k) /\ u.facetAddress = Moved(route, list, k, facet)
      BY <1>6, <2>2, <2>6
    <3>2. IF u.facetAddress[list[k + 1]] \in sources
          THEN /\ InLoop(w, loop, facet, size, k + 1)
               /\ w.facetAddress = [u.facetAddress EXCEPT ![list[k + 1]] = facet]
          ELSE w = Reverted
      <4>1. Steps(loop, facet, size, list, k, u, w)
        BY <2>4, <3>1 DEF Steps
      <4>2. Stepped(loop, facet, size, list, k, u, w)
        BY <4>1, StepMoves
      <4> QED  BY <1>3, <4>2 DEF Stepped
    <3> QED  BY <2>1, <2>3, <2>6, <3>1, <3>2
  <2> QED  BY <2>5, <2>6
<1>7. Fails = {}
  <2> HIDE DEF Moves
  <2> SUFFICES ASSUME Fails # {} PROVE FALSE
    OBVIOUS
  <2>1. Fails \subseteq Nat /\ Len(list) \in Nat
    OBVIOUS
  <2>2. PICK k \in Fails : \A j \in Fails : k <= j
    BY <2>1, LeastOf
  <2>3. k # 0 /\ k \in 0..Len(list) /\ k \in Nat
    BY <1>5
  <2>4. k - 1 \in 0..Len(list) - 1 /\ k - 1 \in 0..Len(list) /\ (k - 1) + 1 = k /\ ~(k <= k - 1)
    BY <2>1, <2>3
  <2>5. Moves(k - 1)
    BY <2>2, <2>4
  <2>6. Moves((k - 1) + 1)
    BY <1>6, <2>4, <2>5
  <2> QED  BY <2>4, <2>6
<1>8. Moves(Len(list))
  <2>1. Len(list) \in 0..Len(list)
    OBVIOUS
  <2> HIDE DEF Moves
  <2> QED  BY <1>7, <2>1
<1> QED  BY <1>1, <1>2, <1>3, <1>8 DEF Looped

----------------------------------------------------------------------------
\* A group, and a cut.

\* A loop that begins reverted stays so.
LEMMA StaysReverted ==
    ASSUME NEW result, NEW loop, NEW facet, NEW S, NEW list \in Seq(S), NEW size,
           LoopRuns(result, loop, Reverted, facet, list, size)
    PROVE  result = Reverted
<1>1. PICK after :
         /\ after[0] = Reverted
         /\ \A k \in 0..Len(list) - 1 :
               after[k + 1] = LoopStep(loop, after[k], k + 1, facet, list, size)
         /\ result = after[Len(list)]
  BY DEF LoopRuns
<1> DEFINE Others == {k \in 0..Len(list) : after[k] # Reverted}
<1>2. Len(list) \in Nat
  OBVIOUS
<1>3. Others = {}
  <2> SUFFICES ASSUME Others # {} PROVE FALSE
    OBVIOUS
  <2>1. Others \subseteq Nat
    BY <1>2
  <2>2. PICK k \in Others : \A j \in Others : k <= j
    BY <2>1, LeastOf
  <2>3. k # 0 /\ k \in 0..Len(list)
    BY <1>1, <2>2
  <2>4. k - 1 \in 0..Len(list) - 1 /\ k - 1 \in 0..Len(list) /\ (k - 1) + 1 = k /\ ~(k <= k - 1)
    BY <1>2, <2>3
  <2>5. after[k - 1] = Reverted
    BY <2>2, <2>4
  <2>6. after[(k - 1) + 1] = LoopStep(loop, after[k - 1], (k - 1) + 1, facet, list, size)
    BY <1>1, <2>4
  <2>7. after[k] = Reverted
    BY <2>4, <2>5, <2>6 DEF LoopStep
  <2> QED  BY <2>2, <2>7
<1>4. Len(list) \in 0..Len(list)
  BY <1>2
<1> QED  BY <1>1, <1>3, <1>4

\* The parts of a group.
LEMMA GroupIs ==
    ASSUME NEW group \in Groups
    PROVE  /\ group.action \in {"Add", "Replace", "Remove"}
           /\ group.facet \in Facets \cup {NoFacet}
           /\ group.selectors \in Seq(Selectors)
BY DEF Groups

\* The facet a group may name: none on removal.
Fits(group) ==
    IF group.action = "Remove" THEN group.facet = NoFacet ELSE group.facet \in HasCode

\* The map takes a group when its selectors can be moved one after the other.
LEMMA AcceptsIs ==
    ASSUME NEW route \in Routes, NEW group \in Groups
    PROVE  /\ Router!Accepts(route, group) <=>
                 /\ group.selectors # <<>> /\ Fits(group)
                 /\ Movable(route, group.selectors, Len(group.selectors),
                            Sources(group.action, group.facet))
           /\ Router!Regrouped(route, group) =
                 Moved(route, group.selectors, Len(group.selectors), group.facet)
<1>1. PICK list \in Seq(Selectors) : list = group.selectors
  BY GroupIs
<1>2. PICK facet \in Facets \cup {NoFacet} : facet = group.facet
  BY GroupIs
<1>3. PICK n \in Nat : n = Len(list) /\ DOMAIN list = 1..n
  OBVIOUS
<1>4. \A i \in 1..n : list[i] \in Selectors
  BY <1>3
<1>5. route \in [Selectors -> Facets \cup {NoFacet}]
  BY DEF Routes
<1>6. PICK named : named = Router!ToSet(list)
  OBVIOUS
<1>7. \A s : s \in named <=> \E i \in 1..n : list[i] = s
  BY <1>3, <1>6 DEF Router!ToSet
<1>8. PICK leadsTo : leadsTo = {route[s] : s \in named}
  OBVIOUS
<1>9. Router!IsInjective(list) <=> \A i, j \in 1..n : list[i] = list[j] => i = j
  BY <1>3 DEF Router!IsInjective
<1>10. Router!Regrouped(route, group) =
          Moved(route, group.selectors, Len(group.selectors), group.facet)
  <2>1. DOMAIN route = Selectors
    BY <1>5
  <2> QED  BY <1>1, <1>3, <1>6, <1>7, <2>1 DEF Router!Regrouped, Moved
<1>11. list # <<>> => 1 \in 1..n
  BY <1>3
<1>12. \A x : x \in leadsTo <=> \E i \in 1..n : route[list[i]] = x
  BY <1>7, <1>8
<1>13. \A i \in 1..n : route[list[i]] \in Facets \cup {NoFacet}
  BY <1>4, <1>5
<1>14. Router!Accepts(route, group) <=>
         /\ list # <<>> /\ Router!IsInjective(list)
         /\ \/ group.action = "Add" /\ facet \in HasCode /\ leadsTo = {NoFacet}
            \/ /\ group.action = "Replace" /\ facet \in HasCode
               /\ leadsTo \cap {NoFacet, Itself, facet} = {}
            \/ /\ group.action = "Remove" /\ facet = NoFacet
               /\ leadsTo \cap {NoFacet, Itself} = {}
  BY <1>1, <1>2, <1>6, <1>8 DEF Router!Accepts
<1>15. CASE group.action = "Add"
  <2>1. ASSUME list # <<>>
        PROVE  leadsTo = {NoFacet} <=> \A i \in 1..n : route[list[i]] \in {NoFacet}
    <3>1. ASSUME \A i \in 1..n : route[list[i]] = NoFacet PROVE leadsTo = {NoFacet}
      <4>1. NoFacet \in leadsTo
        BY <1>11, <1>12, <2>1, <3>1
      <4>2. \A x \in leadsTo : x = NoFacet
        BY <1>12, <3>1
      <4> QED  BY <4>1, <4>2
    <3>2. ASSUME leadsTo = {NoFacet} PROVE \A i \in 1..n : route[list[i]] = NoFacet
      BY <1>12, <3>2
    <3> QED  BY <3>1, <3>2
  <2> QED  BY <1>1, <1>2, <1>3, <1>9, <1>10, <1>14, <1>15, <2>1 DEF Fits, Movable, Sources
<1>16. CASE group.action = "Replace"
  <2>1. leadsTo \cap {NoFacet, Itself, facet} = {} <=>
           \A i \in 1..n : route[list[i]] \in Facets \ {Itself, facet}
    BY <1>12, <1>13, FacetsAre
  <2> QED  BY <1>1, <1>2, <1>3, <1>9, <1>10, <1>14, <1>16, <2>1 DEF Fits, Movable, Sources
<1>17. CASE group.action = "Remove"
  <2>1. leadsTo \cap {NoFacet, Itself} = {} <=>
           \A i \in 1..n : route[list[i]] \in Facets \ {Itself}
    BY <1>12, <1>13, FacetsAre
  <2> QED  BY <1>1, <1>2, <1>3, <1>9, <1>10, <1>14, <1>17, <2>1 DEF Fits, Movable, Sources
<1> QED  BY <1>15, <1>16, <1>17, GroupIs

\* What the loops of addFunctions and replaceFunctions begin from.
Listed(t, facet, base) ==
    /\ Well(base, {facet}) /\ base.facetAddress = t.facetAddress
    /\ base.functionSelectors = t.functionSelectors

\* The facet of the group is listed before its first selector.
LEMMA FacetListed ==
    ASSUME NEW t, Well(t, {}), NEW facet \in HasCode,
           NEW list, list # <<>>, NEW base, base = WithFacet(t, facet, list)
    PROVE  Listed(t, facet, base)
<1>1. t \in Tables /\ facet \in Facets /\ facet # NoFacet
      /\ Indexed(Used(t) \cup {}, t.facetAddresses, t.facetPosition)
  BY FacetsAre DEF Well
<1>2. CASE t.functionSelectors[facet] # <<>>
  <2>1. base = t
    BY <1>1, <1>2 DEF WithFacet
  <2>2. Used(t) \cup {} = Used(t) \cup {facet}
    BY <1>1, <1>2 DEF Used
  <2> QED  BY <1>1, <2>1, <2>2 DEF Listed, Well
<1>3. CASE t.functionSelectors[facet] = <<>>
  <2>1. base = AddFacet(t, facet)
    BY <1>1, <1>3 DEF WithFacet
  <2>2. PICK f \in Facets \ Used(t) : f = facet
    BY <1>1, <1>3 DEF Used
  <2>3. base = AddFacet(t, f)
    BY <2>1, <2>2
  <2>4. Well(base, {f})
    BY <2>3, FacetAdded
  <2>5. base.facetAddress = t.facetAddress
    BY <2>3, FacetAdded
  <2>6. base.functionSelectors = t.functionSelectors
    BY <2>3, FacetAdded
  <2> QED  BY <2>2, <2>4, <2>5, <2>6 DEF Listed
<1> QED  BY <1>2, <1>3

\* What became of a table beside what the map gives: the same routes from a
\* table as it should be, or both refuse.
ActsAs(r, route) ==
    IF r = Reverted THEN route = Reverted
    ELSE Well(r, {}) /\ r.facetAddress = route
Taken(route, group) ==
    IF Router!Accepts(route, group) THEN Router!Regrouped(route, group) ELSE Reverted

\* A group does to a table what it does to the map.
LEMMA GroupActs ==
    ASSUME NEW u, Well(u, {}), NEW group \in Groups
    PROVE  ActsAs(GroupStep(u, group), Taken(u.facetAddress, group))
<1>1. PICK list \in Seq(Selectors) : list = group.selectors
  BY GroupIs
<1>2. PICK facet \in Facets \cup {NoFacet} : facet = group.facet
  BY GroupIs
<1>3. PICK loop \in {"Add", "Replace", "Remove"} : loop = group.action
  BY GroupIs
<1>4. PICK route \in Routes : route = u.facetAddress
  BY TableIs DEF Well, Routes
<1>5. PICK r : r = GroupStep(u, group)
  OBVIOUS
<1>6. PICK sources : sources = Sources(loop, facet)
  OBVIOUS
<1>7. Taken(route, group) =
         IF /\ list # <<>> /\ Fits(group)
            /\ Movable(route, list, Len(list), sources)
         THEN Moved(route, list, Len(list), facet) ELSE Reverted
  BY <1>1, <1>2, <1>3, <1>6, AcceptsIs DEF Taken
<1>8. Fits(group) <=> IF loop = "Remove" THEN facet = NoFacet ELSE facet \in HasCode
  BY <1>2, <1>3 DEF Fits
<1>9. \A w : Well(w, {}) => w # Reverted
  BY TableIs DEF Well
<1>10. CASE list # <<>> /\ Fits(group)
  <2>1. PICK size \in Nat :
           \E base : /\ LoopRuns(r, loop, base, facet, list, size)
                     /\ InLoop(base, loop, facet, size, 0)
                     /\ base.facetAddress = route
    <3>1. CASE loop = "Remove"
      <4>1. facet = NoFacet
        BY <1>8, <1>10, <3>1
      <4>2. LoopRuns(RemoveFunctions(u, facet, list), "Remove", u, facet, list,
                     Len(u.functionSelectors[facet]))
        BY <1>10, <4>1, RemoveRuns
      <4>3. r = RemoveFunctions(u, facet, list)
        BY <1>1, <1>2, <1>3, <1>5, <3>1 DEF GroupStep
      <4>4. LoopRuns(r, loop, u, facet, list, 0)
        BY <3>1, <4>2, <4>3 DEF LoopRuns, LoopStep
      <4>5. InLoop(u, loop, facet, 0, 0)
        BY <3>1 DEF InLoop
      <4> QED  BY <1>4, <4>4, <4>5
    <3>2. CASE loop # "Remove"
      <4>1. facet \in HasCode /\ facet \in Facets
        BY <1>8, <1>10, <3>2, FacetsAre
      <4>2. PICK base : base = WithFacet(u, facet, list)
        OBVIOUS
      <4>3. Listed(u, facet, base)
        BY <1>10, <4>1, <4>2, FacetListed
      <4>4. /\ Well(base, {facet}) /\ base.facetAddress = route
            /\ base.functionSelectors = u.functionSelectors
        BY <1>4, <4>3 DEF Listed
      <4>5. PICK size \in Nat : size = Len(u.functionSelectors[facet])
        <5>1. u.functionSelectors[facet] \in Seq(Selectors)
          BY <4>1, TableIs DEF Well
        <5> QED  BY <5>1
      <4>6. InLoop(base, loop, facet, size, 0)
        BY <3>2, <4>4, <4>5 DEF InLoop
      <4>7. LoopRuns(r, loop, base, facet, list, size)
        <5>1. CASE loop = "Add"
          <6>1. r = AddFunctions(u, facet, list)
            BY <1>1, <1>2, <1>3, <1>5, <5>1 DEF GroupStep
          <6> QED  BY <4>2, <4>5, <5>1, <6>1, AddRuns
        <5>2. CASE loop = "Replace"
          <6>1. r = ReplaceFunctions(u, facet, list)
            BY <1>1, <1>2, <1>3, <1>5, <5>2 DEF GroupStep
          <6> QED  BY <4>2, <4>5, <5>2, <6>1, ReplaceRuns
        <5> QED  BY <3>2, <5>1, <5>2
      <4> QED  BY <4>4, <4>6, <4>7
    <3> QED  BY <3>1, <3>2
  <2>2. PICK base : /\ LoopRuns(r, loop, base, facet, list, size)
                    /\ InLoop(base, loop, facet, size, 0)
                    /\ base.facetAddress = route
    BY <2>1
  <2>3. Looped(loop, facet, size, list, base, r)
    <3>1. Loops(loop, facet, size, list, base, r)
      BY <1>8, <1>10, <2>2 DEF Loops
    <3> QED  BY <3>1, LoopMoves
  <2>4. CASE Movable(route, list, Len(list), sources)
    <3>1. /\ InLoop(r, loop, facet, size, Len(list))
          /\ r.facetAddress = Moved(route, list, Len(list), facet)
      BY <1>6, <2>2, <2>3, <2>4 DEF Looped
    <3>2. Len(list) > 0
      BY <1>10
    <3>3. Well(r, {})
      BY <3>1, <3>2 DEF InLoop
    <3> QED  BY <1>4, <1>5, <1>7, <1>9, <1>10, <2>4, <3>1, <3>3 DEF ActsAs
  <2>5. CASE ~Movable(route, list, Len(list), sources)
    <3>1. r = Reverted
      BY <1>6, <2>2, <2>3, <2>5 DEF Looped
    <3> QED  BY <1>4, <1>5, <1>7, <2>5, <3>1 DEF ActsAs
  <2> QED  BY <2>4, <2>5
<1>11. CASE ~(list # <<>> /\ Fits(group))
  <2>1. r = Reverted
    <3>1. CASE loop = "Remove"
      <4>1. r = RemoveFunctions(u, facet, list)
        BY <1>1, <1>2, <1>3, <1>5, <3>1 DEF GroupStep
      <4> QED  BY <1>8, <1>11, <3>1, <4>1 DEF RemoveFunctions
    <3>2. CASE loop # "Remove"
      <4>1. list = <<>> \/ facet \notin HasCode
        BY <1>8, <1>11, <3>2
      <4>2. WithFacet(u, facet, list) = Reverted
        <5>1. CASE list = <<>> \/ facet = NoFacet
          BY <5>1 DEF WithFacet
        <5>2. CASE list # <<>> /\ facet # NoFacet
          <6>1. facet \in Facets /\ facet \notin Used(u)
            BY <4>1, <5>2 DEF Well
          <6>2. u.functionSelectors[facet] = <<>>
            BY <6>1 DEF Used
          <6> QED  BY <4>1, <5>2, <6>2 DEF WithFacet
        <5> QED  BY <5>1, <5>2
      <4>3. PICK size : LoopRuns(r, loop, Reverted, facet, list, size)
        <5>1. CASE loop = "Add"
          <6>1. r = AddFunctions(u, facet, list)
            BY <1>1, <1>2, <1>3, <1>5, <5>1 DEF GroupStep
          <6> QED  BY <4>2, <5>1, <6>1, AddRuns
        <5>2. CASE loop = "Replace"
          <6>1. r = ReplaceFunctions(u, facet, list)
            BY <1>1, <1>2, <1>3, <1>5, <5>2 DEF GroupStep
          <6> QED  BY <4>2, <5>2, <6>1, ReplaceRuns
        <5> QED  BY <3>2, <5>1, <5>2
      <4> QED  BY <4>3, StaysReverted
    <3> QED  BY <3>1, <3>2
  <2> QED  BY <1>4, <1>5, <1>7, <1>11, <2>1 DEF ActsAs
<1> QED  BY <1>10, <1>11

----------------------------------------------------------------------------
\* A cut does to a table what it does to the map.
LEMMA CutActs ==
    ASSUME NEW t, Well(t, {}), NEW cut \in Seq(Groups)
    PROVE  ActsAs(CutTable(t, cut), Router!RouteAfter(t.facetAddress, cut))
<1>1. PICK table :
         /\ table[0] = t
         /\ \A k \in 0..Len(cut) - 1 :
               table[k + 1] = LoopStep("Cut", table[k], k + 1, NoFacet, cut, 0)
         /\ CutTable(t, cut) = table[Len(cut)]
  BY CutRuns DEF LoopRuns
<1>2. PICK route : route = t.facetAddress
  OBVIOUS
<1>3. PICK map : /\ Runs(map, "Route", route, cut, NoFacet, cut, 0)
                 /\ Router!RouteAfter(route, cut) = map[Len(cut)]
  BY RouteRuns
<1> DEFINE Others == {k \in 0..Len(cut) : ~ActsAs(table[k], map[k])}
<1>4. Len(cut) \in Nat
  OBVIOUS
<1>5. ActsAs(table[0], map[0])
  <2>1. map[0] = t.facetAddress
    BY <1>2, <1>3 DEF Runs
  <2>2. t # Reverted
    BY TableIs DEF Well
  <2> QED  BY <1>1, <2>1, <2>2 DEF ActsAs
<1>6. ASSUME NEW k \in 0..Len(cut) - 1, ActsAs(table[k], map[k])
      PROVE  ActsAs(table[k + 1], map[k + 1])
  <2>1. PICK group \in Groups : group = cut[k + 1]
    BY <1>4
  <2>2. PICK u : u = table[k]
    OBVIOUS
  <2>3. PICK m : m = map[k]
    OBVIOUS
  <2>4. table[k + 1] = IF u = Reverted THEN Reverted ELSE GroupStep(u, group)
    BY <1>1, <2>1, <2>2 DEF LoopStep
  <2>5. map[k + 1] = IF m = Reverted THEN Reverted ELSE Taken(m, group)
    BY <1>3, <2>1, <2>3 DEF Runs, LoopStep, Taken
  <2>6. CASE u = Reverted
    <3>1. m = Reverted
      BY <1>6, <2>2, <2>3, <2>6 DEF ActsAs
    <3> QED  BY <2>4, <2>5, <2>6, <3>1 DEF ActsAs
  <2>7. CASE u # Reverted
    <3>1. Well(u, {}) /\ m = u.facetAddress
      BY <1>6, <2>2, <2>3, <2>7 DEF ActsAs
    <3>2. m # Reverted
      BY <3>1, TableIs, FacetsAre DEF Well, Routes
    <3>3. ActsAs(GroupStep(u, group), Taken(u.facetAddress, group))
      BY <3>1, GroupActs
    <3> QED  BY <2>4, <2>5, <2>7, <3>1, <3>2, <3>3
  <2> QED  BY <2>6, <2>7
<1>7. Others = {}
  <2> SUFFICES ASSUME Others # {} PROVE FALSE
    OBVIOUS
  <2>1. Others \subseteq Nat
    BY <1>4
  <2>2. PICK k \in Others : \A j \in Others : k <= j
    BY <2>1, LeastOf
  <2>3. k # 0 /\ k \in 0..Len(cut)
    BY <1>5, <2>2
  <2>4. k - 1 \in 0..Len(cut) - 1 /\ k - 1 \in 0..Len(cut) /\ (k - 1) + 1 = k /\ ~(k <= k - 1)
    BY <1>4, <2>3
  <2>5. ActsAs(table[k - 1], map[k - 1])
    BY <2>2, <2>4
  <2>6. ActsAs(table[(k - 1) + 1], map[(k - 1) + 1])
    BY <1>6, <2>4, <2>5
  <2> QED  BY <2>2, <2>4, <2>6
<1>8. Len(cut) \in 0..Len(cut)
  BY <1>4
<1> QED  BY <1>1, <1>2, <1>3, <1>7, <1>8

\* The table before the constructor's cut.
LEMMA EmptyIsWell == Well(EmptyTable, {})
<1> DEFINE t == EmptyTable
<1>1. /\ t.facetAddress = [s \in Selectors |-> NoFacet]
      /\ t.selectorPosition = [s \in Selectors |-> 0]
      /\ t.functionSelectors = [x \in Facets |-> <<>>]
      /\ t.facetPosition = [x \in Facets |-> 0] /\ t.facetAddresses = <<>>
  BY DEF EmptyTable
<1>2. t \in Tables
  <2>1. /\ [s \in Selectors |-> NoFacet] \in [Selectors -> Facets \cup {NoFacet}]
        /\ [s \in Selectors |-> 0] \in [Selectors -> Nat]
        /\ [x \in Facets |-> <<>>] \in [Facets -> Seq(Selectors)]
        /\ [x \in Facets |-> 0] \in [Facets -> Nat]
        /\ <<>> \in Seq(Facets)
    OBVIOUS
  <2> QED  BY <2>1 DEF EmptyTable, Tables, Routes
<1>3. \A position : Indexed({}, <<>>, position)
  BY DEF Indexed
<1>4. Used(t) = {}
  BY <1>1 DEF Used
<1>5. \A x \in Facets : Leads(t, x) = {} /\ t.functionSelectors[x] = <<>>
  BY <1>1, FacetsAre DEF Leads
<1> HIDE DEF t
<1>6. Well(t, {})
  BY <1>1, <1>2, <1>3, <1>4, <1>5 DEF Well
<1> QED  BY <1>6 DEF t

\* The constructor's cut is taken: the table is as it should be from the start.
LEMMA FirstCut ==
    ASSUME TableInit
    PROVE  Well(ds, {})
<1>1. PICK x \in CutFacets :
         ds = CutTable(EmptyTable, <<[action |-> "Add", facet |-> x,
                                      selectors |-> <<CutSelector>>]>>)
  BY DEF TableInit
<1>2. PICK group : group = [action |-> "Add", facet |-> x, selectors |-> <<CutSelector>>]
  OBVIOUS
<1>3. /\ group.action = "Add" /\ group.facet = x /\ group.selectors = <<CutSelector>>
      /\ x \in HasCode /\ x \in Facets /\ CutSelector \in Selectors
  BY <1>2, FacetsAre
<1>4. group \in Groups /\ <<group>> \in Seq(Groups)
  <2>1. <<CutSelector>> \in Seq(Selectors)
    BY <1>3
  <2> QED  BY <1>2, <1>3, <2>1 DEF Groups
<1>5. PICK route : route = EmptyTable.facetAddress
  OBVIOUS
<1>6. route \in Routes /\ route[CutSelector] = NoFacet
  BY <1>3, <1>5 DEF EmptyTable, Routes
<1>7. Router!Accepts(route, group)
  <2>1. PICK list \in Seq(Selectors) : list = <<CutSelector>>
    <3>1. <<CutSelector>> \in Seq(Selectors)
      BY <1>3
    <3> QED  BY <3>1
  <2>2. Len(list) = 1 /\ list[1] = CutSelector /\ list # <<>>
    BY <2>1
  <2>3. Movable(route, list, Len(list), {NoFacet})
    BY <1>6, <2>2 DEF Movable
  <2>4. Fits(group) /\ Sources(group.action, group.facet) = {NoFacet}
    BY <1>3 DEF Fits, Sources
  <2> QED  BY <1>3, <1>4, <1>6, <2>1, <2>2, <2>3, <2>4, AcceptsIs
<1>8. Router!Regrouped(route, group) # Reverted
  BY FacetsAre, <1>3, <1>4, <1>6, AcceptsIs DEF Moved, Routes
<1>9. Router!RouteAfter(route, <<group>>) # Reverted
  <2>1. PICK map : /\ Runs(map, "Route", route, <<group>>, NoFacet, <<group>>, 0)
                   /\ Router!RouteAfter(route, <<group>>) = map[Len(<<group>>)]
    BY <1>4, RouteRuns
  <2>2. map[0] = route /\ map[0 + 1] = LoopStep("Route", map[0], group, NoFacet, <<group>>, 0)
    BY <2>1 DEF Runs
  <2>3. route # Reverted
    BY <1>6, FacetsAre
  <2>4. map[1] = Router!Regrouped(route, group)
    BY <1>7, <2>2, <2>3 DEF LoopStep
  <2> QED  BY <1>8, <2>1, <2>4
<1>10. ActsAs(ds, Router!RouteAfter(route, <<group>>))
  BY <1>1, <1>2, <1>4, <1>5, EmptyIsWell, CutActs
<1> QED  BY <1>9, <1>10 DEF ActsAs

\* The inductive invariant: no facet is listed without a selector between two
\* calls.
TableInv == Well(ds, {})

\* No step of the diamond takes the table out of it.
LEMMA StaysWell ==
    ASSUME TableInv, UpkeepNext
    PROVE  TableInv'
<1>1. CASE ds' = ds
  BY <1>1 DEF TableInv, Well, Leads, Used, Indexed
<1>2. ASSUME NEW cut \in Cuts, DiamondCut(cut) PROVE TableInv'
  <2>1. PICK u : u = CutTable(ds, cut) /\ u # Reverted /\ ds' = u
    BY <1>2 DEF DiamondCut
  <2>2. cut \in Seq(Groups)
    BY FacetsAre
  <2>3. ActsAs(u, Router!RouteAfter(ds.facetAddress, cut))
    BY <2>1, <2>2, CutActs DEF TableInv
  <2>4. Well(u, {})
    BY <2>1, <2>3 DEF ActsAs
  <2> QED  BY <2>1, <2>4 DEF TableInv, Well, Leads, Used, Indexed
<1>3. ds' = ds \/ \E cut \in Cuts : DiamondCut(cut)
  BY DEF UpkeepNext, TableNext, TransferOwnership, tableVars
<1> QED  BY <1>1, <1>2, <1>3

\* The invariant says that the routes are listed.
LEMMA WellIsListed == TableInv => RoutesAreListed
<1> SUFFICES ASSUME TableInv PROVE RoutesAreListed
  OBVIOUS
<1>1. ds \in Tables /\ Indexed(Used(ds) \cup {}, ds.facetAddresses, ds.facetPosition)
  BY DEF TableInv, Well
<1>2. ASSUME NEW x \in Facets
      PROVE  LET list == ds.functionSelectors[x]
             IN  /\ IsInjective(list)
                 /\ ToSet(list) = {s \in Selectors : ds.facetAddress[s] = x}
                 /\ \A i \in DOMAIN list : ds.selectorPosition[list[i]] = i
  <2>1. PICK list \in Seq(Selectors) : list = ds.functionSelectors[x]
    BY <1>1, TableIs
  <2>2. Indexed(Leads(ds, x), list, ds.selectorPosition)
    BY <2>1 DEF TableInv, Well
  <2> QED  BY <2>1, <2>2, IndexedIs DEF Leads
<1>3. /\ IsInjective(ds.facetAddresses) /\ ToSet(ds.facetAddresses) = Used(ds)
      /\ \A i \in DOMAIN ds.facetAddresses : ds.facetPosition[ds.facetAddresses[i]] = i
  <2>1. PICK list \in Seq(Facets) : list = ds.facetAddresses
    BY <1>1, TableIs
  <2>2. Indexed(Used(ds), list, ds.facetPosition)
    BY <1>1, <2>1
  <2> QED  BY <2>1, <2>2, IndexedIs
<1> QED  BY <1>2, <1>3 DEF RoutesAreListed, Used

\* And with it every cut does what it does to the map.
LEMMA WellActsAsMap == TableInv => CutsActAsOnAMap
<1> SUFFICES ASSUME TableInv, NEW cut \in Cuts
             PROVE  LET t == CutTable(ds, cut)
                    IN  IF t = Reverted
                        THEN Router!RouteAfter(ds.facetAddress, cut) = Reverted
                        ELSE t.facetAddress = Router!RouteAfter(ds.facetAddress, cut)
  BY DEF CutsActAsOnAMap
<1>1. cut \in Seq(Groups)
  BY FacetsAre
<1>2. ActsAs(CutTable(ds, cut), Router!RouteAfter(ds.facetAddress, cut))
  BY <1>1, CutActs DEF TableInv
<1> QED  BY <1>2 DEF ActsAs

\* After every history of cuts, through any number of selectors and facets,
\* what the loupe lists is where calls go, and the next cut does to the table
\* what it would do to a plain map, or reverts when the map refuses it
\* (LibDiamond.sol:26-30, 74-89).
THEOREM TableAlwaysActsAsMap == UpkeepSpec => []TableActsAsMap
<1>1. UpkeepInit => TableInv
  BY FirstCut DEF UpkeepInit, TableInv
<1>2. TableInv /\ [UpkeepNext]_<<upgradeVars, tableVars, oracleVars, part>> => TableInv'
  <2>1. ASSUME TableInv, UNCHANGED <<upgradeVars, tableVars, oracleVars, part>>
        PROVE  TableInv'
    BY <2>1 DEF TableInv, tableVars, Well, Leads, Used, Indexed
  <2> QED  BY <2>1, StaysWell
<1>3. TableInv => TableActsAsMap
  BY WellIsListed, WellActsAsMap DEF TableActsAsMap
<1> QED  BY <1>1, <1>2, <1>3, PTL DEF UpkeepSpec
=============================================================================
