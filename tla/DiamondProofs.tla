--------------------------- MODULE DiamondProofs ---------------------------
(***************************************************************************)
(* Theorems about the L1 diamond, for every set of addresses, roots and    *)
(* claims, every number of batches and every DA policy: the types of both  *)
(* facets' storage; the settlement path: submission of batches, anchoring, *)
(* the DA policy and the rotation of sequencers; and the bridge:           *)
(* withdrawals are tied to the root of their batch, paid once, held back   *)
(* for the challenge period, and covered by the custody, by which the      *)
(* diamond implements the abstract escrow.                                 *)
(***************************************************************************)
EXTENDS Diamond, TLAPS

----------------------------------------------------------------------------
\* The functions of SequencerFacet, the entry points that share one internal
\* function joined.
LEMMA SequencerCases ==
    ASSUME SequencerFacetNext
    PROVE  \/ \E a \in Addresses, n \in BatchNumbers, b \in Blocks, m \in DaModes :
                 SubmitStateBatchWithDA(a, n, b, m)
           \/ \E a \in Addresses, n \in BatchNumbers, b \in Blocks,
                 pairs \in SUBSET RootPairs : SubmitLegacyBatch(a, n, b, pairs)
           \/ \E n \in BatchNumbers, b \in Blocks, r \in Roots \cup {NoRoot} :
                 AnchorStateCommitment(n, b, r)
           \/ \E m \in DaModes, n \in BatchNumbers : SetRequiredDAMode(m, n)
           \/ \E list \in Seq(Addresses \cup {NoAddress}) : AddSequencers(list)
           \/ \E a \in Addresses \cup {NoAddress} : RemoveSequencer(a)
<1>1. DaNone \in DaModes /\ DaCalldata \in DaModes /\ DaBlob \in DaModes
  BY DEF DaModes
<1>2. ASSUME NEW a \in Addresses, NEW n \in BatchNumbers, NEW b \in Blocks,
             SubmitStateBatch(a, n, b)
      PROVE  \E m \in DaModes : SubmitStateBatchWithDA(a, n, b, m)
  BY <1>1, <1>2 DEF SubmitStateBatch
<1>3. ASSUME NEW a \in Addresses, NEW n \in BatchNumbers, NEW b \in Blocks,
             SubmitStateBatchWithCalldata(a, n, b)
      PROVE  \E m \in DaModes : SubmitStateBatchWithDA(a, n, b, m)
  BY <1>1, <1>3 DEF SubmitStateBatchWithCalldata
<1>4. ASSUME NEW a \in Addresses, NEW n \in BatchNumbers, NEW b \in Blocks,
             SubmitStateBatchWithBlob(a, n, b)
      PROVE  \E m \in DaModes : SubmitStateBatchWithDA(a, n, b, m)
  BY <1>1, <1>4 DEF SubmitStateBatchWithBlob
<1>5. ASSUME NEW a \in Addresses, NEW n \in BatchNumbers, NEW b \in Blocks,
             SubmitBatch(a, n, b)
      PROVE  \E pairs \in SUBSET RootPairs : SubmitLegacyBatch(a, n, b, pairs)
  <2>1. {r \in RootPairs : r.withdrawals = r.state} \in SUBSET RootPairs
    OBVIOUS
  <2>2. QED
    BY <1>5, <2>1 DEF SubmitBatch
<1>6. ASSUME NEW a \in Addresses, NEW n \in BatchNumbers, NEW b \in Blocks,
             SubmitBatchV3(a, n, b)
      PROVE  \E pairs \in SUBSET RootPairs : SubmitLegacyBatch(a, n, b, pairs)
  <2>1. RootPairs \in SUBSET RootPairs
    OBVIOUS
  <2>2. QED
    BY <1>6, <2>1 DEF SubmitBatchV3
<1>7. ASSUME NEW a \in Addresses \cup {NoAddress}, AddSequencer(a)
      PROVE  \E list \in Seq(Addresses \cup {NoAddress}) : AddSequencers(list)
  <2>1. <<a>> \in Seq(Addresses \cup {NoAddress})
    OBVIOUS
  <2>2. QED
    BY <1>7, <2>1 DEF AddSequencer
<1>8. ASSUME NEW a \in Addresses \cup {NoAddress}, NEW b \in Addresses \cup {NoAddress},
             AddSequencers(<<a, b>>)
      PROVE  \E list \in Seq(Addresses \cup {NoAddress}) : AddSequencers(list)
  <2>1. <<a, b>> \in Seq(Addresses \cup {NoAddress})
    OBVIOUS
  <2>2. QED
    BY <1>8, <2>1
<1>9. QED
  BY <1>2, <1>3, <1>4, <1>5, <1>6, <1>7, <1>8 DEF SequencerFacetNext

\* What removeSequencer does to a list: the last element overwrites place i
\* and leaves its own.
LEMMA SwapAndPopped ==
    ASSUME NEW S, NEW s \in Seq(S), NEW i \in DOMAIN s
    PROVE  /\ SwapAndPop(s, i) \in Seq(S)
           /\ Len(SwapAndPop(s, i)) = Len(s) - 1
           /\ \A k \in 1..(Len(s) - 1) :
                 SwapAndPop(s, i)[k] = IF k = i THEN s[Len(s)] ELSE s[k]
<1> DEFINE w == [s EXCEPT ![i] = s[Len(s)]]
<1>1. Len(s) \in Nat /\ i \in 1..Len(s) /\ s[Len(s)] \in S
  OBVIOUS
<1>2. w \in Seq(S) /\ Len(w) = Len(s)
  BY <1>1
<1>3. \A k \in 1..Len(s) : w[k] = IF k = i THEN s[Len(s)] ELSE s[k]
  BY <1>1
<1> HIDE DEF w
<1>4. SubSeq(w, 1, Len(s) - 1) \in Seq(S)
  BY <1>1, <1>2
<1>5. Len(SubSeq(w, 1, Len(s) - 1)) = Len(s) - 1
  BY <1>1, <1>2
<1>6. \A k \in 1..(Len(s) - 1) : SubSeq(w, 1, Len(s) - 1)[k] = w[k]
  BY <1>1, <1>2
<1>7. QED
  BY <1>1, <1>3, <1>4, <1>5, <1>6 DEF w, SwapAndPop

----------------------------------------------------------------------------
\* The initial storage is well typed, legacy batches and withdrawals included.
LEMMA InitTypeOK == Init => TypeOK
<1> SUFFICES ASSUME Init PROVE TypeOK
  OBVIOUS
<1>1. withdrawals \in [Ids -> Withdrawal \cup {NotQueued}]
  <2>1. PICK queued \in SUBSET LegacyWithdrawals :
          withdrawals = [id \in Ids |->
            IF \E c \in queued : c.id = id
            THEN LegacyEntry(CHOOSE c \in queued : c.id = id)
            ELSE NotQueued]
    BY DEF Init
  <2>2. ASSUME NEW id \in Ids, \E c \in queued : c.id = id
        PROVE  LegacyEntry(CHOOSE c \in queued : c.id = id) \in Withdrawal
    <3>1. (CHOOSE c \in queued : c.id = id) \in Claims
      BY <2>2, DiamondAssumption
    <3>2. QED
      BY <3>1 DEF LegacyEntry, Withdrawal
  <2>3. QED
    BY <2>1, <2>2
<1>2. latestL2Block \in Nat /\ batches \in [BatchNumbers -> Roots \cup {NoRoot}]
  BY AppStorageAssumption, DiamondAssumption DEF Init, BatchNumbers
<1>3. activeSequencers \in Seq(Addresses)
  BY DEF Init
<1>4. challengePeriod \in Nat
  BY AppStorageAssumption, DiamondAssumption DEF Init
<1>5. /\ batchWithdrawalRoots \in [BatchNumbers -> Roots \cup {NoRoot}]
      /\ stateCommitments \in [BatchNumbers -> StateCommitmentData \cup {NoCommitment}]
      /\ latestBatchNumber \in BatchNumbers
      /\ withdrawalBatch \in [Ids -> BatchNumbers]
  BY AppStorageAssumption DEF Init, BatchNumbers
<1>6. requiredDaMode \in DaModes
  BY DEF Init, DaModes
<1>7. QED
  BY <1>1, <1>2, <1>3, <1>4, <1>5, <1>6 DEF Init, TypeOK, SettlementTypeOK, BridgeTypeOK

\* Of two facets each leaves the other's variables alone: its type invariant
\* is carried over.
LEMMA BridgeUntouched ==
    ASSUME BridgeTypeOK, UNCHANGED bridgeVars
    PROVE  BridgeTypeOK'
<1>1. /\ UNCHANGED queueVars
      /\ UNCHANGED <<batchInvalidated, bridgeAdminVars, custodyVars, now, ghostVars>>
  BY DEF bridgeVars, bridgeFacetVars
<1>2. QED
  BY <1>1 DEF BridgeTypeOK, queueVars, bridgeAdminVars, custodyVars, ghostVars

LEMMA SettlementUntouched ==
    ASSUME SettlementTypeOK, UNCHANGED seqVars
    PROVE  SettlementTypeOK'
BY DEF SettlementTypeOK, seqVars, sequencerFacetVars, rotationVars, batchVars, daVars

\* The counter of the period oracle only counts.
LEMMA RecorderTypeOK ==
    ASSUME totalBatchesSubmitted \in Nat, RecordBatchSubmitted
    PROVE  totalBatchesSubmitted' \in Nat
BY DEF RecordBatchSubmitted

\* A step of SequencerFacet keeps the types of its variables.
LEMMA SettlementTypeOKStep ==
    ASSUME SettlementTypeOK, SequencerFacetNext
    PROVE  SettlementTypeOK'
<1> USE DEF SettlementTypeOK
<1>3. BatchNumbers \subseteq Nat /\ Blocks \subseteq Nat
  BY AppStorageAssumption DEF BatchNumbers, Blocks
<1>4. ASSUME NEW a \in Addresses, NEW n \in BatchNumbers, NEW b \in Blocks,
             NEW m \in DaModes, SubmitStateBatchWithDA(a, n, b, m)
      PROVE  SettlementTypeOK'
  <2>1. PICK c \in [l2StartBlock : Blocks, l2EndBlock : {b}, preStateRoot : Roots,
                    postStateRoot : Roots, withdrawalsRoot : Roots,
                    sequencer : {a}, daMode : {m}] : StoreStateCommitment(n, c)
    BY <1>4 DEF SubmitStateBatchWithDA
  <2>2. c \in StateCommitmentData
    BY <1>3 DEF StateCommitmentData
  <2>3. /\ stateCommitments' \in [BatchNumbers -> StateCommitmentData \cup {NoCommitment}]
        /\ batches' \in [BatchNumbers -> Roots \cup {NoRoot}]
        /\ batchWithdrawalRoots' \in [BatchNumbers -> Roots \cup {NoRoot}]
    BY <2>1, <2>2 DEF StoreStateCommitment
  <2>4. totalBatchesSubmitted' \in Nat
    BY <1>4, RecorderTypeOK DEF SubmitStateBatchWithDA
  <2>5. QED
    BY <1>3, <1>4, <2>3, <2>4 DEF SubmitStateBatchWithDA, rotationVars, daVars
<1>5. ASSUME NEW a \in Addresses, NEW n \in BatchNumbers, NEW b \in Blocks,
             NEW pairs \in SUBSET RootPairs, SubmitLegacyBatch(a, n, b, pairs)
      PROVE  SettlementTypeOK'
  <2>1. PICK r \in RootPairs :
          /\ batches' = [batches EXCEPT ![n] = r.state]
          /\ batchWithdrawalRoots' = [batchWithdrawalRoots EXCEPT ![n] = r.withdrawals]
    BY <1>5 DEF SubmitLegacyBatch
  <2>2. /\ batches' \in [BatchNumbers -> Roots \cup {NoRoot}]
        /\ batchWithdrawalRoots' \in [BatchNumbers -> Roots \cup {NoRoot}]
    BY <2>1 DEF RootPairs
  <2>3. totalBatchesSubmitted' \in Nat
    BY <1>5, RecorderTypeOK DEF SubmitLegacyBatch
  <2>4. QED
    BY <1>3, <1>5, <2>2, <2>3 DEF SubmitLegacyBatch, rotationVars, daVars
<1>6. ASSUME NEW n \in BatchNumbers, NEW b \in Blocks,
             NEW r \in Roots \cup {NoRoot}, AnchorStateCommitment(n, b, r)
      PROVE  SettlementTypeOK'
  <2> DEFINE c == [l2StartBlock |-> b, l2EndBlock |-> b,
                   preStateRoot |-> r, postStateRoot |-> r,
                   withdrawalsRoot |-> batchWithdrawalRoots[n],
                   sequencer |-> Owner, daMode |-> DaNone]
  <2>1. stateCommitments' = [stateCommitments EXCEPT ![n] = c]
    BY <1>6 DEF AnchorStateCommitment
  <2>2. c \in StateCommitmentData
    BY <1>3, <1>6 DEF AnchorStateCommitment, StateCommitmentData, DaModes
  <2>3. QED
    BY <1>6, <2>1, <2>2 DEF AnchorStateCommitment, rotationVars, daVars
<1>7. ASSUME NEW m \in DaModes, NEW n \in BatchNumbers, SetRequiredDAMode(m, n)
      PROVE  SettlementTypeOK'
  <2>1. requiredDaMode' \in DaModes /\ daActivationBatch' \in Nat
    BY <1>3, <1>7 DEF SetRequiredDAMode
  <2>2. UNCHANGED <<rotationVars, batchVars, totalBatchesSubmitted>>
    BY <1>7 DEF SetRequiredDAMode
  <2>3. QED
    BY <2>1, <2>2 DEF rotationVars, batchVars
<1>8. ASSUME NEW list \in Seq(Addresses \cup {NoAddress}), AddSequencers(list)
      PROVE  SettlementTypeOK'
  <2>1. list \in Seq(Addresses)
    BY <1>8 DEF AddSequencers
  <2>2. QED
    BY <1>8, <2>1 DEF AddSequencers, batchVars, daVars
<1>9. ASSUME NEW a \in Addresses \cup {NoAddress}, RemoveSequencer(a)
      PROVE  SettlementTypeOK'
  <2>1. activeSequencers' \in Seq(Addresses)
    BY <1>9, SwapAndPopped DEF RemoveSequencer
  <2>2. QED
    BY <1>9, <2>1 DEF RemoveSequencer, batchVars, daVars
<1>10. QED
  BY SequencerCases, <1>4, <1>5, <1>6, <1>7, <1>8, <1>9

----------------------------------------------------------------------------
\* A period the fallback or an oracle gives is a number of days.
LEMMA PeriodIsNat ==
    ASSUME BridgeTypeOK, NEW p \in ChallengePeriodFor
    PROVE  p \in Nat
BY AppStorageAssumption DEF BridgeTypeOK, ChallengePeriodFor

\* What _storeWithdrawal writes is a queue entry.
LEMMA QueueEntryIsWithdrawal ==
    ASSUME BridgeTypeOK, NEW c \in Claims, NEW p \in ChallengePeriodFor
    PROVE  QueueEntry(c, p) \in Withdrawal
BY PeriodIsNat DEF BridgeTypeOK, QueueEntry, Withdrawal

\* What a claim is made of.
LEMMA ClaimType ==
    ASSUME NEW c \in Claims
    PROVE  c.id \in Ids /\ c.token \in Tokens /\ c.amount \in Nat
BY AppStorageAssumption DEF Claim

\* The claims queueWithdrawalBatch stores come from its list.
LEMMA StoredAreListed ==
    ASSUME NEW n, NEW list \in QueueLists
    PROVE  StoredFromBatch(n, list) \subseteq Claims
<1>1. list \in Seq(Claims)
  BY BridgeFacetAssumption
<1>2. \A i \in DOMAIN list : list[i] \in Claims
  BY <1>1
<1>3. QED
  BY <1>2 DEF StoredFromBatch, QueueableInBatch

\* The effect of queueWithdrawalBatch on the queue: an entry is written for
\* claims of the list that can be queued, and for no other.
LEMMA BatchQueueEffect ==
    ASSUME NEW a, NEW n \in BatchNumbers, NEW list \in QueueLists,
           QueueWithdrawalBatch(a, n, list), BridgeTypeOK
    PROVE  /\ withdrawals' \in [Ids -> Withdrawal \cup {NotQueued}]
           /\ withdrawalBatch' \in [Ids -> BatchNumbers]
           /\ \A id \in Ids :
                \/ /\ withdrawals'[id] = withdrawals[id]
                   /\ withdrawalBatch'[id] = withdrawalBatch[id]
                \/ /\ ~IsQueued(id)
                   /\ withdrawalBatch'[id] = n
                   /\ \E c \in ProvableClaims(n) \cap Claims, p \in ChallengePeriodFor :
                        c.id = id /\ withdrawals'[id] = QueueEntry(c, p)
<1> DEFINE stored == StoredFromBatch(n, list)
           ids == {c.id : c \in stored}
<1>1. PICK period \in [stored -> ChallengePeriodFor] :
         withdrawals' = [id \in Ids |->
             IF id \in ids
             THEN LET c == CHOOSE c \in stored : c.id = id
                  IN  QueueEntry(c, period[c])
             ELSE withdrawals[id]]
  BY DEF QueueWithdrawalBatch
<1>2. withdrawalBatch' = [id \in Ids |-> IF id \in ids THEN n ELSE withdrawalBatch[id]]
  BY DEF QueueWithdrawalBatch
<1>3. \A c \in stored : c \in Claims /\ c \in ProvableClaims(n) /\ ~IsQueued(c.id)
  BY StoredAreListed DEF StoredFromBatch, QueueableInBatch
<1> HIDE DEF stored
<1>4. ASSUME NEW id \in Ids, id \in ids
      PROVE  /\ ~IsQueued(id)
             /\ withdrawals'[id] \in Withdrawal
             /\ \E c \in ProvableClaims(n) \cap Claims, p \in ChallengePeriodFor :
                    c.id = id /\ withdrawals'[id] = QueueEntry(c, p)
  <2> DEFINE c == CHOOSE c \in stored : c.id = id
  <2>1. c \in stored /\ c.id = id
    BY <1>4
  <2>2. withdrawals'[id] = QueueEntry(c, period[c])
    BY <1>1, <1>4
  <2> HIDE DEF c
  <2>3. period[c] \in ChallengePeriodFor
    BY <2>1
  <2>4. QED
    BY <1>3, <2>1, <2>2, <2>3, QueueEntryIsWithdrawal
<1>5. ASSUME NEW id \in Ids, id \notin ids
      PROVE  withdrawals'[id] = withdrawals[id] /\ withdrawalBatch'[id] = withdrawalBatch[id]
  BY <1>1, <1>2, <1>5
<1>6. withdrawals' \in [Ids -> Withdrawal \cup {NotQueued}]
  <2>1. \A id \in Ids : withdrawals'[id] \in Withdrawal \cup {NotQueued}
    BY <1>4, <1>5 DEF BridgeTypeOK
  <2>2. withdrawals' = [id \in Ids |-> withdrawals'[id]]
    BY <1>1
  <2>3. QED
    BY <2>1, <2>2
<1>7. withdrawalBatch' \in [Ids -> BatchNumbers]
  BY <1>2 DEF BridgeTypeOK
<1>8. \A id \in Ids : id \in ids => withdrawalBatch'[id] = n
  BY <1>2
<1>9. QED
  BY <1>4, <1>5, <1>6, <1>7, <1>8

\* A step of BridgeFacet keeps the types of its variables.
LEMMA BridgeTypeOKStep ==
    ASSUME BridgeTypeOK, BridgeFacetNext
    PROVE  BridgeTypeOK'
<1> USE DEF BridgeTypeOK
<1>1. Amounts \subseteq Nat
  BY BridgeFacetAssumption
<1>2. ASSUME NEW to, NEW amount \in Amounts, DepositETH(to, amount)
      PROVE  BridgeTypeOK'
  BY <1>1, <1>2, AppStorageAssumption DEF DepositETH, queueVars, bridgeAdminVars
<1>3. ASSUME NEW to, NEW amount \in Amounts, NEW token \in Tokens,
             NEW received \in 0..amount, DepositERC20(token, to, amount, received)
      PROVE  BridgeTypeOK'
  <2>1. received \in Nat
    BY <1>1
  <2>2. QED
    BY <1>3, <2>1 DEF DepositERC20, queueVars, bridgeAdminVars
<1>4. ASSUME NEW amount \in Amounts, Receive(amount)
      PROVE  BridgeTypeOK'
  BY <1>1, <1>4, AppStorageAssumption DEF Receive, queueVars, bridgeAdminVars
<1>5. ASSUME NEW n \in BatchNumbers, NEW claim \in Claims, QueueWithdrawalV3(n, claim)
      PROVE  BridgeTypeOK'
  <2>0. PICK p \in ChallengePeriodFor :
           withdrawals' = [withdrawals EXCEPT ![claim.id] = QueueEntry(claim, p)]
    BY <1>5 DEF QueueWithdrawalV3
  <2>1. withdrawals' \in [Ids -> Withdrawal \cup {NotQueued}]
    BY <2>0, QueueEntryIsWithdrawal
  <2>2. withdrawalBatch' \in [Ids -> BatchNumbers]
    BY <1>5 DEF QueueWithdrawalV3
  <2>3. QED
    BY <1>5, <2>1, <2>2 DEF QueueWithdrawalV3, bridgeAdminVars, custodyVars, ghostVars
<1>6. ASSUME NEW a, NEW n \in BatchNumbers, NEW list \in QueueLists,
             QueueWithdrawalBatch(a, n, list)
      PROVE  BridgeTypeOK'
  <2>1. /\ withdrawals' \in [Ids -> Withdrawal \cup {NotQueued}]
        /\ withdrawalBatch' \in [Ids -> BatchNumbers]
    BY <1>6, BatchQueueEffect
  <2>2. UNCHANGED <<processedWithdrawals, batchInvalidated, bridgeAdminVars,
                    custodyVars, now, ghostVars>>
    BY <1>6 DEF QueueWithdrawalBatch
  <2>3. QED
    BY <2>1, <2>2 DEF bridgeAdminVars, custodyVars, ghostVars
<1>7. ASSUME NEW g \in DisputeGames, NEW n \in BatchNumbers, InvalidateBatch(g, n)
      PROVE  BridgeTypeOK'
  BY <1>7 DEF InvalidateBatch, queueVars, bridgeAdminVars, custodyVars, ghostVars
<1>8. ASSUME NEW id \in Ids, FinalizeWithdrawal(id)
      PROVE  BridgeTypeOK'
  <2> DEFINE c == withdrawals[id].claim
  <2>1. withdrawals[id] \in Withdrawal
    BY <1>8 DEF FinalizeWithdrawal, IsQueued
  <2>2. c.token \in Tokens /\ c.amount \in Nat /\ c.amount <= balance[c.token]
    BY <1>8, <2>1, ClaimType DEF FinalizeWithdrawal, Withdrawal
  <2>3. withdrawals' \in [Ids -> Withdrawal \cup {NotQueued}]
    BY <1>8, <2>1 DEF FinalizeWithdrawal, Withdrawal
  <2>4. /\ balance' = [balance EXCEPT ![c.token] = @ - c.amount]
        /\ released' = [released EXCEPT ![c.token] = @ + c.amount]
    BY <1>8 DEF FinalizeWithdrawal
  <2>5. payouts' \in [Ids -> Nat]
    BY <1>8 DEF FinalizeWithdrawal
  <2>6. /\ processedWithdrawals' \subseteq Ids
        /\ entered' \in BOOLEAN
        /\ UNCHANGED <<withdrawalBatch, batchInvalidated, bridgeAdminVars,
                       depositNonce, now, credited, donations>>
    BY <1>8 DEF FinalizeWithdrawal
  <2>7. balance' \in [Tokens -> Nat] /\ released' \in [Tokens -> Nat]
    <3> HIDE DEF c
    <3>1. QED
      BY <2>2, <2>4
  <2>8. QED
    BY <2>3, <2>5, <2>6, <2>7 DEF bridgeAdminVars
<1>9. ASSUME NEW g, NEW id \in Ids, NEW n, ChallengeWithdrawal(g, id, n)
      PROVE  BridgeTypeOK'
  <2>1. withdrawals[id] \in Withdrawal
    BY <1>9 DEF ChallengeWithdrawal, IsQueued
  <2>2. withdrawals' \in [Ids -> Withdrawal \cup {NotQueued}]
    BY <1>9, <2>1 DEF ChallengeWithdrawal, Withdrawal
  <2>3. UNCHANGED <<processedWithdrawals, withdrawalBatch, batchInvalidated,
                    bridgeAdminVars, custodyVars, now, ghostVars>>
    BY <1>9 DEF ChallengeWithdrawal
  <2>4. QED
    BY <2>2, <2>3 DEF bridgeAdminVars, custodyVars, ghostVars
<1>10. ASSUME FinalizeReturn
       PROVE  BridgeTypeOK'
  BY <1>10 DEF FinalizeReturn, queueVars, bridgeAdminVars, ghostVars
<1>11. ASSUME NEW g \in DisputeGames, SetDisputeGame(g)
       PROVE  BridgeTypeOK'
  BY <1>11 DEF SetDisputeGame, queueVars, custodyVars, ghostVars
<1>12. ASSUME NEW p \in Periods, SetChallengePeriod(p)
       PROVE  BridgeTypeOK'
  BY <1>12, AppStorageAssumption DEF SetChallengePeriod, queueVars, custodyVars, ghostVars
<1>13. ASSUME NEW o \in Oracles \cup {NoAddress}, SetChallengePeriodOracle(o)
       PROVE  BridgeTypeOK'
  BY <1>13 DEF SetChallengePeriodOracle, queueVars, custodyVars, ghostVars
<1>14. ASSUME NEW b \in BOOLEAN, SetPaused(b)
       PROVE  BridgeTypeOK'
  BY <1>14 DEF SetPaused, queueVars, custodyVars, ghostVars
<1>15. ASSUME Tick
       PROVE  BridgeTypeOK'
  BY <1>15 DEF Tick, bridgeFacetVars, queueVars, bridgeAdminVars, custodyVars, ghostVars
<1>16. QED
  BY <1>2, <1>3, <1>4, <1>5, <1>6, <1>7, <1>8, <1>9, <1>10, <1>11, <1>12, <1>13,
     <1>14, <1>15 DEF BridgeFacetNext, BridgeUserNext, BridgeGameNext, Pause, Unpause

----------------------------------------------------------------------------
\* Every step of the diamond keeps the types.
LEMMA TypeOKStep ==
    ASSUME TypeOK, [Next]_vars
    PROVE  TypeOK'
<1>1. CASE SequencerStep
  BY <1>1, SettlementTypeOKStep, BridgeUntouched DEF SequencerStep, TypeOK
<1>2. CASE BridgeStep
  BY <1>2, BridgeTypeOKStep, SettlementUntouched DEF BridgeStep, TypeOK
<1>3. CASE UNCHANGED vars
  BY <1>3, SettlementUntouched, BridgeUntouched DEF vars, TypeOK
<1>4. QED
  BY <1>1, <1>2, <1>3 DEF Next

\* Every variable has its type in every reachable state.
THEOREM TypeCorrect == Spec => []TypeOK
<1>1. ASSUME TypeOK, [Next]_vars PROVE TypeOK'
  BY <1>1, TypeOKStep
<1>2. QED
  BY InitTypeOK, <1>1, PTL DEF Spec

----------------------------------------------------------------------------
\* A step that is not one of SequencerFacet leaves its variables alone.
LEMMA StepCases ==
    ASSUME [Next]_vars
    PROVE  \/ SequencerFacetNext /\ UNCHANGED bridgeVars
           \/ UNCHANGED seqVars
BY DEF Next, SequencerStep, BridgeStep, vars

\* What a state batch does to the batch storage.
LEMMA StateBatchEffect ==
    ASSUME SettlementTypeOK, NEW a \in Addresses, NEW n \in BatchNumbers,
           NEW b \in Blocks, NEW m \in DaModes, SubmitStateBatchWithDA(a, n, b, m)
    PROVE  /\ n \notin batchRootSet
           /\ n = latestBatchNumber + 1
           /\ b = n * BlocksPerRotation
           /\ latestL2Block < b
           /\ batchRootSet' = batchRootSet \cup {n}
           /\ latestBatchNumber' = n
           /\ latestL2Block' = b
           /\ stateCommitments[n] = NoCommitment
           /\ \E c \in StateCommitmentData :
                 /\ c.l2StartBlock = latestL2Block + 1
                 /\ c.l2EndBlock = b
                 /\ c.daMode = m
                 /\ stateCommitments[n - 1] # NoCommitment =>
                        c.preStateRoot = stateCommitments[n - 1].postStateRoot
                 /\ stateCommitments' = [stateCommitments EXCEPT ![n] = c]
                 /\ batches' = [batches EXCEPT ![n] = c.postStateRoot]
                 /\ batchWithdrawalRoots' = [batchWithdrawalRoots EXCEPT ![n] = c.withdrawalsRoot]
                 /\ c.postStateRoot \in Roots /\ c.withdrawalsRoot \in Roots
<1>1. PICK c \in [l2StartBlock : Blocks, l2EndBlock : {b}, preStateRoot : Roots,
                  postStateRoot : Roots, withdrawalsRoot : Roots,
                  sequencer : {a}, daMode : {m}] :
          Continues(n, c) /\ StoreStateCommitment(n, c)
  BY DEF SubmitStateBatchWithDA
<1>2. Blocks \subseteq Nat
  BY AppStorageAssumption DEF Blocks
<1>3. c \in StateCommitmentData
  BY <1>2 DEF StateCommitmentData
<1>4. /\ c.l2StartBlock \in Nat /\ c.l2EndBlock = b /\ b \in Nat
      /\ c.daMode = m /\ c.postStateRoot \in Roots /\ c.withdrawalsRoot \in Roots
  BY <1>2
<1>5. /\ c.l2StartBlock = latestL2Block + 1
      /\ c.l2StartBlock <= c.l2EndBlock
      /\ stateCommitments[n - 1] # NoCommitment =>
             c.preStateRoot = stateCommitments[n - 1].postStateRoot
  BY <1>1 DEF Continues
<1>6. latestL2Block < b
  BY <1>4, <1>5 DEF SettlementTypeOK
<1>7. /\ n \notin batchRootSet
      /\ n = latestBatchNumber + 1
      /\ b = n * BlocksPerRotation
      /\ batchRootSet' = batchRootSet \cup {n}
      /\ latestBatchNumber' = n
      /\ latestL2Block' = b
      /\ stateCommitments[n] = NoCommitment
  BY DEF SubmitStateBatchWithDA, MaySubmit
<1>8. /\ stateCommitments' = [stateCommitments EXCEPT ![n] = c]
      /\ batches' = [batches EXCEPT ![n] = c.postStateRoot]
      /\ batchWithdrawalRoots' = [batchWithdrawalRoots EXCEPT ![n] = c.withdrawalsRoot]
  BY <1>1 DEF StoreStateCommitment
<1>9. QED
  BY <1>3, <1>4, <1>5, <1>6, <1>7, <1>8

\* What a legacy batch does to the batch storage.
LEMMA LegacyBatchEffect ==
    ASSUME SettlementTypeOK, NEW a \in Addresses, NEW n \in BatchNumbers,
           NEW b \in Blocks, NEW pairs \in SUBSET RootPairs,
           SubmitLegacyBatch(a, n, b, pairs)
    PROVE  /\ n \notin batchRootSet
           /\ latestBatchNumber < n
           /\ b = n * BlocksPerRotation
           /\ latestL2Block < b
           /\ batchRootSet' = batchRootSet \cup {n}
           /\ latestBatchNumber' = n
           /\ latestL2Block' = b
           /\ stateCommitments' = stateCommitments
           /\ ~IsDAPolicyActiveForBatch(n)
           /\ \E r \in RootPairs :
                 /\ batches' = [batches EXCEPT ![n] = r.state]
                 /\ batchWithdrawalRoots' = [batchWithdrawalRoots EXCEPT ![n] = r.withdrawals]
                 /\ r.state \in Roots /\ r.withdrawals \in Roots
<1>1. PICK r \in RootPairs :
          /\ batches' = [batches EXCEPT ![n] = r.state]
          /\ batchWithdrawalRoots' = [batchWithdrawalRoots EXCEPT ![n] = r.withdrawals]
  BY DEF SubmitLegacyBatch
<1>2. r.state \in Roots /\ r.withdrawals \in Roots
  BY DEF RootPairs
<1>3. /\ n \notin batchRootSet
      /\ b = n * BlocksPerRotation
      /\ latestL2Block < b
      /\ batchRootSet' = batchRootSet \cup {n}
      /\ latestBatchNumber' = n
      /\ latestL2Block' = b
      /\ stateCommitments' = stateCommitments
      /\ EnforceDAPolicy(n, DaNone)
      /\ latestBatchNumber # 0 => n > latestBatchNumber
  BY AppStorageAssumption
  DEF SubmitLegacyBatch, MaySubmit, MovesForward, SettlementTypeOK, Blocks
<1>4. latestBatchNumber < n
  <2>1. n # 0
    BY <1>3, AppStorageAssumption DEF SettlementTypeOK
  <2>2. n \in Nat /\ latestBatchNumber \in Nat
    BY DEF SettlementTypeOK, BatchNumbers
  <2>3. QED
    BY <1>3, <2>1, <2>2
<1>5. ~IsDAPolicyActiveForBatch(n)
  BY <1>3 DEF EnforceDAPolicy, DaNone, DaCalldata, DaBlob
<1>6. QED
  BY <1>1, <1>2, <1>3, <1>4, <1>5

\* What anchoring does to the batch storage.
LEMMA AnchorEffect ==
    ASSUME SettlementTypeOK, NEW n \in BatchNumbers, NEW b \in Blocks,
           NEW r \in Roots \cup {NoRoot}, AnchorStateCommitment(n, b, r)
    PROVE  /\ n = latestBatchNumber
           /\ stateCommitments[n] = NoCommitment
           /\ ~IsDAPolicyActiveForBatch(n)
           /\ UNCHANGED <<batches, batchWithdrawalRoots, batchRootSet,
                          latestBatchNumber, latestL2Block>>
           /\ \E c \in StateCommitmentData :
                 /\ stateCommitments' = [stateCommitments EXCEPT ![n] = c]
                 /\ c.l2StartBlock = latestL2Block
                 /\ c.l2EndBlock = latestL2Block
<1> DEFINE c == [l2StartBlock |-> b, l2EndBlock |-> b,
                 preStateRoot |-> r, postStateRoot |-> r,
                 withdrawalsRoot |-> batchWithdrawalRoots[n],
                 sequencer |-> Owner, daMode |-> DaNone]
<1>1. /\ stateCommitments' = [stateCommitments EXCEPT ![n] = c]
      /\ r # NoRoot
      /\ b = latestL2Block
      /\ n = latestBatchNumber
      /\ stateCommitments[n] = NoCommitment
      /\ ~IsDAPolicyActiveForBatch(n)
      /\ UNCHANGED <<batches, batchWithdrawalRoots, batchRootSet,
                     latestBatchNumber, latestL2Block>>
  BY DEF AnchorStateCommitment
<1>2. c \in StateCommitmentData
  <2>1. b \in Nat
    BY AppStorageAssumption DEF Blocks
  <2>2. batchWithdrawalRoots[n] \in Roots \cup {NoRoot}
    BY DEF SettlementTypeOK
  <2>3. QED
    BY <1>1, <2>1, <2>2 DEF StateCommitmentData, DaModes
<1>3. c.l2StartBlock = b /\ c.l2EndBlock = b
  OBVIOUS
<1>4. QED
  BY <1>1, <1>2, <1>3

\* The owner's functions do not touch the batch storage.
LEMMA OwnerStepsKeepBatches ==
    /\ \A m, n : SetRequiredDAMode(m, n) => UNCHANGED batchVars
    /\ \A list : AddSequencers(list) => UNCHANGED batchVars
    /\ \A a : RemoveSequencer(a) => UNCHANGED batchVars
BY DEF SetRequiredDAMode, AddSequencers, RemoveSequencer

\* One step of the diamond as the batch storage sees it.
LEMMA SettlementCases ==
    ASSUME [Next]_vars
    PROVE  \/ \E a \in Addresses, n \in BatchNumbers, b \in Blocks, m \in DaModes :
                 SubmitStateBatchWithDA(a, n, b, m)
           \/ \E a \in Addresses, n \in BatchNumbers, b \in Blocks,
                 pairs \in SUBSET RootPairs : SubmitLegacyBatch(a, n, b, pairs)
           \/ \E n \in BatchNumbers, b \in Blocks, r \in Roots \cup {NoRoot} :
                 AnchorStateCommitment(n, b, r)
           \/ UNCHANGED batchVars
<1>1. CASE SequencerFacetNext
  BY <1>1, SequencerCases, OwnerStepsKeepBatches
<1>2. CASE UNCHANGED seqVars
  BY <1>2 DEF seqVars, sequencerFacetVars
<1>3. QED
  BY <1>1, <1>2, StepCases

----------------------------------------------------------------------------
\* Nothing lies beyond the latest batch: initially, and after every step.
LEMMA HeadInit == Init => HeadIsLatest
<1> SUFFICES ASSUME Init PROVE HeadIsLatest
  OBVIOUS
<1>1. PICK k \in 0..LegacyBatches, roots \in [1..LegacyBatches -> Roots] :
         /\ batches = [n \in BatchNumbers |-> IF n \in 1..k THEN roots[n] ELSE NoRoot]
         /\ latestL2Block = k * BlocksPerRotation
  BY DEF Init
<1>2. k \in Nat /\ BlocksPerRotation \in Nat
  BY DiamondAssumption, AppStorageAssumption DEF BatchNumbers
<1>3. ASSUME NEW n \in BatchNumbers, batches[n] # NoRoot
      PROVE  n * BlocksPerRotation <= latestL2Block
  <2>1. n \in 1..k
    BY <1>1, <1>3
  <2>2. n \in Nat /\ n <= k
    BY <1>2, <2>1
  <2>3. n * BlocksPerRotation <= k * BlocksPerRotation
    BY <1>2, <2>2
  <2>4. QED
    BY <1>1, <2>3
<1>4. /\ latestBatchNumber = 0
      /\ batchRootSet = {}
      /\ \A n \in BatchNumbers : stateCommitments[n] = NoCommitment
  BY DEF Init
<1>5. QED
  BY <1>3, <1>4 DEF HeadIsLatest

LEMMA HeadStep ==
    ASSUME SettlementTypeOK, HeadIsLatest, [Next]_vars
    PROVE  HeadIsLatest'
<1>1. /\ BatchNumbers \subseteq Nat /\ BlocksPerRotation \in Nat
      /\ NoRoot \notin Roots /\ NoCommitment \notin StateCommitmentData
      /\ latestBatchNumber \in Nat /\ latestL2Block \in Nat
      /\ \A n \in BatchNumbers : n * BlocksPerRotation \in Nat
  BY AppStorageAssumption DEF BatchNumbers, SettlementTypeOK
\* Both kinds of submission put batch n beyond the head and make it the head.
<1>2. ASSUME NEW n \in BatchNumbers, NEW b,
             n \notin batchRootSet, latestBatchNumber < n,
             b = n * BlocksPerRotation, latestL2Block < b,
             batchRootSet' = batchRootSet \cup {n},
             latestBatchNumber' = n, latestL2Block' = b,
             \A k \in BatchNumbers \ {n} : batches'[k] = batches[k],
             batches'[n] # NoRoot,
             \A k \in BatchNumbers \ {n} : stateCommitments'[k] = stateCommitments[k]
      PROVE  HeadIsLatest'
  <2>1. ASSUME NEW k \in BatchNumbers, batches'[k] # NoRoot
        PROVE  k * BlocksPerRotation <= latestL2Block'
    BY <1>1, <1>2, <2>1 DEF HeadIsLatest
  <2>2. ASSUME NEW k \in BatchNumbers, k \in batchRootSet'
        PROVE  k <= latestBatchNumber' /\ batches'[k] # NoRoot
    BY <1>1, <1>2, <2>2 DEF HeadIsLatest
  <2>3. ASSUME NEW k \in BatchNumbers, stateCommitments'[k] # NoCommitment
        PROVE  k <= latestBatchNumber'
    BY <1>1, <1>2, <2>3 DEF HeadIsLatest
  <2>4. QED
    BY <1>2, <2>1, <2>2, <2>3 DEF HeadIsLatest
<1>3. ASSUME NEW a \in Addresses, NEW n \in BatchNumbers, NEW b \in Blocks,
             NEW m \in DaModes, SubmitStateBatchWithDA(a, n, b, m)
      PROVE  HeadIsLatest'
  <2>1. /\ \A k \in BatchNumbers \ {n} : batches'[k] = batches[k]
        /\ batches'[n] # NoRoot
        /\ \A k \in BatchNumbers \ {n} : stateCommitments'[k] = stateCommitments[k]
    BY <1>1, <1>3, StateBatchEffect DEF SettlementTypeOK
  <2>2. /\ n \notin batchRootSet /\ latestBatchNumber < n
        /\ b = n * BlocksPerRotation /\ latestL2Block < b
        /\ batchRootSet' = batchRootSet \cup {n}
        /\ latestBatchNumber' = n /\ latestL2Block' = b
    BY <1>1, <1>3, StateBatchEffect
  <2>3. QED
    BY <1>2, <2>1, <2>2
<1>4. ASSUME NEW a \in Addresses, NEW n \in BatchNumbers, NEW b \in Blocks,
             NEW pairs \in SUBSET RootPairs, SubmitLegacyBatch(a, n, b, pairs)
      PROVE  HeadIsLatest'
  <2>1. /\ \A k \in BatchNumbers \ {n} : batches'[k] = batches[k]
        /\ batches'[n] # NoRoot
        /\ \A k \in BatchNumbers \ {n} : stateCommitments'[k] = stateCommitments[k]
    BY <1>1, <1>4, LegacyBatchEffect DEF SettlementTypeOK
  <2>2. /\ n \notin batchRootSet /\ latestBatchNumber < n
        /\ b = n * BlocksPerRotation /\ latestL2Block < b
        /\ batchRootSet' = batchRootSet \cup {n}
        /\ latestBatchNumber' = n /\ latestL2Block' = b
    BY <1>4, LegacyBatchEffect
  <2>3. QED
    BY <1>2, <2>1, <2>2
<1>5. ASSUME NEW n \in BatchNumbers, NEW b \in Blocks,
             NEW r \in Roots \cup {NoRoot}, AnchorStateCommitment(n, b, r)
      PROVE  HeadIsLatest'
  <2>1. /\ n = latestBatchNumber
        /\ UNCHANGED <<batches, batchRootSet, latestBatchNumber, latestL2Block>>
        /\ \A k \in BatchNumbers \ {n} : stateCommitments'[k] = stateCommitments[k]
    BY <1>5, AnchorEffect DEF SettlementTypeOK
  <2>2. QED
    BY <1>1, <2>1 DEF HeadIsLatest
<1>6. CASE UNCHANGED batchVars
  BY <1>6 DEF batchVars, HeadIsLatest
<1>7. QED
  BY <1>3, <1>4, <1>5, <1>6, SettlementCases

\* HeadIsLatest holds for every number of batches, rotation length and number
\* of legacy batches: nothing is ever written beyond the latest batch, and the
\* latest L2 block is its last block.
THEOREM HeadIsAlwaysLatest == Spec => []HeadIsLatest
<1>1. ASSUME TypeOK, HeadIsLatest, [Next]_vars PROVE HeadIsLatest'
  BY <1>1, HeadStep DEF TypeOK
<1>2. QED
  BY HeadInit, TypeCorrect, <1>1, PTL DEF Spec

----------------------------------------------------------------------------
\* A root that was ever committed for a batch number is never replaced, nor is
\* the way its leaves are opened.
LEMMA RootStep ==
    ASSUME SettlementTypeOK, HeadIsLatest, [Next]_vars,
           NEW n \in BatchNumbers, BatchWithdrawalRoot(n) # NoRoot
    PROVE  /\ BatchWithdrawalRoot(n)' = BatchWithdrawalRoot(n)
           /\ ProvableClaims(n)' = ProvableClaims(n)
\* A submission for the number k itself needs k not to have a root yet.
<1>1. ASSUME NEW k \in BatchNumbers, NEW b, NEW r1, NEW r2,
             k \notin batchRootSet, b = k * BlocksPerRotation, latestL2Block < b,
             batchRootSet' = batchRootSet \cup {k},
             batches' = [batches EXCEPT ![k] = r1],
             batchWithdrawalRoots' = [batchWithdrawalRoots EXCEPT ![k] = r2]
      PROVE  /\ BatchWithdrawalRoot(n)' = BatchWithdrawalRoot(n)
             /\ ProvableClaims(n)' = ProvableClaims(n)
  <2>1. n # k
    <3> SUFFICES ASSUME n = k PROVE FALSE
      OBVIOUS
    <3>1. batches[k] # NoRoot
      BY <1>1 DEF BatchWithdrawalRoot
    <3>2. k * BlocksPerRotation <= latestL2Block
      BY <3>1 DEF HeadIsLatest
    <3>3. k * BlocksPerRotation \in Nat /\ latestL2Block \in Nat
      BY AppStorageAssumption DEF BatchNumbers, SettlementTypeOK
    <3>4. QED
      BY <1>1, <3>2, <3>3
  <2>2. /\ n \in batchRootSet' <=> n \in batchRootSet
        /\ batches'[n] = batches[n]
        /\ batchWithdrawalRoots'[n] = batchWithdrawalRoots[n]
    BY <1>1, <2>1 DEF SettlementTypeOK
  <2>3. QED
    BY <2>2 DEF BatchWithdrawalRoot, ProvableClaims
<1>2. CASE \E a \in Addresses, k \in BatchNumbers, b \in Blocks, m \in DaModes :
              SubmitStateBatchWithDA(a, k, b, m)
  BY <1>1, <1>2, StateBatchEffect
<1>3. CASE \E a \in Addresses, k \in BatchNumbers, b \in Blocks,
              pairs \in SUBSET RootPairs : SubmitLegacyBatch(a, k, b, pairs)
  BY <1>1, <1>3, LegacyBatchEffect
<1>4. CASE \E k \in BatchNumbers, b \in Blocks, r \in Roots \cup {NoRoot} :
              AnchorStateCommitment(k, b, r)
  BY <1>4, AnchorEffect DEF BatchWithdrawalRoot, ProvableClaims
<1>5. CASE UNCHANGED batchVars
  BY <1>5 DEF batchVars, BatchWithdrawalRoot, ProvableClaims
<1>6. QED
  BY <1>2, <1>3, <1>4, <1>5, SettlementCases

\* Withdrawal roots are final, for every batch number and every history of
\* state batches, legacy batches, anchors and policies.
THEOREM RootsAreFinal == Spec => BatchRootsAreFinal
<1> DEFINE Final == \A n \in BatchNumbers :
              BatchWithdrawalRoot(n) # NoRoot =>
                  /\ BatchWithdrawalRoot(n)' = BatchWithdrawalRoot(n)
                  /\ ProvableClaims(n)' = ProvableClaims(n)
<1>1. ASSUME TypeOK, HeadIsLatest, [Next]_vars PROVE Final
  BY <1>1, RootStep DEF TypeOK
<1>2. Spec => [][Final]_vars
  BY HeadIsAlwaysLatest, TypeCorrect, <1>1, PTL DEF Spec
<1>3. QED
  BY <1>2 DEF BatchRootsAreFinal

----------------------------------------------------------------------------
\* What chaining rests on: the commitment of the latest batch, if it has one,
\* ends at the latest block, whether it was submitted or anchored.
LatestCommitmentEndsAtHead ==
    stateCommitments[latestBatchNumber] # NoCommitment =>
        stateCommitments[latestBatchNumber].l2EndBlock = latestL2Block

ChainInv == HeadIsLatest /\ LatestCommitmentEndsAtHead /\ CommitmentsAreChained

\* The chain of commitments grows at its head only.
LEMMA ChainStep ==
    ASSUME SettlementTypeOK, ChainInv, [Next]_vars
    PROVE  ChainInv'
<1>1. HeadIsLatest'
  BY HeadStep DEF ChainInv
<1>2. /\ BatchNumbers \subseteq Nat /\ BlocksPerRotation \in Nat
      /\ NoCommitment \notin StateCommitmentData
      /\ latestBatchNumber \in BatchNumbers /\ latestBatchNumber \in Nat
      /\ latestL2Block \in Nat
      /\ \A n \in BatchNumbers \ {0} : n - 1 \in BatchNumbers /\ n - 1 < n
  BY AppStorageAssumption DEF BatchNumbers, SettlementTypeOK
<1>3. ASSUME NEW a \in Addresses, NEW n \in BatchNumbers, NEW b \in Blocks,
             NEW m \in DaModes, SubmitStateBatchWithDA(a, n, b, m)
      PROVE  LatestCommitmentEndsAtHead' /\ CommitmentsAreChained'
  <2>1. PICK c \in StateCommitmentData :
           /\ c.l2StartBlock = latestL2Block + 1
           /\ c.l2EndBlock = b
           /\ stateCommitments[n - 1] # NoCommitment =>
                  c.preStateRoot = stateCommitments[n - 1].postStateRoot
           /\ stateCommitments' = [stateCommitments EXCEPT ![n] = c]
    BY <1>3, StateBatchEffect
  <2>2. /\ n = latestBatchNumber + 1
        /\ b = n * BlocksPerRotation
        /\ latestBatchNumber' = n
        /\ latestL2Block' = b
    BY <1>3, StateBatchEffect
  <2>3. /\ stateCommitments'[n] = c
        /\ \A k \in BatchNumbers \ {n} : stateCommitments'[k] = stateCommitments[k]
        /\ n \in Nat
    BY <1>2, <2>1 DEF SettlementTypeOK
  <2>4. LatestCommitmentEndsAtHead'
    BY <2>1, <2>2, <2>3 DEF LatestCommitmentEndsAtHead
  <2>5. ASSUME NEW k \in BatchNumbers \ {0},
               stateCommitments'[k] # NoCommitment,
               stateCommitments'[k - 1] # NoCommitment,
               stateCommitments'[k].l2StartBlock # stateCommitments'[k].l2EndBlock
        PROVE  /\ stateCommitments'[k].preStateRoot = stateCommitments'[k - 1].postStateRoot
               /\ stateCommitments'[k].l2StartBlock = stateCommitments'[k - 1].l2EndBlock + 1
               /\ stateCommitments'[k].l2EndBlock = k * BlocksPerRotation
    <3>1. CASE k = n
      <4>1. k - 1 = latestBatchNumber /\ k - 1 \in BatchNumbers \ {n}
        BY <1>2, <2>2, <3>1
      <4>2. stateCommitments'[k - 1] = stateCommitments[latestBatchNumber]
        BY <2>3, <4>1
      <4>3. stateCommitments'[k - 1].l2EndBlock = latestL2Block
        BY <2>5, <4>2 DEF ChainInv, LatestCommitmentEndsAtHead
      <4>4. QED
        BY <2>1, <2>2, <2>3, <2>5, <3>1, <4>1, <4>2, <4>3
    <3>2. CASE k # n
      \* Nothing above n is committed, so k - 1 is not n either.
      <4>1. stateCommitments[k] # NoCommitment
        BY <2>3, <2>5, <3>2
      <4>2. k <= latestBatchNumber
        BY <4>1 DEF ChainInv, HeadIsLatest
      <4>3. k - 1 \in BatchNumbers \ {n}
        BY <1>2, <2>2, <4>2
      <4>4. stateCommitments'[k] = stateCommitments[k]
            /\ stateCommitments'[k - 1] = stateCommitments[k - 1]
        BY <2>3, <3>2, <4>3
      <4>5. QED
        BY <2>5, <4>4 DEF ChainInv, CommitmentsAreChained
    <3>3. QED
      BY <3>1, <3>2
  <2>6. QED
    BY <2>4, <2>5 DEF CommitmentsAreChained
<1>4. ASSUME NEW a \in Addresses, NEW n \in BatchNumbers, NEW b \in Blocks,
             NEW pairs \in SUBSET RootPairs, SubmitLegacyBatch(a, n, b, pairs)
      PROVE  LatestCommitmentEndsAtHead' /\ CommitmentsAreChained'
  <2>1. /\ stateCommitments' = stateCommitments
        /\ latestBatchNumber' = n
        /\ latestBatchNumber < n
    BY <1>4, LegacyBatchEffect
  <2>2. stateCommitments[n] = NoCommitment
    BY <1>2, <2>1 DEF ChainInv, HeadIsLatest
  <2>3. QED
    BY <2>1, <2>2 DEF ChainInv, LatestCommitmentEndsAtHead, CommitmentsAreChained
<1>5. ASSUME NEW n \in BatchNumbers, NEW b \in Blocks,
             NEW r \in Roots \cup {NoRoot}, AnchorStateCommitment(n, b, r)
      PROVE  LatestCommitmentEndsAtHead' /\ CommitmentsAreChained'
  <2>1. PICK c \in StateCommitmentData :
           /\ stateCommitments' = [stateCommitments EXCEPT ![n] = c]
           /\ c.l2StartBlock = latestL2Block
           /\ c.l2EndBlock = latestL2Block
    BY <1>5, AnchorEffect
  <2>2. n = latestBatchNumber /\ UNCHANGED <<latestBatchNumber, latestL2Block>>
    BY <1>5, AnchorEffect
  <2>3. /\ stateCommitments'[n] = c
        /\ \A k \in BatchNumbers \ {n} : stateCommitments'[k] = stateCommitments[k]
        /\ n \in Nat
    BY <1>2, <2>1 DEF SettlementTypeOK
  <2>4. LatestCommitmentEndsAtHead'
    BY <2>1, <2>2, <2>3 DEF LatestCommitmentEndsAtHead
  <2>5. ASSUME NEW k \in BatchNumbers \ {0},
               stateCommitments'[k] # NoCommitment,
               stateCommitments'[k - 1] # NoCommitment,
               stateCommitments'[k].l2StartBlock # stateCommitments'[k].l2EndBlock
        PROVE  /\ stateCommitments'[k].preStateRoot = stateCommitments'[k - 1].postStateRoot
               /\ stateCommitments'[k].l2StartBlock = stateCommitments'[k - 1].l2EndBlock + 1
               /\ stateCommitments'[k].l2EndBlock = k * BlocksPerRotation
    <3>1. k # n
      BY <2>1, <2>3, <2>5
    <3>2. stateCommitments[k] # NoCommitment
      BY <2>3, <2>5, <3>1
    <3>3. k <= n
      BY <2>2, <3>2 DEF ChainInv, HeadIsLatest
    <3>4. k - 1 \in BatchNumbers \ {n}
      BY <1>2, <2>3, <3>3
    <3>5. stateCommitments'[k] = stateCommitments[k]
          /\ stateCommitments'[k - 1] = stateCommitments[k - 1]
      BY <2>3, <3>1, <3>4
    <3>6. QED
      BY <2>5, <3>5 DEF ChainInv, CommitmentsAreChained
  <2>6. QED
    BY <2>4, <2>5 DEF CommitmentsAreChained
<1>6. CASE UNCHANGED batchVars
  BY <1>1, <1>6 DEF ChainInv, batchVars, LatestCommitmentEndsAtHead, CommitmentsAreChained
<1>7. QED
  BY <1>1, <1>3, <1>4, <1>5, <1>6, SettlementCases DEF ChainInv

\* The commitments that a dispute walks along are chained, however state
\* batches, legacy batches and anchors alternate.
THEOREM CommitmentsAlwaysChained == Spec => []CommitmentsAreChained
<1>1. Init => ChainInv
  <2>1. Init => HeadIsLatest
    BY HeadInit
  <2>2. Init => latestBatchNumber \in BatchNumbers
    BY AppStorageAssumption DEF Init, BatchNumbers
  <2>3. Init => \A n \in BatchNumbers : stateCommitments[n] = NoCommitment
    BY DEF Init
  <2>4. QED
    BY <2>1, <2>2, <2>3 DEF ChainInv, LatestCommitmentEndsAtHead, CommitmentsAreChained
<1>2. ASSUME TypeOK, ChainInv, [Next]_vars PROVE ChainInv'
  BY <1>2, ChainStep DEF TypeOK
<1>3. ChainInv => CommitmentsAreChained
  BY DEF ChainInv
<1>4. QED
  BY <1>1, <1>2, <1>3, TypeCorrect, PTL DEF Spec

----------------------------------------------------------------------------
\* No entry point takes a batch the DA policy covers with a mode below the
\* required one, whatever policies the owner sets and withdraws on the way.
THEOREM DaPolicyHolds == Spec => DaPolicyIsNotBypassed
<1> DEFINE Respected == \A n \in BatchNumbers :
              IsDAPolicyActiveForBatch(n) =>
                  /\ n \in batchRootSet' \ batchRootSet =>
                         /\ stateCommitments'[n] # NoCommitment
                         /\ stateCommitments'[n].daMode >= requiredDaMode
                  /\ n \in batchRootSet => stateCommitments'[n] = stateCommitments[n]
<1>1. ASSUME SettlementTypeOK, [Next]_vars,
             NEW n \in BatchNumbers, IsDAPolicyActiveForBatch(n)
      PROVE  /\ n \in batchRootSet' \ batchRootSet =>
                    /\ stateCommitments'[n] # NoCommitment
                    /\ stateCommitments'[n].daMode >= requiredDaMode
             /\ n \in batchRootSet => stateCommitments'[n] = stateCommitments[n]
  <2>1. ASSUME NEW a \in Addresses, NEW k \in BatchNumbers, NEW b \in Blocks,
               NEW m \in DaModes, SubmitStateBatchWithDA(a, k, b, m)
        PROVE  /\ k \notin batchRootSet
               /\ batchRootSet' = batchRootSet \cup {k}
               /\ \A j \in BatchNumbers \ {k} : stateCommitments'[j] = stateCommitments[j]
               /\ k = n => /\ stateCommitments'[k] # NoCommitment
                           /\ stateCommitments'[k].daMode >= requiredDaMode
    <3>1. PICK c \in StateCommitmentData :
             c.daMode = m /\ stateCommitments' = [stateCommitments EXCEPT ![k] = c]
      BY <1>1, <2>1, StateBatchEffect
    <3>2. EnforceDAPolicy(k, m)
      BY <2>1 DEF SubmitStateBatchWithDA
    <3>3. k = n => m >= requiredDaMode
      BY <1>1, <3>2 DEF EnforceDAPolicy, DaNone, DaCalldata, DaBlob
    <3>4. /\ stateCommitments'[k] = c
          /\ \A j \in BatchNumbers \ {k} : stateCommitments'[j] = stateCommitments[j]
      BY <1>1, <3>1 DEF SettlementTypeOK
    <3>5. QED
      BY <1>1, <2>1, <3>1, <3>3, <3>4, StateBatchEffect, AppStorageAssumption
  <2>2. CASE \E a \in Addresses, k \in BatchNumbers, b \in Blocks, m \in DaModes :
                SubmitStateBatchWithDA(a, k, b, m)
    BY <2>1, <2>2
  <2>3. CASE \E a \in Addresses, k \in BatchNumbers, b \in Blocks,
                pairs \in SUBSET RootPairs : SubmitLegacyBatch(a, k, b, pairs)
    BY <1>1, <2>3, LegacyBatchEffect
  <2>4. CASE \E k \in BatchNumbers, b \in Blocks, r \in Roots \cup {NoRoot} :
                AnchorStateCommitment(k, b, r)
    BY <1>1, <2>4, AnchorEffect DEF SettlementTypeOK
  <2>5. CASE UNCHANGED batchVars
    BY <2>5 DEF batchVars
  <2>6. QED
    BY <1>1, <2>2, <2>3, <2>4, <2>5, SettlementCases
<1>2. ASSUME TypeOK, [Next]_vars PROVE Respected
  BY <1>1, <1>2 DEF TypeOK
<1>3. Spec => [][Respected]_vars
  BY TypeCorrect, <1>2, PTL DEF Spec
<1>4. QED
  BY <1>3 DEF DaPolicyIsNotBypassed

----------------------------------------------------------------------------
\* The rotation never holds an address twice.
LEMMA RotationStep ==
    ASSUME SettlementTypeOK, RotationHasNoDuplicates, [Next]_vars
    PROVE  RotationHasNoDuplicates'
<1> USE DEF SettlementTypeOK
<1>1. RotationHasNoDuplicates <=>
        \A i, j \in 1..Len(activeSequencers) :
            activeSequencers[i] = activeSequencers[j] => i = j
  BY DEF RotationHasNoDuplicates, IsInjective
<1>2. ASSUME NEW list \in Seq(Addresses \cup {NoAddress}), AddSequencers(list)
      PROVE  RotationHasNoDuplicates'
  <2> DEFINE s == activeSequencers
             m == Len(s)
             k == Len(list)
  <2>1. m \in Nat /\ k \in Nat /\ s \in Seq(Addresses \cup {NoAddress})
    OBVIOUS
  <2>2. /\ activeSequencers' = s \o list
        /\ Len(activeSequencers') = m + k
        /\ \A i \in 1..m : activeSequencers'[i] = s[i]
        /\ \A i \in (m + 1)..(m + k) : activeSequencers'[i] = list[i - m]
    BY <1>2, <2>1 DEF AddSequencers
  <2>3. \A i \in 1..k : /\ \A j \in 1..m : s[j] # list[i]
                        /\ \A j \in 1..(i - 1) : list[j] # list[i]
    BY <1>2, <2>1 DEF AddSequencers, IsRegisteredSequencer
  <2>4. ASSUME NEW i \in 1..(m + k), NEW j \in 1..(m + k), i < j
        PROVE  activeSequencers'[i] # activeSequencers'[j]
    <3>1. CASE j \in 1..m
      BY <1>1, <2>1, <2>2, <2>4, <3>1
    <3>2. CASE j \notin 1..m /\ i \in 1..m
      <4>1. j \in (m + 1)..(m + k) /\ j - m \in 1..k
        BY <2>1, <3>2
      <4>2. QED
        BY <2>2, <2>3, <3>2, <4>1
    <3>3. CASE i \notin 1..m
      <4>1. /\ j \in (m + 1)..(m + k) /\ j - m \in 1..k
            /\ i \in (m + 1)..(m + k) /\ i - m \in 1..(j - m - 1)
        BY <2>1, <2>4, <3>3
      <4>2. QED
        BY <2>2, <2>3, <4>1
    <3>4. QED
      BY <3>1, <3>2, <3>3
  <2>5. \A i, j \in 1..(m + k) : activeSequencers'[i] = activeSequencers'[j] => i = j
    BY <2>1, <2>4
  <2>6. DOMAIN activeSequencers' = 1..(m + k)
    BY <2>1, <2>2
  <2>7. QED
    BY <2>5, <2>6 DEF RotationHasNoDuplicates, IsInjective
<1>3. ASSUME NEW a, RemoveSequencer(a)
      PROVE  RotationHasNoDuplicates'
  <2> DEFINE s == activeSequencers
             m == Len(s)
  <2>1. PICK i \in DOMAIN s :
           activeSequencers' = SwapAndPop(s, i)
    BY <1>3 DEF RemoveSequencer
  <2>2. /\ m \in Nat /\ i \in 1..m
        /\ activeSequencers' \in Seq(Addresses)
        /\ Len(activeSequencers') = m - 1
        /\ \A k \in 1..(m - 1) : activeSequencers'[k] = IF k = i THEN s[m] ELSE s[k]
    BY <2>1, SwapAndPopped
  <2>3. DOMAIN activeSequencers' = 1..(m - 1)
    BY <2>2
  <2>4. \A k, j \in 1..m : s[k] = s[j] => k = j
    BY <1>1
  <2> HIDE DEF s, m
  <2>5. \A k, j \in 1..(m - 1) : activeSequencers'[k] = activeSequencers'[j] => k = j
    BY <2>2, <2>4
  <2>6. QED
    BY <2>3, <2>5 DEF RotationHasNoDuplicates, IsInjective
<1>4. CASE UNCHANGED activeSequencers
  BY <1>4 DEF RotationHasNoDuplicates
<1>5. CASE UNCHANGED seqVars
  BY <1>4, <1>5 DEF seqVars, sequencerFacetVars, rotationVars
<1>6. ASSUME SequencerFacetNext
      PROVE  \/ UNCHANGED activeSequencers
             \/ \E list \in Seq(Addresses \cup {NoAddress}) : AddSequencers(list)
             \/ \E a : RemoveSequencer(a)
  BY <1>6, SequencerCases
  DEF SubmitStateBatchWithDA, SubmitLegacyBatch, AnchorStateCommitment,
      SetRequiredDAMode, rotationVars
<1>7. QED
  BY <1>2, <1>3, <1>4, <1>5, <1>6, StepCases

\* Adding lists of sequencers and removing by swap and pop never gives one
\* address two places.
THEOREM RotationNeverRepeats == Spec => []RotationHasNoDuplicates
<1>1. Init => RotationHasNoDuplicates
  BY DEF Init, RotationHasNoDuplicates, IsInjective
<1>2. ASSUME TypeOK, RotationHasNoDuplicates, [Next]_vars
      PROVE  RotationHasNoDuplicates'
  BY <1>2, RotationStep DEF TypeOK
<1>3. QED
  BY <1>1, <1>2, TypeCorrect, PTL DEF Spec

----------------------------------------------------------------------------
\* The effects a step of the diamond can have on the queue of withdrawals.

\* The entry of a claim that batch n commits to is written under a fresh id.
Stored(n, id) ==
    /\ ~IsQueued(id)
    /\ withdrawalBatch'[id] = n
    /\ \E c \in ProvableClaims(n) \cap Claims, p \in ChallengePeriodFor :
          c.id = id /\ withdrawals'[id] = QueueEntry(c, p)

\* Some withdrawals are queued from batch n.
Queueing(n) ==
    /\ ValidBatchRoot(n)
    /\ \A id \in Ids :
          \/ Stored(n, id)
          \/ withdrawals'[id] = withdrawals[id] /\ withdrawalBatch'[id] = withdrawalBatch[id]
    /\ UNCHANGED <<processedWithdrawals, batchInvalidated, payouts, now,
                   challengePeriod, seqVars>>

\* A withdrawal is challenged.
Challenging(id) ==
    /\ IsQueued(id)
    /\ ~withdrawals[id].finalized
    /\ withdrawals' = [withdrawals EXCEPT ![id].challenged = TRUE]
    /\ UNCHANGED <<processedWithdrawals, withdrawalBatch, batchInvalidated,
                   payouts, now, challengePeriod, seqVars>>

\* A batch is invalidated, or time passes, and the queue is left alone.
QueueKept ==
    /\ now' \in Nat /\ now' >= now
    /\ batchInvalidated \subseteq batchInvalidated'
    /\ UNCHANGED <<queueVars, payouts>>
    /\ now' = now \/ batchInvalidated' = batchInvalidated
    /\ challengePeriod' = challengePeriod \/ challengePeriod' \in MinPeriod..MaxPeriod

\* Every step of the diamond is one of these or a payment.
LEMMA QueueCases ==
    ASSUME BridgeTypeOK, [Next]_vars
    PROVE  \/ \E n \in BatchNumbers : Queueing(n)
           \/ \E id \in Ids : Challenging(id)
           \/ \E id \in Ids : FinalizeWithdrawal(id) /\ UNCHANGED seqVars
           \/ QueueKept
<1>1. /\ now \in Nat /\ challengePeriod \in Nat
      /\ withdrawals \in [Ids -> Withdrawal \cup {NotQueued}]
      /\ withdrawalBatch \in [Ids -> BatchNumbers]
  BY DEF BridgeTypeOK
<1>2. ASSUME UNCHANGED seqVars, NEW n \in BatchNumbers, NEW claim \in Claims,
             QueueWithdrawalV3(n, claim)
      PROVE  Queueing(n)
  <2>1. PICK p \in ChallengePeriodFor :
           withdrawals' = [withdrawals EXCEPT ![claim.id] = QueueEntry(claim, p)]
    BY <1>2 DEF QueueWithdrawalV3
  <2>2. /\ withdrawalBatch' = [withdrawalBatch EXCEPT ![claim.id] = n]
        /\ ~IsQueued(claim.id) /\ claim \in ProvableClaims(n) /\ ValidBatchRoot(n)
        /\ UNCHANGED <<processedWithdrawals, batchInvalidated, bridgeAdminVars,
                       custodyVars, now, ghostVars>>
    BY <1>2 DEF QueueWithdrawalV3
  <2>3. claim.id \in Ids
    BY ClaimType
  <2>4. Stored(n, claim.id)
    BY <1>1, <2>1, <2>2, <2>3 DEF Stored
  <2>5. \A id \in Ids \ {claim.id} :
           withdrawals'[id] = withdrawals[id] /\ withdrawalBatch'[id] = withdrawalBatch[id]
    BY <1>1, <2>1, <2>2
  <2>6. UNCHANGED <<processedWithdrawals, batchInvalidated, payouts, now,
                    challengePeriod, seqVars>>
    BY <1>2, <2>2 DEF bridgeAdminVars, ghostVars
  <2>7. QED
    BY <2>2, <2>4, <2>5, <2>6 DEF Queueing
<1>3. ASSUME UNCHANGED seqVars, NEW a, NEW n \in BatchNumbers, NEW list \in QueueLists,
             QueueWithdrawalBatch(a, n, list)
      PROVE  Queueing(n)
  <2>1. /\ ValidBatchRoot(n)
        /\ UNCHANGED <<processedWithdrawals, batchInvalidated, bridgeAdminVars,
                       custodyVars, now, ghostVars>>
    BY <1>3 DEF QueueWithdrawalBatch
  <2>2. \A id \in Ids :
           \/ Stored(n, id)
           \/ withdrawals'[id] = withdrawals[id] /\ withdrawalBatch'[id] = withdrawalBatch[id]
    BY <1>3, BatchQueueEffect DEF Stored
  <2>3. UNCHANGED <<processedWithdrawals, batchInvalidated, payouts, now,
                    challengePeriod, seqVars>>
    BY <1>3, <2>1 DEF bridgeAdminVars, ghostVars
  <2>4. QED
    BY <2>1, <2>2, <2>3 DEF Queueing
<1>4. ASSUME UNCHANGED seqVars, NEW g, NEW id \in Ids, NEW n, ChallengeWithdrawal(g, id, n)
      PROVE  Challenging(id)
  BY <1>4 DEF ChallengeWithdrawal, Challenging, bridgeAdminVars, ghostVars
<1>5. ASSUME NEW g, NEW n, InvalidateBatch(g, n)
      PROVE  QueueKept
  BY <1>1, <1>5 DEF InvalidateBatch, QueueKept, bridgeAdminVars, ghostVars
<1>6. ASSUME Tick
      PROVE  QueueKept
  BY <1>1, <1>6 DEF Tick, QueueKept, bridgeFacetVars, bridgeAdminVars, ghostVars
<1>7. ASSUME NEW to, NEW amount \in Amounts, DepositETH(to, amount)
      PROVE  QueueKept
  BY <1>1, <1>7 DEF DepositETH, QueueKept, bridgeAdminVars
<1>8. ASSUME NEW token, NEW to, NEW amount, NEW received,
             DepositERC20(token, to, amount, received)
      PROVE  QueueKept
  BY <1>1, <1>8 DEF DepositERC20, QueueKept, bridgeAdminVars
<1>9. ASSUME NEW amount, Receive(amount)
      PROVE  QueueKept
  BY <1>1, <1>9 DEF Receive, QueueKept, bridgeAdminVars
<1>10. ASSUME FinalizeReturn
       PROVE  QueueKept
  BY <1>1, <1>10 DEF FinalizeReturn, QueueKept, bridgeAdminVars, ghostVars
<1>11. ASSUME NEW g, SetDisputeGame(g)
       PROVE  QueueKept
  BY <1>1, <1>11 DEF SetDisputeGame, QueueKept, ghostVars
<1>12. ASSUME NEW p \in Periods, SetChallengePeriod(p)
       PROVE  QueueKept
  <2>1. challengePeriod' \in MinPeriod..MaxPeriod
    BY <1>12, AppStorageAssumption DEF SetChallengePeriod
  <2>2. QED
    BY <1>1, <1>12, <2>1 DEF SetChallengePeriod, QueueKept, ghostVars
<1>13. ASSUME NEW o, SetChallengePeriodOracle(o)
       PROVE  QueueKept
  BY <1>1, <1>13 DEF SetChallengePeriodOracle, QueueKept, ghostVars
<1>14. ASSUME NEW b, SetPaused(b)
       PROVE  QueueKept
  BY <1>1, <1>14 DEF SetPaused, QueueKept, ghostVars
<1>15. CASE BridgeFacetNext /\ UNCHANGED seqVars
  BY <1>2, <1>3, <1>4, <1>5, <1>6, <1>7, <1>8, <1>9, <1>10, <1>11, <1>12, <1>13,
     <1>14, <1>15 DEF BridgeFacetNext, BridgeUserNext, BridgeGameNext, Pause, Unpause
<1>16. CASE UNCHANGED bridgeVars
  BY <1>1, <1>16 DEF bridgeVars, bridgeFacetVars, bridgeAdminVars, ghostVars, QueueKept
<1>17. QED
  BY <1>15, <1>16 DEF Next, SequencerStep, BridgeStep, vars

----------------------------------------------------------------------------
\* A queued withdrawal stays one of the claims of the root of its batch: the
\* entry is written under a proof, and neither entry nor root moves.
LEMMA CommittedStep ==
    ASSUME SettlementTypeOK, BridgeTypeOK, HeadIsLatest, QueuedIsCommitted, [Next]_vars
    PROVE  QueuedIsCommitted'
<1>1. ASSUME NEW id \in Ids, withdrawals[id] # NotQueued, withdrawalBatch[id] # 0,
             withdrawals'[id] # NotQueued, withdrawalBatch'[id] = withdrawalBatch[id],
             withdrawals'[id].claim = withdrawals[id].claim
      PROVE  /\ withdrawals'[id].claim.id = id
             /\ BatchWithdrawalRoot(withdrawalBatch[id])' # NoRoot
             /\ withdrawals'[id].claim \in ProvableClaims(withdrawalBatch[id])'
  <2> DEFINE n == withdrawalBatch[id]
  <2>1. n \in BatchNumbers /\ n' = n
    BY <1>1 DEF BridgeTypeOK
  <2>2. /\ withdrawals[id].claim.id = id
        /\ BatchWithdrawalRoot(n) # NoRoot
        /\ withdrawals[id].claim \in ProvableClaims(n)
    BY <1>1 DEF QueuedIsCommitted, IsQueued
  <2>3. ASSUME NEW k \in BatchNumbers, BatchWithdrawalRoot(k) # NoRoot
        PROVE  /\ BatchWithdrawalRoot(k)' = BatchWithdrawalRoot(k)
               /\ ProvableClaims(k)' = ProvableClaims(k)
    BY <2>3, RootStep
  <2>4. QED
    BY <1>1, <2>1, <2>2, <2>3
\* An entry that is not new keeps its claim and its batch.
<1>2. ASSUME NEW id \in Ids, IsQueued(id)', withdrawalBatch'[id] # 0,
             IsQueued(id) => withdrawals'[id].claim = withdrawals[id].claim,
             withdrawals'[id] # NotQueued => withdrawals[id] # NotQueued,
             withdrawalBatch'[id] = withdrawalBatch[id]
      PROVE  /\ withdrawals'[id].claim.id = id
             /\ BatchWithdrawalRoot(withdrawalBatch[id])' # NoRoot
             /\ withdrawals'[id].claim \in ProvableClaims(withdrawalBatch[id])'
  <2>1. withdrawals'[id] # NotQueued /\ withdrawals[id] # NotQueued
    BY <1>2 DEF IsQueued
  <2>2. withdrawals'[id].claim = withdrawals[id].claim
    BY <1>2, <2>1 DEF IsQueued
  <2>3. QED
    BY <1>1, <1>2, <2>1, <2>2
<1>3. ASSUME NEW n \in BatchNumbers, Queueing(n)
      PROVE  QueuedIsCommitted'
  <2> SUFFICES ASSUME NEW id \in Ids, IsQueued(id)', withdrawalBatch'[id] # 0
               PROVE  /\ withdrawals'[id].claim.id = id
                      /\ BatchWithdrawalRoot(withdrawalBatch[id])' # NoRoot
                      /\ withdrawals'[id].claim \in ProvableClaims(withdrawalBatch[id])'
    BY DEF QueuedIsCommitted
  <2>1. CASE Stored(n, id)
    <3>1. PICK c \in ProvableClaims(n), p \in ChallengePeriodFor :
             c.id = id /\ withdrawals'[id] = QueueEntry(c, p)
      BY <2>1 DEF Stored
    <3>2. withdrawals'[id].claim = c
      BY <3>1 DEF QueueEntry
    <3>3. withdrawalBatch'[id] = n /\ BatchWithdrawalRoot(n) # NoRoot
      BY <1>3, <2>1 DEF Stored, Queueing, ValidBatchRoot
    <3>4. UNCHANGED <<batches, batchWithdrawalRoots, batchRootSet>>
      BY <1>3 DEF Queueing, seqVars, sequencerFacetVars, batchVars
    <3>5. /\ BatchWithdrawalRoot(withdrawalBatch[id])' = BatchWithdrawalRoot(n)
          /\ ProvableClaims(withdrawalBatch[id])' = ProvableClaims(n)
      BY <3>3, <3>4 DEF BatchWithdrawalRoot, ProvableClaims
    <3>6. QED
      BY <3>1, <3>2, <3>3, <3>5
  <2>2. CASE withdrawals'[id] = withdrawals[id] /\ withdrawalBatch'[id] = withdrawalBatch[id]
    BY <1>2, <2>2
  <2>3. QED
    BY <1>3, <2>1, <2>2 DEF Queueing
\* The steps that write no new entry.
<1>4. ASSUME /\ UNCHANGED withdrawalBatch
             /\ \A id \in Ids :
                   /\ withdrawals'[id] # NotQueued => withdrawals[id] # NotQueued
                   /\ withdrawals[id] # NotQueued =>
                          withdrawals'[id].claim = withdrawals[id].claim
      PROVE  QueuedIsCommitted'
  BY <1>2, <1>4 DEF QueuedIsCommitted, IsQueued
<1>5. ASSUME NEW id \in Ids, NEW e \in Withdrawal,
             IsQueued(id), withdrawals' = [withdrawals EXCEPT ![id] = e],
             e.claim = withdrawals[id].claim, UNCHANGED withdrawalBatch
      PROVE  QueuedIsCommitted'
  <2>1. \A k \in Ids : withdrawals'[k] = IF k = id THEN e ELSE withdrawals[k]
    BY <1>5 DEF BridgeTypeOK
  <2>2. withdrawals[id] # NotQueued
    BY <1>5 DEF IsQueued
  <2>3. QED
    BY <1>4, <1>5, <2>1, <2>2
<1>6. ASSUME NEW id \in Ids, Challenging(id)
      PROVE  QueuedIsCommitted'
  <2> DEFINE e == [withdrawals[id] EXCEPT !.challenged = TRUE]
  <2>1. withdrawals[id] \in Withdrawal /\ IsQueued(id)
    BY <1>6 DEF Challenging, BridgeTypeOK, IsQueued
  <2>2. e \in Withdrawal /\ e.claim = withdrawals[id].claim
    BY <2>1 DEF Withdrawal
  <2>3. withdrawals' = [withdrawals EXCEPT ![id] = e] /\ UNCHANGED withdrawalBatch
    BY <1>6 DEF Challenging
  <2>4. QED
    BY <1>5, <2>1, <2>2, <2>3
<1>7. ASSUME NEW id \in Ids, FinalizeWithdrawal(id)
      PROVE  QueuedIsCommitted'
  <2> DEFINE e == [withdrawals[id] EXCEPT !.finalized = TRUE]
  <2>1. withdrawals[id] \in Withdrawal /\ IsQueued(id)
    BY <1>7 DEF FinalizeWithdrawal, BridgeTypeOK, IsQueued
  <2>2. e \in Withdrawal /\ e.claim = withdrawals[id].claim
    BY <2>1 DEF Withdrawal
  <2>3. withdrawals' = [withdrawals EXCEPT ![id] = e] /\ UNCHANGED withdrawalBatch
    BY <1>7 DEF FinalizeWithdrawal
  <2>4. QED
    BY <1>5, <2>1, <2>2, <2>3
<1>8. CASE QueueKept
  BY <1>4, <1>8 DEF QueueKept, queueVars
<1>9. QED
  BY <1>3, <1>6, <1>7, <1>8, QueueCases

\* Every queued withdrawal is, for good, a claim of the root of its batch.
THEOREM QueuedAlwaysCommitted == Spec => []QueuedIsCommitted
<1>1. Init => QueuedIsCommitted
  BY DEF Init, QueuedIsCommitted
<1>2. ASSUME TypeOK, HeadIsLatest, QueuedIsCommitted, [Next]_vars
      PROVE  QueuedIsCommitted'
  BY <1>2, CommittedStep DEF TypeOK
<1>3. QED
  BY <1>1, <1>2, HeadIsAlwaysLatest, TypeCorrect, PTL DEF Spec

----------------------------------------------------------------------------
\* What a queue entry keeps and changes in a step, one case per effect.
LEMMA PaidStep ==
    ASSUME BridgeTypeOK, PaidOnce, [Next]_vars
    PROVE  PaidOnce'
<1> DEFINE P(id) == /\ payouts[id] <= 1
                    /\ payouts[id] = 1 <=> id \in processedWithdrawals
                    /\ id \in processedWithdrawals =>
                           /\ IsQueued(id)
                           /\ withdrawals[id].finalized
                           /\ ~withdrawals[id].challenged
                    /\ IsQueued(id) /\ withdrawals[id].finalized => id \in processedWithdrawals
<1>0. PaidOnce <=> \A id \in Ids : P(id)
  BY DEF PaidOnce
<1>1. /\ withdrawals \in [Ids -> Withdrawal \cup {NotQueued}]
      /\ payouts \in [Ids -> Nat]
      /\ NotQueued \notin Withdrawal
      /\ processedWithdrawals \subseteq Ids
  BY AppStorageAssumption DEF BridgeTypeOK
<1>2. ASSUME NEW n \in BatchNumbers, Queueing(n), NEW id \in Ids
      PROVE  P(id)'
  <2>1. UNCHANGED <<processedWithdrawals, payouts>>
    BY <1>2 DEF Queueing
  <2>2. CASE Stored(n, id)
    <3>1. PICK c, p : withdrawals'[id] = QueueEntry(c, p)
      BY <2>2 DEF Stored
    <3>2. ~withdrawals'[id].finalized
      BY <3>1 DEF QueueEntry
    <3>3. id \notin processedWithdrawals
      BY <1>0, <2>2 DEF Stored
    <3>4. QED
      BY <1>0, <2>1, <3>2, <3>3
  <2>3. CASE withdrawals'[id] = withdrawals[id]
    BY <1>0, <2>1, <2>3 DEF IsQueued
  <2>4. QED
    BY <1>2, <2>2, <2>3 DEF Queueing
<1>3. ASSUME NEW k \in Ids, Challenging(k), NEW id \in Ids
      PROVE  P(id)'
  <2>1. UNCHANGED <<processedWithdrawals, payouts>>
    BY <1>3 DEF Challenging
  <2>2. CASE id # k
    <3>1. withdrawals'[id] = withdrawals[id]
      BY <1>1, <1>3, <2>2 DEF Challenging
    <3>2. QED
      BY <1>0, <2>1, <3>1 DEF IsQueued
  <2>3. CASE id = k
    <3>1. withdrawals[id] \in Withdrawal /\ ~withdrawals[id].finalized /\ IsQueued(id)
      BY <1>1, <1>3, <2>3 DEF Challenging, IsQueued
    <3>2. /\ withdrawals'[id] \in Withdrawal
          /\ withdrawals'[id].finalized = withdrawals[id].finalized
      BY <1>1, <1>3, <2>3, <3>1 DEF Challenging, Withdrawal
    <3>3. id \notin processedWithdrawals
      BY <1>0, <3>1
    <3>4. QED
      BY <1>0, <1>1, <2>1, <3>1, <3>2, <3>3
  <2>4. QED
    BY <2>2, <2>3
<1>4. ASSUME NEW k \in Ids, FinalizeWithdrawal(k), NEW id \in Ids
      PROVE  P(id)'
  <2>1. /\ processedWithdrawals' = processedWithdrawals \cup {k}
        /\ payouts' = [payouts EXCEPT ![k] = @ + 1]
        /\ withdrawals' = [withdrawals EXCEPT ![k].finalized = TRUE]
    BY <1>4 DEF FinalizeWithdrawal
  <2>2. CASE id # k
    <3>1. /\ withdrawals'[id] = withdrawals[id]
          /\ payouts'[id] = payouts[id]
          /\ id \in processedWithdrawals' <=> id \in processedWithdrawals
      BY <1>1, <2>1, <2>2
    <3>2. QED
      BY <1>0, <3>1 DEF IsQueued
  <2>3. CASE id = k
    <3>1. /\ IsQueued(id) /\ withdrawals[id] \in Withdrawal
          /\ id \notin processedWithdrawals /\ ~withdrawals[id].challenged
      BY <1>1, <1>4, <2>3 DEF FinalizeWithdrawal, MayFinalize, IsQueued
    <3>2. /\ withdrawals'[id] \in Withdrawal
          /\ withdrawals'[id].finalized
          /\ withdrawals'[id].challenged = withdrawals[id].challenged
      BY <1>1, <2>1, <2>3, <3>1 DEF Withdrawal
    <3>3. payouts[id] = 0
      BY <1>0, <1>1, <3>1
    <3>4. payouts'[id] = 1 /\ id \in processedWithdrawals'
      BY <1>1, <2>1, <2>3, <3>3
    <3>5. IsQueued(id)'
      BY <1>1, <3>2 DEF IsQueued
    <3>6. QED
      BY <3>1, <3>2, <3>4, <3>5
  <2>4. QED
    BY <2>2, <2>3
<1>5. ASSUME QueueKept
      PROVE  PaidOnce'
  BY <1>5 DEF QueueKept, queueVars, PaidOnce, IsQueued
<1>6. QED
  BY <1>0, <1>2, <1>3, <1>4, <1>5, QueueCases DEF PaidOnce

\* No withdrawal is ever paid twice or after a challenge, and the two places
\* that record a payment always agree.
THEOREM PaidAtMostOnce == Spec => []PaidOnce
<1>1. Init => PaidOnce
  <2> SUFFICES ASSUME Init PROVE PaidOnce
    OBVIOUS
  <2>1. TypeOK
    BY InitTypeOK
  <2>2. \A id \in Ids : payouts[id] = 0
    BY DEF Init
  <2>3. \A id \in Ids : withdrawals[id] # NotQueued => ~withdrawals[id].finalized
    BY DEF Init, LegacyEntry
  <2>4. processedWithdrawals = {}
    BY DEF Init
  <2>5. QED
    BY <2>2, <2>3, <2>4 DEF PaidOnce, IsQueued
<1>2. ASSUME TypeOK, PaidOnce, [Next]_vars PROVE PaidOnce'
  BY <1>2, PaidStep DEF TypeOK
<1>3. QED
  BY <1>1, <1>2, TypeCorrect, PTL DEF Spec

----------------------------------------------------------------------------
\* No step takes in less than it credits or pays out more than it takes away.
LEMMA CustodyStep ==
    ASSUME BridgeTypeOK, CustodyCoversCredits, [Next]_vars
    PROVE  CustodyCoversCredits'
<1>1. /\ balance \in [Tokens -> Nat] /\ released \in [Tokens -> Nat]
      /\ credited \in [Tokens -> Nat] /\ Amounts \subseteq Nat /\ ETH \in Tokens
  BY BridgeFacetAssumption, AppStorageAssumption DEF BridgeTypeOK
<1>2. ASSUME NEW to, NEW amount \in Amounts, DepositETH(to, amount)
      PROVE  CustodyCoversCredits'
  BY <1>1, <1>2 DEF DepositETH, CustodyCoversCredits
<1>3. ASSUME NEW token \in Tokens, NEW to, NEW amount \in Amounts,
             NEW received \in 0..amount, DepositERC20(token, to, amount, received)
      PROVE  CustodyCoversCredits'
  BY <1>1, <1>3 DEF DepositERC20, CustodyCoversCredits
<1>4. ASSUME NEW amount \in Amounts, Receive(amount)
      PROVE  CustodyCoversCredits'
  BY <1>1, <1>4 DEF Receive, CustodyCoversCredits
<1>5. ASSUME NEW id \in Ids, FinalizeWithdrawal(id)
      PROVE  CustodyCoversCredits'
  <2> DEFINE c == withdrawals[id].claim
  <2>1. withdrawals[id] \in Withdrawal
    BY <1>5 DEF FinalizeWithdrawal, IsQueued, BridgeTypeOK
  <2>2. c.token \in Tokens /\ c.amount \in Nat
    BY <2>1, ClaimType DEF Withdrawal
  <2>3. /\ c.amount <= balance[c.token]
        /\ balance' = [balance EXCEPT ![c.token] = @ - c.amount]
        /\ released' = [released EXCEPT ![c.token] = @ + c.amount]
        /\ credited' = credited
    BY <1>5 DEF FinalizeWithdrawal
  <2> HIDE DEF c
  <2>4. QED
    BY <1>1, <2>2, <2>3 DEF CustodyCoversCredits
<1>6. CASE UNCHANGED <<balance, released, credited>>
  BY <1>6 DEF CustodyCoversCredits
<1>7. ASSUME NEW n, NEW claim, QueueWithdrawalV3(n, claim)
      PROVE  UNCHANGED <<balance, released, credited>>
  BY <1>7 DEF QueueWithdrawalV3, custodyVars, ghostVars
<1>8. ASSUME NEW a, NEW n, NEW list, QueueWithdrawalBatch(a, n, list)
      PROVE  UNCHANGED <<balance, released, credited>>
  BY <1>8 DEF QueueWithdrawalBatch, custodyVars, ghostVars
<1>9. ASSUME NEW g, NEW id, NEW n, InvalidateBatch(g, n) \/ ChallengeWithdrawal(g, id, n)
      PROVE  UNCHANGED <<balance, released, credited>>
  BY <1>9 DEF InvalidateBatch, ChallengeWithdrawal, custodyVars, ghostVars
<1>10. ASSUME NEW x, \/ SetDisputeGame(x) \/ SetChallengePeriod(x)
                     \/ SetChallengePeriodOracle(x) \/ SetPaused(x)
       PROVE  UNCHANGED <<balance, released, credited>>
  BY <1>10 DEF SetDisputeGame, SetChallengePeriod, SetChallengePeriodOracle,
     SetPaused, custodyVars, ghostVars
<1>11. ASSUME FinalizeReturn \/ Tick
       PROVE  UNCHANGED <<balance, released, credited>>
  BY <1>11 DEF FinalizeReturn, Tick, bridgeFacetVars, custodyVars, ghostVars
<1>12. CASE BridgeFacetNext
  BY <1>2, <1>3, <1>4, <1>5, <1>6, <1>7, <1>8, <1>9, <1>10, <1>11, <1>12
  DEF BridgeFacetNext, BridgeUserNext, BridgeGameNext, Pause, Unpause
<1>13. CASE UNCHANGED bridgeVars
  BY <1>6, <1>13 DEF bridgeVars, bridgeFacetVars, custodyVars, ghostVars
<1>14. QED
  BY <1>12, <1>13 DEF Next, SequencerStep, BridgeStep, vars

\* The custody covers what L2 was told of, for all tokens, amounts and
\* fees a token may keep.
THEOREM CustodyAlwaysCovers == Spec => []CustodyCoversCredits
<1>1. Init => CustodyCoversCredits
  BY DEF Init, CustodyCoversCredits
<1>2. ASSUME TypeOK, CustodyCoversCredits, [Next]_vars PROVE CustodyCoversCredits'
  BY <1>2, CustodyStep DEF TypeOK
<1>3. QED
  BY <1>1, <1>2, TypeCorrect, PTL DEF Spec

----------------------------------------------------------------------------
\* What the delay rests on: the fallback period is within the policy once the
\* owner has set it, and stays there.
PeriodWithinPolicy ==
    InitialChallengePeriod # 0 => challengePeriod \in MinPeriod..MaxPeriod

LEMMA DelayStep ==
    ASSUME BridgeTypeOK, PaidOnce, PeriodWithinPolicy, DelayIsWithinPolicy, [Next]_vars
    PROVE  PeriodWithinPolicy' /\ DelayIsWithinPolicy'
<1> SUFFICES ASSUME InitialChallengePeriod # 0
             PROVE  /\ challengePeriod' \in MinPeriod..MaxPeriod
                    /\ \A id \in Ids :
                         withdrawals'[id] # NotQueued /\ withdrawalBatch'[id] # 0 =>
                           /\ withdrawals'[id].challengeExpiry
                              >= withdrawals'[id].timestamp + MinPeriod
                           /\ withdrawals'[id].challengeExpiry
                              <= withdrawals'[id].timestamp + MaxPeriod
                           /\ payouts'[id] # 0 => now' >= withdrawals'[id].timestamp + MinPeriod
  BY DEF PeriodWithinPolicy, DelayIsWithinPolicy, IsQueued
<1> DEFINE Held(w) == /\ w.challengeExpiry >= w.timestamp + MinPeriod
                      /\ w.challengeExpiry <= w.timestamp + MaxPeriod
<1>1. /\ withdrawals \in [Ids -> Withdrawal \cup {NotQueued}]
      /\ withdrawalBatch \in [Ids -> BatchNumbers]
      /\ payouts \in [Ids -> Nat] /\ now \in Nat
      /\ NotQueued \notin Withdrawal
      /\ MinPeriod \in Nat /\ MaxPeriod \in Nat /\ 0 < MinPeriod
  BY AppStorageAssumption DEF BridgeTypeOK
<1>2. challengePeriod \in MinPeriod..MaxPeriod
  BY DEF PeriodWithinPolicy
<1>3. ChallengePeriodFor \subseteq MinPeriod..MaxPeriod
  BY <1>2 DEF ChallengePeriodFor
<1>4. ASSUME NEW id \in Ids, withdrawals[id] # NotQueued, withdrawalBatch[id] # 0
      PROVE  /\ Held(withdrawals[id])
             /\ payouts[id] # 0 => now >= withdrawals[id].timestamp + MinPeriod
  BY <1>4 DEF DelayIsWithinPolicy, IsQueued
<1>5. ASSUME NEW n \in BatchNumbers, Queueing(n), NEW id \in Ids,
             withdrawals'[id] # NotQueued, withdrawalBatch'[id] # 0
      PROVE  /\ Held(withdrawals'[id])
             /\ payouts'[id] # 0 => now' >= withdrawals'[id].timestamp + MinPeriod
  <2>1. UNCHANGED <<payouts, now>>
    BY <1>5 DEF Queueing
  <2>2. CASE Stored(n, id)
    <3>1. PICK c \in ProvableClaims(n), p \in ChallengePeriodFor :
             withdrawals'[id] = QueueEntry(c, p)
      BY <2>2 DEF Stored
    <3>2. /\ withdrawals'[id].timestamp = now
          /\ withdrawals'[id].challengeExpiry = now + p
      BY <3>1 DEF QueueEntry
    <3>3. p \in MinPeriod..MaxPeriod
      BY <1>3
    <3>4. payouts[id] = 0
      <4>1. id \notin processedWithdrawals /\ payouts[id] <= 1 /\ payouts[id] # 1
        BY <2>2 DEF Stored, PaidOnce
      <4>2. QED
        BY <1>1, <4>1
    <3>5. QED
      BY <1>1, <2>1, <3>2, <3>3, <3>4
  <2>3. CASE withdrawals'[id] = withdrawals[id] /\ withdrawalBatch'[id] = withdrawalBatch[id]
    BY <1>4, <1>5, <2>1, <2>3
  <2>4. QED
    BY <1>5, <2>2, <2>3 DEF Queueing
<1>6. ASSUME NEW k \in Ids, Challenging(k), NEW id \in Ids,
             withdrawals'[id] # NotQueued, withdrawalBatch'[id] # 0
      PROVE  /\ Held(withdrawals'[id])
             /\ payouts'[id] # 0 => now' >= withdrawals'[id].timestamp + MinPeriod
  <2>1. UNCHANGED <<payouts, now, withdrawalBatch>>
    BY <1>6 DEF Challenging
  <2>2. /\ withdrawals[id] # NotQueued
        /\ withdrawals'[id].timestamp = withdrawals[id].timestamp
        /\ withdrawals'[id].challengeExpiry = withdrawals[id].challengeExpiry
    BY <1>1, <1>6 DEF Challenging, IsQueued, Withdrawal
  <2>3. QED
    BY <1>4, <1>6, <2>1, <2>2
<1>7. ASSUME NEW k \in Ids, FinalizeWithdrawal(k), NEW id \in Ids,
             withdrawals'[id] # NotQueued, withdrawalBatch'[id] # 0
      PROVE  /\ Held(withdrawals'[id])
             /\ payouts'[id] # 0 => now' >= withdrawals'[id].timestamp + MinPeriod
  <2>1. /\ UNCHANGED <<now, withdrawalBatch>>
        /\ withdrawals' = [withdrawals EXCEPT ![k].finalized = TRUE]
        /\ payouts' = [payouts EXCEPT ![k] = @ + 1]
        /\ withdrawals[k] # NotQueued
        /\ \E expiry \in ChallengeExpiries(k) : now >= expiry
    BY <1>7 DEF FinalizeWithdrawal, MayFinalize, IsQueued
  <2>2. /\ withdrawals[id] # NotQueued /\ withdrawals[id] \in Withdrawal
        /\ withdrawals'[id].timestamp = withdrawals[id].timestamp
        /\ withdrawals'[id].challengeExpiry = withdrawals[id].challengeExpiry
    BY <1>1, <1>7, <2>1 DEF Withdrawal
  <2>3. Held(withdrawals[id])
    BY <1>4, <1>7, <2>1, <2>2
  <2>4. CASE id = k
    <3>1. withdrawals[id].timestamp \in Nat /\ withdrawals[id].challengeExpiry \in Nat
      BY <2>2 DEF Withdrawal
    <3>2. withdrawals[id].challengeExpiry # 0
      BY <1>1, <2>3, <3>1
    <3>3. now >= withdrawals[id].challengeExpiry
      BY <2>1, <2>4, <3>2 DEF ChallengeExpiries
    <3>4. QED
      BY <1>1, <2>1, <2>2, <2>3, <3>1, <3>3
  <2>5. CASE id # k
    BY <1>1, <1>4, <1>7, <2>1, <2>2, <2>3, <2>5
  <2>6. QED
    BY <2>4, <2>5
<1>8. ASSUME QueueKept, NEW id \in Ids,
             withdrawals'[id] # NotQueued, withdrawalBatch'[id] # 0
      PROVE  /\ Held(withdrawals'[id])
             /\ payouts'[id] # 0 => now' >= withdrawals'[id].timestamp + MinPeriod
  <2>1. /\ UNCHANGED <<withdrawals, withdrawalBatch, payouts>>
        /\ now' >= now
    BY <1>8 DEF QueueKept, queueVars
  <2>2. withdrawals[id] \in Withdrawal /\ now' \in Nat
    BY <1>1, <1>8, <2>1 DEF QueueKept
  <2>3. withdrawals[id].timestamp \in Nat
    BY <2>2 DEF Withdrawal
  <2>4. QED
    BY <1>1, <1>4, <1>8, <2>1, <2>2, <2>3
<1>9. challengePeriod' \in MinPeriod..MaxPeriod
  BY <1>2, QueueCases DEF Queueing, Challenging, QueueKept, FinalizeWithdrawal, bridgeAdminVars
<1>10. QED
  BY <1>5, <1>6, <1>7, <1>8, <1>9, QueueCases

\* With a period set before opening, no V3 withdrawal is paid earlier than the
\* minimum period or held back longer than the maximum, whatever the oracle
\* answers and the owner changes.
THEOREM DelayAlwaysWithinPolicy == Spec => []DelayIsWithinPolicy
<1>1. Init => PeriodWithinPolicy /\ DelayIsWithinPolicy
  BY DiamondAssumption DEF Init, PeriodWithinPolicy, DelayIsWithinPolicy
<1>2. ASSUME TypeOK, PaidOnce, PeriodWithinPolicy /\ DelayIsWithinPolicy, [Next]_vars
      PROVE  (PeriodWithinPolicy /\ DelayIsWithinPolicy)'
  BY <1>2, DelayStep DEF TypeOK
<1>3. QED
  BY <1>1, <1>2, TypeCorrect, PaidAtMostOnce, PTL DEF Spec

----------------------------------------------------------------------------
\* The diamond starts as the abstract escrow may start.
LEMMA EscrowStarts == Init => Escrow!EscrowInit
<1> SUFFICES ASSUME Init PROVE Escrow!EscrowInit
  OBVIOUS
<1>1. PICK queued \in SUBSET LegacyWithdrawals :
        withdrawals = [id \in Ids |->
            IF \E c \in queued : c.id = id
            THEN LegacyEntry(CHOOSE c \in queued : c.id = id)
            ELSE NotQueued]
  BY DEF Init
<1>2. \A id \in Ids : withdrawals[id] # NotQueued =>
          /\ withdrawals[id].claim \in Claims
          /\ withdrawals[id].challengeExpiry = 0
          /\ ~withdrawals[id].challenged
  <2> SUFFICES ASSUME NEW id \in Ids, withdrawals[id] # NotQueued
               PROVE  /\ withdrawals[id].claim \in Claims
                      /\ withdrawals[id].challengeExpiry = 0
                      /\ ~withdrawals[id].challenged
    OBVIOUS
  <2> DEFINE c == CHOOSE c \in queued : c.id = id
  <2>1. c \in queued /\ withdrawals[id] = LegacyEntry(c)
    BY <1>1
  <2>2. c \in Claims
    BY <2>1, DiamondAssumption
  <2> HIDE DEF c
  <2>3. QED
    BY <2>1, <2>2 DEF LegacyEntry
<1>3. Terms \in [Ids -> [claim : Claims, due : {0}] \cup {NotQueued}]
  BY <1>2 DEF Terms, IsQueued
<1>4. Barred = {}
  BY <1>2 DEF Init, Barred, IsQueued
<1>5. payouts = [id \in Ids |-> 0] /\ now = 1
  BY DEF Init
<1>6. QED
  BY <1>3, <1>4, <1>5 DEF Escrow!EscrowInit

\* Every step of the diamond is a step of the abstract escrow or leaves it as
\* it is.
LEMMA EscrowStep ==
    ASSUME BridgeTypeOK, PaidOnce, [Next]_vars
    PROVE  [Escrow!EscrowNext]_(Escrow!escrowVars)
<1>1. /\ withdrawals \in [Ids -> Withdrawal \cup {NotQueued}]
      /\ payouts \in [Ids -> Nat] /\ now \in Nat
      /\ NotQueued \notin Withdrawal
      /\ NotQueued \notin [claim : Claims, due : Nat]
  BY AppStorageAssumption, DiamondAssumption DEF BridgeTypeOK
<1>2. /\ DOMAIN Terms = Ids
      /\ \A id \in Ids : IsQueued(id) =>
             /\ Terms[id] = [claim |-> withdrawals[id].claim,
                             due |-> withdrawals[id].challengeExpiry]
             /\ Terms[id] # NotQueued
      /\ \A id \in Ids : ~IsQueued(id) => Terms[id] = NotQueued
  BY <1>1 DEF Terms, IsQueued, Withdrawal
<1>3. Barred \subseteq {id \in Ids : Terms[id] # NotQueued}
  BY <1>2 DEF Barred
\* What leaves claims and expiries alone leaves the terms alone.
<1>4. ASSUME \A id \in Ids :
                \/ withdrawals'[id] = withdrawals[id]
                \/ /\ withdrawals[id] # NotQueued /\ withdrawals'[id] # NotQueued
                   /\ withdrawals'[id].claim = withdrawals[id].claim
                   /\ withdrawals'[id].challengeExpiry = withdrawals[id].challengeExpiry
      PROVE  Terms' = Terms
  BY <1>4 DEF Terms, IsQueued
<1>5. ASSUME NEW n \in BatchNumbers, Queueing(n)
      PROVE  Escrow!Accept
  <2>1. DOMAIN Terms' = Ids
    BY DEF Terms
  <2>2. ASSUME NEW id \in Ids
        PROVE  /\ \/ Terms'[id] = Terms[id]
                  \/ /\ Terms[id] = NotQueued
                     /\ Terms'[id] \in [claim : Claims, due : Nat]
                     /\ Terms'[id].due >= now
               /\ id \in Barred' <=> id \in Barred
    <3>1. CASE Stored(n, id)
      <4>1. PICK c \in ProvableClaims(n) \cap Claims, p \in ChallengePeriodFor :
               c.id = id /\ withdrawals'[id] = QueueEntry(c, p)
        BY <3>1 DEF Stored
      <4>2. p \in Nat /\ QueueEntry(c, p) \in Withdrawal
        BY PeriodIsNat, QueueEntryIsWithdrawal
      <4>3. withdrawals'[id] # NotQueued
        BY <1>1, <4>1, <4>2
      <4>4. Terms'[id] = [claim |-> c, due |-> now + p]
        BY <4>1, <4>3 DEF Terms, IsQueued, QueueEntry
      <4>5. Terms[id] = NotQueued /\ id \notin Barred
        BY <1>2, <3>1 DEF Stored, Barred
      <4>6. /\ withdrawalBatch'[id] = n /\ n \notin batchInvalidated
            /\ batchInvalidated' = batchInvalidated
            /\ ~withdrawals'[id].challenged
        BY <1>5, <3>1, <4>1 DEF Stored, Queueing, ValidBatchRoot, QueueEntry
      <4>7. id \notin Barred'
        BY <4>6 DEF Barred
      <4>8. QED
        BY <1>1, <4>2, <4>4, <4>5, <4>7
    <3>2. CASE withdrawals'[id] = withdrawals[id] /\ withdrawalBatch'[id] = withdrawalBatch[id]
      <4>1. batchInvalidated' = batchInvalidated
        BY <1>5 DEF Queueing
      <4>2. QED
        BY <3>2, <4>1 DEF Terms, Barred, IsQueued
    <3>3. QED
      BY <1>5, <3>1, <3>2 DEF Queueing
  <2>3. Barred' = Barred
    BY <2>2 DEF Barred
  <2>4. UNCHANGED <<payouts, now>>
    BY <1>5 DEF Queueing
  <2>5. QED
    BY <2>1, <2>2, <2>3, <2>4 DEF Escrow!Accept
<1>6. ASSUME NEW k \in Ids, Challenging(k)
      PROVE  Escrow!Bar
  <2>1. /\ UNCHANGED <<withdrawalBatch, batchInvalidated, payouts, now>>
        /\ withdrawals[k] \in Withdrawal
        /\ withdrawals' = [withdrawals EXCEPT ![k].challenged = TRUE]
    BY <1>1, <1>6 DEF Challenging, IsQueued
  <2>2. /\ withdrawals'[k] \in Withdrawal
        /\ withdrawals'[k].claim = withdrawals[k].claim
        /\ withdrawals'[k].challengeExpiry = withdrawals[k].challengeExpiry
        /\ withdrawals'[k].challenged
        /\ \A id \in Ids \ {k} : withdrawals'[id] = withdrawals[id]
    BY <1>1, <2>1 DEF Withdrawal
  <2>3. Terms' = Terms
    BY <1>1, <1>4, <2>1, <2>2
  <2>4. Barred \subseteq Barred' /\ Barred' \subseteq Barred \cup {k}
    BY <1>1, <2>1, <2>2 DEF Barred, IsQueued
  <2>5. Terms[k] # NotQueued
    BY <1>2, <1>6 DEF Challenging
  <2>6. QED
    BY <1>3, <2>1, <2>3, <2>4, <2>5 DEF Escrow!Bar
<1>7. ASSUME NEW k \in Ids, FinalizeWithdrawal(k)
      PROVE  Escrow!Pay(k)
  <2>1. /\ IsQueued(k) /\ withdrawals[k] \in Withdrawal
        /\ UNCHANGED <<withdrawalBatch, batchInvalidated, now>>
        /\ withdrawals' = [withdrawals EXCEPT ![k].finalized = TRUE]
        /\ payouts' = [payouts EXCEPT ![k] = @ + 1]
        /\ k \notin processedWithdrawals /\ ~withdrawals[k].challenged
        /\ ~(withdrawalBatch[k] # 0 /\ withdrawalBatch[k] \in batchInvalidated)
        /\ \E expiry \in ChallengeExpiries(k) : now >= expiry
    BY <1>1, <1>7 DEF FinalizeWithdrawal, MayFinalize, IsQueued
  <2>2. /\ withdrawals'[k] \in Withdrawal
        /\ withdrawals'[k].claim = withdrawals[k].claim
        /\ withdrawals'[k].challengeExpiry = withdrawals[k].challengeExpiry
        /\ withdrawals'[k].challenged = withdrawals[k].challenged
        /\ \A id \in Ids \ {k} : withdrawals'[id] = withdrawals[id]
    BY <1>1, <2>1 DEF Withdrawal
  <2>3. Terms' = Terms
    BY <1>1, <1>4, <2>1, <2>2
  <2>4. Barred' = Barred
    BY <1>1, <2>1, <2>2 DEF Barred, IsQueued
  <2>5. k \notin Barred
    BY <2>1 DEF Barred
  <2>6. payouts[k] = 0
    <3>1. payouts[k] \in Nat /\ payouts[k] <= 1 /\ payouts[k] # 1
      BY <1>1, <2>1 DEF PaidOnce
    <3>2. QED
      BY <3>1
  <2>7. now >= Terms[k].due
    <3>1. withdrawals[k].challengeExpiry \in Nat
      BY <2>1 DEF Withdrawal
    <3>2. withdrawals[k].challengeExpiry # 0 => now >= withdrawals[k].challengeExpiry
      BY <2>1 DEF ChallengeExpiries
    <3>3. Terms[k].due = withdrawals[k].challengeExpiry
      BY <1>2, <2>1
    <3>4. QED
      BY <1>1, <3>1, <3>2, <3>3
  <2>8. payouts' = [payouts EXCEPT ![k] = 1]
    BY <1>1, <2>1, <2>6
  <2>9. QED
    BY <1>2, <2>1, <2>3, <2>4, <2>5, <2>6, <2>7, <2>8 DEF Escrow!Pay
<1>8. ASSUME QueueKept
      PROVE  Escrow!Bar \/ Escrow!Elapse \/ UNCHANGED Escrow!escrowVars
  <2>1. Terms' = Terms /\ payouts' = payouts
    BY <1>8 DEF QueueKept, queueVars, Terms, IsQueued
  <2>2. Barred \subseteq Barred' /\ (batchInvalidated' = batchInvalidated => Barred' = Barred)
    BY <1>8 DEF QueueKept, queueVars, Barred, IsQueued
  <2>3. Barred' \subseteq {id \in Ids : Terms[id] # NotQueued}
    BY <1>2, <1>8 DEF QueueKept, queueVars, Barred, IsQueued
  <2>4. now' \in Nat /\ now' >= now /\ (now' = now \/ batchInvalidated' = batchInvalidated)
    BY <1>8 DEF QueueKept
  <2>5. CASE now' = now
    BY <2>1, <2>2, <2>3, <2>5 DEF Escrow!Bar
  <2>6. CASE now' # now
    BY <1>1, <2>1, <2>2, <2>4, <2>6 DEF Escrow!Elapse
  <2>7. QED
    BY <2>5, <2>6
<1>9. QED
  BY <1>5, <1>6, <1>7, <1>8, QueueCases DEF Escrow!EscrowNext

\* The diamond implements the abstract escrow: see ImplementsEscrow.
THEOREM DiamondImplementsEscrow == Spec => ImplementsEscrow
<1>1. ASSUME TypeOK, PaidOnce, [Next]_vars
      PROVE  [Escrow!EscrowNext]_(Escrow!escrowVars)
  BY <1>1, EscrowStep DEF TypeOK
<1>2. Spec => Escrow!EscrowInit /\ [][Escrow!EscrowNext]_(Escrow!escrowVars)
  BY EscrowStarts, <1>1, TypeCorrect, PaidAtMostOnce, PTL DEF Spec
<1>3. QED
  BY <1>2 DEF ImplementsEscrow, Escrow!EscrowSpec
============================================================================
