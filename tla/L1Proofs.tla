------------------------------ MODULE L1Proofs ------------------------------
(***************************************************************************)
(* Theorems about the contracts on L1 together: the diamond takes no step  *)
(* it does not take alone, so that what is proved of it in                 *)
(* DiamondProofs holds with the dispute game around it; a batch proven     *)
(* fraudulent pays nothing, the bonds add up, and disputes narrow down.    *)
(***************************************************************************)
EXTENDS L1, DiamondProofs, FiniteSetTheorems, WellFoundedInduction

\* Every batch a commitment covers has a block.
CommitmentsSpanBlocks ==
    \A n \in BatchNumbers :
        stateCommitments[n] # NoCommitment =>
            stateCommitments[n].l2StartBlock <= stateCommitments[n].l2EndBlock

\* The disputes are records of the type, and the one that is being resolved
\* is among them.
DisputesWellFormed ==
    /\ disputes \in [DisputeIds -> Dispute \cup {NoDispute}]
    /\ resolving # NoResolution =>
           resolving.id \in DisputeIds /\ disputes[resolving.id] # NoDispute

L1Inv == TypeOK /\ CommitmentsSpanBlocks /\ DisputesWellFormed

----------------------------------------------------------------------------
LEMMA SpanStep ==
    ASSUME SettlementTypeOK, CommitmentsSpanBlocks, [Next]_vars
    PROVE  CommitmentsSpanBlocks'
<1>1. CASE \E a \in Addresses, n \in BatchNumbers, b \in Blocks, m \in DaModes :
               SubmitStateBatchWithDA(a, n, b, m)
  <2>1. PICK a \in Addresses, n \in BatchNumbers, b \in Blocks, m \in DaModes :
             SubmitStateBatchWithDA(a, n, b, m)
    BY <1>1
  <2>2. PICK c \in [l2StartBlock : Blocks, l2EndBlock : {b},
                    preStateRoot : Roots, postStateRoot : Roots,
                    withdrawalsRoot : Roots, sequencer : {a}, daMode : {m}] :
             Continues(n, c) /\ StoreStateCommitment(n, c)
    BY <2>1 DEF SubmitStateBatchWithDA
  <2>3. /\ c.l2StartBlock <= c.l2EndBlock
        /\ stateCommitments' = [stateCommitments EXCEPT ![n] = c]
    BY <2>2 DEF Continues, StoreStateCommitment
  <2>4. QED
    BY <2>3 DEF CommitmentsSpanBlocks, SettlementTypeOK
<1>2. CASE \E a \in Addresses, n \in BatchNumbers, b \in Blocks,
               pairs \in SUBSET RootPairs : SubmitLegacyBatch(a, n, b, pairs)
  BY <1>2 DEF SubmitLegacyBatch, CommitmentsSpanBlocks
<1>3. CASE \E n \in BatchNumbers, b \in Blocks, r \in Roots \cup {NoRoot} :
               AnchorStateCommitment(n, b, r)
  <2>1. PICK n \in BatchNumbers, b \in Blocks, r \in Roots \cup {NoRoot} :
             AnchorStateCommitment(n, b, r)
    BY <1>3
  <2>2. PICK c \in StateCommitmentData :
          /\ stateCommitments' = [stateCommitments EXCEPT ![n] = c]
          /\ c.l2StartBlock = latestL2Block
          /\ c.l2EndBlock = latestL2Block
    BY <2>1, AnchorEffect
  <2>3. latestL2Block <= latestL2Block
    BY DEF SettlementTypeOK
  <2>4. QED
    BY <2>2, <2>3 DEF CommitmentsSpanBlocks, SettlementTypeOK
<1>4. CASE UNCHANGED batchVars
  BY <1>4 DEF batchVars, CommitmentsSpanBlocks
<1>5. QED
  BY <1>1, <1>2, <1>3, <1>4, SettlementCases

----------------------------------------------------------------------------
\* What a step of the dispute game does to the bridge: nothing, or the
\* invalidation that ends a resolution.
LEMMA GameEffectOnBridge ==
    ASSUME DisputesWellFormed, GameCall
    PROVE  \/ UNCHANGED bridgeVars
           \/ \E n \in BatchNumbers : InvalidateBatch(ThisGame, n)
<1>1. ASSUME NEW id \in DisputeIds, NEW w, NEW l, NEW s, Settle(id, w, l, s)
      PROVE  UNCHANGED bridgeVars
  BY <1>1 DEF Settle
<1>2. ASSUME NEW p \in Parties, NEW n \in BatchNumbers, NEW r \in StateRoots,
             NEW v \in StakeAmounts, StartDispute(p, n, r, v)
      PROVE  UNCHANGED bridgeVars
  BY <1>2 DEF StartDispute
<1>3. ASSUME NEW p \in Parties, NEW id \in DisputeIds, NEW r \in StateRoots,
             RespondBisection(p, id, r)
      PROVE  UNCHANGED bridgeVars
  BY <1>3 DEF RespondBisection
<1>4. ASSUME NEW id \in DisputeIds, NEW claim \in TransitionClaims,
             ResolveDispute(id, claim)
      PROVE  UNCHANGED bridgeVars
  BY <1>1, <1>4 DEF ResolveDispute
<1>5. ASSUME NEW id \in DisputeIds, Timeout(id)
      PROVE  UNCHANGED bridgeVars
  BY <1>1, <1>5 DEF Timeout
<1>6. ASSUME FinishSettlement
      PROVE  \/ UNCHANGED bridgeVars
             \/ \E n \in BatchNumbers : InvalidateBatch(ThisGame, n)
  <2>1. disputes[resolving.id] \in Dispute
    BY <1>6 DEF FinishSettlement, DisputesWellFormed
  <2>2. disputes[resolving.id].batchNumber \in BatchNumbers
    BY <2>1 DEF Dispute
  <2>3. QED
    BY <1>6, <2>2 DEF FinishSettlement
<1>7. ASSUME GameOwnerNext
      PROVE  UNCHANGED bridgeVars
  BY <1>7 DEF GameOwnerNext, SetResponseTimeout, SetMaxDisputesPerBatch
<1>8. QED
  BY <1>2, <1>3, <1>4, <1>5, <1>6, <1>7 DEF GameCall, GamePartyNext

\* To the diamond a step of L1 is a step of its own or none.
LEMMA DiamondStep ==
    ASSUME DisputesWellFormed, [L1Next]_l1Vars
    PROVE  [Next]_vars
<1>1. CASE SettlementCall
  BY <1>1 DEF SettlementCall, Next, SequencerStep
<1>2. CASE BridgeCall
  BY <1>2 DEF BridgeCall, Next, BridgeStep, BridgeFacetNext
<1>3. CASE DayPasses
  BY <1>3 DEF DayPasses, vars
<1>4. CASE OtherGameCall
  BY <1>4 DEF OtherGameCall, Next, BridgeStep, BridgeFacetNext
<1>5. CASE BondCall
  BY <1>5 DEF BondCall, vars
<1>6. CASE GameCall
  <2>1. CASE UNCHANGED bridgeVars
    BY <1>6, <2>1 DEF GameCall, vars
  <2>2. CASE \E n \in BatchNumbers : InvalidateBatch(ThisGame, n)
    <3>1. BridgeGameNext(ThisGame)
      BY <2>2 DEF BridgeGameNext
    <3>2. QED
      BY <1>6, <3>1, DisputeGameAssumption
      DEF GameCall, Next, BridgeStep, BridgeFacetNext
  <2>3. QED
    BY <1>6, <2>1, <2>2, GameEffectOnBridge
<1>7. CASE UNCHANGED l1Vars
  BY <1>7 DEF l1Vars, vars
<1>8. QED
  BY <1>1, <1>2, <1>3, <1>4, <1>5, <1>6, <1>7 DEF L1Next

\* Single updates of a dispute, and the round the challenger ends.
LEMMA DisputeUpdates ==
    ASSUME NEW d \in Dispute, NEW k \in Nat
    PROVE  /\ [d EXCEPT !.rangeStart = k] \in Dispute
           /\ [d EXCEPT !.rangeEnd = k] \in Dispute
           /\ [d EXCEPT !.roundCount = k] \in Dispute
<1>1. [d EXCEPT !.rangeStart = k] \in Dispute
  BY DEF Dispute
<1>2. [d EXCEPT !.rangeEnd = k] \in Dispute
  BY DEF Dispute
<1>3. [d EXCEPT !.roundCount = k] \in Dispute
  BY DEF Dispute
<1>4. QED
  BY <1>1, <1>2, <1>3

LEMMA NarrowedIsDispute ==
    ASSUME NEW d \in Dispute
    PROVE  Narrowed(d) \in Dispute
<1> DEFINE u == [d EXCEPT !.rangeStart = Midpoint(d)]
           v == [u EXCEPT !.agreedStateRoot = d.defenderClaim]
           w == [d EXCEPT !.rangeEnd = Midpoint(d)]
<1>1. /\ d.rangeStart \in Nat /\ d.rangeEnd \in Nat
      /\ d.defenderClaim \in StateRoots
  BY DEF Dispute
<1>2. Midpoint(d) \in Nat
  BY <1>1 DEF Midpoint
<1>3. u \in Dispute /\ w \in Dispute
  BY <1>2, DisputeUpdates
<1>4. v \in Dispute
  <2> HIDE DEF u
  <2>1. QED
    BY <1>1, <1>3 DEF Dispute
<1>5. OneMoreRound(d) \in Nat
  BY DisputeGameAssumption DEF OneMoreRound, Dispute
<1>6. [v EXCEPT !.roundCount = OneMoreRound(d)] \in Dispute
  BY <1>4, <1>5, DisputeUpdates
<1>7. [w EXCEPT !.roundCount = OneMoreRound(d)] \in Dispute
  BY <1>3, <1>5, DisputeUpdates
<1>8. QED
  BY <1>6, <1>7 DEF Narrowed

\* The steps that leave the disputes alone keep them well formed.
LEMMA DisputesUntouched ==
    ASSUME DisputesWellFormed, UNCHANGED <<disputes, resolving>>
    PROVE  DisputesWellFormed'
BY DEF DisputesWellFormed

LEMMA NewDisputeIsDispute ==
    ASSUME L1Inv, NEW p \in Parties, NEW n \in BatchNumbers, NEW r \in StateRoots,
           NEW v \in StakeAmounts, StartDispute(p, n, r, v)
    PROVE  \E d \in Dispute : /\ disputes' = [disputes EXCEPT ![nextDisputeId] = d]
                              /\ d.status = "BISECTING" /\ d.batchNumber = n
                              /\ nextDisputeId \in DisputeIds
<1> DEFINE c == stateCommitments[n]
           d == [batchNumber |-> n, challenger |-> p,
                 defender |-> c.sequencer, status |-> "BISECTING",
                 currentTurn |-> "DEFENDER", rangeStart |-> 0,
                 rangeEnd |-> c.l2EndBlock - c.l2StartBlock + 1,
                 agreedStateRoot |-> c.preStateRoot, challengerClaim |-> r,
                 defenderClaim |-> c.postStateRoot, roundCount |-> 0]
<1>1. /\ nextDisputeId \in DisputeIds
      /\ stateCommitments[n] # NoCommitment
      /\ disputes' = [disputes EXCEPT ![nextDisputeId] = d]
  BY DEF StartDispute, MayDispute
<1>2. c \in StateCommitmentData
  BY <1>1 DEF L1Inv, TypeOK, SettlementTypeOK
<1>3. c.l2EndBlock - c.l2StartBlock + 1 \in Nat
  BY <1>1, <1>2 DEF L1Inv, CommitmentsSpanBlocks, StateCommitmentData
<1>4. c.sequencer \in Parties
  BY <1>2, DisputeGameAssumption DEF StateCommitmentData
<1>5. c.preStateRoot \in StateRoots /\ c.postStateRoot \in StateRoots
  BY <1>2 DEF StateCommitmentData, StateRoots
<1>6. d \in Dispute
  BY <1>3, <1>4, <1>5 DEF Dispute, Statuses
<1>7. d.status = "BISECTING" /\ d.batchNumber = n
  OBVIOUS
<1> HIDE DEF d
<1>8. QED
  BY <1>1, <1>6, <1>7

LEMMA DisputesStep ==
    ASSUME L1Inv, [L1Next]_l1Vars
    PROVE  DisputesWellFormed'
<1> USE DEF L1Inv
<1>1. CASE UNCHANGED gameVars
  BY <1>1, DisputesUntouched DEF gameVars, disputeVars
<1>2. CASE BridgeCall
  BY <1>2, <1>1, DisputesUntouched DEF BridgeCall, Age, disputeVars
<1>3. CASE DayPasses
  BY <1>3, DisputesUntouched DEF DayPasses, Age, disputeVars
<1>4. CASE GameCall
  <2>1. ASSUME NEW p \in Parties, NEW n \in BatchNumbers, NEW r \in StateRoots,
               NEW v \in StakeAmounts, StartDispute(p, n, r, v)
        PROVE  DisputesWellFormed'
    <3>1. PICK d \in Dispute : /\ disputes' = [disputes EXCEPT ![nextDisputeId] = d]
                               /\ nextDisputeId \in DisputeIds
      BY <2>1, NewDisputeIsDispute
    <3>2. resolving' = resolving
      BY <2>1 DEF StartDispute
    <3>3. QED
      BY <3>1, <3>2, DisputeGameAssumption DEF DisputesWellFormed
  <2>2. ASSUME NEW p \in Parties, NEW id \in DisputeIds, NEW r \in StateRoots,
               RespondBisection(p, id, r)
        PROVE  DisputesWellFormed'
    <3>1. disputes[id] \in Dispute
      BY <2>2 DEF RespondBisection, Bisecting, DisputesWellFormed
    <3>2. PICK d \in Dispute : disputes' = [disputes EXCEPT ![id] = d]
      <4>1. CASE disputes' = [disputes EXCEPT ![id] =
                     [disputes[id] EXCEPT !.defenderClaim = r,
                                          !.currentTurn = "CHALLENGER"]]
        BY <3>1, <4>1 DEF Dispute
      <4>2. CASE disputes' = [disputes EXCEPT ![id] =
                     Narrowed([disputes[id] EXCEPT !.challengerClaim = r,
                                                   !.currentTurn = "DEFENDER"])]
        <5>1. [disputes[id] EXCEPT !.challengerClaim = r,
                                   !.currentTurn = "DEFENDER"] \in Dispute
          BY <3>1 DEF Dispute
        <5>2. ASSUME NEW d \in Dispute PROVE Narrowed(d) \in Dispute
          BY NarrowedIsDispute
        <5>3. QED
          BY <4>2, <5>1, <5>2
      <4>3. QED
        BY <2>2, <4>1, <4>2 DEF RespondBisection
    <3>3. QED
      BY <2>2, <3>2, DisputeGameAssumption DEF RespondBisection, DisputesWellFormed
  <2>3. ASSUME NEW id \in DisputeIds, NEW w, NEW l, NEW s \in Statuses,
               Bisecting(id), Settle(id, w, l, s)
        PROVE  DisputesWellFormed'
    <3>1. /\ disputes[id] \in Dispute
          /\ disputes' = [disputes EXCEPT ![id].status = s]
          /\ resolving'.id = id
      BY <2>3 DEF Settle, Bisecting, DisputesWellFormed
    <3>2. [disputes[id] EXCEPT !.status = s] \in Dispute
      BY <3>1 DEF Dispute
    <3>3. QED
      BY <3>1, <3>2, DisputeGameAssumption DEF DisputesWellFormed
  <2>4. ASSUME NEW id \in DisputeIds, NEW claim \in TransitionClaims,
               ResolveDispute(id, claim)
        PROVE  DisputesWellFormed'
    BY <2>3, <2>4 DEF ResolveDispute, Statuses
  <2>5. ASSUME NEW id \in DisputeIds, Timeout(id)
        PROVE  DisputesWellFormed'
    BY <2>3, <2>5 DEF Timeout, Statuses
  <2>6. ASSUME FinishSettlement
        PROVE  DisputesWellFormed'
    BY <2>6 DEF FinishSettlement, DisputesWellFormed
  <2>7. ASSUME GameOwnerNext
        PROVE  DisputesWellFormed'
    BY <2>7, DisputesUntouched
    DEF GameOwnerNext, SetResponseTimeout, SetMaxDisputesPerBatch, disputeVars
  <2>8. QED
    BY <1>4, <2>1, <2>2, <2>4, <2>5, <2>6, <2>7 DEF GameCall, GamePartyNext
<1>5. QED
  BY <1>1, <1>2, <1>3, <1>4
  DEF L1Next, SettlementCall, OtherGameCall, BondCall, l1Vars

\* The types of the diamond and the shape of the disputes, together: each
\* needs the other, the disputes the commitments they are started from, the
\* diamond the batch that a resolution invalidates.
LEMMA L1InvHolds == L1Spec => []L1Inv
<1>1. L1Init => L1Inv
  <2> SUFFICES ASSUME L1Init PROVE L1Inv
    OBVIOUS
  <2>1. TypeOK
    BY InitTypeOK DEF L1Init
  <2>2. CommitmentsSpanBlocks
    BY DEF L1Init, Init, CommitmentsSpanBlocks
  <2>3. DisputesWellFormed
    BY DEF L1Init, GameInit, DisputesWellFormed
  <2>4. QED
    BY <2>1, <2>2, <2>3 DEF L1Inv
<1>2. ASSUME L1Inv, [L1Next]_l1Vars PROVE L1Inv'
  <2>1. [Next]_vars
    BY <1>2, DiamondStep DEF L1Inv
  <2>2. QED
    BY <1>2, <2>1, TypeOKStep, SpanStep, DisputesStep DEF L1Inv, TypeOK
<1>3. QED
  BY <1>1, <1>2, PTL DEF L1Spec

\* L1 implements the diamond: with disputes, bonds, verdicts and refunds
\* around it, the diamond takes no step it does not take alone, whatever the
\* parties answer and wherever a resolution hands control to its winner.
THEOREM L1ImplementsDiamond == L1Spec => DiamondIsUndisturbed
<1>1. L1Init => Init
  BY DEF L1Init
<1>2. ASSUME L1Inv, [L1Next]_l1Vars PROVE [Next]_vars
  BY <1>2, DiamondStep DEF L1Inv
<1>3. QED
  BY <1>1, <1>2, L1InvHolds, PTL DEF L1Spec, DiamondIsUndisturbed, Spec

----------------------------------------------------------------------------
\* An invalidated batch lets no withdrawal out and none in.
LEMMA InvalidatedIsShut ==
    ASSUME BridgeTypeOK, [Next]_vars, NEW id \in Ids,
           withdrawalBatch'[id] \in batchInvalidated \ {0}
    PROVE  payouts'[id] = payouts[id] /\ withdrawalBatch'[id] = withdrawalBatch[id]
<1>1. CASE \E n \in BatchNumbers : Queueing(n)
  BY <1>1 DEF Queueing, Stored, ValidBatchRoot
<1>2. CASE \E i \in Ids : Challenging(i)
  BY <1>2 DEF Challenging
<1>3. CASE \E i \in Ids : FinalizeWithdrawal(i) /\ UNCHANGED seqVars
  <2>1. PICK i \in Ids : FinalizeWithdrawal(i)
    BY <1>3
  <2>2. /\ withdrawalBatch' = withdrawalBatch
        /\ payouts' = [payouts EXCEPT ![i] = @ + 1]
        /\ withdrawalBatch[i] = 0 \/ withdrawalBatch[i] \notin batchInvalidated
    BY <2>1 DEF FinalizeWithdrawal, MayFinalize
  <2>3. id # i
    BY <2>2
  <2>4. QED
    BY <2>2, <2>3 DEF BridgeTypeOK
<1>4. CASE QueueKept
  BY <1>4 DEF QueueKept, queueVars
<1>5. QED
  BY <1>1, <1>2, <1>3, <1>4, QueueCases

\* No step of the diamond takes an invalidation back.
LEMMA InvalidationsStay ==
    ASSUME BridgeTypeOK, [Next]_vars
    PROVE  batchInvalidated \subseteq batchInvalidated'
<1>1. CASE \E n \in BatchNumbers : Queueing(n)
  BY <1>1 DEF Queueing
<1>2. CASE \E i \in Ids : Challenging(i)
  BY <1>2 DEF Challenging
<1>3. CASE \E i \in Ids : FinalizeWithdrawal(i) /\ UNCHANGED seqVars
  BY <1>3 DEF FinalizeWithdrawal
<1>4. CASE QueueKept
  BY <1>4 DEF QueueKept
<1>5. QED
  BY <1>1, <1>2, <1>3, <1>4, QueueCases

\* The batches proven fraudulent are among the invalidated ones.
FraudIsBarred == batchProvenFraudulent \subseteq batchInvalidated

LEMMA FraudIsBarredStep ==
    ASSUME L1Inv, FraudIsBarred, [L1Next]_l1Vars
    PROVE  FraudIsBarred'
<1>1. batchInvalidated \subseteq batchInvalidated'
  BY DiamondStep, InvalidationsStay DEF L1Inv, TypeOK
<1>2. \/ batchProvenFraudulent' = batchProvenFraudulent
      \/ FinishSettlement
  <2>1. ASSUME GameCall, ~FinishSettlement
        PROVE  batchProvenFraudulent' = batchProvenFraudulent
    <3>1. ASSUME NEW id \in DisputeIds, NEW w, NEW l, NEW s, Settle(id, w, l, s)
          PROVE  batchProvenFraudulent' = batchProvenFraudulent
      BY <3>1 DEF Settle
    <3>2. ASSUME NEW id \in DisputeIds, NEW claim \in TransitionClaims,
                 ResolveDispute(id, claim)
          PROVE  batchProvenFraudulent' = batchProvenFraudulent
      BY <3>1, <3>2 DEF ResolveDispute
    <3>3. ASSUME NEW id \in DisputeIds, Timeout(id)
          PROVE  batchProvenFraudulent' = batchProvenFraudulent
      BY <3>1, <3>3 DEF Timeout
    <3>4. ASSUME NEW p \in Parties, NEW n \in BatchNumbers, NEW r \in StateRoots,
                 NEW v \in StakeAmounts, StartDispute(p, n, r, v)
          PROVE  batchProvenFraudulent' = batchProvenFraudulent
      BY <3>4 DEF StartDispute
    <3>5. ASSUME NEW p \in Parties, NEW id \in DisputeIds, NEW r \in StateRoots,
                 RespondBisection(p, id, r)
          PROVE  batchProvenFraudulent' = batchProvenFraudulent
      BY <3>5 DEF RespondBisection
    <3>6. ASSUME GameOwnerNext
          PROVE  batchProvenFraudulent' = batchProvenFraudulent
      BY <3>6 DEF GameOwnerNext, SetResponseTimeout, SetMaxDisputesPerBatch, disputeVars
    <3>7. QED
      BY <2>1, <3>2, <3>3, <3>4, <3>5, <3>6 DEF GameCall, GamePartyNext
  <2>2. ASSUME UNCHANGED gameVars PROVE batchProvenFraudulent' = batchProvenFraudulent
    BY <2>2 DEF gameVars, disputeVars
  <2>3. ASSUME BridgeCall PROVE batchProvenFraudulent' = batchProvenFraudulent
    BY <2>2, <2>3 DEF BridgeCall, Age, disputeVars
  <2>4. ASSUME DayPasses PROVE batchProvenFraudulent' = batchProvenFraudulent
    BY <2>4 DEF DayPasses, Age, disputeVars
  <2>5. QED
    BY <2>1, <2>2, <2>3, <2>4
    DEF L1Next, SettlementCall, OtherGameCall, BondCall, l1Vars
<1>3. CASE FinishSettlement
  <2>1. \/ batchProvenFraudulent' = batchProvenFraudulent
        \/ \E n : /\ batchProvenFraudulent' = batchProvenFraudulent \cup {n}
                  /\ batchInvalidated' = batchInvalidated \cup {n}
    BY <1>3 DEF FinishSettlement, InvalidateBatch
  <2>2. QED
    BY <1>1, <2>1 DEF FraudIsBarred
<1>4. QED
  BY <1>1, <1>2, <1>3 DEF FraudIsBarred

\* Once a batch is proven fraudulent, no withdrawal queued from it is paid and
\* none is queued from it: in every order of disputes, refunds that hand over
\* control, payments, and changes of the dispute game by the owner.
THEOREM FraudNeverPays == L1Spec => NoPaymentAfterFraud
<1> DEFINE Shut == \A id \in Ids :
              withdrawalBatch'[id] \in batchProvenFraudulent \ {0} =>
                  /\ payouts'[id] = payouts[id]
                  /\ withdrawalBatch'[id] = withdrawalBatch[id]
<1>1. L1Init => FraudIsBarred
  BY DEF L1Init, Init, GameInit, FraudIsBarred
<1>2. ASSUME L1Inv, FraudIsBarred, [L1Next]_l1Vars PROVE FraudIsBarred'
  BY <1>2, FraudIsBarredStep
<1>3. ASSUME L1Inv, FraudIsBarred, [L1Next]_l1Vars PROVE [Shut]_l1Vars
  <2>1. [Next]_vars
    BY <1>3, DiamondStep DEF L1Inv
  <2>2. Shut
    BY <1>3, <2>1, InvalidatedIsShut DEF L1Inv, TypeOK, FraudIsBarred
  <2>3. QED
    BY <2>2
<1>4. L1Spec => [][Shut]_l1Vars
  BY <1>1, <1>2, <1>3, L1InvHolds, PTL DEF L1Spec
<1>5. QED
  BY <1>4 DEF NoPaymentAfterFraud

----------------------------------------------------------------------------
\* The disputes that count as won: finished, and not in mid-refund.
Won ==
    {id \in DisputeIds :
        /\ disputes[id] # NoDispute /\ ~Bisecting(id)
        /\ ~(bondLocked /\ resolving.id = id)
        /\ disputes[id].status \in ChallengerWins}

\* Ids are not given out twice, a resolution holds the lock, and its dispute
\* is finished.
VerdictInv ==
    /\ nextDisputeId \in Nat
    /\ \A id \in DisputeIds : disputes[id] # NoDispute => id < nextDisputeId
    /\ resolving # NoResolution => bondLocked
    /\ bondLocked => /\ resolving.id \in DisputeIds
                     /\ disputes[resolving.id] # NoDispute /\ ~Bisecting(resolving.id)
    /\ batchProvenFraudulent = {disputes[id].batchNumber : id \in Won}

LEMMA SameVerdicts ==
    ASSUME VerdictInv, UNCHANGED batchProvenFraudulent, Won' = Won,
           \A id \in Won : disputes'[id] = disputes[id]
    PROVE  batchProvenFraudulent' = {disputes'[id].batchNumber : id \in Won'}
BY DEF VerdictInv

LEMMA VerdictsUntouched ==
    ASSUME VerdictInv, UNCHANGED <<disputes, nextDisputeId, batchProvenFraudulent,
                                   resolving, bondLocked>>
    PROVE  VerdictInv'
<1>1. Won' = Won
  BY DEF Won, Bisecting
<1>2. batchProvenFraudulent' = {disputes'[id].batchNumber : id \in Won'}
  BY <1>1, SameVerdicts
<1> QED  BY <1>2 DEF VerdictInv, Bisecting

\* What the steps that touch a dispute make of it.
LEMMA StartDisputeEffect ==
    ASSUME L1Inv, VerdictInv, NEW p \in Parties, NEW n \in BatchNumbers,
           NEW r \in StateRoots, NEW v \in StakeAmounts, StartDispute(p, n, r, v)
    PROVE  /\ nextDisputeId \in DisputeIds /\ disputes[nextDisputeId] = NoDispute
           /\ disputes'[nextDisputeId] # NoDispute
           /\ disputes'[nextDisputeId].status = "BISECTING"
           /\ disputes'[nextDisputeId].batchNumber = n
           /\ \A id \in DisputeIds : id # nextDisputeId => disputes'[id] = disputes[id]
<1>1. PICK d \in Dispute : /\ disputes' = [disputes EXCEPT ![nextDisputeId] = d]
                           /\ d.status = "BISECTING" /\ d.batchNumber = n
                           /\ nextDisputeId \in DisputeIds
  BY NewDisputeIsDispute
<1>2. disputes[nextDisputeId] = NoDispute
  BY <1>1 DEF VerdictInv
<1> QED  BY <1>1, <1>2, DisputeGameAssumption DEF L1Inv, DisputesWellFormed

LEMMA RespondBisectionEffect ==
    ASSUME DisputesWellFormed, NEW p \in Parties, NEW id \in DisputeIds,
           NEW r \in StateRoots, RespondBisection(p, id, r)
    PROVE  /\ Bisecting(id) /\ disputes'[id].status = "BISECTING"
           /\ disputes'[id] # NoDispute
           /\ disputes'[id].batchNumber = disputes[id].batchNumber
           /\ \A i \in DisputeIds : i # id => disputes'[i] = disputes[i]
<1>1. /\ disputes[id] \in Dispute /\ disputes[id].status = "BISECTING" /\ Bisecting(id)
  BY DEF RespondBisection, Bisecting, DisputesWellFormed
<1>2. PICK d0 \in Dispute : d0 = disputes[id]
  BY <1>1
<1>3. PICK d : /\ disputes' = [disputes EXCEPT ![id] = d] /\ d \in Dispute
               /\ d.status = "BISECTING" /\ d.batchNumber = d0.batchNumber
  <2>1. CASE disputes' = [disputes EXCEPT ![id] =
                 [disputes[id] EXCEPT !.defenderClaim = r, !.currentTurn = "CHALLENGER"]]
    <3>1. PICK d1 : d1 = [d0 EXCEPT !.defenderClaim = r, !.currentTurn = "CHALLENGER"]
      OBVIOUS
    <3>2. d1 \in Dispute /\ d1.status = "BISECTING" /\ d1.batchNumber = d0.batchNumber
      BY <1>1, <1>2, <3>1 DEF Dispute
    <3> QED  BY <1>2, <2>1, <3>1, <3>2
  <2>2. CASE disputes' = [disputes EXCEPT ![id] =
                 Narrowed([disputes[id] EXCEPT !.challengerClaim = r,
                                               !.currentTurn = "DEFENDER"])]
    <3>1. PICK d1 : d1 = [d0 EXCEPT !.challengerClaim = r, !.currentTurn = "DEFENDER"]
      OBVIOUS
    <3>2. d1 \in Dispute /\ d1.status = "BISECTING" /\ d1.batchNumber = d0.batchNumber
      BY <1>1, <1>2, <3>1 DEF Dispute
    <3>3. Narrowed(d1) \in Dispute
      BY <3>2, NarrowedIsDispute
    <3>4. Narrowed(d1).status = "BISECTING" /\ Narrowed(d1).batchNumber = d1.batchNumber
      BY <3>2 DEF Narrowed, Dispute
    <3> QED  BY <1>2, <2>2, <3>1, <3>2, <3>3, <3>4
  <2> QED  BY <2>1, <2>2 DEF RespondBisection
<1> QED  BY <1>1, <1>2, <1>3, DisputeGameAssumption DEF DisputesWellFormed

LEMMA SettleEffect ==
    ASSUME DisputesWellFormed, NEW id \in DisputeIds, NEW w, NEW l,
           NEW s \in Statuses \ {"BISECTING"}, Bisecting(id), Settle(id, w, l, s)
    PROVE  /\ disputes[id] # NoDispute /\ disputes[id].batchNumber \in BatchNumbers
           /\ disputes'[id] # NoDispute /\ disputes'[id].status # "BISECTING"
           /\ \A i \in DisputeIds : i # id => disputes'[i] = disputes[i]
<1>1. disputes' = [disputes EXCEPT ![id].status = s] /\ disputes[id] # NoDispute
  BY DEF Settle, Bisecting
<1>2. PICK d0 \in Dispute : d0 = disputes[id]
  BY <1>1 DEF DisputesWellFormed
<1>3. PICK d \in Dispute : d = [d0 EXCEPT !.status = s]
  BY DEF Dispute
<1>4. d.status # "BISECTING" /\ d0.batchNumber \in BatchNumbers
  BY <1>3 DEF Dispute
<1>5. disputes' = [disputes EXCEPT ![id] = d]
  BY <1>1, <1>2, <1>3
<1> QED  BY <1>1, <1>2, <1>4, <1>5, DisputeGameAssumption DEF DisputesWellFormed

LEMMA StartDisputeKeepsVerdicts ==
    ASSUME L1Inv, VerdictInv, NEW p \in Parties, NEW n \in BatchNumbers,
           NEW r \in StateRoots, NEW v \in StakeAmounts, StartDispute(p, n, r, v)
    PROVE  VerdictInv'
<1>1. /\ nextDisputeId' = nextDisputeId + 1
      /\ UNCHANGED <<batchProvenFraudulent, bondLocked, resolving>>
  BY DEF StartDispute
<1>2. /\ nextDisputeId \in DisputeIds /\ nextDisputeId \in Nat
      /\ disputes[nextDisputeId] = NoDispute
      /\ disputes'[nextDisputeId].status = "BISECTING"
      /\ \A id \in DisputeIds : id # nextDisputeId => disputes'[id] = disputes[id]
  BY StartDisputeEffect DEF VerdictInv
<1>3. \A id \in DisputeIds : id \in Won' <=> id \in Won
  BY <1>1, <1>2 DEF Won, Bisecting
<1>4. Won' = Won
  BY <1>3 DEF Won
<1>5. batchProvenFraudulent' = {disputes'[id].batchNumber : id \in Won'}
  BY <1>1, <1>2, <1>4, SameVerdicts DEF Won
<1>6. \A id \in DisputeIds : disputes'[id] # NoDispute => id < nextDisputeId'
  <2>1. \A id \in DisputeIds : id \in Nat
    BY BondManagerAssumption
  <2> QED  BY <1>1, <1>2, <2>1 DEF VerdictInv
<1>7. bondLocked => /\ resolving.id \in DisputeIds
                    /\ disputes'[resolving.id] = disputes[resolving.id]
                    /\ disputes[resolving.id] # NoDispute /\ ~Bisecting(resolving.id)
  BY <1>2 DEF VerdictInv
<1>8. bondLocked' => /\ resolving'.id \in DisputeIds
                     /\ disputes'[resolving'.id] # NoDispute /\ ~Bisecting(resolving.id)'
  BY <1>1, <1>7 DEF Bisecting
<1>9. nextDisputeId' \in Nat /\ (resolving' # NoResolution => bondLocked')
  BY <1>1, <1>2 DEF VerdictInv
<1> QED  BY <1>5, <1>6, <1>8, <1>9 DEF VerdictInv

LEMMA RespondBisectionKeepsVerdicts ==
    ASSUME DisputesWellFormed, VerdictInv, NEW p \in Parties, NEW id \in DisputeIds,
           NEW r \in StateRoots, RespondBisection(p, id, r)
    PROVE  VerdictInv'
<1>1. UNCHANGED <<nextDisputeId, batchProvenFraudulent, bondLocked, resolving>>
  BY DEF RespondBisection, bondVars
<1>2. /\ Bisecting(id) /\ disputes'[id].status = "BISECTING" /\ disputes'[id] # NoDispute
      /\ \A i \in DisputeIds : i # id => disputes'[i] = disputes[i]
  BY RespondBisectionEffect
<1>3. \A i \in DisputeIds : Bisecting(i)' = Bisecting(i)
  BY <1>2 DEF Bisecting
<1>4. id \notin Won /\ disputes[id] # NoDispute
  BY <1>2 DEF Won, Bisecting
<1>5. \A i \in DisputeIds : i \in Won' <=> i \in Won
  BY <1>1, <1>2, <1>3 DEF Won
<1>6. Won' = Won
  BY <1>5 DEF Won
<1>7. batchProvenFraudulent' = {disputes'[i].batchNumber : i \in Won'}
  BY <1>1, <1>2, <1>4, <1>6, SameVerdicts DEF Won
<1> QED  BY <1>1, <1>2, <1>3, <1>4, <1>7 DEF VerdictInv

\* A resolution that begins decides nothing yet.
LEMMA SettleKeepsVerdicts ==
    ASSUME DisputesWellFormed, VerdictInv, NEW id \in DisputeIds, NEW w, NEW l,
           NEW s \in Statuses \ {"BISECTING"}, Bisecting(id), Settle(id, w, l, s)
    PROVE  VerdictInv'
<1>1. /\ ~bondLocked /\ bondLocked' = TRUE /\ resolving'.id = id
      /\ UNCHANGED <<nextDisputeId, batchProvenFraudulent>>
  BY DEF Settle
<1>2. /\ disputes[id] # NoDispute /\ disputes'[id] # NoDispute
      /\ disputes'[id].status # "BISECTING"
      /\ \A i \in DisputeIds : i # id => disputes'[i] = disputes[i]
  BY SettleEffect
<1>3. id \notin Won
  BY DEF Won
<1>4. \A i \in DisputeIds : i \in Won' <=> i \in Won
  BY <1>1, <1>2, <1>3 DEF Won, Bisecting
<1>5. Won' = Won
  BY <1>4 DEF Won
<1>6. batchProvenFraudulent' = {disputes'[i].batchNumber : i \in Won'}
  BY <1>1, <1>2, <1>3, <1>5, SameVerdicts DEF Won
<1> QED  BY <1>1, <1>2, <1>6 DEF VerdictInv, Bisecting

\* The end of a resolution decides it.
LEMMA FinishSettlementKeepsVerdicts ==
    ASSUME DisputesWellFormed, VerdictInv, FinishSettlement
    PROVE  VerdictInv'
<1>1. PICK r : r = resolving.id
  OBVIOUS
<1>2. /\ resolving # NoResolution /\ resolving' = NoResolution /\ bondLocked' = FALSE
      /\ UNCHANGED <<disputes, nextDisputeId>>
  BY DEF FinishSettlement
<1>3. bondLocked /\ r \in DisputeIds /\ disputes[r] # NoDispute /\ ~Bisecting(r)
  BY <1>1, <1>2 DEF VerdictInv
<1>4. Won' = {id \in DisputeIds : disputes[id] # NoDispute /\ ~Bisecting(id)
                                  /\ disputes[id].status \in ChallengerWins}
  BY <1>2 DEF Won, Bisecting
<1>5. Won = {id \in DisputeIds : disputes[id] # NoDispute /\ ~Bisecting(id)
                                 /\ id # r /\ disputes[id].status \in ChallengerWins}
  BY <1>1, <1>3 DEF Won
<1>6. batchProvenFraudulent = {disputes[id].batchNumber : id \in Won}
  BY DEF VerdictInv
<1>7. batchProvenFraudulent' = {disputes'[id].batchNumber : id \in Won'}
  <2>1. CASE disputes[r].status \in ChallengerWins
    <3>1. batchProvenFraudulent' = batchProvenFraudulent \cup {disputes[r].batchNumber}
      BY <1>1, <2>1 DEF FinishSettlement, Invalidates
    <3>2. Won' = Won \cup {r}
      BY <1>3, <1>4, <1>5, <2>1
    <3>3. {disputes[id].batchNumber : id \in Won \cup {r}}
             = {disputes[id].batchNumber : id \in Won} \cup {disputes[r].batchNumber}
      OBVIOUS
    <3> QED  BY <1>2, <1>6, <3>1, <3>2, <3>3
  <2>2. CASE disputes[r].status \notin ChallengerWins
    <3>1. UNCHANGED batchProvenFraudulent
      BY <1>1, <2>2 DEF FinishSettlement, Invalidates
    <3>2. Won' = Won
      BY <1>4, <1>5, <2>2
    <3> QED  BY <1>2, <1>6, <3>1, <3>2
  <2> QED  BY <2>1, <2>2
<1> QED  BY <1>2, <1>7 DEF VerdictInv

LEMMA VerdictInvStep ==
    ASSUME L1Inv, L1Inv', VerdictInv, [L1Next]_l1Vars
    PROVE  VerdictInv'
<1> USE DEF L1Inv
<1>1. CASE UNCHANGED <<gameVars, bondLocked>>
  BY <1>1, VerdictsUntouched DEF gameVars, disputeVars
<1>2. CASE BridgeCall
  BY <1>1, <1>2, VerdictsUntouched DEF BridgeCall, Age, disputeVars, bondVars
<1>3. CASE DayPasses
  BY <1>3, VerdictsUntouched DEF DayPasses, Age, disputeVars, bondVars
<1>4. CASE BondCall
  BY <1>1, <1>4 DEF BondCall, BondPartyNext, BondOwnerNext, DepositSequencerStake,
     WithdrawSequencerStake, ClaimReward, SetBondAmount, SetProtocolShareBps, SetBondDisputeGame
<1>5. CASE GameCall
  <2>1. ASSUME NEW id \in DisputeIds, NEW claim \in TransitionClaims, ResolveDispute(id, claim)
        PROVE  VerdictInv'
    BY <2>1, SettleKeepsVerdicts DEF ResolveDispute, Statuses
  <2>2. ASSUME NEW id \in DisputeIds, Timeout(id) PROVE VerdictInv'
    BY <2>2, SettleKeepsVerdicts DEF Timeout, Statuses
  <2>3. ASSUME GameOwnerNext PROVE VerdictInv'
    BY <2>3, VerdictsUntouched
    DEF GameOwnerNext, SetResponseTimeout, SetMaxDisputesPerBatch, disputeVars, bondVars
  <2> QED
    BY <1>5, <2>1, <2>2, <2>3, StartDisputeKeepsVerdicts, RespondBisectionKeepsVerdicts,
       FinishSettlementKeepsVerdicts DEF GameCall, GamePartyNext
<1> QED
  BY <1>1, <1>2, <1>3, <1>4, <1>5 DEF L1Next, SettlementCall, OtherGameCall, l1Vars, bondVars

\* The batches proven fraudulent are exactly those a challenger won a dispute
\* about, and the bridge has them all invalidated: for any number of disputes,
\* whoever resolves them, wherever a refund hands over control.
THEOREM FraudAlwaysInvalidated == L1Spec => []FraudIsInvalidated
<1>1. L1Init => VerdictInv /\ FraudIsBarred
  BY DEF L1Init, Init, GameInit, VerdictInv, Won, Bisecting, FraudIsBarred
<1>2. ASSUME L1Inv, L1Inv', VerdictInv /\ FraudIsBarred, [L1Next]_l1Vars
      PROVE  (VerdictInv /\ FraudIsBarred)'
  BY <1>2, VerdictInvStep, FraudIsBarredStep
<1>3. ASSUME VerdictInv, FraudIsBarred PROVE FraudIsInvalidated
  <2> DEFINE won == {id \in ({id \in DisputeIds : disputes[id] # NoDispute /\ ~Bisecting(id)}
                               \ {id \in DisputeIds : bondLocked /\ resolving.id = id}) :
                        disputes[id].status \in ChallengerWins}
  <2>1. won = Won
    BY DEF Won
  <2>2. /\ batchProvenFraudulent = {disputes[id].batchNumber : id \in won}
        /\ batchProvenFraudulent \subseteq batchInvalidated
    BY <1>3, <2>1 DEF VerdictInv, FraudIsBarred
  <2> QED  BY <2>2 DEF FraudIsInvalidated
<1> QED  BY <1>1, <1>2, <1>3, L1InvHolds, PTL DEF L1Spec

----------------------------------------------------------------------------
\* The disputes under way for a batch.
Running(n) == {id \in DisputeIds : Bisecting(id) /\ disputes[id].batchNumber = n}

CountInv ==
    /\ activeDisputeCount \in [BatchNumbers -> Nat]
    /\ \A n \in BatchNumbers : activeDisputeCount[n] = Cardinality(Running(n))

LEMMA RunningIsFinite ==
    ASSUME NEW n PROVE IsFiniteSet(Running(n)) /\ Cardinality(Running(n)) \in Nat
<1>1. Running(n) \subseteq DisputeIds /\ IsFiniteSet(DisputeIds)
  BY DisputeGameAssumption DEF Running
<1> QED  BY <1>1, FS_Subset, FS_CardinalityType

LEMMA CountsUntouched ==
    ASSUME CountInv, UNCHANGED <<disputes, activeDisputeCount>>
    PROVE  CountInv'
<1>1. \A n \in BatchNumbers : Running(n)' = Running(n)
  BY DEF Running, Bisecting
<1> QED  BY <1>1 DEF CountInv

LEMMA StartDisputeKeepsCounts ==
    ASSUME L1Inv, VerdictInv, CountInv, NEW p \in Parties, NEW n \in BatchNumbers,
           NEW r \in StateRoots, NEW v \in StakeAmounts, StartDispute(p, n, r, v)
    PROVE  CountInv'
<1>1. PICK id \in DisputeIds :
          /\ disputes[id] = NoDispute /\ disputes'[id].status = "BISECTING"
          /\ disputes'[id].batchNumber = n /\ disputes'[id] # NoDispute
          /\ \A i \in DisputeIds : i # id => disputes'[i] = disputes[i]
  BY StartDisputeEffect
<1>2. activeDisputeCount' = [activeDisputeCount EXCEPT ![n] = activeDisputeCount[n] + 1]
  BY DEF StartDispute
<1>3. id \notin Running(n)
  BY <1>1 DEF Running, Bisecting
<1>4. Running(n)' = Running(n) \cup {id}
  BY <1>1 DEF Running, Bisecting
<1>5. Cardinality(Running(n)') = Cardinality(Running(n)) + 1
  BY <1>3, <1>4, RunningIsFinite, FS_AddElement
<1>6. \A m \in BatchNumbers : m # n => Running(m)' = Running(m)
  BY <1>1 DEF Running, Bisecting
<1> QED  BY <1>2, <1>5, <1>6 DEF CountInv

LEMMA RespondBisectionKeepsCounts ==
    ASSUME DisputesWellFormed, CountInv, NEW p \in Parties, NEW id \in DisputeIds,
           NEW r \in StateRoots, RespondBisection(p, id, r)
    PROVE  CountInv'
<1>1. /\ Bisecting(id) /\ disputes'[id].status = "BISECTING" /\ disputes'[id] # NoDispute
      /\ disputes'[id].batchNumber = disputes[id].batchNumber
      /\ \A i \in DisputeIds : i # id => disputes'[i] = disputes[i]
  BY RespondBisectionEffect
<1>2. \A n \in BatchNumbers : Running(n)' = Running(n)
  BY <1>1 DEF Running, Bisecting
<1>3. UNCHANGED activeDisputeCount
  BY DEF RespondBisection
<1> QED  BY <1>2, <1>3 DEF CountInv

LEMMA SettleKeepsCounts ==
    ASSUME DisputesWellFormed, CountInv, NEW id \in DisputeIds, NEW w, NEW l,
           NEW s \in Statuses \ {"BISECTING"}, Bisecting(id), Settle(id, w, l, s)
    PROVE  CountInv'
<1>1. /\ disputes[id].batchNumber \in BatchNumbers /\ disputes'[id].status # "BISECTING"
      /\ \A i \in DisputeIds : i # id => disputes'[i] = disputes[i]
  BY SettleEffect
<1>2. PICK n \in BatchNumbers : n = disputes[id].batchNumber
  BY <1>1
<1>3. activeDisputeCount' = [activeDisputeCount EXCEPT ![n] = activeDisputeCount[n] - 1]
  BY <1>2 DEF Settle, OneLess
<1>4. id \in Running(n)
  BY <1>2 DEF Running
<1>5. Running(n)' = Running(n) \ {id}
  BY <1>1 DEF Running, Bisecting
<1>6. Cardinality(Running(n)') = Cardinality(Running(n)) - 1
  BY <1>4, <1>5, RunningIsFinite, FS_RemoveElement
<1>7. Cardinality(Running(n)) \in Nat /\ Cardinality(Running(n)') \in Nat
  <2>1. Running(n)' \subseteq Running(n)
    BY <1>5
  <2> QED  BY <2>1, RunningIsFinite, FS_Subset, FS_CardinalityType
<1>8. \A m \in BatchNumbers : m # n => Running(m)' = Running(m)
  BY <1>1, <1>2 DEF Running, Bisecting
<1> QED  BY <1>3, <1>6, <1>7, <1>8 DEF CountInv

LEMMA CountInvStep ==
    ASSUME L1Inv, L1Inv', VerdictInv, CountInv, [L1Next]_l1Vars
    PROVE  CountInv'
<1> USE DEF L1Inv
<1>1. CASE UNCHANGED gameVars
  BY <1>1, CountsUntouched DEF gameVars, disputeVars
<1>2. CASE BridgeCall
  BY <1>1, <1>2, CountsUntouched DEF BridgeCall, Age, disputeVars
<1>3. CASE DayPasses
  BY <1>3, CountsUntouched DEF DayPasses, Age, disputeVars
<1>4. CASE GameCall
  <2>1. ASSUME NEW id \in DisputeIds, NEW claim \in TransitionClaims, ResolveDispute(id, claim)
        PROVE  CountInv'
    BY <2>1, SettleKeepsCounts DEF ResolveDispute, Statuses
  <2>2. ASSUME NEW id \in DisputeIds, Timeout(id) PROVE CountInv'
    BY <2>2, SettleKeepsCounts DEF Timeout, Statuses
  <2>3. ASSUME GameOwnerNext \/ FinishSettlement PROVE CountInv'
    BY <2>3, CountsUntouched
    DEF GameOwnerNext, SetResponseTimeout, SetMaxDisputesPerBatch, disputeVars, FinishSettlement
  <2> QED
    BY <1>4, <2>1, <2>2, <2>3, StartDisputeKeepsCounts, RespondBisectionKeepsCounts
    DEF GameCall, GamePartyNext
<1> QED
  BY <1>1, <1>2, <1>3, <1>4 DEF L1Next, SettlementCall, OtherGameCall, BondCall, l1Vars

LEMMA VerdictInvHolds == L1Spec => []VerdictInv
<1>1. L1Init => VerdictInv
  BY DEF L1Init, Init, GameInit, VerdictInv, Won, Bisecting
<1> QED  BY <1>1, VerdictInvStep, L1InvHolds, PTL DEF L1Spec

\* activeDisputeCount, which startDispute counts up and _resolveInFavorOf
\* down, is the number of disputes under way for the batch: the limit per
\* batch means what it says, for any number of disputes and batches.
THEOREM ActiveCountAlwaysExact == L1Spec => []ActiveCountIsExact
<1>1. ASSUME L1Init PROVE CountInv
  <2>1. ASSUME NEW n \in BatchNumbers PROVE Running(n) = {}
    BY <1>1 DEF L1Init, GameInit, Running, Bisecting
  <2>2. activeDisputeCount = [n \in BatchNumbers |-> 0]
    BY <1>1 DEF L1Init, GameInit
  <2>3. \A n \in BatchNumbers : Cardinality(Running(n)) = 0
    BY <2>1, FS_EmptySet, Zenon
  <2> QED  BY <2>2, <2>3 DEF CountInv
<1>2. CountInv => ActiveCountIsExact
  BY DEF CountInv, ActiveCountIsExact, Running
<1> QED  BY <1>1, <1>2, CountInvStep, VerdictInvHolds, L1InvHolds, PTL DEF L1Spec

----------------------------------------------------------------------------
\* Sums over finite sets.  The library's induction cannot be instantiated, so
\* what holds of every sum is by minimal counterexample, a least number being
\* one that well-foundedness gives.
LEMMA LeastExists ==
    ASSUME NEW T, T \subseteq Nat, T # {}
    PROVE  \E x \in T : \A y \in T : x <= y
<1> DEFINE R == OpToRel(<, Nat)
<1>1. IsWellFoundedOn(R, Nat)
  BY NatLessThanWellFounded
<1>2. \A x, y \in Nat : <<y, x>> \in R <=> y < x
  BY DEF OpToRel
<1> HIDE DEF R
<1>3. PICK x \in T : \A y \in T : ~(<<y, x>> \in R)
  BY <1>1, WFMin
<1>4. \A y \in T : ~(y < x)
  BY <1>2, <1>3
<1>5. \A y \in T : x <= y
  BY <1>4
<1> QED  BY <1>5

\* The element a sum takes out of a set next, and the function behind the
\* sum: what it gives each subset of S.
Chosen(s) == CHOOSE x \in s : TRUE
SumRec(f, S, g) ==
    g = [s \in SUBSET S |-> IF s = {} THEN 0 ELSE f[Chosen(s)] + g[s \ {Chosen(s)}]]

LEMMA SumIsRec ==
    ASSUME NEW f, NEW S
    PROVE  SumFunctionOnSet(f, S) = (CHOOSE g : SumRec(f, S, g))[S]
BY DEF SumFunctionOnSet, FoldFunctionOnSet, MapThenFoldSet, SumRec, Chosen

\* The subsets with at most k elements, and the sum defined on them.
Upto(S, k) == {s \in SUBSET S : Cardinality(s) <= k}
SumUpto(f, S, k, g) ==
    g = [s \in Upto(S, k) |->
            IF s = {} THEN 0 ELSE f[Chosen(s)] + g[s \ {Chosen(s)}]]

\* One element of a set less.
LEMMA ChosenElement ==
    ASSUME NEW S, IsFiniteSet(S), NEW s \in SUBSET S, s # {}
    PROVE  /\ Chosen(s) \in s /\ Chosen(s) \in S /\ s \ {Chosen(s)} \in SUBSET S
           /\ Cardinality(s) \in Nat /\ Cardinality(s \ {Chosen(s)}) \in Nat
           /\ Cardinality(s \ {Chosen(s)}) = Cardinality(s) - 1
<1>1. Chosen(s) \in s
  BY DEF Chosen
<1>2. IsFiniteSet(s) /\ IsFiniteSet(s \ {Chosen(s)})
  BY FS_Subset
<1>3. Cardinality(s \ {Chosen(s)}) = Cardinality(s) - 1
  BY <1>1, <1>2, FS_RemoveElement
<1>4. Cardinality(s) \in Nat /\ Cardinality(s \ {Chosen(s)}) \in Nat
  BY <1>2, FS_CardinalityType
<1> QED  BY <1>1, <1>3, <1>4

LEMMA SumUptoExists ==
    ASSUME NEW f, NEW S, IsFiniteSet(S), NEW n \in Nat
    PROVE  \E g : SumUpto(f, S, n, g)
<1> DEFINE Bad == {k \in Nat : ~ \E g : SumUpto(f, S, k, g)}
<1>1. SUFFICES ASSUME Bad # {} PROVE FALSE
  OBVIOUS
<1>2. PICK k \in Bad : \A j \in Bad : k <= j
  BY <1>1, LeastExists
<1>3. CASE k = 0
  <2> DEFINE g == [s \in Upto(S, 0) |-> 0]
  <2>1. \A s \in Upto(S, 0) : s = {}
    <3>1. TAKE s \in Upto(S, 0)
    <3>2. IsFiniteSet(s) /\ Cardinality(s) <= 0 /\ Cardinality(s) \in Nat
      BY FS_Subset, FS_CardinalityType DEF Upto
    <3>3. Cardinality(s) = 0
      BY <3>2
    <3> QED  BY <3>2, <3>3, FS_EmptySet
  <2>2. SumUpto(f, S, 0, g)
    BY <2>1 DEF SumUpto
  <2> HIDE DEF g
  <2> QED  BY <1>3, <2>2
<1>4. CASE k # 0
  <2>1. k - 1 \in Nat /\ ~(k <= k - 1) /\ k \in Nat
    BY <1>4
  <2>2. PICK h : SumUpto(f, S, k - 1, h)
    BY <1>2, <2>1
  <2> DEFINE g == [s \in Upto(S, k) |->
                      IF s = {} THEN 0 ELSE f[Chosen(s)] + h[s \ {Chosen(s)}]]
  <2>3. ASSUME NEW s \in Upto(S, k), s # {}
        PROVE  s \ {Chosen(s)} \in Upto(S, k - 1) /\ s \ {Chosen(s)} \in Upto(S, k)
    <3>1. /\ s \ {Chosen(s)} \in SUBSET S /\ Cardinality(s) <= k
          /\ Cardinality(s) \in Nat /\ Cardinality(s \ {Chosen(s)}) = Cardinality(s) - 1
      BY <2>3, ChosenElement DEF Upto
    <3>2. Cardinality(s \ {Chosen(s)}) <= k - 1 /\ Cardinality(s \ {Chosen(s)}) <= k
      BY <3>1, <2>1
    <3> QED  BY <3>1, <3>2 DEF Upto
  <2>4. ASSUME NEW t \in Upto(S, k - 1), t \in Upto(S, k) PROVE g[t] = h[t]
    <3>1. h[t] = IF t = {} THEN 0 ELSE f[Chosen(t)] + h[t \ {Chosen(t)}]
      BY <2>2, <2>4 DEF SumUpto
    <3> QED  BY <3>1, <2>4
  <2>5. g = [s \in Upto(S, k) |-> IF s = {} THEN 0 ELSE f[Chosen(s)] + g[s \ {Chosen(s)}]]
    <3> DEFINE F(s) == IF s = {} THEN 0 ELSE f[Chosen(s)] + h[s \ {Chosen(s)}]
               G(s) == IF s = {} THEN 0 ELSE f[Chosen(s)] + g[s \ {Chosen(s)}]
    <3>1. ASSUME NEW s \in Upto(S, k) PROVE F(s) = G(s)
      <4>1. CASE s = {}
        BY <4>1
      <4>2. CASE s # {}
        <5>1. g[s \ {Chosen(s)}] = h[s \ {Chosen(s)}]
          BY <4>2, <2>3, <2>4
        <5> HIDE DEF g
        <5> QED  BY <4>2, <5>1
      <4> QED  BY <4>1, <4>2
    <3>2. g = [s \in Upto(S, k) |-> F(s)]
      OBVIOUS
    <3> HIDE DEF F, G, g
    <3>3. g = [s \in Upto(S, k) |-> G(s)]
      BY <3>1, <3>2
    <3> QED  BY <3>3 DEF G
  <2>6. SumUpto(f, S, k, g)
    BY <2>5 DEF SumUpto
  <2> HIDE DEF g
  <2> QED  BY <2>6
<1> QED  BY <1>3, <1>4

\* The sum exists.
LEMMA SumRecExists ==
    ASSUME NEW f, NEW S, IsFiniteSet(S)
    PROVE  SumRec(f, S, CHOOSE g : SumRec(f, S, g))
<1>1. Cardinality(S) \in Nat
  BY FS_CardinalityType
<1>2. PICK g : SumUpto(f, S, Cardinality(S), g)
  BY <1>1, SumUptoExists
<1>3. Upto(S, Cardinality(S)) = SUBSET S
  BY FS_Subset DEF Upto
<1>4. SumRec(f, S, g)
  BY <1>2, <1>3 DEF SumUpto, SumRec
<1> QED  BY <1>4

\* Zero on no element, and on a set the value of one element more than without.
LEMMA SumRecOfNothing ==
    ASSUME NEW f, NEW S, NEW g, SumRec(f, S, g)
    PROVE  g[{}] = 0
BY DEF SumRec

LEMMA SumRecUnfolds ==
    ASSUME NEW f, NEW S, NEW g, SumRec(f, S, g), NEW s \in SUBSET S, s # {}
    PROVE  g[s] = f[Chosen(s)] + g[s \ {Chosen(s)}]
<1>1. \A t \in SUBSET S : g[t] = IF t = {} THEN 0 ELSE f[Chosen(t)] + g[t \ {Chosen(t)}]
  BY DEF SumRec
<1> QED  BY <1>1

\* Two functions that differ at most at x: so do their sums.
LEMMA SumRecsCompare ==
    ASSUME NEW S, IsFiniteSet(S), NEW f \in [S -> Int], NEW f1 \in [S -> Int],
           NEW x \in S, \A y \in S \ {x} : f1[y] = f[y],
           NEW g, SumRec(f, S, g), NEW g1, SumRec(f1, S, g1)
    PROVE  \A s \in SUBSET S :
              /\ g[s] \in Int /\ g1[s] \in Int
              /\ g1[s] = g[s] + (IF x \in s THEN f1[x] - f[x] ELSE 0)
<1> DEFINE Good(s) == /\ g[s] \in Int /\ g1[s] \in Int
                      /\ g1[s] = g[s] + (IF x \in s THEN f1[x] - f[x] ELSE 0)
           Bad == {k \in Nat : \E s \in SUBSET S : Cardinality(s) = k /\ ~Good(s)}
<1> HIDE DEF Good
<1>1. ASSUME NEW s \in SUBSET S, \A t \in SUBSET S : Cardinality(t) < Cardinality(s) => Good(t)
      PROVE  Good(s)
  <2>1. CASE s = {}
    <3>1. g[{}] = 0 /\ g1[{}] = 0
      BY SumRecOfNothing
    <3> QED  BY <2>1, <3>1 DEF Good
  <2>2. CASE s # {}
    <3>1. PICK c : c = Chosen(s)
      OBVIOUS
    <3>2. /\ c \in s /\ c \in S /\ s \ {c} \in SUBSET S
          /\ Cardinality(s) \in Nat /\ Cardinality(s \ {c}) \in Nat
          /\ Cardinality(s \ {c}) = Cardinality(s) - 1
      BY <2>2, <3>1, ChosenElement
    <3>3. Cardinality(s \ {c}) < Cardinality(s)
      BY <3>2
    <3>4. Good(s \ {c})
      BY <1>1, <3>2, <3>3
    <3>5. g[s] = f[c] + g[s \ {c}]
      BY <2>2, <3>1, SumRecUnfolds
    <3>6. g1[s] = f1[c] + g1[s \ {c}]
      BY <2>2, <3>1, SumRecUnfolds
    <3>7. f[c] \in Int /\ f1[c] \in Int /\ f[x] \in Int /\ f1[x] \in Int
      BY <3>2
    <3>8. CASE c = x
      BY <3>2, <3>4, <3>5, <3>6, <3>7, <3>8 DEF Good
    <3>9. CASE c # x
      <4>1. f1[c] = f[c] /\ (x \in s \ {c} <=> x \in s)
        BY <3>2, <3>9
      <4> QED  BY <3>4, <3>5, <3>6, <3>7, <4>1 DEF Good
    <3> QED  BY <3>8, <3>9
  <2> QED  BY <2>1, <2>2
<1>2. SUFFICES ASSUME NEW s \in SUBSET S, ~Good(s) PROVE FALSE
  BY DEF Good
<1>3. \A t \in SUBSET S : Cardinality(t) \in Nat
  BY FS_Subset, FS_CardinalityType
<1>4. Cardinality(s) \in Bad
  BY <1>2, <1>3
<1>5. PICK k \in Bad : \A j \in Bad : k <= j
  BY <1>4, LeastExists
<1>6. PICK t \in SUBSET S : Cardinality(t) = k /\ ~Good(t)
  BY <1>5
<1>7. ASSUME NEW r \in SUBSET S, Cardinality(r) < Cardinality(t) PROVE Good(r)
  <2>1. Cardinality(r) \in Nat /\ ~(k <= Cardinality(r))
    BY <1>3, <1>6, <1>7
  <2>2. Cardinality(r) \notin Bad
    BY <1>5, <2>1
  <2> QED  BY <2>1, <2>2
<1> QED  BY <1>1, <1>6, <1>7

\* The sum of a function whose value at one argument changes.
LEMMA SumChangesAt ==
    ASSUME NEW S, IsFiniteSet(S), NEW f \in [S -> Int], NEW f1 \in [S -> Int], NEW x \in S,
           \A y \in S \ {x} : f1[y] = f[y]
    PROVE  /\ SumFunction(f) \in Int
           /\ SumFunction(f1) = SumFunction(f) - f[x] + f1[x]
<1> DEFINE G(h) == CHOOSE g : SumRec(h, S, g)
<1>1. DOMAIN f = S /\ DOMAIN f1 = S /\ f[x] \in Int /\ f1[x] \in Int
  OBVIOUS
<1>2. SumRec(f, S, G(f)) /\ SumRec(f1, S, G(f1))
  BY SumRecExists
<1>3. SumFunction(f) = G(f)[S] /\ SumFunction(f1) = G(f1)[S]
  BY <1>1, SumIsRec DEF SumFunction
<1> HIDE DEF G
<1>4. /\ G(f)[S] \in Int /\ G(f1)[S] \in Int
      /\ G(f1)[S] = G(f)[S] + (IF x \in S THEN f1[x] - f[x] ELSE 0)
  BY <1>1, <1>2, SumRecsCompare
<1>5. G(f1)[S] = G(f)[S] - f[x] + f1[x]
  BY <1>1, <1>4
<1> QED  BY <1>3, <1>4, <1>5

\* Nothing sums up to nothing.
LEMMA SumOfZeros ==
    ASSUME NEW S, IsFiniteSet(S)
    PROVE  SumFunction([x \in S |-> 0]) = 0
<1> DEFINE f == [x \in S |-> 0]
           g == CHOOSE g : SumRec(f, S, g)
           Bad == {k \in Nat : \E s \in SUBSET S : Cardinality(s) = k /\ g[s] # 0}
<1>1. SumRec(f, S, g)
  BY SumRecExists
<1>2. SumFunction(f) = g[S]
  BY SumIsRec DEF SumFunction
<1> HIDE DEF g
<1>3. \A t \in SUBSET S : Cardinality(t) \in Nat
  BY FS_Subset, FS_CardinalityType
<1>4. SUFFICES ASSUME g[S] # 0 PROVE FALSE
  BY <1>2
<1>5. Cardinality(S) \in Bad
  BY <1>3, <1>4
<1>6. PICK k \in Bad : \A j \in Bad : k <= j
  BY <1>5, LeastExists
<1>7. PICK s \in SUBSET S : Cardinality(s) = k /\ g[s] # 0
  BY <1>6
<1>8. s # {}
  BY <1>1, <1>7, SumRecOfNothing
<1>9. PICK c : c = Chosen(s)
  OBVIOUS
<1>10. /\ c \in S /\ s \ {c} \in SUBSET S
       /\ Cardinality(s) \in Nat /\ Cardinality(s \ {c}) \in Nat
       /\ Cardinality(s \ {c}) = Cardinality(s) - 1
  BY <1>8, <1>9, ChosenElement
<1>11. g[s] = f[c] + g[s \ {c}]
  BY <1>1, <1>8, <1>9, SumRecUnfolds
<1>12. Cardinality(s \ {c}) \notin Bad
  <2>1. ~(k <= Cardinality(s \ {c}))
    BY <1>7, <1>10
  <2> QED  BY <1>6, <2>1
<1>13. g[s \ {c}] = 0
  BY <1>10, <1>12
<1> QED  BY <1>7, <1>10, <1>11, <1>13

\* Sums stay in any set of integers that holds 0 and is closed under adding.
LEMMA SumStaysIn ==
    ASSUME NEW T, T \subseteq Int, 0 \in T, \A a, b \in T : a + b \in T,
           NEW S, IsFiniteSet(S), NEW f \in [S -> T]
    PROVE  SumFunction(f) \in T
<1> DEFINE g == CHOOSE g : SumRec(f, S, g)
           Bad == {k \in Nat : \E s \in SUBSET S : Cardinality(s) = k /\ g[s] \notin T}
<1>1. SumRec(f, S, g)
  BY SumRecExists
<1>2. SumFunction(f) = g[S]
  BY SumIsRec DEF SumFunction
<1> HIDE DEF g
<1>3. \A t \in SUBSET S : Cardinality(t) \in Nat
  BY FS_Subset, FS_CardinalityType
<1>4. SUFFICES ASSUME g[S] \notin T PROVE FALSE
  BY <1>2
<1>5. Cardinality(S) \in Bad
  BY <1>3, <1>4
<1>6. PICK k \in Bad : \A j \in Bad : k <= j
  BY <1>5, LeastExists
<1>7. PICK s \in SUBSET S : Cardinality(s) = k /\ g[s] \notin T
  BY <1>6
<1>8. s # {}
  BY <1>1, <1>7, SumRecOfNothing
<1>9. PICK c : c = Chosen(s)
  OBVIOUS
<1>10. /\ c \in S /\ s \ {c} \in SUBSET S
       /\ Cardinality(s) \in Nat /\ Cardinality(s \ {c}) \in Nat
       /\ Cardinality(s \ {c}) = Cardinality(s) - 1
  BY <1>8, <1>9, ChosenElement
<1>11. g[s] = f[c] + g[s \ {c}]
  <2>1. g[s] = f[Chosen(s)] + g[s \ {Chosen(s)}]
    BY <1>1, <1>8, SumRecUnfolds
  <2> QED  BY <1>9, <2>1
<1>12. Cardinality(s \ {c}) \notin Bad
  <2>1. ~(k <= Cardinality(s \ {c}))
    BY <1>7, <1>10
  <2> QED  BY <1>6, <2>1
<1>13. g[s \ {c}] \in T
  BY <1>10, <1>12
<1>14. f[c] \in T
  BY <1>10
<1> QED  BY <1>7, <1>11, <1>13, <1>14

LEMMA SumsHaveTypes ==
    ASSUME NEW S, IsFiniteSet(S)
    PROVE  /\ \A f \in [S -> Int] : SumFunction(f) \in Int
           /\ \A f \in [S -> Nat] : SumFunction(f) \in Nat
<1>1. \A f \in [S -> Int] : SumFunction(f) \in Int
  BY SumStaysIn
<1>2. \A f \in [S -> Nat] : SumFunction(f) \in Nat
  <2>1. Nat \subseteq Int /\ 0 \in Nat /\ \A a, b \in Nat : a + b \in Nat
    OBVIOUS
  <2> QED  BY <2>1, SumStaysIn
<1> QED  BY <1>1, <1>2

----------------------------------------------------------------------------
\* The ledger of the bonds.
\* A ledger; its amounts are naturals but for the two the books bound below.
Bank ==
    [bonds : [Parties -> [DisputeIds -> Nat]], totalBonded : [Parties -> Int],
     sequencerStake : [Parties -> Nat],
     claimableRewards : [Parties -> [DisputeIds -> Nat]], balance : Int]

RewardsOf(b) == [p \in Parties |-> SumFunction(b.claimableRewards[p])]
\* What a ledger has beyond what it owes.
Surplus(b) == b.balance - (SumFunction(b.totalBonded) + SumFunction(RewardsOf(b)))
TotalsExact(b) ==
    \A p \in Parties : b.totalBonded[p] = b.sequencerStake[p] + SumFunction(b.bonds[p])

\* The sums over a ledger are integers.
LEMMA SumsAreIntegers ==
    ASSUME NEW b \in Bank
    PROVE  /\ SumFunction(b.totalBonded) \in Int /\ SumFunction(RewardsOf(b)) \in Int
           /\ \A p \in Parties : SumFunction(b.bonds[p]) \in Nat
           /\ RewardsOf(b) \in [Parties -> Int]
           /\ Surplus(b) \in Int
<1>1. IsFiniteSet(Parties) /\ IsFiniteSet(DisputeIds)
  BY DisputeGameAssumption
<1>2. \A p \in Parties : /\ b.bonds[p] \in [DisputeIds -> Nat]
                         /\ b.claimableRewards[p] \in [DisputeIds -> Nat]
  BY DEF Bank
<1>3. \A p \in Parties : /\ SumFunction(b.bonds[p]) \in Nat
                         /\ SumFunction(b.claimableRewards[p]) \in Nat
  BY <1>1, <1>2, SumsHaveTypes
<1>4. RewardsOf(b) \in [Parties -> Int]
  BY <1>3 DEF RewardsOf
<1>5. b.totalBonded \in [Parties -> Int] /\ b.balance \in Int
  BY DEF Bank
<1>6. SumFunction(b.totalBonded) \in Int /\ SumFunction(RewardsOf(b)) \in Int
  BY <1>1, <1>4, <1>5, SumsHaveTypes
<1> QED  BY <1>3, <1>4, <1>5, <1>6 DEF Surplus

\* What a payment that changes the total of a party does to the surplus.
LEMMA TotalChanges ==
    ASSUME NEW b \in Bank, NEW c \in Bank, NEW p \in Parties, NEW d \in Int, NEW e \in Int,
           c.totalBonded = [b.totalBonded EXCEPT ![p] = b.totalBonded[p] + d],
           c.claimableRewards = b.claimableRewards, c.balance = b.balance + e
    PROVE  Surplus(c) = Surplus(b) + e - d
<1>1. RewardsOf(c) = RewardsOf(b)
  BY DEF RewardsOf
<1>2. b.totalBonded \in [Parties -> Int] /\ b.balance \in Int
  BY DEF Bank
<1>3. b.totalBonded[p] \in Int /\ b.totalBonded[p] + d \in Int
  BY <1>2
<1>4. SumFunction(c.totalBonded)
         = SumFunction(b.totalBonded) - b.totalBonded[p] + (b.totalBonded[p] + d)
  <2>1. IsFiniteSet(Parties)
    BY DisputeGameAssumption
  <2>2. c.totalBonded \in [Parties -> Int] /\ c.totalBonded[p] = b.totalBonded[p] + d
    BY <1>2, <1>3
  <2>3. \A q \in Parties \ {p} : c.totalBonded[q] = b.totalBonded[q]
    BY <1>2
  <2> QED  BY <1>2, <2>1, <2>2, <2>3, SumChangesAt
<1> QED  BY <1>1, <1>2, <1>3, <1>4, SumsAreIntegers DEF Surplus

\* What a change of one reward does to the surplus.
LEMMA RewardChanges ==
    ASSUME NEW b \in Bank, NEW c \in Bank, NEW p \in Parties, NEW id \in DisputeIds,
           c.totalBonded = b.totalBonded,
           \A q \in Parties \ {p} : c.claimableRewards[q] = b.claimableRewards[q],
           \A i \in DisputeIds \ {id} : c.claimableRewards[p][i] = b.claimableRewards[p][i]
    PROVE  Surplus(c) = Surplus(b) + (c.balance - b.balance)
                        - (c.claimableRewards[p][id] - b.claimableRewards[p][id])
<1>1. PICK f, f1 : f = b.claimableRewards[p] /\ f1 = c.claimableRewards[p]
  OBVIOUS
<1>2. f \in [DisputeIds -> Int] /\ f1 \in [DisputeIds -> Int]
  BY <1>1 DEF Bank
<1>3. \A i \in DisputeIds \ {id} : f1[i] = f[i]
  BY <1>1
<1>4. IsFiniteSet(DisputeIds) /\ IsFiniteSet(Parties)
  BY DisputeGameAssumption
<1>5. SumFunction(f1) = SumFunction(f) - f[id] + f1[id]
  BY <1>2, <1>3, <1>4, SumChangesAt
<1>6. PICK R, R1 : R = RewardsOf(b) /\ R1 = RewardsOf(c)
  OBVIOUS
<1>7. R \in [Parties -> Int] /\ R1 \in [Parties -> Int]
  BY <1>6, SumsAreIntegers
<1>8. /\ R[p] = SumFunction(f) /\ R1[p] = SumFunction(f1)
      /\ \A q \in Parties \ {p} : R1[q] = R[q]
  BY <1>1, <1>6 DEF RewardsOf
<1>9. SumFunction(R1) = SumFunction(R) - R[p] + R1[p] /\ SumFunction(R) \in Int
  BY <1>4, <1>7, <1>8, SumChangesAt
<1>10. R[p] \in Int /\ R1[p] \in Int /\ f[id] \in Int /\ f1[id] \in Int
  BY <1>2, <1>7
<1>11. SumFunction(R1) = SumFunction(R) + (f1[id] - f[id])
  BY <1>5, <1>8, <1>9, <1>10
<1>12. /\ b.balance \in Int /\ c.balance \in Int
       /\ SumFunction(b.totalBonded) \in Int /\ SumFunction(c.totalBonded) \in Int
  BY SumsAreIntegers DEF Bank
<1>13. Surplus(c) = Surplus(b) + (c.balance - b.balance) - (f1[id] - f[id])
  <2>1. /\ Surplus(b) = b.balance - (SumFunction(b.totalBonded) + SumFunction(R))
        /\ Surplus(c) = c.balance - (SumFunction(b.totalBonded) + SumFunction(R1))
    BY <1>6 DEF Surplus
  <2> QED  BY <1>9, <1>10, <1>11, <1>12, <2>1
<1> QED  BY <1>1, <1>13

\* The bonds of a party when one of them changes.
LEMMA BondChanges ==
    ASSUME NEW b \in Bank, NEW c \in Bank, NEW p \in Parties, NEW id \in DisputeIds,
           \A i \in DisputeIds \ {id} : c.bonds[p][i] = b.bonds[p][i]
    PROVE  SumFunction(c.bonds[p]) = SumFunction(b.bonds[p]) - b.bonds[p][id] + c.bonds[p][id]
<1>1. PICK f, f1 : f = b.bonds[p] /\ f1 = c.bonds[p]
  OBVIOUS
<1>2. f \in [DisputeIds -> Int] /\ f1 \in [DisputeIds -> Int]
  BY <1>1 DEF Bank
<1>3. \A i \in DisputeIds \ {id} : f1[i] = f[i]
  BY <1>1
<1>4. IsFiniteSet(DisputeIds)
  BY DisputeGameAssumption
<1>5. SumFunction(f1) = SumFunction(f) - f[id] + f1[id]
  BY <1>2, <1>3, <1>4, SumChangesAt
<1> QED  BY <1>1, <1>5

\* A bond, a stake and a total that change together.
LEMMA TotalsStayExact ==
    ASSUME NEW b \in Bank, TotalsExact(b), NEW c \in Bank, NEW p \in Parties,
           c.totalBonded[p] - c.sequencerStake[p] - SumFunction(c.bonds[p])
             = b.totalBonded[p] - b.sequencerStake[p] - SumFunction(b.bonds[p]),
           \A q \in Parties \ {p} : /\ c.bonds[q] = b.bonds[q]
                                    /\ c.totalBonded[q] = b.totalBonded[q]
                                    /\ c.sequencerStake[q] = b.sequencerStake[q]
    PROVE  TotalsExact(c)
<1>1. /\ c.totalBonded[p] \in Int /\ c.sequencerStake[p] \in Int
      /\ b.totalBonded[p] \in Int /\ b.sequencerStake[p] \in Int
      /\ SumFunction(b.bonds[p]) \in Int /\ SumFunction(c.bonds[p]) \in Int
  <2>1. SumFunction(b.bonds[p]) \in Nat /\ SumFunction(c.bonds[p]) \in Nat
    BY SumsAreIntegers
  <2> QED  BY <2>1 DEF Bank
<1>2. b.totalBonded[p] = b.sequencerStake[p] + SumFunction(b.bonds[p])
  BY DEF TotalsExact
<1>3. c.totalBonded[p] = c.sequencerStake[p] + SumFunction(c.bonds[p])
  BY <1>1, <1>2
<1> QED  BY <1>3 DEF TotalsExact

\* The protocol's share is part of the bond.
LEMMA ShareWithinBond ==
    ASSUME NEW amount \in Nat, NEW bps \in 0..Bps
    PROVE  (amount * bps) \div Bps \in 0..amount
<1>1. PICK m : m = amount * bps
  OBVIOUS
<1>2. m \in Nat /\ m <= amount * Bps
  <2>1. PICK k \in Nat : bps + k = Bps
    <3>1. Bps - bps \in Nat /\ bps + (Bps - bps) = Bps
      BY DEF Bps
    <3> QED  BY <3>1
  <2>2. amount * Bps = amount * bps + amount * k /\ amount * k \in Nat /\ amount * bps \in Nat
    <3> HIDE DEF Bps
    <3>1. bps \in Nat
      BY DEF Bps
    <3> QED  BY <2>1, <3>1
  <2> QED  BY <1>1, <2>2 DEF Bps
<1>3. ASSUME NEW k \in Nat, k <= amount * 10000 PROVE k \div 10000 \in 0..amount
  BY <1>3, SMT
<1>4. m \div 10000 \in 0..amount
  BY <1>2, <1>3 DEF Bps
<1> QED  BY <1>1, <1>4 DEF Bps

----------------------------------------------------------------------------
\* What each operation of the dispute game makes of a ledger.
LEMMA LockBondEffect ==
    ASSUME NEW b \in Bank, NEW p \in Parties, NEW id \in DisputeIds, NEW v, v \in Nat
    PROVE  LET c == LockBond(b, p, id, v)
           IN  /\ c \in Bank /\ Surplus(c) = Surplus(b)
               /\ b.bonds[p][id] = 0 /\ TotalsExact(b) => TotalsExact(c)
               /\ c.bonds = [b.bonds EXCEPT ![p][id] = v]
               /\ c.sequencerStake = b.sequencerStake
<1>1. PICK c : c = LockBond(b, p, id, v)
  OBVIOUS
<1>2. /\ c.bonds = [b.bonds EXCEPT ![p][id] = v]
      /\ c.totalBonded = [b.totalBonded EXCEPT ![p] = b.totalBonded[p] + v]
      /\ c.sequencerStake = b.sequencerStake
      /\ c.claimableRewards = b.claimableRewards
      /\ c.balance = b.balance + v
  BY <1>1 DEF LockBond, Bank
<1>3. /\ c.bonds \in [Parties -> [DisputeIds -> Nat]] /\ c.totalBonded \in [Parties -> Int]
      /\ c.balance \in Int /\ b.sequencerStake \in [Parties -> Nat]
      /\ b.sequencerStake[p] \in Nat
  BY <1>2 DEF Bank
<1>4. c \in Bank
  BY <1>1, <1>2, <1>3 DEF LockBond, Bank
<1>5. Surplus(c) = Surplus(b) + v - v /\ Surplus(b) \in Int
  <2>1. v \in Int
    OBVIOUS
  <2>2. Surplus(c) = Surplus(b) + v - v
    BY <1>2, <1>4, <2>1, TotalChanges
  <2> QED  BY <2>2, SumsAreIntegers
<1>6. ASSUME b.bonds[p][id] = 0, TotalsExact(b) PROVE TotalsExact(c)
  <2>1. SumFunction(c.bonds[p]) = SumFunction(b.bonds[p]) - b.bonds[p][id] + v
    <3>1. /\ c.bonds[p][id] = v
          /\ \A i \in DisputeIds \ {id} : c.bonds[p][i] = b.bonds[p][i]
      BY <1>2, <1>4 DEF Bank
    <3> QED  BY <1>4, <3>1, BondChanges
  <2>2. SumFunction(b.bonds[p]) \in Int /\ b.bonds[p][id] \in Int
    <3>1. SumFunction(b.bonds[p]) \in Nat
      BY SumsAreIntegers
    <3> QED  BY <3>1 DEF Bank
  <2>3. c.totalBonded[p] - c.sequencerStake[p] - SumFunction(c.bonds[p])
           = b.totalBonded[p] - b.sequencerStake[p] - SumFunction(b.bonds[p])
    BY <1>2, <1>3, <1>6, <2>1, <2>2 DEF Bank
  <2>4. \A q \in Parties \ {p} : /\ c.bonds[q] = b.bonds[q]
                                 /\ c.totalBonded[q] = b.totalBonded[q]
                                 /\ c.sequencerStake[q] = b.sequencerStake[q]
    BY <1>2, <1>4 DEF Bank
  <2> QED  BY <1>4, <1>6, <2>3, <2>4, TotalsStayExact
<1> QED  BY <1>1, <1>2, <1>4, <1>5, <1>6

LEMMA LockStakeBondEffect ==
    ASSUME NEW b \in Bank, NEW p \in Parties, NEW id \in DisputeIds, bondAmount \in Nat,
           CanLockStakeBond(b, p, id)
    PROVE  LET c == LockStakeBond(b, p, id)
           IN  /\ c \in Bank /\ Surplus(c) = Surplus(b)
               /\ TotalsExact(b) => TotalsExact(c)
               /\ c.bonds = [b.bonds EXCEPT ![p][id] = bondAmount]
<1>1. PICK c : c = LockStakeBond(b, p, id)
  OBVIOUS
<1>2. /\ c.bonds = [b.bonds EXCEPT ![p][id] = bondAmount]
      /\ c.totalBonded = b.totalBonded
      /\ c.sequencerStake = [b.sequencerStake EXCEPT ![p] = b.sequencerStake[p] - bondAmount]
      /\ c.claimableRewards = b.claimableRewards
      /\ c.balance = b.balance
  BY <1>1 DEF LockStakeBond, Bank
<1>3. /\ b.sequencerStake \in [Parties -> Nat] /\ b.totalBonded \in [Parties -> Int]
      /\ b.sequencerStake[p] \in Nat /\ b.totalBonded[p] \in Int /\ b.balance \in Int
      /\ b.sequencerStake[p] - bondAmount \in Nat /\ b.bonds[p][id] = 0
  BY DEF Bank, CanLockStakeBond
<1>4. /\ c.bonds \in [Parties -> [DisputeIds -> Nat]]
      /\ c.sequencerStake \in [Parties -> Nat]
  BY <1>2, <1>3 DEF Bank
<1>5. c \in Bank
  BY <1>1, <1>2, <1>4 DEF LockStakeBond, Bank
<1>6. /\ c.totalBonded = [b.totalBonded EXCEPT ![p] = b.totalBonded[p] + 0]
      /\ c.balance = b.balance + 0
  BY <1>2, <1>3
<1>7. Surplus(c) = Surplus(b) + 0 - 0 /\ Surplus(b) \in Int
  BY <1>2, <1>5, <1>6, TotalChanges, SumsAreIntegers
<1>8. ASSUME TotalsExact(b) PROVE TotalsExact(c)
  <2>1. SumFunction(c.bonds[p]) = SumFunction(b.bonds[p]) - b.bonds[p][id] + bondAmount
    <3>1. /\ c.bonds[p][id] = bondAmount
          /\ \A i \in DisputeIds \ {id} : c.bonds[p][i] = b.bonds[p][i]
      BY <1>2, <1>5 DEF Bank
    <3> QED  BY <1>5, <3>1, BondChanges
  <2>2. SumFunction(b.bonds[p]) \in Int /\ b.bonds[p][id] \in Int
    <3>1. SumFunction(b.bonds[p]) \in Nat
      BY SumsAreIntegers
    <3> QED  BY <3>1 DEF Bank
  <2>3. c.totalBonded[p] - c.sequencerStake[p] - SumFunction(c.bonds[p])
           = b.totalBonded[p] - b.sequencerStake[p] - SumFunction(b.bonds[p])
    BY <1>2, <1>3, <2>1, <2>2
  <2>4. \A q \in Parties \ {p} : /\ c.bonds[q] = b.bonds[q]
                                 /\ c.totalBonded[q] = b.totalBonded[q]
                                 /\ c.sequencerStake[q] = b.sequencerStake[q]
    BY <1>2, <1>5 DEF Bank
  <2> QED  BY <1>5, <1>8, <2>3, <2>4, TotalsStayExact
<1> QED  BY <1>1, <1>2, <1>5, <1>7, <1>8

LEMMA SlashBondEffect ==
    ASSUME NEW b \in Bank, NEW p \in Parties, NEW id \in DisputeIds,
           protocolShareBps \in 0..Bps
    PROVE  LET c == SlashBond(b, p, id)
           IN  /\ c \in Bank /\ Surplus(c) = Surplus(b) + WinnerShare(b, p, id)
               /\ TotalsExact(b) => TotalsExact(c)
               /\ c.bonds = [b.bonds EXCEPT ![p][id] = 0]
               /\ WinnerShare(b, p, id) \in Nat
<1>1. PICK c : c = SlashBond(b, p, id)
  OBVIOUS
<1>2. PICK x : x = b.bonds[p][id]
  OBVIOUS
<1>3. PICK y : y = ProtocolShare(x)
  OBVIOUS
<1>4. /\ c.bonds = [b.bonds EXCEPT ![p][id] = 0]
      /\ c.totalBonded = [b.totalBonded EXCEPT ![p] = b.totalBonded[p] - x]
      /\ c.sequencerStake = b.sequencerStake
      /\ c.claimableRewards = b.claimableRewards
      /\ c.balance = b.balance - y
  BY <1>1, <1>2, <1>3 DEF SlashBond, Bank
<1>5. /\ b.sequencerStake \in [Parties -> Nat] /\ b.totalBonded \in [Parties -> Int]
      /\ b.sequencerStake[p] \in Nat /\ b.totalBonded[p] \in Int /\ b.balance \in Int
      /\ x \in Nat
  BY <1>2 DEF Bank
<1>6. y \in 0..x
  BY <1>3, <1>5, ShareWithinBond DEF ProtocolShare
<1>7. /\ c.bonds \in [Parties -> [DisputeIds -> Nat]] /\ c.totalBonded \in [Parties -> Int]
      /\ c.balance \in Int
  BY <1>4, <1>5, <1>6 DEF Bank
<1>8. c \in Bank
  BY <1>1, <1>4, <1>7 DEF SlashBond, Bank
<1>9. /\ c.totalBonded = [b.totalBonded EXCEPT ![p] = b.totalBonded[p] + (0 - x)]
      /\ c.balance = b.balance + (0 - y) /\ 0 - x \in Int /\ 0 - y \in Int
  BY <1>4, <1>5, <1>6
<1>10. Surplus(c) = Surplus(b) + (0 - y) - (0 - x) /\ Surplus(b) \in Int
  BY <1>4, <1>8, <1>9, TotalChanges, SumsAreIntegers
<1>11. WinnerShare(b, p, id) = x - y /\ x - y \in Nat
  BY <1>2, <1>3, <1>5, <1>6 DEF WinnerShare
<1>12. ASSUME TotalsExact(b) PROVE TotalsExact(c)
  <2>1. SumFunction(c.bonds[p]) = SumFunction(b.bonds[p]) - b.bonds[p][id] + 0
    <3>1. /\ c.bonds[p][id] = 0
          /\ \A i \in DisputeIds \ {id} : c.bonds[p][i] = b.bonds[p][i]
      BY <1>4, <1>8 DEF Bank
    <3> QED  BY <1>8, <3>1, BondChanges
  <2>2. SumFunction(b.bonds[p]) \in Int /\ b.bonds[p][id] \in Int
    <3>1. SumFunction(b.bonds[p]) \in Nat
      BY SumsAreIntegers
    <3> QED  BY <3>1 DEF Bank
  <2>3. c.totalBonded[p] - c.sequencerStake[p] - SumFunction(c.bonds[p])
           = b.totalBonded[p] - b.sequencerStake[p] - SumFunction(b.bonds[p])
    BY <1>2, <1>4, <1>5, <2>1, <2>2
  <2>4. \A q \in Parties \ {p} : /\ c.bonds[q] = b.bonds[q]
                                 /\ c.totalBonded[q] = b.totalBonded[q]
                                 /\ c.sequencerStake[q] = b.sequencerStake[q]
    BY <1>4, <1>8 DEF Bank
  <2> QED  BY <1>8, <1>12, <2>3, <2>4, TotalsStayExact
<1>13. Surplus(c) = Surplus(b) + (x - y)
  BY <1>5, <1>6, <1>10
<1> QED  BY <1>1, <1>4, <1>8, <1>11, <1>12, <1>13

LEMMA RefundBondEffect ==
    ASSUME NEW b \in Bank, NEW p \in Parties, NEW id \in DisputeIds
    PROVE  LET c == RefundBond(b, p, id)
           IN  /\ c \in Bank /\ Surplus(c) = Surplus(b)
               /\ TotalsExact(b) => TotalsExact(c)
               /\ c.bonds = [b.bonds EXCEPT ![p][id] = 0]
<1>1. PICK c : c = RefundBond(b, p, id)
  OBVIOUS
<1>2. PICK x : x = b.bonds[p][id]
  OBVIOUS
<1>3. /\ c.bonds = [b.bonds EXCEPT ![p][id] = 0]
      /\ c.totalBonded = [b.totalBonded EXCEPT ![p] = b.totalBonded[p] - x]
      /\ c.sequencerStake = b.sequencerStake
      /\ c.claimableRewards = b.claimableRewards
      /\ c.balance = b.balance - x
  BY <1>1, <1>2 DEF RefundBond, Bank
<1>4. /\ b.sequencerStake \in [Parties -> Nat] /\ b.totalBonded \in [Parties -> Int]
      /\ b.sequencerStake[p] \in Nat /\ b.totalBonded[p] \in Int /\ b.balance \in Int
      /\ x \in Nat
  BY <1>2 DEF Bank
<1>5. /\ c.bonds \in [Parties -> [DisputeIds -> Nat]] /\ c.totalBonded \in [Parties -> Int]
      /\ c.balance \in Int
  BY <1>3, <1>4 DEF Bank
<1>6. c \in Bank
  BY <1>1, <1>3, <1>5 DEF RefundBond, Bank
<1>7. /\ c.totalBonded = [b.totalBonded EXCEPT ![p] = b.totalBonded[p] + (0 - x)]
      /\ c.balance = b.balance + (0 - x) /\ 0 - x \in Int
  BY <1>3, <1>4
<1>8. Surplus(c) = Surplus(b) + (0 - x) - (0 - x) /\ Surplus(b) \in Int
  BY <1>3, <1>6, <1>7, TotalChanges, SumsAreIntegers
<1>9. ASSUME TotalsExact(b) PROVE TotalsExact(c)
  <2>1. SumFunction(c.bonds[p]) = SumFunction(b.bonds[p]) - b.bonds[p][id] + 0
    <3>1. /\ c.bonds[p][id] = 0
          /\ \A i \in DisputeIds \ {id} : c.bonds[p][i] = b.bonds[p][i]
      BY <1>3, <1>6 DEF Bank
    <3> QED  BY <1>6, <3>1, BondChanges
  <2>2. SumFunction(b.bonds[p]) \in Int /\ b.bonds[p][id] \in Int
    <3>1. SumFunction(b.bonds[p]) \in Nat
      BY SumsAreIntegers
    <3> QED  BY <3>1 DEF Bank
  <2>3. c.totalBonded[p] - c.sequencerStake[p] - SumFunction(c.bonds[p])
           = b.totalBonded[p] - b.sequencerStake[p] - SumFunction(b.bonds[p])
    BY <1>2, <1>3, <1>4, <2>1, <2>2
  <2>4. \A q \in Parties \ {p} : /\ c.bonds[q] = b.bonds[q]
                                 /\ c.totalBonded[q] = b.totalBonded[q]
                                 /\ c.sequencerStake[q] = b.sequencerStake[q]
    BY <1>3, <1>6 DEF Bank
  <2> QED  BY <1>6, <1>9, <2>3, <2>4, TotalsStayExact
<1>10. Surplus(c) = Surplus(b)
  BY <1>4, <1>8
<1> QED  BY <1>1, <1>3, <1>6, <1>9, <1>10

LEMMA RewardWinnerEffect ==
    ASSUME NEW b \in Bank, NEW p \in Parties, NEW id \in DisputeIds, NEW amount \in Nat
    PROVE  LET c == RewardWinner(b, p, id, amount)
           IN  /\ c \in Bank /\ Surplus(c) = Surplus(b) - amount
               /\ TotalsExact(b) => TotalsExact(c)
               /\ c.bonds = b.bonds
<1>1. PICK c : c = RewardWinner(b, p, id, amount)
  OBVIOUS
<1>2. PICK v : v = b.claimableRewards[p][id] + amount
  OBVIOUS
<1>3. /\ c.claimableRewards = [b.claimableRewards EXCEPT ![p][id] = v]
      /\ c.bonds = b.bonds /\ c.totalBonded = b.totalBonded
      /\ c.sequencerStake = b.sequencerStake /\ c.balance = b.balance
  BY <1>1, <1>2 DEF RewardWinner, Bank
<1>4. b.claimableRewards[p][id] \in Nat /\ v \in Nat /\ b.balance \in Int
  BY <1>2 DEF Bank
<1>5. c.claimableRewards \in [Parties -> [DisputeIds -> Nat]]
  BY <1>3, <1>4 DEF Bank
<1>6. c \in Bank
  BY <1>1, <1>3, <1>5 DEF RewardWinner, Bank
<1>7. /\ c.totalBonded = b.totalBonded
      /\ c.claimableRewards[p][id] = v /\ c.balance = b.balance
      /\ \A q \in Parties \ {p} : c.claimableRewards[q] = b.claimableRewards[q]
      /\ \A i \in DisputeIds \ {id} : c.claimableRewards[p][i] = b.claimableRewards[p][i]
  BY <1>3 DEF Bank
<1>8. Surplus(c) = Surplus(b) + (b.balance - b.balance) - (v - b.claimableRewards[p][id])
  <2>1. Surplus(c) = Surplus(b) + (c.balance - b.balance)
                     - (c.claimableRewards[p][id] - b.claimableRewards[p][id])
    BY <1>6, <1>7, RewardChanges
  <2> QED  BY <1>7, <2>1
<1>9. Surplus(c) = Surplus(b) - amount
  BY <1>2, <1>4, <1>8, SumsAreIntegers
<1>10. TotalsExact(b) => TotalsExact(c)
  BY <1>3 DEF TotalsExact
<1> QED  BY <1>1, <1>3, <1>6, <1>9, <1>10

----------------------------------------------------------------------------
\* The ledger is typed, a resolution in mid-refund owes its winner a reward
\* that the ledger does not show yet, and the ledger covers both.
BondInv ==
    /\ bank \in Bank /\ bondAmount \in Nat /\ protocolShareBps \in 0..Bps
    /\ resolving # NoResolution =>
           /\ resolving.id \in DisputeIds /\ resolving.winner \in Parties
           /\ resolving.reward \in Nat
    /\ TotalsExact(bank)
    /\ Surplus(bank) >= (IF resolving = NoResolution THEN 0 ELSE resolving.reward)

\* The bonds are those of the disputes under way.
BondsHeld ==
    \A id \in DisputeIds :
        /\ \A p \in Parties :
              bank.bonds[p][id] # 0 =>
                  Bisecting(id) /\ p \in {disputes[id].challenger, disputes[id].defender}
        /\ Bisecting(id) =>
              /\ bank.bonds[disputes[id].challenger][id] >= bank.bonds[disputes[id].defender][id]
              /\ disputes[id].challenger # disputes[id].defender

LEMMA BondsUntouched ==
    ASSUME BondInv, BondsHeld, UNCHANGED <<disputes, resolving, bondVars>>
    PROVE  BondInv' /\ BondsHeld'
<1>1. UNCHANGED <<bank, bondAmount, protocolShareBps>>
  BY DEF bondVars, bondConfig
<1>2. BondInv'
  BY <1>1 DEF BondInv, TotalsExact, Surplus, RewardsOf
<1>3. BondsHeld'
  BY <1>1 DEF BondsHeld, Bisecting
<1> QED  BY <1>2, <1>3

\* A ledger whose bonds stay and whose surplus does not shrink.
LEMMA LedgerSteps ==
    ASSUME BondInv, BondsHeld, UNCHANGED <<disputes, resolving, bondAmount, protocolShareBps>>,
           NEW c \in Bank, bank' = c, Surplus(c) = Surplus(bank),
           TotalsExact(c), c.bonds = bank.bonds
    PROVE  BondInv' /\ BondsHeld'
<1>1. Surplus(bank)' = Surplus(c) /\ (TotalsExact(bank)' <=> TotalsExact(c))
  BY DEF Surplus, TotalsExact, RewardsOf
<1>2. BondInv'
  BY <1>1 DEF BondInv
<1>3. BondsHeld'
  BY DEF BondsHeld, Bisecting
<1> QED  BY <1>2, <1>3

\* Stake paid in or out.
LEMMA StakeMoves ==
    ASSUME NEW b \in Bank, NEW p \in Parties, NEW d \in Int, b.sequencerStake[p] + d \in Nat
    PROVE  LET c == [b EXCEPT !.sequencerStake[p] = b.sequencerStake[p] + d,
                              !.totalBonded[p] = b.totalBonded[p] + d,
                              !.balance = b.balance + d]
           IN  /\ c \in Bank /\ Surplus(c) = Surplus(b) /\ c.bonds = b.bonds
               /\ TotalsExact(b) => TotalsExact(c)
<1>0. PICK c : c = [b EXCEPT !.sequencerStake[p] = b.sequencerStake[p] + d,
                             !.totalBonded[p] = b.totalBonded[p] + d,
                             !.balance = b.balance + d]
  OBVIOUS
<1>1. /\ c.bonds = b.bonds
      /\ c.totalBonded = [b.totalBonded EXCEPT ![p] = b.totalBonded[p] + d]
      /\ c.sequencerStake = [b.sequencerStake EXCEPT ![p] = b.sequencerStake[p] + d]
      /\ c.claimableRewards = b.claimableRewards
      /\ c.balance = b.balance + d
  BY <1>0 DEF Bank
<1>2. /\ b.sequencerStake \in [Parties -> Nat] /\ b.totalBonded \in [Parties -> Int]
      /\ b.sequencerStake[p] \in Nat /\ b.totalBonded[p] \in Int /\ b.balance \in Int
  BY DEF Bank
<1>3. /\ c.totalBonded \in [Parties -> Int] /\ c.sequencerStake \in [Parties -> Nat]
      /\ c.balance \in Int
  BY <1>1, <1>2
<1>4. c \in Bank
  BY <1>0, <1>1, <1>3 DEF Bank
<1>5. Surplus(c) = Surplus(b) + d - d /\ Surplus(b) \in Int
  BY <1>1, <1>4, TotalChanges, SumsAreIntegers
<1>6. ASSUME TotalsExact(b) PROVE TotalsExact(c)
  <2>1. SumFunction(b.bonds[p]) \in Nat
    BY SumsAreIntegers
  <2>2. SumFunction(c.bonds[p]) = SumFunction(b.bonds[p])
    BY <1>1
  <2>3. /\ c.totalBonded[p] = b.totalBonded[p] + d
        /\ c.sequencerStake[p] = b.sequencerStake[p] + d
    BY <1>1, <1>2
  <2>4. c.totalBonded[p] - c.sequencerStake[p] - SumFunction(c.bonds[p])
           = b.totalBonded[p] - b.sequencerStake[p] - SumFunction(b.bonds[p])
    BY <1>2, <2>1, <2>2, <2>3
  <2>5. \A q \in Parties \ {p} : /\ c.bonds[q] = b.bonds[q]
                                 /\ c.totalBonded[q] = b.totalBonded[q]
                                 /\ c.sequencerStake[q] = b.sequencerStake[q]
    BY <1>1, <1>2
  <2>6. TotalsExact(b)
    BY <1>6
  <2> QED  BY <1>4, <2>6, <2>4, <2>5, TotalsStayExact
<1>7. Surplus(c) = Surplus(b)
  BY <1>5
<1> QED  BY <1>0, <1>1, <1>4, <1>6, <1>7

LEMMA DepositKeepsBonds ==
    ASSUME BondInv, BondsHeld, UNCHANGED <<disputes, resolving>>,
           NEW p \in Parties, NEW amount \in StakeAmounts, DepositSequencerStake(p, amount)
    PROVE  BondInv' /\ BondsHeld'
<1>1. PICK b \in Bank : b = bank
  BY DEF BondInv
<1>2. PICK d \in Int : d = amount /\ d \in Nat
  BY BondManagerAssumption
<1>3. PICK c : c = [b EXCEPT !.sequencerStake[p] = b.sequencerStake[p] + d,
                             !.totalBonded[p] = b.totalBonded[p] + d,
                             !.balance = b.balance + d]
  OBVIOUS
<1>4. bank' = c /\ UNCHANGED <<bondAmount, protocolShareBps>>
  BY <1>1, <1>2, <1>3 DEF DepositSequencerStake, bondConfig
<1>5. b.sequencerStake[p] + d \in Nat
  BY <1>1, <1>2 DEF Bank
<1>6. /\ c \in Bank /\ Surplus(c) = Surplus(b) /\ c.bonds = b.bonds
      /\ TotalsExact(b) => TotalsExact(c)
  <2>1. b \in Bank /\ d \in Int
    BY <1>1, <1>2
  <2> QED  BY <1>3, <1>5, <2>1, StakeMoves
<1>7. Surplus(c) = Surplus(bank) /\ TotalsExact(c) /\ c.bonds = bank.bonds
  BY <1>1, <1>6 DEF BondInv
<1> QED  BY <1>4, <1>6, <1>7, LedgerSteps

LEMMA WithdrawKeepsBonds ==
    ASSUME BondInv, BondsHeld, UNCHANGED <<disputes, resolving>>,
           NEW p \in Parties, NEW amount \in StakeAmounts, WithdrawSequencerStake(p, amount)
    PROVE  BondInv' /\ BondsHeld'
<1>1. PICK b \in Bank : b = bank
  BY DEF BondInv
<1>2. PICK d \in Int : d = 0 - amount /\ amount \in Nat
  BY BondManagerAssumption
<1>3. PICK c : c = [b EXCEPT !.sequencerStake[p] = b.sequencerStake[p] + d,
                             !.totalBonded[p] = b.totalBonded[p] + d,
                             !.balance = b.balance + d]
  OBVIOUS
<1>4. /\ b.sequencerStake[p] \in Nat /\ b.totalBonded[p] \in Int /\ b.balance \in Int
      /\ amount <= b.sequencerStake[p]
  BY <1>1 DEF Bank, WithdrawSequencerStake
<1>5. /\ b.sequencerStake[p] - amount = b.sequencerStake[p] + d
      /\ b.totalBonded[p] - amount = b.totalBonded[p] + d
      /\ b.balance - amount = b.balance + d
      /\ b.sequencerStake[p] + d \in Nat
  BY <1>2, <1>4
<1>6. bank' = c /\ UNCHANGED <<bondAmount, protocolShareBps>>
  <2>1. /\ bank' = [b EXCEPT !.sequencerStake[p] = b.sequencerStake[p] - amount,
                             !.totalBonded[p] = b.totalBonded[p] - amount,
                             !.balance = b.balance - amount]
        /\ UNCHANGED <<bondAmount, protocolShareBps>>
    BY <1>1 DEF WithdrawSequencerStake, bondConfig
  <2> QED  BY <1>3, <1>5, <2>1
<1>7. /\ c \in Bank /\ Surplus(c) = Surplus(b) /\ c.bonds = b.bonds
      /\ TotalsExact(b) => TotalsExact(c)
  <2>1. b \in Bank /\ d \in Int
    BY <1>1, <1>2
  <2> QED  BY <1>3, <1>5, <2>1, StakeMoves
<1>8. Surplus(c) = Surplus(bank) /\ TotalsExact(c) /\ c.bonds = bank.bonds
  BY <1>1, <1>7 DEF BondInv
<1> QED  BY <1>6, <1>7, <1>8, LedgerSteps

LEMMA ClaimEffect ==
    ASSUME NEW b \in Bank, NEW p \in Parties, NEW id \in DisputeIds
    PROVE  LET c == [b EXCEPT !.claimableRewards[p][id] = 0,
                              !.balance = b.balance - b.claimableRewards[p][id]]
           IN  /\ c \in Bank /\ Surplus(c) = Surplus(b) /\ c.bonds = b.bonds
               /\ TotalsExact(b) => TotalsExact(c)
<1>1. PICK r : r = b.claimableRewards[p][id]
  OBVIOUS
<1>2. PICK c : c = [b EXCEPT !.claimableRewards[p][id] = 0, !.balance = b.balance - r]
  OBVIOUS
<1>3. /\ c.bonds = b.bonds /\ c.totalBonded = b.totalBonded
      /\ c.sequencerStake = b.sequencerStake
      /\ c.claimableRewards = [b.claimableRewards EXCEPT ![p][id] = 0]
      /\ c.balance = b.balance - r
  BY <1>2 DEF Bank
<1>4. r \in Nat /\ b.balance \in Int /\ b.balance - r \in Int
  BY <1>1 DEF Bank
<1>5. c.claimableRewards \in [Parties -> [DisputeIds -> Nat]]
  BY <1>3 DEF Bank
<1>6. c \in Bank
  BY <1>2, <1>3, <1>4, <1>5 DEF Bank
<1>7. /\ c.totalBonded = b.totalBonded
      /\ c.claimableRewards[p][id] = 0 /\ c.balance = b.balance - r
      /\ \A q \in Parties \ {p} : c.claimableRewards[q] = b.claimableRewards[q]
      /\ \A i \in DisputeIds \ {id} : c.claimableRewards[p][i] = b.claimableRewards[p][i]
  BY <1>3 DEF Bank
<1>8. Surplus(c) = Surplus(b) + (b.balance - r - b.balance) - (0 - r)
  <2>1. Surplus(c) = Surplus(b) + (c.balance - b.balance)
                     - (c.claimableRewards[p][id] - b.claimableRewards[p][id])
    BY <1>6, <1>7, RewardChanges
  <2> QED  BY <1>1, <1>7, <2>1
<1>9. Surplus(c) = Surplus(b)
  BY <1>4, <1>8, SumsAreIntegers
<1>10. TotalsExact(b) => TotalsExact(c)
  BY <1>3 DEF TotalsExact
<1> QED  BY <1>1, <1>2, <1>3, <1>6, <1>9, <1>10

LEMMA ClaimKeepsBonds ==
    ASSUME BondInv, BondsHeld, UNCHANGED <<disputes, resolving>>,
           NEW p \in Parties, NEW id \in DisputeIds, ClaimReward(p, id)
    PROVE  BondInv' /\ BondsHeld'
<1>1. PICK b \in Bank : b = bank
  BY DEF BondInv
<1>2. PICK c : c = [b EXCEPT !.claimableRewards[p][id] = 0,
                             !.balance = b.balance - b.claimableRewards[p][id]]
  OBVIOUS
<1>3. bank' = c /\ UNCHANGED <<bondAmount, protocolShareBps>>
  BY <1>1, <1>2 DEF ClaimReward, bondConfig
<1>4. /\ c \in Bank /\ Surplus(c) = Surplus(b) /\ c.bonds = b.bonds
      /\ TotalsExact(b) => TotalsExact(c)
  <2>1. b \in Bank
    BY <1>1
  <2> QED  BY <1>2, <2>1, ClaimEffect
<1>5. Surplus(c) = Surplus(bank) /\ TotalsExact(c) /\ c.bonds = bank.bonds
  BY <1>1, <1>4 DEF BondInv
<1> QED  BY <1>3, <1>4, <1>5, LedgerSteps

LEMMA OwnerKeepsBonds ==
    ASSUME BondInv, BondsHeld, UNCHANGED <<disputes, resolving>>, UNCHANGED bank,
           bondAmount' \in Nat, protocolShareBps' \in 0..Bps
    PROVE  BondInv' /\ BondsHeld'
<1>1. BondInv'
  BY DEF BondInv, TotalsExact, Surplus, RewardsOf
<1>2. BondsHeld'
  BY DEF BondsHeld, Bisecting
<1> QED  BY <1>1, <1>2

LEMMA BondCallKeepsBonds ==
    ASSUME BondInv, BondsHeld, BondCall
    PROVE  BondInv' /\ BondsHeld'
<1>1. UNCHANGED <<disputes, resolving>>
  BY DEF BondCall, gameVars, disputeVars
<1>2. CASE BondPartyNext
  BY <1>1, <1>2, DepositKeepsBonds, WithdrawKeepsBonds, ClaimKeepsBonds DEF BondPartyNext
<1>3. CASE BondOwnerNext \/ \E g \in DisputeGames : SetBondDisputeGame(g)
  <2>1. bondAmount \in Nat /\ protocolShareBps \in 0..Bps
    BY DEF BondInv
  <2>2. /\ bondAmount' \in Nat /\ protocolShareBps' \in 0..Bps /\ UNCHANGED bank
    <3>1. ASSUME NEW amount \in BondAmounts, SetBondAmount(amount)
          PROVE  bondAmount' \in Nat /\ UNCHANGED <<protocolShareBps, bank>>
      BY <3>1, BondManagerAssumption DEF SetBondAmount
    <3>2. ASSUME NEW share \in ShareBps, SetProtocolShareBps(share)
          PROVE  protocolShareBps' \in 0..Bps /\ UNCHANGED <<bondAmount, bank>>
      <4>1. share \in Nat
        BY BondManagerAssumption
      <4> QED  BY <3>2, <4>1 DEF SetProtocolShareBps, Bps
    <3>3. ASSUME NEW g \in DisputeGames, SetBondDisputeGame(g)
          PROVE  UNCHANGED <<bondAmount, protocolShareBps, bank>>
      BY <3>3 DEF SetBondDisputeGame
    <3> QED  BY <1>3, <2>1, <3>1, <3>2, <3>3 DEF BondOwnerNext
  <2> QED  BY <1>1, <2>2, OwnerKeepsBonds
<1> QED  BY <1>2, <1>3 DEF BondCall

----------------------------------------------------------------------------
\* The parties of a dispute: chosen when it starts, and kept.
LEMMA StartDisputeParties ==
    ASSUME L1Inv, VerdictInv, NEW p \in Parties, NEW n \in BatchNumbers,
           NEW r \in StateRoots, NEW v \in StakeAmounts, StartDispute(p, n, r, v)
    PROVE  /\ disputes'[nextDisputeId].challenger = p
           /\ disputes'[nextDisputeId].defender = stateCommitments[n].sequencer
           /\ stateCommitments[n].sequencer \in Parties \ {p}
<1> DEFINE c == stateCommitments[n]
           d == [batchNumber |-> n, challenger |-> p,
                 defender |-> c.sequencer, status |-> "BISECTING",
                 currentTurn |-> "DEFENDER", rangeStart |-> 0,
                 rangeEnd |-> c.l2EndBlock - c.l2StartBlock + 1,
                 agreedStateRoot |-> c.preStateRoot, challengerClaim |-> r,
                 defenderClaim |-> c.postStateRoot, roundCount |-> 0]
<1>1. /\ nextDisputeId \in DisputeIds
      /\ stateCommitments[n] # NoCommitment
      /\ disputes' = [disputes EXCEPT ![nextDisputeId] = d]
      /\ c.sequencer # p
  BY DEF StartDispute, MayDispute
<1>2. c \in StateCommitmentData
  BY <1>1 DEF L1Inv, TypeOK, SettlementTypeOK
<1>3. c.sequencer \in Parties
  BY <1>2, DisputeGameAssumption DEF StateCommitmentData
<1>4. d.challenger = p /\ d.defender = c.sequencer
  OBVIOUS
<1> HIDE DEF d
<1>5. disputes'[nextDisputeId] = d
  BY <1>1 DEF L1Inv, DisputesWellFormed
<1> QED  BY <1>1, <1>3, <1>4, <1>5

LEMMA RespondBisectionParties ==
    ASSUME DisputesWellFormed, NEW p \in Parties, NEW id \in DisputeIds,
           NEW r \in StateRoots, RespondBisection(p, id, r)
    PROVE  /\ disputes'[id].challenger = disputes[id].challenger
           /\ disputes'[id].defender = disputes[id].defender
<1>1. PICK d0 \in Dispute : d0 = disputes[id]
  BY DEF RespondBisection, Bisecting, DisputesWellFormed
<1>2. CASE disputes' = [disputes EXCEPT ![id] =
               [disputes[id] EXCEPT !.defenderClaim = r, !.currentTurn = "CHALLENGER"]]
  <2>1. PICK d1 : d1 = [d0 EXCEPT !.defenderClaim = r, !.currentTurn = "CHALLENGER"]
    OBVIOUS
  <2>2. d1.challenger = d0.challenger /\ d1.defender = d0.defender
    BY <2>1 DEF Dispute
  <2>3. disputes'[id] = d1
    BY <1>1, <1>2, <2>1 DEF DisputesWellFormed
  <2> QED  BY <1>1, <2>2, <2>3
<1>3. CASE disputes' = [disputes EXCEPT ![id] =
               Narrowed([disputes[id] EXCEPT !.challengerClaim = r,
                                             !.currentTurn = "DEFENDER"])]
  <2>1. PICK d1 : d1 = [d0 EXCEPT !.challengerClaim = r, !.currentTurn = "DEFENDER"]
    OBVIOUS
  <2>2. d1 \in Dispute /\ d1.challenger = d0.challenger /\ d1.defender = d0.defender
    BY <1>1, <2>1 DEF Dispute
  <2>3. /\ Narrowed(d1).challenger = d1.challenger
        /\ Narrowed(d1).defender = d1.defender
    BY <2>2 DEF Narrowed, Dispute
  <2>4. disputes'[id] = Narrowed(d1)
    BY <1>1, <1>3, <2>1 DEF DisputesWellFormed
  <2> QED  BY <1>1, <2>2, <2>3, <2>4
<1> QED  BY <1>2, <1>3 DEF RespondBisection

\* A dispute starts with the bonds of its two parties in place.
LEMMA StartDisputeKeepsBonds ==
    ASSUME L1Inv, VerdictInv, BondInv, BondsHeld, NEW p \in Parties, NEW n \in BatchNumbers,
           NEW r \in StateRoots, NEW v \in StakeAmounts, StartDispute(p, n, r, v)
    PROVE  BondInv' /\ BondsHeld'
<1>1. PICK i : i = nextDisputeId
  OBVIOUS
<1>2. PICK b \in Bank : b = bank
  BY DEF BondInv
<1>3. PICK q : q = stateCommitments[n].sequencer
  OBVIOUS
<1>4. /\ i \in DisputeIds /\ disputes[i] = NoDispute
      /\ disputes'[i] # NoDispute /\ disputes'[i].status = "BISECTING"
      /\ \A j \in DisputeIds : j # i => disputes'[j] = disputes[j]
      /\ disputes'[i].challenger = p /\ disputes'[i].defender = q
      /\ q \in Parties /\ q # p
  BY <1>1, <1>3, StartDisputeEffect, StartDisputeParties
<1>5. \A o \in Parties : b.bonds[o][i] = 0
  BY <1>2, <1>4 DEF BondsHeld, Bisecting
<1>6. v \in Nat /\ bondAmount \in Nat
  BY BondManagerAssumption DEF BondInv
<1>7. PICK c : c = LockBond(b, p, i, v)
  OBVIOUS
<1>8. PICK e : e = LockStakeBond(c, q, i)
  OBVIOUS
<1>9. /\ v >= bondAmount /\ CanLockStakeBond(c, q, i) /\ bank' = e
      /\ UNCHANGED <<bondAmount, protocolShareBps, resolving>>
  BY <1>1, <1>2, <1>3, <1>7, <1>8 DEF StartDispute, CanLockBond, bondConfig
<1>10. /\ c \in Bank /\ Surplus(c) = Surplus(b) /\ (TotalsExact(b) => TotalsExact(c))
       /\ c.bonds = [b.bonds EXCEPT ![p][i] = v]
  BY <1>4, <1>5, <1>6, <1>7, LockBondEffect
<1>11. /\ e \in Bank /\ Surplus(e) = Surplus(c) /\ (TotalsExact(c) => TotalsExact(e))
       /\ e.bonds = [c.bonds EXCEPT ![q][i] = bondAmount]
  BY <1>4, <1>6, <1>8, <1>9, <1>10, LockStakeBondEffect
<1>12. BondInv'
  <2>1. Surplus(bank)' = Surplus(e) /\ (TotalsExact(bank)' <=> TotalsExact(e))
    BY <1>9 DEF Surplus, TotalsExact, RewardsOf
  <2> QED  BY <1>2, <1>9, <1>10, <1>11, <2>1 DEF BondInv
<1>13. /\ e.bonds[p][i] = v /\ e.bonds[q][i] = bondAmount
       /\ \A o \in Parties \ {p, q} : e.bonds[o][i] = 0
       /\ \A o \in Parties, j \in DisputeIds \ {i} : e.bonds[o][j] = b.bonds[o][j]
  BY <1>4, <1>5, <1>10, <1>11 DEF Bank
<1>14. ASSUME NEW j \in DisputeIds
       PROVE  /\ \A o \in Parties :
                    bank'.bonds[o][j] # 0 =>
                        Bisecting(j)' /\ o \in {disputes'[j].challenger, disputes'[j].defender}
              /\ Bisecting(j)' =>
                    /\ bank'.bonds[disputes'[j].challenger][j]
                           >= bank'.bonds[disputes'[j].defender][j]
                    /\ disputes'[j].challenger # disputes'[j].defender
  <2>1. CASE j = i
    BY <1>4, <1>9, <1>13, <2>1 DEF Bisecting
  <2>2. CASE j # i
    <3>1. disputes'[j] = disputes[j] /\ (Bisecting(j)' <=> Bisecting(j))
      BY <1>4, <2>2 DEF Bisecting
    <3>2. \A o \in Parties : bank'.bonds[o][j] = bank.bonds[o][j]
      BY <1>2, <1>9, <1>13, <2>2
    <3>3. Bisecting(j) => disputes[j].challenger \in Parties /\ disputes[j].defender \in Parties
      BY DEF Bisecting, L1Inv, DisputesWellFormed, Dispute
    <3> QED  BY <3>1, <3>2, <3>3 DEF BondsHeld
  <2> QED  BY <2>1, <2>2
<1> QED  BY <1>12, <1>14 DEF BondsHeld

LEMMA RespondBisectionKeepsBonds ==
    ASSUME DisputesWellFormed, BondInv, BondsHeld, NEW p \in Parties, NEW id \in DisputeIds,
           NEW r \in StateRoots, RespondBisection(p, id, r)
    PROVE  BondInv' /\ BondsHeld'
<1>1. UNCHANGED <<bank, bondAmount, protocolShareBps, resolving>>
  BY DEF RespondBisection, bondVars, bondConfig
<1>2. BondInv'
  BY <1>1 DEF BondInv, TotalsExact, Surplus, RewardsOf
<1>3. /\ Bisecting(id) /\ Bisecting(id)'
      /\ disputes'[id].challenger = disputes[id].challenger
      /\ disputes'[id].defender = disputes[id].defender
      /\ \A i \in DisputeIds : i # id => disputes'[i] = disputes[i]
  BY RespondBisectionEffect, RespondBisectionParties DEF Bisecting
<1>4. \A i \in DisputeIds : Bisecting(i)' <=> Bisecting(i)
  BY <1>3 DEF Bisecting
<1>5. \A i \in DisputeIds : /\ disputes'[i].challenger = disputes[i].challenger
                            /\ disputes'[i].defender = disputes[i].defender
  BY <1>3
<1>6. BondsHeld'
  BY <1>1, <1>4, <1>5 DEF BondsHeld
<1> QED  BY <1>2, <1>6

\* A resolution empties both bonds of its dispute; what the loser's leaves
\* after the protocol's share is the reward still to be credited.
LEMMA SettleKeepsBonds ==
    ASSUME DisputesWellFormed, BondInv, BondsHeld, NEW id \in DisputeIds, NEW w, NEW l,
           {w, l} = {disputes[id].challenger, disputes[id].defender},
           NEW s \in Statuses \ {"BISECTING"}, Bisecting(id), Settle(id, w, l, s)
    PROVE  BondInv' /\ BondsHeld'
<1>1. PICK b \in Bank : b = bank
  BY DEF BondInv
<1>2. PICK c : c = SlashBond(b, l, id)
  OBVIOUS
<1>3. PICK e : e = RefundBond(c, w, id)
  OBVIOUS
<1>4. PICK share : share = WinnerShare(b, l, id)
  OBVIOUS
<1>5. /\ bank' = e /\ resolving = NoResolution
      /\ UNCHANGED <<bondAmount, protocolShareBps>>
      /\ resolving' = [id |-> id, winner |-> w, reward |-> share, outer |-> entered]
  BY <1>1, <1>2, <1>3, <1>4 DEF Settle, bondConfig
<1>6. w \in Parties /\ l \in Parties
  <2>1. disputes[id] \in Dispute
    BY DEF Bisecting, DisputesWellFormed
  <2>2. disputes[id].challenger \in Parties /\ disputes[id].defender \in Parties
    BY <2>1 DEF Dispute
  <2> QED  BY <2>2
<1>7. /\ c \in Bank /\ Surplus(c) = Surplus(b) + share /\ (TotalsExact(b) => TotalsExact(c))
      /\ c.bonds = [b.bonds EXCEPT ![l][id] = 0] /\ share \in Nat
  <2>1. protocolShareBps \in 0..Bps
    BY DEF BondInv
  <2> QED  BY <1>2, <1>4, <1>6, <2>1, SlashBondEffect
<1>8. /\ e \in Bank /\ Surplus(e) = Surplus(c) /\ (TotalsExact(c) => TotalsExact(e))
      /\ e.bonds = [c.bonds EXCEPT ![w][id] = 0]
  <2>1. c \in Bank /\ w \in Parties
    BY <1>6, <1>7
  <2> QED  BY <1>3, <2>1, RefundBondEffect
<1>9. BondInv'
  <2>1. Surplus(bank)' = Surplus(e) /\ (TotalsExact(bank)' <=> TotalsExact(e))
    BY <1>5 DEF Surplus, TotalsExact, RewardsOf
  <2>2. Surplus(b) >= 0 /\ TotalsExact(b) /\ Surplus(b) \in Int
    BY <1>1, <1>5, SumsAreIntegers DEF BondInv
  <2>3. Surplus(e) >= share
    BY <1>7, <1>8, <2>2
  <2>4. /\ resolving'.id \in DisputeIds /\ resolving'.winner \in Parties
        /\ resolving'.reward \in Nat /\ resolving'.reward = share
    BY <1>5, <1>6, <1>7
  <2>5. share >= 0
    BY <1>7
  <2>6. Surplus(e) >= 0
    BY <1>7, <1>8, <2>2
  <2>7. bondAmount' \in Nat /\ protocolShareBps' \in 0..Bps /\ bank' \in Bank
    BY <1>5, <1>8 DEF BondInv
  <2> QED  BY <1>7, <1>8, <2>1, <2>2, <2>3, <2>4, <2>6, <2>7 DEF BondInv
<1>10. /\ e.bonds[w][id] = 0 /\ e.bonds[l][id] = 0
       /\ \A o \in Parties \ {w, l} : e.bonds[o][id] = b.bonds[o][id]
       /\ \A o \in Parties, j \in DisputeIds \ {id} : e.bonds[o][j] = b.bonds[o][j]
  BY <1>6, <1>7, <1>8 DEF Bank
<1>11. /\ disputes'[id].status # "BISECTING"
       /\ \A i \in DisputeIds : i # id => disputes'[i] = disputes[i]
  BY SettleEffect
<1>12. \A o \in Parties : e.bonds[o][id] = 0
  <2>1. \A o \in Parties \ {w, l} : b.bonds[o][id] = 0
    BY <1>1 DEF BondsHeld
  <2> QED  BY <1>10, <2>1
<1>13. ASSUME NEW j \in DisputeIds
       PROVE  /\ \A o \in Parties :
                    bank'.bonds[o][j] # 0 =>
                        Bisecting(j)' /\ o \in {disputes'[j].challenger, disputes'[j].defender}
              /\ Bisecting(j)' =>
                    /\ bank'.bonds[disputes'[j].challenger][j]
                           >= bank'.bonds[disputes'[j].defender][j]
                    /\ disputes'[j].challenger # disputes'[j].defender
  <2>1. CASE j = id
    BY <1>5, <1>11, <1>12, <2>1 DEF Bisecting
  <2>2. CASE j # id
    <3>1. disputes'[j] = disputes[j] /\ (Bisecting(j)' <=> Bisecting(j))
      BY <1>11, <2>2 DEF Bisecting
    <3>2. \A o \in Parties : bank'.bonds[o][j] = bank.bonds[o][j]
      BY <1>1, <1>5, <1>10, <2>2
    <3>3. Bisecting(j) => disputes[j].challenger \in Parties /\ disputes[j].defender \in Parties
      BY DEF Bisecting, DisputesWellFormed, Dispute
    <3> QED  BY <3>1, <3>2, <3>3 DEF BondsHeld
  <2> QED  BY <2>1, <2>2
<1> QED  BY <1>9, <1>13 DEF BondsHeld

LEMMA FinishSettlementKeepsBonds ==
    ASSUME BondInv, BondsHeld, FinishSettlement
    PROVE  BondInv' /\ BondsHeld'
<1>1. PICK b \in Bank : b = bank
  BY DEF BondInv
<1>2. PICK p, i, a : p = resolving.winner /\ i = resolving.id /\ a = resolving.reward
  OBVIOUS
<1>3. p \in Parties /\ i \in DisputeIds /\ a \in Nat /\ Surplus(b) >= a /\ TotalsExact(b)
  BY <1>1, <1>2 DEF BondInv, FinishSettlement
<1>4. PICK c : c = RewardWinner(b, p, i, a)
  OBVIOUS
<1>5. /\ bank' = c /\ resolving' = NoResolution
      /\ UNCHANGED <<disputes, bondAmount, protocolShareBps>>
  BY <1>1, <1>2, <1>4 DEF FinishSettlement, bondConfig
<1>6. /\ c \in Bank /\ Surplus(c) = Surplus(b) - a /\ (TotalsExact(b) => TotalsExact(c))
      /\ c.bonds = b.bonds
  BY <1>3, <1>4, RewardWinnerEffect
<1>7. Surplus(b) \in Int
  BY SumsAreIntegers
<1>8. Surplus(c) >= 0
  BY <1>3, <1>6, <1>7
<1>9. BondInv'
  <2>1. Surplus(bank)' = Surplus(c) /\ (TotalsExact(bank)' <=> TotalsExact(c))
    BY <1>5 DEF Surplus, TotalsExact, RewardsOf
  <2> QED  BY <1>3, <1>5, <1>6, <1>8, <2>1 DEF BondInv
<1>10. BondsHeld'
  BY <1>1, <1>5, <1>6 DEF BondsHeld, Bisecting
<1> QED  BY <1>9, <1>10

LEMMA BondStep ==
    ASSUME L1Inv, VerdictInv, BondInv, BondsHeld, [L1Next]_l1Vars
    PROVE  BondInv' /\ BondsHeld'
<1> USE DEF L1Inv
<1>1. CASE UNCHANGED <<gameVars, bondVars>>
  BY <1>1, BondsUntouched DEF gameVars, disputeVars
<1>2. CASE BridgeCall
  BY <1>1, <1>2, BondsUntouched DEF BridgeCall, Age, disputeVars
<1>3. CASE DayPasses
  BY <1>3, BondsUntouched DEF DayPasses, Age, disputeVars
<1>4. CASE GameCall
  <2>1. ASSUME NEW id \in DisputeIds, NEW claim \in TransitionClaims, ResolveDispute(id, claim)
        PROVE  BondInv' /\ BondsHeld'
    BY <2>1, SettleKeepsBonds DEF ResolveDispute, Statuses
  <2>2. ASSUME NEW id \in DisputeIds, Timeout(id) PROVE BondInv' /\ BondsHeld'
    BY <2>2, SettleKeepsBonds DEF Timeout, Statuses
  <2>3. ASSUME GameOwnerNext PROVE BondInv' /\ BondsHeld'
    BY <2>3, BondsUntouched
    DEF GameOwnerNext, SetResponseTimeout, SetMaxDisputesPerBatch, disputeVars
  <2> QED
    BY <1>4, <2>1, <2>2, <2>3, StartDisputeKeepsBonds, RespondBisectionKeepsBonds,
       FinishSettlementKeepsBonds DEF GameCall, GamePartyNext
<1> QED
  BY <1>1, <1>2, <1>3, <1>4, BondCallKeepsBonds
  DEF L1Next, SettlementCall, OtherGameCall, l1Vars

LEMMA BondInvHolds == L1Spec => [](BondInv /\ BondsHeld)
<1>1. ASSUME L1Init PROVE BondInv /\ BondsHeld
  <2>1. /\ bank = EmptyBank /\ resolving = NoResolution
        /\ disputes = [id \in DisputeIds |-> NoDispute]
        /\ bondAmount \in Nat /\ protocolShareBps \in 0..Bps
    BY <1>1, BondManagerAssumption DEF L1Init, GameInit, Bps
  <2>2. PICK b : b = EmptyBank
    OBVIOUS
  <2>3. /\ b \in Bank /\ b.balance = 0
        /\ b.totalBonded = [p \in Parties |-> 0]
        /\ \A p \in Parties : /\ b.bonds[p] = [id \in DisputeIds |-> 0]
                              /\ b.claimableRewards[p] = [id \in DisputeIds |-> 0]
                              /\ b.sequencerStake[p] = 0
    BY <2>2 DEF EmptyBank, Bank
  <2>4. IsFiniteSet(Parties) /\ IsFiniteSet(DisputeIds)
    BY DisputeGameAssumption
  <2>5. /\ SumFunction([id \in DisputeIds |-> 0]) = 0
        /\ SumFunction([p \in Parties |-> 0]) = 0
    BY <2>4, SumOfZeros
  <2>6. RewardsOf(b) = [p \in Parties |-> 0]
    BY <2>3, <2>5 DEF RewardsOf
  <2>7. Surplus(b) = 0
    BY <2>3, <2>5, <2>6 DEF Surplus
  <2>8. TotalsExact(b)
    BY <2>3, <2>5 DEF TotalsExact
  <2>9. BondInv
    BY <2>1, <2>2, <2>3, <2>7, <2>8 DEF BondInv
  <2>10. BondsHeld
    BY <2>1, <2>2, <2>3 DEF BondsHeld, Bisecting
  <2> QED  BY <2>9, <2>10
<1>2. ASSUME L1Inv, VerdictInv, BondInv /\ BondsHeld, [L1Next]_l1Vars
      PROVE  (BondInv /\ BondsHeld)'
  BY <1>2, BondStep
<1> QED  BY <1>1, <1>2, L1InvHolds, VerdictInvHolds, PTL DEF L1Spec

\* A bond is held only for the two parties of a dispute under way, and the
\* challenger's is never the smaller one.
THEOREM BondsAlwaysFollowDisputes == L1Spec => []BondsFollowDisputes
<1>1. BondsHeld => BondsFollowDisputes
  BY DEF BondsHeld, BondsFollowDisputes
<1> QED  BY <1>1, BondInvHolds, PTL

\* The contract can always pay what its ledger owes.
THEOREM BondsAlwaysCovered == L1Spec => []BondsAreCovered
<1>1. ASSUME BondInv PROVE BondsAreCovered
  <2>1. /\ Owed = SumFunction(bank.totalBonded) + SumFunction(RewardsOf(bank))
        /\ bank \in Bank /\ bank.balance \in Int
    BY <1>1 DEF Owed, RewardsOf, BondInv, Bank
  <2>2. Surplus(bank) >= 0
    <3>1. CASE resolving = NoResolution
      BY <1>1, <3>1 DEF BondInv
    <3>2. CASE resolving # NoResolution
      <4>1. resolving.reward \in Nat /\ Surplus(bank) >= resolving.reward
        BY <1>1, <3>2 DEF BondInv
      <4>2. Surplus(bank) \in Int
        BY <2>1, SumsAreIntegers
      <4> QED  BY <4>1, <4>2
    <3> QED  BY <3>1, <3>2
  <2>3. SumFunction(bank.totalBonded) \in Int /\ SumFunction(RewardsOf(bank)) \in Int
    BY <2>1, SumsAreIntegers
  <2>4. bank.balance >= Owed
    BY <2>1, <2>2, <2>3 DEF Surplus
  <2>5. TotalsExact(bank)
    BY <1>1 DEF BondInv
  <2> QED  BY <2>4, <2>5 DEF BondsAreCovered, TotalsExact
<1> QED  BY <1>1, BondInvHolds, PTL

----------------------------------------------------------------------------
\* The powers of two, defined by recursion and known by minimal counterexample.
\* The powers up to a bound, which exist whatever the bound, and agree.
PowersUpto(k, g) == g = [r \in 0..k |-> IF r = 0 THEN 1 ELSE 2 * g[r - 1]]

LEMMA PowersUptoExist ==
    ASSUME NEW n \in Nat
    PROVE  \E g : PowersUpto(n, g)
<1> DEFINE Bad == {k \in Nat : ~ \E g : PowersUpto(k, g)}
<1>1. SUFFICES ASSUME Bad # {} PROVE FALSE
  OBVIOUS
<1>2. PICK k \in Bad : \A j \in Bad : k <= j
  BY <1>1, LeastExists
<1>3. CASE k = 0
  <2> DEFINE g == [r \in 0..0 |-> 1]
  <2>1. \A r \in 0..0 : r = 0
    OBVIOUS
  <2>2. PowersUpto(0, g)
    BY <2>1 DEF PowersUpto
  <2> HIDE DEF g
  <2> QED  BY <1>3, <2>2
<1>4. CASE k # 0
  <2>1. k - 1 \in Nat /\ ~(k <= k - 1) /\ k \in Nat
    BY <1>4
  <2>2. PICK h : PowersUpto(k - 1, h)
    BY <1>2, <2>1
  <2> DEFINE g == [r \in 0..k |-> IF r = 0 THEN 1 ELSE 2 * h[r - 1]]
  <2>3. ASSUME NEW r \in 0..(k - 1) PROVE g[r] = h[r]
    <3>1. h[r] = IF r = 0 THEN 1 ELSE 2 * h[r - 1]
      BY <2>2, <2>3 DEF PowersUpto
    <3>2. r \in 0..k
      BY <2>1, <2>3
    <3> QED  BY <3>1, <3>2
  <2>4. ASSUME NEW r \in 0..k, r # 0 PROVE r - 1 \in 0..(k - 1)
    BY <2>1, <2>4
  <2>5. \A r \in 0..k : r # 0 => g[r - 1] = h[r - 1]
    BY <2>3, <2>4
  <2>6. PowersUpto(k, g)
    <3>1. g = [r \in 0..k |-> IF r = 0 THEN 1 ELSE 2 * h[r - 1]]
      OBVIOUS
    <3> HIDE DEF g
    <3>2. g = [r \in 0..k |-> IF r = 0 THEN 1 ELSE 2 * g[r - 1]]
      BY <2>5, <3>1
    <3> QED  BY <3>2 DEF PowersUpto
  <2> HIDE DEF g
  <2> QED  BY <2>6
<1> QED  BY <1>3, <1>4

LEMMA PowersUptoAgree ==
    ASSUME NEW m \in Nat, NEW n \in Nat, NEW g, PowersUpto(m, g), NEW h, PowersUpto(n, h)
    PROVE  \A r \in Nat : r <= m /\ r <= n => g[r] = h[r]
<1> DEFINE Bad == {r \in Nat : r <= m /\ r <= n /\ g[r] # h[r]}
<1>1. SUFFICES ASSUME Bad # {} PROVE FALSE
  OBVIOUS
<1>2. PICK k \in Bad : \A j \in Bad : k <= j
  BY <1>1, LeastExists
<1>3. k \in 0..m /\ k \in 0..n /\ k \in Nat /\ g[k] # h[k]
  BY <1>2
<1>4. /\ g[k] = IF k = 0 THEN 1 ELSE 2 * g[k - 1]
      /\ h[k] = IF k = 0 THEN 1 ELSE 2 * h[k - 1]
  BY <1>3 DEF PowersUpto
<1>5. k # 0
  BY <1>3, <1>4
<1>6. k - 1 \in Nat /\ k - 1 <= m /\ k - 1 <= n /\ ~(k <= k - 1)
  BY <1>3, <1>5
<1>7. g[k - 1] = h[k - 1]
  BY <1>2, <1>6
<1> QED  BY <1>3, <1>4, <1>5, <1>7

\* The powers of two are what their definition says.
LEMMA PowersDefined ==
    PowerOfTwo = [r \in Nat |-> IF r = 0 THEN 1 ELSE 2 * PowerOfTwo[r - 1]]
<1> DEFINE P(g) == g = [r \in Nat |-> IF r = 0 THEN 1 ELSE 2 * g[r - 1]]
           U(r) == CHOOSE g : PowersUpto(r, g)
           G == [r \in Nat |-> U(r)[r]]
<1>1. \A r \in Nat : PowersUpto(r, U(r))
  BY PowersUptoExist
<1> HIDE DEF U
<1>2. ASSUME NEW r \in Nat PROVE G[r] = IF r = 0 THEN 1 ELSE 2 * G[r - 1]
  <2>1. U(r)[r] = IF r = 0 THEN 1 ELSE 2 * U(r)[r - 1]
    <3>1. r \in 0..r
      OBVIOUS
    <3> QED  BY <1>1, <3>1 DEF PowersUpto
  <2>2. CASE r = 0
    BY <2>1, <2>2
  <2>3. CASE r # 0
    <3>1. r - 1 \in Nat /\ r - 1 <= r /\ r - 1 <= r - 1
      BY <2>3
    <3>2. U(r)[r - 1] = U(r - 1)[r - 1]
      BY <1>1, <3>1, PowersUptoAgree
    <3> QED  BY <2>1, <2>3, <3>1, <3>2
  <2> QED  BY <2>2, <2>3
<1>3. G = [r \in Nat |-> IF r = 0 THEN 1 ELSE 2 * G[r - 1]]
  <2>1. G = [r \in Nat |-> U(r)[r]]
    OBVIOUS
  <2>2. \A r \in Nat : U(r)[r] = G[r]
    OBVIOUS
  <2> HIDE DEF G
  <2> QED  BY <1>2, <2>1, <2>2
<1>4. P(G)
  BY <1>3
<1> HIDE DEF G
<1>5. P(CHOOSE g : P(g))
  BY <1>4
<1> QED  BY <1>5 DEF PowerOfTwo

LEMMA PowersAreNaturals ==
    ASSUME NEW r \in Nat
    PROVE  PowerOfTwo[r] \in Nat
<1> DEFINE Bad == {k \in Nat : PowerOfTwo[k] \notin Nat}
<1>1. SUFFICES ASSUME Bad # {} PROVE FALSE
  OBVIOUS
<1>2. PICK k \in Bad : \A j \in Bad : k <= j
  BY <1>1, LeastExists
<1>3. PowerOfTwo[k] = IF k = 0 THEN 1 ELSE 2 * PowerOfTwo[k - 1]
  BY <1>2, PowersDefined
<1>4. k # 0
  BY <1>2, <1>3
<1>5. k - 1 \in Nat /\ ~(k <= k - 1)
  BY <1>2, <1>4
<1>6. PowerOfTwo[k - 1] \in Nat
  BY <1>2, <1>5
<1> QED  BY <1>2, <1>3, <1>4, <1>6

----------------------------------------------------------------------------
\* The ranges of the disputes.
\* A range within the steps of a batch, narrowed as often as it should be.
StepsOf(c) == c.l2EndBlock - c.l2StartBlock + 1
HalvedRange(d, steps) ==
    /\ 0 <= d.rangeEnd - d.rangeStart
    /\ d.rangeEnd <= steps
    /\ (d.rangeEnd - d.rangeStart - 1) * PowerOfTwo[d.roundCount] < steps

RangesHalve ==
    \A id \in DisputeIds :
        disputes[id] # NoDispute =>
            LET c == stateCommitments[disputes[id].batchNumber]
            IN  c # NoCommitment /\ HalvedRange(disputes[id], StepsOf(c))

LEMMA HalfTimesTwice ==
    ASSUME NEW w \in Int, NEW u \in Int, 2 * u <= w, NEW p \in Nat, NEW n \in Int, w * p < n
    PROVE  u * (2 * p) < n
<1>1. PICK k \in Nat : 2 * u + k = w
  <2>1. w - 2 * u \in Nat /\ 2 * u + (w - 2 * u) = w
    OBVIOUS
  <2> QED  BY <2>1
<1>2. w * p = u * (2 * p) + k * p /\ k * p \in Nat /\ u * (2 * p) \in Int /\ w * p \in Int
  BY <1>1
<1> QED  BY <1>2

\* A narrower range fits wherever a wider one does.
LEMMA NarrowerFits ==
    ASSUME NEW w \in Int, NEW u \in Int, u <= w, NEW p \in Nat, NEW n \in Int, w * p < n
    PROVE  u * p < n
<1>1. PICK k \in Nat : u + k = w
  <2>1. w - u \in Nat /\ u + (w - u) = w
    OBVIOUS
  <2> QED  BY <2>1
<1>2. w * p = u * p + k * p /\ k * p \in Nat /\ u * p \in Int /\ w * p \in Int
  BY <1>1
<1> QED  BY <1>2

\* A round halves the range, whichever half it keeps.
LEMMA NarrowedHalves ==
    ASSUME NEW d \in Dispute, NEW n \in Int, HalvedRange(d, n)
    PROVE  HalvedRange(Narrowed(d), n)
<1>1. PICK s, e, m, k : /\ s = d.rangeStart /\ e = d.rangeEnd /\ m = Midpoint(d)
                        /\ k = d.roundCount
  OBVIOUS
<1>2. s \in Nat /\ e \in Nat /\ k \in Nat /\ m = (s + e) \div 2
  BY <1>1 DEF Dispute, Midpoint
<1>3. s <= e /\ e <= n /\ (e - s - 1) * PowerOfTwo[k] < n
  BY <1>1, <1>2 DEF HalvedRange
<1>4. m \in Nat /\ 2 * m <= s + e /\ s + e <= 2 * m + 1
  BY <1>2
<1>5. s <= m /\ m <= e
  BY <1>2, <1>3, <1>4
<1>6. /\ PowerOfTwo[k] \in Nat /\ PowerOfTwo[k + 1] = 2 * PowerOfTwo[k]
  <2>1. k + 1 \in Nat /\ k + 1 # 0 /\ (k + 1) - 1 = k
    BY <1>2
  <2>2. PowerOfTwo[k + 1] = IF k + 1 = 0 THEN 1 ELSE 2 * PowerOfTwo[(k + 1) - 1]
    BY <2>1, PowersDefined
  <2> QED  BY <1>2, <2>1, <2>2, PowersAreNaturals
<1>7. (e - m - 1) * PowerOfTwo[k + 1] < n
  <2>1. 2 * (e - m - 1) <= e - s - 1 /\ e - m - 1 \in Int /\ e - s - 1 \in Int
    BY <1>2, <1>4
  <2>2. (e - m - 1) * (2 * PowerOfTwo[k]) < n
    BY <1>3, <1>6, <2>1, HalfTimesTwice
  <2> QED  BY <1>6, <2>2
<1>8. (m - s - 1) * PowerOfTwo[k + 1] < n
  <2>1. 2 * (m - s - 1) <= e - s - 1 /\ m - s - 1 \in Int /\ e - s - 1 \in Int
    BY <1>2, <1>4
  <2>2. (m - s - 1) * (2 * PowerOfTwo[k]) < n
    BY <1>3, <1>6, <2>1, HalfTimesTwice
  <2> QED  BY <1>6, <2>2
<1>11. (e - m - 1) * PowerOfTwo[k] < n /\ (m - s - 1) * PowerOfTwo[k] < n
  <2>1. /\ e - m - 1 <= e - s - 1 /\ e - m - 1 \in Int /\ e - s - 1 \in Int
        /\ m - s - 1 <= e - s - 1 /\ m - s - 1 \in Int
    BY <1>2, <1>4, <1>5
  <2> QED  BY <1>3, <1>6, <2>1, NarrowerFits
<1>12. PICK r : r = OneMoreRound(d)
  OBVIOUS
<1>13. r = k + 1 \/ r = k
  BY <1>1, <1>12 DEF OneMoreRound
<1>9. CASE d.challengerClaim = d.defenderClaim
  <2>1. /\ Narrowed(d).rangeStart = m /\ Narrowed(d).rangeEnd = e
        /\ Narrowed(d).roundCount = r
    BY <1>1, <1>12, <1>9 DEF Narrowed, Dispute
  <2>2. (e - m - 1) * PowerOfTwo[r] < n
    BY <1>7, <1>11, <1>13
  <2> QED  BY <1>2, <1>3, <1>4, <1>5, <2>1, <2>2 DEF HalvedRange
<1>10. CASE d.challengerClaim # d.defenderClaim
  <2>1. /\ Narrowed(d).rangeStart = s /\ Narrowed(d).rangeEnd = m
        /\ Narrowed(d).roundCount = r
    BY <1>1, <1>12, <1>10 DEF Narrowed, Dispute
  <2>2. m <= n
    BY <1>2, <1>3, <1>4, <1>5
  <2>3. (m - s - 1) * PowerOfTwo[r] < n
    BY <1>11, <1>8, <1>13
  <2> QED  BY <1>2, <1>4, <1>5, <2>1, <2>2, <2>3 DEF HalvedRange
<1> QED  BY <1>9, <1>10

\* A commitment is never replaced.
LEMMA CommitmentsStay ==
    ASSUME SettlementTypeOK, [Next]_vars, NEW n \in BatchNumbers, stateCommitments[n] # NoCommitment
    PROVE  stateCommitments'[n] = stateCommitments[n]
<1>1. CASE \E a \in Addresses, m \in BatchNumbers, b \in Blocks, mode \in DaModes :
               SubmitStateBatchWithDA(a, m, b, mode)
  <2>1. PICK a \in Addresses, m \in BatchNumbers, b \in Blocks, mode \in DaModes :
             SubmitStateBatchWithDA(a, m, b, mode)
    BY <1>1
  <2>2. stateCommitments[m] = NoCommitment
        /\ \E c : stateCommitments' = [stateCommitments EXCEPT ![m] = c]
    BY <2>1, StateBatchEffect
  <2> QED  BY <2>2 DEF SettlementTypeOK
<1>2. CASE \E a \in Addresses, m \in BatchNumbers, b \in Blocks,
               pairs \in SUBSET RootPairs : SubmitLegacyBatch(a, m, b, pairs)
  BY <1>2, LegacyBatchEffect
<1>3. CASE \E m \in BatchNumbers, b \in Blocks, r \in Roots \cup {NoRoot} :
               AnchorStateCommitment(m, b, r)
  <2>1. PICK m \in BatchNumbers, b \in Blocks, r \in Roots \cup {NoRoot} :
             AnchorStateCommitment(m, b, r)
    BY <1>3
  <2>2. stateCommitments[m] = NoCommitment
        /\ \E c : stateCommitments' = [stateCommitments EXCEPT ![m] = c]
    BY <2>1, AnchorEffect
  <2> QED  BY <2>2 DEF SettlementTypeOK
<1>4. CASE UNCHANGED batchVars
  BY <1>4 DEF batchVars
<1> QED  BY <1>1, <1>2, <1>3, <1>4, SettlementCases

\* A step that leaves a dispute with its batch, range and rounds.
LEMMA RangeKept ==
    ASSUME L1Inv, RangesHalve, [Next]_vars, NEW id \in DisputeIds, disputes[id] # NoDispute,
           NEW d, disputes'[id] = d, d.batchNumber = disputes[id].batchNumber,
           HalvedRange(disputes[id], StepsOf(stateCommitments[disputes[id].batchNumber]))
               => HalvedRange(d, StepsOf(stateCommitments[disputes[id].batchNumber]))
    PROVE  LET c == stateCommitments'[disputes'[id].batchNumber]
           IN  c # NoCommitment /\ HalvedRange(disputes'[id], StepsOf(c))
<1>1. PICK n : n = disputes[id].batchNumber
  OBVIOUS
<1>2. n \in BatchNumbers
  <2>1. disputes[id] \in Dispute
    BY DEF L1Inv, DisputesWellFormed
  <2> QED  BY <1>1, <2>1 DEF Dispute
<1>3. stateCommitments[n] # NoCommitment /\ HalvedRange(d, StepsOf(stateCommitments[n]))
  BY <1>1 DEF RangesHalve
<1>4. stateCommitments'[n] = stateCommitments[n]
  BY <1>2, <1>3, CommitmentsStay DEF L1Inv, TypeOK
<1> QED  BY <1>1, <1>3, <1>4

LEMMA RangesUntouched ==
    ASSUME L1Inv, RangesHalve, [Next]_vars, UNCHANGED disputes
    PROVE  RangesHalve'
<1>1. ASSUME NEW id \in DisputeIds, disputes'[id] # NoDispute
      PROVE  LET c == stateCommitments'[disputes'[id].batchNumber]
             IN  c # NoCommitment /\ HalvedRange(disputes'[id], StepsOf(c))
  <2>1. disputes'[id] = disputes[id]
    OBVIOUS
  <2> QED  BY <1>1, <2>1, RangeKept
<1> QED  BY <1>1 DEF RangesHalve, HalvedRange, StepsOf

LEMMA NewRange ==
    ASSUME L1Inv, VerdictInv, NEW p \in Parties, NEW n \in BatchNumbers,
           NEW r \in StateRoots, NEW v \in StakeAmounts, StartDispute(p, n, r, v)
    PROVE  /\ stateCommitments[n] # NoCommitment
           /\ disputes'[nextDisputeId].batchNumber = n
           /\ HalvedRange(disputes'[nextDisputeId], StepsOf(stateCommitments[n]))
<1> DEFINE c == stateCommitments[n]
           d == [batchNumber |-> n, challenger |-> p,
                 defender |-> c.sequencer, status |-> "BISECTING",
                 currentTurn |-> "DEFENDER", rangeStart |-> 0,
                 rangeEnd |-> c.l2EndBlock - c.l2StartBlock + 1,
                 agreedStateRoot |-> c.preStateRoot, challengerClaim |-> r,
                 defenderClaim |-> c.postStateRoot, roundCount |-> 0]
<1>1. /\ nextDisputeId \in DisputeIds
      /\ c # NoCommitment
      /\ disputes' = [disputes EXCEPT ![nextDisputeId] = d]
  BY DEF StartDispute, MayDispute
<1>2. PICK k : k = StepsOf(c)
  OBVIOUS
<1>3. k \in Nat
  <2>1. c \in StateCommitmentData
    BY <1>1 DEF L1Inv, TypeOK, SettlementTypeOK
  <2> QED  BY <1>1, <1>2, <2>1 DEF L1Inv, CommitmentsSpanBlocks, StateCommitmentData, StepsOf
<1>4. d.batchNumber = n /\ d.rangeStart = 0 /\ d.rangeEnd = k /\ d.roundCount = 0
  BY <1>2 DEF StepsOf
<1> HIDE DEF d
<1>5. PowerOfTwo[0] = 1
  BY PowersDefined
<1>6. HalvedRange(d, k)
  BY <1>3, <1>4, <1>5 DEF HalvedRange
<1>7. disputes'[nextDisputeId] = d
  BY <1>1 DEF L1Inv, DisputesWellFormed
<1> QED  BY <1>1, <1>2, <1>4, <1>6, <1>7

LEMMA RespondBisectionHalves ==
    ASSUME L1Inv, RangesHalve, NEW p \in Parties, NEW id \in DisputeIds,
           NEW r \in StateRoots, RespondBisection(p, id, r),
           NEW n \in Int, HalvedRange(disputes[id], n)
    PROVE  HalvedRange(disputes'[id], n)
<1>1. PICK d0 \in Dispute : d0 = disputes[id]
  BY DEF RespondBisection, Bisecting, L1Inv, DisputesWellFormed
<1>2. disputes \in [DisputeIds -> Dispute \cup {NoDispute}]
  BY DEF L1Inv, DisputesWellFormed
<1>3. CASE disputes' = [disputes EXCEPT ![id] =
               [disputes[id] EXCEPT !.defenderClaim = r, !.currentTurn = "CHALLENGER"]]
  <2>1. PICK d1 : d1 = [d0 EXCEPT !.defenderClaim = r, !.currentTurn = "CHALLENGER"]
    OBVIOUS
  <2>2. /\ d1.rangeStart = d0.rangeStart /\ d1.rangeEnd = d0.rangeEnd
        /\ d1.roundCount = d0.roundCount
    BY <2>1 DEF Dispute
  <2>3. disputes'[id] = d1
    BY <1>1, <1>2, <1>3, <2>1
  <2> QED  BY <1>1, <2>2, <2>3 DEF HalvedRange
<1>4. CASE disputes' = [disputes EXCEPT ![id] =
               Narrowed([disputes[id] EXCEPT !.challengerClaim = r,
                                             !.currentTurn = "DEFENDER"])]
  <2>1. PICK d1 : d1 = [d0 EXCEPT !.challengerClaim = r, !.currentTurn = "DEFENDER"]
    OBVIOUS
  <2>2. /\ d1 \in Dispute
        /\ d1.rangeStart = d0.rangeStart /\ d1.rangeEnd = d0.rangeEnd
        /\ d1.roundCount = d0.roundCount
    BY <2>1 DEF Dispute
  <2>3. HalvedRange(d1, n)
    BY <1>1, <2>2 DEF HalvedRange
  <2>4. HalvedRange(Narrowed(d1), n)
    BY <2>2, <2>3, NarrowedHalves
  <2>5. disputes'[id] = Narrowed(d1)
    BY <1>1, <1>2, <1>4, <2>1
  <2> QED  BY <2>4, <2>5
<1> QED  BY <1>3, <1>4 DEF RespondBisection

\* A call of the game leaves the commitments alone: the dispute it is about
\* has a range that fits, and the others keep theirs.
LEMMA OneRangeMoves ==
    ASSUME RangesHalve, UNCHANGED stateCommitments, NEW id \in DisputeIds,
           \A i \in DisputeIds : i # id => disputes'[i] = disputes[i],
           LET c == stateCommitments[disputes'[id].batchNumber]
           IN  c # NoCommitment /\ HalvedRange(disputes'[id], StepsOf(c))
    PROVE  RangesHalve'
<1>1. ASSUME NEW i \in DisputeIds, disputes'[i] # NoDispute
      PROVE  LET c == stateCommitments[disputes'[i].batchNumber]
             IN  c # NoCommitment /\ HalvedRange(disputes'[i], StepsOf(c))
  <2>1. CASE i = id
    BY <2>1
  <2>2. CASE i # id
    BY <1>1, <2>2 DEF RangesHalve
  <2> QED  BY <2>1, <2>2
<1> QED  BY <1>1 DEF RangesHalve, HalvedRange, StepsOf

\* A resolution leaves the range as it is.
LEMMA SettleKeepsRange ==
    ASSUME DisputesWellFormed, NEW id \in DisputeIds, NEW w, NEW l,
           NEW s \in Statuses, Bisecting(id), Settle(id, w, l, s)
    PROVE  /\ disputes'[id].rangeStart = disputes[id].rangeStart
           /\ disputes'[id].rangeEnd = disputes[id].rangeEnd
           /\ disputes'[id].roundCount = disputes[id].roundCount
           /\ disputes'[id].batchNumber = disputes[id].batchNumber
<1>1. disputes' = [disputes EXCEPT ![id].status = s] /\ disputes[id] # NoDispute
  BY DEF Settle, Bisecting
<1>2. PICK d0 \in Dispute : d0 = disputes[id]
  BY <1>1 DEF DisputesWellFormed
<1>3. PICK d : d = [d0 EXCEPT !.status = s]
  OBVIOUS
<1>4. /\ d.rangeStart = d0.rangeStart /\ d.rangeEnd = d0.rangeEnd
      /\ d.roundCount = d0.roundCount /\ d.batchNumber = d0.batchNumber
  BY <1>3 DEF Dispute
<1>5. disputes'[id] = d
  BY <1>1, <1>2, <1>3 DEF DisputesWellFormed
<1> QED  BY <1>2, <1>4, <1>5

LEMMA GameCallHalves ==
    ASSUME L1Inv, VerdictInv, RangesHalve, [Next]_vars, GameCall
    PROVE  RangesHalve'
<1>0. UNCHANGED stateCommitments
  BY DEF GameCall, seqVars, sequencerFacetVars, batchVars
<1>1. ASSUME NEW p \in Parties, NEW n \in BatchNumbers,
             NEW r \in StateRoots, NEW v \in StakeAmounts, StartDispute(p, n, r, v)
      PROVE  RangesHalve'
  <2>1. PICK i \in DisputeIds : i = nextDisputeId
    BY <1>1 DEF StartDispute
  <2>2. \A j \in DisputeIds : j # i => disputes'[j] = disputes[j]
    BY <1>1, <2>1, StartDisputeEffect
  <2>3. LET c == stateCommitments[disputes'[i].batchNumber]
        IN  c # NoCommitment /\ HalvedRange(disputes'[i], StepsOf(c))
    BY <1>1, <2>1, NewRange
  <2> QED  BY <1>0, <2>2, <2>3, OneRangeMoves
<1>2. ASSUME NEW p \in Parties, NEW id \in DisputeIds, NEW r \in StateRoots,
             RespondBisection(p, id, r)
      PROVE  RangesHalve'
  <2>1. /\ disputes[id] # NoDispute /\ disputes'[id].batchNumber = disputes[id].batchNumber
        /\ \A i \in DisputeIds : i # id => disputes'[i] = disputes[i]
    BY <1>2, RespondBisectionEffect DEF L1Inv, Bisecting
  <2>2. PICK c : c = stateCommitments[disputes[id].batchNumber]
    OBVIOUS
  <2>3. c # NoCommitment /\ HalvedRange(disputes[id], StepsOf(c))
    BY <2>1, <2>2 DEF RangesHalve
  <2>4. StepsOf(c) \in Int
    <3>1. disputes[id] \in Dispute
      BY <2>1 DEF L1Inv, DisputesWellFormed
    <3>2. disputes[id].batchNumber \in BatchNumbers
      BY <3>1 DEF Dispute
    <3>3. c \in StateCommitmentData
      BY <2>2, <2>3, <3>2 DEF L1Inv, TypeOK, SettlementTypeOK
    <3> QED  BY <3>3 DEF StateCommitmentData, StepsOf
  <2>5. HalvedRange(disputes'[id], StepsOf(c))
    BY <1>2, <2>3, <2>4, RespondBisectionHalves
  <2> QED  BY <1>0, <2>1, <2>2, <2>3, <2>5, OneRangeMoves
<1>3. ASSUME NEW id \in DisputeIds, NEW w, NEW l, NEW s \in Statuses \ {"BISECTING"},
             Bisecting(id), Settle(id, w, l, s)
      PROVE  RangesHalve'
  <2>1. /\ disputes'[id].rangeStart = disputes[id].rangeStart
        /\ disputes'[id].rangeEnd = disputes[id].rangeEnd
        /\ disputes'[id].roundCount = disputes[id].roundCount
        /\ disputes'[id].batchNumber = disputes[id].batchNumber
    BY <1>3, SettleKeepsRange DEF L1Inv
  <2>2. /\ disputes[id] # NoDispute
        /\ \A i \in DisputeIds : i # id => disputes'[i] = disputes[i]
    BY <1>3, SettleEffect DEF L1Inv
  <2>3. PICK c : c = stateCommitments[disputes[id].batchNumber]
    OBVIOUS
  <2>4. c # NoCommitment /\ HalvedRange(disputes[id], StepsOf(c))
    BY <2>2, <2>3 DEF RangesHalve
  <2>5. HalvedRange(disputes'[id], StepsOf(c))
    BY <2>1, <2>4 DEF HalvedRange
  <2> QED  BY <1>0, <2>1, <2>2, <2>3, <2>4, <2>5, OneRangeMoves
<1>4. ASSUME NEW id \in DisputeIds, NEW claim \in TransitionClaims, ResolveDispute(id, claim)
      PROVE  RangesHalve'
  BY <1>3, <1>4 DEF ResolveDispute, Statuses
<1>5. ASSUME NEW id \in DisputeIds, Timeout(id) PROVE RangesHalve'
  BY <1>3, <1>5 DEF Timeout, Statuses
<1>6. ASSUME GameOwnerNext \/ FinishSettlement PROVE RangesHalve'
  BY <1>6, RangesUntouched
  DEF GameOwnerNext, SetResponseTimeout, SetMaxDisputesPerBatch, disputeVars, FinishSettlement
<1> QED
  BY <1>1, <1>2, <1>4, <1>5, <1>6 DEF GameCall, GamePartyNext

LEMMA RangesHalveStep ==
    ASSUME L1Inv, VerdictInv, RangesHalve, [L1Next]_l1Vars
    PROVE  RangesHalve'
<1>1. [Next]_vars
  BY DiamondStep DEF L1Inv
<1>2. CASE GameCall
  BY <1>1, <1>2, GameCallHalves
<1>3. CASE ~GameCall
  <2>1. UNCHANGED disputes
    BY <1>3 DEF L1Next, SettlementCall, BridgeCall, DayPasses, OtherGameCall, BondCall,
                Age, gameVars, disputeVars, l1Vars
  <2> QED  BY <1>1, <2>1, RangesUntouched
<1> QED  BY <1>2, <1>3

\* After r rounds a dispute about n steps spans at most n / 2^r of them,
\* rounded up, whatever the parties claim and however large n is.
THEOREM BisectionAlwaysHalves == L1Spec => []BisectionHalves
<1>1. L1Init => RangesHalve
  BY DEF L1Init, GameInit, RangesHalve
<1>2. RangesHalve => BisectionHalves
  BY DEF RangesHalve, BisectionHalves, HalvedRange, StepsOf
<1> QED
  BY <1>1, <1>2, RangesHalveStep, L1InvHolds, VerdictInvHolds, PTL DEF L1Spec
============================================================================
