---------------------------- MODULE BridgeFacet ----------------------------
(***************************************************************************)
(* BridgeFacet.sol: custody of deposits on L1 and the life of a withdrawal *)
(* there: queued with a Merkle proof against the withdrawal root of its    *)
(* batch, held for the challenge period, then paid, unless it was          *)
(* challenged or its batch invalidated by the dispute game.                *)
(*                                                                         *)
(* finalizeWithdrawal hands control to the recipient (ETH call) or to the  *)
(* token in the middle of the transaction.  It is modelled as two steps,   *)
(* FinalizeWithdrawal up to the transfer and FinalizeReturn after it;      *)
(* between them any public function may run, but time stands still.        *)
(***************************************************************************)
EXTENDS AppStorage

CONSTANTS Amounts,      \* amounts deposited or donated
          MaxTime,      \* bound on the L1 clock, in days
          MaxDeposits,  \* bound on depositNonce
          MaxDonations, \* bound on transfers to receive()
          QueueLists    \* the lists of claims queueWithdrawalBatch is called with

VARIABLES now,       \* block.timestamp, in days
          credited,  \* token -> sum of the amounts of the Deposited events
          released,  \* token -> sum of the amounts paid out
          payouts,   \* withdrawal id -> number of transfers made for it
          donations  \* number of plain transfers received

ghostVars == <<credited, released, payouts, donations>>
bridgeVars == <<bridgeFacetVars, now, ghostVars>>

ASSUME BridgeFacetAssumption ==
    /\ Amounts \subseteq Nat
    /\ MaxTime \in Nat /\ MaxDeposits \in Nat /\ MaxDonations \in Nat
    /\ QueueLists \subseteq Seq(Claims)

BridgeTypeOK ==
    /\ withdrawals \in [Ids -> Withdrawal \cup {NotQueued}]
    /\ processedWithdrawals \subseteq Ids
    /\ withdrawalBatch \in [Ids -> BatchNumbers]
    /\ batchInvalidated \subseteq BatchNumbers
    /\ disputeGameAddress \in DisputeGames \cup {NoAddress}
    /\ challengePeriodAddress \in Oracles \cup {NoAddress}
    /\ challengePeriod \in Nat
    /\ paused \in BOOLEAN
    /\ entered \in BOOLEAN
    /\ depositNonce \in Nat
    /\ balance \in [Tokens -> Nat]
    /\ now \in Nat
    /\ credited \in [Tokens -> Nat]
    /\ released \in [Tokens -> Nat]
    /\ payouts \in [Ids -> Nat]
    /\ donations \in Nat

\* The oracle's answer taken as it comes.
AnyPeriodFor ==
    {challengePeriod} \cup (IF challengePeriodAddress # NoAddress THEN Periods ELSE {})

\* The results _challengePeriodFor can have: an oracle may be any contract,
\* its answer counts only within 1..30 days, a revert or another answer falls
\* back to the stored period.
ChallengePeriodFor ==
    {challengePeriod} \cup
        (IF challengePeriodAddress # NoAddress
         THEN Periods \cap (MinPeriod..MaxPeriod)
         ELSE {})

\* The results _challengeExpiry can have.  An entry queued before the V3
\* storage fields has no stored expiry: it is recomputed on every call.
ChallengeExpiries(id) ==
    IF withdrawals[id].challengeExpiry # 0
    THEN {withdrawals[id].challengeExpiry}
    ELSE {withdrawals[id].timestamp + p : p \in ChallengePeriodFor}

\* _batchWithdrawalRoot: legacy batches kept it in Batch.stateRoot.
BatchWithdrawalRoot(n) ==
    IF n \in batchRootSet THEN batchWithdrawalRoots[n] ELSE batches[n]

\* The claims whose leaf a proof can open in the root of batch n
\* (_computeLeafForBatch and MerkleProof.verify).
ProvableClaims(n) ==
    IF n \in batchRootSet
    THEN V3Leaves[BatchWithdrawalRoot(n)]
    ELSE LegacyLeaves[BatchWithdrawalRoot(n)]

\* _validateBatchRoot
ValidBatchRoot(n) ==
    /\ BatchWithdrawalRoot(n) # NoRoot
    /\ n \notin batchInvalidated

\* _isQueued: block.timestamp is never 0.
IsQueued(id) == withdrawals[id] # NotQueued

\* The entry _storeWithdrawal writes.
QueueEntry(claim, period) ==
    [claim |-> claim, timestamp |-> now, finalized |-> FALSE,
     challenged |-> FALSE, challengeExpiry |-> now + period]

----------------------------------------------------------------------------
\* depositETH
DepositETH(to, amount) ==
    /\ ~paused
    /\ amount # 0 /\ to # NoAddress
    /\ depositNonce < MaxDeposits
    /\ depositNonce' = depositNonce + 1
    /\ balance' = [balance EXCEPT ![ETH] = @ + amount]
    /\ credited' = [credited EXCEPT ![ETH] = @ + amount]
    /\ UNCHANGED <<queueVars, batchInvalidated, bridgeAdminVars, entered,
                   now, released, payouts, donations>>

\* The event credits the amount asked for.
DepositERC20AsAsked(token, to, amount, received) ==
    /\ ~paused
    /\ token # ETH /\ to # NoAddress /\ amount # 0
    /\ received <= amount /\ received # 0
    /\ depositNonce < MaxDeposits
    /\ depositNonce' = depositNonce + 1
    /\ balance' = [balance EXCEPT ![token] = @ + received]
    /\ credited' = [credited EXCEPT ![token] = @ + amount]
    /\ UNCHANGED <<queueVars, batchInvalidated, bridgeAdminVars, entered,
                   now, released, payouts, donations>>

\* depositERC20: a token may deliver less than it was asked to transfer; the
\* difference of the two balances is what the event credits.
DepositERC20(token, to, amount, received) ==
    /\ ~paused
    /\ token # ETH /\ to # NoAddress /\ amount # 0
    /\ received <= amount /\ received # 0
    /\ depositNonce < MaxDeposits
    /\ depositNonce' = depositNonce + 1
    /\ balance' = [balance EXCEPT ![token] = @ + received]
    /\ credited' = [credited EXCEPT ![token] = @ + received]
    /\ UNCHANGED <<queueVars, batchInvalidated, bridgeAdminVars, entered,
                   now, released, payouts, donations>>

\* receive(): ETH sent without a deposit.
Receive(amount) ==
    /\ amount # 0
    /\ donations < MaxDonations
    /\ donations' = donations + 1
    /\ balance' = [balance EXCEPT ![ETH] = @ + amount]
    /\ UNCHANGED <<queueVars, batchInvalidated, bridgeAdminVars, entered,
                   depositNonce, now, credited, released, payouts>>

----------------------------------------------------------------------------
\* queueWithdrawalV3: anyone with a proof.
QueueWithdrawalV3(n, claim) ==
    /\ claim.amount # 0 /\ claim.to # NoAddress
    /\ ValidBatchRoot(n)
    /\ ~IsQueued(claim.id)
    /\ claim \in ProvableClaims(n)
    /\ \E period \in ChallengePeriodFor :
          withdrawals' = [withdrawals EXCEPT ![claim.id] = QueueEntry(claim, period)]
    /\ withdrawalBatch' = [withdrawalBatch EXCEPT ![claim.id] = n]
    /\ UNCHANGED <<processedWithdrawals, batchInvalidated, bridgeAdminVars,
                   custodyVars, now, ghostVars>>

\* The claims of a list that _queueOneFromBatch does not skip: of several
\* with one id the first that passes is stored, the later ones are skipped.
QueueableInBatch(n, list) ==
    {k \in DOMAIN list :
        /\ ~IsQueued(list[k].id)
        /\ list[k].amount # 0 /\ list[k].to # NoAddress
        /\ list[k] \in ProvableClaims(n)}

StoredFromBatch(n, list) ==
    {list[k] : k \in {i \in QueueableInBatch(n, list) :
        \A j \in QueueableInBatch(n, list) :
            j < i => list[j].id # list[i].id}}

\* queueWithdrawalBatch: a registered sequencer, at most 50 entries
\* (MAX_BATCH_QUEUE_SIZE; QueueLists keeps them short).
QueueWithdrawalBatch(sender, n, list) ==
    /\ IsRegisteredSequencer(sender)
    /\ ValidBatchRoot(n)
    /\ LET stored == StoredFromBatch(n, list)
           ids == {c.id : c \in stored}
       IN  /\ stored # {}
           /\ \E period \in [stored -> ChallengePeriodFor] :
                 withdrawals' = [id \in Ids |->
                     IF id \in ids
                     THEN LET c == CHOOSE c \in stored : c.id = id
                          IN  QueueEntry(c, period[c])
                     ELSE withdrawals[id]]
           /\ withdrawalBatch' = [id \in Ids |->
                  IF id \in ids THEN n ELSE withdrawalBatch[id]]
    /\ UNCHANGED <<processedWithdrawals, batchInvalidated, bridgeAdminVars,
                   custodyVars, now, ghostVars>>

----------------------------------------------------------------------------
\* Paid entries are not recognised.
MayFinalizeAgain(id) ==
    /\ ~withdrawals[id].challenged
    /\ \E expiry \in ChallengeExpiries(id) : now >= expiry
    /\ withdrawalBatch[id] = 0 \/ withdrawalBatch[id] \notin batchInvalidated

\* Invalidated batches still pay.
MayFinalizeInvalid(id) ==
    /\ ~withdrawals[id].finalized /\ id \notin processedWithdrawals
    /\ ~withdrawals[id].challenged
    /\ \E expiry \in ChallengeExpiries(id) : now >= expiry

\* What the entry must be for finalizeWithdrawal to pay it.
MayFinalize(id) ==
    /\ ~withdrawals[id].finalized /\ id \notin processedWithdrawals
    /\ ~withdrawals[id].challenged
    /\ \E expiry \in ChallengeExpiries(id) : now >= expiry
    /\ withdrawalBatch[id] = 0 \/ withdrawalBatch[id] \notin batchInvalidated

\* finalizeWithdrawal up to and including the transfer.  The transfer reverts
\* the transaction when the diamond holds too little.
FinalizeWithdrawal(id) ==
    /\ ~paused
    /\ ~entered
    /\ IsQueued(id)
    /\ MayFinalize(id)
    /\ LET claim == withdrawals[id].claim
       IN  /\ claim.amount <= balance[claim.token]
           /\ balance' = [balance EXCEPT ![claim.token] = @ - claim.amount]
           /\ released' = [released EXCEPT ![claim.token] = @ + claim.amount]
    /\ withdrawals' = [withdrawals EXCEPT ![id].finalized = TRUE]
    /\ processedWithdrawals' = processedWithdrawals \cup {id}
    /\ payouts' = [payouts EXCEPT ![id] = @ + 1]
    /\ entered' = TRUE
    /\ UNCHANGED <<withdrawalBatch, batchInvalidated, bridgeAdminVars,
                   depositNonce, now, credited, donations>>

\* The end of finalizeWithdrawal: the nonReentrant modifier releases its lock.
FinalizeReturn ==
    /\ entered
    /\ entered' = FALSE
    /\ UNCHANGED <<queueVars, batchInvalidated, bridgeAdminVars, depositNonce,
                   balance, now, ghostVars>>

\* challengeWithdrawal: only the dispute game, within the challenge period,
\* naming the batch the withdrawal was queued from.
ChallengeWithdrawal(sender, id, proofBatch) ==
    /\ ~paused
    /\ sender = disputeGameAddress /\ sender # NoAddress
    /\ IsQueued(id)
    /\ ~withdrawals[id].finalized
    /\ ~withdrawals[id].challenged
    /\ \E expiry \in ChallengeExpiries(id) : now < expiry
    /\ withdrawalBatch[id] # 0
    /\ proofBatch = withdrawalBatch[id]
    /\ withdrawalBatch[id] \notin batchInvalidated
    /\ withdrawals' = [withdrawals EXCEPT ![id].challenged = TRUE]
    /\ UNCHANGED <<processedWithdrawals, withdrawalBatch, batchInvalidated,
                   bridgeAdminVars, custodyVars, now, ghostVars>>

\* invalidateBatch
InvalidateBatch(sender, n) ==
    /\ sender = disputeGameAddress /\ sender # NoAddress
    /\ n \notin batchInvalidated
    /\ batchInvalidated' = batchInvalidated \cup {n}
    /\ UNCHANGED <<queueVars, bridgeAdminVars, custodyVars, now, ghostVars>>

----------------------------------------------------------------------------
\* setDisputeGame (owner)
SetDisputeGame(game) ==
    /\ game # NoAddress
    /\ disputeGameAddress' = game
    /\ UNCHANGED <<queueVars, batchInvalidated, challengePeriodAddress,
                   challengePeriod, paused, custodyVars, now, ghostVars>>

\* setChallengePeriod (owner): 1 to 30 days.
SetChallengePeriod(period) ==
    /\ period >= MinPeriod /\ period <= MaxPeriod
    /\ challengePeriod' = period
    /\ UNCHANGED <<queueVars, batchInvalidated, disputeGameAddress,
                   challengePeriodAddress, paused, custodyVars, now, ghostVars>>

\* setChallengePeriodOracle (owner): address(0) removes the oracle.
SetChallengePeriodOracle(oracle) ==
    /\ challengePeriodAddress' = oracle
    /\ UNCHANGED <<queueVars, batchInvalidated, disputeGameAddress,
                   challengePeriod, paused, custodyVars, now, ghostVars>>

\* pause and unpause (owner)
SetPaused(b) ==
    /\ paused' = b
    /\ UNCHANGED <<queueVars, batchInvalidated, disputeGameAddress,
                   challengePeriodAddress, challengePeriod, custodyVars, now,
                   ghostVars>>

Pause == SetPaused(TRUE)
Unpause == SetPaused(FALSE)

\* A day passes between two L1 transactions.
Tick ==
    /\ ~entered
    /\ now < MaxTime
    /\ now' = now + 1
    /\ UNCHANGED <<bridgeFacetVars, ghostVars>>

\* What users, sequencers and the owner do, and the day that passes.
BridgeUserNext ==
    \/ \E to \in Addresses \cup {NoAddress}, amount \in Amounts :
          \/ DepositETH(to, amount)
          \/ \E token \in Tokens, received \in 0..amount :
                DepositERC20(token, to, amount, received)
    \/ \E amount \in Amounts : Receive(amount)
    \/ \E n \in BatchNumbers :
          \/ \E claim \in Claims : QueueWithdrawalV3(n, claim)
          \/ \E a \in Addresses, list \in QueueLists : QueueWithdrawalBatch(a, n, list)
    \/ \E id \in Ids : FinalizeWithdrawal(id)
    \/ FinalizeReturn
    \/ \E g \in DisputeGames : SetDisputeGame(g)
    \/ \E p \in Periods : SetChallengePeriod(p)
    \/ \E o \in Oracles \cup {NoAddress} : SetChallengePeriodOracle(o)
    \/ Pause
    \/ Unpause
    \/ Tick

\* What a dispute game does.
BridgeGameNext(game) ==
    \E n \in BatchNumbers :
        \/ InvalidateBatch(game, n)
        \/ \E id \in Ids : ChallengeWithdrawal(game, id, n)

BridgeFacetNext ==
    \/ BridgeUserNext
    \/ \E g \in DisputeGames : BridgeGameNext(g)
============================================================================
