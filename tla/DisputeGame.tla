---------------------------- MODULE DisputeGame ----------------------------
(***************************************************************************)
(* DisputeGame.sol: a challenger disputes the post state of a committed    *)
(* batch, the two parties bisect the range of steps by alternating claims, *)
(* and the last step is judged by the fault-proof VM, or the party that    *)
(* does not answer in time loses.  The loser's bond in BondManager is      *)
(* slashed; a challenger that wins has the batch invalidated in the        *)
(* bridge.                                                                 *)
(*                                                                         *)
(* A resolution is one transaction, but its refund of the winner's bond    *)
(* hands control to the winner.  It is two steps: Settle, up to the refund,*)
(* and FinishSettlement after it; in between, public functions may run and *)
(* those under BondManager's lock revert.  Nothing in the second half can  *)
(* revert that Settle does not check: the owner acts between transactions. *)
(*                                                                         *)
(* The optional recorder of disputes (setChallengePeriod) only counts; the *)
(* VM's verdict is a property of the claim it is shown.                    *)
(***************************************************************************)
EXTENDS BridgeFacet, BondManager

CONSTANTS
    ThisGame,         \* the address of this contract
    TransitionClaims, \* what callers show the VM: [pre, post, sound]
    Timeouts,         \* values of setResponseTimeout, in days
    DisputeLimits,    \* values of setMaxDisputesPerBatch
    MaxRounds,        \* rounds are counted up to here
    MaxIdle,          \* idle days are counted up to here
    NoDispute,        \* disputes[id].status == NONE
    NoResolution      \* no resolution is under way

Statuses == {"BISECTING", "RESOLVED_CHALLENGER_WIN", "RESOLVED_DEFENDER_WIN",
             "TIMEOUT_CHALLENGER_WIN", "TIMEOUT_DEFENDER_WIN"}
ChallengerWins == {"RESOLVED_CHALLENGER_WIN", "TIMEOUT_CHALLENGER_WIN"}
StateRoots == Roots \cup {NoRoot}

Dispute ==
    [batchNumber : BatchNumbers, challenger : Parties, defender : Parties,
     status : Statuses, currentTurn : {"CHALLENGER", "DEFENDER"},
     rangeStart : Nat, rangeEnd : Nat, agreedStateRoot : StateRoots,
     challengerClaim : StateRoots, defenderClaim : StateRoots,
     roundCount : Nat]

ASSUME DisputeGameAssumption ==
    /\ ThisGame \in DisputeGames
    /\ TransitionClaims \subseteq [pre : Roots, post : StateRoots, sound : BOOLEAN]
    /\ Timeouts \subseteq Nat /\ DisputeLimits \subseteq Nat
    /\ MaxRounds \in Nat /\ MaxIdle \in Nat
    /\ \A t \in Timeouts : t < MaxIdle
    /\ Addresses \subseteq Parties /\ Owner \in Parties
    /\ NoDispute \notin Dispute
    /\ IsFiniteSet(DisputeIds) /\ IsFiniteSet(Parties)

VARIABLES
    disputes,              \* id -> dispute
    nextDisputeId,
    activeDisputeCount,    \* batch number -> disputes under way
    batchProvenFraudulent, \* batch numbers
    responseTimeout,
    maxDisputesPerBatch,
    idle,                  \* id -> days since lastActionAt, up to MaxIdle
    resolving              \* the resolution whose refund is under way

disputeVars == <<disputes, nextDisputeId, activeDisputeCount, batchProvenFraudulent>>
gameConfig == <<responseTimeout, maxDisputesPerBatch>>
gameVars == <<disputeVars, gameConfig, idle, resolving>>

GameInit ==
    /\ disputes = [id \in DisputeIds |-> NoDispute]
    /\ nextDisputeId = 1
    /\ activeDisputeCount = [n \in BatchNumbers |-> 0]
    /\ batchProvenFraudulent = {}
    /\ responseTimeout \in Timeouts
    /\ maxDisputesPerBatch \in DisputeLimits
    /\ idle = [id \in DisputeIds |-> 0]
    /\ resolving = NoResolution

Bisecting(id) ==
    disputes[id] # NoDispute /\ disputes[id].status = "BISECTING"

TimedOut(id) == idle[id] > responseTimeout

----------------------------------------------------------------------------
\* What startDispute requires of the batch and of its limit.
MayDispute(n) ==
    /\ stateCommitments[n] # NoCommitment
    /\ n \notin batchProvenFraudulent
    /\ activeDisputeCount[n] < maxDisputesPerBatch

\* startDispute: the challenger pays the bond, the sequencer of the batch is
\* bonded out of its stake; one step per L2 block of the batch.
StartDispute(challenger, n, root, value) ==
    /\ nextDisputeId \in DisputeIds
    /\ MayDispute(n)
    /\ root # NoRoot
    /\ bank.balance + value <= MaxEth
    /\ bondGame = ThisGame
    /\ LET c == stateCommitments[n]
           bonded == LockBond(bank, challenger, nextDisputeId, value)
       IN  /\ root # c.postStateRoot
           /\ challenger # c.sequencer
           /\ CanLockBond(bank, challenger, nextDisputeId, value)
           /\ CanLockStakeBond(bonded, c.sequencer, nextDisputeId)
           /\ bank' = LockStakeBond(bonded, c.sequencer, nextDisputeId)
           /\ disputes' = [disputes EXCEPT ![nextDisputeId] =
                  [batchNumber |-> n, challenger |-> challenger,
                   defender |-> c.sequencer, status |-> "BISECTING",
                   currentTurn |-> "DEFENDER", rangeStart |-> 0,
                   rangeEnd |-> c.l2EndBlock - c.l2StartBlock + 1,
                   agreedStateRoot |-> c.preStateRoot, challengerClaim |-> root,
                   defenderClaim |-> c.postStateRoot, roundCount |-> 0]]
    /\ nextDisputeId' = nextDisputeId + 1
    /\ activeDisputeCount' = [activeDisputeCount EXCEPT ![n] = @ + 1]
    /\ idle' = [idle EXCEPT ![nextDisputeId] = 0]
    /\ UNCHANGED <<bridgeVars, bondConfig, bondLocked, batchProvenFraudulent,
                   gameConfig, resolving>>

\* The midpoint of the range of a dispute.
Midpoint(d) == (d.rangeStart + d.rangeEnd) \div 2

\* roundCount++
OneMoreRound(d) == IF d.roundCount < MaxRounds THEN d.roundCount + 1 ELSE d.roundCount

\* Disagreement takes one step off the range.
NarrowedByOne(d) ==
    IF d.challengerClaim = d.defenderClaim
    THEN [d EXCEPT !.rangeStart = Midpoint(d),
                   !.agreedStateRoot = d.defenderClaim,
                   !.roundCount = OneMoreRound(d)]
    ELSE [d EXCEPT !.rangeEnd = d.rangeEnd - 1, !.roundCount = OneMoreRound(d)]

\* The round the challenger's answer ends: agreement moves the dispute to
\* the upper half of the range, disagreement to the lower half.
Narrowed(d) ==
    IF d.challengerClaim = d.defenderClaim
    THEN [d EXCEPT !.rangeStart = Midpoint(d),
                   !.agreedStateRoot = d.defenderClaim,
                   !.roundCount = OneMoreRound(d)]
    ELSE [d EXCEPT !.rangeEnd = Midpoint(d), !.roundCount = OneMoreRound(d)]

\* respondBisection: the party whose turn it is claims the state at the
\* midpoint, whatever the width of the range and however often: within a
\* range of one step the parties may agree on ever new roots.
RespondBisection(sender, id, root) ==
    /\ Bisecting(id)
    /\ ~TimedOut(id)
    /\ LET d == disputes[id]
       IN  \/ /\ d.currentTurn = "DEFENDER" /\ sender = d.defender
              /\ disputes' = [disputes EXCEPT ![id] =
                     [d EXCEPT !.defenderClaim = root, !.currentTurn = "CHALLENGER"]]
           \/ /\ d.currentTurn = "CHALLENGER" /\ sender = d.challenger
              /\ disputes' = [disputes EXCEPT ![id] =
                     Narrowed([d EXCEPT !.challengerClaim = root,
                                        !.currentTurn = "DEFENDER"])]
    /\ idle' = [idle EXCEPT ![id] = 0]
    /\ UNCHANGED <<bridgeVars, bondVars, nextDisputeId, activeDisputeCount,
                   batchProvenFraudulent, gameConfig, resolving>>

----------------------------------------------------------------------------
\* A timeout of the defender is no verdict on its batch.
InvalidatesWhenJudged(status) == status = "RESOLVED_CHALLENGER_WIN"

\* The outcomes after which _invalidateBatch is called: the challenger won.
Invalidates(status) == status \in ChallengerWins

\* The dispute stays counted.
StillCounted(n) == activeDisputeCount

\* The counters when a dispute about batch n is resolved.
OneLess(n) == [activeDisputeCount EXCEPT ![n] = @ - 1]

\* Whether invalidateBatch takes the batch, when _invalidateBatch calls it.
CanInvalidate(n) ==
    \/ n \in batchProvenFraudulent
    \/ disputeGameAddress = ThisGame /\ n \notin batchInvalidated

\* _resolveInFavorOf up to the call that refunds the winner.
Settle(id, winner, loser, status) ==
    /\ resolving = NoResolution /\ ~bondLocked
    /\ bondGame = ThisGame
    /\ CanSlashBond(bank, loser, id)
    /\ CanRefundBond(SlashBond(bank, loser, id), winner, id)
    /\ Invalidates(status) => CanInvalidate(disputes[id].batchNumber)
    /\ disputes' = [disputes EXCEPT ![id].status = status]
    /\ activeDisputeCount' = OneLess(disputes[id].batchNumber)
    /\ bank' = RefundBond(SlashBond(bank, loser, id), winner, id)
    /\ bondLocked' = TRUE
    /\ resolving' = [id |-> id, winner |-> winner,
                     reward |-> WinnerShare(bank, loser, id), outer |-> entered]
    /\ UNCHANGED <<bridgeVars, bondConfig, nextDisputeId, batchProvenFraudulent,
                   gameConfig, idle>>

\* FaultProofVM.verifyStep: the verdict on the defender's claim.
VerifyStep(claim, d) == claim.sound /\ claim.post = d.defenderClaim

\* resolveDispute: anyone, once the range is one step; verifyStep reverts
\* when the claim does not start from the agreed root.
ResolveDispute(id, claim) ==
    /\ Bisecting(id)
    /\ LET d == disputes[id]
       IN  /\ d.rangeEnd - d.rangeStart <= 1
           /\ claim.pre = d.agreedStateRoot
           /\ IF VerifyStep(claim, d)
              THEN Settle(id, d.defender, d.challenger, "RESOLVED_DEFENDER_WIN")
              ELSE Settle(id, d.challenger, d.defender, "RESOLVED_CHALLENGER_WIN")

\* Only the defender's time runs out.
DefenderTimeout(id) ==
    /\ Bisecting(id)
    /\ TimedOut(id)
    /\ disputes[id].currentTurn = "DEFENDER"
    /\ Settle(id, disputes[id].challenger, disputes[id].defender,
              "TIMEOUT_CHALLENGER_WIN")

\* timeout: anyone, once the party whose turn it is let the time pass.
Timeout(id) ==
    /\ Bisecting(id)
    /\ TimedOut(id)
    /\ LET d == disputes[id]
       IN  IF d.currentTurn = "DEFENDER"
           THEN Settle(id, d.challenger, d.defender, "TIMEOUT_CHALLENGER_WIN")
           ELSE Settle(id, d.defender, d.challenger, "TIMEOUT_DEFENDER_WIN")

\* The rest of the resolution: the reward, and _invalidateBatch when the
\* challenger won.
FinishSettlement ==
    /\ resolving # NoResolution
    /\ entered = resolving.outer
    /\ LET d == disputes[resolving.id]
       IN  IF Invalidates(d.status) /\ d.batchNumber \notin batchProvenFraudulent
           THEN /\ batchProvenFraudulent' = batchProvenFraudulent \cup {d.batchNumber}
                /\ InvalidateBatch(ThisGame, d.batchNumber)
           ELSE UNCHANGED <<batchProvenFraudulent, bridgeVars>>
    /\ bank' = RewardWinner(bank, resolving.winner, resolving.id, resolving.reward)
    /\ bondLocked' = FALSE
    /\ resolving' = NoResolution
    /\ UNCHANGED <<bondConfig, disputes, nextDisputeId, activeDisputeCount,
                   gameConfig, idle>>

----------------------------------------------------------------------------
\* setResponseTimeout (owner): also moves the deadline of running disputes.
SetResponseTimeout(timeout) ==
    /\ resolving = NoResolution
    /\ responseTimeout' = timeout
    /\ UNCHANGED <<bridgeVars, bondVars, disputeVars, maxDisputesPerBatch,
                   idle, resolving>>

\* setMaxDisputesPerBatch (owner)
SetMaxDisputesPerBatch(limit) ==
    /\ resolving = NoResolution
    /\ maxDisputesPerBatch' = limit
    /\ UNCHANGED <<bridgeVars, bondVars, disputeVars, responseTimeout,
                   idle, resolving>>

\* A day passes since the last action of every dispute.
Age ==
    /\ resolving = NoResolution
    /\ idle' = [id \in DisputeIds |->
                   IF Bisecting(id) /\ idle[id] < MaxIdle THEN idle[id] + 1 ELSE idle[id]]
    /\ UNCHANGED <<bondVars, disputeVars, gameConfig, resolving>>

\* What challengers, defenders and callers of resolutions do.
GamePartyNext ==
    \/ \E p \in Parties, n \in BatchNumbers, root \in StateRoots, v \in StakeAmounts :
          StartDispute(p, n, root, v)
    \/ \E p \in Parties, id \in DisputeIds, root \in StateRoots :
          RespondBisection(p, id, root)
    \/ \E id \in DisputeIds :
          \/ \E claim \in TransitionClaims : ResolveDispute(id, claim)
          \/ Timeout(id)
    \/ FinishSettlement

GameOwnerNext ==
    \/ \E t \in Timeouts : SetResponseTimeout(t)
    \/ \E k \in DisputeLimits : SetMaxDisputesPerBatch(k)

----------------------------------------------------------------------------
\* The counter startDispute limits is the number of disputes under way for
\* the batch, resolutions in mid-refund no longer among them
\* (DisputeGame.sol:123, "Active dispute count per batch").
ActiveCountIsExact ==
    \A n \in BatchNumbers :
        activeDisputeCount[n] =
            Cardinality({id \in DisputeIds : Bisecting(id) /\ disputes[id].batchNumber = n})

\* A bond is held only for the two parties of a dispute under way: none is
\* left behind by a resolution or a timeout, none taken twice, and while the
\* dispute runs the challenger has at least as much at stake as the defender
\* (bonds of bondAmount 0 hold nothing).
BondsFollowDisputes ==
    \A id \in DisputeIds :
        /\ \A p \in Parties :
              bank.bonds[p][id] # 0 =>
                  Bisecting(id) /\ p \in {disputes[id].challenger, disputes[id].defender}
        /\ Bisecting(id) =>
              bank.bonds[disputes[id].challenger][id] >= bank.bonds[disputes[id].defender][id]

\* A batch is proven fraudulent exactly when a challenger won a finished
\* dispute about it, whoever timed out or was judged, and then the bridge has
\* it invalidated, for good, also after the owner changed the dispute game.
FraudIsInvalidated ==
    LET finished == {id \in DisputeIds : disputes[id] # NoDispute /\ ~Bisecting(id)}
                    \ {id \in DisputeIds : bondLocked /\ resolving.id = id}
        won == {id \in finished : disputes[id].status \in ChallengerWins}
    IN  /\ batchProvenFraudulent = {disputes[id].batchNumber : id \in won}
        /\ batchProvenFraudulent \subseteq batchInvalidated

\* 2^r
PowerOfTwo[r \in Nat] == IF r = 0 THEN 1 ELSE 2 * PowerOfTwo[r - 1]

\* "The dispute narrows N transactions to 1 in log2(N) rounds."
\* (DisputeGame.sol:53): after r rounds the range lies within the batch and
\* spans at most N / 2^r steps, rounded up.
BisectionHalves ==
    \A id \in DisputeIds :
        disputes[id] # NoDispute =>
            LET d == disputes[id]
                c == stateCommitments[d.batchNumber]
                steps == c.l2EndBlock - c.l2StartBlock + 1
                width == d.rangeEnd - d.rangeStart
            IN  /\ 0 <= width
                /\ d.rangeEnd <= steps
                /\ (width - 1) * PowerOfTwo[d.roundCount] < steps
============================================================================
