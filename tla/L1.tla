--------------------------------- MODULE L1 ---------------------------------
(***************************************************************************)
(* The contracts on L1 together: the diamond (settlement and bridge), the  *)
(* dispute game and its bonds.  The game reads the state commitments of    *)
(* the settlement, takes bonds from BondManager and invalidates batches in *)
(* the bridge, which then pays no withdrawal out of them.                  *)
(*                                                                         *)
(* Control is handed to a recipient at two places, in finalizeWithdrawal   *)
(* (entered) and in the refund of a resolution (resolving).  The calls     *)
(* nest: resolving.outer says that the resolution runs inside a            *)
(* finalization, which then returns last.                                  *)
(***************************************************************************)
EXTENDS Diamond, DisputeGame

l1Vars == <<seqVars, bridgeVars, bondVars, gameVars>>

\* The bonds are deployed with an amount and a share; the owner has yet to
\* wire the game to them and to the diamond.
L1Init ==
    /\ Init
    /\ GameInit
    /\ bank = EmptyBank
    /\ bondAmount \in BondAmounts
    /\ protocolShareBps \in {share \in ShareBps : share <= Bps}
    /\ bondGame = NoAddress
    /\ bondLocked = FALSE

SettlementCall ==
    SequencerFacetNext /\ UNCHANGED <<bridgeVars, bondVars, gameVars>>

\* A day passes for the bridge and for the disputes alike.  A finalization
\* around a resolution does not return before it, and the owner of the
\* bridge is not the winner that a resolution refunds.
BridgeCall ==
    /\ BridgeUserNext
    /\ IF now' # now THEN Age ELSE UNCHANGED <<bondVars, gameVars>>
    /\ resolving # NoResolution =>
           (resolving.outer => entered') /\ bridgeAdminVars' = bridgeAdminVars
    /\ UNCHANGED seqVars

\* Days past the bound of the bridge's clock still count for disputes.
DayPasses ==
    /\ now = MaxTime /\ ~entered
    /\ Age
    /\ UNCHANGED <<seqVars, bridgeVars>>

\* A game other than ThisGame that the owner has set in the bridge.
OtherGameCall ==
    /\ \E g \in DisputeGames \ {ThisGame} : BridgeGameNext(g)
    /\ UNCHANGED <<seqVars, bondVars, gameVars>>

BondCall ==
    /\ \/ BondPartyNext
       \/ BondOwnerNext
       \/ \E g \in DisputeGames : SetBondDisputeGame(g)
    /\ UNCHANGED <<seqVars, bridgeVars, gameVars>>

\* A verdict also takes the batch off the head of the chain.
GameCallRollsBack ==
    /\ GamePartyNext \/ GameOwnerNext
    /\ IF batchProvenFraudulent' = batchProvenFraudulent
       THEN UNCHANGED seqVars
       ELSE /\ latestBatchNumber' = 0 /\ latestL2Block' = 0
            /\ UNCHANGED <<rotationVars, daVars, batches, batchWithdrawalRoots,
                           batchRootSet, stateCommitments, totalBatchesSubmitted>>

\* The functions of the dispute game; of the diamond they only call
\* invalidateBatch.
GameCall ==
    /\ GamePartyNext \/ GameOwnerNext
    /\ UNCHANGED seqVars

L1Next ==
    \/ SettlementCall
    \/ BridgeCall
    \/ DayPasses
    \/ OtherGameCall
    \/ BondCall
    \/ GameCall

L1Spec == L1Init /\ [][L1Next]_l1Vars

----------------------------------------------------------------------------
\* An owner that configures the contracts before the first dispute and then
\* leaves them alone.
OwnerIsQuiet ==
    nextDisputeId # 1 => UNCHANGED <<gameConfig, bondConfig, bridgeAdminVars>>

\* Anyone may call resolveDispute and timeout, so someone eventually does;
\* time passes; a transaction that has begun ends.
DisputeSpec ==
    /\ L1Init /\ [][L1Next /\ OwnerIsQuiet]_l1Vars
    /\ WF_l1Vars(DayPasses)
    /\ WF_l1Vars(FinishSettlement /\ UNCHANGED seqVars)
    /\ \A id \in DisputeIds :
          /\ WF_l1Vars(Timeout(id) /\ UNCHANGED seqVars)
          /\ WF_l1Vars(/\ \E claim \in TransitionClaims : ResolveDispute(id, claim)
                       /\ UNCHANGED seqVars)

\* A dispute under way, with the game wired to the bridge.
Runs(id) == Bisecting(id) /\ disputeGameAddress = ThisGame

\* The range is one step and somebody can show the VM a step from the root the
\* parties agreed on.
Provable(id) ==
    /\ disputes[id].rangeEnd - disputes[id].rangeStart <= 1
    /\ \E claim \in TransitionClaims : claim.pre = disputes[id].agreedStateRoot

\* A dispute ends when either party stops answering, at whatever point: "Anyone
\* can call this to enforce the timeout." (DisputeGame.sol:390); and when its
\* last step stays provable, however the parties go on answering: "When range =
\* 1, FaultProofVM verifies the single step." (line 55).  It takes both parties
\* to keep one open: they answer for ever, and ever again agree on a root that
\* nobody can show a step from.
DisputesEnd ==
    \A id \in DisputeIds :
        /\ \A turn \in {"CHALLENGER", "DEFENDER"} :
              []<>~(Runs(id) /\ disputes[id].currentTurn = turn)
        /\ []<>~(Runs(id) /\ Provable(id))

\* Does not hold: two parties that agree on such a root keep a dispute open, for
\* no answer is the last one (DisputeGame.sol:309).
EveryDisputeEnds ==
    \A id \in DisputeIds : Runs(id) ~> ~Bisecting(id)

\* Once a batch is proven fraudulent no withdrawal queued from it is paid,
\* not one that is past its expiry, and none is queued from it, although the
\* verdict lands between any two calls of the bridge or within one.
NoPaymentAfterFraud ==
    [][\A id \in Ids :
          withdrawalBatch'[id] \in batchProvenFraudulent \ {0} =>
              /\ payouts'[id] = payouts[id]
              /\ withdrawalBatch'[id] = withdrawalBatch[id]]_l1Vars

\* To the diamond the dispute game is one more caller: with bonds, verdicts
\* and refunds around it, the diamond takes no step it does not take alone.
\* What is proved of the diamond therefore holds on L1.
DiamondIsUndisturbed == Spec
============================================================================
