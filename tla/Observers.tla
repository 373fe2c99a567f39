----------------------------- MODULE Observers -----------------------------
(***************************************************************************)
(* The programs that follow the chains and tell others: the process of the *)
(* indexer, whose block listener, bridge listener and API start one after  *)
(* the other and end together, and the event gateway beside it.            *)
(***************************************************************************)
EXTENDS BlockIndex, BridgeIndex, EventGateway

indexerVars == <<blockIndexVars, bridgeIndexVars>>
observerVars == <<indexerVars, gatewayVars>>

ObserversInit == BlockIndexInit /\ BridgeIndexInit /\ GatewayInit

----------------------------------------------------------------------------
\* Application.start: the bridge listener starts when the block listener has
\* synced the past.
StartBlocks == (StartIndexer \/ Listen) /\ UNCHANGED bridgeIndexVars
StartBridge == process = "running" /\ BridgeStart /\ UNCHANGED blockIndexVars

\* Application.stop
StopAll == StopIndexer /\ BridgeStop
Exit == ExitIndexer /\ BridgeGone

Crash == CrashIndexer /\ BridgeGone

IndexerNext ==
    \/ StartBlocks
    \/ StartBridge
    \/ Exit
    \/ IndexFault("stop") /\ (StopAll \/ Crash)
    \/ BlockIndexNext /\ UNCHANGED bridgeIndexVars
    \/ BridgeIndexNext /\ UNCHANGED blockIndexVars

ObserversNext ==
    \/ IndexerNext /\ UNCHANGED gatewayVars
    \/ (GatewayNext \/ \E c \in Chains : TipGrows(c)) /\ UNCHANGED indexerVars

ObserversSpec == ObserversInit /\ [][ObserversNext]_observerVars

\* The process is started again after it ends; nothing is said of the gateway.
FairObserversSpec ==
    /\ ObserversSpec
    /\ BlockIndexFairness
    /\ BridgeIndexFairness
    /\ WF_indexerVars(StartBridge)
============================================================================
