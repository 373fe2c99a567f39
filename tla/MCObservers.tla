---------------------------- MODULE MCObservers ----------------------------
(***************************************************************************)
(* Instances of Observers for TLC.                                         *)
(***************************************************************************)
EXTENDS Observers, TLC

CONSTANTS d1, w1

MCStartBlock == [l1 |-> 1, l2 |-> 0]
MCFaults == [read |-> 1, statement |-> 1, stop |-> 1, cache |-> 1]

Faults == indexFaults["read"] + indexFaults["statement"]
              + indexFaults["stop"] + indexFaults["cache"]

\* The three parts do not touch each other's state: each is explored with the
\* other two at rest.
GatewayRests == ~gatewayUp /\ gatewayFaults = 0 /\ tip = [c \in Chains |-> 1]
BlocksRest ==
    head = 0 /\ cache = {} /\ \A a \in Asks : asks[a] = NoAsk
BridgeRests == ~bridgeEnabled /\ events = [c \in Sides |-> <<>>]

\* Two faults of the listener, one of them before the third block.  The API is
\* asked about the second block as long as it is the last one.
ApiRests == cache = {} /\ cacheOn /\ \A a \in Asks : asks[a] = NoAsk
BlocksScope ==
    /\ GatewayRests /\ BridgeRests
    /\ \/ ApiRests /\ Faults <= IF head = 3 THEN 1 ELSE 2
       \/ head = 2 /\ Faults <= 1
    /\ \A key \in cache \cup {asks[a] : a \in Asks} : key # NoAsk => key[2] = 2

\* One fault of the bridge listener or a script, and one stop.  A script runs
\* beside a withdrawal, the other events beside a deposit as well.
BridgeScope ==
    /\ Faults + bridgeFaults <= 1
    /\ GatewayRests /\ BlocksRest /\ bridgeEnabled
    /\ script # NoScript => \A d \in Deposits : ~Happened("l1", "Deposited", d)

\* Three blocks of L2 and one of L1.
GatewayScope ==
    /\ BlocksRest /\ BridgeRests /\ process = "down" /\ Faults = 0
    /\ tip["L1"] <= 2 /\ tip["L2"] <= 4

ObserversScope == BlocksScope \/ BridgeScope \/ GatewayScope
============================================================================
