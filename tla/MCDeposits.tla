----------------------------- MODULE MCDeposits -----------------------------
(***************************************************************************)
(* Instances of Deposits for TLC.                                          *)
(***************************************************************************)
EXTENDS Deposits, TLC

CONSTANTS user, l1Token, l2Token, d1, d2

\* One deposit of ETH and one of a token with a pair.
MCDepositOf ==
    [id \in DepositIds |->
        [token |-> IF id = d2 THEN l1Token ELSE ETH, to |-> user]]

MCPairs == l1Token :> l2Token
NoLimit == [enabled |-> FALSE, window |-> 1, max |-> 1]
NoLimits == {}

\* Blocks of L1 without a deposit.
EmptyBlocks == l1Head - Cardinality({depositBlock[id] : id \in DepositIds} \ {0})

\* The states the instance explores on from (every state reached is checked):
\* two things out of the ordinary happened at most, a fault or a missing token
\* pair, or an empty block alone; the processor runs while the listener is at
\* rest, for they share nothing but rows, which the listener only adds; and
\* the contract is not funded again once its ETH is spent, for there is one
\* deposit of ETH.  No step that fairness asks for is cut off for good.
DepositScope ==
    /\ faults["db"] + faults["rpc"] + faults["close"] + faults["crash"] + 2 * EmptyBlocks
           + (IF l1ToL2Tokens = MCPairs THEN 0 ELSE 1) <= 2
    /\ (socket # "opening" /\ live = {} /\ backfill = NoBackfill) \/ IdlePasses = Passes
    /\ credits[d1] = 1 => ethHeld = 0

MCFaults == [db |-> 1, rpc |-> 1, close |-> 1, crash |-> 1]
MCCrashOnly == [MCFaults EXCEPT !["db"] = 0, !["rpc"] = 0, !["close"] = 0]
============================================================================
