----------------------------- MODULE MCL2Bridge -----------------------------
(***************************************************************************)
(* The contracts on L2 for TLC: the bridge, and the staking of ETH.  They   *)
(* share no state, so a behaviour explores one of them, with the other as  *)
(* deployed.                                                               *)
(***************************************************************************)
EXTENDS L2Bridge, ETHStaking, TLC

CONSTANTS wallet, alice, bob, t1, t2, s1, s2, d1, d2, staker1, staker2

VARIABLE contract       \* the one that this behaviour explores

L2ContractsInit == L2BridgeInit /\ StakingInit /\ contract \in {"bridge", "staking"}

L2ContractsNext ==
    \/ contract = "bridge" /\ L2Next /\ UNCHANGED <<stakingVars, contract>>
    \/ contract = "staking" /\ StakingNext /\ UNCHANGED <<l2Vars, contract>>

L2ContractsSpec ==
    L2ContractsInit /\ [][L2ContractsNext]_<<l2Vars, stakingVars, contract>>

\* One deposit of ETH and one of a token, for different users.
MCDepositOf ==
    d1 :> [token |-> ETH, to |-> alice] @@ d2 :> [token |-> t1, to |-> bob]

MCPairs == t1 :> s1 @@ t2 :> NoToken
MCLimit == [enabled |-> TRUE, window |-> 2, max |-> 2]
MCLimits == {[enabled |-> FALSE, window |-> 0, max |-> 0],
             [enabled |-> TRUE, window |-> 2, max |-> 1]}

\* The owner registers one more pair, or changes the rate limit, or the
\* sequencer is not the first one: the three share no state.
OwnerScope ==
    LET changes == <<Cardinality(pairings) = 2, rateLimit # InitialRateLimit,
                     l2Sequencer # wallet>>
    IN  /\ Cardinality(pairings) <= 2
        /\ Cardinality({i \in 1..3 : changes[i]}) <= 1

StakerSymmetry == Permutations(Users)
============================================================================
