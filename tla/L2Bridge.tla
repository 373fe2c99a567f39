------------------------------ MODULE L2Bridge ------------------------------
(***************************************************************************)
(* The L2 bridge under all its callers: users, the sequencer and the       *)
(* owner; and what must hold of it.                                        *)
(***************************************************************************)
EXTENDS L2BridgeV3

CONSTANTS InitialPairs, InitialRateLimit

ASSUME InitialPairsAssumption ==
    /\ InitialPairs \in [L1Tokens -> L2Tokens \cup {NoToken}]
    /\ \A t, u \in L1Tokens : InitialPairs[t] = InitialPairs[u] =>
           t = u \/ InitialPairs[t] = NoToken
    /\ InitialRateLimit \in [enabled : BOOLEAN, window : Nat \ {0}, max : Nat \ {0}]

L2BridgeInit == L2Init(InitialPairs, InitialRateLimit)

UserNext ==
    \E user \in L2Users :
        \/ \E asset \in Assets : InitiateWithdrawal(user, asset)
        \/ \E n \in Nonces : CancelWithdrawal(user, n)

SequencerNext ==
    \E caller \in L2Callers :
        \/ \E id \in DepositIds : ProcessDeposit(caller, id)
        \/ \E n \in Nonces : MarkWithdrawalProcessed(caller, n)

OwnerNext ==
    \/ \E t \in L1Tokens, s \in L2Tokens : AddTokenPair(t, s)
    \/ \E t \in L1Tokens : RemoveTokenPair(t)
    \/ \E caller \in L2Callers : UpdateSequencer(caller)
    \/ \E n \in Nonces : InitializeWithdrawalNonce(n)
    \/ \E limit \in RateLimits : SetWithdrawalRateLimit(limit)

L2Next == UserNext \/ SequencerNext \/ OwnerNext \/ Fund \/ L2Elapse

L2Spec == L2BridgeInit /\ [][L2Next]_l2Vars

----------------------------------------------------------------------------
\* Every variable has its type.
L2TypeOK ==
    /\ l2Sequencer \in L2Callers
    /\ processedDeposits \subseteq DepositIds
    /\ l1ToL2Tokens \in [L1Tokens -> L2Tokens \cup {NoToken}]
    /\ l2ToL1Tokens \in [L2Tokens -> L1Tokens \cup {NoToken}]
    /\ pairings \subseteq L1Tokens \X L2Tokens
    /\ rateLimit \in [enabled : BOOLEAN, window : Nat, max : Nat]
    /\ rateLimit.enabled => rateLimit.window > 0 /\ rateLimit.max > 0
    /\ quota \in [L2Users -> [start : Nat, count : Nat]]
    /\ withdrawalNonce \in Nat /\ limitedFrom \in 0..withdrawalNonce
    /\ l2Withdrawals \in [Nonces -> Withdrawal \cup {NoWithdrawal}]
    /\ ethHeld \in Nat
    /\ holdings \in [L2Users -> [Assets -> Nat]]
    /\ l2Now \in 1..MaxL2Time
    /\ credits \in [DepositIds -> Nat]
    /\ refunds \in [Nonces -> Nat] /\ marks \in [Nonces -> Nat]

\* The two directions of the registry agree, whatever the owner adds and
\* removes: the token a deposit is minted in is the one whose withdrawal asks
\* for that deposit's token.
PairsMatch ==
    \A t \in L1Tokens, s \in L2Tokens :
        l1ToL2Tokens[t] = s <=> l2ToL1Tokens[s] = t

\* A withdrawal is settled once at most, given back to the user or marked by
\* the sequencer, and never both; one that was never made is not settled.
SettledOnce ==
    \A n \in Nonces :
        /\ refunds[n] + marks[n] <= 1
        /\ refunds[n] + marks[n] = 1 <=> l2Withdrawals[n] # NoWithdrawal /\ ~Open(n)

\* Of a user, for tokens F of L1: the withdrawals made, and the deposits
\* credited; and, one by one, the units the user holds of assets S of L2.
Withdrawn(user, F) ==
    {n \in Nonces : /\ l2Withdrawals[n] # NoWithdrawal
                    /\ l2Withdrawals[n].from = user
                    /\ l2Withdrawals[n].token \in F}

Credited(user, F) ==
    {id \in processedDeposits : DepositOf[id].to = user /\ DepositOf[id].token \in F}

Units(user, S) == UNION {{a} \X (1..holdings[user][a]) : a \in S}

\* Every pair so far; ETH has itself for a partner.
Paired == pairings \cup {<<ETH, ETH>>}

\* Assets of L2 that had no partner outside F.
PartnersWithin(F) == {a \in Assets : \A p \in Paired : p[2] = a => p[1] \in F}

\* What a user owns is what was deposited for the user, less what the user
\* withdrew and did not take back: of ETH, of a token whose wrapped token
\* never had another partner, and of tokens that changed partners taken
\* together, since a withdrawal asks for the present partner of what it burns
\* and a refund pays in the present partner of what was asked for.
AccountsAreExact ==
    \A F \in SUBSET (L1Tokens \cup {ETH}) :
        LET S == PartnersWithin(F)
        IN  (\A p \in Paired : p[1] \in F => p[2] \in S) =>
                \A user \in L2Users :
                    Cardinality(Units(user, S)) =
                        Cardinality(Credited(user, F))
                        - Cardinality({n \in Withdrawn(user, F) : refunds[n] = 0})

\* The quota of a user is counted in windows that begin with a withdrawal, so
\* that a stretch as long as the window may meet two of them: it holds one
\* less than twice the maximum, as long as the setting stands.
RateIsLimited ==
    rateLimit.enabled =>
        \A user \in L2Users, from \in 1..l2Now :
            Cardinality({n \in Nonces :
                /\ n >= limitedFrom
                /\ l2Withdrawals[n] # NoWithdrawal
                /\ l2Withdrawals[n].from = user
                /\ l2Withdrawals[n].timestamp \in from..(from + rateLimit.window - 1)})
            <= 2 * rateLimit.max - 1
============================================================================
