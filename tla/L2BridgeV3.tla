----------------------------- MODULE L2BridgeV3 -----------------------------
(***************************************************************************)
(* L2BridgeV3.sol: credits deposits made on L1, takes ETH or burns wrapped *)
(* tokens for withdrawals to L1, and gives them back for an hour when the  *)
(* user cancels.                                                           *)
(*                                                                         *)
(* Every amount is one unit.  A withdrawal is named by its nonce, which    *)
(* its id hashes.  The ETH of a deposit or of a refund is the last effect  *)
(* of its function, so that what the recipient does while it is paid it    *)
(* can as well do right after.                                             *)
(***************************************************************************)
EXTENDS Integers, FiniteSets

CONSTANTS
    ETH,            \* address(0) where a token is named
    L1Tokens,       \* ERC-20 tokens of L1
    L2Tokens,       \* wrapped tokens
    NoToken,        \* no pair registered
    L2Users,
    RefusingEth,    \* users whose address does not accept plain ETH
    L2Callers,      \* addresses that are tried as the sequencer
    DepositIds,
    DepositOf,      \* id -> [token, to] of the deposit on L1
    Nonces,         \* 0..n, a bound on withdrawals
    NoWithdrawal,
    CancelPeriod,   \* 1 hours
    RateLimits,     \* settings the owner tries, [enabled, window, max]
    EthFunding,     \* ETH put into the contract at deployment
    MaxL2Time       \* bound on the L2 clock

ASSUME L2BridgeAssumption ==
    /\ ETH \notin L1Tokens \cup L2Tokens
    /\ NoToken \notin L1Tokens \cup L2Tokens
    /\ RefusingEth \subseteq L2Users
    /\ DepositOf \in [DepositIds -> [token : L1Tokens \cup {ETH}, to : L2Users]]
    /\ Nonces \subseteq Nat
    /\ RateLimits \subseteq [enabled : BOOLEAN, window : Nat, max : Nat]
    /\ \A l \in RateLimits : l.enabled => l.window > 0 /\ l.max > 0
    /\ CancelPeriod \in Nat /\ EthFunding \in Nat /\ MaxL2Time \in Nat \ {0}

VARIABLES
    l2Sequencer,       \* sequencer
    processedDeposits,
    l1ToL2Tokens, l2ToL1Tokens,
    rateLimit,         \* withdrawalRateLimitEnabled, ...Window, max...PerWindow
    quota,             \* user -> withdrawalWindowStart, withdrawalCountInWindow
    withdrawalNonce,
    l2Withdrawals,     \* withdrawals, by nonce
    ethHeld,           \* the ETH balance of the contract
    holdings,          \* user -> asset -> what the user owns on L2
    l2Now,             \* block.timestamp
    credits,           \* how often each deposit was credited
    refunds, marks,    \* how often each withdrawal was given back, and marked
    pairings,          \* every pair registered so far
    limitedFrom        \* the nonce when the rate limit was last set

pairVars == <<l1ToL2Tokens, l2ToL1Tokens, pairings>>
depositVars == <<processedDeposits, credits>>
limitVars == <<rateLimit, limitedFrom>>
withdrawVars == <<limitVars, quota, withdrawalNonce, l2Withdrawals, refunds, marks>>
assetVars == <<ethHeld, holdings>>
l2Vars == <<l2Sequencer, pairVars, depositVars, withdrawVars, assetVars, l2Now>>

Assets == L2Tokens \cup {ETH}

Withdrawal == [token : L1Tokens \cup {ETH}, from : L2Users,
               timestamp : 1..MaxL2Time, processed : BOOLEAN]

ASSUME NoWithdrawalAssumption == NoWithdrawal \notin Withdrawal

\* constructor, and the defaults of the rate limit.  The owner then registers
\* token pairs and funds the contract.
L2Init(pairs, limit) ==
    /\ l2Sequencer \in L2Callers
    /\ processedDeposits = {}
    /\ l1ToL2Tokens = pairs
    /\ l2ToL1Tokens = [t \in L2Tokens |->
           IF \E s \in L1Tokens : pairs[s] = t
           THEN CHOOSE s \in L1Tokens : pairs[s] = t ELSE NoToken]
    /\ rateLimit = limit
    /\ quota = [u \in L2Users |-> [start |-> 0, count |-> 0]]
    /\ withdrawalNonce = 0
    /\ l2Withdrawals = [n \in Nonces |-> NoWithdrawal]
    /\ ethHeld = EthFunding
    /\ holdings = [u \in L2Users |-> [a \in Assets |-> 0]]
    /\ l2Now = 1
    /\ credits = [id \in DepositIds |-> 0]
    /\ refunds = [n \in Nonces |-> 0]
    /\ marks = [n \in Nonces |-> 0]
    /\ pairings = {<<t, pairs[t]>> : t \in {u \in L1Tokens : pairs[u] # NoToken}}
    /\ limitedFrom = 0

----------------------------------------------------------------------------
\* Deposits

\* mint, or a call with value, of one unit of the L1 token to a user; the
\* token pair is looked up when it happens.
CanPayOut(token, user) ==
    IF token = ETH THEN ethHeld > 0 /\ user \notin RefusingEth
                   ELSE l1ToL2Tokens[token] # NoToken
PayOut(token, user) ==
    IF token = ETH
    THEN /\ ethHeld' = ethHeld - 1
         /\ holdings' = [holdings EXCEPT ![user][ETH] = @ + 1]
    ELSE /\ holdings' = [holdings EXCEPT ![user][l1ToL2Tokens[token]] = @ + 1]
         /\ UNCHANGED ethHeld

\* Without "Already processed".
MayCreditAgain(caller, id) ==
    /\ caller = l2Sequencer
    /\ CanPayOut(DepositOf[id].token, DepositOf[id].to)

\* processDeposit does not revert.
MayCredit(caller, id) ==
    /\ caller = l2Sequencer
    /\ id \notin processedDeposits
    /\ CanPayOut(DepositOf[id].token, DepositOf[id].to)

ProcessDeposit(caller, id) ==
    /\ MayCredit(caller, id)
    /\ processedDeposits' = processedDeposits \cup {id}
    /\ credits' = [credits EXCEPT ![id] = @ + 1]
    /\ PayOut(DepositOf[id].token, DepositOf[id].to)
    /\ UNCHANGED <<l2Sequencer, pairVars, withdrawVars, l2Now>>

----------------------------------------------------------------------------
\* Withdrawals

WindowIsOver(user) ==
    quota[user].start = 0 \/ l2Now >= quota[user].start + rateLimit.window

\* _consumeWithdrawalQuota
HasQuota(user) ==
    ~rateLimit.enabled \/ WindowIsOver(user) \/ quota[user].count < rateLimit.max
CountedFrom(user, count) ==
    quota' = IF ~rateLimit.enabled THEN quota
             ELSE IF WindowIsOver(user)
             THEN [quota EXCEPT ![user] = [start |-> l2Now, count |-> count]]
             ELSE [quota EXCEPT ![user].count = @ + 1]
ConsumeUncounted(user) == CountedFrom(user, 0)
ConsumeWithdrawalQuota(user) == CountedFrom(user, 1)

\* The L1 token a withdrawal of an asset is for.
L1TokenOf(asset) == IF asset = ETH THEN ETH ELSE l2ToL1Tokens[asset]

InitiateWithdrawal(user, asset) ==
    /\ withdrawalNonce \in Nonces
    /\ HasQuota(user)
    /\ holdings[user][asset] > 0
    /\ L1TokenOf(asset) # NoToken
    /\ ConsumeWithdrawalQuota(user)
    /\ holdings' = [holdings EXCEPT ![user][asset] = @ - 1]
    /\ ethHeld' = IF asset = ETH THEN ethHeld + 1 ELSE ethHeld
    /\ withdrawalNonce' = withdrawalNonce + 1
    /\ l2Withdrawals' = [l2Withdrawals EXCEPT ![withdrawalNonce] =
           [token |-> L1TokenOf(asset), from |-> user,
            timestamp |-> l2Now, processed |-> FALSE]]
    /\ UNCHANGED <<l2Sequencer, pairVars, depositVars, limitVars, refunds, marks, l2Now>>

Open(n) == l2Withdrawals[n] # NoWithdrawal /\ ~l2Withdrawals[n].processed

\* Without "Not withdrawal owner".
CancelForAnyone(user, n) ==
    /\ Open(n)
    /\ l2Now < l2Withdrawals[n].timestamp + CancelPeriod
    /\ CanPayOut(l2Withdrawals[n].token, user)
    /\ l2Withdrawals' = [l2Withdrawals EXCEPT ![n].processed = TRUE]
    /\ refunds' = [refunds EXCEPT ![n] = @ + 1]
    /\ PayOut(l2Withdrawals[n].token, user)
    /\ UNCHANGED <<l2Sequencer, pairVars, depositVars, limitVars, quota,
                   withdrawalNonce, marks, l2Now>>

\* Without processed = true.
CancelUnmarked(user, n) ==
    /\ Open(n)
    /\ l2Withdrawals[n].from = user
    /\ l2Now < l2Withdrawals[n].timestamp + CancelPeriod
    /\ CanPayOut(l2Withdrawals[n].token, user)
    /\ refunds' = [refunds EXCEPT ![n] = @ + 1]
    /\ PayOut(l2Withdrawals[n].token, user)
    /\ UNCHANGED <<l2Sequencer, pairVars, depositVars, limitVars, quota,
                   withdrawalNonce, l2Withdrawals, marks, l2Now>>

CancelWithdrawal(user, n) ==
    /\ Open(n)
    /\ l2Withdrawals[n].from = user
    /\ l2Now < l2Withdrawals[n].timestamp + CancelPeriod
    /\ CanPayOut(l2Withdrawals[n].token, user)
    /\ l2Withdrawals' = [l2Withdrawals EXCEPT ![n].processed = TRUE]
    /\ refunds' = [refunds EXCEPT ![n] = @ + 1]
    /\ PayOut(l2Withdrawals[n].token, user)
    /\ UNCHANGED <<l2Sequencer, pairVars, depositVars, limitVars, quota,
                   withdrawalNonce, marks, l2Now>>

MarkWithdrawalProcessed(caller, n) ==
    /\ caller = l2Sequencer
    /\ Open(n)
    /\ l2Withdrawals' = [l2Withdrawals EXCEPT ![n].processed = TRUE]
    /\ marks' = [marks EXCEPT ![n] = @ + 1]
    /\ UNCHANGED <<l2Sequencer, pairVars, depositVars, limitVars, quota,
                   withdrawalNonce, refunds, assetVars, l2Now>>

----------------------------------------------------------------------------
\* The owner, and whoever funds the contract

AddTokenPair(l1Token, l2Token) ==
    /\ l1ToL2Tokens[l1Token] = NoToken
    /\ l2ToL1Tokens[l2Token] = NoToken
    /\ l1ToL2Tokens' = [l1ToL2Tokens EXCEPT ![l1Token] = l2Token]
    /\ l2ToL1Tokens' = [l2ToL1Tokens EXCEPT ![l2Token] = l1Token]
    /\ pairings' = pairings \cup {<<l1Token, l2Token>>}
    /\ UNCHANGED <<l2Sequencer, depositVars, withdrawVars, assetVars, l2Now>>

\* Without the deletion on the other side.
RemoveOneWay(l1Token) ==
    /\ l1ToL2Tokens[l1Token] # NoToken
    /\ l1ToL2Tokens' = [l1ToL2Tokens EXCEPT ![l1Token] = NoToken]
    /\ UNCHANGED <<l2ToL1Tokens, l2Sequencer, pairings, depositVars, withdrawVars,
                   assetVars, l2Now>>

RemoveTokenPair(l1Token) ==
    /\ l1ToL2Tokens[l1Token] # NoToken
    /\ l1ToL2Tokens' = [l1ToL2Tokens EXCEPT ![l1Token] = NoToken]
    /\ l2ToL1Tokens' = [l2ToL1Tokens EXCEPT ![l1ToL2Tokens[l1Token]] = NoToken]
    /\ UNCHANGED <<l2Sequencer, pairings, depositVars, withdrawVars, assetVars, l2Now>>

UpdateSequencer(newSequencer) ==
    /\ l2Sequencer' = newSequencer
    /\ UNCHANGED <<pairVars, depositVars, withdrawVars, assetVars, l2Now>>

InitializeWithdrawalNonce(newNonce) ==
    /\ newNonce >= withdrawalNonce
    /\ withdrawalNonce' = newNonce
    /\ UNCHANGED <<l2Sequencer, pairVars, depositVars, limitVars, quota,
                   l2Withdrawals, refunds, marks, assetVars, l2Now>>

SetWithdrawalRateLimit(limit) ==
    /\ rateLimit' = limit
    /\ limitedFrom' = withdrawalNonce
    /\ UNCHANGED <<l2Sequencer, pairVars, depositVars, quota, withdrawalNonce,
                   l2Withdrawals, refunds, marks, assetVars, l2Now>>

\* receive(), up to what was put in at deployment.
Fund ==
    /\ ethHeld < EthFunding
    /\ ethHeld' = ethHeld + 1
    /\ UNCHANGED <<l2Sequencer, pairVars, depositVars, withdrawVars, holdings, l2Now>>

L2Elapse ==
    /\ l2Now < MaxL2Time
    /\ l2Now' = l2Now + 1
    /\ UNCHANGED <<l2Sequencer, pairVars, depositVars, withdrawVars, assetVars>>
============================================================================
