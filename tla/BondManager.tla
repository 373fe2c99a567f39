---------------------------- MODULE BondManager ----------------------------
(***************************************************************************)
(* BondManager.sol: the ETH behind disputes.  A challenger pays a bond     *)
(* into each dispute, a sequencer deposits stake that disputes lock from;  *)
(* the dispute game slashes the loser, refunds the winner and credits a    *)
(* reward, which the winner claims later.                                  *)
(*                                                                         *)
(* The ledger is one record, bank, and the functions the dispute game      *)
(* calls are operators from ledger to ledger, each with the predicate      *)
(* under which it does not revert: one transaction of the game composes    *)
(* several of them.  The treasury is taken to accept what it is sent.      *)
(* What a party does while it is paid by withdrawSequencerStake or         *)
(* claimReward it can as well do right after it: both pay last.            *)
(***************************************************************************)
EXTENDS Integers, Functions

CONSTANTS
    Parties,      \* addresses that challenge, defend or stake
    DisputeIds,   \* 1..n, a bound on the disputes started
    Refusing,     \* parties whose address does not accept plain ETH
    BondAmounts,  \* amounts setBondAmount is tried with
    StakeAmounts, \* amounts staked, withdrawn or paid in with a dispute
    ShareBps,     \* protocol shares tried, in basis points
    MaxEth        \* bound on what the contract holds

Bps == 10000

ASSUME BondManagerAssumption ==
    /\ DisputeIds \subseteq Nat \ {0}
    /\ Refusing \subseteq Parties
    /\ BondAmounts \subseteq Nat /\ StakeAmounts \subseteq Nat
    /\ ShareBps \subseteq Nat
    /\ MaxEth \in Nat

VARIABLES
    bondAmount,
    protocolShareBps,
    bondGame,   \* disputeGame: the only caller of the bond operations
    bondLocked, \* the lock of nonReentrant is taken
    bank        \* the ledger, and the ETH the contract holds

bondConfig == <<bondAmount, protocolShareBps, bondGame>>
bondVars == <<bondConfig, bondLocked, bank>>

EmptyBank ==
    [bonds |-> [p \in Parties |-> [id \in DisputeIds |-> 0]],
     totalBonded |-> [p \in Parties |-> 0],
     sequencerStake |-> [p \in Parties |-> 0],
     claimableRewards |-> [p \in Parties |-> [id \in DisputeIds |-> 0]],
     balance |-> 0]

----------------------------------------------------------------------------
\* The operations of the dispute game (onlyDisputeGame).

\* lockBond: the bond is what was sent, at least bondAmount.
CanLockBond(b, party, id, value) ==
    value >= bondAmount /\ b.bonds[party][id] = 0
LockBond(b, party, id, value) ==
    [b EXCEPT !.bonds[party][id] = value,
              !.totalBonded[party] = @ + value,
              !.balance = @ + value]

\* lockStakeBond: stake turns into a bond and stays in totalBonded.
CanLockStakeBond(b, party, id) ==
    b.sequencerStake[party] >= bondAmount /\ b.bonds[party][id] = 0
LockStakeBond(b, party, id) ==
    [b EXCEPT !.bonds[party][id] = bondAmount,
              !.sequencerStake[party] = @ - bondAmount]

\* slashBond: the protocol's share leaves for the treasury, the rest stays.
ProtocolShare(amount) == (amount * protocolShareBps) \div Bps
WinnerShare(b, loser, id) ==
    b.bonds[loser][id] - ProtocolShare(b.bonds[loser][id])
CanSlashBond(b, loser, id) ==
    /\ b.bonds[loser][id] # 0
    /\ ProtocolShare(b.bonds[loser][id]) <= b.balance
\* The bond is emptied before it is taken off the total.
SlashBondEmptied(b, loser, id) ==
    [b EXCEPT !.bonds[loser][id] = 0,
              !.balance = @ - ProtocolShare(b.bonds[loser][id])]
SlashBond(b, loser, id) ==
    [b EXCEPT !.bonds[loser][id] = 0,
              !.totalBonded[loser] = @ - b.bonds[loser][id],
              !.balance = @ - ProtocolShare(b.bonds[loser][id])]

\* The refunded bond stays in the books.
RefundBondKept(b, party, id) ==
    [b EXCEPT !.totalBonded[party] = @ - b.bonds[party][id],
              !.balance = @ - b.bonds[party][id]]

\* refundBond
CanRefundBond(b, party, id) ==
    /\ b.bonds[party][id] # 0
    /\ b.bonds[party][id] <= b.balance
    /\ party \notin Refusing
RefundBond(b, party, id) ==
    [b EXCEPT !.bonds[party][id] = 0,
              !.totalBonded[party] = @ - b.bonds[party][id],
              !.balance = @ - b.bonds[party][id]]

\* rewardWinner
RewardWinner(b, winner, id, amount) ==
    [b EXCEPT !.claimableRewards[winner][id] = @ + amount]

----------------------------------------------------------------------------
\* depositSequencerStake: anyone, for any sequencer.
DepositSequencerStake(sequencer, amount) ==
    /\ amount # 0
    /\ bank.balance + amount <= MaxEth
    /\ bank' = [bank EXCEPT !.sequencerStake[sequencer] = @ + amount,
                            !.totalBonded[sequencer] = @ + amount,
                            !.balance = @ + amount]
    /\ UNCHANGED <<bondConfig, bondLocked>>

\* withdrawSequencerStake: only stake that no dispute has locked.
WithdrawSequencerStake(sender, amount) ==
    /\ ~bondLocked
    /\ bank.sequencerStake[sender] >= amount
    /\ amount <= bank.balance /\ sender \notin Refusing
    /\ bank' = [bank EXCEPT !.sequencerStake[sender] = @ - amount,
                            !.totalBonded[sender] = @ - amount,
                            !.balance = @ - amount]
    /\ UNCHANGED <<bondConfig, bondLocked>>

\* claimReward
ClaimReward(sender, id) ==
    /\ ~bondLocked
    /\ bank.claimableRewards[sender][id] # 0
    /\ bank.claimableRewards[sender][id] <= bank.balance /\ sender \notin Refusing
    /\ bank' = [bank EXCEPT !.claimableRewards[sender][id] = 0,
                            !.balance = @ - bank.claimableRewards[sender][id]]
    /\ UNCHANGED <<bondConfig, bondLocked>>

\* setDisputeGame, setBondAmount and setProtocolShareBps (owner).  The owner
\* is not a party that acts inside a refund.
SetBondDisputeGame(game) ==
    /\ ~bondLocked
    /\ bondGame' = game
    /\ UNCHANGED <<bondAmount, protocolShareBps, bondLocked, bank>>

SetBondAmount(amount) ==
    /\ ~bondLocked
    /\ bondAmount' = amount
    /\ UNCHANGED <<protocolShareBps, bondGame, bondLocked, bank>>

SetProtocolShareBps(share) ==
    /\ ~bondLocked
    /\ share <= Bps
    /\ protocolShareBps' = share
    /\ UNCHANGED <<bondAmount, bondGame, bondLocked, bank>>

\* What depositors, winners and the owner do.
BondPartyNext ==
    \E p \in Parties :
        \/ \E amount \in StakeAmounts :
              \/ DepositSequencerStake(p, amount)
              \/ WithdrawSequencerStake(p, amount)
        \/ \E id \in DisputeIds : ClaimReward(p, id)

BondOwnerNext ==
    \/ \E amount \in BondAmounts : SetBondAmount(amount)
    \/ \E share \in ShareBps : SetProtocolShareBps(share)

----------------------------------------------------------------------------
\* What the ledger owes: stake, bonds and rewards.
Owed == SumFunction(bank.totalBonded)
        + SumFunction([p \in Parties |-> SumFunction(bank.claimableRewards[p])])

\* The contract can always pay what its ledger owes, and the total it shows
\* for a party is exactly its stake plus its bonds over all disputes, through
\* locking, slashing, refunds and changed shares ("Fraud-proof foundation and
\* dispute/bond accounting", SECURITY.md:27).
BondsAreCovered ==
    /\ bank.balance >= Owed
    /\ \A p \in Parties :
          bank.totalBonded[p] = bank.sequencerStake[p] + SumFunction(bank.bonds[p])
============================================================================
