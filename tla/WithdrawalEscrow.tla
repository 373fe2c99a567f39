-------------------------- MODULE WithdrawalEscrow --------------------------
(***************************************************************************)
(* What the L1 bridge promises about withdrawals, without batches, proofs, *)
(* oracles or reentrancy: a withdrawal is accepted once, on terms that are *)
(* never changed afterwards; it is paid at most once, on those terms, not  *)
(* before it is due and only while it is not barred; a bar is never lifted.*)
(***************************************************************************)
EXTENDS Integers

CONSTANTS Ids, Claims, None

VARIABLES terms,     \* id -> [claim, due] it was accepted on, or None
          payments,  \* id -> number of payments made
          barred,    \* ids that may no longer be paid
          clock

escrowVars == <<terms, payments, barred, clock>>

EscrowInit ==
    /\ terms \in [Ids -> [claim : Claims, due : {0}] \cup {None}]
    /\ payments = [id \in Ids |-> 0]
    /\ barred = {}
    /\ clock = 1

\* Some withdrawals are accepted, each with a due date that is not past; the
\* terms of the others stay.
Accept ==
    /\ DOMAIN terms' = Ids
    /\ \A id \in Ids :
          \/ terms'[id] = terms[id]
          \/ /\ terms[id] = None
             /\ terms'[id] \in [claim : Claims, due : Nat]
             /\ terms'[id].due >= clock
    /\ UNCHANGED <<payments, barred, clock>>

\* Accepted withdrawals are barred, one by one or by the batch.
Bar ==
    /\ barred \subseteq barred' /\ barred' \subseteq {id \in Ids : terms[id] # None}
    /\ UNCHANGED <<terms, payments, clock>>

\* A withdrawal with due date 0 comes from before due dates were recorded.
Pay(id) ==
    /\ terms[id] # None
    /\ id \notin barred
    /\ payments[id] = 0
    /\ clock >= terms[id].due
    /\ payments' = [payments EXCEPT ![id] = 1]
    /\ UNCHANGED <<terms, barred, clock>>

Elapse ==
    /\ clock' > clock
    /\ UNCHANGED <<terms, payments, barred>>

EscrowNext == Accept \/ Bar \/ Elapse \/ \E id \in Ids : Pay(id)

EscrowSpec == EscrowInit /\ [][EscrowNext]_escrowVars
=============================================================================
