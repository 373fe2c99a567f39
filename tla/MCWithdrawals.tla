--------------------------- MODULE MCWithdrawals ---------------------------
(***************************************************************************)
(* Instances of Withdrawals for TLC.                                       *)
(***************************************************************************)
EXTENDS Withdrawals

MCFaults == [db |-> 1, rpc |-> 1, crash |-> 1]
NoFaults == [db |-> 0, rpc |-> 0, crash |-> 0]

CONSTANTS w1, w2

\* The states the instance explores on from (every state reached is checked):
\* two things went wrong at most, an upgrade and a barred withdrawal
\* among them; the services work one at a time, for their rows are
\* not the same (the listener adds them, the submitter has those that are not
\* queued, the finalizer those that are, the script those that are
\* finalized); and w1 is not withdrawn after w2, for nothing else tells them
\* apart.
WithdrawalScope ==
    /\ faults["db"] + faults["rpc"] + faults["crash"]
           + (IF facet = "legacy" THEN 0 ELSE 1)
           + Cardinality({w \in WithdrawalIds : l1[w] = "barred"}) <= 2
    /\ Cardinality({p \in {"listener"} : polls # [q \in Polls |-> NoPoll]}
                   \cup {p \in {"submitter"} : submit # NoSubmit}
                   \cup {p \in {"finalizer"} : pass # NoPass}
                   \cup {p \in {"script"} : script # {}}) <= 1
    /\ initBlock[w2] # 0 => initBlock[w1] \in 1..initBlock[w2]
============================================================================
