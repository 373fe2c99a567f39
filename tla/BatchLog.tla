------------------------------ MODULE BatchLog ------------------------------
(***************************************************************************)
(* What every version of the sequencer facet promises about batches: they  *)
(* are appended in order of number and of blocks, each with a withdrawal   *)
(* root and possibly a commitment, which then starts where the batch       *)
(* before it ended; the batch at the head may be given a commitment later; *)
(* nothing that is there is ever changed.                                  *)
(***************************************************************************)
EXTENDS Integers

CONSTANTS Numbers, None, NoRootYet

VARIABLES head, tip,    \* the latest batch and its last block
          chain,        \* number -> [first, last, pre, post], or None
          roots         \* number -> withdrawal root, or NoRootYet

logVars == <<head, tip, chain, roots>>

LogInit ==
    /\ head = 0 /\ tip = 0
    /\ chain = [n \in Numbers |-> None]
    /\ roots = [n \in Numbers |-> NoRootYet]

\* Only the entry of batch n is written, which was empty.
Fills(old, new, n, empty) ==
    /\ old[n] = empty /\ new[n] # empty
    /\ new = [old EXCEPT ![n] = new[n]]

\* The commitment of a batch after the head.
Follows(c) ==
    /\ head' = head + 1
    /\ c.first = tip + 1 /\ c.last = tip'
    /\ chain[head] # None => c.pre = chain[head].post

AppendBatch ==
    /\ head' \in Numbers /\ head' > head
    /\ tip' > tip
    /\ Fills(roots, roots', head', NoRootYet)
    /\ \/ UNCHANGED chain
       \/ Fills(chain, chain', head', None) /\ Follows(chain'[head'])

AnchorHead ==
    /\ Fills(chain, chain', head, None)
    /\ chain'[head].last = tip
    /\ chain'[head].pre = chain'[head].post
    /\ UNCHANGED <<head, tip, roots>>

LogSpec == LogInit /\ [][AppendBatch \/ AnchorHead]_logVars
=============================================================================
