---------------------------- MODULE MCSequencer ----------------------------
(***************************************************************************)
(* An instance of SequencerProcess for TLC.                                *)
(***************************************************************************)
EXTENDS SequencerProcess

\* The states the instance explores on from (every state reached is checked):
\* as long as the client knows no block but genesis, everything that happens
\* to the process; later, starts and crashes of a process that gets no signal
\* and whose other services are quiet, for the block builder shares nothing
\* with them.
SequencerScope ==
    \/ Len(chain) = 1 /\ builds = [b \in Builds |-> NoBuild] /\ lost = 0
    \/ statements = {} /\ signals = 0 /\ (step = Started => active = Services)
============================================================================
