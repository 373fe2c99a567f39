-------------------------- MODULE SequencerFacetV3 --------------------------
(***************************************************************************)
(* SequencerFacetV3.sol: the facet with the state path only, before DA     *)
(* modes and rotation.  It writes the same storage as SequencerFacet, with *)
(* a registry of its own, and knows neither `batches` nor batchRootSet.    *)
(***************************************************************************)
EXTENDS AppStorage

VARIABLE sequencers     \* addresses with sequencers[a].isActive

\* Numbers only have to rise.
ContinuesLater(n, c) ==
    /\ n > latestBatchNumber
    /\ c.l2StartBlock = latestL2Block + 1
    /\ c.l2StartBlock <= c.l2EndBlock
    /\ stateCommitments[n - 1] # NoCommitment =>
           c.preStateRoot = stateCommitments[n - 1].postStateRoot

\* Exact continuity and chained state roots.
ContinuesExactly(n, c) ==
    /\ n = latestBatchNumber + 1
    /\ c.l2StartBlock = latestL2Block + 1
    /\ c.l2StartBlock <= c.l2EndBlock
    /\ stateCommitments[n - 1] # NoCommitment =>
           c.preStateRoot = stateCommitments[n - 1].postStateRoot

\* submitBatch: any active sequencer, a range of any length.
V3SubmitBatch(sender, n) ==
    /\ sender \in sequencers
    /\ stateCommitments[n] = NoCommitment
    /\ \E c \in [l2StartBlock : Blocks, l2EndBlock : Blocks,
                 preStateRoot : Roots, postStateRoot : Roots,
                 withdrawalsRoot : Roots, sequencer : {sender}, daMode : {DaNone}] :
          /\ ContinuesExactly(n, c)
          /\ stateCommitments' = [stateCommitments EXCEPT ![n] = c]
          /\ batchWithdrawalRoots' = [batchWithdrawalRoots EXCEPT ![n] = c.withdrawalsRoot]
          /\ latestL2Block' = c.l2EndBlock
    /\ latestBatchNumber' = n
    /\ UNCHANGED <<batches, batchRootSet, rotationVars, daVars, sequencers>>

\* anchorStateCommitment (owner)
V3AnchorStateCommitment(n, l2EndBlock, post) ==
    /\ stateCommitments[n] = NoCommitment
    /\ n = latestBatchNumber
    /\ l2EndBlock = latestL2Block
    /\ stateCommitments' = [stateCommitments EXCEPT ![n] =
           [l2StartBlock |-> l2EndBlock, l2EndBlock |-> l2EndBlock,
            preStateRoot |-> post, postStateRoot |-> post,
            withdrawalsRoot |-> batchWithdrawalRoots[n],
            sequencer |-> Owner, daMode |-> DaNone]]
    /\ UNCHANGED <<batches, batchWithdrawalRoots, batchRootSet, latestBatchNumber,
                   latestL2Block, rotationVars, daVars, sequencers>>

\* addSequencer and removeSequencer (owner)
V3SetSequencer(a, active) ==
    /\ active => a # NoAddress
    /\ sequencers' = IF active THEN sequencers \cup {a} ELSE sequencers \ {a}
    /\ UNCHANGED <<batchVars, rotationVars, daVars>>

V3Next ==
    \/ \E a \in Addresses, n \in BatchNumbers \ {0} : V3SubmitBatch(a, n)
    \/ \E n \in BatchNumbers, b \in Blocks, r \in Roots : V3AnchorStateCommitment(n, b, r)
    \/ \E a \in Addresses \cup {NoAddress}, active \in BOOLEAN : V3SetSequencer(a, active)
=============================================================================
