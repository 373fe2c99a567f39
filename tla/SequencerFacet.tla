--------------------------- MODULE SequencerFacet ---------------------------
(***************************************************************************)
(* SequencerFacet.sol: submission of L2 batches to L1 and the rotation of  *)
(* sequencers.  A batch arrives either through the fraud-proof-ready state *)
(* path (exact numbering, chained state roots, a data-availability mode)   *)
(* or through the legacy submitBatch, which only goes forward.             *)
(***************************************************************************)
EXTENDS AppStorage

VARIABLE totalBatchesSubmitted  \* the counter of the ChallengePeriod contract
                                \* that recordBatchSubmitted() increments

seqVars == <<sequencerFacetVars, totalBatchesSubmitted>>

SettlementTypeOK ==
    /\ activeSequencers \in Seq(Addresses)
    /\ batches \in [BatchNumbers -> Roots \cup {NoRoot}]
    /\ batchWithdrawalRoots \in [BatchNumbers -> Roots \cup {NoRoot}]
    /\ batchRootSet \subseteq BatchNumbers
    /\ latestBatchNumber \in BatchNumbers
    /\ latestL2Block \in Nat
    /\ stateCommitments \in [BatchNumbers -> StateCommitmentData \cup {NoCommitment}]
    /\ requiredDaMode \in DaModes
    /\ daActivationBatch \in Nat
    /\ totalBatchesSubmitted \in Nat

\* getCurrentSequencer: round robin over the list, per rotation.
GetCurrentSequencer(l2Block) ==
    IF activeSequencers = <<>>
    THEN NoAddress
    ELSE activeSequencers[((l2Block \div BlocksPerRotation)
                              % Len(activeSequencers)) + 1]

\* _isDAPolicyActiveForBatch
IsDAPolicyActiveForBatch(n) ==
    /\ requiredDaMode # DaNone
    /\ daActivationBatch # 0
    /\ n >= daActivationBatch

\* A policy of mode 2 that calldata satisfies.
EnforceSomeDA(n, mode) ==
    IsDAPolicyActiveForBatch(n) => mode # DaNone

\* _enforceDAPolicy: mode 1 takes calldata or blob, mode 2 only blob.
EnforceDAPolicy(n, mode) ==
    IsDAPolicyActiveForBatch(n) =>
        \/ requiredDaMode = DaCalldata /\ mode \in {DaCalldata, DaBlob}
        \/ requiredDaMode = DaBlob /\ mode = DaBlob

\* _recordBatchSubmittedIfConfigured: the call is in a try with an empty
\* catch, so the recorder counts the batch or refuses it silently.
RecordBatchSubmitted ==
    \/ UNCHANGED totalBatchesSubmitted
    \/ /\ challengePeriodAddress # NoAddress
       /\ totalBatchesSubmitted' = totalBatchesSubmitted + 1

\* Without "Invalid end block": any block of the sender's turns ends a batch.
MaySubmitAnyBlock(sender, n, l2EndBlock) ==
    /\ IsRegisteredSequencer(sender)
    /\ sender = GetCurrentSequencer(l2EndBlock)
    /\ n \notin batchRootSet

\* The guards both submission paths share: a registered sequencer, in turn
\* for the end block, which is the last block of rotation n.
MaySubmit(sender, n, l2EndBlock) ==
    /\ IsRegisteredSequencer(sender)
    /\ sender = GetCurrentSequencer(l2EndBlock)
    /\ l2EndBlock = n * BlocksPerRotation
    /\ n \notin batchRootSet

\* What a state batch leaves in the storage under its number.
StoreStateCommitment(n, c) ==
    /\ stateCommitments' = [stateCommitments EXCEPT ![n] = c]
    /\ batches' = [batches EXCEPT ![n] = c.postStateRoot]
    /\ batchWithdrawalRoots' = [batchWithdrawalRoots EXCEPT ![n] = c.withdrawalsRoot]

\* Without "Invalid pre state root".
ContinuesBlocks(n, c) ==
    /\ c.l2StartBlock = latestL2Block + 1
    /\ c.l2StartBlock <= c.l2EndBlock

\* The arguments of a state batch that must agree with the latest batch.
Continues(n, c) ==
    /\ c.l2StartBlock = latestL2Block + 1
    /\ c.l2StartBlock <= c.l2EndBlock
    /\ stateCommitments[n - 1] # NoCommitment =>
           c.preStateRoot = stateCommitments[n - 1].postStateRoot

\* _submitStateBatchWithDA, reached from submitStateBatch (mode none),
\* submitStateBatchWithCalldata and submitStateBatchWithBlob.  The start block
\* and the roots are arguments too: they are chosen under the guards that do
\* not read them, among the nonzero ones, which the code requires.
SubmitStateBatchWithDA(sender, n, end, mode) ==
    /\ MaySubmit(sender, n, end)
    /\ stateCommitments[n] = NoCommitment
    /\ n = latestBatchNumber + 1
    /\ EnforceDAPolicy(n, mode)
    /\ \E c \in [l2StartBlock : Blocks, l2EndBlock : {end},
                 preStateRoot : Roots, postStateRoot : Roots,
                 withdrawalsRoot : Roots, sequencer : {sender}, daMode : {mode}] :
          Continues(n, c) /\ StoreStateCommitment(n, c)
    /\ batchRootSet' = batchRootSet \cup {n}
    /\ latestBatchNumber' = n
    /\ latestL2Block' = end
    /\ RecordBatchSubmitted
    /\ UNCHANGED <<rotationVars, daVars>>

SubmitStateBatch(sender, n, end) ==
    SubmitStateBatchWithDA(sender, n, end, DaNone)

\* The batch bytes are nonempty and their hash is the commitment.
SubmitStateBatchWithCalldata(sender, n, end) ==
    SubmitStateBatchWithDA(sender, n, end, DaCalldata)

\* The hashes given are exactly those of the transaction's blobs.
SubmitStateBatchWithBlob(sender, n, end) ==
    SubmitStateBatchWithDA(sender, n, end, DaBlob)

\* Without "Block already submitted".
NextNumber(n, l2Block) ==
    latestBatchNumber # 0 => n > latestBatchNumber

\* The legacy path only goes forward, in blocks and in batch numbers.
MovesForward(n, l2Block) ==
    /\ l2Block > latestL2Block
    /\ latestBatchNumber # 0 => n > latestBatchNumber

\* _submitBatch: the legacy path.  It may skip batch numbers, writes no state
\* commitment, and is refused for batches under an active DA policy.
SubmitLegacyBatch(sender, n, l2Block, rootPairs) ==
    /\ MaySubmit(sender, n, l2Block)
    /\ EnforceDAPolicy(n, DaNone)
    /\ MovesForward(n, l2Block)
    /\ \E r \in rootPairs :
          /\ batches' = [batches EXCEPT ![n] = r.state]
          /\ batchWithdrawalRoots' = [batchWithdrawalRoots EXCEPT ![n] = r.withdrawals]
    /\ batchRootSet' = batchRootSet \cup {n}
    /\ latestBatchNumber' = n
    /\ latestL2Block' = l2Block
    /\ RecordBatchSubmitted
    /\ UNCHANGED <<stateCommitments, rotationVars, daVars>>

\* Both roots must be nonzero.
RootPairs == [state : Roots, withdrawals : Roots]

\* submitBatch with three arguments: the state root doubles as withdrawal root.
SubmitBatch(sender, n, l2Block) ==
    SubmitLegacyBatch(sender, n, l2Block, {r \in RootPairs : r.withdrawals = r.state})

\* submitBatch with four arguments: an explicit withdrawals root.
SubmitBatchV3(sender, n, l2Block) ==
    SubmitLegacyBatch(sender, n, l2Block, RootPairs)

\* anchorStateCommitment: the owner gives the latest batch a commitment.
AnchorStateCommitment(n, l2EndBlock, post) ==
    /\ post # NoRoot
    /\ ~IsDAPolicyActiveForBatch(n)
    /\ stateCommitments[n] = NoCommitment
    /\ n = latestBatchNumber
    /\ l2EndBlock = latestL2Block
    /\ stateCommitments' = [stateCommitments EXCEPT ![n] =
           [l2StartBlock |-> l2EndBlock, l2EndBlock |-> l2EndBlock,
            preStateRoot |-> post, postStateRoot |-> post,
            withdrawalsRoot |-> batchWithdrawalRoots[n],
            sequencer |-> Owner, daMode |-> DaNone]]
    /\ UNCHANGED <<batches, batchWithdrawalRoots, batchRootSet,
                   latestBatchNumber, latestL2Block, rotationVars, daVars,
                   totalBatchesSubmitted>>

\* setRequiredDAMode (owner)
SetRequiredDAMode(mode, activationBatch) ==
    /\ mode # DaNone => activationBatch # 0
    /\ requiredDaMode' = mode
    /\ daActivationBatch' = IF mode = DaNone THEN 0 ELSE activationBatch
    /\ UNCHANGED <<rotationVars, batchVars, totalBatchesSubmitted>>

\* addSequencers (owner): one bad entry reverts the whole call.
AddSequencers(list) ==
    /\ \A i \in DOMAIN list :
          /\ list[i] # NoAddress
          /\ ~IsRegisteredSequencer(list[i])
          /\ \A j \in 1..(i - 1) : list[j] # list[i]
    /\ activeSequencers' = activeSequencers \o list
    /\ UNCHANGED <<batchVars, daVars, totalBatchesSubmitted>>

\* addSequencer (owner)
AddSequencer(a) == AddSequencers(<<a>>)

\* Place i of a list is overwritten with the last element, which stays.
Overwrite(list, i) == [list EXCEPT ![i] = list[Len(list)]]

\* The last element takes the place of element i and is popped.
SwapAndPop(list, i) ==
    SubSeq([list EXCEPT ![i] = list[Len(list)]], 1, Len(list) - 1)

\* removeSequencer (owner): the last element takes the place of the removed
\* one, so the turns of the sequencers that stay move.
RemoveSequencer(a) ==
    \E i \in DOMAIN activeSequencers :
        /\ activeSequencers[i] = a
        /\ \A j \in 1..(i - 1) : activeSequencers[j] # a
        /\ activeSequencers' = SwapAndPop(activeSequencers, i)
        /\ UNCHANGED <<batchVars, daVars, totalBatchesSubmitted>>

SequencerFacetNext ==
    \/ \E a \in Addresses, n \in BatchNumbers, b \in Blocks :
          \/ SubmitStateBatch(a, n, b)
          \/ SubmitStateBatchWithCalldata(a, n, b)
          \/ SubmitStateBatchWithBlob(a, n, b)
          \/ SubmitBatch(a, n, b)
          \/ SubmitBatchV3(a, n, b)
    \/ \E n \in BatchNumbers, b \in Blocks, r \in Roots \cup {NoRoot} :
          AnchorStateCommitment(n, b, r)
    \/ \E m \in DaModes, n \in BatchNumbers : SetRequiredDAMode(m, n)
    \/ \E a \in Addresses \cup {NoAddress} :
          \/ AddSequencer(a)
          \/ RemoveSequencer(a)
          \/ \E b \in Addresses \cup {NoAddress} : AddSequencers(<<a, b>>)
=============================================================================
