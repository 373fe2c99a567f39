---------------------------- MODULE BlockBuilder ----------------------------
(***************************************************************************)
(* The block builder of the sequencer and the execution client it drives   *)
(* over the engine API.  Every five seconds a pass asks the client for a   *)
(* payload on top of the last block it knows, imports it and makes it the  *)
(* head.  A pass that takes longer than five seconds overlaps the next.    *)
(*                                                                         *)
(* The client follows the engine API specification: a forkchoice whose     *)
(* finalized block is not in the chain of its head is refused as a whole,  *)
(* and one whose head is an ancestor of the client's head may be skipped   *)
(* or applied.  (Geth is not that strict: it sets the head before it       *)
(* checks the finalized block.  README, section 6, says what follows.)     *)
(* getPayload and newPayload change nothing others see, and are one step.  *)
(***************************************************************************)
EXTENDS Integers, Sequences, FiniteSets

CONSTANTS
    Builds,     \* 1..n, a bound on passes running at once
    MaxBlocks,  \* bound on blocks, the genesis block among them
    MaxLost     \* bound on calls of the engine API that fail or lose their answer

ASSUME BlockBuilderAssumption ==
    Builds \subseteq Nat /\ MaxBlocks \in Nat \ {0} /\ MaxLost \in Nat

VARIABLES
    chain,      \* block -> the blocks of the chain it ends; 1 is genesis
    head,       \* the client's head
    finalized,  \* every block the client was told is final
    last,       \* lastBlockHash
    builds,     \* the passes of buildAndSubmitBlock
    crossed,    \* a pass began while another had a forkchoice on its way
    lost

engineVars == <<chain, head, finalized>>
builderVars == <<engineVars, last, builds, crossed, lost>>

NoBuild == [phase |-> "idle", base |-> 0, block |-> 0, final |-> 0]

BuilderInit ==
    /\ chain = <<{1}>>
    /\ head = 1
    /\ finalized = {1}
    /\ last = 1
    /\ builds = [b \in Builds |-> NoBuild]
    /\ crossed = FALSE
    /\ lost = 0

----------------------------------------------------------------------------
\* engine_forkchoiceUpdated; the safe block is the head

MayForkchoice(h, f) == f \in chain[h]
Forkchoice(h, f) ==
    /\ head' = h
    /\ finalized' = finalized \cup {f}
    /\ UNCHANGED chain

\* request: it throws, with or without an effect.
RequestFails(b, h, f) ==
    /\ lost < MaxLost
    /\ lost' = lost + 1
    /\ builds' = [builds EXCEPT ![b] = NoBuild]
    /\ \/ MayForkchoice(h, f) /\ Forkchoice(h, f)
       \/ UNCHANGED engineVars

----------------------------------------------------------------------------
\* buildAndSubmitBlock

OnItsWay(b) == builds[b].phase \in {"ask", "submit", "valid"}

\* A tick of the timer: all three blocks of the forkchoice are the last one.
BuildBegins(b) ==
    /\ builds[b] = NoBuild
    /\ \A c \in Builds : c < b => builds[c] # NoBuild
    /\ builds' = [builds EXCEPT ![b] = [NoBuild EXCEPT !.phase = "ask", !.base = last]]
    /\ crossed' = (crossed \/ \E c \in Builds : OnItsWay(c))
    /\ UNCHANGED <<engineVars, last, lost>>

\* The client starts to build, or skips the forkchoice: "No payload ID
\* returned".
ForkchoiceForPayload(b) ==
    LET h == builds[b].base
    IN  /\ builds[b].phase = "ask"
        /\ \/ /\ Forkchoice(h, h)
              /\ builds' = [builds EXCEPT ![b].phase = "build"]
              /\ UNCHANGED lost
           \/ /\ h \in chain[head] \ {head}
              /\ builds' = [builds EXCEPT ![b] = NoBuild]
              /\ UNCHANGED <<engineVars, lost>>
           \/ RequestFails(b, h, h)
        /\ UNCHANGED <<last, crossed>>

\* finalizedBlockHash of the second forkchoice: the last block when the
\* payload is in, not when the pass began.
FinalizedAtStart(base) == base
FinalizedNow(base) == last

\* getPayload, newPayload, and the second forkchoice is sent.
PayloadAccepted(b) ==
    /\ builds[b].phase = "build"
    /\ \/ /\ Len(chain) < MaxBlocks
          /\ chain' = Append(chain, chain[builds[b].base] \cup {Len(chain) + 1})
          /\ builds' = [builds EXCEPT ![b] =
                 [@ EXCEPT !.phase = "submit", !.block = Len(chain) + 1,
                           !.final = FinalizedNow(builds[b].base)]]
          /\ UNCHANGED lost
       \/ /\ lost < MaxLost
          /\ lost' = lost + 1
          /\ builds' = [builds EXCEPT ![b] = NoBuild]
          /\ UNCHANGED chain
    /\ UNCHANGED <<head, finalized, last, crossed>>

\* The client answers VALID or refuses.
ForkchoiceForBlock(b) ==
    LET h == builds[b].block
        f == builds[b].final
    IN  /\ builds[b].phase = "submit"
        /\ \/ /\ MayForkchoice(h, f) /\ Forkchoice(h, f)
              /\ builds' = [builds EXCEPT ![b].phase = "valid"]
              /\ UNCHANGED lost
           \/ /\ ~MayForkchoice(h, f)
              /\ builds' = [builds EXCEPT ![b] = NoBuild]
              /\ UNCHANGED <<engineVars, lost>>
           \/ RequestFails(b, h, f)
        /\ UNCHANGED <<last, crossed>>

\* The answer arrives.
BlockBuilt(b) ==
    /\ builds[b].phase = "valid"
    /\ last' = builds[b].block
    /\ builds' = [builds EXCEPT ![b] = NoBuild]
    /\ UNCHANGED <<engineVars, crossed, lost>>

\* start: initializeState takes the client's latest block.
InitializeState ==
    /\ last' = head
    /\ UNCHANGED <<engineVars, builds, crossed, lost>>

\* The process is gone with the passes it had; what was on its way has
\* reached the client by then or never will.
BuilderGone ==
    /\ builds' = [b \in Builds |-> NoBuild]
    /\ UNCHANGED <<engineVars, last, crossed, lost>>

BuildStep(b) ==
    \/ ForkchoiceForPayload(b)
    \/ PayloadAccepted(b)
    \/ ForkchoiceForBlock(b)
    \/ BlockBuilt(b)
=============================================================================
