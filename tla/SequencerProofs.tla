-------------------------- MODULE SequencerProofs --------------------------
(***************************************************************************)
(* Theorems about the process of the sequencer, for any number of passes   *)
(* and faults: what the block builder says is final stays so, the process  *)
(* says it is healthy only when it is, and what it exits with is true.     *)
(***************************************************************************)
EXTENDS SequencerProcess, TLAPS

Phases == {"idle", "ask", "build", "submit", "valid"}
BuildRecord == [phase : Phases, base : Nat, block : Nat, final : Nat]

\* A block of the chain, and passes that have one.
Known(n) == n \in 1..Len(chain)
Sent(b) == builds[b].phase \in {"submit", "valid"}
Based(b) == builds[b].phase \in {"ask", "build"}

\* A block is of the chain it ends, with all that the chain of any of its
\* blocks has, and none of them is newer.
BlocksWellFormed ==
    /\ chain \in Seq(SUBSET Nat)
    /\ \A i \in 1..Len(chain) :
          /\ i \in chain[i] /\ chain[i] \subseteq 1..i
          /\ \A j \in chain[i] : chain[j] \subseteq chain[i]

PassesWellFormed ==
    /\ Known(head) /\ Known(last)
    /\ builds \in [Builds -> BuildRecord]
    /\ \A b \in Builds :
          /\ builds[b].phase \in {"ask", "build"} => Known(builds[b].base)
          /\ builds[b].phase \in {"submit", "valid"} =>
                Known(builds[b].block) /\ Known(builds[b].final)

\* A pass whose block the client takes, or has taken.
Live(b) == Sent(b) /\ builds[b].final \in chain[builds[b].block]

\* What may become the head or the last block, and what is final, or may yet
\* be said to be.
Tips == {last} \cup {builds[b].block : b \in {c \in Builds : Live(c)}}
               \cup {builds[b].base : b \in {c \in Builds : builds[c].phase = "ask"}}
Floor == finalized \cup {builds[b].final : b \in {c \in Builds : Live(c)}}
                   \cup {builds[b].base : b \in {c \in Builds : Based(c)}}

\* All that may be final is in the chain of all that may be the head.  A pass
\* is built on the last block or on one that knows nothing newer.
FloorHolds ==
    /\ finalized \subseteq chain[head]
    /\ \A k \in Tips : Floor \subseteq chain[k]
    /\ \A b \in Builds : builds[b].phase = "valid" => Live(b)
    /\ \A b \in Builds : Based(b) =>
          /\ last = builds[b].base \/ last \notin chain[builds[b].base]
          /\ \A c \in Builds : Sent(c) => builds[c].block \notin chain[builds[b].base]

BuilderInv == BlocksWellFormed /\ PassesWellFormed /\ (~crossed => FloorHolds)

\* A pass and a service that runs are those of a process that started the
\* builder; the finalizer, which is the last to start, only runs while the
\* pool is open, and then all others do.
ProcessInv ==
    /\ step \in 0..Started
    /\ ~up => step = 0
    /\ step = 0 => ~awaiting
    /\ status \in [Reported -> {"STOPPED", "STARTING", "RUNNING"}]
    /\ active # {} \/ (\E b \in Builds : builds[b] # NoBuild) =>
          step > 1 \/ (step = 1 /\ awaiting)
    /\ pool = "open" =>
          \A i \in DOMAIN Order :
              i < step \/ (i = step /\ awaiting) => Order[i] \in active
    /\ status["withdrawalFinalizer"] = "RUNNING" => pool = "open" /\ step = Started
    /\ pool = "ending" => closing \in Signals

----------------------------------------------------------------------------
\* A pass that goes on with what it has, or ends: nothing new can become the
\* head or final.
LEMMA PassGoesOn ==
    ASSUME FloorHolds, NEW b \in Builds, UNCHANGED chain,
           \A c \in Builds : c # b => builds'[c] = builds[c],
           last' = last \/ (Live(b) /\ last' = builds[b].block),
           finalized' \subseteq Floor, finalized' \subseteq chain[head'],
           Based(b)' => /\ Based(b) /\ builds'[b].base = builds[b].base
                        /\ builds'[b].phase = "ask" => builds[b].phase = "ask",
           Sent(b)' => /\ Sent(b) /\ builds'[b].block = builds[b].block
                       /\ builds'[b].final = builds[b].final,
           builds'[b].phase = "valid" => Live(b)
    PROVE  FloorHolds'
<1>1. ASSUME NEW c \in Builds, Sent(c)'
      PROVE  /\ Sent(c) /\ builds'[c].block = builds[c].block
             /\ builds'[c].final = builds[c].final
             /\ Live(c)' <=> Live(c)
  <2>1. /\ Sent(c) /\ builds'[c].block = builds[c].block
        /\ builds'[c].final = builds[c].final
    BY <1>1 DEF Sent
  <2> QED  BY <1>1, <2>1 DEF Live
<1>2. ASSUME NEW c \in Builds, Based(c)'
      PROVE  /\ Based(c) /\ builds'[c].base = builds[c].base
             /\ builds'[c].phase = "ask" => builds[c].phase = "ask"
  BY <1>2 DEF Based
<1>3. \A c \in Builds : Live(c)' => Sent(c)'
  BY DEF Live
<1>4. \A c \in Builds : builds'[c].phase = "ask" => Based(c)'
  BY DEF Based
<1>5. last' \in Tips
  BY DEF Tips
<1>6. Tips' \subseteq Tips
  <2>1. ASSUME NEW k, k \in {builds'[c].block : c \in {d \in Builds : Live(d)'}}
        PROVE  k \in {builds[c].block : c \in {d \in Builds : Live(d)}}
    BY <1>1, <1>3, <2>1
  <2>2. ASSUME NEW k, k \in {builds'[c].base : c \in {d \in Builds : builds'[d].phase = "ask"}}
        PROVE  k \in {builds[c].base : c \in {d \in Builds : builds[d].phase = "ask"}}
    BY <1>2, <1>4, <2>2
  <2> QED  BY <1>5, <2>1, <2>2 DEF Tips
<1>7. Floor' \subseteq Floor
  <2>1. ASSUME NEW k, k \in {builds'[c].final : c \in {d \in Builds : Live(d)'}}
        PROVE  k \in {builds[c].final : c \in {d \in Builds : Live(d)}}
    BY <1>1, <1>3, <2>1
  <2>2. ASSUME NEW k, k \in {builds'[c].base : c \in {d \in Builds : Based(d)'}}
        PROVE  k \in {builds[c].base : c \in {d \in Builds : Based(d)}}
    BY <1>2, <2>2
  <2> QED  BY <2>1, <2>2 DEF Floor
<1>8. \A c \in Builds : builds'[c].phase = "valid" => Live(c)'
  <2>1. ASSUME NEW c \in Builds, builds'[c].phase = "valid" PROVE Live(c)'
    <3>1. Sent(c)'
      BY <2>1 DEF Sent
    <3>2. Live(c)
      BY <2>1 DEF FloorHolds
    <3> QED  BY <1>1, <3>1, <3>2
  <2> QED  BY <2>1
<1>9. ASSUME NEW c \in Builds, Based(c)'
      PROVE  /\ last' = builds'[c].base \/ last' \notin chain[builds'[c].base]
             /\ \A d \in Builds : Sent(d)' => builds'[d].block \notin chain[builds'[c].base]
  <2>1. \A d \in Builds : Sent(d) => builds[d].block \notin chain[builds[c].base]
    BY <1>2, <1>9 DEF FloorHolds
  <2>2. last' = last \/ last' \notin chain[builds[c].base]
    BY <2>1 DEF Live
  <2>3. last = builds[c].base \/ last \notin chain[builds[c].base]
    BY <1>2, <1>9 DEF FloorHolds
  <2> QED  BY <1>1, <1>2, <1>9, <2>1, <2>2, <2>3
<1>10. \A k \in Tips' : Floor' \subseteq chain[k]
  BY <1>6, <1>7 DEF FloorHolds
<1> QED  BY <1>8, <1>9, <1>10 DEF FloorHolds

\* A pass that ends in whatever way.
LEMMA PassEnds ==
    ASSUME FloorHolds, NEW b \in Builds, UNCHANGED <<chain, last>>,
           builds \in [Builds -> BuildRecord],
           builds' = [builds EXCEPT ![b] = NoBuild],
           finalized' \subseteq Floor, finalized' \subseteq chain[head']
    PROVE  FloorHolds'
<1>1. \A c \in Builds : c # b => builds'[c] = builds[c]
  OBVIOUS
<1>2. builds'[b].phase = "idle"
  BY DEF NoBuild
<1> QED  BY <1>1, <1>2, PassGoesOn DEF Based, Sent

\* A forkchoice whose blocks are a tip and of the floor.
LEMMA ForkchoiceHolds ==
    ASSUME FloorHolds, NEW h, NEW f, h \in Tips, f \in Floor, Forkchoice(h, f)
    PROVE  /\ finalized' \subseteq Floor /\ finalized' \subseteq chain[head']
           /\ UNCHANGED chain
<1>1. finalized \subseteq Floor
  BY DEF Floor
<1>2. Floor \subseteq chain[h]
  BY DEF FloorHolds
<1> QED  BY <1>1, <1>2 DEF Forkchoice

LEMMA ForkchoiceForPayloadHolds ==
    ASSUME FloorHolds, builds \in [Builds -> BuildRecord], NEW b \in Builds,
           ForkchoiceForPayload(b)
    PROVE  FloorHolds'
<1>1. PICK h : h = builds[b].base
  OBVIOUS
<1>2. h \in Tips /\ h \in Floor /\ builds[b].phase = "ask"
  BY <1>1 DEF ForkchoiceForPayload, Tips, Floor, Based
<1>3. UNCHANGED last
  BY DEF ForkchoiceForPayload
<1>4. CASE Forkchoice(h, h) /\ builds' = [builds EXCEPT ![b].phase = "build"]
  <2>1. /\ finalized' \subseteq Floor /\ finalized' \subseteq chain[head']
        /\ UNCHANGED chain
    BY <1>2, <1>4, ForkchoiceHolds
  <2>2. /\ builds'[b].phase = "build" /\ builds'[b].base = builds[b].base
        /\ \A c \in Builds : c # b => builds'[c] = builds[c]
    BY <1>4 DEF BuildRecord
  <2> QED  BY <1>2, <1>3, <2>1, <2>2, PassGoesOn DEF Based, Sent
<1>5. CASE builds' = [builds EXCEPT ![b] = NoBuild] /\ UNCHANGED engineVars
  BY <1>3, <1>5, PassEnds DEF engineVars, Floor, FloorHolds
<1>6. CASE RequestFails(b, h, h)
  <2>1. CASE Forkchoice(h, h)
    <3>1. /\ finalized' \subseteq Floor /\ finalized' \subseteq chain[head']
          /\ UNCHANGED chain
      BY <1>2, <2>1, ForkchoiceHolds
    <3> QED  BY <1>3, <1>6, <3>1, PassEnds DEF RequestFails
  <2>2. CASE UNCHANGED engineVars
    BY <1>3, <1>6, <2>2, PassEnds DEF RequestFails, engineVars, Floor, FloorHolds
  <2> QED  BY <1>6, <2>1, <2>2 DEF RequestFails
<1> QED  BY <1>1, <1>4, <1>5, <1>6 DEF ForkchoiceForPayload

LEMMA ForkchoiceForBlockHolds ==
    ASSUME FloorHolds, builds \in [Builds -> BuildRecord], NEW b \in Builds,
           ForkchoiceForBlock(b)
    PROVE  FloorHolds'
<1>1. PICK h, f : h = builds[b].block /\ f = builds[b].final
  OBVIOUS
<1>2. UNCHANGED last /\ builds[b].phase = "submit"
  BY DEF ForkchoiceForBlock
<1>3. MayForkchoice(h, f) => Live(b) /\ h \in Tips /\ f \in Floor
  BY <1>1, <1>2 DEF MayForkchoice, Live, Sent, Tips, Floor
<1>4. CASE /\ MayForkchoice(h, f) /\ Forkchoice(h, f)
           /\ builds' = [builds EXCEPT ![b].phase = "valid"]
  <2>1. /\ finalized' \subseteq Floor /\ finalized' \subseteq chain[head']
        /\ UNCHANGED chain
    BY <1>3, <1>4, ForkchoiceHolds
  <2>2. /\ builds'[b].phase = "valid" /\ builds'[b].block = builds[b].block
        /\ builds'[b].final = builds[b].final
        /\ \A c \in Builds : c # b => builds'[c] = builds[c]
    BY <1>4 DEF BuildRecord
  <2> QED  BY <1>2, <1>3, <1>4, <2>1, <2>2, PassGoesOn DEF Based, Sent
<1>5. CASE builds' = [builds EXCEPT ![b] = NoBuild] /\ UNCHANGED engineVars
  BY <1>2, <1>5, PassEnds DEF engineVars, Floor, FloorHolds
<1>6. CASE RequestFails(b, h, f)
  <2>1. CASE MayForkchoice(h, f) /\ Forkchoice(h, f)
    <3>1. /\ finalized' \subseteq Floor /\ finalized' \subseteq chain[head']
          /\ UNCHANGED chain
      BY <1>3, <2>1, ForkchoiceHolds
    <3> QED  BY <1>2, <1>6, <3>1, PassEnds DEF RequestFails
  <2>2. CASE UNCHANGED engineVars
    BY <1>2, <1>6, <2>2, PassEnds DEF RequestFails, engineVars, Floor, FloorHolds
  <2> QED  BY <1>6, <2>1, <2>2 DEF RequestFails
<1> QED  BY <1>1, <1>4, <1>5, <1>6 DEF ForkchoiceForBlock

LEMMA BlockBuiltHolds ==
    ASSUME FloorHolds, builds \in [Builds -> BuildRecord], NEW b \in Builds, BlockBuilt(b)
    PROVE  FloorHolds'
<1>1. Live(b) /\ last' = builds[b].block /\ UNCHANGED engineVars
  BY DEF BlockBuilt, FloorHolds
<1>2. builds'[b].phase = "idle" /\ \A c \in Builds : c # b => builds'[c] = builds[c]
  BY DEF BlockBuilt, NoBuild
<1>3. finalized' \subseteq Floor /\ finalized' \subseteq chain[head'] /\ UNCHANGED chain
  BY <1>1 DEF engineVars, Floor, FloorHolds
<1> QED  BY <1>1, <1>2, <1>3, PassGoesOn DEF Based, Sent

\* A pass that begins while no other has anything on its way: the last block
\* is the only tip.
LEMMA BuildBeginsHolds ==
    ASSUME FloorHolds, BlocksWellFormed, PassesWellFormed, NEW b \in Builds,
           BuildBegins(b), ~crossed'
    PROVE  FloorHolds'
<1>1. UNCHANGED <<chain, head, finalized, last>>
  BY DEF BuildBegins, engineVars
<1>2. builds \in [Builds -> BuildRecord] /\ last \in chain[last]
  BY DEF PassesWellFormed, BlocksWellFormed, Known
<1>3. \A c \in Builds : builds[c].phase \notin {"ask", "submit", "valid"}
  BY DEF BuildBegins, OnItsWay
<1>4. \A c \in Builds : c # b => builds'[c] = builds[c]
  BY DEF BuildBegins
<1>5. builds'[b].phase = "ask" /\ builds'[b].base = last
  BY <1>2 DEF BuildBegins, NoBuild
<1>6. \A c \in Builds : ~Live(c)' /\ ~Sent(c)'
  BY <1>3, <1>4, <1>5 DEF Live, Sent
<1>7. Tips' = {last}
  <2>1. \A c \in Builds : builds'[c].phase = "ask" => builds'[c].base = last
    BY <1>3, <1>4, <1>5
  <2> QED  BY <1>1, <1>6, <2>1 DEF Tips
<1>8. Floor' \subseteq Floor \cup {last}
  <2>1. \A c \in Builds : Based(c)' =>
           builds'[c].base = last \/ (Based(c) /\ builds'[c].base = builds[c].base)
    BY <1>4, <1>5 DEF Based
  <2> QED  BY <1>1, <1>6, <2>1 DEF Floor
<1>9. Floor \subseteq chain[last]
  BY DEF FloorHolds, Tips
<1>10. \A c \in Builds : Based(c)' =>
          last = builds'[c].base \/ last \notin chain[builds'[c].base]
  <2>1. \A c \in Builds : Based(c) => last = builds[c].base \/ last \notin chain[builds[c].base]
    BY DEF FloorHolds
  <2> QED  BY <1>4, <1>5, <2>1 DEF Based
<1>11. finalized' \subseteq chain'[head']
  BY <1>1 DEF FloorHolds
<1>12. \A k \in Tips' : Floor' \subseteq chain'[k]
  BY <1>1, <1>2, <1>7, <1>8, <1>9
<1>13. \A c \in Builds : builds'[c].phase = "valid" => Live(c)'
  BY <1>3, <1>4, <1>5
<1> QED  BY <1>1, <1>6, <1>10, <1>11, <1>12, <1>13 DEF FloorHolds

\* The block a payload adds.
LEMMA ChainGrows ==
    ASSUME BlocksWellFormed, NEW p, Known(p),
           chain' = Append(chain, chain[p] \cup {Len(chain) + 1})
    PROVE  /\ Len(chain') = Len(chain) + 1
           /\ \A i \in 1..Len(chain) : chain'[i] = chain[i]
           /\ chain'[Len(chain) + 1] = chain[p] \cup {Len(chain) + 1}
           /\ BlocksWellFormed'
<1>1. PICK n : n = Len(chain) + 1
  OBVIOUS
<1>2. chain \in Seq(SUBSET Nat) /\ Len(chain) \in Nat /\ n \in Nat /\ p \in 1..Len(chain)
  BY <1>1 DEF BlocksWellFormed, Known
<1>3. chain[p] \cup {n} \in SUBSET Nat
  BY <1>2
<1>4. /\ chain' \in Seq(SUBSET Nat) /\ Len(chain') = n
      /\ \A i \in 1..Len(chain) : chain'[i] = chain[i]
      /\ chain'[n] = chain[p] \cup {n}
  BY <1>1, <1>2, <1>3
<1>5. \A i \in 1..Len(chain) :
         /\ i \in chain[i] /\ chain[i] \subseteq 1..i
         /\ \A j \in chain[i] : chain[j] \subseteq chain[i]
  BY DEF BlocksWellFormed
<1>6. ASSUME NEW i \in 1..n
      PROVE  /\ i \in chain'[i] /\ chain'[i] \subseteq 1..i
             /\ \A j \in chain'[i] : chain'[j] \subseteq chain'[i]
  <2>1. CASE i \in 1..Len(chain)
    <3>1. chain[i] \subseteq 1..Len(chain)
      BY <1>2, <1>5, <2>1
    <3>2. \A j \in chain[i] : chain'[j] = chain[j]
      BY <1>4, <3>1
    <3> QED  BY <1>4, <1>5, <2>1, <3>2
  <2>2. CASE i = n
    <3>1. chain[p] \subseteq 1..p /\ p <= n
      BY <1>1, <1>2, <1>5
    <3>2. chain'[n] \subseteq 1..n /\ n \in chain'[n] /\ chain[p] \subseteq 1..Len(chain)
      BY <1>1, <1>2, <1>4, <3>1
    <3>3. ASSUME NEW j \in chain'[n] PROVE chain'[j] \subseteq chain'[n]
      <4>1. CASE j = n
        BY <4>1
      <4>2. CASE j \in chain[p]
        <5>1. chain'[j] = chain[j]
          BY <1>4, <3>2, <4>2
        <5>2. chain[j] \subseteq chain[p]
          BY <1>2, <1>5, <4>2
        <5> QED  BY <1>4, <5>1, <5>2
      <4> QED  BY <1>4, <4>1, <4>2
    <3> QED  BY <2>2, <3>2, <3>3
  <2> QED  BY <1>1, <1>2, <2>1, <2>2
<1>7. BlocksWellFormed'
  BY <1>4, <1>6 DEF BlocksWellFormed
<1> QED  BY <1>1, <1>4, <1>7

\* All tips are blocks, and so are all on the floor.
LEMMA TipsAreKnown ==
    ASSUME PassesWellFormed
    PROVE  \A k \in Tips : Known(k)
<1>1. \A c \in Builds : Live(c) => Known(builds[c].block)
  BY DEF PassesWellFormed, Live, Sent
<1>2. \A c \in Builds : builds[c].phase = "ask" => Known(builds[c].base)
  BY DEF PassesWellFormed
<1> QED  BY <1>1, <1>2 DEF Tips, PassesWellFormed

\* A payload is sent with the last block as final: it is taken only if that
\* is the block it was built on, which was on the floor already.
LEMMA PayloadAcceptedHolds ==
    ASSUME FloorHolds, BlocksWellFormed, PassesWellFormed, NEW b \in Builds, PayloadAccepted(b)
    PROVE  FloorHolds'
<1>1. UNCHANGED <<head, finalized, last>> /\ builds[b].phase = "build"
  BY DEF PayloadAccepted
<1>2. builds \in [Builds -> BuildRecord] /\ Known(builds[b].base) /\ Known(last) /\ Known(head)
  BY <1>1 DEF PassesWellFormed
<1>3. CASE builds' = [builds EXCEPT ![b] = NoBuild] /\ UNCHANGED chain
  BY <1>1, <1>2, <1>3, PassEnds DEF Floor, FloorHolds
<1>4. CASE /\ chain' = Append(chain, chain[builds[b].base] \cup {Len(chain) + 1})
           /\ builds' = [builds EXCEPT ![b] =
                 [@ EXCEPT !.phase = "submit", !.block = Len(chain) + 1,
                           !.final = FinalizedNow(builds[b].base)]]
  <2>1. PICK n, p : n = Len(chain) + 1 /\ p = builds[b].base
    OBVIOUS
  <2>2. /\ \A i \in 1..Len(chain) : chain'[i] = chain[i]
        /\ chain'[n] = chain[p] \cup {n}
    BY <1>2, <1>4, <2>1, ChainGrows
  <2>3. /\ builds'[b].phase = "submit" /\ builds'[b].block = n /\ builds'[b].final = last
        /\ \A c \in Builds : c # b => builds'[c] = builds[c]
    BY <1>2, <1>4, <2>1 DEF FinalizedNow, BuildRecord
  <2>4. \A k : Known(k) => chain'[k] = chain[k] /\ k \in 1..Len(chain) /\ k # n /\ n \notin chain[k]
    BY <2>1, <2>2 DEF Known, BlocksWellFormed
  <2>5. ASSUME NEW c \in Builds, c # b
        PROVE  (Live(c)' <=> Live(c)) /\ (Based(c)' <=> Based(c)) /\ (Sent(c)' <=> Sent(c))
    <3>1. builds'[c] = builds[c]
      BY <2>3, <2>5
    <3>2. Sent(c) => chain'[builds[c].block] = chain[builds[c].block]
      BY <2>4 DEF PassesWellFormed, Sent
    <3> QED  BY <3>1, <3>2 DEF Live, Based, Sent
  <2>6. ~Based(b)' /\ Sent(b)'
    BY <2>3 DEF Based, Sent
  <2>7. Live(b)' => last = p
    <3>1. Live(b)' => last \in chain[p]
      BY <1>2, <2>2, <2>3, <2>4 DEF Live
    <3> QED  BY <1>1, <2>1, <3>1 DEF FloorHolds, Based
  <2>8. Floor' \subseteq Floor
    <3>1. p \in Floor
      BY <1>1, <2>1 DEF Floor, Based
    <3>2. ASSUME NEW c \in Builds, Live(c)' PROVE builds'[c].final \in Floor
      <4>1. CASE c = b
        BY <2>3, <2>7, <3>1, <3>2, <4>1
      <4>2. CASE c # b
        BY <2>3, <2>5, <3>2, <4>2 DEF Floor
      <4> QED  BY <4>1, <4>2
    <3>3. ASSUME NEW c \in Builds, Based(c)' PROVE builds'[c].base \in Floor
      BY <2>3, <2>5, <2>6, <3>3 DEF Floor
    <3> QED  BY <1>1, <3>2, <3>3 DEF Floor
  <2>9. ASSUME NEW k \in Tips' PROVE k \in Tips \/ (k = n /\ Live(b)')
    <3>1. ASSUME NEW c \in Builds, Live(c)', k = builds'[c].block
          PROVE  k \in Tips \/ (k = n /\ Live(b)')
      BY <2>3, <2>5, <3>1 DEF Tips
    <3>2. ASSUME NEW c \in Builds, builds'[c].phase = "ask", k = builds'[c].base
          PROVE  k \in Tips
      BY <2>3, <3>2 DEF Tips
    <3>3. last \in Tips
      BY DEF Tips
    <3> QED  BY <1>1, <3>1, <3>2, <3>3 DEF Tips
  <2>10. ASSUME NEW k \in Tips' PROVE Floor' \subseteq chain'[k]
    <3>1. CASE k \in Tips
      BY <2>4, <2>8, <3>1, TipsAreKnown DEF FloorHolds
    <3>2. CASE k = n /\ Live(b)'
      <4>1. Floor \subseteq chain[last]
        BY DEF FloorHolds, Tips
      <4> QED  BY <2>2, <2>7, <2>8, <3>2, <4>1
    <3> QED  BY <2>9, <3>1, <3>2
  <2>11. \A c \in Builds : builds'[c].phase = "valid" => Live(c)'
    BY <2>3, <2>5 DEF FloorHolds
  <2>12. ASSUME NEW c \in Builds, Based(c)'
         PROVE  /\ last' = builds'[c].base \/ last' \notin chain'[builds'[c].base]
                /\ \A d \in Builds : Sent(d)' => builds'[d].block \notin chain'[builds'[c].base]
    <3>1. c # b /\ Based(c) /\ builds'[c] = builds[c]
      BY <2>3, <2>5, <2>6, <2>12
    <3>2. Known(builds[c].base)
      BY <3>1 DEF PassesWellFormed, Based
    <3>3. chain'[builds'[c].base] = chain[builds[c].base] /\ n \notin chain[builds[c].base]
      BY <2>4, <3>1, <3>2
    <3>4. \A d \in Builds : Sent(d) => builds[d].block \notin chain[builds[c].base]
      BY <3>1 DEF FloorHolds
    <3>5. last = builds[c].base \/ last \notin chain[builds[c].base]
      BY <3>1 DEF FloorHolds
    <3> QED  BY <1>1, <2>3, <2>5, <3>1, <3>3, <3>4, <3>5
  <2>13. finalized' \subseteq chain'[head']
    BY <1>1, <1>2, <2>4 DEF FloorHolds
  <2> QED  BY <2>10, <2>11, <2>12, <2>13 DEF FloorHolds
<1> QED  BY <1>3, <1>4 DEF PayloadAccepted

\* No pass is left: what is final is in the chain of the head, and that of
\* the block the builder starts with.
LEMMA NoPassHolds ==
    ASSUME FloorHolds, UNCHANGED engineVars, last' = last \/ last' = head,
           \A b \in Builds : builds'[b].phase = "idle"
    PROVE  FloorHolds'
<1>1. /\ \A b \in Builds : ~Live(b)' /\ ~Based(b)' /\ ~Sent(b)'
      /\ \A b \in Builds : builds'[b].phase # "ask" /\ builds'[b].phase # "valid"
  BY DEF Live, Based, Sent
<1>2. Tips' = {last'} /\ Floor' = finalized
  BY <1>1 DEF Tips, Floor, engineVars
<1>3. finalized \subseteq chain[last] /\ finalized \subseteq chain[head]
  BY DEF FloorHolds, Tips, Floor
<1> QED  BY <1>1, <1>2, <1>3 DEF FloorHolds, engineVars

\* The passes of a builder that is gone.
LEMMA GonePasses ==
    ASSUME BuilderInv, UNCHANGED <<engineVars, crossed>>, last' = last \/ last' = head,
           builds' = [b \in Builds |-> NoBuild] \/ builds' = builds,
           \A b \in Builds : builds'[b].phase = "idle"
    PROVE  BuilderInv'
<1>1. BlocksWellFormed'
  BY DEF BuilderInv, BlocksWellFormed, engineVars
<1>2. builds' \in [Builds -> BuildRecord]
  BY DEF BuilderInv, PassesWellFormed, NoBuild, BuildRecord, Phases
<1>3. PassesWellFormed'
  BY <1>2 DEF BuilderInv, PassesWellFormed, Known, engineVars
<1>4. ~crossed' => FloorHolds'
  BY NoPassHolds DEF BuilderInv
<1> QED  BY <1>1, <1>3, <1>4 DEF BuilderInv

\* The passes keep to the blocks there are.
LEMMA PassMoves ==
    ASSUME PassesWellFormed, NEW b \in Builds,
           Len(chain') >= Len(chain), Len(chain) \in Nat, Len(chain') \in Nat,
           NEW d \in BuildRecord, builds' \in [Builds -> BuildRecord], builds'[b] = d,
           \A c \in Builds : c # b => builds'[c] = builds[c],
           Known(head)', Known(last)',
           d.phase \in {"ask", "build"} => Known(d.base)',
           d.phase \in {"submit", "valid"} => Known(d.block)' /\ Known(d.final)'
    PROVE  PassesWellFormed'
<1>1. \A n : Known(n) => Known(n)'
  BY DEF Known
<1>2. ASSUME NEW c \in Builds
      PROVE  (/\ builds[c].phase \in {"ask", "build"} => Known(builds[c].base)
              /\ builds[c].phase \in {"submit", "valid"} =>
                    Known(builds[c].block) /\ Known(builds[c].final))'
  <2>1. CASE c = b
    BY <2>1
  <2>2. CASE c # b
    BY <1>1, <2>2 DEF PassesWellFormed
  <2> QED  BY <2>1, <2>2
<1> QED  BY <1>2 DEF PassesWellFormed

LEMMA NoBuildIsRecord == NoBuild \in BuildRecord /\ NoBuild.phase = "idle"
BY DEF NoBuild, BuildRecord, Phases

LEMMA BlocksStay ==
    ASSUME BlocksWellFormed, UNCHANGED chain
    PROVE  BlocksWellFormed'
BY DEF BlocksWellFormed

LEMMA WellFormedStep ==
    ASSUME BlocksWellFormed, PassesWellFormed, NEW b \in Builds, BuildBegins(b) \/ BuildStep(b)
    PROVE  BlocksWellFormed' /\ PassesWellFormed'
<1>1. /\ Len(chain) \in Nat /\ builds \in [Builds -> BuildRecord]
      /\ Known(head) /\ Known(last)
      /\ \A n : Known(n) => n \in Nat
  BY DEF BlocksWellFormed, PassesWellFormed, Known
<1>2. PICK r \in BuildRecord : r = builds[b]
  BY <1>1
<1>3. ASSUME UNCHANGED chain, Known(head'), Known(last'), NEW d \in BuildRecord,
             builds' = [builds EXCEPT ![b] = d],
             d.phase \in {"ask", "build"} => Known(d.base),
             d.phase \in {"submit", "valid"} => Known(d.block) /\ Known(d.final)
      PROVE  BlocksWellFormed' /\ PassesWellFormed'
  <2>1. BlocksWellFormed'
    BY <1>3, BlocksStay
  <2>3. /\ builds' \in [Builds -> BuildRecord] /\ builds'[b] = d
        /\ \A c \in Builds : c # b => builds'[c] = builds[c]
        /\ Len(chain') = Len(chain)
    BY <1>1, <1>3
  <2>4. /\ Known(head)' /\ Known(last)'
        /\ d.phase \in {"ask", "build"} => Known(d.base)'
        /\ d.phase \in {"submit", "valid"} => Known(d.block)' /\ Known(d.final)'
    BY <1>3 DEF Known
  <2>5. PassesWellFormed'
    BY <1>1, <2>3, <2>4, PassMoves
  <2> QED  BY <2>1, <2>5
<1>4. CASE BuildBegins(b)
  <2>1. PICK d : d = [NoBuild EXCEPT !.phase = "ask", !.base = last]
    OBVIOUS
  <2>2. d \in BuildRecord /\ d.phase = "ask" /\ d.base = last
    BY <1>1, <2>1 DEF NoBuild, BuildRecord, Phases
  <2> QED  BY <1>1, <1>3, <1>4, <2>1, <2>2 DEF BuildBegins, engineVars
<1>5. CASE ForkchoiceForPayload(b)
  <2>1. Known(r.base) /\ UNCHANGED <<chain, last>> /\ (head' = head \/ head' = r.base)
    BY <1>2, <1>5
    DEF ForkchoiceForPayload, Forkchoice, RequestFails, engineVars, PassesWellFormed
  <2>2. PICK d : d = [r EXCEPT !.phase = "build"]
    OBVIOUS
  <2>3. d \in BuildRecord /\ d.phase = "build" /\ d.base = r.base
    BY <2>2 DEF BuildRecord, Phases
  <2>4. builds' = [builds EXCEPT ![b] = d] \/ builds' = [builds EXCEPT ![b] = NoBuild]
    BY <1>2, <1>5, <2>2 DEF ForkchoiceForPayload, RequestFails
  <2> QED  BY <1>1, <1>3, <2>1, <2>3, <2>4, NoBuildIsRecord
<1>6. CASE PayloadAccepted(b)
  <2>1. Known(r.base) /\ UNCHANGED <<head, last>>
    BY <1>2, <1>6 DEF PayloadAccepted, PassesWellFormed
  <2>2. CASE builds' = [builds EXCEPT ![b] = NoBuild] /\ UNCHANGED chain
    BY <1>1, <1>3, <2>1, <2>2, NoBuildIsRecord
  <2>3. CASE /\ chain' = Append(chain, chain[builds[b].base] \cup {Len(chain) + 1})
             /\ builds' = [builds EXCEPT ![b] =
                   [@ EXCEPT !.phase = "submit", !.block = Len(chain) + 1,
                             !.final = FinalizedNow(builds[b].base)]]
    <3>1. Len(chain') = Len(chain) + 1 /\ BlocksWellFormed'
      BY <1>2, <2>1, <2>3, ChainGrows
    <3>2. PICK d : d = [r EXCEPT !.phase = "submit", !.block = Len(chain) + 1, !.final = last]
      OBVIOUS
    <3>3. /\ d \in BuildRecord /\ d.phase = "submit" /\ d.block = Len(chain) + 1
          /\ d.final = last
      <4>1. last \in Nat /\ Len(chain) + 1 \in Nat /\ r.base \in Nat
        BY <1>1 DEF BuildRecord
      <4> QED  BY <3>2, <4>1 DEF BuildRecord, Phases
    <3>4. builds' = [builds EXCEPT ![b] = d]
      BY <1>2, <2>3, <3>2 DEF FinalizedNow
    <3>5. Known(d.block)' /\ Known(d.final)' /\ Known(head)' /\ Known(last)'
      BY <1>1, <2>1, <3>1, <3>3 DEF Known
    <3>6. /\ builds' \in [Builds -> BuildRecord] /\ builds'[b] = d
          /\ \A c \in Builds : c # b => builds'[c] = builds[c]
      BY <1>1, <3>3, <3>4
    <3>7. Len(chain') >= Len(chain) /\ Len(chain') \in Nat
      BY <1>1, <3>1
    <3>8. d \in BuildRecord /\ d.phase = "submit"
      BY <3>3
    <3>9. PassesWellFormed'
      BY <1>1, <3>5, <3>6, <3>7, <3>8, PassMoves
    <3> QED  BY <3>1, <3>9
  <2> QED  BY <1>6, <2>2, <2>3 DEF PayloadAccepted
<1>7. CASE ForkchoiceForBlock(b)
  <2>1. /\ Known(r.block) /\ Known(r.final) /\ UNCHANGED <<chain, last>>
        /\ head' = head \/ head' = r.block
    BY <1>2, <1>7
    DEF ForkchoiceForBlock, Forkchoice, RequestFails, engineVars, PassesWellFormed
  <2>2. PICK d : d = [r EXCEPT !.phase = "valid"]
    OBVIOUS
  <2>3. d \in BuildRecord /\ d.phase = "valid" /\ d.block = r.block /\ d.final = r.final
    BY <2>2 DEF BuildRecord, Phases
  <2>4. builds' = [builds EXCEPT ![b] = d] \/ builds' = [builds EXCEPT ![b] = NoBuild]
    BY <1>2, <1>7, <2>2 DEF ForkchoiceForBlock, RequestFails
  <2> QED  BY <1>1, <1>3, <2>1, <2>3, <2>4, NoBuildIsRecord
<1>8. CASE BlockBuilt(b)
  <2>1. Known(last') /\ UNCHANGED engineVars /\ builds' = [builds EXCEPT ![b] = NoBuild]
    BY <1>8 DEF BlockBuilt, PassesWellFormed
  <2> QED  BY <1>1, <1>3, <2>1, NoBuildIsRecord DEF engineVars
<1> QED  BY <1>4, <1>5, <1>6, <1>7, <1>8 DEF BuildStep

LEMMA BuilderStepHolds ==
    ASSUME BuilderInv, BuilderNext
    PROVE  BuilderInv'
<1>1. PICK b \in Builds : BuildBegins(b) \/ BuildStep(b)
  BY DEF BuilderNext
<1>2. BlocksWellFormed' /\ PassesWellFormed'
  BY <1>1, WellFormedStep DEF BuilderInv
<1>3. crossed => crossed'
  BY <1>1
  DEF BuildBegins, BuildStep, ForkchoiceForPayload, PayloadAccepted, ForkchoiceForBlock, BlockBuilt
<1>4. ASSUME ~crossed' PROVE FloorHolds'
  <2>1. FloorHolds /\ builds \in [Builds -> BuildRecord]
    BY <1>3, <1>4 DEF BuilderInv, PassesWellFormed
  <2> QED
    BY <1>1, <1>4, <2>1, BuildBeginsHolds, ForkchoiceForPayloadHolds, PayloadAcceptedHolds,
       ForkchoiceForBlockHolds, BlockBuiltHolds DEF BuildStep, BuilderInv
<1> QED  BY <1>2, <1>4 DEF BuilderInv

----------------------------------------------------------------------------
LEMMA OrderFacts ==
    /\ Len(Order) = 6 /\ DOMAIN Order = 1..6 /\ Started = 7
    /\ \A i \in 1..6 : /\ Order[i] \in Services
                       /\ Order[i] = "blockBuilder" <=> i = 1
                       /\ Order[i] = "withdrawalFinalizer" <=> i = 6
    /\ "withdrawalFinalizer" \in Reported
    /\ \A s \in Services : \E i \in 1..6 : s = Order[i]
<1>1. Order \in Seq({"blockBuilder", "l1Listener", "l2Processor", "l2WithdrawalListener",
                     "batchSubmitter", "withdrawalFinalizer"})
  BY DEF Order
<1>2. Len(Order) = 6 /\ DOMAIN Order = 1..6 /\ Started = 7
  BY DEF Order, Started
<1>3. /\ Order[1] = "blockBuilder" /\ Order[2] = "l1Listener" /\ Order[3] = "l2Processor"
      /\ Order[4] = "l2WithdrawalListener" /\ Order[5] = "batchSubmitter"
      /\ Order[6] = "withdrawalFinalizer"
  BY DEF Order
<1>4. \A i \in 1..6 : i = 1 \/ i = 2 \/ i = 3 \/ i = 4 \/ i = 5 \/ i = 6
  OBVIOUS
<1>5. \A i \in 1..6 : /\ Order[i] = "blockBuilder" <=> i = 1
                      /\ Order[i] = "withdrawalFinalizer" <=> i = 6
  BY <1>3, <1>4
<1>6. /\ \A i \in 1..6 : Order[i] \in Services
      /\ \A s \in Services : \E i \in 1..6 : s = Order[i]
  BY <1>2 DEF Services
<1>7. "withdrawalFinalizer" \in Reported
  <2>1. "withdrawalFinalizer" \in Services /\ "withdrawalFinalizer" # "blockBuilder"
    BY <1>3, <1>6
  <2> QED  BY <2>1 DEF Reported
<1> QED  BY <1>2, <1>5, <1>6, <1>7

\* A process that has exited left nothing behind.
LEMMA ExitHolds ==
    ASSUME BuilderInv, NEW code, Exit(code)
    PROVE  BuilderInv' /\ ProcessInv'
<1>1. builds' = [b \in Builds |-> NoBuild] /\ \A b \in Builds : builds'[b].phase = "idle"
  BY NoBuildIsRecord DEF Exit, BuilderGone
<1>2. BuilderInv'
  BY <1>1, GonePasses DEF Exit, BuilderGone
<1>3. /\ step' = 0 /\ ~awaiting' /\ active' = {} /\ pool' = "none"
      /\ status' = [s \in Reported |-> "STOPPED"]
      /\ \A b \in Builds : builds'[b] = NoBuild
  BY <1>1 DEF Exit, Stopped
<1>4. status' \in [Reported -> {"STOPPED", "STARTING", "RUNNING"}]
      /\ status'["withdrawalFinalizer"] = "STOPPED"
  BY <1>3, OrderFacts
<1>5. step' \in 0..Started
  BY <1>3, OrderFacts
<1>6. ProcessInv'
  BY <1>3, <1>4, <1>5 DEF ProcessInv
<1> QED  BY <1>2, <1>6

\* Nothing changes for the builder, nor of what the invariant says.
LEMMA QuietHolds ==
    ASSUME BuilderInv, UNCHANGED builderVars
    PROVE  BuilderInv'
BY DEF BuilderInv, BlocksWellFormed, PassesWellFormed, FloorHolds, Tips, Floor, Live, Sent,
       Based, Known, builderVars, engineVars

\* A service of a process whose pool is open starts; the finalizer is last.
LEMMA ServiceRunsHolds ==
    ASSUME BuilderInv, ProcessInv, NEW s \in Services, ServiceRuns(s)
    PROVE  BuilderInv' /\ ProcessInv'
<1>1. /\ step \in 1..6 /\ s = Order[step] /\ ~awaiting /\ awaiting' /\ (up' <=> up)
      /\ awaiting' = TRUE
      /\ active' = active \cup {s} /\ UNCHANGED <<step, pool, closing>>
  BY OrderFacts DEF ServiceRuns, At
<1>2. status' = [t \in Reported |-> IF t = s THEN "STARTING" ELSE status[t]]
  BY DEF ServiceRuns, Reports
<1>3. ASSUME s = "blockBuilder" PROVE BuilderInv'
  <2>1. step = 1 /\ InitializeState
    BY <1>1, <1>3, OrderFacts DEF ServiceRuns
  <2>2. \A b \in Builds : builds[b] = NoBuild
    BY <1>1, <2>1 DEF ProcessInv
  <2>3. \A b \in Builds : builds'[b].phase = "idle"
    BY <2>1, <2>2, NoBuildIsRecord DEF InitializeState
  <2> QED  BY <2>1, <2>3, GonePasses DEF InitializeState
<1>4. ASSUME s # "blockBuilder" PROVE BuilderInv'
  BY <1>4, QuietHolds DEF ServiceRuns
<1>5. /\ status' \in [Reported -> {"STOPPED", "STARTING", "RUNNING"}]
      /\ status'["withdrawalFinalizer"] # "RUNNING"
  <2>1. status["withdrawalFinalizer"] # "RUNNING"
    BY <1>1, OrderFacts DEF ProcessInv
  <2> QED  BY <1>2, <2>1, OrderFacts DEF ProcessInv
<1>6. step' > 1 \/ (step' = 1 /\ awaiting')
  BY <1>1
<1>7. ASSUME pool' = "open", NEW i \in DOMAIN Order, i < step' \/ (i = step' /\ awaiting')
      PROVE  Order[i] \in active'
  BY <1>1, <1>7 DEF ProcessInv
<1>8. ProcessInv'
  BY <1>1, <1>5, <1>6, <1>7 DEF ProcessInv
<1> QED  BY <1>3, <1>4, <1>8

LEMMA ServiceStartedHolds ==
    ASSUME BuilderInv, ProcessInv, NEW s \in Services, ServiceStarted(s)
    PROVE  BuilderInv' /\ ProcessInv'
<1>1. CASE Exit(1)
  BY <1>1, ExitHolds
<1>2. CASE ~Exit(1)
  <2>1. /\ step \in 1..6 /\ s = Order[step] /\ awaiting /\ ~awaiting' /\ up /\ (up' <=> up)
        /\ awaiting' = FALSE /\ step' = step + 1
        /\ UNCHANGED <<builderVars, active, pool, closing>>
        /\ s = "withdrawalFinalizer" => pool = "open"
    BY <1>2, OrderFacts DEF ServiceStarted, At, FirstPassSucceeds, InMain
  <2>2. status' = [t \in Reported |-> IF t = s THEN "RUNNING" ELSE status[t]]
    BY <1>2 DEF ServiceStarted, Reports
  <2>3. BuilderInv'
    BY <2>1, QuietHolds
  <2>4. /\ status' \in [Reported -> {"STOPPED", "STARTING", "RUNNING"}]
        /\ status'["withdrawalFinalizer"] = "RUNNING" => pool' = "open" /\ step' = Started
    <3>1. status["withdrawalFinalizer"] # "RUNNING"
      BY <2>1, OrderFacts DEF ProcessInv
    <3>2. status' \in [Reported -> {"STOPPED", "STARTING", "RUNNING"}]
      BY <2>2 DEF ProcessInv
    <3>3. status'["withdrawalFinalizer"] = "RUNNING" => s = "withdrawalFinalizer"
      BY <2>2, <3>1, OrderFacts
    <3>4. s = "withdrawalFinalizer" => step = 6
      BY <2>1, OrderFacts
    <3> QED  BY <2>1, <3>2, <3>3, <3>4, OrderFacts
  <2>5. step' \in 0..Started /\ step' > 1
    BY <2>1, OrderFacts
  <2>6. ASSUME pool' = "open", NEW i \in DOMAIN Order, i < step' \/ (i = step' /\ awaiting')
        PROVE  Order[i] \in active'
    <3>1. i < step \/ (i = step /\ awaiting)
      BY <2>1, <2>6, OrderFacts
    <3> QED  BY <2>1, <2>6, <3>1 DEF ProcessInv
  <2>7. ProcessInv'
    BY <2>1, <2>4, <2>5, <2>6 DEF ProcessInv
  <2> QED  BY <2>3, <2>7
<1> QED  BY <1>1, <1>2

LEMMA ShutdownHolds ==
    ASSUME BuilderInv, ProcessInv, NEW signal \in Signals, Shutdown(signal)
    PROVE  BuilderInv' /\ ProcessInv'
<1>1. CASE Exit(1)
  BY <1>1, ExitHolds
<1>2. CASE ~Exit(1)
  <2>1. /\ pool = "open" /\ StopAll /\ pool' = "ending" /\ closing' = signal
        /\ UNCHANGED <<builderVars, step, awaiting>>
        /\ (up' <=> up) /\ (awaiting' <=> awaiting)
    <3>1. /\ pool = "open" /\ StopAll /\ pool' = "ending" /\ closing' = signal
          /\ UNCHANGED <<builderVars, up, step, awaiting>>
      BY <1>2 DEF Shutdown
    <3> QED  BY <3>1
  <2>2. BuilderInv'
    BY <2>1, QuietHolds
  <2>3. /\ status' \in [Reported -> {"STOPPED", "STARTING", "RUNNING"}]
        /\ status'["withdrawalFinalizer"] # "RUNNING"
    <3>1. CASE step = 0
      BY <2>1, <3>1, OrderFacts DEF StopAll, ProcessInv
    <3>2. CASE step # 0
      BY <2>1, <3>2, OrderFacts DEF StopAll, Stopped
    <3> QED  BY <3>1, <3>2
  <2>4. active' = active \/ active' = {}
    BY <2>1 DEF StopAll
  <2>5. UNCHANGED builds
    BY <2>1 DEF builderVars
  <2>6. ProcessInv'
    BY <2>1, <2>3, <2>4, <2>5 DEF ProcessInv
  <2> QED  BY <2>2, <2>6
<1> QED  BY <1>1, <1>2

LEMMA SequencerStep ==
    ASSUME BuilderInv, ProcessInv, [SequencerNext]_sequencerVars
    PROVE  BuilderInv' /\ ProcessInv'
<1>1. CASE BuilderNext
  <2>1. BuilderInv'
    BY <1>1, BuilderStepHolds
  <2>2. PICK b \in Builds : ("blockBuilder" \in active /\ BuildBegins(b)) \/ BuildStep(b)
    BY <1>1 DEF BuilderNext
  <2>3. (\E c \in Builds : builds'[c] # NoBuild) =>
            active # {} \/ \E c \in Builds : builds[c] # NoBuild
    <3>1. CASE "blockBuilder" \in active
      BY <3>1
    <3>2. CASE BuildStep(b)
      <4>1. builds[b] # NoBuild
        BY <3>2, NoBuildIsRecord
        DEF BuildStep, ForkchoiceForPayload, PayloadAccepted, ForkchoiceForBlock, BlockBuilt
      <4> QED  BY <4>1
    <3> QED  BY <2>2, <3>1, <3>2
  <2>4. UNCHANGED processVars
    BY <1>1 DEF BuilderNext
  <2>5. ProcessInv'
    BY <2>3, <2>4 DEF ProcessInv, processVars
  <2> QED  BY <2>1, <2>5
<1>2. CASE Boot
  <2>1. BuilderInv'
    BY <1>2, QuietHolds DEF Boot, InMain
  <2>2. /\ ~up /\ up' /\ pool' = "open" /\ (awaiting' <=> awaiting)
        /\ UNCHANGED <<builds, step, active, status>>
    BY <1>2 DEF Boot, InMain, builderVars
  <2>3. ProcessInv'
    BY <2>2, OrderFacts DEF ProcessInv
  <2> QED  BY <2>1, <2>3
<1>3. CASE DatabaseReady
  <2>1. CASE Exit(1)
    BY <2>1, ExitHolds
  <2>2. CASE ~Exit(1)
    <3>1. /\ step = 0 /\ step' = 1 /\ pool = "open"
          /\ UNCHANGED <<builderVars, closing, active, status, pool>>
          /\ up /\ (up' <=> up) /\ (awaiting' <=> awaiting)
      BY <1>3, <2>2 DEF DatabaseReady, InMain
    <3>2. BuilderInv'
      BY <3>1, QuietHolds
    <3>3. ProcessInv'
      BY <3>1, OrderFacts DEF ProcessInv, builderVars
    <3> QED  BY <3>2, <3>3
  <2> QED  BY <2>1, <2>2
<1>4. CASE \E s \in Services : ServiceRuns(s) \/ ServiceStarted(s)
  BY <1>4, ServiceRunsHolds, ServiceStartedHolds
<1>5. CASE PoolEnds \/ StartFails \/ Crash
  BY <1>5, ExitHolds DEF PoolEnds, StartFails, Crash
<1>6. CASE \E s \in Services : QueryBegins(s) \/ QueryEnds(s)
  <2>1. BuilderInv'
    BY <1>6, QuietHolds DEF QueryBegins, QueryEnds, InMain
  <2>2. ProcessInv'
    BY <1>6 DEF QueryBegins, QueryEnds, InMain, ProcessInv, builderVars
  <2> QED  BY <2>1, <2>2
<1>7. CASE \E signal \in Signals : Shutdown(signal)
  BY <1>7, ShutdownHolds
<1>8. CASE UNCHANGED sequencerVars
  <2>1. BuilderInv'
    BY <1>8, QuietHolds DEF sequencerVars
  <2>2. ProcessInv'
    BY <1>8 DEF sequencerVars, processVars, ProcessInv, builderVars
  <2> QED  BY <2>1, <2>2
<1> QED
  BY <1>1, <1>2, <1>3, <1>4, <1>5, <1>6, <1>7, <1>8 DEF SequencerNext, ProcessStep

LEMMA SequencerInvHolds == SequencerSpec => [](BuilderInv /\ ProcessInv)
<1>1. ASSUME SequencerInit PROVE BuilderInv
  <2>1. /\ chain = <<{1}>> /\ head = 1 /\ last = 1 /\ finalized = {1}
        /\ builds = [b \in Builds |-> NoBuild]
    BY <1>1 DEF SequencerInit, BuilderInit
  <2>2. chain \in Seq(SUBSET Nat) /\ Len(chain) = 1 /\ chain[1] = {1}
    BY <2>1
  <2>3. \A b \in Builds : builds[b] = NoBuild
    BY <2>1
  <2>4. BlocksWellFormed /\ Known(1)
    BY <2>2 DEF BlocksWellFormed, Known
  <2>5. builds \in [Builds -> BuildRecord]
    BY <2>1, NoBuildIsRecord
  <2>6. \A b \in Builds : ~Live(b) /\ ~Based(b) /\ ~Sent(b) /\ builds[b].phase = "idle"
    BY <2>3, NoBuildIsRecord DEF Live, Based, Sent
  <2>7. PassesWellFormed
    BY <2>1, <2>4, <2>5, <2>6 DEF PassesWellFormed
  <2>8. Tips = {1} /\ Floor = {1}
    BY <2>1, <2>6 DEF Tips, Floor
  <2>9. FloorHolds
    BY <2>1, <2>2, <2>6, <2>8 DEF FloorHolds
  <2> QED  BY <2>4, <2>7, <2>9 DEF BuilderInv
<1>2. ASSUME SequencerInit PROVE ProcessInv
  <2>1. /\ step = 0 /\ ~awaiting /\ active = {} /\ pool = "none"
        /\ status = [s \in Reported |-> "STOPPED"]
        /\ \A b \in Builds : builds[b] = NoBuild
    BY <1>2 DEF SequencerInit, BuilderInit, ProcessInit, Stopped
  <2>2. status \in [Reported -> {"STOPPED", "STARTING", "RUNNING"}]
        /\ status["withdrawalFinalizer"] = "STOPPED"
    BY <2>1, OrderFacts
  <2> QED  BY <2>1, <2>2, OrderFacts DEF ProcessInv
<1> QED  BY <1>1, <1>2, SequencerStep, PTL DEF SequencerSpec

\* A block the client was told is final stays in the chain of its head, for
\* any number of passes, lost answers and restarts, as long as none begins
\* while another has a forkchoice on its way (forkchoiceUpdated of
\* block-builder.service.ts).
THEOREM FinalityAlwaysHolds == SequencerSpec => []FinalityHolds
<1>1. BuilderInv => FinalityHolds
  BY DEF BuilderInv, FloorHolds, FinalityHolds
<1> QED  BY <1>1, SequencerInvHolds, PTL

\* isHealthy says of no service that it runs when its isRunning is not set,
\* whenever startAll and a shutdown meet.
THEOREM HealthIsAlwaysHonest == SequencerSpec => []HealthIsHonest
<1>1. ASSUME ProcessInv, IsHealthy PROVE Services \subseteq active
  <2>1. pool = "open" /\ step = Started
    BY <1>1, OrderFacts DEF ProcessInv, IsHealthy
  <2>2. \A i \in 1..6 : Order[i] \in active
    BY <1>1, <2>1, OrderFacts DEF ProcessInv
  <2> QED  BY <2>2, OrderFacts
<1> QED  BY <1>1, SequencerInvHolds, PTL DEF HealthIsHonest

\* The process exits with 0 only after a SIGINT or SIGTERM, with no statement
\* at the database cut off.
THEOREM ExitsAreClean == SequencerSpec => CleanExit
<1>1. ASSUME ProcessInv, SequencerNext, up, ~up', exitCode' = 0
      PROVE  closing \in {"SIGINT", "SIGTERM"} /\ statements = {}
  <2>1. ~Exit(1)
    BY <1>1 DEF Exit
  <2>2. PoolEnds
    BY <1>1, <2>1
    DEF SequencerNext, BuilderNext, processVars, Boot, ProcessStep, DatabaseReady, ServiceRuns,
        ServiceStarted, StartFails, QueryBegins, QueryEnds, Shutdown,
        Crash, InMain
  <2>3. closing \in Signals /\ statements = {} /\ ExitCodeOf(closing) = 0
    BY <1>1, <2>2 DEF PoolEnds, Exit, ProcessInv
  <2> QED  BY <2>3 DEF ExitCodeOf, Signals
<1>2. ASSUME ProcessInv, [SequencerNext]_sequencerVars
      PROVE  [up /\ ~up' /\ exitCode' = 0 =>
                 closing \in {"SIGINT", "SIGTERM"} /\ statements = {}]_sequencerVars
  BY <1>1, <1>2
<1> QED  BY <1>2, SequencerInvHolds, PTL DEF SequencerSpec, CleanExit
=============================================================================
