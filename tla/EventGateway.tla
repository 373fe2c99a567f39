---------------------------- MODULE EventGateway ----------------------------
(***************************************************************************)
(* The event gateway: every two seconds it asks each chain for its head    *)
(* and pushes what happened since the last poll to the websocket clients   *)
(* that are connected.  Nothing keeps two polls of a chain apart: a poll   *)
(* that takes longer than two seconds runs beside the next one, on the     *)
(* same cursor, which it reads again after each answer.                    *)
(*                                                                         *)
(* Every block of L2 holds a token transfer, an event of the bridge and a  *)
(* native transfer, every block of L1 an event of the bridge.              *)
(***************************************************************************)
EXTENDS Integers, Sequences, FiniteSets

CONSTANTS
    GatewayPolls,   \* 1..n, a bound on polls running at once
    Remembered,     \* native transfers remembered (5000)
    MaxGateway      \* bound on calls that fail

ASSUME GatewayAssumption ==
    /\ GatewayPolls \subseteq Nat
    /\ Remembered \in Nat \ {0}
    /\ MaxGateway \in Nat

VARIABLES
    tip,        \* chain -> its head
    gatewayUp,
    base,       \* chain -> its head when the gateway started
    pushed,     \* chain -> lastProcessedL2Block, lastProcessedL1BridgeBlock
    polls,
    recent,     \* recentEthTransfers, oldest first
    sent,       \* the messages broadcast, <<stream, chain, block>>
    repeated,   \* the native transfers broadcast more than once
    unseen,     \* the blocks of L2 whose native transfer could not be read
    gatewayFaults

gatewayVars ==
    <<tip, gatewayUp, base, pushed, polls, recent, sent, repeated, unseen,
      gatewayFaults>>

Chains == {"L1", "L2"}
NoPoll == [phase |-> "idle", chain |-> "L2", from |-> 0, latest |-> 0]

GatewayInit ==
    /\ tip = [c \in Chains |-> 1]
    /\ gatewayUp = FALSE
    /\ base = tip
    /\ pushed = tip
    /\ polls = [p \in GatewayPolls |-> NoPoll]
    /\ recent = <<>>
    /\ sent = {}
    /\ repeated = {}
    /\ unseen = {}
    /\ gatewayFaults = 0

\* A block of a chain.
TipGrows(c) ==
    /\ tip' = [tip EXCEPT ![c] = @ + 1]
    /\ UNCHANGED <<gatewayUp, base, pushed, polls, recent, sent, repeated,
                   unseen, gatewayFaults>>

----------------------------------------------------------------------------
Broadcast(messages) == sent' = sent \cup messages

\* The next query of a poll starts after the cursor as it is now.
PollGoesTo(p, phase) ==
    polls' = [polls EXCEPT ![p].phase = phase, ![p].from = pushed[polls[p].chain] + 1]

\* The timer fires and the head is read.  A poll that finds nothing new ends
\* there; one of L1 asks for the events of the bridge, one of L2 for the token
\* transfers first.
PollTip(p, c) ==
    /\ gatewayUp
    /\ polls[p] = NoPoll
    /\ \A q \in GatewayPolls : q < p => polls[q] # NoPoll
    /\ tip[c] > pushed[c]
    /\ polls' = [polls EXCEPT ![p] =
           [phase |-> IF c = "L2" THEN "transfers" ELSE "bridge",
            chain |-> c, from |-> pushed[c] + 1, latest |-> tip[c]]]
    /\ UNCHANGED <<tip, gatewayUp, base, pushed, recent, sent, repeated,
                   unseen, gatewayFaults>>

\* handleTransferLog, handleBridgeLog
Logs(stream, p) ==
    {<<stream, polls[p].chain, b>> : b \in polls[p].from..polls[p].latest}

PollTransfers(p) ==
    /\ polls[p].phase = "transfers"
    /\ Broadcast(Logs("token_transfer", p))
    /\ PollGoesTo(p, "bridge")
    /\ UNCHANGED <<tip, gatewayUp, base, pushed, recent, repeated, unseen,
                   gatewayFaults>>

\* The cursor moves only when all of the poll is done, and to the head it
\* read: back, if another poll went further meanwhile.
PollDone(p) ==
    /\ pushed' = [pushed EXCEPT ![polls[p].chain] = polls[p].latest]
    /\ polls' = [polls EXCEPT ![p] = NoPoll]

PollBridge(p) ==
    /\ polls[p].phase = "bridge"
    /\ Broadcast(Logs("bridge_event", p))
    /\ IF polls[p].chain = "L1" \/ pushed["L2"] >= polls[p].latest
       THEN PollDone(p)
       ELSE PollGoesTo(p, "block") /\ UNCHANGED pushed
    /\ UNCHANGED <<tip, gatewayUp, base, recent, repeated, unseen, gatewayFaults>>

\* rememberEthTransfer
ForgetsEarly(tx) ==
    LET longer == Append(recent, tx) IN
    recent' = IF Len(longer) >= Remembered THEN Tail(longer) ELSE longer
Remember(tx) ==
    LET longer == Append(recent, tx) IN
    recent' = IF Len(longer) > Remembered THEN Tail(longer) ELSE longer

IsRemembered(tx) == \E i \in 1..Len(recent) : recent[i] = tx

\* The next block of the poll, or the end of it.
NextPollBlock(p) ==
    IF polls[p].from < polls[p].latest
    THEN /\ polls' = [polls EXCEPT ![p].phase = "block", ![p].from = @ + 1]
         /\ UNCHANGED pushed
    ELSE PollDone(p)

\* handleL2Block reads the block: its native transfer is remembered, and the
\* receipt asked for, or it is one another poll has remembered.
PollBlock(p) ==
    /\ polls[p].phase = "block"
    /\ IF IsRemembered(polls[p].from)
       THEN NextPollBlock(p) /\ UNCHANGED recent
       ELSE /\ Remember(polls[p].from)
            /\ polls' = [polls EXCEPT ![p].phase = "receipt"]
            /\ UNCHANGED pushed
    /\ UNCHANGED <<tip, gatewayUp, base, sent, repeated, unseen, gatewayFaults>>

\* With or without its receipt, the transfer is broadcast.
PollReceipt(p) ==
    LET message == <<"eth_transfer", "L2", polls[p].from>> IN
    /\ polls[p].phase = "receipt"
    /\ Broadcast({message})
    /\ repeated' = IF message \in sent THEN repeated \cup {polls[p].from}
                                       ELSE repeated
    /\ NextPollBlock(p)
    /\ UNCHANGED <<tip, gatewayUp, base, recent, unseen, gatewayFaults>>

\* A failure inside handleL2Block is logged there, and the loop goes on.
BlockFails(p) ==
    /\ polls[p].phase = "block"
    /\ unseen' = unseen \cup {polls[p].from}
    /\ NextPollBlock(p)
    /\ UNCHANGED <<tip, gatewayUp, base, recent, sent, repeated>>

\* Any other failure ends the poll, the cursor stays.
PollFails(p) ==
    /\ polls[p].phase \in {"transfers", "bridge"}
    /\ polls' = [polls EXCEPT ![p] = NoPoll]
    /\ UNCHANGED <<tip, gatewayUp, base, pushed, recent, sent, repeated, unseen>>

\* A node also refuses a range that ends before it starts, which is what a
\* poll asks for that another one has overtaken.
RangeIsRefused(p) ==
    /\ polls[p].from > polls[p].latest
    /\ PollFails(p)
    /\ UNCHANGED gatewayFaults

----------------------------------------------------------------------------
\* The cursors start at the heads: what came before is not sent.
GatewayStart ==
    /\ ~gatewayUp
    /\ gatewayUp' = TRUE
    /\ base' = tip
    /\ pushed' = tip
    /\ recent' = <<>>
    /\ sent' = {}
    /\ repeated' = {}
    /\ unseen' = {}
    /\ UNCHANGED <<tip, polls, gatewayFaults>>

\* Nothing is stored: a signal and a crash are the same.
GatewayStop ==
    /\ gatewayUp
    /\ gatewayUp' = FALSE
    /\ polls' = [p \in GatewayPolls |-> NoPoll]
    /\ UNCHANGED <<tip, base, pushed, recent, sent, repeated, unseen>>

GatewayFault ==
    /\ gatewayFaults < MaxGateway
    /\ gatewayFaults' = gatewayFaults + 1
    /\ \/ \E p \in GatewayPolls : BlockFails(p) \/ PollFails(p)
       \/ GatewayStop

GatewayStep(p) ==
    \/ \E c \in Chains : PollTip(p, c)
    \/ PollTransfers(p)
    \/ PollBridge(p)
    \/ PollBlock(p)
    \/ PollReceipt(p)
    \/ RangeIsRefused(p)

GatewayNext ==
    \/ GatewayStart
    \/ \E p \in GatewayPolls : GatewayStep(p)
    \/ GatewayFault

----------------------------------------------------------------------------
\* What a client that stays connected has been told: every log of every block
\* the cursor has passed, however polls overlapped, failed and moved the
\* cursor back (event-gateway.ts:200-290); every native transfer but those of
\* blocks that could not be read, and none of those twice, as long as no more
\* of them happen than are remembered (event-gateway.ts:49-64).
Told(stream, c, b) == <<stream, c, b>> \in sent
OnItsWayOut(b) ==
    \E p \in GatewayPolls : polls[p].phase = "receipt" /\ polls[p].from = b

GatewayDelivers ==
    gatewayUp =>
        /\ \A c \in Chains : \A b \in (base[c] + 1)..pushed[c] :
              Told("bridge_event", c, b)
        /\ \A b \in (base["L2"] + 1)..pushed["L2"] :
              /\ Told("token_transfer", "L2", b)
              /\ Told("eth_transfer", "L2", b) \/ OnItsWayOut(b) \/ b \in unseen
        /\ tip["L2"] - base["L2"] <= Remembered => repeated = {}
============================================================================
