---------------------------- MODULE WebSockets ----------------------------
(***************************************************************************)
(* GET /api/devices/{id}/ws: the broadcast channel of the device, a ring   *)
(* that keeps its newest Capacity frames, and one forwarding loop per      *)
(* client with a cursor into it.  A send to the client blocks the whole    *)
(* loop until the client reads.                                            *)
(***************************************************************************)
EXTENDS Naturals, Sequences, FiniteSets

CONSTANTS
    Clients,   \* clients that open a WebSocket
    Readers,   \* those that keep reading; the others may stall for ever
    Capacity   \* CSI_BROADCAST_CAPACITY, the frames the ring keeps

ASSUME RingAssumption == Readers \subseteq Clients /\ Capacity \in Nat \ {0}

VARIABLES
    published,    \* every frame ever broadcast; the ring is its newest part
    output_mode,  \* the watch cell of the output mode
    shutdown,     \* the handle's CancellationToken
    senders_gone, \* the last broadcast::Sender was dropped
    sock,         \* per client, where its request is
    start,        \* per client, the first frame after its subscribe (history)
    next,         \* per client, the receiver's cursor
    got,          \* per client, the positions sent to it (history)
    lost          \* per client, the frames reported as Lagged (history)

socketVars == <<sock, start, next, got, lost>>
ringVars == <<published, socketVars>>

\* The receivers of the channel: a loop owns one until it ends.
Receivers == {c \in Clients : sock[c] \in {"open", "sending", "closing"}}

\* The oldest frame still in the ring.
Oldest == IF Len(published) > Capacity THEN Len(published) - Capacity + 1 ELSE 1

\* Sender::send fails and keeps nothing when there is no receiver.
Publish(frame) ==
    published' = IF Receivers = {} THEN published ELSE Append(published, frame)

\* ws_handler looks at the mode before the upgrade, once.
Admit(c) ==
    /\ sock[c] = "none"
    /\ sock' = [sock EXCEPT ![c] = IF output_mode = "dump" THEN "refused" ELSE "admitted"]
    /\ UNCHANGED <<start, next, got, lost>>

Subscribe(c) ==
    /\ sock[c] = "admitted" /\ sock' = [sock EXCEPT ![c] = "open"]
    /\ start' = [start EXCEPT ![c] = Len(published) + 1]
    /\ next' = [next EXCEPT ![c] = Len(published) + 1]
    /\ UNCHANGED <<got, lost>>

\* Mutant: the frame being sent stays in the channel until the client has it.
ReceivePeeks(c) ==
    /\ sock[c] = "open" /\ next[c] \in Oldest..Len(published)
    /\ sock' = [sock EXCEPT ![c] = "sending"]
    /\ UNCHANGED <<start, next, got, lost>>

\* recv returns the frame at the cursor; the loop then awaits socket.send.
Receive(c) ==
    /\ sock[c] = "open" /\ next[c] \in Oldest..Len(published)
    /\ sock' = [sock EXCEPT ![c] = "sending"]
    /\ next' = [next EXCEPT ![c] = @ + 1]
    /\ UNCHANGED <<start, got, lost>>

\* Mutant: the frame the cursor moves to is counted as missed, too.
LaggedMiscounts(c) ==
    /\ sock[c] = "open" /\ next[c] < Oldest
    /\ lost' = [lost EXCEPT ![c] = @ + Oldest - next[c] + 1]
    /\ next' = [next EXCEPT ![c] = Oldest]
    /\ UNCHANGED <<sock, start, got>>

\* The ring has passed the cursor: recv says by how much and moves it to the oldest.
Lagged(c) ==
    /\ sock[c] = "open" /\ next[c] < Oldest
    /\ lost' = [lost EXCEPT ![c] = @ + Oldest - next[c]]
    /\ next' = [next EXCEPT ![c] = Oldest]
    /\ UNCHANGED <<sock, start, got>>

\* The client takes the frame it is being sent.
Sent(c) ==
    /\ sock[c] = "sending" /\ sock' = [sock EXCEPT ![c] = "open"]
    /\ got' = [got EXCEPT ![c] = Append(@, next[c] - 1)]
    /\ UNCHANGED <<start, next, lost>>

\* The ways out of the loop: the client closes or has gone, whether the loop waits in
\* select! or in a send; the channel is closed and drained.
ClientLeaves(c) ==
    /\ sock[c] \in {"open", "sending"} /\ sock' = [sock EXCEPT ![c] = "closed"]
    /\ UNCHANGED <<start, next, got, lost>>

ChannelClosed(c) ==
    /\ sock[c] = "open" /\ senders_gone /\ next[c] > Len(published)
    /\ sock' = [sock EXCEPT ![c] = "closed"]
    /\ UNCHANGED <<start, next, got, lost>>

\* Mutant: the token is looked at only before the first frame.
ShutdownWhenIdle(c) ==
    /\ sock[c] = "open" /\ shutdown /\ got[c] = <<>>
    /\ sock' = [sock EXCEPT ![c] = "closing"]
    /\ UNCHANGED <<start, next, got, lost>>

\* An unplugged device: the loop sends Close and ends.
ShutdownArm(c) ==
    /\ sock[c] = "open" /\ shutdown
    /\ sock' = [sock EXCEPT ![c] = "closing"]
    /\ UNCHANGED <<start, next, got, lost>>

CloseSent(c) ==
    /\ sock[c] = "closing" /\ sock' = [sock EXCEPT ![c] = "closed"]
    /\ UNCHANGED <<start, next, got, lost>>

SocketStep(c) ==
    \/ Admit(c) \/ Subscribe(c) \/ Receive(c) \/ Lagged(c) \/ Sent(c)
    \/ ClientLeaves(c) \/ ChannelClosed(c) \/ ShutdownArm(c) \/ CloseSent(c)

=============================================================================
