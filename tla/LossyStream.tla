---------------------------- MODULE LossyStream ----------------------------
(***************************************************************************)
(* What the WebSocket endpoint promises a client, without saying how: of   *)
(* the frames that are broadcast after it joined it receives some, each at *)
(* most once and in their order.  A client that leaves does not return.    *)
(***************************************************************************)
EXTENDS Naturals, Sequences

CONSTANT Clients

VARIABLES
    stream,    \* the frames broadcast so far
    joined,    \* per client, the position of the first frame it may receive
    received,  \* per client, the positions it received
    member     \* the clients that are connected

vars == <<stream, joined, received, member>>

\* The position that the next frame of a client must lie beyond.
Mark(c) == IF received[c] = <<>> THEN joined[c] - 1 ELSE received[c][Len(received[c])]

Init ==
    /\ stream = <<>> /\ member = {}
    /\ joined = [c \in Clients |-> 0] /\ received = [c \in Clients |-> <<>>]

Broadcast ==
    /\ Len(stream') = Len(stream) + 1
    /\ \A k \in 1..Len(stream) : stream'[k] = stream[k]
    /\ UNCHANGED <<joined, received, member>>

Join(c) ==
    /\ joined[c] = 0
    /\ joined' = [joined EXCEPT ![c] = Len(stream) + 1]
    /\ member' = member \cup {c}
    /\ UNCHANGED <<stream, received>>

Deliver(c) ==
    /\ c \in member
    /\ \E k \in 1..Len(stream) :
          k > Mark(c) /\ received' = [received EXCEPT ![c] = Append(@, k)]
    /\ UNCHANGED <<stream, joined, member>>

Leave(c) ==
    /\ c \in member /\ member' = member \ {c}
    /\ UNCHANGED <<stream, joined, received>>

Next == Broadcast \/ \E c \in Clients : Join(c) \/ Deliver(c) \/ Leave(c)

Spec == Init /\ [][Next]_vars

=============================================================================
