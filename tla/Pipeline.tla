----------------------------- MODULE Pipeline -----------------------------
(***************************************************************************)
(* From the serial line to the consumers: the framer publishes chunks to   *)
(* the broadcast channel and decoded ones to the dump file, the WebSocket  *)
(* loops forward what the channel keeps for them.                          *)
(***************************************************************************)
EXTENDS Framer

\* A session has just been started on an idle, verified device: the handler has
\* claimed the collection, published the session and queued the command.
Init ==
    /\ sent = <<>> /\ mid = FALSE /\ collecting = FALSE /\ link = TRUE
    /\ from = 1 /\ at = 1 /\ fresh = FALSE /\ drop_next_chunk = TRUE
    /\ pc = "top" /\ armed = FALSE
    /\ output_mode = InitMode /\ current_mode = output_mode /\ current_session = 0
    /\ mode_changed = FALSE /\ session_file = 1 /\ session_changed = TRUE
    /\ collection_running = TRUE /\ commands = <<"start">> /\ info_request = FALSE
    /\ shutdown = FALSE /\ events = 0
    /\ sink = NoSink /\ disk = [n \in Files |-> Blank] /\ fails = 0
    /\ published = <<>> /\ sock = [c \in Clients |-> "none"]
    /\ start = [c \in Clients |-> 0] /\ next = [c \in Clients |-> 0]
    /\ got = [c \in Clients |-> <<>>] /\ lost = [c \in Clients |-> 0]
    /\ senders_gone = FALSE

SocketsStep ==
    /\ \/ \E c \in Clients : SocketStep(c) /\ UNCHANGED senders_gone
       \/ pc = "gone" /\ senders_gone' = TRUE /\ UNCHANGED socketVars
    /\ UNCHANGED <<published, lineVars, bufVars, loopVars, cellVars, flagVars, dumpVars,
                   events>>

Next == Environment \/ HandlerWrite \/ TaskStep \/ SocketsStep

Spec == Init /\ [][Next]_vars

\* tokio polls a ready loop again and select! takes a ready arm in the end; a client
\* in Readers takes every frame it is sent.
LoopsRun ==
    \A c \in Readers :
        /\ WF_vars(SocketsStep /\ Sent(c)) /\ WF_vars(SocketsStep /\ CloseSent(c))
        /\ SF_vars(SocketsStep /\ ShutdownArm(c)) /\ WF_vars(SocketsStep /\ Subscribe(c))

FairSpec == Spec /\ LoopsRun

-----------------------------------------------------------------------------
Chunk == [first : Nat, last : Nat]
File  == [rows : Seq(Nat), pushed : Seq(Nat), footer : BOOLEAN]

LineOK ==
    /\ sent \in Seq(Pieces) /\ mid \in BOOLEAN /\ collecting \in BOOLEAN /\ link \in BOOLEAN

BufOK ==
    /\ from \in Nat /\ at \in Nat /\ 1 <= from /\ from <= at /\ at <= Len(sent) + 1
    /\ fresh \in BOOLEAN /\ drop_next_chunk \in BOOLEAN

LoopOK ==
    /\ pc \in {"top", "select", "exchange", "off", "gone"} /\ armed \in BOOLEAN
    /\ current_mode \in Modes /\ current_session \in {0} \cup Files

HandleOK ==
    /\ output_mode \in Modes /\ session_file \in {0} \cup Files
    /\ mode_changed \in BOOLEAN /\ session_changed \in BOOLEAN
    /\ collection_running \in BOOLEAN /\ info_request \in BOOLEAN /\ shutdown \in BOOLEAN
    /\ commands \in Seq({"start", "q"}) /\ events \in 0..MaxEvents

DumpOK ==
    /\ sink \in [path : {0} \cup Files, buffer : Seq(Nat), written : Seq(Nat), pushed : Seq(Nat)]
    /\ disk \in [Files -> File] /\ fails \in 0..MaxFails

SocketsOK ==
    /\ sock \in [Clients -> {"none", "refused", "admitted", "open", "sending", "closing", "closed"}]
    /\ start \in [Clients -> Nat] /\ next \in [Clients -> Nat] /\ lost \in [Clients -> Nat]
    /\ got \in [Clients -> Seq(Nat)]
    /\ published \in Seq(Chunk) /\ senders_gone \in BOOLEAN

\* The types, the bounds of the line and of the buffer included.
PipelineTypeOK == LineOK /\ BufOK /\ LoopOK /\ HandleOK /\ DumpOK /\ SocketsOK

\* No chunk that reaches a consumer begins inside a frame or runs past a delimiter,
\* whatever arm of select! interrupts a read, and wherever the arms that clear the buffer
\* (re-verify, info) or skip a chunk (a command) strike: the bytes of a frame that an
\* interrupted read left in buf are continued by that frame, never by the next one.
FramesAligned ==
    \A n \in 1..Len(published) :
        /\ sent[published[n].first] # "tail"
        /\ \A k \in published[n].first..(published[n].last - 1) : ~Delimited(k)

\* A dump file with a footer has every row that was pushed to its sink, once and in
\* order, although writes fail and are retried with the next push or by finish.
ReadableIsComplete ==
    \A n \in Files : disk[n].footer => disk[n].rows = disk[n].pushed

\* Every frame broadcast since a client subscribed was sent to it, was reported to it as
\* lagged, is being sent, or is still ahead of it.
Accounted ==
    \A c \in Clients :
        LET held == IF sock[c] = "sending" THEN 1 ELSE 0
        IN  sock[c] \in {"open", "sending", "closing"} =>
                next[c] - start[c] = Len(got[c]) + lost[c] + held

\* What the clients see of the channel is a LossyStream: the channel implements it.
Stream == INSTANCE LossyStream WITH
    stream <- published, joined <- start, received <- got, member <- Receivers

Lossy == Stream!Spec

\* After the device is unplugged every loop whose client keeps reading ends.  A client
\* that stalls holds its loop in socket.send, where the token is not looked at.
SocketsClose == \A c \in Readers : shutdown ~> sock[c] \notin {"admitted", "open", "sending", "closing"}

=============================================================================
