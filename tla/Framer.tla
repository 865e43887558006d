------------------------------ MODULE Framer ------------------------------
(***************************************************************************)
(* The select! loop of a serial connection, seen from the bytes: the       *)
(* delimited reads, the buffer that outlives an interrupted read, the      *)
(* arms that clear it, and what is done with a chunk.  SerialTask models   *)
(* the same loop with whole chunks and with the command protocol.          *)
(*                                                                         *)
(* The line is a sequence of pieces.  A frame is a head and a tail, the    *)
(* tail ends with the delimiter; text (an echo, a prompt, a boot log) has  *)
(* no delimiter of its own; a mark is a delimiter, the firmware puts one   *)
(* on either side of a log line.  The buffer always holds consecutive      *)
(* pieces, so it is the interval from..at-1 of the line.                   *)
(***************************************************************************)
EXTENDS ParquetSink, WebSockets

CONSTANTS
    InitMode,  \* the output mode of the server's configuration
    Lines,     \* bound: the lines considered, what the board sends is a prefix of one
    MaxEvents  \* bound: resets, unplugs and writes of the handlers

Modes  == {"stream", "dump", "both"}
Pieces == {"head", "tail", "text", "mark"}

ASSUME FramerAssumption ==
    InitMode \in Modes /\ Lines \subseteq Seq(Pieces) /\ MaxEvents \in Nat

VARIABLES
    sent,        \* every piece the board sent; those before at are read
    mid,         \* the board is in the middle of a frame
    collecting,  \* the board collects
    link,        \* the port exists
    from, at,    \* buf holds the pieces from..at-1
    fresh,       \* the current read_until call has read something
    drop_next_chunk,
    pc,          \* where the task is
    armed,       \* the re-verify precondition, as evaluated on entry to select!
    current_mode, current_session,
    mode_changed, session_file, session_changed,  \* the watch cells
    collection_running, commands, info_request,   \* the rest of the handle
    events       \* events so far

lineVars == <<sent, mid, collecting, link>>
bufVars  == <<from, at, fresh, drop_next_chunk>>
loopVars == <<pc, armed, current_mode, current_session>>
cellVars == <<output_mode, mode_changed, session_file, session_changed>>
flagVars == <<collection_running, commands, info_request, shutdown>>
vars == <<lineVars, bufVars, loopVars, cellVars, flagVars, dumpVars, ringVars,
          senders_gone, events>>

Delimited(k) == sent[k] \in {"tail", "mark"}

\* A chunk is an interval of the line.  Text frames are logged and dropped, as are
\* empty chunks; only a frame that is whole and alone decodes.
TextOnly(chunk) == \A k \in chunk.first..chunk.last : sent[k] \in {"text", "mark"}
Decodes(chunk)  == /\ chunk.last = chunk.first + 1
                   /\ sent[chunk.first] = "head" /\ sent[chunk.last] = "tail"

-----------------------------------------------------------------------------
(* The board and the link. *)

Say(piece, midway) ==
    /\ link /\ sent' = Append(sent, piece)
    /\ \E line \in Lines : Len(sent') <= Len(line) /\ \A k \in 1..Len(sent') : sent'[k] = line[k]
    /\ mid' = midway /\ UNCHANGED <<collecting, link>>

BoardStep ==
    \/ collecting /\ ~mid /\ Say("head", TRUE)
    \/ mid /\ Say("tail", FALSE)
    \/ ~mid /\ \E piece \in {"text", "mark"} : Say(piece, FALSE)

\* A reset or a crash cuts the frame that is on its way and ends the collection, as
\* does an unplug.
BoardResets ==
    /\ mid \/ collecting
    /\ mid' = FALSE /\ collecting' = FALSE /\ UNCHANGED <<sent, link>>

Unplug == link /\ link' = FALSE /\ mid' = FALSE /\ collecting' = FALSE /\ UNCHANGED sent
Replug == ~link /\ link' = TRUE /\ UNCHANGED <<sent, mid, collecting>>

Environment ==
    /\ \/ (BoardStep \/ Replug) /\ UNCHANGED events
       \/ (BoardResets \/ Unplug) /\ events < MaxEvents /\ events' = events + 1
    /\ UNCHANGED <<bufVars, loopVars, cellVars, flagVars, dumpVars, ringVars, senders_gone>>

\* The handlers and the supervisor, as the writes they make to the handle, in any
\* order: every interleaving that ControlRoutes allows is among them.
SetRunning ==
    /\ collection_running' = ~collection_running
    /\ UNCHANGED <<cellVars, commands, info_request, shutdown>>

SetMode ==
    /\ output_mode' \in Modes /\ mode_changed' = TRUE
    /\ UNCHANGED <<session_file, session_changed, flagVars>>

SetSession ==
    /\ session_file' \in {0} \cup Files /\ session_changed' = TRUE
    /\ UNCHANGED <<output_mode, mode_changed, flagVars>>

QueueCommand ==
    /\ \E command \in {"start", "q"} : commands' = Append(commands, command)
    /\ UNCHANGED <<cellVars, collection_running, info_request, shutdown>>

AskInfo ==
    info_request' = TRUE /\ UNCHANGED <<cellVars, collection_running, commands, shutdown>>

Cancel ==
    shutdown' = TRUE /\ UNCHANGED <<cellVars, collection_running, commands, info_request>>

HandlerWrite ==
    /\ events < MaxEvents /\ events' = events + 1
    /\ SetRunning \/ SetMode \/ SetSession \/ QueueCommand \/ AskInfo \/ Cancel
    /\ UNCHANGED <<lineVars, bufVars, loopVars, dumpVars, ringVars, senders_gone>>

-----------------------------------------------------------------------------
(* The loop. *)

\* sync_parquet_sink, where the sink may be closed first because the session ended.
\* known: the chip is known and the file can be created.
SyncSink(mode, path, changed, ended, known, ok) ==
    LET closes == sink.path # 0 /\ (ended \/ (changed /\ mode = "stream"))
        opens  == sink.path = 0 /\ changed /\ mode # "stream" /\ path # 0 /\ known
    IN  /\ sink' = IF closes THEN NoSink ELSE IF opens THEN Opened(path) ELSE sink
        /\ disk' = IF closes THEN [disk EXCEPT ![sink.path] = Finish(sink, ok)]
                   ELSE IF opens THEN [disk EXCEPT ![path] = Blank] ELSE disk
        /\ IF closes THEN Disk(ok) ELSE UNCHANGED fails

\* The head of the loop: watch changes are applied and select! is entered.
LoopTop ==
    /\ pc = "top" /\ pc' = "select"
    /\ current_mode' = IF mode_changed THEN output_mode ELSE current_mode
    /\ current_session' = IF session_changed THEN session_file ELSE current_session
    /\ mode_changed' = FALSE /\ session_changed' = FALSE
    /\ \E known, ok \in BOOLEAN :
          SyncSink(current_mode', current_session', mode_changed \/ session_changed,
                   session_changed /\ session_file = 0, known, ok)
    /\ armed' = ~collection_running
    /\ fresh' = FALSE
    /\ UNCHANGED <<from, at, drop_next_chunk, output_mode, session_file, lineVars,
                   flagVars, ringVars, senders_gone, events>>

\* What is done with a chunk: skipped after a command, else a frame while the flag
\* says so.  Read and dump errors end in the log.
Consume(chunk) ==
    LET frame == ~drop_next_chunk /\ collection_running /\ ~TextOnly(chunk)
    IN  /\ drop_next_chunk' = FALSE
        /\ IF frame /\ current_mode # "stream" /\ sink.path # 0 /\ Decodes(chunk)
           THEN \E ok \in BOOLEAN :
                  /\ sink' = Push(sink, chunk.first, ok) /\ UNCHANGED disk
                  /\ IF Len(sink.buffer) + 1 >= RowGroup THEN Disk(ok) ELSE UNCHANGED fails
           ELSE UNCHANGED dumpVars
        /\ IF frame /\ current_mode # "dump" THEN Publish(chunk) ELSE UNCHANGED published

\* read_until takes a piece; at a delimiter it returns and the buffer is used up.
Read ==
    /\ pc = "select" /\ at <= Len(sent) /\ at' = at + 1
    /\ IF Delimited(at)
       THEN /\ Consume([first |-> from, last |-> at])
            /\ from' = at + 1 /\ fresh' = FALSE /\ pc' = "top"
       ELSE /\ fresh' = TRUE
            /\ UNCHANGED <<from, pc, drop_next_chunk, dumpVars, published>>
    /\ UNCHANGED <<armed, current_mode, current_session, lineVars, cellVars, flagVars,
                   socketVars, senders_gone, events>>

\* Mutant: the cut chunk is taken to end with a delimiter that is still to be read.
ReadCutSkips ==
    /\ pc = "select" /\ at > Len(sent) /\ ~link /\ fresh
    /\ Consume([first |-> from, last |-> at - 1])
    /\ from' = at + 1 /\ fresh' = FALSE /\ pc' = "top"
    /\ UNCHANGED <<at, armed, current_mode, current_session, lineVars, cellVars, flagVars,
                   socketVars, senders_gone, events>>

\* At the end of the input, what this call has read is returned as a chunk, without a
\* delimiter and together with what earlier calls left in the buffer.
ReadCut ==
    /\ pc = "select" /\ at > Len(sent) /\ ~link /\ fresh
    /\ Consume([first |-> from, last |-> at - 1])
    /\ from' = at /\ fresh' = FALSE /\ pc' = "top"
    /\ UNCHANGED <<at, armed, current_mode, current_session, lineVars, cellVars, flagVars,
                   socketVars, senders_gone, events>>

\* The connection ends: the sink is dropped and the device is no longer collecting.
Leave(where) ==
    /\ pc' = where
    /\ \E ok \in BOOLEAN : SyncSink(current_mode, 0, FALSE, TRUE, FALSE, ok)
    /\ collection_running' = FALSE
    /\ UNCHANGED <<armed, current_mode, current_session, lineVars, bufVars, cellVars,
                   info_request, shutdown, ringVars, senders_gone, events>>

\* Ok(0) or an error of the read, a failing write, which loses its command, or an
\* exchange that fails hard.
Disconnect ==
    /\ pc \in {"select", "exchange"} /\ ~link /\ Leave("off")
    /\ \/ UNCHANGED commands
       \/ pc = "select" /\ commands # <<>> /\ commands' = Tail(commands)

ShutdownSeen == pc = "select" /\ shutdown /\ UNCHANGED commands /\ Leave("gone")

\* The metrics tick brings the loop round; the buffer keeps the pieces of a frame that
\* is only half read.
Untouched == UNCHANGED <<current_mode, current_session, cellVars, collection_running,
                         shutdown, dumpVars, ringVars, senders_gone, events>>

\* Mutant: the tick starts the next read with an empty buffer.
MetricsTickClears ==
    /\ pc = "select" /\ pc' = "top" /\ from' = at /\ fresh' = FALSE
    /\ UNCHANGED <<armed, lineVars, at, drop_next_chunk, commands, info_request>>
    /\ Untouched

MetricsTick ==
    /\ pc = "select" /\ pc' = "top" /\ fresh' = FALSE
    /\ UNCHANGED <<armed, lineVars, from, at, drop_next_chunk, commands, info_request>>
    /\ Untouched

\* A command is written; the chunk its echo is part of will be dropped.
WriteCommand ==
    /\ pc = "select" /\ commands # <<>> /\ commands' = Tail(commands) /\ link
    /\ pc' = "top" /\ fresh' = FALSE /\ drop_next_chunk' = TRUE
    /\ collecting' = (Head(commands) = "start" \/ (collecting /\ Head(commands) # "q"))
    /\ UNCHANGED <<armed, sent, mid, link, from, at, info_request>> /\ Untouched

\* The exchange runs in line mode: the buffer is cleared, the chunk that straddles the
\* text will be dropped.
BeginExchange ==
    /\ pc' = "exchange" /\ from' = at /\ fresh' = FALSE /\ drop_next_chunk' = TRUE
    /\ UNCHANGED <<armed, lineVars, at, commands>> /\ Untouched

Reverify == pc = "select" /\ armed /\ UNCHANGED info_request /\ BeginExchange

AnswerInfo ==
    /\ pc = "select" /\ info_request /\ info_request' = FALSE
    /\ IF collection_running
       THEN /\ pc' = "top" /\ fresh' = FALSE
            /\ UNCHANGED <<armed, lineVars, from, at, drop_next_chunk, commands>> /\ Untouched
       ELSE BeginExchange

\* The exchange takes what it finds on the line and stops wherever its answer ends.
Exchange ==
    /\ pc = "exchange"
    /\ at' \in at..(Len(sent) + 1) /\ from' = at' /\ pc' = "top"
    /\ UNCHANGED <<armed, lineVars, fresh, drop_next_chunk, commands, info_request>>
    /\ Untouched

\* A connection begins: what the verification left of the line is read, the first
\* chunk dropped, mode and session taken from the cells without marking them seen.
Connect ==
    /\ pc = "off" /\ link /\ ~shutdown /\ pc' = "top"
    /\ at' \in at..(Len(sent) + 1) /\ from' = at' /\ fresh' = FALSE
    /\ drop_next_chunk' = TRUE
    /\ current_mode' = output_mode /\ current_session' = session_file
    /\ \E known, ok \in BOOLEAN : SyncSink(output_mode, session_file, TRUE, FALSE, known, ok)
    /\ UNCHANGED <<armed, lineVars, cellVars, flagVars, ringVars, senders_gone, events>>

NeverOpened ==
    /\ pc = "off" /\ shutdown /\ pc' = "gone"
    /\ UNCHANGED <<armed, current_mode, current_session, lineVars, bufVars, cellVars,
                   flagVars, dumpVars, ringVars, senders_gone, events>>

TaskStep ==
    \/ LoopTop \/ Read \/ ReadCut \/ Disconnect \/ ShutdownSeen \/ MetricsTick
    \/ WriteCommand \/ Reverify \/ AnswerInfo \/ Exchange \/ Connect \/ NeverOpened

=============================================================================
