---------------------------- MODULE SerialTask ----------------------------
(***************************************************************************)
(* The per-device serial task: run_serial_task and run_serial_connection   *)
(* (src/src/serial.rs).  pc names the task's next step; the steps between  *)
(* two awaits or two stores that another thread can see are one action.    *)
(* Which rung of the recovery ladder fires, device_info's contents, the    *)
(* fault slot and the broadcast channel are not part of this module: a     *)
(* failed re-verification may or may not reboot the board.                 *)
(***************************************************************************)
EXTENDS DeviceHandle

\* What no step of the task touches.
TaskFrame == UNCHANGED <<op, ticket, calls, frames, drops, shutdown>>

Dumps(mode) == mode \in {"dump", "both"}

\* Mutant: a dropped sink is not finished.
NotFinalised(f, s) == {f}

\* What dropping a ParquetSink (s, or none) may leave of files f: finish flushes and
\* writes the footer, unless one of the two fails, which Drop only logs.
Finalised(f, s) ==
    IF s = NoCall THEN {f} ELSE {[f EXCEPT ![s].state = e] : e \in {"readable", "broken"}}

\* ParquetSink::open: File::create truncates whatever the path held.
Created(f, p) == [f EXCEPT ![p] = [state |-> "writing", rows |-> <<>>]]

\* sync_parquet_sink, from sink s over files f: the sink and files afterwards.
\* Opening may fail (the error is logged and dumping goes on without a file).
\* Mutants: an open sink is opened again; stream mode keeps the sink.
SyncSinkReopens(mode, path, s, f) ==
    IF Dumps(mode)
    THEN \/ /\ path # NoCall /\ chip'
            /\ sink' = path /\ files' \in {Created(g, path) : g \in Finalised(f, s)}
         \/ sink' = s /\ files' = f
    ELSE sink' = NoCall /\ files' \in Finalised(f, s)

SyncSinkKeeps(mode, path, s, f) ==
    IF Dumps(mode)
    THEN \/ /\ s = NoCall /\ path # NoCall /\ chip'
            /\ sink' = path /\ files' = Created(f, path)
         \/ sink' = s /\ files' = f
    ELSE sink' = s /\ files' = f

SyncSink(mode, path, s, f) ==
    IF Dumps(mode)
    THEN \/ /\ s = NoCall /\ path # NoCall /\ chip'
            /\ sink' = path /\ files' = Created(f, path)
         \/ sink' = s /\ files' = f       \* open already, no path, no chip, or I/O error
    ELSE sink' = NoCall /\ files' \in Finalised(f, s)
-----------------------------------------------------------------------------
(***************************************************************************)
(* The outer loop: open the port, run the connection, clean up.            *)
(***************************************************************************)
ExitBeforeOpen ==
    /\ pc = "open" /\ shutdown
    /\ pc' = "ended"
    /\ UNCHANGED <<flags, queues, watches, at, locals, disk, link, board, wire>>
    /\ TaskFrame

\* A UART bridge gets the RTS pulse; a native-USB board keeps running.
OpenPort ==
    /\ pc = "open" /\ ~shutdown /\ link = "present"
    /\ link' = "held" /\ wire' = <<>>
    /\ board' = IF NativeUsb THEN board ELSE Booted
    /\ serial_connected' = TRUE
    /\ pc' = "verify"
    /\ UNCHANGED <<collection_running, firmware_verified, device_info, queues, watches,
                   at, locals, disk>>
    /\ TaskFrame

OpenFails ==
    /\ pc = "open" /\ ~shutdown
    /\ serial_connected' = FALSE /\ collection_running' = FALSE
    /\ UNCHANGED <<firmware_verified, device_info, queues, watches, at, pc, locals, disk,
                   link, board, wire>>
    /\ TaskFrame

\* run_serial_connection returns: its locals are dropped (the sink with them)
\* and the descriptor is closed; then the flags are cleared one at a time.
CloseConnection ==
    /\ pc = "close"
    /\ sink' = NoCall /\ files' \in Finalised(files, sink)
    /\ chip' = FALSE /\ current_session_path' = NoCall
    /\ link' = IF link = "held" THEN "present" ELSE link
    /\ wire' = <<>>
    /\ serial_connected' = FALSE
    /\ pc' = "clear_running"
    /\ UNCHANGED <<collection_running, firmware_verified, device_info, queues, watches, at,
                   result, asker, exit, reverify_on, current_mode, drop_next_chunk, board>>
    /\ TaskFrame

DropRunning ==
    /\ pc = "clear_running"
    /\ collection_running' = FALSE
    /\ pc' = "clear_verified"
    /\ UNCHANGED <<serial_connected, firmware_verified, device_info, queues, watches, at,
                   locals, disk, link, board, wire>>
    /\ TaskFrame

DropVerified ==
    /\ pc = "clear_verified"
    /\ firmware_verified' = FALSE
    /\ pc' = "clear_info"
    /\ UNCHANGED <<serial_connected, collection_running, device_info, queues, watches, at,
                   locals, disk, link, board, wire>>
    /\ TaskFrame

DropInfo ==
    /\ pc = "clear_info"
    /\ device_info' = FALSE
    /\ pc' = IF exit = "shutdown" THEN "ended" ELSE "open"
    /\ UNCHANGED <<serial_connected, collection_running, firmware_verified, queues, watches,
                   at, locals, disk, link, board, wire>>
    /\ TaskFrame
-----------------------------------------------------------------------------
(***************************************************************************)
(* The info exchange.  "soft": the link works and no info block came;      *)
(* "hard": the link failed.  The exchange swallows what is on the wire.    *)
(***************************************************************************)
Outcomes == {"ok", "soft", "hard"}

\* quiesce_stale_stream, on native USB: q, then drain.
Quiesced == IF NativeUsb THEN Obey(board, Cmd("q", NoCall)) ELSE board

Exchange(r, b) ==
    /\ r = "ok"   => link = "held" /\ ~b.collecting
    /\ r = "soft" => link = "held"
    /\ wire' = <<>>
    /\ result' = r
    /\ exit' = "disconnected"

\* The verification every connection starts with.  An unsupported chip verifies
\* and leaves `chip` empty.
AutoVerify(r) ==
    /\ pc = "verify"
    /\ Exchange(r, Quiesced)
    /\ board' = Quiesced
    /\ chip' \in IF r = "ok" THEN BOOLEAN ELSE {FALSE}
    /\ firmware_verified' = (r = "ok")
    /\ pc' = "record_auto"
    /\ UNCHANGED <<serial_connected, collection_running, device_info, queues, watches, at,
                   asker, reverify_on, current_mode, current_session_path, drop_next_chunk,
                   disk, link>>
    /\ TaskFrame

RecordAuto ==
    /\ pc = "record_auto"
    /\ device_info' = (result = "ok")
    /\ pc' = IF result = "hard" THEN "close" ELSE "init"
    /\ UNCHANGED <<serial_connected, collection_running, firmware_verified, queues, watches,
                   at, locals, disk, link, board, wire>>
    /\ TaskFrame

\* The output state of a connection: read with borrow(), which leaves the
\* cells unseen, and the sink opened at once when they already ask for one.
InitOutput ==
    /\ pc = "init"
    /\ current_mode' = output_mode.value
    /\ current_session_path' = session_file.value
    /\ drop_next_chunk' = TRUE
    /\ UNCHANGED chip
    /\ SyncSink(current_mode', current_session_path', NoCall, files)
    /\ pc' = "top"
    /\ UNCHANGED <<flags, queues, watches, at, result, asker, exit, reverify_on, link,
                   board, wire>>
    /\ TaskFrame
-----------------------------------------------------------------------------
(***************************************************************************)
(* The inner loop: apply what the watch cells hold, then select!.          *)
(***************************************************************************)
\* Mutant: the end of a session is not acted on.
SessionEndIgnored == FALSE

\* The cell holds an unread None: the sink is dropped.
SessionEnded == session_file.unseen /\ session_file.value = NoCall

\* Mutant: only a device that was identified before is verified again.
ReverifyIfKnown == device_info /\ ~collection_running

\* The precondition of the re-verify arm.
ReverifyGuard == ~firmware_verified /\ ~collection_running

LoopTop ==
    /\ pc = "top"
    /\ current_mode' = IF output_mode.unseen THEN output_mode.value ELSE current_mode
    /\ current_session_path' = IF session_file.unseen THEN session_file.value
                                                      ELSE current_session_path
    /\ UNCHANGED chip
    /\ IF output_mode.unseen \/ session_file.unseen
       THEN IF SessionEnded
            THEN \E f \in Finalised(files, sink) :
                    SyncSink(current_mode', current_session_path', NoCall, f)
            ELSE SyncSink(current_mode', current_session_path', sink, files)
       ELSE UNCHANGED disk
    /\ output_mode'  = [output_mode EXCEPT !.unseen = FALSE]
    /\ session_file' = [session_file EXCEPT !.unseen = FALSE]
    /\ reverify_on' = ReverifyGuard \* evaluated on entry to select!
    /\ pc' = "select"
    /\ UNCHANGED <<flags, queues, at, result, asker, exit, drop_next_chunk, link, board, wire>>
    /\ TaskFrame

\* Mutant: the metrics arm is enabled while collecting only.
MetricsWhileCollecting ==
    /\ pc = "select" /\ collection_running
    /\ pc' = "top"
    /\ UNCHANGED <<flags, queues, watches, at, locals, disk, link, board, wire>>
    /\ TaskFrame

\* The once-a-second metrics arm: the only arm that always fires again, hence
\* what bounds the time until a watch cell is applied.
MetricsTick ==
    /\ pc = "select"
    /\ pc' = "top"
    /\ UNCHANGED <<flags, queues, watches, at, locals, disk, link, board, wire>>
    /\ TaskFrame

SelectShutdown ==
    /\ pc = "select" /\ shutdown
    /\ exit' = "shutdown"
    /\ pc' = "close"
    /\ UNCHANGED <<flags, queues, watches, at, result, asker, reverify_on, current_mode,
                   current_session_path, chip, drop_next_chunk, disk, link, board, wire>>
    /\ TaskFrame

\* A firmware `restart` (ignored by a collecting board) or, on native USB, a
\* reset pulse, sent by some rung of the recovery ladder.
LadderReboot(b) ==
    /\ NativeUsb \/ ~b.collecting
    /\ board' = Booted
    /\ link' = IF NativeUsb THEN "absent" ELSE link

\* The 3 s re-verify arm.  A soft failure stores nothing in the handle.
Reverify(r) ==
    /\ pc = "select" /\ reverify_on
    /\ Exchange(r, Quiesced)
    /\ drop_next_chunk' = TRUE
    /\ firmware_verified' = (r = "ok" \/ firmware_verified)
    /\ chip' \in IF r = "ok" THEN BOOLEAN ELSE {chip}
    /\ \/ r = "soft" /\ LadderReboot(Quiesced)
       \/ board' = Quiesced /\ UNCHANGED link
    /\ pc' = CASE r = "ok" -> "record_retry" [] r = "soft" -> "top" [] r = "hard" -> "close"
    /\ UNCHANGED <<serial_connected, collection_running, device_info, queues, watches, at,
                   asker, reverify_on, current_mode, current_session_path, disk>>
    /\ TaskFrame

\* Mutant: the retry raises the flag and keeps no info.
RecordRetryForgets ==
    /\ pc = "record_retry"
    /\ pc' = "top"
    /\ UNCHANGED <<flags, queues, watches, at, locals, disk, link, board, wire>>
    /\ TaskFrame

RecordRetry ==
    /\ pc = "record_retry"
    /\ device_info' = TRUE
    /\ pc' = "top"
    /\ UNCHANGED <<serial_connected, collection_running, firmware_verified, queues, watches,
                   at, locals, disk, link, board, wire>>
    /\ TaskFrame

\* read_until returned a chunk.  The first one after a command or an exchange
\* is discarded; a row is written only while a collection runs.
Records(chunk) ==
    /\ ~drop_next_chunk /\ collection_running
    /\ chunk # TextLine
    /\ Dumps(current_mode) /\ sink # NoCall /\ chip

ReadChunk ==
    /\ pc = "select" /\ wire # <<>>
    /\ wire' = Tail(wire)
    /\ drop_next_chunk' = FALSE
    /\ files' = IF Records(Head(wire))
                THEN [files EXCEPT ![sink].rows = Append(@, Head(wire))]
                ELSE files
    /\ pc' = "top"
    /\ UNCHANGED <<flags, queues, watches, at, result, asker, exit, reverify_on,
                   current_mode, current_session_path, chip, sink, link, board>>
    /\ TaskFrame

\* EOF or a read error.
ReadFails ==
    /\ pc = "select" /\ link # "held"
    /\ exit' = "disconnected"
    /\ pc' = "close"
    /\ UNCHANGED <<flags, queues, watches, at, result, asker, reverify_on, current_mode,
                   current_session_path, chip, drop_next_chunk, disk, link, board, wire>>
    /\ TaskFrame

\* Mutant: commands wait until the firmware is verified.
CommandReadyVerified == cmd_ch # <<>> /\ firmware_verified

CommandReady == cmd_ch # <<>>

\* The command arm: written whether or not the firmware is verified now.
\* After a reboot a native-USB board re-enumerates.
WriteCommand ==
    /\ pc = "select" /\ CommandReady
    /\ cmd_ch' = Tail(cmd_ch)
    /\ drop_next_chunk' = TRUE
    /\ exit' = "disconnected"
    /\ IF link = "held"
       THEN /\ board' = Obey(board, Head(cmd_ch))
            /\ pc' = "top"
            /\ IF NativeUsb /\ Reboots(board, Head(cmd_ch))
               THEN link' = "absent" /\ wire' = <<>>
               ELSE UNCHANGED <<link, wire>>
       ELSE /\ pc' = "close"
            /\ UNCHANGED <<board, link, wire>>
    /\ UNCHANGED <<flags, info_ch, watches, at, result, asker, reverify_on, current_mode,
                   current_session_path, chip, disk>>
    /\ TaskFrame

\* The oneshot reply reaches the handler that still waits for this call.
Reply(n) ==
    at' = [c \in Clients |-> IF at[c] = "await_info" /\ ticket[c] = n THEN "idle" ELSE at[c]]

\* The info arm: refused while a collection runs, else an exchange starts.
TakeInfoRequest ==
    /\ pc = "select" /\ info_ch # <<>>
    /\ info_ch' = Tail(info_ch)
    /\ IF collection_running
       THEN /\ Reply(Head(info_ch)) /\ pc' = "top"
            /\ UNCHANGED <<asker, drop_next_chunk>>
       ELSE /\ asker' = Head(info_ch) /\ pc' = "exchange"
            /\ drop_next_chunk' = TRUE /\ UNCHANGED at
    /\ UNCHANGED <<flags, cmd_ch, watches, result, exit, reverify_on, current_mode,
                   current_session_path, chip, disk, link, board, wire>>
    /\ TaskFrame

AnswerInfo(r) ==
    /\ pc = "exchange"
    /\ Exchange(r, board)
    /\ chip' \in IF r = "ok" THEN BOOLEAN ELSE {chip}
    /\ firmware_verified' = (r = "ok")
    /\ pc' = "record_info"
    /\ UNCHANGED <<serial_connected, collection_running, device_info, queues, watches, at,
                   asker, reverify_on, current_mode, current_session_path, drop_next_chunk,
                   disk, link, board>>
    /\ TaskFrame

RecordInfo ==
    /\ pc = "record_info"
    /\ device_info' = (result = "ok")
    /\ Reply(asker)
    /\ asker' = NoCall
    /\ pc' = IF result = "hard" THEN "close" ELSE "top"
    /\ UNCHANGED <<serial_connected, collection_running, firmware_verified, queues, watches,
                   result, exit, reverify_on, current_mode, current_session_path, chip,
                   drop_next_chunk, disk, link, board, wire>>
    /\ TaskFrame
-----------------------------------------------------------------------------
\* Steps the task takes as soon as it is scheduled.
StraightLine ==
    \/ CloseConnection \/ DropRunning \/ DropVerified \/ DropInfo
    \/ RecordAuto \/ InitOutput \/ LoopTop \/ RecordRetry \/ RecordInfo
    \/ \E r \in Outcomes : AutoVerify(r) \/ AnswerInfo(r)

\* The arms of select!.
SelectArm ==
    \/ MetricsTick \/ SelectShutdown \/ ReadChunk \/ ReadFails \/ WriteCommand
    \/ TakeInfoRequest \/ \E r \in Outcomes : Reverify(r)

TaskStep == ExitBeforeOpen \/ OpenPort \/ OpenFails \/ StraightLine \/ SelectArm
=============================================================================
