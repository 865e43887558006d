--------------------------- MODULE SerialDevice ---------------------------
(***************************************************************************)
(* One attached device: the HTTP handlers, the serial task and the board,  *)
(* interleaved.                                                            *)
(***************************************************************************)
EXTENDS ControlRoutes, SerialTask

Init ==
    /\ serial_connected = FALSE /\ collection_running = FALSE
    /\ firmware_verified = FALSE /\ device_info = FALSE
    /\ cmd_ch = <<>> /\ info_ch = <<>>
    /\ session_file = [value |-> NoCall, unseen |-> FALSE]
    /\ output_mode = [value |-> InitMode, unseen |-> (InitMode # "stream")]
    /\ op = [c \in Clients |-> "mode"] /\ at = [c \in Clients |-> "idle"]
    /\ ticket = [c \in Clients |-> NoCall] /\ calls = 0
    /\ pc = "open" /\ result = "soft" /\ asker = NoCall /\ exit = "disconnected"
    /\ reverify_on = FALSE /\ current_mode = "stream" /\ current_session_path = NoCall
    /\ chip = FALSE /\ drop_next_chunk = TRUE /\ sink = NoCall
    /\ files = [p \in Calls |-> [state |-> "absent", rows |-> <<>>]]
    /\ link = "present" /\ board = Booted /\ wire = <<>> /\ frames = 0 /\ drops = 0
    /\ shutdown = FALSE

\* Nothing is pending: no request, command, unseen watch value or unread chunk,
\* and the link is up.
Quiet ==
    /\ \A c \in Clients : at[c] = "idle"
    /\ cmd_ch = <<>> /\ info_ch = <<>> /\ wire = <<>>
    /\ ~session_file.unseen /\ ~output_mode.unseen
    /\ pc = "select" /\ link = "held"

Next == \/ TaskStep
        \/ Environment
        \/ \E c \in Clients : (Paced => Quiet) /\ Arrival(c)
        \/ \E c \in Clients : HandlerStep(c)

Spec == Init /\ [][Next]_vars

\* Fairness.  tokio polls every ready task and every request again, and select!
\* picks a ready arm at random, so an arm that is ready again and again is taken.

\* For the handlers, of a device that stays attached: the arms that empty the
\* channels and leave a dead link, and of the board's side that an unplugged one is
\* replugged and that a link that is up does not fail every exchange.
HandlersRun ==
    /\ WF_vars(OpenPort) /\ SF_vars(ReadFails)
    /\ SF_vars(WriteCommand) /\ SF_vars(TakeInfoRequest)
    /\ SF_vars(AutoVerify("ok") \/ AutoVerify("soft")) /\ WF_vars(LinkUp)
    /\ \A c \in Clients : SF_vars(HandlerStep(c))

\* For whatever waits for the loop to come round: the metrics tick.
TaskTicks == WF_vars(StraightLine) /\ SF_vars(MetricsTick)

\* For the verification: a genuine board answers `info` in the end.  The metrics
\* tick is needed here too: the re-verify precondition is evaluated on entry to
\* select!, and only another arm brings the task back there.
BoardAnswers == TaskTicks /\ SF_vars(Reverify("ok"))

ProgressSpec == Spec /\ HandlersRun /\ TaskTicks
AnswerSpec   == Spec /\ BoardAnswers
-----------------------------------------------------------------------------
Cell(V) == [value : V, unseen : BOOLEAN]

Steps == {"idle", "check_link", "check_verified", "check_running", "check_idle", "claim",
          "send_mode", "send_start", "publish", "send_quit", "send_config", "send_restart",
          "clear_running", "end_session", "unverify", "forget_info", "pulse", "send_info",
          "await_info"}

TaskSteps == {"open", "verify", "record_auto", "init", "top", "select", "record_retry",
              "exchange", "record_info", "close", "clear_running", "clear_verified",
              "clear_info", "ended"}

\* Types of every variable: the atomics, channels, cells, requests, the task's
\* locals, the files, and the board's side.
FlagsOK ==
    /\ serial_connected \in BOOLEAN /\ collection_running \in BOOLEAN
    /\ firmware_verified \in BOOLEAN /\ device_info \in BOOLEAN
QueuesOK ==
    /\ cmd_ch \in Seq(Command) /\ Len(cmd_ch) <= CmdCap
    /\ info_ch \in Seq(Calls) /\ Len(info_ch) <= InfoCap
WatchesOK == session_file \in Cell(Maybe) /\ output_mode \in Cell(AllModes)
RequestsOK ==
    /\ op \in [Clients -> AllOps] /\ at \in [Clients -> Steps]
    /\ ticket \in [Clients -> Maybe] /\ calls \in 0..MaxCalls
LocalsOK ==
    /\ pc \in TaskSteps /\ result \in Outcomes /\ asker \in Maybe
    /\ exit \in {"disconnected", "shutdown"} /\ reverify_on \in BOOLEAN
    /\ current_mode \in AllModes /\ current_session_path \in Maybe
    /\ chip \in BOOLEAN /\ drop_next_chunk \in BOOLEAN
DiskOK == sink \in Maybe /\ files \in [Calls -> File]
UsbOK ==
    /\ link \in {"absent", "present", "held"} /\ board \in Board
    /\ wire \in Seq(Maybe) /\ frames \in 0..MaxFrames /\ drops \in 0..MaxDrops

TypeOK == FlagsOK /\ QueuesOK /\ WatchesOK /\ RequestsOK /\ LocalsOK /\ DiskOK /\ UsbOK
              /\ shutdown \in BOOLEAN
-----------------------------------------------------------------------------
(***************************************************************************)
(* Dump files.                                                             *)
(***************************************************************************)
\* No dump file is left behind half written, and none is written to after it was finished:
\* a file is open on disk exactly while the task's sink is writing it, over session end,
\* disconnect, mode change and shutdown (src/src/parquet_sink.rs:60-61).  Whether finishing
\* it got as far as the footer is another matter.
NoneLeftOpen == \A p \in Calls : files[p].state = "writing" <=> sink = p

\* Whenever the task waits in select!, an open sink is one that the applied mode
\* and session ask for (the watch handling at the top of the loop).
SinkAsConfigured ==
    pc = "select" /\ sink # NoCall => Dumps(current_mode) /\ current_session_path # NoCall

\* Rows that reached a dump file stay in it (src/src/state.rs:103: Some(path)
\* means "open/reuse that file").
RowsSurvive ==
    [][\A p \in Calls : /\ Len(files[p].rows) <= Len(files'[p].rows)
                        /\ files[p].rows = SubSeq(files'[p].rows, 1, Len(files[p].rows))]_vars

\* Whenever the task waits in select! and has seen the session's path, an open sink
\* writes to that path (src/src/state.rs:103: "Some(path) -> open/reuse that
\* file; None -> session ended, close file").
SinkOfSession ==
    pc = "select" /\ ~session_file.unseen /\ sink # NoCall => sink = session_file.value

\* Every row of a dump file was measured in the run of the session the file was
\* named for (src/src/parquet_sink.rs:3: "Each collection session writes one
\* Parquet file").
RowsOfOwnSession ==
    \A p \in Calls : \A i \in 1..Len(files[p].rows) : PathOf[files[p].rows[i]] = p

\* What a reader of the dump directory sees is one file per session: the device implements
\* SessionFiles, whose session, open file and detachment are the published path, the sink
\* and the cancellation token.
Dumping == INSTANCE SessionFiles WITH
    session <- session_file.value, open <- sink, detached <- shutdown, None <- NoCall

\* Each collection session writes one Parquet file (src/src/parquet_sink.rs:3).
OneFilePerSession == Dumping!Spec

\* A session that was ended is closed on disk in the end, although a watch
\* change wakes no arm of select! (the metrics tick does).
SessionCloses == session_file.value = NoCall ~> (sink = NoCall \/ session_file.value # NoCall)
-----------------------------------------------------------------------------
(***************************************************************************)
(* Commands and the board.                                                 *)
(***************************************************************************)
\* A run that the board makes delivers serialized chunks: set-log-mode was
\* applied before start (src/src/routes/control.rs:296-300).
StartsSerialized == board.collecting => board.serialized

\* A start that was reported as successful is not swallowed by the CLI lock of
\* a board that is still collecting (src/src/routes/control.rs:204-208).
StartNotSwallowed ==
    [][cmd_ch # <<>> /\ cmd_ch' = Tail(cmd_ch) /\ Head(cmd_ch).kind = "start"
          => ~board.collecting]_vars

\* A client's command is written to verified firmware only (src/src/state.rs:137-140).
WritesVerified ==
    [][cmd_ch # <<>> /\ cmd_ch' = Tail(cmd_ch) /\ Head(cmd_ch).kind # "restart"
          => firmware_verified]_vars

\* At rest on verified firmware, a board that collects is one the host reports
\* as collecting, so that stop is not answered "not running"
\* (src/src/routes/control.rs:225-247).
CollectingIsReported == Quiet /\ firmware_verified /\ board.collecting => collection_running
-----------------------------------------------------------------------------
(***************************************************************************)
(* Verification and progress.                                              *)
(***************************************************************************)
\* While the task waits, device_info is Some exactly when the firmware is verified
\* (src/src/state.rs:110-111: "cleared alongside `firmware_verified`").
IdentityCoherent == pc = "select" => (firmware_verified <=> device_info)

\* A device that stays attached does not stay unverified
\* (src/src/serial.rs:103-110: the re-verify interval).
VerifiesAgain ==
    (link = "held" /\ ~firmware_verified) ~> (link # "held" \/ firmware_verified)

\* Every request is answered, also when it waits for room in a channel that an
\* unplugged device does not drain (src/src/serial.rs:875-922: only select! does).
RequestsReturn == \A c \in Clients : at[c] # "idle" ~> at[c] = "idle"
=============================================================================
