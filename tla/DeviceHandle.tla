--------------------------- MODULE DeviceHandle ---------------------------
(***************************************************************************)
(* The state that the HTTP handlers, the serial task and the board of one  *)
(* attached device share: the atomics, the bounded channels and the watch  *)
(* cells of DeviceHandle (src/src/state.rs), the dump files on disk, and   *)
(* the board and the USB link as src/ uses them.  ControlRoutes and        *)
(* SerialTask give the steps; SerialDevice composes them.                  *)
(***************************************************************************)
EXTENDS Integers, Sequences, FiniteSets

CONSTANTS
    Clients,      \* concurrent HTTP requests: each runs one handler at a time
    Ops,          \* the requests that clients make, a subset of AllOps
    Modes,        \* the output modes clients choose between
    InitMode,     \* the output mode chosen before the serial task first ran
    NativeUsb,    \* DeviceHandle.native_usb
    PathOf,       \* PathOf[n]: the dump path that the start with call number n
                  \* publishes (equal for two starts in one wall-clock second)
    CmdCap,       \* capacity of the command channel (64 in the code)
    InfoCap,      \* capacity of the info-request channel (4 in the code)
    MaxCalls,     \* bound: requests made in a behaviour
    MaxFrames,    \* bound: chunks the board emits
    WireCap,      \* bound: chunks buffered between board and host
    MaxDrops,     \* bound: times the board is unplugged
    MayDetach,    \* whether the supervisor may cancel the handle
    Paced         \* whether clients wait for the system to be quiet between
                  \* requests (an assumption on clients, not on the code)

AllOps   == {"start", "stop", "reset", "info", "config", "mode"}
AllModes == {"stream", "dump", "both"}
Calls    == 1..MaxCalls

ASSUME HandleAssumption ==
    /\ Ops \subseteq AllOps /\ Modes \subseteq AllModes /\ InitMode \in AllModes
    /\ NativeUsb \in BOOLEAN /\ MayDetach \in BOOLEAN /\ Paced \in BOOLEAN
    /\ MaxCalls \in Nat /\ MaxFrames \in Nat /\ WireCap \in Nat /\ MaxDrops \in Nat
    /\ CmdCap \in Nat \ {0} /\ InfoCap \in Nat \ {0}
    /\ PathOf \in [Calls -> Calls]

VARIABLES
    serial_connected, collection_running, firmware_verified, \* AtomicBool
    device_info,      \* TRUE iff the Mutex holds Some(info)
    cmd_ch,           \* mpsc: commands waiting for the serial task
    info_ch,          \* mpsc: responders (call numbers) waiting for the task
    session_file,     \* watch: the session's dump path, and "not yet seen"
    output_mode,      \* watch: the output mode, and "not yet seen"
    op, at, ticket,   \* per client: the request, the handler's next step and
                      \* its call number
    calls,            \* requests made so far
    pc,               \* the serial task's next step
    result,           \* outcome of the task's last info exchange
    asker,            \* the responder the task is answering, or NoCall
    exit,             \* why run_serial_connection returned
    reverify_on,      \* the select! precondition of the re-verify arm, as it
                      \* was evaluated when the task entered select!
    current_mode, current_session_path, chip, drop_next_chunk, sink,
    files,            \* the dump files on disk
    link,             \* the port: absent, present, or held open by the task
    board,            \* the firmware: collecting?, for which start, log mode
    wire,             \* chunks sent by the board and not yet read
    frames, drops,    \* counters of the bounds MaxFrames and MaxDrops
    shutdown          \* the cancellation token

flags    == <<serial_connected, collection_running, firmware_verified, device_info>>
queues   == <<cmd_ch, info_ch>>
watches  == <<session_file, output_mode>>
requests == <<op, at, ticket, calls>>
locals   == <<result, asker, exit, reverify_on, current_mode,
              current_session_path, chip, drop_next_chunk>>
disk     == <<sink, files>>
usb      == <<link, board, wire, frames, drops>>
vars     == <<flags, queues, watches, requests, pc, locals, disk, usb, shutdown>>
-----------------------------------------------------------------------------
NoCall   == 0          \* no call, no path (None), no start
TextLine == 0          \* a chunk that is never a row: firmware text, a
                       \* session announcement or an undecodable frame
Maybe    == Calls \cup {NoCall}

Command == [kind : {"set-log-mode", "start", "q", "restart", "config"}, run : Maybe]
Cmd(k, n) == [kind |-> k, run |-> n]

\* A dump file: rows are those handed to its sink; "broken" is a file that was closed
\* without a footer, which no reader opens.
File   == [state : {"absent", "writing", "readable", "broken"}, rows : Seq(Calls)]
Board  == [collecting : BOOLEAN, run : Maybe, serialized : BOOLEAN]

Booted == [collecting |-> FALSE, run |-> NoCall, serialized |-> FALSE]

\* tokio's watch::Sender::send: the value is replaced and every send marks the
\* cell unseen, whether the last value was read or not; once the receiver is
\* gone (the task ended) nothing is stored.
WatchSend(cell, v) == IF pc = "ended" THEN cell ELSE [value |-> v, unseen |-> TRUE]
-----------------------------------------------------------------------------
(***************************************************************************)
(* The firmware (external).  Collecting locks its CLI: only q is acted on  *)
(* (src/src/routes/control.rs:204-208).  A command reaches it as the host  *)
(* writes it.                                                              *)
(***************************************************************************)
Obey(b, c) ==
    CASE b.collecting /\ c.kind = "q"     -> [b EXCEPT !.collecting = FALSE]
      [] b.collecting /\ c.kind # "q"     -> b
      [] ~b.collecting /\ c.kind = "start" -> [b EXCEPT !.collecting = TRUE, !.run = c.run]
      [] ~b.collecting /\ c.kind = "set-log-mode" -> [b EXCEPT !.serialized = TRUE]
      [] ~b.collecting /\ c.kind = "restart" -> Booted
      [] ~b.collecting /\ c.kind \in {"q", "config"} -> b

Reboots(b, c) == c.kind = "restart" /\ ~b.collecting

\* One chunk of the stream: a measurement of the run it belongs to, or a chunk
\* no row comes of.  Without `set-log-mode serialized` no chunk decodes.
BoardEmits ==
    /\ board.collecting /\ link = "held"
    /\ frames < MaxFrames /\ Len(wire) < WireCap
    /\ \E chunk \in IF board.serialized THEN {board.run, TextLine} ELSE {TextLine} :
          wire' = Append(wire, chunk)
    /\ frames' = frames + 1
    /\ UNCHANGED <<flags, queues, watches, requests, pc, locals, disk, link, board,
                   drops, shutdown>>

\* A run started with a duration ends on the board alone.
RunExpires ==
    /\ board.collecting
    /\ board' = [board EXCEPT !.collecting = FALSE]
    /\ UNCHANGED <<flags, queues, watches, requests, pc, locals, disk, link, wire,
                   frames, drops, shutdown>>

\* The cable is pulled: the board loses power and the open descriptor dies.
LinkDown ==
    /\ link # "absent" /\ drops < MaxDrops
    /\ link' = "absent" /\ board' = Booted /\ wire' = <<>>
    /\ drops' = drops + 1
    /\ UNCHANGED <<flags, queues, watches, requests, pc, locals, disk, frames, shutdown>>

\* The port appears (again), after a replug or a re-enumeration.
LinkUp ==
    /\ link = "absent"
    /\ link' = "present"
    /\ UNCHANGED <<flags, queues, watches, requests, pc, locals, disk, board, wire,
                   frames, drops, shutdown>>

\* DeviceRegistry::detach cancels the handle's token (the supervisor's debounce
\* is not part of this module).
Detach ==
    /\ MayDetach /\ ~shutdown
    /\ shutdown' = TRUE
    /\ UNCHANGED <<flags, queues, watches, requests, pc, locals, disk, usb>>

Environment == BoardEmits \/ RunExpires \/ LinkDown \/ LinkUp \/ Detach
=============================================================================
