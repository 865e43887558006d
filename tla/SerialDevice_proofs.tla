----------------------- MODULE SerialDevice_proofs -----------------------
(***************************************************************************)
(* Theorems about SerialDevice: types, footers of the dump files, and the  *)
(* sink that is open while the serial task waits.  The inductive invariant *)
(* IInv adds to these where a handler's request may be (Routed) and where  *)
(* in its connection the task may have a sink open (SinkScope).            *)
(***************************************************************************)
EXTENDS SerialDevice, TLAPS

-----------------------------------------------------------------------------
(***************************************************************************)
(* Lemmas about the operators of the model.                                *)
(***************************************************************************)
\* The firmware's reaction to a command is a board again.
LEMMA ObeyTyped == ASSUME NEW b \in Board, NEW cmd \in Command PROVE Obey(b, cmd) \in Board
  BY Zenon DEF Obey, Board, Command, Booted, Maybe

\* A run that expires on the board leaves a board.
LEMMA ExpiredTyped == ASSUME NEW b \in Board PROVE [b EXCEPT !.collecting = FALSE] \in Board
  BY Zenon DEF Board

\* What the handlers put into the command channel is a command.
LEMMA CmdTyped ==
  ASSUME NEW k \in {"set-log-mode", "start", "q", "restart", "config"}, NEW n \in Maybe
  PROVE Cmd(k, n) \in Command
  BY DEF Cmd, Command

\* Each part of the type invariant depends on one group of variables only: a step that
\* leaves the group alone keeps the part.
LEMMA Kept ==
  /\ FlagsOK /\ UNCHANGED flags => FlagsOK'
  /\ QueuesOK /\ UNCHANGED queues => QueuesOK'
  /\ WatchesOK /\ UNCHANGED watches => WatchesOK'
  /\ RequestsOK /\ UNCHANGED requests => RequestsOK'
  /\ LocalsOK /\ UNCHANGED <<pc, locals>> => LocalsOK'
  /\ DiskOK /\ UNCHANGED disk => DiskOK'
  /\ UsbOK /\ UNCHANGED usb => UsbOK'
  BY DEF FlagsOK, QueuesOK, WatchesOK, RequestsOK, LocalsOK, DiskOK, UsbOK, flags,
      queues, watches, requests, locals, disk, usb

\* Dropping a sink (Drop for ParquetSink) closes that sink's file, with or without a
\* footer, and changes nothing else on disk.
LEMMA FinalisedTyped ==
  ASSUME NEW f \in [Calls -> File], NEW s \in Maybe, NEW g \in Finalised(f, s)
  PROVE /\ g \in [Calls -> File]
        /\ \A p \in Calls : /\ g[p].rows = f[p].rows
                            /\ IF s = p THEN g[p].state \in {"readable", "broken"}
                                       ELSE g[p].state = f[p].state
<1>1. CASE s = NoCall
  BY <1>1 DEF Finalised, NoCall, Calls
<1>2. CASE s # NoCall
  <2>1. s \in Calls BY <1>2 DEF Maybe
  <2>2. PICK e \in {"readable", "broken"} : g = [f EXCEPT ![s].state = e]
    BY <1>2 DEF Finalised
  <2> DEFINE h == [f[s] EXCEPT !.state = e]
  <2>3. f[s] \in File BY <2>1
  <2>4. e \in {"absent", "writing", "readable", "broken"}
    OBVIOUS
  <2>5. h \in File /\ h.state = e /\ h.rows = f[s].rows BY <2>3, <2>4, Zenon DEF File
  <2>6. g = [f EXCEPT ![s] = h] BY <2>2, Zenon
  <2> HIDE DEF h
  <2> QED BY <2>1, <2>5, <2>6
<1> QED BY <1>1, <1>2

\* Opening a sink (ParquetSink::open) leaves that file without a footer and changes the
\* state of no other.
LEMMA CreatedTyped ==
  ASSUME NEW f \in [Calls -> File], NEW q \in Calls
  PROVE /\ Created(f, q) \in [Calls -> File]
        /\ \A p \in Calls : Created(f, q)[p].state = IF q = p THEN "writing" ELSE f[p].state
<1>1. [state |-> "writing", rows |-> <<>>] \in File BY DEF File
<1> QED BY <1>1 DEF Created

\* A board that booted is a board.
LEMMA BootedTyped == Booted \in Board
  BY DEF Booted, Board, Maybe

\* quiesce_stale_stream leaves a board.
LEMMA QuiescedTyped == UsbOK => Quiesced \in Board
<1>1. Cmd("q", NoCall) \in Command BY CmdTyped DEF Maybe
<1> QED BY <1>1, ObeyTyped DEF Quiesced, UsbOK

-----------------------------------------------------------------------------
(***************************************************************************)
(* The parts of the inductive invariant.                                   *)
(***************************************************************************)
\* A handler that is not idle runs a request that has handler steps, under its own call
\* number, and only the requests that need verified firmware are at that check.  TypeOK
\* needs it: start enqueues its call number and publishes the path of that number.
Routed ==
  \A c \in Clients :
    /\ at[c] # "idle" => op[c] # "mode" /\ ticket[c] \in Calls
    /\ at[c] = "check_verified" => op[c] \in {"start", "stop", "config"}

\* A sink is open only between the top of the select! loop and the cleanup of the
\* connection, in a dumping mode and for a path.  NoneLeftOpen needs it: a connection
\* opens its first sink without closing an earlier one (src/src/serial.rs:545-549).
SinkScope ==
  sink # NoCall =>
    /\ pc \in {"top", "select", "record_retry", "exchange", "record_info", "close"}
    /\ Dumps(current_mode) /\ current_session_path # NoCall

\* NoneLeftOpen of given files and a given sink; kept folded in the proofs.
Footers(f, s) == \A p \in Calls : f[p].state = "writing" <=> s = p

-----------------------------------------------------------------------------
(***************************************************************************)
(* The sink, the channels and the watch cells.                             *)
(***************************************************************************)
\* sync_parquet_sink, from a sink s over files f: the new sink is open only in a dumping
\* mode, and for a path unless it was open before; footers stay in step with the sink.
LEMMA SyncSinkTyped ==
  ASSUME NEW mode, NEW path \in Maybe, NEW s \in Maybe, NEW f \in [Calls -> File],
         SyncSink(mode, path, s, f)
  PROVE  /\ sink' \in Maybe /\ files' \in [Calls -> File]
         /\ sink' # NoCall => Dumps(mode) /\ (path # NoCall \/ sink' = s)
         /\ Footers(f, s) => Footers(files', sink')
<1> USE DEF Footers
<1>1. CASE Dumps(mode) /\ s = NoCall /\ path # NoCall /\ sink' = path /\ files' = Created(f, path)
  <2>1. path \in Calls BY <1>1 DEF Maybe
  <2>2. \A p \in Calls : Created(f, path)[p].state = IF path = p THEN "writing" ELSE f[p].state
    BY <2>1, CreatedTyped
  <2>3. Created(f, path) \in [Calls -> File]
    BY <2>1, CreatedTyped
  <2> QED BY <1>1, <2>1, <2>2, <2>3 DEF NoCall, Calls
<1>2. CASE Dumps(mode) /\ sink' = s /\ files' = f
  BY <1>2
<1>3. CASE ~Dumps(mode) /\ sink' = NoCall /\ files' \in Finalised(f, s)
  <2>1. PICK g \in Finalised(f, s) : files' = g
    BY <1>3
  <2>2. /\ g \in [Calls -> File]
        /\ \A p \in Calls : IF s = p THEN g[p].state \in {"readable", "broken"}
                                     ELSE g[p].state = f[p].state
    BY FinalisedTyped
  <2> QED BY <1>3, <2>1, <2>2 DEF Maybe, NoCall, Calls
<1> QED BY <1>1, <1>2, <1>3 DEF SyncSink

\* Appending to a sequence and taking its head off keep its type.
LEMMA SeqTyped ==
  ASSUME NEW S, NEW s \in Seq(S)
  PROVE  /\ Len(s) \in Nat
         /\ \A x \in S : Append(s, x) \in Seq(S) /\ Len(Append(s, x)) = Len(s) + 1
         /\ s # <<>> => /\ Head(s) \in S /\ Tail(s) \in Seq(S)
                         /\ Len(Tail(s)) = Len(s) - 1
  OBVIOUS

\* The bounds are numbers.
LEMMA Bounds == CmdCap \in Nat /\ InfoCap \in Nat /\ MaxFrames \in Nat /\ MaxDrops \in Nat
                  /\ MaxCalls \in Nat
  BY HandleAssumption

\* A send into the command channel respects its capacity (mpsc::Sender::send waits).
LEMMA EnqueueTyped ==
  ASSUME QueuesOK, NEW k \in {"set-log-mode", "start", "q", "restart", "config"},
         NEW n \in Maybe, Enqueue(k, n), info_ch' = info_ch
  PROVE  QueuesOK'
<1>1. Cmd(k, n) \in Command
  BY CmdTyped
<1>2. cmd_ch' \in Seq(Command) /\ Len(cmd_ch') <= CmdCap
  BY <1>1, SeqTyped, Bounds DEF QueuesOK, Enqueue
<1> QED BY <1>2 DEF QueuesOK

\* Receiving a command keeps the channels typed and bounded.
LEMMA TakeCommandTyped ==
  ASSUME QueuesOK, cmd_ch # <<>>, cmd_ch' = Tail(cmd_ch), info_ch' = info_ch
  PROVE  QueuesOK'
<1>1. cmd_ch' \in Seq(Command) /\ Len(cmd_ch') <= CmdCap
  BY SeqTyped, Bounds DEF QueuesOK
<1> QED BY <1>1 DEF QueuesOK

\* Receiving an info request keeps the channels typed and bounded.
LEMMA TakeResponderTyped ==
  ASSUME QueuesOK, info_ch # <<>>, info_ch' = Tail(info_ch), cmd_ch' = cmd_ch
  PROVE  QueuesOK'
<1>1. info_ch' \in Seq(Calls) /\ Len(info_ch') <= InfoCap
  BY SeqTyped, Bounds DEF QueuesOK
<1> QED BY <1>1 DEF QueuesOK

\* An info request that finds room keeps the channels typed and bounded.
LEMMA AddResponderTyped ==
  ASSUME QueuesOK, Len(info_ch) < InfoCap, NEW n \in Calls,
         info_ch' = Append(info_ch, n), cmd_ch' = cmd_ch
  PROVE  QueuesOK'
<1>1. info_ch' \in Seq(Calls) /\ Len(info_ch') <= InfoCap
  BY SeqTyped, Bounds DEF QueuesOK
<1> QED BY <1>1 DEF QueuesOK

\* A connection starts without a sink and synchronises it with the watch cells
\* (src/src/serial.rs:542-549).
LEMMA InitOutputSyncs ==
  ASSUME TypeOK, InitOutput
  PROVE  /\ current_session_path' \in Maybe
         /\ SyncSink(current_mode', current_session_path', NoCall, files)
<1>1. session_file.value \in Maybe
  BY DEF TypeOK, WatchesOK, Cell
<1> QED BY <1>1 DEF InitOutput

\* What the top of the select! loop does to mode, path and sink: nothing, or the sink is
\* synchronised, from no sink when the session has just ended (src/src/serial.rs:587-609).
LEMMA LoopTopSyncs ==
  ASSUME TypeOK, LoopTop
  PROVE  /\ current_session_path' \in Maybe
         /\ \/ /\ UNCHANGED <<disk, current_mode, current_session_path>>
            \/ /\ ~SessionEnded
               /\ session_file.unseen => current_session_path' # NoCall
               /\ ~session_file.unseen => current_session_path' = current_session_path
               /\ SyncSink(current_mode', current_session_path', sink, files)
            \/ /\ SessionEnded /\ current_session_path' = NoCall
               /\ \E f \in Finalised(files, sink) :
                     SyncSink(current_mode', current_session_path', NoCall, f)
<1>1. session_file.value \in Maybe /\ current_session_path \in Maybe
  BY DEF TypeOK, WatchesOK, LocalsOK, Cell
<1>2. CASE SessionEnded
  BY <1>1, <1>2 DEF LoopTop, SessionEnded
<1>3. CASE ~SessionEnded
  BY <1>1, <1>3 DEF LoopTop, SessionEnded
<1> QED BY <1>2, <1>3

\* Reading a chunk changes no file's state: a row goes to the open sink's file only.
LEMMA ReadChunkRecords ==
  ASSUME TypeOK, ReadChunk
  PROVE  /\ sink' = sink /\ files' \in [Calls -> File]
         /\ \A p \in Calls : files'[p].state = files[p].state
<1>1. CASE Records(Head(wire))
  <2>1. Head(wire) \in Maybe
    BY SeqTyped DEF ReadChunk, TypeOK, UsbOK
  <2>2. sink \in Calls /\ Head(wire) \in Calls
    BY <1>1, <2>1 DEF Records, TypeOK, DiskOK, Maybe, NoCall, TextLine
  <2> DEFINE n == Head(wire)
             h == [files[sink] EXCEPT !.rows = Append(@, n)]
  <2>3. files' = [files EXCEPT ![sink] = h]
    BY <1>1, Zenon DEF ReadChunk
  <2>4. files \in [Calls -> File] /\ files[sink] \in File
    BY <2>2 DEF TypeOK, DiskOK
  <2>5. Append(files[sink].rows, n) \in Seq(Calls)
    BY <2>2, <2>4 DEF File
  <2>6. h \in File /\ h.state = files[sink].state
    BY <2>4, <2>5, Zenon DEF File
  <2>7. sink' = sink
    BY DEF ReadChunk
  <2> HIDE DEF h
  <2> QED BY <2>2, <2>3, <2>4, <2>6, <2>7
<1>2. CASE ~Records(Head(wire))
  BY <1>2 DEF ReadChunk, TypeOK, DiskOK
<1> QED BY <1>1, <1>2

-----------------------------------------------------------------------------
(***************************************************************************)
(* Types and routing: one step per action.                                 *)
(***************************************************************************)
\* Every step of a handler keeps the types and the routing.
LEMMA HandlerTypes ==
  ASSUME TypeOK, Routed, NEW c \in Clients, HandlerStep(c)
  PROVE  TypeOK' /\ Routed'
<1> USE DEF TypeOK
<1>1. CASE CheckLink(c)
  <2>1. RequestsOK' /\ Routed'
    BY <1>1 DEF RequestsOK, Routed, CheckLink, Goto, HandlerFrame, Steps, AllOps
  <2>2. UNCHANGED <<flags, queues, watches, pc, locals, disk, usb, shutdown>>
    BY <1>1 DEF CheckLink, HandlerFrame
  <2> QED
    BY <2>1, <2>2, Kept
<1>2. CASE CheckVerified(c)
  <2>1. RequestsOK' /\ Routed'
    BY <1>2 DEF RequestsOK, Routed, CheckVerified, Goto, HandlerFrame, Steps
  <2>2. UNCHANGED <<flags, queues, watches, pc, locals, disk, usb, shutdown>>
    BY <1>2 DEF CheckVerified, HandlerFrame
  <2> QED
    BY <2>1, <2>2, Kept
<1>3. CASE CheckRunning(c)
  <2>1. RequestsOK' /\ Routed'
    BY <1>3 DEF RequestsOK, Routed, CheckRunning, Goto, HandlerFrame, Steps
  <2>2. UNCHANGED <<flags, queues, watches, pc, locals, disk, usb, shutdown>>
    BY <1>3 DEF CheckRunning, HandlerFrame
  <2> QED
    BY <2>1, <2>2, Kept
<1>4. CASE CheckIdle(c)
  <2>1. RequestsOK' /\ Routed'
    BY <1>4 DEF RequestsOK, Routed, CheckIdle, Goto, HandlerFrame, Steps
  <2>2. UNCHANGED <<flags, queues, watches, pc, locals, disk, usb, shutdown>>
    BY <1>4 DEF CheckIdle, HandlerFrame
  <2> QED
    BY <2>1, <2>2, Kept
<1>5. CASE Claim(c)
  <2>1. FlagsOK'
    BY <1>5 DEF FlagsOK, Claim
  <2>2. RequestsOK' /\ Routed'
    BY <1>5 DEF RequestsOK, Routed, Claim, Goto, HandlerFrame, Steps
  <2>3. UNCHANGED <<queues, watches, pc, locals, disk, usb, shutdown>>
    BY <1>5 DEF Claim, HandlerFrame
  <2> QED
    BY <2>1, <2>2, <2>3, Kept
<1>6. CASE SendLogMode(c)
  <2>1. QueuesOK'
    BY <1>6, EnqueueTyped DEF QueuesOK, SendLogMode, SendCommand, Maybe, queues
  <2>2. RequestsOK' /\ Routed'
    BY <1>6 DEF RequestsOK, Routed, SendLogMode, SendCommand, Goto, HandlerFrame, Steps
  <2>3. UNCHANGED <<flags, watches, pc, locals, disk, usb, shutdown>>
    BY <1>6 DEF SendLogMode, SendCommand, HandlerFrame
  <2> QED
    BY <2>1, <2>2, <2>3, Kept
<1>7. CASE SendStart(c)
  <2>1. FlagsOK'
    BY <1>7 DEF FlagsOK, SendStart
  <2>2. QueuesOK'
    BY <1>7, EnqueueTyped DEF QueuesOK, SendStart, Maybe, Routed
  <2>3. RequestsOK' /\ Routed'
    BY <1>7 DEF RequestsOK, Routed, SendStart, Goto, Respond, HandlerFrame, Steps
  <2>4. UNCHANGED <<watches, pc, locals, disk, usb, shutdown>>
    BY <1>7 DEF SendStart, HandlerFrame
  <2> QED
    BY <2>1, <2>2, <2>3, <2>4, Kept
<1>8. CASE PublishSession(c)
  <2>1. WatchesOK'
    BY <1>8, HandleAssumption DEF WatchesOK, PublishSession, WatchSend, Cell, Routed, Maybe
  <2>2. RequestsOK' /\ Routed'
    BY <1>8 DEF RequestsOK, Routed, PublishSession, Respond, HandlerFrame, Goto, Steps
  <2>3. UNCHANGED <<flags, queues, pc, locals, disk, usb, shutdown>>
    BY <1>8 DEF PublishSession, HandlerFrame
  <2> QED
    BY <2>1, <2>2, <2>3, Kept
<1>9. CASE SendQuit(c)
  <2>1. QueuesOK'
    BY <1>9, EnqueueTyped DEF SendQuit, SendCommand, Maybe
  <2>2. RequestsOK' /\ Routed'
    BY <1>9 DEF RequestsOK, Routed, SendQuit, SendCommand, Goto, HandlerFrame, Steps
  <2>3. UNCHANGED <<flags, watches, pc, locals, disk, usb, shutdown>>
    BY <1>9 DEF SendQuit, SendCommand, HandlerFrame
  <2> QED
    BY <2>1, <2>2, <2>3, Kept
<1>10. CASE SendConfig(c)
  <2>1. QueuesOK'
    BY <1>10, EnqueueTyped DEF SendConfig, SendCommand, Maybe
  <2>2. RequestsOK' /\ Routed'
    BY <1>10 DEF RequestsOK, Routed, SendConfig, SendCommand, Goto, HandlerFrame, Steps
  <2>3. UNCHANGED <<flags, watches, pc, locals, disk, usb, shutdown>>
    BY <1>10 DEF SendConfig, SendCommand, HandlerFrame
  <2> QED
    BY <2>1, <2>2, <2>3, Kept
<1>11. CASE SendRestart(c)
  <2>1. QueuesOK'
    BY <1>11, EnqueueTyped DEF SendRestart, SendCommand, Maybe
  <2>2. RequestsOK' /\ Routed'
    BY <1>11 DEF RequestsOK, Routed, SendRestart, SendCommand, Goto, HandlerFrame, Steps
  <2>3. UNCHANGED <<flags, watches, pc, locals, disk, usb, shutdown>>
    BY <1>11 DEF SendRestart, SendCommand, HandlerFrame
  <2> QED
    BY <2>1, <2>2, <2>3, Kept
<1>12. CASE SendFails(c)
  <2>1. RequestsOK' /\ Routed'
    BY <1>12 DEF RequestsOK, Routed, SendFails, Respond, HandlerFrame, Goto, Steps
  <2>2. UNCHANGED <<flags, queues, watches, pc, locals, disk, usb, shutdown>>
    BY <1>12 DEF SendFails, HandlerFrame
  <2> QED
    BY <2>1, <2>2, Kept
<1>13. CASE ClearRunning(c)
  <2>1. FlagsOK'
    BY <1>13 DEF FlagsOK, ClearRunning
  <2>2. RequestsOK' /\ Routed'
    BY <1>13 DEF RequestsOK, Routed, ClearRunning, Goto, HandlerFrame, Steps
  <2>3. UNCHANGED <<queues, watches, pc, locals, disk, usb, shutdown>>
    BY <1>13 DEF ClearRunning, HandlerFrame
  <2> QED
    BY <2>1, <2>2, <2>3, Kept
<1>14. CASE EndSession(c)
  <2>1. WatchesOK'
    BY <1>14 DEF WatchesOK, EndSession, WatchSend, Cell, Maybe
  <2>2. RequestsOK' /\ Routed'
    BY <1>14 DEF RequestsOK, Routed, EndSession, Goto, HandlerFrame, Steps
  <2>3. UNCHANGED <<flags, queues, pc, locals, disk, usb, shutdown>>
    BY <1>14 DEF EndSession, HandlerFrame
  <2> QED
    BY <2>1, <2>2, <2>3, Kept
<1>15. CASE Unverify(c)
  <2>1. FlagsOK'
    BY <1>15 DEF FlagsOK, Unverify
  <2>2. RequestsOK' /\ Routed'
    BY <1>15 DEF RequestsOK, Routed, Unverify, Goto, HandlerFrame, Steps
  <2>3. UNCHANGED <<queues, watches, pc, locals, disk, usb, shutdown>>
    BY <1>15 DEF Unverify, HandlerFrame
  <2> QED
    BY <2>1, <2>2, <2>3, Kept
<1>16. CASE ForgetInfo(c)
  <2>1. FlagsOK'
    BY <1>16 DEF FlagsOK, ForgetInfo
  <2>2. RequestsOK' /\ Routed'
    BY <1>16 DEF RequestsOK, Routed, ForgetInfo, Goto, HandlerFrame, Steps
  <2>3. UNCHANGED <<queues, watches, pc, locals, disk, usb, shutdown>>
    BY <1>16 DEF ForgetInfo, HandlerFrame
  <2> QED
    BY <2>1, <2>2, <2>3, Kept
<1>17. CASE PulseReset(c)
  <2>1. RequestsOK' /\ Routed'
    BY <1>17 DEF RequestsOK, Routed, PulseReset, Respond, Goto, HandlerFrame, Steps
  <2>2. UsbOK'
    BY <1>17, BootedTyped DEF UsbOK, PulseReset
  <2>3. UNCHANGED <<flags, queues, watches, pc, locals, disk, shutdown>>
    BY <1>17 DEF PulseReset, HandlerFrame
  <2> QED
    BY <2>1, <2>2, <2>3, Kept
<1>18. CASE SendInfo(c)
  <2>1. QueuesOK'
    BY <1>18, AddResponderTyped DEF QueuesOK, SendInfo, Routed
  <2>2. RequestsOK' /\ Routed'
    BY <1>18 DEF RequestsOK, Routed, SendInfo, Goto, Respond, HandlerFrame, Steps
  <2>3. UNCHANGED <<flags, watches, pc, locals, disk, usb, shutdown>>
    BY <1>18 DEF SendInfo, HandlerFrame
  <2> QED
    BY <2>1, <2>2, <2>3, Kept
<1>19. CASE InfoTimesOut(c)
  <2>1. RequestsOK' /\ Routed'
    BY <1>19 DEF RequestsOK, Routed, InfoTimesOut, Respond, HandlerFrame, Goto, Steps
  <2>2. UNCHANGED <<flags, queues, watches, pc, locals, disk, usb, shutdown>>
    BY <1>19 DEF InfoTimesOut, HandlerFrame
  <2> QED
    BY <2>1, <2>2, Kept
<1> QED BY <1>1, <1>2, <1>3, <1>4, <1>5, <1>6, <1>7, <1>8, <1>9, <1>10, <1>11,
            <1>12, <1>13, <1>14, <1>15, <1>16, <1>17, <1>18, <1>19 DEF HandlerStep

\* Every step of the serial task keeps the types.
LEMMA TaskTypes ==
  ASSUME TypeOK, TaskStep
  PROVE  TypeOK'
<1> USE DEF TypeOK
<1>1. CASE ExitBeforeOpen
  <2>1. LocalsOK'
    BY <1>1 DEF LocalsOK, ExitBeforeOpen, TaskSteps, locals
  <2>2. UNCHANGED <<flags, queues, watches, requests, disk, usb, shutdown>>
    BY <1>1 DEF ExitBeforeOpen, TaskFrame, requests, usb
  <2> QED
    BY <2>1, <2>2, Kept
<1>2. CASE OpenPort
  <2>1. FlagsOK'
    BY <1>2 DEF FlagsOK, OpenPort
  <2>2. LocalsOK'
    BY <1>2 DEF LocalsOK, OpenPort, TaskSteps, locals
  <2>3. UsbOK'
    BY <1>2, BootedTyped DEF UsbOK, OpenPort, TaskFrame
  <2>4. UNCHANGED <<queues, watches, requests, disk, shutdown>>
    BY <1>2 DEF OpenPort, TaskFrame, requests
  <2> QED
    BY <2>1, <2>2, <2>3, <2>4, Kept
<1>3. CASE OpenFails
  <2>1. FlagsOK'
    BY <1>3 DEF FlagsOK, OpenFails
  <2>2. UNCHANGED <<queues, watches, requests, pc, locals, disk, usb, shutdown>>
    BY <1>3 DEF OpenFails, TaskFrame, requests, usb
  <2> QED
    BY <2>1, <2>2, Kept
<1>4. CASE CloseConnection
  <2>1. FlagsOK'
    BY <1>4 DEF FlagsOK, CloseConnection
  <2>2. LocalsOK'
    BY <1>4 DEF LocalsOK, CloseConnection, TaskSteps, Maybe
  <2>3. DiskOK'
    <3>1. PICK g \in Finalised(files, sink) : files' = g
      BY <1>4 DEF CloseConnection
    <3>2. g \in [Calls -> File]
      BY FinalisedTyped DEF DiskOK
    <3> QED BY <1>4, <3>1, <3>2 DEF DiskOK, CloseConnection, Maybe
  <2>4. UsbOK'
    BY <1>4 DEF UsbOK, CloseConnection, TaskFrame
  <2>5. UNCHANGED <<queues, watches, requests, shutdown>>
    BY <1>4 DEF CloseConnection, TaskFrame, requests
  <2> QED
    BY <2>1, <2>2, <2>3, <2>4, <2>5, Kept
<1>5. CASE DropRunning
  <2>1. FlagsOK'
    BY <1>5 DEF FlagsOK, DropRunning
  <2>2. LocalsOK'
    BY <1>5 DEF LocalsOK, DropRunning, TaskSteps, locals
  <2>3. UNCHANGED <<queues, watches, requests, disk, usb, shutdown>>
    BY <1>5 DEF DropRunning, TaskFrame, requests, usb
  <2> QED
    BY <2>1, <2>2, <2>3, Kept
<1>6. CASE DropVerified
  <2>1. FlagsOK'
    BY <1>6 DEF FlagsOK, DropVerified
  <2>2. LocalsOK'
    BY <1>6 DEF LocalsOK, DropVerified, TaskSteps, locals
  <2>3. UNCHANGED <<queues, watches, requests, disk, usb, shutdown>>
    BY <1>6 DEF DropVerified, TaskFrame, requests, usb
  <2> QED
    BY <2>1, <2>2, <2>3, Kept
<1>7. CASE DropInfo
  <2>1. FlagsOK'
    BY <1>7 DEF FlagsOK, DropInfo
  <2>2. LocalsOK'
    BY <1>7 DEF LocalsOK, DropInfo, TaskSteps, locals
  <2>3. UNCHANGED <<queues, watches, requests, disk, usb, shutdown>>
    BY <1>7 DEF DropInfo, TaskFrame, requests, usb
  <2> QED
    BY <2>1, <2>2, <2>3, Kept
<1>8. CASE RecordAuto
  <2>1. FlagsOK'
    BY <1>8 DEF FlagsOK, RecordAuto
  <2>2. LocalsOK'
    BY <1>8 DEF LocalsOK, RecordAuto, TaskSteps, locals
  <2>3. UNCHANGED <<queues, watches, requests, disk, usb, shutdown>>
    BY <1>8 DEF RecordAuto, TaskFrame, requests, usb
  <2> QED
    BY <2>1, <2>2, <2>3, Kept
<1>9. CASE InitOutput
  <2>1. LocalsOK'
    BY <1>9 DEF LocalsOK, InitOutput, TaskSteps, WatchesOK, Cell
  <2>2. DiskOK'
    BY <1>9, InitOutputSyncs, SyncSinkTyped DEF DiskOK, Maybe
  <2>3. UNCHANGED <<flags, queues, watches, requests, usb, shutdown>>
    BY <1>9 DEF InitOutput, TaskFrame, requests, usb
  <2> QED
    BY <2>1, <2>2, <2>3, Kept
<1>10. CASE LoopTop
  <2>1. WatchesOK'
    BY <1>10 DEF WatchesOK, LoopTop, Cell
  <2>2. LocalsOK'
    BY <1>10 DEF LocalsOK, LoopTop, ReverifyGuard, TaskSteps, WatchesOK, Cell
  <2>3. DiskOK'
    <3>1. NoCall \in Maybe /\ current_session_path' \in Maybe
      BY <1>10, LoopTopSyncs DEF Maybe
    <3>2. CASE \E f \in Finalised(files, sink) :
                  SyncSink(current_mode', current_session_path', NoCall, f)
      <4>1. PICK f \in Finalised(files, sink) :
                SyncSink(current_mode', current_session_path', NoCall, f)
        BY <3>2
      <4>2. f \in [Calls -> File]
        BY FinalisedTyped DEF DiskOK
      <4> QED BY <3>1, <4>1, <4>2, SyncSinkTyped DEF DiskOK
    <3> QED BY <1>10, <3>1, <3>2, LoopTopSyncs, SyncSinkTyped DEF DiskOK, disk
  <2>4. UNCHANGED <<flags, queues, requests, usb, shutdown>>
    BY <1>10 DEF LoopTop, TaskFrame, requests, usb
  <2> QED
    BY <2>1, <2>2, <2>3, <2>4, Kept
<1>11. CASE RecordRetry
  <2>1. FlagsOK'
    BY <1>11 DEF FlagsOK, RecordRetry
  <2>2. LocalsOK'
    BY <1>11 DEF LocalsOK, RecordRetry, TaskSteps, locals
  <2>3. UNCHANGED <<queues, watches, requests, disk, usb, shutdown>>
    BY <1>11 DEF RecordRetry, TaskFrame, requests, usb
  <2> QED
    BY <2>1, <2>2, <2>3, Kept
<1>12. CASE RecordInfo
  <2>1. FlagsOK'
    BY <1>12 DEF FlagsOK, RecordInfo
  <2>2. RequestsOK'
    BY <1>12 DEF RequestsOK, RecordInfo, Reply, TaskFrame, Steps
  <2>3. LocalsOK'
    BY <1>12 DEF LocalsOK, RecordInfo, TaskSteps, Maybe
  <2>4. UNCHANGED <<queues, watches, disk, usb, shutdown>>
    BY <1>12 DEF RecordInfo, TaskFrame, usb
  <2> QED
    BY <2>1, <2>2, <2>3, <2>4, Kept
<1>13. CASE MetricsTick
  <2>1. LocalsOK'
    BY <1>13 DEF LocalsOK, MetricsTick, TaskSteps, locals
  <2>2. UNCHANGED <<flags, queues, watches, requests, disk, usb, shutdown>>
    BY <1>13 DEF MetricsTick, TaskFrame, requests, usb
  <2> QED
    BY <2>1, <2>2, Kept
<1>14. CASE SelectShutdown
  <2>1. LocalsOK'
    BY <1>14 DEF LocalsOK, SelectShutdown, TaskSteps
  <2>2. UNCHANGED <<flags, queues, watches, requests, disk, usb, shutdown>>
    BY <1>14 DEF SelectShutdown, TaskFrame, requests, usb
  <2> QED
    BY <2>1, <2>2, Kept
<1>15. CASE ReadChunk
  <2>1. LocalsOK'
    BY <1>15 DEF LocalsOK, ReadChunk, TaskSteps
  <2>2. DiskOK'
    BY <1>15, ReadChunkRecords DEF DiskOK
  <2>3. UsbOK'
    BY <1>15 DEF UsbOK, ReadChunk, TaskFrame
  <2>4. UNCHANGED <<flags, queues, watches, requests, shutdown>>
    BY <1>15 DEF ReadChunk, TaskFrame, requests
  <2> QED
    BY <2>1, <2>2, <2>3, <2>4, Kept
<1>16. CASE ReadFails
  <2>1. LocalsOK'
    BY <1>16 DEF LocalsOK, ReadFails, TaskSteps
  <2>2. UNCHANGED <<flags, queues, watches, requests, disk, usb, shutdown>>
    BY <1>16 DEF ReadFails, TaskFrame, requests, usb
  <2> QED
    BY <2>1, <2>2, Kept
<1>17. CASE WriteCommand
  <2>1. QueuesOK'
    BY <1>17, TakeCommandTyped DEF WriteCommand, CommandReady
  <2>2. LocalsOK'
    BY <1>17 DEF LocalsOK, WriteCommand, TaskSteps
  <2>3. UsbOK'
    <3>1. Head(cmd_ch) \in Command /\ board \in Board
      BY <1>17, SeqTyped DEF WriteCommand, CommandReady, QueuesOK, UsbOK
    <3>2. Obey(board, Head(cmd_ch)) \in Board
      BY <3>1, ObeyTyped
    <3>3. board' \in Board
      BY <1>17, <3>1, <3>2 DEF WriteCommand
    <3>4. (link' = link /\ wire' = wire) \/ (link' = "absent" /\ wire' = <<>>)
      BY <1>17 DEF WriteCommand
    <3>5. UNCHANGED <<frames, drops>>
      BY <1>17 DEF WriteCommand, TaskFrame
    <3>6. link' \in {"absent", "present", "held"}
      BY <3>4 DEF UsbOK
    <3>7. wire' \in Seq(Maybe)
      <4>1. wire \in Seq(Maybe) /\ <<>> \in Seq(Maybe)
        BY DEF UsbOK
      <4> QED BY <3>4, <4>1
    <3> QED BY <3>3, <3>5, <3>6, <3>7 DEF UsbOK
  <2>4. UNCHANGED <<flags, watches, requests, disk, shutdown>>
    BY <1>17 DEF WriteCommand, TaskFrame, requests
  <2> QED
    BY <2>1, <2>2, <2>3, <2>4, Kept
<1>18. CASE TakeInfoRequest
  <2>1. QueuesOK'
    BY <1>18, TakeResponderTyped DEF TakeInfoRequest
  <2>2. RequestsOK'
    BY <1>18 DEF RequestsOK, TakeInfoRequest, Reply, TaskFrame, Steps
  <2>3. LocalsOK'
    BY <1>18, SeqTyped DEF LocalsOK, TakeInfoRequest, Reply, TaskFrame, TaskSteps,
        QueuesOK, Maybe, flags, queues, watches, requests, locals, disk, usb
  <2>4. UNCHANGED <<flags, watches, disk, usb, shutdown>>
    BY <1>18 DEF TakeInfoRequest, TaskFrame, usb
  <2> QED
    BY <2>1, <2>2, <2>3, <2>4, Kept
<1>19. ASSUME NEW r \in Outcomes, AutoVerify(r)
      PROVE  TypeOK'
  <2>1. FlagsOK'
    BY <1>19 DEF FlagsOK, AutoVerify
  <2>2. LocalsOK'
    BY <1>19 DEF LocalsOK, AutoVerify, Exchange, TaskSteps
  <2>3. UsbOK'
    BY <1>19, QuiescedTyped, BootedTyped DEF UsbOK, AutoVerify, Exchange, TaskFrame
  <2>4. UNCHANGED <<queues, watches, requests, disk, shutdown>>
    BY <1>19 DEF AutoVerify, TaskFrame, requests
  <2> QED
    BY <2>1, <2>2, <2>3, <2>4, Kept
<1>20. ASSUME NEW r \in Outcomes, AnswerInfo(r)
      PROVE  TypeOK'
  <2>1. FlagsOK'
    BY <1>20 DEF FlagsOK, AnswerInfo
  <2>2. LocalsOK'
    BY <1>20 DEF LocalsOK, AnswerInfo, Exchange, TaskSteps
  <2>3. UsbOK'
    BY <1>20 DEF UsbOK, AnswerInfo, Exchange, TaskFrame
  <2>4. UNCHANGED <<queues, watches, requests, disk, shutdown>>
    BY <1>20 DEF AnswerInfo, TaskFrame, requests
  <2> QED
    BY <2>1, <2>2, <2>3, <2>4, Kept
<1>21. ASSUME NEW r \in Outcomes, Reverify(r)
      PROVE  TypeOK'
  <2>1. FlagsOK'
    BY <1>21 DEF FlagsOK, Reverify
  <2>2. LocalsOK'
    BY <1>21 DEF LocalsOK, Reverify, Exchange, TaskSteps, Outcomes
  <2>3. UsbOK'
    BY <1>21, QuiescedTyped, BootedTyped DEF UsbOK, Reverify, Exchange, LadderReboot, TaskFrame
  <2>4. UNCHANGED <<queues, watches, requests, disk, shutdown>>
    BY <1>21 DEF Reverify, TaskFrame, requests
  <2> QED
    BY <2>1, <2>2, <2>3, <2>4, Kept
<1> QED BY <1>1, <1>2, <1>3, <1>4, <1>5, <1>6, <1>7, <1>8, <1>9, <1>10, <1>11,
            <1>12, <1>13, <1>14, <1>15, <1>16, <1>17, <1>18, <1>19, <1>20, <1>21 DEF TaskStep,
            StraightLine, SelectArm

\* Every step of the board, the link and the supervisor keeps the types.
LEMMA EnvironmentTypes ==
  ASSUME TypeOK, Environment
  PROVE  TypeOK'
<1> USE DEF TypeOK
<1>1. CASE BoardEmits
  <2>1. UsbOK'
    BY <1>1, SeqTyped, Bounds DEF UsbOK, BoardEmits, TextLine, Maybe, Board, NoCall
  <2>2. UNCHANGED <<flags, queues, watches, requests, pc, locals, disk, shutdown>>
    BY <1>1 DEF BoardEmits
  <2> QED
    BY <2>1, <2>2, Kept
<1>2. CASE RunExpires
  <2>1. UsbOK'
    BY <1>2, ExpiredTyped DEF UsbOK, RunExpires
  <2>2. UNCHANGED <<flags, queues, watches, requests, pc, locals, disk, shutdown>>
    BY <1>2 DEF RunExpires
  <2> QED
    BY <2>1, <2>2, Kept
<1>3. CASE LinkDown
  <2>1. UsbOK'
    BY <1>3, BootedTyped, Bounds DEF UsbOK, LinkDown
  <2>2. UNCHANGED <<flags, queues, watches, requests, pc, locals, disk, shutdown>>
    BY <1>3 DEF LinkDown
  <2> QED
    BY <2>1, <2>2, Kept
<1>4. CASE LinkUp
  <2>1. UsbOK'
    BY <1>4 DEF UsbOK, LinkUp
  <2>2. UNCHANGED <<flags, queues, watches, requests, pc, locals, disk, shutdown>>
    BY <1>4 DEF LinkUp
  <2> QED
    BY <2>1, <2>2, Kept
<1>5. CASE Detach
  BY <1>5, Kept DEF Detach
<1> QED BY <1>1, <1>2, <1>3, <1>4, <1>5 DEF Environment

\* The arrival of a request keeps the types and the routing.
LEMMA ArrivalTypes ==
  ASSUME TypeOK, Routed, NEW c \in Clients, Arrival(c)
  PROVE  TypeOK' /\ Routed'
<1> USE DEF TypeOK
<1>1. ASSUME NEW o \in Ops \ {"mode"}, Request(c, o)
      PROVE  TypeOK' /\ Routed'
  <2>1. o \in AllOps \ {"mode"} /\ FirstStep(o) \in {"clear_running", "check_link"}
    BY HandleAssumption DEF FirstStep
  <2>2. calls + 1 \in Calls
    BY <1>1, Bounds DEF Request, RequestsOK, Calls
  <2>3. RequestsOK' /\ Routed'
    BY <1>1, <2>1, <2>2 DEF RequestsOK, Routed, Request, Goto, Steps, Maybe, Calls
  <2>4. UNCHANGED <<flags, queues, watches, pc, locals, disk, usb, shutdown>>
    BY <1>1 DEF Request
  <2> QED BY <2>3, <2>4, Kept
<1>2. ASSUME NEW m \in Modes, SetOutputMode(c, m)
      PROVE  TypeOK' /\ Routed'
  <2>1. WatchesOK'
    BY <1>2, HandleAssumption
    DEF SetOutputMode, WatchSend, WatchesOK, Cell
  <2>2. RequestsOK' /\ Routed'
    BY <1>2, Bounds DEF SetOutputMode, RequestsOK, Routed
  <2>3. UNCHANGED <<flags, queues, pc, locals, disk, usb, shutdown>>
    BY <1>2 DEF SetOutputMode
  <2> QED BY <2>1, <2>2, <2>3, Kept
<1> QED BY <1>1, <1>2 DEF Arrival

\* The reply to an info request sends its handler to idle and touches no other.
LEMMA ReplyRouted ==
  ASSUME TypeOK, Routed, UNCHANGED <<op, ticket>>, at' = at \/ \E n \in Maybe : Reply(n)
  PROVE  Routed'
<1>1. \A c \in Clients : at'[c] = at[c] \/ at'[c] = "idle"
  BY DEF Reply
<1> QED BY <1>1 DEF Routed

\* The task and the environment keep the routing: all they do to a handler is to answer it.
LEMMA OthersRouted ==
  ASSUME TypeOK, Routed, TaskStep \/ Environment
  PROVE  Routed'
<1>1. CASE ExitBeforeOpen
  BY <1>1 DEF Routed, ExitBeforeOpen, TaskFrame
<1>2. CASE OpenPort
  BY <1>2 DEF Routed, OpenPort, TaskFrame
<1>3. CASE OpenFails
  BY <1>3 DEF Routed, OpenFails, TaskFrame
<1>4. CASE CloseConnection
  BY <1>4 DEF Routed, CloseConnection, TaskFrame
<1>5. CASE DropRunning
  BY <1>5 DEF Routed, DropRunning, TaskFrame
<1>6. CASE DropVerified
  BY <1>6 DEF Routed, DropVerified, TaskFrame
<1>7. CASE DropInfo
  BY <1>7 DEF Routed, DropInfo, TaskFrame
<1>8. CASE RecordAuto
  BY <1>8 DEF Routed, RecordAuto, TaskFrame
<1>9. CASE InitOutput
  BY <1>9 DEF Routed, InitOutput, TaskFrame
<1>10. CASE LoopTop
  BY <1>10 DEF Routed, LoopTop, TaskFrame
<1>11. CASE RecordRetry
  BY <1>11 DEF Routed, RecordRetry, TaskFrame
<1>12. CASE RecordInfo
  BY <1>12, ReplyRouted, SeqTyped DEF RecordInfo, TaskFrame, TypeOK, LocalsOK
<1>13. CASE MetricsTick
  BY <1>13 DEF Routed, MetricsTick, TaskFrame
<1>14. CASE SelectShutdown
  BY <1>14 DEF Routed, SelectShutdown, TaskFrame
<1>15. CASE ReadChunk
  BY <1>15 DEF Routed, ReadChunk, TaskFrame
<1>16. CASE ReadFails
  BY <1>16 DEF Routed, ReadFails, TaskFrame
<1>17. CASE WriteCommand
  BY <1>17 DEF Routed, WriteCommand, TaskFrame
<1>18. CASE TakeInfoRequest
  BY <1>18, ReplyRouted, SeqTyped DEF TakeInfoRequest, TaskFrame, TypeOK, QueuesOK, Maybe
<1>19. CASE BoardEmits
  BY <1>19 DEF Routed, BoardEmits, requests
<1>20. CASE RunExpires
  BY <1>20 DEF Routed, RunExpires, requests
<1>21. CASE LinkDown
  BY <1>21 DEF Routed, LinkDown, requests
<1>22. CASE LinkUp
  BY <1>22 DEF Routed, LinkUp, requests
<1>23. CASE Detach
  BY <1>23 DEF Routed, Detach, requests
<1>24. ASSUME NEW r \in Outcomes, AutoVerify(r)
      PROVE  Routed'
  BY <1>24 DEF Routed, AutoVerify, TaskFrame
<1>25. ASSUME NEW r \in Outcomes, AnswerInfo(r)
      PROVE  Routed'
  BY <1>25 DEF Routed, AnswerInfo, TaskFrame
<1>26. ASSUME NEW r \in Outcomes, Reverify(r)
      PROVE  Routed'
  BY <1>26 DEF Routed, Reverify, TaskFrame
<1> QED BY <1>1, <1>2, <1>3, <1>4, <1>5, <1>6, <1>7, <1>8, <1>9, <1>10, <1>11,
            <1>12, <1>13, <1>14, <1>15, <1>16, <1>17, <1>18, <1>19, <1>20, <1>21, <1>22, <1>23,
            <1>24, <1>25, <1>26 DEF TaskStep, StraightLine, SelectArm, Environment

-----------------------------------------------------------------------------
(***************************************************************************)
(* Footers and sink: one step per action of the serial task.               *)
(***************************************************************************)
\* NoneLeftOpen in terms of Footers, now and after a step.
LEMMA FooterOf ==
  (NoneLeftOpen <=> Footers(files, sink)) /\ (NoneLeftOpen' <=> Footers(files', sink'))
  BY DEF NoneLeftOpen, Footers

\* Every step of the serial task keeps footers and sink in step with each other, and the
\* sink within a connection that asks for it.
LEMMA FilesStep ==
  ASSUME TypeOK, NoneLeftOpen, SinkScope, TaskStep
  PROVE  NoneLeftOpen' /\ SinkScope'
<1> USE DEF TypeOK
<1>1. CASE ExitBeforeOpen
  BY <1>1 DEF ExitBeforeOpen, NoneLeftOpen, SinkScope, disk
<1>2. CASE OpenPort
  BY <1>2 DEF OpenPort, NoneLeftOpen, SinkScope, disk
<1>3. CASE OpenFails
  BY <1>3 DEF OpenFails, NoneLeftOpen, SinkScope, disk
<1>4. CASE CloseConnection
  <2>1. SinkScope' /\ sink' = NoCall /\ files' \in Finalised(files, sink)
    BY <1>4 DEF CloseConnection, SinkScope
  <2>2. \A p \in Calls : files'[p].state # "writing"
    <3>1. PICK g \in Finalised(files, sink) : files' = g
      BY <2>1
    <3> QED BY <3>1, FinalisedTyped DEF NoneLeftOpen, DiskOK
  <2> QED BY <2>1, <2>2 DEF NoneLeftOpen, NoCall, Calls
<1>5. CASE DropRunning
  BY <1>5 DEF DropRunning, NoneLeftOpen, SinkScope, disk
<1>6. CASE DropVerified
  BY <1>6 DEF DropVerified, NoneLeftOpen, SinkScope, disk
<1>7. CASE DropInfo
  BY <1>7 DEF DropInfo, NoneLeftOpen, SinkScope, disk
<1>8. CASE RecordAuto
  BY <1>8 DEF RecordAuto, NoneLeftOpen, SinkScope, disk
<1>9. CASE InitOutput
  <2>1. sink = NoCall
    BY <1>9 DEF InitOutput, SinkScope
  <2>2. NoneLeftOpen'
    <3>1. Footers(files, NoCall)
      BY <2>1 DEF NoneLeftOpen, Footers
    <3>2. files \in [Calls -> File] /\ NoCall \in Maybe
      BY DEF DiskOK, Maybe
    <3> QED BY <1>9, <3>1, <3>2, InitOutputSyncs, SyncSinkTyped, FooterOf
  <2>3. SinkScope'
    BY <1>9, InitOutputSyncs, SyncSinkTyped DEF SinkScope, DiskOK, InitOutput
  <2> QED BY <2>2, <2>3
<1>10. CASE LoopTop
  <2>1. pc = "top" /\ pc' = "select"
    BY <1>10 DEF LoopTop
  <2>2. CASE UNCHANGED <<disk, current_mode, current_session_path>>
    BY <2>1, <2>2 DEF NoneLeftOpen, SinkScope, disk
  <2>3. CASE /\ ~SessionEnded
             /\ session_file.unseen => current_session_path' # NoCall
             /\ ~session_file.unseen => current_session_path' = current_session_path
             /\ SyncSink(current_mode', current_session_path', sink, files)
    <3>1. NoneLeftOpen'
      <4>1. /\ files \in [Calls -> File] /\ sink \in Maybe
            /\ Footers(files, sink)
        BY FooterOf DEF DiskOK
      <4> QED BY <1>10, <2>3, <4>1, LoopTopSyncs, SyncSinkTyped, FooterOf
    <3>2. SinkScope'
      BY <1>10, <2>1, <2>3, LoopTopSyncs, SyncSinkTyped DEF SinkScope, DiskOK
    <3> QED BY <3>1, <3>2
  <2>4. CASE /\ SessionEnded /\ current_session_path' = NoCall
             /\ \E f \in Finalised(files, sink) :
                   SyncSink(current_mode', current_session_path', NoCall, f)
    <3>0. PICK f \in Finalised(files, sink) :
              SyncSink(current_mode', current_session_path', NoCall, f)
      BY <2>4
    <3>1. /\ f \in [Calls -> File]
          /\ \A p \in Calls : f[p].state # "writing"
      BY FinalisedTyped DEF NoneLeftOpen, DiskOK
    <3>2. NoneLeftOpen'
      <4>1. /\ NoCall \in Maybe
            /\ Footers(f, NoCall)
        BY <3>1 DEF Footers, Maybe, NoCall, Calls
      <4> QED BY <1>10, <3>0, <3>1, <4>1, LoopTopSyncs, SyncSinkTyped, FooterOf
    <3>3. SinkScope'
      BY <1>10, <2>1, <2>4, <3>0, <3>1, LoopTopSyncs, SyncSinkTyped DEF SinkScope
    <3> QED BY <3>2, <3>3
  <2> QED BY <1>10, <2>2, <2>3, <2>4, LoopTopSyncs
<1>11. CASE RecordRetry
  BY <1>11 DEF RecordRetry, NoneLeftOpen, SinkScope, locals, disk
<1>12. CASE RecordInfo
  BY <1>12 DEF RecordInfo, NoneLeftOpen, SinkScope, disk
<1>13. CASE MetricsTick
  BY <1>13 DEF MetricsTick, NoneLeftOpen, SinkScope, locals, disk
<1>14. CASE SelectShutdown
  BY <1>14 DEF SelectShutdown, NoneLeftOpen, SinkScope, disk
<1>15. CASE ReadChunk
  <2>1. SinkScope' /\ sink' = sink
    BY <1>15 DEF ReadChunk, SinkScope
  <2>2. \A p \in Calls : files'[p].state = files[p].state
    BY <1>15, ReadChunkRecords
  <2> QED BY <2>1, <2>2 DEF NoneLeftOpen
<1>16. CASE ReadFails
  BY <1>16 DEF ReadFails, NoneLeftOpen, SinkScope, disk
<1>17. CASE WriteCommand
  BY <1>17 DEF WriteCommand, NoneLeftOpen, SinkScope, disk
<1>18. CASE TakeInfoRequest
  BY <1>18 DEF TakeInfoRequest, NoneLeftOpen, SinkScope, disk
<1>19. ASSUME NEW r \in Outcomes, AutoVerify(r)
      PROVE  NoneLeftOpen' /\ SinkScope'
  BY <1>19 DEF AutoVerify, NoneLeftOpen, SinkScope, disk
<1>20. ASSUME NEW r \in Outcomes, AnswerInfo(r)
      PROVE  NoneLeftOpen' /\ SinkScope'
  BY <1>20 DEF AnswerInfo, NoneLeftOpen, SinkScope, disk
<1>21. ASSUME NEW r \in Outcomes, Reverify(r)
      PROVE  NoneLeftOpen' /\ SinkScope'
  BY <1>21 DEF Reverify, NoneLeftOpen, SinkScope, disk, Outcomes
<1> QED BY <1>1, <1>2, <1>3, <1>4, <1>5, <1>6, <1>7, <1>8, <1>9, <1>10, <1>11,
            <1>12, <1>13, <1>14, <1>15, <1>16, <1>17, <1>18, <1>19, <1>20, <1>21 DEF TaskStep,
            StraightLine, SelectArm

\* Steps of the handlers and of the environment touch neither the files nor the task.
LEMMA FilesKept ==
  ASSUME NoneLeftOpen, SinkScope, UNCHANGED <<pc, locals, disk>>
  PROVE  NoneLeftOpen' /\ SinkScope'
BY DEF NoneLeftOpen, SinkScope, locals, disk

-----------------------------------------------------------------------------
(***************************************************************************)
(* The theorems.                                                           *)
(***************************************************************************)
\* The inductive invariant.
IInv == TypeOK /\ Routed /\ NoneLeftOpen /\ SinkScope

\* The inductive invariant holds in every reachable state: of the handlers, of the serial
\* task (run_serial_task, run_serial_connection), and of the board and the link.
THEOREM IInvHolds == Spec => []IInv
<1>1. Init => IInv
  <2> SUFFICES ASSUME Init PROVE IInv
    OBVIOUS
  <2> USE HandleAssumption, BootedTyped DEF Init
  <2>1. FlagsOK /\ QueuesOK
    <3>1. /\ cmd_ch \in Seq(Command) /\ Len(cmd_ch) = 0
          /\ info_ch \in Seq(Calls) /\ Len(info_ch) = 0
      OBVIOUS
    <3>2. FlagsOK
      BY DEF FlagsOK
    <3> QED BY <3>1, <3>2, Bounds DEF QueuesOK
  <2>2. WatchesOK
    BY DEF WatchesOK, Cell, Maybe
  <2>3. RequestsOK /\ Routed
    BY Bounds DEF RequestsOK, Routed, AllOps, Steps, Maybe
  <2>4. LocalsOK
    BY DEF LocalsOK, TaskSteps, Outcomes, Maybe, AllModes
  <2>5. DiskOK /\ NoneLeftOpen /\ SinkScope
    BY DEF DiskOK, NoneLeftOpen, SinkScope, File, Maybe, NoCall
  <2>6. UsbOK
    BY Bounds DEF UsbOK
  <2> QED BY <2>1, <2>2, <2>3, <2>4, <2>5, <2>6 DEF IInv, TypeOK
<1>2. IInv /\ [Next]_vars => IInv'
  <2> SUFFICES ASSUME IInv, [Next]_vars PROVE IInv'
    OBVIOUS
  <2> USE DEF IInv
  <2>1. CASE TaskStep
    BY <2>1, TaskTypes, OthersRouted, FilesStep
  <2>2. CASE Environment
    <3>1. UNCHANGED <<pc, locals, disk>>
      BY <2>2 DEF Environment, BoardEmits, RunExpires, LinkDown, LinkUp, Detach
    <3> QED BY <2>2, <3>1, EnvironmentTypes, OthersRouted, FilesKept
  <2>3. ASSUME NEW c \in Clients, Arrival(c)
        PROVE  IInv'
    <3>1. UNCHANGED <<pc, locals, disk>>
      BY <2>3 DEF Arrival, Request, SetOutputMode
    <3> QED BY <2>3, <3>1, ArrivalTypes, FilesKept
  <2>4. ASSUME NEW c \in Clients, HandlerStep(c)
        PROVE  IInv'
    <3>1. UNCHANGED <<pc, locals, disk>>
      BY <2>4 DEF HandlerStep, HandlerFrame, CheckLink, CheckVerified, CheckRunning,
          CheckIdle, Claim, SendLogMode, SendStart, PublishSession, SendQuit,
          SendConfig, SendRestart, SendCommand, SendFails, ClearRunning, EndSession,
          Unverify, ForgetInfo, PulseReset, SendInfo, InfoTimesOut
    <3> QED BY <2>4, <3>1, HandlerTypes, FilesKept
  <2>5. CASE UNCHANGED vars
    <3>1. UNCHANGED <<flags, queues, watches, requests, pc, locals, disk, usb, shutdown>>
      BY <2>5 DEF vars
    <3>2. Routed'
      BY <3>1 DEF Routed, requests
    <3> QED BY <3>1, <3>2, Kept, FilesKept DEF TypeOK
  <2> QED BY <2>1, <2>2, <2>3, <2>4, <2>5 DEF Next
<1> QED BY <1>1, <1>2, PTL DEF Spec

\* Every variable keeps its type; in particular the command channel and the info channel
\* (src/src/serial.rs:118-122) never hold more than their capacities.
THEOREM TypeCorrect == Spec => []TypeOK
<1>1. IInv => TypeOK
  BY DEF IInv
<1> QED BY <1>1, IInvHolds, PTL

\* A dump file is open on disk exactly while the sink of the serial task is writing it,
\* whatever the clients, the link, the disk and the supervisor do: every way out of a
\* session, a mode or a connection finishes the file (src/src/parquet_sink.rs:60-61).
THEOREM NoneIsLeftOpen == Spec => []NoneLeftOpen
<1>1. IInv => NoneLeftOpen
  BY DEF IInv
<1> QED BY <1>1, IInvHolds, PTL

\* While the serial task waits in select!, an open sink is one that the applied mode and
\* session path ask for (sync_parquet_sink, src/src/serial.rs:1236-1278).
THEOREM SinkIsConfigured == Spec => []SinkAsConfigured
<1>1. IInv => SinkAsConfigured
  BY DEF IInv, SinkScope, SinkAsConfigured
<1> QED BY <1>1, IInvHolds, PTL
=============================================================================
