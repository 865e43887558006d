----------------------- MODULE SerialSessions_proofs -----------------------
(***************************************************************************)
(* Sessions of a device that stays plugged in, for clients that wait until *)
(* it is quiet between two requests, whatever the requests are: the open   *)
(* dump file is the session's, its rows are of the session's run, a board  *)
(* that collects is reported, and no start is swallowed by one.  README.md *)
(* shows how these fail without the two assumptions.                       *)
(***************************************************************************)
EXTENDS SerialRaces_proofs

\* What is assumed of the users and of the cable.
OneByOne == Paced /\ MaxDrops = 0

-----------------------------------------------------------------------------
(***************************************************************************)
(* The parts of the invariant.                                             *)
(***************************************************************************)
\* One request is served at a time.
Lone == \A c, d \in Clients : at[c] # "idle" /\ at[d] # "idle" => c = d

\* Each handler is on the route of its request.
OnRoute ==
  \A c \in Clients :
    /\ at[c] \in {"claim", "send_mode", "send_start", "publish"} => op[c] = "start"
    /\ op[c] = "start" => at[c] \in {"idle", "check_link", "check_verified", "claim",
                                     "send_mode", "send_start", "publish"}
    /\ at[c] \in {"check_running", "send_quit"} => op[c] = "stop"
    /\ at[c] \in {"clear_running", "end_session"} => op[c] \in {"stop", "reset"}
    /\ at[c] \in {"unverify", "forget_info", "send_restart", "pulse"} => op[c] = "reset"

\* Where in a connection the firmware may be verified, and where it may also collect: a
\* verification succeeds on a quiet board only, and the re-verify arm is for a board that
\* is not verified (src/src/serial.rs:635-636).
Connected ==
  /\ pc \in {"open", "verify", "clear_info"} => ~firmware_verified
  /\ pc \in {"record_auto", "record_info"} /\ firmware_verified => result = "ok"
  /\ pc = "select" /\ reverify_on => ~firmware_verified
  /\ firmware_verified /\ board.collecting => link = "held" /\ pc \in {"top", "select", "exchange"}

\* While a session's path is published the task serves the board and nothing is on its way
\* that would disconnect it; the session is claimed until stop or reset ends it.
InSession ==
  session_file.value # NoCall =>
    /\ Serving /\ info_ch = <<>> /\ ~Has(cmd_ch, "restart")
    /\ collection_running \/ \E c \in Clients : at[c] = "end_session"
    /\ \A c \in Clients :
          /\ at[c] \notin {"unverify", "forget_info", "send_restart", "pulse", "send_info"}
          /\ ~(op[c] = "reset" /\ at[c] = "check_link")

\* A start that is being served finds the last session over: its end seen by the task, no
\* command or info request of another request left, and a quiet board to claim.
StartAt(c) ==
  op[c] = "start" /\ at[c] # "idle" =>
    /\ ~session_file.unseen /\ info_ch = <<>> /\ pc \notin {"exchange", "record_info"}
    /\ ~Has(cmd_ch, "restart") /\ ~Has(cmd_ch, "q")
    /\ firmware_verified => Serving
    /\ at[c] \notin {"check_link", "check_verified"} => firmware_verified
    /\ at[c] # "publish" => ~Has(cmd_ch, "start")
    /\ at[c] \in {"send_mode", "send_start", "publish"} => session_file.value = NoCall /\ collection_running
    /\ at[c] \in {"send_mode", "send_start"} => ~board.collecting /\ wire = <<>>
    /\ at[c] \in {"check_link", "check_verified", "claim"} /\ firmware_verified /\ ~collection_running
          => ~board.collecting /\ wire = <<>>

Starts == \A c \in Clients : StartAt(c)

\* An open sink is the session's, or one whose end the task has yet to see; the path the
\* task works with is the published one once it has seen it.
Sinks ==
  /\ sink # NoCall => sink = session_file.value \/ (session_file.unseen /\ session_file.value = NoCall)
  /\ pc \in {"top", "select", "record_retry", "exchange", "record_info"} /\ ~session_file.unseen
        => current_session_path = session_file.value
  /\ session_file.unseen /\ session_file.value = NoCall => ~collection_running
  /\ \A c \in Clients : at[c] = "end_session" => ~collection_running

\* A verified board that collects is claimed, or its q or its reset is on the way.
Reported ==
  /\ firmware_verified /\ board.collecting =>
        \/ collection_running \/ Has(cmd_ch, "q")
        \/ \E c \in Clients : op[c] = "reset" /\ at[c] \in {"end_session", "unverify"}
  /\ \A c \in Clients :
        /\ at[c] = "clear_running" /\ op[c] = "stop" /\ firmware_verified /\ board.collecting
              => Has(cmd_ch, "q")
        /\ at[c] # "idle" /\ op[c] # "start" => ~Has(cmd_ch, "start")
  /\ Has(cmd_ch, "start") => session_file.value # NoCall \/ \E c \in Clients : at[c] = "publish"

\* A start in the channel, and a row on the wire.
Queued(s, n) == \E i \in 1..Len(s) : s[i].kind = "start" /\ s[i].run = n
OnWire(s, n) == \E i \in 1..Len(s) : s[i] = n

\* Run n is about to be made, is made, or its rows are yet to be read.
Alive(n) == OnWire(wire, n) \/ (board.collecting /\ board.run = n) \/ Queued(cmd_ch, n)

\* While the device is claimed the only run alive is that of the session.
OwnRun ==
  collection_running => \A n \in Calls : Alive(n) =>
    \/ session_file.value # NoCall /\ PathOf[n] = session_file.value
    \/ \E c \in Clients : at[c] = "publish" /\ ticket[c] = n

\* One start is in the channel at most, and it will find a board that does not collect.
Lands == OneOf(cmd_ch) /\ (Has(cmd_ch, "start") => ~board.collecting)

Orderly == Connected /\ InSession /\ Starts /\ Sinks /\ Reported /\ OwnRun /\ Lands

\* A task that leaves serves no further session.
Sessions == Lone /\ OnRoute /\ (Leaving \/ Orderly)

-----------------------------------------------------------------------------
(***************************************************************************)
(* Lemmas about the operators.                                             *)
(***************************************************************************)
\* A send and a receive, by run.
LEMMA QueuedRuns ==
  ASSUME NEW s \in Seq(Command), NEW n
  PROVE  /\ \A k, m : Cmd(k, m) \in Command =>
               (Queued(Append(s, Cmd(k, m)), n) <=> Queued(s, n) \/ (k = "start" /\ m = n))
         /\ s # <<>> => /\ Queued(Tail(s), n) => Queued(s, n)
                        /\ Head(s).kind = "start" => Queued(s, Head(s).run)
         /\ Queued(s, n) => Has(s, "start")
<1>1. ASSUME NEW k, NEW m, Cmd(k, m) \in Command
      PROVE  Queued(Append(s, Cmd(k, m)), n) <=> Queued(s, n) \/ (k = "start" /\ m = n)
  <2> DEFINE t == Append(s, Cmd(k, m))
  <2>1. /\ Len(s) \in Nat /\ Len(t) = Len(s) + 1
        /\ \A i \in 1..Len(s) : t[i] = s[i]
        /\ t[Len(s) + 1].kind = k /\ t[Len(s) + 1].run = m
    BY <1>1 DEF Cmd
  <2> HIDE DEF t
  <2>2. 1..Len(t) = 1..Len(s) \cup {Len(s) + 1}
    BY <2>1
  <2>3. Queued(t, n) <=> Queued(s, n) \/ (k = "start" /\ m = n)
    BY <2>1, <2>2 DEF Queued
  <2> QED BY <2>3 DEF t
<1>2. ASSUME s # <<>>
      PROVE  /\ Queued(Tail(s), n) => Queued(s, n)
             /\ Head(s).kind = "start" => Queued(s, Head(s).run)
  <2> DEFINE t == Tail(s)
  <2>1. /\ Len(s) \in Nat \ {0} /\ Len(t) = Len(s) - 1
        /\ \A i \in 1..Len(t) : t[i] = s[i + 1] /\ i + 1 \in 1..Len(s)
        /\ Head(s) = s[1] /\ 1 \in 1..Len(s)
    BY <1>2
  <2> HIDE DEF t
  <2>2. Queued(t, n) => Queued(s, n)
    BY <2>1 DEF Queued
  <2>3. Head(s).kind = "start" => Queued(s, Head(s).run)
    BY <2>1 DEF Queued
  <2> QED BY <2>2, <2>3 DEF t
<1>3. Queued(s, n) => Has(s, "start")
  BY DEF Queued, Has
<1> QED BY <1>1, <1>2, <1>3

\* A chunk that is sent and one that is read.
LEMMA WireRuns ==
  ASSUME NEW s \in Seq(Maybe), NEW n
  PROVE  /\ \A m \in Maybe : OnWire(Append(s, m), n) <=> OnWire(s, n) \/ m = n
         /\ s # <<>> => OnWire(s, Head(s)) /\ (OnWire(Tail(s), n) => OnWire(s, n))
         /\ ~OnWire(<<>>, n)
<1>1. ASSUME NEW m \in Maybe
      PROVE  OnWire(Append(s, m), n) <=> OnWire(s, n) \/ m = n
  <2> DEFINE t == Append(s, m)
  <2>1. /\ Len(s) \in Nat /\ Len(t) = Len(s) + 1
        /\ \A i \in 1..Len(s) : t[i] = s[i]
        /\ t[Len(s) + 1] = m
    OBVIOUS
  <2> HIDE DEF t
  <2>2. 1..Len(t) = 1..Len(s) \cup {Len(s) + 1}
    BY <2>1
  <2>3. OnWire(t, n) <=> OnWire(s, n) \/ m = n
    BY <2>1, <2>2 DEF OnWire
  <2> QED BY <2>3 DEF t
<1>2. ASSUME s # <<>>
      PROVE  OnWire(s, Head(s)) /\ (OnWire(Tail(s), n) => OnWire(s, n))
  <2> DEFINE t == Tail(s)
  <2>1. /\ Len(s) \in Nat \ {0} /\ Len(t) = Len(s) - 1
        /\ \A i \in 1..Len(t) : t[i] = s[i + 1] /\ i + 1 \in 1..Len(s)
        /\ Head(s) = s[1] /\ 1 \in 1..Len(s)
    BY <1>2
  <2> HIDE DEF t
  <2>2. OnWire(s, Head(s)) /\ (OnWire(t, n) => OnWire(s, n))
    BY <2>1 DEF OnWire
  <2> QED BY <2>2 DEF t
<1>3. ~OnWire(<<>>, n)
  BY DEF OnWire
<1> QED BY <1>1, <1>2, <1>3

\* The board's reaction, by run: q ends a run, only start makes one, and one that collects
\* obeys nothing but q.
LEMMA ObeyRuns ==
  ASSUME NEW b \in Board, NEW cmd \in Command
  PROVE  /\ Obey(b, cmd).collecting => \/ b.collecting /\ Obey(b, cmd).run = b.run
                                       \/ cmd.kind = "start" /\ Obey(b, cmd).run = cmd.run
         /\ cmd.kind = "q" => ~Obey(b, cmd).collecting
         /\ Reboots(b, cmd) => cmd.kind = "restart" /\ ~Obey(b, cmd).collecting
<1>1. b.collecting \in BOOLEAN
  BY DEF Board
<1>2. cmd.kind \in {"set-log-mode", "start", "q", "restart", "config"}
  BY DEF Command
<1> QED BY <1>1, <1>2 DEF Obey, Board, Reboots, Booted

\* Quiescing starts no run.
LEMMA QuiescedRuns == UsbOK => (Quiesced.collecting => board.collecting /\ Quiesced.run = board.run)
<1>1. Cmd("q", NoCall) \in Command
  BY CmdTyped DEF Maybe
<1> QED BY <1>1, ObeyRuns DEF Quiesced, UsbOK, Cmd

\* sync_parquet_sink keeps the sink, drops it, or opens the path when there is none.
LEMMA SyncSinkChoice ==
  ASSUME NEW mode, NEW path, NEW s, NEW f, SyncSink(mode, path, s, f)
  PROVE  sink' = s \/ sink' = NoCall \/ (s = NoCall /\ sink' = path)
BY DEF SyncSink
-----------------------------------------------------------------------------
(***************************************************************************)
(* Frames.                                                                 *)
(***************************************************************************)
\* All the task does to a handler is to answer its info request.
LEMMA TaskAnswers ==
  ASSUME TypeOK, TaskStep
  PROVE  /\ UNCHANGED <<op, ticket>>
         /\ \A c \in Clients : at'[c] = at[c] \/ (at[c] = "await_info" /\ at'[c] = "idle")
<1>1. CASE RecordInfo \/ TakeInfoRequest
  BY <1>1 DEF RecordInfo, TakeInfoRequest, TaskFrame, Reply
<1>2. CASE ~RecordInfo /\ ~TakeInfoRequest
  BY <1>2 DEF TaskStep, StraightLine, SelectArm, ExitBeforeOpen, OpenPort, OpenFails, CloseConnection,
      DropRunning, DropVerified, DropInfo, RecordAuto, InitOutput, LoopTop, RecordRetry,
      AutoVerify, AnswerInfo, MetricsTick, SelectShutdown, ReadChunk, ReadFails,
      WriteCommand, Reverify, TaskFrame
<1> QED BY <1>1, <1>2

\* What the board and the cable do to a device that stays plugged in.
LEMMA PluggedIn ==
  ASSUME MaxDrops = 0, TypeOK, Environment
  PROVE  /\ UNCHANGED <<op, ticket, at, pc, exit, result, reverify_on, current_session_path, sink,
                        collection_running, firmware_verified, cmd_ch, info_ch, session_file>>
         /\ link = "held" <=> link' = "held"
         /\ board'.collecting => board.collecting
         /\ board'.run = board.run
         /\ wire' = wire \/ (board.collecting /\ \E m \in {board.run, TextLine} : wire' = Append(wire, m))
<1> USE DEF flags, queues, watches, requests, locals, disk
<1>1. ~LinkDown
  BY DEF LinkDown, TypeOK, UsbOK
<1>2. CASE RunExpires
  BY <1>2 DEF RunExpires, TypeOK, UsbOK, Board
<1>3. CASE BoardEmits
  BY <1>3 DEF BoardEmits
<1>4. CASE LinkUp \/ Detach
  BY <1>4 DEF LinkUp, Detach, usb
<1> QED BY <1>1, <1>2, <1>3, <1>4 DEF Environment

\* A command was sent.
Sent(k, n) ==
  /\ \A kind : Has(cmd_ch', kind) <=> Has(cmd_ch, kind) \/ kind = k
  /\ \A m : Queued(cmd_ch', m) <=> Queued(cmd_ch, m) \/ (k = "start" /\ m = n)
  /\ OneOf(cmd_ch) /\ (k = "start" => ~Has(cmd_ch, "start")) => OneOf(cmd_ch')

LEMMA EnqueueSends ==
  ASSUME TypeOK, NEW k \in {"set-log-mode", "start", "q", "restart", "config"}, NEW n \in Maybe,
         Enqueue(k, n)
  PROVE  Sent(k, n)
<1>1. Cmd(k, n) \in Command /\ cmd_ch' = Append(cmd_ch, Cmd(k, n)) /\ cmd_ch \in Seq(Command)
  BY CmdTyped DEF Enqueue, TypeOK, QueuesOK
<1>2. /\ \A kind : Has(cmd_ch', kind) <=> Has(cmd_ch, kind) \/ kind = k
      /\ OneOf(cmd_ch) /\ (k = "start" => ~Has(cmd_ch, "start")) => OneOf(cmd_ch')
  BY <1>1, SentKinds
<1>3. \A m : Queued(cmd_ch', m) <=> Queued(cmd_ch, m) \/ (k = "start" /\ m = n)
  BY <1>1, QueuedRuns
<1> QED BY <1>2, <1>3 DEF Sent

\* A step of a handler that changes nothing but its place: a check, or the end of a wait.
Checks(c) ==
  /\ UNCHANGED <<collection_running, firmware_verified, cmd_ch, info_ch, session_file, board>>
  /\ at[c] \in {"check_link", "check_verified", "check_running", "check_idle", "claim",
                "forget_info", "pulse", "await_info"}
  /\ at'[c] # "send_mode"
  /\ at'[c] = "send_info" => at[c] = "check_idle" /\ ~collection_running

\* One that sends a command.
Orders(c, here, k, n, next) ==
  /\ at[c] = here /\ at'[c] = next
  /\ UNCHANGED <<collection_running, firmware_verified, info_ch, session_file, board>>
  /\ Sent(k, n)

\* One that stores a flag or publishes, sends a responder, or pulses RTS.
Claims(c) ==
  /\ at[c] = "claim" /\ at'[c] = "send_mode" /\ ~collection_running /\ collection_running'
  /\ UNCHANGED <<firmware_verified, cmd_ch, info_ch, session_file, board>>
Publishes(c) ==
  /\ at[c] = "publish" /\ at'[c] = "idle"
  /\ session_file' = [value |-> PathOf[ticket[c]], unseen |-> TRUE]
  /\ UNCHANGED <<collection_running, firmware_verified, cmd_ch, info_ch, board>>
Unclaims(c) ==
  /\ at[c] = "clear_running" /\ at'[c] = "end_session" /\ ~collection_running'
  /\ UNCHANGED <<firmware_verified, cmd_ch, info_ch, session_file, board>>
Ends(c) ==
  /\ at[c] = "end_session" /\ at'[c] = (IF op[c] = "stop" THEN "idle" ELSE "unverify")
  /\ session_file' = [value |-> NoCall, unseen |-> TRUE]
  /\ UNCHANGED <<collection_running, firmware_verified, cmd_ch, info_ch, board>>
Forgets(c) ==
  /\ at[c] = "unverify" /\ at'[c] = "forget_info" /\ ~firmware_verified'
  /\ UNCHANGED <<collection_running, cmd_ch, info_ch, session_file, board>>
Pulses(c) ==
  /\ at[c] = "pulse" /\ at'[c] = "send_info" /\ board' = Booted
  /\ UNCHANGED <<collection_running, firmware_verified, cmd_ch, info_ch, session_file>>
Asks(c) ==
  /\ at[c] = "send_info" /\ at'[c] = "await_info"
  /\ UNCHANGED <<collection_running, firmware_verified, cmd_ch, session_file, board>>

Effect(c) ==
  \/ Checks(c) \/ Claims(c) \/ Publishes(c) \/ Unclaims(c) \/ Ends(c) \/ Forgets(c)
  \/ Pulses(c) \/ Asks(c)
  \/ Orders(c, "send_mode", "set-log-mode", NoCall, "send_start")
  \/ Orders(c, "send_start", "start", ticket[c], "publish")
  \/ Orders(c, "send_quit", "q", NoCall, "clear_running")
  \/ Orders(c, "send_config", "config", NoCall, "idle")
  \/ Orders(c, "send_restart", "restart", NoCall, "idle")

LEMMA HandlerEffect ==
  ASSUME IInv, pc # "ended", NEW c \in Clients, HandlerStep(c)
  PROVE  at[c] # "idle" /\ Effect(c) /\ UNCHANGED <<link, wire>>
<1> USE DEF IInv, TypeOK, RequestsOK, flags, queues, watches, usb, Goto, Respond, Effect
<1>0. NoCall \in Maybe /\ ticket[c] \in Maybe
  BY DEF Maybe
<1>1. CASE CheckLink(c)
  BY <1>1 DEF CheckLink, Checks
<1>2. CASE CheckVerified(c)
  BY <1>2 DEF CheckVerified, Checks, Routed
<1>3. CASE CheckRunning(c)
  BY <1>3 DEF CheckRunning, Checks
<1>4. CASE CheckIdle(c)
  BY <1>4 DEF CheckIdle, Checks
<1>5. CASE Claim(c)
  BY <1>5 DEF Claim, Claims, Checks, FlagsOK
<1>6. CASE SendLogMode(c)
  BY <1>0, <1>6, EnqueueSends DEF SendLogMode, SendCommand, Orders
<1>7. CASE SendStart(c)
  BY <1>0, <1>7, EnqueueSends DEF SendStart, Orders
<1>8. CASE PublishSession(c)
  BY <1>8 DEF PublishSession, Publishes, WatchSend
<1>9. CASE SendQuit(c)
  BY <1>0, <1>9, EnqueueSends DEF SendQuit, SendCommand, Orders
<1>10. CASE SendConfig(c)
  BY <1>0, <1>10, EnqueueSends DEF SendConfig, SendCommand, Orders
<1>11. CASE SendRestart(c)
  BY <1>0, <1>11, EnqueueSends DEF SendRestart, SendCommand, Orders
<1>12. CASE SendFails(c)
  BY <1>12 DEF SendFails
<1>13. CASE ClearRunning(c)
  BY <1>13 DEF ClearRunning, Unclaims
<1>14. CASE EndSession(c)
  BY <1>14 DEF EndSession, Ends, WatchSend
<1>15. CASE Unverify(c)
  BY <1>15 DEF Unverify, Forgets
<1>16. CASE ForgetInfo(c)
  BY <1>16 DEF ForgetInfo, Checks
<1>17. CASE PulseReset(c)
  BY <1>17 DEF PulseReset, Pulses, Checks
<1>18. CASE SendInfo(c)
  BY <1>18 DEF SendInfo, Asks
<1>19. CASE InfoTimesOut(c)
  BY <1>19 DEF InfoTimesOut, Checks
<1> QED BY <1>1, <1>2, <1>3, <1>4, <1>5, <1>6, <1>7, <1>8, <1>9, <1>10, <1>11,
            <1>12, <1>13, <1>14, <1>15, <1>16, <1>17, <1>18, <1>19 DEF HandlerStep
-----------------------------------------------------------------------------
(***************************************************************************)
(* Requests come one at a time, and stay on their routes.                  *)
(***************************************************************************)
\* A request that arrives does so on a device that is quiet.
LEMMA QuietArrival ==
  ASSUME OneByOne, NEW c \in Clients, (Paced => Quiet) /\ Arrival(c), TypeOK
  PROVE  /\ Quiet
         /\ UNCHANGED <<pc, exit, result, reverify_on, current_session_path, sink, link, board, wire,
                        collection_running, firmware_verified, cmd_ch, info_ch, session_file>>
         /\ \A d \in Clients : d # c => at'[d] = "idle" /\ op'[d] = op[d]
         /\ \/ at'[c] = "idle"
            \/ op'[c] = "reset" /\ at'[c] = "clear_running"
            \/ op'[c] # "reset" /\ at'[c] = "check_link"
<1> USE DEF flags, queues, watches, locals, disk, usb, TypeOK, RequestsOK
<1>1. Quiet
  BY DEF OneByOne
<1>2. \A d \in Clients : at[d] = "idle"
  BY <1>1 DEF Quiet
<1>3. CASE \E o \in Ops \ {"mode"} : Request(c, o)
  <2>1. PICK o \in Ops \ {"mode"} : Request(c, o)
    BY <1>3
  <2> QED BY <1>1, <1>2, <2>1 DEF Request, Goto, FirstStep
<1>4. CASE \E m \in Modes : SetOutputMode(c, m)
  BY <1>1, <1>2, <1>4 DEF SetOutputMode
<1> QED BY <1>3, <1>4 DEF Arrival

LEMMA LoneKept ==
  ASSUME OneByOne, IInv, Lone, OnRoute, [Next]_vars
  PROVE  Lone' /\ OnRoute'
<1>1. CASE TaskStep
  BY <1>1, TaskAnswers DEF IInv, Lone, OnRoute
<1>2. CASE Environment
  BY <1>2, PluggedIn DEF OneByOne, IInv, Lone, OnRoute
<1>3. ASSUME NEW c \in Clients, (Paced => Quiet) /\ Arrival(c)
      PROVE  Lone' /\ OnRoute'
  <2>1. /\ \A d \in Clients : d # c => at'[d] = "idle"
        /\ \/ at'[c] = "idle"
           \/ op'[c] = "reset" /\ at'[c] = "clear_running"
           \/ op'[c] # "reset" /\ at'[c] = "check_link"
    BY <1>3, QuietArrival DEF IInv
  <2> QED BY <2>1 DEF Lone, OnRoute
<1>4. ASSUME NEW c \in Clients, HandlerStep(c)
      PROVE  Lone' /\ OnRoute'
  <2>1. Follows(c) /\ op' = op /\ \A d \in Clients : d # c => at'[d] = at[d]
    BY <1>4, HandlerFollows DEF IInv
  <2>2. at[c] # "idle"
    BY <1>4 DEF HandlerStep, CheckLink, CheckVerified, CheckRunning, CheckIdle, Claim,
        SendLogMode, SendStart, PublishSession, SendQuit, SendConfig, SendRestart,
        SendCommand, SendFails, ClearRunning, EndSession, Unverify, ForgetInfo,
        PulseReset, SendInfo, InfoTimesOut
  <2>3. \A d \in Clients : d # c => at[d] = "idle"
    BY <2>2 DEF Lone
  <2> QED BY <2>1, <2>3 DEF Lone, OnRoute, Follows
<1>5. CASE UNCHANGED vars
  BY <1>5 DEF vars, requests, Lone, OnRoute
<1> QED BY <1>1, <1>2, <1>3, <1>4, <1>5 DEF Next

-----------------------------------------------------------------------------
(***************************************************************************)
(* The task.                                                               *)
(***************************************************************************)
\* A task that leaves goes on leaving.
LEMMA LeavingStays ==
  ASSUME OneByOne, IInv, Leaving, [Next]_vars
  PROVE  Leaving'
<1>1. CASE TaskStep
  BY <1>1 DEF Leaving, TaskStep, StraightLine, SelectArm, ExitBeforeOpen, OpenPort, OpenFails,
      CloseConnection, DropRunning, DropVerified, DropInfo, RecordAuto, InitOutput, LoopTop,
      RecordRetry, RecordInfo, AutoVerify, AnswerInfo, MetricsTick, SelectShutdown, ReadChunk,
      ReadFails, WriteCommand, TakeInfoRequest, Reverify, locals
<1>2. CASE Environment
  BY <1>2, PluggedIn DEF OneByOne, IInv, Leaving
<1>3. ASSUME NEW c \in Clients, HandlerStep(c)
      PROVE  Leaving'
  BY <1>3, HandlerFollows DEF IInv, locals, Leaving
<1>4. ASSUME NEW c \in Clients, (Paced => Quiet) /\ Arrival(c)
      PROVE  Leaving'
  BY <1>4, QuietArrival DEF IInv, Leaving
<1>5. CASE UNCHANGED vars
  BY <1>5 DEF vars, locals, Leaving
<1> QED BY <1>1, <1>2, <1>3, <1>4, <1>5 DEF Next

\* What a step of the task does to the device, by what it does to the firmware's flag, the
\* claim and the channels.
LEMMA TaskOnHandle ==
  ASSUME TypeOK, TaskStep
  PROVE  /\ collection_running' => collection_running
         /\ collection_running' # collection_running => pc \in {"open", "clear_running"}
         /\ cmd_ch' = cmd_ch \/ WriteCommand
         /\ info_ch = <<>> => info_ch' = <<>>
         /\ session_file'.value = session_file.value
         /\ session_file'.unseen => session_file.unseen
         /\ session_file'.unseen # session_file.unseen => pc = "top"
<1> USE DEF flags, queues, watches
<1>0. collection_running \in BOOLEAN /\ session_file \in Cell(Maybe)
  BY DEF TypeOK, FlagsOK, WatchesOK
<1>1. CASE LoopTop
  BY <1>0, <1>1 DEF LoopTop, Cell
<1>2. CASE OpenFails \/ DropRunning
  BY <1>0, <1>2 DEF OpenFails, DropRunning
<1>3. CASE WriteCommand
  BY <1>3 DEF WriteCommand
<1>4. CASE TakeInfoRequest
  BY <1>4 DEF TakeInfoRequest
<1>5. CASE ~LoopTop /\ ~OpenFails /\ ~DropRunning /\ ~WriteCommand /\ ~TakeInfoRequest
  <2>1. UNCHANGED <<collection_running, cmd_ch, info_ch, session_file>>
    BY <1>5 DEF TaskStep, StraightLine, SelectArm, ExitBeforeOpen, OpenPort, CloseConnection,
        DropVerified, DropInfo, RecordAuto, InitOutput, RecordRetry, RecordInfo,
        AutoVerify, AnswerInfo, MetricsTick, SelectShutdown, ReadChunk, ReadFails, Reverify
  <2> QED BY <2>1
<1> QED BY <1>1, <1>2, <1>3, <1>4, <1>5

\* The firmware is verified by an exchange that succeeds, and by nothing else: the board
\* is quiet then, the link is up and nothing is on the wire.
Verifies == \/ AutoVerify("ok") \/ Reverify("ok") \/ AnswerInfo("ok")

LEMMA VerifiedByExchange ==
  ASSUME TypeOK, TaskStep
  PROVE  /\ Verifies => /\ firmware_verified' /\ link = "held" /\ link' = "held" /\ ~board'.collecting
                        /\ wire' = <<>> /\ result' = "ok"
         /\ ~Verifies /\ firmware_verified' => firmware_verified
<1> USE DEF flags
<1>0. firmware_verified \in BOOLEAN
  BY DEF TypeOK, FlagsOK
<1>1. ASSUME NEW r \in Outcomes, AutoVerify(r) \/ Reverify(r) \/ AnswerInfo(r), ~Verifies
      PROVE  firmware_verified' => firmware_verified
  BY <1>0, <1>1 DEF AutoVerify, Reverify, AnswerInfo, Verifies, Outcomes
<1>2. Verifies => /\ firmware_verified' /\ link = "held" /\ link' = "held" /\ ~board'.collecting
                  /\ wire' = <<>> /\ result' = "ok"
  BY DEF Verifies, AutoVerify, Reverify, AnswerInfo, Exchange
<1>3. CASE ~\E r \in Outcomes : AutoVerify(r) \/ Reverify(r) \/ AnswerInfo(r)
  <2>1. firmware_verified' => firmware_verified
    BY <1>3 DEF TaskStep, StraightLine, SelectArm, ExitBeforeOpen, OpenPort, OpenFails, CloseConnection,
      DropRunning, DropVerified, DropInfo, RecordAuto, InitOutput, LoopTop, RecordRetry, RecordInfo,
      MetricsTick, SelectShutdown, ReadChunk, ReadFails, WriteCommand, TakeInfoRequest
  <2> QED BY <1>2, <2>1
<1> QED BY <1>1, <1>2, <1>3

\* Other steps of the task than a write start no run and put nothing on the wire.
LEMMA BoardUnderTask ==
  ASSUME TypeOK, TaskStep, ~WriteCommand
  PROVE  /\ board'.collecting => board.collecting /\ board'.run = board.run
         /\ wire' \in {wire, <<>>} \/ (wire # <<>> /\ wire' = Tail(wire))
<1>1. Quiesced.collecting => board.collecting /\ Quiesced.run = board.run
  BY QuiescedRuns DEF TypeOK
<1>2. ASSUME NEW r \in Outcomes, AutoVerify(r) \/ Reverify(r) \/ AnswerInfo(r)
      PROVE  /\ board'.collecting => board.collecting /\ board'.run = board.run
             /\ wire' = <<>>
  <2>1. wire' = <<>> /\ board' \in {Quiesced, Booted, board}
    BY <1>2 DEF AutoVerify, Reverify, AnswerInfo, Exchange, LadderReboot
  <2> QED BY <1>1, <2>1 DEF Booted
<1>3. CASE OpenPort
  BY <1>3 DEF OpenPort, Booted
<1>4. CASE ~OpenPort /\ ~\E r \in Outcomes : AutoVerify(r) \/ Reverify(r) \/ AnswerInfo(r)
  BY <1>4 DEF TaskStep, StraightLine, SelectArm, ExitBeforeOpen, OpenFails, CloseConnection,
      DropRunning, DropVerified, DropInfo, RecordAuto, InitOutput, LoopTop, RecordRetry, RecordInfo,
      MetricsTick, SelectShutdown, ReadChunk, ReadFails, TakeInfoRequest
<1> QED BY <1>2, <1>3, <1>4
\* A write hands the oldest command to the board, if the link is up.
LEMMA TaskWrites ==
  ASSUME TypeOK, WriteCommand
  PROVE  /\ Has(cmd_ch, Head(cmd_ch).kind)
         /\ Head(cmd_ch).kind = "start" => Queued(cmd_ch, Head(cmd_ch).run)
         /\ \A k : Has(cmd_ch', k) => Has(cmd_ch, k)
         /\ \A k : Has(cmd_ch, k) => Has(cmd_ch', k) \/ Head(cmd_ch).kind = k
         /\ \A n : Queued(cmd_ch', n) => Queued(cmd_ch, n)
         /\ OneOf(cmd_ch) =>
               OneOf(cmd_ch') /\ (Head(cmd_ch).kind = "start" => ~Has(cmd_ch', "start"))
         /\ board'.collecting => \/ board.collecting /\ board'.run = board.run
                                 \/ Head(cmd_ch).kind = "start" /\ board'.run = Head(cmd_ch).run
         /\ link = "held" /\ Head(cmd_ch).kind = "q" => ~board'.collecting
         /\ link # "held" => pc' = "close" /\ UNCHANGED <<board, link>>
         /\ link = "held" => /\ pc' = "top"
                             /\ link' = "held" \/ (Head(cmd_ch).kind = "restart" /\ ~board'.collecting)
         /\ wire' \in {wire, <<>>}
         /\ pc = "select"
<1> DEFINE h == Head(cmd_ch)
<1>1. /\ cmd_ch \in Seq(Command) /\ cmd_ch # <<>> /\ cmd_ch' = Tail(cmd_ch)
      /\ board \in Board /\ h \in Command /\ board.serialized \in BOOLEAN
  BY SeqTyped DEF TypeOK, QueuesOK, UsbOK, WriteCommand, CommandReady, Board
<1>2. /\ Has(cmd_ch, h.kind)
      /\ \A k : Has(cmd_ch', k) => Has(cmd_ch, k)
      /\ \A k : Has(cmd_ch, k) => Has(cmd_ch', k) \/ h.kind = k
      /\ OneOf(cmd_ch) => OneOf(cmd_ch') /\ (h.kind = "start" => ~Has(cmd_ch', "start"))
  BY <1>1, ReceivedKinds
<1>3. /\ h.kind = "start" => Queued(cmd_ch, h.run)
      /\ \A n : Queued(cmd_ch', n) => Queued(cmd_ch, n)
  BY <1>1, QueuedRuns
<1>4. /\ pc = "select" /\ wire' \in {wire, <<>>}
      /\ link # "held" => pc' = "close" /\ UNCHANGED <<board, link>>
      /\ link = "held" => /\ pc' = "top" /\ board' = Obey(board, h)
                          /\ link' = "held" \/ Reboots(board, h)
  BY DEF WriteCommand
<1>5. /\ Obey(board, h).collecting => \/ board.collecting /\ Obey(board, h).run = board.run
                                      \/ h.kind = "start" /\ Obey(board, h).run = h.run
      /\ h.kind = "q" => ~Obey(board, h).collecting
      /\ Reboots(board, h) => h.kind = "restart" /\ ~Obey(board, h).collecting
  BY <1>1, ObeyRuns
<1> HIDE DEF h
<1>6. /\ board'.collecting => \/ board.collecting /\ board'.run = board.run
                              \/ h.kind = "start" /\ board'.run = h.run
      /\ link = "held" /\ h.kind = "q" => ~board'.collecting
      /\ link = "held" => link' = "held" \/ (h.kind = "restart" /\ ~board'.collecting)
  BY <1>4, <1>5
<1> QED BY <1>2, <1>3, <1>4, <1>6 DEF h

\* A task that serves goes on serving while nothing that would disconnect it is pending.
LEMMA ServingGoesOn ==
  ASSUME IInv, Serving, info_ch = <<>>, ~Has(cmd_ch, "restart"), TaskStep
  PROVE  Serving' \/ Leaving'
<1>1. CASE WriteCommand
  <2>1. link' = "held" /\ pc' = "top"
    BY <1>1, TaskWrites DEF IInv, Serving
  <2> QED BY <1>1, <2>1 DEF WriteCommand, flags, Serving
<1>2. CASE RecordAuto \/ InitOutput \/ LoopTop \/ RecordRetry \/ MetricsTick \/ ReadChunk
  <2>1. UNCHANGED <<link, firmware_verified>>
    BY <1>2 DEF RecordAuto, InitOutput, LoopTop, RecordRetry, MetricsTick, ReadChunk, flags
  <2>2. pc' \in {"init", "top", "select"} /\ (pc' = "select" => ~reverify_on')
    BY <1>2 DEF Serving, RecordAuto, InitOutput, LoopTop, ReverifyGuard, RecordRetry, MetricsTick,
        ReadChunk
  <2> QED BY <2>1, <2>2 DEF Serving
<1>3. CASE SelectShutdown
  BY <1>3 DEF SelectShutdown, Leaving
<1> QED BY <1>1, <1>2, <1>3 DEF Serving, TaskStep, StraightLine, SelectArm, ExitBeforeOpen, OpenPort,
      OpenFails, CloseConnection, DropRunning, DropVerified, DropInfo, RecordInfo, AutoVerify,
      AnswerInfo, ReadFails, TakeInfoRequest, Reverify

\* What every step of the task relies on.
LEMMA TaskKeepsConnected ==
  ASSUME IInv, Connected, TaskStep, ~Leaving'
  PROVE  Connected'
<1> USE DEF flags, Connected
<1>0. firmware_verified \in BOOLEAN /\ result \in Outcomes
  BY DEF IInv, TypeOK, FlagsOK, LocalsOK
<1>1. CASE WriteCommand
  <2>1. UNCHANGED firmware_verified /\ pc' \in {"top", "close"}
        /\ (link # "held" => UNCHANGED <<board, link>>)
        /\ (link = "held" => pc' = "top" /\ (link' = "held" \/ ~board'.collecting))
    BY <1>1, TaskWrites DEF IInv, WriteCommand
  <2> QED BY <2>1
<1>2. CASE Verifies
  <2>1. firmware_verified' /\ ~board'.collecting /\ result' = "ok"
    BY <1>2, VerifiedByExchange DEF IInv
  <2>2. pc' \in {"record_auto", "record_retry", "record_info"}
    BY <1>2 DEF Verifies, AutoVerify, Reverify, AnswerInfo
  <2> QED BY <2>1, <2>2
<1>3. CASE (\E r \in Outcomes : AutoVerify(r) \/ Reverify(r) \/ AnswerInfo(r)) /\ ~Verifies
  <2>1. ~firmware_verified'
    BY <1>0, <1>3 DEF Verifies, AutoVerify, Reverify, AnswerInfo, Outcomes
  <2> QED BY <2>1
<1>4. CASE \/ OpenPort \/ OpenFails \/ CloseConnection \/ DropRunning \/ DropVerified \/ DropInfo
           \/ RecordAuto \/ InitOutput \/ RecordInfo \/ RecordRetry \/ ReadFails
  BY <1>0, <1>4 DEF OpenPort, OpenFails, CloseConnection, DropRunning, DropVerified, DropInfo, RecordAuto,
      InitOutput, RecordInfo, RecordRetry, ReadFails
<1>5. CASE LoopTop \/ MetricsTick \/ ReadChunk \/ TakeInfoRequest
  <2>1. UNCHANGED <<firmware_verified, board, link>> /\ pc \in {"top", "select"}
    BY <1>5 DEF LoopTop, MetricsTick, ReadChunk, TakeInfoRequest
  <2>2. pc' \in {"top", "exchange"} \/ (pc' = "select" /\ (reverify_on' => ~firmware_verified))
    BY <1>5 DEF LoopTop, ReverifyGuard, MetricsTick, ReadChunk, TakeInfoRequest
  <2> QED BY <2>1, <2>2
<1>6. ~ExitBeforeOpen /\ ~SelectShutdown
  BY DEF ExitBeforeOpen, SelectShutdown, Leaving
<1> QED BY <1>1, <1>2, <1>3, <1>4, <1>5, <1>6 DEF TaskStep, StraightLine, SelectArm

LEMMA TaskKeepsInSession ==
  ASSUME IInv, InSession, TaskStep, ~Leaving'
  PROVE  InSession'
<1>1. SUFFICES ASSUME session_file.value # NoCall PROVE InSession'
  BY TaskOnHandle DEF IInv, InSession
<1>2. Serving /\ info_ch = <<>> /\ ~Has(cmd_ch, "restart")
  BY <1>1 DEF InSession
<1>3. Serving'
  BY <1>2, ServingGoesOn
<1>4. info_ch' = <<>> /\ collection_running' = collection_running
  BY <1>2, TaskOnHandle DEF IInv, Serving
<1>5. ~Has(cmd_ch', "restart")
  BY <1>2, TaskOnHandle, TaskWrites DEF IInv
<1>6. UNCHANGED op /\ \A c \in Clients : at'[c] = at[c] \/ (at[c] = "await_info" /\ at'[c] = "idle")
  BY TaskAnswers DEF IInv
<1>7. collection_running' \/ \E c \in Clients : at'[c] = "end_session"
  BY <1>1, <1>4, <1>6 DEF InSession
<1> QED BY <1>1, <1>3, <1>4, <1>5, <1>6, <1>7 DEF InSession

LEMMA TaskKeepsSinks ==
  ASSUME IInv, Sinks, TaskStep
  PROVE  Sinks'
<1> USE DEF Sinks
<1>0. /\ session_file \in Cell(Maybe) /\ collection_running \in BOOLEAN
      /\ UNCHANGED op /\ \A c \in Clients : at'[c] = at[c] \/ at'[c] = "idle"
      /\ collection_running' => collection_running
      /\ session_file'.value = session_file.value
      /\ session_file'.unseen => session_file.unseen
  BY TaskAnswers, TaskOnHandle DEF IInv, TypeOK, FlagsOK, WatchesOK
<1>1. /\ session_file'.unseen /\ session_file'.value = NoCall => ~collection_running'
      /\ \A c \in Clients : at'[c] = "end_session" => ~collection_running'
  BY <1>0
<1>2. CASE InitOutput
  <2>1. /\ current_session_path' = session_file.value /\ session_file' = session_file
        /\ sink' = NoCall \/ sink' = session_file.value
    BY <1>2, SyncSinkChoice DEF InitOutput, watches
  <2> QED BY <1>1, <2>1
<1>3. CASE LoopTop
  <2>1. ~session_file'.unseen /\ pc = "top"
    BY <1>0, <1>3 DEF LoopTop, Cell
  <2>2. current_session_path' = session_file.value
    BY <1>3, <2>1 DEF LoopTop
  <2>3. sink' \in {sink, NoCall, session_file.value} /\ (SessionEnded => sink' = NoCall)
    <3>1. CASE session_file.unseen \/ output_mode.unseen
      BY <1>3, <2>2, <3>1, SyncSinkChoice DEF LoopTop, SessionEnded
    <3>2. CASE ~session_file.unseen /\ ~output_mode.unseen
      BY <1>3, <3>2 DEF LoopTop, SessionEnded, disk
    <3> QED BY <3>1, <3>2
  <2> QED BY <1>0, <1>1, <2>1, <2>2, <2>3 DEF SessionEnded
<1>4. CASE CloseConnection
  BY <1>0, <1>1, <1>4 DEF CloseConnection
<1>5. CASE ~InitOutput /\ ~LoopTop /\ ~CloseConnection
  <2>1. UNCHANGED <<sink, current_session_path, session_file>>
    BY <1>5 DEF TaskStep, StraightLine, SelectArm, ExitBeforeOpen, OpenPort, OpenFails, DropRunning,
        DropVerified, DropInfo, RecordAuto, RecordRetry, RecordInfo, AutoVerify, AnswerInfo,
        MetricsTick, SelectShutdown, ReadChunk, ReadFails, WriteCommand, TakeInfoRequest, Reverify,
        watches, disk, locals
  <2>2. pc' \in {"top", "select", "record_retry", "exchange", "record_info"}
          => pc \in {"top", "select", "record_retry", "exchange", "record_info"}
    BY <1>5 DEF TaskStep, StraightLine, SelectArm, ExitBeforeOpen, OpenPort, OpenFails, DropRunning,
        DropVerified, DropInfo, RecordAuto, RecordRetry, RecordInfo, AutoVerify, AnswerInfo,
        MetricsTick, SelectShutdown, ReadChunk, ReadFails, WriteCommand, TakeInfoRequest, Reverify
  <2> QED BY <1>1, <2>1, <2>2
<1> QED BY <1>2, <1>3, <1>4, <1>5
\* A start in the channel is one of a claimed device.
LEMMA StartIsClaimed ==
  ASSUME OnRoute, InSession, Starts, Reported, Has(cmd_ch, "start")
  PROVE  collection_running
<1>1. CASE session_file.value # NoCall
  <2>1. \A c \in Clients : at[c] # "end_session"
    BY DEF OnRoute, Reported
  <2> QED BY <1>1, <2>1 DEF InSession
<1>2. CASE \E c \in Clients : at[c] = "publish"
  BY <1>2 DEF OnRoute, Starts, StartAt
<1> QED BY <1>1, <1>2 DEF Reported

LEMMA TaskKeepsReported ==
  ASSUME IInv, OnRoute, Connected, InSession, Starts, Reported, TaskStep
  PROVE  Reported'
<1>0. /\ UNCHANGED op /\ \A c \in Clients : at'[c] = at[c] \/ (at[c] = "await_info" /\ at'[c] = "idle")
      /\ session_file'.value = session_file.value
  BY TaskAnswers, TaskOnHandle DEF IInv
<1>1. ASSUME Has(cmd_ch', "start") => Has(cmd_ch, "start"),
             firmware_verified' /\ board'.collecting =>
                /\ firmware_verified /\ board.collecting
                /\ Has(cmd_ch, "q") => Has(cmd_ch', "q")
                /\ collection_running' = collection_running
      PROVE  Reported'
  <2>1. firmware_verified' /\ board'.collecting =>
            \/ collection_running' \/ Has(cmd_ch', "q")
            \/ \E c \in Clients : op'[c] = "reset" /\ at'[c] \in {"end_session", "unverify"}
    BY <1>0, <1>1 DEF Reported
  <2>2. \A c \in Clients :
          /\ at'[c] = "clear_running" /\ op'[c] = "stop" /\ firmware_verified' /\ board'.collecting
                => Has(cmd_ch', "q")
          /\ at'[c] # "idle" /\ op'[c] # "start" => ~Has(cmd_ch', "start")
    BY <1>0, <1>1 DEF Reported
  <2>3. Has(cmd_ch', "start") => session_file'.value # NoCall \/ \E c \in Clients : at'[c] = "publish"
    BY <1>0, <1>1 DEF Reported
  <2> QED BY <2>1, <2>2, <2>3 DEF Reported
<1>2. CASE WriteCommand
  <2>1. UNCHANGED <<firmware_verified, collection_running>>
    BY <1>2 DEF WriteCommand, flags
  <2>2. Has(cmd_ch', "start") => Has(cmd_ch, "start")
    BY <1>2, TaskWrites DEF IInv
  <2>3. CASE firmware_verified /\ board.collecting /\ board'.collecting
    <3>1. link = "held"
      BY <2>3 DEF Connected
    <3>2. Has(cmd_ch, "q") => Has(cmd_ch', "q")
      BY <1>2, <2>3, <3>1, TaskWrites DEF IInv
    <3> QED BY <1>1, <2>1, <2>2, <2>3, <3>2
  <2>4. CASE board'.collecting /\ ~board.collecting
    <3>1. Has(cmd_ch, "start")
      BY <1>2, <2>4, TaskWrites DEF IInv
    <3>2. collection_running'
      BY <2>1, <3>1, StartIsClaimed
    <3>3. \A c \in Clients : at[c] # "idle" => op[c] = "start"
      BY <3>1 DEF Reported
    <3> QED BY <1>0, <2>2, <3>2, <3>3 DEF Reported
  <2>5. CASE ~(firmware_verified' /\ board'.collecting)
    BY <1>1, <2>2, <2>5
  <2> QED BY <2>1, <2>3, <2>4, <2>5
<1>3. CASE ~WriteCommand
  <2>1. cmd_ch' = cmd_ch /\ (board'.collecting => board.collecting)
    BY <1>3, TaskOnHandle, BoardUnderTask DEF IInv
  <2>2. firmware_verified' /\ board'.collecting => firmware_verified
    BY VerifiedByExchange DEF IInv
  <2>3. firmware_verified /\ board.collecting => collection_running' = collection_running
    BY TaskOnHandle DEF IInv, Connected
  <2> QED BY <1>1, <2>1, <2>2, <2>3
<1> QED BY <1>2, <1>3

LEMMA TaskKeepsLands ==
  ASSUME IInv, Lands, TaskStep
  PROVE  Lands'
<1>1. CASE WriteCommand
  <2>1. /\ OneOf(cmd_ch') /\ (Head(cmd_ch).kind = "start" => ~Has(cmd_ch', "start"))
        /\ Has(cmd_ch', "start") => Has(cmd_ch, "start")
        /\ board'.collecting => board.collecting \/ Head(cmd_ch).kind = "start"
    BY <1>1, TaskWrites DEF IInv, Lands
  <2> QED BY <2>1 DEF Lands
<1>2. CASE ~WriteCommand
  <2>1. cmd_ch' = cmd_ch /\ (board'.collecting => board.collecting)
    BY <1>2, TaskOnHandle, BoardUnderTask DEF IInv
  <2> QED BY <2>1 DEF Lands
<1> QED BY <1>1, <1>2

\* No step of the task brings a run to life.
LEMMA TaskRuns ==
  ASSUME IInv, TaskStep, NEW n \in Calls, Alive(n)'
  PROVE  Alive(n)
<1>1. wire \in Seq(Maybe)
  BY DEF IInv, TypeOK, UsbOK
<1>2. CASE WriteCommand
  <2>1. OnWire(wire', n) => OnWire(wire, n)
    BY <1>1, <1>2, TaskWrites, WireRuns DEF IInv
  <2>2. Queued(cmd_ch', n) => Queued(cmd_ch, n)
    BY <1>2, TaskWrites DEF IInv
  <2>3. board'.collecting /\ board'.run = n => (board.collecting /\ board.run = n) \/ Queued(cmd_ch, n)
    BY <1>2, TaskWrites DEF IInv
  <2> QED BY <2>1, <2>2, <2>3 DEF Alive
<1>3. CASE ~WriteCommand
  <2>1. OnWire(wire', n) => OnWire(wire, n)
    BY <1>1, <1>3, BoardUnderTask, WireRuns DEF IInv
  <2>2. cmd_ch' = cmd_ch
    BY <1>3, TaskOnHandle DEF IInv
  <2>3. board'.collecting => board.collecting /\ board'.run = board.run
    BY <1>3, BoardUnderTask DEF IInv
  <2> QED BY <2>1, <2>2, <2>3 DEF Alive
<1> QED BY <1>2, <1>3

LEMMA TaskKeepsOwnRun ==
  ASSUME IInv, OwnRun, TaskStep
  PROVE  OwnRun'
<1>1. /\ UNCHANGED ticket /\ \A c \in Clients : at[c] = "publish" => at'[c] = "publish"
      /\ session_file'.value = session_file.value
      /\ collection_running' => collection_running
  BY TaskAnswers, TaskOnHandle DEF IInv
<1>2. ASSUME collection_running', NEW n \in Calls, Alive(n)'
      PROVE  \/ session_file'.value # NoCall /\ PathOf[n] = session_file'.value
             \/ \E c \in Clients : at'[c] = "publish" /\ ticket'[c] = n
  <2>1. collection_running /\ Alive(n)
    BY <1>1, <1>2, TaskRuns
  <2> QED BY <1>1, <2>1 DEF OwnRun
<1> QED BY <1>2 DEF OwnRun

LEMMA TaskKeepsStarts ==
  ASSUME IInv, Connected, Starts, TaskStep, ~Leaving'
  PROVE  Starts'
<1> SUFFICES ASSUME NEW c \in Clients, op'[c] = "start", at'[c] # "idle"
             PROVE  StartAt(c)'
  BY DEF Starts, StartAt
<1>0. /\ op[c] = "start" /\ at'[c] = at[c] /\ at[c] # "idle"
      /\ session_file'.value = session_file.value
      /\ session_file'.unseen => session_file.unseen
  BY TaskAnswers, TaskOnHandle DEF IInv
<1> DEFINE early == at[c] \in {"check_link", "check_verified", "claim"}
           late  == at[c] \in {"send_mode", "send_start"}
<1>1. /\ ~session_file.unseen /\ info_ch = <<>> /\ pc \notin {"exchange", "record_info"}
      /\ ~Has(cmd_ch, "restart") /\ ~Has(cmd_ch, "q")
      /\ firmware_verified => Serving
      /\ at[c] \notin {"check_link", "check_verified"} => firmware_verified
      /\ at[c] # "publish" => ~Has(cmd_ch, "start")
      /\ late \/ at[c] = "publish" => session_file.value = NoCall /\ collection_running
      /\ late => ~board.collecting /\ wire = <<>>
      /\ early /\ firmware_verified /\ ~collection_running => ~board.collecting /\ wire = <<>>
  BY <1>0 DEF Starts, StartAt
<1>2. ~TakeInfoRequest /\ ~RecordInfo /\ ~\E r \in Outcomes : AnswerInfo(r)
  BY <1>1 DEF TakeInfoRequest, RecordInfo, AnswerInfo
<1>3. info_ch' = <<>> /\ pc' \notin {"exchange", "record_info"}
  <2>1. pc' \notin {"exchange", "record_info"}
    BY <1>1, <1>2 DEF TaskStep, StraightLine, SelectArm, ExitBeforeOpen, OpenPort, OpenFails,
        CloseConnection, DropRunning, DropVerified, DropInfo, RecordAuto, InitOutput, LoopTop,
        RecordRetry, AutoVerify, MetricsTick, SelectShutdown, ReadChunk, ReadFails,
        WriteCommand, Reverify, Outcomes
  <2> QED BY <1>1, <2>1, TaskOnHandle DEF IInv
<1>4. \A k : Has(cmd_ch', k) => Has(cmd_ch, k)
  BY TaskOnHandle, TaskWrites DEF IInv
<1>5. firmware_verified => Serving' /\ firmware_verified' /\ collection_running' = collection_running
  <2>1. firmware_verified => Serving'
    BY <1>1, ServingGoesOn
  <2> QED BY <1>1, <2>1, TaskOnHandle DEF IInv, Serving
<1>6. ASSUME ~firmware_verified, firmware_verified'
      PROVE  Serving' /\ ~board'.collecting /\ wire' = <<>>
  <2>1. AutoVerify("ok") \/ Reverify("ok")
    BY <1>1, <1>6, VerifiedByExchange DEF IInv, Verifies, AnswerInfo
  <2>2. /\ firmware_verified' /\ link' = "held" /\ ~board'.collecting /\ wire' = <<>> /\ result' = "ok"
    BY <2>1, VerifiedByExchange DEF IInv, Verifies
  <2>3. pc' \in {"record_auto", "record_retry"}
    BY <2>1 DEF AutoVerify, Reverify
  <2> QED BY <2>2, <2>3 DEF Serving
<1>7. ASSUME ~board.collecting, wire = <<>>, ~Has(cmd_ch, "start")
      PROVE  ~board'.collecting /\ wire' = <<>>
  BY <1>7, TaskWrites, BoardUnderTask DEF IInv
<1>8. at'[c] \in {"check_link", "check_verified", "claim"} /\ firmware_verified' /\ ~collection_running'
        => ~board'.collecting /\ wire' = <<>>
  <2>1. CASE firmware_verified
    BY <1>0, <1>1, <1>5, <1>7, <2>1
  <2>2. CASE ~firmware_verified
    BY <1>6, <2>2
  <2> QED BY <2>1, <2>2
<1>9. at'[c] \in {"send_mode", "send_start"} => ~board'.collecting /\ wire' = <<>>
  BY <1>0, <1>1, <1>7
<1>10. /\ firmware_verified' => Serving'
       /\ at'[c] \notin {"check_link", "check_verified"} => firmware_verified'
       /\ at'[c] \in {"send_mode", "send_start", "publish"}
             => session_file'.value = NoCall /\ collection_running'
  BY <1>0, <1>1, <1>5, <1>6
<1>11. /\ ~session_file'.unseen /\ ~Has(cmd_ch', "restart") /\ ~Has(cmd_ch', "q")
       /\ at'[c] # "publish" => ~Has(cmd_ch', "start")
  BY <1>0, <1>1, <1>4
<1> QED BY <1>3, <1>8, <1>9, <1>10, <1>11 DEF StartAt
\* Every step of the task keeps the sessions in order, or is one of a task that leaves.
LEMMA OrderlyTask ==
  ASSUME IInv, OnRoute, Orderly, TaskStep
  PROVE  Leaving' \/ Orderly'
BY TaskKeepsConnected, TaskKeepsInSession, TaskKeepsStarts, TaskKeepsSinks, TaskKeepsReported,
   TaskKeepsOwnRun, TaskKeepsLands DEF Orderly

-----------------------------------------------------------------------------
(***************************************************************************)
(* The handlers.                                                           *)
(***************************************************************************)
\* The one request that is being served, and what its next step does.
Served(c) ==
  /\ at[c] # "idle" /\ Follows(c) /\ Effect(c)
  /\ \A d \in Clients : d # c => at[d] = "idle" /\ at'[d] = "idle"
  /\ UNCHANGED <<op, ticket, pc, exit, result, reverify_on, current_session_path, sink, link, wire>>

LEMMA HandlerServes ==
  ASSUME IInv, Lone, pc # "ended", NEW c \in Clients, HandlerStep(c)
  PROVE  Served(c)
<1>1. at[c] # "idle" /\ Effect(c) /\ UNCHANGED <<link, wire>>
  BY HandlerEffect
<1>2. /\ Follows(c) /\ \A d \in Clients : d # c => at'[d] = at[d]
      /\ UNCHANGED <<op, ticket, pc, locals, disk>>
  BY HandlerFollows DEF IInv
<1>3. \A d \in Clients : d # c => at[d] = "idle"
  BY <1>1 DEF Lone
<1> QED BY <1>1, <1>2, <1>3 DEF Served, locals, disk

\* Where a served start is.
LEMMA StartServed ==
  ASSUME OnRoute, Starts, NEW c \in Clients,
         at[c] \in {"claim", "send_mode", "send_start", "publish"} \/ (op[c] = "start" /\ at[c] # "idle")
  PROVE  op[c] = "start" /\ StartAt(c) /\ at[c] # "idle"
BY DEF OnRoute, Starts

LEMMA HandlerKeepsConnected ==
  ASSUME Connected, NEW c \in Clients, Served(c)
  PROVE  Connected'
<1>1. /\ firmware_verified' = firmware_verified \/ ~firmware_verified'
      /\ board' = board \/ ~board'.collecting
  BY DEF Served, Effect, Checks, Claims, Publishes, Unclaims, Ends, Forgets, Pulses, Asks, Orders, Booted
<1> QED BY <1>1 DEF Served, Connected

LEMMA HandlerKeepsInSession ==
  ASSUME OnRoute, InSession, Starts, NEW c \in Clients, Served(c), TypeOK
  PROVE  InSession'
<1> USE DEF Served, Follows
<1>1. SUFFICES ASSUME session_file'.value # NoCall PROVE InSession'
  BY DEF InSession
<1>2. CASE Publishes(c)
  <2>1. /\ firmware_verified /\ Serving /\ info_ch = <<>> /\ ~Has(cmd_ch, "restart") /\ collection_running
    BY <1>2, StartServed DEF Publishes, StartAt
  <2> QED BY <1>2, <2>1 DEF Publishes, InSession, Serving
<1>3. CASE ~Publishes(c)
  <2>1. session_file.value # NoCall /\ session_file' = session_file
    BY <1>1, <1>3 DEF Effect, Checks, Claims, Unclaims, Ends, Forgets, Pulses, Asks, Orders
  <2>2. /\ Serving /\ info_ch = <<>> /\ ~Has(cmd_ch, "restart")
        /\ collection_running \/ at[c] = "end_session"
        /\ at[c] \notin {"unverify", "forget_info", "send_restart", "pulse", "send_info"}
        /\ ~(op[c] = "reset" /\ at[c] = "check_link")
    BY <2>1 DEF InSession
  <2>3. ~Ends(c) /\ ~Forgets(c) /\ ~Pulses(c) /\ ~Asks(c)
        /\ ~Orders(c, "send_restart", "restart", NoCall, "idle")
    BY <1>1, <2>2 DEF Ends, Forgets, Pulses, Asks, Orders
  <2>4. UNCHANGED <<firmware_verified, info_ch>> /\ ~Has(cmd_ch', "restart")
    BY <1>3, <2>2, <2>3 DEF Effect, Checks, Claims, Unclaims, Orders, Sent
  <2>5. collection_running' \/ at'[c] = "end_session"
    BY <1>3, <2>2, <2>3 DEF Effect, Checks, Claims, Unclaims, Orders
  <2>6. at'[c] \notin {"unverify", "forget_info", "send_restart", "pulse", "send_info", "check_link"}
    <3>1. CASE Checks(c)
      <4>1. at'[c] # "send_info"
        BY <2>2, <3>1 DEF Checks
      <4> QED BY <2>2, <3>1, <4>1 DEF Checks
    <3>2. CASE ~Checks(c)
      BY <1>3, <2>3, <3>2 DEF Effect, Claims, Unclaims, Orders
    <3> QED BY <3>1, <3>2
  <2> QED BY <2>1, <2>2, <2>4, <2>5, <2>6 DEF InSession, Serving
<1> QED BY <1>2, <1>3

LEMMA HandlerKeepsStarts ==
  ASSUME OnRoute, InSession, Starts, NEW c \in Clients, Served(c)
  PROVE  Starts'
<1> USE DEF Served
<1>1. SUFFICES ASSUME op[c] = "start", at'[c] # "idle" PROVE StartAt(c)'
  BY DEF Starts, StartAt
<1>2. /\ ~session_file.unseen /\ info_ch = <<>> /\ pc \notin {"exchange", "record_info"}
      /\ ~Has(cmd_ch, "restart") /\ ~Has(cmd_ch, "q")
      /\ firmware_verified => Serving
      /\ at[c] \notin {"check_link", "check_verified"} => firmware_verified
      /\ at[c] # "publish" => ~Has(cmd_ch, "start")
      /\ at[c] \in {"send_mode", "send_start", "publish"}
            => session_file.value = NoCall /\ collection_running
      /\ at[c] \in {"send_mode", "send_start"} => ~board.collecting /\ wire = <<>>
      /\ at[c] \in {"check_link", "check_verified", "claim"} /\ firmware_verified /\ ~collection_running
            => ~board.collecting /\ wire = <<>>
      /\ at[c] \in {"check_link", "check_verified", "claim", "send_mode", "send_start", "publish"}
  BY <1>1 DEF Starts, StartAt, OnRoute
<1>3. CASE Checks(c)
  BY <1>1, <1>2, <1>3 DEF Checks, Follows, StartAt, Serving
<1>4. CASE Claims(c)
  <2>1. session_file.value = NoCall
    BY <1>4 DEF Claims, InSession
  <2> QED BY <1>2, <1>4, <2>1 DEF Claims, StartAt, Serving
<1>5. CASE Orders(c, "send_mode", "set-log-mode", NoCall, "send_start")
  BY <1>2, <1>5 DEF Orders, Sent, StartAt, Serving
<1>6. CASE Orders(c, "send_start", "start", ticket[c], "publish")
  BY <1>2, <1>6 DEF Orders, Sent, StartAt, Serving
<1> QED BY <1>1, <1>2, <1>3, <1>4, <1>5, <1>6 DEF Effect, Publishes, Unclaims, Ends, Forgets, Pulses,
        Asks, Orders

LEMMA HandlerKeepsSinks ==
  ASSUME TypeOK, Routed, OnRoute, Starts, Sinks, NEW c \in Clients, Served(c)
  PROVE  Sinks'
<1> USE DEF Served, Sinks
<1>1. CASE Publishes(c)
  <2>1. ~session_file.unseen /\ session_file.value = NoCall
    BY <1>1, StartServed DEF Publishes, StartAt
  <2>2. session_file'.value # NoCall
    BY <1>1, HandleAssumption DEF Publishes, Routed, Calls, NoCall
  <2> QED BY <1>1, <2>1, <2>2 DEF Publishes
<1>2. CASE Ends(c)
  BY <1>2 DEF Ends
<1>3. CASE Claims(c)
  <2>1. ~session_file.unseen
    BY <1>3, StartServed DEF Claims, StartAt
  <2> QED BY <1>3, <2>1 DEF Claims
<1>4. CASE ~Publishes(c) /\ ~Ends(c) /\ ~Claims(c)
  <2>1. UNCHANGED session_file /\ (collection_running' => collection_running)
        /\ (at'[c] = "end_session" => ~collection_running')
    BY <1>4 DEF Effect, Checks, Unclaims, Forgets, Pulses, Asks, Orders, Follows
  <2> QED BY <2>1
<1> QED BY <1>1, <1>2, <1>3, <1>4

LEMMA HandlerKeepsReported ==
  ASSUME TypeOK, Routed, OnRoute, InSession, Starts, Sinks, Reported, NEW c \in Clients, Served(c)
  PROVE  Reported'
<1> USE DEF Served
<1>0. \A k : Has(cmd_ch, k) => Has(cmd_ch', k)
  BY DEF Effect, Checks, Claims, Publishes, Unclaims, Ends, Forgets, Pulses, Asks, Orders, Sent
<1>1. ASSUME firmware_verified', board'.collecting
      PROVE  \/ collection_running' \/ Has(cmd_ch', "q")
             \/ op'[c] = "reset" /\ at'[c] \in {"end_session", "unverify"}
  <2>1. /\ firmware_verified /\ board.collecting /\ ~Forgets(c) /\ ~Pulses(c)
    <3>1. ~Forgets(c)
      BY <1>1 DEF Forgets
    <3>2. ~Pulses(c)
      <4>1. board' = Booted => ~board'.collecting
        BY DEF Booted
      <4> QED BY <1>1, <4>1 DEF Pulses
    <3>3. UNCHANGED <<firmware_verified, board>>
      BY <3>1, <3>2 DEF Effect, Checks, Claims, Publishes, Unclaims, Ends, Asks, Orders
    <3> QED BY <1>1, <3>1, <3>2, <3>3
  <2>2. \/ collection_running \/ Has(cmd_ch, "q")
        \/ op[c] = "reset" /\ at[c] \in {"end_session", "unverify"}
    BY <2>1 DEF Reported
  <2>3. CASE Unclaims(c)
    <3>1. op[c] = "stop" => Has(cmd_ch, "q")
      BY <2>1, <2>3 DEF Reported, Unclaims
    <3> QED BY <1>0, <2>3, <3>1 DEF Unclaims, OnRoute
  <2>4. CASE Ends(c)
    <3>1. ~collection_running
      BY <2>4 DEF Sinks, Ends
    <3> QED BY <1>0, <2>2, <2>4, <3>1 DEF Ends, OnRoute
  <2>5. CASE ~Unclaims(c) /\ ~Ends(c)
    <3>1. collection_running => collection_running'
      BY <2>1, <2>5 DEF Effect, Checks, Claims, Publishes, Asks, Orders
    <3>2. at[c] \notin {"end_session", "unverify"}
      BY <2>1, <2>5 DEF Effect, Checks, Claims, Publishes, Asks, Orders
    <3> QED BY <1>0, <2>2, <3>1, <3>2
  <2> QED BY <2>3, <2>4, <2>5
<1>2. at'[c] = "clear_running" /\ op[c] = "stop" => Has(cmd_ch', "q")
  BY DEF Effect, Checks, Claims, Publishes, Unclaims, Ends, Forgets, Pulses, Asks, Orders, Sent,
      Follows
<1>3. ASSUME op[c] # "start"
      PROVE  ~Has(cmd_ch', "start")
  <2>1. ~Has(cmd_ch, "start") /\ at[c] # "send_start"
    BY <1>3 DEF Reported, OnRoute
  <2> QED BY <2>1 DEF Effect, Checks, Claims, Publishes, Unclaims, Ends, Forgets, Pulses, Asks,
        Orders, Sent
<1>4. ASSUME Has(cmd_ch', "start")
      PROVE  session_file'.value # NoCall \/ at'[c] = "publish"
  <2>1. CASE Publishes(c)
    BY <2>1, HandleAssumption DEF Publishes, Routed, Calls, NoCall
  <2>2. CASE Orders(c, "send_start", "start", ticket[c], "publish")
    BY <2>2 DEF Orders
  <2>3. CASE ~Publishes(c) /\ ~Orders(c, "send_start", "start", ticket[c], "publish")
    <3>1. op[c] = "start"
      BY <1>3, <1>4
    <3>2. at[c] # "publish" => ~Has(cmd_ch, "start")
      BY <3>1 DEF Starts, StartAt
    <3>3. at[c] # "publish"
      BY <2>3 DEF Effect, Checks, Claims, Unclaims, Ends, Forgets, Pulses, Asks, Orders
    <3> QED BY <1>4, <2>3, <3>2, <3>3 DEF Effect, Checks, Claims, Unclaims, Ends, Forgets, Pulses, Asks,
          Orders, Sent
  <2> QED BY <2>1, <2>2, <2>3
<1> QED BY <1>1, <1>2, <1>3, <1>4 DEF Reported
LEMMA HandlerKeepsOwnRun ==
  ASSUME TypeOK, Routed, OnRoute, Starts, Sinks, OwnRun, NEW c \in Clients, Served(c)
  PROVE  OwnRun'
<1> USE DEF Served
<1>1. SUFFICES ASSUME collection_running', NEW n \in Calls, Alive(n)'
               PROVE  \/ session_file'.value # NoCall /\ PathOf[n] = session_file'.value
                      \/ at'[c] = "publish" /\ ticket[c] = n
  BY DEF OwnRun
<1>2. cmd_ch \in Seq(Command) /\ wire \in Seq(Maybe)
  BY DEF TypeOK, QueuesOK, UsbOK
<1>3. ASSUME ~Has(cmd_ch, "start"), ~board.collecting, wire = <<>>
      PROVE  ~Alive(n)
  BY <1>2, <1>3, QueuedRuns, WireRuns DEF Alive
<1>4. CASE Claims(c)
  <2>1. ~Alive(n)
    BY <1>3, <1>4, StartServed DEF Claims, StartAt
  <2>2. Alive(n)' <=> Alive(n)
    BY <1>4 DEF Claims, Alive
  <2> QED BY <1>1, <2>1, <2>2
<1>5. CASE Orders(c, "send_start", "start", ticket[c], "publish")
  <2>1. ~Alive(n)
    BY <1>3, <1>5, StartServed DEF Orders, StartAt
  <2>2. Alive(n)' => Alive(n) \/ n = ticket[c]
    BY <1>5 DEF Orders, Sent, Alive
  <2> QED BY <1>1, <1>5, <2>1, <2>2 DEF Orders
<1>6. CASE Publishes(c)
  <2>1. Alive(n) /\ collection_running
    BY <1>1, <1>6 DEF Publishes, Alive
  <2>2. session_file.value = NoCall
    BY <1>6, StartServed DEF Publishes, StartAt
  <2>3. ticket[c] = n
    BY <2>1, <2>2 DEF OwnRun
  <2>4. PathOf[n] # NoCall
    BY HandleAssumption DEF Calls, NoCall
  <2> QED BY <1>6, <2>3, <2>4 DEF Publishes
<1>7. ~Ends(c) /\ ~Unclaims(c)
  BY <1>1 DEF Ends, Unclaims, Sinks
<1>8. CASE /\ ~Claims(c) /\ ~Publishes(c)
           /\ ~Orders(c, "send_start", "start", ticket[c], "publish")
  <2>1. UNCHANGED <<session_file, collection_running>> /\ at[c] # "publish"
    BY <1>7, <1>8 DEF Effect, Checks, Forgets, Pulses, Asks, Orders
  <2>2. board' = board \/ ~board'.collecting
    BY <1>7, <1>8 DEF Effect, Checks, Forgets, Pulses, Asks, Orders, Booted
  <2>3. Queued(cmd_ch', n) => Queued(cmd_ch, n)
    BY <1>7, <1>8 DEF Effect, Checks, Forgets, Pulses, Asks, Orders, Sent
  <2>4. Alive(n)
    BY <1>1, <2>2, <2>3 DEF Alive
  <2>5. session_file.value # NoCall /\ PathOf[n] = session_file.value
    BY <1>1, <2>1, <2>4 DEF OwnRun
  <2> QED BY <2>1, <2>5
<1> QED BY <1>4, <1>5, <1>6, <1>8

\* A start is sent when none is in the channel, to a board that does not collect.
LEMMA HandlerKeepsLands ==
  ASSUME OnRoute, Starts, Lands, NEW c \in Clients, Served(c)
  PROVE  Lands'
<1> USE DEF Served
<1>1. board' = board \/ ~board'.collecting
  BY DEF Effect, Checks, Claims, Publishes, Unclaims, Ends, Forgets, Pulses, Asks, Orders, Booted
<1>2. CASE Orders(c, "send_start", "start", ticket[c], "publish")
  <2>1. at[c] = "send_start" /\ UNCHANGED board /\ Sent("start", ticket[c])
    BY <1>2 DEF Orders
  <2>2. ~Has(cmd_ch, "start") /\ ~board.collecting
    BY <2>1, StartServed DEF StartAt
  <2> QED BY <2>1, <2>2 DEF Sent, Lands
<1>3. CASE ~Orders(c, "send_start", "start", ticket[c], "publish")
  <2>1. OneOf(cmd_ch') /\ (Has(cmd_ch', "start") => Has(cmd_ch, "start"))
    BY <1>3 DEF Lands, Effect, Checks, Claims, Publishes, Unclaims, Ends, Forgets, Pulses, Asks,
        Orders, Sent
  <2> QED BY <1>1, <2>1 DEF Lands
<1> QED BY <1>2, <1>3

\* Every step of a handler keeps the sessions in order.
LEMMA OrderlyHandler ==
  ASSUME IInv, Lone, OnRoute, Orderly, pc # "ended", NEW c \in Clients, HandlerStep(c)
  PROVE  Orderly'
<1>1. Served(c)
  BY HandlerServes
<1> QED BY <1>1, HandlerKeepsConnected, HandlerKeepsInSession, HandlerKeepsStarts,
        HandlerKeepsSinks, HandlerKeepsReported, HandlerKeepsOwnRun, HandlerKeepsLands
        DEF Orderly, IInv

-----------------------------------------------------------------------------
(***************************************************************************)
(* The board, the cable and the clients.                                   *)
(***************************************************************************)
LEMMA OrderlyEnvironment ==
  ASSUME MaxDrops = 0, IInv, Orderly, Environment
  PROVE  Orderly'
<1> USE DEF Orderly
<1>1. /\ UNCHANGED <<op, ticket, at, pc, exit, result, reverify_on, current_session_path, sink,
                     collection_running, firmware_verified, cmd_ch, info_ch, session_file>>
      /\ link = "held" <=> link' = "held"
      /\ board'.collecting => board.collecting
      /\ board'.run = board.run
      /\ wire' = wire \/ (board.collecting /\ \E m \in {board.run, TextLine} : wire' = Append(wire, m))
  BY PluggedIn DEF IInv
<1>2. Serving' <=> Serving
  BY <1>1 DEF Serving
<1>3. Connected' /\ InSession' /\ Sinks' /\ Reported' /\ Lands'
  BY <1>1, <1>2 DEF Connected, InSession, Sinks, Reported, Lands
<1>4. ~board.collecting /\ wire = <<>> => ~board'.collecting /\ wire' = <<>>
  BY <1>1
<1>5. Starts'
  <2>1. ASSUME NEW c \in Clients PROVE StartAt(c)'
    BY <1>1, <1>2, <1>4 DEF Starts, StartAt
  <2> QED BY <2>1 DEF Starts
<1>6. ASSUME NEW n \in Calls, Alive(n)' PROVE Alive(n)
  <2>1. wire \in Seq(Maybe) /\ board.run \in Maybe /\ TextLine \in Maybe /\ n # TextLine
    BY DEF IInv, TypeOK, UsbOK, Board, Maybe, NoCall, TextLine, Calls
  <2>2. OnWire(wire', n) => OnWire(wire, n) \/ (board.collecting /\ board.run = n)
    <3>1. ASSUME NEW m \in Maybe PROVE OnWire(Append(wire, m), n) <=> OnWire(wire, n) \/ m = n
      BY <2>1, WireRuns
    <3> QED BY <1>1, <2>1, <3>1
  <2> QED BY <1>1, <1>6, <2>2 DEF Alive
<1>7. OwnRun'
  BY <1>1, <1>6 DEF OwnRun
<1> QED BY <1>3, <1>5, <1>7

LEMMA OrderlyArrival ==
  ASSUME OneByOne, IInv, Orderly, NEW c \in Clients, (Paced => Quiet) /\ Arrival(c)
  PROVE  Orderly'
<1> USE DEF Orderly
<1>1. /\ Quiet
      /\ UNCHANGED <<pc, exit, result, reverify_on, current_session_path, sink, link, board, wire,
                     collection_running, firmware_verified, cmd_ch, info_ch, session_file>>
      /\ \A d \in Clients : d # c => at'[d] = "idle" /\ op'[d] = op[d]
      /\ \/ at'[c] = "idle"
         \/ op'[c] = "reset" /\ at'[c] = "clear_running"
         \/ op'[c] # "reset" /\ at'[c] = "check_link"
  BY QuietArrival DEF IInv
<1>2. /\ \A d \in Clients : at[d] = "idle"
      /\ info_ch = <<>> /\ wire = <<>> /\ ~session_file.unseen /\ pc = "select" /\ link = "held"
      /\ \A k : ~Has(cmd_ch, k)
  BY <1>1 DEF Quiet, Has
<1>3. firmware_verified => Serving
  BY <1>2 DEF Connected, Serving
<1>4. Connected' /\ Sinks' /\ Lands'
  BY <1>1, <1>2 DEF Connected, Sinks, Lands
<1>5. InSession'
  BY <1>1, <1>2 DEF InSession, Serving
<1>6. firmware_verified /\ board.collecting => collection_running
  BY <1>2 DEF Reported
<1>7. Reported'
  BY <1>1, <1>2, <1>6 DEF Reported
<1>8. ASSUME NEW d \in Clients PROVE StartAt(d)'
  BY <1>1, <1>2, <1>3, <1>6 DEF StartAt, Serving
<1>9. \A n \in Calls : Alive(n)' <=> Alive(n)
  BY <1>1 DEF Alive
<1>10. OwnRun'
  BY <1>1, <1>2, <1>9 DEF OwnRun
<1> QED BY <1>4, <1>5, <1>7, <1>8, <1>10 DEF Starts

LEMMA OrderlyStutter ==
  ASSUME Orderly, UNCHANGED vars
  PROVE  Orderly'
<1> USE DEF Orderly, vars, flags, queues, watches, requests, locals, disk, usb
<1>1. Connected' /\ InSession' /\ Sinks' /\ Reported' /\ Lands'
  BY DEF Connected, InSession, Serving, Sinks, Reported, Lands
<1>2. ASSUME NEW c \in Clients PROVE StartAt(c)'
  BY DEF Starts, StartAt, Serving
<1>3. OwnRun'
  BY DEF OwnRun, Alive
<1> QED BY <1>1, <1>2, <1>3 DEF Starts

-----------------------------------------------------------------------------
(***************************************************************************)
(* The theorems.                                                           *)
(***************************************************************************)
\* The invariant of sessions that are made one request at a time on a device that stays
\* plugged in.
THEOREM SessionsHold == ASSUME OneByOne PROVE Spec => []Sessions
<1>1. Init => Sessions
  <2> SUFFICES ASSUME Init PROVE Sessions
    OBVIOUS
  <2>1. Lone /\ OnRoute
    BY DEF Init, Lone, OnRoute
  <2>2. Connected /\ InSession /\ Starts /\ Sinks
    BY DEF Init, Connected, InSession, Starts, StartAt, Sinks
  <2>3. Reported /\ OwnRun /\ Lands
    BY DEF Init, Reported, OwnRun, Lands, OneOf, Has
  <2> QED BY <2>1, <2>2, <2>3 DEF Sessions, Orderly
<1>2. IInv /\ Sessions /\ [Next]_vars => Sessions'
  <2> SUFFICES ASSUME IInv, Sessions, [Next]_vars PROVE Sessions'
    OBVIOUS
  <2>1. Lone' /\ OnRoute'
    BY LoneKept DEF Sessions
  <2>2. CASE Leaving
    BY <2>1, <2>2, LeavingStays DEF Sessions
  <2>3. CASE Orderly /\ ~Leaving
    <3>1. pc # "ended" /\ MaxDrops = 0 /\ Lone /\ OnRoute
      BY <2>3 DEF Leaving, OneByOne, Sessions
    <3>2. Leaving' \/ Orderly'
      BY <2>3, <3>1, OrderlyTask, OrderlyHandler, OrderlyEnvironment, OrderlyArrival, OrderlyStutter
         DEF Next
    <3> QED BY <2>1, <3>2 DEF Sessions
  <2> QED BY <2>2, <2>3 DEF Sessions
<1> QED BY <1>1, <1>2, IInvHolds, PTL DEF Spec

\* Whenever the task waits and has seen the session's path, an open sink writes to that
\* path (src/src/state.rs:103).
THEOREM SinkIsTheSessions == ASSUME OneByOne PROVE Spec => []SinkOfSession
<1>1. Sessions => SinkOfSession
  BY DEF Sessions, Leaving, Orderly, Sinks, SinkOfSession
<1> QED BY <1>1, SessionsHold, PTL

\* At rest on verified firmware, a board that collects is one the host reports as
\* collecting, so that stop is not answered "not running" (src/src/routes/control.rs:225-247).
THEOREM CollectingReported == ASSUME OneByOne PROVE Spec => []CollectingIsReported
<1>1. Sessions => CollectingIsReported
  BY DEF Sessions, Leaving, Orderly, Reported, CollectingIsReported, Quiet, Has
<1> QED BY <1>1, SessionsHold, PTL

\* Through any sequence of starts, stops, resets, info requests and setters no start meets
\* the CLI lock of a board that still collects (src/src/routes/control.rs:204-208): the
\* claim, the q of stop and the q of the verification after a reset come before it.
THEOREM StartsAreObeyed == ASSUME OneByOne PROVE Spec => StartNotSwallowed
<1> DEFINE Start == cmd_ch # <<>> /\ cmd_ch' = Tail(cmd_ch) /\ Head(cmd_ch).kind = "start"
<1>1. IInv /\ Sessions /\ [Next]_vars => (Start => ~board.collecting)
  <2> SUFFICES ASSUME IInv, Sessions, [Next]_vars, Start PROVE ~board.collecting
    OBVIOUS
  <2>1. WriteCommand
    BY TakenByWrite
  <2>2. Has(cmd_ch, "start") /\ pc = "select"
    BY <2>1, TaskWrites DEF IInv
  <2> QED BY <2>2 DEF Sessions, Leaving, Orderly, Lands
<1>2. Spec => [][Start => ~board.collecting]_vars
  BY <1>1, IInvHolds, SessionsHold, PTL DEF Spec
<1> QED BY <1>2 DEF StartNotSwallowed

\* The rows of the files f are of the runs their files are named for.
OwnRows(f) == \A p \in Calls : \A i \in 1..Len(f[p].rows) : PathOf[f[p].rows[i]] = p

\* Dropping a sink keeps the rows; opening one empties its file.
LEMMA SyncedRows ==
  ASSUME NEW f \in [Calls -> File], NEW s \in Maybe, NEW mode, NEW path \in Maybe, OwnRows(f)
  PROVE  /\ \A g \in Finalised(f, s) : OwnRows(g) /\ g \in [Calls -> File]
         /\ SyncSink(mode, path, s, f) => OwnRows(files')
<1>1. ASSUME NEW g \in Finalised(f, s)
      PROVE  OwnRows(g) /\ g \in [Calls -> File]
  BY FinalisedTyped DEF OwnRows
<1>2. ASSUME path # NoCall
      PROVE  OwnRows(Created(f, path))
  <2>1. path \in Calls
    BY <1>2 DEF Maybe
  <2>2. \A p \in Calls : Created(f, path)[p].rows = IF p = path THEN <<>> ELSE f[p].rows
    BY <2>1 DEF Created
  <2> QED BY <2>2 DEF OwnRows
<1>3. SyncSink(mode, path, s, f) => OwnRows(files')
  BY <1>1, <1>2 DEF SyncSink
<1> QED BY <1>1, <1>3

\* A chunk that is recorded is of the session's run, and goes to the session's file.
LEMMA RecordedRow ==
  ASSUME IInv, OnRoute, Orderly, ReadChunk, Records(Head(wire))
  PROVE  Head(wire) \in Calls /\ sink \in Calls /\ PathOf[Head(wire)] = sink
<1> DEFINE n == Head(wire)
<1>1. wire \in Seq(Maybe) /\ wire # <<>> /\ sink \in Maybe
  BY DEF ReadChunk, IInv, TypeOK, UsbOK, DiskOK
<1>2. n \in Maybe /\ OnWire(wire, n)
  BY <1>1, SeqTyped, WireRuns
<1>3. n \in Calls /\ sink # NoCall /\ sink \in Calls /\ collection_running
  BY <1>1, <1>2 DEF Records, Maybe, NoCall, TextLine
<1>4. session_file.value # NoCall /\ sink = session_file.value
  BY <1>3 DEF Orderly, Sinks
<1>5. \A c \in Clients : at[c] # "publish"
  BY <1>4, StartServed DEF Orderly, StartAt
<1> HIDE DEF n
<1>6. PathOf[n] = session_file.value
  BY <1>2, <1>3, <1>5 DEF Orderly, OwnRun, Alive
<1> QED BY <1>3, <1>4, <1>6 DEF n

LEMMA RowsTask ==
  ASSUME IInv, Sessions, OwnRows(files), TaskStep
  PROVE  OwnRows(files')
<1>0. /\ files \in [Calls -> File] /\ sink \in Maybe /\ NoCall \in Maybe /\ TypeOK
      /\ session_file.value \in Maybe
  BY DEF IInv, TypeOK, DiskOK, WatchesOK, Cell, Maybe
<1>1. CASE CloseConnection
  BY <1>0, <1>1, SyncedRows DEF CloseConnection
<1>2. CASE InitOutput
  BY <1>0, <1>2, InitOutputSyncs, SyncedRows
<1>3. CASE LoopTop
  <2>1. \A f \in Finalised(files, sink) : f \in [Calls -> File] /\ OwnRows(f)
    BY <1>0, SyncedRows
  <2>2. /\ current_session_path' \in Maybe
        /\ \/ files' = files
           \/ SyncSink(current_mode', current_session_path', sink, files)
           \/ \E f \in Finalised(files, sink) :
                 SyncSink(current_mode', current_session_path', NoCall, f)
    BY <1>0, <1>3, LoopTopSyncs DEF disk
  <2> QED BY <1>0, <2>1, <2>2, SyncedRows
<1>4. CASE ReadChunk
  <2>1. CASE Records(Head(wire))
    <3> DEFINE n == Head(wire)
               h == [files[sink] EXCEPT !.rows = Append(@, n)]
    <3>1. Orderly /\ OnRoute
      BY <1>4 DEF Sessions, Leaving, ReadChunk
    <3>2. n \in Calls /\ sink \in Calls /\ PathOf[n] = sink
      BY <1>4, <2>1, <3>1, RecordedRow
    <3>3. files' = [files EXCEPT ![sink] = h]
      BY <1>4, <2>1, Zenon DEF ReadChunk
    <3>4. files[sink] \in File /\ files[sink].rows \in Seq(Calls)
      BY <1>0, <3>2 DEF File
    <3>5. h.rows = Append(files[sink].rows, n)
      BY <3>4 DEF File
    <3>6. \A p \in Calls : files'[p] = IF p = sink THEN h ELSE files[p]
      BY <1>0, <3>2, <3>3
    <3> HIDE DEF n, h
    <3>7. \A i \in 1..Len(h.rows) : PathOf[h.rows[i]] = sink
      <4>1. \A i \in 1..Len(files[sink].rows) : PathOf[files[sink].rows[i]] = sink
        BY <3>2 DEF OwnRows
      <4>2. \A i \in 1..Len(h.rows) : h.rows[i] = IF i <= Len(files[sink].rows) THEN files[sink].rows[i]
                                                                                ELSE n
        BY <3>2, <3>4, <3>5
      <4>3. Len(h.rows) \in Nat /\ Len(files[sink].rows) \in Nat
        BY <3>2, <3>4, <3>5
      <4> QED BY <3>2, <4>1, <4>2, <4>3
    <3> QED BY <3>6, <3>7 DEF OwnRows
  <2>2. CASE ~Records(Head(wire))
    BY <1>4, <2>2 DEF ReadChunk
  <2> QED BY <2>1, <2>2
<1>5. CASE ~CloseConnection /\ ~InitOutput /\ ~LoopTop /\ ~ReadChunk
  <2>1. UNCHANGED files
    BY <1>5 DEF TaskStep, StraightLine, SelectArm, ExitBeforeOpen, OpenPort, OpenFails, DropRunning,
        DropVerified, DropInfo, RecordAuto, RecordRetry, RecordInfo, AutoVerify, AnswerInfo,
        MetricsTick, SelectShutdown, ReadFails, WriteCommand, TakeInfoRequest, Reverify, disk
  <2> QED BY <2>1
<1> QED BY <1>1, <1>2, <1>3, <1>4, <1>5

\* Every row of a dump file was measured in the run of the session the file was named for
\* (src/src/parquet_sink.rs:3), also while the last chunks of a run cross its stop.
THEOREM RowsAreTheSessions == ASSUME OneByOne PROVE Spec => []RowsOfOwnSession
<1>1. Init => OwnRows(files)
  BY DEF Init, OwnRows
<1>2. IInv /\ Sessions /\ OwnRows(files) /\ [Next]_vars => OwnRows(files)'
  <2> SUFFICES ASSUME IInv, Sessions, OwnRows(files), [Next]_vars PROVE OwnRows(files')
    OBVIOUS
  <2>1. CASE TaskStep
    BY <2>1, RowsTask
  <2>2. CASE ~TaskStep
    <3>1. UNCHANGED files
      BY <2>2, HandlerFollows DEF IInv, Next, vars, disk, Environment, BoardEmits, RunExpires, LinkDown,
         LinkUp, Detach, Arrival, Request, SetOutputMode
    <3> QED BY <3>1
  <2> QED BY <2>1, <2>2
<1>3. OwnRows(files) => RowsOfOwnSession
  BY DEF OwnRows, RowsOfOwnSession
<1> QED BY <1>1, <1>2, <1>3, IInvHolds, SessionsHold, PTL DEF Spec

-----------------------------------------------------------------------------
(***************************************************************************)
(* The rows on disk.                                                       *)
(***************************************************************************)
\* Every mode that clients choose dumps, and no two sessions are given one path.
OwnPaths ==
  /\ \A m \in Modes \cup {InitMode} : Dumps(m)
  /\ \A n, m \in Calls : PathOf[n] = PathOf[m] => n = m

\* The mode the task applies.
DumpsOnly ==
  /\ Dumps(output_mode.value)
  /\ pc \in {"top", "select", "record_retry", "exchange", "record_info"} => Dumps(current_mode)

Tickets == \A c \in Clients : ticket[c] <= calls

\* Request n was not made yet, or is a start that has still to publish its path.
Unpublished(n) == n > calls \/ \E c \in Clients : op[c] = "start" /\ at[c] # "idle" /\ ticket[c] = n

\* The next file to be opened is empty: the published session's when no sink is open, and
\* those of the sessions to come.
Fresh ==
  /\ sink = NoCall /\ session_file.value # NoCall => files[session_file.value].rows = <<>>
  /\ \A n \in Calls : Unpublished(n) =>
        files[PathOf[n]].rows = <<>> /\ PathOf[n] # session_file.value /\ PathOf[n] # sink

Stored == DumpsOnly /\ Tickets /\ (Leaving \/ Fresh)

\* What a step of the task may do to the disk: keep every row, and a sink only as long as
\* its session; open the published session's file; or append a row to the open one.
KeepsRows ==
  /\ \A p \in Calls : files'[p].rows = files[p].rows
  /\ sink' = sink \/ (sink' = NoCall /\ session_file.value = NoCall)
OpensSession ==
  /\ sink = NoCall /\ session_file.value # NoCall /\ sink' = session_file.value
  /\ \A p \in Calls : files'[p].rows = IF p = session_file.value THEN <<>> ELSE files[p].rows
AppendsRow ==
  /\ sink # NoCall /\ sink' = sink
  /\ \E n \in Calls : \A p \in Calls :
        files'[p].rows = IF p = sink THEN Append(files[p].rows, n) ELSE files[p].rows

\* In a dumping mode the sink is opened for the session, or left.
LEMMA DumpingSync ==
  ASSUME TypeOK, NEW mode, Dumps(mode), NEW s, NEW f, SyncSink(mode, session_file.value, s, f)
  PROVE  \/ sink' = s /\ files' = f
         \/ /\ s = NoCall /\ session_file.value # NoCall /\ sink' = session_file.value
            /\ f \in [Calls -> File] =>
                  \A p \in Calls : files'[p].rows = IF p = session_file.value THEN <<>> ELSE f[p].rows
<1>1. \/ sink' = s /\ files' = f
      \/ /\ s = NoCall /\ session_file.value # NoCall /\ sink' = session_file.value
         /\ files' = Created(f, session_file.value)
  BY DEF SyncSink
<1>2. session_file.value \in Maybe
  BY DEF TypeOK, WatchesOK, Cell
<1>3. ASSUME session_file.value # NoCall, f \in [Calls -> File]
      PROVE  \A p \in Calls : Created(f, session_file.value)[p].rows
                                = IF p = session_file.value THEN <<>> ELSE f[p].rows
  BY <1>2, <1>3 DEF Created, Maybe
<1> QED BY <1>1, <1>3

LEMMA DiskSteps ==
  ASSUME IInv, Orderly, ~Leaving, DumpsOnly, TaskStep
  PROVE  KeepsRows \/ OpensSession \/ AppendsRow
<1>0. /\ files \in [Calls -> File] /\ sink \in Maybe /\ TypeOK
      /\ session_file.value \in Maybe /\ SinkScope
  BY DEF IInv, TypeOK, DiskOK, WatchesOK, Cell
<1>1. CASE CloseConnection
  <2>1. session_file.value = NoCall
    BY <1>1 DEF Orderly, InSession, Serving, CloseConnection
  <2>2. sink' = NoCall /\ files' \in Finalised(files, sink)
    BY <1>1 DEF CloseConnection
  <2> QED BY <1>0, <2>1, <2>2, FinalisedTyped DEF KeepsRows
<1>2. CASE InitOutput
  <2>1. sink = NoCall
    BY <1>0, <1>2 DEF SinkScope, InitOutput
  <2>2. SyncSink(output_mode.value, session_file.value, NoCall, files)
    BY <1>2 DEF InitOutput, SyncSink
  <2> QED BY <1>0, <2>1, <2>2, DumpingSync DEF DumpsOnly, KeepsRows, OpensSession
<1>3. CASE LoopTop
  <2>1. Dumps(current_mode')
    BY <1>3 DEF LoopTop, DumpsOnly
  <2>2. current_session_path' = session_file.value
    BY <1>3 DEF LoopTop, Orderly, Sinks
  <2>3. CASE UNCHANGED disk
    BY <2>3 DEF disk, KeepsRows
  <2>4. CASE SyncSink(current_mode', current_session_path', sink, files)
    BY <1>0, <2>1, <2>2, <2>4, DumpingSync DEF KeepsRows, OpensSession
  <2>5. ASSUME SessionEnded, NEW f \in Finalised(files, sink),
               SyncSink(current_mode', current_session_path', NoCall, f)
        PROVE  KeepsRows
    <3>1. session_file.value = NoCall
      BY <2>5 DEF SessionEnded
    <3>2. sink' = NoCall /\ files' = f
      BY <1>0, <2>1, <2>2, <2>5, <3>1, DumpingSync
    <3> QED BY <1>0, <3>1, <3>2, FinalisedTyped DEF KeepsRows
  <2> QED BY <1>0, <1>3, <2>3, <2>4, <2>5, LoopTopSyncs
<1>4. CASE ReadChunk
  <2>1. CASE Records(Head(wire))
    <3>1. wire \in Seq(Maybe) /\ wire # <<>>
      BY <1>0, <1>4 DEF ReadChunk, TypeOK, UsbOK
    <3>2. PICK n : n = Head(wire)
      OBVIOUS
    <3>3. n \in Calls
      BY <2>1, <3>1, <3>2 DEF Records, Maybe, NoCall, TextLine
    <3>4. sink # NoCall /\ sink \in Calls /\ sink' = sink
      BY <1>0, <1>4, <2>1 DEF Records, Maybe, ReadChunk
    <3>5. files' = [files EXCEPT ![sink] = [files[sink] EXCEPT !.rows = Append(@, n)]]
      BY <1>4, <2>1, <3>2, Zenon DEF ReadChunk
    <3>6. files[sink] \in File
      BY <1>0, <3>4
    <3>7. [files[sink] EXCEPT !.rows = Append(@, n)].rows = Append(files[sink].rows, n)
      BY <3>6 DEF File
    <3>8. \A p \in Calls :
             files'[p].rows = IF p = sink THEN Append(files[p].rows, n) ELSE files[p].rows
      BY <1>0, <3>4, <3>5, <3>7
    <3> QED BY <3>3, <3>4, <3>8 DEF AppendsRow
  <2>2. CASE ~Records(Head(wire))
    BY <1>4, <2>2 DEF ReadChunk, KeepsRows
  <2> QED BY <2>1, <2>2
<1>5. CASE ~CloseConnection /\ ~InitOutput /\ ~LoopTop /\ ~ReadChunk
  <2>1. UNCHANGED disk
    BY <1>5 DEF TaskStep, StraightLine, SelectArm, ExitBeforeOpen, OpenPort, OpenFails, DropRunning,
        DropVerified, DropInfo, RecordAuto, RecordRetry, RecordInfo, AutoVerify, AnswerInfo,
        MetricsTick, SelectShutdown, ReadFails, WriteCommand, TakeInfoRequest, Reverify, disk
  <2> QED BY <2>1 DEF disk, KeepsRows
<1> QED BY <1>1, <1>2, <1>3, <1>4, <1>5

\* The task publishes no path and makes no request.
LEMMA FreshTask ==
  ASSUME OwnPaths, IInv, Orderly, ~Leaving, DumpsOnly, Fresh, TaskStep
  PROVE  Fresh'
<1>1. KeepsRows \/ OpensSession \/ AppendsRow
  BY DiskSteps
<1>2. session_file'.value = session_file.value
  BY TaskOnHandle DEF IInv
<1>3. UNCHANGED calls
  BY DEF TaskStep, StraightLine, SelectArm, ExitBeforeOpen, OpenPort, OpenFails, DropRunning,
     DropVerified, DropInfo, RecordAuto, RecordRetry, RecordInfo, AutoVerify, AnswerInfo,
     MetricsTick, SelectShutdown, ReadFails, WriteCommand, TakeInfoRequest, Reverify,
     CloseConnection, InitOutput, LoopTop, ReadChunk, TaskFrame
<1>4. \A n \in Calls : Unpublished(n)' => Unpublished(n)
  BY <1>3, TaskAnswers DEF IInv, Unpublished
<1>5. \A n \in Calls : PathOf[n] \in Calls /\ PathOf[n] # NoCall
  BY HandleAssumption DEF Calls, NoCall
<1>6. session_file.value \in Maybe
  BY DEF IInv, TypeOK, WatchesOK, Cell
<1>7. session_file.value # NoCall => session_file.value \in Calls
  BY <1>6 DEF Maybe
<1>8. CASE KeepsRows
  BY <1>2, <1>4, <1>5, <1>7, <1>8 DEF KeepsRows, Fresh
<1>9. CASE OpensSession
  BY <1>2, <1>4, <1>5, <1>7, <1>9 DEF OpensSession, Fresh
<1>10. CASE AppendsRow
  BY <1>2, <1>4, <1>5, <1>7, <1>10 DEF AppendsRow, Fresh
<1> QED BY <1>1, <1>8, <1>9, <1>10

\* A path is published once, by the start it was made for.
LEMMA FreshHandler ==
  ASSUME OwnPaths, IInv, Lone, OnRoute, Orderly, Tickets, Fresh, pc # "ended",
         NEW c \in Clients, HandlerStep(c)
  PROVE  Fresh'
<1>1. Served(c)
  BY HandlerServes
<1>2. UNCHANGED <<op, ticket, calls, sink, files>>
  BY HandlerFollows DEF IInv, disk
<1>3. \A n \in Calls : Unpublished(n)' => Unpublished(n)
  BY <1>1, <1>2 DEF Served, Unpublished
<1>4. \A n \in Calls : PathOf[n] \in Calls /\ PathOf[n] # NoCall
  BY HandleAssumption DEF Calls, NoCall
<1>5. CASE Publishes(c)
  <2>1. op[c] = "start" /\ at[c] # "idle" /\ ticket[c] \in Calls
    BY <1>5 DEF Publishes, OnRoute, IInv, Routed
  <2>2. Unpublished(ticket[c])
    BY <2>1 DEF Unpublished
  <2>3. files[PathOf[ticket[c]]].rows = <<>>
    BY <2>1, <2>2 DEF Fresh
  <2>4. session_file'.value = PathOf[ticket[c]] /\ at'[c] = "idle"
    BY <1>5 DEF Publishes
  <2>5. ASSUME NEW n \in Calls, Unpublished(n)'
        PROVE  n # ticket[c]
    <3>1. n > calls
      BY <1>1, <1>2, <2>4, <2>5 DEF Served, Unpublished
    <3>2. ticket[c] <= calls /\ calls \in Nat
      BY DEF Tickets, IInv, TypeOK, RequestsOK
    <3> QED BY <2>1, <3>1, <3>2 DEF Calls
  <2>6. \A n \in Calls : Unpublished(n)' => PathOf[n] # PathOf[ticket[c]]
    BY <2>1, <2>5 DEF OwnPaths
  <2> QED BY <1>2, <1>3, <2>3, <2>4, <2>6 DEF Fresh
<1>6. CASE Ends(c)
  BY <1>2, <1>3, <1>4, <1>6 DEF Ends, Fresh
<1>7. CASE ~Publishes(c) /\ ~Ends(c)
  <2>1. UNCHANGED session_file
    BY <1>1, <1>7 DEF Served, Effect, Checks, Claims, Unclaims, Forgets, Pulses, Asks, Orders
  <2> QED BY <1>2, <1>3, <2>1 DEF Fresh
<1> QED BY <1>5, <1>6, <1>7

\* The path of a new request is that of none before.
LEMMA FreshArrival ==
  ASSUME OneByOne, IInv, Tickets, Fresh, NEW c \in Clients, (Paced => Quiet) /\ Arrival(c)
  PROVE  Fresh' /\ Tickets'
<1>1. /\ UNCHANGED <<sink, session_file, files>> /\ calls' = calls + 1 /\ calls \in Nat
      /\ \A d \in Clients : ticket'[d] = ticket[d] \/ ticket'[d] = calls + 1
      /\ \A d \in Clients : at'[d] # "idle" => ticket'[d] = calls + 1
  BY DEF OneByOne, Quiet, Arrival, Request, SetOutputMode, Goto, watches, disk, IInv, TypeOK, RequestsOK
<1>2. \A d \in Clients : ticket[d] \in Nat
  BY DEF IInv, TypeOK, RequestsOK, Maybe, Calls, NoCall
<1>3. Tickets'
  BY <1>1, <1>2 DEF Tickets
<1>4. \A n \in Calls : Unpublished(n)' => Unpublished(n)
  BY <1>1 DEF Unpublished, Calls
<1> QED BY <1>1, <1>3, <1>4 DEF Fresh

\* The task applies a mode that was chosen.
LEMMA ModesKept ==
  ASSUME OwnPaths, TypeOK, Routed, DumpsOnly, [Next]_vars
  PROVE  DumpsOnly'
<1>1. CASE TaskStep
  <2>1. output_mode'.value = output_mode.value
    BY <1>1 DEF TypeOK, WatchesOK, Cell, watches, TaskStep, StraightLine, SelectArm, ExitBeforeOpen,
       OpenPort, OpenFails, DropRunning, DropVerified, DropInfo, RecordAuto, RecordRetry, RecordInfo, AutoVerify,
       AnswerInfo, MetricsTick, SelectShutdown, ReadFails, WriteCommand, TakeInfoRequest, Reverify,
       CloseConnection, InitOutput, LoopTop, ReadChunk
  <2>2. CASE InitOutput \/ LoopTop
    BY <2>1, <2>2 DEF InitOutput, LoopTop, DumpsOnly
  <2>3. CASE ~InitOutput /\ ~LoopTop
    <3>1. /\ current_mode' = current_mode
          /\ pc' \in {"top", "select", "record_retry", "exchange", "record_info"}
             => pc \in {"top", "select", "record_retry", "exchange", "record_info"}
      BY <1>1, <2>3 DEF locals, TaskStep, StraightLine, SelectArm, ExitBeforeOpen, OpenPort, OpenFails,
       DropRunning, DropVerified, DropInfo, RecordAuto, RecordRetry, RecordInfo, AutoVerify,
       AnswerInfo, MetricsTick, SelectShutdown, ReadFails, WriteCommand, TakeInfoRequest, Reverify,
       CloseConnection, ReadChunk
    <3> QED BY <2>1, <3>1 DEF DumpsOnly
  <2> QED BY <2>2, <2>3
<1>2. CASE \E c \in Clients : HandlerStep(c)
  <2>1. PICK c \in Clients : HandlerStep(c)
    BY <1>2
  <2>2. UNCHANGED <<pc, current_mode>>
    BY <2>1, HandlerFollows DEF locals
  <2>3. UNCHANGED output_mode
    BY <2>1 DEF HandlerStep, CheckLink, CheckVerified, CheckRunning, CheckIdle, Claim, SendLogMode,
       SendStart, PublishSession, SendQuit, SendConfig, SendRestart, SendFails, SendCommand,
       ClearRunning, EndSession, Unverify, ForgetInfo, PulseReset, SendInfo, InfoTimesOut, watches
  <2> QED BY <2>2, <2>3 DEF DumpsOnly
<1>3. CASE Environment
  BY <1>3 DEF Environment, BoardEmits, RunExpires, LinkDown, LinkUp, Detach, locals, watches, DumpsOnly
<1>4. CASE \E c \in Clients : Arrival(c)
  BY <1>4 DEF Arrival, Request, SetOutputMode, WatchSend, locals, watches, OwnPaths, DumpsOnly
<1>5. CASE UNCHANGED vars
  BY <1>5 DEF vars, locals, watches, DumpsOnly
<1> QED BY <1>1, <1>2, <1>3, <1>4, <1>5 DEF Next

\* A task that leaves closes its sink at most.
LEMMA LeavingRows ==
  ASSUME IInv, Leaving, TaskStep
  PROVE  \A p \in Calls : files'[p].rows = files[p].rows
<1>1. files \in [Calls -> File] /\ sink \in Maybe
  BY DEF IInv, TypeOK, DiskOK
<1>2. CASE CloseConnection
  BY <1>1, <1>2, FinalisedTyped DEF CloseConnection
<1>3. CASE ~CloseConnection
  <2>1. pc \in {"close", "clear_running", "clear_verified", "clear_info", "ended"}
    BY DEF Leaving
  <2>2. UNCHANGED files
    BY <1>3, <2>1 DEF TaskStep, StraightLine, SelectArm, ExitBeforeOpen, OpenPort, OpenFails,
       DropRunning, DropVerified, DropInfo, RecordAuto, RecordRetry, RecordInfo, AutoVerify,
       AnswerInfo, MetricsTick, SelectShutdown, ReadFails, WriteCommand, TakeInfoRequest, Reverify,
       InitOutput, LoopTop, ReadChunk, disk
  <2> QED BY <2>2
<1> QED BY <1>2, <1>3

\* Only the task touches the disk.
LEMMA OthersKeepFiles ==
  ASSUME TypeOK, Routed, [Next]_vars, ~TaskStep
  PROVE  UNCHANGED <<files, sink>>
BY HandlerFollows DEF Next, vars, disk, Environment, BoardEmits, RunExpires, LinkDown, LinkUp, Detach,
   Arrival, Request, SetOutputMode

\* A request's number was counted.
LEMMA TicketsKept ==
  ASSUME TypeOK, Routed, Tickets,
         TaskStep \/ Environment \/ (\E c \in Clients : HandlerStep(c)) \/ UNCHANGED vars
  PROVE  Tickets' /\ UNCHANGED calls
<1>1. UNCHANGED <<ticket, calls>>
  <2>1. CASE TaskStep
    BY <2>1 DEF TaskStep, StraightLine, SelectArm, ExitBeforeOpen, OpenPort, OpenFails, DropRunning,
     DropVerified, DropInfo, RecordAuto, RecordRetry, RecordInfo, AutoVerify, AnswerInfo,
     MetricsTick, SelectShutdown, ReadFails, WriteCommand, TakeInfoRequest, Reverify,
     CloseConnection, InitOutput, LoopTop, ReadChunk, TaskFrame
  <2>2. CASE ~TaskStep
    BY <2>2, HandlerFollows DEF vars, requests, Environment, BoardEmits, RunExpires, LinkDown,
       LinkUp, Detach
  <2> QED BY <2>1, <2>2
<1> QED BY <1>1 DEF Tickets

\* The next file to be opened is always empty.
THEOREM FilesStayFresh == ASSUME OneByOne, OwnPaths PROVE Spec => []Stored
<1>1. Init => Stored
  <2> SUFFICES ASSUME Init PROVE Stored
    OBVIOUS
  <2>1. DumpsOnly /\ Tickets
    BY DEF Init, DumpsOnly, Tickets, OwnPaths, NoCall
  <2>2. \A n \in Calls : PathOf[n] \in Calls /\ PathOf[n] # NoCall
    BY HandleAssumption DEF Calls, NoCall
  <2>3. Fresh
    BY <2>2 DEF Init, Fresh
  <2> QED BY <2>1, <2>3 DEF Stored
<1>2. IInv /\ Sessions /\ Stored /\ [Next]_vars => Stored'
  <2> SUFFICES ASSUME IInv, Sessions, Stored, [Next]_vars PROVE Stored'
    OBVIOUS
  <2>1. DumpsOnly'
    BY ModesKept DEF Stored, IInv
  <2>2. CASE \E c \in Clients : (Paced => Quiet) /\ Arrival(c)
    <3>1. CASE Leaving
      <4>1. Tickets'
        BY <2>2 DEF Stored, Tickets, Arrival, Request, SetOutputMode, IInv, TypeOK, RequestsOK, Maybe,
           Calls, NoCall
      <4>2. Leaving'
        BY <3>1, LeavingStays
      <4> QED BY <2>1, <4>1, <4>2 DEF Stored
    <3>2. CASE ~Leaving
      BY <2>1, <2>2, <3>2, FreshArrival DEF Stored
    <3> QED BY <3>1, <3>2
  <2>3. CASE TaskStep \/ Environment \/ (\E c \in Clients : HandlerStep(c)) \/ UNCHANGED vars
    <3>1. Tickets' /\ UNCHANGED calls
      BY <2>3, TicketsKept DEF Stored, IInv
    <3>2. CASE Leaving
      BY <2>1, <3>1, <3>2, LeavingStays DEF Stored
    <3>3. CASE ~Leaving /\ TaskStep
      BY <2>1, <3>1, <3>3, FreshTask DEF Stored, Sessions
    <3>4. CASE ~Leaving /\ \E c \in Clients : HandlerStep(c)
      BY <2>1, <3>1, <3>4, FreshHandler DEF Stored, Sessions, Leaving
    <3>5. CASE ~Leaving /\ (Environment \/ UNCHANGED vars)
      <4>1. UNCHANGED <<op, at, ticket, calls, session_file, sink, files>>
        BY <3>1, <3>5 DEF Environment, BoardEmits, RunExpires, LinkDown, LinkUp, Detach, requests, watches,
           disk, vars
      <4>2. Fresh'
        BY <3>5, <4>1 DEF Stored, Fresh, Unpublished
      <4> QED BY <2>1, <3>1, <4>2 DEF Stored
    <3> QED BY <2>3, <3>2, <3>3, <3>4, <3>5
  <2> QED BY <2>2, <2>3 DEF Next
<1> QED BY <1>1, <1>2, IInvHolds, SessionsHold, PTL DEF Spec

-----------------------------------------------------------------------------
\* The files g hold the rows of the files f, at their place.
RowsKept(f, g) ==
  \A p \in Calls : /\ Len(f[p].rows) <= Len(g[p].rows)
                   /\ f[p].rows = SubSeq(g[p].rows, 1, Len(f[p].rows))

LEMMA Prefixes ==
  ASSUME NEW s \in Seq(Calls), NEW t,
         s = t \/ (\E n \in Calls : t = Append(s, n))
  PROVE  Len(s) <= Len(t) /\ s = SubSeq(t, 1, Len(s))
<1>1. CASE s = t
  BY <1>1
<1>2. CASE \E n \in Calls : t = Append(s, n)
  <2>1. PICK n \in Calls : t = Append(s, n)
    BY <1>2
  <2>2. /\ t \in Seq(Calls) /\ Len(t) = Len(s) + 1 /\ Len(s) \in Nat
        /\ \A i \in 1..Len(s) : t[i] = s[i]
    BY <2>1
  <2>3. PICK u : u = SubSeq(t, 1, Len(s))
    OBVIOUS
  <2>4. u \in Seq(Calls) /\ Len(u) = Len(s) /\ \A i \in 1..Len(s) : u[i] = t[i]
    BY <2>2, <2>3
  <2>5. u = s
    BY <2>2, <2>4
  <2> QED BY <2>2, <2>3, <2>5
<1> QED BY <1>1, <1>2

\* Rows that reached a dump file stay in it: no file that holds rows is opened, hence
\* truncated, again (ParquetSink::open; src/src/state.rs:103).
THEOREM RowsStayOnDisk == ASSUME OneByOne, OwnPaths PROVE Spec => RowsSurvive
<1>1. ASSUME IInv, Sessions, Stored, [Next]_vars
      PROVE  RowsKept(files, files')
  <2>1. \A p \in Calls : files[p].rows \in Seq(Calls)
    BY <1>1 DEF IInv, TypeOK, DiskOK, File
  <2>2. ASSUME NEW p \in Calls
        PROVE  \/ files'[p].rows = files[p].rows
               \/ files[p].rows = <<>> /\ files'[p].rows = <<>>
               \/ \E n \in Calls : files'[p].rows = Append(files[p].rows, n)
    <3>1. CASE ~TaskStep
      BY <1>1, <3>1, OthersKeepFiles DEF IInv
    <3>2. CASE TaskStep /\ Leaving
      BY <1>1, <3>2, LeavingRows
    <3>3. CASE TaskStep /\ ~Leaving
      <4>1. KeepsRows \/ OpensSession \/ AppendsRow
        BY <1>1, <3>3, DiskSteps DEF Sessions, Stored
      <4>2. CASE KeepsRows
        BY <4>2 DEF KeepsRows
      <4>3. CASE OpensSession
        <5>1. files[session_file.value].rows = <<>>
          BY <1>1, <3>3, <4>3 DEF OpensSession, Stored, Fresh
        <5> QED BY <4>3, <5>1 DEF OpensSession
      <4>4. CASE AppendsRow
        BY <4>4 DEF AppendsRow
      <4> QED BY <4>1, <4>2, <4>3, <4>4
    <3> QED BY <3>1, <3>2, <3>3
  <2>3. ASSUME NEW p \in Calls
        PROVE  /\ Len(files[p].rows) <= Len(files'[p].rows)
               /\ files[p].rows = SubSeq(files'[p].rows, 1, Len(files[p].rows))
    <3>1. PICK s, t : s = files[p].rows /\ t = files'[p].rows
      OBVIOUS
    <3>2. s \in Seq(Calls)
      BY <2>1, <3>1
    <3>3. s = t \/ (\E n \in Calls : t = Append(s, n))
      BY <2>2, <3>1
    <3>4. Len(s) <= Len(t) /\ s = SubSeq(t, 1, Len(s))
      BY <3>2, <3>3, Prefixes
    <3> QED BY <3>1, <3>4
  <2> QED BY <2>3 DEF RowsKept
<1>2. RowsKept(files, files') =>
        \A p \in Calls : /\ Len(files[p].rows) <= Len(files'[p].rows)
                         /\ files[p].rows = SubSeq(files'[p].rows, 1, Len(files[p].rows))
  BY DEF RowsKept
<1> QED BY <1>1, <1>2, IInvHolds, SessionsHold, FilesStayFresh, PTL DEF Spec, RowsSurvive

=============================================================================
