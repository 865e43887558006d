------------------------ MODULE SessionFiles_proofs ------------------------
(***************************************************************************)
(* The device implements SessionFiles, for clients that wait until it is   *)
(* quiet between two requests, modes that dump, and sessions with paths of *)
(* their own: every file on disk is one session's, from its creation on.   *)
(***************************************************************************)
EXTENDS SerialSessions_proofs

-----------------------------------------------------------------------------
(***************************************************************************)
(* What the refinement needs beyond the invariants of the sessions.        *)
(***************************************************************************)
\* A task that leaves was told to.
GivenUp == (exit = "shutdown" => shutdown) /\ (pc = "ended" => shutdown)

\* No file of a session to come exists; nor does that of the session which lasts, until it
\* is opened.
Untaken ==
  /\ \A n \in Calls : Unpublished(n) =>
        files[PathOf[n]] = Dumping!Absent /\ PathOf[n] # session_file.value
  /\ ~Leaving /\ sink = NoCall /\ session_file.value # NoCall =>
        files[session_file.value] = Dumping!Absent

\* A start that is served while a sink is open is one the claim will refuse.
Refused ==
  \A c \in Clients : op[c] = "start" /\ at[c] # "idle" /\ sink # NoCall =>
    collection_running /\ at[c] \in {"check_link", "check_verified", "claim"}

Prepared == GivenUp /\ Untaken /\ Refused

-----------------------------------------------------------------------------
(***************************************************************************)
(* The steps of the task, on disk.                                         *)
(***************************************************************************)
OpensFile ==
  /\ ~Leaving /\ session_file.value # NoCall /\ sink = NoCall
  /\ sink' = session_file.value /\ files' = Created(files, session_file.value)
RecordsRow ==
  /\ sink # NoCall /\ session_file.value = sink /\ sink' = sink
  /\ \E n \in Calls : PathOf[n] = sink /\ files' = [files EXCEPT ![sink].rows = Append(@, n)]
ClosesFile ==
  /\ sink # NoCall /\ (session_file.value = NoCall \/ Leaving)
  /\ sink' = NoCall /\ files' \in Finalised(files, sink)

\* In a dumping mode the sink is left, or opened for the path.
LEMMA DumpingSyncs ==
  ASSUME NEW mode, Dumps(mode), NEW path, NEW s, NEW f, SyncSink(mode, path, s, f)
  PROVE  \/ sink' = s /\ files' = f
         \/ s = NoCall /\ path # NoCall /\ sink' = path /\ files' = Created(f, path)
BY DEF SyncSink

LEMMA TaskOnDisk ==
  ASSUME IInv, Sessions, Stored, TaskStep
  PROVE  UNCHANGED <<sink, files>> \/ OpensFile \/ RecordsRow \/ ClosesFile
<1>1. CASE CloseConnection
  <2>1. sink' = NoCall /\ files' \in Finalised(files, sink) /\ pc = "close"
    BY <1>1 DEF CloseConnection
  <2>2. session_file.value = NoCall \/ Leaving
    BY <2>1 DEF Sessions, Orderly, InSession, Serving
  <2> QED BY <2>1, <2>2 DEF ClosesFile, Finalised
<1>2. CASE InitOutput
  <2>1. sink = NoCall /\ ~Leaving
    BY <1>2 DEF IInv, SinkScope, InitOutput, Leaving
  <2>2. SyncSink(output_mode.value, session_file.value, NoCall, files)
    BY <1>2 DEF InitOutput, SyncSink
  <2> QED BY <2>1, <2>2, DumpingSyncs DEF Stored, DumpsOnly, OpensFile
<1>3. CASE LoopTop
  <2>1. ~Leaving
    BY <1>3 DEF LoopTop, Leaving
  <2>2. Dumps(current_mode')
    BY <1>3 DEF LoopTop, Stored, DumpsOnly
  <2>3. current_session_path' = session_file.value
    BY <1>3, <2>1 DEF LoopTop, Sessions, Orderly, Sinks
  <2>4. CASE UNCHANGED disk
    BY <2>4 DEF disk
  <2>5. CASE SyncSink(current_mode', current_session_path', sink, files)
    BY <2>1, <2>2, <2>3, <2>5, DumpingSyncs DEF OpensFile
  <2>6. ASSUME SessionEnded, NEW f \in Finalised(files, sink),
               SyncSink(current_mode', current_session_path', NoCall, f)
        PROVE  UNCHANGED <<sink, files>> \/ ClosesFile
    <3>1. sink' = NoCall /\ files' = f /\ session_file.value = NoCall
      BY <2>2, <2>3, <2>6, DumpingSyncs DEF SessionEnded
    <3> QED BY <3>1 DEF ClosesFile, Finalised
  <2> QED BY <1>3, <2>4, <2>5, <2>6, LoopTopSyncs DEF IInv
<1>4. CASE ReadChunk
  <2>1. CASE Records(Head(wire))
    <3>1. Orderly /\ OnRoute
      BY <1>4 DEF Sessions, Leaving, ReadChunk
    <3>2. PICK n : n = Head(wire)
      OBVIOUS
    <3>3. n \in Calls /\ sink \in Calls /\ PathOf[n] = sink
      BY <1>4, <2>1, <3>1, <3>2, RecordedRow
    <3>4. sink # NoCall /\ collection_running
      BY <2>1 DEF Records
    <3>5. session_file.value = sink
      BY <3>1, <3>4 DEF Orderly, Sinks
    <3>6. sink' = sink
      BY <1>4 DEF ReadChunk
    <3>7. files' = [files EXCEPT ![sink].rows = Append(@, n)]
      BY <1>4, <2>1, <3>2, Zenon DEF ReadChunk
    <3> QED BY <3>3, <3>4, <3>5, <3>6, <3>7 DEF RecordsRow
  <2>2. CASE ~Records(Head(wire))
    BY <1>4, <2>2 DEF ReadChunk
  <2> QED BY <2>1, <2>2
<1>5. CASE ~CloseConnection /\ ~InitOutput /\ ~LoopTop /\ ~ReadChunk
  BY <1>5 DEF TaskStep, StraightLine, SelectArm, ExitBeforeOpen, OpenPort, OpenFails, DropRunning,
     DropVerified, DropInfo, RecordAuto, RecordRetry, RecordInfo, AutoVerify, AnswerInfo,
     MetricsTick, SelectShutdown, ReadFails, WriteCommand, TakeInfoRequest, Reverify, disk
<1> QED BY <1>1, <1>2, <1>3, <1>4, <1>5
-----------------------------------------------------------------------------
(***************************************************************************)
(* The device was given up.                                                *)
(***************************************************************************)
LEMMA GivenUpKept ==
  ASSUME TypeOK, Routed, GivenUp, [Next]_vars
  PROVE  GivenUp'
<1>1. CASE TaskStep
  <2>1. shutdown' = shutdown
    BY <1>1 DEF TaskStep, StraightLine, SelectArm, ExitBeforeOpen, OpenPort, OpenFails, DropRunning,
       DropVerified, DropInfo, RecordAuto, RecordRetry, RecordInfo, AutoVerify, AnswerInfo,
       MetricsTick, SelectShutdown, ReadFails, WriteCommand, TakeInfoRequest, Reverify,
       CloseConnection, InitOutput, LoopTop, ReadChunk, TaskFrame
  <2>2. exit' \in {exit, "disconnected"} \/ SelectShutdown
    BY <1>1 DEF TaskStep, StraightLine, SelectArm, ExitBeforeOpen, OpenPort, OpenFails, DropRunning,
       DropVerified, DropInfo, RecordAuto, RecordRetry, RecordInfo, AutoVerify, AnswerInfo,
       MetricsTick, ReadFails, WriteCommand, TakeInfoRequest, Reverify,
       CloseConnection, InitOutput, LoopTop, ReadChunk, Exchange, locals
  <2>3. pc' = "ended" => shutdown
    BY <1>1 DEF TaskStep, StraightLine, SelectArm, ExitBeforeOpen, OpenPort, OpenFails, DropRunning,
       DropVerified, DropInfo, RecordAuto, RecordRetry, RecordInfo, AutoVerify, AnswerInfo,
       MetricsTick, SelectShutdown, ReadFails, WriteCommand, TakeInfoRequest, Reverify,
       CloseConnection, InitOutput, LoopTop, ReadChunk, Outcomes, GivenUp
  <2> QED BY <2>1, <2>2, <2>3 DEF SelectShutdown, GivenUp
<1>2. CASE Environment \/ UNCHANGED vars
  BY <1>2 DEF Environment, BoardEmits, RunExpires, LinkDown, LinkUp, Detach, locals, vars, GivenUp
<1>3. CASE \E c \in Clients : Arrival(c)
  BY <1>3 DEF Arrival, Request, SetOutputMode, locals, GivenUp
<1>4. CASE \E c \in Clients : HandlerStep(c)
  BY <1>4, HandlerFollows DEF locals, GivenUp
<1> QED BY <1>1, <1>2, <1>3, <1>4 DEF Next

LEMMA LeavesGivenUp ==
  ASSUME GivenUp, Leaving
  PROVE  shutdown
BY DEF GivenUp, Leaving

-----------------------------------------------------------------------------
(***************************************************************************)
(* A start that would find a sink open is refused.                         *)
(***************************************************************************)
LEMMA RefusedTask ==
  ASSUME IInv, Sessions, Stored, Refused, TaskStep
  PROVE  Refused'
<1> SUFFICES ASSUME NEW c \in Clients, op'[c] = "start", at'[c] # "idle", sink' # NoCall
             PROVE  collection_running' /\ at'[c] \in {"check_link", "check_verified", "claim"}
  BY DEF Refused
<1>1. op[c] = "start" /\ at[c] # "idle" /\ at'[c] = at[c]
  BY TaskAnswers DEF IInv
<1>2. collection_running /\ at[c] \in {"check_link", "check_verified", "claim"} /\ pc # "open" /\ pc # "clear_running"
  <2>1. CASE sink # NoCall
    BY <1>1, <2>1 DEF Refused, IInv, SinkScope
  <2>2. CASE sink = NoCall
    <3>1. OpensFile
      BY <2>2, TaskOnDisk DEF RecordsRow, ClosesFile
    <3>2. InSession /\ StartAt(c) /\ session_file.value # NoCall
      BY <3>1 DEF OpensFile, Sessions, Orderly, Starts
    <3>3. \A d \in Clients : at[d] # "end_session"
      BY <1>1 DEF Sessions, Lone, OnRoute
    <3>4. collection_running /\ Serving
      BY <3>2, <3>3 DEF InSession
    <3> QED BY <1>1, <3>2, <3>4 DEF StartAt, Serving, Sessions, OnRoute
  <2> QED BY <2>1, <2>2
<1> QED BY <1>1, <1>2, TaskOnHandle DEF IInv, TypeOK, FlagsOK

LEMMA RefusedHandler ==
  ASSUME IInv, Sessions, Refused, NEW d \in Clients, HandlerStep(d)
  PROVE  Refused'
<1> SUFFICES ASSUME NEW c \in Clients, op'[c] = "start", at'[c] # "idle", sink' # NoCall
             PROVE  collection_running' /\ at'[c] \in {"check_link", "check_verified", "claim"}
  BY DEF Refused
<1>1. /\ Follows(d) /\ op' = op /\ sink' = sink /\ pc' = pc
      /\ \A e \in Clients : e # d => at'[e] = at[e]
  BY HandlerFollows DEF IInv, disk
<1>2. pc # "ended"
  BY <1>1 DEF IInv, SinkScope
<1>3. Served(d)
  BY <1>2, HandlerServes DEF Sessions
<1>4. c = d /\ op[c] = "start" /\ at[c] # "idle"
  BY <1>1, <1>3 DEF Served
<1>5. collection_running /\ at[c] \in {"check_link", "check_verified", "claim"}
  BY <1>1, <1>4 DEF Refused
<1>6. at'[c] # "send_mode" /\ collection_running' = collection_running
  BY <1>3, <1>4, <1>5 DEF Served, Effect, Checks, Claims, Publishes, Unclaims, Ends, Forgets, Pulses,
     Asks, Orders
<1> QED BY <1>1, <1>4, <1>5, <1>6 DEF Follows

LEMMA RefusedElsewhere ==
  ASSUME OneByOne, IInv, Sessions, Refused, [Next]_vars, ~TaskStep,
         ~\E c \in Clients : HandlerStep(c)
  PROVE  Refused'
<1>1. CASE Environment \/ UNCHANGED vars
  BY <1>1 DEF Environment, BoardEmits, RunExpires, LinkDown, LinkUp, Detach, requests, flags, disk, vars,
     Refused
<1>2. ASSUME NEW c \in Clients, (Paced => Quiet) /\ Arrival(c)
      PROVE  Refused'
  <2>1. /\ Quiet /\ UNCHANGED <<sink, collection_running>>
        /\ \A d \in Clients : d # c => at'[d] = "idle"
        /\ \/ at'[c] = "idle"
           \/ op'[c] = "reset" /\ at'[c] = "clear_running"
           \/ op'[c] # "reset" /\ at'[c] = "check_link"
    BY <1>2, QuietArrival DEF IInv
  <2>2. sink # NoCall => collection_running
    BY <2>1 DEF Quiet, Sessions, Leaving, Orderly, Sinks, InSession
  <2> QED BY <2>1, <2>2 DEF Refused
<1> QED BY <1>1, <1>2 DEF Next
-----------------------------------------------------------------------------
(***************************************************************************)
(* No file of a session to come exists.                                    *)
(***************************************************************************)
\* The paths, and the files.
LEMMA Typed ==
  ASSUME IInv
  PROVE  /\ \A n \in Calls : PathOf[n] \in Calls
         /\ NoCall \notin Calls
         /\ files \in [Calls -> File] /\ sink \in Maybe
         /\ session_file.value # NoCall => session_file.value \in Calls
         /\ sink # NoCall => sink \in Calls /\ files[sink] # Dumping!Absent
<1>1. NoCall \notin Calls /\ \A n \in Calls : PathOf[n] \in Calls
  BY HandleAssumption DEF Calls, NoCall
<1>2. files \in [Calls -> File] /\ sink \in Maybe /\ session_file.value \in Maybe
  BY DEF IInv, TypeOK, DiskOK, WatchesOK, Cell
<1>3. sink # NoCall => sink \in Calls /\ files[sink].state = "writing"
  BY <1>2 DEF IInv, NoneLeftOpen, Maybe
<1> QED BY <1>1, <1>2, <1>3 DEF Maybe, Dumping!Absent

\* What the task does to the disk leaves every file alone but the open one, or the one
\* that it opens.
LEMMA TaskOnFiles ==
  ASSUME IInv, Sessions, Stored, TaskStep
  PROVE  \A p \in Calls : p # sink /\ p # session_file.value => files'[p] = files[p]
<1>1. files \in [Calls -> File]
  BY Typed
<1>2. CASE OpensFile
  BY <1>1, <1>2 DEF OpensFile, Created
<1>3. CASE RecordsRow
  BY <1>1, <1>3 DEF RecordsRow
<1>4. CASE ClosesFile
  BY <1>1, <1>4 DEF ClosesFile, Finalised
<1> QED BY <1>2, <1>3, <1>4, TaskOnDisk

LEMMA UntakenTask ==
  ASSUME OneByOne, IInv, Sessions, Stored, Untaken, TaskStep
  PROVE  Untaken'
<1>1. session_file'.value = session_file.value
  BY TaskOnHandle DEF IInv
<1>2. UNCHANGED calls /\ \A n \in Calls : Unpublished(n)' => Unpublished(n)
  BY TicketsKept, TaskAnswers DEF IInv, Stored, Unpublished
<1>3. ASSUME NEW n \in Calls, Unpublished(n)'
      PROVE  files'[PathOf[n]] = Dumping!Absent /\ PathOf[n] # session_file'.value
  <2>1. files[PathOf[n]] = Dumping!Absent /\ PathOf[n] # session_file.value
    BY <1>2, <1>3 DEF Untaken
  <2>2. PathOf[n] \in Calls /\ PathOf[n] # sink
    BY <2>1, Typed
  <2> QED BY <1>1, <2>1, <2>2, TaskOnFiles
<1>4. ASSUME ~Leaving', sink' = NoCall, session_file'.value # NoCall
      PROVE  files'[session_file'.value] = Dumping!Absent
  <2>1. ~Leaving /\ session_file.value # NoCall
    BY <1>1, <1>4, LeavingStays DEF Next
  <2>2. UNCHANGED <<sink, files>>
    BY <1>4, <2>1, TaskOnDisk DEF OpensFile, RecordsRow, ClosesFile
  <2> QED BY <1>1, <1>4, <2>1, <2>2 DEF Untaken
<1> QED BY <1>3, <1>4 DEF Untaken, Dumping!Absent

\* A handler changes the session by a publish or by an end, while the task runs.
LEMMA HandlerOnSession ==
  ASSUME IInv, Lone, NEW c \in Clients, HandlerStep(c)
  PROVE  UNCHANGED session_file \/ (Served(c) /\ (Publishes(c) \/ Ends(c)))
<1>1. CASE pc = "ended"
  BY <1>1 DEF HandlerStep, CheckLink, CheckVerified, CheckRunning, CheckIdle, Claim, SendLogMode,
     SendStart, PublishSession, SendQuit, SendConfig, SendRestart, SendFails, SendCommand,
     ClearRunning, EndSession, Unverify, ForgetInfo, PulseReset, SendInfo, InfoTimesOut, watches,
     WatchSend
<1>2. CASE pc # "ended"
  BY <1>2, HandlerServes DEF Served, Effect, Checks, Claims, Unclaims, Forgets, Pulses, Asks, Orders
<1> QED BY <1>1, <1>2

LEMMA UntakenHandler ==
  ASSUME OneByOne, OwnPaths, IInv, Sessions, Stored, Untaken, NEW c \in Clients, HandlerStep(c)
  PROVE  Untaken'
<1>1. /\ UNCHANGED <<op, ticket, calls, sink, files, pc, exit>> /\ Follows(c)
      /\ \A d \in Clients : d # c => at'[d] = at[d]
  BY HandlerFollows DEF IInv, disk, locals
<1>2. \A n \in Calls : Unpublished(n)' => Unpublished(n)
  <2>1. at[c] # "idle"
    BY DEF HandlerStep, CheckLink, CheckVerified, CheckRunning, CheckIdle, Claim,
        SendLogMode, SendStart, PublishSession, SendQuit, SendConfig, SendRestart,
        SendCommand, SendFails, ClearRunning, EndSession, Unverify, ForgetInfo,
        PulseReset, SendInfo, InfoTimesOut
  <2> QED BY <1>1, <2>1 DEF Unpublished
<1>3. Leaving' <=> Leaving
  BY <1>1 DEF Leaving
<1>4. CASE UNCHANGED session_file
  BY <1>1, <1>2, <1>3, <1>4 DEF Untaken, Dumping!Absent
<1>5. CASE Served(c) /\ (Publishes(c) \/ Ends(c))
  <2>1. CASE Publishes(c)
    <3>1. op[c] = "start" /\ at[c] # "idle" /\ ticket[c] \in Calls /\ Unpublished(ticket[c])
      BY <2>1 DEF Publishes, Sessions, OnRoute, IInv, Routed, Unpublished
    <3>2. files[PathOf[ticket[c]]] = Dumping!Absent
      BY <3>1 DEF Untaken
    <3>3. session_file'.value = PathOf[ticket[c]] /\ at'[c] = "idle"
      BY <2>1 DEF Publishes
    <3>4. ASSUME NEW n \in Calls, Unpublished(n)'
          PROVE  n # ticket[c]
      <4>1. n > calls
        BY <1>1, <1>5, <3>3, <3>4 DEF Served, Unpublished
      <4>2. ticket[c] <= calls /\ calls \in Nat
        BY DEF Stored, Tickets, IInv, TypeOK, RequestsOK
      <4> QED BY <3>1, <4>1, <4>2 DEF Calls
    <3>5. \A n \in Calls : Unpublished(n)' => PathOf[n] # PathOf[ticket[c]]
      BY <3>1, <3>4 DEF OwnPaths
    <3> QED BY <1>1, <1>2, <3>2, <3>3, <3>5 DEF Untaken, Dumping!Absent
  <2>2. CASE Ends(c)
    <3>1. session_file'.value = NoCall
      BY <2>2 DEF Ends
    <3> QED BY <1>1, <1>2, <3>1, Typed DEF Untaken, Dumping!Absent
  <2> QED BY <1>5, <2>1, <2>2
<1> QED BY <1>4, <1>5, HandlerOnSession DEF Sessions

LEMMA UntakenElsewhere ==
  ASSUME OneByOne, IInv, Untaken, [Next]_vars, ~TaskStep,
         ~\E c \in Clients : HandlerStep(c)
  PROVE  Untaken'
<1>1. CASE Environment \/ UNCHANGED vars
  BY <1>1 DEF Environment, BoardEmits, RunExpires, LinkDown, LinkUp, Detach, requests, watches, locals,
     disk, vars, Untaken, Unpublished, Leaving, Dumping!Absent
<1>2. ASSUME NEW c \in Clients, (Paced => Quiet) /\ Arrival(c)
      PROVE  Untaken'
  <2>1. /\ UNCHANGED <<sink, session_file, files, pc, exit>> /\ calls' = calls + 1 /\ calls \in Nat
        /\ \A d \in Clients : at'[d] # "idle" => ticket'[d] = calls + 1
    BY <1>2 DEF OneByOne, Quiet, Arrival, Request, SetOutputMode, Goto, watches, disk, locals, IInv,
       TypeOK, RequestsOK
  <2>2. \A n \in Calls : Unpublished(n)' => Unpublished(n)
    BY <2>1 DEF Unpublished, Calls
  <2> QED BY <2>1, <2>2 DEF Untaken, Leaving, Dumping!Absent
<1> QED BY <1>1, <1>2 DEF Next
-----------------------------------------------------------------------------
(***************************************************************************)
(* The refinement.                                                         *)
(***************************************************************************)
\* The task opens, records and closes; it leaves the session and the token alone.
LEMMA TaskRefines ==
  ASSUME IInv, Sessions, Stored, Prepared, TaskStep
  PROVE  [Dumping!Next]_(Dumping!vars)
<1> USE DEF Dumping!Next, Dumping!vars
<1>1. session_file'.value = session_file.value
  BY TaskOnHandle DEF IInv
<1>2. shutdown' = shutdown
  BY DEF TaskStep, StraightLine, SelectArm, ExitBeforeOpen, OpenPort, OpenFails, DropRunning,
     DropVerified, DropInfo, RecordAuto, RecordRetry, RecordInfo, AutoVerify, AnswerInfo,
     MetricsTick, SelectShutdown, ReadFails, WriteCommand, TakeInfoRequest, Reverify,
     CloseConnection, InitOutput, LoopTop, ReadChunk, TaskFrame
<1>3. CASE OpensFile
  <2>1. files[session_file.value] = Dumping!Absent
    BY <1>3 DEF OpensFile, Prepared, Untaken
  <2>2. Dumping!Open
    BY <1>1, <1>2, <1>3, <2>1 DEF OpensFile, Created, Dumping!Open, Dumping!Empty
  <2> QED BY <2>2
<1>4. CASE RecordsRow
  <2>1. PICK n \in Calls : PathOf[n] = sink /\ files' = [files EXCEPT ![sink].rows = Append(@, n)]
    BY <1>4 DEF RecordsRow
  <2>2. sink # NoCall /\ session_file.value = sink /\ sink' = sink
    BY <1>4 DEF RecordsRow
  <2>3. Dumping!Record(n)
    BY <1>1, <1>2, <2>1, <2>2 DEF Dumping!Record
  <2> QED BY <2>3
<1>5. CASE ClosesFile
  <2>1. \E e \in {"readable", "broken"} : files' = [files EXCEPT ![sink].state = e]
    BY <1>5 DEF ClosesFile, Finalised
  <2>2. session_file.value # sink \/ shutdown
    BY <1>5, LeavesGivenUp DEF ClosesFile, Prepared
  <2>3. Dumping!Close
    BY <1>1, <1>2, <1>5, <2>1, <2>2 DEF ClosesFile, Dumping!Close
  <2> QED BY <2>3
<1>6. CASE UNCHANGED <<sink, files>>
  BY <1>1, <1>2, <1>6
<1> QED BY <1>3, <1>4, <1>5, <1>6, TaskOnDisk

\* A publish begins the session, and an end ends it.
LEMMA HandlerRefines ==
  ASSUME IInv, Sessions, Prepared, NEW c \in Clients, HandlerStep(c)
  PROVE  [Dumping!Next]_(Dumping!vars)
<1> USE DEF Dumping!Next, Dumping!vars
<1>1. UNCHANGED <<sink, files, shutdown>>
  BY HandlerFollows DEF IInv, disk
<1>2. CASE UNCHANGED session_file
  BY <1>1, <1>2
<1>3. CASE Publishes(c) \/ Ends(c)
  <2>1. CASE Publishes(c)
    <3>1. /\ op[c] = "start" /\ at[c] = "publish" /\ ticket[c] \in Calls /\ Unpublished(ticket[c])
          /\ session_file'.value = PathOf[ticket[c]]
      BY <2>1 DEF Publishes, Sessions, OnRoute, IInv, Routed, Unpublished
    <3>2. PICK p \in Calls : p = PathOf[ticket[c]]
      BY <3>1, Typed
    <3>3. files[p] = Dumping!Absent
      BY <3>1, <3>2 DEF Prepared, Untaken
    <3>4. sink = NoCall
      BY <3>1 DEF Prepared, Refused
    <3>5. session_file.value = NoCall \/ shutdown
      BY <3>1, LeavesGivenUp DEF Sessions, Orderly, Starts, StartAt, Prepared
    <3>6. Dumping!Begin(p)
      BY <1>1, <3>1, <3>2, <3>3, <3>4, <3>5 DEF Dumping!Begin
    <3> QED BY <3>6
  <2>2. CASE Ends(c)
    <3>1. Dumping!End
      BY <1>1, <2>2 DEF Ends, Dumping!End
    <3> QED BY <3>1
  <2> QED BY <1>3, <2>1, <2>2
<1> QED BY <1>2, <1>3, HandlerOnSession DEF Sessions

\* Nothing else in the system shows, but the supervisor's cancellation.
LEMMA OthersRefine ==
  ASSUME [Next]_vars, ~TaskStep, ~\E c \in Clients : HandlerStep(c)
  PROVE  [Dumping!Next]_(Dumping!vars)
<1>1. Detach => Dumping!Detach
  BY DEF Detach, watches, disk, Dumping!Detach
<1>2. ~Detach => UNCHANGED <<session_file, sink, files, shutdown>>
  BY DEF Next, Environment, BoardEmits, RunExpires, LinkDown, LinkUp, Arrival, Request, SetOutputMode,
     watches, disk, vars
<1> QED BY <1>1, <1>2 DEF Dumping!Next, Dumping!vars

THEOREM SessionsPrepared == ASSUME OneByOne, OwnPaths PROVE Spec => []Prepared
<1>1. Init => Prepared
  <2> SUFFICES ASSUME Init PROVE Prepared
    OBVIOUS
  <2>1. \A n \in Calls : PathOf[n] \in Calls /\ PathOf[n] # NoCall
    BY HandleAssumption DEF Calls, NoCall
  <2> QED BY <2>1 DEF Init, Prepared, GivenUp, Untaken, Refused, Dumping!Absent
<1>2. IInv /\ Sessions /\ Stored /\ Prepared /\ [Next]_vars => Prepared'
  <2> SUFFICES ASSUME IInv, Sessions, Stored, Prepared, [Next]_vars PROVE Prepared'
    OBVIOUS
  <2>1. GivenUp'
    BY GivenUpKept DEF IInv, Prepared
  <2>2. Untaken'
    BY UntakenTask, UntakenHandler, UntakenElsewhere DEF Prepared
  <2>3. Refused'
    BY RefusedTask, RefusedHandler, RefusedElsewhere DEF Prepared
  <2> QED BY <2>1, <2>2, <2>3 DEF Prepared
<1> QED BY <1>1, <1>2, IInvHolds, SessionsHold, FilesStayFresh, PTL DEF Spec

\* Each collection session writes one Parquet file (src/src/parquet_sink.rs:3): whatever the
\* requests, the board and the supervisor do, what happens on disk is a behaviour of
\* SessionFiles.
THEOREM ImplementsSessionFiles == ASSUME OneByOne, OwnPaths PROVE Spec => OneFilePerSession
<1>1. Init => Dumping!Init
  BY DEF Init, Dumping!Init, Dumping!Absent
<1>2. IInv /\ Sessions /\ Stored /\ Prepared /\ [Next]_vars => [Dumping!Next]_(Dumping!vars)
  BY TaskRefines, HandlerRefines, OthersRefine
<1> QED BY <1>1, <1>2, IInvHolds, SessionsHold, FilesStayFresh, SessionsPrepared, PTL
        DEF Spec, OneFilePerSession, Dumping!Spec

=============================================================================
