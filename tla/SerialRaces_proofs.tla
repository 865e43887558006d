------------------------ MODULE SerialRaces_proofs ------------------------
(***************************************************************************)
(* What requests that race each other and the serial task cannot break,    *)
(* for every number of clients and requests: the two records of the        *)
(* firmware's identity agree unless a reset interferes; the board of a     *)
(* device that stays plugged in and is neither reset nor asked for its     *)
(* info runs serialized; and a command reaches unverified firmware only    *)
(* if the verification lapses between the check of a route and the write.  *)
(* Each theorem names what it excludes; README.md shows what that breaks.  *)
(***************************************************************************)
EXTENDS SerialDevice_proofs

-----------------------------------------------------------------------------
(***************************************************************************)
(* Frames.                                                                 *)
(***************************************************************************)
\* The routes of the handlers: where a handler may go next, and for which request.
Follows(c) ==
  \/ at'[c] = "idle"
  \/ at[c] = "check_link" /\ op[c] = "info" /\ at'[c] = "check_idle"
  \/ at[c] = "check_link" /\ op[c] = "reset" /\ at'[c] \in {"send_restart", "pulse"}
  \/ at[c] = "check_link" /\ op[c] \notin {"info", "reset"} /\ at'[c] = "check_verified"
  \/ at[c] = "check_verified" /\ op[c] = "start" /\ firmware_verified /\ at'[c] = "claim"
  \/ at[c] = "check_verified" /\ op[c] = "stop" /\ firmware_verified /\ at'[c] = "check_running"
  \/ at[c] = "check_verified" /\ op[c] = "config" /\ firmware_verified /\ at'[c] = "send_config"
  \/ at[c] = "check_running" /\ at'[c] = "send_quit"
  \/ at[c] = "send_quit" /\ at'[c] = "clear_running"
  \/ at[c] = "claim" /\ at'[c] = "send_mode"
  \/ at[c] = "send_mode" /\ at'[c] = "send_start"
  \/ at[c] = "send_start" /\ at'[c] = "publish"
  \/ at[c] = "clear_running" /\ at'[c] = "end_session"
  \/ at[c] = "end_session" /\ op[c] # "stop" /\ at'[c] = "unverify"
  \/ at[c] = "unverify" /\ at'[c] = "forget_info"
  \/ at[c] = "forget_info" /\ at'[c] = "check_link"
  \/ at[c] \in {"check_idle", "pulse"} /\ at'[c] = "send_info"
  \/ at[c] = "send_info" /\ at'[c] = "await_info"

\* Every step of a handler follows its route, and touches neither the task's side nor
\* another handler's place.
LEMMA HandlerFollows ==
  ASSUME TypeOK, Routed, NEW c \in Clients, HandlerStep(c)
  PROVE  /\ Follows(c)
         /\ \A d \in Clients : d # c => at'[d] = at[d]
         /\ UNCHANGED <<op, ticket, calls, pc, locals, disk, shutdown>>
<1> USE DEF TypeOK, RequestsOK
<1>1. CASE CheckLink(c)
  BY <1>1 DEF CheckLink, HandlerFrame, Goto, Respond, Follows
<1>2. CASE CheckVerified(c)
  BY <1>2 DEF CheckVerified, HandlerFrame, Goto, Respond, Follows, Routed
<1>3. CASE CheckRunning(c)
  BY <1>3 DEF CheckRunning, HandlerFrame, Goto, Respond, Follows
<1>4. CASE CheckIdle(c)
  BY <1>4 DEF CheckIdle, HandlerFrame, Goto, Respond, Follows
<1>5. CASE Claim(c)
  BY <1>5 DEF Claim, HandlerFrame, Goto, Respond, Follows
<1>6. CASE SendLogMode(c)
  BY <1>6 DEF SendLogMode, SendCommand, HandlerFrame, Goto, Respond, Follows
<1>7. CASE SendStart(c)
  BY <1>7 DEF SendStart, HandlerFrame, Goto, Respond, Follows
<1>8. CASE PublishSession(c)
  BY <1>8 DEF PublishSession, HandlerFrame, Goto, Respond, Follows
<1>9. CASE SendQuit(c)
  BY <1>9 DEF SendQuit, SendCommand, HandlerFrame, Goto, Respond, Follows
<1>10. CASE SendConfig(c)
  BY <1>10 DEF SendConfig, SendCommand, HandlerFrame, Goto, Respond, Follows
<1>11. CASE SendRestart(c)
  BY <1>11 DEF SendRestart, SendCommand, HandlerFrame, Goto, Respond, Follows
<1>12. CASE SendFails(c)
  BY <1>12 DEF SendFails, HandlerFrame, Goto, Respond, Follows
<1>13. CASE ClearRunning(c)
  BY <1>13 DEF ClearRunning, HandlerFrame, Goto, Respond, Follows
<1>14. CASE EndSession(c)
  BY <1>14 DEF EndSession, HandlerFrame, Goto, Respond, Follows
<1>15. CASE Unverify(c)
  BY <1>15 DEF Unverify, HandlerFrame, Goto, Respond, Follows
<1>16. CASE ForgetInfo(c)
  BY <1>16 DEF ForgetInfo, HandlerFrame, Goto, Respond, Follows
<1>17. CASE PulseReset(c)
  BY <1>17 DEF PulseReset, HandlerFrame, Goto, Respond, Follows
<1>18. CASE SendInfo(c)
  BY <1>18 DEF SendInfo, HandlerFrame, Goto, Respond, Follows
<1>19. CASE InfoTimesOut(c)
  BY <1>19 DEF InfoTimesOut, HandlerFrame, Goto, Respond, Follows
<1> QED BY <1>1, <1>2, <1>3, <1>4, <1>5, <1>6, <1>7, <1>8, <1>9, <1>10, <1>11,
            <1>12, <1>13, <1>14, <1>15, <1>16, <1>17, <1>18, <1>19 DEF HandlerStep

\* All the task and the environment do to a handler is to answer it.
LEMMA OthersAnswer ==
  ASSUME TypeOK, TaskStep \/ Environment
  PROVE  op' = op /\ \A c \in Clients : at'[c] = at[c] \/ at'[c] = "idle"
<1>1. CASE Environment
  BY <1>1 DEF Environment, BoardEmits, RunExpires, LinkDown, LinkUp, Detach, requests
<1>2. CASE RecordInfo \/ TakeInfoRequest
  BY <1>2 DEF RecordInfo, TakeInfoRequest, TaskFrame, Reply
<1>3. CASE TaskStep /\ ~RecordInfo /\ ~TakeInfoRequest
  BY <1>3 DEF TaskStep, StraightLine, SelectArm, ExitBeforeOpen, OpenPort, OpenFails, CloseConnection,
      DropRunning, DropVerified, DropInfo, RecordAuto, InitOutput, LoopTop, RecordRetry,
      AutoVerify, AnswerInfo, MetricsTick, SelectShutdown, ReadChunk, ReadFails,
      WriteCommand, Reverify, TaskFrame
<1> QED BY <1>1, <1>2, <1>3

-----------------------------------------------------------------------------
(***************************************************************************)
(* The identity: firmware_verified and device_info.                        *)
(***************************************************************************)
\* Without reset, the handlers of stop are alone at the stores that end a session, and
\* none is at those that clear the identity.
ResetFree ==
  \A c \in Clients :
    /\ op[c] # "reset" /\ at[c] \notin {"unverify", "forget_info"}
    /\ at[c] \in {"check_running", "send_quit", "clear_running", "end_session"} => op[c] = "stop"

\* How the two records relate at each step of the task: it stores firmware_verified
\* first and device_info at its next step (src/src/serial.rs:516-517, 926-927), and takes
\* them back in the same order (src/src/serial.rs:388-389).  IdentityCoherent needs it.
IdentityAt ==
  /\ pc \in {"record_auto", "record_info"} => (firmware_verified <=> result = "ok")
  /\ pc = "record_retry" => firmware_verified
  /\ pc = "clear_info" => ~firmware_verified
  /\ pc \notin {"record_auto", "record_info", "record_retry", "clear_info"}
        => (firmware_verified <=> device_info)

\* A request that may arrive is not a reset, and a handler stays on its route.
LEMMA ResetFreeKept ==
  ASSUME "reset" \notin Ops, IInv, ResetFree, [Next]_vars
  PROVE  ResetFree'
<1> USE DEF IInv, TypeOK, RequestsOK
<1>1. CASE TaskStep \/ Environment
  <2>1. op' = op /\ \A c \in Clients : at'[c] = at[c] \/ at'[c] = "idle"
    BY <1>1, OthersAnswer
  <2> QED BY <2>1 DEF ResetFree
<1>2. ASSUME NEW c \in Clients, Arrival(c)
      PROVE  ResetFree'
  <2>1. CASE \E o \in Ops \ {"mode"} : Request(c, o)
    BY <2>1 DEF Request, Goto, FirstStep, ResetFree
  <2>2. CASE \E m \in Modes : SetOutputMode(c, m)
    BY <2>2 DEF SetOutputMode, ResetFree
  <2> QED BY <1>2, <2>1, <2>2 DEF Arrival
<1>3. ASSUME NEW c \in Clients, HandlerStep(c)
      PROVE  ResetFree'
  <2>1. Follows(c) /\ op' = op /\ \A d \in Clients : d # c => at'[d] = at[d]
    BY <1>3, HandlerFollows
  <2>2. /\ at'[c] \notin {"unverify", "forget_info"}
        /\ at'[c] \in {"check_running", "send_quit", "clear_running", "end_session"} => op[c] = "stop"
    BY <2>1 DEF ResetFree, Follows
  <2> QED BY <2>1, <2>2 DEF ResetFree
<1>4. CASE UNCHANGED vars
  BY <1>4 DEF vars, requests, ResetFree
<1> QED BY <1>1, <1>2, <1>3, <1>4 DEF Next

\* Handlers that do not reset, and the board's side, touch neither record of the identity.
LEMMA IdentityUntouched ==
  ASSUME IInv, ResetFree, \/ Environment
                          \/ \E c \in Clients : HandlerStep(c) \/ Arrival(c)
                          \/ UNCHANGED vars
  PROVE  UNCHANGED <<firmware_verified, device_info, pc, result>>
<1>1. CASE Environment
  BY <1>1 DEF Environment, BoardEmits, RunExpires, LinkDown, LinkUp, Detach, flags, locals
<1>2. ASSUME NEW c \in Clients, HandlerStep(c)
      PROVE  UNCHANGED <<firmware_verified, device_info, pc, result>>
  <2>1. ~Unverify(c) /\ ~ForgetInfo(c)
    BY DEF ResetFree, Unverify, ForgetInfo
  <2>2. UNCHANGED <<firmware_verified, device_info>>
    BY <1>2, <2>1 DEF HandlerStep, CheckLink, CheckVerified, CheckRunning, CheckIdle, Claim,
        SendLogMode, SendStart, PublishSession, SendQuit, SendConfig, SendRestart,
        SendCommand, SendFails, ClearRunning, EndSession, PulseReset, SendInfo,
        InfoTimesOut, flags
  <2>3. UNCHANGED <<pc, locals>>
    BY <1>2, HandlerFollows DEF IInv
  <2> QED BY <2>2, <2>3 DEF locals
<1>3. ASSUME NEW c \in Clients, Arrival(c)
      PROVE  UNCHANGED <<firmware_verified, device_info, pc, result>>
  BY <1>3 DEF Arrival, Request, SetOutputMode, flags, locals
<1>4. CASE UNCHANGED vars
  BY <1>4 DEF vars, flags, locals
<1> QED BY <1>1, <1>2, <1>3, <1>4

\* Every step of the task takes the two records from one relation to the next.
LEMMA IdentityStep ==
  ASSUME IInv, IdentityAt, TaskStep
  PROVE  IdentityAt'
<1> USE DEF IdentityAt, flags, locals
<1>0. firmware_verified \in BOOLEAN /\ device_info \in BOOLEAN /\ result \in Outcomes
  BY DEF IInv, TypeOK, FlagsOK, LocalsOK
<1>1. CASE ExitBeforeOpen
  BY <1>0, <1>1 DEF ExitBeforeOpen
<1>2. CASE OpenPort
  BY <1>0, <1>2 DEF OpenPort
<1>3. CASE OpenFails
  BY <1>0, <1>3 DEF OpenFails
<1>4. CASE CloseConnection
  BY <1>0, <1>4 DEF CloseConnection
<1>5. CASE DropRunning
  BY <1>0, <1>5 DEF DropRunning
<1>6. CASE DropVerified
  BY <1>0, <1>6 DEF DropVerified
<1>7. CASE DropInfo
  BY <1>0, <1>7 DEF DropInfo
<1>8. CASE RecordAuto
  BY <1>0, <1>8 DEF RecordAuto
<1>9. CASE InitOutput
  BY <1>0, <1>9 DEF InitOutput
<1>10. CASE LoopTop
  BY <1>0, <1>10 DEF LoopTop
<1>11. CASE RecordRetry
  BY <1>0, <1>11 DEF RecordRetry
<1>12. CASE RecordInfo
  BY <1>0, <1>12 DEF RecordInfo
<1>13. CASE MetricsTick
  BY <1>0, <1>13 DEF MetricsTick
<1>14. CASE SelectShutdown
  BY <1>0, <1>14 DEF SelectShutdown
<1>15. CASE ReadChunk
  BY <1>0, <1>15 DEF ReadChunk
<1>16. CASE ReadFails
  BY <1>0, <1>16 DEF ReadFails
<1>17. CASE WriteCommand
  BY <1>0, <1>17 DEF WriteCommand
<1>18. CASE TakeInfoRequest
  BY <1>0, <1>18 DEF TakeInfoRequest
<1>19. ASSUME NEW r \in Outcomes, AutoVerify(r) PROVE IdentityAt'
  BY <1>0, <1>19 DEF AutoVerify, Exchange, Outcomes
<1>20. ASSUME NEW r \in Outcomes, AnswerInfo(r) PROVE IdentityAt'
  BY <1>0, <1>20 DEF AnswerInfo, Exchange, Outcomes
<1>21. ASSUME NEW r \in Outcomes, Reverify(r) PROVE IdentityAt'
  BY <1>0, <1>21 DEF Reverify, Exchange, Outcomes
<1> QED BY <1>1, <1>2, <1>3, <1>4, <1>5, <1>6, <1>7, <1>8, <1>9, <1>10, <1>11,
            <1>12, <1>13, <1>14, <1>15, <1>16, <1>17, <1>18, <1>19, <1>20, <1>21 DEF TaskStep,
            StraightLine, SelectArm

\* While the task waits, device_info is Some exactly when the firmware is verified
\* (src/src/state.rs:110-111), whatever start, stop, info, setters, unplugging and the
\* supervisor do in the meantime: reset alone stores the two from another thread.
THEOREM IdentityAgrees == ASSUME "reset" \notin Ops PROVE Spec => []IdentityCoherent
<1>1. Init => ResetFree /\ IdentityAt
  BY DEF Init, ResetFree, IdentityAt
<1>2. IInv /\ ResetFree /\ IdentityAt /\ [Next]_vars => ResetFree' /\ IdentityAt'
  <2> SUFFICES ASSUME IInv, ResetFree, IdentityAt, [Next]_vars
               PROVE  ResetFree' /\ IdentityAt'
    OBVIOUS
  <2>1. CASE TaskStep
    BY <2>1, IdentityStep, ResetFreeKept
  <2>2. CASE ~TaskStep
    <3>1. UNCHANGED <<firmware_verified, device_info, pc, result>>
      BY <2>2, IdentityUntouched DEF Next
    <3> QED BY <3>1, ResetFreeKept DEF IdentityAt
  <2> QED BY <2>1, <2>2
<1>3. IdentityAt => IdentityCoherent
  BY DEF IdentityAt, IdentityCoherent
<1> QED BY <1>1, <1>2, <1>3, IInvHolds, PTL DEF Spec

-----------------------------------------------------------------------------
(***************************************************************************)
(* Kinds of commands in the channel.                                       *)
(***************************************************************************)
\* A command of the kind is in the channel.
Has(s, kind) == \E i \in 1..Len(s) : s[i].kind = kind

\* There are not two starts in it.
OneOf(s) == \A i, j \in 1..Len(s) : s[i].kind = "start" /\ s[j].kind = "start" => i = j

\* Ahead of a start there is a set-log-mode, unless the board runs serialized.
ModeFirst(s, serialized) ==
  \A i \in 1..Len(s) : s[i].kind = "start" =>
     serialized \/ \E j \in 1..Len(s) : j < i /\ s[j].kind = "set-log-mode"

\* What a send adds to the channel.
LEMMA SentKinds ==
  ASSUME NEW s \in Seq(Command), NEW k, NEW n, NEW serialized,
         Cmd(k, n) \in Command
  PROVE  /\ \A kind : Has(Append(s, Cmd(k, n)), kind) <=> Has(s, kind) \/ kind = k
         /\ OneOf(s) /\ (k = "start" => ~Has(s, "start")) => OneOf(Append(s, Cmd(k, n)))
         /\ ModeFirst(s, serialized) /\ (k = "start" => serialized \/ Has(s, "set-log-mode"))
               => ModeFirst(Append(s, Cmd(k, n)), serialized)
<1> DEFINE t == Append(s, Cmd(k, n))
<1>1. /\ Len(s) \in Nat /\ Len(t) = Len(s) + 1
      /\ \A i \in 1..Len(s) : t[i] = s[i]
      /\ t[Len(s) + 1].kind = k
  BY DEF Cmd
<1> HIDE DEF t
<1>2. 1..Len(t) = 1..Len(s) \cup {Len(s) + 1}
  BY <1>1
<1>3. \A kind : Has(t, kind) <=> Has(s, kind) \/ kind = k
  BY <1>1, <1>2 DEF Has
<1>4. OneOf(s) /\ (k = "start" => ~Has(s, "start")) => OneOf(t)
  BY <1>1, <1>2 DEF Has, OneOf
<1>5. ASSUME ModeFirst(s, serialized), k = "start" => serialized \/ Has(s, "set-log-mode")
      PROVE  ModeFirst(t, serialized)
  <2>1. ASSUME NEW i \in 1..Len(s), t[i].kind = "start", ~serialized
        PROVE  \E j \in 1..Len(t) : j < i /\ t[j].kind = "set-log-mode"
    BY <1>1, <1>2, <1>5, <2>1 DEF ModeFirst
  <2>2. ASSUME t[Len(s) + 1].kind = "start", ~serialized
        PROVE  \E j \in 1..Len(t) : j < Len(s) + 1 /\ t[j].kind = "set-log-mode"
    BY <1>1, <1>2, <1>5, <2>2 DEF Has
  <2> QED BY <1>2, <2>1, <2>2 DEF ModeFirst
<1> QED BY <1>3, <1>4, <1>5 DEF t

\* What a receive leaves in it; the command received may have been the set-log-mode.
LEMMA ReceivedKinds ==
  ASSUME NEW s \in Seq(Command), s # <<>>, NEW serialized \in BOOLEAN
  PROVE  /\ Has(s, Head(s).kind)
         /\ \A kind : Has(Tail(s), kind) => Has(s, kind)
         /\ \A kind : Has(s, kind) => Has(Tail(s), kind) \/ Head(s).kind = kind
         /\ OneOf(s) => OneOf(Tail(s)) /\ (Head(s).kind = "start" => ~Has(Tail(s), "start"))
         /\ ModeFirst(s, serialized) =>
               /\ ModeFirst(Tail(s), serialized \/ Head(s).kind = "set-log-mode")
               /\ Head(s).kind = "start" => serialized
<1> DEFINE t == Tail(s)
<1>1. /\ Len(s) \in Nat \ {0} /\ Len(t) = Len(s) - 1
      /\ \A i \in 1..Len(t) : t[i] = s[i + 1]
      /\ Head(s) = s[1]
  OBVIOUS
<1> HIDE DEF t
<1>2. /\ 1 \in 1..Len(s)
      /\ \A i \in 1..Len(t) : i + 1 \in 1..Len(s) /\ i + 1 # 1
      /\ \A i \in 1..Len(s) : i # 1 => i - 1 \in 1..Len(t) /\ t[i - 1] = s[i]
  BY <1>1
<1>3. /\ Has(s, Head(s).kind)
      /\ \A kind : Has(t, kind) => Has(s, kind)
      /\ \A kind : Has(s, kind) => Has(t, kind) \/ Head(s).kind = kind
  BY <1>1, <1>2 DEF Has
<1>4. ASSUME OneOf(s)
      PROVE  OneOf(t) /\ (Head(s).kind = "start" => ~Has(t, "start"))
  <2>1. ASSUME NEW i \in 1..Len(t), NEW j \in 1..Len(t), t[i].kind = "start", t[j].kind = "start"
        PROVE  i = j
    <3>1. i + 1 = j + 1
      BY <1>1, <1>2, <1>4, <2>1 DEF OneOf
    <3> QED BY <3>1
  <2>2. ASSUME Head(s).kind = "start", NEW i \in 1..Len(t), t[i].kind = "start"
        PROVE  FALSE
    <3>1. i + 1 = 1
      BY <1>1, <1>2, <1>4, <2>2 DEF OneOf
    <3> QED BY <3>1
  <2> QED BY <2>1, <2>2 DEF OneOf, Has
<1>5. ASSUME ModeFirst(s, serialized)
      PROVE  /\ ModeFirst(t, serialized \/ Head(s).kind = "set-log-mode")
             /\ Head(s).kind = "start" => serialized
  <2>1. ASSUME NEW i \in 1..Len(t), t[i].kind = "start", ~serialized, Head(s).kind # "set-log-mode"
        PROVE  \E j \in 1..Len(t) : j < i /\ t[j].kind = "set-log-mode"
    <3>1. PICK j \in 1..Len(s) : j < i + 1 /\ s[j].kind = "set-log-mode"
      BY <1>1, <1>2, <1>5, <2>1 DEF ModeFirst
    <3>2. j - 1 \in 1..Len(t) /\ t[j - 1] = s[j] /\ j - 1 < i
      BY <1>1, <1>2, <2>1, <3>1
    <3> QED BY <3>1, <3>2
  <2>2. Head(s).kind = "start" => serialized
    BY <1>1, <1>2, <1>5 DEF ModeFirst
  <2> QED BY <2>1, <2>2 DEF ModeFirst
<1> QED BY <1>3, <1>4, <1>5 DEF t

\* A command other than restart leaves the log mode alone or sets it; the board collects
\* only if it did or if the command was a start.
LEMMA ObeyKinds ==
  ASSUME NEW b \in Board, NEW cmd \in Command, cmd.kind # "restart", b.collecting => b.serialized
  PROVE  /\ Obey(b, cmd).serialized <=> b.serialized \/ cmd.kind = "set-log-mode"
         /\ Obey(b, cmd).collecting => b.collecting \/ cmd.kind = "start"
<1>1. b.collecting \in BOOLEAN /\ b.serialized \in BOOLEAN
  BY DEF Board
<1>2. cmd.kind \in {"set-log-mode", "start", "q", "restart", "config"}
  BY DEF Command
<1> QED BY <1>1, <1>2 DEF Obey, Board

-----------------------------------------------------------------------------
(***************************************************************************)
(* A device that stays plugged in and is neither reset nor asked for info. *)
(***************************************************************************)
\* What is assumed of the users and of the cable.
Undisturbed == MaxDrops = 0 /\ "reset" \notin Ops /\ "info" \notin Ops

\* No handler and no step of the task then serves an info request or a reset.
Plain ==
  /\ ResetFree
  /\ \A c \in Clients :
        /\ op[c] # "info"
        /\ at[c] \notin {"check_idle", "send_restart", "pulse", "send_info", "await_info"}
  /\ info_ch = <<>> /\ pc \notin {"exchange", "record_info"}

\* A handler that went past the check of the verification and may still send.
Past(c) == at[c] \in {"claim", "send_mode", "send_start", "publish",
                      "check_running", "send_quit", "send_config"}

\* The phases of the task.  Once it serves verified firmware nothing boots the board
\* again: the re-verify arm is off, and the link is not lost.
Serving ==
  /\ firmware_verified /\ link = "held"
  /\ pc \in {"record_auto", "init", "top", "select", "record_retry"}
  /\ pc = "select" => ~reverify_on
  /\ pc = "record_auto" => result = "ok"

\* It was cancelled and will not receive a command again.
Leaving == \/ pc = "ended"
           \/ exit = "shutdown" /\ pc \in {"close", "clear_running", "clear_verified", "clear_info"}

\* Until the firmware is verified no command is on its way: the check turns its request
\* away (require_firmware, src/src/state.rs:137-145).
Apart == ~firmware_verified /\ cmd_ch = <<>> /\ \A c \in Clients : ~Past(c)

Phases == Serving \/ Leaving \/ Apart

\* start's two commands reach the board in order: whatever the channel and the handlers
\* interleave, a set-log-mode was sent before each start (src/src/routes/control.rs:296-300).
InOrder ==
  /\ ~Has(cmd_ch, "restart")
  /\ ModeFirst(cmd_ch, board.serialized)
  /\ board.collecting => board.serialized
  /\ \A c \in Clients : at[c] = "send_start" =>
        board.serialized \/ pc = "ended" \/ Has(cmd_ch, "set-log-mode")

Calm == Plain /\ Phases /\ InOrder

\* The routes of such requests.
LEMMA PlainKept ==
  ASSUME Undisturbed, IInv, Plain, [Next]_vars
  PROVE  Plain'
<1> USE DEF Undisturbed, IInv, TypeOK, RequestsOK
<1>1. ResetFree'
  BY ResetFreeKept DEF Plain
<1>2. CASE TaskStep \/ Environment
  <2>1. op' = op /\ \A c \in Clients : at'[c] = at[c] \/ at'[c] = "idle"
    BY <1>2, OthersAnswer
  <2>2. info_ch' = <<>> /\ pc' \notin {"exchange", "record_info"}
    BY <1>2 DEF Plain, Environment, BoardEmits, RunExpires, LinkDown, LinkUp, Detach,
        TaskStep, StraightLine, SelectArm, ExitBeforeOpen, OpenPort, OpenFails, CloseConnection,
        DropRunning, DropVerified, DropInfo, RecordAuto, InitOutput, LoopTop, RecordRetry,
        AutoVerify, AnswerInfo, MetricsTick, SelectShutdown, ReadChunk, ReadFails,
        WriteCommand, Reverify, RecordInfo, TakeInfoRequest, queues, Outcomes
  <2> QED BY <1>1, <2>1, <2>2 DEF Plain
<1>3. ASSUME NEW c \in Clients, Arrival(c)
      PROVE  Plain'
  <2>1. CASE \E o \in Ops \ {"mode"} : Request(c, o)
    BY <1>1, <2>1 DEF Request, Goto, FirstStep, Plain, queues
  <2>2. CASE \E m \in Modes : SetOutputMode(c, m)
    BY <1>1, <2>2 DEF SetOutputMode, Plain, queues
  <2> QED BY <1>3, <2>1, <2>2 DEF Arrival
<1>4. ASSUME NEW c \in Clients, HandlerStep(c)
      PROVE  Plain'
  <2>1. /\ Follows(c) /\ UNCHANGED <<op, pc>> /\ \A d \in Clients : d # c => at'[d] = at[d]
    BY <1>4, HandlerFollows
  <2>2. at'[c] \notin {"check_idle", "send_restart", "pulse", "send_info", "await_info"}
    BY <2>1 DEF Plain, ResetFree, Follows
  <2>3. info_ch' = info_ch
    <3>1. ~SendInfo(c)
      BY DEF Plain, SendInfo
    <3> QED BY <1>4, <3>1 DEF HandlerStep, CheckLink, CheckVerified, CheckRunning, CheckIdle, Claim,
          SendLogMode, SendStart, PublishSession, SendQuit, SendConfig, SendRestart,
          SendCommand, SendFails, ClearRunning, EndSession, Unverify, ForgetInfo,
          PulseReset, InfoTimesOut, queues
  <2> QED BY <1>1, <2>1, <2>2, <2>3 DEF Plain
<1>5. CASE UNCHANGED vars
  BY <1>1, <1>5 DEF vars, requests, queues, Plain
<1> QED BY <1>2, <1>3, <1>4, <1>5 DEF Next

\* What a handler can do to the commands, the claim and the board on such a device.
Sends(c) ==
  \/ /\ at[c] = "send_mode" /\ at'[c] = "send_start" /\ UNCHANGED collection_running
     /\ (pc = "ended" /\ UNCHANGED cmd_ch) \/ Enqueue("set-log-mode", NoCall)
  \/ /\ at[c] = "send_start" /\ at'[c] = "publish" /\ UNCHANGED collection_running
     /\ Enqueue("start", ticket[c])
  \/ /\ at[c] = "send_start" /\ at'[c] = "idle" /\ pc = "ended" /\ UNCHANGED cmd_ch
  \/ /\ at[c] = "send_quit" /\ at'[c] = "clear_running" /\ UNCHANGED collection_running
     /\ Enqueue("q", NoCall)
  \/ /\ at[c] = "send_config" /\ at'[c] = "idle" /\ UNCHANGED collection_running
     /\ Enqueue("config", NoCall)
  \/ at[c] = "clear_running" /\ at'[c] = "end_session" /\ UNCHANGED cmd_ch
  \/ /\ at[c] = "claim" /\ UNCHANGED cmd_ch
     /\ IF collection_running THEN at'[c] = "idle" /\ UNCHANGED collection_running
                              ELSE at'[c] = "send_mode" /\ collection_running'
  \/ at'[c] \notin {"send_mode", "send_start"} /\ UNCHANGED <<cmd_ch, collection_running>>

LEMMA HandlerSends ==
  ASSUME IInv, Plain, NEW c \in Clients, HandlerStep(c)
  PROVE  Sends(c) /\ UNCHANGED <<board, link, firmware_verified>>
<1> USE DEF IInv, TypeOK, RequestsOK, FlagsOK, Plain, Sends, flags, queues, usb, Goto, Respond
<1>1. CASE CheckLink(c)
  BY <1>1 DEF CheckLink
<1>2. CASE CheckVerified(c)
  BY <1>2 DEF CheckVerified, Routed
<1>3. CASE CheckRunning(c)
  BY <1>3 DEF CheckRunning
<1>4. CASE CheckIdle(c)
  BY <1>4 DEF CheckIdle
<1>5. CASE Claim(c)
  BY <1>5 DEF Claim
<1>6. CASE SendLogMode(c)
  BY <1>6 DEF SendLogMode, SendCommand
<1>7. CASE SendStart(c)
  BY <1>7 DEF SendStart
<1>8. CASE PublishSession(c)
  BY <1>8 DEF PublishSession
<1>9. CASE SendQuit(c)
  BY <1>9 DEF SendQuit, SendCommand
<1>10. CASE SendConfig(c)
  BY <1>10 DEF SendConfig, SendCommand
<1>11. CASE SendRestart(c)
  BY <1>11 DEF SendRestart, SendCommand
<1>12. CASE SendFails(c)
  BY <1>12 DEF SendFails
<1>13. CASE ClearRunning(c)
  BY <1>13 DEF ClearRunning
<1>14. CASE EndSession(c)
  BY <1>14 DEF EndSession
<1>15. CASE Unverify(c)
  BY <1>15 DEF Unverify, ResetFree
<1>16. CASE ForgetInfo(c)
  BY <1>16 DEF ForgetInfo, ResetFree
<1>17. CASE PulseReset(c)
  BY <1>17 DEF PulseReset
<1>18. CASE SendInfo(c)
  BY <1>18 DEF SendInfo
<1>19. CASE InfoTimesOut(c)
  BY <1>19 DEF InfoTimesOut
<1> QED BY <1>1, <1>2, <1>3, <1>4, <1>5, <1>6, <1>7, <1>8, <1>9, <1>10, <1>11,
            <1>12, <1>13, <1>14, <1>15, <1>16, <1>17, <1>18, <1>19 DEF HandlerStep

\* A handler's step leaves the task in its phase.
LEMMA PhasesHandler ==
  ASSUME IInv, Calm, NEW c \in Clients, HandlerStep(c)
  PROVE  Phases'
<1>1. /\ Follows(c) /\ UNCHANGED <<pc, exit, result, reverify_on>>
      /\ \A d \in Clients : d # c => at'[d] = at[d]
  BY HandlerFollows DEF IInv, locals
<1>2. Sends(c) /\ UNCHANGED <<link, firmware_verified>>
  BY HandlerSends DEF Calm
<1>3. CASE Serving
  BY <1>1, <1>2, <1>3 DEF Phases, Serving
<1>4. CASE Leaving
  BY <1>1, <1>4 DEF Phases, Leaving
<1>5. CASE Apart
  <2>1. cmd_ch' = <<>>
    BY <1>2, <1>5 DEF Apart, Past, Sends
  <2>2. ~Past(c)'
    BY <1>1, <1>5 DEF Apart, Past, Follows
  <2> QED BY <1>1, <1>2, <1>5, <2>1, <2>2 DEF Phases, Apart, Past
<1> QED BY <1>3, <1>4, <1>5 DEF Calm, Phases

\* ... and the commands in order.
LEMMA OrderHandler ==
  ASSUME IInv, Calm, NEW c \in Clients, HandlerStep(c)
  PROVE  InOrder'
<1>1. /\ UNCHANGED pc /\ \A d \in Clients : d # c => at'[d] = at[d]
  BY HandlerFollows DEF IInv
<1>2. Sends(c) /\ UNCHANGED board
  BY HandlerSends DEF Calm
<1>3. cmd_ch \in Seq(Command) /\ ticket[c] \in Maybe /\ board \in Board
  BY DEF IInv, TypeOK, QueuesOK, RequestsOK, UsbOK
<1>4. ASSUME NEW k \in {"set-log-mode", "q", "config", "start"}, NEW n \in Maybe, Enqueue(k, n),
             k = "start" => at[c] = "send_start",
             at'[c] = "send_start" => k = "set-log-mode"
      PROVE  InOrder'
  <2>1. Cmd(k, n) \in Command /\ cmd_ch' = Append(cmd_ch, Cmd(k, n)) /\ pc # "ended"
    BY <1>4, CmdTyped DEF Enqueue
  <2>2. \A kind : Has(cmd_ch', kind) <=> Has(cmd_ch, kind) \/ kind = k
    BY <1>3, <2>1, SentKinds
  <2>3. k = "start" => board.serialized \/ Has(cmd_ch, "set-log-mode")
    BY <1>4, <2>1 DEF Calm, InOrder
  <2>4. ModeFirst(cmd_ch', board.serialized)
    BY <1>3, <2>1, <2>3, SentKinds DEF Calm, InOrder
  <2> QED BY <1>1, <1>2, <1>4, <2>2, <2>4 DEF Calm, InOrder
<1>5. CASE /\ UNCHANGED cmd_ch
           /\ at'[c] # "send_start" \/ pc = "ended"
  BY <1>1, <1>2, <1>5 DEF Calm, InOrder
<1>6. CASE \/ Enqueue("set-log-mode", NoCall)
           \/ Enqueue("start", ticket[c]) /\ at[c] = "send_start" /\ at'[c] = "publish"
           \/ Enqueue("q", NoCall) /\ at'[c] = "clear_running"
           \/ Enqueue("config", NoCall) /\ at'[c] = "idle"
  BY <1>3, <1>4, <1>6 DEF Maybe
<1> QED BY <1>2, <1>5, <1>6 DEF Sends

\* Requests that arrive and the board's side touch neither the task nor the commands, and
\* the cable stays in.
LEMMA UndisturbedElsewhere ==
  ASSUME Undisturbed, IInv,
         Environment \/ (\E c \in Clients : Arrival(c)) \/ UNCHANGED vars
  PROVE  /\ UNCHANGED <<firmware_verified, pc, exit, result, reverify_on, cmd_ch, collection_running>>
         /\ link = "held" <=> link' = "held"
         /\ board'.serialized = board.serialized /\ (board'.collecting => board.collecting)
         /\ \A c \in Clients : at'[c] = at[c] \/ at'[c] \in {"idle", "check_link", "clear_running"}
<1> USE DEF flags, queues, locals
<1>1. /\ UNCHANGED <<firmware_verified, pc, exit, result, reverify_on, cmd_ch, collection_running>>
      /\ link = "held" <=> link' = "held"
      /\ board'.serialized = board.serialized /\ (board'.collecting => board.collecting)
  <2>1. CASE Environment
    <3>1. ~LinkDown
      BY DEF LinkDown, IInv, TypeOK, UsbOK, Undisturbed
    <3>2. CASE RunExpires
      BY <3>2 DEF RunExpires, IInv, TypeOK, UsbOK, Board
    <3> QED BY <2>1, <3>1, <3>2 DEF Environment, BoardEmits, LinkUp, Detach, usb
  <2>2. CASE \E c \in Clients : Arrival(c)
    BY <2>2 DEF Arrival, Request, SetOutputMode, usb
  <2>3. CASE UNCHANGED vars
    BY <2>3 DEF vars, usb
  <2> QED BY <2>1, <2>2, <2>3
<1>2. \A c \in Clients : at'[c] = at[c] \/ at'[c] \in {"idle", "check_link", "clear_running"}
  <2>1. CASE Environment
    BY <2>1, OthersAnswer DEF IInv
  <2>2. ASSUME NEW c \in Clients, Arrival(c)
        PROVE  \A d \in Clients : at'[d] = at[d] \/ at'[d] \in {"check_link", "clear_running"}
    BY <2>2 DEF Arrival, Request, SetOutputMode, Goto, FirstStep, IInv, TypeOK, RequestsOK
  <2>3. CASE UNCHANGED vars
    BY <2>3 DEF vars, requests
  <2> QED BY <2>1, <2>2, <2>3
<1> QED BY <1>1, <1>2

\* They change neither phase nor order.
LEMMA CalmElsewhere ==
  ASSUME Undisturbed, IInv, Calm,
         Environment \/ (\E c \in Clients : Arrival(c)) \/ UNCHANGED vars
  PROVE  Phases' /\ InOrder'
<1> USE DEF Calm
<1>1. /\ UNCHANGED <<firmware_verified, pc, exit, result, reverify_on, cmd_ch>>
      /\ link = "held" => link' = "held"
      /\ board'.serialized = board.serialized /\ (board'.collecting => board.collecting)
      /\ \A c \in Clients : at'[c] = at[c] \/ at'[c] \in {"idle", "check_link", "clear_running"}
  BY UndisturbedElsewhere
<1>3. Phases'
  <2>1. CASE Serving
    BY <1>1, <2>1 DEF Phases, Serving
  <2>2. CASE Leaving
    BY <1>1, <2>2 DEF Phases, Leaving
  <2>3. CASE Apart
    BY <1>1, <2>3 DEF Phases, Apart, Past
  <2> QED BY <2>1, <2>2, <2>3 DEF Phases
<1>4. InOrder'
  <2>1. \A c \in Clients : at'[c] = "send_start" => at[c] = "send_start"
    BY <1>1
  <2> QED BY <1>1, <2>1 DEF InOrder
<1> QED BY <1>3, <1>4

\* What the task's next command does to a board that runs serialized or not.
LEMMA OrderWrite ==
  ASSUME IInv, Calm, WriteCommand
  PROVE  /\ Serving /\ link' = "held" /\ pc' = "top" /\ firmware_verified'
         /\ InOrder'
<1>1. Serving
  BY DEF Calm, Phases, Leaving, Apart, WriteCommand, CommandReady
<1>2. cmd_ch \in Seq(Command) /\ cmd_ch # <<>> /\ cmd_ch' = Tail(cmd_ch) /\ board \in Board
  BY DEF IInv, TypeOK, QueuesOK, UsbOK, WriteCommand, CommandReady
<1>3. board.serialized \in BOOLEAN
  BY <1>2 DEF Board
<1> DEFINE h == Head(cmd_ch)
<1>4. h \in Command /\ h.kind # "restart"
  BY <1>2, SeqTyped, ReceivedKinds, <1>3 DEF Calm, InOrder
<1>5. pc' = "top" /\ link' = "held" /\ board' = Obey(board, h) /\ UNCHANGED <<firmware_verified, at>>
  BY <1>1, <1>4 DEF Serving, WriteCommand, Reboots, flags
<1>6. /\ board'.serialized <=> board.serialized \/ h.kind = "set-log-mode"
      /\ board'.collecting => board.collecting \/ h.kind = "start"
  BY <1>2, <1>4, <1>5, ObeyKinds DEF Calm, InOrder
<1>7. board' \in Board
  BY <1>2, <1>4, <1>5, ObeyTyped
<1>8. /\ ModeFirst(cmd_ch', board.serialized \/ h.kind = "set-log-mode")
      /\ h.kind = "start" => board.serialized
      /\ ~Has(cmd_ch', "restart")
      /\ Has(cmd_ch, "set-log-mode") => Has(cmd_ch', "set-log-mode") \/ h.kind = "set-log-mode"
  BY <1>2, <1>3, ReceivedKinds DEF Calm, InOrder
<1> HIDE DEF h
<1>9. ModeFirst(cmd_ch', board'.serialized)
  BY <1>6, <1>8 DEF ModeFirst
<1>10. board'.collecting => board'.serialized
  BY <1>6, <1>8 DEF Calm, InOrder
<1>11. \A c \in Clients : at'[c] = "send_start" =>
          board'.serialized \/ pc' = "ended" \/ Has(cmd_ch', "set-log-mode")
  BY <1>1, <1>5, <1>6, <1>8 DEF Calm, InOrder, Serving
<1> QED BY <1>1, <1>5, <1>8, <1>9, <1>10, <1>11 DEF InOrder, Serving

\* Quiescing the board, or booting it, starts no run and keeps a serialized run one.
LEMMA QuiescedKinds ==
  ASSUME IInv, Calm
  PROVE  /\ Quiesced.collecting => board.collecting
         /\ Quiesced.collecting => Quiesced.serialized
         /\ ~Booted.collecting
<1>1. board \in Board /\ Cmd("q", NoCall) \in Command
  BY CmdTyped DEF IInv, TypeOK, UsbOK, Maybe
<1>2. /\ Obey(board, Cmd("q", NoCall)).serialized <=> board.serialized
      /\ Obey(board, Cmd("q", NoCall)).collecting => board.collecting
  BY <1>1, ObeyKinds DEF Calm, InOrder, Cmd
<1> QED BY <1>2 DEF Quiesced, Booted, Calm, InOrder

\* While no command is on its way the order is the board's alone.
LEMMA OrderApart ==
  ASSUME Apart, UNCHANGED cmd_ch, board'.collecting => board'.serialized,
         \A c \in Clients : at'[c] = at[c] \/ at'[c] = "idle"
  PROVE  InOrder'
<1>1. Len(cmd_ch') = 0
  BY DEF Apart
<1>2. \A c \in Clients : at'[c] # "send_start"
  BY DEF Apart, Past
<1> QED BY <1>1, <1>2 DEF InOrder, Has, ModeFirst

\* A step that leaves channel and board alone keeps the order.
LEMMA OrderSame ==
  ASSUME InOrder, UNCHANGED <<cmd_ch, board>>, pc = "ended" => pc' = "ended",
         \A c \in Clients : at'[c] = at[c] \/ at'[c] = "idle"
  PROVE  InOrder'
<1>1. \A c \in Clients : at'[c] = "send_start" => at[c] = "send_start"
  OBVIOUS
<1> QED BY <1>1 DEF InOrder

\* While it is apart, a step of the task that neither verifies nor sends stays so.
LEMMA ApartSame ==
  ASSUME Apart, ~firmware_verified', UNCHANGED cmd_ch,
         \A c \in Clients : at'[c] = at[c] \/ at'[c] = "idle"
  PROVE  Apart'
BY DEF Apart, Past

\* Every step of the task leads from phase to phase and keeps the commands in order.
LEMMA CalmTask ==
  ASSUME Undisturbed, IInv, Calm, TaskStep
  PROVE  Phases' /\ InOrder'
<1> USE DEF flags, queues, locals
<1>0. /\ \A c \in Clients : at'[c] = at[c] \/ at'[c] = "idle"
      /\ firmware_verified \in BOOLEAN /\ info_ch = <<>> /\ pc \notin {"exchange", "record_info"}
  BY OthersAnswer DEF IInv, TypeOK, FlagsOK, Calm, Plain
<1>1. CASE pc \in {"open", "verify"} \/ Reverify("ok") \/ Reverify("soft") \/ Reverify("hard")
  <2>1. Apart
    BY <1>1 DEF Calm, Phases, Serving, Leaving, Reverify
  <2>2. CASE ExitBeforeOpen \/ OpenPort \/ OpenFails
    <3>1. UNCHANGED <<firmware_verified, cmd_ch>> /\ (board' = board \/ board' = Booted)
      BY <2>2 DEF ExitBeforeOpen, OpenPort, OpenFails
    <3>2. ~firmware_verified' /\ (board'.collecting => board'.serialized)
      BY <2>1, <3>1 DEF Apart, Calm, InOrder, Booted
    <3>3. Apart' /\ InOrder'
      BY <1>0, <2>1, <3>1, <3>2, ApartSame, OrderApart
    <3> QED BY <3>3 DEF Phases
  <2>3. ASSUME NEW r \in Outcomes, AutoVerify(r) \/ Reverify(r)
        PROVE  Phases' /\ InOrder'
    <3>1. UNCHANGED cmd_ch /\ (board' = Quiesced \/ board' = Booted)
      BY <2>3 DEF AutoVerify, Reverify, LadderReboot
    <3>2. InOrder'
      BY <1>0, <2>1, <3>1, OrderApart, QuiescedKinds
    <3>3. CASE r = "ok"
      <4>1. /\ link = "held" /\ UNCHANGED link /\ firmware_verified'
            /\ (pc' = "record_auto" /\ result' = "ok") \/ pc' = "record_retry"
        BY <2>3, <3>3 DEF AutoVerify, Reverify, Exchange
      <4> QED BY <3>2, <4>1 DEF Phases, Serving
    <3>4. CASE r # "ok"
      <4>1. ~firmware_verified'
        BY <2>1, <2>3, <3>4 DEF AutoVerify, Reverify, Apart
      <4> QED BY <1>0, <2>1, <3>1, <3>2, <4>1, ApartSame DEF Phases
    <3> QED BY <3>2, <3>3, <3>4
  <2>4. \/ ExitBeforeOpen \/ OpenPort \/ OpenFails
        \/ \E r \in Outcomes : AutoVerify(r) \/ Reverify(r)
    BY <1>1 DEF TaskStep, StraightLine, SelectArm, CloseConnection,
        DropRunning, DropVerified, DropInfo, RecordAuto, InitOutput, LoopTop, RecordRetry,
        RecordInfo, AnswerInfo, Reverify, Outcomes, MetricsTick, SelectShutdown, ReadChunk,
        ReadFails, WriteCommand, TakeInfoRequest
  <2> QED BY <2>2, <2>3, <2>4
<1>2. CASE WriteCommand
  BY <1>2, OrderWrite DEF Phases, Serving
<1>3. CASE \/ CloseConnection \/ DropRunning \/ DropVerified \/ DropInfo \/ RecordAuto
           \/ InitOutput \/ LoopTop \/ RecordRetry \/ MetricsTick \/ SelectShutdown
           \/ ReadChunk \/ ReadFails
  <2>1. UNCHANGED <<cmd_ch, board>> /\ pc # "ended" /\ (firmware_verified' => firmware_verified)
    BY <1>0, <1>3 DEF CloseConnection, DropRunning, DropVerified, DropInfo, RecordAuto, InitOutput,
        LoopTop, RecordRetry, MetricsTick, SelectShutdown, ReadChunk, ReadFails
  <2>2. InOrder'
    BY <1>0, <2>1, OrderSame DEF Calm
  <2>3. CASE Apart
    <3>1. ~firmware_verified'
      BY <2>1, <2>3 DEF Apart
    <3> QED BY <1>0, <2>1, <2>2, <2>3, <3>1, ApartSame DEF Phases
  <2>4. CASE Leaving
    <3>1. Leaving'
      BY <1>3, <2>4 DEF Leaving, CloseConnection, DropRunning, DropVerified, DropInfo, RecordAuto,
          InitOutput, LoopTop, RecordRetry, MetricsTick, SelectShutdown, ReadChunk, ReadFails
    <3> QED BY <2>2, <3>1 DEF Phases
  <2>5. CASE Serving
    <3>1. Serving' \/ Leaving'
      BY <1>0, <1>3, <2>5 DEF Serving, Leaving, CloseConnection, DropRunning, DropVerified, DropInfo,
          RecordAuto, InitOutput, LoopTop, ReverifyGuard, RecordRetry, MetricsTick,
          SelectShutdown, ReadChunk, ReadFails
    <3> QED BY <2>2, <3>1 DEF Phases
  <2> QED BY <2>3, <2>4, <2>5 DEF Calm, Phases
<1> QED BY <1>0, <1>1, <1>2, <1>3 DEF TaskStep, StraightLine, SelectArm, ExitBeforeOpen, OpenPort,
        OpenFails, AutoVerify, AnswerInfo, RecordInfo, TakeInfoRequest, Outcomes

\* The invariant of a device that stays plugged in and is neither reset nor asked for info.
THEOREM CalmHolds == ASSUME Undisturbed PROVE Spec => []Calm
<1>1. Init => Calm
  <2> SUFFICES ASSUME Init PROVE Calm
    OBVIOUS
  <2>1. Plain
    BY DEF Init, Plain, ResetFree
  <2>2. Apart
    BY DEF Init, Apart, Past
  <2>3. InOrder
    BY DEF Init, InOrder, Has, ModeFirst, Booted
  <2> QED BY <2>1, <2>2, <2>3 DEF Calm, Phases
<1>2. IInv /\ Calm /\ [Next]_vars => Calm'
  <2> SUFFICES ASSUME IInv, Calm, [Next]_vars PROVE Calm'
    OBVIOUS
  <2>1. Plain'
    BY PlainKept DEF Calm
  <2>2. Phases' /\ InOrder'
    BY CalmTask, CalmElsewhere, PhasesHandler, OrderHandler DEF Next
  <2> QED BY <2>1, <2>2 DEF Calm
<1> QED BY <1>1, <1>2, IInvHolds, PTL DEF Spec

\* A run of a board that stays plugged in delivers serialized chunks, however many starts,
\* stops, setters and mode changes race (src/src/routes/control.rs:296-300).
THEOREM StartsAreSerialized == ASSUME Undisturbed PROVE Spec => []StartsSerialized
<1>1. Calm => StartsSerialized
  BY DEF Calm, InOrder, StartsSerialized
<1> QED BY <1>1, CalmHolds, PTL

\* Receiving shortens the channel; a send does not.
LEMMA TailShorter ==
  ASSUME NEW S, NEW s \in Seq(S), s # <<>>
  PROVE  Tail(s) # s /\ \A x \in S : Tail(s) # Append(s, x)
<1>1. Len(Tail(s)) # Len(s)
  OBVIOUS
<1>2. ASSUME NEW x \in S PROVE Len(Tail(s)) # Len(Append(s, x))
  OBVIOUS
<1> QED BY <1>1, <1>2

\* Only WriteCommand takes a command from the channel.
LEMMA TakenByWrite ==
  ASSUME IInv, [Next]_vars, cmd_ch # <<>>, cmd_ch' = Tail(cmd_ch)
  PROVE  WriteCommand
<1> USE DEF queues
<1>1. cmd_ch' # cmd_ch /\ \A x \in Command : cmd_ch' # Append(cmd_ch, x)
  <2>1. cmd_ch \in Seq(Command)
    BY DEF IInv, TypeOK, QueuesOK
  <2> QED BY <2>1, TailShorter
<1>2. CASE TaskStep
  BY <1>1, <1>2 DEF TaskStep, StraightLine, SelectArm, ExitBeforeOpen, OpenPort, OpenFails,
      CloseConnection, DropRunning, DropVerified, DropInfo, RecordAuto, InitOutput, LoopTop,
      RecordRetry, RecordInfo, AutoVerify, AnswerInfo, MetricsTick, SelectShutdown, ReadChunk,
      ReadFails, TakeInfoRequest, Reverify
<1>3. CASE Environment
  BY <1>1, <1>3 DEF Environment, BoardEmits, RunExpires, LinkDown, LinkUp, Detach
<1>4. ASSUME NEW c \in Clients, Arrival(c)
      PROVE  FALSE
  BY <1>1, <1>4 DEF Arrival, Request, SetOutputMode
<1>5. ASSUME NEW c \in Clients, HandlerStep(c)
      PROVE  FALSE
  <2>1. ASSUME NEW k \in {"set-log-mode", "start", "q", "restart", "config"}, NEW n \in Maybe,
               Enqueue(k, n)
        PROVE  FALSE
    BY <1>1, <2>1, CmdTyped DEF Enqueue
  <2>2. ticket[c] \in Maybe /\ NoCall \in Maybe
    BY DEF IInv, TypeOK, RequestsOK, Maybe
  <2>3. cmd_ch' = cmd_ch \/ \E k \in {"set-log-mode", "start", "q", "restart", "config"}, n \in Maybe :
                               Enqueue(k, n)
    BY <1>5, <2>2 DEF HandlerStep, CheckLink, CheckVerified, CheckRunning, CheckIdle, Claim,
        SendLogMode, SendStart, PublishSession, SendQuit, SendConfig, SendRestart,
        SendCommand, SendFails, ClearRunning, EndSession, Unverify, ForgetInfo,
        PulseReset, SendInfo, InfoTimesOut
  <2> QED BY <1>1, <2>1, <2>3
<1>6. CASE UNCHANGED vars
  BY <1>1, <1>6 DEF vars
<1> QED BY <1>2, <1>3, <1>4, <1>5, <1>6 DEF Next

-----------------------------------------------------------------------------
(***************************************************************************)
(* Commands and the verification, whatever the clients and the cable do.   *)
(***************************************************************************)
\* A request went past the check of the verification and its command is yet to be written
\* (a restart needs no verified firmware).
InTheGap ==
  \/ \E i \in 1..Len(cmd_ch) : cmd_ch[i].kind # "restart"
  \/ \E c \in Clients : Past(c)

\* What takes the verification back: a disconnect, a failed info exchange, a reset.
Lapses ==
  \/ DropVerified
  \/ \E r \in Outcomes \ {"ok"} : AnswerInfo(r)
  \/ \E c \in Clients : Unverify(c)

\* Requests in the gap were let in by verified firmware, and it is verified still; the
\* exchange that a connection begins with finds nothing to take back.
GapVerified ==
  /\ InTheGap => firmware_verified
  /\ pc \in {"open", "verify", "clear_info"} => ~firmware_verified

\* What a step does to those in the gap: the task lets nobody in.
LEMMA GapTask ==
  ASSUME IInv, TaskStep
  PROVE  InTheGap' => InTheGap
<1>1. op' = op /\ \A c \in Clients : at'[c] = at[c] \/ at'[c] = "idle"
  BY OthersAnswer DEF IInv
<1>2. \A c \in Clients : Past(c)' => Past(c)
  BY <1>1 DEF Past
<1>3. CASE WriteCommand
  <2>1. cmd_ch \in Seq(Command) /\ cmd_ch # <<>> /\ cmd_ch' = Tail(cmd_ch)
    BY <1>3 DEF IInv, TypeOK, QueuesOK, WriteCommand, CommandReady
  <2> DEFINE t == Tail(cmd_ch)
  <2>2. /\ Len(cmd_ch) \in Nat \ {0} /\ Len(t) = Len(cmd_ch) - 1
        /\ \A i \in 1..Len(t) : t[i] = cmd_ch[i + 1] /\ i + 1 \in 1..Len(cmd_ch)
    BY <2>1
  <2>3. cmd_ch' = t
    BY <2>1
  <2> HIDE DEF t
  <2> QED BY <1>2, <2>2, <2>3 DEF InTheGap
<1>4. CASE ~WriteCommand
  <2>1. cmd_ch' = cmd_ch
    BY <1>4 DEF TaskStep, StraightLine, SelectArm, ExitBeforeOpen, OpenPort, OpenFails,
        CloseConnection, DropRunning, DropVerified, DropInfo, RecordAuto, InitOutput, LoopTop,
        RecordRetry, RecordInfo, AutoVerify, AnswerInfo, MetricsTick, SelectShutdown, ReadChunk,
        ReadFails, TakeInfoRequest, Reverify, queues
  <2> QED BY <1>2, <2>1 DEF InTheGap
<1> QED BY <1>3, <1>4
LEMMA GapHandler ==
  ASSUME IInv, NEW c \in Clients, HandlerStep(c)
  PROVE  /\ InTheGap' => InTheGap \/ firmware_verified
         /\ firmware_verified' = firmware_verified \/ Unverify(c)
         /\ UNCHANGED pc
<1> USE DEF flags, queues
<1>1. /\ Follows(c) /\ UNCHANGED pc /\ \A d \in Clients : d # c => at'[d] = at[d]
  BY HandlerFollows DEF IInv
<1>2. Past(c)' => Past(c) \/ firmware_verified
  BY <1>1 DEF Past, Follows
<1>3. cmd_ch \in Seq(Command) /\ ticket[c] \in Maybe /\ NoCall \in Maybe
  BY DEF IInv, TypeOK, QueuesOK, RequestsOK, Maybe
<1>4. \/ cmd_ch' = cmd_ch
      \/ \E n \in Maybe : Enqueue("restart", n)
      \/ Past(c) /\ \E k \in {"set-log-mode", "start", "q", "config"}, n \in Maybe : Enqueue(k, n)
  BY <1>3 DEF Past, HandlerStep, CheckLink, CheckVerified, CheckRunning, CheckIdle, Claim,
      SendLogMode, SendStart, PublishSession, SendQuit, SendConfig, SendRestart,
      SendCommand, SendFails, ClearRunning, EndSession, Unverify, ForgetInfo,
      PulseReset, SendInfo, InfoTimesOut
<1>5. ASSUME NEW n \in Maybe, Enqueue("restart", n), NEW i \in 1..Len(cmd_ch'),
             cmd_ch'[i].kind # "restart"
      PROVE  i \in 1..Len(cmd_ch) /\ cmd_ch[i].kind # "restart"
  <2> DEFINE t == Append(cmd_ch, Cmd("restart", n))
  <2>1. cmd_ch' = t
    BY <1>5 DEF Enqueue
  <2>2. /\ Len(cmd_ch) \in Nat /\ Len(t) = Len(cmd_ch) + 1
        /\ \A j \in 1..Len(cmd_ch) : t[j] = cmd_ch[j]
        /\ t[Len(cmd_ch) + 1].kind = "restart"
    BY <1>3 DEF Cmd
  <2> HIDE DEF t
  <2> QED BY <1>5, <2>1, <2>2
<1>6. InTheGap' => InTheGap \/ firmware_verified
  BY <1>1, <1>2, <1>4, <1>5 DEF InTheGap, Past
<1>7. firmware_verified' = firmware_verified \/ Unverify(c)
  BY DEF HandlerStep, CheckLink, CheckVerified, CheckRunning, CheckIdle, Claim,
      SendLogMode, SendStart, PublishSession, SendQuit, SendConfig, SendRestart,
      SendCommand, SendFails, ClearRunning, EndSession, ForgetInfo,
      PulseReset, SendInfo, InfoTimesOut
<1> QED BY <1>1, <1>6, <1>7

\* The task verifies, or takes the verification back by one of the lapses.
LEMMA GapVerification ==
  ASSUME IInv, GapVerified, TaskStep, ~Lapses
  PROVE  /\ firmware_verified => firmware_verified'
         /\ pc' \in {"open", "verify", "clear_info"} => pc \in {"open", "verify", "clear_info"}
         /\ firmware_verified' => firmware_verified \/ pc' \notin {"open", "verify", "clear_info"}
<1> USE DEF flags, GapVerified, Lapses
<1>1. ASSUME NEW r \in Outcomes, AutoVerify(r) \/ AnswerInfo(r) \/ Reverify(r)
      PROVE  /\ firmware_verified => firmware_verified'
             /\ pc' \notin {"open", "verify", "clear_info"}
  BY <1>1 DEF AutoVerify, AnswerInfo, Reverify, Outcomes
<1>2. CASE ~\E r \in Outcomes : AutoVerify(r) \/ AnswerInfo(r) \/ Reverify(r)
  <2>1. firmware_verified' = firmware_verified
    BY <1>2 DEF TaskStep, StraightLine, SelectArm, ExitBeforeOpen, OpenPort, OpenFails,
        CloseConnection, DropRunning, DropInfo, RecordAuto, InitOutput, LoopTop, RecordRetry,
        RecordInfo, MetricsTick, SelectShutdown, ReadChunk, ReadFails, WriteCommand, TakeInfoRequest
  <2>2. pc' \in {"open", "verify", "clear_info"} => pc \in {"open", "verify", "clear_info"}
    BY <1>2 DEF TaskStep, StraightLine, SelectArm, ExitBeforeOpen, OpenPort, OpenFails,
        CloseConnection, DropRunning, DropInfo, RecordAuto, InitOutput, LoopTop, RecordRetry,
        RecordInfo, MetricsTick, SelectShutdown, ReadChunk, ReadFails, WriteCommand, TakeInfoRequest
  <2> QED BY <2>1, <2>2
<1> QED BY <1>1, <1>2

LEMMA GapKept ==
  ASSUME IInv, GapVerified, [Next]_vars, [Lapses => ~InTheGap]_vars
  PROVE  GapVerified'
<1> USE DEF flags, queues
<1>1. CASE TaskStep /\ ~Lapses
  BY <1>1, GapTask, GapVerification DEF GapVerified
<1>2. CASE TaskStep /\ Lapses
  <2>1. CASE UNCHANGED vars
    BY <2>1 DEF vars, requests, GapVerified, InTheGap, Past
  <2>2. CASE ~InTheGap
    <3>1. ~InTheGap'
      BY <1>2, <2>2, GapTask
    <3>2. CASE DropVerified
      BY <3>1, <3>2 DEF DropVerified, GapVerified
    <3>3. ASSUME NEW r \in Outcomes, AnswerInfo(r)
          PROVE  GapVerified'
      BY <3>1, <3>3 DEF AnswerInfo, GapVerified
    <3>4. ASSUME NEW c \in Clients, Unverify(c)
          PROVE  GapVerified'
      <4>1. pc' = pc /\ ~firmware_verified'
        BY <3>4 DEF Unverify, HandlerFrame
      <4> QED BY <3>1, <4>1 DEF GapVerified
    <3> QED BY <1>2, <3>2, <3>3, <3>4 DEF Lapses
  <2> QED BY <1>2, <2>1, <2>2
<1>3. ASSUME NEW c \in Clients, HandlerStep(c)
      PROVE  GapVerified'
  <2>1. CASE Unverify(c)
    <3>1. Lapses /\ pc' = pc /\ ~firmware_verified'
      BY <2>1 DEF Unverify, HandlerFrame, Lapses
    <3>2. CASE UNCHANGED vars
      BY <3>2 DEF vars, requests, GapVerified, InTheGap, Past
    <3>3. CASE ~InTheGap
      <4>1. at[c] = "unverify" /\ cmd_ch' = cmd_ch /\ \A d \in Clients : Past(d)' => Past(d)
        BY <1>3, <2>1, HandlerFollows DEF Unverify, Goto, Past, IInv, TypeOK, RequestsOK
      <4>2. ~InTheGap'
        BY <3>3, <4>1 DEF InTheGap
      <4> QED BY <3>1, <4>2 DEF GapVerified
    <3> QED BY <3>1, <3>2, <3>3
  <2>2. CASE ~Unverify(c)
    BY <1>3, <2>2, GapHandler DEF GapVerified
  <2> QED BY <2>1, <2>2
<1>4. CASE Environment
  <2>1. UNCHANGED <<cmd_ch, at, firmware_verified, pc>>
    BY <1>4 DEF Environment, BoardEmits, RunExpires, LinkDown, LinkUp, Detach, requests
  <2> QED BY <2>1 DEF GapVerified, InTheGap, Past
<1>5. ASSUME NEW c \in Clients, Arrival(c)
      PROVE  GapVerified'
  <2>1. UNCHANGED <<cmd_ch, firmware_verified, pc>>
    BY <1>5 DEF Arrival, Request, SetOutputMode
  <2>2. \A d \in Clients : at'[d] = at[d] \/ at'[d] \in {"check_link", "clear_running"}
    BY <1>5 DEF Arrival, Request, SetOutputMode, Goto, FirstStep, IInv, TypeOK, RequestsOK
  <2> QED BY <2>1, <2>2 DEF GapVerified, InTheGap, Past
<1>6. CASE UNCHANGED vars
  BY <1>6 DEF vars, requests, GapVerified, InTheGap, Past
<1> QED BY <1>1, <1>2, <1>3, <1>4, <1>5, <1>6 DEF Next

\* The check of the verification and the write of the command are steps of two tasks with a
\* channel between them; whatever the clients, the cable and the supervisor do, a command
\* reaches unverified firmware (src/src/state.rs:137-140) only when a disconnect, a failed
\* info exchange or a reset took the verification back while some request was in between.
THEOREM OnlyInTheGap == Spec /\ [][Lapses => ~InTheGap]_vars => WritesVerified
<1> DEFINE Write == cmd_ch # <<>> /\ cmd_ch' = Tail(cmd_ch) /\ Head(cmd_ch).kind # "restart"
           Apart1 == Lapses => ~InTheGap
<1>1. Init => GapVerified
  BY DEF Init, GapVerified, InTheGap, Past
<1>2. IInv /\ GapVerified /\ [Next]_vars /\ [Apart1]_vars => GapVerified'
  BY GapKept
<1>3. IInv /\ GapVerified => (Write => firmware_verified)
  <2> SUFFICES ASSUME IInv, GapVerified, Write PROVE firmware_verified
    OBVIOUS
  <2>1. cmd_ch \in Seq(Command) /\ 1 \in 1..Len(cmd_ch) /\ Head(cmd_ch) = cmd_ch[1]
    BY DEF IInv, TypeOK, QueuesOK
  <2> QED BY <2>1 DEF GapVerified, InTheGap
<1>4. Spec /\ [][Apart1]_vars => [][Write => firmware_verified]_vars
  BY <1>1, <1>2, <1>3, IInvHolds, PTL DEF Spec
<1> QED BY <1>4 DEF WritesVerified

=============================================================================
