--------------------------- MODULE ControlRoutes ---------------------------
(***************************************************************************)
(* The handlers of /api/devices/{id}/control/*, /info, /config/* and       *)
(* /config/output-mode, one action per step at which another handler or    *)
(* the serial task can run.  at[c] names the step that client c's handler  *)
(* takes next; "idle" is a client whose last request has been answered.    *)
(***************************************************************************)
EXTENDS DeviceHandle

Goto(c, step) == at' = [at EXCEPT ![c] = step]
Respond(c)    == Goto(c, "idle")

\* What no handler step touches.
HandlerFrame == UNCHANGED <<op, ticket, calls, pc, locals, disk, shutdown>>

FirstStep(o) == IF o = "reset" THEN "clear_running" ELSE "check_link"

\* A request arrives.  `config` stands for every setter that goes through
\* send_cmd.
Request(c, o) ==
    /\ at[c] = "idle" /\ calls < MaxCalls
    /\ calls' = calls + 1
    /\ op' = [op EXCEPT ![c] = o]
    /\ ticket' = [ticket EXCEPT ![c] = calls + 1]
    /\ Goto(c, FirstStep(o))
    /\ UNCHANGED <<flags, queues, watches, pc, locals, disk, usb, shutdown>>

\* POST /config/output-mode: one watch send, no precondition.
SetOutputMode(c, m) ==
    /\ at[c] = "idle" /\ calls < MaxCalls
    /\ calls' = calls + 1
    /\ output_mode' = WatchSend(output_mode, m)
    /\ UNCHANGED <<flags, queues, session_file, op, at, ticket, pc, locals, disk, usb,
                   shutdown>>
-----------------------------------------------------------------------------
(***************************************************************************)
(* The checks.                                                             *)
(***************************************************************************)
\* 503 while the link is down; otherwise the step that follows the check.
CheckLink(c) ==
    /\ at[c] = "check_link"
    /\ Goto(c, CASE ~serial_connected -> "idle"
                 [] serial_connected /\ op[c] = "info"  -> "check_idle"
                 [] serial_connected /\ op[c] = "reset" ->
                        IF NativeUsb THEN "send_restart" ELSE "pulse"
                 [] serial_connected /\ op[c] \notin {"info", "reset"} -> "check_verified")
    /\ UNCHANGED <<flags, queues, watches, usb>> /\ HandlerFrame

\* Mutants of the checks and of the claim: the check or the claim is missing.
CheckVerifiedSkipped(c) ==
    /\ at[c] = "check_verified"
    /\ Goto(c, CASE op[c] = "start"  -> "claim"
                 [] op[c] = "stop"   -> "check_running"
                 [] op[c] = "config" -> "send_config")
    /\ UNCHANGED <<flags, queues, watches, usb>> /\ HandlerFrame

ClaimUnchecked(c) ==
    /\ at[c] = "claim"
    /\ Goto(c, "send_mode")
    /\ collection_running' = TRUE
    /\ UNCHANGED <<serial_connected, firmware_verified, device_info, queues, watches, usb>>
    /\ HandlerFrame

\* DeviceHandle::require_firmware: 412 while the firmware is unverified.
CheckVerified(c) ==
    /\ at[c] = "check_verified"
    /\ Goto(c, CASE ~firmware_verified -> "idle"
                 [] firmware_verified /\ op[c] = "start"  -> "claim"
                 [] firmware_verified /\ op[c] = "stop"   -> "check_running"
                 [] firmware_verified /\ op[c] = "config" -> "send_config")
    /\ UNCHANGED <<flags, queues, watches, usb>> /\ HandlerFrame

\* stop: nothing to do unless a collection is running.
CheckRunning(c) ==
    /\ at[c] = "check_running"
    /\ Goto(c, IF collection_running THEN "send_quit" ELSE "idle")
    /\ UNCHANGED <<flags, queues, watches, usb>> /\ HandlerFrame

\* info: refused while a collection is running.
CheckIdle(c) ==
    /\ at[c] = "check_idle"
    /\ Goto(c, IF collection_running THEN "idle" ELSE "send_info")
    /\ UNCHANGED <<flags, queues, watches, usb>> /\ HandlerFrame

\* start: the compare_exchange that claims the device.
Claim(c) ==
    /\ at[c] = "claim"
    /\ Goto(c, IF collection_running THEN "idle" ELSE "send_mode")
    /\ collection_running' = TRUE
    /\ UNCHANGED <<serial_connected, firmware_verified, device_info, queues, watches, usb>>
    /\ HandlerFrame
-----------------------------------------------------------------------------
(***************************************************************************)
(* Sends into the bounded command channel.  A full channel blocks the      *)
(* handler; once the serial task has ended the send fails.                 *)
(***************************************************************************)
\* Mutant: a channel without a bound.
EnqueueUnbounded(kind, n) ==
    /\ pc # "ended"
    /\ cmd_ch' = Append(cmd_ch, Cmd(kind, n))

Enqueue(kind, n) ==
    /\ pc # "ended" /\ Len(cmd_ch) < CmdCap
    /\ cmd_ch' = Append(cmd_ch, Cmd(kind, n))

SendCommand(c, here, kind, next) ==
    /\ at[c] = here
    /\ Enqueue(kind, NoCall)
    /\ Goto(c, next)
    /\ UNCHANGED <<flags, info_ch, watches, usb>> /\ HandlerFrame

SendFails(c) ==
    /\ pc = "ended" /\ at[c] \in {"send_quit", "send_config", "send_restart"}
    /\ Respond(c)
    /\ UNCHANGED <<flags, queues, watches, usb>> /\ HandlerFrame

SendConfig(c)  == SendCommand(c, "send_config", "config", "idle")
SendRestart(c) == SendCommand(c, "send_restart", "restart", "idle")

\* Mutants: stop without q, start without set-log-mode.
SendQuitSkipped(c) ==
    /\ at[c] = "send_quit" /\ Goto(c, "clear_running")
    /\ UNCHANGED <<flags, queues, watches, usb>> /\ HandlerFrame

SendLogModeSkipped(c) ==
    /\ at[c] = "send_mode" /\ Goto(c, "send_start")
    /\ UNCHANGED <<flags, queues, watches, usb>> /\ HandlerFrame

SendQuit(c) == SendCommand(c, "send_quit", "q", "clear_running")

\* start: `set-log-mode --mode=serialized` first, its error ignored...
SendLogMode(c) ==
    \/ SendCommand(c, "send_mode", "set-log-mode", "send_start")
    \/ /\ at[c] = "send_mode" /\ pc = "ended"
       /\ Goto(c, "send_start")
       /\ UNCHANGED <<flags, queues, watches, usb>> /\ HandlerFrame

\* ...then `start`; when that fails the claim is given back.
SendStart(c) ==
    /\ at[c] = "send_start"
    /\ \/ Enqueue("start", ticket[c]) /\ Goto(c, "publish") /\ UNCHANGED collection_running
       \/ pc = "ended" /\ Respond(c) /\ collection_running' = FALSE /\ UNCHANGED cmd_ch
    /\ UNCHANGED <<serial_connected, firmware_verified, device_info, info_ch, watches, usb>>
    /\ HandlerFrame

\* start: hand the dump path of the new session to the serial task.
PublishSession(c) ==
    /\ at[c] = "publish"
    /\ session_file' = WatchSend(session_file, PathOf[ticket[c]])
    /\ Respond(c)
    /\ UNCHANGED <<flags, queues, output_mode, usb>> /\ HandlerFrame
-----------------------------------------------------------------------------
(***************************************************************************)
(* The stores of stop and of reset.                                        *)
(***************************************************************************)
ClearRunning(c) ==
    /\ at[c] = "clear_running"
    /\ collection_running' = FALSE
    /\ Goto(c, "end_session")
    /\ UNCHANGED <<serial_connected, firmware_verified, device_info, queues, watches, usb>>
    /\ HandlerFrame

\* Mutant: stop and reset do not tell the serial task.
EndSessionSilent(c) ==
    /\ at[c] = "end_session"
    /\ Goto(c, IF op[c] = "stop" THEN "idle" ELSE "unverify")
    /\ UNCHANGED <<flags, queues, watches, usb>> /\ HandlerFrame

EndSession(c) ==
    /\ at[c] = "end_session"
    /\ session_file' = WatchSend(session_file, NoCall)
    /\ Goto(c, IF op[c] = "stop" THEN "idle" ELSE "unverify")
    /\ UNCHANGED <<flags, queues, output_mode, usb>> /\ HandlerFrame

Unverify(c) ==
    /\ at[c] = "unverify"
    /\ firmware_verified' = FALSE
    /\ Goto(c, "forget_info")
    /\ UNCHANGED <<serial_connected, collection_running, device_info, queues, watches, usb>>
    /\ HandlerFrame

ForgetInfo(c) ==
    /\ at[c] = "forget_info"
    /\ device_info' = FALSE
    /\ Goto(c, "check_link")
    /\ UNCHANGED <<serial_connected, collection_running, firmware_verified, queues,
                   watches, usb>>
    /\ HandlerFrame

\* UART bridges: the RTS pulse over a second descriptor, 500 when the port
\* cannot be opened; the serial task's descriptor stays open.
PulseReset(c) ==
    /\ at[c] = "pulse"
    /\ IF link = "absent" THEN Respond(c) /\ UNCHANGED board
                          ELSE Goto(c, "send_info") /\ board' = Booted
    /\ UNCHANGED <<flags, queues, watches, link, wire, frames, drops>> /\ HandlerFrame

\* info, and the re-verification that ends a UART reset: queue a responder.
SendInfo(c) ==
    /\ at[c] = "send_info"
    /\ \/ /\ pc # "ended" /\ Len(info_ch) < InfoCap
          /\ info_ch' = Append(info_ch, ticket[c])
          /\ Goto(c, "await_info")
       \/ /\ pc = "ended" /\ Respond(c) /\ UNCHANGED info_ch
    /\ UNCHANGED <<flags, cmd_ch, watches, usb>> /\ HandlerFrame

\* The HTTP timeout (3 s), or the responder dropped: the queued request stays.
InfoTimesOut(c) ==
    /\ at[c] = "await_info"
    /\ Respond(c)
    /\ UNCHANGED <<flags, queues, watches, usb>> /\ HandlerFrame
-----------------------------------------------------------------------------
\* The steps a handler takes once its request has arrived.
HandlerStep(c) ==
    \/ CheckLink(c) \/ CheckVerified(c) \/ CheckRunning(c) \/ CheckIdle(c)
    \/ Claim(c) \/ SendLogMode(c) \/ SendStart(c) \/ PublishSession(c)
    \/ SendQuit(c) \/ SendConfig(c) \/ SendRestart(c) \/ SendFails(c)
    \/ ClearRunning(c) \/ EndSession(c) \/ Unverify(c) \/ ForgetInfo(c)
    \/ PulseReset(c) \/ SendInfo(c) \/ InfoTimesOut(c)

Arrival(c) == \/ \E o \in Ops \ {"mode"} : Request(c, o)
              \/ "mode" \in Ops /\ \E m \in Modes : SetOutputMode(c, m)
=============================================================================
