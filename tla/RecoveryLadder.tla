-------------------------- MODULE RecoveryLadder --------------------------
(***************************************************************************)
(* The serial task of every handle, as the bus and the supervisor see it:  *)
(* following a board that moved, verification, and the recovery ladder of  *)
(* a device that stays unverified (src/src/serial.rs).  What a connection  *)
(* does otherwise is SerialTask's subject.                                 *)
(***************************************************************************)
EXTENDS Hotplug

\* The ladder's last rung; more failures act alike.
LastRung == 6

\* Mutant: only a board that was pulsed is handed to the human.
RungNeedsPulse(carried, f, sent, native, pulsed) ==
    CASE carried >= 1 /\ f >= 2 -> "fault"
      [] carried = 0 /\ f >= 2 /\ ~sent -> "restart"
      [] carried = 0 /\ f >= 4 /\ sent /\ native /\ ~pulsed -> "pulse"
      [] carried = 0 /\ f >= LastRung /\ sent /\ pulsed -> "fault"
      [] OTHER -> "none"

\* What a soft failure, the f-th of a connection, makes the task do.
Rung(carried, f, sent, native, pulsed) ==
    CASE carried >= 1 /\ f >= 2 -> "fault"
      [] carried = 0 /\ f >= 2 /\ ~sent -> "restart"
      [] carried = 0 /\ f >= 4 /\ sent /\ native /\ ~pulsed -> "pulse"
      [] carried = 0 /\ f >= LastRung /\ sent /\ (native => pulsed) -> "fault"
      [] OTHER -> "none"

\* declare_terminal_fault: an earlier fault wins.
Declared(f) == IF f = "none" THEN "terminal" ELSE f
-----------------------------------------------------------------------------
(***************************************************************************)
(* Opening the port.                                                       *)
(***************************************************************************)
\* Mutant: any ESP port is followed.
FollowedAny(h) ==
    LET found == {where[b] : b \in {x \in Boards : where[x] # Absent /\ SerialOf[x] # NoSerial}}
    IN IF spec[h].mac # NoSerial /\ found # {} THEN found ELSE {port_path[h]}

\* resolve_port_by_serial: some port whose board has the handle's serial number,
\* in the enumeration's order; the task's own path if there is none.
Followed(h) ==
    LET found == {where[b] : b \in {x \in Boards : where[x] # Absent /\ SerialOf[x] = spec[h].mac}}
    IN IF spec[h].mac # NoSerial /\ found # {} THEN found ELSE {port_path[h]}

Resolve(h) ==
    /\ at[h] = "open" /\ ~shutdown[h]
    /\ \E p \in Followed(h) : port_path' = [port_path EXCEPT ![h] = p]
    /\ at' = [at EXCEPT ![h] = "opening"]
    /\ UNCHANGED <<bus, shared, attached, fd, ladder, history, scanning>>

\* Then it opens that path, whatever is there by now; it tries again if that is nothing.
OpenPort(h) ==
    /\ at[h] = "opening"
    /\ \/ \E b \in Boards : where[b] = port_path[h] /\ fd' = [fd EXCEPT ![h] = b]
                           /\ at' = [at EXCEPT ![h] = "verify"]
       \/ /\ \A b \in Boards : where[b] # port_path[h]
          /\ at' = [at EXCEPT ![h] = "open"]
          /\ UNCHANGED fd
    /\ UNCHANGED <<bus, shared, attached, port_path, ladder, history, scanning>>

EndBeforeOpen(h) ==
    /\ at[h] = "open" /\ shutdown[h]
    /\ at' = [at EXCEPT ![h] = "ended"]
    /\ UNCHANGED <<bus, shared, attached, port_path, fd, ladder, history, scanning>>
-----------------------------------------------------------------------------
(***************************************************************************)
(* Verification.  "boot": a boot fault was recognised; "hard": the         *)
(* descriptor is dead.                                                     *)
(***************************************************************************)
Outcome(h, r) ==
    CASE r = "ok" -> fd[h] # NoBoard /\ fd[h] \notin Mute
      [] r \in {"soft", "boot"} -> fd[h] \in Mute \cup Flaky
      [] r = "hard" -> fd[h] = NoBoard

\* What every outcome stores in the handle; a hard one ends the connection.
Verdict(h, r) ==
    /\ firmware_verified' = [firmware_verified EXCEPT ![h] = (r = "ok")]
    /\ at' = [at EXCEPT ![h] = IF r = "hard" THEN "open" ELSE "select"]

Verified(h) ==
    /\ fault' = [fault EXCEPT ![h] = "none"]
    /\ recovery_cycles' = [recovery_cycles EXCEPT ![h] = 0]
    /\ restarts' = [restarts EXCEPT ![fd[h]] = 0]

BootFault(h, r) == IF r = "boot" THEN [fault EXCEPT ![h] = "boot"] ELSE fault

\* The verification that a connection starts with; the ladder starts over.
AutoVerify(h, r) ==
    /\ at[h] = "verify" /\ Outcome(h, r)
    /\ Verdict(h, r)
    /\ IF r = "ok" THEN Verified(h)
       ELSE fault' = BootFault(h, r) /\ UNCHANGED <<recovery_cycles, restarts>>
    /\ carried_cycles' = [carried_cycles EXCEPT ![h] = recovery_cycles'[h]]
    /\ verify_failures' = [verify_failures EXCEPT ![h] = 0]
    /\ restart_sent' = [restart_sent EXCEPT ![h] = FALSE]
    /\ hw_reset_done' = [hw_reset_done EXCEPT ![h] = FALSE]
    /\ UNCHANGED <<bus, attached, port_path, fd, unverified, scanning>>

\* The re-verify arm of an unverified connection succeeds.
ReverifyOk(h) ==
    /\ at[h] = "select" /\ ~firmware_verified[h] /\ Outcome(h, "ok")
    /\ Verdict(h, "ok") /\ Verified(h)
    /\ verify_failures' = [verify_failures EXCEPT ![h] = 0]
    /\ UNCHANGED <<bus, attached, port_path, fd, carried_cycles, restart_sent,
                   hw_reset_done, unverified, scanning>>

\* The info route's arm, verified or not: it verifies as the others do, but leaves the
\* ladder where it is.
InfoRequest(h, r) ==
    /\ at[h] = "select" /\ r \in {"ok", "soft", "boot"} /\ Outcome(h, r)
    /\ Verdict(h, r)
    /\ IF r = "ok" THEN Verified(h)
       ELSE fault' = BootFault(h, r) /\ UNCHANGED <<recovery_cycles, restarts>>
    /\ UNCHANGED <<bus, attached, port_path, fd, ladder, unverified, scanning>>

\* The locals of a connection are gone with it.
Forgets(h) ==
    /\ carried_cycles' = [carried_cycles EXCEPT ![h] = 0]
    /\ verify_failures' = [verify_failures EXCEPT ![h] = 0]
    /\ restart_sent' = [restart_sent EXCEPT ![h] = FALSE]
    /\ hw_reset_done' = [hw_reset_done EXCEPT ![h] = FALSE]

\* Any arm of select! finds the descriptor dead, and the connection ends.
LinkLost(h) ==
    /\ at[h] = "select" /\ Outcome(h, "hard")
    /\ Verdict(h, "hard") /\ Forgets(h)
    /\ UNCHANGED <<bus, recovery_cycles, fault, attached, port_path, fd, history, scanning>>
-----------------------------------------------------------------------------
(***************************************************************************)
(* The ladder.                                                             *)
(***************************************************************************)
\* A native-USB board that reboots leaves the bus; a bridge stays on it.
MayReboot(b) ==
    \/ b \in Native /\ MayLeave /\ where' = [where EXCEPT ![b] = Absent] /\ fd' = Closed(b)
    \/ UNCHANGED <<where, fd>>

SendRestart(h) ==
    /\ restart_sent' = [restart_sent EXCEPT ![h] = TRUE]
    /\ recovery_cycles' = [recovery_cycles EXCEPT ![h] = @ + 1]
    /\ restarts' = [restarts EXCEPT ![fd[h]] = IF @ = 2 THEN 2 ELSE @ + 1]
    /\ MayReboot(fd[h])
    /\ UNCHANGED hw_reset_done

\* The pulse goes to the path of the handle, DeviceHandle.port_path.
PulseTargets(h) == {b \in Boards : where[b] = spec[h].port_path}

PulseReset(h) ==
    /\ hw_reset_done' = [hw_reset_done EXCEPT ![h] = TRUE]
    /\ \/ \E b \in PulseTargets(h) : MayReboot(b)
       \/ PulseTargets(h) = {} /\ UNCHANGED <<where, fd>>
    /\ UNCHANGED <<restart_sent, recovery_cycles, restarts>>

\* Mutant: the recovery count is read again at each failure.
ClimbsReread(h) == Rung(recovery_cycles[h], verify_failures'[h], restart_sent[h],
                        spec[h].native, hw_reset_done[h])

\* The rung that the re-verify arm reaches.
Climbs(h) == Rung(carried_cycles[h], verify_failures'[h], restart_sent[h],
                  spec[h].native, hw_reset_done[h])

\* The re-verify arm fails, and the ladder decides.  A cancelled task may still do
\* this: select! picks among its ready arms at random.
ReverifyFails(h, r) ==
    /\ at[h] = "select" /\ ~firmware_verified[h]
    /\ r \in {"soft", "boot"} /\ Outcome(h, r)
    /\ verify_failures' = [verify_failures EXCEPT ![h] = IF @ = LastRung THEN @ ELSE @ + 1]
    /\ fault' = IF Climbs(h) = "fault" THEN [BootFault(h, r) EXCEPT ![h] = Declared(@)]
                                       ELSE BootFault(h, r)
    /\ \/ Climbs(h) = "restart" /\ SendRestart(h)
       \/ Climbs(h) = "pulse" /\ PulseReset(h)
       \/ Climbs(h) \in {"fault", "none"}
          /\ UNCHANGED <<where, fd, restart_sent, hw_reset_done, recovery_cycles, restarts>>
    /\ UNCHANGED <<moves, firmware_verified, attached, at, port_path, carried_cycles,
                   unverified, scanning>>

ShutdownArm(h) ==
    /\ at[h] = "select" /\ shutdown[h]
    /\ at' = [at EXCEPT ![h] = "ended"]
    /\ fd' = [fd EXCEPT ![h] = NoBoard]
    /\ firmware_verified' = [firmware_verified EXCEPT ![h] = FALSE]
    /\ Forgets(h)
    /\ UNCHANGED <<bus, recovery_cycles, fault, attached, port_path, history, scanning>>

TaskStep(h) ==
    \/ Resolve(h) \/ OpenPort(h) \/ EndBeforeOpen(h) \/ ReverifyOk(h) \/ LinkLost(h) \/ ShutdownArm(h)
    \/ \E r \in {"ok", "soft", "boot", "hard"} : AutoVerify(h, r) \/ ReverifyFails(h, r)

\* A client asks for the info block.
Asked(h) == \E r \in {"ok", "soft", "boot"} : InfoRequest(h, r)
=============================================================================
