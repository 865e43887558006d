------------------------------- MODULE Fleet -------------------------------
(***************************************************************************)
(* The hotplug supervisor, the serial tasks of every handle it attached    *)
(* and the USB bus, interleaved.                                           *)
(***************************************************************************)
EXTENDS RecoveryLadder, Supervisor

Init ==
    /\ where = [b \in Boards |-> Absent] /\ moves = 0
    /\ registry = [id \in Names |-> NoHandle] /\ born = 0
    /\ spec = [h \in Handles |-> [id |-> "", port_path |-> Absent, mac |-> NoSerial,
                                  native |-> FALSE, board |-> NoBoard]]
    /\ recovery_cycles = [h \in Handles |-> 0] /\ fault = [h \in Handles |-> "none"]
    /\ firmware_verified = [h \in Handles |-> FALSE] /\ shutdown = [h \in Handles |-> FALSE]
    /\ at = [h \in Handles |-> "unborn"] /\ port_path = [h \in Handles |-> Absent]
    /\ fd = [h \in Handles |-> NoBoard]
    /\ carried_cycles = [h \in Handles |-> 0] /\ verify_failures = [h \in Handles |-> 0]
    /\ restart_sent = [h \in Handles |-> FALSE] /\ hw_reset_done = [h \in Handles |-> FALSE]
    /\ unverified = 0 /\ restarts = [b \in Boards |-> 0]
    /\ step = "scan" /\ candidates = {} /\ present = {} /\ carry = NoCarry
    /\ missing = [id \in Names |-> 0]

Next ==
    \/ \E b \in Boards : Unplug(b) \/ \E p \in Ports : Plug(b, p)
    \/ \E h \in Handles : TaskStep(h) \/ Asked(h) \/ Unverify(h)
    \/ SupervisorStep

Spec == Init /\ [][Next]_vars

\* The supervisor's loop and every task go on; a board that left the bus is back in
\* the end.  No task is owed a boot fault.
Replugged(b) == \E p \in Ports : Plug(b, p)
Attends(h)   == TaskStep(h) /\ (fault'[h] = "boot" => fault[h] = "boot")
Scheduled ==
    /\ WF_vars(SupervisorStep)
    /\ \A h \in Handles : WF_vars(Attends(h))
    /\ \A b \in Boards : WF_vars(Replugged(b))

FleetSpec == Spec /\ Scheduled
-----------------------------------------------------------------------------
Device == [id : Names \cup {""}, port_path : Ports \cup {Absent},
           mac : {SerialOf[b] : b \in Boards} \cup {NoSerial}, native : BOOLEAN,
           board : Boards \cup {NoBoard}]
Faults == {"none", "boot", "terminal"}

BusOK == where \in [Boards -> Ports \cup {Absent}] /\ moves \in 0..MaxMoves
SharedOK ==
    /\ recovery_cycles \in [Handles -> 0..1] /\ fault \in [Handles -> Faults]
    /\ firmware_verified \in [Handles -> BOOLEAN]
AttachedOK ==
    /\ registry \in [Names -> 0..born] /\ born \in 0..MaxHandles
    /\ spec \in [Handles -> Device] /\ shutdown \in [Handles -> BOOLEAN]
TasksOK ==
    /\ at \in [Handles -> {"unborn", "open", "opening", "verify", "select", "ended"}]
    /\ port_path \in [Handles -> Ports \cup {Absent}] /\ fd \in [Handles -> Boards \cup {NoBoard}]
    /\ carried_cycles \in [Handles -> 0..1] /\ verify_failures \in [Handles -> 0..LastRung]
    /\ restart_sent \in [Handles -> BOOLEAN] /\ hw_reset_done \in [Handles -> BOOLEAN]
HistoryOK == unverified \in 0..MaxUnverify /\ restarts \in [Boards -> 0..2]
ScanningOK ==
    /\ step \in {"scan", "look", "each", "swap"} /\ present \subseteq Names
    /\ \A c \in candidates : c.id \in Names /\ c.path \in Ports /\ c.native \in BOOLEAN
    /\ carry \in [recovery_cycles : 0..1, fault : Faults]
    /\ missing \in [Names -> 0..(DEBOUNCE - 1)]

\* Types of every variable; at most one restart is ever recorded in a handle, and no
\* id stays counted as missing for DEBOUNCE scans.
FleetTypeOK == BusOK /\ SharedOK /\ AttachedOK /\ TasksOK /\ HistoryOK /\ ScanningOK
-----------------------------------------------------------------------------
(***************************************************************************)
(* Who owns which port.                                                    *)
(***************************************************************************)
Live(h) == at[h] \in {"open", "opening", "verify", "select"} /\ ~shutdown[h]

\* A task that nobody cancelled belongs to a registered handle: no respawn and no
\* removal leaves a task behind that holds a port (src/src/supervisor.rs:214:
\* "the single authority on which devices exist").
NoOrphan == \A h \in Handles : Live(h) => registry[spec[h].id] = h

\* A task changes its port only to one that holds the board it was attached for
\* (src/src/serial.rs:275-280: "this only moves when it can prove where").
MovesWithProof ==
    [][\A h \in Handles : at[h] # "unborn" /\ port_path'[h] # port_path[h]
            => where[spec[h].board] = port_path'[h]]_vars

\* The supervisor and the tasks have caught up with the bus.
Settled ==
    /\ \A b \in Boards : where[b] # Absent =>
          LET h == registry[Candidate(b).id] IN h # NoHandle /\ spec[h].port_path = where[b]
    /\ \A id \in Names : registry[id] # NoHandle =>
          \E b \in Boards : where[b] # Absent /\ Candidate(b).id = id
    /\ \A h \in 1..born : IF shutdown[h] THEN at[h] = "ended"
                          ELSE at[h] = "select" /\ fd[h] # NoBoard

\* Once they have caught up, every board is served by the task of its own id, and no
\* board by two (src/src/state.rs:59-61: the id is stable and survives renumbering).
SettledOnOwnBoard ==
    Settled => \A b \in Boards : where[b] # Absent =>
        {h \in Handles : fd[h] = b} = {registry[Candidate(b).id]}

\* When users stop moving boards, the fleet settles, and stays so.
Converges == <>[]Settled
-----------------------------------------------------------------------------
(***************************************************************************)
(* Recovery.                                                               *)
(***************************************************************************)
\* A board that never verifies is restarted at most once, respawns of its handle
\* included (src/src/state.rs:118-124).
RestartedOnce == \A b \in Boards : restarts[b] <= 1

Declares(h) == fault[h] = "none" /\ fault'[h] = "terminal" /\ at[h] = "select"

\* A board is declared lost only after it was restarted itself, be it by another
\* connection or for a handle since replaced; and, if it is native USB, after the reset
\* pulse too, unless the connection took the restart over: then the code gives it up
\* without a pulse (src/src/serial.rs:569-581).
FaultAfterCures ==
    [][\A h \in Handles : Declares(h) =>
            /\ restarts[spec[h].board] >= 1
            /\ spec[h].native /\ carried_cycles[h] = 0 => hw_reset_done[h]]_vars

\* A mute board is handed to the human in the end: its registered handle has a fault.
Faulted(b) == \E h \in Handles : /\ Live(h) /\ registry[spec[h].id] = h
                                 /\ spec[h].board = b /\ fault[h] # "none"
MuteIsFaulted == \A b \in Mute : <>[]Faulted(b)
=============================================================================
