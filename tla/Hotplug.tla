----------------------------- MODULE Hotplug -----------------------------
(***************************************************************************)
(* The USB bus, the device registry and the state of every device handle   *)
(* that attach ever made, as far as hotplug and recovery use it            *)
(* (src/src/state.rs, src/src/supervisor.rs).  RecoveryLadder gives the    *)
(* steps of the serial tasks, Supervisor those of the hotplug supervisor;  *)
(* Fleet composes them.                                                    *)
(***************************************************************************)
EXTENDS Integers, Sequences

CONSTANTS
    Boards,       \* the physical boards
    PortSeq,      \* the port paths, in the order in which paths sort
    SerialOf,     \* SerialOf[b]: the USB serial number, or NoSerial
    Native,       \* the boards that are native USB-Serial-JTAG
    Mute,         \* the boards whose firmware never verifies
    Flaky,        \* the boards whose firmware verifies or not
    Aliases,      \* SupervisorConfig.aliases: a sequence of [name, key]
    MaxHandles,   \* bound: handles made in a behaviour
    MaxMoves,     \* bound: times a user unplugs a board
    MaxUnverify,  \* bound: times a request unverifies a device
    PromptUsb     \* whether every board is back on the bus before the
                  \* supervisor gives it up, and none leaves in the middle of
                  \* a scan (an assumption on the bus)

NoSerial == ""
Absent   == "absent"     \* no port
NoBoard  == "no board"   \* a descriptor that is closed or dead
Ports    == {PortSeq[i] : i \in 1..Len(PortSeq)}
Names    == Ports \cup {SerialOf[b] : b \in Boards} \cup {Aliases[i].name : i \in 1..Len(Aliases)}
Handles  == 1..MaxHandles
NoHandle == 0

ASSUME HotplugAssumption ==
    /\ PortSeq \in Seq(STRING) /\ Absent \notin Ports /\ NoBoard \notin Boards
    /\ SerialOf \in [Boards -> STRING] /\ Native \subseteq Boards /\ Mute \subseteq Boards
    /\ Flaky \subseteq Boards
    /\ Aliases \in Seq([name : STRING, key : STRING])
    /\ MaxHandles \in Nat /\ MaxMoves \in Nat /\ MaxUnverify \in Nat /\ PromptUsb \in BOOLEAN

VARIABLES
    where,            \* the port each board is on, or Absent
    moves,            \* counter of the bound MaxMoves
    registry,         \* DeviceRegistry.map: id -> handle, or NoHandle
    born,             \* handles made so far: 1..born exist
    spec,             \* per handle, what it was attached with
    recovery_cycles, fault, firmware_verified, shutdown,  \* per handle, shared
    at, port_path, fd,       \* per task: its next step, its port, and the board
                             \* that its open descriptor reaches
    carried_cycles, verify_failures, restart_sent, hw_reset_done,
                             \* per task: the ladder of its connection
    unverified,       \* counter of the bound MaxUnverify
    restarts,         \* history: restart rungs fired at each board since it last
                      \* verified or was unplugged by a user
    step, candidates, present, carry, missing   \* the supervisor's locals

bus       == <<where, moves>>
shared    == <<recovery_cycles, fault, firmware_verified>>
attached  == <<registry, born, spec, shutdown>>
ladder    == <<carried_cycles, verify_failures, restart_sent, hw_reset_done>>
tasks     == <<at, port_path, fd, ladder>>
history   == <<unverified, restarts>>
scanning  == <<step, candidates, present, carry, missing>>
vars      == <<bus, shared, attached, tasks, history, scanning>>
-----------------------------------------------------------------------------
\* The least of a set of positions in a sequence.
First(positions) == CHOOSE i \in positions : \A j \in positions : i <= j

\* device_id: the first alias of the path or of the serial number, else the serial
\* number, else the path.
DeviceId(path, serial) ==
    LET hits == {i \in 1..Len(Aliases) : Aliases[i].key \in {path, serial} \ {NoSerial}}
    IN IF hits # {} THEN Aliases[First(hits)].name
       ELSE IF serial # NoSerial THEN serial ELSE path

\* The place of a path in the order of paths.
Rank(path) == First({i \in 1..Len(PortSeq) : PortSeq[i] = path})

\* One entry of USB enumeration, as scan_ports reports it.
Candidate(b) == [id |-> DeviceId(where[b], SerialOf[b]), path |-> where[b],
                 mac |-> SerialOf[b], native |-> b \in Native, board |-> b]

\* Whether a board may leave the bus now.
MayLeave == PromptUsb => step # "look"

\* The descriptors that stay alive when board b leaves the bus.
Closed(b) == [h \in Handles |-> IF fd[h] = b THEN NoBoard ELSE fd[h]]
-----------------------------------------------------------------------------
\* A user pulls the cable (also: a fault of the bus drops the device).
Unplug(b) ==
    /\ where[b] # Absent /\ moves < MaxMoves /\ MayLeave
    /\ where' = [where EXCEPT ![b] = Absent]
    /\ moves' = moves + 1
    /\ fd' = Closed(b)
    /\ restarts' = [restarts EXCEPT ![b] = 0]
    /\ UNCHANGED <<shared, attached, at, port_path, ladder, unverified, scanning>>

\* The board enumerates, on any free port.
Plug(b, p) ==
    /\ where[b] = Absent /\ \A other \in Boards : where[other] # p
    /\ where' = [where EXCEPT ![b] = p]
    /\ UNCHANGED <<moves, shared, attached, tasks, history, scanning>>

\* A reset request, or an info request that the board answers too late, clears the
\* verification.
Unverify(h) ==
    /\ at[h] = "select" /\ firmware_verified[h] /\ unverified < MaxUnverify
    /\ firmware_verified' = [firmware_verified EXCEPT ![h] = FALSE]
    /\ unverified' = unverified + 1
    /\ UNCHANGED <<bus, recovery_cycles, fault, attached, tasks, restarts, scanning>>
=============================================================================
