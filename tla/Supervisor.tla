---------------------------- MODULE Supervisor ----------------------------
(***************************************************************************)
(* run_supervisor: scan the bus, follow the boards by their ids, and       *)
(* detach what has been gone for DEBOUNCE scans (src/src/supervisor.rs).   *)
(* It is the only writer of the registry.                                  *)
(***************************************************************************)
EXTENDS Hotplug

DEBOUNCE == 3

NoCarry == [recovery_cycles |-> 0, fault |-> "none"]

\* DeviceRegistry::attach: a new handle, its task spawned, and the id pointing to
\* it; the handle that the id pointed to before is forgotten, not cancelled.
Attach(c, inherited) ==
    /\ born < MaxHandles
    /\ born' = born + 1
    /\ registry' = [registry EXCEPT ![c.id] = born + 1]
    /\ spec' = [spec EXCEPT ![born + 1] = [id |-> c.id, port_path |-> c.path, mac |-> c.mac,
                                           native |-> c.native, board |-> c.board]]
    /\ recovery_cycles' = [recovery_cycles EXCEPT ![born + 1] = inherited.recovery_cycles]
    /\ fault' = [fault EXCEPT ![born + 1] = inherited.fault]
    /\ at' = [at EXCEPT ![born + 1] = "open"]
    /\ port_path' = [port_path EXCEPT ![born + 1] = c.path]

Untouched == UNCHANGED <<bus, firmware_verified, fd, ladder, history>>
-----------------------------------------------------------------------------
\* The ports that hold a board.
Enumerated == {Candidate(b) : b \in {x \in Boards : where[x] # Absent}}

\* scan_ports, in a blocking thread, enumerates twice: detect_esp_ports takes the paths
\* from the first enumeration...
Scan ==
    /\ step = "scan"
    /\ PromptUsb => \A id \in Names : missing[id] = DEBOUNCE - 1 =>
                        \E c \in Enumerated : c.id = id
    /\ candidates' = Enumerated
    /\ step' = "look"
    /\ UNCHANGED <<shared, attached, at, port_path, present, carry, missing>> /\ Untouched

\* ...and each path gets the serial number and the vendor of the board that the second
\* finds there: another one perhaps, or none, and then the path is the id.
LookedUp(c) ==
    IF \E b \in Boards : where[b] = c.path
    THEN Candidate(CHOOSE b \in Boards : where[b] = c.path)
    ELSE [id |-> DeviceId(c.path, NoSerial), path |-> c.path, mac |-> NoSerial,
          native |-> FALSE, board |-> c.board]

Look ==
    /\ step = "look"
    /\ candidates' = {LookedUp(c) : c \in candidates}
    /\ present' = {LookedUp(c).id : c \in candidates}
    /\ step' = "each"
    /\ UNCHANGED <<shared, attached, at, port_path, carry, missing>> /\ Untouched

\* The candidate the loop is at, in the order of the paths, and the handle its id has.
This == CHOOSE c \in candidates : \A d \in candidates : Rank(c.path) <= Rank(d.path)
Old  == registry[This.id]

Skip ==
    /\ missing' = [missing EXCEPT ![This.id] = 0]
    /\ candidates' = candidates \ {This}
    /\ UNCHANGED <<present, carry>>

Add ==
    /\ step = "each" /\ candidates # {} /\ Old = NoHandle
    /\ Attach(This, NoCarry)
    /\ Skip
    /\ UNCHANGED <<shutdown, step>> /\ Untouched

\* Mutant: a handle is kept wherever its board has gone.
MovedNever(h, path) == FALSE

Moved(h, path) == spec[h].port_path # path

Keep ==
    /\ step = "each" /\ candidates # {} /\ Old # NoHandle /\ ~Moved(Old, This.path)
    /\ Skip
    /\ UNCHANGED <<shared, attached, at, port_path, step>> /\ Untouched

\* Mutant: nothing is carried over.
CarryNothing(h) == NoCarry

\* RecoveryCarryOver::from_handle.
CarryOver(h) == [recovery_cycles |-> recovery_cycles[h], fault |-> fault[h]]

\* The board moved: take the recovery state over, which awaits a lock...
Snapshot ==
    /\ step = "each" /\ candidates # {} /\ Old # NoHandle /\ Moved(Old, This.path)
    /\ carry' = CarryOver(Old)
    /\ step' = "swap"
    /\ UNCHANGED <<shared, attached, at, port_path, candidates, present, missing>> /\ Untouched

\* Mutant: the old handle is not cancelled.
Uncancelled(h) == shutdown

Cancelled(h) == [shutdown EXCEPT ![h] = TRUE]

\* ...then cancel the old handle and attach a new one.
Respawn ==
    /\ step = "swap"
    /\ Attach(This, carry)
    /\ shutdown' = Cancelled(Old)
    /\ missing' = [missing EXCEPT ![This.id] = 0]
    /\ candidates' = candidates \ {This}
    /\ carry' = NoCarry
    /\ step' = "each"
    /\ UNCHANGED present /\ Untouched

\* Mutant: one scan too many.
ExpiredLate(n) == n > DEBOUNCE

Expired(n) == n >= DEBOUNCE

\* The scans that each id has been missing for, this one included.
Counted(id) == IF registry[id] # NoHandle /\ id \notin present THEN missing[id] + 1 ELSE 0

\* Registered ids that were not seen are counted, and detached in the end.
Sweep ==
    /\ step = "each" /\ candidates = {}
    /\ LET gone == {id \in Names : Expired(Counted(id))}
       IN /\ missing' = [id \in Names |-> IF id \in gone THEN 0 ELSE Counted(id)]
          /\ registry' = [id \in Names |-> IF id \in gone THEN NoHandle ELSE registry[id]]
          /\ shutdown' = [h \in Handles |-> shutdown[h] \/ \E id \in gone : registry[id] = h]
    /\ step' = "scan"
    /\ UNCHANGED <<shared, born, spec, at, port_path, candidates, present, carry>> /\ Untouched

SupervisorStep == Scan \/ Look \/ Add \/ Keep \/ Snapshot \/ Respawn \/ Sweep
=============================================================================
