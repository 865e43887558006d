---------------------------- MODULE SessionFiles ----------------------------
(***************************************************************************)
(* What dumping promises, without saying how: every session that records   *)
(* has one file of its own, which is created once, takes rows of that      *)
(* session only and only while the session lasts, is closed before the     *)
(* next session begins, and is never touched again.                        *)
(***************************************************************************)
EXTENDS Sequences

CONSTANTS
    Calls,     \* the sessions: each names a run and a path
    PathOf,    \* the path of the session of a run
    None

VARIABLES
    session,   \* the path of the session that lasts, or None
    open,      \* the file that is being written, or None
    files,
    detached   \* whether the device was given up

vars == <<session, open, files, detached>>

Absent == [state |-> "absent", rows |-> <<>>]
Empty  == [state |-> "writing", rows |-> <<>>]

Init ==
    /\ session = None /\ open = None /\ detached = FALSE
    /\ files = [p \in Calls |-> Absent]

\* A session begins when the last one has ended, file and all; a device that was given
\* up may leave a session without an end, but no file open.
Begin(p) ==
    /\ session = None \/ detached
    /\ open = None /\ files[p] = Absent
    /\ session' = p
    /\ UNCHANGED <<open, files, detached>>

\* Whether a session gets a file at all is left open: creating it may fail.
Open ==
    /\ session # None /\ open = None /\ files[session] = Absent
    /\ open' = session
    /\ files' = [files EXCEPT ![session] = Empty]
    /\ UNCHANGED <<session, detached>>

Record(n) ==
    /\ open # None /\ session = open /\ PathOf[n] = open
    /\ files' = [files EXCEPT ![open].rows = Append(@, n)]
    /\ UNCHANGED <<session, open, detached>>

End ==
    /\ session' = None
    /\ UNCHANGED <<open, files, detached>>

\* The file can be read from then on, unless the disk failed.
Close ==
    /\ open # None /\ (session # open \/ detached)
    /\ \E e \in {"readable", "broken"} : files' = [files EXCEPT ![open].state = e]
    /\ open' = None
    /\ UNCHANGED <<session, detached>>

Detach ==
    /\ detached' = TRUE
    /\ UNCHANGED <<session, open, files>>

Next == \/ \E p \in Calls : Begin(p)
        \/ \E n \in Calls : Record(n)
        \/ Open \/ End \/ Close \/ Detach

Spec == Init /\ [][Next]_vars
=============================================================================
