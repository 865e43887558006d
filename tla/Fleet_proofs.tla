--------------------------- MODULE Fleet_proofs ---------------------------
(***************************************************************************)
(* Proofs about Fleet: types, the single owner of every id, ports that     *)
(* change with proof, cures before a fault, and one restart per board.     *)
(***************************************************************************)
EXTENDS Fleet, WellFoundedInduction, TLAPS

\* The registry points from an id to the handle that was attached with that id.
RegistryOK == \A id \in Names : registry[id] # NoHandle => spec[registry[id]].id = id

\* The handles from born + 1 on do not exist yet.
UnbornOK == \A h \in Handles : h > born => at[h] = "unborn"

\* A connection that may still send its restart has none on record.
RestartsOnRecord ==
    \A h \in Handles : at[h] = "select" /\ carried_cycles[h] = 0 /\ ~restart_sent[h]
                           => recovery_cycles[h] = 0

\* Between the snapshot and the swap the candidate and its old handle stay.
SwapOK == step = "swap" => candidates # {} /\ Old # NoHandle

\* Handles have an id; candidates and handles carry the serial number of their board,
\* or none.
TrueSerials ==
    /\ \A c \in candidates : c.board \in Boards /\ c.mac \in {SerialOf[c.board], NoSerial}
    /\ \A h \in 1..born : /\ spec[h].id \in Names /\ spec[h].board \in Boards
                           /\ spec[h].mac \in {SerialOf[spec[h].board], NoSerial}

IInv == /\ FleetTypeOK /\ RegistryOK /\ UnbornOK /\ NoOrphan
        /\ RestartsOnRecord /\ SwapOK /\ TrueSerials
-----------------------------------------------------------------------------
(***************************************************************************)
(* Lemmas about the operators of the model.                                *)
(***************************************************************************)
\* A set of natural numbers that has an element has a least one.
LEMMA FirstIsLeast ==
  ASSUME NEW S, S \subseteq Nat, S # {}
  PROVE  First(S) \in S /\ \A j \in S : First(S) <= j
<1>1. PICK i \in S : \A j \in S : <<j, i>> \notin OpToRel(<, Nat)
  BY NatLessThanWellFounded, WFMin
<1>2. \A j \in S : i <= j
  <2>1. ASSUME NEW j \in S PROVE i <= j
    <3>1. i \in Nat /\ j \in Nat
      OBVIOUS
    <3>2. ~(j < i)
      BY <1>1, <3>1 DEF OpToRel
    <3> QED BY <3>1, <3>2
  <2> QED BY <2>1
<1> QED BY <1>2 DEF First

\* Every path of the bus has a rank.
LEMMA RankType ==
  ASSUME NEW p \in Ports
  PROVE  Rank(p) \in Nat
<1> DEFINE S == {i \in 1..Len(PortSeq) : PortSeq[i] = p}
<1>1. S # {} /\ S \subseteq Nat
  BY HotplugAssumption DEF Ports
<1>2. First(S) \in S
  BY <1>1, FirstIsLeast
<1> QED BY <1>1, <1>2 DEF Rank

\* Of candidates on the bus one comes first.
LEMMA ThisIsCandidate ==
  ASSUME candidates # {}, \A c \in candidates : c.path \in Ports
  PROVE  This \in candidates
<1> DEFINE S == {Rank(c.path) : c \in candidates}
<1>1. S # {} /\ S \subseteq Nat
  BY RankType
<1>2. PICK m \in S : \A n \in S : m <= n
  BY <1>1, FirstIsLeast
<1>3. PICK c \in candidates : m = Rank(c.path)
  BY <1>2
<1>4. \A d \in candidates : Rank(c.path) <= Rank(d.path)
  BY <1>2, <1>3
<1> QED BY <1>3, <1>4 DEF This

\* The id of a port on the bus is one of the names.
LEMMA DeviceIdType ==
  ASSUME NEW p \in Ports, NEW s \in {SerialOf[b] : b \in Boards} \cup {NoSerial}
  PROVE  DeviceId(p, s) \in Names
<1> DEFINE hits == {i \in 1..Len(Aliases) : Aliases[i].key \in {p, s} \ {NoSerial}}
<1>1. CASE hits # {}
  <2> hits \subseteq Nat
    BY HotplugAssumption
  <2>1. First(hits) \in 1..Len(Aliases)
    <3>1. First(hits) \in hits
      BY <1>1, FirstIsLeast
    <3> QED BY <3>1
  <2>2. Aliases[First(hits)].name \in Names
    BY <2>1 DEF Names
  <2> QED BY <1>1, <2>2 DEF DeviceId
<1>2. CASE hits = {}
  BY <1>2 DEF DeviceId, Names
<1> QED BY <1>1, <1>2

\* What a scan reports of a board.
Reported(c) == /\ c.id \in Names /\ c.path \in Ports /\ c.native \in BOOLEAN
               /\ c.board \in Boards /\ c.mac \in {SerialOf[c.board], NoSerial}

LEMMA CandidateReported ==
  ASSUME BusOK, NEW b \in Boards, where[b] # Absent
  PROVE  Reported(Candidate(b))
<1>1. where[b] \in Ports
  BY DEF BusOK
<1>2. DeviceId(where[b], SerialOf[b]) \in Names
  BY <1>1, DeviceIdType
<1> QED BY <1>1, <1>2 DEF Candidate, Reported

\* What the first enumeration reports.
LEMMA EnumeratedType ==
  ASSUME BusOK
  PROVE  /\ {c.id : c \in Enumerated} \subseteq Names
         /\ \A c \in Enumerated : Reported(c)
<1>1. ASSUME NEW b \in Boards, where[b] # Absent
      PROVE  Reported(Candidate(b))
  BY <1>1, CandidateReported
<1> QED BY <1>1 DEF Enumerated, Reported

\* What the second enumeration makes of it.
LEMMA LookedUpType ==
  ASSUME BusOK, NEW c, Reported(c)
  PROVE  Reported(LookedUp(c))
<1>1. CASE \E b \in Boards : where[b] = c.path
  <2>1. PICK b \in Boards : b = (CHOOSE a \in Boards : where[a] = c.path) /\ where[b] = c.path
    BY <1>1
  <2>2. LookedUp(c) = Candidate(b) /\ where[b] # Absent
    BY <1>1, <2>1, HotplugAssumption DEF LookedUp, Reported
  <2> QED BY <2>2, CandidateReported
<1>2. CASE ~\E b \in Boards : where[b] = c.path
  <2>1. DeviceId(c.path, NoSerial) \in Names
    BY DeviceIdType DEF Reported
  <2>2. LookedUp(c) = [id |-> DeviceId(c.path, NoSerial), path |-> c.path, mac |-> NoSerial,
                       native |-> FALSE, board |-> c.board]
    BY <1>2 DEF LookedUp
  <2> QED BY <2>1, <2>2 DEF Reported
<1> QED BY <1>1, <1>2
-----------------------------------------------------------------------------
(***************************************************************************)
(* The inductive invariant: the initial states.                            *)
(***************************************************************************)
LEMMA InitIInv == Init => IInv
<1> SUFFICES ASSUME Init PROVE IInv
  OBVIOUS
<1>1. BusOK
  <2>1. where = [b \in Boards |-> Absent] /\ moves = 0 /\ MaxMoves \in Nat
    BY HotplugAssumption DEF Init
  <2> QED BY <2>1 DEF BusOK
<1>2. SharedOK
  <2>1. /\ recovery_cycles = [h \in Handles |-> 0] /\ fault = [h \in Handles |-> "none"]
        /\ firmware_verified = [h \in Handles |-> FALSE]
    BY DEF Init
  <2> QED BY <2>1 DEF SharedOK, Faults
<1>3. AttachedOK
  <2>1. registry = [id \in Names |-> 0] /\ born = 0 /\ MaxHandles \in Nat
    BY HotplugAssumption DEF Init, NoHandle
  <2>2. spec = [h \in Handles |-> [id |-> "", port_path |-> Absent, mac |-> NoSerial,
                                   native |-> FALSE, board |-> NoBoard]]
    BY DEF Init
  <2>3. [id |-> "", port_path |-> Absent, mac |-> NoSerial, native |-> FALSE, board |-> NoBoard]
           \in Device
    BY DEF Device
  <2>4. shutdown = [h \in Handles |-> FALSE]
    BY DEF Init
  <2>5. registry \in [Names -> 0..born] /\ born \in 0..MaxHandles
    BY <2>1
  <2>6. spec \in [Handles -> Device]
    BY <2>2, <2>3
  <2> QED BY <2>4, <2>5, <2>6 DEF AttachedOK
<1>4. TasksOK
  <2>1. /\ at = [h \in Handles |-> "unborn"] /\ port_path = [h \in Handles |-> Absent]
        /\ fd = [h \in Handles |-> NoBoard]
    BY DEF Init
  <2>2. /\ carried_cycles = [h \in Handles |-> 0] /\ verify_failures = [h \in Handles |-> 0]
        /\ restart_sent = [h \in Handles |-> FALSE] /\ hw_reset_done = [h \in Handles |-> FALSE]
    BY DEF Init
  <2> QED BY <2>1, <2>2 DEF TasksOK, LastRung
<1>5. HistoryOK
  <2>1. unverified = 0 /\ restarts = [b \in Boards |-> 0] /\ MaxUnverify \in Nat
    BY HotplugAssumption DEF Init
  <2> QED BY <2>1 DEF HistoryOK
<1>6. ScanningOK
  <2>1. /\ step = "scan" /\ candidates = {} /\ present = {} /\ carry = NoCarry
        /\ missing = [id \in Names |-> 0]
    BY DEF Init
  <2> QED BY <2>1 DEF ScanningOK, Faults, NoCarry, DEBOUNCE
<1>7. RegistryOK /\ SwapOK /\ TrueSerials
  <2>1. registry = [id \in Names |-> NoHandle] /\ born = 0 /\ candidates = {} /\ step = "scan"
    BY DEF Init
  <2>2. 1..born = {}
    BY <2>1
  <2> QED BY <2>1, <2>2 DEF RegistryOK, SwapOK, TrueSerials
<1>8. UnbornOK /\ NoOrphan /\ RestartsOnRecord
  <2>1. at = [h \in Handles |-> "unborn"]
    BY DEF Init
  <2> QED BY <2>1 DEF UnbornOK, NoOrphan, Live, RestartsOnRecord
<1> QED BY <1>1, <1>2, <1>3, <1>4, <1>5, <1>6, <1>7, <1>8 DEF IInv, FleetTypeOK

-----------------------------------------------------------------------------
(***************************************************************************)
(* The steps of the bus and of the tasks, which leave the registry and the *)
(* supervisor alone.                                                       *)
(***************************************************************************)
\* What they keep.
LEMMA SupervisorKept ==
  ASSUME IInv, UNCHANGED <<attached, scanning>>
  PROVE  /\ AttachedOK' /\ ScanningOK' /\ RegistryOK' /\ SwapOK' /\ TrueSerials'
<1> USE DEF IInv, FleetTypeOK, attached, scanning
<1>1. AttachedOK' /\ ScanningOK'
  BY DEF AttachedOK, ScanningOK
<1>2. RegistryOK' /\ SwapOK' /\ TrueSerials'
  BY DEF RegistryOK, SwapOK, Old, This, TrueSerials
<1> QED BY <1>1, <1>2

\* A task that was running runs on or ends; then nothing is orphaned.
LEMMA OwnersKept ==
  ASSUME IInv, UNCHANGED attached, NEW h \in Handles, at[h] # "unborn",
         \E s : at' = [at EXCEPT ![h] = s] /\ (s # "ended" => at[h] # "ended")
  PROVE  UnbornOK' /\ NoOrphan'
BY DEF IInv, FleetTypeOK, TasksOK, AttachedOK, attached, UnbornOK, NoOrphan, Live

\* Descriptors stay typed when a board leaves.
LEMMA ClosedType ==
  ASSUME fd \in [Handles -> Boards \cup {NoBoard}], NEW b
  PROVE  Closed(b) \in [Handles -> Boards \cup {NoBoard}]
BY DEF Closed

\* The bus and the descriptors stay typed when a board may reboot.
LEMMA MayRebootType ==
  ASSUME BusOK, fd \in [Handles -> Boards \cup {NoBoard}], NEW b, MayReboot(b)
  PROVE  /\ where' \in [Boards -> Ports \cup {Absent}]
         /\ fd' \in [Handles -> Boards \cup {NoBoard}]
BY ClosedType DEF BusOK, MayReboot

LEMMA EnvironmentStep ==
  ASSUME IInv,
         \/ \E b \in Boards : Unplug(b) \/ \E p \in Ports : Plug(b, p)
         \/ \E h \in Handles : Unverify(h)
  PROVE  IInv'
<1> USE HotplugAssumption DEF IInv, FleetTypeOK
<1>1. CASE \E b \in Boards : Unplug(b)
  <2> PICK b \in Boards : Unplug(b)
    BY <1>1
  <2>1. UNCHANGED <<attached, scanning>> /\ UNCHANGED <<shared, at, carried_cycles, restart_sent>>
    BY DEF Unplug, ladder
  <2>2. BusOK' /\ SharedOK' /\ TasksOK' /\ HistoryOK'
    <3>1. fd' \in [Handles -> Boards \cup {NoBoard}]
      BY ClosedType DEF Unplug, TasksOK
    <3> QED BY <3>1 DEF Unplug, BusOK, SharedOK, shared, TasksOK, ladder, HistoryOK
  <2>3. UnbornOK' /\ NoOrphan' /\ RestartsOnRecord'
    BY <2>1 DEF UnbornOK, NoOrphan, Live, RestartsOnRecord, attached, shared
  <2> QED BY <2>1, <2>2, <2>3, SupervisorKept
<1>2. CASE \E b \in Boards, p \in Ports : Plug(b, p)
  <2> PICK b \in Boards, p \in Ports : Plug(b, p)
    BY <1>2
  <2>1. UNCHANGED <<moves, shared, attached, tasks, history, scanning>>
    BY DEF Plug
  <2>2. BusOK'
    BY <2>1 DEF Plug, BusOK
  <2>3. SharedOK' /\ TasksOK' /\ HistoryOK'
    BY <2>1 DEF SharedOK, shared, TasksOK, tasks, ladder, HistoryOK, history
  <2>4. UnbornOK' /\ NoOrphan' /\ RestartsOnRecord'
    BY <2>1 DEF UnbornOK, NoOrphan, Live, RestartsOnRecord, attached, shared, tasks, ladder
  <2> QED BY <2>1, <2>2, <2>3, <2>4, SupervisorKept
<1>3. CASE \E h \in Handles : Unverify(h)
  <2> PICK h \in Handles : Unverify(h)
    BY <1>3
  <2>1. UNCHANGED <<bus, recovery_cycles, fault, attached, tasks, restarts, scanning>>
    BY DEF Unverify
  <2>2. BusOK' /\ SharedOK' /\ TasksOK' /\ HistoryOK'
    BY <2>1 DEF Unverify, BusOK, bus, SharedOK, TasksOK, tasks, ladder, HistoryOK
  <2>3. UnbornOK' /\ NoOrphan' /\ RestartsOnRecord'
    BY <2>1 DEF UnbornOK, NoOrphan, Live, RestartsOnRecord, attached, tasks, ladder
  <2> QED BY <2>1, <2>2, <2>3, SupervisorKept
<1> QED BY <1>1, <1>2, <1>3
-----------------------------------------------------------------------------
(***************************************************************************)
(* The steps of a serial task.                                             *)
(***************************************************************************)
\* What a verification stores in the handle.
LEMMA VerifiedType ==
  ASSUME IInv, NEW h \in Handles, fd[h] \in Boards, Verified(h)
  PROVE  /\ fault' \in [Handles -> Faults] /\ recovery_cycles' \in [Handles -> 0..1]
         /\ restarts' \in [Boards -> 0..2] /\ recovery_cycles'[h] = 0
         /\ \A g \in Handles \ {h} : recovery_cycles'[g] = recovery_cycles[g]
BY DEF IInv, FleetTypeOK, SharedOK, HistoryOK, Verified, Faults

LEMMA BootFaultType ==
  ASSUME fault \in [Handles -> Faults], NEW h \in Handles, NEW r
  PROVE  BootFault(h, r) \in [Handles -> Faults]
BY DEF BootFault, Faults

\* A board that answers, or fails softly, is there.
LEMMA OutcomeReaches ==
  ASSUME IInv, NEW h \in Handles, NEW r \in {"ok", "soft", "boot"}, Outcome(h, r)
  PROVE  fd[h] \in Boards
BY HotplugAssumption DEF IInv, FleetTypeOK, TasksOK, Outcome

LEMMA OpenStep ==
  ASSUME IInv, NEW h \in Handles, Resolve(h) \/ OpenPort(h) \/ EndBeforeOpen(h)
  PROVE  IInv'
<1>1. /\ UNCHANGED <<bus, shared, attached, ladder, history, scanning>>
      /\ at[h] \in {"open", "opening"}
  BY DEF Resolve, OpenPort, EndBeforeOpen
<1>2. BusOK' /\ SharedOK' /\ HistoryOK'
  BY <1>1 DEF IInv, FleetTypeOK, BusOK, bus, SharedOK, shared, HistoryOK, history
<1>3. /\ port_path' \in [Handles -> Ports \cup {Absent}]
      /\ fd' \in [Handles -> Boards \cup {NoBoard}]
      /\ \E s \in {"open", "opening", "verify", "ended"} : at' = [at EXCEPT ![h] = s]
  <2> USE DEF IInv, FleetTypeOK, TasksOK, BusOK
  <2>1. CASE Resolve(h)
    <3>1. Followed(h) \subseteq Ports \cup {Absent}
      BY DEF Followed
    <3> QED BY <2>1, <3>1 DEF Resolve
  <2>2. CASE OpenPort(h)
    BY <2>2 DEF OpenPort
  <2>3. CASE EndBeforeOpen(h)
    BY <2>3 DEF EndBeforeOpen
  <2> QED BY <2>1, <2>2, <2>3
<1>4. TasksOK'
  BY <1>1, <1>3 DEF IInv, FleetTypeOK, TasksOK, ladder
<1>5. UnbornOK' /\ NoOrphan'
  BY <1>1, <1>3, OwnersKept
<1>6. RestartsOnRecord'
  BY <1>1, <1>3 DEF IInv, FleetTypeOK, TasksOK, RestartsOnRecord, ladder, shared
<1> QED BY <1>1, <1>2, <1>4, <1>5, <1>6, SupervisorKept DEF IInv, FleetTypeOK

LEMMA AutoVerifyStep ==
  ASSUME IInv, NEW h \in Handles, NEW r \in {"ok", "soft", "boot", "hard"}, AutoVerify(h, r)
  PROVE  IInv'
<1>1. /\ UNCHANGED <<bus, attached, port_path, fd, unverified, scanning>>
      /\ at[h] = "verify" /\ Outcome(h, r) /\ Verdict(h, r)
  BY DEF AutoVerify
<1>2. /\ fault' \in [Handles -> Faults] /\ recovery_cycles' \in [Handles -> 0..1]
      /\ restarts' \in [Boards -> 0..2]
      /\ \A g \in Handles \ {h} : recovery_cycles'[g] = recovery_cycles[g]
  <2>1. CASE r = "ok"
    <3>1. fd[h] \in Boards /\ Verified(h)
      BY <1>1, <2>1, OutcomeReaches DEF AutoVerify
    <3> QED BY <3>1, VerifiedType
  <2>2. CASE r # "ok"
    <3>1. fault' = BootFault(h, r) /\ UNCHANGED <<recovery_cycles, restarts>>
      BY <2>2 DEF AutoVerify
    <3> QED BY <3>1, BootFaultType DEF IInv, FleetTypeOK, SharedOK, HistoryOK
  <2> QED BY <2>1, <2>2
<1>3. /\ carried_cycles' = [carried_cycles EXCEPT ![h] = recovery_cycles'[h]]
      /\ verify_failures' = [verify_failures EXCEPT ![h] = 0]
      /\ restart_sent' = [restart_sent EXCEPT ![h] = FALSE]
      /\ hw_reset_done' = [hw_reset_done EXCEPT ![h] = FALSE]
  BY DEF AutoVerify
<1>4. BusOK' /\ SharedOK' /\ HistoryOK'
  BY <1>1, <1>2 DEF Verdict, IInv, FleetTypeOK, BusOK, bus, SharedOK, HistoryOK
<1>5. \E s \in {"open", "select"} : at' = [at EXCEPT ![h] = s]
  BY <1>1 DEF Verdict
<1>6. TasksOK'
  BY <1>1, <1>2, <1>3, <1>5 DEF IInv, FleetTypeOK, TasksOK, LastRung
<1>7. UnbornOK' /\ NoOrphan'
  BY <1>1, <1>5, OwnersKept
<1>8. RestartsOnRecord'
  BY <1>2, <1>3, <1>5 DEF IInv, FleetTypeOK, TasksOK, RestartsOnRecord
<1> QED BY <1>1, <1>4, <1>6, <1>7, <1>8, SupervisorKept DEF IInv, FleetTypeOK

LEMMA OkStep ==
  ASSUME IInv, NEW h \in Handles, ReverifyOk(h) \/ InfoRequest(h, "ok")
  PROVE  IInv'
<1>1. /\ UNCHANGED <<bus, attached, port_path, fd, carried_cycles, restart_sent, hw_reset_done,
                     unverified, scanning>>
      /\ at[h] = "select" /\ Outcome(h, "ok") /\ Verified(h)
      /\ firmware_verified' = [firmware_verified EXCEPT ![h] = TRUE]
      /\ at' = [at EXCEPT ![h] = "select"]
      /\ verify_failures' = [verify_failures EXCEPT ![h] = 0] \/ UNCHANGED verify_failures
  BY DEF ReverifyOk, InfoRequest, Verdict, ladder
<1>2. /\ fault' \in [Handles -> Faults] /\ recovery_cycles' \in [Handles -> 0..1]
      /\ restarts' \in [Boards -> 0..2] /\ recovery_cycles'[h] = 0
      /\ \A g \in Handles \ {h} : recovery_cycles'[g] = recovery_cycles[g]
  BY <1>1, OutcomeReaches, VerifiedType
<1>3. BusOK' /\ SharedOK' /\ HistoryOK'
  BY <1>1, <1>2 DEF IInv, FleetTypeOK, BusOK, bus, SharedOK, HistoryOK
<1>4. TasksOK'
  BY <1>1 DEF IInv, FleetTypeOK, TasksOK, LastRung
<1>5. UnbornOK' /\ NoOrphan'
  BY <1>1, OwnersKept
<1>6. RestartsOnRecord'
  BY <1>1, <1>2 DEF IInv, FleetTypeOK, TasksOK, RestartsOnRecord
<1> QED BY <1>1, <1>3, <1>4, <1>5, <1>6, SupervisorKept DEF IInv, FleetTypeOK

\* An info request fails.
LEMMA AskedStep ==
  ASSUME IInv, NEW h \in Handles, NEW r \in {"soft", "boot"}, InfoRequest(h, r)
  PROVE  IInv'
<1>1. /\ UNCHANGED <<bus, recovery_cycles, restarts, attached, port_path, fd, ladder,
                     unverified, scanning>>
      /\ at[h] = "select" /\ at' = [at EXCEPT ![h] = "select"]
      /\ fault' = BootFault(h, r)
      /\ firmware_verified' = [firmware_verified EXCEPT ![h] = FALSE]
  BY DEF InfoRequest, Verdict
<1>2. BusOK' /\ SharedOK' /\ HistoryOK'
  BY <1>1, BootFaultType DEF IInv, FleetTypeOK, BusOK, bus, SharedOK, HistoryOK
<1>3. TasksOK'
  BY <1>1 DEF IInv, FleetTypeOK, TasksOK, ladder
<1>4. UnbornOK' /\ NoOrphan'
  BY <1>1, OwnersKept
<1>5. RestartsOnRecord'
  BY <1>1 DEF IInv, FleetTypeOK, TasksOK, RestartsOnRecord, ladder
<1> QED BY <1>1, <1>2, <1>3, <1>4, <1>5, SupervisorKept DEF IInv, FleetTypeOK

\* The connection ends, or the task.
LEMMA LeaveSelectStep ==
  ASSUME IInv, NEW h \in Handles, LinkLost(h) \/ ShutdownArm(h)
  PROVE  IInv'
<1>1. /\ UNCHANGED <<bus, recovery_cycles, fault, attached, port_path, history, scanning>>
      /\ Forgets(h)
      /\ at[h] = "select" /\ \E s \in {"open", "ended"} : at' = [at EXCEPT ![h] = s]
      /\ firmware_verified' = [firmware_verified EXCEPT ![h] = FALSE]
      /\ fd' = fd \/ fd' = [fd EXCEPT ![h] = NoBoard]
  BY DEF LinkLost, ShutdownArm, Verdict
<1>2. BusOK' /\ SharedOK' /\ HistoryOK'
  BY <1>1 DEF IInv, FleetTypeOK, BusOK, bus, SharedOK, HistoryOK, history
<1>3. TasksOK'
  BY <1>1 DEF IInv, FleetTypeOK, TasksOK, Forgets, LastRung
<1>4. UnbornOK' /\ NoOrphan'
  BY <1>1, OwnersKept
<1>5. RestartsOnRecord'
  BY <1>1 DEF IInv, FleetTypeOK, TasksOK, RestartsOnRecord, Forgets
<1> QED BY <1>1, <1>2, <1>3, <1>4, <1>5, SupervisorKept DEF IInv, FleetTypeOK

\* The ladder: only a connection that took over no restart, and has sent none, restarts.
LEMMA LadderStep ==
  ASSUME IInv, NEW h \in Handles, NEW r \in {"soft", "boot"}, ReverifyFails(h, r)
  PROVE  IInv'
<1>1. /\ UNCHANGED <<moves, firmware_verified, attached, at, port_path, carried_cycles,
                     unverified, scanning>>
      /\ at[h] = "select" /\ Outcome(h, r)
  BY DEF ReverifyFails
<1>2. fd[h] \in Boards
  BY <1>1, OutcomeReaches
<1>3. verify_failures' \in [Handles -> 0..LastRung]
  BY DEF ReverifyFails, IInv, FleetTypeOK, TasksOK, LastRung
<1>4. fault' \in [Handles -> Faults]
  <2>1. BootFault(h, r) \in [Handles -> Faults]
    BY BootFaultType DEF IInv, FleetTypeOK, SharedOK
  <2>2. \A f \in Faults : Declared(f) \in Faults
    BY DEF Declared, Faults
  <2>3. [BootFault(h, r) EXCEPT ![h] = Declared(@)] \in [Handles -> Faults]
    BY <2>1, <2>2
  <2> QED BY <2>1, <2>3 DEF ReverifyFails
<1>5. /\ where' \in [Boards -> Ports \cup {Absent}] /\ fd' \in [Handles -> Boards \cup {NoBoard}]
      /\ recovery_cycles' \in [Handles -> 0..1] /\ restarts' \in [Boards -> 0..2]
      /\ restart_sent' \in [Handles -> BOOLEAN] /\ hw_reset_done' \in [Handles -> BOOLEAN]
      /\ RestartsOnRecord'
  <2>0. /\ BusOK /\ where \in [Boards -> Ports \cup {Absent}]
        /\ fd \in [Handles -> Boards \cup {NoBoard}]
        /\ recovery_cycles \in [Handles -> 0..1] /\ restarts \in [Boards -> 0..2]
        /\ restart_sent \in [Handles -> BOOLEAN] /\ hw_reset_done \in [Handles -> BOOLEAN]
        /\ carried_cycles \in [Handles -> 0..1]
    BY DEF IInv, FleetTypeOK, BusOK, SharedOK, HistoryOK, TasksOK
  <2>1. CASE Climbs(h) = "restart" /\ SendRestart(h)
    <3>1. carried_cycles[h] = 0 /\ ~restart_sent[h]
      BY <2>1 DEF Climbs, Rung
    <3>2. recovery_cycles[h] = 0
      BY <1>1, <3>1 DEF IInv, RestartsOnRecord
    <3>3. /\ restart_sent' = [restart_sent EXCEPT ![h] = TRUE]
          /\ recovery_cycles' = [recovery_cycles EXCEPT ![h] = @ + 1]
          /\ restarts' = [restarts EXCEPT ![fd[h]] = IF @ = 2 THEN 2 ELSE @ + 1]
          /\ MayReboot(fd[h]) /\ UNCHANGED hw_reset_done
      BY <2>1 DEF SendRestart
    <3>4. where' \in [Boards -> Ports \cup {Absent}] /\ fd' \in [Handles -> Boards \cup {NoBoard}]
      BY <2>0, <3>3, MayRebootType
    <3>5. recovery_cycles' \in [Handles -> 0..1]
      BY <2>0, <3>2, <3>3
    <3>6. restarts' \in [Boards -> 0..2]
      <4>1. \A n \in 0..2 : (IF n = 2 THEN 2 ELSE n + 1) \in 0..2
        OBVIOUS
      <4> QED BY <1>2, <2>0, <3>3, <4>1
    <3>7. RestartsOnRecord'
      BY <1>1, <2>0, <3>3 DEF IInv, RestartsOnRecord
    <3> QED BY <2>0, <3>3, <3>4, <3>5, <3>6, <3>7
  <2>2. CASE Climbs(h) = "pulse" /\ PulseReset(h)
    <3>1. /\ hw_reset_done' = [hw_reset_done EXCEPT ![h] = TRUE]
          /\ UNCHANGED <<restart_sent, recovery_cycles, restarts>>
      BY <2>2 DEF PulseReset
    <3>2. where' \in [Boards -> Ports \cup {Absent}] /\ fd' \in [Handles -> Boards \cup {NoBoard}]
      BY <2>0, <2>2, MayRebootType DEF PulseReset
    <3>3. RestartsOnRecord'
      BY <1>1, <3>1 DEF IInv, RestartsOnRecord
    <3> QED BY <2>0, <3>1, <3>2, <3>3
  <2>3. CASE UNCHANGED <<where, fd, restart_sent, hw_reset_done, recovery_cycles, restarts>>
    BY <1>1, <2>0, <2>3 DEF IInv, RestartsOnRecord
  <2> QED BY <2>1, <2>2, <2>3 DEF ReverifyFails
<1>6. BusOK' /\ SharedOK' /\ HistoryOK' /\ TasksOK'
  BY <1>1, <1>3, <1>4, <1>5 DEF IInv, FleetTypeOK, BusOK, SharedOK, HistoryOK, TasksOK
<1>7. at' = [at EXCEPT ![h] = "select"]
  BY <1>1 DEF IInv, FleetTypeOK, TasksOK
<1>8. UnbornOK' /\ NoOrphan'
  BY <1>1, <1>7, OwnersKept
<1> QED BY <1>1, <1>5, <1>6, <1>8, SupervisorKept DEF IInv, FleetTypeOK

LEMMA TaskStepIInv ==
  ASSUME IInv, NEW h \in Handles, TaskStep(h) \/ Asked(h)
  PROVE  IInv'
<1>1. ASSUME NEW r \in {"ok", "soft", "boot", "hard"}, ReverifyFails(h, r) PROVE IInv'
  <2>1. r \in {"soft", "boot"}
    BY <1>1 DEF ReverifyFails
  <2> QED BY <1>1, <2>1, LadderStep
<1>2. CASE \E r \in {"ok", "soft", "boot", "hard"} : AutoVerify(h, r) \/ ReverifyFails(h, r)
  <2>1. PICK r \in {"ok", "soft", "boot", "hard"} : AutoVerify(h, r) \/ ReverifyFails(h, r)
    BY <1>2
  <2>2. CASE AutoVerify(h, r)
    BY <2>2, AutoVerifyStep
  <2>3. CASE ReverifyFails(h, r)
    BY <2>3, <1>1
  <2> QED BY <2>1, <2>2, <2>3
<1>3. CASE \/ Resolve(h) \/ OpenPort(h) \/ EndBeforeOpen(h) \/ ReverifyOk(h) \/ LinkLost(h)
           \/ ShutdownArm(h)
  BY <1>3, OpenStep, OkStep, LeaveSelectStep
<1>4. CASE Asked(h)
  <2>1. PICK r \in {"ok", "soft", "boot"} : InfoRequest(h, r)
    BY <1>4 DEF Asked
  <2> QED BY <2>1, OkStep, AskedStep
<1> QED BY <1>2, <1>3, <1>4 DEF TaskStep
-----------------------------------------------------------------------------
(***************************************************************************)
(* The steps of the supervisor.                                            *)
(***************************************************************************)
\* Attaching keeps the invariant if it cancels the handle it replaces.
LEMMA AttachKeeps ==
  ASSUME IInv, NEW c \in candidates, NEW inherited \in [recovery_cycles : 0..1, fault : Faults],
         Attach(c, inherited), Untouched, candidates' \subseteq candidates,
         shutdown' \in [Handles -> BOOLEAN], \A h \in Handles : shutdown[h] => shutdown'[h],
         registry[c.id] # NoHandle => shutdown'[registry[c.id]]
  PROVE  /\ BusOK' /\ SharedOK' /\ AttachedOK' /\ TasksOK' /\ HistoryOK'
         /\ RegistryOK' /\ UnbornOK' /\ NoOrphan' /\ RestartsOnRecord' /\ TrueSerials'
<1> DEFINE new == born + 1
<1>1. /\ born \in Nat /\ new \in Handles /\ new \notin 1..born /\ born' = new
      /\ 1..new = (1..born) \cup {new} /\ born' \in 0..MaxHandles /\ 1..born \subseteq Handles
  BY HotplugAssumption DEF IInv, FleetTypeOK, AttachedOK, Attach, Handles
<1>2. /\ c.id \in Names /\ c.path \in Ports /\ c.native \in BOOLEAN /\ c.board \in Boards
      /\ c.mac \in {SerialOf[c.board], NoSerial}
  BY DEF IInv, FleetTypeOK, ScanningOK, TrueSerials
<1>3. /\ registry' = [registry EXCEPT ![c.id] = new]
      /\ spec' = [spec EXCEPT ![new] = [id |-> c.id, port_path |-> c.path, mac |-> c.mac,
                                        native |-> c.native, board |-> c.board]]
      /\ recovery_cycles' = [recovery_cycles EXCEPT ![new] = inherited.recovery_cycles]
      /\ fault' = [fault EXCEPT ![new] = inherited.fault]
      /\ at' = [at EXCEPT ![new] = "open"]
      /\ port_path' = [port_path EXCEPT ![new] = c.path]
  BY DEF Attach
<1>4. /\ UNCHANGED <<where, moves, firmware_verified, fd, unverified, restarts>>
      /\ UNCHANGED <<carried_cycles, verify_failures, restart_sent, hw_reset_done>>
  BY DEF Untouched, bus, ladder, history
<1> HIDE DEF new
<1>5. BusOK' /\ HistoryOK' /\ SharedOK' /\ TasksOK'
  <2>1. BusOK' /\ HistoryOK'
    BY <1>4 DEF IInv, FleetTypeOK, BusOK, HistoryOK
  <2>2. SharedOK'
    BY <1>1, <1>3, <1>4 DEF IInv, FleetTypeOK, SharedOK
  <2>3. TasksOK'
    BY <1>1, <1>2, <1>3, <1>4 DEF IInv, FleetTypeOK, TasksOK
  <2> QED BY <2>1, <2>2, <2>3
<1>6. AttachedOK'
  <2>1. registry \in [Names -> 0..born] /\ spec \in [Handles -> Device]
    BY DEF IInv, FleetTypeOK, AttachedOK
  <2>2. new \in 0..new /\ 0..born \subseteq 0..new
    BY <1>1 DEF new
  <2>3. registry' \in [Names -> 0..new]
    BY <1>2, <1>3, <2>1, <2>2
  <2>4. spec'[new] \in Device
    <3>1. [id |-> c.id, port_path |-> c.path, mac |-> c.mac, native |-> c.native,
           board |-> c.board] \in Device
      <4>1. c.mac \in {SerialOf[b] : b \in Boards} \cup {NoSerial}
        BY <1>2
      <4> QED BY <1>2, <4>1 DEF Device
    <3> QED BY <1>1, <1>3, <2>1, <3>1
  <2>5. spec' \in [Handles -> Device]
    BY <1>1, <1>3, <2>1, <2>4
  <2> QED BY <1>1, <2>3, <2>5 DEF AttachedOK
<1>7. \A h \in Handles : h # new => spec'[h] = spec[h] /\ at'[h] = at[h]
  BY <1>3 DEF IInv, FleetTypeOK, AttachedOK, TasksOK
<1>8. spec'[new].id = c.id /\ spec'[new].board = c.board /\ spec'[new].mac = c.mac /\ at'[new] = "open"
  BY <1>1, <1>3 DEF IInv, FleetTypeOK, AttachedOK, TasksOK
<1>9. \A id \in Names : registry'[id] = IF id = c.id THEN new ELSE registry[id]
  BY <1>2, <1>3 DEF IInv, FleetTypeOK, AttachedOK
<1>10. \A id \in Names : registry[id] # NoHandle => registry[id] \in 1..born /\ registry[id] \in Handles
  <2>1. registry \in [Names -> 0..born]
    BY DEF IInv, FleetTypeOK, AttachedOK
  <2>2. \A h \in 0..born : h # 0 => h \in 1..born
    BY <1>1
  <2> QED BY <1>1, <2>1, <2>2 DEF NoHandle
<1>11. RegistryOK'
  <2>1. ASSUME NEW id \in Names, registry'[id] # NoHandle PROVE spec'[registry'[id]].id = id
    <3>1. CASE id = c.id
      BY <1>8, <1>9, <3>1
    <3>2. CASE id # c.id
      <4>1. registry'[id] = registry[id] /\ registry[id] \in Handles /\ registry[id] # new
        BY <1>1, <1>9, <1>10, <2>1, <3>2
      <4> QED BY <1>7, <2>1, <4>1 DEF IInv, RegistryOK
    <3> QED BY <3>1, <3>2
  <2> QED BY <2>1 DEF RegistryOK, NoHandle
<1>12. UnbornOK'
  BY <1>1, <1>7 DEF IInv, UnbornOK, new, Handles
<1>13. NoOrphan'
  <2>1. ASSUME NEW h \in Handles, Live(h)' PROVE registry'[spec'[h].id] = h
    <3>1. CASE h = new
      BY <1>2, <1>8, <1>9, <3>1
    <3>2. CASE h # new
      <4>1. Live(h)
        BY <1>7, <2>1, <3>2 DEF Live
      <4>2. h \in 1..born /\ registry[spec[h].id] = h /\ spec[h].id \in Names
        <5>1. h <= born
          BY <1>1, <4>1 DEF Live, IInv, UnbornOK, Handles
        <5> QED BY <1>1, <4>1, <5>1 DEF IInv, NoOrphan, TrueSerials, Handles
      <4>3. spec[h].id # c.id
        BY <2>1, <4>2 DEF Live, NoHandle
      <4> QED BY <1>7, <1>9, <3>2, <4>2, <4>3
    <3> QED BY <3>1, <3>2
  <2> QED BY <2>1 DEF NoOrphan
<1>14. RestartsOnRecord'
  BY <1>1, <1>3, <1>4 DEF IInv, FleetTypeOK, TasksOK, SharedOK, RestartsOnRecord
<1>15. TrueSerials'
  <2>1. \A h \in 1..born : h \in Handles /\ h # new
    BY <1>1
  <2> QED BY <1>1, <1>2, <1>7, <1>8, <2>1 DEF IInv, TrueSerials
<1> QED BY <1>5, <1>6, <1>11, <1>12, <1>13, <1>14, <1>15

\* What the steps that attach nothing keep.
LEMMA FleetKept ==
  ASSUME IInv, UNCHANGED <<shared, at, port_path, born, spec>>, Untouched
  PROVE  BusOK' /\ SharedOK' /\ TasksOK' /\ HistoryOK' /\ UnbornOK' /\ RestartsOnRecord'
<1> USE DEF IInv, FleetTypeOK, Untouched, shared, bus, ladder, history
<1>1. BusOK' /\ SharedOK' /\ TasksOK' /\ HistoryOK'
  BY DEF BusOK, SharedOK, TasksOK, HistoryOK
<1>2. UnbornOK' /\ RestartsOnRecord'
  BY DEF UnbornOK, RestartsOnRecord
<1> QED BY <1>1, <1>2

LEMMA ScanStep ==
  ASSUME IInv, Scan
  PROVE  IInv'
<1>1. /\ UNCHANGED <<shared, attached, at, port_path, present, carry, missing>> /\ Untouched
      /\ candidates' = Enumerated /\ step' = "look"
  BY DEF Scan
<1>2. BusOK' /\ SharedOK' /\ TasksOK' /\ HistoryOK' /\ UnbornOK' /\ RestartsOnRecord'
  BY <1>1, FleetKept DEF attached
<1>3. AttachedOK' /\ RegistryOK' /\ NoOrphan'
  BY <1>1 DEF IInv, FleetTypeOK, attached, AttachedOK, RegistryOK, NoOrphan, Live
<1>4. ScanningOK' /\ TrueSerials'
  BY <1>1, EnumeratedType DEF IInv, FleetTypeOK, attached, ScanningOK, TrueSerials, Reported
<1>5. SwapOK'
  BY <1>1 DEF SwapOK
<1> QED BY <1>2, <1>3, <1>4, <1>5 DEF IInv, FleetTypeOK

LEMMA LookStep ==
  ASSUME IInv, Look
  PROVE  IInv'
<1>1. /\ UNCHANGED <<shared, attached, at, port_path, carry, missing>> /\ Untouched
      /\ candidates' = {LookedUp(c) : c \in candidates}
      /\ present' = {LookedUp(c).id : c \in candidates} /\ step' = "each"
  BY DEF Look
<1>2. BusOK' /\ SharedOK' /\ TasksOK' /\ HistoryOK' /\ UnbornOK' /\ RestartsOnRecord'
  BY <1>1, FleetKept DEF attached
<1>3. AttachedOK' /\ RegistryOK' /\ NoOrphan'
  BY <1>1 DEF IInv, FleetTypeOK, attached, AttachedOK, RegistryOK, NoOrphan, Live
<1>4. \A c \in candidates : Reported(LookedUp(c))
  <2>1. \A c \in candidates : Reported(c)
    BY DEF IInv, FleetTypeOK, ScanningOK, TrueSerials, Reported
  <2> QED BY <2>1, LookedUpType DEF IInv, FleetTypeOK
<1>5. (\A c \in candidates' : Reported(c)) /\ present' \subseteq Names
  BY <1>1, <1>4 DEF Reported
<1>6. ScanningOK' /\ TrueSerials'
  BY <1>1, <1>5 DEF IInv, FleetTypeOK, attached, ScanningOK, TrueSerials, Reported
<1>7. SwapOK'
  BY <1>1 DEF SwapOK
<1> QED BY <1>2, <1>3, <1>6, <1>7 DEF IInv, FleetTypeOK

\* The loop over the candidates: the first one left is a device on the bus.
LEMMA ThisType ==
  ASSUME IInv, candidates # {}
  PROVE  /\ This \in candidates /\ This.id \in Names
         /\ Old # NoHandle => Old \in Handles
BY ThisIsCandidate, HotplugAssumption
   DEF IInv, FleetTypeOK, ScanningOK, AttachedOK, Old, NoHandle, Handles

LEMMA LoopStep ==
  ASSUME IInv, Add \/ Keep \/ Snapshot \/ Respawn
  PROVE  IInv'
<1>1. candidates # {}
  BY DEF Add, Keep, Snapshot, Respawn, IInv, SwapOK
<1>2. /\ This \in candidates /\ This.id \in Names
      /\ Old # NoHandle => Old \in Handles
  BY <1>1, ThisType
<1>3. /\ step \in {"scan", "look", "each", "swap"} /\ present \subseteq Names
      /\ carry \in [recovery_cycles : 0..1, fault : Faults]
      /\ missing \in [Names -> 0..(DEBOUNCE - 1)] /\ NoCarry \in [recovery_cycles : 0..1, fault : Faults]
  BY DEF IInv, FleetTypeOK, ScanningOK, NoCarry, Faults
<1>4. [missing EXCEPT ![This.id] = 0] \in [Names -> 0..(DEBOUNCE - 1)]
  BY <1>2, <1>3 DEF DEBOUNCE
<1>5. CASE Add
  <2>1. /\ Attach(This, NoCarry) /\ Untouched /\ UNCHANGED <<shutdown, step, present, carry>>
        /\ missing' = [missing EXCEPT ![This.id] = 0] /\ candidates' = candidates \ {This}
        /\ step = "each" /\ registry[This.id] = NoHandle
    BY <1>5 DEF Add, Skip, Old
  <2>2. /\ BusOK' /\ SharedOK' /\ AttachedOK' /\ TasksOK' /\ HistoryOK'
        /\ RegistryOK' /\ UnbornOK' /\ NoOrphan' /\ RestartsOnRecord' /\ TrueSerials'
    BY <1>2, <1>3, <2>1, AttachKeeps DEF IInv, FleetTypeOK, AttachedOK
  <2>3. ScanningOK' /\ SwapOK'
    BY <1>3, <1>4, <2>1 DEF IInv, FleetTypeOK, ScanningOK, SwapOK
  <2> QED BY <2>2, <2>3 DEF IInv, FleetTypeOK
<1>6. CASE Keep \/ Snapshot
  <2>1. /\ Untouched /\ UNCHANGED <<shared, attached, at, port_path, present>>
        /\ step = "each" /\ Old # NoHandle
        /\ \/ /\ missing' = [missing EXCEPT ![This.id] = 0] /\ candidates' = candidates \ {This}
              /\ UNCHANGED <<carry, step>>
           \/ carry' = CarryOver(Old) /\ step' = "swap" /\ UNCHANGED <<candidates, missing>>
    BY <1>6 DEF Keep, Skip, Snapshot
  <2>2. BusOK' /\ SharedOK' /\ TasksOK' /\ HistoryOK' /\ UnbornOK' /\ RestartsOnRecord'
    BY <2>1, FleetKept DEF attached
  <2>3. AttachedOK' /\ RegistryOK' /\ NoOrphan' /\ TrueSerials'
    BY <2>1 DEF IInv, FleetTypeOK, attached, AttachedOK, RegistryOK, NoOrphan, Live, TrueSerials
  <2>4. CarryOver(Old) \in [recovery_cycles : 0..1, fault : Faults]
    BY <1>2, <2>1 DEF IInv, FleetTypeOK, SharedOK, CarryOver
  <2>5. ScanningOK'
    BY <1>3, <1>4, <2>1, <2>4 DEF IInv, FleetTypeOK, ScanningOK
  <2>6. SwapOK'
    BY <1>1, <2>1 DEF SwapOK, Old, This, attached
  <2> QED BY <2>2, <2>3, <2>5, <2>6 DEF IInv, FleetTypeOK
<1>7. CASE Respawn
  <2>1. /\ Attach(This, carry) /\ Untouched /\ UNCHANGED present /\ shutdown' = Cancelled(Old)
        /\ missing' = [missing EXCEPT ![This.id] = 0] /\ candidates' = candidates \ {This}
        /\ carry' = NoCarry /\ step' = "each" /\ step = "swap"
    BY <1>7 DEF Respawn
  <2>2. Old \in Handles
    BY <1>2, <2>1 DEF IInv, SwapOK
  <2>3. /\ shutdown' \in [Handles -> BOOLEAN] /\ \A h \in Handles : shutdown[h] => shutdown'[h]
        /\ shutdown'[registry[This.id]]
    BY <2>1, <2>2 DEF Cancelled, Old, IInv, FleetTypeOK, AttachedOK
  <2>4. /\ BusOK' /\ SharedOK' /\ AttachedOK' /\ TasksOK' /\ HistoryOK'
        /\ RegistryOK' /\ UnbornOK' /\ NoOrphan' /\ RestartsOnRecord' /\ TrueSerials'
    BY <1>2, <1>3, <2>1, <2>3, AttachKeeps
  <2>5. ScanningOK' /\ SwapOK'
    BY <1>3, <1>4, <2>1 DEF IInv, FleetTypeOK, ScanningOK, SwapOK
  <2> QED BY <2>4, <2>5 DEF IInv, FleetTypeOK
<1> QED BY <1>5, <1>6, <1>7

\* The sweep cancels what it removes.
LEMMA SweepStep ==
  ASSUME IInv, Sweep
  PROVE  IInv'
<1> DEFINE gone == {id \in Names : Expired(Counted(id))}
<1>1. /\ missing' = [id \in Names |-> IF id \in gone THEN 0 ELSE Counted(id)]
      /\ registry' = [id \in Names |-> IF id \in gone THEN NoHandle ELSE registry[id]]
      /\ shutdown' = [h \in Handles |-> shutdown[h] \/ \E id \in gone : registry[id] = h]
      /\ UNCHANGED <<shared, born, spec, at, port_path, candidates, present, carry>> /\ Untouched
      /\ step' = "scan"
  BY DEF Sweep
<1>2. BusOK' /\ SharedOK' /\ TasksOK' /\ HistoryOK' /\ UnbornOK' /\ RestartsOnRecord'
  BY <1>1, FleetKept
<1>3. \A id \in Names \ gone : Counted(id) \in 0..(DEBOUNCE - 1)
  BY DEF IInv, FleetTypeOK, ScanningOK, DEBOUNCE, Expired, Counted
<1> HIDE DEF gone
<1>4. ScanningOK'
  BY <1>1, <1>3 DEF IInv, FleetTypeOK, ScanningOK, DEBOUNCE
<1>5. AttachedOK'
  BY <1>1 DEF IInv, FleetTypeOK, AttachedOK, NoHandle
<1>6. RegistryOK' /\ SwapOK' /\ TrueSerials'
  BY <1>1 DEF IInv, RegistryOK, SwapOK, TrueSerials
<1>7. NoOrphan'
  <2>1. ASSUME NEW h \in Handles, Live(h)' PROVE registry'[spec'[h].id] = h
    <3>1. Live(h) /\ ~\E id \in gone : registry[id] = h
      BY <1>1, <2>1 DEF Live
    <3>2. h <= born
      BY <3>1 DEF Live, IInv, FleetTypeOK, AttachedOK, UnbornOK, Handles
    <3>3. registry[spec[h].id] = h /\ spec[h].id \in Names
      BY <3>1, <3>2 DEF IInv, FleetTypeOK, AttachedOK, NoOrphan, TrueSerials, Handles
    <3> QED BY <1>1, <3>1, <3>3
  <2> QED BY <2>1 DEF NoOrphan
<1> QED BY <1>2, <1>4, <1>5, <1>6, <1>7 DEF IInv, FleetTypeOK
-----------------------------------------------------------------------------
\* Every step keeps the invariant.
LEMMA NextIInv ==
  ASSUME IInv, [Next]_vars
  PROVE  IInv'
<1>1. CASE UNCHANGED vars
  <2>1. UNCHANGED <<attached, scanning>> /\ UNCHANGED <<bus, shared, tasks, history>>
    BY <1>1 DEF vars
  <2>2. BusOK' /\ SharedOK' /\ TasksOK' /\ HistoryOK'
    BY <2>1 DEF IInv, FleetTypeOK, BusOK, bus, SharedOK, shared, TasksOK, tasks, ladder,
               HistoryOK, history
  <2>3. UnbornOK' /\ NoOrphan' /\ RestartsOnRecord'
    BY <2>1 DEF IInv, UnbornOK, NoOrphan, Live, RestartsOnRecord, attached, shared, tasks, ladder
  <2> QED BY <2>1, <2>2, <2>3, SupervisorKept DEF IInv, FleetTypeOK
<1>2. CASE \E b \in Boards : Unplug(b) \/ \E p \in Ports : Plug(b, p)
  BY <1>2, EnvironmentStep
<1>3. CASE \E h \in Handles : TaskStep(h) \/ Asked(h) \/ Unverify(h)
  <2>1. PICK h \in Handles : TaskStep(h) \/ Asked(h) \/ Unverify(h)
    BY <1>3
  <2> QED BY <2>1, TaskStepIInv, EnvironmentStep
<1>4. CASE SupervisorStep
  BY <1>4, ScanStep, LookStep, LoopStep, SweepStep DEF SupervisorStep
<1> QED BY <1>1, <1>2, <1>3, <1>4 DEF Next

LEMMA Invariance == Spec => []IInv
<1>1. IInv /\ [Next]_vars => IInv'
  BY NextIInv
<1> QED BY <1>1, InitIInv, PTL DEF Spec
-----------------------------------------------------------------------------
\* Every variable stays within its type, and no handle records more than one restart.
THEOREM TypeCorrect == Spec => []FleetTypeOK
BY Invariance, PTL DEF IInv

\* The registry is the only authority over the tasks: whatever the bus does, and however
\* respawns and removals fall, a task that is not cancelled is the registered one of its id.
THEOREM SingleOwner == Spec => []NoOrphan
BY Invariance, PTL DEF IInv

\* The serial numbers tell the boards apart.
SerialsAreUnique == \A a, b \in Boards : SerialOf[a] = SerialOf[b] /\ SerialOf[a] # NoSerial => a = b

\* Where serial numbers are unique, a task that changes its port follows its own board.
THEOREM PortsFollowBoards == ASSUME SerialsAreUnique PROVE Spec => MovesWithProof
<1> DEFINE Follows == \A h \in Handles : at[h] # "unborn" /\ port_path'[h] # port_path[h]
                         => where[spec[h].board] = port_path'[h]
<1>1. ASSUME IInv, [Next]_vars, NEW h \in Handles, at[h] # "unborn", port_path'[h] # port_path[h]
      PROVE  where[spec[h].board] = port_path'[h]
  <2> USE DEF IInv, FleetTypeOK, AttachedOK, TasksOK
  <2>1. CASE UNCHANGED port_path
    BY <1>1, <2>1
  <2>2. ASSUME NEW c, NEW inherited, Attach(c, inherited) PROVE FALSE
    <3>1. port_path'[h] = IF h = born + 1 THEN c.path ELSE port_path[h]
      BY <2>2, <1>1 DEF Attach
    <3>2. at[born + 1] = "unborn"
      BY <1>1, <3>1 DEF UnbornOK, Handles
    <3> QED BY <1>1, <3>1, <3>2
  <2>3. ASSUME NEW g \in Handles, Resolve(g) PROVE where[spec[h].board] = port_path'[h]
    <3>1. PICK p \in Followed(g) : port_path' = [port_path EXCEPT ![g] = p]
      BY <2>3 DEF Resolve
    <3>2. g = h /\ port_path'[h] = p /\ p # port_path[h]
      BY <1>1, <3>1
    <3>3. PICK b \in Boards : where[b] = p /\ SerialOf[b] = spec[h].mac /\ spec[h].mac # NoSerial
      BY <3>1, <3>2 DEF Followed
    <3>4. h \in 1..born
      BY <1>1 DEF UnbornOK, Handles
    <3>5. spec[h].board \in Boards /\ spec[h].mac \in {SerialOf[spec[h].board], NoSerial}
      BY <1>1, <3>4 DEF TrueSerials
    <3>6. b = spec[h].board
      BY <3>3, <3>5 DEF SerialsAreUnique
    <3> QED BY <3>2, <3>3, <3>6
  <2>4. \/ UNCHANGED port_path
        \/ \E c, inherited : Attach(c, inherited)
        \/ \E g \in Handles : Resolve(g)
    BY <1>1 DEF Next, vars, Unplug, Plug, Unverify, tasks, TaskStep, OpenPort, EndBeforeOpen,
                AutoVerify, ReverifyOk, LinkLost, ReverifyFails, ShutdownArm, Asked, InfoRequest,
                SupervisorStep, Scan, Look, Add, Keep, Snapshot, Respawn, Sweep
  <2> QED BY <2>1, <2>2, <2>3, <2>4
<1>2. IInv /\ [Next]_vars => [Follows]_vars
  BY <1>1
<1> QED BY <1>2, Invariance, PTL DEF Spec, MovesWithProof
-----------------------------------------------------------------------------
(***************************************************************************)
(* One restart per board.                                                  *)
(***************************************************************************)
\* What is assumed of users, bus and firmware: nobody moves a board, a board that reboots
\* is back before the supervisor gives it up, and firmware verifies always or never.
Steady == MaxMoves = 0 /\ PromptUsb /\ Flaky = {}

\* Boards on different ports have different ids, and that of a native-USB board, which
\* may come back on any port, does not depend on the port.
OwnIds ==
    /\ \A b, c \in Boards, p, q \in Ports :
          b # c /\ p # q => DeviceId(p, SerialOf[b]) # DeviceId(q, SerialOf[c])
    /\ \A b \in Native, p, q \in Ports : DeviceId(p, SerialOf[b]) = DeviceId(q, SerialOf[b])

\* A task that serves another board than its own serves one that never verifies.  A
\* healthy one would clear the recovery count of the board that was there before
\* (README.md, section 3.3).
NoHealthyStranger == \A h \in Handles : fd[h] \in {NoBoard, spec[h].board} \cup Mute

\* A port has one board.
Seats == \A a, b \in Boards : where[a] = where[b] /\ where[a] # Absent => a = b

\* Candidates and handles have the id of their board on their port; every id that ever
\* had a handle has one, since with a prompt bus none is given up (OnTime).
Ids ==
    /\ \A c \in candidates : c.id = DeviceId(c.path, SerialOf[c.board])
    /\ \A h \in 1..born : /\ spec[h].id = DeviceId(spec[h].port_path, SerialOf[spec[h].board])
                          /\ spec[h].port_path \in Ports
                          /\ registry[spec[h].id] # NoHandle
OnTime ==
    \A id \in Names : missing[id] = DEBOUNCE - 1 =>
        /\ step = "look" => \E c \in candidates : c.id = id
        /\ step \in {"each", "swap"} => id \in present

\* Nothing leaves the bus in a scan: its second enumeration will confirm the first.
Confirmed == step = "look" => \A c \in candidates : where[c.board] # Absent /\ c = Candidate(c.board)

\* A board leaves its port only by the restart of a native-USB board; until then the
\* supervisor, its handle and its task agree on where it is.
Stays(b) == b \notin Native \/ restarts[b] = 0
Home ==
    \A b \in Boards : Stays(b) =>
        /\ \A h \in 1..born : spec[h].board = b => spec[h].port_path = where[b] /\ port_path[h] = where[b]
        /\ \A c \in candidates : c.board = b => c.path = where[b]

\* A task that runs has a port to try.
Ported == \A h \in 1..born : port_path[h] \in Ports

\* Until then it has one handle at most; and a restarted board is mute and has one.
Single == \A b \in Boards : restarts[b] = 0 =>
    \A g, h \in 1..born : spec[g].board = b /\ spec[h].board = b => g = h
Known == \A b \in Boards : restarts[b] = 1 => b \in Mute /\ \E h \in 1..born : spec[h].board = b

\* The handles of a restarted board, and no others, have the restart on record; their
\* connections know it, and so does the handle that the supervisor is about to attach.
OnRecord ==
    \A h \in 1..born :
        /\ recovery_cycles[h] = 1 <=> restarts[spec[h].board] = 1
        /\ at[h] = "select" =>
              (carried_cycles[h] = 1 \/ restart_sent[h] <=> restarts[spec[h].board] = 1)
CarriedOver == step = "swap" => carry.recovery_cycles = 1 /\ restarts[This.board] = 1

\* A connection that may still restart or pulse reaches the handle's own board, on the
\* port the handle was attached with; one that sent the restart reaches a restarted board.
Connections ==
    \A h \in Handles : fd[h] # NoBoard =>
        /\ h \in 1..born /\ at[h] \in {"verify", "select"} /\ where[fd[h]] # Absent
        /\ fd[h] # spec[h].board =>
              restarts[spec[h].board] = 1 /\ (at[h] = "select" => carried_cycles[h] = 1)
        /\ at[h] = "select" /\ carried_cycles[h] = 0 => where[fd[h]] = spec[h].port_path
        /\ at[h] = "select" /\ restart_sent[h] => fd[h] \in Mute /\ restarts[fd[h]] = 1

OneRestart == /\ RestartedOnce /\ Seats /\ Ids /\ OnTime /\ Confirmed /\ Home /\ Ported
              /\ Single /\ Known /\ OnRecord /\ CarriedOver /\ Connections

LEMMA InitOneRestart == Init => OneRestart
<1> SUFFICES ASSUME Init PROVE OneRestart
  OBVIOUS
<1>1. /\ where = [b \in Boards |-> Absent] /\ born = 0 /\ restarts = [b \in Boards |-> 0]
      /\ fd = [h \in Handles |-> NoBoard] /\ candidates = {} /\ step = "scan"
  BY DEF Init
<1>2. \A h \in 1..born : FALSE
  BY <1>1
<1>3. RestartedOnce /\ Seats /\ Known
  BY <1>1 DEF RestartedOnce, Seats, Known
<1>4. Ids /\ Home /\ Ported /\ Single /\ OnRecord
  BY <1>1, <1>2 DEF Ids, Home, Ported, Single, OnRecord
<1>5. OnTime /\ Confirmed /\ CarriedOver /\ Connections
  BY <1>1 DEF OnTime, Confirmed, CarriedOver, Connections
<1> QED BY <1>3, <1>4, <1>5 DEF OneRestart

\* The handles that exist, and the boards they were made for.
LEMMA Existing ==
  ASSUME IInv
  PROVE  /\ \A h \in 1..born : h \in Handles /\ spec[h].board \in Boards /\ spec[h].id \in Names
         /\ \A h \in Handles : at[h] # "unborn" => h \in 1..born
         /\ \A b \in Boards : restarts[b] \in 0..2
<1>1. born \in 0..MaxHandles /\ MaxHandles \in Nat /\ 1..born \subseteq Handles
  BY HotplugAssumption DEF IInv, FleetTypeOK, AttachedOK, Handles
<1>2. \A h \in Handles : h > born => at[h] = "unborn"
  BY DEF IInv, UnbornOK
<1>3. \A h \in Handles : at[h] # "unborn" => h \in 1..born
  BY <1>1, <1>2 DEF Handles
<1>4. \A b \in Boards : restarts[b] \in 0..2
  BY DEF IInv, FleetTypeOK, HistoryOK
<1> QED BY <1>1, <1>3, <1>4 DEF IInv, TrueSerials

\* A verification that succeeds is one of a handle's own board, which was not restarted:
\* the count of restarts stays as it is.
LEMMA VerifiedOwn ==
  ASSUME IInv, OneRestart, NoHealthyStranger, NEW h \in Handles, Outcome(h, "ok"), Verified(h)
  PROVE  /\ fd[h] \in Boards /\ fd[h] = spec[h].board /\ restarts[fd[h]] = 0 /\ restarts' = restarts
         /\ \A g \in Handles : g # h => recovery_cycles'[g] = recovery_cycles[g]
<1>1. fd[h] \in Boards /\ fd[h] \notin Mute
  BY OutcomeReaches DEF Outcome
<1>2. fd[h] = spec[h].board
  BY <1>1, HotplugAssumption DEF NoHealthyStranger
<1>3. restarts[fd[h]] = 0
  BY <1>1, Existing DEF OneRestart, RestartedOnce, Known
<1>4. restarts \in [Boards -> 0..2] /\ restarts' = [restarts EXCEPT ![fd[h]] = 0]
  BY DEF Verified, IInv, FleetTypeOK, HistoryOK
<1>5. restarts' = restarts
  BY <1>1, <1>3, <1>4
<1> QED BY <1>1, <1>2, <1>3, <1>5 DEF Verified, IInv, FleetTypeOK, SharedOK

\* What the steps that leave the registry and the supervisor alone keep.
LEMMA FleetSteady ==
  ASSUME OneRestart, UNCHANGED <<attached, scanning>>
  PROVE  Ids' /\ OnTime'
BY DEF OneRestart, Ids, OnTime, attached, scanning

\* Steps that restart no board and move none keep the parts about boards.
LEMMA BoardsKept ==
  ASSUME OneRestart, UNCHANGED <<where, restarts, attached, scanning>>
  PROVE  /\ RestartedOnce' /\ Seats' /\ Single' /\ Known' /\ CarriedOver' /\ Confirmed'
         /\ port_path' = port_path => Home' /\ Ported'
<1> USE DEF OneRestart, attached, scanning
<1>1. RestartedOnce' /\ Seats' /\ Single' /\ Known'
  BY DEF RestartedOnce, Seats, Single, Known
<1>2. CarriedOver'
  BY DEF CarriedOver, This
<1>3. port_path' = port_path => Home' /\ Ported'
  BY DEF Home, Stays, Ported
<1>4. Confirmed'
  BY DEF Confirmed, Candidate
<1> QED BY <1>1, <1>2, <1>3, <1>4

\* A board that enumerates has no handle yet, or was restarted.
LEMMA PlugKeeps ==
  ASSUME IInv, OneRestart, NEW b \in Boards, NEW p \in Ports, Plug(b, p)
  PROVE  OneRestart'
<1>1. /\ where[b] = Absent /\ \A other \in Boards : where[other] # p
      /\ where' = [where EXCEPT ![b] = p]
      /\ UNCHANGED <<moves, shared, attached, tasks, history, scanning>>
  BY DEF Plug
<1>2. /\ UNCHANGED <<recovery_cycles, registry, born, spec, at, port_path, fd, carried_cycles,
                     restart_sent, restarts>>
      /\ UNCHANGED <<step, candidates, present, carry, missing>>
  BY <1>1 DEF shared, attached, tasks, ladder, history, scanning
<1>3. /\ where' \in [Boards -> Ports \cup {Absent}] /\ Absent \notin Ports
      /\ \A a \in Boards : where'[a] = IF a = b THEN p ELSE where[a]
  BY <1>1, HotplugAssumption DEF IInv, FleetTypeOK, BusOK
<1>4. Ids' /\ OnTime'
  BY <1>1, FleetSteady
<1>5. RestartedOnce' /\ Ported' /\ Single' /\ Known' /\ OnRecord'
  BY <1>2 DEF OneRestart, RestartedOnce, Ported, Single, Known, OnRecord
<1>6. Seats'
  BY <1>1, <1>3 DEF OneRestart, Seats
<1>7. CarriedOver'
  BY <1>2 DEF OneRestart, CarriedOver, This
<1>8. Home'
  <2>1. ASSUME NEW a \in Boards, Stays(a)'
        PROVE  /\ \A h \in 1..born : spec[h].board = a => spec[h].port_path = where'[a] /\ port_path[h] = where'[a]
               /\ \A c \in candidates : c.board = a => c.path = where'[a]
    <3>1. Stays(a)
      BY <1>2, <2>1 DEF Stays
    <3>2. /\ \A h \in 1..born : spec[h].board = a => spec[h].port_path = where[a] /\ port_path[h] = where[a]
          /\ \A c \in candidates : c.board = a => c.path = where[a]
      BY <3>1 DEF OneRestart, Home
    <3>3. (\A h \in 1..born : spec[h].port_path \in Ports) /\ \A c \in candidates : c.path \in Ports
      BY DEF OneRestart, Ids, IInv, FleetTypeOK, ScanningOK
    <3> QED BY <1>1, <1>3, <3>2, <3>3
  <2> QED BY <1>2, <2>1 DEF Home
<1>9. Connections'
  <2>1. ASSUME NEW h \in Handles, fd[h] # NoBoard PROVE fd[h] # b
    BY <1>1, <2>1 DEF OneRestart, Connections
  <2>2. fd \in [Handles -> Boards \cup {NoBoard}]
    BY DEF IInv, FleetTypeOK, TasksOK
  <2> QED BY <1>2, <1>3, <2>1, <2>2 DEF OneRestart, Connections
<1>10. Confirmed'
  <2>1. ASSUME NEW c \in candidates, step = "look"
        PROVE  where'[c.board] # Absent /\ c = Candidate(c.board)'
    <3>1. c.board \in Boards /\ where[c.board] # Absent /\ c = Candidate(c.board)
      BY <2>1 DEF OneRestart, Confirmed, IInv, TrueSerials
    <3>2. where'[c.board] = where[c.board]
      BY <1>1, <1>3, <3>1
    <3> QED BY <3>1, <3>2 DEF Candidate
  <2> QED BY <1>2, <2>1 DEF Confirmed
<1> QED BY <1>4, <1>5, <1>6, <1>7, <1>8, <1>9, <1>10 DEF OneRestart
\* Steps that leave the bus, the connections and the records of restarted boards alone.
LEMMA RecordKeeps ==
  ASSUME IInv, OneRestart,
         UNCHANGED <<where, restarts, attached, scanning>>,
         UNCHANGED <<at, port_path, fd, carried_cycles, restart_sent>>,
         \A g \in 1..born : recovery_cycles'[g] = 1 <=> recovery_cycles[g] = 1
  PROVE  OneRestart'
<1>1. Ids' /\ OnTime'
  BY FleetSteady
<1>2. RestartedOnce' /\ Seats' /\ Single' /\ Known' /\ CarriedOver' /\ Confirmed' /\ Home' /\ Ported'
  BY BoardsKept
<1>3. OnRecord'
  BY DEF OneRestart, OnRecord, attached
<1>4. Connections'
  BY DEF OneRestart, Connections, attached
<1> QED BY <1>1, <1>2, <1>3, <1>4 DEF OneRestart

\* A request or the re-verify arm changes the verification of a handle.
LEMMA VerdictKeeps ==
  ASSUME IInv, OneRestart, NoHealthyStranger, NEW h \in Handles,
         Unverify(h) \/ ReverifyOk(h) \/ Asked(h)
  PROVE  OneRestart'
<1>1. CASE Unverify(h)
  <2>1. UNCHANGED <<bus, recovery_cycles, fault, attached, tasks, restarts, scanning>>
    BY <1>1 DEF Unverify
  <2>2. /\ UNCHANGED <<where, restarts, attached, scanning>>
        /\ UNCHANGED <<at, port_path, fd, carried_cycles, restart_sent>>
        /\ UNCHANGED recovery_cycles
    BY <2>1 DEF bus, tasks, ladder
  <2> QED BY <2>2, RecordKeeps
<1>2. CASE ReverifyOk(h) \/ InfoRequest(h, "ok")
  <2>1. /\ at[h] = "select" /\ Outcome(h, "ok") /\ Verdict(h, "ok") /\ Verified(h)
        /\ UNCHANGED <<bus, attached, port_path, fd, carried_cycles, restart_sent,
                       hw_reset_done, unverified, scanning>>
    BY <1>2 DEF ReverifyOk, InfoRequest, ladder
  <2>2. /\ fd[h] = spec[h].board /\ restarts[fd[h]] = 0 /\ restarts' = restarts
        /\ \A g \in Handles : g # h => recovery_cycles'[g] = recovery_cycles[g]
    BY <2>1, VerifiedOwn
  <2>3. at' = at
    <3>1. at \in [Handles -> {"unborn", "open", "opening", "verify", "select", "ended"}]
      BY DEF IInv, FleetTypeOK, TasksOK
    <3> QED BY <2>1, <3>1 DEF Verdict
  <2>4. recovery_cycles'[h] = 0
    BY <2>1 DEF Verified, IInv, FleetTypeOK, SharedOK
  <2>5. \A g \in 1..born : recovery_cycles'[g] = 1 <=> recovery_cycles[g] = 1
    <3>1. h \in 1..born => recovery_cycles[h] # 1
      BY <2>2 DEF OneRestart, OnRecord
    <3> QED BY <2>2, <2>4, <3>1, Existing
  <2> QED BY <2>1, <2>2, <2>3, <2>5, RecordKeeps DEF bus
<1>3. ASSUME NEW r \in {"soft", "boot"}, InfoRequest(h, r) PROVE OneRestart'
  <2>1. /\ at[h] = "select" /\ Verdict(h, r)
        /\ UNCHANGED <<bus, attached, port_path, fd, carried_cycles, restart_sent,
                       recovery_cycles, restarts, scanning>>
    BY <1>3 DEF InfoRequest, ladder
  <2>2. at' = at
    BY <2>1 DEF Verdict, IInv, FleetTypeOK, TasksOK
  <2> QED BY <2>1, <2>2, RecordKeeps DEF bus
<1> QED BY <1>1, <1>2, <1>3 DEF Asked

\* A connection that ends.
LEMMA LeaveKeeps ==
  ASSUME IInv, OneRestart, NEW h \in Handles, EndBeforeOpen(h) \/ LinkLost(h) \/ ShutdownArm(h)
  PROVE  OneRestart'
<1>1. /\ UNCHANGED <<bus, recovery_cycles, attached, port_path, history, scanning>>
      /\ at[h] # "unborn" /\ (UNCHANGED ladder \/ Forgets(h))
  BY DEF EndBeforeOpen, LinkLost, ShutdownArm, shared
<1>2. /\ UNCHANGED <<where, restarts, recovery_cycles, port_path, registry, born, spec>>
      /\ \A g \in Handles : g # h => carried_cycles'[g] = carried_cycles[g]
                                     /\ restart_sent'[g] = restart_sent[g]
  BY <1>1 DEF bus, attached, ladder, history, Forgets, IInv, FleetTypeOK, TasksOK
<1>3. PICK s \in {"open", "ended"} : at' = [at EXCEPT ![h] = s]
  BY DEF EndBeforeOpen, LinkLost, ShutdownArm, Verdict
<1>4. /\ at \in [Handles -> {"unborn", "open", "opening", "verify", "select", "ended"}]
      /\ fd \in [Handles -> Boards \cup {NoBoard}]
  BY DEF IInv, FleetTypeOK, TasksOK
<1>5. fd' = [fd EXCEPT ![h] = NoBoard]
  <2>1. CASE ShutdownArm(h)
    BY <2>1 DEF ShutdownArm
  <2>2. CASE EndBeforeOpen(h)
    BY <2>2, <1>4 DEF EndBeforeOpen, OneRestart, Connections
  <2>3. CASE LinkLost(h)
    BY <2>3, <1>4 DEF LinkLost, Outcome
  <2> QED BY <2>1, <2>2, <2>3
<1>6. Ids' /\ OnTime'
  BY <1>1, FleetSteady
<1>7. RestartedOnce' /\ Seats' /\ Single' /\ Known' /\ CarriedOver' /\ Confirmed' /\ Home' /\ Ported'
  BY <1>1, <1>2, BoardsKept
<1>8. OnRecord'
  <2>1. \A g \in Handles : at'[g] = "select" => at[g] = "select" /\ g # h
    BY <1>3, <1>4
  <2> QED BY <1>2, <2>1, Existing DEF OneRestart, OnRecord
<1>9. Connections'
  <2>1. \A g \in Handles : fd'[g] # NoBoard => g # h /\ fd'[g] = fd[g] /\ at'[g] = at[g]
    BY <1>3, <1>4, <1>5
  <2> QED BY <1>2, <2>1 DEF OneRestart, Connections
<1> QED BY <1>6, <1>7, <1>8, <1>9 DEF OneRestart
\* A task looks for its board, which stands where the task had it, or was restarted and left.
LEMMA ResolveKeeps ==
  ASSUME SerialsAreUnique, IInv, OneRestart, NEW h \in Handles, Resolve(h)
  PROVE  OneRestart'
<1>1. /\ UNCHANGED <<bus, shared, attached, fd, ladder, history, scanning>>
      /\ at[h] = "open" /\ at' = [at EXCEPT ![h] = "opening"]
  BY DEF Resolve
<1>2. /\ UNCHANGED <<where, restarts, recovery_cycles, carried_cycles, restart_sent>>
      /\ UNCHANGED <<registry, born, spec, candidates>>
  BY <1>1 DEF bus, shared, attached, ladder, history, scanning
<1>3. PICK p \in Followed(h) : port_path' = [port_path EXCEPT ![h] = p]
  BY DEF Resolve
<1>4. /\ at \in [Handles -> {"unborn", "open", "opening", "verify", "select", "ended"}]
      /\ port_path \in [Handles -> Ports \cup {Absent}]
  BY DEF IInv, FleetTypeOK, TasksOK
<1>5. h \in 1..born /\ spec[h].board \in Boards
  BY <1>1, Existing
<1>6. p \in Ports /\ p # Absent
  <2>1. port_path[h] \in Ports /\ Absent \notin Ports
    BY <1>5, HotplugAssumption DEF OneRestart, Ported
  <2>2. \A x \in Boards : where[x] # Absent => where[x] \in Ports
    BY DEF IInv, FleetTypeOK, BusOK
  <2> QED BY <2>1, <2>2, <1>3 DEF Followed
<1>7. Stays(spec[h].board) => p = where[spec[h].board]
  <2>1. Stays(spec[h].board) => port_path[h] = where[spec[h].board]
    BY <1>5 DEF OneRestart, Home
  <2>2. spec[h].mac \in {SerialOf[spec[h].board], NoSerial}
    BY <1>5 DEF IInv, TrueSerials
  <2> QED BY <1>3, <1>5, <2>1, <2>2 DEF Followed, SerialsAreUnique
<1>8. Ids' /\ OnTime'
  BY <1>1, FleetSteady
<1>9. RestartedOnce' /\ Seats' /\ Single' /\ Known' /\ CarriedOver' /\ Confirmed'
  BY <1>1, <1>2, BoardsKept
<1>10. Home'
  <2>1. ASSUME NEW a \in Boards, Stays(a), NEW g \in 1..born, spec[g].board = a
        PROVE  spec[g].port_path = where[a] /\ port_path'[g] = where[a]
    <3>1. spec[g].port_path = where[a] /\ port_path[g] = where[a] /\ g \in Handles
      BY <2>1, Existing DEF OneRestart, Home
    <3> QED BY <3>1, <2>1, <1>3, <1>4, <1>7
  <2> QED BY <1>2, <2>1 DEF OneRestart, Home, Stays
<1>11. Ported'
  BY <1>2, <1>3, <1>4, <1>6, Existing DEF OneRestart, Ported
<1>12. OnRecord'
  <2>1. \A g \in Handles : at'[g] = "select" => at[g] = "select"
    BY <1>1, <1>4
  <2> QED BY <1>2, <2>1, Existing DEF OneRestart, OnRecord
<1>13. Connections'
  <2>1. \A g \in Handles : fd[g] # NoBoard => g # h /\ at'[g] = at[g]
    BY <1>1, <1>4 DEF OneRestart, Connections
  <2> QED BY <1>1, <1>2, <2>1 DEF OneRestart, Connections
<1> QED BY <1>8, <1>9, <1>10, <1>11, <1>12, <1>13 DEF OneRestart

\* A task that opens its port finds its own board there, or that was restarted and left.
LEMMA OpenKeeps ==
  ASSUME IInv, OneRestart, NEW h \in Handles, OpenPort(h)
  PROVE  OneRestart'
<1>1. /\ UNCHANGED <<bus, shared, attached, port_path, ladder, history, scanning>>
      /\ at[h] = "opening"
  BY DEF OpenPort
<1>2. /\ UNCHANGED <<where, restarts, recovery_cycles, carried_cycles, restart_sent>>
      /\ UNCHANGED <<registry, born, spec, candidates>>
  BY <1>1 DEF bus, shared, attached, ladder, history, scanning
<1>3. \/ \E b \in Boards : where[b] = port_path[h] /\ fd' = [fd EXCEPT ![h] = b]
                          /\ at' = [at EXCEPT ![h] = "verify"]
      \/ at' = [at EXCEPT ![h] = "open"] /\ UNCHANGED fd
  BY DEF OpenPort
<1>4. /\ at \in [Handles -> {"unborn", "open", "opening", "verify", "select", "ended"}]
      /\ fd \in [Handles -> Boards \cup {NoBoard}]
  BY DEF IInv, FleetTypeOK, TasksOK
<1>5. h \in 1..born /\ spec[h].board \in Boards
  BY <1>1, Existing
<1>6. port_path[h] # Absent
  BY <1>5, HotplugAssumption DEF OneRestart, Ported
<1>7. Ids' /\ OnTime'
  BY <1>1, FleetSteady
<1>8. RestartedOnce' /\ Seats' /\ Single' /\ Known' /\ CarriedOver' /\ Confirmed' /\ Home' /\ Ported'
  BY <1>1, <1>2, BoardsKept
<1>9. OnRecord'
  <2>1. \A g \in Handles : at'[g] = "select" => at[g] = "select"
    BY <1>3, <1>4
  <2> QED BY <1>2, <2>1, Existing DEF OneRestart, OnRecord
<1>10. Connections'
  <2>1. ASSUME NEW b \in Boards, where[b] = port_path[h], fd' = [fd EXCEPT ![h] = b],
               at' = [at EXCEPT ![h] = "verify"]
        PROVE  Connections'
    <3>1. b # spec[h].board => restarts[spec[h].board] = 1
      <4>1. Stays(spec[h].board) => port_path[h] = where[spec[h].board]
        BY <1>5 DEF OneRestart, Home
      <4>2. Stays(spec[h].board) => b = spec[h].board
        BY <1>5, <1>6, <2>1, <4>1 DEF OneRestart, Seats
      <4> QED BY <4>2, <1>5, Existing DEF Stays, OneRestart, RestartedOnce
    <3>2. \A g \in Handles : fd'[g] = (IF g = h THEN b ELSE fd[g])
                             /\ at'[g] = (IF g = h THEN "verify" ELSE at[g])
      BY <1>4, <2>1
    <3> QED BY <1>2, <1>5, <1>6, <2>1, <3>1, <3>2 DEF OneRestart, Connections
  <2>2. CASE at' = [at EXCEPT ![h] = "open"] /\ UNCHANGED fd
    <3>1. \A g \in Handles : fd[g] # NoBoard => g # h /\ at'[g] = at[g]
      BY <1>1, <1>4, <2>2 DEF OneRestart, Connections
    <3> QED BY <1>2, <2>2, <3>1 DEF OneRestart, Connections
  <2> QED BY <1>3, <2>1, <2>2
<1> QED BY <1>7, <1>8, <1>9, <1>10 DEF OneRestart

\* The verification that a connection starts with reads the record anew.
LEMMA AutoVerifyKeeps ==
  ASSUME IInv, OneRestart, NoHealthyStranger, NEW h \in Handles,
         NEW r \in {"ok", "soft", "boot", "hard"}, AutoVerify(h, r)
  PROVE  OneRestart'
<1>1. /\ UNCHANGED <<bus, attached, port_path, fd, unverified, scanning>>
      /\ at[h] = "verify" /\ Outcome(h, r) /\ Verdict(h, r)
      /\ carried_cycles' = [carried_cycles EXCEPT ![h] = recovery_cycles'[h]]
      /\ restart_sent' = [restart_sent EXCEPT ![h] = FALSE]
  BY DEF AutoVerify
<1>2. UNCHANGED <<where, registry, born, spec>>
  BY <1>1 DEF bus, attached
<1>3. h \in 1..born /\ spec[h].board \in Boards
  BY <1>1, Existing
<1>4. /\ restarts' = restarts
      /\ \A g \in Handles : g # h => recovery_cycles'[g] = recovery_cycles[g]
      /\ recovery_cycles'[h] = 1 <=> restarts[spec[h].board] = 1
      /\ recovery_cycles'[h] \in 0..1
  <2>1. CASE r = "ok"
    <3>1. Verified(h)
      BY <2>1 DEF AutoVerify
    <3>2. recovery_cycles'[h] = 0
      BY <3>1 DEF Verified, IInv, FleetTypeOK, SharedOK
    <3> QED BY <1>1, <2>1, <3>1, <3>2, VerifiedOwn
  <2>2. CASE r # "ok"
    <3>1. UNCHANGED <<recovery_cycles, restarts>>
      BY <2>2 DEF AutoVerify
    <3> QED BY <1>3, <3>1 DEF OneRestart, OnRecord, IInv, FleetTypeOK, SharedOK
  <2> QED BY <2>1, <2>2
<1>5. PICK s \in {"open", "select"} : at' = [at EXCEPT ![h] = s] /\ (s = "open" => r = "hard")
  BY <1>1 DEF Verdict
<1>6. \A g \in Handles :
        /\ at'[g] = (IF g = h THEN s ELSE at[g])
        /\ carried_cycles'[g] = (IF g = h THEN recovery_cycles'[h] ELSE carried_cycles[g])
        /\ restart_sent'[g] = (IF g = h THEN FALSE ELSE restart_sent[g])
  BY <1>1, <1>5 DEF IInv, FleetTypeOK, TasksOK
<1>7. Ids' /\ OnTime'
  BY <1>1, FleetSteady
<1>8. RestartedOnce' /\ Seats' /\ Single' /\ Known' /\ CarriedOver' /\ Confirmed' /\ Home' /\ Ported'
  BY <1>1, <1>2, <1>4, BoardsKept
<1>9. OnRecord'
  <2>1. ASSUME NEW g \in 1..born
        PROVE  /\ recovery_cycles'[g] = 1 <=> restarts[spec[g].board] = 1
               /\ at'[g] = "select" =>
                     (carried_cycles'[g] = 1 \/ restart_sent'[g] <=> restarts[spec[g].board] = 1)
    BY <1>4, <1>6, <2>1, Existing DEF OneRestart, OnRecord
  <2> QED BY <1>2, <1>4, <2>1 DEF OnRecord
<1>10. Connections'
  <2>1. ASSUME NEW g \in Handles, fd[g] # NoBoard
        PROVE  /\ g \in 1..born /\ at'[g] \in {"verify", "select"} /\ where[fd[g]] # Absent
               /\ fd[g] # spec[g].board =>
                     restarts[spec[g].board] = 1 /\ (at'[g] = "select" => carried_cycles'[g] = 1)
               /\ at'[g] = "select" /\ carried_cycles'[g] = 0 => where[fd[g]] = spec[g].port_path
               /\ at'[g] = "select" /\ restart_sent'[g] => fd[g] \in Mute /\ restarts[fd[g]] = 1
    <3>1. CASE g # h
      BY <1>6, <2>1, <3>1 DEF OneRestart, Connections
    <3>2. CASE g = h
      <4>1. s = "select"
        BY <1>1, <1>5, <2>1, <3>2 DEF Outcome
      <4>2. restarts[spec[h].board] = 1 => recovery_cycles'[h] = 1
        BY <1>4, <1>3 DEF OneRestart, OnRecord
      <4>3. fd[h] # spec[h].board => restarts[spec[h].board] = 1
        BY <2>1, <3>2 DEF OneRestart, Connections
      <4>4. recovery_cycles'[h] = 0 => where[fd[h]] = spec[h].port_path
        <5>1. restarts[spec[h].board] # 1 => restarts[spec[h].board] = 0
          BY <1>3, Existing DEF OneRestart, RestartedOnce
        <5>2. restarts[spec[h].board] = 0 => spec[h].port_path = where[spec[h].board]
          BY <1>3 DEF OneRestart, Home, Stays
        <5> QED BY <4>2, <4>3, <5>1, <5>2
      <4> QED BY <1>1, <1>3, <1>6, <2>1, <3>2, <4>1, <4>2, <4>3, <4>4 DEF OneRestart, Connections
    <3> QED BY <3>1, <3>2
  <2> QED BY <1>1, <1>2, <1>4, <2>1 DEF Connections
<1> QED BY <1>7, <1>8, <1>9, <1>10 DEF OneRestart
\* A board that reboots may leave the bus, and closes the descriptors that reach it.
LEMMA RebootLeaves ==
  ASSUME IInv, NEW b \in Boards, MayReboot(b)
  PROVE  /\ \A a \in Boards : /\ where'[a] \in {where[a], Absent}
                              /\ a # b \/ b \notin Native => where'[a] = where[a]
         /\ \A g \in Handles : fd'[g] # NoBoard => fd'[g] = fd[g] /\ where'[fd[g]] = where[fd[g]]
<1>1. /\ where \in [Boards -> Ports \cup {Absent}]
      /\ fd \in [Handles -> Boards \cup {NoBoard}]
  BY DEF IInv, FleetTypeOK, BusOK, TasksOK
<1>2. CASE UNCHANGED <<where, fd>>
  BY <1>2
<1>3. CASE b \in Native /\ where' = [where EXCEPT ![b] = Absent] /\ fd' = Closed(b)
  BY <1>1, <1>3 DEF Closed
<1> QED BY <1>2, <1>3 DEF MayReboot

\* The reboot of a board that is on record as restarted: the parts about boards.
LEMMA RebootKeeps ==
  ASSUME Steady, IInv, OneRestart, NEW b \in Boards, MayReboot(b), b \in Mute,
         restarts' = [restarts EXCEPT ![b] = 1], restarts[b] \in {0, 1},
         \E h \in 1..born : spec[h].board = b,
         UNCHANGED <<attached, scanning, port_path>>
  PROVE  /\ RestartedOnce' /\ Seats' /\ Ids' /\ OnTime' /\ Home' /\ Ported'
         /\ Single' /\ Known' /\ CarriedOver' /\ Confirmed'
<1>1. UNCHANGED <<registry, born, spec, step, candidates, carry>>
  BY DEF attached, scanning
<1>2. restarts \in [Boards -> 0..2]
  BY DEF IInv, FleetTypeOK, HistoryOK
<1>3. \A a \in Boards : restarts'[a] = IF a = b THEN 1 ELSE restarts[a]
  BY <1>2
<1>4. Ids' /\ OnTime'
  BY FleetSteady
<1>5. RestartedOnce' /\ Ported' /\ Known'
  BY <1>1, <1>3 DEF OneRestart, RestartedOnce, Ported, Known
<1>6. Seats'
  BY RebootLeaves DEF OneRestart, Seats
<1>7. Home'
  <2>1. ASSUME NEW a \in Boards, Stays(a)' PROVE Stays(a) /\ where'[a] = where[a]
    BY <1>3, <2>1, RebootLeaves DEF Stays
  <2> QED BY <1>1, <2>1 DEF OneRestart, Home
<1>8. Single'
  <2>1. \A a \in Boards : restarts'[a] = 0 => restarts[a] = 0
    BY <1>3
  <2> QED BY <1>1, <2>1 DEF OneRestart, Single
<1>9. CarriedOver'
  <2>1. ASSUME step = "swap" PROVE carry.recovery_cycles = 1 /\ restarts'[This.board] = 1
    <3>1. candidates # {} /\ \A c \in candidates : c.path \in Ports
      BY <2>1 DEF IInv, SwapOK, FleetTypeOK, ScanningOK
    <3>2. This.board \in Boards
      BY <3>1, ThisIsCandidate DEF IInv, TrueSerials
    <3> QED BY <1>3, <2>1, <3>2 DEF OneRestart, CarriedOver
  <2>2. This' = This
    BY <1>1 DEF This
  <2> QED BY <1>1, <2>1, <2>2 DEF CarriedOver
<1>10. Confirmed'
  <2>1. step = "look" => where' = where
    BY DEF MayReboot, MayLeave, Steady
  <2> QED BY <1>1, <2>1 DEF OneRestart, Confirmed, Candidate
<1> QED BY <1>4, <1>5, <1>6, <1>7, <1>8, <1>9, <1>10 DEF OneRestart

\* The restart rung: the board is the handle's own, and has no restart on record.
LEMMA RestartKeeps ==
  ASSUME Steady, IInv, OneRestart, NEW h \in Handles, at[h] = "select", fd[h] \in Mute,
         Climbs(h) = "restart", SendRestart(h),
         UNCHANGED <<attached, scanning, at, port_path, carried_cycles>>
  PROVE  OneRestart'
<1>1. carried_cycles[h] = 0 /\ ~restart_sent[h]
  BY DEF Climbs, Rung
<1>2. fd[h] \in Boards /\ fd[h] # NoBoard
  BY HotplugAssumption
<1>3. fd[h] = spec[h].board /\ h \in 1..born
  BY <1>1, <1>2 DEF OneRestart, Connections
<1>4. restarts[fd[h]] = 0
  BY <1>1, <1>2, <1>3, Existing DEF OneRestart, OnRecord, RestartedOnce
<1>5. recovery_cycles[h] = 0
  BY <1>1 DEF IInv, RestartsOnRecord
<1>6. PICK b \in Boards : b = fd[h]
  BY <1>2
<1>7. /\ restart_sent' = [restart_sent EXCEPT ![h] = TRUE]
      /\ recovery_cycles' = [recovery_cycles EXCEPT ![h] = 1]
      /\ restarts' = [restarts EXCEPT ![b] = 1]
      /\ MayReboot(b)
  BY <1>4, <1>5, <1>6 DEF SendRestart, IInv, FleetTypeOK, SharedOK, HistoryOK
<1>8. /\ \A a \in Boards : restarts'[a] = IF a = b THEN 1 ELSE restarts[a]
      /\ \A g \in Handles : /\ recovery_cycles'[g] = (IF g = h THEN 1 ELSE recovery_cycles[g])
                            /\ restart_sent'[g] = (IF g = h THEN TRUE ELSE restart_sent[g])
  BY <1>7 DEF IInv, FleetTypeOK, SharedOK, TasksOK, HistoryOK
<1>9. UNCHANGED <<born, spec>>
  BY DEF attached
<1>10. /\ RestartedOnce' /\ Seats' /\ Ids' /\ OnTime' /\ Home' /\ Ported'
       /\ Single' /\ Known' /\ CarriedOver' /\ Confirmed'
  BY <1>3, <1>4, <1>6, <1>7, RebootKeeps
<1>11. OnRecord'
  <2>1. ASSUME NEW g \in 1..born
        PROVE  /\ recovery_cycles'[g] = 1 <=> restarts'[spec[g].board] = 1
               /\ at[g] = "select" =>
                     (carried_cycles[g] = 1 \/ restart_sent'[g] <=> restarts'[spec[g].board] = 1)
    <3>1. g \in Handles /\ spec[g].board \in Boards
      BY Existing
    <3>2. CASE spec[g].board = b
      <4>1. g = h
        BY <1>3, <1>4, <1>6, <3>2 DEF OneRestart, Single
      <4> QED BY <1>6, <1>8, <3>1, <3>2, <4>1
    <3>3. CASE spec[g].board # b
      <4>1. g # h
        BY <1>3, <1>6, <3>3
      <4> QED BY <1>8, <2>1, <3>1, <3>3, <4>1 DEF OneRestart, OnRecord
    <3> QED BY <3>2, <3>3
  <2> QED BY <1>9, <2>1 DEF OnRecord
<1>12. Connections'
  <2>1. ASSUME NEW g \in Handles, fd'[g] # NoBoard
        PROVE  /\ g \in 1..born /\ at[g] \in {"verify", "select"} /\ where'[fd'[g]] # Absent
               /\ fd'[g] # spec[g].board =>
                     restarts'[spec[g].board] = 1 /\ (at[g] = "select" => carried_cycles[g] = 1)
               /\ at[g] = "select" /\ carried_cycles[g] = 0 => where'[fd'[g]] = spec[g].port_path
               /\ at[g] = "select" /\ restart_sent'[g] => fd'[g] \in Mute /\ restarts'[fd'[g]] = 1
    <3>1. fd'[g] = fd[g] /\ where'[fd[g]] = where[fd[g]] /\ fd[g] # NoBoard
      BY <1>7, <2>1, RebootLeaves
    <3>2. /\ g \in 1..born /\ at[g] \in {"verify", "select"} /\ where[fd[g]] # Absent
          /\ fd[g] # spec[g].board =>
                restarts[spec[g].board] = 1 /\ (at[g] = "select" => carried_cycles[g] = 1)
          /\ at[g] = "select" /\ carried_cycles[g] = 0 => where[fd[g]] = spec[g].port_path
          /\ at[g] = "select" /\ restart_sent[g] => fd[g] \in Mute /\ restarts[fd[g]] = 1
      BY <3>1 DEF OneRestart, Connections
    <3>3. spec[g].board \in Boards /\ fd[g] \in Boards
      BY <3>1, <3>2, Existing DEF IInv, FleetTypeOK, TasksOK
    <3> QED BY <1>6, <1>8, <3>1, <3>2, <3>3
  <2> QED BY <1>9, <2>1 DEF Connections
<1> QED BY <1>10, <1>11, <1>12 DEF OneRestart

\* The reset pulse, which goes to the handle's path, reaches the restarted board.
LEMMA PulseKeeps ==
  ASSUME Steady, IInv, OneRestart, NEW h \in Handles, at[h] = "select", fd[h] \in Mute,
         Climbs(h) = "pulse", PulseReset(h),
         UNCHANGED <<attached, scanning, at, port_path, carried_cycles>>
  PROVE  OneRestart'
<1>1. carried_cycles[h] = 0 /\ restart_sent[h]
  BY DEF Climbs, Rung
<1>2. fd[h] \in Boards /\ fd[h] # NoBoard
  BY HotplugAssumption
<1>3. /\ restarts[fd[h]] = 1 /\ h \in 1..born
      /\ where[fd[h]] = spec[h].port_path /\ where[fd[h]] # Absent
  BY <1>1, <1>2 DEF OneRestart, Connections
<1>4. PulseTargets(h) = {fd[h]}
  BY <1>2, <1>3 DEF PulseTargets, OneRestart, Seats
<1>5. PICK b \in Boards : b = fd[h]
  BY <1>2
<1>6. MayReboot(b) /\ UNCHANGED <<restart_sent, recovery_cycles, restarts>>
  BY <1>4, <1>5 DEF PulseReset
<1>7. restarts' = [restarts EXCEPT ![b] = 1]
  BY <1>3, <1>5, <1>6 DEF IInv, FleetTypeOK, HistoryOK
<1>8. UNCHANGED <<born, spec>>
  BY DEF attached
<1>9. \E g \in 1..born : spec[g].board = b
  BY <1>3, <1>5 DEF OneRestart, Known
<1>10. /\ RestartedOnce' /\ Seats' /\ Ids' /\ OnTime' /\ Home' /\ Ported'
       /\ Single' /\ Known' /\ CarriedOver' /\ Confirmed'
  BY <1>3, <1>5, <1>6, <1>7, <1>9, RebootKeeps
<1>11. OnRecord'
  BY <1>6, <1>8 DEF OneRestart, OnRecord
<1>12. Connections'
  BY <1>6, <1>8, RebootLeaves DEF OneRestart, Connections
<1> QED BY <1>10, <1>11, <1>12 DEF OneRestart

LEMMA LadderKeeps ==
  ASSUME Steady, IInv, OneRestart, NEW h \in Handles, NEW r, ReverifyFails(h, r)
  PROVE  OneRestart'
<1>1. /\ at[h] = "select" /\ fd[h] \in Mute
      /\ UNCHANGED <<moves, firmware_verified, attached, at, port_path, carried_cycles,
                     unverified, scanning>>
  BY DEF ReverifyFails, Outcome, Steady
<1>2. CASE Climbs(h) = "restart" /\ SendRestart(h)
  BY <1>1, <1>2, RestartKeeps
<1>3. CASE Climbs(h) = "pulse" /\ PulseReset(h)
  BY <1>1, <1>3, PulseKeeps
<1>4. CASE UNCHANGED <<where, fd, restart_sent, hw_reset_done, recovery_cycles, restarts>>
  BY <1>1, <1>4, RecordKeeps
<1> QED BY <1>2, <1>3, <1>4 DEF ReverifyFails
\* What the supervisor keeps when it attaches nothing.
LEMMA LoopKeeps ==
  ASSUME IInv, OneRestart, Untouched,
         UNCHANGED <<recovery_cycles, born, spec, at, port_path>>
  PROVE  /\ RestartedOnce' /\ Seats' /\ Ported' /\ Single' /\ Known' /\ OnRecord' /\ Connections'
         /\ UNCHANGED <<where, restarts>>
<1>1. UNCHANGED <<where, restarts, fd, carried_cycles, restart_sent>>
  BY DEF Untouched, bus, ladder, history
<1>2. RestartedOnce' /\ Seats' /\ Ported' /\ Single' /\ Known'
  BY <1>1 DEF OneRestart, RestartedOnce, Seats, Ported, Single, Known
<1>3. OnRecord' /\ Connections'
  BY <1>1 DEF OneRestart, OnRecord, Connections
<1> QED BY <1>1, <1>2, <1>3

\* A scan sees the boards where they are, and every id that was about to expire.
LEMMA ScanKeeps == ASSUME Steady, IInv, OneRestart, Scan PROVE OneRestart'
<1>1. /\ UNCHANGED <<recovery_cycles, registry, born, spec, at, port_path, missing>>
      /\ Untouched /\ step' = "look" /\ candidates' = Enumerated
      /\ \A id \in Names : missing[id] = DEBOUNCE - 1 => \E c \in Enumerated : c.id = id
  BY DEF Scan, Steady, shared, attached
<1>2. /\ RestartedOnce' /\ Seats' /\ Ported' /\ Single' /\ Known' /\ OnRecord' /\ Connections'
      /\ UNCHANGED <<where, restarts>>
  BY <1>1, LoopKeeps
<1>3. \A c \in Enumerated : c.id = DeviceId(c.path, SerialOf[c.board]) /\ c.path = where[c.board]
  BY DEF Enumerated, Candidate
<1>4. Ids'
  BY <1>1, <1>3 DEF OneRestart, Ids
<1>5. OnTime' /\ CarriedOver'
  BY <1>1 DEF OnTime, CarriedOver
<1>6. Home'
  BY <1>1, <1>2, <1>3 DEF OneRestart, Home, Stays
<1>7. Confirmed'
  <2>1. \A c \in Enumerated : where[c.board] # Absent /\ c = Candidate(c.board)
    BY DEF Enumerated, Candidate
  <2> QED BY <1>1, <1>2, <2>1 DEF Confirmed, Candidate
<1> QED BY <1>2, <1>4, <1>5, <1>6, <1>7 DEF OneRestart

\* The second enumeration confirms the first.
LEMMA LookKeeps == ASSUME IInv, OneRestart, Look PROVE OneRestart'
<1>1. /\ UNCHANGED <<recovery_cycles, registry, born, spec, at, port_path, missing>>
      /\ Untouched /\ step = "look" /\ step' = "each"
      /\ candidates' = {LookedUp(c) : c \in candidates}
      /\ present' = {LookedUp(c).id : c \in candidates}
  BY DEF Look, shared, attached
<1>2. ASSUME NEW c \in candidates PROVE LookedUp(c) = c
  <2>1. c.board \in Boards /\ where[c.board] # Absent /\ c = Candidate(c.board)
    BY <1>1 DEF OneRestart, Confirmed, IInv, TrueSerials
  <2>2. c.path = where[c.board]
    BY <2>1 DEF Candidate
  <2>3. (CHOOSE b \in Boards : where[b] = c.path) = c.board
    <3>1. \A b \in Boards : where[b] = c.path => b = c.board
      BY <2>1, <2>2 DEF OneRestart, Seats
    <3> QED BY <2>1, <2>2, <3>1
  <2> QED BY <2>1, <2>2, <2>3 DEF LookedUp
<1>3. candidates' = candidates /\ present' = {c.id : c \in candidates}
  BY <1>1, <1>2
<1>4. /\ RestartedOnce' /\ Seats' /\ Ported' /\ Single' /\ Known' /\ OnRecord' /\ Connections'
      /\ UNCHANGED <<where, restarts>>
  BY <1>1, LoopKeeps
<1>5. Ids' /\ Home'
  BY <1>1, <1>3, <1>4 DEF OneRestart, Ids, Home, Stays
<1>6. OnTime'
  BY <1>1, <1>3 DEF OneRestart, OnTime
<1>7. CarriedOver' /\ Confirmed'
  BY <1>1 DEF CarriedOver, Confirmed
<1> QED BY <1>4, <1>5, <1>6, <1>7 DEF OneRestart

\* The candidate of the loop.
LEMMA ThisKnown ==
  ASSUME IInv, OneRestart, candidates # {}
  PROVE  /\ This \in candidates /\ This.board \in Boards /\ This.path \in Ports /\ This.id \in Names
         /\ This.id = DeviceId(This.path, SerialOf[This.board])
<1>1. \A c \in candidates : c.path \in Ports /\ c.id \in Names
  BY DEF IInv, FleetTypeOK, ScanningOK
<1>2. This \in candidates
  BY <1>1, ThisIsCandidate
<1> QED BY <1>1, <1>2 DEF IInv, TrueSerials, OneRestart, Ids

LEMMA KeepKeeps == ASSUME IInv, OneRestart, Keep PROVE OneRestart'
<1>1. /\ UNCHANGED <<recovery_cycles, registry, born, spec, at, port_path, step, present>>
      /\ Untouched /\ step = "each"
      /\ candidates' \subseteq candidates
      /\ missing' = [missing EXCEPT ![This.id] = 0]
  BY DEF Keep, Skip, shared, attached
<1>2. /\ RestartedOnce' /\ Seats' /\ Ported' /\ Single' /\ Known' /\ OnRecord' /\ Connections'
      /\ UNCHANGED <<where, restarts>>
  BY <1>1, LoopKeeps
<1>3. Ids' /\ CarriedOver'
  BY <1>1 DEF OneRestart, Ids, CarriedOver
<1>4. Home'
  BY <1>1, <1>2 DEF OneRestart, Home, Stays
<1>5. OnTime'
  BY <1>1 DEF OneRestart, OnTime, DEBOUNCE, IInv, FleetTypeOK, ScanningOK
<1>6. Confirmed'
  BY <1>1 DEF Confirmed
<1> QED BY <1>2, <1>3, <1>4, <1>5, <1>6 DEF OneRestart

\* A handle whose board has moved is one of the same board, which was restarted.
LEMMA SnapshotKeeps == ASSUME OwnIds, IInv, OneRestart, Snapshot PROVE OneRestart'
<1>1. /\ UNCHANGED <<recovery_cycles, registry, born, spec, at, port_path>>
      /\ UNCHANGED <<candidates, present, missing>>
      /\ Untouched /\ step = "each" /\ candidates # {} /\ Old # NoHandle
      /\ Moved(Old, This.path) /\ carry' = CarryOver(Old)
  BY DEF Snapshot, shared, attached
<1>2. /\ RestartedOnce' /\ Seats' /\ Ported' /\ Single' /\ Known' /\ OnRecord' /\ Connections'
      /\ UNCHANGED <<where, restarts>>
  BY <1>1, LoopKeeps
<1>3. Ids' /\ Home'
  BY <1>1, <1>2 DEF OneRestart, Ids, Home, Stays
<1>4. OnTime' /\ Confirmed'
  BY <1>1 DEF OneRestart, OnTime, Confirmed, Snapshot
<1>5. CarriedOver'
  <2>1. /\ This \in candidates /\ This.board \in Boards /\ This.path \in Ports /\ This.id \in Names
        /\ This.id = DeviceId(This.path, SerialOf[This.board])
    BY <1>1, ThisKnown
  <2>2. Old \in 1..born
    BY <1>1, <2>1 DEF Old, NoHandle, IInv, FleetTypeOK, AttachedOK
  <2>3. spec[Old].id = This.id
    BY <1>1, <2>1 DEF Old, IInv, RegistryOK
  <2>4. /\ spec[Old].board \in Boards /\ spec[Old].port_path \in Ports
        /\ spec[Old].id = DeviceId(spec[Old].port_path, SerialOf[spec[Old].board])
        /\ spec[Old].port_path # This.path
    BY <1>1, <2>2, Existing DEF OneRestart, Ids, Moved
  <2>5. spec[Old].board = This.board
    <3>1. PICK b, c \in Boards, p, q \in Ports :
             b = spec[Old].board /\ p = spec[Old].port_path /\ c = This.board /\ q = This.path
      BY <2>1, <2>4
    <3>2. DeviceId(p, SerialOf[b]) = DeviceId(q, SerialOf[c])
      BY <2>1, <2>3, <2>4, <3>1
    <3>3. p # q
      BY <2>4, <3>1
    <3>4. b = c
      BY <3>2, <3>3 DEF OwnIds
    <3> QED BY <3>1, <3>4
  <2>6. ~Stays(This.board)
    <3>1. Home
      BY DEF OneRestart
    <3>2. PICK b \in Boards : b = This.board
      BY <2>1
    <3>3. Stays(b) => spec[Old].port_path = where[b]
      BY <2>2, <2>5, <3>1, <3>2, Zenon DEF Home
    <3>4. Stays(b) => This.path = where[b]
      BY <2>1, <3>1, <3>2, Zenon DEF Home
    <3> QED BY <2>4, <3>2, <3>3, <3>4
  <2>7. restarts[This.board] = 1
    BY <2>1, <2>6, Existing DEF Stays, OneRestart, RestartedOnce
  <2>8. recovery_cycles[Old] = 1
    BY <2>2, <2>5, <2>7 DEF OneRestart, OnRecord
  <2>9. This' = This
    BY <1>1 DEF This
  <2> QED BY <1>1, <1>2, <2>7, <2>8, <2>9 DEF CarriedOver, CarryOver
<1> QED BY <1>2, <1>3, <1>4, <1>5 DEF OneRestart

\* No id expires.
LEMMA SweepKeeps == ASSUME IInv, OneRestart, Sweep PROVE OneRestart'
<1>1. /\ UNCHANGED <<recovery_cycles, born, spec, at, port_path, candidates>>
      /\ Untouched /\ step = "each" /\ step' = "scan"
      /\ registry' = [id \in Names |-> IF id \in {i \in Names : Expired(Counted(i))} THEN NoHandle
                                       ELSE registry[id]]
  BY DEF Sweep, shared
<1>2. \A id \in Names : ~Expired(Counted(id))
  BY <1>1 DEF OneRestart, OnTime, Expired, Counted, DEBOUNCE, IInv, FleetTypeOK, ScanningOK
<1>3. registry' = registry
  BY <1>1, <1>2 DEF IInv, FleetTypeOK, AttachedOK
<1>4. /\ RestartedOnce' /\ Seats' /\ Ported' /\ Single' /\ Known' /\ OnRecord' /\ Connections'
      /\ UNCHANGED <<where, restarts>>
  BY <1>1, LoopKeeps
<1>5. Ids' /\ Home'
  BY <1>1, <1>3, <1>4 DEF OneRestart, Ids, Home, Stays
<1>6. OnTime' /\ CarriedOver' /\ Confirmed'
  BY <1>1 DEF OnTime, CarriedOver, Confirmed
<1> QED BY <1>4, <1>5, <1>6 DEF OneRestart

\* A new handle of a restarted board inherits the restart; a board that was not restarted
\* gets a handle only if it has none.
LEMMA AttachedKeeps ==
  ASSUME NEW inherited, IInv, OneRestart, candidates # {}, Attach(This, inherited),
         inherited.recovery_cycles = 1 <=> restarts[This.board] = 1,
         restarts[This.board] = 0 => \A h \in 1..born : spec[h].board # This.board,
         Untouched, UNCHANGED present, step \in {"each", "swap"}, step' = "each",
         candidates' = candidates \ {This}, missing' = [missing EXCEPT ![This.id] = 0]
  PROVE  OneRestart'
<1>1. PICK c \in candidates : c = This
  BY ThisKnown
<1>2. /\ c.board \in Boards /\ c.path \in Ports /\ c.id \in Names
      /\ c.id = DeviceId(c.path, SerialOf[c.board])
  BY <1>1, ThisKnown
<1>3. UNCHANGED <<where, restarts, fd, carried_cycles, restart_sent>>
  BY DEF Untouched, bus, ladder, history
<1>4. PICK n \in Handles : n = born + 1
  BY HotplugAssumption DEF Attach, IInv, FleetTypeOK, AttachedOK, Handles
<1>5. born' = n /\ born \in Nat /\ n \notin 1..born /\ 1..n = 1..born \cup {n} /\ n # NoHandle
  BY <1>4 DEF Attach, IInv, FleetTypeOK, AttachedOK, NoHandle
<1>6. at[n] = "unborn" /\ fd[n] = NoBoard
  <2>1. at[n] = "unborn"
    BY <1>4, <1>5 DEF IInv, UnbornOK
  <2> QED BY <2>1 DEF OneRestart, Connections
<1>7. \A h \in Handles :
        /\ at'[h] = (IF h = n THEN "open" ELSE at[h])
        /\ port_path'[h] = (IF h = n THEN c.path ELSE port_path[h])
        /\ recovery_cycles'[h] = (IF h = n THEN inherited.recovery_cycles ELSE recovery_cycles[h])
  BY <1>1, <1>4 DEF Attach, IInv, FleetTypeOK, SharedOK, TasksOK
<1>8. \A h \in Handles : h # n => spec'[h] = spec[h]
  BY <1>4 DEF Attach, IInv, FleetTypeOK, AttachedOK
<1>9. spec'[n].id = c.id /\ spec'[n].port_path = c.path /\ spec'[n].board = c.board
  BY <1>1, <1>4 DEF Attach, IInv, FleetTypeOK, AttachedOK
<1>10. \A h \in 1..born : h \in Handles /\ h # n /\ spec[h].board \in Boards /\ spec[h].id \in Names
  BY <1>5, Existing
<1>11. Ids'
  <2>1. \A id \in Names : registry'[id] = IF id = c.id THEN n ELSE registry[id]
    BY <1>1, <1>4 DEF Attach, IInv, FleetTypeOK, AttachedOK
  <2>2. ASSUME NEW h \in 1..n
        PROVE  /\ spec'[h].id = DeviceId(spec'[h].port_path, SerialOf[spec'[h].board])
               /\ spec'[h].port_path \in Ports /\ registry'[spec'[h].id] # NoHandle
    <3>1. CASE h = n
      BY <1>2, <1>5, <1>9, <2>1, <3>1
    <3>2. CASE h \in 1..born
      BY <1>5, <1>8, <1>10, <2>1, <3>2 DEF OneRestart, Ids
    <3> QED BY <1>5, <3>1, <3>2
  <2> QED BY <1>5, <2>2 DEF OneRestart, Ids
<1>12. Home' /\ Ported'
  <2>1. ASSUME NEW h \in 1..n
        PROVE  /\ port_path'[h] \in Ports
               /\ Stays(spec'[h].board) => /\ spec'[h].port_path = where[spec'[h].board]
                                           /\ port_path'[h] = where[spec'[h].board]
    <3>1. CASE h = n
      BY <1>2, <1>4, <1>7, <1>9, <3>1 DEF OneRestart, Home
    <3>2. CASE h \in 1..born
      BY <1>7, <1>8, <1>10, <3>2 DEF OneRestart, Home, Ported
    <3> QED BY <1>5, <3>1, <3>2
  <2> QED BY <1>3, <1>5, <2>1 DEF OneRestart, Home, Ported, Stays
<1>13. Single'
  <2>1. ASSUME NEW b \in Boards, restarts[b] = 0, NEW g \in 1..n, NEW h \in 1..n,
               spec'[g].board = b, spec'[h].board = b
        PROVE  g = h
    BY <1>1, <1>5, <1>8, <1>9, <1>10, <2>1 DEF OneRestart, Single
  <2> QED BY <1>3, <1>5, <2>1 DEF Single
<1>14. RestartedOnce' /\ Seats'
  BY <1>3 DEF OneRestart, RestartedOnce, Seats
<1>15. Known'
  <2>1. ASSUME NEW b \in Boards, restarts[b] = 1
        PROVE  b \in Mute /\ \E h \in 1..n : spec'[h].board = b
    BY <1>5, <1>8, <1>10, <2>1 DEF OneRestart, Known
  <2> QED BY <1>3, <1>5, <2>1 DEF Known
<1>16. OnRecord'
  <2>1. ASSUME NEW h \in 1..n
        PROVE  /\ recovery_cycles'[h] = 1 <=> restarts[spec'[h].board] = 1
               /\ at'[h] = "select" =>
                     (carried_cycles[h] = 1 \/ restart_sent[h] <=> restarts[spec'[h].board] = 1)
    <3>1. CASE h = n
      BY <1>1, <1>4, <1>7, <1>9, <2>1, <3>1
    <3>2. CASE h \in 1..born
      BY <1>7, <1>8, <1>10, <2>1, <3>2 DEF OneRestart, OnRecord
    <3> QED BY <1>5, <3>1, <3>2
  <2> QED BY <1>3, <1>5, <2>1 DEF OnRecord
<1>17. Connections'
  <2>1. \A h \in Handles : fd[h] # NoBoard => h # n
    BY <1>6
  <2> QED BY <1>3, <1>5, <1>7, <1>8, <2>1 DEF OneRestart, Connections
<1>18. OnTime'
  BY <1>1, <1>2 DEF OneRestart, OnTime, DEBOUNCE, IInv, FleetTypeOK, ScanningOK
<1>19. CarriedOver' /\ Confirmed'
  BY DEF CarriedOver, Confirmed
<1> QED BY <1>11, <1>12, <1>13, <1>14, <1>15, <1>16, <1>17, <1>18, <1>19 DEF OneRestart

\* The two ways to attach.
LEMMA AddKeeps == ASSUME OwnIds, IInv, OneRestart, Add PROVE OneRestart'
<1>1. /\ step = "each" /\ candidates # {} /\ Old = NoHandle /\ Attach(This, NoCarry)
      /\ Untouched /\ UNCHANGED <<present, step>>
      /\ candidates' = candidates \ {This} /\ missing' = [missing EXCEPT ![This.id] = 0]
  BY DEF Add, Skip
<1>2. /\ This \in candidates /\ This.board \in Boards /\ This.path \in Ports /\ This.id \in Names
      /\ This.id = DeviceId(This.path, SerialOf[This.board])
  BY <1>1, ThisKnown
<1>3. ASSUME NEW h \in 1..born, spec[h].board = This.board PROVE FALSE
  <2>1. /\ spec[h].id = DeviceId(spec[h].port_path, SerialOf[spec[h].board])
        /\ spec[h].port_path \in Ports /\ registry[spec[h].id] # NoHandle
    BY <1>3 DEF OneRestart, Ids
  <2>2. CASE This.board \in Native
    BY <1>1, <1>2, <1>3, <2>1, <2>2 DEF OwnIds, Old
  <2>3. CASE This.board \notin Native
    <3>1. spec[h].port_path = where[This.board] /\ This.path = where[This.board]
      BY <1>2, <1>3, <2>3 DEF OneRestart, Home, Stays
    <3> QED BY <1>1, <1>2, <1>3, <2>1, <3>1 DEF Old
  <2> QED BY <2>2, <2>3
<1>4. restarts[This.board] # 1
  BY <1>2, <1>3 DEF OneRestart, Known
<1>5. PICK inherited \in {NoCarry} : inherited.recovery_cycles = 0 /\ Attach(This, inherited)
  BY <1>1 DEF NoCarry
<1> QED BY <1>1, <1>3, <1>4, <1>5, AttachedKeeps

LEMMA RespawnKeeps == ASSUME IInv, OneRestart, Respawn PROVE OneRestart'
<1>1. /\ step = "swap" /\ step' = "each" /\ Attach(This, carry)
      /\ Untouched /\ UNCHANGED present
      /\ candidates' = candidates \ {This} /\ missing' = [missing EXCEPT ![This.id] = 0]
  BY DEF Respawn
<1>2. candidates # {} /\ carry.recovery_cycles = 1 /\ restarts[This.board] = 1
  BY <1>1 DEF IInv, SwapOK, OneRestart, CarriedOver
<1>3. PICK inherited \in {carry} : inherited.recovery_cycles = 1 /\ Attach(This, inherited)
  BY <1>1, <1>2 DEF Attach
<1> QED BY <1>1, <1>2, <1>3, AttachedKeeps
LEMMA NextOneRestart ==
  ASSUME Steady, OwnIds, SerialsAreUnique, IInv, OneRestart, NoHealthyStranger, [Next]_vars
  PROVE  OneRestart'
<1>1. CASE UNCHANGED vars
  BY <1>1, RecordKeeps DEF vars, bus, shared, tasks, ladder, history
<1>2. CASE \E b \in Boards : Unplug(b) \/ \E p \in Ports : Plug(b, p)
  <2>1. ASSUME NEW b \in Boards, Unplug(b) PROVE FALSE
    BY <2>1 DEF Unplug, Steady, IInv, FleetTypeOK, BusOK
  <2> QED BY <1>2, <2>1, PlugKeeps
<1>3. CASE \E h \in Handles : TaskStep(h) \/ Asked(h) \/ Unverify(h)
  <2>1. PICK h \in Handles : TaskStep(h) \/ Asked(h) \/ Unverify(h)
    BY <1>3
  <2>2. CASE Resolve(h) \/ OpenPort(h)
    BY <2>2, ResolveKeeps, OpenKeeps
  <2>3. CASE EndBeforeOpen(h) \/ LinkLost(h) \/ ShutdownArm(h)
    BY <2>3, LeaveKeeps
  <2>4. CASE Unverify(h) \/ ReverifyOk(h) \/ Asked(h)
    BY <2>4, VerdictKeeps
  <2>5. CASE \E r \in {"ok", "soft", "boot", "hard"} : AutoVerify(h, r) \/ ReverifyFails(h, r)
    BY <2>5, AutoVerifyKeeps, LadderKeeps
  <2> QED BY <2>1, <2>2, <2>3, <2>4, <2>5 DEF TaskStep
<1>4. CASE SupervisorStep
  BY <1>4, ScanKeeps, LookKeeps, AddKeeps, KeepKeeps, SnapshotKeeps, RespawnKeeps, SweepKeeps DEF SupervisorStep
<1> QED BY <1>1, <1>2, <1>3, <1>4 DEF Next

\* Where only bridges are mute, no board ever leaves its port, and a task reaches no
\* other board than its own.
OwnOnly == \A h \in Handles : fd[h] \in {NoBoard, spec[h].board}

LEMMA NextOwnOnly ==
  ASSUME Native \cap Mute = {}, IInv, OneRestart, OwnOnly, [Next]_vars
  PROVE  OwnOnly'
<1>1. \A b \in Boards : Stays(b)
  BY Existing DEF Stays, OneRestart, RestartedOnce, Known
<1>2. fd \in [Handles -> Boards \cup {NoBoard}]
  BY DEF IInv, FleetTypeOK, TasksOK
<1>3. ASSUME NEW h \in Handles, OpenPort(h) PROVE OwnOnly'
  <2>1. h \in 1..born /\ spec[h].board \in Boards /\ UNCHANGED spec
    BY <1>3, Existing DEF OpenPort, attached
  <2>2. port_path[h] = where[spec[h].board] /\ port_path[h] \in Ports /\ Absent \notin Ports
    BY <1>1, <2>1, HotplugAssumption DEF OneRestart, Home, Ported
  <2>3. \A b \in Boards : where[b] = port_path[h] => b = spec[h].board
    BY <2>1, <2>2 DEF OneRestart, Seats
  <2> QED BY <1>2, <1>3, <2>1, <2>3 DEF OwnOnly, OpenPort
<1>4. ASSUME NEW c, NEW inherited, Attach(c, inherited), UNCHANGED fd PROVE OwnOnly'
  <2>1. PICK n \in Handles : n = born + 1 /\ n > born
    BY <1>4, HotplugAssumption DEF Attach, IInv, FleetTypeOK, AttachedOK, Handles
  <2>2. fd[n] = NoBoard
    BY <2>1 DEF IInv, UnbornOK, OneRestart, Connections
  <2>3. \A h \in Handles : h # n => spec'[h] = spec[h]
    BY <1>4, <2>1 DEF Attach, IInv, FleetTypeOK, AttachedOK
  <2> QED BY <1>4, <2>2, <2>3 DEF OwnOnly
<1>5. ASSUME UNCHANGED spec, \A h \in Handles : fd'[h] \in {fd[h], NoBoard} PROVE OwnOnly'
  BY <1>5 DEF OwnOnly
<1>6. \A b : \A h \in Handles : Closed(b)[h] \in {fd[h], NoBoard}
  BY DEF Closed
<1>7. CASE \E b \in Boards : Unplug(b) \/ \E p \in Ports : Plug(b, p)
  <2>1. UNCHANGED spec /\ \E b : fd' = fd \/ fd' = Closed(b)
    BY <1>7 DEF Unplug, Plug, attached, tasks
  <2> QED BY <1>5, <1>6, <2>1
<1>8. ASSUME NEW h \in Handles, TaskStep(h) \/ Asked(h) \/ Unverify(h), ~OpenPort(h) PROVE OwnOnly'
  <2>1. UNCHANGED spec
    BY <1>8 DEF TaskStep, Unverify, Resolve, EndBeforeOpen, AutoVerify, ReverifyOk, LinkLost,
                ReverifyFails, ShutdownArm, Asked, InfoRequest, attached
  <2>2. fd' = fd \/ fd' = [fd EXCEPT ![h] = NoBoard] \/ \E b : fd' = Closed(b)
    BY <1>8 DEF TaskStep, Unverify, Resolve, EndBeforeOpen, AutoVerify, ReverifyOk, LinkLost,
                ReverifyFails, ShutdownArm, SendRestart, PulseReset, MayReboot, Asked, InfoRequest,
                tasks
  <2> QED BY <1>2, <1>5, <1>6, <2>1, <2>2
<1>9. CASE SupervisorStep
  <2>1. UNCHANGED fd
    BY <1>9 DEF SupervisorStep, Scan, Look, Add, Keep, Snapshot, Respawn, Sweep, Untouched
  <2>2. CASE UNCHANGED spec
    BY <1>5, <2>1, <2>2
  <2>3. CASE Add
    <3>1. Attach(This, NoCarry)
      BY <2>3 DEF Add
    <3>2. PICK c : Attach(c, NoCarry)
      BY <3>1 DEF Attach
    <3> QED BY <1>4, <2>1, <3>2
  <2>4. CASE Respawn
    <3>1. Attach(This, carry)
      BY <2>4 DEF Respawn
    <3>2. PICK c, inherited : Attach(c, inherited)
      BY <3>1 DEF Attach
    <3> QED BY <1>4, <2>1, <3>2
  <2> QED BY <1>9, <2>2, <2>3, <2>4 DEF SupervisorStep, Scan, Look, Keep, Snapshot, Sweep, attached
<1>10. CASE UNCHANGED vars
  BY <1>5, <1>10 DEF vars, attached, tasks
<1> QED BY <1>3, <1>7, <1>8, <1>9, <1>10 DEF Next

\* However the supervisor, the tasks, the reboots and the reconnections interleave, and
\* however often its handle is respawned: the record of a restart is true, as long as no
\* task of a restarted board verifies a healthy one that has taken its port.
LEMMA RecordIsTrue ==
  ASSUME Steady, OwnIds, SerialsAreUnique
  PROVE  Spec /\ []NoHealthyStranger => []OneRestart
<1>1. Init => OneRestart
  BY InitOneRestart
<1>2. IInv /\ OneRestart /\ NoHealthyStranger /\ [Next]_vars => OneRestart'
  BY NextOneRestart
<1> QED BY <1>1, <1>2, Invariance, PTL DEF Spec

\* No task does in a fleet where all boards are mute, or only bridges are.
LEMMA NoStranger ==
  ASSUME Steady, OwnIds, SerialsAreUnique, Boards \subseteq Mute \/ Native \cap Mute = {}
  PROVE  Spec => []NoHealthyStranger
<1>1. CASE Boards \subseteq Mute
  <2>1. IInv => NoHealthyStranger
    BY <1>1 DEF IInv, FleetTypeOK, TasksOK, NoHealthyStranger
  <2> QED BY <2>1, Invariance, PTL
<1>2. CASE Native \cap Mute = {}
  <2>1. Init => OneRestart /\ OwnOnly
    BY InitOneRestart DEF Init, OwnOnly
  <2>2. OwnOnly => NoHealthyStranger
    BY DEF OwnOnly, NoHealthyStranger
  <2>3. IInv /\ (OneRestart /\ OwnOnly) /\ [Next]_vars => (OneRestart /\ OwnOnly)'
    BY <1>2, <2>2, NextOneRestart, NextOwnOnly
  <2> QED BY <2>1, <2>2, <2>3, Invariance, PTL DEF Spec
<1> QED BY <1>1, <1>2

\* A board is restarted once at most, as long as no task of a restarted board verifies a
\* healthy one that has taken its port.
THEOREM AtMostOneRestart ==
  ASSUME Steady, OwnIds, SerialsAreUnique
  PROVE  Spec /\ []NoHealthyStranger => []RestartedOnce
<1>1. OneRestart => RestartedOnce
  BY DEF OneRestart
<1> QED BY <1>1, RecordIsTrue, PTL

\* In a fleet where all boards are mute, or only bridges are, a board that never verifies
\* is restarted once.  With a mute native-USB board and a healthy board TLC finds a second
\* restart (README.md, section 3.3).
THEOREM RestartsAreBounded ==
  ASSUME Steady, OwnIds, SerialsAreUnique, Boards \subseteq Mute \/ Native \cap Mute = {}
  PROVE  Spec => []RestartedOnce
BY AtMostOneRestart, NoStranger, PTL

\* The step that declares a device lost is the last rung of its own connection.
LEMMA DeclaredByLadder ==
  ASSUME IInv, [Next]_vars, NEW h \in Handles, Declares(h)
  PROVE  Climbs(h) = "fault"
<1> USE DEF IInv, FleetTypeOK, SharedOK, TasksOK
<1>1. CASE UNCHANGED fault
  BY <1>1 DEF Declares
<1>2. ASSUME NEW c, NEW inherited, Attach(c, inherited) PROVE FALSE
  <2>1. fault'[h] = IF h = born + 1 THEN inherited.fault ELSE fault[h]
    BY <1>2 DEF Attach
  <2>2. at[born + 1] = "unborn"
    BY <2>1 DEF Declares, AttachedOK, UnbornOK, Handles
  <2> QED BY <2>1, <2>2 DEF Declares
<1>3. ASSUME NEW g \in Handles, NEW r, AutoVerify(g, r) \/ InfoRequest(g, r) PROVE FALSE
  <2>1. fault'[g] \in {"none", "boot", fault[g]} /\ \A f \in Handles \ {g} : fault'[f] = fault[f]
    BY <1>3 DEF AutoVerify, InfoRequest, Verified, BootFault
  <2> QED BY <2>1 DEF Declares
<1>4. ASSUME NEW g \in Handles, ReverifyOk(g) PROVE FALSE
  <2>1. fault'[g] = "none" /\ \A f \in Handles \ {g} : fault'[f] = fault[f]
    BY <1>4 DEF ReverifyOk, Verified
  <2> QED BY <2>1 DEF Declares
<1>5. ASSUME NEW g \in Handles, NEW r, ReverifyFails(g, r) PROVE Climbs(h) = "fault"
  <2>1. BootFault(g, r)[h] \in {fault[h], "boot"} /\ DOMAIN BootFault(g, r) = Handles
    BY DEF BootFault
  <2> QED BY <1>5, <2>1 DEF ReverifyFails, Declares, BootFault
<1>6. \/ UNCHANGED fault
      \/ \E c, inherited : Attach(c, inherited)
      \/ \E g \in Handles : ReverifyOk(g) \/ \E r : \/ AutoVerify(g, r) \/ InfoRequest(g, r)
                                                  \/ ReverifyFails(g, r)
  BY DEF Next, vars, shared, Unplug, Plug, Unverify, TaskStep, Resolve, OpenPort, EndBeforeOpen,
         LinkLost, ShutdownArm, Asked, SupervisorStep, Scan, Look, Add, Keep, Snapshot, Respawn,
         Sweep
<1> QED BY <1>1, <1>2, <1>3, <1>4, <1>5, <1>6

\* A board is never declared lost unless it was restarted itself: the record that a
\* handle carries over respawns and reconnections is never one of another board, nor one
\* left from before.  A native-USB board was given the reset pulse too, by a connection
\* that sent the restart itself.
THEOREM CuresBeforeFault ==
  ASSUME Steady, OwnIds, SerialsAreUnique, Boards \subseteq Mute \/ Native \cap Mute = {}
  PROVE  Spec => FaultAfterCures
<1> DEFINE Cured == \A h \in Handles : Declares(h) =>
                        /\ restarts[spec[h].board] >= 1
                        /\ spec[h].native /\ carried_cycles[h] = 0 => hw_reset_done[h]
<1>1. ASSUME IInv, OneRestart, [Next]_vars, NEW h \in Handles, Declares(h)
      PROVE  /\ restarts[spec[h].board] >= 1
             /\ spec[h].native /\ carried_cycles[h] = 0 => hw_reset_done[h]
  <2>1. Climbs(h) = "fault" /\ at[h] = "select"
    BY <1>1, DeclaredByLadder DEF Declares
  <2>2. \/ carried_cycles[h] >= 1
        \/ carried_cycles[h] = 0 /\ restart_sent[h] /\ (spec[h].native => hw_reset_done[h])
    BY <2>1 DEF Climbs, Rung
  <2>3. carried_cycles[h] \in 0..1 /\ h \in 1..born
    BY <1>1, <2>1, Existing DEF IInv, FleetTypeOK, TasksOK
  <2>4. restarts[spec[h].board] = 1
    BY <1>1, <2>1, <2>2, <2>3 DEF OneRestart, OnRecord
  <2> QED BY <2>2, <2>3, <2>4
<1>2. IInv /\ OneRestart /\ [Next]_vars => [Cured]_vars
  BY <1>1
<1> HIDE DEF Cured
<1>3. Spec => [][Cured]_vars
  BY <1>2, Invariance, RecordIsTrue, NoStranger, PTL DEF Spec
<1> QED BY <1>3 DEF Cured, FaultAfterCures

=============================================================================
