---------------------------- MODULE Configure ----------------------------
(***************************************************************************)
(* The configuration routes of a device at work: handlers that read the    *)
(* chip, validate, check the handle, queue a command and then write the    *)
(* cache, the task that writes the commands to the board, and the board,   *)
(* whose settings the cache is meant to show.  Requests are numbered.      *)
(***************************************************************************)
EXTENDS DeviceConfig, Sequences, FiniteSets

CONSTANTS
    Clients,
    Chips,        \* the chips of the boards that may be on the port
    Requests,     \* bound: the requests considered
    CmdCap,       \* capacity of the command channel
    MaxRequests,  \* bound: requests made
    MaxEvents     \* bound: unplugs, reboots, failed exchanges, starts and stops of a run

\* Requests are bodies that deserialise, presets are CSI sections.  A profile that has a
\* command line for a preset has its section too: one that has not gets the firmware's
\* defaults into the cache, whatever its line does to the board.
ASSUME ConfigureAssumption ==
    /\ CmdCap \in Nat \ {0} /\ MaxRequests \in Nat /\ MaxEvents \in Nat
    /\ \A r \in Requests : Parses(r)
    /\ "none" \notin Chips
    /\ "default" \notin DOMAIN Presets /\ Resolved = DOMAIN Presets
    /\ \A p \in DOMAIN Presets : /\ DOMAIN Presets[p] \subseteq CsiSettings
                                 /\ \A f \in DOMAIN Presets[p] \cap Gates : Presets[p][f] \in Nat

VARIABLES
    config,       \* the cache: what GET config answers
    chip,         \* the chip of the board on the port
    board,        \* its settings
    collecting,   \* the board collects: its CLI takes nothing but q
    serial_connected, firmware_verified, device_info,  \* device_info: the chip, or "none"
    ended,        \* the serial task is over, and with it the receiver of the channel
    cmd_ch,       \* the command channel
    job,          \* per client: its next step, request, the chip it read, its number
    asked, events,
    cachedBy, obeyedBy,  \* history: per setting, the request whose value it has
    crossed,      \* history: pairs of requests that were both between queueing and caching
    blind,        \* history: resets that found no chip, or crossed a change of boards
    lost,         \* history: requests whose command was lost with the link or the task
    locked,       \* history: requests whose command found the board's CLI locked
    wiped         \* history: requests whose command was taken before a reboot

boardVars   == <<chip, board, collecting>>
handleVars  == <<serial_connected, firmware_verified, device_info, ended>>
historyVars == <<cachedBy, obeyedBy, crossed, blind, lost, locked, wiped>>
vars == <<config, boardVars, handleVars, cmd_ch, job, asked, events, historyVars>>

-----------------------------------------------------------------------------
(* The firmware. *)

\* What of the configuration a chip has: its firmware ignores the other flags.
Classic == {"lltf", "htltf", "stbc_htltf", "ltf_merge", "channel_filter", "manual_scale", "shift"}
Extended == {"csi", "csi_legacy", "csi_ht20", "csi_ht40", "dump_ack", "val_scale_cfg"}
OfC5     == {"csi_force_lltf", "csi_vht"}
Lacks(c) ==
    CASE c = "esp32c5" -> Classic [] c = "esp32c6" -> Classic \cup OfC5 [] OTHER -> Extended \cup OfC5

\* How the firmware stores the value of a flag.
Stored(k, v) == CASE k = "peer_mac" /\ v = "" -> "broadcast"
                  [] k = "ht40" /\ v = "off"  -> "none"
                  [] k \in Gates              -> IF v = "on" THEN 1 ELSE 0
                  [] OTHER                    -> v

\* The settings a command line gives a value on a board of chip c, and the value.
Effect(command, c) ==
    LET f == command.flags
    IN  CASE command.route = "reset" -> FirmwareDefaults(c)
          [] command.route # "reset" /\ "preset" \in DOMAIN f ->
                IF f.preset = "default" THEN CsiDefaults ELSE Presets[f.preset]
          [] OTHER -> [k \in DOMAIN f |-> Stored(k, f[k])]

Firmware(settings, effect) ==
    [k \in DOMAIN settings |-> IF k \in DOMAIN effect THEN effect[k] ELSE settings[k]]

\* The settings of a board that has started.
Fresh(c) ==
    Without(FirmwareDefaults(c) ++ [delivery |-> "callback", logging |-> "on", extra |-> "none"], Lacks(c))

-----------------------------------------------------------------------------
(* The handlers. *)

\* The locals of a handler last as long as its request.
Idle == [at |-> "idle", req |-> [route |-> "stats", body |-> [k \in {} |-> 0]], chip |-> "none", number |-> 0]

At(c, step) == job[c].at = step
Go(c, step) == job' = [job EXCEPT ![c] = IF step = "idle" THEN Idle ELSE [@ EXCEPT !.at = step]]
Learns(c, step) == job' = [job EXCEPT ![c] = [@ EXCEPT !.at = step, !.chip = device_info]]
Rest == UNCHANGED <<boardVars, handleVars, asked, events, obeyedBy, lost, locked, wiped>>

\* A request arrives.  set_wifi locks device_info before it builds the line.
Arrive(c) ==
    /\ At(c, "idle") /\ asked < MaxRequests /\ asked' = asked + 1
    /\ \E r \in Requests :
          job' = [job EXCEPT ![c] =
                     IF r.route # "wifi" /\ ~Accepts(r) THEN Idle
                     ELSE [Idle EXCEPT !.at = IF r.route = "wifi" THEN "read_chip" ELSE "check_link",
                                       !.req = r, !.number = asked + 1]]
    /\ UNCHANGED <<config, boardVars, handleVars, cmd_ch, events, historyVars>>

ReadChip(c) ==
    /\ At(c, "read_chip")
    /\ IF Accepts(job[c].req) THEN Learns(c, "check_link") ELSE Go(c, "idle")
    /\ UNCHANGED <<config, cmd_ch, cachedBy, crossed, blind>> /\ Rest

\* Mutant: the cache is written whatever send_cmd answers.
CheckLinkCaches(c) ==
    /\ At(c, "check_link") /\ Go(c, IF serial_connected THEN "check_verified" ELSE "cache")
    /\ UNCHANGED <<config, cmd_ch, cachedBy, crossed, blind>> /\ Rest

\* send_cmd: 503 without a link, 412 on unverified firmware.
CheckLink(c) ==
    /\ At(c, "check_link") /\ Go(c, IF serial_connected THEN "check_verified" ELSE "idle")
    /\ UNCHANGED <<config, cmd_ch, cachedBy, crossed, blind>> /\ Rest

CheckVerified(c) ==
    /\ At(c, "check_verified") /\ Go(c, IF firmware_verified THEN "send" ELSE "idle")
    /\ UNCHANGED <<config, cmd_ch, cachedBy, crossed, blind>> /\ Rest

\* Those that have queued their command and not yet written the cache.
Between(c) == {d \in Clients \ {c} : job[d].at \in {"read_reset_chip", "cache"}}

\* The command of a request, with the flags it was built from.
Line(req, known, number) == [route |-> req.route, flags |-> Flags(req, known), from |-> number]

Send(c) ==
    /\ At(c, "send") /\ ~ended /\ Len(cmd_ch) < CmdCap
    /\ cmd_ch' = Append(cmd_ch, Line(job[c].req, job[c].chip, job[c].number))
    /\ crossed' = crossed \cup {{job[c].number, job[d].number} : d \in Between(c)}
    /\ Go(c, CASE job[c].req.route = "reset" -> "read_reset_chip" [] job[c].req.route = "stats" -> "idle"
               [] OTHER -> "cache")
    /\ UNCHANGED <<config, cachedBy, blind>> /\ Rest

\* The receiver is gone: an error status, and nothing to cache.
SendFails(c) ==
    /\ At(c, "send") /\ ended /\ Go(c, "idle")
    /\ UNCHANGED <<config, cmd_ch, cachedBy, crossed, blind>> /\ Rest

\* reset_config looks at the chip after it queued its command.
ReadResetChip(c) ==
    /\ At(c, "read_reset_chip") /\ Learns(c, "cache")
    /\ blind' = IF device_info = "none" THEN blind \cup {job[c].number} ELSE blind
    /\ UNCHANGED <<config, cmd_ch, cachedBy, crossed>> /\ Rest

\* Mutant: the chip is looked up again for the cache.
CacheRereads(c) ==
    /\ At(c, "cache") /\ Go(c, "idle")
    /\ LET j   == job[c]
           set == Sets(j.req, j.chip)
       IN  /\ config' = Cached(config, j.req, device_info)
           /\ cachedBy' = [k \in DOMAIN config' |->
                              IF k \in set THEN j.number ELSE cachedBy[k]]
    /\ UNCHANGED <<cmd_ch, crossed, blind>> /\ Rest

Cache(c) ==
    /\ At(c, "cache") /\ Go(c, "idle")
    /\ LET j   == job[c]
           set == Sets(j.req, j.chip)
       IN  /\ config' = Cached(config, j.req, j.chip)
           /\ cachedBy' = [k \in DOMAIN config' |->
                              IF k \in set THEN j.number ELSE cachedBy[k]]
    /\ UNCHANGED <<cmd_ch, crossed, blind>> /\ Rest

Handler(c) ==
    \/ Arrive(c) \/ ReadChip(c) \/ CheckLink(c) \/ CheckVerified(c) \/ Send(c)
    \/ SendFails(c) \/ ReadResetChip(c) \/ Cache(c)

-----------------------------------------------------------------------------
(* The task and the board. *)

Others == UNCHANGED <<config, job, asked, cachedBy, crossed>>
Event  == events < MaxEvents /\ events' = events + 1

\* Commands are written in the order of the channel, to whatever board is there.  While
\* it collects the firmware takes nothing but q.
Write ==
    /\ serial_connected /\ cmd_ch # <<>> /\ cmd_ch' = Tail(cmd_ch)
    /\ LET command == Head(cmd_ch)
           effect  == Effect(command, chip)
       IN  IF collecting THEN locked' = locked \cup {command.from} /\ UNCHANGED <<board, obeyedBy>>
           ELSE /\ board' = Firmware(board, effect) /\ UNCHANGED locked
                /\ obeyedBy' = [k \in DOMAIN board |->
                                   IF k \in DOMAIN effect THEN command.from ELSE obeyedBy[k]]
    /\ UNCHANGED <<chip, collecting, handleVars, events, blind, lost, wiped>> /\ Others

\* The link fails; a command that is being written is lost.  The cleanup then clears
\* one cell after the other.
LoseLink ==
    /\ serial_connected /\ Event /\ serial_connected' = FALSE
    /\ \/ UNCHANGED <<cmd_ch, lost>>
       \/ cmd_ch # <<>> /\ cmd_ch' = Tail(cmd_ch) /\ lost' = lost \cup {Head(cmd_ch).from}
    /\ UNCHANGED <<boardVars, firmware_verified, device_info, ended, obeyedBy, blind, locked, wiped>> /\ Others

\* Cleanup, reset and a failed exchange forget the verification, then the chip.
Unverify ==
    /\ firmware_verified /\ firmware_verified' = FALSE
    /\ IF serial_connected THEN Event ELSE UNCHANGED events
    /\ UNCHANGED <<boardVars, serial_connected, device_info, ended, cmd_ch, obeyedBy, blind, lost, locked, wiped>>
    /\ Others

ForgetInfo ==
    /\ ~firmware_verified /\ device_info # "none" /\ device_info' = "none"
    /\ UNCHANGED <<boardVars, serial_connected, firmware_verified, ended, cmd_ch, events, obeyedBy, blind, lost,
                   locked, wiped>>
    /\ Others

Forgotten == ~firmware_verified /\ device_info = "none"

\* The requests whose command has left the channel.
Taken ==
    {n \in 1..asked : /\ \A i \in DOMAIN cmd_ch : cmd_ch[i].from # n
                      /\ \A d \in Clients : job[d].number = n => job[d].at \in {"idle", "read_reset_chip", "cache"}}

\* The resets that are in the channel or still to be cached.
ResetsUnderWay ==
    {cmd_ch[i].from : i \in {l \in DOMAIN cmd_ch : cmd_ch[l].route = "reset"}}
        \cup {job[d].number : d \in {e \in Clients : job[e].req.route = "reset" /\ At(e, "cache")}}

\* A board of chip c starts, with its firmware's defaults; the cache stays as it is.
Boots(c) ==
    /\ chip' = c /\ board' = Fresh(c) /\ collecting' = FALSE
    /\ obeyedBy' = [k \in DOMAIN Fresh(c) |-> 0] /\ wiped' = wiped \cup Taken
    /\ blind' = IF c = chip THEN blind ELSE blind \cup ResetsUnderWay

\* The port opens again: on the board as it was; on one that the RTS pulse of the
\* connection, or its time without power, made start anew; or on another board.
Reconnect ==
    /\ ~serial_connected /\ ~ended /\ Forgotten /\ serial_connected' = TRUE
    /\ UNCHANGED <<boardVars, obeyedBy, blind, wiped>> \/ \E c \in Chips : Boots(c)
    /\ UNCHANGED <<firmware_verified, device_info, ended, cmd_ch, events, lost, locked>> /\ Others

\* The board reboots while it is connected: the reset route's pulse or restart, the
\* recovery's, or of its own.
Reboot ==
    /\ serial_connected /\ Event /\ Boots(chip)
    /\ UNCHANGED <<handleVars, cmd_ch, lost, locked>> /\ Others

\* A verification first ends a run that is still going; the chip is noted after the flag.
Verify ==
    /\ serial_connected /\ Forgotten /\ collecting' = FALSE /\ firmware_verified' = TRUE
    /\ UNCHANGED <<chip, board, serial_connected, device_info, ended, cmd_ch, events, obeyedBy, blind, lost,
                   locked, wiped>>
    /\ Others

NoteChip ==
    /\ serial_connected /\ firmware_verified /\ device_info = "none" /\ device_info' = chip
    /\ UNCHANGED <<boardVars, serial_connected, firmware_verified, ended, cmd_ch, events, obeyedBy, blind, lost,
                   locked, wiped>>
    /\ Others

\* A run starts or ends, by requests that are not about the configuration.
Run ==
    /\ serial_connected /\ Event /\ collecting' = ~collecting
    /\ UNCHANGED <<chip, board, handleVars, cmd_ch, obeyedBy, blind, lost, locked, wiped>> /\ Others

\* The supervisor ends the task of a device that left; what is still queued is dropped.
End ==
    /\ ~serial_connected /\ ~ended /\ Forgotten /\ ended' = TRUE
    /\ cmd_ch' = <<>> /\ lost' = lost \cup {cmd_ch[i].from : i \in DOMAIN cmd_ch}
    /\ UNCHANGED <<boardVars, serial_connected, firmware_verified, device_info, events, obeyedBy, blind, locked,
                   wiped>>
    /\ Others

TaskStep ==
    \/ Write \/ LoseLink \/ Unverify \/ ForgetInfo \/ Reconnect \/ Reboot \/ Verify
    \/ NoteChip \/ Run \/ End

Init ==
    /\ config = [k \in {} |-> 0]  \* DeviceConfig::default()
    /\ chip \in Chips /\ board = Fresh(chip) /\ collecting = FALSE
    /\ serial_connected = TRUE /\ firmware_verified = TRUE /\ device_info = chip /\ ended = FALSE
    /\ cmd_ch = <<>> /\ job = [c \in Clients |-> Idle]
    /\ asked = 0 /\ events = 0
    /\ cachedBy = [k \in {} |-> 0] /\ obeyedBy = [k \in DOMAIN board |-> 0]
    /\ crossed = {} /\ blind = {} /\ lost = {} /\ locked = {} /\ wiped = {}

Next == TaskStep \/ \E c \in Clients : Handler(c)

Spec == Init /\ [][Next]_vars

-----------------------------------------------------------------------------
Steps == {"idle", "read_chip", "check_link", "check_verified", "send", "read_reset_chip", "cache"}

\* The types; what the cache and the board hold of a setting is of one kind, so that the
\* cache never shows a spelling that the device would not (config.rs, the comments on
\* ht40 and protocol in set_wifi and set_protocol).
ConfigureTypeOK ==
    /\ \A k \in DOMAIN config \cap (Numbers \cup Gates) : config[k] \in Nat
    /\ "ht40" \in DOMAIN config => config.ht40 \in {"above", "below", "none"}
    /\ "protocol" \in DOMAIN config => config.protocol \in Protocols \cup ExtraProtocols
    /\ "mode" \in DOMAIN config => config.mode \in WifiModes \cup ExtraModes
    /\ Len(cmd_ch) <= CmdCap /\ (\A c \in Clients : job[c].at \in Steps) /\ asked \in 0..MaxRequests
    /\ chip \in Chips /\ device_info \in {"none", chip}
    /\ DOMAIN cachedBy = DOMAIN config /\ DOMAIN obeyedBy = DOMAIN board

Quiet == cmd_ch = <<>> /\ \A c \in Clients : At(c, "idle")

\* A setting that the cache and the board have from the same request has one value in
\* both: handler and firmware agree on defaults, aliases and presets, although the handler
\* works them out from a chip that it read before (set_wifi) or after (reset_config) the
\* command was queued, while the chip may be forgotten, and the board exchanged for one
\* of another chip, in between.  A reset is excepted that finds no chip, and caches
\* channel 1 for every board, or that is under way while the chip changes.
CacheAgrees ==
    \A k \in DOMAIN config \cap DOMAIN board :
        (cachedBy[k] = obeyedBy[k] /\ ~(k = "channel" /\ cachedBy[k] \in blind))
            => config[k] = board[k]

\* When nothing is under way, the cache shows the last request that the board obeyed,
\* unless the command of the request that it shows was lost with the link or the task,
\* found the board's CLI locked, or was taken before a reboot, which nothing in the server
\* answers by clearing the cache or sending it again; or two requests crossed: one queued
\* its command between the other's queueing and caching.
Drifted(k) == cachedBy[k] # obeyedBy[k] /\ {cachedBy[k], obeyedBy[k]} \notin crossed

DriftHasCause ==
    Quiet => \A k \in DOMAIN config \cap DOMAIN board :
                 Drifted(k) => cachedBy[k] \in lost \cup locked \cup wiped

=============================================================================
