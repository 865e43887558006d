# Verification of csi-webserver-core

TLA+ models of the CSI web server core (`src/src/*.rs`), model-checked with TLC on small
instances, and proofs of their main invariants with TLAPS.  The server attaches ESP32 boards
over USB serial ports, runs one task per board, and serves an HTTP/WebSocket API that starts
and stops collections, configures boards and records their frames to Parquet files.

Paths below are relative to the repository's root (`src/src/serial.rs` is the crate's
`src/serial.rs`).

## 1. Inventory

### 1.1 Components

| Component | Source | State | Operations |
|---|---|---|---|
| Serial task, one per handle | `serial.rs` | open port, `chip`, `current_mode`, `current_session_path`, `drop_next_chunk`, `sink`, the ladder's counters | open with reset, auto-verify, `select!` over metrics tick, shutdown, re-verify, read, command, info request; cleanup |
| Recovery ladder | `serial.rs:560-750` | `verify_failures`, `restart_sent`, `hw_reset_done`, `carried_cycles`; `recovery_cycles` and `fault` of the handle | firmware `restart`, USB-JTAG pulse, terminal fault |
| Control routes | `routes/control.rs` | none of its own | `start`, `stop`, `reset`, `status` |
| Info route | `routes/info.rs` | none | `info` with a time limit |
| Config routes and cache | `routes/config.rs`, `models.rs` | `DeviceConfig` behind a mutex | setters (cache and CLI line), config reset, output mode |
| WebSocket route | `routes/ws.rs` | one broadcast receiver per client | mode check, upgrade, forward, lag |
| Device handle | `state.rs` | atomics, `mpsc` senders, `watch` senders, mutexes, cancellation token | `require_firmware` |
| Registry | `state.rs` | id -> handle | `attach`, `detach`, `insert`, `remove`, `get`, `snapshot` |
| Supervisor | `supervisor.rs` | `missing` counts | scan, add, follow, respawn with carry-over, debounce, remove |
| Parquet sink | `parquet_sink.rs` | row buffers, writer, `finished` | `open`, `push`, flush, `finish`, drop |
| CSI decoding | `csi.rs`, `wire/*` | none | COBS and postcard decoding, subcarrier layouts |
| Profile | `profile.rs` | none | constant tables |
| Server, listing | `server.rs`, `lib.rs`, `routes/devices.rs`, `routes/mod.rs` | none | wiring, id lookup |

### 1.2 How they interact

* Handlers read and write a handle's atomics, send command lines into a bounded `mpsc`
  channel (64), info responders into another (4), and the output mode and the session's dump
  path into two `watch` cells.  A `watch` cell keeps its last value only.
* The serial task is the only reader of all four and the only user of the port.  It also
  writes the atomics: on connect, disconnect and verification.  Its state during a connection
  is local and is dropped with the connection; what is in the channels and cells is not.
* The supervisor is the only writer of the registry.  It cancels handles through their token;
  the task notices in `select!`.  It learns about the bus by polling; so does each task,
  which follows its board's USB serial number on its own.
* The firmware locks its CLI while it collects: only `q` has an effect.  It is modelled from
  how `src/` uses it.

### 1.3 What is hard, and which properties make each part correct

* *One device* (handlers against the task against the board). Flags are checked and then used;
  several flags are stored one after the other; commands stay queued over a reconnect; a watch
  change wakes no arm of `select!`; the session path outlives the connection. Correct means:
  sessions and files correspond (`SinkOfSession`, `RowsOfOwnSession`, `RowsSurvive`,
  `OneFilePerSession`, `NoneLeftOpen`, `SinkAsConfigured`, `SessionCloses`), starts are claimed
  once and take effect (`StartNotSwallowed`, `StartsSerialized`, `CollectingIsReported`), nothing
  is written to unverified firmware (`WritesVerified`), flags agree (`IdentityCoherent`), and
  there is progress (`RequestsReturn`, `VerifiesAgain`).
* *The fleet* (supervisor against tasks against the bus).  Ports are reused, boards
  re-enumerate because of the recovery steps themselves, and the supervisor and the tasks
  both follow boards.  Correct means: no task is left behind (`NoOrphan`), a task reads its
  own board (`MovesWithProof`, `SettledOnOwnBoard`), the registry follows the bus
  (`Converges`), recovery is tried in order, once, and ends (`RestartedOnce`,
  `FaultAfterCures`, `MuteIsFaulted`).
* *Streaming and dumping* (the bytes against the loop's arms, the disk and slow clients).  An
  interrupted read leaves its bytes in the buffer, two arms clear it, the end of the input cuts
  a chunk; a flush fails and is retried; a client lags, or stalls in a send.  Correct means:
  chunks keep to frame boundaries (`FramesAligned`), a file with a footer is complete
  (`ReadableIsComplete`), every frame is accounted for to each client (`Accounted`), which sees
  a lossy but ordered stream (`Lossy`), and its socket ends with the device (`SocketsClose`).
* *Configuration* (handlers against each other and the command queue).  The cache is written
  after the command is queued, from a chip that was read before or after that; the board may
  never get, may ignore, or may forget the command, and another board may take the port.
  Correct means: cache and board agree on a setting that they have from the same request
  (`CacheAgrees`), and have it from the same request unless the two orders crossed, the command
  came to nothing or the board started anew after it (`DriftHasCause`).
* *Decoding* (radio and firmware generations against the host).  Nothing on the line says in
  which of four layouts it is written; a layout is recognised by its length.  Correct means:
  a row is a whole measurement (`RowsAreWhole`) with its true subcarriers (`SubcarriersTrue`)
  and the same format code from every firmware (`CodeAgrees`), and mixed fleets decode
  (`MixedFleetDecodes`).

`PROJECT.json` lists the hazards one by one with their lines.

## 2. Modules

```
DeviceHandle --+-- ControlRoutes --+
               |                   +-- SerialDevice --+-- MCSerialDevice
               +-- SerialTask -----+        |         +-- SerialDevice_proofs
                                            |                      |
              SessionFiles (INSTANCE, the abstract          SerialRaces_proofs
              specification)                                       |
                                                           SerialSessions_proofs
                                                                   |
                                                           SessionFiles_proofs

Hotplug -------+-- RecoveryLadder -+
               |                   +-- Fleet --+-- MCFleet
               +-- Supervisor -----+           +-- Fleet_proofs

ParquetSink ---+
               +-- Framer -- Pipeline --+-- MCPipeline
WebSockets ----+                |       +-- Pipeline_proofs
                                |
                   LossyStream (INSTANCE, the abstract specification)

DeviceConfig -- Configure --+-- MCConfigure
                            +-- Configure_proofs

CsiLayouts -- WireFormat -- Decoding --+-- MCDecoding
                                       +-- Decoding_proofs
```

### 2.1 One device

`DeviceHandle` declares the state that handlers, task and board share, and the environment's
steps.  A *call number* stands for a request; a start's call number also names its run, so
that a row of a dump file tells the run it was measured in.  `PathOf` maps a start to its
dump path, because two starts of one wall-clock second have the same one.  A chunk on the
wire is a run's number, or `TextLine` for anything that never becomes a row.

`ControlRoutes` has one action per step of a handler at which another handler or the task can
run: each load, store, compare-exchange and send of its own.  `at[c]` names the step client
`c` takes next.  `config` stands for every setter that goes through `send_cmd`.  `SendFails`
and the second disjuncts of `SendLogMode` and `SendStart` are the error paths.

`SerialTask` has one action per stretch of the task between two points at which the handlers
can see a difference.  `pc` is "open" in the outer loop, "verify" ... "init" at the start of a
connection, "top" where the watch cells are applied, "select" in `select!`, and "close" ...
"clear_info" in the cleanup that clears one flag after the other.  Each arm of `select!` is an
action.  `SyncSink` is `sync_parquet_sink`; `Finalised` is what `Drop` leaves on disk: a readable
file, or, when the last flush or the footer fails, a closed file without a footer ("broken").

`SerialDevice` composes them, and states the fairness and the properties.

`SessionFiles` is what dumping promises, without tasks, cells or boards: a session begins and
ends; while it lasts a file may be opened for it, once, and takes the rows of that session's run;
the file is closed, with its footer or without, before the next session begins and is never
touched again.  The refinement
mapping is `Dumping`: the session is the published path, the open file is the sink, and a device
is detached when its token is cancelled (its last session may then have no end).

Abstractions: bytes and the contents of frames, of `device_info` and of the configuration; the
2 s limit on writes (a write that times out is a hard failure of the exchange; the `q` that
quiesces a stale stream always arrives); read errors are a dead link; opening a file and
finishing it may fail, and the rows of a file are those handed to its sink (how many of them a
failing disk keeps is `ParquetSink`'s subject, 2.3); delays are not modelled, so any interleaving
that they make unlikely is still there.

### 2.2 The fleet

`Hotplug` has the bus (`where`), the registry and, per handle ever attached, its shared state
and its task's.  `fd[h]` is the board that the open descriptor of `h` reaches; it dies when
the board leaves the bus.  `restarts` is a history variable: the restart rungs fired at a board
since it last verified or was unplugged by a user.

`RecoveryLadder` is what the serial task does as seen from the bus: follow the serial number
(`Resolve`), open that path, whatever is there by then (`OpenPort`), verify, re-verify, answer an
info request (`InfoRequest`, which verifies without touching the ladder), and the rung that each
failure reaches.  A restart or a pulse may make
a native-USB board leave the bus; it comes back on any free port.  `SerialTask` has the rest of
the same code; there, a failed re-verification may or may not reboot the board.

`Supervisor` has two steps for the scan, one per candidate, and one for the sweep over the
registered ids. The first enumeration gives the paths (`Scan`), the second the serial number and
the vendor of what is at each path by then (`Look`): where a board has left, the path itself
becomes the id. In the loop a respawn is two steps, because the carry-over awaits a lock before
the old handle is cancelled. What a scan found is a set, handled in the order of the sorted paths
(`Rank`).

`Fleet` composes them.

Abstractions: every enumeration succeeds and every board is an ESP; an open of a present port
succeeds; the collection arms of the task.

### 2.3 From the line to the consumers

`Framer` is the `select!` loop seen from the bytes.  The line is a sequence of pieces: a frame is
a head and a tail that ends with the delimiter, text has no delimiter, a mark is one.  Because
the task reads in order, its buffer is an interval `from..at-1` of the line, and a chunk is an
interval too: what a chunk holds can be compared with what the board sent.  `Read` takes one
piece, so that any other arm may win between two of them; `fresh` says whether the current
`read_until` call has read anything, which decides between a last chunk (`ReadCut`) and an end
(`Disconnect`) at the end of the input.  `Reverify` and `AnswerInfo` clear the buffer,
`MetricsTick` and `WriteCommand` leave it.  The handlers appear as the writes they make to the
handle, in any order (`HandlerWrite`): `ControlRoutes` allows fewer interleavings.

`ParquetSink` is a sink as a value with `Push`, `Flush` and `Finish`: a buffer of rows, what is
written, and whether the footer is.  In each step the disk either takes the bytes or not; a
write that fails takes nothing.  `pushed` is a history of the rows handed over.

`WebSockets` is the broadcast ring, of which only the newest `Capacity` frames exist, and one
forwarding loop per client; a send that the client does not take is the state "sending".

`Pipeline` composes the three, starting from a started session, and states that it implements
`LossyStream` (the refinement mapping is `Stream`): the stream is what was published, a client's
membership is its receiver.

Abstractions: the content of frames (a chunk decodes if it is one whole frame), delays, which
bytes of a text the exchange leaves on the line (any).

### 2.4 Configuration

`DeviceConfig` has the pure part: bodies, command flags and cache as functions from settings to
values; what `to_cli_command` accepts (`Accepts`) and emits (`Flags`), and what the handler does
to the cache (`Cached`).  A profile's modes, protocols and presets are constants.

`Configure` has the handlers as steps (read the chip, check, queue, read the chip again in
`reset_config`, cache), the task that writes the queue to the board, and the board. What a
command does on the board (`Firmware`) is external; it is modelled from the comments of
`models.rs` and `config.rs` on defaults and aliases. The history variables name the request that
a setting of the cache and of the board comes from. The task loses the link, clears the cells one
by one, reconnects to the board as it was, to one that has started anew (the RTS pulse of a
connection resets a bridge's), or to a board of another chip (`Reconnect`, `Boots`); a connected
board may reboot; the task may end, and with it the receiver of the channel (`End`, `SendFails`).
None of this touches the cache. Requests are bodies that serde deserialises (`Parses`: fields of
their route, the required ones present, numbers that are numbers), and a preset stands for CSI
settings: `ConfigureAssumption` says both. It also says that a profile that has a command line
for a preset has its section (`Resolved = DOMAIN Presets`); section 3.3 says what the code does
otherwise.

Abstractions: an address or a text is its kind (well formed, or one of the reasons for a
refusal); a board that starts anew has its firmware's defaults.

### 2.5 Decoding

`CsiLayouts` is `wire/layout.rs`: the table of training fields, lengths, indices, spacings and
the two classifiers.  `WireFormat` is `csi.rs` and the part of `wire/mod.rs` that decoding uses:
the version check, the fall-back, the packets of older firmware, the array-list line, the format
code, and the flattening into the record of the sink.  Samples are counted, not carried.

`Decoding` puts a board in front of it: a radio that takes a measurement (side, format, width,
STBC, which fields the CSI configuration leaves on, transmitter, sequence number), a firmware
that writes it in the form of its generation, and a line that loses, cuts or thins it.  Radio
and firmware are external, modelled from what the vendored `wire` module says of them, and give
the truth that the properties compare rows with.  The pre-0.12 layouts are not self-describing,
so bytes written in another one may be read as a packet that never was: `misread` is that
accident, and the properties speak of genuine rows.

Abstractions: damage is of whole samples (a line that loses a digit keeps its count and is
accepted); an old packet starts with a transmitter address, whose first byte is even, so it
never reads as version 1.

## 3. Runs

A run's bounds are the constants of its `.cfg`.

### 3.1 Runs that pass

| Run | What it checks | Instance |
|---|---|---|
| `paced` | `SinkOfSession`, `RowsOfOwnSession`, `CollectingIsReported`, `RowsSurvive`, `StartNotSwallowed`, `OneFilePerSession` (refinement) and `VerifiesAgain` (liveness) for a client that waits until the device is quiet between requests | native USB, 4 requests, 2 chunks, no unplug |
| `races_attached` | `TypeOK`, `SinkAsConfigured`, `StartsSerialized`, `WritesVerified`, `IdentityCoherent` for two clients that race `start`, `stop`, `config` and mode changes | UART bridge, 2 clients, 3 requests, no unplug |
| `progress` | `RequestsReturn`, `SessionCloses` (liveness) and `NoneLeftOpen` with `start`, `stop`, `reset` by the RTS pulse, and info exchanges that fail | UART bridge, command channel of capacity 1, 2 requests, 1 unplug |
| `pipeline` | `PipelineTypeOK`, `FramesAligned`, `ReadableIsComplete`, `Accounted`, `Lossy` (refinement), `SocketsClose` (liveness) | mode both, 1 client, ring of 1, row groups of 2, 1 failing write, 2 events, lines of up to 7 pieces |
| `configure` | `ConfigureTypeOK`, `CacheAgrees`, `DriftHasCause` | a C5 and a classic chip, 2 clients (symmetric), 2 requests out of 10, channel of 2, 2 events |
| `decode` | `DecodingTypeOK`, `SubcarriersTrue`, `CodeAgrees`, `RowsAreWhole`, `MixedFleetDecodes` | classic, C5 and C6, 3 firmware generations, both forms, 3 frames, the first of any shape |
| `hotplug` | `FleetTypeOK`, `NoOrphan`, `MovesWithProof` | 2 boards with serial numbers, 2 ports, 4 handles, 1 unplug, 1 reset |
| `converges` | `Converges` (liveness) | 2 boards, one without serial number, 4 handles, 1 unplug |
| `recovery` | `RestartedOnce`, `FaultAfterCures`, and `MuteIsFaulted` (liveness) for boards that never verify | a native board and a bridge, 4 handles |

`Paced`, "no unplug", `PromptUsb` and the choice of requests in `races_attached` (no `reset`,
no `info`) are assumptions on users and on the bus, not on the code.  They are there because
the properties fail without them; sections 3.2 and 3.3 show each failure.

Why the bounds suffice: what these properties relate is at most two sessions (three or four
requests: start, stop, start, and a mode change or reset between them), a chunk of each, one
reconnect between any two steps, and two actors at a time.  A command channel of capacity 1 or
2 is full when the interesting things happen; nothing depends on 64.  In the fleet, two boards
and two ports are what it takes for one board to take another's place, an unplug lets a board
leave at any moment, within a scan too, and come back on either port; four handles give every
board a respawn, or a handle under its path's name on top; six failures reach every rung of the
ladder.  `v_stolen` has two moves.

In `pipeline`, two events give one write of a handler between a reset or an unplug and its
consequences; one line holds two frames and more so that a wrong cut shows in a later chunk; a
ring of one lags at the second frame; row groups of two fill, fail and are retried. In
`configure`, two requests cross, or one of them meets the loss, the lock or the reboot that the
other does not; two events start and use a collection, or follow an unplug by another; each
unplug may be followed by a reconnection to the same board, to one started anew or to another. In
`decode`, a first frame of every shape meets every layout, and two more follow a frame that was
lost or damaged.

A mode change and an unplug happen in one behaviour of `pipeline`; on the whole command protocol
they are proved about together (section 4) and checked apart.

Deadlock is not checked where the system may stop: in `pipeline` the task ends and the line is
read, in `configure` and `decode` requests and frames are used up, in `hotplug` the supervisor
stops at the bound on handles.

### 3.2 Runs that are violated

Each states something that a comment of the repository says, and TLC finds a behaviour of the
code that contradicts it.  `PROJECT.json` quotes the lines.

| Run | Property | What happens |
|---|---|---|
| `v_truncated` | `RowsSurvive` | a reconnect within a session opens its path again with `File::create`, and the rows recorded before the disconnect are gone |
| `v_wedged` | `VerifiesAgain` | a start that races a disconnect claims a device that is not verified; the claim blocks the re-verification for good |
| `v_stolen` | `SettledOnOwnBoard` | a board moves, leaves and returns to its first port; its task, which followed it, opens the board that has taken the port in between, and the supervisor sees nothing to do |

### 3.3 Other behaviours that the models show

The same models show more places where the code and a comment differ.  They have no run of
their own.  The first group is reproduced by changing the constants of a run and checking the
property named; the second follows from one or two actions.

* `SinkOfSession`, when `paced` allows one unplug: the reconnect opens a sink for the path that
  the watch cell still holds, and a new session is recorded in the old session's file
  (`serial.rs:1250`).  The same with `Paced = FALSE`: stop's `None` and the next start's `Some`
  are coalesced by the watch cell, and the old sink records the new session.
* `RowsSurvive`, with `PathOf <- OneSecond`: two sessions of one second share a path
  (`control.rs:316`); and with the modes `dump` and `stream`: leaving and re-entering a dumping
  mode within a session opens, and truncates, its file again.  `OneFilePerSession` fails
  with each of these changes, and with those of the previous item: a session begins with a path
  that is taken or with a file still open, or its file is closed before its end.
* `WritesVerified`, with `info` next to `config`: a command that was queued while the firmware
  was verified is written after an exchange failed (`serial.rs:876`, `state.rs:92-93`).
* `StartsSerialized`, with one unplug: a reconnect between the two commands of a start loses the
  first (`control.rs:298-301`).
* `StartNotSwallowed`, with `stop` next to `start`: a stop that overlaps a start sends its `q`
  before the start's command and clears the claim after it, so the next start is claimed although
  the board collects, and is swallowed (`control.rs:225-247`, `278-290`).
* `IdentityCoherent`, with `reset`: reset and a verification interleave their two stores
  (`control.rs:60`, `state.rs:111`).
* `MovesWithProof`, with `SerialOf <- SameSerial`: `resolve_port_by_serial` takes the first port
  with the number, so a task moves to another bridge (`serial.rs:178`).
* `SettledOnOwnBoard`, with `Aliases <- PathAlias`: an alias on a path makes a board's id depend
  on its port (`supervisor.rs:143`).
* `RestartedOnce`, with one board, two handles and `MaxMoves = 1`: the board is plugged into
  another port; the supervisor reads the recovery count of the old handle, the old task, which
  is cancelled after the read, restarts the board, and the task of the new handle, which
  carries 0, restarts it again (`supervisor.rs:264`; `state.rs:119-122`).
* `RestartedOnce`, when `recovery` has `Mute = {"A"}`, one healthy board next to a mute native one:
  A's task restarts it, and finds its port taken by the other board; without a match for its
  serial number it retries that path and verifies the healthy board there, which clears the
  recovery count; A's respawn carries 0 over and restarts the board again (`serial.rs:275-280`;
  `state.rs:121-123` says at most once).
* `RestartedOnce`, when `recovery` lets a rebooting board stay off the bus for three scans: it is
  detached, attached anew with `RecoveryCarryOver::default()` and restarted again, every time
  (`supervisor.rs:255`; `state.rs:121-123` says at most once).
* `DriftHasCause`, without its exception for crossed requests: two setters reach the board in
  one order and the cache in the other (`config.rs:132-134`); without the one for the locked
  CLI: a setter sent while the board collects is answered 200 and cached, and the board discards
  it (`config.rs:301-332`; `control.rs:204-208` knows of the lock); without the one for reboots:
  a bridge's board is reset by each reconnection (`serial.rs:349-360`), another chip may be
  attached (`serial.rs:386-387`), and the cache is neither cleared nor sent again.
* `CacheAgrees`, without its exception for a reset that finds no chip: a C5 that was reset to
  its firmware's defaults is shown on channel 1 (`models.rs:238`); without the one for a reset
  that is under way while the boards are exchanged: one board is reset, and the other one's
  channel is cached (`config.rs:28-29`).
* `RestartedOnce`, when `recovery` has `PromptUsb = FALSE`: a board that leaves between the two
  enumerations of a scan is attached a second time, under its path as its id and without its
  recovery count, and is restarted again (`supervisor.rs:163-164`).  `PromptUsb` therefore
  says also that none leaves in the middle of a scan.
* `RowsAreWhole` and `DecodingTypeOK` over all rows instead of the genuine ones: a frame of a newer
  wire version may be read as an old packet (`csi.rs:634-635`; `csi.rs:6-8` says it is reported
  "instead of mis-read").

* `SendRestart`: reset of a native board that collects queues a `restart`, which the CLI lock
  discards, and answers success (`control.rs:75-81`).
* `ReadChunk` after `Claim`: the tail of a stopped run that is read after the next start is
  recorded in the new session (`serial.rs:789-796`).
* `LoopTop`: the mode is applied at the top of the loop, so a chunk that arrives after a mode
  change may still be handled in the old mode (`config.rs:166-167`).
* `CloseConnection`: an unplug drops the sink, and the drop tries to finish the file;
  `parquet_sink.rs:24-26` says that an unplug leaves no footer, lines 60-61 and 364-366 that the
  file is readable.  The code makes it readable unless the disk fails, which is only logged.
* `Resolve`: the task follows its board itself (`state.rs:71-73` says its path is pinned), and
  without a match retries a path that another board may have taken, so two live tasks can hold
  one port (`serial.rs:275-280`).
* `PulseTargets`: the reset pulse goes to the path the handle was attached with, whatever board
  is there now (`serial.rs:735`).
* `AutoVerify`: `carried_cycles` is read once per connection and kept after a later success, so
  a device that recovered can be declared lost without a restart (`serial.rs:704`).

* `Framer`: a frame that another arm of `select!` interrupts is continued, not truncated, since
  `buf` outlives the cancelled `read_until` (`FramesAligned`); the comment "KNOWN DEFECT" at
  `serial.rs:752-766` describes a loss that the code does not have.
* `ReadCut`, and a chunk with text ahead of a frame: such chunks are broadcast, although
  `ws.rs:30-33` promises "one unmodified serialized frame" per message.
* `Sent`: a stalled client holds its loop in `socket.send`, where the token is not looked at;
  `ws.rs:58-60` says that an unplug "promptly closes the socket".
* `Finish`: a sink whose last flush fails is dropped without a footer (`parquet_sink.rs:60-61`).
* `Section`: a preset that a profile sends (`preset_cli`) and does not resolve
  (`resolve_preset`) is cached as the firmware's defaults (`models.rs:676-678`); with such a
  profile (`Resolved <- NoExtra` in `configure`, were it not for `ConfigureAssumption`)
  `CacheAgrees` fails.
* `Climbs`: a connection that took a restart over gives up a native-USB board without the reset
  pulse (`serial.rs:569-581`), which `FaultAfterCures` therefore does not ask for.
* `FirmwareDefaults`, `CsiDefaults`: the settings of both chip families are cached, although the
  comment on `CsiConfigSection` says that those of the other one stay `None`.
* `Flatten`: on a C5 the columns `sigb_len`, `cur_single_mpdu` and `rxmatch0`, which the packet of
  older firmware did not have, are filled (`csi.rs:775-777`); a missing sequence number becomes 0,
  which is a valid one (`csi.rs:719`); and on the 802.11ax chips STBC and HT40 are unknown, so the
  format code is that of plain HT20 (`csi.rs:676`).
* `DecodeLegacy`: `csi_data_len` of an old packet is not compared with its samples.

### 3.4 Fairness

* `HandlersRun` (`progress`): tokio polls every ready task and handler, and `select!`
  picks a ready arm at random, so an arm that is ready again and again is taken (strong
  fairness of the arms that empty the channels or leave a dead link).  Of the board's side it
  assumes that an unplugged board is plugged in again, and that a live link does not fail every
  verification with a hard error: without that the task never reaches `select!` and a handler
  that is blocked on the full channel stays blocked.
* `TaskTicks` (`progress`, `paced`): the metrics interval fires every second whatever else
  happens; `SessionCloses` rests on it alone.
* `BoardAnswers` (`paced`): the tick, and a board that answers `info` again and again is
  verified.  The tick is needed here as well: the precondition of the re-verify arm is evaluated
  on entry to `select!`.
* `LoopsRun` (`pipeline`): the loop of a client that reads goes on, and `select!` takes the
  shutdown arm in the end although frames keep coming (strong fairness: it picks a ready arm at
  random).  Nothing is assumed of the board, of the task, or of clients that stall.
* `Scheduled` (`converges`, `recovery`): the supervisor's loop and every task go on, and a board
  that left the bus is back in the end (weak fairness each).  A task is not owed a boot fault
  (`Attends`), so `MuteIsFaulted` does not rest on one being recognised.

## 4. Proofs

`SerialDevice_proofs` proves, for any clients, operations, modes, paths, capacities and bounds
that satisfy `HandleAssumption`:

* `TypeCorrect`: `Spec => []TypeOK`, the channels' capacities included;
* `NoneIsLeftOpen`: `Spec => []NoneLeftOpen`, whether or not footers can be written;
* `SinkIsConfigured`: `Spec => []SinkAsConfigured`.

They follow from the inductive invariant `IInv == TypeOK /\ Routed /\ NoneLeftOpen /\
SinkScope`.  None of the three is inductive alone.  `TypeOK` needs `Routed`: `start` enqueues
its call number and publishes the path of that number, so a handler at those steps must have
one; and only the requests with a next step may be at the firmware check.  `NoneLeftOpen`
needs `SinkScope`: `InitOutput` opens a connection's first sink without closing an earlier one,
so there must be none, which holds because a sink is open only between the top of the loop and
the cleanup.  `SinkAsConfigured` is the part of `SinkScope` that a reader cares about.

The proof has a lemma per group of variables (`Kept`), lemmas for what `SyncSink`, `Finalised`,
`Created` and the channel operations do, then one step per action for types and routing
(`HandlerTypes`, `TaskTypes`, `EnvironmentTypes`, `ArrivalTypes`, `OthersRouted`) and for the
files (`FilesStep`).  `IInv` was checked with TLC on the instances above before it was proved.

`SerialRaces_proofs` proves what clients that race each other and the task cannot break. Each
theorem names, as its hypothesis, what breaks the property (section 3.3); all else is arbitrary:
clients, the other requests, the interleaving, the kind of port, and whether the supervisor
detaches the device in between.

* `IdentityAgrees`: `IdentityCoherent`, without `reset`.  Unplugs and failed exchanges are allowed.
* `StartsAreSerialized`: `StartsSerialized`, for a device that stays plugged in and gets neither
  `reset` nor `info` (`Undisturbed`).
* `OnlyInTheGap`: `WritesVerified`, for any requests, unplugs and failures, as long as no step
  that takes the verification back (`Lapses`: the cleanup of a disconnect, a failed info exchange,
  a reset) falls into the gap of a request (`InTheGap`: checked, and its command yet to be
  written).  So a command that reaches unverified firmware went through that gap and no other way.

Verification is stored in two steps, cleared in two steps, and checked before it is used.
`IdentityAt` says how the two records relate at every step of the task. `Calm`, the invariant of
an undisturbed device, has three phases. In `Apart` the firmware is not verified and no handler
is past the check, so no command is on its way; in `Serving` nothing boots the board again, since
the re-verify arm is off and the link holds, so a command that was checked finds the same
firmware when it is written; in `Leaving` the task was cancelled and receives nothing. Its part
`InOrder` says of the channel what `StartsSerialized` says of the board: each queued start finds
a `set-log-mode` ahead of it, or a board that has one already, in whatever order two handlers put
their two commands there. `OnlyInTheGap` rests on `GapVerified`: while a request is in the gap
the firmware is verified, and the exchange that a connection begins with has nothing to take
back. A step of the task keeps it unless it is a lapse (`GapTask`, `GapVerification`), and a
handler enters the gap from the check alone (`GapHandler`).

`SerialSessions_proofs` proves what clients see that wait until the device is quiet between two
requests, for a device that stays plugged in (`OneByOne`): any clients, requests (`reset` and
`info` included), failed and refused exchanges, restarts, modes, capacities and either kind of port.

* `SinkIsTheSessions`: `SinkOfSession`;
* `CollectingReported`: `CollectingIsReported`;
* `StartsAreObeyed`: `StartNotSwallowed`;
* `RowsAreTheSessions`: `RowsOfOwnSession`;
* `RowsStayOnDisk`: `RowsSurvive`, if also every mode dumps and no two sessions have one path
  (`OwnPaths`).

The first four rest on `Sessions`, which says of a task that is not `Leaving`: one request is
served at a time (`Lone`); where in a connection the firmware may be verified (`Connected`); that
while a session's path is published nothing is on its way that would disconnect the task
(`InSession`); that a start finds the last session's end seen, the channel free of its commands
and the board silent (`Starts`); how sink, cell and the task's copy of the path relate (`Sinks`);
that a board that collects is claimed, or its `q` or its reset is on the way (`Reported`); that
the only run alive, in the channel, on the board or on the wire, is the session's (`OwnRun`); and
that the channel holds one start at most, and none while the board collects (`Lands`), which is
what `StartNotSwallowed` needs: a session's `q` has been obeyed, or a reset has stopped the
board, before the next start is queued. With two requests at a time this is false (section 3.3).
No part is inductive without the others: a run that outlives its session shows up as a wrong row
only two requests later. `OwnRows` extends `OwnRun` to the rows written. For `RowsSurvive`,
opening a file must not cut rows off: `Fresh` says that the file to be opened next is empty, and
so are those of the sessions to come, which nobody else holds. Every one of these invariants was
checked with TLC before it was proved, on a native port and on a bridge.

`SessionFiles_proofs` proves the refinement under the same two assumptions:

* `ImplementsSessionFiles`: `Spec => OneFilePerSession`.

`TaskOnDisk` says that a step of the task opens the session's file, adds a row of the session's
run to it, closes it, or leaves the disk alone; a publish begins the session and `None` ends it.
That these steps are enabled in `SessionFiles` needs three invariants more (`Prepared`).
`Untaken`: no file of a session to come exists, nor that of a session whose sink is not open yet,
so that `File::create` truncates nothing.  `Refused`: a start that is served while a sink is open
is one the claim refuses, so that no session begins over an open file; it holds also of a task
that leaves, to which `Orderly` no longer applies.  `GivenUp`: a task leaves only when its token
was cancelled.  The refinement includes `RowsSurvive` and more: a closed file stays as it is.

`Pipeline_proofs` proves, for any lines (of any length and content), clients, ring capacity, row
groups and bounds that satisfy `SinkAssumption`, `RingAssumption` and `FramerAssumption`:

* `TypeCorrect`: `Spec => []PipelineTypeOK`;
* `ChunksAreAligned`: `Spec => []FramesAligned`;
* `ReadableFilesComplete`: `Spec => []ReadableIsComplete`;
* `ClientsAreAccounted`: `Spec => []Accounted`;
* `ImplementsLossyStream`: `Spec => Lossy`, the refinement.

The inductive invariant adds four parts to the types and the properties.  `LineShape` says what
the line looks like: a tail follows its head, and a head that is the last piece is one the board
is in the middle of, or one that was cut off.  `BufferClean` says that the buffer holds no
delimiter before its end and does not begin with a tail unless the chunk will be dropped, which
is what carries `FramesAligned` over the interrupted reads; the arms that clear the buffer
restore it by setting `drop_next_chunk`.  `PublishedSent` keeps published chunks within the line,
so that sending more does not change them.  `SinkSound` says that what the open sink has written and
buffered is what was pushed, so that a flush that failed loses nothing.  `Cursors` orders start,
received positions, cursor and the end of what was published; with `Accounted` it gives each
delivery of the refinement its mark.

`IInvHolds` has a lemma per action of the task for the buffer and the chunks (`ReadStep`,
`ReadCutStep`, `LoopTopStep`, `LeaveStep`, `ArmStep`), one for the disk (`SyncSinkSound`,
`ConsumeStep`) and one for a client's step (`OneClient`, `ClientStep`); the refinement has one
lemma for the steps that publish (`Broadcasts`), one for those that do not (`Stutters`), and one
for the clients (`ClientRefines`).

`Fleet_proofs` proves, for any boards, ports, serial numbers, aliases and bounds that satisfy
`FleetAssumption`:

* `TypeCorrect`: `Spec => []FleetTypeOK`;
* `SingleOwner`: `Spec => []NoOrphan`;
* `PortsFollowBoards`: `Spec => MovesWithProof`, where USB serial numbers tell the boards apart;
* `CuresBeforeFault`: `Spec => FaultAfterCures`, on a steady bus, where every board or no
  native-USB one is mute;
* `AtMostOneRestart`: `RestartedOnce`, on a steady bus, as long as no task verifies a healthy board
  in the place of its own;
* `RestartsAreBounded`: `RestartedOnce`, on a steady bus, where every board or only bridges never
  verify.

`NoOrphan` is not inductive.  `IInv` adds that the registry points from an id to a handle with
that id (`RegistryOK`), that a handle not yet attached has no task (`UnbornOK`), and that between
the snapshot and the swap of a respawn the candidate and its old handle are still there
(`SwapOK`), so that `Respawn` cancels the very handle that `Attach` replaces.  `FleetTypeOK`,
which bounds the recorded restarts by one, needs `RestartsOnRecord`: a connection that may
still send its restart has none on record.  `MovesWithProof` needs `TrueSerials`, that candidates
and handles carry the serial number of their board.  The supervisor takes the least candidate
with `CHOOSE`; `FirstIsLeast` shows that there is one, from the well-founded order of the
naturals.

`RestartedOnce` spans the handles that a board has had, and fails in several ways (section 3.3);
the assumptions are what excludes them.  `Steady`: nobody moves a board, a rebooting one is back
before the debounce ends, and firmware verifies always or never.  `SerialsAreUnique`, and
`OwnIds`: boards on different ports have different ids, and the id of a native-USB board does not
depend on its port.  `NoHealthyStranger`, the hypothesis of `AtMostOneRestart`, is about what
happens on the bus: a task that was left with another board serves one that never verifies.
`RestartsAreBounded` derives it where all boards are mute (the fleet of `recovery`) or only
bridges, which never leave their port; with a mute native board and a healthy board it is false.
The invariant `OneRestart` follows the restart through a respawn: every handle of a restarted
board has it on record, its connection knows it (`OnRecord`), and so does the carry-over between
the snapshot and the swap (`CarriedOver`).  A restart is not sent twice because, before the first
one, a board stays where its only handle was attached (`Home`, `Single`), and because a
connection that may still restart or pulse reaches its handle's own board (`Connections`).  `Ids`
and `OnTime` keep the supervisor from attaching a second handle without the carry-over, and
`Confirmed` says that the second enumeration of a scan found what the first had.  Each
action has a lemma (`PlugKeeps` ... `RespawnKeeps`).

`CuresBeforeFault` rests on `OneRestart` too.  The rungs say only that a connection that gives up
has sent a restart or has one on record; that the record is of a restart of this very board, over
respawns and reconnections, is `OnRecord`, which therefore is an equivalence.

`Configure_proofs` proves, for any requests, presets, clients, chips, queue capacity and bounds
that satisfy `ConfigureAssumption`:

* `TypeCorrect`: `Spec => []ConfigureTypeOK`;
* `CacheMatchesBoard`: `Spec => []CacheAgrees`;
* `DriftIsCaused`: `Spec => []DriftHasCause`.

Two lemmas say what a request means, one `CASE` per kind of request: `RequestMeans`, that the
handler and the firmware give the same settings the same values, except for the channel of a
reset whose handler saw another chip; `RequestType`, that the cache gets values of its kinds.
The inductive invariant has two parts beyond types and the uniqueness of the request numbers
(`NumbersOK`).  `Values` says that a number stands for one command wherever it occurs: in the
queue, in a handler that has still to cache, on the board, in the cache.  `Order` says it for the
order of the requests: what was queued after, or is obeyed after, the command of a handler
that has still to cache has crossed it (`QueueCrosses`, `BoardCrosses`); the cache has a setting
from the request the board obeyed, or the board will still obey the cache's, or a handler will
still cache the board's, or the two crossed (`CacheBehind`), and the same of what the board is
going to obey (`CacheAhead`).  A write turns `CacheAhead` into `CacheBehind` and `QueueCrosses`
into `BoardCrosses`; caching turns `QueueCrosses` into `CacheAhead` and `BoardCrosses` into
`CacheBehind`; at rest only `CacheBehind` is left, and it is `DriftHasCause`.  Each handler's and
each task's step has a lemma (`ArriveKeeps` ... `EndKeeps`).  A board that starts anew takes every
setting out of the order: what was taken before is spoilt, and what is still queued is ahead of
every request the board knows (`BootKeeps`); a board of another chip means other values by the
same command only in its channel (`EffectByChip`).  `IInv` was checked with TLC on the instance of
`configure` before it was proved.

`Decoding_proofs` proves, for every chip, firmware generation, form, transmitter and length of a
session:

* `TypeCorrect`: `Spec => []DecodingTypeOK`;
* `CodesAgree`: `Spec => []CodeAgrees`;
* `RowsHoldWholeFrames`: `Spec => []RowsAreWhole`;
* `MixedFleetsDecode`: `Spec => []MixedFleetDecodes`.

The invariant is that the host reads back what the board wrote.  `LineInv`: what is on the line
is a frame as written (`Written`), or one that lacks its end or the count it claims
(`Unreadable`).  `RowsInv`: each row is `ReadBack` of its frame's measurement, or the packet that
never was (`Faithful`).  `RefusedInv`: only a newer firmware's frames are refused.  One lemma per
reader (the current frame, the old packet, the array-list line) says what it makes of a frame
that its own writer, or another generation's, has written; the properties are then facts about
`ReadBack` alone.  The assumption `FieldsAssumption` of `Decoding`, that a buffer's fields
count at most the 612 bytes of the longest buffer, for every chip and reception, is a closed
formula: the count is a fold over the table of fields, which the provers do not compute and
TLC evaluates in `decode`.

Only model-checked:

* every liveness property, and whatever needs ENABLED: `RequestsReturn`, `SessionCloses`,
  `VerifiesAgain`, `SocketsClose`, `Converges`, `MuteIsFaulted`;
* `SubcarriersTrue`, which is about the folds over the table of fields; a board sends finitely
  many shapes, and `decode` goes through all of them.

## 5. Not modelled

* The text of the `info` block and of boot banners (`parse_info_block`, `detect_boot_fault`): an
  exchange succeeds, fails softly or hard, or recognises a boot fault.
* `wire/setup.rs` and `wire/synthetic.rs`, which the server does not call, and the encoders of
  `wire/mod.rs`, which run on the device.
* The Arrow schema and the conversion to columns of `parquet_sink.rs`; a profile's column labels.
* `routes/devices.rs`, `server.rs`, `lib.rs`: formatting and wiring without state of their own.
* Devices that an embedder drives itself (`spawn_external_device`).
* In the supervisor: the `CSI_SERIAL_PORT` override, the choice of the only USB port, failing
  enumerations.

## 6. Plan

Done: one device (2.1) with the files of its sessions as its abstract specification, the fleet
(2.2), the line and its consumers (2.3) with the lossy stream as theirs, configuration (2.4),
decoding (2.5), and the proofs of section 4.

Left, in this order:

1. The boot-fault classifier and the parser of the `info` block as operators.
2. An abstract specification of the registry (one live task per board), with `Fleet` shown to
   implement it.
