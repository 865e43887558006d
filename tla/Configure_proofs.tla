------------------------ MODULE Configure_proofs ------------------------
(***************************************************************************)
(* Proofs about Configure: the cache and the board agree, whatever the     *)
(* requests and however their handlers interleave.                         *)
(***************************************************************************)
EXTENDS Configure, Integers, TLAPS

Positions == 1..Len(cmd_ch)

\* A handler that has queued its command has still to write the cache.
Pending(c) == job[c].at \in {"read_reset_chip", "cache"}

\* One that has yet to queue it.
Waiting(c) == job[c].at \in {"read_chip", "check_link", "check_verified", "send"}

\* What a handler may have read of the chip.
Known == {"none"} \cup Chips

Job == [at : Steps, req : Requests \cup {Idle.req}, chip : Known, number : 0..MaxRequests]

Lines     == {Line(r, d, n) : r \in Requests, d \in Known, n \in 1..MaxRequests}
LineOf(c) == Line(job[c].req, job[c].chip, job[c].number)

StateOK ==
    /\ job \in [Clients -> Job] /\ cmd_ch \in Seq(Lines) /\ Len(cmd_ch) <= CmdCap
    /\ asked \in 0..MaxRequests /\ chip \in Chips /\ device_info \in {"none", chip}
    /\ DOMAIN cachedBy = DOMAIN config /\ DOMAIN obeyedBy = DOMAIN board
    /\ DOMAIN board \cap Uncached = {}

\* What a handler that is under way holds.
JobOK(c) ==
    /\ ~At(c, "idle") => job[c].number \in 1..asked /\ job[c].req \in Requests
    /\ (Waiting(c) /\ ~At(c, "read_chip")) \/ Pending(c) => Accepts(job[c].req)
    /\ Pending(c) => job[c].req.route # "stats"
    /\ At(c, "read_reset_chip") => job[c].req.route = "reset"
    /\ At(c, "cache") /\ job[c].req.route = "reset" => job[c].chip = chip \/ job[c].number \in blind

JobsOK == \A c \in Clients : JobOK(c)

\* Numbers are given once: the cache has none of a handler that is under way, nor the
\* channel or the board of one that has yet to queue its command.
Unsent(n)   == /\ \A i \in Positions : cmd_ch[i].from # n
               /\ \A k \in DOMAIN obeyedBy : obeyedBy[k] # n
Uncaching(n) == \A k \in DOMAIN cachedBy : cachedBy[k] # n

NumbersOK ==
    /\ \A i \in Positions : cmd_ch[i].from \in 0..asked
    /\ \A k \in DOMAIN cachedBy : cachedBy[k] \in 1..asked
    /\ \A k \in DOMAIN obeyedBy : obeyedBy[k] \in 0..asked
    /\ \A c, d \in Clients : c # d /\ ~At(c, "idle") /\ ~At(d, "idle") => job[c].number # job[d].number
    /\ \A c \in Clients : ~At(c, "idle") => Uncaching(job[c].number)
    /\ \A c \in Clients : Waiting(c) => Unsent(job[c].number)

\* The kinds of the values (ConfigureTypeOK).
Typed(k, v) ==
    /\ k \in Numbers \cup Gates => v \in Nat
    /\ k = "ht40" => v \in {"above", "below", "none"}
    /\ k = "protocol" => v \in Protocols \cup ExtraProtocols
    /\ k = "mode" => v \in WifiModes \cup ExtraModes
CacheTypeOK == \A k \in DOMAIN config : Typed(k, config[k])

-----------------------------------------------------------------------------
(* Values: wherever a number occurs it stands for one command. *)

Blind(k, n) == k = "channel" /\ n \in blind

QueueMatchesJobs ==
    \A c \in Clients : Pending(c) =>
        \A i \in Positions : cmd_ch[i].from = job[c].number => cmd_ch[i] = LineOf(c)

BoardMatchesJobs ==
    \A c \in Clients : Pending(c) =>
        \A k \in DOMAIN board : obeyedBy[k] = job[c].number =>
            k \in DOMAIN Effect(LineOf(c), chip) /\ board[k] = Effect(LineOf(c), chip)[k]

CacheMatchesQueue ==
    \A i \in Positions : \A k \in DOMAIN config \ Uncached :
        cachedBy[k] = cmd_ch[i].from =>
            /\ k \in DOMAIN Effect(cmd_ch[i], chip)
            /\ ~Blind(k, cachedBy[k]) => config[k] = Effect(cmd_ch[i], chip)[k]

-----------------------------------------------------------------------------
(* Order: requests that did not cross reach the board and the cache alike. *)

Queued(n) == \E i \in Positions : cmd_ch[i].from = n
QueuedAfter(n, i) == \E l \in Positions : l > i /\ cmd_ch[l].from = n
Spoilt(n) == n \in lost \cup locked \cup wiped
StillCaches(n) == \E c \in Clients : Pending(c) /\ job[c].number = n

\* What was queued after a handler's command, while it has still to cache, crossed it;
QueueCrosses ==
    \A c \in Clients : Pending(c) => \A i \in Positions :
        \/ cmd_ch[i].from = job[c].number \/ {job[c].number, cmd_ch[i].from} \in crossed
        \/ QueuedAfter(job[c].number, i)

\* so did what the board obeyed after it.
BoardCrosses ==
    \A c \in Clients : Pending(c) => \A k \in DOMAIN board \cap DOMAIN Effect(LineOf(c), chip) :
        \/ obeyedBy[k] = job[c].number \/ {job[c].number, obeyedBy[k]} \in crossed
        \/ Spoilt(job[c].number) \/ Queued(job[c].number)

\* The cache has a setting from the request that the board last obeyed, or the board is
\* still to obey the cache's, or a handler is still to cache the board's.
CacheBehind ==
    \A k \in DOMAIN config \cap DOMAIN board :
        \/ cachedBy[k] = obeyedBy[k] \/ {cachedBy[k], obeyedBy[k]} \in crossed
        \/ Spoilt(cachedBy[k]) \/ Queued(cachedBy[k]) \/ StillCaches(obeyedBy[k])

\* The same of what the board is going to obey.
CacheAhead ==
    \A i \in Positions : \A k \in (DOMAIN config \cap DOMAIN Effect(cmd_ch[i], chip)) \ Uncached :
        \/ cachedBy[k] = cmd_ch[i].from \/ {cachedBy[k], cmd_ch[i].from} \in crossed
        \/ Spoilt(cachedBy[k]) \/ QueuedAfter(cachedBy[k], i) \/ StillCaches(cmd_ch[i].from)

Values == QueueMatchesJobs /\ BoardMatchesJobs /\ CacheMatchesQueue /\ CacheAgrees
Order  == QueueCrosses /\ BoardCrosses /\ CacheBehind /\ CacheAhead

IInv == StateOK /\ JobsOK /\ NumbersOK /\ CacheTypeOK /\ Values /\ Order

-----------------------------------------------------------------------------
(***************************************************************************)
(* What a request means to the cache and to the board.                     *)
(***************************************************************************)
\* The CSI section of the firmware's defaults.
LEMMA CsiDefaultsType ==
  /\ DOMAIN CsiDefaults \subseteq CsiSettings
  /\ \A f \in DOMAIN CsiDefaults \cap Gates : CsiDefaults[f] \in Nat
BY DEF CsiDefaults, Gates

\* The CSI settings are apart from the others.
LEMMA CsiApart ==
  /\ CsiSettings \cap (Uncached \cup Numbers \cup {"ht40", "protocol", "mode"}) = {}
  /\ Gates \subseteq CsiSettings
BY DEF CsiSettings, CsiFlags, Uncached, Numbers, Gates

\* The firmware's defaults differ between chips in the channel alone.
LEMMA DefaultsByChip ==
  ASSUME NEW c, NEW d
  PROVE  /\ DOMAIN FirmwareDefaults(c) = DOMAIN FirmwareDefaults(d)
         /\ DOMAIN FirmwareDefaults(c) \cap Uncached = {}
         /\ \A k \in DOMAIN FirmwareDefaults(c) :
               k # "channel" => FirmwareDefaults(c)[k] = FirmwareDefaults(d)[k]
<1>1. DOMAIN PlainDefaults \cap Uncached = {} /\ "channel" \notin Uncached
  BY DEF PlainDefaults, Uncached
<1> QED BY <1>1, CsiDefaultsType, CsiApart DEF FirmwareDefaults, SharedDefaults, ++

\* They are of the cache's types.
LEMMA DefaultsType ==
  ASSUME NEW c
  PROVE  /\ \A k \in DOMAIN FirmwareDefaults(c) \cap (Numbers \cup Gates) :
               FirmwareDefaults(c)[k] \in Nat
         /\ FirmwareDefaults(c)["ht40"] = "none" /\ FirmwareDefaults(c)["protocol"] = "lr"
         /\ FirmwareDefaults(c)["mode"] = "sniffer"
<1>1. DefaultChannel(c) \in Nat
  BY DEF DefaultChannel
<1>2. /\ {"ap_leases", "periodicity_hz", "ht40", "protocol", "mode"} \subseteq DOMAIN PlainDefaults
      /\ PlainDefaults["ap_leases"] = 4 /\ PlainDefaults["periodicity_hz"] = 100
      /\ PlainDefaults["ht40"] = "none" /\ PlainDefaults["protocol"] = "lr"
      /\ PlainDefaults["mode"] = "sniffer"
  BY DEF PlainDefaults
<1>3. DOMAIN PlainDefaults \cap Gates = {} /\ "channel" \notin Gates
  BY DEF PlainDefaults, Gates
<1>4. /\ FirmwareDefaults(c)["ht40"] = "none" /\ FirmwareDefaults(c)["protocol"] = "lr"
      /\ FirmwareDefaults(c)["mode"] = "sniffer"
  BY <1>2 DEF FirmwareDefaults, SharedDefaults, ++
<1>5. ASSUME NEW k \in DOMAIN FirmwareDefaults(c) \cap Gates PROVE FirmwareDefaults(c)[k] \in Nat
  BY <1>3, CsiDefaultsType DEF FirmwareDefaults, SharedDefaults, ++
<1>6. ASSUME NEW k \in Numbers PROVE FirmwareDefaults(c)[k] \in Nat
  BY <1>1, <1>2 DEF FirmwareDefaults, SharedDefaults, Numbers, ++
<1> QED BY <1>4, <1>5, <1>6

\* The handler's spelling of a value is the firmware's.
LEMMA SameSpelling ==
  ASSUME NEW k, NEW v, k # "protocol" \/ Lower(v) = v
  PROVE  Normal(k, v) = Stored(k, v)
BY DEF Normal, Stored, Gates

LEMMA LowerTwice == ASSUME NEW p PROVE Lower(Lower(p)) = Lower(p)
BY DEF Lower

\* The flags of a request that is neither a reset nor a preset.
LEMMA PlainFlags ==
  ASSUME NEW r \in Requests, NEW d, r.route \notin {"reset", "stats"},
         ~(r.route = "csi" /\ "preset" \in DOMAIN r.body)
  PROVE  /\ "preset" \notin DOMAIN Flags(r, d)
         /\ \A k \in DOMAIN Flags(r, d) :
               Normal(k, Flags(r, d)[k]) = Stored(k, Flags(r, d)[k])
         /\ Sets(r, d) = DOMAIN Noted(Flags(r, d))
<1> DEFINE body == r.body
           f == Flags(r, d)
<1>1. Parses(r)
  BY ConfigureAssumption
<1>2. Sets(r, d) = DOMAIN Noted(f)
  BY DEF Sets
<1>3. CASE r.route = "protocol"
  <2>1. f = [protocol |-> Lower(body.protocol)]
    BY <1>3 DEF Flags
  <2>2. DOMAIN f = {"protocol"} /\ f["protocol"] = Lower(body.protocol)
    BY <2>1
  <2> QED BY <1>2, <2>2, LowerTwice, SameSpelling
<1>4. CASE r.route # "protocol"
  <2>1. "preset" \notin DOMAIN body /\ "protocol" \notin DOMAIN body
    BY <1>1, <1>4 DEF Parses, Fields, Routes, CsiFlags
  <2>2. DOMAIN f \subseteq DOMAIN body \cup {"channel"}
    BY <1>4 DEF Flags, ++
  <2> QED BY <1>2, <2>1, <2>2, SameSpelling
<1> QED BY <1>3, <1>4

\* Of these the cache keeps what it was, or takes the noted flag.
TakesFlags(new, noted, old) ==
    /\ DOMAIN new = DOMAIN noted \cup DOMAIN old
    /\ \A k \in DOMAIN noted : new[k] = noted[k]
    /\ \A k \in DOMAIN old \ DOMAIN noted : new[k] = old[k]

LEMMA PlainCached ==
  ASSUME NEW r \in Requests, NEW d, NEW old, r.route \notin {"reset", "stats"},
         ~(r.route = "csi" /\ "preset" \in DOMAIN r.body)
  PROVE  TakesFlags(Cached(old, r, d), Noted(Flags(r, d)), old)
<1> DEFINE body == r.body
           f == Flags(r, d)
           new == Cached(old, r, d)
<1> USE DEF TakesFlags
<1>1. Parses(r)
  BY ConfigureAssumption
<1>2. CASE r.route = "wifi"
  <2>1. new = CachedWifi(old, body, d)
    BY <1>2 DEF Cached
  <2>2. CASE body.mode = "station"
    <3>1. f = body
      BY <1>2, <2>2 DEF Flags
    <3>2. new = Noted(body) ++ old
      BY <2>1, <2>2 DEF CachedWifi
    <3> QED BY <3>1, <3>2 DEF ++
  <2>3. CASE body.mode # "station"
    <3> DEFINE channel == [channel |-> DefaultChannel(d)]
    <3>1. f = body ++ channel
      BY <1>2, <2>3 DEF Flags
    <3>2. new = Noted(body) ++ channel ++ old
      BY <2>1, <2>3 DEF CachedWifi
    <3>3. "channel" \notin Uncached /\ \A v : Normal("channel", v) = v
      BY DEF Uncached, Normal, Gates
    <3>4. DOMAIN Noted(f) = DOMAIN Noted(body) \cup {"channel"}
      BY <3>1, <3>3 DEF Noted, ++
    <3>5. \A k \in DOMAIN Noted(f) : Noted(f)[k] = (Noted(body) ++ channel)[k]
      BY <3>1, <3>3, <3>4 DEF Noted, ++
    <3> DEFINE noted == Noted(body) ++ channel
    <3>6. DOMAIN noted = DOMAIN Noted(f) /\ \A k \in DOMAIN Noted(f) : Noted(f)[k] = noted[k]
      BY <3>4, <3>5 DEF ++
    <3>7. new = noted ++ old
      BY <3>2
    <3> HIDE DEF noted
    <3> QED BY <3>6, <3>7 DEF ++
  <2> QED BY <2>2, <2>3
<1>3. CASE r.route = "protocol"
  <2>1. f = [protocol |-> Lower(body.protocol)] /\ new = Noted(body) ++ old
    BY <1>3 DEF Flags, Cached
  <2>2. DOMAIN body = {"protocol"}
    BY <1>1, <1>3 DEF Parses, Required, Fields
  <2>3. DOMAIN Noted(f) = DOMAIN Noted(body)
    BY <2>1, <2>2 DEF Noted
  <2>4. \A v : Normal("protocol", v) = Lower(v)
    BY DEF Normal, Gates
  <2>5. ASSUME NEW k \in DOMAIN Noted(f) PROVE Noted(f)[k] = Noted(body)[k]
    <3>1. k = "protocol" /\ Noted(f)[k] = Normal(k, f[k]) /\ Noted(body)[k] = Normal(k, body[k])
      BY <2>1, <2>2, <2>3 DEF Noted
    <3>2. f["protocol"] = Lower(body["protocol"])
      BY <2>1
    <3> QED BY <2>4, <3>1, <3>2, LowerTwice
  <2> QED BY <2>1, <2>3, <2>5 DEF ++
<1>4. CASE r.route \notin {"wifi", "protocol"}
  <2>1. f = body
    BY <1>4 DEF Flags
  <2>2. new = Noted(body) ++ old
    BY <1>4 DEF Cached, CachedCsi
  <2> QED BY <2>1, <2>2 DEF ++
<1> QED BY <1>2, <1>3, <1>4

\* A request leaves the same settings with the same values in the cache and on the board,
\* except that a reset may take the channel of another chip.
Means(new, effect, set, old, r, d, b) ==
    /\ set \subseteq DOMAIN new /\ DOMAIN effect \ Uncached = set
    /\ \A k \in DOMAIN new \ set : k \in DOMAIN old /\ new[k] = old[k]
    /\ \A k \in set : (r.route = "reset" => k # "channel" \/ d = b) => new[k] = effect[k]

LEMMA RequestMeans ==
  ASSUME NEW r \in Requests, NEW d, NEW b, NEW n, NEW old, Accepts(r), r.route # "stats"
  PROVE  Means(Cached(old, r, d), Effect(Line(r, d, n), b), Sets(r, d), old, r, d, b)
<1> DEFINE f == Flags(r, d)
           effect == Effect(Line(r, d, n), b)
           new == Cached(old, r, d)
           set == Sets(r, d)
<1> USE DEF Means
<1>1. Line(r, d, n).route = r.route /\ Line(r, d, n).flags = f
  BY DEF Line
<1>2. CASE r.route = "reset"
  <2>1. effect = FirmwareDefaults(b) /\ new = FirmwareDefaults(d)
    BY <1>1, <1>2 DEF Effect, Cached
  <2>2. set = DOMAIN FirmwareDefaults(d)
    BY <1>2 DEF Sets
  <2>3. /\ DOMAIN effect = set /\ set \cap Uncached = {}
        /\ \A k \in set : k # "channel" => new[k] = effect[k]
    BY <2>1, <2>2, DefaultsByChip
  <2>4. d = b => new = effect
    BY <2>1
  <2> HIDE DEF new, effect, set
  <2>5. DOMAIN new = set
    BY <2>1, <2>2
  <2> QED BY <1>2, <2>3, <2>4, <2>5 DEF new, effect, set
<1>3. CASE r.route = "csi" /\ "preset" \in DOMAIN r.body
  <2> DEFINE section == Section(r.body.preset)
  <2>1. f = [preset |-> r.body.preset]
    BY <1>3 DEF Flags
  <2>2. r.body.preset \in {"default"} \cup DOMAIN Presets
    BY <1>3 DEF Accepts, Among
  <2>3. effect = section
    BY <1>1, <1>3, <2>1, <2>2, ConfigureAssumption DEF Effect, Section
  <2>4. new = section ++ Without(old, CsiSettings)
    BY <1>3 DEF Cached, CachedCsi
  <2>5. set = DOMAIN section
    BY <1>3 DEF Sets
  <2>6. DOMAIN section \cap Uncached = {}
    BY <2>2, ConfigureAssumption, CsiDefaultsType, CsiApart DEF Section
  <2> HIDE DEF section, effect, new, set
  <2>7. /\ DOMAIN new = DOMAIN section \cup (DOMAIN old \ CsiSettings)
        /\ \A k \in DOMAIN section : new[k] = section[k]
        /\ \A k \in DOMAIN new \ DOMAIN section : new[k] = old[k]
    BY <2>4 DEF ++, Without
  <2> QED BY <1>3, <2>3, <2>5, <2>6, <2>7 DEF effect, new, set
<1>4. CASE r.route # "reset" /\ ~(r.route = "csi" /\ "preset" \in DOMAIN r.body)
  <2>1. /\ "preset" \notin DOMAIN f /\ set = DOMAIN Noted(f)
        /\ \A k \in DOMAIN f : Normal(k, f[k]) = Stored(k, f[k])
    BY <1>4, PlainFlags
  <2>2. TakesFlags(new, Noted(f), old)
    BY <1>4, PlainCached
  <2>3. effect = [k \in DOMAIN f |-> Stored(k, f[k])]
    BY <1>1, <1>4, <2>1 DEF Effect
  <2>4. Noted(f) = [k \in DOMAIN f \ Uncached |-> Normal(k, f[k])]
    BY DEF Noted
  <2> HIDE DEF f, effect, new, set
  <2>5. DOMAIN effect \ Uncached = set /\ \A k \in set : new[k] = effect[k]
    BY <2>1, <2>2, <2>3, <2>4 DEF TakesFlags
  <2> QED BY <2>1, <2>2, <2>5 DEF TakesFlags, f, effect, new, set
<1> QED BY <1>2, <1>3, <1>4

\* The values it leaves are of the cache's types.
LEMMA RequestType ==
  ASSUME CacheTypeOK, NEW r \in Requests, Accepts(r), r.route # "stats", NEW d
  PROVE  \A k \in DOMAIN Cached(config, r, d) : Typed(k, Cached(config, r, d)[k])
<1> DEFINE f == Flags(r, d)
           new == Cached(config, r, d)
           set == Sets(r, d)
<1> USE DEF Typed
<1>1. \A k \in DOMAIN new \ set : k \in DOMAIN config /\ new[k] = config[k]
  <2>1. Means(new, Effect(Line(r, d, 0), chip), set, config, r, d, chip)
    BY RequestMeans
  <2> QED BY <2>1 DEF Means
<1>2. ASSUME NEW k \in set PROVE Typed(k, new[k])
  <2>1. CASE r.route = "reset"
    <3>1. new = FirmwareDefaults(d) /\ set = DOMAIN FirmwareDefaults(d)
      BY <2>1 DEF Cached, Sets
    <3>2. k \in DOMAIN FirmwareDefaults(d) /\ new[k] = FirmwareDefaults(d)[k]
      BY <1>2, <3>1
    <3> HIDE DEF new, set
    <3> QED BY <3>2, DefaultsType DEF Protocols, WifiModes
  <2>2. CASE r.route = "csi" /\ "preset" \in DOMAIN r.body
    <3> DEFINE section == Section(r.body.preset)
    <3>1. new = section ++ Without(config, CsiSettings) /\ set = DOMAIN section
      BY <2>2 DEF Cached, CachedCsi, Sets
    <3>2. k \in CsiSettings /\ (k \in Gates => section[k] \in Nat)
      BY <1>2, <3>1, ConfigureAssumption, CsiDefaultsType DEF Section
    <3>3. new[k] = section[k]
      BY <1>2, <3>1 DEF ++
    <3> HIDE DEF new, section
    <3> QED BY <3>2, <3>3, CsiApart
  <2>3. CASE r.route # "reset" /\ ~(r.route = "csi" /\ "preset" \in DOMAIN r.body)
    <3>1. k \in DOMAIN f \ Uncached /\ new[k] = Normal(k, f[k])
      <4>1. set = DOMAIN Noted(f)
        BY <2>3, PlainFlags
      <4>2. TakesFlags(new, Noted(f), config)
        BY <2>3, PlainCached
      <4>3. Noted(f) = [x \in DOMAIN f \ Uncached |-> Normal(x, f[x])]
        BY DEF Noted
      <4> HIDE DEF f, new, set
      <4> QED BY <1>2, <4>1, <4>2, <4>3 DEF TakesFlags
    <3>2. Parses(r)
      BY ConfigureAssumption
    <3>3. CASE k \in Gates
      BY <3>1, <3>3, CsiApart DEF Normal, Gates
    <3>4. CASE k \in Numbers
      <4>1. f[k] \in Nat
        <5>1. \A x : DefaultChannel(x) \in Nat
          BY DEF DefaultChannel
        <5> QED BY <3>1, <3>2, <3>4, <5>1 DEF Parses, Flags, Numbers, ++
      <4> QED BY <3>1, <3>4, <4>1 DEF Normal, Numbers, Gates
    <3>5. CASE k \in {"ht40", "mode"}
      <4>1. r.route = "wifi" /\ k \in DOMAIN r.body /\ f[k] = r.body[k]
        BY <3>1, <3>2, <3>5 DEF Parses, Routes, Fields, CsiFlags, Flags, ++
      <4>2. AcceptsWifi(r.body)
        BY <4>1 DEF Accepts
      <4> QED BY <3>1, <3>5, <4>1, <4>2 DEF AcceptsWifi, Among, Normal, Gates, Numbers
    <3>6. CASE k = "protocol"
      <4>1. r.route = "protocol"
        BY <3>1, <3>2, <3>6 DEF Parses, Routes, Fields, CsiFlags, Flags, ++
      <4>2. f[k] = Lower(r.body.protocol) /\ f[k] \in Protocols \cup ExtraProtocols
        BY <3>6, <4>1 DEF Flags, Accepts
      <4> QED BY <3>1, <3>6, <4>2, LowerTwice DEF Normal, Gates, Numbers
    <3> QED BY <3>3, <3>4, <3>5, <3>6
  <2> QED BY <2>1, <2>2, <2>3
<1> QED BY <1>1, <1>2 DEF CacheTypeOK

-----------------------------------------------------------------------------
(***************************************************************************)
(* The steps of a handler that touch neither the channel nor the cache.    *)
(***************************************************************************)
LEMMA GoMeans ==
  ASSUME StateOK, NEW c \in Clients, NEW step \in Steps, Go(c, step)
  PROVE  /\ job' \in [Clients -> Job] /\ \A d \in Clients \ {c} : job'[d] = job[d]
         /\ step = "idle" => job'[c].at = "idle"
         /\ step # "idle" => /\ job'[c].at = step /\ job'[c].req = job[c].req
                            /\ job'[c].chip = job[c].chip /\ job'[c].number = job[c].number
<1>1. Idle \in Job
  <2>1. "idle" \in Steps /\ 0 \in 0..MaxRequests
    BY ConfigureAssumption DEF Steps
  <2>2. Idle = [at |-> "idle", req |-> Idle.req, chip |-> "none", number |-> 0]
    BY DEF Idle
  <2> HIDE DEF Idle
  <2> QED BY <2>1, <2>2 DEF Job, Known
<1>2. Idle.at = "idle"
  BY DEF Idle
<1>3. job[c] \in Job
  BY DEF StateOK
<1>4. job' = [job EXCEPT ![c] = IF step = "idle" THEN Idle ELSE [@ EXCEPT !.at = step]]
  BY DEF Go
<1>5. [job[c] EXCEPT !.at = step] \in Job
  BY <1>3 DEF Job, Known
<1> QED BY <1>1, <1>2, <1>3, <1>4, <1>5 DEF StateOK, Job, Known

LEMMA LearnsMeans ==
  ASSUME StateOK, NEW c \in Clients, NEW step \in Steps, Learns(c, step)
  PROVE  /\ job' \in [Clients -> Job] /\ \A d \in Clients \ {c} : job'[d] = job[d]
         /\ job'[c].at = step /\ job'[c].req = job[c].req
         /\ job'[c].chip = device_info /\ job'[c].number = job[c].number
BY DEF StateOK, Learns, Job, Known

\* A step that leaves the channel, the cache, the board and the handlers that are still
\* to cache alone keeps the values and the order.
LEMMA Bystander ==
  ASSUME Values, Order,
         UNCHANGED <<config, chip, board, cmd_ch, cachedBy, obeyedBy, crossed, locked, wiped>>,
         lost \subseteq lost', blind \subseteq blind',
         \A d \in Clients : Pending(d)' <=> Pending(d),
         \A d \in Clients : Pending(d) => /\ job'[d].number = job[d].number
                                         /\ LineOf(d)' = LineOf(d)
  PROVE  Values' /\ Order'
<1>1. QueueMatchesJobs' /\ BoardMatchesJobs'
  BY DEF Values, QueueMatchesJobs, BoardMatchesJobs, Positions
<1>2. CacheMatchesQueue' /\ CacheAgrees'
  BY DEF Values, CacheMatchesQueue, CacheAgrees, Positions, Blind
<1>3. /\ Positions' = Positions
      /\ \A n : Queued(n)' <=> Queued(n)
      /\ \A n, i : QueuedAfter(n, i)' <=> QueuedAfter(n, i)
      /\ \A n : Spoilt(n) => Spoilt(n)'
      /\ \A n : StillCaches(n) => StillCaches(n)'
  BY DEF Positions, Queued, QueuedAfter, Spoilt, StillCaches
<1>4. QueueCrosses'
  BY <1>3 DEF Order, QueueCrosses
<1>5. BoardCrosses'
  BY <1>3 DEF Order, BoardCrosses
<1>6. CacheBehind'
  BY <1>3 DEF Order, CacheBehind
<1>7. CacheAhead'
  BY <1>3 DEF Order, CacheAhead
<1> QED BY <1>1, <1>2, <1>4, <1>5, <1>6, <1>7 DEF Values, Order

-----------------------------------------------------------------------------
(***************************************************************************)
(* The channel: a command is queued behind the others, or taken off.       *)
(***************************************************************************)
\* The commands behind the first move up by one.
LEMMA Popped ==
  ASSUME StateOK, cmd_ch # <<>>, cmd_ch' = Tail(cmd_ch)
  PROVE  /\ 1 \in Positions /\ Head(cmd_ch) = cmd_ch[1] /\ Positions \subseteq Int
         /\ cmd_ch' \in Seq(Lines) /\ Len(cmd_ch') <= CmdCap
         /\ \A i \in Positions' : i + 1 \in Positions /\ cmd_ch'[i] = cmd_ch[i + 1]
         /\ \A n : Queued(n) => Queued(n)' \/ n = cmd_ch[1].from
         /\ \A n : QueuedAfter(n, 1) => Queued(n)'
         /\ \A n : \A i \in Positions' : QueuedAfter(n, i + 1) => QueuedAfter(n, i)'
<1>1. /\ cmd_ch \in Seq(Lines) /\ Len(cmd_ch) \in Nat \ {0} /\ Len(cmd_ch') = Len(cmd_ch) - 1
      /\ cmd_ch' \in Seq(Lines) /\ Len(cmd_ch) <= CmdCap
  BY DEF StateOK
<1>2. Len(cmd_ch') <= CmdCap
  BY <1>1, ConfigureAssumption
<1>3. Positions' = 1..(Len(cmd_ch) - 1)
  BY <1>1 DEF Positions
<1>4. \A i \in Positions' : i + 1 \in Positions /\ cmd_ch'[i] = cmd_ch[i + 1]
  BY <1>1, <1>3 DEF Positions
<1>5. ASSUME NEW i \in Positions, i > 1 PROVE i - 1 \in Positions' /\ cmd_ch'[i - 1] = cmd_ch[i]
  <2>1. i \in Nat /\ i <= Len(cmd_ch) /\ i - 1 \in Positions' /\ (i - 1) + 1 = i
    BY <1>1, <1>3, <1>5 DEF Positions
  <2> QED BY <1>4, <2>1
<1>6. 1 \in Positions /\ Head(cmd_ch) = cmd_ch[1] /\ Positions \subseteq Int
  BY <1>1 DEF Positions
<1>7. ASSUME NEW n, QueuedAfter(n, 1) PROVE Queued(n)'
  BY <1>5, <1>7 DEF QueuedAfter, Queued
<1>8. ASSUME NEW n, Queued(n) PROVE Queued(n)' \/ n = cmd_ch[1].from
  <2>1. PICK l \in Positions : cmd_ch[l].from = n
    BY <1>8 DEF Queued
  <2>2. CASE l = 1
    BY <2>1, <2>2
  <2>3. CASE l > 1
    BY <1>5, <2>1, <2>3 DEF Queued
  <2> QED BY <1>1, <2>2, <2>3 DEF Positions
<1>9. ASSUME NEW n, NEW i \in Positions', QueuedAfter(n, i + 1) PROVE QueuedAfter(n, i)'
  <2>1. PICK l \in Positions : l > i + 1 /\ cmd_ch[l].from = n
    BY <1>9 DEF QueuedAfter
  <2>2. i \in Nat /\ l \in Nat /\ i > 0
    BY <1>3, <2>1 DEF Positions
  <2>3. l > 1 /\ l - 1 > i
    BY <2>1, <2>2
  <2>4. l - 1 \in Positions' /\ cmd_ch'[l - 1] = cmd_ch[l]
    BY <1>5, <2>3
  <2> QED BY <2>1, <2>3, <2>4 DEF QueuedAfter
<1> QED BY <1>1, <1>2, <1>4, <1>6, <1>7, <1>8, <1>9

\* The commands in front of the new one stay where they are.
LEMMA Appended ==
  ASSUME StateOK, Len(cmd_ch) < CmdCap, NEW line \in Lines, cmd_ch' = Append(cmd_ch, line)
  PROVE  /\ cmd_ch' \in Seq(Lines) /\ Len(cmd_ch') <= CmdCap
         /\ Len(cmd_ch) + 1 \in Positions' /\ cmd_ch'[Len(cmd_ch) + 1] = line
         /\ \A i \in Positions : i \in Positions' /\ cmd_ch'[i] = cmd_ch[i] /\ i < Len(cmd_ch) + 1
         /\ \A i \in Positions' : i \in Positions \/ i = Len(cmd_ch) + 1
         /\ \A n : Queued(n) => Queued(n)'
         /\ \A n, i : QueuedAfter(n, i) => QueuedAfter(n, i)'
<1> DEFINE last == Len(cmd_ch) + 1
<1>1. /\ cmd_ch \in Seq(Lines) /\ Len(cmd_ch) \in Nat /\ Len(cmd_ch') = last
      /\ cmd_ch' \in Seq(Lines) /\ CmdCap \in Nat
  BY ConfigureAssumption DEF StateOK
<1>2. Positions' = 1..last /\ Positions = 1..Len(cmd_ch)
  BY <1>1 DEF Positions
<1>3. last \in Positions' /\ cmd_ch'[last] = line
  BY <1>1, <1>2
<1>4. \A i \in Positions : i \in Positions' /\ cmd_ch'[i] = cmd_ch[i] /\ i < last
  BY <1>1, <1>2
<1>5. \A i \in Positions' : i \in Positions \/ i = last
  BY <1>1, <1>2
<1>6. /\ \A n : Queued(n) => Queued(n)'
      /\ \A n, i : QueuedAfter(n, i) => QueuedAfter(n, i)'
  BY <1>4 DEF Queued, QueuedAfter
<1>7. Len(cmd_ch') <= CmdCap
  BY <1>1
<1> QED BY <1>1, <1>3, <1>4, <1>5, <1>6, <1>7

\* Of what speaks of the channel nothing is lost when its first command is taken off.
LEMMA TakenOff ==
  ASSUME StateOK, Values, Order, cmd_ch # <<>>, cmd_ch' = Tail(cmd_ch),
         UNCHANGED <<config, job, cachedBy, crossed, blind>>, chip' = chip, wiped' = wiped,
         lost \subseteq lost', locked \subseteq locked'
  PROVE  QueueMatchesJobs' /\ CacheMatchesQueue' /\ QueueCrosses' /\ CacheAhead'
<1>1. /\ \A i \in Positions' : i + 1 \in Positions /\ cmd_ch'[i] = cmd_ch[i + 1]
      /\ \A n : \A i \in Positions' : QueuedAfter(n, i + 1) => QueuedAfter(n, i)'
  BY Popped
<1>2. \A c \in Clients : /\ Pending(c)' <=> Pending(c)
                         /\ LineOf(c)' = LineOf(c) /\ job'[c].number = job[c].number
  BY DEF Pending, LineOf
<1>3. /\ \A n : Spoilt(n) => Spoilt(n)'
      /\ \A n : StillCaches(n) => StillCaches(n)'
  BY DEF Spoilt, StillCaches, Pending
<1>4. QueueMatchesJobs'
  <2> SUFFICES ASSUME NEW c \in Clients, Pending(c)', NEW i \in Positions',
                      cmd_ch'[i].from = job'[c].number
               PROVE  cmd_ch'[i] = LineOf(c)'
    BY DEF QueueMatchesJobs
  <2> QED BY <1>1, <1>2 DEF Values, QueueMatchesJobs
<1>5. CacheMatchesQueue'
  <2> SUFFICES ASSUME NEW i \in Positions', NEW k \in DOMAIN config \ Uncached,
                      cachedBy[k] = cmd_ch'[i].from
               PROVE  /\ k \in DOMAIN Effect(cmd_ch'[i], chip)
                      /\ ~Blind(k, cachedBy[k]) => config[k] = Effect(cmd_ch'[i], chip)[k]
    BY DEF CacheMatchesQueue, Blind
  <2> QED BY <1>1 DEF Values, CacheMatchesQueue
<1>6. QueueCrosses'
  <2> SUFFICES ASSUME NEW c \in Clients, Pending(c), NEW i \in Positions'
               PROVE  \/ cmd_ch'[i].from = job[c].number \/ {job[c].number, cmd_ch'[i].from} \in crossed
                      \/ QueuedAfter(job[c].number, i)'
    BY <1>2 DEF QueueCrosses, QueuedAfter
  <2>1. \/ cmd_ch[i + 1].from = job[c].number \/ {job[c].number, cmd_ch[i + 1].from} \in crossed
        \/ QueuedAfter(job[c].number, i + 1)
    BY <1>1 DEF Order, QueueCrosses
  <2> QED BY <1>1, <2>1
<1>7. CacheAhead'
  <2> SUFFICES ASSUME NEW i \in Positions',
                      NEW k \in (DOMAIN config \cap DOMAIN Effect(cmd_ch'[i], chip)) \ Uncached
               PROVE  \/ cachedBy[k] = cmd_ch'[i].from \/ {cachedBy[k], cmd_ch'[i].from} \in crossed
                      \/ Spoilt(cachedBy[k])' \/ QueuedAfter(cachedBy[k], i)'
                      \/ StillCaches(cmd_ch[i].from)'
    BY DEF CacheAhead, Spoilt, QueuedAfter, StillCaches
  <2>1. \/ cachedBy[k] = cmd_ch[i + 1].from \/ {cachedBy[k], cmd_ch[i + 1].from} \in crossed
        \/ Spoilt(cachedBy[k]) \/ QueuedAfter(cachedBy[k], i + 1)
        \/ StillCaches(cmd_ch[i + 1].from)
    BY <1>1 DEF Order, CacheAhead
  <2>2. cmd_ch'[i].from = cmd_ch[i + 1].from
    BY <1>1
  <2> QED BY <1>1, <1>3, <2>1, <2>2
<1> QED BY <1>4, <1>5, <1>6, <1>7

\* The command is lost, or found the CLI locked.
LEMMA Dropped ==
  ASSUME StateOK, Values, Order, cmd_ch # <<>>, cmd_ch' = Tail(cmd_ch),
         UNCHANGED <<config, chip, job, cachedBy, crossed, blind, board, obeyedBy, wiped>>,
         lost \subseteq lost', locked \subseteq locked', cmd_ch[1].from \in lost' \cup locked'
  PROVE  Values' /\ Order'
<1>1. QueueMatchesJobs' /\ CacheMatchesQueue' /\ QueueCrosses' /\ CacheAhead'
  BY TakenOff
<1>2. /\ \A n : Queued(n) => Queued(n)' \/ n = cmd_ch[1].from
      /\ \A n : Spoilt(n) \/ n = cmd_ch[1].from => Spoilt(n)'
      /\ \A n : StillCaches(n) => StillCaches(n)'
  BY Popped DEF Spoilt, StillCaches, Pending
<1>3. BoardMatchesJobs' /\ CacheAgrees'
  BY DEF Values, BoardMatchesJobs, CacheAgrees, Pending, LineOf
<1>4. BoardCrosses'
  <2> SUFFICES ASSUME NEW c \in Clients, Pending(c), NEW k \in DOMAIN board \cap DOMAIN Effect(LineOf(c), chip)
               PROVE  \/ obeyedBy[k] = job[c].number \/ {job[c].number, obeyedBy[k]} \in crossed
                      \/ Spoilt(job[c].number)' \/ Queued(job[c].number)'
    BY DEF BoardCrosses, Pending, LineOf, Spoilt, Queued
  <2> QED BY <1>2 DEF Order, BoardCrosses
<1>5. CacheBehind'
  <2> SUFFICES ASSUME NEW k \in DOMAIN config \cap DOMAIN board
               PROVE  \/ cachedBy[k] = obeyedBy[k] \/ {cachedBy[k], obeyedBy[k]} \in crossed
                      \/ Spoilt(cachedBy[k])' \/ Queued(cachedBy[k])' \/ StillCaches(obeyedBy[k])'
    BY DEF CacheBehind, Spoilt, Queued, StillCaches
  <2> QED BY <1>2 DEF Order, CacheBehind
<1> QED BY <1>1, <1>3, <1>4, <1>5 DEF Values, Order

\* The board obeys it.
LEMMA Obeyed ==
  ASSUME StateOK, Values, Order, cmd_ch # <<>>, cmd_ch' = Tail(cmd_ch),
         UNCHANGED <<config, chip, job, cachedBy, crossed, blind, lost, locked, wiped>>,
         DOMAIN board' = DOMAIN board,
         \A k \in DOMAIN board :
            IF k \in DOMAIN Effect(cmd_ch[1], chip)
            THEN board'[k] = Effect(cmd_ch[1], chip)[k] /\ obeyedBy'[k] = cmd_ch[1].from
            ELSE board'[k] = board[k] /\ obeyedBy'[k] = obeyedBy[k]
  PROVE  Values' /\ Order'
<1>1. QueueMatchesJobs' /\ CacheMatchesQueue' /\ QueueCrosses' /\ CacheAhead'
  BY TakenOff
<1>2. /\ 1 \in Positions
      /\ \A n : Queued(n) => Queued(n)' \/ n = cmd_ch[1].from
      /\ \A n : QueuedAfter(n, 1) => Queued(n)'
  BY Popped
<1>3. /\ \A n : Spoilt(n) => Spoilt(n)'
      /\ \A n : StillCaches(n) => StillCaches(n)'
  BY DEF Spoilt, StillCaches, Pending
<1>4. \A c \in Clients : Pending(c) /\ cmd_ch[1].from = job[c].number => cmd_ch[1] = LineOf(c)
  BY <1>2 DEF Values, QueueMatchesJobs
<1>5. BoardMatchesJobs'
  <2> SUFFICES ASSUME NEW c \in Clients, Pending(c), NEW k \in DOMAIN board, obeyedBy'[k] = job[c].number
               PROVE  k \in DOMAIN Effect(LineOf(c), chip) /\ board'[k] = Effect(LineOf(c), chip)[k]
    BY DEF BoardMatchesJobs, Pending, LineOf
  <2>1. CASE k \in DOMAIN Effect(cmd_ch[1], chip)
    BY <1>4, <2>1
  <2>2. CASE k \notin DOMAIN Effect(cmd_ch[1], chip)
    BY <2>2 DEF Values, BoardMatchesJobs
  <2> QED BY <2>1, <2>2
<1>6. CacheAgrees'
  <2> SUFFICES ASSUME NEW k \in DOMAIN config \cap DOMAIN board,
                      cachedBy[k] = obeyedBy'[k], ~(k = "channel" /\ cachedBy[k] \in blind)
               PROVE  config[k] = board'[k]
    BY DEF CacheAgrees
  <2>1. CASE k \in DOMAIN Effect(cmd_ch[1], chip)
    BY <1>2, <2>1 DEF StateOK, Values, CacheMatchesQueue, Blind
  <2>2. CASE k \notin DOMAIN Effect(cmd_ch[1], chip)
    BY <2>2 DEF Values, CacheAgrees
  <2> QED BY <2>1, <2>2
<1>7. BoardCrosses'
  <2> SUFFICES ASSUME NEW c \in Clients, Pending(c), NEW k \in DOMAIN board \cap DOMAIN Effect(LineOf(c), chip)
               PROVE  \/ obeyedBy'[k] = job[c].number \/ {job[c].number, obeyedBy'[k]} \in crossed
                      \/ Spoilt(job[c].number)' \/ Queued(job[c].number)'
    BY DEF BoardCrosses, Pending, LineOf, Spoilt, Queued
  <2>1. CASE k \in DOMAIN Effect(cmd_ch[1], chip)
    <3>1. \/ cmd_ch[1].from = job[c].number \/ {job[c].number, cmd_ch[1].from} \in crossed
          \/ QueuedAfter(job[c].number, 1)
      BY <1>2 DEF Order, QueueCrosses
    <3>2. obeyedBy'[k] = cmd_ch[1].from
      BY <2>1
    <3> QED BY <1>2, <3>1, <3>2
  <2>2. CASE k \notin DOMAIN Effect(cmd_ch[1], chip)
    <3>1. cmd_ch[1].from # job[c].number
      BY <1>4, <2>2
    <3>2. \/ obeyedBy[k] = job[c].number \/ {job[c].number, obeyedBy[k]} \in crossed
          \/ Spoilt(job[c].number) \/ Queued(job[c].number)
      BY DEF Order, BoardCrosses
    <3>3. obeyedBy'[k] = obeyedBy[k]
      BY <2>2
    <3> QED BY <1>2, <1>3, <3>1, <3>2, <3>3
  <2> QED BY <2>1, <2>2
<1>8. CacheBehind'
  <2> SUFFICES ASSUME NEW k \in DOMAIN config \cap DOMAIN board
               PROVE  \/ cachedBy[k] = obeyedBy'[k] \/ {cachedBy[k], obeyedBy'[k]} \in crossed
                      \/ Spoilt(cachedBy[k])' \/ Queued(cachedBy[k])' \/ StillCaches(obeyedBy[k])'
    BY DEF CacheBehind, Spoilt, Queued, StillCaches
  <2>1. CASE k \in DOMAIN Effect(cmd_ch[1], chip)
    <3>1. \/ cachedBy[k] = cmd_ch[1].from \/ {cachedBy[k], cmd_ch[1].from} \in crossed
          \/ Spoilt(cachedBy[k]) \/ QueuedAfter(cachedBy[k], 1) \/ StillCaches(cmd_ch[1].from)
      BY <1>2, <2>1 DEF StateOK, Order, CacheAhead
    <3>2. obeyedBy'[k] = cmd_ch[1].from
      BY <2>1
    <3>3. StillCaches(cmd_ch[1].from) => StillCaches(obeyedBy[k])'
      BY <3>2 DEF StillCaches, Pending
    <3> QED BY <1>2, <1>3, <3>1, <3>2, <3>3
  <2>2. CASE k \notin DOMAIN Effect(cmd_ch[1], chip)
    <3>1. cachedBy[k] # cmd_ch[1].from
      BY <1>2, <2>2 DEF StateOK, Values, CacheMatchesQueue
    <3>2. \/ cachedBy[k] = obeyedBy[k] \/ {cachedBy[k], obeyedBy[k]} \in crossed
          \/ Spoilt(cachedBy[k]) \/ Queued(cachedBy[k]) \/ StillCaches(obeyedBy[k])
      BY DEF Order, CacheBehind
    <3>3. obeyedBy'[k] = obeyedBy[k]
      BY <2>2
    <3> QED BY <1>2, <1>3, <3>1, <3>2, <3>3
  <2> QED BY <2>1, <2>2
<1> QED BY <1>1, <1>5, <1>6, <1>7, <1>8 DEF Values, Order

-----------------------------------------------------------------------------
(***************************************************************************)
(* The two steps of a handler that do: it queues its command, and caches.  *)
(***************************************************************************)
\* The command of a handler that is about to send.
LEMMA LineQueued ==
  ASSUME StateOK, JobsOK, NEW c \in Clients, At(c, "send")
  PROVE  LineOf(c) \in Lines /\ LineOf(c).from = job[c].number
<1>1. job[c].req \in Requests /\ job[c].chip \in Known /\ job[c].number \in 1..asked
  BY DEF StateOK, JobsOK, JobOK, At, Job
<1>2. job[c].number \in 1..MaxRequests
  BY <1>1, ConfigureAssumption DEF StateOK
<1>3. LineOf(c) \in Lines
  BY <1>1, <1>2 DEF Lines, LineOf
<1> QED BY <1>3 DEF LineOf, Line

\* Showing statistics sets nothing.
LEMMA StatsSetsNothing ==
  ASSUME NEW r \in Requests, NEW d, NEW b, NEW n, r.route = "stats"
  PROVE  DOMAIN Effect(Line(r, d, n), b) = {}
<1>1. DOMAIN r.body = {}
  BY ConfigureAssumption DEF Parses, Fields
<1>2. Line(r, d, n).route = "stats" /\ Line(r, d, n).flags = r.body
  BY DEF Line, Flags
<1> QED BY <1>1, <1>2 DEF Effect

\* What sending does to the handlers.
LEMMA SendMeans ==
  ASSUME StateOK, NEW c \in Clients, Send(c)
  PROVE  /\ job' \in [Clients -> Job] /\ \A d \in Clients \ {c} : job'[d] = job[d]
         /\ job'[c].at \in {"idle", "read_reset_chip", "cache"}
         /\ job'[c].at = "idle" <=> job[c].req.route = "stats"
         /\ job'[c].at = "read_reset_chip" <=> job[c].req.route = "reset"
         /\ job'[c].at # "idle" => /\ job'[c].req = job[c].req /\ job'[c].number = job[c].number
                                 /\ job'[c].chip = job[c].chip
<1> DEFINE route == job[c].req.route
           step == CASE route = "reset" -> "read_reset_chip" [] route = "stats" -> "idle"
                     [] OTHER -> "cache"
<1>1. Go(c, step)
  BY DEF Send
<1>2. /\ step \in {"idle", "read_reset_chip", "cache"}
      /\ step = "idle" <=> route = "stats"
      /\ step = "read_reset_chip" <=> route = "reset"
  OBVIOUS
<1> HIDE DEF step
<1>3. step \in Steps
  BY <1>2 DEF Steps
<1> QED BY <1>1, <1>2, <1>3, GoMeans

LEMMA SendAgrees ==
  ASSUME StateOK, JobsOK, NumbersOK, Values, Order, NEW c \in Clients, Send(c)
  PROVE  Values' /\ Order'
<1> DEFINE line == LineOf(c)
           last == Len(cmd_ch) + 1
           n == job[c].number
<1>1. /\ At(c, "send") /\ Waiting(c) /\ ~Pending(c) /\ job[c].req \in Requests
      /\ Len(cmd_ch) < CmdCap /\ cmd_ch' = Append(cmd_ch, line)
      /\ UNCHANGED <<config, chip, board, cachedBy, obeyedBy, blind, lost, locked, wiped>>
      /\ crossed' = crossed \cup {{n, job[d].number} : d \in Between(c)}
  BY DEF Send, Rest, boardVars, At, Waiting, Pending, LineOf, JobsOK, JobOK
<1>2. line \in Lines /\ line.from = n
  BY <1>1, LineQueued
<1> HIDE DEF line
<1>3. /\ last \in Positions' /\ cmd_ch'[last] = line
      /\ \A i \in Positions : cmd_ch'[i] = cmd_ch[i] /\ i < last
      /\ \A i \in Positions' : i \in Positions \/ i = last
      /\ \A m : Queued(m) => Queued(m)'
      /\ \A m, i : QueuedAfter(m, i) => QueuedAfter(m, i)'
  BY <1>1, <1>2, Appended
<1>4. /\ \A d \in Clients \ {c} : /\ Pending(d)' <=> Pending(d)
                                  /\ job'[d].number = job[d].number /\ LineOf(d)' = LineOf(d)
      /\ Pending(c)' <=> job[c].req.route # "stats"
      /\ Pending(c)' => job'[c].number = n /\ LineOf(c)' = line
  BY SendMeans DEF Pending, LineOf, line
<1> HIDE DEF last
<1>5. /\ \A m : Spoilt(m) => Spoilt(m)'
      /\ crossed \subseteq crossed'
  BY <1>1 DEF Spoilt
<1>6. ASSUME NEW m, StillCaches(m) PROVE StillCaches(m)'
  <2>1. PICK d \in Clients : Pending(d) /\ job[d].number = m
    BY <1>6 DEF StillCaches
  <2>2. d # c
    BY <1>1, <2>1
  <2> QED BY <1>4, <2>1, <2>2 DEF StillCaches
<1>7. /\ \A i \in Positions : cmd_ch[i].from # n
      /\ \A k \in DOMAIN obeyedBy : obeyedBy[k] # n
      /\ \A k \in DOMAIN cachedBy : cachedBy[k] # n
      /\ \A d \in Clients \ {c} : Pending(d) => job[d].number # n
  BY <1>1 DEF NumbersOK, Unsent, Uncaching, At, Waiting, Pending
<1>8. QueueMatchesJobs'
  <2> SUFFICES ASSUME NEW d \in Clients, Pending(d)', NEW i \in Positions', cmd_ch'[i].from = job'[d].number
               PROVE  cmd_ch'[i] = LineOf(d)'
    BY DEF QueueMatchesJobs
  <2>1. CASE d = c
    BY <1>2, <1>3, <1>4, <1>7, <2>1
  <2>2. CASE d # c
    BY <1>2, <1>3, <1>4, <1>7, <2>2 DEF Values, QueueMatchesJobs
  <2> QED BY <2>1, <2>2
<1>9. BoardMatchesJobs'
  <2> SUFFICES ASSUME NEW d \in Clients, Pending(d)', NEW k \in DOMAIN board, obeyedBy[k] = job'[d].number
               PROVE  k \in DOMAIN Effect(LineOf(d)', chip) /\ board[k] = Effect(LineOf(d)', chip)[k]
    BY <1>1 DEF BoardMatchesJobs
  <2>1. d # c
    BY <1>4, <1>7 DEF StateOK
  <2> QED BY <1>4, <2>1 DEF Values, BoardMatchesJobs
<1>10. CacheMatchesQueue'
  <2> SUFFICES ASSUME NEW i \in Positions', NEW k \in DOMAIN config \ Uncached,
                      cachedBy[k] = cmd_ch'[i].from
               PROVE  /\ k \in DOMAIN Effect(cmd_ch'[i], chip)
                      /\ ~Blind(k, cachedBy[k]) => config[k] = Effect(cmd_ch'[i], chip)[k]
    BY <1>1 DEF CacheMatchesQueue, Blind
  <2>1. i \in Positions
    BY <1>2, <1>3, <1>7 DEF StateOK
  <2> QED BY <1>3, <2>1 DEF Values, CacheMatchesQueue
<1>11. CacheAgrees'
  BY <1>1 DEF Values, CacheAgrees
<1>12. QueueCrosses'
  <2> SUFFICES ASSUME NEW d \in Clients, Pending(d)', NEW i \in Positions'
               PROVE  \/ cmd_ch'[i].from = job'[d].number
                      \/ {job'[d].number, cmd_ch'[i].from} \in crossed'
                      \/ QueuedAfter(job[d].number, i)'
    BY DEF QueueCrosses, QueuedAfter
  <2>1. CASE d = c /\ i = last
    BY <1>2, <1>3, <1>4, <2>1
  <2>2. CASE d = c /\ i \in Positions
    BY <1>2, <1>3, <1>4, <2>2 DEF QueuedAfter
  <2>3. CASE d # c /\ i = last
    <3>1. d \in Between(c)
      BY <1>4, <2>3 DEF Between, Pending
    <3>2. {job[d].number, n} \in crossed'
      BY <1>1, <3>1
    <3> QED BY <1>2, <1>3, <1>4, <2>3, <3>2
  <2>4. CASE d # c /\ i \in Positions
    <3>1. \/ cmd_ch[i].from = job[d].number \/ {job[d].number, cmd_ch[i].from} \in crossed
          \/ QueuedAfter(job[d].number, i)
      BY <1>4, <2>4 DEF Order, QueueCrosses
    <3>2. QueuedAfter(job[d].number, i) => QueuedAfter(job[d].number, i)'
      <4>1. \A m : QueuedAfter(m, i) => QueuedAfter(m, i)'
        BY <1>3
      <4> QED BY <1>4, <2>4, <4>1 DEF QueuedAfter
    <3> QED BY <1>3, <1>4, <1>5, <2>4, <3>1, <3>2
  <2> QED BY <1>3, <2>1, <2>2, <2>3, <2>4
<1>13. BoardCrosses'
  <2> SUFFICES ASSUME NEW d \in Clients, Pending(d)', NEW k \in DOMAIN board \cap DOMAIN Effect(LineOf(d)', chip)
               PROVE  \/ obeyedBy[k] = job'[d].number \/ {job'[d].number, obeyedBy[k]} \in crossed'
                      \/ job'[d].number \in lost \cup locked \cup wiped
                      \/ \E i \in Positions' : cmd_ch'[i].from = job'[d].number
    BY <1>1 DEF BoardCrosses, Spoilt, Queued
  <2>1. CASE d = c
    BY <1>2, <1>3, <1>4, <2>1
  <2>2. CASE d # c
    <3>1. \/ obeyedBy[k] = job[d].number \/ {job[d].number, obeyedBy[k]} \in crossed
          \/ Spoilt(job[d].number) \/ Queued(job[d].number)
      BY <1>4, <2>2 DEF Order, BoardCrosses
    <3>2. \A m : Queued(m) => \E i \in Positions' : cmd_ch'[i].from = m
      BY <1>3 DEF Queued
    <3> QED BY <1>4, <1>5, <2>2, <3>1, <3>2 DEF Spoilt
  <2> QED BY <2>1, <2>2
<1>14. CacheBehind'
  <2> SUFFICES ASSUME NEW k \in DOMAIN config \cap DOMAIN board
               PROVE  \/ cachedBy[k] = obeyedBy[k] \/ {cachedBy[k], obeyedBy[k]} \in crossed'
                      \/ Spoilt(cachedBy[k])' \/ Queued(cachedBy[k])' \/ StillCaches(obeyedBy[k])'
    BY <1>1 DEF CacheBehind
  <2>1. \/ cachedBy[k] = obeyedBy[k] \/ {cachedBy[k], obeyedBy[k]} \in crossed
        \/ Spoilt(cachedBy[k]) \/ Queued(cachedBy[k]) \/ StillCaches(obeyedBy[k])
    BY DEF Order, CacheBehind
  <2>2. /\ Queued(cachedBy[k]) => Queued(cachedBy[k])'
        /\ StillCaches(obeyedBy[k]) => StillCaches(obeyedBy[k])'
        /\ Spoilt(cachedBy[k]) => Spoilt(cachedBy[k])'
    BY <1>1, <1>3, <1>5, <1>6 DEF Queued, StillCaches, Spoilt
  <2> QED BY <1>5, <2>1, <2>2
<1>15. CacheAhead'
  <2> SUFFICES ASSUME NEW i \in Positions',
                      NEW k \in (DOMAIN config \cap DOMAIN Effect(cmd_ch'[i], chip)) \ Uncached
               PROVE  \/ cachedBy[k] = cmd_ch'[i].from \/ {cachedBy[k], cmd_ch'[i].from} \in crossed'
                      \/ Spoilt(cachedBy[k])' \/ QueuedAfter(cachedBy[k], i)'
                      \/ StillCaches(cmd_ch[i].from)'
    BY <1>1 DEF CacheAhead
  <2>1. CASE i = last
    <3>1. job[c].req.route # "stats"
      BY <1>1, <1>3, <2>1, StatsSetsNothing DEF line, LineOf
    <3>2. Pending(c)' /\ job'[c].number = cmd_ch'[i].from
      BY <1>2, <1>3, <1>4, <2>1, <3>1
    <3> QED BY <3>2 DEF StillCaches
  <2>2. CASE i \in Positions
    <3>1. \/ cachedBy[k] = cmd_ch[i].from \/ {cachedBy[k], cmd_ch[i].from} \in crossed
          \/ Spoilt(cachedBy[k]) \/ QueuedAfter(cachedBy[k], i) \/ StillCaches(cmd_ch[i].from)
      BY <1>3, <2>2 DEF Order, CacheAhead
    <3>2. cmd_ch'[i].from = cmd_ch[i].from
      BY <1>3, <2>2
    <3>3. StillCaches(cmd_ch[i].from) => StillCaches(cmd_ch[i].from)'
      <4>1. \A m : StillCaches(m) => StillCaches(m)'
        BY <1>6
      <4> QED BY <3>2, <4>1 DEF StillCaches
    <3>4. /\ QueuedAfter(cachedBy[k], i) => QueuedAfter(cachedBy[k], i)'
          /\ Spoilt(cachedBy[k]) => Spoilt(cachedBy[k])'
      BY <1>1, <1>3, <1>5 DEF QueuedAfter, Spoilt
    <3> QED BY <1>5, <3>1, <3>2, <3>3, <3>4
  <2> QED BY <1>3, <2>1, <2>2
<1> QED BY <1>8, <1>9, <1>10, <1>11, <1>12, <1>13, <1>14, <1>15 DEF Values, Order

\* What caching does: the settings of the request are its own, the others stay.
LEMMA CacheMeans ==
  ASSUME StateOK, JobsOK, NEW c \in Clients, Cache(c)
  PROVE  /\ DOMAIN cachedBy' = DOMAIN config'
         /\ \A k \in DOMAIN config' :
               \/ /\ k \in DOMAIN Effect(LineOf(c), chip) /\ cachedBy'[k] = job[c].number
                  /\ ~Blind(k, job[c].number) => config'[k] = Effect(LineOf(c), chip)[k]
               \/ /\ k \in DOMAIN config /\ config'[k] = config[k] /\ cachedBy'[k] = cachedBy[k]
                  /\ k \notin DOMAIN Effect(LineOf(c), chip) \/ k \in Uncached
<1> DEFINE r == job[c].req
           d == job[c].chip
           n == job[c].number
           set == Sets(r, d)
           effect == Effect(Line(r, d, n), chip)
           new == Cached(config, r, d)
<1>1. /\ r \in Requests /\ Accepts(r) /\ r.route # "stats"
      /\ r.route = "reset" => d = chip \/ n \in blind
  BY DEF Cache, At, Pending, JobsOK, JobOK
<1>2. /\ config' = new
      /\ cachedBy' = [k \in DOMAIN new |-> IF k \in set THEN n ELSE cachedBy[k]]
  BY DEF Cache
<1>3. Means(new, effect, set, config, r, d, chip)
  BY <1>1, RequestMeans
<1>4. LineOf(c) = Line(r, d, n)
  BY DEF LineOf
<1> HIDE DEF r, d, n, set, effect, new
<1>5. ASSUME NEW k \in DOMAIN new
      PROVE  \/ /\ k \in DOMAIN effect /\ cachedBy'[k] = n /\ (~Blind(k, n) => new[k] = effect[k])
             \/ /\ k \in DOMAIN config /\ new[k] = config[k] /\ cachedBy'[k] = cachedBy[k]
                /\ k \notin DOMAIN effect \/ k \in Uncached
  <2>1. CASE k \in set
    BY <1>1, <1>2, <1>3, <2>1 DEF Means, Blind
  <2>2. CASE k \notin set
    BY <1>2, <1>3, <2>2 DEF Means
  <2> QED BY <2>1, <2>2
<1> QED BY <1>2, <1>4, <1>5 DEF effect, n

LEMMA CacheKeepsAgreement ==
  ASSUME StateOK, JobsOK, NumbersOK, Values, Order, NEW c \in Clients, Cache(c)
  PROVE  Values' /\ Order'
<1> DEFINE n == job[c].number
           effect == Effect(LineOf(c), chip)
<1>1. /\ Pending(c) /\ Go(c, "idle")
      /\ UNCHANGED <<chip, board, cmd_ch, obeyedBy, crossed, blind, lost, locked, wiped>>
  BY DEF Cache, Rest, boardVars, At, Pending
<1>2. /\ \A d \in Clients \ {c} : /\ Pending(d)' <=> Pending(d)
                                  /\ job'[d].number = job[d].number /\ LineOf(d)' = LineOf(d)
      /\ ~Pending(c)'
  <2>1. "idle" \in Steps
    BY DEF Steps
  <2> QED BY <1>1, <2>1, GoMeans DEF Pending, LineOf
<1>3. \A k \in DOMAIN config' \ Uncached :
         \/ /\ k \in DOMAIN effect /\ cachedBy'[k] = n /\ (~Blind(k, n) => config'[k] = effect[k])
         \/ /\ k \in DOMAIN config /\ config'[k] = config[k] /\ cachedBy'[k] = cachedBy[k]
            /\ k \notin DOMAIN effect
  BY CacheMeans DEF StateOK
<1>4. /\ \A i \in Positions : cmd_ch[i].from = n => cmd_ch[i] = LineOf(c)
      /\ \A k \in DOMAIN board : obeyedBy[k] = n => k \in DOMAIN effect /\ board[k] = effect[k]
  BY <1>1 DEF Values, QueueMatchesJobs, BoardMatchesJobs
<1>5. /\ Positions' = Positions
      /\ \A m : Spoilt(m)' <=> Spoilt(m)
      /\ \A m : Queued(m)' <=> Queued(m)
      /\ \A m, i : QueuedAfter(m, i)' <=> QueuedAfter(m, i)
  BY <1>1 DEF Positions, Queued, QueuedAfter, Spoilt
<1>6. ASSUME NEW m, StillCaches(m), m # n PROVE StillCaches(m)'
  BY <1>2, <1>6 DEF StillCaches
<1> HIDE DEF effect
<1>7. QueueMatchesJobs' /\ BoardMatchesJobs'
  BY <1>1, <1>2, <1>5 DEF Values, QueueMatchesJobs, BoardMatchesJobs
<1>8. CacheMatchesQueue'
  <2> SUFFICES ASSUME NEW i \in Positions, NEW k \in DOMAIN config' \ Uncached,
                      cachedBy'[k] = cmd_ch[i].from
               PROVE  /\ k \in DOMAIN Effect(cmd_ch[i], chip)
                      /\ ~Blind(k, cmd_ch[i].from) => config'[k] = Effect(cmd_ch[i], chip)[k]
    BY <1>1, <1>5 DEF CacheMatchesQueue, Blind
  <2>1. CASE cachedBy'[k] = n /\ k \in DOMAIN effect /\ (~Blind(k, n) => config'[k] = effect[k])
    BY <1>4, <2>1 DEF effect
  <2>2. CASE k \in DOMAIN config /\ config'[k] = config[k] /\ cachedBy'[k] = cachedBy[k]
    BY <2>2 DEF Values, CacheMatchesQueue
  <2> QED BY <1>3, <2>1, <2>2
<1>9. CacheAgrees'
  <2> SUFFICES ASSUME NEW k \in DOMAIN config' \cap DOMAIN board,
                      cachedBy'[k] = obeyedBy[k], ~Blind(k, cachedBy'[k])
               PROVE  config'[k] = board[k]
    BY <1>1 DEF CacheAgrees, Blind
  <2>1. CASE cachedBy'[k] = n /\ (~Blind(k, n) => config'[k] = effect[k])
    BY <1>4, <2>1
  <2>2. CASE k \in DOMAIN config /\ config'[k] = config[k] /\ cachedBy'[k] = cachedBy[k]
    BY <2>2 DEF Values, CacheAgrees, Blind
  <2> QED BY <1>3, <2>1, <2>2 DEF StateOK
<1>10. QueueCrosses'
  <2> SUFFICES ASSUME NEW d \in Clients, d # c, Pending(d), NEW i \in Positions
               PROVE  \/ cmd_ch[i].from = job[d].number \/ {job[d].number, cmd_ch[i].from} \in crossed
                      \/ QueuedAfter(job[d].number, i)
    BY <1>1, <1>2, <1>5 DEF QueueCrosses, QueuedAfter
  <2> QED BY DEF Order, QueueCrosses
<1>11. BoardCrosses'
  <2> SUFFICES ASSUME NEW d \in Clients, d # c, Pending(d), NEW k \in DOMAIN board \cap DOMAIN Effect(LineOf(d), chip)
               PROVE  \/ obeyedBy[k] = job[d].number \/ {job[d].number, obeyedBy[k]} \in crossed
                      \/ Spoilt(job[d].number) \/ Queued(job[d].number)
    BY <1>1, <1>2, <1>5 DEF BoardCrosses, Spoilt, Queued
  <2> QED BY DEF Order, BoardCrosses
<1>12. CacheBehind'
  <2> SUFFICES ASSUME NEW k \in DOMAIN config' \cap DOMAIN board
               PROVE  \/ cachedBy'[k] = obeyedBy[k] \/ {cachedBy'[k], obeyedBy[k]} \in crossed
                      \/ Spoilt(cachedBy'[k]) \/ Queued(cachedBy'[k]) \/ StillCaches(obeyedBy[k])'
    BY <1>1, <1>5 DEF CacheBehind, Spoilt, Queued
  <2>1. CASE cachedBy'[k] = n /\ k \in DOMAIN effect
    BY <1>1, <2>1 DEF Order, BoardCrosses, effect
  <2>2. CASE k \in DOMAIN config /\ cachedBy'[k] = cachedBy[k] /\ k \notin DOMAIN effect
    <3>1. obeyedBy[k] # n
      BY <1>4, <2>2
    <3>2. StillCaches(obeyedBy[k]) => StillCaches(obeyedBy[k])'
      <4>1. StillCaches(obeyedBy[k]) => \E d \in Clients \ {c} : Pending(d) /\ job[d].number = obeyedBy[k]
        BY <3>1 DEF StillCaches
      <4> QED BY <1>1, <1>2, <4>1 DEF StillCaches
    <3> QED BY <2>2, <3>2 DEF Order, CacheBehind
  <2> QED BY <1>3, <2>1, <2>2 DEF StateOK
<1>13. CacheAhead'
  <2> SUFFICES ASSUME NEW i \in Positions,
                      NEW k \in (DOMAIN config' \cap DOMAIN Effect(cmd_ch[i], chip)) \ Uncached
               PROVE  \/ cachedBy'[k] = cmd_ch[i].from \/ {cachedBy'[k], cmd_ch[i].from} \in crossed
                      \/ Spoilt(cachedBy'[k]) \/ QueuedAfter(cachedBy'[k], i)
                      \/ StillCaches(cmd_ch[i].from)'
    BY <1>1, <1>5 DEF CacheAhead, Spoilt, QueuedAfter
  <2>1. CASE cachedBy'[k] = n /\ k \in DOMAIN effect
    BY <1>1, <2>1 DEF Order, QueueCrosses
  <2>2. CASE k \in DOMAIN config /\ cachedBy'[k] = cachedBy[k] /\ k \notin DOMAIN effect
    <3>1. cmd_ch[i].from # n
      BY <1>4, <2>2 DEF effect
    <3>2. StillCaches(cmd_ch[i].from) => StillCaches(cmd_ch[i].from)'
      <4>1. StillCaches(cmd_ch[i].from) =>
               \E d \in Clients \ {c} : Pending(d) /\ job[d].number = cmd_ch[i].from
        BY <3>1 DEF StillCaches
      <4> QED BY <1>1, <1>2, <4>1 DEF StillCaches
    <3> QED BY <2>2, <3>2 DEF Order, CacheAhead
  <2> QED BY <1>3, <2>1, <2>2
<1> QED BY <1>7, <1>8, <1>9, <1>10, <1>11, <1>12, <1>13 DEF Values, Order

-----------------------------------------------------------------------------
(***************************************************************************)
(* Every step keeps the invariant.                                         *)
(***************************************************************************)
LEMMA JobsKept ==
  ASSUME StateOK, JobsOK, asked' \in {asked, asked + 1}, blind \subseteq blind', chip' = chip, NEW c \in Clients,
         \A d \in Clients \ {c} : job'[d] = job[d], JobOK(c)'
  PROVE  JobsOK'
<1> SUFFICES ASSUME NEW d \in Clients, d # c PROVE JobOK(d)'
  BY DEF JobsOK
<1>1. JobOK(d) /\ job'[d] = job[d] /\ asked \in Nat
  BY ConfigureAssumption DEF JobsOK, StateOK
<1>2. job[d].number \in 1..asked => job[d].number \in 1..asked'
  BY <1>1
<1> QED BY <1>1, <1>2 DEF JobOK, At, Waiting, Pending

LEMMA NumbersKept ==
  ASSUME NumbersOK, UNCHANGED <<cmd_ch, cachedBy, obeyedBy, asked>>,
         \A d \in Clients : ~At(d, "idle")' => ~At(d, "idle") /\ job'[d].number = job[d].number,
         \A d \in Clients : Waiting(d)' => Waiting(d)
  PROVE  NumbersOK'
<1>1. \A d \in Clients : ~At(d, "idle")' => Uncaching(job[d].number)'
  BY DEF NumbersOK, Uncaching
<1>2. \A d \in Clients : Waiting(d)' => Unsent(job[d].number)'
  BY DEF NumbersOK, Unsent, Positions, Waiting, At
<1>3. \A d, e \in Clients : d # e /\ ~At(d, "idle")' /\ ~At(e, "idle")' => job'[d].number # job'[e].number
  BY DEF NumbersOK
<1> QED BY <1>1, <1>2, <1>3 DEF NumbersOK, Positions

\* A request arrives with a number of its own.
LEMMA ArriveKeeps ==
  ASSUME IInv, NEW c \in Clients, Arrive(c)
  PROVE  IInv'
<1>1. PICK r \in Requests :
         job' = [job EXCEPT ![c] =
                    IF r.route # "wifi" /\ ~Accepts(r) THEN Idle
                    ELSE [Idle EXCEPT !.at = IF r.route = "wifi" THEN "read_chip" ELSE "check_link",
                                      !.req = r, !.number = asked + 1]]
  BY DEF Arrive
<1>2. /\ At(c, "idle") /\ asked' = asked + 1 /\ asked + 1 \in 1..MaxRequests /\ asked \in Nat
      /\ UNCHANGED <<config, chip, board, cmd_ch, device_info, cachedBy, obeyedBy, crossed, blind, lost, locked, wiped>>
  BY ConfigureAssumption DEF Arrive, IInv, StateOK, handleVars, boardVars, historyVars
<1>3. Idle.at = "idle" /\ Idle \in Job
  <2>1. "idle" \in Steps /\ 0 \in 0..MaxRequests
    BY ConfigureAssumption DEF Steps
  <2>2. Idle = [at |-> "idle", req |-> Idle.req, chip |-> "none", number |-> 0]
    BY DEF Idle
  <2>3. Idle.at = "idle"
    BY <2>2
  <2> HIDE DEF Idle
  <2> QED BY <2>1, <2>2, <2>3 DEF Job, Known
<1> DEFINE first == IF r.route = "wifi" THEN "read_chip" ELSE "check_link"
           new == [Idle EXCEPT !.at = first, !.req = r, !.number = asked + 1]
<1>4. /\ new \in Job /\ new.at \in {"read_chip", "check_link"} /\ new.req = r /\ new.number = asked + 1
      /\ new.at = "read_chip" <=> r.route = "wifi"
  <2>1. first \in {"read_chip", "check_link"} /\ (first = "read_chip" <=> r.route = "wifi")
    OBVIOUS
  <2>2. first \in Steps /\ asked + 1 \in 0..MaxRequests
    BY <1>2, <2>1 DEF Steps
  <2> HIDE DEF first
  <2>3. new \in Job
    BY <1>3, <2>2 DEF Job, Known
  <2>4. new.at = first /\ new.req = r /\ new.number = asked + 1
    BY <1>3 DEF Job, Known
  <2> QED BY <2>1, <2>3, <2>4
<1>5. /\ job' \in [Clients -> Job] /\ \A d \in Clients \ {c} : job'[d] = job[d]
      /\ job'[c] = IF r.route # "wifi" /\ ~Accepts(r) THEN Idle ELSE new
  BY <1>1, <1>3, <1>4 DEF IInv, StateOK
<1> HIDE DEF new
<1>6. StateOK'
  BY <1>2, <1>5 DEF IInv, StateOK
<1>7. JobsOK'
  <2>1. JobOK(c)'
    BY <1>2, <1>3, <1>4, <1>5 DEF JobOK, At, Waiting, Pending
  <2> QED BY <1>2, <1>5, <2>1, JobsKept DEF IInv
<1>8. /\ \A d \in Clients : Pending(d)' <=> Pending(d)
      /\ \A d \in Clients : Pending(d) => job'[d].number = job[d].number /\ LineOf(d)' = LineOf(d)
      /\ job'[c].at # "idle" => job'[c].number = asked + 1
  BY <1>2, <1>3, <1>4, <1>5 DEF Pending, LineOf, At
<1>9. NumbersOK'
  <2>1. \A d \in Clients : ~At(d, "idle") => job[d].number \in 1..asked
    BY DEF IInv, JobsOK, JobOK
  <2>2. \A d \in Clients \ {c} : /\ At(d, "idle")' <=> At(d, "idle")
                                 /\ Waiting(d)' <=> Waiting(d)
                                 /\ job'[d].number = job[d].number
    BY <1>5 DEF At, Waiting
  <2>3. \A d, e \in Clients : d # e /\ ~At(d, "idle")' /\ ~At(e, "idle")' => job'[d].number # job'[e].number
    <3> SUFFICES ASSUME NEW d \in Clients, NEW e \in Clients, d # e, ~At(d, "idle")', ~At(e, "idle")'
                 PROVE  job'[d].number # job'[e].number
      OBVIOUS
    <3>1. CASE d # c /\ e # c
      BY <2>2, <3>1 DEF IInv, NumbersOK
    <3>2. CASE d = c
      BY <1>2, <1>8, <2>1, <2>2, <3>2 DEF At
    <3>3. CASE e = c
      BY <1>2, <1>8, <2>1, <2>2, <3>3 DEF At
    <3> QED BY <3>1, <3>2, <3>3
  <2>4. /\ \A i \in Positions : cmd_ch[i].from \in 0..asked
        /\ \A k \in DOMAIN cachedBy : cachedBy[k] \in 1..asked
        /\ \A k \in DOMAIN obeyedBy : obeyedBy[k] \in 0..asked
    BY DEF IInv, NumbersOK
  <2>5. /\ \A i \in Positions : cmd_ch[i].from \in 0..(asked + 1) /\ cmd_ch[i].from # asked + 1
        /\ \A k \in DOMAIN cachedBy : cachedBy[k] \in 1..(asked + 1) /\ cachedBy[k] # asked + 1
        /\ \A k \in DOMAIN obeyedBy : obeyedBy[k] \in 0..(asked + 1) /\ obeyedBy[k] # asked + 1
    BY <1>2, <2>4
  <2>6. ASSUME NEW d \in Clients, ~At(d, "idle")' PROVE Uncaching(job[d].number)'
    <3>1. CASE d = c
      BY <1>2, <1>8, <2>5, <2>6, <3>1 DEF Uncaching, At
    <3>2. CASE d # c
      BY <1>2, <2>2, <2>6, <3>2 DEF IInv, NumbersOK, Uncaching
    <3> QED BY <3>1, <3>2
  <2>7. ASSUME NEW d \in Clients, Waiting(d)' PROVE Unsent(job[d].number)'
    <3>1. CASE d = c
      BY <1>2, <1>8, <2>5, <2>7, <3>1 DEF Unsent, Waiting, Positions
    <3>2. CASE d # c
      BY <1>2, <2>2, <2>7, <3>2 DEF IInv, NumbersOK, Unsent, Positions
    <3> QED BY <3>1, <3>2
  <2> QED BY <1>2, <2>3, <2>5, <2>6, <2>7 DEF NumbersOK, Positions
<1>10. CacheTypeOK'
  BY <1>2 DEF IInv, CacheTypeOK
<1>11. Values' /\ Order'
  BY <1>2, <1>8, Bystander DEF IInv
<1> QED BY <1>6, <1>7, <1>9, <1>10, <1>11 DEF IInv

\* A handler that only moves on, or gives up.
LEMMA MoveKeeps ==
  ASSUME IInv, NEW c \in Clients, ~At(c, "idle"),
         UNCHANGED <<config, chip, board, cmd_ch, asked, device_info, cachedBy, obeyedBy, crossed, lost, locked, wiped>>,
         blind \subseteq blind',
         job' \in [Clients -> Job], \A d \in Clients \ {c} : job'[d] = job[d], JobOK(c)',
         ~At(c, "idle")' => job'[c].number = job[c].number,
         Waiting(c)' => Waiting(c), Pending(c)' <=> Pending(c),
         Pending(c) => job'[c].number = job[c].number /\ LineOf(c)' = LineOf(c)
  PROVE  IInv'
<1>1. StateOK'
  BY DEF IInv, StateOK
<1>2. JobsOK'
  BY JobsKept DEF IInv
<1>3. \A d \in Clients \ {c} : /\ At(d, "idle")' <=> At(d, "idle")
                               /\ Waiting(d)' <=> Waiting(d)
                               /\ Pending(d)' <=> Pending(d)
                               /\ job'[d].number = job[d].number /\ LineOf(d)' = LineOf(d)
  BY DEF At, Waiting, Pending, LineOf
<1>4. NumbersOK'
  <2>1. \A d \in Clients : ~At(d, "idle")' => ~At(d, "idle") /\ job'[d].number = job[d].number
    BY <1>3
  <2>2. \A d \in Clients : Waiting(d)' => Waiting(d)
    BY <1>3
  <2> QED BY <2>1, <2>2, NumbersKept DEF IInv
<1>5. CacheTypeOK'
  BY DEF IInv, CacheTypeOK
<1>6. Values' /\ Order'
  <2>1. /\ \A d \in Clients : Pending(d)' <=> Pending(d)
        /\ \A d \in Clients : Pending(d) => job'[d].number = job[d].number /\ LineOf(d)' = LineOf(d)
    BY <1>3
  <2> QED BY <2>1, Bystander DEF IInv
<1> QED BY <1>1, <1>2, <1>4, <1>5, <1>6 DEF IInv

LEMMA ChecksKeep ==
  ASSUME IInv, NEW c \in Clients, ReadChip(c) \/ CheckLink(c) \/ CheckVerified(c) \/ SendFails(c)
  PROVE  IInv'
<1>1. /\ UNCHANGED <<config, chip, board, cmd_ch, asked, device_info, cachedBy, obeyedBy, crossed, lost, locked, wiped>>
      /\ blind' = blind /\ Waiting(c) /\ ~Pending(c) /\ ~At(c, "idle") /\ JobOK(c) /\ StateOK
  BY DEF IInv, JobsOK, ReadChip, CheckLink, CheckVerified, SendFails, Rest, handleVars, boardVars, At, Waiting, Pending
<1>2. /\ job' \in [Clients -> Job] /\ \A d \in Clients \ {c} : job'[d] = job[d]
      /\ \/ At(c, "idle")'
         \/ /\ job'[c].at \in {"check_link", "check_verified", "send"}
            /\ job'[c].req = job[c].req /\ job'[c].number = job[c].number
            /\ Accepts(job[c].req)
  <2>1. {"idle", "check_link", "check_verified", "send"} \subseteq Steps
    BY DEF Steps
  <2>2. CASE ReadChip(c)
    <3>1. CASE Accepts(job[c].req)
      BY <1>1, <2>1, <2>2, <3>1, LearnsMeans DEF ReadChip
    <3>2. CASE ~Accepts(job[c].req)
      BY <1>1, <2>1, <2>2, <3>2, GoMeans DEF ReadChip, At
    <3> QED BY <3>1, <3>2
  <2>3. CASE CheckLink(c)
    <3>1. Accepts(job[c].req)
      BY <1>1, <2>3 DEF CheckLink, JobOK, At
    <3>2. Go(c, "check_verified") \/ Go(c, "idle")
      BY <2>3 DEF CheckLink
    <3> QED BY <1>1, <2>1, <3>1, <3>2, GoMeans DEF At
  <2>4. CASE CheckVerified(c)
    <3>1. Accepts(job[c].req)
      BY <1>1, <2>4 DEF CheckVerified, JobOK, At
    <3>2. Go(c, "send") \/ Go(c, "idle")
      BY <2>4 DEF CheckVerified
    <3> QED BY <1>1, <2>1, <3>1, <3>2, GoMeans DEF At
  <2>5. CASE SendFails(c)
    BY <1>1, <2>1, <2>5, GoMeans DEF SendFails, At
  <2> QED BY <1>1, <2>2, <2>3, <2>4, <2>5
<1>3. JobOK(c)' /\ ~Pending(c)'
  BY <1>1, <1>2 DEF JobOK, At, Waiting, Pending
<1>4. ~At(c, "idle")' => job'[c].number = job[c].number
  BY <1>2
<1> QED BY <1>1, <1>2, <1>3, <1>4, MoveKeeps

\* The command of a reset does not depend on the chip.
LEMMA ResetFlags == ASSUME NEW r, NEW d, r.route = "reset" PROVE Flags(r, d) = r.body
BY DEF Flags

LEMMA ReadResetChipKeeps ==
  ASSUME IInv, NEW c \in Clients, ReadResetChip(c)
  PROVE  IInv'
<1>1. /\ UNCHANGED <<config, chip, board, cmd_ch, asked, device_info, cachedBy, obeyedBy, crossed, lost, locked, wiped>>
      /\ blind \subseteq blind' /\ (device_info = "none" => job[c].number \in blind')
      /\ At(c, "read_reset_chip") /\ Pending(c) /\ ~Waiting(c) /\ ~At(c, "idle")
      /\ JobOK(c) /\ job[c].req.route = "reset" /\ device_info \in {"none", chip} /\ StateOK
  BY DEF IInv, StateOK, JobsOK, JobOK, ReadResetChip, Rest, handleVars, boardVars, At, Waiting, Pending
<1>2. /\ job' \in [Clients -> Job] /\ \A d \in Clients \ {c} : job'[d] = job[d]
      /\ job'[c].at = "cache" /\ job'[c].req = job[c].req
      /\ job'[c].chip = device_info /\ job'[c].number = job[c].number
  <2>1. "cache" \in Steps /\ Learns(c, "cache")
    BY DEF Steps, ReadResetChip
  <2> QED BY <1>1, <2>1, LearnsMeans
<1>3. JobOK(c)' /\ Pending(c)' /\ ~Waiting(c)'
  BY <1>1, <1>2 DEF JobOK, At, Waiting, Pending
<1>4. LineOf(c)' = LineOf(c)
  BY <1>1, <1>2, ResetFlags DEF LineOf, Line
<1> QED BY <1>1, <1>2, <1>3, <1>4, MoveKeeps

LEMMA SendKeeps ==
  ASSUME IInv, NEW c \in Clients, Send(c)
  PROVE  IInv'
<1>1. /\ At(c, "send") /\ Waiting(c) /\ Len(cmd_ch) < CmdCap /\ cmd_ch' = Append(cmd_ch, LineOf(c))
      /\ UNCHANGED <<config, chip, board, asked, device_info, cachedBy, obeyedBy, blind, lost, locked, wiped>>
      /\ JobOK(c) /\ StateOK
  BY DEF IInv, JobsOK, Send, Rest, handleVars, boardVars, At, Waiting, LineOf
<1>2. LineOf(c) \in Lines /\ LineOf(c).from = job[c].number
  BY <1>1, LineQueued DEF IInv
<1>3. /\ cmd_ch' \in Seq(Lines) /\ Len(cmd_ch') <= CmdCap
      /\ cmd_ch'[Len(cmd_ch) + 1] = LineOf(c)
      /\ \A i \in Positions : cmd_ch'[i] = cmd_ch[i]
      /\ \A i \in Positions' : i \in Positions \/ i = Len(cmd_ch) + 1
  BY <1>1, <1>2, Appended
<1>4. StateOK'
  BY <1>1, <1>3, SendMeans DEF StateOK
<1>5. JobsOK'
  <2>1. JobOK(c)'
    <3>1. Accepts(job[c].req) /\ job[c].number \in 1..asked /\ job[c].req \in Requests
      BY <1>1 DEF JobOK, At, Waiting
    <3> QED BY <1>1, <3>1, SendMeans DEF JobOK, At, Waiting, Pending
  <2> QED BY <1>1, <2>1, SendMeans, JobsKept DEF IInv
<1>6. NumbersOK'
  <2>1. \A d \in Clients : ~At(d, "idle")' => ~At(d, "idle") /\ job'[d].number = job[d].number
    BY <1>1, SendMeans DEF At
  <2>2. \A d \in Clients : Waiting(d)' => Waiting(d) /\ d # c
    BY <1>1, SendMeans DEF Waiting
  <2>3. \A d \in Clients : ~At(d, "idle")' => Uncaching(job[d].number)'
    BY <1>1, <2>1 DEF IInv, NumbersOK, Uncaching
  <2>4. ASSUME NEW d \in Clients, Waiting(d)' PROVE Unsent(job[d].number)'
    <3>1. /\ Waiting(d) /\ d # c /\ ~At(d, "idle") /\ job'[d].number = job[d].number
          /\ job[d].number # job[c].number
      BY <1>1, <2>1, <2>2, <2>4 DEF IInv, NumbersOK, At, Waiting
    <3> QED BY <1>1, <1>2, <1>3, <3>1 DEF IInv, NumbersOK, Unsent
  <2>5. \A d, e \in Clients : d # e /\ ~At(d, "idle")' /\ ~At(e, "idle")' => job'[d].number # job'[e].number
    BY <2>1 DEF IInv, NumbersOK
  <2>6. \A i \in Positions' : cmd_ch'[i].from \in 0..asked
    <3>1. job[c].number \in 0..asked
      BY <1>1 DEF JobOK, At, StateOK
    <3> QED BY <1>2, <1>3, <3>1 DEF IInv, NumbersOK
  <2> QED BY <1>1, <2>3, <2>4, <2>5, <2>6 DEF IInv, NumbersOK
<1>7. CacheTypeOK'
  BY <1>1 DEF IInv, CacheTypeOK
<1>8. Values' /\ Order'
  BY SendAgrees DEF IInv
<1> QED BY <1>4, <1>5, <1>6, <1>7, <1>8 DEF IInv

LEMMA CacheKeeps ==
  ASSUME IInv, NEW c \in Clients, Cache(c)
  PROVE  IInv'
<1>1. /\ At(c, "cache") /\ Pending(c) /\ ~At(c, "idle") /\ JobOK(c) /\ StateOK
      /\ UNCHANGED <<cmd_ch, chip, board, asked, device_info, obeyedBy, blind, lost, locked, wiped>>
      /\ config' = Cached(config, job[c].req, job[c].chip)
  BY DEF IInv, JobsOK, Cache, Rest, handleVars, boardVars, At, Pending
<1>2. job' \in [Clients -> Job] /\ At(c, "idle")' /\ \A d \in Clients \ {c} : job'[d] = job[d]
  <2>1. "idle" \in Steps /\ Go(c, "idle")
    BY DEF Steps, Cache
  <2> QED BY <1>1, <2>1, GoMeans DEF At
<1>3. /\ DOMAIN cachedBy' = DOMAIN config'
      /\ \A k \in DOMAIN cachedBy' :
            cachedBy'[k] = job[c].number \/ (k \in DOMAIN cachedBy /\ cachedBy'[k] = cachedBy[k])
  BY CacheMeans DEF IInv, StateOK
<1>4. StateOK'
  BY <1>1, <1>2, <1>3 DEF StateOK
<1>5. JobsOK'
  <2>1. JobOK(c)'
    BY <1>2 DEF JobOK, At, Waiting, Pending
  <2> QED BY <1>1, <1>2, <2>1, JobsKept DEF IInv
<1>6. NumbersOK'
  <2>1. \A d \in Clients : ~At(d, "idle")' => d # c /\ ~At(d, "idle") /\ job'[d].number = job[d].number
    BY <1>2 DEF At
  <2>2. \A d \in Clients : Waiting(d)' => Waiting(d) /\ ~At(d, "idle")'
    BY <1>2 DEF Waiting, At
  <2>3. ASSUME NEW d \in Clients, ~At(d, "idle")' PROVE Uncaching(job[d].number)'
    <3>1. d # c /\ ~At(d, "idle") /\ job'[d].number = job[d].number /\ job[d].number # job[c].number
      BY <1>1, <2>1, <2>3 DEF IInv, NumbersOK
    <3> QED BY <1>3, <3>1 DEF IInv, NumbersOK, Uncaching
  <2>4. \A d \in Clients : Waiting(d)' => Unsent(job[d].number)'
    BY <1>1, <2>1, <2>2 DEF IInv, NumbersOK, Unsent, Positions
  <2>5. \A d, e \in Clients : d # e /\ ~At(d, "idle")' /\ ~At(e, "idle")' => job'[d].number # job'[e].number
    BY <2>1 DEF IInv, NumbersOK
  <2>6. \A k \in DOMAIN cachedBy' : cachedBy'[k] \in 1..asked
    <3>1. job[c].number \in 1..asked
      BY <1>1 DEF JobOK, At, StateOK
    <3> QED BY <1>3, <3>1 DEF IInv, NumbersOK
  <2> QED BY <1>1, <2>3, <2>4, <2>5, <2>6 DEF IInv, NumbersOK, Positions
<1>7. CacheTypeOK'
  <2>1. /\ job[c].req \in Requests /\ Accepts(job[c].req) /\ job[c].req.route # "stats"
    BY <1>1 DEF JobOK
  <2>2. \A k \in DOMAIN config' : Typed(k, config'[k])
    BY <1>1, <2>1, RequestType DEF IInv
  <2> QED BY <2>2 DEF CacheTypeOK, Typed
<1>8. Values' /\ Order'
  BY CacheKeepsAgreement DEF IInv
<1> QED BY <1>4, <1>5, <1>6, <1>7, <1>8 DEF IInv

\* The task takes a command off the channel: what the invariant says of the handlers stays.
LEMMA TakenKeeps ==
  ASSUME IInv, cmd_ch # <<>>, cmd_ch' = Tail(cmd_ch),
         UNCHANGED <<config, chip, job, asked, device_info, cachedBy, crossed, blind>>,
         DOMAIN board' = DOMAIN board, DOMAIN obeyedBy' = DOMAIN obeyedBy,
         \A k \in DOMAIN obeyedBy : obeyedBy'[k] \in {obeyedBy[k], cmd_ch[1].from}
  PROVE  StateOK' /\ JobsOK' /\ NumbersOK' /\ CacheTypeOK'
<1>1. /\ 1 \in Positions /\ cmd_ch' \in Seq(Lines) /\ Len(cmd_ch') <= CmdCap
      /\ \A i \in Positions' : i + 1 \in Positions /\ cmd_ch'[i] = cmd_ch[i + 1]
  BY Popped DEF IInv
<1>2. StateOK'
  BY <1>1 DEF IInv, StateOK
<1>3. JobsOK'
  BY DEF IInv, JobsOK, JobOK, At, Waiting, Pending
<1>4. NumbersOK'
  <2>1. \A d \in Clients : ~At(d, "idle")' => Uncaching(job[d].number)'
    BY DEF IInv, NumbersOK, Uncaching, At
  <2>2. ASSUME NEW d \in Clients, Waiting(d)' PROVE Unsent(job[d].number)'
    <3>1. Unsent(job[d].number)
      BY <2>2 DEF IInv, NumbersOK, Waiting
    <3> QED BY <1>1, <3>1 DEF Unsent
  <2>3. \A d, e \in Clients : d # e /\ ~At(d, "idle")' /\ ~At(e, "idle")' => job'[d].number # job'[e].number
    BY DEF IInv, NumbersOK, At
  <2>4. /\ \A i \in Positions' : cmd_ch'[i].from \in 0..asked
        /\ \A k \in DOMAIN obeyedBy' : obeyedBy'[k] \in 0..asked
    BY <1>1 DEF IInv, NumbersOK
  <2> QED BY <2>1, <2>2, <2>3, <2>4 DEF IInv, NumbersOK
<1>5. CacheTypeOK'
  BY DEF IInv, CacheTypeOK
<1> QED BY <1>2, <1>3, <1>4, <1>5

LEMMA WriteKeeps ==
  ASSUME IInv, Write
  PROVE  IInv'
<1> DEFINE effect == Effect(cmd_ch[1], chip)
<1>1. /\ cmd_ch # <<>> /\ cmd_ch' = Tail(cmd_ch) /\ StateOK /\ Values /\ Order
      /\ UNCHANGED <<config, chip, job, asked, device_info, cachedBy, crossed, blind, lost, wiped>>
      /\ DOMAIN obeyedBy = DOMAIN board
  BY DEF IInv, StateOK, Write, Others, handleVars, boardVars
<1>2. Head(cmd_ch) = cmd_ch[1]
  BY <1>1, Popped
<1>3. CASE collecting
  <2>1. locked' = locked \cup {cmd_ch[1].from} /\ UNCHANGED <<chip, board, obeyedBy>>
    BY <1>2, <1>3 DEF Write
  <2>2. StateOK' /\ JobsOK' /\ NumbersOK' /\ CacheTypeOK'
    BY <1>1, <2>1, TakenKeeps
  <2>3. Values' /\ Order'
    BY <1>1, <2>1, Dropped
  <2> QED BY <2>2, <2>3 DEF IInv
<1>4. CASE ~collecting
  <2>1. /\ board' = [k \in DOMAIN board |-> IF k \in DOMAIN effect THEN effect[k] ELSE board[k]]
        /\ obeyedBy' = [k \in DOMAIN board |-> IF k \in DOMAIN effect THEN cmd_ch[1].from ELSE obeyedBy[k]]
        /\ UNCHANGED locked
    BY <1>2, <1>4 DEF Write, Firmware
  <2> HIDE DEF effect
  <2>2. /\ DOMAIN board' = DOMAIN board /\ DOMAIN obeyedBy' = DOMAIN obeyedBy
        /\ \A k \in DOMAIN obeyedBy : obeyedBy'[k] \in {obeyedBy[k], cmd_ch[1].from}
        /\ \A k \in DOMAIN board :
              IF k \in DOMAIN effect THEN board'[k] = effect[k] /\ obeyedBy'[k] = cmd_ch[1].from
              ELSE board'[k] = board[k] /\ obeyedBy'[k] = obeyedBy[k]
    BY <1>1, <2>1
  <2>3. StateOK' /\ JobsOK' /\ NumbersOK' /\ CacheTypeOK'
    BY <1>1, <2>2, TakenKeeps
  <2>4. Values' /\ Order'
    BY <1>1, <2>1, <2>2, Obeyed DEF effect
  <2> QED BY <2>3, <2>4 DEF IInv
<1> QED BY <1>3, <1>4

\* The steps that change the link and what is known of the board leave the handlers, the
\* cache and the board alone.
LEMMA LinkKeeps ==
  ASSUME IInv, LoseLink \/ Unverify \/ ForgetInfo \/ Verify \/ NoteChip \/ Run
  PROVE  IInv'
<1>1. /\ UNCHANGED <<config, job, asked, cachedBy, crossed, blind, chip, board, obeyedBy, locked, wiped>>
      /\ device_info' \in {"none", chip} /\ lost \subseteq lost' /\ StateOK /\ Values /\ Order
      /\ \/ UNCHANGED cmd_ch
         \/ UNCHANGED device_info /\ cmd_ch # <<>> /\ cmd_ch' = Tail(cmd_ch) /\ Head(cmd_ch).from \in lost'
  BY DEF LoseLink, Unverify, ForgetInfo, Verify, NoteChip, Run, Others, handleVars, boardVars, IInv, StateOK
<1>2. CASE UNCHANGED cmd_ch
  <2>1. StateOK'
    BY <1>1, <1>2 DEF StateOK
  <2>2. JobsOK' /\ CacheTypeOK'
    BY <1>1 DEF IInv, JobsOK, CacheTypeOK, JobOK, At, Waiting, Pending
  <2>3. NumbersOK'
    BY <1>1, <1>2, NumbersKept DEF IInv, At, Waiting
  <2>4. Values' /\ Order'
    BY <1>1, <1>2, Bystander DEF Pending, LineOf
  <2> QED BY <2>1, <2>2, <2>3, <2>4 DEF IInv
<1>3. CASE /\ UNCHANGED device_info /\ cmd_ch # <<>> /\ cmd_ch' = Tail(cmd_ch)
           /\ Head(cmd_ch).from \in lost'
  <2>1. cmd_ch[1].from \in lost' \cup locked'
    BY <1>1, <1>3, Popped
  <2>2. StateOK' /\ JobsOK' /\ NumbersOK' /\ CacheTypeOK'
    BY <1>1, <1>3, TakenKeeps
  <2>3. Values' /\ Order'
    BY <1>1, <1>3, <2>1, Dropped
  <2> QED BY <2>2, <2>3 DEF IInv
<1> QED BY <1>1, <1>2, <1>3

\* The end of the task: what was queued is lost.
LEMMA EndKeeps ==
  ASSUME IInv, End
  PROVE  IInv'
<1>1. /\ UNCHANGED <<config, job, asked, device_info, cachedBy, crossed, blind, chip, board, obeyedBy, locked, wiped>>
      /\ cmd_ch' = <<>> /\ lost' = lost \cup {cmd_ch[i].from : i \in Positions} /\ StateOK
  BY DEF End, Others, handleVars, boardVars, IInv, Positions, StateOK
<1>2. Positions' = {}
  BY <1>1 DEF Positions
<1>3. StateOK'
  BY <1>1, ConfigureAssumption DEF StateOK
<1>4. JobsOK' /\ CacheTypeOK'
  BY <1>1 DEF IInv, JobsOK, CacheTypeOK, JobOK, At, Waiting, Pending
<1>5. NumbersOK'
  <2>1. \A d \in Clients : ~At(d, "idle")' => Uncaching(job[d].number)'
    BY <1>1 DEF IInv, NumbersOK, Uncaching, At
  <2>2. \A d \in Clients : Waiting(d)' => Unsent(job[d].number)'
    BY <1>1, <1>2 DEF IInv, NumbersOK, Unsent, Waiting
  <2>3. \A d, e \in Clients : d # e /\ ~At(d, "idle")' /\ ~At(e, "idle")' => job'[d].number # job'[e].number
    BY <1>1 DEF IInv, NumbersOK, At
  <2> QED BY <1>1, <1>2, <2>1, <2>2, <2>3 DEF IInv, NumbersOK
<1>6. /\ \A n : Queued(n) \/ Spoilt(n) => Spoilt(n)'
      /\ \A n : StillCaches(n) => StillCaches(n)'
  BY <1>1 DEF Queued, Spoilt, StillCaches, Pending
<1>7. QueueMatchesJobs' /\ CacheMatchesQueue' /\ QueueCrosses' /\ CacheAhead'
  BY <1>2 DEF QueueMatchesJobs, CacheMatchesQueue, QueueCrosses, CacheAhead
<1>8. BoardMatchesJobs' /\ CacheAgrees'
  BY <1>1 DEF IInv, Values, BoardMatchesJobs, CacheAgrees, Pending, LineOf
<1>9. BoardCrosses'
  <2> SUFFICES ASSUME NEW c \in Clients, Pending(c), NEW k \in DOMAIN board \cap DOMAIN Effect(LineOf(c), chip)
               PROVE  \/ obeyedBy[k] = job[c].number \/ {job[c].number, obeyedBy[k]} \in crossed
                      \/ Spoilt(job[c].number)'
    BY <1>1 DEF BoardCrosses, Pending, LineOf, Spoilt
  <2>1. \/ obeyedBy[k] = job[c].number \/ {job[c].number, obeyedBy[k]} \in crossed
        \/ Spoilt(job[c].number) \/ Queued(job[c].number)
    BY DEF IInv, Order, BoardCrosses
  <2> QED BY <1>1, <1>6, <2>1
<1>10. CacheBehind'
  <2> SUFFICES ASSUME NEW k \in DOMAIN config \cap DOMAIN board
               PROVE  \/ cachedBy[k] = obeyedBy[k] \/ {cachedBy[k], obeyedBy[k]} \in crossed
                      \/ Spoilt(cachedBy[k])' \/ StillCaches(obeyedBy[k])'
    BY <1>1 DEF CacheBehind, Spoilt, StillCaches
  <2>1. \/ cachedBy[k] = obeyedBy[k] \/ {cachedBy[k], obeyedBy[k]} \in crossed
        \/ Spoilt(cachedBy[k]) \/ Queued(cachedBy[k]) \/ StillCaches(obeyedBy[k])
    BY DEF IInv, Order, CacheBehind
  <2>2. StillCaches(obeyedBy[k]) => StillCaches(obeyedBy[k])'
    BY <1>1 DEF StillCaches, Pending
  <2> QED BY <1>1, <1>6, <2>1, <2>2 DEF Spoilt
<1> QED BY <1>3, <1>4, <1>5, <1>7, <1>8, <1>9, <1>10 DEF IInv, Values, Order

-----------------------------------------------------------------------------
(***************************************************************************)
(* A board starts, perhaps of another chip.                                *)
(***************************************************************************)
\* No setting of a board is one that the cache leaves out.
LEMMA FreshSettings == ASSUME NEW c PROVE DOMAIN Fresh(c) \cap Uncached = {}
<1>1. DOMAIN Fresh(c) \subseteq DOMAIN FirmwareDefaults(c) \cup {"delivery", "logging", "extra"}
  BY DEF Fresh, Without, ++
<1> QED BY <1>1, DefaultsByChip DEF Uncached

\* What a command sets does not depend on the chip, but for the channel of a reset.
LEMMA EffectByChip ==
  ASSUME NEW command, NEW c, NEW d
  PROVE  /\ DOMAIN Effect(command, c) = DOMAIN Effect(command, d)
         /\ \A k \in DOMAIN Effect(command, c) :
               command.route # "reset" \/ k # "channel" => Effect(command, c)[k] = Effect(command, d)[k]
<1>1. CASE command.route = "reset"
  <2>1. Effect(command, c) = FirmwareDefaults(c) /\ Effect(command, d) = FirmwareDefaults(d)
    BY <1>1 DEF Effect
  <2> QED BY <1>1, <2>1, DefaultsByChip
<1>2. CASE command.route # "reset"
  <2>1. Effect(command, c) = Effect(command, d)
    BY <1>2 DEF Effect
  <2> QED BY <2>1
<1> QED BY <1>1, <1>2

LEMMA BootKeeps ==
  ASSUME IInv, NEW c \in Chips, Boots(c), device_info' \in {"none", c},
         UNCHANGED <<config, job, asked, cachedBy, crossed, cmd_ch, lost, locked>>
  PROVE  IInv'
<1>1. /\ chip' = c /\ board' = Fresh(c) /\ obeyedBy' = [k \in DOMAIN Fresh(c) |-> 0]
      /\ wiped' = wiped \cup Taken /\ blind \subseteq blind' /\ Positions' = Positions
      /\ c # chip => blind' = blind \cup ResetsUnderWay
      /\ StateOK /\ chip \in Chips
  BY DEF Boots, Positions, IInv, StateOK
<1>2. \A d \in Clients : /\ Pending(d)' <=> Pending(d)
                         /\ LineOf(d)' = LineOf(d)
  BY DEF Pending, LineOf
<1>3. \A n \in 1..asked : ~Queued(n) /\ (\A d \in Clients : Waiting(d) => job[d].number # n) => n \in wiped'
  <2> SUFFICES ASSUME NEW n \in 1..asked, ~Queued(n), \A d \in Clients : Waiting(d) => job[d].number # n
               PROVE  n \in Taken
    BY <1>1
  <2>1. \A i \in DOMAIN cmd_ch : cmd_ch[i].from # n
    BY <1>1 DEF Queued, Positions, StateOK
  <2>2. \A d \in Clients : job[d].number = n => job[d].at \in {"idle", "read_reset_chip", "cache"}
    BY <1>1 DEF Waiting, StateOK, Job, Steps
  <2> QED BY <2>1, <2>2 DEF Taken
<1>4. /\ \A n : Spoilt(n) => Spoilt(n)'
      /\ \A n : StillCaches(n) => StillCaches(n)'
      /\ \A n, i : QueuedAfter(n, i)' <=> QueuedAfter(n, i)
      /\ \A n : Queued(n)' <=> Queued(n)
  BY <1>1, <1>2 DEF Spoilt, StillCaches, QueuedAfter, Queued
<1>5. /\ \A d \in Clients : ~At(d, "idle") => job[d].number \in 1..asked /\ Uncaching(job[d].number)
      /\ \A d, e \in Clients : d # e /\ ~At(d, "idle") /\ ~At(e, "idle") => job[d].number # job[e].number
      /\ \A k \in DOMAIN config : cachedBy[k] \in 1..asked
      /\ asked \in Nat
  BY ConfigureAssumption DEF IInv, StateOK, JobsOK, JobOK, NumbersOK
<1>6. ASSUME NEW k \in DOMAIN config PROVE Spoilt(cachedBy[k])' \/ Queued(cachedBy[k])
  <2>1. \A d \in Clients : Waiting(d) => job[d].number # cachedBy[k]
    BY <1>1, <1>5 DEF Uncaching, Waiting, At, StateOK
  <2> QED BY <1>3, <1>5, <2>1 DEF Spoilt
<1>7. ASSUME NEW d \in Clients, Pending(d) PROVE Spoilt(job[d].number)' \/ Queued(job[d].number)
  <2>1. \A e \in Clients : Waiting(e) => job[e].number # job[d].number
    BY <1>5, <1>7 DEF Waiting, Pending, At
  <2>2. job[d].number \in 1..asked
    BY <1>5, <1>7 DEF Pending, At
  <2> QED BY <1>3, <2>1, <2>2 DEF Spoilt
<1>8. StateOK'
  <2>1. DOMAIN obeyedBy' = DOMAIN board' /\ DOMAIN board' \cap Uncached = {}
    BY <1>1, FreshSettings
  <2> QED BY <1>1, <2>1 DEF StateOK
<1>9. JobsOK'
  <2> SUFFICES ASSUME NEW d \in Clients PROVE JobOK(d)'
    BY DEF JobsOK
  <2>1. JobOK(d)
    BY DEF IInv, JobsOK
  <2>2. At(d, "cache") /\ job[d].req.route = "reset" => job[d].chip = c \/ job[d].number \in blind'
    <3>1. CASE c = chip
      BY <1>1, <2>1, <3>1 DEF JobOK
    <3>2. CASE c # chip
      BY <1>1, <3>2 DEF ResetsUnderWay
    <3> QED BY <3>1, <3>2
  <2> QED BY <1>1, <2>1, <2>2 DEF JobOK, At, Waiting, Pending
<1>10. NumbersOK'
  <2>1. \A d \in Clients : Waiting(d)' => Unsent(job[d].number)'
    <3> SUFFICES ASSUME NEW d \in Clients, Waiting(d) PROVE Unsent(job[d].number)'
      BY DEF Waiting
    <3>1. \A i \in Positions : cmd_ch[i].from # job[d].number
      BY DEF IInv, NumbersOK, Unsent
    <3>2. job[d].number # 0
      BY <1>5 DEF Waiting, At
    <3> QED BY <1>1, <3>1, <3>2 DEF Unsent
  <2>2. \A k \in DOMAIN obeyedBy' : obeyedBy'[k] \in 0..asked
    BY <1>1, <1>5
  <2>3. \A d \in Clients : ~At(d, "idle")' => Uncaching(job[d].number)'
    BY <1>5 DEF Uncaching, At
  <2>4. \A d, e \in Clients : d # e /\ ~At(d, "idle")' /\ ~At(e, "idle")' => job'[d].number # job'[e].number
    BY <1>5 DEF At
  <2>5. /\ \A i \in Positions : cmd_ch[i].from \in 0..asked
        /\ \A k \in DOMAIN cachedBy : cachedBy[k] \in 1..asked
    BY DEF IInv, NumbersOK
  <2> QED BY <1>1, <2>1, <2>2, <2>3, <2>4, <2>5 DEF NumbersOK
<1>11. CacheTypeOK'
  BY DEF IInv, CacheTypeOK
<1>12. QueueMatchesJobs' /\ QueueCrosses'
  BY <1>1, <1>2, <1>4 DEF IInv, Values, Order, QueueMatchesJobs, QueueCrosses
<1>13. BoardMatchesJobs'
  <2> SUFFICES ASSUME NEW d \in Clients, Pending(d), NEW k \in DOMAIN board', obeyedBy'[k] = job[d].number
               PROVE  FALSE
    BY <1>2 DEF BoardMatchesJobs
  <2>1. job[d].number # 0
    BY <1>5 DEF Pending, At
  <2> QED BY <1>1, <2>1
<1>14. CacheAgrees'
  <2> SUFFICES ASSUME NEW k \in DOMAIN config, k \in DOMAIN board', cachedBy[k] = obeyedBy'[k]
               PROVE  FALSE
    BY DEF CacheAgrees
  <2> QED BY <1>1, <1>5
<1>15. CacheMatchesQueue'
  <2> SUFFICES ASSUME NEW i \in Positions, NEW k \in DOMAIN config \ Uncached, cachedBy[k] = cmd_ch[i].from
               PROVE  /\ k \in DOMAIN Effect(cmd_ch[i], c)
                      /\ ~Blind(k, cachedBy[k])' => config[k] = Effect(cmd_ch[i], c)[k]
    BY <1>1 DEF CacheMatchesQueue, Blind
  <2>1. /\ k \in DOMAIN Effect(cmd_ch[i], chip)
        /\ ~Blind(k, cachedBy[k]) => config[k] = Effect(cmd_ch[i], chip)[k]
    BY DEF IInv, Values, CacheMatchesQueue
  <2>2. /\ k \in DOMAIN Effect(cmd_ch[i], c)
        /\ cmd_ch[i].route # "reset" \/ k # "channel" => Effect(cmd_ch[i], c)[k] = Effect(cmd_ch[i], chip)[k]
    BY <2>1, EffectByChip
  <2>3. Blind(k, cachedBy[k]) => Blind(k, cachedBy[k])'
    BY <1>1 DEF Blind
  <2>4. CASE c = chip
    BY <2>1, <2>2, <2>3, <2>4
  <2>5. CASE cmd_ch[i].route # "reset" \/ k # "channel"
    BY <2>1, <2>2, <2>3, <2>5
  <2>6. CASE c # chip /\ cmd_ch[i].route = "reset" /\ k = "channel"
    <3>1. i \in DOMAIN cmd_ch
      BY <1>1 DEF Positions, StateOK
    <3>2. cmd_ch[i].from \in ResetsUnderWay
      BY <2>6, <3>1 DEF ResetsUnderWay
    <3> QED BY <1>1, <2>2, <2>6, <3>2 DEF Blind
  <2> QED BY <2>4, <2>5, <2>6
<1>16. BoardCrosses'
  <2> SUFFICES ASSUME NEW d \in Clients, Pending(d)
               PROVE  Spoilt(job[d].number)' \/ Queued(job[d].number)'
    BY <1>2 DEF BoardCrosses, Spoilt, Queued
  <2>1. Queued(job[d].number) => Queued(job[d].number)'
    BY <1>1 DEF Queued
  <2> QED BY <1>7, <2>1
<1>17. CacheBehind'
  <2> SUFFICES ASSUME NEW k \in DOMAIN config
               PROVE  Spoilt(cachedBy[k])' \/ Queued(cachedBy[k])'
    BY DEF CacheBehind
  <2>1. Queued(cachedBy[k]) => Queued(cachedBy[k])'
    BY <1>1 DEF Queued
  <2> QED BY <1>6, <2>1
<1>18. CacheAhead'
  <2> SUFFICES ASSUME NEW i \in Positions,
                      NEW k \in (DOMAIN config \cap DOMAIN Effect(cmd_ch[i], c)) \ Uncached
               PROVE  \/ cachedBy[k] = cmd_ch[i].from \/ {cachedBy[k], cmd_ch[i].from} \in crossed
                      \/ Spoilt(cachedBy[k])' \/ QueuedAfter(cachedBy[k], i)'
                      \/ StillCaches(cmd_ch[i].from)'
    BY <1>1 DEF CacheAhead
  <2>1. k \in DOMAIN Effect(cmd_ch[i], chip)
    BY EffectByChip
  <2>2. \/ cachedBy[k] = cmd_ch[i].from \/ {cachedBy[k], cmd_ch[i].from} \in crossed
        \/ Spoilt(cachedBy[k]) \/ QueuedAfter(cachedBy[k], i) \/ StillCaches(cmd_ch[i].from)
    BY <2>1 DEF IInv, Order, CacheAhead
  <2>3. /\ Spoilt(cachedBy[k]) => Spoilt(cachedBy[k])'
        /\ QueuedAfter(cachedBy[k], i) => QueuedAfter(cachedBy[k], i)'
        /\ StillCaches(cmd_ch[i].from) => StillCaches(cmd_ch[i].from)'
    BY <1>1, <1>2 DEF Spoilt, QueuedAfter, StillCaches
  <2> QED BY <2>2, <2>3
<1> QED BY <1>8, <1>9, <1>10, <1>11, <1>12, <1>13, <1>14, <1>15, <1>16, <1>17, <1>18 DEF IInv, Values, Order

LEMMA RestartKeeps ==
  ASSUME IInv, Reconnect \/ Reboot
  PROVE  IInv'
<1>1. /\ UNCHANGED <<config, job, asked, cachedBy, crossed, cmd_ch, lost, locked, device_info>>
      /\ chip \in Chips /\ device_info \in {"none", chip}
  BY DEF Reconnect, Reboot, Others, handleVars, IInv, StateOK
<1>2. CASE UNCHANGED <<boardVars, obeyedBy, blind, wiped>>
  <2>1. UNCHANGED <<chip, board, obeyedBy, blind, wiped>>
    BY <1>2 DEF boardVars
  <2>2. StateOK' /\ JobsOK' /\ CacheTypeOK'
    BY <1>1, <2>1 DEF IInv, StateOK, JobsOK, CacheTypeOK, JobOK, At, Waiting, Pending
  <2>3. NumbersOK'
    BY <1>1, <2>1, NumbersKept DEF IInv, At, Waiting
  <2>4. Values' /\ Order'
    BY <1>1, <2>1, Bystander DEF IInv, Pending, LineOf
  <2> QED BY <2>2, <2>3, <2>4 DEF IInv
<1>3. CASE Reconnect /\ ~UNCHANGED <<boardVars, obeyedBy, blind, wiped>>
  <2>1. PICK c \in Chips : Boots(c)
    BY <1>3 DEF Reconnect
  <2>2. device_info' \in {"none", c}
    BY <1>1, <1>3 DEF Reconnect, Forgotten
  <2> QED BY <1>1, <2>1, <2>2, BootKeeps
<1>4. CASE Reboot
  BY <1>1, <1>4, BootKeeps DEF Reboot
<1> QED BY <1>2, <1>3, <1>4

LEMMA InitIInv == Init => IInv
<1> SUFFICES ASSUME Init PROVE IInv
  OBVIOUS
<1>1. /\ DOMAIN config = {} /\ DOMAIN cachedBy = {} /\ cmd_ch = <<>>
      /\ asked = 0 /\ chip \in Chips /\ device_info = chip /\ obeyedBy = [k \in DOMAIN board |-> 0]
  BY DEF Init
<1>2. job = [c \in Clients |-> Idle] /\ Idle.at = "idle" /\ Idle \in Job
  <2>1. "idle" \in Steps /\ 0 \in 0..MaxRequests
    BY ConfigureAssumption DEF Steps
  <2>2. Idle = [at |-> "idle", req |-> Idle.req, chip |-> "none", number |-> 0]
    BY DEF Idle
  <2>3. Idle.at = "idle"
    BY <2>2
  <2>4. Idle \in Job
    <3> HIDE DEF Idle
    <3> QED BY <2>1, <2>2 DEF Job, Known
  <2> QED BY <2>3, <2>4 DEF Init
<1>3. \A c \in Clients : At(c, "idle") /\ ~Waiting(c) /\ ~Pending(c)
  BY <1>2 DEF At, Waiting, Pending
<1>4. Positions = {}
  BY <1>1 DEF Positions
<1>5. DOMAIN board \cap Uncached = {}
  BY FreshSettings DEF Init
<1>6. StateOK
  <2>1. job \in [Clients -> Job]
    BY <1>2
  <2> QED BY <1>1, <1>5, <2>1, ConfigureAssumption DEF StateOK
<1>7. JobsOK
  BY <1>3 DEF JobsOK, JobOK, At
<1>8. NumbersOK
  BY <1>1, <1>3, <1>4 DEF NumbersOK
<1>9. CacheTypeOK
  BY <1>1 DEF CacheTypeOK
<1>10. Values
  BY <1>1, <1>3, <1>4 DEF Values, QueueMatchesJobs, BoardMatchesJobs, CacheMatchesQueue, CacheAgrees
<1>11. Order
  BY <1>1, <1>3, <1>4 DEF Order, QueueCrosses, BoardCrosses, CacheBehind, CacheAhead
<1> QED BY <1>6, <1>7, <1>8, <1>9, <1>10, <1>11 DEF IInv

\* A step that changes nothing.
LEMMA StutterKeeps == ASSUME IInv, UNCHANGED vars PROVE IInv'
<1>1. UNCHANGED <<config, chip, board, cmd_ch, job, asked, device_info, cachedBy, obeyedBy, crossed, blind, lost, locked, wiped>>
  BY DEF vars, handleVars, boardVars, historyVars
<1>2. StateOK' /\ JobsOK' /\ CacheTypeOK'
  BY <1>1 DEF IInv, StateOK, JobsOK, CacheTypeOK, JobOK, At, Waiting, Pending
<1>3. NumbersOK'
  BY <1>1, NumbersKept DEF IInv, At, Waiting
<1>4. Values' /\ Order'
  BY <1>1, Bystander DEF IInv, Pending, LineOf
<1> QED BY <1>2, <1>3, <1>4 DEF IInv

\* The invariant holds in every state.
LEMMA Invariance == Spec => []IInv
<1>1. ASSUME IInv, [Next]_vars PROVE IInv'
  <2>1. CASE UNCHANGED vars
    BY <1>1, <2>1, StutterKeeps
  <2>2. CASE TaskStep
    BY <1>1, <2>2, WriteKeeps, LinkKeeps, RestartKeeps, EndKeeps DEF TaskStep
  <2>3. ASSUME NEW c \in Clients, Handler(c) PROVE IInv'
    BY <1>1, <2>3, ArriveKeeps, ChecksKeep, SendKeeps, ReadResetChipKeeps, CacheKeeps DEF Handler
  <2> QED BY <1>1, <2>1, <2>2, <2>3 DEF Next
<1> QED BY <1>1, InitIInv, PTL DEF Spec

-----------------------------------------------------------------------------
(***************************************************************************)
(* The theorems.                                                           *)
(***************************************************************************)
\* What the cache holds of a setting is of the setting's kind, in the spelling of the
\* device, and the queue and the handlers are as their types say.
THEOREM TypeCorrect == Spec => []ConfigureTypeOK
<1>1. IInv => ConfigureTypeOK
  <2> SUFFICES ASSUME IInv PROVE ConfigureTypeOK
    OBVIOUS
  <2>1. /\ \A k \in DOMAIN config \cap (Numbers \cup Gates) : config[k] \in Nat
        /\ "ht40" \in DOMAIN config => config["ht40"] \in {"above", "below", "none"}
        /\ "protocol" \in DOMAIN config => config["protocol"] \in Protocols \cup ExtraProtocols
        /\ "mode" \in DOMAIN config => config["mode"] \in WifiModes \cup ExtraModes
    BY DEF IInv, CacheTypeOK, Typed
  <2>2. \A c \in Clients : job[c].at \in Steps
    BY DEF IInv, StateOK, Job
  <2> QED BY <2>1, <2>2 DEF IInv, StateOK, ConfigureTypeOK
<1> QED BY <1>1, Invariance, PTL

\* A setting that the cache and the board have from one request has one value in both,
\* whatever the requests, the chips the handlers saw, the order of their steps, and the
\* reboots and exchanges of the board.
THEOREM CacheMatchesBoard == Spec => []CacheAgrees
<1>1. IInv => CacheAgrees
  BY DEF IInv, Values
<1> QED BY <1>1, Invariance, PTL

\* The cache differs from the board only by requests that crossed, or whose command was
\* lost with the link or the task, found the CLI locked, or was taken before a reboot.
THEOREM DriftIsCaused == Spec => []DriftHasCause
<1>1. IInv => DriftHasCause
  <2> SUFFICES ASSUME IInv, Quiet, NEW k \in DOMAIN config \cap DOMAIN board, Drifted(k)
               PROVE  cachedBy[k] \in lost \cup locked \cup wiped
    BY DEF DriftHasCause
  <2>1. Positions = {} /\ \A c \in Clients : ~Pending(c)
    BY DEF Quiet, Positions, At, Pending
  <2>2. \/ cachedBy[k] = obeyedBy[k] \/ {cachedBy[k], obeyedBy[k]} \in crossed
        \/ Spoilt(cachedBy[k]) \/ Queued(cachedBy[k]) \/ StillCaches(obeyedBy[k])
    BY DEF IInv, Order, CacheBehind
  <2> QED BY <2>1, <2>2 DEF Drifted, Spoilt, Queued, StillCaches
<1> QED BY <1>1, Invariance, PTL

=============================================================================
