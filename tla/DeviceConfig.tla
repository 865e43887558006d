--------------------------- MODULE DeviceConfig ---------------------------
(***************************************************************************)
(* The configuration of a device: which request bodies are accepted, the   *)
(* command line each becomes, and what the handler then writes into the    *)
(* server's cache.  A body, a command's flags, the cache and a CSI section *)
(* are functions from the settings that are present to their values.       *)
(* A request is [route |-> ..., body |-> ...].                             *)
(***************************************************************************)
EXTENDS Naturals

CONSTANTS
    ExtraModes, ExtraProtocols,  \* what the CsiProfile of an embedder adds
    Presets,                     \* its preset_cli: name -> the CSI settings that the line makes
    Resolved                     \* the names that its resolve_preset has a section for, the same

\* The settings of f, and of g those that f does not have.
f ++ g == [k \in DOMAIN f \cup DOMAIN g |-> IF k \in DOMAIN f THEN f[k] ELSE g[k]]

-----------------------------------------------------------------------------
WifiModes == {"station", "sniffer", "wifi-ap", "ht20-emitter", "ht40-emitter", "esp-now-initiator",
              "esp-now-responder", "esp-now-simplex-source", "esp-now-simplex-peer"}

FixedReporting == WifiModes \ {"station", "wifi-ap", "esp-now-initiator", "esp-now-responder"}

Protocols == {"b", "g", "n", "lr", "a", "ac"}

\* to_ascii_lowercase, on the spellings that occur.
Lower(p) == CASE p = "LR" -> "lr" [] p = "Ac" -> "ac" [] OTHER -> p

\* Texts and addresses stand for their kind; these kinds are refused.
BadTexts == {"33 bytes", "a newline", "both quotes"}
BadMacs  == {"aabbccddeeff", "aa:bb"}

CsiFlags    == {"lltf", "htltf", "stbc_htltf", "ltf_merge", "csi", "csi_legacy", "csi_ht20", "csi_ht40",
                "dump_ack", "csi_force_lltf", "csi_vht", "val_scale_cfg"}
CsiSettings == CsiFlags \cup {"channel_filter", "manual_scale", "shift", "extra"}
Gates       == {"csi", "csi_legacy", "csi_ht20", "csi_ht40"}  \* u32 on the device, bool in the body

\* default_wifi_channel: esp-csi-cli-rs's lab channel; an unknown chip has 1.
DefaultChannel(chip) == CASE chip = "esp32c5" -> 149 [] chip = "esp32c6" -> 6 [] OTHER -> 1

CsiDefaults ==
    [f \in CsiSettings \ {"extra"} |->
        CASE f \in Gates -> 1 [] f = "val_scale_cfg" -> 2 [] f = "shift" -> 0
          [] f \in {"channel_filter", "manual_scale"} -> "off" [] OTHER -> "on"]

\* firmware_defaults_for_chip; the delivery settings are None.
PlainDefaults ==
    [mode |-> "sniffer", sta_ssid |-> "", ap_ssid |-> "esp-csi-ap",
     ap_dhcp |-> "on", ap_leases |-> 4, ap_burst |-> "off", peer_mac |-> "broadcast", ht40 |-> "none",
     reporting |-> "report", csi_output |-> "on", periodicity_hz |-> 100, unsolicited |-> "off",
     phy_rate |-> "mcs0-lgi", protocol |-> "lr", io_tx |-> "on", io_rx |-> "on"]
SharedDefaults == PlainDefaults ++ CsiDefaults
FirmwareDefaults(chip) == [channel |-> DefaultChannel(chip)] ++ SharedDefaults

-----------------------------------------------------------------------------
(* The bodies of the routes, as serde deserialises them. *)

Routes == {"wifi", "measurement", "csi", "csi-output", "rate", "protocol", "io-tasks", "csi-delivery",
           "reset", "stats"}

Fields(route) ==
    CASE route = "wifi" -> {"mode", "channel", "sta_ssid", "sta_password", "ap_ssid", "ap_password",
                            "ap_dhcp", "ap_leases", "ap_burst", "peer_mac", "ht40", "emitter_iface",
                            "reporting", "wifi_extra"}
      [] route = "measurement"  -> {"periodicity_hz", "unsolicited"}
      [] route = "csi"          -> CsiFlags \cup {"extra", "preset"}
      [] route = "csi-output"   -> {"csi_output"}
      [] route = "rate"         -> {"phy_rate"}
      [] route = "protocol"     -> {"protocol"}
      [] route = "io-tasks"     -> {"io_tx", "io_rx"}
      [] route = "csi-delivery" -> {"delivery", "logging"}
      [] OTHER                  -> {}

\* The fields that are numbers.
Numbers == {"channel", "ap_leases", "periodicity_hz"}

\* Those that are not Options.
Required(route) ==
    CASE route = "wifi" -> {"mode"} [] route = "measurement" -> {"periodicity_hz"}
      [] route \in {"csi-output", "rate", "protocol"} -> Fields(route) [] OTHER -> {}

Parses(req) ==
    LET present == DOMAIN req.body
    IN  /\ req.route \in Routes /\ present \subseteq Fields(req.route)
        /\ Required(req.route) \subseteq present
        /\ \A f \in present \cap Numbers : req.body[f] \in Nat

-----------------------------------------------------------------------------
(* Validation: what to_cli_command accepts. *)

\* Every field of F that the body has is one of Values.
Among(body, F, Values) == \A f \in DOMAIN body \cap F : body[f] \in Values
Legible(body, F)       == \A f \in DOMAIN body \cap F : body[f] \notin BadTexts

AcceptsWifi(body) ==
    /\ body.mode \in WifiModes \cup ExtraModes
    /\ Legible(body, {"sta_ssid", "sta_password", "ap_ssid", "ap_password"})
    /\ Among(body, {"ap_leases"}, 1..8)
    /\ "peer_mac" \in DOMAIN body => body.peer_mac \notin BadMacs
    /\ Among(body, {"ht40"}, {"above", "below", "none", "off"})
    /\ Among(body, {"emitter_iface"}, {"sta", "ap"})
    /\ "reporting" \in DOMAIN body => body.mode \notin FixedReporting

Accepts(req) ==
    LET body == req.body
    IN  CASE req.route = "wifi"         -> AcceptsWifi(body)
          [] req.route = "csi"          -> Among(body, {"preset"}, {"default"} \cup DOMAIN Presets)
          [] req.route = "protocol"     -> Lower(body.protocol) \in Protocols \cup ExtraProtocols
          [] req.route = "io-tasks"     -> DOMAIN body # {}
          [] req.route = "csi-delivery" -> /\ DOMAIN body # {}
                                           /\ Among(body, {"delivery"}, {"off", "callback", "async", "raw"})
          [] OTHER                      -> TRUE

-----------------------------------------------------------------------------
(* The command line. *)

\* A mode other than station always states the channel; a preset is sent alone.
Flags(req, chip) ==
    LET body == req.body
    IN  CASE req.route = "wifi" /\ body.mode # "station" -> body ++ [channel |-> DefaultChannel(chip)]
          [] req.route = "csi" /\ "preset" \in DOMAIN body -> [preset |-> body.preset]
          [] req.route = "protocol" -> [protocol |-> Lower(body.protocol)]
          [] OTHER -> body

-----------------------------------------------------------------------------
(* The cache. *)

Without(config, F) == [f \in DOMAIN config \ F |-> config[f]]

\* Mutant: the aliases of the device are cached as they were sent.
NormalVerbatim(f, v) ==
    CASE f = "protocol" -> Lower(v)
      [] f \in Gates    -> IF v = "on" THEN 1 ELSE 0
      [] OTHER          -> v

Normal(f, v) ==
    CASE f = "peer_mac" /\ v = "" -> "broadcast"
      [] f = "ht40" /\ v = "off"  -> "none"
      [] f = "protocol"           -> Lower(v)
      [] f \in Gates              -> IF v = "on" THEN 1 ELSE 0
      [] OTHER                    -> v

\* The passwords, the interface and the unnamed flags of a set-wifi are not cached.
Uncached    == {"sta_password", "ap_password", "emitter_iface", "wifi_extra"}
Noted(body) == [f \in DOMAIN body \ Uncached |-> Normal(f, body[f])]

\* The CSI section that a preset is cached as: resolve_preset, else the firmware's defaults.
Section(preset) == IF preset \in Resolved THEN Presets[preset] ELSE CsiDefaults

CachedWifi(config, body, chip) ==
    IF body.mode = "station" THEN Noted(body) ++ config
    ELSE Noted(body) ++ [channel |-> DefaultChannel(chip)] ++ config

CachedCsi(config, body) ==
    IF "preset" \in DOMAIN body THEN Section(body.preset) ++ Without(config, CsiSettings)
    ELSE Noted(body) ++ config

Cached(config, req, chip) ==
    CASE req.route = "wifi"  -> CachedWifi(config, req.body, chip)
      [] req.route = "csi"   -> CachedCsi(config, req.body)
      [] req.route = "reset" -> FirmwareDefaults(chip)
      [] OTHER               -> Noted(req.body) ++ config

\* The settings a request is about: those it leaves with a value of its own.
Sets(req, chip) ==
    CASE req.route = "reset" -> DOMAIN FirmwareDefaults(chip)
      [] req.route = "csi" /\ "preset" \in DOMAIN req.body -> DOMAIN Section(req.body.preset)
      [] OTHER -> DOMAIN Noted(Flags(req, chip))

=============================================================================
