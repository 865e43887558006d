--------------------------- MODULE MCConfigure ---------------------------
(***************************************************************************)
(* Configure on requests of every route, the aliases, defaults, presets    *)
(* and refusals among them.                                                *)
(***************************************************************************)
EXTENDS Configure, TLC

NoExtra   == {}
OnePreset == [he |-> [csi |-> 1, csi_vht |-> "off", extra |-> "he20"]]
OneName   == {"he"}
TwoChips  == {"esp32c5", "esp32"}

Req(route, body) == [route |-> route, body |-> body]
Alike == Permutations(Clients)
Nothing == [k \in {} |-> 0]

\* A mode without and with a channel and with aliases, one whose reporting is fixed,
\* a preset next to flags that it overrides, a capital spelling, an empty body.
SomeRequests ==
    { Req("wifi", [mode |-> "station", sta_ssid |-> "lab", sta_password |-> "secret"]),
      Req("wifi", [mode |-> "wifi-ap", ht40 |-> "off", peer_mac |-> "", wifi_extra |-> "x"]),
      Req("wifi", [mode |-> "sniffer", reporting |-> "report"]),
      Req("csi", [preset |-> "he", csi |-> "off"]), Req("csi", [csi |-> "off", extra |-> "x"]),
      Req("protocol", [protocol |-> "LR"]), Req("io-tasks", Nothing),
      Req("csi-delivery", [delivery |-> "raw"]),
      Req("reset", Nothing), Req("stats", Nothing) }

=============================================================================
