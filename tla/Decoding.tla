------------------------------ MODULE Decoding ------------------------------
(***************************************************************************)
(* One board, its line and the host's decoder over a session: the radio    *)
(* measures, the firmware writes the measurement in its generation's form, *)
(* the line may cut, thin or lose it, and the serial task (serial.rs:817)  *)
(* decodes what arrives and pushes the row to the sink.  A host that asked *)
(* for array-list reads the lines with decode_array_list instead.          *)
(*                                                                         *)
(* The radio and the firmware are not under src/: they are modelled from   *)
(* what the vendored wire module and the layouts say of them.              *)
(***************************************************************************)
EXTENDS WireFormat

LOCAL INSTANCE Functions

CONSTANTS Chips,        \* chips a board may carry
          Firmwares,    \* "old" (before 0.12), "wire" (0.12), "newer" (a later wire version)
          Macs,         \* transmitters
          Measured(_, _),  \* the measurements a chip may take n-th, some of Measurements(chip)
          MaxFrames     \* bound: frames a board writes in the session

ASSUME DecodingAssumption ==
    /\ Chips \subseteq DOMAIN Variant
    /\ Firmwares \subseteq {"old", "wire", "newer"}
    /\ MaxFrames \in Nat \ {0}

VARIABLES board,     \* [chip, firmware, form] of the session
          sent,      \* what the board wrote, in order
          line,      \* the bytes on the line: at most one frame
          rows,      \* the rows pushed to the sink, each with the frame it came from
          refused    \* history: the undamaged frames that gave neither row nor announcement

vars == <<board, sent, line, rows, refused>>

-----------------------------------------------------------------------------
(* The radio: a measurement, and the training fields it writes for it. *)

He == {chip \in DOMAIN Variant : Variant[chip] # "Esp32Family"}

Measurements(chip) ==
    { c \in [ side : 0..2, ppdu : {"NonHt", "Ht", "Vht", "HeSu"}, forty : BOOLEAN, stbc : BOOLEAN,
              fields : {"all", "first", "last"}, ta : Macs, header : {"none", "data", "ack"},
              frame_seq : {{}, {7}}, report : {"EspRaw", "Variation", "Grouped"} ] :
        /\ c.forty => c.ppdu = "Ht" /\ c.side # 0
        /\ c.stbc  => c.ppdu = "Ht"
        /\ chip \notin He => c.ppdu \in {"NonHt", "Ht"}
        /\ c.fields = "first" => chip \notin He \/ c.ppdu # "NonHt"   \* the C5 forces the L-LTF
        /\ c.fields = "last"  => chip \notin He /\ c.ppdu = "Ht"      \* the classic drops it
        /\ c.report # "EspRaw" => c.ppdu = "Ht" /\ c.fields = "all" /\ ~c.forty /\ ~c.stbc }

Around(side, half) ==
    CASE side = 0 -> Split(half, half) [] side = 2 -> Upper(2 * half) [] side = 1 -> Lower(2 * half + 1)

ClassicFields(c) ==
    LET one(n, m) == CASE c.side = 0 -> Split(31, 32) [] c.side = 2 -> Upper(n) [] c.side = 1 -> Lower(m)
        lltf == <<L(one(63, 64))>>
        ht   == IF c.forty THEN IF c.stbc THEN Split(60, 60) ELSE Split(63, 64)
                ELSE IF c.stbc THEN one(62, 62) ELSE one(63, 64)
        hts  == IF c.ppdu # "Ht" THEN <<>> ELSE IF c.stbc THEN <<Ht(ht), Ht2(ht)>> ELSE <<Ht(ht)>>
    IN  CASE c.fields = "all" -> lltf \o hts
          [] c.fields = "first" -> lltf
          [] c.fields = "last" -> hts

\* The C5 reports one kind of field.  HE and VHT beside a secondary channel, and the C6
\* altogether, have no published table: their buffer is one of unnamed subcarriers.
Published(chip, c) == chip # "esp32c6" /\ (c.ppdu \in {"Vht", "HeSu"} => c.side = 0 \/ c.fields = "first")

HeFields(c) ==
    LET ht == IF c.forty THEN Split(58, 58) ELSE Around(c.side, 28)
    IN  CASE c.fields = "first" \/ c.ppdu = "NonHt" -> <<L(Around(c.side, 26))>>
          [] c.ppdu = "HeSu" -> <<Seg("HeLtf", Split(122, 122))>>
          [] c.stbc -> <<Ht(ht), Ht2(ht)>>
          [] OTHER  -> <<Ht(ht)>>

Fields(chip, c) == IF chip \in He THEN HeFields(c) ELSE ClassicFields(c)

\* The longest buffer is a classic 40 MHz one with all its fields.
ASSUME FieldsAssumption ==
    \A chip \in DOMAIN Variant,
       c \in [side : 0..2, ppdu : {"NonHt", "Ht", "Vht", "HeSu"}, forty : BOOLEAN, stbc : BOOLEAN,
              fields : {"all", "first", "last"}] :
        BytesOf(Fields(chip, c)) \in 0..612

-----------------------------------------------------------------------------
(* The firmware *)

Side == [n \in 0..2 |-> CASE n = 0 -> "None" [] n = 1 -> "Above" [] n = 2 -> "Below"]

BbFormat == [NonHt |-> 1, Ht |-> 2, Vht |-> 3, HeSu |-> 4]

Layout(chip, c) ==
    LET len == BytesOf(Fields(chip, c))
    IN  CASE chip = "esp32c5" -> ClassifyC5(BbFormat[c.ppdu], c.side, len)
          [] chip = "esp32c6" -> "Unknown"
          [] OTHER -> ClassifyClassic(c.side, IF c.ppdu = "Ht" THEN 1 ELSE 0, c.forty, c.stbc, len)

Frame(chip, c) ==
    [ meta |-> [ secondary |-> Side[c.side], ppdu |-> c.ppdu, frame_seq |-> c.frame_seq,
                 bandwidth |-> IF chip \in He THEN {} ELSE {IF c.forty THEN 40 ELSE 20},
                 stbc |-> IF chip \in He THEN {} ELSE {c.stbc},
                 stated |-> IF chip \in He THEN {} ELSE PacketAColumns \ ClassicColumns,
                 vendor |-> IF chip \in He THEN "EspHe" ELSE "EspClassic" ],
      header |-> Digest([kind |-> c.header, addr2 |-> c.ta]),
      stimulus_ta |-> c.ta,
      payload |-> IF c.report = "EspRaw"
                  THEN [kind |-> "EspRaw", layout |-> Layout(chip, c), bytes |-> BytesOf(Fields(chip, c))]
                  ELSE [kind |-> c.report, value |-> 9] ]

\* What the format code says of a measurement on the classic MAC.
TrueFormat(c) == <<Side[c.side], c.ppdu, IF c.forty THEN 40 ELSE 20, c.stbc>>

Packet(chip, c) ==
    LET bytes == BytesOf(Fields(chip, c))
    IN  [ mac |-> c.ta, sequence_number |-> Or(c.frame_seq, 0), csi_data_len |-> bytes, csi_data |-> bytes,
          secondary |-> c.side, data_format |-> IF chip \in He THEN Undefined ELSE TrueFormat(c) ]

\* A frame starts with its version; an old packet with a transmitter's address, whose
\* first byte is even.
Version == [old |-> 0, wire |-> WIRE_VERSION, newer |-> WIRE_VERSION + 1]

Serialized(n, body, frames, packets) ==
    [ by |-> board.firmware, version |-> Version[board.firmware], whole |-> TRUE, damaged |-> FALSE,
      id |-> n, body |-> body, layout |-> Variant[board.chip], frame |-> frames, packet |-> packets,
      env |-> [version |-> WIRE_VERSION, session_id |-> 1, stream_seq |-> n] ]

ArrayListLine(n, c) ==
    LET samples == BytesOf(Fields(board.chip, c))
    IN  [ id |-> n, whole |-> TRUE, damaged |-> FALSE, fields |-> 16, seq |-> Or(c.frame_seq, 0),
          claimed |-> samples, samples |-> samples, tail |-> IF board.firmware = "old" THEN {} ELSE {c.ta} ]

Announcement == "announcement"

Init ==
    /\ board \in [chip : Chips, firmware : Firmwares, form : {"serialized", "array_list"}]
    /\ sent = <<>> /\ line = {} /\ rows = <<>> /\ refused = {}

Announce ==
    /\ board.form = "serialized" /\ board.firmware # "old"
    /\ sent = <<>>
    /\ sent' = <<Announcement>>
    /\ line' = {Serialized(1, "Session", {}, {})}
    /\ UNCHANGED <<board, rows, refused>>

Measure ==
    /\ line = {} /\ Len(sent) < MaxFrames
    /\ \E c \in Measured(board.chip, Len(sent) + 1) :
          LET n == Len(sent) + 1
          IN  /\ c \in Measurements(board.chip)
              /\ board.form = "array_list" \/ board.firmware = "old" => c.report = "EspRaw"
              /\ sent' = Append(sent, c)
              /\ line' = { IF board.form = "array_list" THEN ArrayListLine(n, c)
                           ELSE Serialized(n, "Csi", Frame(board.chip, c), Packet(board.chip, c)) }
    /\ UNCHANGED <<board, rows, refused>>

-----------------------------------------------------------------------------
(* The line *)

Lose == line # {} /\ line' = {} /\ UNCHANGED <<board, sent, rows, refused>>

\* The end is lost.
Cut ==
    /\ \E b \in line : ~b.damaged /\ line' = {[b EXCEPT !.whole = FALSE, !.damaged = TRUE]}
    /\ UNCHANGED <<board, sent, rows, refused>>

\* Bytes are lost between two samples: a binary frame is short of its claimed length, a
\* line keeps its brackets.
Thin ==
    /\ \E b \in line :
          /\ ~b.damaged
          /\ line' = { IF board.form = "serialized" THEN [b EXCEPT !.whole = FALSE, !.damaged = TRUE]
                       ELSE [b EXCEPT !.samples = @ - 2, !.damaged = TRUE] }
    /\ UNCHANGED <<board, sent, rows, refused>>

-----------------------------------------------------------------------------
(* The host *)

\* A packet that was never sent, as the old reader may see one in foreign bytes.
Accident == [ mac |-> "accident", sequence_number |-> 0, data_format |-> <<"None", "Ht", 20, FALSE>>,
              csi_data_len |-> 0, csi_data |-> 218, secondary |-> 0 ]

Decode(b, misread) ==
    IF board.form = "array_list" THEN DecodeArrayList(b)
    ELSE DecodeFrame(b, Variant[board.chip], misread)

Receive ==
    \E b \in line, misread \in {{}, {Accident}} :
        LET out == Decode(b, misread)
        IN  /\ rows' = IF out.rows = {} THEN rows
                       ELSE Append(rows, [id |-> b.id, row |-> CHOOSE r \in out.rows : TRUE])
            /\ refused' = IF out.kind \in {"Csi", "Session"} \/ b.damaged THEN refused
                          ELSE refused \cup {b.id}
            /\ line' = {}
            /\ UNCHANGED <<board, sent>>

Next == Announce \/ Measure \/ Lose \/ Cut \/ Thin \/ Receive

Spec == Init /\ [][Next]_vars

-----------------------------------------------------------------------------
(* Properties *)

Genuine(r) == r.row.mac # Accident.mac

\* Types: a row names a frame of the session and has the columns of one chip family at
\* most (src/src/csi.rs:775-777 fills them by chip).
DecodingTypeOK ==
    /\ board \in [chip : Chips, firmware : Firmwares, form : {"serialized", "array_list"}]
    /\ Len(sent) <= MaxFrames /\ Cardinality(line) <= 1
    /\ refused \subseteq DOMAIN sent
    /\ \A i \in DOMAIN rows :
          /\ rows[i].id \in DOMAIN sent
          /\ rows[i].row.columns \cap ClassicColumns = {} \/ rows[i].row.columns \cap HeColumns = {}
          /\ rows[i].row.csi_data \in 0..612

\* A row that names its subcarriers names those the radio wrote, in the order it wrote
\* them, and within the width of their channel, whatever fields the CSI configuration
\* switched off; and a full buffer of a published format is always named
\* (LayoutId::classify_classic, classify_c5, DecodedCsi::subcarrier_indices).
SubcarriersTrue ==
    \A i \in DOMAIN rows :
        LET row == rows[i].row
            c   == sent[rows[i].id]
        IN  /\ \A named \in SubcarrierIndices(row) :
                   /\ Published(board.chip, c)
                   /\ named = Subcarriers(Fields(board.chip, c))
            /\ \A freqs \in SubcarrierFreqs(row) : \A f \in Range(freqs) :
                   f >= -20000000 /\ f <= 20000000 /\ (c.ppdu = "HeSu" /\ c.fields = "all" => f >= -10000000 /\ f <= 10000000)
            /\ row.wire_version # {} /\ c.report = "EspRaw" /\ Published(board.chip, c)
                  /\ (c.fields = "all" \/ board.chip = "esp32c5")
               => SubcarrierIndices(row) # {}

\* The format code and the secondary channel of a binary row from the classic MAC are the
\* measurement's, whichever firmware generation wrote it, so consumers that key on the
\* code see no difference across an update (legacy_format, from_wire).
CodeAgrees ==
    \A i \in DOMAIN rows :
        Genuine(rows[i]) /\ board.form = "serialized" =>
            LET c == sent[rows[i].id]
            IN  /\ rows[i].row.secondary = {c.side}
                /\ board.chip \notin He => rows[i].row.data_format = TrueFormat(c)

\* A row holds the whole measurement of one frame: damaged or not, no frame or line
\* becomes a row with fewer samples than were measured, or with another transmitter
\* (decode_array_list's count, CsiFrame::transmitter).
RowsAreWhole ==
    \A i \in DOMAIN rows :
        Genuine(rows[i]) =>
            LET row == rows[i].row
                c   == sent[rows[i].id]
            IN  /\ row.mac \in {c.ta} \cup IF board.form = "array_list" THEN {NoMac} ELSE {}
                /\ row.csi_data = row.csi_data_len
                /\ row.csi_data = IF c.report = "EspRaw" \/ board.form = "array_list"
                                  THEN BytesOf(Fields(board.chip, c)) ELSE 0
                /\ board.form = "array_list" \/ c.report = "EspRaw" \/ row.variation \cup row.grouped # {}

\* A fleet of mixed firmware keeps decoding: an undamaged frame of a generation the host
\* knows is never refused, although the first byte of an old packet reads as a foreign
\* version (decode_frame's fall-back).
MixedFleetDecodes == board.firmware # "newer" \/ board.form = "array_list" => refused = {}

=============================================================================
