---------------------------- MODULE WireFormat ----------------------------
(***************************************************************************)
(* What the host makes of the bytes a board writes (csi.rs, wire/mod.rs):  *)
(* the wire format of esp-csi-rs 0.12, the packets of older firmware, the  *)
(* array-list line, and the record all three are flattened into.           *)
(*                                                                         *)
(* An optional value is a set of at most one element.  Byte counts stand   *)
(* for the samples.                                                        *)
(***************************************************************************)
EXTENDS CsiLayouts

WIRE_VERSION == 1

Variant ==
    [ esp32 |-> "Esp32Family", esp32s2 |-> "Esp32Family", esp32s3 |-> "Esp32Family",
      esp32c3 |-> "Esp32Family", esp32c5 |-> "Esp32c5", esp32c6 |-> "Esp32c6" ]

\* The 12-byte control responses carry no transmitter, so they leave no digest.
Digest(header) == IF header.kind = "data" THEN {header.addr2} ELSE {}

Transmitter(frame) == IF frame.header # {} THEN frame.header ELSE {frame.stimulus_ta}

NoMac == "00:00"
Or(option, default) == IF option = {} THEN default ELSE CHOOSE x \in option : TRUE

-----------------------------------------------------------------------------
(* The format code older consumers key on, rebuilt from the metadata. *)

Undefined == <<"Undefined">>
VhtBw20   == <<"VhtBw20">>

\* Mutant: the two sides are swapped in the format code.
LegacyFormatSwaps(m) ==
    CASE m.ppdu \in {"NonHt", "Dsss"} -> <<m.secondary, "NonHt", 20, FALSE>>
      [] m.ppdu = "Ht" ->
            << CASE m.secondary = "Above" -> "Below" [] m.secondary = "Below" -> "Above" [] OTHER -> "None",
               "Ht", IF m.bandwidth = {40} /\ m.secondary # "None" THEN 40 ELSE 20, m.stbc = {TRUE} >>
      [] m.ppdu = "Vht" -> VhtBw20
      [] OTHER -> Undefined

LegacyFormat(m) ==
    CASE m.ppdu \in {"NonHt", "Dsss"} -> <<m.secondary, "NonHt", 20, FALSE>>
      [] m.ppdu = "Ht" ->
            << m.secondary, "Ht", IF m.bandwidth = {40} /\ m.secondary # "None" THEN 40 ELSE 20,
               m.stbc = {TRUE} >>
      [] m.ppdu = "Vht" -> VhtBw20
      [] OTHER -> Undefined

-----------------------------------------------------------------------------
(* The flattened record (DecodedCsi).  A column family lists the optional  *)
(* columns a source fills.                                                 *)

C6Columns      == {"sigb_len", "cur_single_mpdu", "rxmatch0"}
HeColumns      == {"dump_len", "cur_bb_format", "estimate_vld", "estimate_len", "second",
                   "is_group", "rxend_state", "rxmatch3", "rxmatch2", "rxmatch1"}
ClassicColumns == {"sig_mode", "smoothing", "fec_coding", "ampdu_cnt", "secondary_channel", "bandwidth"}
PacketAColumns == ClassicColumns \cup {"sgi", "mcs", "antenna", "stbc", "not_sounding", "aggregation"}

\* Mutant: every packet is given the columns of both families.
ColumnsOfBoth(variant) == PacketAColumns \cup HeColumns

Columns(variant) == CASE variant = "Esp32Family" -> PacketAColumns
                      [] variant = "Esp32c5"     -> HeColumns
                      [] variant = "Esp32c6"     -> HeColumns \cup C6Columns

\* DecodedCsi::default.
EmptyRow ==
    [ mac |-> NoMac, sequence_number |-> 0, data_format |-> Undefined, secondary |-> {},
      csi_data_len |-> 0, csi_data |-> 0, columns |-> {}, wire_version |-> {},
      stream_seq |-> {}, session_id |-> {}, layout |-> {}, variation |-> {}, grouped |-> {} ]

\* The raw secondary-channel number goes to the column of the chip family.
Secondary == [None |-> 0, Above |-> 1, Below |-> 2]

Flatten(env, f) ==
    LET m == f.meta
        vendor == CASE m.vendor = "EspClassic" -> ClassicColumns
                    [] m.vendor = "EspHe"      -> HeColumns \cup C6Columns
                    [] OTHER                   -> {}
        raw == f.payload.kind = "EspRaw"
    IN  [ EmptyRow EXCEPT
            !.mac             = Or(Transmitter(f), NoMac),
            !.sequence_number = Or(m.frame_seq, 0),
            !.data_format     = LegacyFormat(m),
            !.columns         = vendor \cup m.stated,
            !.secondary       = IF vendor = {} THEN {} ELSE {Secondary[m.secondary]},
            !.wire_version    = {env.version},
            !.session_id      = {env.session_id},
            !.stream_seq      = {env.stream_seq},
            !.layout          = IF raw THEN {f.payload.layout} ELSE {},
            !.csi_data        = IF raw THEN f.payload.bytes ELSE 0,
            !.csi_data_len    = IF raw THEN f.payload.bytes ELSE 0,
            !.variation       = IF f.payload.kind = "Variation" THEN {f.payload.value} ELSE {},
            !.grouped         = IF f.payload.kind = "Grouped" THEN {f.payload.value} ELSE {} ]

\* A packet of older firmware, in the layout of the chip that was verified.
FromPacket(variant, p) ==
    [ EmptyRow EXCEPT !.mac = p.mac, !.sequence_number = p.sequence_number,
        !.data_format = p.data_format, !.csi_data_len = p.csi_data_len, !.csi_data = p.csi_data,
        !.columns = Columns(variant), !.secondary = {p.secondary} ]

\* The columns the sink derives: one index per (imag, real) pair when the layout fits.
Fitting(row) == {id \in row.layout : ByteLen[id] # 0 /\ ByteLen[id] = row.csi_data}

SubcarrierIndices(row) == {Indices[id] : id \in Fitting(row)}

\* Their offsets from the channel centre, in Hz.
SubcarrierFreqs(row) ==
    { [k \in DOMAIN Indices[id] |-> Indices[id][k][2] * SpacingHz(Indices[id][k][1])] : id \in Fitting(row) }

-----------------------------------------------------------------------------
(* Decoding a frame.  The outcome is a record [kind, row]. *)

Outcome(kind, rows) == [kind |-> kind, rows |-> rows]

\* The pre-0.12 reader.  It is not self-describing: bytes that were not written in its
\* layout are refused, or read as a packet that never was.
DecodeLegacy(bytes, variant, misread) ==
    IF bytes.by = "old" /\ bytes.layout = variant /\ bytes.whole
    THEN Outcome("Csi", {FromPacket(variant, bytes.packet)})
    ELSE IF misread # {} THEN Outcome("Csi", {FromPacket(variant, p) : p \in misread})
    ELSE Outcome("Malformed", {})

WireKind(bytes) ==
    IF bytes.version # WIRE_VERSION THEN "UnsupportedVersion"
    ELSE IF bytes.by = "wire" /\ bytes.whole THEN bytes.body ELSE "Malformed"

\* Mutant: a foreign version is reported without trying the older layouts.
DecodeFrameStrictly(bytes, variant, misread) ==
    CASE WireKind(bytes) = "Csi"     -> Outcome("Csi", {Flatten(bytes.env, bytes.frame)})
      [] WireKind(bytes) = "Session" -> Outcome("Session", {})
      [] WireKind(bytes) = "UnsupportedVersion" -> Outcome("UnsupportedVersion", {})
      [] OTHER -> DecodeLegacy(bytes, variant, misread)

DecodeFrame(bytes, variant, misread) ==
    LET kind   == WireKind(bytes)
        legacy == DecodeLegacy(bytes, variant, misread)
    IN  CASE kind = "Csi"     -> Outcome("Csi", {Flatten(bytes.env, bytes.frame)})
          [] kind = "Session" -> Outcome("Session", {})
          [] OTHER -> IF legacy.kind = "Csi" THEN legacy ELSE Outcome(kind, {})

\* Mutant: the claimed count is not compared with what arrived.
DecodeArrayListTrusting(line) ==
    IF line.whole /\ line.fields >= 10
    THEN Outcome("Csi", {[EmptyRow EXCEPT !.mac = Or(line.tail, NoMac), !.sequence_number = line.seq,
                              !.csi_data_len = line.claimed, !.csi_data = line.samples]})
    ELSE Outcome("Malformed", {})

\* A line without its closing bracket, with a short header or with a payload that is not
\* as long as the header claims is refused; a missing or unreadable tail is not.
DecodeArrayList(line) ==
    IF line.whole /\ line.fields >= 10 /\ line.claimed = line.samples
    THEN Outcome("Csi", {[EmptyRow EXCEPT !.mac = Or(line.tail, NoMac), !.sequence_number = line.seq,
                              !.csi_data_len = line.claimed, !.csi_data = line.samples]})
    ELSE Outcome("Malformed", {})

=============================================================================
