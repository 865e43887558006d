--------------------------- MODULE Decoding_proofs ---------------------------
(***************************************************************************)
(* What the decoder promises, for every chip, firmware generation,         *)
(* transmitter and length of session: the host reads back what the board   *)
(* measured, or nothing, or a packet that never was.                       *)
(*                                                                         *)
(* How many bytes a buffer holds is a fold over its fields, which the      *)
(* provers do not compute: that it is a count, and how large, is the       *)
(* assumption FieldsAssumption of Decoding, a closed formula that TLC      *)
(* evaluates.                                                              *)
(***************************************************************************)
EXTENDS Decoding, FiniteSetTheorems, TLAPS

\* What the reader of the session's form makes of the n-th frame when the whole of it
\* arrives.
ReadBack(n, c) ==
    IF board.form = "array_list"
    THEN [EmptyRow EXCEPT
             !.mac = Or(IF board.firmware = "old" THEN {} ELSE {c.ta}, NoMac),
             !.sequence_number = Or(c.frame_seq, 0),
             !.csi_data_len = BytesOf(Fields(board.chip, c)),
             !.csi_data = BytesOf(Fields(board.chip, c))]
    ELSE IF board.firmware = "old"
         THEN FromPacket(Variant[board.chip], Packet(board.chip, c))
         ELSE Flatten([version |-> WIRE_VERSION, session_id |-> 1, stream_seq |-> n],
                      Frame(board.chip, c))

NeverSent == FromPacket(Variant[board.chip], Accident)

\* The measurements the session's form can carry.
Sendable(c) ==
    /\ c \in Measurements(board.chip)
    /\ board.form = "array_list" \/ board.firmware = "old" => c.report = "EspRaw"

\* A frame as the board wrote it.
Written(b) ==
    \/ /\ board.form = "serialized" /\ board.firmware # "old"
       /\ b = Serialized(b.id, "Session", {}, {})
    \/ /\ Sendable(sent[b.id])
       /\ b = IF board.form = "array_list" THEN ArrayListLine(b.id, sent[b.id])
              ELSE Serialized(b.id, "Csi", Frame(board.chip, sent[b.id]),
                              Packet(board.chip, sent[b.id]))

\* A frame the line damaged cannot be read: it lacks its end, or the count it claims.
Unreadable(b) == b.whole = FALSE \/ (board.form = "array_list" /\ b.claimed # b.samples)

Boards == board \in [chip : Chips, firmware : Firmwares, form : {"serialized", "array_list"}]

SentInv ==
    /\ sent \in Seq({Announcement} \cup UNION {Measurements(chip) : chip \in Chips})
    /\ Len(sent) <= MaxFrames

LineInv ==
    /\ Cardinality(line) <= 1 /\ IsFiniteSet(line)
    /\ \A b \in line :
          /\ b.id \in DOMAIN sent
          /\ b.damaged \in BOOLEAN
          /\ IF b.damaged THEN Unreadable(b) ELSE Written(b)

\* The rows are a sequence.
Sequence(s) == Len(s) \in Nat /\ s = [i \in 1..Len(s) |-> s[i]]

InOrder == Sequence(rows)

\* A row is what a frame of the session carried, or a packet that never was.
Faithful(e) ==
    /\ e.id \in DOMAIN sent
    /\ \/ e.row = NeverSent
       \/ Sendable(sent[e.id]) /\ e.row = ReadBack(e.id, sent[e.id])

RowsInv == InOrder /\ \A i \in DOMAIN rows : Faithful(rows[i])

RefusedInv ==
    /\ refused \subseteq DOMAIN sent
    /\ board.firmware # "newer" \/ board.form = "array_list" => refused = {}

IInv == Boards /\ SentInv /\ LineInv /\ RowsInv /\ RefusedInv

-----------------------------------------------------------------------------
(* The fields and what they weigh *)

\* A buffer's length is a number, at most that of the longest published buffer.
LEMMA Counted ==
  ASSUME NEW chip \in DOMAIN Variant, NEW c \in Measurements(chip)
  PROVE  BytesOf(Fields(chip, c)) \in 0..612
<1> DEFINE d == [side |-> c.side, ppdu |-> c.ppdu, forty |-> c.forty, stbc |-> c.stbc,
                 fields |-> c.fields]
<1>1. d \in [side : 0..2, ppdu : {"NonHt", "Ht", "Vht", "HeSu"}, forty : BOOLEAN, stbc : BOOLEAN,
             fields : {"all", "first", "last"}]
  BY DEF Measurements
<1>2. BytesOf(Fields(chip, d)) \in 0..612
  BY <1>1, FieldsAssumption DEF FieldsAssumption
<1>3. /\ d.side = c.side /\ d.ppdu = c.ppdu /\ d.forty = c.forty
      /\ d.stbc = c.stbc /\ d.fields = c.fields
  OBVIOUS
<1> HIDE DEF d
<1>4. HeFields(d) = HeFields(c)
  BY <1>3 DEF HeFields
<1>5. ClassicFields(d) = ClassicFields(c)
  BY <1>3 DEF ClassicFields
<1>6. Fields(chip, d) = Fields(chip, c)
  BY <1>4, <1>5 DEF Fields
<1> QED BY <1>2, <1>6

\* An option that holds a value yields it.
LEMMA OrOfSome == ASSUME NEW x, NEW default PROVE Or({x}, default) = x
BY DEF Or

LEMMA OrOfNone == ASSUME NEW default PROVE Or({}, default) = default
BY DEF Or

\* A row pushed comes last and leaves the others in place.
LEMMA Appending ==
  ASSUME NEW s, NEW e, Sequence(s)
  PROVE  /\ Sequence(Append(s, e))
         /\ Len(Append(s, e)) = Len(s) + 1
         /\ \A i \in DOMAIN s : Append(s, e)[i] = s[i]
         /\ Append(s, e)[Len(s) + 1] = e
         /\ \A i \in DOMAIN Append(s, e) : i \in DOMAIN s \/ i = Len(s) + 1
<1> DEFINE S == {s[i] : i \in 1..Len(s)} \cup {e}
<1>1. s \in Seq(S)
  <2>1. \A i \in 1..Len(s) : s[i] \in S
    OBVIOUS
  <2>2. s \in [1..Len(s) -> S]
    BY <2>1 DEF Sequence
  <2> QED BY <2>2 DEF Sequence
<1>2. e \in S
  OBVIOUS
<1> HIDE DEF S
<1>3. Append(s, e) \in Seq(S) /\ Len(Append(s, e)) = Len(s) + 1
  BY <1>1, <1>2
<1>4. Sequence(Append(s, e))
  <2>1. PICK t : t = Append(s, e)
    OBVIOUS
  <2>2. t \in Seq(S)
    BY <1>3, <2>1
  <2>3. Len(t) \in Nat /\ t \in [1..Len(t) -> S]
    BY <2>2
  <2>4. t = [i \in 1..Len(t) |-> t[i]]
    BY <2>3
  <2> QED BY <2>1, <2>3, <2>4 DEF Sequence
<1> QED BY <1>1, <1>2, <1>3, <1>4

-----------------------------------------------------------------------------
(* The columns of a row *)

\* The row of an older packet holds the packet's fields and no wire metadata.
LEMMA PacketRow ==
  ASSUME NEW variant, NEW p
  PROVE  LET row == FromPacket(variant, p)
         IN  /\ row.mac = p.mac /\ row.data_format = p.data_format
             /\ row.csi_data = p.csi_data /\ row.csi_data_len = p.csi_data_len
             /\ row.columns = Columns(variant) /\ row.secondary = {p.secondary}
             /\ row.wire_version = {}
BY DEF FromPacket, EmptyRow

\* The columns of the MAC that measured a frame.
VendorColumns(f) ==
    CASE f.meta.vendor = "EspClassic" -> ClassicColumns
      [] f.meta.vendor = "EspHe"      -> HeColumns \cup C6Columns
      [] OTHER                        -> {}

-----------------------------------------------------------------------------
(* Decoding: what a frame on the line can be read as *)

\* Bytes the older reader does not know give nothing, or the packet they happen to spell.
LEMMA Misread ==
  ASSUME NEW b, NEW misread \in {{}, {Accident}},
         ~(b.by = "old" /\ b.layout = Variant[board.chip] /\ b.whole)
  PROVE  LET out == DecodeLegacy(b, Variant[board.chip], misread)
         IN  out = Outcome("Csi", {NeverSent}) \/ out = Outcome("Malformed", {})
<1>1. CASE misread = {}
  BY <1>1 DEF DecodeLegacy
<1>2. CASE misread = {Accident}
  <2>1. {FromPacket(Variant[board.chip], p) : p \in misread} = {NeverSent}
    BY <1>2 DEF NeverSent
  <2> QED BY <1>2, <2>1 DEF DecodeLegacy
<1> QED BY <1>1, <1>2

\* A damaged frame gives no row, or one of a packet that never was.
LEMMA DamagedReadings ==
  ASSUME NEW b, NEW misread \in {{}, {Accident}}, Unreadable(b)
  PROVE  Decode(b, misread).rows = {} \/ Decode(b, misread).rows = {NeverSent}
<1>1. CASE board.form = "array_list"
  BY <1>1 DEF Decode, DecodeArrayList, Unreadable, Outcome
<1>2. CASE board.form # "array_list"
  <2>1. b.whole = FALSE
    BY <1>2 DEF Unreadable
  <2>2. WireKind(b) \notin {"Csi", "Session"}
    BY <2>1 DEF WireKind
  <2> DEFINE legacy == DecodeLegacy(b, Variant[board.chip], misread)
  <2>3. legacy = Outcome("Csi", {NeverSent}) \/ legacy = Outcome("Malformed", {})
    BY <2>1, Misread
  <2>4. Decode(b, misread) = IF legacy.kind = "Csi" THEN legacy ELSE Outcome(WireKind(b), {})
    BY <1>2, <2>2 DEF Decode, DecodeFrame
  <2> HIDE DEF legacy
  <2> QED BY <2>3, <2>4 DEF Outcome
<1> QED BY <1>1, <1>2

\* An intact frame is read back as the measurement it carries, or announces the session;
\* only the frames of a later wire version are refused or misread.
LEMMA IntactReadings ==
  ASSUME NEW b, NEW misread \in {{}, {Accident}}, Written(b), Boards
  PROVE  /\ \/ Decode(b, misread).rows = {} \/ Decode(b, misread).rows = {NeverSent}
            \/ /\ Sendable(sent[b.id])
               /\ Decode(b, misread).rows = {ReadBack(b.id, sent[b.id])}
         /\ board.firmware # "newer" \/ board.form = "array_list"
            => Decode(b, misread).kind \in {"Csi", "Session"}
<1> DEFINE c == sent[b.id]
           legacy == DecodeLegacy(b, Variant[board.chip], misread)
<1>1. CASE board.form = "array_list"
  <2>1. Sendable(c) /\ b = ArrayListLine(b.id, c)
    BY <1>1 DEF Written
  <2>2. /\ b.whole = TRUE /\ b.fields = 16 /\ b.seq = Or(c.frame_seq, 0)
        /\ b.claimed = BytesOf(Fields(board.chip, c)) /\ b.samples = BytesOf(Fields(board.chip, c))
        /\ b.tail = (IF board.firmware = "old" THEN {} ELSE {c.ta})
    BY <2>1 DEF ArrayListLine
  <2>3. Decode(b, misread) = Outcome("Csi", {ReadBack(b.id, c)})
    BY <1>1, <2>2 DEF Decode, DecodeArrayList, ReadBack
  <2> QED BY <2>1, <2>3 DEF Outcome
<1>2. CASE board.form # "array_list" /\ board.firmware = "old"
  <2>1. Sendable(c) /\ b = Serialized(b.id, "Csi", Frame(board.chip, c), Packet(board.chip, c))
    BY <1>2 DEF Written
  <2>2. /\ b.by = "old" /\ b.version = 0 /\ b.whole = TRUE
        /\ b.layout = Variant[board.chip] /\ b.packet = Packet(board.chip, c)
    BY <1>2, <2>1 DEF Serialized, Version
  <2>3. WireKind(b) = "UnsupportedVersion"
    BY <2>2 DEF WireKind, WIRE_VERSION
  <2>4. legacy = Outcome("Csi", {ReadBack(b.id, c)})
    BY <1>2, <2>2 DEF DecodeLegacy, ReadBack
  <2>5. Decode(b, misread) = IF legacy.kind = "Csi" THEN legacy ELSE Outcome(WireKind(b), {})
    BY <1>2, <2>3 DEF Decode, DecodeFrame
  <2> HIDE DEF legacy
  <2>6. Decode(b, misread) = Outcome("Csi", {ReadBack(b.id, c)})
    BY <2>4, <2>5 DEF Outcome
  <2> QED BY <2>1, <2>6 DEF Outcome
<1>3. CASE board.form # "array_list" /\ board.firmware = "wire"
  <2>1. ASSUME b = Serialized(b.id, "Session", {}, {})
        PROVE  Decode(b, misread) = Outcome("Session", {})
    <3>1. b.by = "wire" /\ b.version = WIRE_VERSION /\ b.whole = TRUE /\ b.body = "Session"
      BY <1>3, <2>1 DEF Serialized, Version
    <3>2. WireKind(b) = "Session"
      BY <3>1 DEF WireKind
    <3> QED BY <1>3, <3>2 DEF Decode, DecodeFrame
  <2>2. ASSUME Sendable(c), b = Serialized(b.id, "Csi", Frame(board.chip, c), Packet(board.chip, c))
        PROVE  Decode(b, misread) = Outcome("Csi", {ReadBack(b.id, c)})
    <3>1. /\ b.by = "wire" /\ b.version = WIRE_VERSION /\ b.whole = TRUE /\ b.body = "Csi"
          /\ b.frame = Frame(board.chip, c)
          /\ b.env = [version |-> WIRE_VERSION, session_id |-> 1, stream_seq |-> b.id]
      BY <1>3, <2>2 DEF Serialized, Version
    <3>2. WireKind(b) = "Csi"
      BY <3>1 DEF WireKind
    <3> QED BY <1>3, <3>1, <3>2 DEF Decode, DecodeFrame, ReadBack
  <2> QED BY <1>3, <2>1, <2>2 DEF Written, Outcome
<1>4. CASE board.form # "array_list" /\ board.firmware = "newer"
  <2>1. b.by = "newer" /\ b.version = WIRE_VERSION + 1
    BY <1>4 DEF Written, Serialized, Version
  <2>2. WireKind(b) = "UnsupportedVersion"
    BY <2>1 DEF WireKind, WIRE_VERSION
  <2>3. legacy = Outcome("Csi", {NeverSent}) \/ legacy = Outcome("Malformed", {})
    BY <2>1, Misread
  <2>4. Decode(b, misread) = IF legacy.kind = "Csi" THEN legacy ELSE Outcome(WireKind(b), {})
    BY <1>4, <2>2 DEF Decode, DecodeFrame
  <2> HIDE DEF legacy
  <2> QED BY <1>4, <2>3, <2>4 DEF Outcome
<1>5. board.firmware \in {"old", "wire", "newer"}
  BY DecodingAssumption DEF DecodingAssumption, Boards
<1> QED BY <1>1, <1>2, <1>3, <1>4, <1>5

-----------------------------------------------------------------------------
(* The invariant is inductive *)

\* What the board has written stays written: rows and frames keep what they refer to.
LEMMA SentGrows ==
  ASSUME IInv, NEW m \in {Announcement} \cup UNION {Measurements(chip) : chip \in Chips},
         sent' = Append(sent, m), board' = board, rows' = rows
  PROVE  /\ Len(sent') = Len(sent) + 1 /\ DOMAIN sent \subseteq DOMAIN sent'
         /\ Len(sent) + 1 \in DOMAIN sent' /\ sent'[Len(sent) + 1] = m
         /\ \A n \in DOMAIN sent : sent'[n] = sent[n]
         /\ sent' \in Seq({Announcement} \cup UNION {Measurements(chip) : chip \in Chips})
         /\ RowsInv'
<1> DEFINE Sent == {Announcement} \cup UNION {Measurements(chip) : chip \in Chips}
<1>0. sent \in Seq(Sent) /\ m \in Sent
  BY DEF IInv, SentInv
<1> HIDE DEF Sent
<1>1. /\ Len(sent') = Len(sent) + 1 /\ DOMAIN sent \subseteq DOMAIN sent'
      /\ Len(sent) + 1 \in DOMAIN sent' /\ sent'[Len(sent) + 1] = m
      /\ \A n \in DOMAIN sent : sent'[n] = sent[n]
      /\ sent' \in Seq(Sent)
  BY <1>0
<1>2. RowsInv'
  <2>1. InOrder'
    BY DEF IInv, RowsInv, InOrder, Sequence
  <2>2. ASSUME NEW i \in DOMAIN rows' PROVE Faithful(rows[i])'
    <3>1. PICK e : e = rows[i] /\ e = rows'[i]
      OBVIOUS
    <3>2. Faithful(e)
      BY <3>1 DEF IInv, RowsInv
    <3>3. e.id \in DOMAIN sent' /\ sent'[e.id] = sent[e.id]
      BY <1>1, <3>2 DEF Faithful
    <3>4. Faithful(e)'
      BY <3>2, <3>3 DEF Faithful, NeverSent, Sendable, ReadBack
    <3> QED BY <3>1, <3>4
  <2> QED BY <2>1, <2>2 DEF RowsInv
<1> QED BY <1>1, <1>2 DEF Sent

\* Rows stay faithful while the session stays as it is.
LEMMA FaithfulStays ==
  ASSUME NEW e, Faithful(e), UNCHANGED <<board, sent>> PROVE Faithful(e)'
BY DEF Faithful, NeverSent, Sendable, ReadBack

LEMMA RowsStay == ASSUME RowsInv, UNCHANGED <<board, sent, rows>> PROVE RowsInv'
<1>1. InOrder'
  BY DEF RowsInv, InOrder, Sequence
<1>2. ASSUME NEW i \in DOMAIN rows' PROVE Faithful(rows[i])'
  <2>1. PICK e : e = rows[i]
    OBVIOUS
  <2>2. Faithful(e)'
    BY <2>1, FaithfulStays DEF RowsInv
  <2> QED BY <2>1, <2>2
<1> QED BY <1>1, <1>2 DEF RowsInv

LEMMA InitHolds == ASSUME Init PROVE IInv
<1>1. Boards
  BY DEF Init, Boards
<1>2. SentInv
  <2>1. sent = <<>> /\ Len(sent) = 0
    BY DEF Init
  <2>2. <<>> \in Seq({Announcement} \cup UNION {Measurements(chip) : chip \in Chips})
    OBVIOUS
  <2> QED BY <2>1, <2>2, DecodingAssumption DEF SentInv, DecodingAssumption
<1>3. LineInv
  BY FS_EmptySet DEF Init, LineInv
<1>4. RowsInv /\ RefusedInv
  BY DEF Init, RowsInv, InOrder, Sequence, RefusedInv
<1> QED BY <1>1, <1>2, <1>3, <1>4 DEF IInv

\* A frame put on the free line is the newest one.
LEMMA OneOnTheLine ==
  ASSUME NEW b, line' = {b}, b.id \in DOMAIN sent', b.damaged \in BOOLEAN,
         IF b.damaged THEN Unreadable(b)' ELSE Written(b)'
  PROVE  LineInv'
<1>1. IsFiniteSet(line') /\ Cardinality(line') = 1
  BY FS_Singleton
<1> QED BY <1>1 DEF LineInv

LEMMA LineGoesFree == ASSUME line' = {} PROVE LineInv'
BY FS_EmptySet DEF LineInv

LEMMA AnnounceKeeps == ASSUME IInv, Announce PROVE IInv'
<1>b. PICK b : b = Serialized(1, "Session", {}, {})
  OBVIOUS
<1>0. /\ sent = <<>> /\ sent' = Append(sent, Announcement) /\ line' = {b}
      /\ UNCHANGED <<board, rows, refused>>
      /\ board.form = "serialized" /\ board.firmware # "old"
  BY <1>b DEF Announce
<1>1. /\ Len(sent') = 1 /\ 1 \in DOMAIN sent' /\ DOMAIN sent \subseteq DOMAIN sent'
      /\ sent' \in Seq({Announcement} \cup UNION {Measurements(chip) : chip \in Chips})
      /\ RowsInv'
  BY <1>0, SentGrows
<1>2. SentInv'
  BY <1>1, DecodingAssumption DEF SentInv, DecodingAssumption
<1>3. LineInv'
  <2>1. b.id = 1 /\ b.damaged = FALSE
    BY <1>b DEF Serialized
  <2>2. Serialized(1, "Session", {}, {})' = b
    BY <1>b, <1>0 DEF Serialized
  <2>3. Written(b)'
    BY <1>0, <2>1, <2>2 DEF Written
  <2> QED BY <1>0, <1>1, <2>1, <2>3, OneOnTheLine
<1>4. RefusedInv' /\ Boards'
  BY <1>0, <1>1 DEF IInv, RefusedInv, Boards
<1> QED BY <1>1, <1>2, <1>3, <1>4 DEF IInv

LEMMA MeasureKeeps == ASSUME IInv, Measure PROVE IInv'
<1>0. /\ Len(sent) < MaxFrames /\ UNCHANGED <<board, rows, refused>>
  BY DEF Measure
<1>n. PICK n : n = Len(sent) + 1
  OBVIOUS
<1>1. PICK c : /\ Sendable(c) /\ sent' = Append(sent, c)
               /\ line' = { IF board.form = "array_list" THEN ArrayListLine(n, c)
                            ELSE Serialized(n, "Csi", Frame(board.chip, c), Packet(board.chip, c)) }
  BY <1>n DEF Measure, Sendable
<1>2. c \in {Announcement} \cup UNION {Measurements(chip) : chip \in Chips}
  BY <1>1 DEF Sendable, IInv, Boards
<1>3. /\ Len(sent') = n /\ n \in DOMAIN sent' /\ sent'[n] = c /\ DOMAIN sent \subseteq DOMAIN sent'
      /\ sent' \in Seq({Announcement} \cup UNION {Measurements(chip) : chip \in Chips})
      /\ RowsInv'
  BY <1>n, <1>0, <1>1, <1>2, SentGrows
<1>4. SentInv'
  <2>1. Len(sent) \in Nat /\ MaxFrames \in Nat
    BY DecodingAssumption DEF IInv, SentInv, DecodingAssumption
  <2> QED BY <1>n, <1>0, <1>3, <2>1 DEF SentInv
<1>5. LineInv'
  <2>0. PICK b : b = IF board.form = "array_list" THEN ArrayListLine(n, c)
                     ELSE Serialized(n, "Csi", Frame(board.chip, c), Packet(board.chip, c))
    OBVIOUS
  <2>1. b.id = n /\ b.damaged = FALSE
    BY <2>0 DEF Serialized, ArrayListLine
  <2>2. b = IF board'.form = "array_list" THEN ArrayListLine(n, c)'
            ELSE Serialized(n, "Csi", Frame(board.chip, c), Packet(board.chip, c))'
    BY <1>0, <2>0 DEF Serialized, ArrayListLine
  <2>3. Sendable(c)'
    BY <1>0, <1>1 DEF Sendable
  <2>4. line' = {b}
    BY <1>1, <2>0
  <2>5. Written(b)'
    BY <1>3, <2>1, <2>2, <2>3 DEF Written, ArrayListLine, Serialized
  <2> QED BY <1>3, <2>1, <2>4, <2>5, OneOnTheLine
<1>6. RefusedInv' /\ Boards'
  BY <1>0, <1>3 DEF IInv, RefusedInv, Boards
<1> QED BY <1>3, <1>4, <1>5, <1>6 DEF IInv

\* What is lost on the line leaves the rest of the session alone.
LEMMA LineStepKeeps ==
  ASSUME IInv, UNCHANGED <<board, sent, rows, refused>>, LineInv' PROVE IInv'
BY RowsStay DEF IInv, Boards, SentInv, RefusedInv

LEMMA LoseKeeps == ASSUME IInv, Lose PROVE IInv'
BY LineGoesFree, LineStepKeeps DEF Lose

\* A whole frame that loses its end is unreadable.
LEMMA CutKeeps == ASSUME IInv, Cut PROVE IInv'
<1>1. PICK b \in line : ~b.damaged /\ line' = {[b EXCEPT !.whole = FALSE, !.damaged = TRUE]}
  BY DEF Cut
<1>2. UNCHANGED <<board, sent, rows, refused>>
  BY DEF Cut
<1>3. Written(b) /\ b.id \in DOMAIN sent'
  BY <1>1, <1>2 DEF IInv, LineInv
<1>4. PICK d : d = [b EXCEPT !.whole = FALSE, !.damaged = TRUE]
  OBVIOUS
<1>5. d.id = b.id /\ d.damaged = TRUE /\ d.whole = FALSE
  BY <1>3, <1>4 DEF Written, Serialized, ArrayListLine
<1>6. LineInv'
  <2>1. Unreadable(d)'
    BY <1>5 DEF Unreadable
  <2> QED BY <1>1, <1>3, <1>4, <1>5, <2>1, OneOnTheLine
<1> QED BY <1>2, <1>6, LineStepKeeps

\* A line short of some samples no longer holds the count it claims.
LEMMA ThinKeeps == ASSUME IInv, Thin PROVE IInv'
<1>1. PICK b \in line :
         /\ ~b.damaged
         /\ line' = { IF board.form = "serialized" THEN [b EXCEPT !.whole = FALSE, !.damaged = TRUE]
                      ELSE [b EXCEPT !.samples = @ - 2, !.damaged = TRUE] }
  BY DEF Thin
<1>2. UNCHANGED <<board, sent, rows, refused>>
  BY DEF Thin
<1>3. Written(b) /\ b.id \in DOMAIN sent'
  BY <1>1, <1>2 DEF IInv, LineInv
<1>4. PICK d : d = IF board.form = "serialized" THEN [b EXCEPT !.whole = FALSE, !.damaged = TRUE]
                   ELSE [b EXCEPT !.samples = @ - 2, !.damaged = TRUE]
  OBVIOUS
<1>5. d.id = b.id /\ d.damaged = TRUE
  BY <1>3, <1>4 DEF Written, Serialized, ArrayListLine
<1>6. Unreadable(d)'
  <2>1. CASE board.form = "serialized"
    BY <1>3, <1>4, <2>1 DEF Written, Serialized, Unreadable
  <2>2. CASE board.form # "serialized"
    <3>1. board.form = "array_list" /\ board.chip \in DOMAIN Variant
      BY <2>2, DecodingAssumption DEF IInv, Boards, DecodingAssumption
    <3>2. Sendable(sent[b.id]) /\ b = ArrayListLine(b.id, sent[b.id])
      BY <1>3, <3>1 DEF Written
    <3>3. BytesOf(Fields(board.chip, sent[b.id])) \in 0..612
      BY <3>1, <3>2, Counted DEF Sendable
    <3>4. d.claimed = b.claimed /\ d.samples = b.samples - 2
      BY <1>4, <3>1, <3>2 DEF ArrayListLine
    <3>5. b.claimed \in 0..612 /\ b.samples = b.claimed
      BY <3>2, <3>3 DEF ArrayListLine
    <3> QED BY <1>2, <3>1, <3>4, <3>5 DEF Unreadable
  <2> QED BY <2>1, <2>2
<1>7. LineInv'
  BY <1>1, <1>3, <1>4, <1>5, <1>6, OneOnTheLine
<1> QED BY <1>2, <1>7, LineStepKeeps

\* What is read off the line is a row of the frame it was, and a frame of a known
\* generation is not refused.
LEMMA ReceiveKeeps == ASSUME IInv, Receive PROVE IInv'
<1>1. PICK b \in line, misread \in {{}, {Accident}} :
         /\ rows' = IF Decode(b, misread).rows = {} THEN rows
                    ELSE Append(rows, [id |-> b.id, row |-> CHOOSE r \in Decode(b, misread).rows : TRUE])
         /\ refused' = IF Decode(b, misread).kind \in {"Csi", "Session"} \/ b.damaged THEN refused
                       ELSE refused \cup {b.id}
         /\ line' = {} /\ UNCHANGED <<board, sent>>
  BY DEF Receive
<1>2. /\ b.id \in DOMAIN sent /\ b.damaged \in BOOLEAN
      /\ IF b.damaged THEN Unreadable(b) ELSE Written(b)
  BY DEF IInv, LineInv
<1> DEFINE out == Decode(b, misread)
<1>3. /\ \/ out.rows = {} \/ out.rows = {NeverSent}
         \/ Sendable(sent[b.id]) /\ out.rows = {ReadBack(b.id, sent[b.id])}
      /\ ~b.damaged /\ (board.firmware # "newer" \/ board.form = "array_list")
         => out.kind \in {"Csi", "Session"}
  <2>1. CASE b.damaged
    BY <1>2, <2>1, DamagedReadings
  <2>2. CASE ~b.damaged
    BY <1>2, <2>2, IntactReadings DEF IInv
  <2> QED BY <2>1, <2>2
<1> HIDE DEF out
<1>4. RowsInv'
  <2>1. CASE out.rows = {}
    <3>1. rows' = rows
      BY <1>1, <2>1 DEF out
    <3> QED BY <1>1, <3>1, RowsStay DEF IInv
  <2>2. CASE out.rows # {}
    <3>1. PICK r : /\ out.rows = {r}
                   /\ \/ r = NeverSent
                      \/ Sendable(sent[b.id]) /\ r = ReadBack(b.id, sent[b.id])
      BY <1>3, <2>2
    <3>2. (CHOOSE x \in out.rows : TRUE) = r
      BY <3>1
    <3>3. PICK e : e = [id |-> b.id, row |-> r]
      OBVIOUS
    <3>4. Faithful(e)
      BY <1>2, <3>1, <3>3 DEF Faithful
    <3>5. rows' = Append(rows, e)
      BY <1>1, <2>2, <3>2, <3>3 DEF out
    <3>6. /\ \A i \in DOMAIN rows : rows'[i] = rows[i]
          /\ rows'[Len(rows) + 1] = e
          /\ \A i \in DOMAIN rows' : i \in DOMAIN rows \/ i = Len(rows) + 1
      BY <3>5, Appending DEF IInv, RowsInv, InOrder
    <3>7. InOrder'
      BY <3>5, Appending DEF IInv, RowsInv, InOrder
    <3>8. ASSUME NEW i \in DOMAIN rows' PROVE Faithful(rows[i])'
      <4>1. PICK d : d = rows'[i]
        OBVIOUS
      <4>2. i \in DOMAIN rows \/ i = Len(rows) + 1
        BY <3>6
      <4>3. Faithful(d)
        BY <3>4, <3>6, <4>1, <4>2 DEF IInv, RowsInv
      <4>4. Faithful(d)'
        BY <1>1, <4>3, FaithfulStays
      <4> QED BY <4>1, <4>4
    <3> QED BY <3>7, <3>8 DEF RowsInv
  <2> QED BY <2>1, <2>2
<1>5. RefusedInv'
  BY <1>1, <1>2, <1>3 DEF IInv, RefusedInv, out
<1>6. LineInv'
  BY <1>1, LineGoesFree
<1>7. Boards' /\ SentInv'
  BY <1>1 DEF IInv, Boards, SentInv
<1> QED BY <1>4, <1>5, <1>6, <1>7 DEF IInv

LEMMA StepKeeps == ASSUME IInv, [Next]_vars PROVE IInv'
<1>1. CASE Next
  BY <1>1, AnnounceKeeps, MeasureKeeps, LoseKeeps, CutKeeps, ThinKeeps, ReceiveKeeps DEF Next
<1>2. CASE UNCHANGED vars
  <2>1. LineInv'
    BY <1>2 DEF vars, IInv, LineInv, Written, Unreadable, Serialized, ArrayListLine, Sendable
  <2> QED BY <1>2, <2>1, LineStepKeeps DEF vars
<1> QED BY <1>1, <1>2

\* The host reads back what was measured, or nothing, or a packet that never was; what the
\* line damaged is never read back, and only a later wire version is refused.
THEOREM ReadsBack == Spec => []IInv
BY InitHolds, StepKeeps, PTL DEF Spec

-----------------------------------------------------------------------------
(* What a row says *)

LEMMA LineRow ==
  ASSUME NEW n, NEW c, board.form = "array_list"
  PROVE  /\ ReadBack(n, c).mac = (IF board.firmware = "old" THEN NoMac ELSE c.ta)
         /\ ReadBack(n, c).csi_data = BytesOf(Fields(board.chip, c))
         /\ ReadBack(n, c).csi_data_len = BytesOf(Fields(board.chip, c))
         /\ ReadBack(n, c).columns = {} /\ ReadBack(n, c).wire_version = {}
BY OrOfSome, OrOfNone DEF ReadBack, EmptyRow

LEMMA OldRow ==
  ASSUME NEW n, NEW c, board.form # "array_list", board.firmware = "old"
  PROVE  /\ ReadBack(n, c).mac = c.ta
         /\ ReadBack(n, c).csi_data = BytesOf(Fields(board.chip, c))
         /\ ReadBack(n, c).csi_data_len = BytesOf(Fields(board.chip, c))
         /\ ReadBack(n, c).data_format = (IF board.chip \in He THEN Undefined ELSE TrueFormat(c))
         /\ ReadBack(n, c).secondary = {c.side}
         /\ ReadBack(n, c).columns = Columns(Variant[board.chip])
         /\ ReadBack(n, c).wire_version = {}
<1>1. ReadBack(n, c) = FromPacket(Variant[board.chip], Packet(board.chip, c))
  BY DEF ReadBack
<1>2. /\ Packet(board.chip, c).mac = c.ta
      /\ Packet(board.chip, c).csi_data = BytesOf(Fields(board.chip, c))
      /\ Packet(board.chip, c).csi_data_len = BytesOf(Fields(board.chip, c))
      /\ Packet(board.chip, c).data_format = (IF board.chip \in He THEN Undefined ELSE TrueFormat(c))
      /\ Packet(board.chip, c).secondary = c.side
  BY DEF Packet
<1> QED BY <1>1, <1>2, PacketRow

\* The frame of a measurement: its transmitter is the one measured, whether the header is
\* reported or not.
LEMMA FrameOf ==
  ASSUME NEW chip \in DOMAIN Variant, NEW c \in Measurements(chip)
  PROVE  /\ Or(Transmitter(Frame(chip, c)), NoMac) = c.ta
         /\ Frame(chip, c).meta.secondary = Side[c.side]
         /\ Frame(chip, c).meta.vendor = (IF chip \in He THEN "EspHe" ELSE "EspClassic")
         /\ Frame(chip, c).meta.stated = (IF chip \in He THEN {} ELSE PacketAColumns \ ClassicColumns)
         /\ Frame(chip, c).payload.kind = c.report
         /\ c.report = "EspRaw" => Frame(chip, c).payload.bytes = BytesOf(Fields(chip, c))
<1> DEFINE f == Frame(chip, c)
<1>1. /\ f.meta.secondary = Side[c.side]
      /\ f.meta.vendor = (IF chip \in He THEN "EspHe" ELSE "EspClassic")
      /\ f.meta.stated = (IF chip \in He THEN {} ELSE PacketAColumns \ ClassicColumns)
      /\ f.header = Digest([kind |-> c.header, addr2 |-> c.ta]) /\ f.stimulus_ta = c.ta
  BY DEF Frame
<1>2. f.payload = (IF c.report = "EspRaw"
                  THEN [kind |-> "EspRaw", layout |-> Layout(chip, c),
                        bytes |-> BytesOf(Fields(chip, c))]
                  ELSE [kind |-> c.report, value |-> 9])
  BY DEF Frame
<1>3. /\ f.payload.kind = c.report
      /\ c.report = "EspRaw" => f.payload.bytes = BytesOf(Fields(chip, c))
  BY <1>2
<1> HIDE DEF f
<1>4. f.header = {} \/ f.header = {c.ta}
  BY <1>1 DEF Digest
<1>5. Transmitter(f) = {c.ta}
  BY <1>1, <1>4 DEF Transmitter
<1>6. Or(Transmitter(f), NoMac) = c.ta
  BY <1>5, OrOfSome
<1> QED BY <1>1, <1>3, <1>6 DEF f

\* The format code rebuilt from the metadata of the classic MAC is the measurement's.
LEMMA FormatOf ==
  ASSUME NEW chip \in DOMAIN Variant \ He, NEW c \in Measurements(chip)
  PROVE  LegacyFormat(Frame(chip, c).meta) = TrueFormat(c)
<1>1. PICK m : m = Frame(chip, c).meta
  OBVIOUS
<1>2. /\ m.secondary = Side[c.side] /\ m.ppdu = c.ppdu
      /\ m.bandwidth = {IF c.forty THEN 40 ELSE 20} /\ m.stbc = {c.stbc}
  BY <1>1 DEF Frame
<1>3. /\ c.ppdu \in {"NonHt", "Ht"} /\ c.side \in 0..2 /\ c.forty \in BOOLEAN /\ c.stbc \in BOOLEAN
      /\ c.forty => c.ppdu = "Ht" /\ c.side # 0
      /\ c.stbc => c.ppdu = "Ht"
  BY DEF Measurements
<1>4. c.side # 0 => Side[c.side] # "None"
  BY <1>3 DEF Side
<1>5. CASE c.ppdu = "NonHt"
  <2>1. ~c.forty /\ ~c.stbc
    BY <1>3, <1>5
  <2>2. LegacyFormat(m) = <<m.secondary, "NonHt", 20, FALSE>>
    BY <1>2, <1>5 DEF LegacyFormat
  <2>3. TrueFormat(c) = <<Side[c.side], "NonHt", 20, c.stbc>>
    BY <1>5, <2>1 DEF TrueFormat
  <2>4. c.stbc = FALSE
    BY <1>3, <2>1
  <2> QED BY <1>1, <1>2, <2>2, <2>3, <2>4
<1>6. CASE c.ppdu = "Ht"
  <2>1. LegacyFormat(m)
          = <<m.secondary, "Ht", IF m.bandwidth = {40} /\ m.secondary # "None" THEN 40 ELSE 20,
              m.stbc = {TRUE}>>
    BY <1>2, <1>6 DEF LegacyFormat
  <2>2. (m.stbc = {TRUE}) = c.stbc
    BY <1>2, <1>3
  <2>3. (m.bandwidth = {40}) <=> c.forty
    BY <1>2, <1>3
  <2>4. (IF m.bandwidth = {40} /\ m.secondary # "None" THEN 40 ELSE 20) = (IF c.forty THEN 40 ELSE 20)
    BY <1>2, <1>3, <1>4, <2>3
  <2>5. TrueFormat(c) = <<Side[c.side], "Ht", IF c.forty THEN 40 ELSE 20, c.stbc>>
    BY <1>6 DEF TrueFormat
  <2> QED BY <1>1, <1>2, <2>1, <2>2, <2>4, <2>5
<1> QED BY <1>3, <1>5, <1>6

LEMMA WireRow ==
  ASSUME NEW n, NEW c, board.form # "array_list", board.firmware # "old",
         board.chip \in DOMAIN Variant, c \in Measurements(board.chip)
  PROVE  /\ ReadBack(n, c).mac = c.ta
         /\ ReadBack(n, c).csi_data
              = (IF c.report = "EspRaw" THEN BytesOf(Fields(board.chip, c)) ELSE 0)
         /\ ReadBack(n, c).csi_data_len = ReadBack(n, c).csi_data
         /\ c.report # "EspRaw" => ReadBack(n, c).variation \cup ReadBack(n, c).grouped # {}
         /\ board.chip \notin He => ReadBack(n, c).data_format = TrueFormat(c)
         /\ ReadBack(n, c).secondary = {c.side}
         /\ board.chip \in He => ReadBack(n, c).columns = HeColumns \cup C6Columns
         /\ board.chip \notin He => ReadBack(n, c).columns = PacketAColumns
         /\ ReadBack(n, c).wire_version = {WIRE_VERSION}
<1>1. PICK f : f = Frame(board.chip, c)
  OBVIOUS
<1>2. PICK env : env = [version |-> WIRE_VERSION, session_id |-> 1, stream_seq |-> n]
  OBVIOUS
<1>3. ReadBack(n, c) = Flatten(env, f)
  BY <1>1, <1>2 DEF ReadBack
<1>a. /\ Or(Transmitter(f), NoMac) = c.ta
      /\ f.meta.secondary = Side[c.side]
      /\ f.meta.vendor = (IF board.chip \in He THEN "EspHe" ELSE "EspClassic")
      /\ f.meta.stated = (IF board.chip \in He THEN {} ELSE PacketAColumns \ ClassicColumns)
      /\ f.payload.kind = c.report
      /\ c.report = "EspRaw" => f.payload.bytes = BytesOf(Fields(board.chip, c))
  BY <1>1, FrameOf
<1>b. PICK row : row = Flatten(env, f)
  OBVIOUS
<1>c. /\ row.mac = Or(Transmitter(f), NoMac) /\ row.data_format = LegacyFormat(f.meta)
      /\ row.wire_version = {env.version}
      /\ row.csi_data = (IF f.payload.kind = "EspRaw" THEN f.payload.bytes ELSE 0)
      /\ row.csi_data_len = (IF f.payload.kind = "EspRaw" THEN f.payload.bytes ELSE 0)
      /\ row.variation = (IF f.payload.kind = "Variation" THEN {f.payload.value} ELSE {})
      /\ row.grouped = (IF f.payload.kind = "Grouped" THEN {f.payload.value} ELSE {})
  BY <1>b DEF Flatten, EmptyRow
<1>d. ReadBack(n, c) = row
  BY <1>3, <1>b
<1>4. ReadBack(n, c).mac = c.ta
  BY <1>a, <1>c, <1>d
<1>5. /\ ReadBack(n, c).csi_data = (IF c.report = "EspRaw" THEN BytesOf(Fields(board.chip, c)) ELSE 0)
      /\ ReadBack(n, c).csi_data_len = ReadBack(n, c).csi_data
  BY <1>a, <1>c, <1>d
<1>6. c.report # "EspRaw" => ReadBack(n, c).variation \cup ReadBack(n, c).grouped # {}
  <2>1. c.report \in {"EspRaw", "Variation", "Grouped"}
    BY DEF Measurements
  <2>2. /\ ReadBack(n, c).variation = (IF c.report = "Variation" THEN {f.payload.value} ELSE {})
        /\ ReadBack(n, c).grouped = (IF c.report = "Grouped" THEN {f.payload.value} ELSE {})
    BY <1>a, <1>c, <1>d
  <2> QED BY <2>1, <2>2
<1>7. board.chip \notin He => ReadBack(n, c).data_format = TrueFormat(c)
  BY <1>1, <1>c, <1>d, FormatOf
<1>8. VendorColumns(f) = (IF board.chip \in He THEN HeColumns \cup C6Columns ELSE ClassicColumns)
  BY <1>a DEF VendorColumns
<1>9. /\ row.secondary = (IF VendorColumns(f) = {} THEN {} ELSE {Secondary[f.meta.secondary]})
      /\ row.columns = VendorColumns(f) \cup f.meta.stated
  BY <1>b DEF Flatten, EmptyRow, VendorColumns
<1>10. ReadBack(n, c).secondary = {c.side}
  <2>1. "dump_len" \in HeColumns /\ "sig_mode" \in ClassicColumns
    BY DEF HeColumns, ClassicColumns
  <2>2. VendorColumns(f) # {}
    BY <1>8, <2>1
  <2>3. c.side \in 0..2
    BY DEF Measurements
  <2>4. Secondary[Side[c.side]] = c.side
    BY <2>3 DEF Secondary, Side
  <2>5. f.meta.secondary = Side[c.side]
    BY <1>a
  <2> QED BY <1>d, <1>9, <2>2, <2>4, <2>5
<1>11. /\ board.chip \in He => ReadBack(n, c).columns = HeColumns \cup C6Columns
       /\ board.chip \notin He => ReadBack(n, c).columns = PacketAColumns
  <2>1. f.meta.stated = (IF board.chip \in He THEN {} ELSE PacketAColumns \ ClassicColumns)
    BY <1>a
  <2>2. ClassicColumns \cup (PacketAColumns \ ClassicColumns) = PacketAColumns
    BY DEF PacketAColumns
  <2> QED BY <1>d, <1>8, <1>9, <2>1, <2>2
<1>12. ReadBack(n, c).wire_version = {WIRE_VERSION}
  BY <1>2, <1>c, <1>d
<1> QED BY <1>4, <1>5, <1>6, <1>7, <1>10, <1>11, <1>12

\* The packet that never was.
LEMMA AccidentRow ==
  /\ NeverSent.mac = Accident.mac
  /\ NeverSent.csi_data = 218 /\ NeverSent.wire_version = {}
  /\ NeverSent.columns = Columns(Variant[board.chip])
BY PacketRow DEF NeverSent, Accident

\* Every row that is not the packet that never was is read back from the measurement it
\* names, and its form decides what it says.
LEMMA RowCases ==
  ASSUME IInv, NEW i \in DOMAIN rows
  PROVE  /\ board.chip \in DOMAIN Variant /\ rows[i].id \in DOMAIN sent
         /\ \/ rows[i].row = NeverSent
            \/ /\ Sendable(sent[rows[i].id])
               /\ rows[i].row = ReadBack(rows[i].id, sent[rows[i].id])
BY DecodingAssumption DEF DecodingAssumption, IInv, Boards, RowsInv, Faithful

-----------------------------------------------------------------------------
(* The properties *)

LEMMA SizesOf ==
  ASSUME NEW n, NEW c, board.chip \in DOMAIN Variant, Sendable(c)
  PROVE  ReadBack(n, c).csi_data \in 0..612
<1>1. c \in Measurements(board.chip)
  BY DEF Sendable
<1>2. BytesOf(Fields(board.chip, c)) \in 0..612
  BY <1>1, Counted
<1>3. CASE board.form = "array_list"
  BY <1>2, <1>3, LineRow
<1>4. CASE board.form # "array_list" /\ board.firmware = "old"
  BY <1>2, <1>4, OldRow
<1>5. CASE board.form # "array_list" /\ board.firmware # "old"
  <2>1. ReadBack(n, c).csi_data = (IF c.report = "EspRaw" THEN BytesOf(Fields(board.chip, c)) ELSE 0)
    BY <1>1, <1>5, WireRow
  <2> QED BY <1>2, <2>1
<1> QED BY <1>3, <1>4, <1>5

\* The columns of the classic MAC and those of the HE MACs never meet in a row.
LEMMA FamiliesOf ==
  ASSUME NEW n, NEW c, board.chip \in DOMAIN Variant, Sendable(c)
  PROVE  \/ ReadBack(n, c).columns \cap ClassicColumns = {}
         \/ ReadBack(n, c).columns \cap HeColumns = {}
<1>1. /\ (HeColumns \cup C6Columns) \cap ClassicColumns = {}
      /\ PacketAColumns \cap HeColumns = {} /\ HeColumns \cap ClassicColumns = {}
  BY DEF HeColumns, C6Columns, ClassicColumns, PacketAColumns
<1>2. c \in Measurements(board.chip)
  BY DEF Sendable
<1>3. CASE board.form = "array_list"
  BY <1>3, LineRow
<1>4. CASE board.form # "array_list" /\ board.firmware = "old"
  <2>1. ReadBack(n, c).columns = Columns(Variant[board.chip])
    BY <1>4, OldRow
  <2>2. Variant[board.chip] \in {"Esp32Family", "Esp32c5", "Esp32c6"}
    BY DEF Variant
  <2> QED BY <1>1, <2>1, <2>2 DEF Columns
<1>5. CASE board.form # "array_list" /\ board.firmware # "old"
  <2>1. \/ ReadBack(n, c).columns = HeColumns \cup C6Columns
        \/ ReadBack(n, c).columns = PacketAColumns
    BY <1>2, <1>5, WireRow
  <2> QED BY <1>1, <2>1
<1> QED BY <1>3, <1>4, <1>5

\* Rows are numbered by frames the board wrote, no longer than the longest buffer, and the
\* columns of the two MAC families never meet in one (DecodedCsi).
THEOREM TypeCorrect == Spec => []DecodingTypeOK
<1>1. IInv => DecodingTypeOK
  <2> SUFFICES ASSUME IInv PROVE DecodingTypeOK
    OBVIOUS
  <2>1. ASSUME NEW i \in DOMAIN rows
        PROVE  /\ rows[i].id \in DOMAIN sent
               /\ \/ rows[i].row.columns \cap ClassicColumns = {}
                  \/ rows[i].row.columns \cap HeColumns = {}
               /\ rows[i].row.csi_data \in 0..612
    <3>1. /\ board.chip \in DOMAIN Variant /\ rows[i].id \in DOMAIN sent
          /\ \/ rows[i].row = NeverSent
             \/ /\ Sendable(sent[rows[i].id])
                /\ rows[i].row = ReadBack(rows[i].id, sent[rows[i].id])
      BY RowCases
    <3>2. CASE rows[i].row = NeverSent
      <4>1. Variant[board.chip] \in {"Esp32Family", "Esp32c5", "Esp32c6"}
        BY <3>1 DEF Variant
      <4>2. /\ (HeColumns \cup C6Columns) \cap ClassicColumns = {}
            /\ PacketAColumns \cap HeColumns = {} /\ HeColumns \cap ClassicColumns = {}
        BY DEF HeColumns, C6Columns, ClassicColumns, PacketAColumns
      <4>3. \/ Columns(Variant[board.chip]) \cap ClassicColumns = {}
            \/ Columns(Variant[board.chip]) \cap HeColumns = {}
        BY <4>1, <4>2 DEF Columns
      <4> QED BY <3>1, <3>2, <4>3, AccidentRow
    <3>3. CASE /\ Sendable(sent[rows[i].id])
               /\ rows[i].row = ReadBack(rows[i].id, sent[rows[i].id])
      BY <3>1, <3>3, SizesOf, FamiliesOf
    <3> QED BY <3>1, <3>2, <3>3
  <2> QED BY <2>1 DEF DecodingTypeOK, IInv, Boards, SentInv, LineInv, RefusedInv
<1> QED BY <1>1, ReadsBack, PTL

\* Whichever generation wrote it, a binary row states the secondary channel and, on the
\* classic MAC, the format code of the measurement (legacy_format, from_wire).
THEOREM CodesAgree == Spec => []CodeAgrees
<1>1. IInv => CodeAgrees
  <2> SUFFICES ASSUME IInv, NEW i \in DOMAIN rows, Genuine(rows[i]), board.form = "serialized"
               PROVE  /\ rows[i].row.secondary = {sent[rows[i].id].side}
                      /\ board.chip \notin He
                         => rows[i].row.data_format = TrueFormat(sent[rows[i].id])
    BY DEF CodeAgrees
  <2>1. PICK c : c = sent[rows[i].id]
    OBVIOUS
  <2>2. /\ board.chip \in DOMAIN Variant /\ Sendable(c)
        /\ rows[i].row = ReadBack(rows[i].id, c)
    BY <2>1, RowCases, AccidentRow DEF Genuine
  <2>3. c \in Measurements(board.chip)
    BY <2>2 DEF Sendable
  <2>4. CASE board.firmware = "old"
    BY <2>1, <2>2, <2>4, OldRow
  <2>5. CASE board.firmware # "old"
    BY <2>1, <2>2, <2>3, <2>5, WireRow
  <2> QED BY <2>4, <2>5
<1> QED BY <1>1, ReadsBack, PTL

\* A row holds the whole measurement of one frame: no damaged frame becomes a row of fewer
\* samples or of another transmitter (decode_array_list, CsiFrame::transmitter).
THEOREM RowsHoldWholeFrames == Spec => []RowsAreWhole
<1>1. IInv => RowsAreWhole
  <2> SUFFICES ASSUME IInv, NEW i \in DOMAIN rows, Genuine(rows[i])
               PROVE  LET row == rows[i].row
                          c   == sent[rows[i].id]
                      IN  /\ row.mac \in {c.ta} \cup IF board.form = "array_list" THEN {NoMac} ELSE {}
                          /\ row.csi_data = row.csi_data_len
                          /\ row.csi_data = IF c.report = "EspRaw" \/ board.form = "array_list"
                                            THEN BytesOf(Fields(board.chip, c)) ELSE 0
                          /\ \/ board.form = "array_list" \/ c.report = "EspRaw"
                             \/ row.variation \cup row.grouped # {}
    BY DEF RowsAreWhole
  <2>1. PICK c : c = sent[rows[i].id]
    OBVIOUS
  <2>2. PICK row : row = rows[i].row
    OBVIOUS
  <2>3. /\ board.chip \in DOMAIN Variant /\ Sendable(c)
        /\ row = ReadBack(rows[i].id, c)
    BY <2>1, <2>2, RowCases, AccidentRow DEF Genuine
  <2>4. /\ c \in Measurements(board.chip)
        /\ board.form = "array_list" \/ board.firmware = "old" => c.report = "EspRaw"
    BY <2>3 DEF Sendable
  <2>5. CASE board.form = "array_list"
    <3>1. /\ row.mac = (IF board.firmware = "old" THEN NoMac ELSE c.ta)
          /\ row.csi_data = BytesOf(Fields(board.chip, c))
          /\ row.csi_data_len = BytesOf(Fields(board.chip, c))
      BY <2>3, <2>5, LineRow
    <3> QED BY <2>1, <2>2, <2>5, <3>1
  <2>6. CASE board.form # "array_list" /\ board.firmware = "old"
    <3>1. /\ row.mac = c.ta
          /\ row.csi_data = BytesOf(Fields(board.chip, c))
          /\ row.csi_data_len = BytesOf(Fields(board.chip, c))
      BY <2>3, <2>6, OldRow
    <3> QED BY <2>1, <2>2, <2>4, <2>6, <3>1
  <2>7. CASE board.form # "array_list" /\ board.firmware # "old"
    <3>1. /\ row.mac = c.ta
          /\ row.csi_data = (IF c.report = "EspRaw" THEN BytesOf(Fields(board.chip, c)) ELSE 0)
          /\ row.csi_data_len = row.csi_data
          /\ c.report # "EspRaw" => row.variation \cup row.grouped # {}
      BY <2>3, <2>4, <2>7, WireRow
    <3> QED BY <2>1, <2>2, <2>7, <3>1
  <2> QED BY <2>5, <2>6, <2>7
<1> QED BY <1>1, ReadsBack, PTL

\* An undamaged frame of a generation the host knows is never refused, although the first
\* byte of an old packet reads as a foreign version (decode_frame).
THEOREM MixedFleetsDecode == Spec => []MixedFleetDecodes
<1>1. IInv => MixedFleetDecodes
  BY DEF IInv, RefusedInv, MixedFleetDecodes
<1> QED BY <1>1, ReadsBack, PTL

=============================================================================
