---------------------------- MODULE CsiLayouts ----------------------------
(***************************************************************************)
(* How a raw CSI buffer maps onto subcarriers (wire/layout.rs, the tables  *)
(* of ESP-IDF).  A layout is a sequence of training fields; a field is a   *)
(* run of subcarrier indices, given by its ranges in the order of the      *)
(* buffer, with an (imag, real) pair of bytes for each.                    *)
(***************************************************************************)
EXTENDS Integers, Sequences, FiniteSets

LOCAL INSTANCE SequencesExt

\* Without a secondary channel a field is split at the centre; with one below or above
\* it lies on one side of it.
Split(hi, lo) == << <<0, hi>>, <<-lo, -1>> >>
Upper(hi)     == << <<0, hi>> >>
Lower(lo)     == << <<-lo, -1>> >>

Seg(ltf, ranges) == [ltf |-> ltf, ranges |-> ranges]
L(ranges)   == Seg("Lltf", ranges)
Ht(ranges)  == Seg("HtLtf", ranges)
Ht2(ranges) == Seg("HtLtf2", ranges)

Segments ==
    [ Unknown              |-> <<>>,
      ClassicNoneNonHt     |-> << L(Split(31, 32)) >>,
      ClassicNoneHt20      |-> << L(Split(31, 32)), Ht(Split(31, 32)) >>,
      ClassicNoneHt20Stbc  |-> << L(Split(31, 32)), Ht(Split(31, 32)), Ht2(Split(31, 32)) >>,
      ClassicBelowNonHt    |-> << L(Upper(63)) >>,
      ClassicBelowHt20     |-> << L(Upper(63)), Ht(Upper(63)) >>,
      ClassicBelowHt20Stbc |-> << L(Upper(63)), Ht(Upper(62)), Ht2(Upper(62)) >>,
      ClassicBelowHt40     |-> << L(Upper(63)), Ht(Split(63, 64)) >>,
      ClassicBelowHt40Stbc |-> << L(Upper(63)), Ht(Split(60, 60)), Ht2(Split(60, 60)) >>,
      ClassicAboveNonHt    |-> << L(Lower(64)) >>,
      ClassicAboveHt20     |-> << L(Lower(64)), Ht(Lower(64)) >>,
      ClassicAboveHt20Stbc |-> << L(Lower(64)), Ht(Lower(62)), Ht2(Lower(62)) >>,
      ClassicAboveHt40     |-> << L(Lower(64)), Ht(Split(63, 64)) >>,
      ClassicAboveHt40Stbc |-> << L(Lower(64)), Ht(Split(60, 60)), Ht2(Split(60, 60)) >>,
      C5LltfNone           |-> << L(Split(26, 26)) >>,
      C5LltfBelow          |-> << L(Upper(52)) >>,
      C5LltfAbove          |-> << L(Lower(53)) >>,
      C5Ht20None           |-> << Ht(Split(28, 28)) >>,
      C5Ht20NoneStbc       |-> << Ht(Split(28, 28)), Ht2(Split(28, 28)) >>,
      C5Ht20Below          |-> << Ht(Upper(56)) >>,
      C5Ht20BelowStbc      |-> << Ht(Upper(56)), Ht2(Upper(56)) >>,
      C5Ht20Above          |-> << Ht(Lower(57)) >>,
      C5Ht20AboveStbc      |-> << Ht(Lower(57)), Ht2(Lower(57)) >>,
      C5Ht40               |-> << Ht(Split(58, 58)) >>,
      C5Ht40Stbc           |-> << Ht(Split(58, 58)), Ht2(Split(58, 58)) >>,
      C5He20Su             |-> << Seg("HeLtf", Split(122, 122)) >> ]

Layouts == DOMAIN Segments

Width(seg) == FoldLeft(LAMBDA n, r : n + r[2] - r[1] + 1, 0, seg.ranges)

BytesOf(segs) == 2 * FoldLeft(LAMBDA n, seg : n + Width(seg), 0, segs)

\* 0 stands for None: an unknown layout has no length.
ByteLen == [id \in Layouts |-> BytesOf(Segments[id])]

\* The subcarriers of a buffer, one per pair of bytes.
Subcarriers(segs) ==
    LET range(seg, r) == [i \in 1..(r[2] - r[1] + 1) |-> <<seg.ltf, r[1] + i - 1>>]
        field(seg)    == FoldLeft(LAMBDA s, r : s \o range(seg, r), <<>>, seg.ranges)
    IN  FoldLeft(LAMBDA s, seg : s \o field(seg), <<>>, segs)

Indices == [id \in Layouts |-> Subcarriers(Segments[id])]

SpacingHz(ltf) == IF ltf = "HeLtf" THEN 78125 ELSE 312500

-----------------------------------------------------------------------------
(* Classification, on the device.  secondary: 0 none, 1 above, 2 below. *)

Checked(id, len) == IF ByteLen[id] = len THEN id ELSE "Unknown"

Classic(secondary, ht, forty, stbc) ==
    CASE secondary = 0 -> IF ~ht THEN "ClassicNoneNonHt"
                          ELSE IF forty THEN "Unknown"
                          ELSE IF stbc THEN "ClassicNoneHt20Stbc" ELSE "ClassicNoneHt20"
      [] secondary = 2 -> IF ~ht THEN "ClassicBelowNonHt"
                          ELSE IF forty THEN IF stbc THEN "ClassicBelowHt40Stbc" ELSE "ClassicBelowHt40"
                          ELSE IF stbc THEN "ClassicBelowHt20Stbc" ELSE "ClassicBelowHt20"
      [] secondary = 1 -> IF ~ht THEN "ClassicAboveNonHt"
                          ELSE IF forty THEN IF stbc THEN "ClassicAboveHt40Stbc" ELSE "ClassicAboveHt40"
                          ELSE IF stbc THEN "ClassicAboveHt20Stbc" ELSE "ClassicAboveHt20"
      [] OTHER         -> "Unknown"

\* sig_mode: 0 non-HT, 1 HT.
ClassifyClassic(secondary, sig_mode, forty, stbc, len) ==
    IF sig_mode \notin {0, 1} THEN "Unknown"
    ELSE Checked(Classic(secondary, sig_mode = 1, forty, stbc), len)

\* Mutant: the side of the secondary channel is not looked at.
ClassifyC5ByLength(bb_format, secondary, len) ==
    CASE len = 106 -> "C5LltfNone" [] len = 114 -> "C5Ht20None" [] len = 228 -> "C5Ht20NoneStbc"
      [] len = 234 -> "C5Ht40" [] len = 468 -> "C5Ht40Stbc" [] len = 490 -> "C5He20Su" [] OTHER -> "Unknown"

\* The C5 reports neither bandwidth nor STBC: both are read off the length.
ClassifyC5(bb_format, secondary, len) ==
    LET side == CASE secondary = 0 -> "None" [] secondary = 2 -> "Below" [] secondary = 1 -> "Above"
                  [] OTHER -> "Unknown"
        bySide(none, below, above) ==
            CASE side = "None" -> none [] side = "Below" -> below [] side = "Above" -> above
              [] OTHER -> "Unknown"
        ht20 == bb_format = 2 \/ (bb_format = 3 /\ side = "None")
    IN  CASE len = 106 -> bySide("C5LltfNone", "C5LltfBelow", "C5LltfAbove")
          [] ht20 /\ len = 114 -> bySide("C5Ht20None", "C5Ht20Below", "C5Ht20Above")
          [] ht20 /\ len = 228 -> bySide("C5Ht20NoneStbc", "C5Ht20BelowStbc", "C5Ht20AboveStbc")
          [] bb_format = 2 /\ len = 234 -> bySide("Unknown", "C5Ht40", "C5Ht40")
          [] bb_format = 2 /\ len = 468 -> bySide("Unknown", "C5Ht40Stbc", "C5Ht40Stbc")
          [] bb_format = 4 /\ side = "None" /\ len = 490 -> "C5He20Su"
          [] OTHER -> "Unknown"

=============================================================================
