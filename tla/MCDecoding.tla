---------------------------- MODULE MCDecoding ----------------------------
(***************************************************************************)
(* Decoding where the first frame is of any shape, format and kind, and    *)
(* the later ones, there for what is lost or refused between frames, are a numbered   *)
(* one and a variation report without a sequence number.                   *)
(***************************************************************************)
EXTENDS Decoding

Whole(c)    == c.side = 0 /\ c.ppdu = "Ht" /\ c.fields = "all" /\ ~c.stbc
Numbered(c) == c.header = "data" /\ c.frame_seq # {} /\ c.ta = "02:0a"

VariedFirst(chip, n) ==
    { c \in Measurements(chip) :
        \/ n = 1 /\ (Numbered(c) \/ Whole(c))
        \/ Whole(c) /\ c.header = "data" /\ c.report = "EspRaw" /\ Numbered(c)
        \/ Whole(c) /\ c.header = "data" /\ c.report = "Variation" /\ c.frame_seq = {} }

=============================================================================
