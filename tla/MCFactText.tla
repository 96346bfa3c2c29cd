----------------------------- MODULE MCFactText -----------------------------
(***************************************************************************)
(* Texts of at most eight characters and numbers of ten bits.  Labels of   *)
(* different lengths, so that a digest fits with one and not with another; *)
(* byte strings and texts on both sides of the bound.                      *)
(***************************************************************************)
EXTENDS FactText

MCAscii == 0..20
MCColon == 16
MCLabelOf == <<<<17, 18>>, <<17, 19>>, <<17, 18, 19, 20>>>>

Strings(chars, lengths) == UNION {[1..n -> chars] : n \in lengths}

MCValue ==
    {Number(n) : n \in 0..MaxNumber}
      \cup {Bytes(b) : b \in [1..1 -> 0..255] \cup Strings({0, 16, 171}, {0, 3, 4, 5})}
      \cup {Digest(a, b) : a \in 1..3, b \in Strings({0, 31, 255}, 1..4)}
      \cup {Chars(c) : c \in Strings({0, 17, 21}, {0, 1, 4}) \cup Strings({17, 18}, {8, 9})}
=============================================================================
