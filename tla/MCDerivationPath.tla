--------------------------- MODULE MCDerivationPath ---------------------------
(***************************************************************************)
(* Bytes of three bits and components of two: the path of every account,   *)
(* every change of one byte of it, every change of two bytes of one path,  *)
(* and strings that are too short or too long.                             *)
(***************************************************************************)
EXTENDS DerivationPath

MCPath(a) ==
    Encoded(<<Hardened(PURPOSE), Hardened(COIN_TYPE), Hardened(a), Hardened(0), Hardened(0)>>)

Changed(p) == {[p EXCEPT ![i] = n] : i \in DOMAIN p, n \in Byte}

MCWire ==
    UNION {Changed(MCPath(a)) : a \in 0..(HARDENED_BIT - 1)}
      \cup UNION {Changed(p) : p \in Changed(MCPath(9))}
      \cup {SubSeq(MCPath(9), 1, n) : n \in 0..(PATH_ENCODED_LEN - 1)}
      \cup {Append(MCPath(9), n) : n \in Byte}
=============================================================================
