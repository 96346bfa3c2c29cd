-------------------------- MODULE MCPointCompression --------------------------
(***************************************************************************)
(* Bytes of two bits in coordinates of five: the prime is 509, every Y is  *)
(* enumerated, and X has each of its outer bytes odd and even.             *)
(***************************************************************************)
EXTENDS PointCompression

MCPoint ==
    {[header |-> h, x |-> [i \in Index |-> IF i = 0 THEN first ELSE IF i = Top THEN last ELSE 1],
      y |-> y] :
        h \in {2, 4}, first \in {0, 1}, last \in {2, 3}, y \in Coordinate}
=============================================================================
