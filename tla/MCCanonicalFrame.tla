-------------------------- MODULE MCCanonicalFrame --------------------------
(***************************************************************************)
(* Bytes of two values and integers of two bytes, so that byte order and   *)
(* lengths matter; every input of up to six bytes, and every continuation  *)
(* of up to MaxRest bytes of a header of each field count: room for two    *)
(* fields and their bytes.                                                 *)
(***************************************************************************)
EXTENDS CanonicalFrame

CONSTANT MaxRest

Strings(n) == UNION {[1..k -> Byte] : k \in 0..n}

MCMagic == <<1, 0>>

MCInput ==
    Strings(6)
      \cup {<<1, m, 1, 0, 0, 1>> \o count \o rest :
              m \in {0}, count \in [1..2 -> Byte], rest \in Strings(MaxRest)}

MCField == [id : 0..3, bytes : Strings(3)]

\* The fields that fit into the inputs.
MCEncodable ==
    {[type_id |-> 1, version |-> 2, fields |-> fs] :
        fs \in {<<>>} \cup {<<f>> : f \in MCField}
                \cup {fs \in MCField \X MCField :
                         Len(fs[1].bytes) + Len(fs[2].bytes) <= MaxRest - 2 * Prelude}}
=============================================================================
