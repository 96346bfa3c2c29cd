------------------------------- MODULE MCParts -------------------------------
(***************************************************************************)
(* The byte strings that are nested in given ones, level by level.         *)
(***************************************************************************)
EXTENDS Decoders

RECURSIVE WithParts(_)
WithParts(messages) ==
    IF messages = {} THEN {}
    ELSE messages \cup WithParts(UNION {FieldsOf(bytes) : bytes \in messages})
=============================================================================
