-------------------------- MODULE MCManifestDecoder --------------------------
(***************************************************************************)
(* An array of three: manifests of up to four fields, each an entry for    *)
(* one of three objects or no entry at all, with every declared count, the *)
(* last field renumbered, or a wrong type or version.                      *)
(***************************************************************************)
EXTENDS ManifestDecoder, MCParts, TLC

MCTextLen == "" :> 0
MCPolicy == None

Entry(n) ==
    EncodedAccessEntry(
        [object_ref |-> [id |-> n, version |-> 4 - n, digest |-> [algorithm |-> 1, bytes |-> 0]],
         mode |-> n])

Field == {Entry(n) : n \in 1..3} \cup {Number(0, 8)}

Manifest(count, fields) ==
    Canonical(TypeId.access_manifest, 1, <<Number(count, 4)>> \o fields)

Renumbered(m) ==
    LET last == Cardinality(DOMAIN m.fields)
    IN  Canonical(m.type_id, m.version,
            [id \in (1..(last - 1)) \cup {last + 1} |->
                m.fields[IF id > last THEN last ELSE id]])

Manifests ==
    {Manifest(count, fields) : count \in 0..4, fields \in UNION {[1..n -> Field] : n \in 0..4}}

MCInput ==
    Manifests
      \cup {Renumbered(m) : m \in Manifests}
      \cup {[Manifest(1, <<Entry(1)>>) EXCEPT !.type_id = 1],
            [Manifest(1, <<Entry(1)>>) EXCEPT !.version = 2], Number(0, 8)}

MCByteString == WithParts(MCInput)
=============================================================================
