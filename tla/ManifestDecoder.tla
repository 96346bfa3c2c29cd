--------------------------- MODULE ManifestDecoder ---------------------------
(***************************************************************************)
(* decode_access_manifest step by step                                     *)
(* (crates/sunrise-edge-ledger-core/src/transaction.rs) and the fixed      *)
(* array it fills (AccessManifest, types.rs): the fields are decoded and   *)
(* pushed one by one, then every pair of entries is compared.  Decoders    *)
(* says in one formula what this must come to.                             *)
(***************************************************************************)
EXTENDS Decoders

CONSTANT Input          \* the byte strings the access manifest field may hold

ASSUME InputAssumption == Input \subseteq ByteString
ASSUME CapacityAssumption == MaxAccessEntries \in Nat \ {0}

VARIABLES
    input,
    status,             \* what is done next, or how decoding ended
    entries, len,       \* the AccessManifest
    index,              \* the loop over the declared fields
    left, right         \* the loops over the pairs

vars == <<input, status, entries, len, index, left, right>>

Slot == 0..(MaxAccessEntries - 1)

-----------------------------------------------------------------------------
Init ==
    /\ input \in Input
    /\ status = "shape"
    /\ entries = [slot \in Slot |-> None]
    /\ len = 0
    /\ index = 0
    /\ left = 0
    /\ right = 0

CheckShape ==
    /\ status = "shape"
    /\ status' = IF /\ "fields" \in DOMAIN input
                    /\ input.type_id = TypeId.access_manifest
                    /\ input.version = 1
                    /\ CountedFields(input)
                 THEN "entries" ELSE "refused"
    /\ UNCHANGED <<input, entries, len, index, left, right>>

\* AccessManifest::push
Push(entry) ==
    /\ entries' = [entries EXCEPT ![len] = entry]
    /\ len' = len + 1

EntryField(n) == n + 2

DecodeEntry ==
    /\ status = "entries"
    /\ index < Value(input, 1)
    /\ LET id == EntryField(index)
       IN  IF id \in DOMAIN input.fields /\ IsAccessEntry(input.fields[id]) /\ len \in Slot
           THEN /\ Push(AccessEntry(input.fields[id]))
                /\ index' = index + 1
                /\ UNCHANGED status
           ELSE /\ status' = "refused"
                /\ UNCHANGED <<entries, len, index>>
    /\ UNCHANGED <<input, left, right>>

EntriesDecoded ==
    /\ status = "entries"
    /\ index = Value(input, 1)
    /\ status' = "pairs"
    /\ left' = 0
    /\ right' = 1
    /\ UNCHANGED <<input, entries, len, index>>

SameObject(i, j) == entries[i].object_ref.id = entries[j].object_ref.id

\* Compares neighbours only.
ComparePair_Slip ==
    /\ status = "pairs"
    /\ right < len
    /\ status' = IF SameObject(left, right) THEN "refused" ELSE "pairs"
    /\ left' = right
    /\ right' = right + 1
    /\ UNCHANGED <<input, entries, len, index>>

ComparePair ==
    /\ status = "pairs"
    /\ right < len
    /\ status' = IF SameObject(left, right) THEN "refused" ELSE "pairs"
    /\ right' = right + 1
    /\ UNCHANGED <<input, entries, len, index, left>>

NextLeft ==
    /\ status = "pairs"
    /\ left < len
    /\ right >= len
    /\ left' = left + 1
    /\ right' = left + 2
    /\ UNCHANGED <<input, status, entries, len, index>>

Accept ==
    /\ status = "pairs"
    /\ left >= len
    /\ status' = "accepted"
    /\ UNCHANGED <<input, entries, len, index, left, right>>

Done == status \in {"accepted", "refused"} /\ UNCHANGED vars

Next ==
    \/ CheckShape
    \/ DecodeEntry
    \/ EntriesDecoded
    \/ ComparePair
    \/ NextLeft
    \/ Accept
    \/ Done

Spec == Init /\ [][Next]_vars

-----------------------------------------------------------------------------
(* Properties. *)

\* The capacity error of push is there for defence: the declared count keeps
\* every entry within the array, whose prefix is what was decoded so far.
PushNeverFails ==
    /\ status = "entries" /\ index < Value(input, 1) => len \in Slot
    /\ \A slot \in Slot : entries[slot] # None <=> slot < len

\* The loops accept exactly the manifests whose declared count, fields and
\* objects are right, with the entries in the order of the fields: no pair of
\* entries is left out of the comparison and none is compared with itself.
LoopsAgree ==
    /\ status = "accepted" =>
         /\ IsAccessManifest(input)
         /\ [i \in 1..len |-> entries[i - 1]] = AccessManifest(input)
    /\ status = "refused" => ~IsAccessManifest(input)

=============================================================================
