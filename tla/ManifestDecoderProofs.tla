------------------------- MODULE ManifestDecoderProofs -------------------------
(***************************************************************************)
(* Proofs about the loops of decode_access_manifest, for an array of any   *)
(* size and any byte strings.                                              *)
(***************************************************************************)
EXTENDS ManifestDecoder, TLAPS

(***************************************************************************)
(* The inductive invariant: the array holds the entries of the fields      *)
(* decoded so far, in their order, and the pairs the two loops have passed *)
(* are of different objects.  A refusal was for a reason.                  *)
(***************************************************************************)
Declared == Value(input, 1)

Shaped ==
    /\ "fields" \in DOMAIN input
    /\ input.type_id = TypeId.access_manifest
    /\ input.version = 1
    /\ CountedFields(input)

IsEntryField(slot) ==
    /\ EntryField(slot) \in DOMAIN input.fields
    /\ IsAccessEntry(input.fields[EntryField(slot)])

Pushed ==
    /\ entries = [slot \in Slot |-> entries[slot]]
    /\ len = index
    /\ len \in 0..MaxAccessEntries
    /\ \A slot \in Slot :
          IF slot < len
          THEN IsEntryField(slot) /\ entries[slot] = AccessEntry(input.fields[EntryField(slot)])
          ELSE entries[slot] = None

Passed(i, j) == i < left \/ (i = left /\ j < right)

Distinct(i, j) == ~SameObject(i, j)

Compared ==
    /\ left \in Nat /\ right \in Nat /\ left < right
    /\ \A i, j \in 0..(len - 1) : i < j /\ Passed(i, j) => Distinct(i, j)

AllDistinct == \A i, j \in 0..(len - 1) : i < j => Distinct(i, j)

ManifestInv ==
    /\ input \in ByteString
    /\ status \in {"shape", "entries", "pairs", "accepted", "refused"}
    /\ Pushed
    /\ status = "shape" => len = 0
    /\ status \in {"entries", "pairs", "accepted"} => Shaped /\ index <= Declared
    /\ status \in {"pairs", "accepted"} => index = Declared
    /\ status = "pairs" => Compared
    /\ status = "accepted" => AllDistinct
    /\ status = "refused" => ~IsAccessManifest(input)

\* The declared count is a number that fits into the array.
LEMMA DeclaredIsBounded ==
    ASSUME input \in ByteString, Shaped
    PROVE  Declared \in 0..MaxAccessEntries
<1>1. /\ 1 \in DOMAIN input.fields /\ input.fields[1].len = 4
      /\ "value" \in DOMAIN input.fields[1]
      /\ Declared <= MaxAccessEntries
    BY DEF Shaped, CountedFields, HasNumber, Declared
<1>2. input.fields[1] \in ByteString
    BY <1>1, ByteStringAssumption DEF Shaped, FieldsOf, Range
<1>3. WellFormed(input.fields[1])
    BY <1>2, ByteStringAssumption
<1>4. Declared \in Nat
    BY <1>1, <1>3 DEF WellFormed, Declared, Value
<1> QED
    BY <1>1, <1>4, CapacityAssumption

\* decode_access_entry returns an entry.
LEMMA SomeEntry == ASSUME NEW b PROVE AccessEntry(b) # None
BY DEF AccessEntry, None

-----------------------------------------------------------------------------
(* The steps. *)

\* The checks before the loop
LEMMA CheckShapeKeeps ==
    ASSUME ManifestInv, CheckShape
    PROVE  ManifestInv'
<1>1. /\ status = "shape" /\ UNCHANGED <<input, entries, len, index, left, right>>
      /\ status' = IF Shaped THEN "entries" ELSE "refused"
    BY DEF CheckShape, Shaped
<1>2. len = 0 /\ index = 0 /\ Pushed'
    BY <1>1 DEF ManifestInv, Pushed, IsEntryField
<1>3. CASE Shaped
    <2>1. Shaped' /\ index' <= Declared' /\ status' = "entries"
        BY <1>1, <1>2, <1>3, DeclaredIsBounded DEF ManifestInv, Shaped, Declared
    <2> QED
        BY <1>1, <1>2, <2>1 DEF ManifestInv
<1>4. CASE ~Shaped
    <2>1. ~IsAccessManifest(input)' /\ status' = "refused"
        BY <1>1, <1>4 DEF Shaped, IsAccessManifest
    <2> QED
        BY <1>1, <1>2, <2>1 DEF ManifestInv
<1> QED
    BY <1>3, <1>4

\* One round of the loop over the declared fields: push always has room.
LEMMA DecodeEntryKeeps ==
    ASSUME ManifestInv, DecodeEntry
    PROVE  ManifestInv'
<1> DEFINE field == input.fields[EntryField(index)]
<1>1. /\ status = "entries" /\ index < Declared /\ len = index
      /\ UNCHANGED <<input, left, right>>
      /\ Shaped /\ Pushed /\ input \in ByteString
    BY DEF DecodeEntry, ManifestInv, Declared, Pushed
<1>2. index \in Nat /\ Declared \in Nat /\ index + 1 <= Declared /\ len \in Slot
    BY <1>1, DeclaredIsBounded, CapacityAssumption DEF Pushed, Slot
<1>3. CASE IsEntryField(index)
    <2>1. /\ entries' = [entries EXCEPT ![len] = AccessEntry(field)]
          /\ len' = len + 1 /\ index' = index + 1 /\ status' = status
        BY <1>2, <1>3 DEF DecodeEntry, Push, IsEntryField
    <2>2. Pushed'
        <3>1. DOMAIN entries = Slot
            BY <1>1 DEF Pushed
        <3>2. entries' = [slot \in Slot |-> IF slot = len THEN AccessEntry(field)
                                            ELSE entries[slot]]
            BY <2>1, <3>1
        <3>3. len' \in 0..MaxAccessEntries /\ len' = index'
            BY <1>1, <1>2, <2>1, CapacityAssumption DEF Slot
        <3>4. ASSUME NEW slot \in Slot
              PROVE  IF slot < len'
                     THEN /\ IsEntryField(slot)'
                          /\ entries'[slot] = AccessEntry(input'.fields[EntryField(slot)])
                     ELSE entries'[slot] = None
            <4>1. slot \in Nat /\ len \in Nat /\ len' = len + 1
                BY <1>2, <2>1, CapacityAssumption DEF Slot
            <4>2. CASE slot = len
                BY <1>1, <1>3, <3>2, <4>1, <4>2 DEF IsEntryField
            <4>3. CASE slot < len
                BY <1>1, <3>2, <4>1, <4>3 DEF Pushed, IsEntryField
            <4>4. CASE slot > len
                BY <1>1, <3>2, <4>1, <4>4 DEF Pushed
            <4> QED
                BY <4>1, <4>2, <4>3, <4>4
        <3> QED
            BY <3>2, <3>3, <3>4 DEF Pushed
    <2>3. Shaped' /\ index' <= Declared' /\ input' = input
        BY <1>1, <1>2, <2>1 DEF Shaped, Declared
    <2> QED
        BY <1>1, <2>1, <2>2, <2>3 DEF ManifestInv
<1>4. CASE ~IsEntryField(index)
    <2>1. status' = "refused" /\ UNCHANGED <<input, entries, len, index>>
        BY <1>4 DEF DecodeEntry, IsEntryField
    <2>2. ~IsAccessManifest(input)
        <3>1. index + 1 \in 1..Declared /\ (index + 1) + 1 = EntryField(index)
            BY <1>2 DEF EntryField
        <3> QED
            BY <1>4, <3>1 DEF IsAccessManifest, IsEntryField, Declared
    <2>3. Pushed'
        BY <1>1, <2>1 DEF Pushed, IsEntryField
    <2> QED
        BY <1>1, <2>1, <2>2, <2>3 DEF ManifestInv
<1> QED
    BY <1>3, <1>4

\* The start of the loops over the pairs
LEMMA EntriesDecodedKeeps ==
    ASSUME ManifestInv, EntriesDecoded
    PROVE  ManifestInv'
<1>1. /\ status = "entries" /\ index = Declared /\ UNCHANGED <<input, entries, len, index>>
      /\ status' = "pairs" /\ left' = 0 /\ right' = 1
    BY DEF EntriesDecoded, Declared
<1>2. Pushed' /\ Shaped' /\ index' = Declared' /\ index' <= Declared'
    <2>1. Pushed'
        BY <1>1 DEF ManifestInv, Pushed, IsEntryField
    <2>2. Shaped' /\ Declared' = Declared
        BY <1>1 DEF ManifestInv, Shaped, Declared
    <2>3. index <= Declared
        BY <1>1 DEF ManifestInv
    <2> QED
        BY <1>1, <2>1, <2>2, <2>3
<1>3. Compared'
    <2>1. len' \in Nat
        BY <1>1 DEF ManifestInv, Pushed
    <2>2. \A i, j \in 0..(len' - 1) : ~(i < j /\ Passed(i, j)')
        BY <1>1, <2>1 DEF Passed
    <2> QED
        BY <1>1, <2>2 DEF Compared, Passed
<1> QED
    BY <1>1, <1>2, <1>3 DEF ManifestInv

\* One comparison
LEMMA ComparePairKeeps ==
    ASSUME ManifestInv, ComparePair
    PROVE  ManifestInv'
<1>1. /\ status = "pairs" /\ right < len
      /\ UNCHANGED <<input, entries, len, index, left>> /\ right' = right + 1
      /\ input \in ByteString /\ Shaped /\ Pushed /\ Compared
      /\ index = Declared /\ index <= Declared /\ len = index
    BY DEF ComparePair, ManifestInv, Pushed
<1>2. Pushed' /\ Shaped' /\ index' = Declared' /\ index' <= Declared'
    BY <1>1 DEF Pushed, IsEntryField, Shaped, Declared
<1>3. left \in Nat /\ right \in Nat /\ len \in Nat /\ left < right
    BY <1>1 DEF Compared, Pushed
<1>4. CASE SameObject(left, right)
    <2>1. status' = "refused"
        BY <1>4 DEF ComparePair
    <2>2. ~IsAccessManifest(input)
        <3>1. left \in Slot /\ right \in Slot /\ left < len /\ right < len
            BY <1>1, <1>3, CapacityAssumption DEF Pushed, Slot
        <3>2. /\ entries[left] = AccessEntry(input.fields[EntryField(left)])
              /\ entries[right] = AccessEntry(input.fields[EntryField(right)])
            BY <1>1, <3>1 DEF Pushed
        <3>3. left + 1 \in 1..Declared /\ right + 1 \in 1..Declared /\ left + 1 # right + 1
            BY <1>1, <1>3
        <3>4. /\ AccessManifest(input)[left + 1] = entries[left]
              /\ AccessManifest(input)[right + 1] = entries[right]
              /\ DOMAIN AccessManifest(input) = 1..Declared
            <4>1. (left + 1) + 1 = EntryField(left) /\ (right + 1) + 1 = EntryField(right)
                BY <1>3 DEF EntryField
            <4> QED
                BY <3>2, <3>3, <4>1 DEF AccessManifest, Declared
        <3>5. ~DistinctObjects(AccessManifest(input))
            BY <1>4, <3>3, <3>4 DEF DistinctObjects, IsInjective, SameObject
        <3> QED
            BY <3>5 DEF IsAccessManifest
    <2> QED
        BY <1>1, <1>2, <2>1, <2>2 DEF ManifestInv
<1>5. CASE ~SameObject(left, right)
    <2>1. status' = "pairs"
        BY <1>5 DEF ComparePair
    <2>2. Compared'
        <3>1. ASSUME NEW i \in 0..(len - 1), NEW j \in 0..(len - 1), i < j, Passed(i, j)'
              PROVE  Distinct(i, j)'
            <4>1. Passed(i, j) \/ (i = left /\ j = right)
                BY <1>1, <1>3, <3>1 DEF Passed
            <4>2. Distinct(i, j)
                BY <1>1, <1>5, <3>1, <4>1 DEF Compared, Distinct
            <4> QED
                BY <1>1, <4>2 DEF Distinct, SameObject
        <3>2. left' \in Nat /\ right' \in Nat /\ left' < right' /\ len' = len
            BY <1>1, <1>3
        <3> QED
            BY <3>1, <3>2 DEF Compared
    <2> QED
        BY <1>1, <1>2, <2>1, <2>2 DEF ManifestInv
<1> QED
    BY <1>4, <1>5

\* The next round of the outer loop: the inner one left no pair out.
LEMMA NextLeftKeeps ==
    ASSUME ManifestInv, NextLeft
    PROVE  ManifestInv'
<1>1. /\ status = "pairs" /\ left < len /\ right >= len
      /\ UNCHANGED <<input, status, entries, len, index>>
      /\ left' = left + 1 /\ right' = left + 2
      /\ input \in ByteString /\ Shaped /\ Pushed /\ Compared
      /\ index = Declared /\ index <= Declared
    BY DEF NextLeft, ManifestInv
<1>2. Pushed' /\ Shaped' /\ index' = Declared' /\ index' <= Declared'
    BY <1>1 DEF Pushed, IsEntryField, Shaped, Declared
<1>3. left \in Nat /\ right \in Nat /\ len \in Nat
    BY <1>1 DEF Compared, Pushed
<1>4. Compared'
    <2>1. ASSUME NEW i \in 0..(len - 1), NEW j \in 0..(len - 1), i < j, Passed(i, j)'
          PROVE  Distinct(i, j)'
        <3>1. Passed(i, j)
            BY <1>1, <1>3, <2>1 DEF Passed
        <3>2. Distinct(i, j)
            BY <1>1, <2>1, <3>1 DEF Compared
        <3> QED
            BY <1>1, <3>2 DEF Distinct, SameObject
    <2>2. left' \in Nat /\ right' \in Nat /\ left' < right' /\ len' = len
        BY <1>1, <1>3
    <2> QED
        BY <2>1, <2>2 DEF Compared
<1> QED
    BY <1>1, <1>2, <1>4 DEF ManifestInv

\* The end of the outer loop: every pair was compared.
LEMMA AcceptKeeps ==
    ASSUME ManifestInv, Accept
    PROVE  ManifestInv'
<1>1. /\ status = "pairs" /\ left >= len /\ status' = "accepted"
      /\ UNCHANGED <<input, entries, len, index, left, right>>
      /\ input \in ByteString /\ Shaped /\ Pushed /\ Compared
      /\ index = Declared /\ index <= Declared
    BY DEF Accept, ManifestInv
<1>2. Pushed' /\ Shaped' /\ index' = Declared' /\ index' <= Declared'
    BY <1>1 DEF Pushed, IsEntryField, Shaped, Declared
<1>3. left \in Nat /\ len \in Nat
    BY <1>1 DEF Compared, Pushed
<1>4. AllDistinct'
    <2>1. ASSUME NEW i \in 0..(len - 1), NEW j \in 0..(len - 1), i < j
          PROVE  Distinct(i, j)'
        <3>1. Passed(i, j)
            BY <1>1, <1>3 DEF Passed
        <3>2. Distinct(i, j)
            BY <1>1, <2>1, <3>1 DEF Compared
        <3> QED
            BY <1>1, <3>2 DEF Distinct, SameObject
    <2> QED
        BY <1>1, <2>1 DEF AllDistinct
<1> QED
    BY <1>1, <1>2, <1>4 DEF ManifestInv

-----------------------------------------------------------------------------
(* What the decoder promises. *)

\* The invariant holds of every run of decode_access_manifest.
THEOREM ManifestInvariant == Spec => []ManifestInv
<1>1. Init => ManifestInv
    <2>1. ASSUME Init
          PROVE  Pushed
        BY <2>1, CapacityAssumption DEF Init, Pushed, Slot
    <2> QED
        BY <2>1, InputAssumption DEF Init, ManifestInv
<1>2. ASSUME ManifestInv, [Next]_vars
      PROVE  ManifestInv'
    <2>1. CASE UNCHANGED vars
        BY <1>2, <2>1 DEF vars, ManifestInv, Pushed, IsEntryField, Shaped, Declared,
           Compared, Passed, Distinct, SameObject, AllDistinct
    <2> QED
        BY <1>2, <2>1, CheckShapeKeeps, DecodeEntryKeeps, EntriesDecodedKeeps,
           ComparePairKeeps, NextLeftKeeps, AcceptKeeps DEF Next, Done
<1>3. ManifestInv /\ [Next]_vars => ManifestInv'
    BY <1>2
<1> QED
    BY <1>1, <1>3, PTL DEF Spec

\* The error of AccessManifest::push is never met, and the array is filled from
\* its start without a gap.
THEOREM PushSucceeds == Spec => []PushNeverFails
<1>1. ASSUME ManifestInv
      PROVE  PushNeverFails
    <2>1. ASSUME status = "entries", index < Declared
          PROVE  len \in Slot
        <3>1. Declared \in 0..MaxAccessEntries /\ len = index /\ len \in 0..MaxAccessEntries
            BY <1>1, <2>1, DeclaredIsBounded DEF ManifestInv, Pushed
        <3> QED
            BY <2>1, <3>1, CapacityAssumption DEF Slot
    <2>2. \A slot \in Slot : entries[slot] # None <=> slot < len
        BY <1>1, SomeEntry DEF ManifestInv, Pushed
    <2> QED
        BY <2>1, <2>2 DEF PushNeverFails, Declared
<1>2. ManifestInv => PushNeverFails
    BY <1>1
<1> QED
    BY <1>2, ManifestInvariant, PTL

\* decode_access_manifest accepts what the one formula of Decoders says, and
\* returns its entries in the order of the fields.
THEOREM LoopsAreRight == Spec => []LoopsAgree
<1>1. ASSUME ManifestInv, status = "accepted"
      PROVE  /\ IsAccessManifest(input)
             /\ [i \in 1..len |-> entries[i - 1]] = AccessManifest(input)
    <2>1. /\ Shaped /\ Pushed /\ AllDistinct /\ len = Declared /\ len \in Nat
          /\ len \in 0..MaxAccessEntries
        BY <1>1 DEF ManifestInv, Pushed
    <2>2. ASSUME NEW i \in 1..Declared
          PROVE  /\ i + 1 \in DOMAIN input.fields /\ IsAccessEntry(input.fields[i + 1])
                 /\ entries[i - 1] = AccessEntry(input.fields[i + 1])
        <3>1. i - 1 \in Slot /\ i - 1 < len /\ EntryField(i - 1) = i + 1
            BY <2>1, CapacityAssumption DEF Slot, EntryField
        <3> DEFINE slot == i - 1
        <3>2. slot \in Slot /\ slot < len /\ EntryField(slot) = i + 1
            BY <3>1
        <3> HIDE DEF slot
        <3>3. IsEntryField(slot) /\ entries[slot] = AccessEntry(input.fields[EntryField(slot)])
            BY <2>1, <3>2 DEF Pushed
        <3> QED
            BY <3>2, <3>3 DEF IsEntryField, slot
    <2>3. [i \in 1..len |-> entries[i - 1]] = AccessManifest(input)
        BY <2>1, <2>2 DEF AccessManifest, Declared
    <2>4. DistinctObjects(AccessManifest(input))
        <3> DEFINE id == [i \in DOMAIN AccessManifest(input) |->
                             AccessManifest(input)[i].object_ref.id]
        <3>1. DOMAIN id = 1..len /\ \A i \in 1..len : id[i] = entries[i - 1].object_ref.id
            BY <2>1, <2>3
        <3>2. ASSUME NEW i \in 1..len, NEW j \in 1..len, i < j
              PROVE  id[i] # id[j]
            <4>1. i - 1 \in 0..(len - 1) /\ j - 1 \in 0..(len - 1) /\ i - 1 < j - 1
                BY <2>1, <3>2
            <4>2. Distinct(i - 1, j - 1)
                BY <2>1, <4>1 DEF AllDistinct
            <4> QED
                BY <3>1, <4>2 DEF Distinct, SameObject
        <3> HIDE DEF id
        <3>3. \A i, j \in 1..len : id[i] = id[j] => i = j
            <4>1. \A i, j \in 1..len : i = j \/ i < j \/ j < i
                BY <2>1
            <4> QED
                BY <3>2, <4>1
        <3>4. IsInjective(id)
            BY <3>1, <3>3 DEF IsInjective
        <3> QED
            BY <3>4 DEF DistinctObjects, id
    <2> QED
        BY <2>1, <2>2, <2>3, <2>4 DEF IsAccessManifest, Shaped, Declared
<1>2. ManifestInv => LoopsAgree
    BY <1>1 DEF LoopsAgree, ManifestInv
<1> QED
    BY <1>2, ManifestInvariant, PTL
=============================================================================
