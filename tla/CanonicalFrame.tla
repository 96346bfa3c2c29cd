--------------------------- MODULE CanonicalFrame ---------------------------
(***************************************************************************)
(* The strict decoder of the canonical field-framed wire format            *)
(* (crates/sunrise-edge-ledger-core/src/canonical.rs): one pass over the   *)
(* input that checks the magic, reads a header of three integers and then  *)
(* as many fields as the header declares, and accepts only if the fields   *)
(* end where the input ends.  One action is one iteration of the pass; the *)
(* scan of an accepted frame for one of its fields is a definition.        *)
(*                                                                         *)
(* The module documentation of the source claims that "the strict decode   *)
(* itself is the canonicality check": an accepted input is the one and     *)
(* only encoding of its fields.  Encoding is the encoder it is compared to.*)
(***************************************************************************)
EXTENDS Bytes

CONSTANTS
    U16, U32,   \* the bytes of a u16 and of a u32, 2 and 4 in the code
    Magic,      \* PROTOCOL_MAGIC
    Input,      \* the byte strings that are decoded
    Encodable   \* the frames the decoder is compared with the encoder on

ASSUME WidthAssumption ==
    /\ U16 \in Nat \ {0}
    /\ U32 \in Nat \ {0}
ASSUME InputAssumption ==
    /\ Magic \in Seq(Byte)
    /\ Input \subseteq Seq(Byte)

VARIABLES
    input,      \* the bytes to decode
    offset,     \* how many of them have been taken
    status,     \* what is read next, or how decoding ended
    header,     \* type_id, version and field_count
    previous,   \* the identifier of the field before, NoField at first
    fields      \* the fields taken so far

vars == <<input, offset, status, header, previous, fields>>

NoField == -1

NoHeader == [type_id |-> 0, version |-> 0, field_count |-> 0]

Failure == {"Truncated", "InvalidMagic", "NonCanonicalFieldOrder", "TrailingBytes"}

-----------------------------------------------------------------------------
(* Reading. *)

\* take: the n bytes behind position at are there.
Has(at, n) == at + n <= Len(input)

Slice(at, n) == SubSeq(input, at + 1, at + n)

\* The first byte weighs most.
ReadU16_Slip(at) == BigEndian(Slice(at, U16))

ReadU16(at) == LittleEndian(Slice(at, U16))

ReadU32(at) == LittleEndian(Slice(at, U32))

HeaderLen == 3 * U16

Prelude == U16 + U32

-----------------------------------------------------------------------------

Init ==
    /\ input \in Input
    /\ offset = 0
    /\ status = "magic"
    /\ header = NoHeader
    /\ previous = NoField
    /\ fields = <<>>

Stop(how) ==
    /\ status' = how
    /\ UNCHANGED <<input, offset, header, previous, fields>>

TakeMagic ==
    /\ status = "magic"
    /\ \/ /\ ~Has(0, Len(Magic))
          /\ Stop("Truncated")
       \/ /\ Has(0, Len(Magic))
          /\ Slice(0, Len(Magic)) # Magic
          /\ Stop("InvalidMagic")
       \/ /\ Has(0, Len(Magic))
          /\ Slice(0, Len(Magic)) = Magic
          /\ offset' = Len(Magic)
          /\ status' = "header"
          /\ UNCHANGED <<input, header, previous, fields>>

ReadHeader ==
    /\ status = "header"
    /\ \/ /\ ~Has(offset, HeaderLen)
          /\ Stop("Truncated")
       \/ /\ Has(offset, HeaderLen)
          /\ header' = [type_id |-> ReadU16(offset),
                        version |-> ReadU16(offset + U16),
                        field_count |-> ReadU16(offset + 2 * U16)]
          /\ offset' = offset + HeaderLen
          /\ status' = "fields"
          /\ UNCHANGED <<input, previous, fields>>

\* Takes a repeated identifier for an ascending one.
FieldStatus_SlipOrder ==
    IF ~Has(offset, U16) THEN "Truncated"
    ELSE IF ReadU16(offset) < previous THEN "NonCanonicalFieldOrder"
    ELSE IF ~Has(offset + U16, U32) THEN "Truncated"
    ELSE IF ~Has(offset + Prelude, ReadU32(offset + U16)) THEN "Truncated"
    ELSE "fields"

\* The first check that fails for the next field, or "fields" to go on.
FieldStatus ==
    IF ~Has(offset, U16) THEN "Truncated"
    ELSE IF ReadU16(offset) <= previous THEN "NonCanonicalFieldOrder"
    ELSE IF ~Has(offset + U16, U32) THEN "Truncated"
    ELSE IF ~Has(offset + Prelude, ReadU32(offset + U16)) THEN "Truncated"
    ELSE "fields"

\* Reads one field more than declared.
ReadField_Slip ==
    /\ status = "fields"
    /\ Len(fields) <= header.field_count
    /\ \/ /\ FieldStatus # "fields"
          /\ Stop(FieldStatus)
       \/ /\ FieldStatus = "fields"
          /\ LET id == ReadU16(offset)
                 len == ReadU32(offset + U16)
             IN  /\ fields' = Append(fields, [id |-> id, bytes |-> Slice(offset + Prelude, len)])
                 /\ previous' = id
                 /\ offset' = offset + Prelude + len
          /\ UNCHANGED <<input, status, header>>

ReadField ==
    /\ status = "fields"
    /\ Len(fields) < header.field_count
    /\ \/ /\ FieldStatus # "fields"
          /\ Stop(FieldStatus)
       \/ /\ FieldStatus = "fields"
          /\ LET id == ReadU16(offset)
                 len == ReadU32(offset + U16)
             IN  /\ fields' = Append(fields, [id |-> id, bytes |-> Slice(offset + Prelude, len)])
                 /\ previous' = id
                 /\ offset' = offset + Prelude + len
          /\ UNCHANGED <<input, status, header>>

Finish ==
    /\ status = "fields"
    /\ Len(fields) = header.field_count
    /\ Stop(IF offset = Len(input) THEN "accepted" ELSE "TrailingBytes")

Next == TakeMagic \/ ReadHeader \/ ReadField \/ Finish

Spec == Init /\ [][Next]_vars

-----------------------------------------------------------------------------
(* An accepted frame. *)

FieldsStart == Len(Magic) + HeaderLen

\* Skips the length and not the bytes.
FieldAt_Slip ==
    LET at[k \in 0..header.field_count] ==
            IF k = 0 THEN FieldsStart ELSE at[k - 1] + Prelude
    IN  at

\* Where the k-th field of the frame begins, found as field() finds it: from the
\* start of the fields, over every length in between.
FieldAt ==
    LET at[k \in 0..header.field_count] ==
            IF k = 0 THEN FieldsStart
            ELSE at[k - 1] + Prelude + ReadU32(at[k - 1] + U16)
    IN  at

\* What field(field_id) returns: the bytes of the first field with that id, as a
\* set of at most one.
Field(field_id) ==
    LET at == FieldAt
        hits == {k \in 0..(header.field_count - 1) : ReadU16(at[k]) = field_id}
    IN  {Slice(at[k] + Prelude, ReadU32(at[k] + U16)) :
            k \in {k \in hits : \A j \in hits : k <= j}}

\* require_only_fields
OnlyFields(allowed) ==
    \A k \in 0..(header.field_count - 1) : ReadU16(FieldAt[k]) \in allowed

-----------------------------------------------------------------------------
(* Properties. *)

\* The encoder of the format.
Digits(value, width) == ToLittleEndian(value, width)

EncodedHeader(type_id, version, field_count) ==
    Magic \o Digits(type_id, U16) \o Digits(version, U16) \o Digits(field_count, U16)

EncodedField(field) ==
    Digits(field.id, U16) \o Digits(Len(field.bytes), U32) \o field.bytes

\* The first fields of a frame, from none to all of them.
EncodedFields(fs) ==
    LET first[k \in 0..Len(fs)] ==
            IF k = 0 THEN <<>> ELSE first[k - 1] \o EncodedField(fs[k])
    IN  first

Encoding(type_id, version, fs) ==
    EncodedHeader(type_id, version, Len(fs)) \o EncodedFields(fs)[Len(fs)]

Ascending(fs) == \A i, j \in DOMAIN fs : i < j => fs[i].id < fs[j].id

\* The scan never leaves the input and never takes more fields than declared.
TypeOK ==
    /\ input \in Input
    /\ offset \in 0..Len(input)
    /\ status \in {"magic", "header", "fields", "accepted"} \cup Failure
    /\ header \in [type_id : Nat, version : Nat, field_count : Nat]
    /\ previous \in Nat \cup {NoField}
    /\ Len(fields) <= header.field_count
    /\ \A i \in DOMAIN fields : fields[i].id \in Nat /\ fields[i].bytes \in Seq(Byte)

\* An accepted input is the encoding of its fields, byte for byte, in ascending
\* order: "the strict decode itself is the canonicality check", so no re-encoding
\* is needed to tell a canonical frame.
AcceptedIsCanonical ==
    status = "accepted" =>
        /\ Ascending(fields)
        /\ input = Encoding(header.type_id, header.version, fields)

\* What an integer of so many bytes can be.
Fits(value, width) == \E bytes \in [1..width -> Byte] : LittleEndian(bytes) = value

\* Frames as the encoder takes them: every number has room in its integer.
ASSUME EncodableAssumption ==
    \A f \in Encodable :
        /\ Fits(f.type_id, U16) /\ Fits(f.version, U16) /\ Fits(Len(f.fields), U16)
        /\ f.fields \in Seq([id : Nat, bytes : Seq(Byte)])
        /\ \A i \in DOMAIN f.fields :
              Fits(f.fields[i].id, U16) /\ Fits(Len(f.fields[i].bytes), U32)

Canonical ==
    {Encoding(f.type_id, f.version, f.fields) : f \in {f \in Encodable : Ascending(f.fields)}}

\* No encoding is refused: an input that decoding fails on is not what the
\* encoder makes of any frame.
RefusedIsNotCanonical == status \in Failure => input \notin Canonical

\* The scans of field() and require_only_fields, which read the lengths of an
\* accepted frame again, see exactly the fields that were decoded; that is why
\* none of their reads is out of bounds.
ScanAgrees ==
    status = "accepted" =>
        /\ \A id \in 0..(Power(Base, U16) - 1) :
              Field(id) = {fields[i].bytes : i \in {i \in DOMAIN fields : fields[i].id = id}}
        /\ \A allowed \in SUBSET {1, 2} :
              OnlyFields(allowed) <=> {fields[i].id : i \in DOMAIN fields} \subseteq allowed

=============================================================================
