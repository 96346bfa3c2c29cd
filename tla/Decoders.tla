------------------------------ MODULE Decoders ------------------------------
(***************************************************************************)
(* What a completed frame says (crates/sunrise-edge-ledger-core/src:       *)
(* frame.rs, transaction.rs, policy.rs and review.rs): the decoders of the *)
(* nested frames, the policy and the review, as operators.  A decoder is a *)
(* predicate and the value it returns; its typed errors are one, since     *)
(* every caller maps them to InvalidData.                                  *)
(*                                                                         *)
(* Bytes are what CanonicalFrame makes of them.  A byte string is a frame, *)
(* with a byte string for each of its fields, a text or a number, whichever *)
(* the place it stands in is read as; len is its length in bytes.           *)
(*                                                                         *)
(* A definition whose name ends in _Slip is a wrong form of the one that   *)
(* follows it, used by no other.                                           *)
(***************************************************************************)
EXTENDS Naturals, Sequences, FiniteSets, Functions

CONSTANTS
    TextLen,        \* the length of each text
    NotUtf8,        \* the texts that are not UTF-8
    BlankText,      \* the texts trim() leaves nothing of
    MaxChainIdLen, MaxMessageTypeLen, MaxEntrypointLen, MaxArgsLen,
    MaxAccessEntries,
    Policy,         \* the ClearSigningPolicy dispatch is called with
    ByteString      \* the byte strings a decoder may meet, with their fields

None == [none |-> TRUE]

TRANSACTION_V1_MESSAGE_TYPE == "transaction-v1"
HashAlgorithm == {1, 2, 3}
Ed25519 == 1
Secp256k1 == 2
SignatureScheme == {Ed25519, Secp256k1}
Write == 2
AccessModes == {1, Write, 3}

TypeId ==
    [digest |-> 259, object_id |-> 16385, object_ref |-> 16388,
     access_mode |-> 16390, access_entry |-> 20481, access_manifest |-> 20482,
     asset_id |-> 28673, fee_payment |-> 28674,
     transaction |-> 24577, signature_frame |-> 8193]

-----------------------------------------------------------------------------
(* Byte strings. *)

Number(n, len) == [value |-> n, len |-> len]

Text(t) == [text |-> t, len |-> TextLen[t]]

\* A frame as the encoder lays it out: magic and header take ten bytes, the
\* identifier and the length of a field six.
Canonical(type_id, version, fields) ==
    [type_id |-> type_id, version |-> version, fields |-> fields,
     len |-> FoldFunction(LAMBDA bytes, sum : bytes.len + 6 + sum, 10, fields)]

\* A byte string stands for its bytes: what is read of it is all there is to it.
\* Up to eight bytes are read as an unsigned integer, more as they are.
WellFormed(b) ==
    /\ b.len \in Nat
    /\ "value" \in DOMAIN b =>
         /\ b = Number(b.value, b.len)
         /\ b.len <= 8 => b.value \in Nat
    /\ "text" \in DOMAIN b => b = Text(b.text)
    /\ "fields" \in DOMAIN b =>
         /\ b = Canonical(b.type_id, b.version, b.fields)
         /\ b.fields = [id \in DOMAIN b.fields |-> b.fields[id]]
         /\ IsFiniteSet(DOMAIN b.fields)

FieldsOf(b) == IF "fields" \in DOMAIN b THEN Range(b.fields) ELSE {}

ASSUME ByteStringAssumption ==
    /\ \A b \in ByteString : WellFormed(b)
    /\ UNION {FieldsOf(b) : b \in ByteString} \subseteq ByteString

\* decode_canonical_frame, require_type, require_version, require_only_fields
IsFrame(bytes, type_id, version, allowed) ==
    /\ "fields" \in DOMAIN bytes
    /\ bytes.type_id = type_id
    /\ bytes.version = version
    /\ DOMAIN bytes.fields \subseteq allowed

\* required_u16, required_u32, required_u64 and required_array
HasNumber(f, id, len) ==
    /\ id \in DOMAIN f.fields
    /\ f.fields[id].len = len
    /\ "value" \in DOMAIN f.fields[id]

\* required_field and BoundedStr::from_utf8_slice
HasText(f, id, max) ==
    /\ id \in DOMAIN f.fields
    /\ f.fields[id].len <= max
    /\ "text" \in DOMAIN f.fields[id]
    /\ f.fields[id].text \notin NotUtf8

Value(f, id) == f.fields[id].value

TextOf(f, id) == f.fields[id].text

-----------------------------------------------------------------------------
(* transaction.rs *)

IsDigest(b) ==
    /\ IsFrame(b, TypeId.digest, 1, {1, 2})
    /\ HasNumber(b, 1, 2)
    /\ Value(b, 1) \in HashAlgorithm
    /\ HasNumber(b, 2, 32)

Digest(b) == [algorithm |-> Value(b, 1), bytes |-> Value(b, 2)]

IsObjectId(b) == IsFrame(b, TypeId.object_id, 1, {1}) /\ HasNumber(b, 1, 32)

IsObjectRef(b) ==
    /\ IsFrame(b, TypeId.object_ref, 1, 1..3)
    /\ 1 \in DOMAIN b.fields /\ IsObjectId(b.fields[1])
    /\ HasNumber(b, 2, 8)
    /\ 3 \in DOMAIN b.fields /\ IsDigest(b.fields[3])

ObjectRef(b) ==
    [id |-> Value(b.fields[1], 1), version |-> Value(b, 2), digest |-> Digest(b.fields[3])]

\* What an ObjectRef may hold.
IsReference(x) ==
    /\ x = [id |-> x.id, version |-> x.version, digest |-> x.digest]
    /\ x.digest = [algorithm |-> x.digest.algorithm, bytes |-> x.digest.bytes]
    /\ x.digest.algorithm \in HashAlgorithm

IsAccessMode(b) ==
    /\ IsFrame(b, TypeId.access_mode, 1, {1})
    /\ HasNumber(b, 1, 1)
    /\ Value(b, 1) \in AccessModes

IsAccessEntry(b) ==
    /\ IsFrame(b, TypeId.access_entry, 1, {1, 2})
    /\ 1 \in DOMAIN b.fields /\ IsObjectRef(b.fields[1])
    /\ 2 \in DOMAIN b.fields /\ IsAccessMode(b.fields[2])

AccessEntry(b) ==
    [object_ref |-> ObjectRef(b.fields[1]), mode |-> Value(b.fields[2], 1)]

AccessManifest(b) == [i \in 1..Value(b, 1) |-> AccessEntry(b.fields[i + 1])]

\* Does not count the fields.
CountedFields_Slip(b) == HasNumber(b, 1, 4) /\ Value(b, 1) <= MaxAccessEntries

\* Lets one entry too many through.
CountedFields_SlipBound(b) ==
    /\ HasNumber(b, 1, 4)
    /\ Value(b, 1) <= MaxAccessEntries + 1
    /\ Cardinality(DOMAIN b.fields) = Value(b, 1) + 1

\* There is no list of allowed fields: they are counted.
CountedFields(b) ==
    /\ HasNumber(b, 1, 4)
    /\ Value(b, 1) <= MaxAccessEntries
    /\ Cardinality(DOMAIN b.fields) = Value(b, 1) + 1

\* Compares the versions of the objects.
DistinctObjects_Slip(entries) ==
    IsInjective([i \in DOMAIN entries |-> entries[i].object_ref.version])

DistinctObjects(entries) ==
    IsInjective([i \in DOMAIN entries |-> entries[i].object_ref.id])

IsAccessManifest(b) ==
    /\ "fields" \in DOMAIN b
    /\ b.type_id = TypeId.access_manifest
    /\ b.version = 1
    /\ CountedFields(b)
    /\ \A i \in 1..Value(b, 1) :
          i + 1 \in DOMAIN b.fields /\ IsAccessEntry(b.fields[i + 1])
    /\ DistinctObjects(AccessManifest(b))

\* An asset identifier is one number, as an object identifier is.
IsAssetId(b) == IsFrame(b, TypeId.asset_id, 1, {1}) /\ HasNumber(b, 1, 32)

IsFeePayment(b) ==
    /\ IsFrame(b, TypeId.fee_payment, 1, 1..3)
    /\ 1 \in DOMAIN b.fields /\ IsAssetId(b.fields[1])
    /\ HasNumber(b, 2, 8)
    /\ 3 \in DOMAIN b.fields /\ IsObjectRef(b.fields[3])

FeePayment(b) ==
    [asset_id |-> Value(b.fields[1], 1), max_fee |-> Value(b, 2),
     fee_object |-> ObjectRef(b.fields[3])]

IsTransaction(b) ==
    /\ IsFrame(b, TypeId.transaction, 1, 1..11)
    /\ HasText(b, 1, MaxChainIdLen)
    /\ HasNumber(b, 2, 4)
    /\ HasNumber(b, 3, 8)
    /\ HasNumber(b, 4, 32)
    /\ HasNumber(b, 5, 8)
    /\ 6 \in DOMAIN b.fields /\ IsAccessManifest(b.fields[6])
    /\ 7 \in DOMAIN b.fields /\ IsObjectRef(b.fields[7])
    /\ HasText(b, 8, MaxEntrypointLen)
    /\ b.fields[8].len > 0
    /\ 9 \in DOMAIN b.fields /\ b.fields[9].len <= MaxArgsLen
    /\ HasNumber(b, 10, 8)
    /\ 11 \in DOMAIN b.fields => IsFeePayment(b.fields[11])

TransactionSignable(b) ==
    [chain_id |-> TextOf(b, 1), protocol_version |-> Value(b, 2), epoch |-> Value(b, 3),
     sender |-> Value(b, 4), nonce |-> Value(b, 5),
     access_manifest |-> AccessManifest(b.fields[6]),
     module_ref |-> ObjectRef(b.fields[7]), entrypoint |-> TextOf(b, 8),
     args |-> b.fields[9], gas_limit |-> Value(b, 10),
     fee_payment |-> IF 11 \in DOMAIN b.fields THEN FeePayment(b.fields[11]) ELSE None]

-----------------------------------------------------------------------------
(* frame.rs *)

IsSignatureFrame(b) ==
    /\ IsFrame(b, TypeId.signature_frame, 1, 1..6)
    /\ HasText(b, 1, MaxChainIdLen)
    /\ TextOf(b, 1) \notin BlankText
    /\ HasNumber(b, 2, 4)
    /\ HasNumber(b, 3, 8)
    /\ HasText(b, 4, MaxMessageTypeLen)
    /\ TextOf(b, 4) \notin BlankText
    /\ HasNumber(b, 5, 2)
    /\ Value(b, 5) \in SignatureScheme
    /\ 6 \in DOMAIN b.fields

SignatureFrame(b) ==
    [chain_id |-> TextOf(b, 1), protocol_version |-> Value(b, 2), epoch |-> Value(b, 3),
     message_type |-> TextOf(b, 4), signature_scheme_id |-> Value(b, 5),
     payload |-> b.fields[6]]

-----------------------------------------------------------------------------
(* policy.rs and review.rs *)

\* Takes any chain.
SameContext_Slip(t) ==
    /\ t.protocol_version = Policy.protocol_version
    /\ t.epoch = Policy.epoch

SameContext(t) ==
    /\ t.chain_id = Policy.chain_id
    /\ t.protocol_version = Policy.protocol_version
    /\ t.epoch = Policy.epoch

\* Takes any fee object.
PaysFromFirst_Slip(t) ==
    /\ t.fee_payment # None
    /\ t.fee_payment.asset_id = Policy.fee_asset_id

PaysFromFirst(t) ==
    /\ t.fee_payment # None
    /\ t.fee_payment.fee_object = t.access_manifest[1].object_ref
    /\ t.fee_payment.asset_id = Policy.fee_asset_id

\* recognize
Recognized(t) ==
    /\ SameContext(t)
    /\ t.module_ref = Policy.module_ref
    /\ t.entrypoint = Policy.entrypoint
    /\ Len(t.access_manifest) = 3
    /\ \A i \in 1..3 : t.access_manifest[i].mode = Write
    /\ PaysFromFirst(t)
    /\ IsFrame(t.args, Policy.args_type_id, Policy.args_version, {Policy.args_field_id})
    /\ HasNumber(t.args, Policy.args_field_id, 8)
    /\ Value(t.args, Policy.args_field_id) # 0

\* build_review accepts: the two copies of the signed context agree.
BuildsReview(f, t) ==
    /\ f.message_type = TRANSACTION_V1_MESSAGE_TYPE
    /\ f.signature_scheme_id = Ed25519
    /\ t.chain_id = f.chain_id
    /\ t.protocol_version = f.protocol_version
    /\ t.epoch = f.epoch
    /\ Recognized(t)

ClearSigningReview(f, t) ==
    [chain_id |-> f.chain_id, protocol_version |-> f.protocol_version, epoch |-> f.epoch,
     message_type |-> f.message_type, scheme |-> f.signature_scheme_id,
     sender |-> t.sender, nonce |-> t.nonce,
     module |-> t.module_ref, entrypoint |-> t.entrypoint,
     amount |-> Value(t.args, Policy.args_field_id), amount_label |-> Policy.args_label,
     gas_limit |-> t.gas_limit, access_entries |-> t.access_manifest,
     fee |-> t.fee_payment]

\* What handle_last would learn of a frame if it made every call it can make.
Inspected(b, no_sender) ==
    LET decodes == IsSignatureFrame(b) /\ IsTransaction(b.fields[6])
        t == TransactionSignable(b.fields[6])
        f == SignatureFrame(b)
    IN  [frame |-> IsSignatureFrame(b),
         payload_len |-> IF IsSignatureFrame(b) THEN f.payload.len ELSE 0,
         transaction |-> decodes,
         sender |-> IF decodes THEN t.sender ELSE no_sender,
         review |-> IF decodes /\ BuildsReview(f, t) THEN ClearSigningReview(f, t) ELSE None]

-----------------------------------------------------------------------------
(* The encoder a decoder is compared with. *)

EncodedDigest(d) ==
    Canonical(TypeId.digest, 1, <<Number(d.algorithm, 2), Number(d.bytes, 32)>>)

EncodedObjectRef(r) ==
    Canonical(TypeId.object_ref, 1,
        <<Canonical(TypeId.object_id, 1, <<Number(r.id, 32)>>),
          Number(r.version, 8), EncodedDigest(r.digest)>>)

EncodedAccessEntry(e) ==
    Canonical(TypeId.access_entry, 1,
        <<EncodedObjectRef(e.object_ref),
          Canonical(TypeId.access_mode, 1, <<Number(e.mode, 1)>>)>>)

EncodedAccessManifest(entries) ==
    Canonical(TypeId.access_manifest, 1,
        <<Number(Len(entries), 4)>> \o [i \in 1..Len(entries) |-> EncodedAccessEntry(entries[i])])

EncodedFeePayment(p) ==
    Canonical(TypeId.fee_payment, 1,
        <<Canonical(TypeId.asset_id, 1, <<Number(p.asset_id, 32)>>),
          Number(p.max_fee, 8), EncodedObjectRef(p.fee_object)>>)

EncodedTransaction(t) ==
    Canonical(TypeId.transaction, 1,
        <<Text(t.chain_id), Number(t.protocol_version, 4), Number(t.epoch, 8),
          Number(t.sender, 32), Number(t.nonce, 8), EncodedAccessManifest(t.access_manifest),
          EncodedObjectRef(t.module_ref), Text(t.entrypoint), t.args, Number(t.gas_limit, 8)>>
        \o IF t.fee_payment = None THEN <<>> ELSE <<EncodedFeePayment(t.fee_payment)>>)

EncodedFrame(f) ==
    Canonical(TypeId.signature_frame, 1,
        <<Text(f.chain_id), Number(f.protocol_version, 4), Number(f.epoch, 8),
          Text(f.message_type), Number(f.signature_scheme_id, 2), f.payload>>)

\* The only frame a review can be of: every byte of it follows from what is
\* displayed and from the policy.
Rebuilt(r) ==
    EncodedFrame(
        [chain_id |-> r.chain_id, protocol_version |-> r.protocol_version, epoch |-> r.epoch,
         message_type |-> r.message_type, signature_scheme_id |-> r.scheme,
         payload |-> EncodedTransaction(
            [chain_id |-> r.chain_id, protocol_version |-> r.protocol_version,
             epoch |-> r.epoch, sender |-> r.sender, nonce |-> r.nonce,
             access_manifest |-> r.access_entries, module_ref |-> r.module,
             entrypoint |-> r.entrypoint,
             args |-> Canonical(Policy.args_type_id, Policy.args_version,
                        [id \in {Policy.args_field_id} |-> Number(r.amount, 8)]),
             gas_limit |-> r.gas_limit, fee_payment |-> r.fee])])

=============================================================================
