---------------------------- MODULE DecodersProofs ----------------------------
(***************************************************************************)
(* Proofs about the decoders: whatever one accepts encodes back to the     *)
(* bytes it was given, and a review tells the frame it was built from.     *)
(***************************************************************************)
EXTENDS ReviewFacts, FiniteSetTheorems, TLAPS

-----------------------------------------------------------------------------
(* Byte strings. *)

\* A field that is read as a number is its value and its length.
LEMMA NumberField ==
    ASSUME NEW b \in ByteString, "fields" \in DOMAIN b, NEW id, NEW len, HasNumber(b, id, len)
    PROVE  b.fields[id] = Number(Value(b, id), len) /\ b.fields[id] \in ByteString
<1>1. b.fields[id] \in ByteString
    BY ByteStringAssumption DEF FieldsOf, Range, HasNumber
<1>2. b.fields[id] = Number(b.fields[id].value, b.fields[id].len)
    BY <1>1, ByteStringAssumption DEF WellFormed, HasNumber
<1> QED
    BY <1>1, <1>2 DEF HasNumber, Value

\* So is one that is read as a text.
LEMMA TextField ==
    ASSUME NEW b \in ByteString, "fields" \in DOMAIN b, NEW id, NEW max, HasText(b, id, max)
    PROVE  b.fields[id] = Text(TextOf(b, id))
<1>1. b.fields[id] \in ByteString
    BY ByteStringAssumption DEF FieldsOf, Range, HasText
<1>2. b.fields[id] = Text(b.fields[id].text)
    BY <1>1, ByteStringAssumption DEF WellFormed, HasText
<1> QED
    BY <1>2 DEF TextOf

\* A frame is its type, its version and its fields.
LEMMA FrameParts ==
    ASSUME NEW b \in ByteString, "fields" \in DOMAIN b
    PROVE  /\ b = Canonical(b.type_id, b.version, b.fields)
           /\ b.fields = [id \in DOMAIN b.fields |-> b.fields[id]]
           /\ IsFiniteSet(DOMAIN b.fields)
           /\ \A id \in DOMAIN b.fields : b.fields[id] \in ByteString
<1>1. WellFormed(b)
    BY ByteStringAssumption
<1>2. ASSUME NEW id \in DOMAIN b.fields
      PROVE  b.fields[id] \in ByteString
    BY <1>2, ByteStringAssumption DEF FieldsOf, Range
<1> QED
    BY <1>1, <1>2 DEF WellFormed

-----------------------------------------------------------------------------
(* transaction.rs *)

\* decode_digest
LEMMA DigestIsEncoded ==
    ASSUME NEW b \in ByteString, IsDigest(b)
    PROVE  EncodedDigest(Digest(b)) = b
<1>1. /\ "fields" \in DOMAIN b /\ b.type_id = TypeId.digest /\ b.version = 1
      /\ DOMAIN b.fields = 1..2
      /\ HasNumber(b, 1, 2) /\ HasNumber(b, 2, 32)
    BY DEF IsDigest, IsFrame, HasNumber
<1>2. b.fields[1] = Number(Value(b, 1), 2) /\ b.fields[2] = Number(Value(b, 2), 32)
    BY <1>1, NumberField
<1>3. b.fields = <<Number(Value(b, 1), 2), Number(Value(b, 2), 32)>>
    BY <1>1, <1>2, FrameParts
<1> QED
    BY <1>1, <1>3, FrameParts DEF EncodedDigest, Digest

\* decode_object_ref, with the object identifier nested in it
LEMMA ObjectRefIsEncoded ==
    ASSUME NEW b \in ByteString, IsObjectRef(b)
    PROVE  EncodedObjectRef(ObjectRef(b)) = b
<1>1. /\ "fields" \in DOMAIN b /\ b.type_id = TypeId.object_ref /\ b.version = 1
      /\ DOMAIN b.fields = 1..3
      /\ IsObjectId(b.fields[1]) /\ HasNumber(b, 2, 8) /\ IsDigest(b.fields[3])
    BY DEF IsObjectRef, IsFrame, HasNumber
<1>2. b.fields[1] \in ByteString /\ b.fields[3] \in ByteString
    BY <1>1, FrameParts
<1>3. b.fields[1] = Canonical(TypeId.object_id, 1, <<Number(Value(b.fields[1], 1), 32)>>)
    <2> DEFINE id == b.fields[1]
    <2>1. /\ "fields" \in DOMAIN id /\ id.type_id = TypeId.object_id /\ id.version = 1
          /\ DOMAIN id.fields = 1..1
          /\ HasNumber(id, 1, 32)
        BY <1>1 DEF IsObjectId, IsFrame, HasNumber
    <2>2. id.fields[1] = Number(Value(id, 1), 32)
        BY <1>2, <2>1, NumberField
    <2>3. id.fields = <<Number(Value(id, 1), 32)>>
        BY <1>2, <2>1, <2>2, FrameParts
    <2> QED
        BY <1>2, <2>1, <2>3, FrameParts
<1>4. b.fields[2] = Number(Value(b, 2), 8)
    BY <1>1, NumberField
<1>5. b.fields[3] = EncodedDigest(Digest(b.fields[3]))
    BY <1>1, <1>2, DigestIsEncoded
<1>6. b.fields = <<Canonical(TypeId.object_id, 1, <<Number(Value(b.fields[1], 1), 32)>>),
                   Number(Value(b, 2), 8), EncodedDigest(Digest(b.fields[3]))>>
    BY <1>1, <1>3, <1>4, <1>5, FrameParts
<1> QED
    BY <1>1, <1>6, FrameParts DEF EncodedObjectRef, ObjectRef

\* decode_access_mode
LEMMA AccessModeIsEncoded ==
    ASSUME NEW b \in ByteString, IsAccessMode(b)
    PROVE  Canonical(TypeId.access_mode, 1, <<Number(Value(b, 1), 1)>>) = b
<1>1. /\ "fields" \in DOMAIN b /\ b.type_id = TypeId.access_mode /\ b.version = 1
      /\ DOMAIN b.fields = 1..1
      /\ HasNumber(b, 1, 1)
    BY DEF IsAccessMode, IsFrame, HasNumber
<1>2. b.fields[1] = Number(Value(b, 1), 1)
    BY <1>1, NumberField
<1>3. b.fields = <<Number(Value(b, 1), 1)>>
    BY <1>1, <1>2, FrameParts
<1> QED
    BY <1>1, <1>3, FrameParts

\* decode_access_entry
LEMMA AccessEntryIsEncoded ==
    ASSUME NEW b \in ByteString, IsAccessEntry(b)
    PROVE  EncodedAccessEntry(AccessEntry(b)) = b
<1>1. /\ "fields" \in DOMAIN b /\ b.type_id = TypeId.access_entry /\ b.version = 1
      /\ DOMAIN b.fields = 1..2
      /\ IsObjectRef(b.fields[1]) /\ IsAccessMode(b.fields[2])
    BY DEF IsAccessEntry, IsFrame
<1>2. b.fields[1] \in ByteString /\ b.fields[2] \in ByteString
    BY <1>1, FrameParts
<1>3. /\ b.fields[1] = EncodedObjectRef(ObjectRef(b.fields[1]))
      /\ b.fields[2] = Canonical(TypeId.access_mode, 1, <<Number(Value(b.fields[2], 1), 1)>>)
    BY <1>1, <1>2, ObjectRefIsEncoded, AccessModeIsEncoded
<1>4. b.fields = <<EncodedObjectRef(ObjectRef(b.fields[1])),
                   Canonical(TypeId.access_mode, 1, <<Number(Value(b.fields[2], 1), 1)>>)>>
    BY <1>1, <1>3, FrameParts
<1> QED
    BY <1>1, <1>4, FrameParts DEF EncodedAccessEntry, AccessEntry

\* The count of the fields leaves decode_access_manifest no other fields than
\* the declared entries.
LEMMA CountedFieldsAreListed ==
    ASSUME NEW b \in ByteString, IsAccessManifest(b)
    PROVE  Value(b, 1) \in Nat /\ DOMAIN b.fields = 1..(Value(b, 1) + 1)
<1> DEFINE n == Value(b, 1)
<1>1. /\ "fields" \in DOMAIN b
      /\ HasNumber(b, 1, 4)
      /\ Cardinality(DOMAIN b.fields) = n + 1
      /\ \A i \in 1..n : i + 1 \in DOMAIN b.fields
    BY DEF IsAccessManifest, CountedFields
<1>2. n \in Nat
    <2>1. b.fields[1] \in ByteString /\ "value" \in DOMAIN b.fields[1] /\ b.fields[1].len = 4
        BY <1>1, FrameParts DEF HasNumber
    <2>2. WellFormed(b.fields[1])
        BY <2>1, ByteStringAssumption
    <2> QED
        BY <2>1, <2>2 DEF WellFormed, Value
<1>3. 1..(n + 1) \subseteq DOMAIN b.fields
    <2>1. ASSUME NEW j \in 1..(n + 1)
          PROVE  j \in DOMAIN b.fields
        <3>1. CASE j = 1
            BY <1>1, <3>1 DEF HasNumber
        <3>2. CASE j # 1
            <4>1. j - 1 \in 1..n /\ (j - 1) + 1 = j
                BY <1>2, <2>1, <3>2
            <4> QED
                BY <1>1, <4>1
        <3> QED
            BY <3>1, <3>2
    <2> QED
        BY <2>1
<1>4. Cardinality(1..(n + 1)) = n + 1
    BY <1>2, FS_Interval
<1>5. IsFiniteSet(DOMAIN b.fields)
    BY <1>1, FrameParts
<1> QED
    BY <1>1, <1>2, <1>3, <1>4, <1>5, FS_Subset

\* decode_access_manifest, any number of entries
LEMMA AccessManifestIsEncoded ==
    ASSUME NEW b \in ByteString, IsAccessManifest(b)
    PROVE  EncodedAccessManifest(AccessManifest(b)) = b
<1> DEFINE n == Value(b, 1)
           entries == AccessManifest(b)
           encoded == [i \in 1..Len(entries) |-> EncodedAccessEntry(entries[i])]
<1>1. n \in Nat /\ DOMAIN b.fields = 1..(n + 1)
    BY CountedFieldsAreListed
<1>2. /\ "fields" \in DOMAIN b /\ b.type_id = TypeId.access_manifest /\ b.version = 1
      /\ HasNumber(b, 1, 4)
      /\ \A i \in 1..n : IsAccessEntry(b.fields[i + 1])
    BY DEF IsAccessManifest, CountedFields
<1>3. Len(entries) = n /\ DOMAIN entries = 1..n
    BY <1>1 DEF AccessManifest
<1>4. ASSUME NEW i \in 1..n
      PROVE  encoded[i] = b.fields[i + 1]
    <2>1. b.fields[i + 1] \in ByteString
        BY <1>1, <1>2, FrameParts
    <2>2. EncodedAccessEntry(AccessEntry(b.fields[i + 1])) = b.fields[i + 1]
        BY <1>2, <2>1, AccessEntryIsEncoded
    <2> QED
        BY <1>3, <2>2 DEF AccessManifest
<1>5. b.fields[1] = Number(n, 4)
    BY <1>2, NumberField
<1>6. b.fields = <<Number(n, 4)>> \o encoded
    <2> DEFINE all == <<Number(n, 4)>> \o encoded
    <2>1. Len(encoded) = n /\ encoded \in Seq({b.fields[i] : i \in DOMAIN b.fields})
        <3>1. encoded = [i \in 1..n |-> b.fields[i + 1]]
            BY <1>3, <1>4
        <3>2. \A i \in 1..n : i + 1 \in DOMAIN b.fields
            BY <1>1
        <3> HIDE DEF n, encoded
        <3> QED
            BY <1>1, <3>1, <3>2
    <2>2. DOMAIN all = 1..(n + 1) /\ all = [j \in 1..(n + 1) |-> all[j]]
        BY <1>1, <2>1
    <2>3. ASSUME NEW j \in 1..(n + 1)
          PROVE  all[j] = b.fields[j]
        <3>1. CASE j = 1
            BY <1>1, <1>5, <2>1, <3>1
        <3>2. CASE j # 1
            <4>1. j - 1 \in 1..n
                BY <1>1, <2>3, <3>2
            <4>2. all[j] = encoded[j - 1]
                BY <1>1, <2>1, <2>3, <3>2
            <4> HIDE DEF all, encoded, n
            <4>3. encoded[j - 1] = b.fields[(j - 1) + 1]
                BY <1>4, <4>1
            <4>4. (j - 1) + 1 = j
                BY <1>1, <2>3
            <4> QED
                BY <4>2, <4>3, <4>4
        <3> QED
            BY <3>1, <3>2
    <2>4. b.fields = [j \in 1..(n + 1) |-> b.fields[j]]
        BY <1>1, <1>2, FrameParts
    <2> QED
        BY <2>2, <2>3, <2>4
<1> QED
    BY <1>2, <1>3, <1>6, FrameParts DEF EncodedAccessManifest

\* decode_fee_payment
LEMMA FeePaymentIsEncoded ==
    ASSUME NEW b \in ByteString, IsFeePayment(b)
    PROVE  EncodedFeePayment(FeePayment(b)) = b
<1>1. /\ "fields" \in DOMAIN b /\ b.type_id = TypeId.fee_payment /\ b.version = 1
      /\ DOMAIN b.fields = 1..3
      /\ IsAssetId(b.fields[1]) /\ HasNumber(b, 2, 8) /\ IsObjectRef(b.fields[3])
    BY DEF IsFeePayment, IsFrame, HasNumber
<1>2. b.fields[1] \in ByteString /\ b.fields[3] \in ByteString
    BY <1>1, FrameParts
<1>3. b.fields[1] = Canonical(TypeId.asset_id, 1, <<Number(Value(b.fields[1], 1), 32)>>)
    <2> DEFINE id == b.fields[1]
    <2>1. /\ "fields" \in DOMAIN id /\ id.type_id = TypeId.asset_id /\ id.version = 1
          /\ DOMAIN id.fields = 1..1
          /\ HasNumber(id, 1, 32)
        BY <1>1 DEF IsAssetId, IsFrame, HasNumber
    <2>2. id.fields[1] = Number(Value(id, 1), 32)
        BY <1>2, <2>1, NumberField
    <2>3. id.fields = <<Number(Value(id, 1), 32)>>
        BY <1>2, <2>1, <2>2, FrameParts
    <2> QED
        BY <1>2, <2>1, <2>3, FrameParts
<1>4. b.fields[2] = Number(Value(b, 2), 8)
    BY <1>1, NumberField
<1>5. b.fields[3] = EncodedObjectRef(ObjectRef(b.fields[3]))
    BY <1>1, <1>2, ObjectRefIsEncoded
<1>6. b.fields = <<Canonical(TypeId.asset_id, 1, <<Number(Value(b.fields[1], 1), 32)>>),
                   Number(Value(b, 2), 8), EncodedObjectRef(ObjectRef(b.fields[3]))>>
    BY <1>1, <1>3, <1>4, <1>5, FrameParts
<1> QED
    BY <1>1, <1>6, FrameParts DEF EncodedFeePayment, FeePayment

\* Some is not None.
LEMMA SomeFeePayment ==
    ASSUME NEW b
    PROVE  FeePayment(b) # None
BY DEF FeePayment, None

\* decode_transaction_signable, with a fee payment and without
LEMMA TransactionIsEncoded ==
    ASSUME NEW b \in ByteString, IsTransaction(b)
    PROVE  EncodedTransaction(TransactionSignable(b)) = b
<1> DEFINE t == TransactionSignable(b)
           signed ==
             <<Text(t.chain_id), Number(t.protocol_version, 4), Number(t.epoch, 8),
               Number(t.sender, 32), Number(t.nonce, 8),
               EncodedAccessManifest(t.access_manifest), EncodedObjectRef(t.module_ref),
               Text(t.entrypoint), t.args, Number(t.gas_limit, 8)>>
<1>1. /\ "fields" \in DOMAIN b /\ b.type_id = TypeId.transaction /\ b.version = 1
      /\ DOMAIN b.fields \subseteq 1..11 /\ 1..10 \subseteq DOMAIN b.fields
      /\ HasText(b, 1, MaxChainIdLen) /\ HasText(b, 8, MaxEntrypointLen)
      /\ HasNumber(b, 2, 4) /\ HasNumber(b, 3, 8) /\ HasNumber(b, 4, 32)
      /\ HasNumber(b, 5, 8) /\ HasNumber(b, 10, 8)
      /\ IsAccessManifest(b.fields[6]) /\ IsObjectRef(b.fields[7])
      /\ 11 \in DOMAIN b.fields => IsFeePayment(b.fields[11])
    <2>1. \A i \in 1..10 : i \in {1, 2, 3, 4, 5, 6, 7, 8, 9, 10}
        OBVIOUS
    <2>2. {1, 2, 3, 4, 5, 6, 7, 8, 9, 10} \subseteq DOMAIN b.fields
        BY DEF IsTransaction, HasText, HasNumber
    <2> QED
        BY <2>1, <2>2 DEF IsTransaction, IsFrame
<1>2. /\ b.fields[1] = Text(t.chain_id) /\ b.fields[8] = Text(t.entrypoint)
      /\ b.fields[2] = Number(t.protocol_version, 4) /\ b.fields[3] = Number(t.epoch, 8)
      /\ b.fields[4] = Number(t.sender, 32) /\ b.fields[5] = Number(t.nonce, 8)
      /\ b.fields[10] = Number(t.gas_limit, 8)
      /\ b.fields[9] = t.args
    BY <1>1, NumberField, TextField DEF TransactionSignable
<1>3. /\ b.fields[6] = EncodedAccessManifest(t.access_manifest)
      /\ b.fields[7] = EncodedObjectRef(t.module_ref)
    BY <1>1, FrameParts, AccessManifestIsEncoded, ObjectRefIsEncoded DEF TransactionSignable
<1>4. Len(signed) = 10 /\ \A i \in 1..10 : signed[i] = b.fields[i]
    <2> HIDE DEF t
    <2> QED
        BY <1>2, <1>3
<1>5. b.fields = signed \o IF t.fee_payment = None THEN <<>> ELSE <<EncodedFeePayment(t.fee_payment)>>
    <2>1. CASE 11 \in DOMAIN b.fields
        <3>1. DOMAIN b.fields = 1..11
            BY <1>1, <2>1
        <3>2. t.fee_payment # None /\ EncodedFeePayment(t.fee_payment) = b.fields[11]
            BY <1>1, <2>1, FrameParts, FeePaymentIsEncoded, SomeFeePayment
               DEF TransactionSignable
        <3> HIDE DEF t
        <3>3. signed \o <<b.fields[11]>> = [i \in 1..11 |-> b.fields[i]]
            BY <1>4
        <3> QED
            BY <1>1, <3>1, <3>2, <3>3, FrameParts
    <2>2. CASE 11 \notin DOMAIN b.fields
        <3>1. DOMAIN b.fields = 1..10
            BY <1>1, <2>2
        <3>2. t.fee_payment = None
            BY <2>2 DEF TransactionSignable
        <3> HIDE DEF t
        <3>3. signed \o <<>> = [i \in 1..10 |-> b.fields[i]]
            BY <1>4
        <3> QED
            BY <1>1, <3>1, <3>2, <3>3, FrameParts
    <2> QED
        BY <2>1, <2>2
<1> QED
    BY <1>1, <1>5, FrameParts DEF EncodedTransaction

-----------------------------------------------------------------------------
(* frame.rs *)

\* decode_signature_frame
LEMMA SignatureFrameIsEncoded ==
    ASSUME NEW b \in ByteString, IsSignatureFrame(b)
    PROVE  EncodedFrame(SignatureFrame(b)) = b /\ SignatureFrame(b).payload \in ByteString
<1> DEFINE f == SignatureFrame(b)
<1>1. /\ "fields" \in DOMAIN b /\ b.type_id = TypeId.signature_frame /\ b.version = 1
      /\ DOMAIN b.fields = 1..6
      /\ HasText(b, 1, MaxChainIdLen) /\ HasText(b, 4, MaxMessageTypeLen)
      /\ HasNumber(b, 2, 4) /\ HasNumber(b, 3, 8) /\ HasNumber(b, 5, 2)
    BY DEF IsSignatureFrame, IsFrame, HasText, HasNumber
<1>2. /\ b.fields[1] = Text(f.chain_id) /\ b.fields[4] = Text(f.message_type)
      /\ b.fields[2] = Number(f.protocol_version, 4) /\ b.fields[3] = Number(f.epoch, 8)
      /\ b.fields[5] = Number(f.signature_scheme_id, 2)
      /\ b.fields[6] = f.payload
    BY <1>1, NumberField, TextField DEF SignatureFrame
<1>3. b.fields =
        <<Text(f.chain_id), Number(f.protocol_version, 4), Number(f.epoch, 8),
          Text(f.message_type), Number(f.signature_scheme_id, 2), f.payload>>
    <2> HIDE DEF f
    <2> QED
        BY <1>1, <1>2, FrameParts
<1>4. f.payload \in ByteString
    BY <1>1, <1>2, FrameParts
<1> QED
    BY <1>1, <1>3, <1>4, FrameParts DEF EncodedFrame

-----------------------------------------------------------------------------
(* policy.rs and review.rs *)

\* The argument frame recognize accepts is the amount and nothing else.
LEMMA ArgsAreTheAmount ==
    ASSUME NEW t, t.args \in ByteString, Recognized(t)
    PROVE  t.args = Canonical(Policy.args_type_id, Policy.args_version,
                        [id \in {Policy.args_field_id} |->
                            Number(Value(t.args, Policy.args_field_id), 8)])
<1> DEFINE args == t.args
           amount == Policy.args_field_id
<1>1. /\ "fields" \in DOMAIN args
      /\ args.type_id = Policy.args_type_id /\ args.version = Policy.args_version
      /\ DOMAIN args.fields = {amount}
      /\ HasNumber(args, amount, 8)
    BY DEF Recognized, IsFrame, HasNumber
<1>2. args.fields[amount] = Number(Value(args, amount), 8)
    BY <1>1, NumberField
<1>3. args.fields = [id \in {amount} |-> Number(Value(args, amount), 8)]
    BY <1>1, <1>2, FrameParts
<1> QED
    BY <1>1, <1>3, FrameParts

\* What decode_transaction_signable borrows of its input is a byte string.
LEMMA ArgsAreBytes ==
    ASSUME NEW b \in ByteString, IsTransaction(b)
    PROVE  TransactionSignable(b).args \in ByteString
BY FrameParts DEF IsTransaction, IsFrame, TransactionSignable

\* A review tells the frame it was built from: each signed field is displayed,
\* displayed with its copy, or fixed by the policy.
LEMMA ReviewTellsFrame ==
    ASSUME NEW b \in ByteString, IsSignatureFrame(b),
           NEW f, f = SignatureFrame(b), IsTransaction(f.payload),
           NEW t, t = TransactionSignable(f.payload), BuildsReview(f, t)
    PROVE  b = Rebuilt(ClearSigningReview(f, t))
<1> DEFINE r == ClearSigningReview(f, t)
<1>1. b = EncodedFrame(f) /\ f.payload \in ByteString
    BY SignatureFrameIsEncoded
<1>2. f.payload = EncodedTransaction(t)
    BY <1>1, TransactionIsEncoded
<1>3. /\ t.chain_id = r.chain_id /\ t.protocol_version = r.protocol_version
      /\ t.epoch = r.epoch
    BY DEF BuildsReview, ClearSigningReview
<1>4. t.args = Canonical(Policy.args_type_id, Policy.args_version,
                 [id \in {Policy.args_field_id} |-> Number(r.amount, 8)])
    <2>1. t.args \in ByteString /\ Recognized(t)
        BY <1>1, ArgsAreBytes DEF BuildsReview
    <2>2. r.amount = Value(t.args, Policy.args_field_id)
        BY DEF ClearSigningReview
    <2> HIDE DEF r
    <2> QED
        BY <2>1, <2>2, ArgsAreTheAmount
<1>5. t = [chain_id |-> r.chain_id, protocol_version |-> r.protocol_version,
           epoch |-> r.epoch, sender |-> r.sender, nonce |-> r.nonce,
           access_manifest |-> r.access_entries, module_ref |-> r.module,
           entrypoint |-> r.entrypoint,
           args |-> Canonical(Policy.args_type_id, Policy.args_version,
                      [id \in {Policy.args_field_id} |-> Number(r.amount, 8)]),
           gas_limit |-> r.gas_limit, fee_payment |-> r.fee]
    <2>1. t = [chain_id |-> t.chain_id, protocol_version |-> t.protocol_version,
               epoch |-> t.epoch, sender |-> t.sender, nonce |-> t.nonce,
               access_manifest |-> t.access_manifest, module_ref |-> t.module_ref,
               entrypoint |-> t.entrypoint, args |-> t.args,
               gas_limit |-> t.gas_limit, fee_payment |-> t.fee_payment]
        BY DEF TransactionSignable
    <2>2. /\ r.sender = t.sender /\ r.nonce = t.nonce
          /\ r.access_entries = t.access_manifest /\ r.module = t.module_ref
          /\ r.entrypoint = t.entrypoint /\ r.gas_limit = t.gas_limit
          /\ r.fee = t.fee_payment
        BY DEF ClearSigningReview
    <2> HIDE DEF r
    <2> QED
        BY <1>3, <1>4, <2>1, <2>2
<1>6. f = [chain_id |-> r.chain_id, protocol_version |-> r.protocol_version,
           epoch |-> r.epoch, message_type |-> r.message_type,
           signature_scheme_id |-> r.scheme, payload |-> f.payload]
    BY DEF SignatureFrame, ClearSigningReview
<1> HIDE DEF r
<1> QED
    BY <1>1, <1>2, <1>5, <1>6 DEF Rebuilt, r

\* Three things that differ are three.
LEMMA ThreeDiffer ==
    ASSUME NEW x, NEW y, NEW z, x # y, x # z, y # z
    PROVE  Cardinality({x, y, z}) = 3
<1>1. IsFiniteSet({}) /\ Cardinality({}) = 0
    BY FS_EmptySet
<1>2. IsFiniteSet({} \cup {x}) /\ Cardinality({} \cup {x}) = 1
    BY <1>1, FS_AddElement
<1>3. IsFiniteSet({x} \cup {y}) /\ Cardinality({x} \cup {y}) = 2
    <2>1. {} \cup {x} = {x}
        OBVIOUS
    <2> QED
        BY <1>2, <2>1, FS_AddElement
<1>4. Cardinality(({x} \cup {y}) \cup {z}) = 3
    BY <1>3, FS_AddElement
<1>5. ({x} \cup {y}) \cup {z} = {x, y, z}
    OBVIOUS
<1> QED
    BY <1>4, <1>5

\* What recognize lets through moves an amount out of the first of three
\* objects, all different, and pays the fee with it.
LEMMA ReviewIsATransfer ==
    ASSUME NEW f, NEW b \in ByteString, IsTransaction(b),
           NEW t, t = TransactionSignable(b), BuildsReview(f, t),
           NEW r, r = ClearSigningReview(f, t)
    PROVE  /\ r.scheme = Ed25519
           /\ r.amount # 0
           /\ Len(r.access_entries) = 3 /\ DOMAIN r.access_entries = 1..3
           /\ Cardinality({e.object_ref.id : e \in Range(r.access_entries)}) = 3
           /\ r.fee # None
           /\ r.fee.fee_object = r.access_entries[1].object_ref
<1> DEFINE entries == r.access_entries
<1>1. /\ r.scheme = f.signature_scheme_id /\ entries = t.access_manifest
      /\ r.fee = t.fee_payment /\ r.amount = Value(t.args, Policy.args_field_id)
    BY DEF ClearSigningReview
<1>2. r.scheme = Ed25519 /\ Recognized(t)
    BY <1>1 DEF BuildsReview
<1>3. /\ r.amount # 0 /\ Len(entries) = 3
      /\ r.fee # None /\ r.fee.fee_object = entries[1].object_ref
    BY <1>1, <1>2 DEF Recognized, PaysFromFirst
<1>4. DOMAIN entries = 1..3 /\ DistinctObjects(entries)
    <2>1. /\ b.fields[6] \in ByteString /\ IsAccessManifest(b.fields[6])
          /\ entries = AccessManifest(b.fields[6])
        BY <1>1, FrameParts DEF IsTransaction, IsFrame, TransactionSignable
    <2>2. Value(b.fields[6], 1) \in Nat
        BY <2>1, CountedFieldsAreListed
    <2>3. DOMAIN entries = 1..Len(entries)
        BY <2>1, <2>2 DEF AccessManifest
    <2> QED
        BY <1>3, <2>1, <2>3 DEF IsAccessManifest
<1>5. {e.object_ref.id : e \in Range(entries)} =
        {entries[1].object_ref.id, entries[2].object_ref.id, entries[3].object_ref.id}
    BY <1>4 DEF Range
<1>6. \A i, j \in 1..3 : i # j => entries[i].object_ref.id # entries[j].object_ref.id
    BY <1>4 DEF DistinctObjects, IsInjective
<1>7. Cardinality({e.object_ref.id : e \in Range(entries)}) = 3
    <2> DEFINE x == entries[1].object_ref.id
               y == entries[2].object_ref.id
               z == entries[3].object_ref.id
    <2>1. x # y /\ x # z /\ y # z
        BY <1>6
    <2>2. {e.object_ref.id : e \in Range(entries)} = {x, y, z}
        BY <1>5
    <2> HIDE DEF x, y, z
    <2>3. Cardinality({x, y, z}) = 3
        BY <2>1, ThreeDiffer
    <2> HIDE DEF entries
    <2> QED
        BY <2>2, <2>3
<1> QED
    BY <1>2, <1>3, <1>4, <1>7

-----------------------------------------------------------------------------
(* review_ui.rs *)

\* The names of the facts, in their order.
FactNames ==
    <<<<"chain_id">>, <<"protocol_version">>, <<"epoch">>, <<"message_type">>,
      <<"scheme">>, <<"sender">>, <<"nonce">>, <<"module_id">>, <<"module_version">>,
      <<"module_digest">>, <<"entrypoint">>, <<Policy.args_label>>, <<"gas_limit">>,
      <<"manifest_count">>, <<Access[1], "mode">>, <<Access[1], "object_id">>,
      <<Access[1], "version">>, <<Access[1], "digest">>, <<Access[2], "mode">>,
      <<Access[2], "object_id">>, <<Access[2], "version">>, <<Access[2], "digest">>,
      <<Access[3], "mode">>, <<Access[3], "object_id">>, <<Access[3], "version">>,
      <<Access[3], "digest">>, <<"fee_payment">>, <<"fee_asset">>, <<"fee_max">>,
      <<"fee_object_id">>, <<"fee_object_version">>, <<"fee_object_digest">>>>

\* No two facts have one name.
LEMMA FactNamesDiffer == \A i, j \in 1..32 : FactNames[i] = FactNames[j] => i = j
BY LabelAssumption DEF FactNames, Access

\* format_review_facts fills its array part by part.
LEMMA FactsByPart ==
    ASSUME NEW r
    PROVE  /\ DOMAIN Facts(r) = 1..32
           /\ \A i \in 1..14 : Facts(r)[i] = ContextFacts(r)[i]
           /\ \A i \in 1..4 : Facts(r)[14 + i] = AccessFacts(1, r.access_entries[1])[i]
           /\ \A i \in 1..4 : Facts(r)[18 + i] = AccessFacts(2, r.access_entries[2])[i]
           /\ \A i \in 1..4 : Facts(r)[22 + i] = AccessFacts(3, r.access_entries[3])[i]
           /\ \A i \in 1..6 : Facts(r)[26 + i] = FeeFacts(r)[i]
<1>1. DOMAIN Facts(r) = 1..32
    BY SMTT(30) DEF Facts, ContextFacts, AccessFacts, FeeFacts
<1>2. \A i \in 1..14 : Facts(r)[i] = ContextFacts(r)[i]
    BY SMTT(30) DEF Facts, ContextFacts, AccessFacts, FeeFacts
<1>3. \A i \in 1..4 : Facts(r)[14 + i] = AccessFacts(1, r.access_entries[1])[i]
    BY SMTT(30) DEF Facts, ContextFacts, AccessFacts, FeeFacts
<1>4. \A i \in 1..4 : Facts(r)[18 + i] = AccessFacts(2, r.access_entries[2])[i]
    BY SMTT(30) DEF Facts, ContextFacts, AccessFacts, FeeFacts
<1>5. \A i \in 1..4 : Facts(r)[22 + i] = AccessFacts(3, r.access_entries[3])[i]
    BY SMTT(30) DEF Facts, ContextFacts, AccessFacts, FeeFacts
<1>6. \A i \in 1..6 : Facts(r)[26 + i] = FeeFacts(r)[i]
    BY SMTT(30) DEF Facts, ContextFacts, AccessFacts, FeeFacts
<1> QED
    BY <1>1, <1>2, <1>3, <1>4, <1>5, <1>6

\* format_review_facts names the facts so.
LEMMA FactsAreNamed ==
    ASSUME NEW r, r.amount_label = Policy.args_label
    PROVE  \A i \in 1..32 : Facts(r)[i].name = FactNames[i]
<1>1. /\ ContextFacts(r)[1].name = FactNames[1] /\ ContextFacts(r)[2].name = FactNames[2]
      /\ ContextFacts(r)[3].name = FactNames[3] /\ ContextFacts(r)[4].name = FactNames[4]
      /\ ContextFacts(r)[5].name = FactNames[5] /\ ContextFacts(r)[6].name = FactNames[6]
      /\ ContextFacts(r)[7].name = FactNames[7] /\ ContextFacts(r)[8].name = FactNames[8]
      /\ ContextFacts(r)[9].name = FactNames[9] /\ ContextFacts(r)[10].name = FactNames[10]
      /\ ContextFacts(r)[11].name = FactNames[11] /\ ContextFacts(r)[12].name = FactNames[12]
      /\ ContextFacts(r)[13].name = FactNames[13] /\ ContextFacts(r)[14].name = FactNames[14]
    BY DEF ContextFacts, FactNames, Fact
<1>2. \A i \in 1..14 : ContextFacts(r)[i].name = FactNames[i]
    <2>1. \A i \in 1..14 : i \in {1, 2, 3, 4, 5, 6, 7, 8, 9, 10, 11, 12, 13, 14}
        OBVIOUS
    <2> QED
        BY <1>1, <2>1
<1>3. \A i \in 1..4 : AccessFacts(1, r.access_entries[1])[i].name = FactNames[14 + i]
    <2>1. /\ AccessFacts(1, r.access_entries[1])[1].name = FactNames[15]
          /\ AccessFacts(1, r.access_entries[1])[2].name = FactNames[16]
          /\ AccessFacts(1, r.access_entries[1])[3].name = FactNames[17]
          /\ AccessFacts(1, r.access_entries[1])[4].name = FactNames[18]
        BY DEF AccessFacts, FactNames, Fact
    <2> QED
        BY <2>1
<1>4. \A i \in 1..4 : AccessFacts(2, r.access_entries[2])[i].name = FactNames[18 + i]
    <2>1. /\ AccessFacts(2, r.access_entries[2])[1].name = FactNames[19]
          /\ AccessFacts(2, r.access_entries[2])[2].name = FactNames[20]
          /\ AccessFacts(2, r.access_entries[2])[3].name = FactNames[21]
          /\ AccessFacts(2, r.access_entries[2])[4].name = FactNames[22]
        BY DEF AccessFacts, FactNames, Fact
    <2> QED
        BY <2>1
<1>5. \A i \in 1..4 : AccessFacts(3, r.access_entries[3])[i].name = FactNames[22 + i]
    <2>1. /\ AccessFacts(3, r.access_entries[3])[1].name = FactNames[23]
          /\ AccessFacts(3, r.access_entries[3])[2].name = FactNames[24]
          /\ AccessFacts(3, r.access_entries[3])[3].name = FactNames[25]
          /\ AccessFacts(3, r.access_entries[3])[4].name = FactNames[26]
        BY DEF AccessFacts, FactNames, Fact
    <2> QED
        BY <2>1
<1>6. \A i \in 1..6 : FeeFacts(r)[i].name = FactNames[26 + i]
    BY DEF FeeFacts, FactNames, Fact
<1> SUFFICES ASSUME NEW i \in 1..32
             PROVE  Facts(r)[i].name = FactNames[i]
    OBVIOUS
<1>7. CASE i \in 1..14
    <2>1. Facts(r)[i] = ContextFacts(r)[i]
        BY <1>7, FactsByPart
    <2> QED
        BY <1>2, <1>7, <2>1
<1>8. CASE i \in 15..18
    <2> DEFINE j == i - 14
    <2>1. j \in 1..4 /\ 14 + j = i
        BY <1>8
    <2> HIDE DEF j
    <2>2. Facts(r)[14 + j] = AccessFacts(1, r.access_entries[1])[j] /\ AccessFacts(1, r.access_entries[1])[j].name = FactNames[14 + j]
        BY <1>3, <2>1, FactsByPart
    <2> QED
        BY <2>1, <2>2
<1>9. CASE i \in 19..22
    <2> DEFINE j == i - 18
    <2>1. j \in 1..4 /\ 18 + j = i
        BY <1>9
    <2> HIDE DEF j
    <2>2. Facts(r)[18 + j] = AccessFacts(2, r.access_entries[2])[j] /\ AccessFacts(2, r.access_entries[2])[j].name = FactNames[18 + j]
        BY <1>4, <2>1, FactsByPart
    <2> QED
        BY <2>1, <2>2
<1>10. CASE i \in 23..26
    <2> DEFINE j == i - 22
    <2>1. j \in 1..4 /\ 22 + j = i
        BY <1>10
    <2> HIDE DEF j
    <2>2. Facts(r)[22 + j] = AccessFacts(3, r.access_entries[3])[j] /\ AccessFacts(3, r.access_entries[3])[j].name = FactNames[22 + j]
        BY <1>5, <2>1, FactsByPart
    <2> QED
        BY <2>1, <2>2
<1>11. CASE i \in 27..32
    <2> DEFINE j == i - 26
    <2>1. j \in 1..6 /\ 26 + j = i
        BY <1>11
    <2> HIDE DEF j
    <2>2. Facts(r)[26 + j] = FeeFacts(r)[j] /\ FeeFacts(r)[j].name = FactNames[26 + j]
        BY <1>6, <2>1, FactsByPart
    <2> QED
        BY <2>1, <2>2
<1> QED
    BY <1>7, <1>8, <1>9, <1>10, <1>11

\* A reader who looks a fact up by its name finds the one fact of that name.
LEMMA ReadFindsFact ==
    ASSUME NEW r, r.amount_label = Policy.args_label, NEW i \in 1..32
    PROVE  Read(Facts(r), FactNames[i]) = Facts(r)[i].value.of
<1> DEFINE facts == Facts(r)
           found == CHOOSE j \in DOMAIN facts : facts[j].name = FactNames[i]
<1>1. DOMAIN facts = 1..32 /\ \A j \in 1..32 : facts[j].name = FactNames[j]
    BY FactsByPart, FactsAreNamed
<1>2. found \in 1..32 /\ facts[found].name = FactNames[i]
    <2> HIDE DEF facts
    <2> QED
        BY <1>1
<1>3. found = i
    BY <1>1, <1>2, FactNamesDiffer
<1> QED
    BY <1>3 DEF Read

\* What is read of a fact, part by part.
LEMMA ReadByPart ==
    ASSUME NEW r, r.amount_label = Policy.args_label
    PROVE  /\ \A i \in 1..14 : Read(Facts(r), FactNames[i]) = ContextFacts(r)[i].value.of
           /\ \A k \in 1..3, i \in 1..4 :
                 Read(Facts(r), FactNames[10 + 4 * k + i]) =
                   AccessFacts(k, r.access_entries[k])[i].value.of
           /\ \A i \in 1..6 : Read(Facts(r), FactNames[26 + i]) = FeeFacts(r)[i].value.of
<1>1. ASSUME NEW i \in 1..14
      PROVE  Read(Facts(r), FactNames[i]) = ContextFacts(r)[i].value.of
    <2>1. Facts(r)[i] = ContextFacts(r)[i]
        BY FactsByPart
    <2>2. i \in 1..32
        OBVIOUS
    <2> QED
        BY <2>1, <2>2, ReadFindsFact
<1>2. ASSUME NEW k \in 1..3, NEW i \in 1..4
      PROVE  Read(Facts(r), FactNames[10 + 4 * k + i]) =
               AccessFacts(k, r.access_entries[k])[i].value.of
    <2> DEFINE j == 10 + 4 * k + i
    <2>1. j \in 1..32
        OBVIOUS
    <2>2. Facts(r)[j] = AccessFacts(k, r.access_entries[k])[i]
        <3>1. CASE k = 1
            <4>1. j = 14 + i
                BY <3>1
            <4>2. Facts(r)[14 + i] = AccessFacts(1, r.access_entries[1])[i]
                BY FactsByPart
            <4> QED
                BY <3>1, <4>1, <4>2, Zenon
        <3>2. CASE k = 2
            <4>1. j = 18 + i
                BY <3>2
            <4>2. Facts(r)[18 + i] = AccessFacts(2, r.access_entries[2])[i]
                BY FactsByPart
            <4> QED
                BY <3>2, <4>1, <4>2, Zenon
        <3>3. CASE k = 3
            <4>1. j = 22 + i
                BY <3>3
            <4>2. Facts(r)[22 + i] = AccessFacts(3, r.access_entries[3])[i]
                BY FactsByPart
            <4> QED
                BY <3>3, <4>1, <4>2, Zenon
        <3> QED
            BY <3>1, <3>2, <3>3
    <2> HIDE DEF j
    <2>3. Read(Facts(r), FactNames[j]) = Facts(r)[j].value.of
        BY <2>1, ReadFindsFact
    <2> QED
        BY <2>2, <2>3 DEF j
<1>3. ASSUME NEW i \in 1..6
      PROVE  Read(Facts(r), FactNames[26 + i]) = FeeFacts(r)[i].value.of
    <2>1. 26 + i \in 1..32
        OBVIOUS
    <2>2. Facts(r)[26 + i] = FeeFacts(r)[i]
        BY FactsByPart
    <2>3. Read(Facts(r), FactNames[26 + i]) = Facts(r)[26 + i].value.of
        BY <2>1, ReadFindsFact
    <2> QED
        BY <2>2, <2>3
<1> QED
    BY <1>1, <1>2, <1>3

\* What is read under the names of the signed context and the call.
LEMMA ContextIsRead ==
    ASSUME NEW r, r.amount_label = Policy.args_label, NEW facts, facts = Facts(r)
    PROVE  /\ Read(facts, <<"chain_id">>) = r.chain_id
           /\ Read(facts, <<"protocol_version">>) = r.protocol_version
           /\ Read(facts, <<"epoch">>) = r.epoch
           /\ Read(facts, <<"message_type">>) = r.message_type
           /\ Read(facts, <<"scheme">>) = SchemeLabel[r.scheme].text
           /\ Read(facts, <<"sender">>) = r.sender
           /\ Read(facts, <<"nonce">>) = r.nonce
           /\ Read(facts, <<"module_id">>) = r.module.id
           /\ Read(facts, <<"module_version">>) = r.module.version
           /\ Read(facts, <<"module_digest">>) =
                <<HashLabel[r.module.digest.algorithm].text, r.module.digest.bytes>>
           /\ Read(facts, <<"entrypoint">>) = r.entrypoint
           /\ Read(facts, <<Policy.args_label>>) = r.amount
           /\ Read(facts, <<"gas_limit">>) = r.gas_limit
           /\ Read(facts, <<"manifest_count">>) = Len(r.access_entries)
<1>1. /\ ContextFacts(r)[1].value.of = r.chain_id
      /\ ContextFacts(r)[2].value.of = r.protocol_version
      /\ ContextFacts(r)[3].value.of = r.epoch
      /\ ContextFacts(r)[4].value.of = r.message_type
      /\ ContextFacts(r)[5].value.of = SchemeLabel[r.scheme].text
      /\ ContextFacts(r)[6].value.of = r.sender
      /\ ContextFacts(r)[7].value.of = r.nonce
      /\ ContextFacts(r)[8].value.of = r.module.id
      /\ ContextFacts(r)[9].value.of = r.module.version
      /\ ContextFacts(r)[10].value.of =
           <<HashLabel[r.module.digest.algorithm].text, r.module.digest.bytes>>
      /\ ContextFacts(r)[11].value.of = r.entrypoint
      /\ ContextFacts(r)[12].value.of = r.amount
      /\ ContextFacts(r)[13].value.of = r.gas_limit
      /\ ContextFacts(r)[14].value.of = Len(r.access_entries)
    BY DEF ContextFacts, Fact, FromStr, FromU64, FromLabel, FromHex, FromDigest, Rendered
<1>2. /\ FactNames[1] = <<"chain_id">>
      /\ FactNames[2] = <<"protocol_version">>
      /\ FactNames[3] = <<"epoch">>
      /\ FactNames[4] = <<"message_type">>
      /\ FactNames[5] = <<"scheme">>
      /\ FactNames[6] = <<"sender">>
      /\ FactNames[7] = <<"nonce">>
      /\ FactNames[8] = <<"module_id">>
      /\ FactNames[9] = <<"module_version">>
      /\ FactNames[10] = <<"module_digest">>
      /\ FactNames[11] = <<"entrypoint">>
      /\ FactNames[12] = <<Policy.args_label>>
      /\ FactNames[13] = <<"gas_limit">>
      /\ FactNames[14] = <<"manifest_count">>
    BY DEF FactNames
<1>3. /\ Read(facts, FactNames[1]) = ContextFacts(r)[1].value.of
      /\ Read(facts, FactNames[2]) = ContextFacts(r)[2].value.of
      /\ Read(facts, FactNames[3]) = ContextFacts(r)[3].value.of
      /\ Read(facts, FactNames[4]) = ContextFacts(r)[4].value.of
      /\ Read(facts, FactNames[5]) = ContextFacts(r)[5].value.of
      /\ Read(facts, FactNames[6]) = ContextFacts(r)[6].value.of
      /\ Read(facts, FactNames[7]) = ContextFacts(r)[7].value.of
      /\ Read(facts, FactNames[8]) = ContextFacts(r)[8].value.of
      /\ Read(facts, FactNames[9]) = ContextFacts(r)[9].value.of
      /\ Read(facts, FactNames[10]) = ContextFacts(r)[10].value.of
      /\ Read(facts, FactNames[11]) = ContextFacts(r)[11].value.of
      /\ Read(facts, FactNames[12]) = ContextFacts(r)[12].value.of
      /\ Read(facts, FactNames[13]) = ContextFacts(r)[13].value.of
      /\ Read(facts, FactNames[14]) = ContextFacts(r)[14].value.of
    BY ReadByPart
<1> QED
    BY <1>1, <1>2, <1>3

LineIsShown(facts, k, e) ==
    /\ Read(facts, <<Access[k], "mode">>) = ModeLabel[e.mode].text
    /\ Read(facts, <<Access[k], "object_id">>) = e.object_ref.id
    /\ Read(facts, <<Access[k], "version">>) = e.object_ref.version
    /\ Read(facts, <<Access[k], "digest">>) =
         <<HashLabel[e.object_ref.digest.algorithm].text, e.object_ref.digest.bytes>>

\* What is read under the names of one access line.
LEMMA AccessIsRead ==
    ASSUME NEW r, r.amount_label = Policy.args_label, NEW facts, facts = Facts(r),
           NEW k \in 1..3, NEW e, e = r.access_entries[k]
    PROVE  LineIsShown(facts, k, e)
<1>1. /\ AccessFacts(k, e)[1].value.of = ModeLabel[e.mode].text
      /\ AccessFacts(k, e)[2].value.of = e.object_ref.id
      /\ AccessFacts(k, e)[3].value.of = e.object_ref.version
      /\ AccessFacts(k, e)[4].value.of =
           <<HashLabel[e.object_ref.digest.algorithm].text, e.object_ref.digest.bytes>>
    BY DEF AccessFacts, Fact, FromU64, FromLabel, FromHex, FromDigest, Rendered
<1>2. /\ FactNames[10 + 4 * k + 1] = <<Access[k], "mode">>
      /\ FactNames[10 + 4 * k + 2] = <<Access[k], "object_id">>
      /\ FactNames[10 + 4 * k + 3] = <<Access[k], "version">>
      /\ FactNames[10 + 4 * k + 4] = <<Access[k], "digest">>
    <2>1. CASE k = 1
        <3>1. /\ FactNames[15] = <<Access[1], "mode">>
              /\ FactNames[16] = <<Access[1], "object_id">>
              /\ FactNames[17] = <<Access[1], "version">>
              /\ FactNames[18] = <<Access[1], "digest">>
            BY DEF FactNames
        <3> QED
            BY <2>1, <3>1
    <2>2. CASE k = 2
        <3>1. /\ FactNames[19] = <<Access[2], "mode">>
              /\ FactNames[20] = <<Access[2], "object_id">>
              /\ FactNames[21] = <<Access[2], "version">>
              /\ FactNames[22] = <<Access[2], "digest">>
            BY DEF FactNames
        <3> QED
            BY <2>2, <3>1
    <2>3. CASE k = 3
        <3>1. /\ FactNames[23] = <<Access[3], "mode">>
              /\ FactNames[24] = <<Access[3], "object_id">>
              /\ FactNames[25] = <<Access[3], "version">>
              /\ FactNames[26] = <<Access[3], "digest">>
            BY DEF FactNames
        <3> QED
            BY <2>3, <3>1
    <2> QED
        BY <2>1, <2>2, <2>3
<1>3. /\ Read(facts, FactNames[10 + 4 * k + 1]) = AccessFacts(k, e)[1].value.of
      /\ Read(facts, FactNames[10 + 4 * k + 2]) = AccessFacts(k, e)[2].value.of
      /\ Read(facts, FactNames[10 + 4 * k + 3]) = AccessFacts(k, e)[3].value.of
      /\ Read(facts, FactNames[10 + 4 * k + 4]) = AccessFacts(k, e)[4].value.of
    <2>1. \A i \in 1..4 : Read(facts, FactNames[10 + 4 * k + i]) = AccessFacts(k, e)[i].value.of
        BY ReadByPart, Zenon
    <2>2. 1 \in 1..4 /\ 2 \in 1..4 /\ 3 \in 1..4 /\ 4 \in 1..4
        OBVIOUS
    <2> QED
        BY <2>1, <2>2, Zenon
<1> QED
    BY <1>1, <1>2, <1>3 DEF LineIsShown

\* What is read under the names of the fee.
LEMMA FeeIsRead ==
    ASSUME NEW r, r.amount_label = Policy.args_label, NEW facts, facts = Facts(r)
    PROVE  /\ Read(facts, <<"fee_asset">>) = r.fee.asset_id
           /\ Read(facts, <<"fee_max">>) = r.fee.max_fee
           /\ Read(facts, <<"fee_object_id">>) = r.fee.fee_object.id
           /\ Read(facts, <<"fee_object_version">>) = r.fee.fee_object.version
           /\ Read(facts, <<"fee_object_digest">>) =
                <<HashLabel[r.fee.fee_object.digest.algorithm].text, r.fee.fee_object.digest.bytes>>
<1>1. /\ FeeFacts(r)[2].value.of = r.fee.asset_id
      /\ FeeFacts(r)[3].value.of = r.fee.max_fee
      /\ FeeFacts(r)[4].value.of = r.fee.fee_object.id
      /\ FeeFacts(r)[5].value.of = r.fee.fee_object.version
      /\ FeeFacts(r)[6].value.of =
           <<HashLabel[r.fee.fee_object.digest.algorithm].text, r.fee.fee_object.digest.bytes>>
    BY DEF FeeFacts, Fact, FromU64, FromLabel, FromHex, FromDigest, Rendered
<1>2. /\ FactNames[28] = <<"fee_asset">>
      /\ FactNames[29] = <<"fee_max">>
      /\ FactNames[30] = <<"fee_object_id">>
      /\ FactNames[31] = <<"fee_object_version">>
      /\ FactNames[32] = <<"fee_object_digest">>
    BY DEF FactNames
<1>3. /\ Read(facts, FactNames[28]) = FeeFacts(r)[2].value.of
      /\ Read(facts, FactNames[29]) = FeeFacts(r)[3].value.of
      /\ Read(facts, FactNames[30]) = FeeFacts(r)[4].value.of
      /\ Read(facts, FactNames[31]) = FeeFacts(r)[5].value.of
      /\ Read(facts, FactNames[32]) = FeeFacts(r)[6].value.of
    <2>1. \A i \in 1..6 : Read(facts, FactNames[26 + i]) = FeeFacts(r)[i].value.of
        BY ReadByPart
    <2> QED
        BY <2>1
<1> QED
    BY <1>1, <1>2, <1>3

\* The labels of types.rs differ, so a label tells its identifier.
LEMMA LabelsTell ==
    /\ \A a \in HashAlgorithm : Labelled(HashLabel, HashLabel[a].text) = a
    /\ \A m \in AccessModes : Labelled(ModeLabel, ModeLabel[m].text) = m
    /\ Labelled(SchemeLabel, SchemeLabel[Ed25519].text) = Ed25519
<1>1. \A a \in HashAlgorithm : Labelled(HashLabel, HashLabel[a].text) = a
    BY DEF HashAlgorithm, Labelled, HashLabel, Label
<1>2. \A m \in AccessModes : Labelled(ModeLabel, ModeLabel[m].text) = m
    BY DEF AccessModes, Write, Labelled, ModeLabel, Label
<1>3. Labelled(SchemeLabel, SchemeLabel[Ed25519].text) = Ed25519
    BY DEF Labelled, SchemeLabel, Label, Ed25519
<1> QED
    BY <1>1, <1>2, <1>3

\* decode_object_ref returns a reference.
LEMMA DecodedReference ==
    ASSUME NEW b, IsObjectRef(b)
    PROVE  IsReference(ObjectRef(b))
<1>1. IsDigest(b.fields[3])
    BY DEF IsObjectRef
<1>2. Value(b.fields[3], 1) \in HashAlgorithm
    BY <1>1 DEF IsDigest
<1> QED
    BY <1>2 DEF IsReference, ObjectRef, Digest

\* decode_access_entry returns a reference and a mode.
LEMMA DecodedEntry ==
    ASSUME NEW b, IsAccessEntry(b), NEW e, e = AccessEntry(b)
    PROVE  /\ e = [object_ref |-> e.object_ref, mode |-> e.mode]
           /\ IsReference(e.object_ref)
           /\ e.mode \in AccessModes
<1>1. IsReference(ObjectRef(b.fields[1]))
    BY DecodedReference DEF IsAccessEntry
<1>2. Value(b.fields[2], 1) \in AccessModes
    BY DEF IsAccessEntry, IsAccessMode
<1> QED
    BY <1>1, <1>2 DEF AccessEntry

IsLine(line) ==
    /\ line = [object_ref |-> line.object_ref, mode |-> line.mode]
    /\ IsReference(line.object_ref)
    /\ line.mode \in AccessModes

IsShaped(r) ==
    /\ IsReference(r.module)
    /\ \A i \in 1..3 : IsLine(r.access_entries[i])
    /\ r.access_entries = [i \in 1..3 |-> r.access_entries[i]]
    /\ r.fee = [asset_id |-> r.fee.asset_id, max_fee |-> r.fee.max_fee,
                fee_object |-> r.fee.fee_object]
    /\ IsReference(r.fee.fee_object)

\* build_review puts decoded references into the module, the access lines and
\* the fee of the review.
LEMMA ReviewShape ==
    ASSUME NEW f, NEW b \in ByteString, IsTransaction(b),
           NEW t, t = TransactionSignable(b), BuildsReview(f, t),
           NEW r, r = ClearSigningReview(f, t)
    PROVE  IsShaped(r)
<1>1. /\ r.module = ObjectRef(b.fields[7]) /\ r.access_entries = AccessManifest(b.fields[6])
      /\ r.fee = IF 11 \in DOMAIN b.fields THEN FeePayment(b.fields[11]) ELSE None
    BY DEF ClearSigningReview, TransactionSignable
<1>2. IsReference(r.module)
    BY <1>1, DecodedReference DEF IsTransaction
<1>3. IsAccessManifest(b.fields[6]) /\ DOMAIN r.access_entries = 1..3 /\ r.fee # None
    BY ReviewIsATransfer DEF IsTransaction
<1>4. /\ DOMAIN r.access_entries = 1..Value(b.fields[6], 1)
      /\ r.access_entries = [i \in DOMAIN r.access_entries |-> r.access_entries[i]]
      /\ \A i \in DOMAIN r.access_entries :
            r.access_entries[i] = AccessEntry(b.fields[6].fields[i + 1])
    BY <1>1 DEF AccessManifest
<1>5. r.access_entries = [i \in 1..3 |-> r.access_entries[i]]
    BY <1>3, <1>4
<1>6. ASSUME NEW i \in 1..3
      PROVE  IsLine(r.access_entries[i])
    <2>1. i \in 1..Value(b.fields[6], 1)
        BY <1>3, <1>4
    <2>2. IsAccessEntry(b.fields[6].fields[i + 1])
        BY <1>3, <2>1 DEF IsAccessManifest
    <2>3. r.access_entries[i] = AccessEntry(b.fields[6].fields[i + 1])
        BY <1>4, <2>1
    <2> QED
        BY <2>2, <2>3, DecodedEntry DEF IsLine
<1>7. r.fee = FeePayment(b.fields[11]) /\ IsFeePayment(b.fields[11])
    BY <1>1, <1>3 DEF IsTransaction
<1>8. IsReference(ObjectRef(b.fields[11].fields[3]))
    BY <1>7, DecodedReference DEF IsFeePayment
<1>9. /\ r.fee = [asset_id |-> r.fee.asset_id, max_fee |-> r.fee.max_fee,
                  fee_object |-> r.fee.fee_object]
      /\ IsReference(r.fee.fee_object)
    BY <1>7, <1>8 DEF FeePayment
<1> QED
    BY <1>2, <1>5, <1>6, <1>9 DEF IsShaped

\* from_digest shows the label of the algorithm and the bytes: both are read.
LEMMA DigestIsRead ==
    ASSUME NEW facts, NEW name, NEW x, IsReference(x),
           Read(facts, name) = <<HashLabel[x.digest.algorithm].text, x.digest.bytes>>
    PROVE  ReadDigest(facts, name) = x.digest
<1>1. Labelled(HashLabel, HashLabel[x.digest.algorithm].text) = x.digest.algorithm
    BY LabelsTell DEF IsReference
<1>2. /\ Read(facts, name)[1] = HashLabel[x.digest.algorithm].text
      /\ Read(facts, name)[2] = x.digest.bytes
    OBVIOUS
<1>3. x.digest = [algorithm |-> x.digest.algorithm, bytes |-> x.digest.bytes]
    BY DEF IsReference
<1> QED
    BY <1>1, <1>2, <1>3, Zenon DEF ReadDigest

\* A reference is shown as three facts and read from them.
LEMMA ReferenceIsRead ==
    ASSUME NEW facts, NEW id, NEW version, NEW digest, NEW x, IsReference(x),
           Read(facts, id) = x.id, Read(facts, version) = x.version,
           Read(facts, digest) = <<HashLabel[x.digest.algorithm].text, x.digest.bytes>>
    PROVE  ReadRef(facts, id, version, digest) = x
<1>1. ReadDigest(facts, digest) = x.digest
    BY DigestIsRead
<1>2. x = [id |-> x.id, version |-> x.version, digest |-> x.digest]
    BY DEF IsReference
<1> QED
    BY <1>1, <1>2, Zenon DEF ReadRef

\* An access line is shown as four facts and read from them.
LEMMA EntryIsRead ==
    ASSUME NEW r, r.amount_label = Policy.args_label, NEW facts, facts = Facts(r),
           NEW k \in 1..3, NEW e, e = r.access_entries[k], IsLine(e)
    PROVE  ReadAccess(facts, k) = e
<1>0. e = [object_ref |-> e.object_ref, mode |-> e.mode]
      /\ IsReference(e.object_ref) /\ e.mode \in AccessModes
    BY DEF IsLine
<1>1. /\ Read(facts, <<Access[k], "mode">>) = ModeLabel[e.mode].text
      /\ Read(facts, <<Access[k], "object_id">>) = e.object_ref.id
      /\ Read(facts, <<Access[k], "version">>) = e.object_ref.version
      /\ Read(facts, <<Access[k], "digest">>) =
           <<HashLabel[e.object_ref.digest.algorithm].text, e.object_ref.digest.bytes>>
    <2>1. LineIsShown(facts, k, e)
        BY AccessIsRead
    <2> QED
        BY <2>1, Zenon DEF LineIsShown
<1>2. ReadRef(facts, <<Access[k], "object_id">>, <<Access[k], "version">>,
              <<Access[k], "digest">>) = e.object_ref
    BY <1>0, <1>1, ReferenceIsRead, Zenon
<1>3. Labelled(ModeLabel, Read(facts, <<Access[k], "mode">>)) = e.mode
    BY <1>0, <1>1, LabelsTell
<1> QED
    BY <1>0, <1>2, <1>3, Zenon DEF ReadAccess

\* Nothing of the review is lost on the way to the screen: who knows the names
\* and the labels reads it back from the 32 facts.
LEMMA FactsTellReview ==
    ASSUME NEW f, NEW b \in ByteString, IsTransaction(b),
           NEW t, t = TransactionSignable(b), BuildsReview(f, t),
           NEW r, r = ClearSigningReview(f, t)
    PROVE  ReviewOf(Facts(r)) = r
<1> DEFINE facts == Facts(r)
<1>1. r.amount_label = Policy.args_label
    BY DEF ClearSigningReview
<1>2. r.scheme = Ed25519 /\ Len(r.access_entries) = 3
    BY ReviewIsATransfer
<1>3. /\ IsReference(r.module) /\ IsReference(r.fee.fee_object)
      /\ \A i \in 1..3 : IsLine(r.access_entries[i])
      /\ r.access_entries = [i \in 1..3 |-> r.access_entries[i]]
      /\ r.fee = [asset_id |-> r.fee.asset_id, max_fee |-> r.fee.max_fee,
                  fee_object |-> r.fee.fee_object]
    <2>1. IsShaped(r)
        BY ReviewShape
    <2> HIDE DEF facts
    <2> QED
        BY <2>1, Zenon DEF IsShaped
<1>4. Labelled(SchemeLabel, Read(facts, <<"scheme">>)) = r.scheme
    <2>1. Read(facts, <<"scheme">>) = SchemeLabel[r.scheme].text
        BY <1>1, ContextIsRead, Zenon
    <2> HIDE DEF facts
    <2> QED
        BY <1>2, <2>1, LabelsTell, Zenon
<1>5. ReadRef(facts, <<"module_id">>, <<"module_version">>, <<"module_digest">>) = r.module
    <2>1. /\ Read(facts, <<"module_id">>) = r.module.id
          /\ Read(facts, <<"module_version">>) = r.module.version
          /\ Read(facts, <<"module_digest">>) =
               <<HashLabel[r.module.digest.algorithm].text, r.module.digest.bytes>>
        BY <1>1, ContextIsRead
    <2> HIDE DEF facts
    <2> QED
        BY <1>3, <2>1, ReferenceIsRead
<1>6. [i \in 1..Read(facts, <<"manifest_count">>) |-> ReadAccess(facts, i)] = r.access_entries
    <2>1. Read(facts, <<"manifest_count">>) = 3
        BY <1>1, <1>2, ContextIsRead
    <2>2. \A i \in 1..3 : ReadAccess(facts, i) = r.access_entries[i]
        <3> HIDE DEF facts
        <3>1. facts = Facts(r)
            BY DEF facts
        <3> QED
            BY <1>1, <1>3, <3>1, EntryIsRead
    <2> HIDE DEF facts
    <2>3. [i \in 1..3 |-> ReadAccess(facts, i)] = [i \in 1..3 |-> r.access_entries[i]]
        BY <2>2
    <2> QED
        BY <1>3, <2>1, <2>3
<1>7. [asset_id |-> Read(facts, <<"fee_asset">>), max_fee |-> Read(facts, <<"fee_max">>),
       fee_object |-> ReadRef(facts, <<"fee_object_id">>, <<"fee_object_version">>,
                              <<"fee_object_digest">>)] = r.fee
    <2>1. /\ Read(facts, <<"fee_asset">>) = r.fee.asset_id
          /\ Read(facts, <<"fee_max">>) = r.fee.max_fee
        BY <1>1, FeeIsRead
    <2>2. ReadRef(facts, <<"fee_object_id">>, <<"fee_object_version">>,
                  <<"fee_object_digest">>) = r.fee.fee_object
        <3>1. /\ Read(facts, <<"fee_object_id">>) = r.fee.fee_object.id
              /\ Read(facts, <<"fee_object_version">>) = r.fee.fee_object.version
              /\ Read(facts, <<"fee_object_digest">>) =
                   <<HashLabel[r.fee.fee_object.digest.algorithm].text,
                     r.fee.fee_object.digest.bytes>>
            BY <1>1, FeeIsRead
        <3> HIDE DEF facts
        <3> QED
            BY <1>3, <3>1, ReferenceIsRead
    <2> HIDE DEF facts
    <2> QED
        BY <1>3, <2>1, <2>2, Zenon
<1>8. /\ Read(facts, <<"chain_id">>) = r.chain_id
      /\ Read(facts, <<"protocol_version">>) = r.protocol_version
      /\ Read(facts, <<"epoch">>) = r.epoch
      /\ Read(facts, <<"message_type">>) = r.message_type
      /\ Read(facts, <<"sender">>) = r.sender
      /\ Read(facts, <<"nonce">>) = r.nonce
      /\ Read(facts, <<"entrypoint">>) = r.entrypoint
      /\ Read(facts, <<Policy.args_label>>) = r.amount
      /\ Read(facts, <<"gas_limit">>) = r.gas_limit
    BY <1>1, ContextIsRead
<1>9. r = [chain_id |-> r.chain_id, protocol_version |-> r.protocol_version, epoch |-> r.epoch,
           message_type |-> r.message_type, scheme |-> r.scheme, sender |-> r.sender,
           nonce |-> r.nonce, module |-> r.module, entrypoint |-> r.entrypoint,
           amount |-> r.amount, amount_label |-> Policy.args_label, gas_limit |-> r.gas_limit,
           access_entries |-> r.access_entries, fee |-> r.fee]
    BY DEF ClearSigningReview
<1> HIDE DEF facts
<1>10. ReviewOf(facts) = r
    BY <1>4, <1>5, <1>6, <1>7, <1>8, <1>9, Zenon DEF ReviewOf
<1> QED
    BY <1>10 DEF facts

\* What from_str, from_label, from_u64, from_hex and from_digest render of a
\* review fits into a fact.
LEMMA ReviewFormats ==
    ASSUME NEW f, NEW b \in ByteString, IsTransaction(b),
           NEW t, t = TransactionSignable(b), BuildsReview(f, t),
           NEW r, r = ClearSigningReview(f, t)
    PROVE  Formats(r)
<1>1. Len(r.access_entries) = 3 /\ r.fee # None
    BY ReviewIsATransfer
<1>2. /\ r.chain_id = Policy.chain_id /\ r.entrypoint = Policy.entrypoint
      /\ r.message_type = TRANSACTION_V1_MESSAGE_TYPE
    BY DEF ClearSigningReview, BuildsReview, Recognized, SameContext
<1>3. \A n : Representable(FromU64(n)) /\ Representable(FromHex(n))
    BY FactLenAssumption DEF Representable, FromU64, FromHex, Rendered
<1>4. /\ Representable(FromStr(r.chain_id)) /\ Representable(FromStr(r.entrypoint))
      /\ Representable(FromStr(r.message_type))
    BY <1>2, FactLenAssumption DEF Representable, FromStr, Rendered
<1>5. \A x : IsReference(x) => Representable(FromDigest(x.digest))
    BY FactLenAssumption
    DEF IsReference, HashAlgorithm, Representable, FromDigest, HashLabel, Label, Rendered
<1>6. /\ \A i \in 1..3 : r.access_entries[i].mode \in AccessModes
                         /\ IsReference(r.access_entries[i].object_ref)
      /\ IsReference(r.module) /\ IsReference(r.fee.fee_object)
    <2>1. IsShaped(r)
        BY ReviewShape
    <2> QED
        BY <2>1 DEF IsShaped, IsLine
<1>7. IsReference(r.module) /\ IsReference(r.fee.fee_object) /\ r.scheme = Ed25519
    BY <1>6, ReviewIsATransfer
<1>8. \A l \in {Label("read", 4), Label("write", 5), Label("consume", 7),
                Label("ed25519", 7), Label("present", 7)} : Representable(FromLabel(l))
    BY FactLenAssumption DEF Representable, FromLabel, Rendered, Label
<1>9. /\ \A m \in AccessModes : Representable(FromLabel(ModeLabel[m]))
      /\ Representable(FromLabel(SchemeLabel[r.scheme]))
      /\ Representable(FromLabel(Label("present", 7)))
    <2>1. \A m \in AccessModes :
             ModeLabel[m] \in {Label("read", 4), Label("write", 5), Label("consume", 7)}
        BY DEF AccessModes, Write, ModeLabel
    <2>2. SchemeLabel[r.scheme] = Label("ed25519", 7)
        BY <1>7 DEF SchemeLabel, Ed25519
    <2> QED
        BY <1>8, <2>1, <2>2
<1>10. \A i \in 1..14 : Representable(ContextFacts(r)[i].value)
    <2>1. /\ ContextFacts(r)[1].value = FromStr(r.chain_id)
          /\ ContextFacts(r)[2].value = FromU64(r.protocol_version)
          /\ ContextFacts(r)[3].value = FromU64(r.epoch)
          /\ ContextFacts(r)[4].value = FromStr(r.message_type)
          /\ ContextFacts(r)[5].value = FromLabel(SchemeLabel[r.scheme])
          /\ ContextFacts(r)[6].value = FromHex(r.sender)
          /\ ContextFacts(r)[7].value = FromU64(r.nonce)
          /\ ContextFacts(r)[8].value = FromHex(r.module.id)
          /\ ContextFacts(r)[9].value = FromU64(r.module.version)
          /\ ContextFacts(r)[10].value = FromDigest(r.module.digest)
          /\ ContextFacts(r)[11].value = FromStr(r.entrypoint)
          /\ ContextFacts(r)[12].value = FromU64(r.amount)
          /\ ContextFacts(r)[13].value = FromU64(r.gas_limit)
          /\ ContextFacts(r)[14].value = FromU64(Len(r.access_entries))
        BY DEF ContextFacts, Fact
    <2>2. /\ Representable(ContextFacts(r)[2].value) /\ Representable(ContextFacts(r)[3].value)
          /\ Representable(ContextFacts(r)[6].value) /\ Representable(ContextFacts(r)[7].value)
          /\ Representable(ContextFacts(r)[8].value) /\ Representable(ContextFacts(r)[9].value)
        BY <1>3, <2>1, Zenon
    <2>3. /\ Representable(ContextFacts(r)[12].value) /\ Representable(ContextFacts(r)[13].value)
          /\ Representable(ContextFacts(r)[14].value)
        BY <1>3, <2>1, Zenon
    <2>4. /\ Representable(ContextFacts(r)[1].value) /\ Representable(ContextFacts(r)[4].value)
          /\ Representable(ContextFacts(r)[11].value)
        BY <1>4, <2>1, Zenon
    <2>5. Representable(ContextFacts(r)[5].value)
        BY <1>9, <2>1, Zenon
    <2>6. Representable(ContextFacts(r)[10].value)
        BY <1>5, <1>7, <2>1, Zenon
    <2>7. \A i \in 1..14 : i \in {1, 2, 3, 4, 5, 6, 7, 8, 9, 10, 11, 12, 13, 14}
        OBVIOUS
    <2> QED
        BY <2>2, <2>3, <2>4, <2>5, <2>6, <2>7
<1>11. ASSUME NEW k \in 1..3, NEW i \in 1..4
       PROVE  Representable(AccessFacts(k, r.access_entries[k])[i].value)
    <2> DEFINE e == r.access_entries[k]
    <2>1. e.mode \in AccessModes /\ IsReference(e.object_ref)
        BY <1>6
    <2> HIDE DEF e
    <2>2. /\ AccessFacts(k, e)[1].value = FromLabel(ModeLabel[e.mode])
          /\ AccessFacts(k, e)[2].value = FromHex(e.object_ref.id)
          /\ AccessFacts(k, e)[3].value = FromU64(e.object_ref.version)
          /\ AccessFacts(k, e)[4].value = FromDigest(e.object_ref.digest)
        BY DEF AccessFacts, Fact
    <2>3. /\ Representable(AccessFacts(k, e)[1].value) /\ Representable(AccessFacts(k, e)[2].value)
          /\ Representable(AccessFacts(k, e)[3].value) /\ Representable(AccessFacts(k, e)[4].value)
        BY <1>3, <1>5, <1>9, <2>1, <2>2, Zenon
    <2>4. i \in {1, 2, 3, 4}
        OBVIOUS
    <2> QED
        BY <2>3, <2>4 DEF e
<1>12. \A i \in 1..6 : Representable(FeeFacts(r)[i].value)
    <2>1. /\ FeeFacts(r)[1].value = FromLabel(Label("present", 7))
          /\ FeeFacts(r)[2].value = FromHex(r.fee.asset_id)
          /\ FeeFacts(r)[3].value = FromU64(r.fee.max_fee)
          /\ FeeFacts(r)[4].value = FromHex(r.fee.fee_object.id)
          /\ FeeFacts(r)[5].value = FromU64(r.fee.fee_object.version)
          /\ FeeFacts(r)[6].value = FromDigest(r.fee.fee_object.digest)
        BY DEF FeeFacts, Fact
    <2>2. /\ Representable(FeeFacts(r)[1].value) /\ Representable(FeeFacts(r)[2].value)
          /\ Representable(FeeFacts(r)[3].value) /\ Representable(FeeFacts(r)[4].value)
          /\ Representable(FeeFacts(r)[5].value) /\ Representable(FeeFacts(r)[6].value)
        BY <1>3, <1>5, <1>7, <1>9, <2>1, Zenon
    <2>3. \A i \in 1..6 : i \in {1, 2, 3, 4, 5, 6}
        OBVIOUS
    <2> QED
        BY <2>2, <2>3
<1>13. DOMAIN Facts(r) = 1..32
    BY FactsByPart
<1>14. ASSUME NEW i \in 1..32
       PROVE  Representable(Facts(r)[i].value)
    <2>1. CASE i \in 1..14
        <3>1. Facts(r)[i] = ContextFacts(r)[i]
            BY <2>1, FactsByPart
        <3> QED
            BY <1>10, <2>1, <3>1
    <2>2. CASE i \in 15..18
        <3> DEFINE j == i - 14
        <3>1. j \in 1..4 /\ 14 + j = i
            BY <2>2
        <3> HIDE DEF j
        <3>2. Facts(r)[14 + j] = AccessFacts(1, r.access_entries[1])[j]
            BY <3>1, FactsByPart
        <3>3. Representable(AccessFacts(1, r.access_entries[1])[j].value)
            <4>1. 1 \in 1..3
                OBVIOUS
            <4> QED
                BY <1>11, <3>1, <4>1, Zenon
        <3> QED
            BY <3>1, <3>2, <3>3
    <2>3. CASE i \in 19..22
        <3> DEFINE j == i - 18
        <3>1. j \in 1..4 /\ 18 + j = i
            BY <2>3
        <3> HIDE DEF j
        <3>2. Facts(r)[18 + j] = AccessFacts(2, r.access_entries[2])[j]
            BY <3>1, FactsByPart
        <3>3. Representable(AccessFacts(2, r.access_entries[2])[j].value)
            <4>1. 2 \in 1..3
                OBVIOUS
            <4> QED
                BY <1>11, <3>1, <4>1, Zenon
        <3> QED
            BY <3>1, <3>2, <3>3
    <2>4. CASE i \in 23..26
        <3> DEFINE j == i - 22
        <3>1. j \in 1..4 /\ 22 + j = i
            BY <2>4
        <3> HIDE DEF j
        <3>2. Facts(r)[22 + j] = AccessFacts(3, r.access_entries[3])[j]
            BY <3>1, FactsByPart
        <3>3. Representable(AccessFacts(3, r.access_entries[3])[j].value)
            <4>1. 3 \in 1..3
                OBVIOUS
            <4> QED
                BY <1>11, <3>1, <4>1, Zenon
        <3> QED
            BY <3>1, <3>2, <3>3
    <2>5. CASE i \in 27..32
        <3> DEFINE j == i - 26
        <3>1. j \in 1..6 /\ 26 + j = i
            BY <2>5
        <3> HIDE DEF j
        <3>2. Facts(r)[26 + j] = FeeFacts(r)[j]
            BY <3>1, FactsByPart
        <3> QED
            BY <1>12, <3>1, <3>2
    <2> QED
        BY <2>1, <2>2, <2>3, <2>4, <2>5
<1> QED
    BY <1>1, <1>13, <1>14 DEF Formats
=============================================================================
