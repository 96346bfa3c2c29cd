-------------------------- MODULE ClearSigningProofs --------------------------
(***************************************************************************)
(* Proofs about handle_last and the review screen, for every set of        *)
(* messages, every policy and all bounds.                                  *)
(***************************************************************************)
EXTENDS ReviewScreen, DecodersProofs

-----------------------------------------------------------------------------
(* The inductive invariant: each call was made on what the calls before it *)
(* let through, and each way out has the reason it was taken for.          *)

FrameDecoded ==
    /\ frame # None => IsSignatureFrame(message) /\ frame = SignatureFrame(message)
    /\ status = "frame" => frame = None
    /\ status \in {"payload", "transaction", "sender", "review", "displayed"} => frame # None

TransactionDecoded ==
    /\ transaction # None =>
         /\ frame # None
         /\ frame.payload.len <= MaxPayloadLen
         /\ IsTransaction(frame.payload)
         /\ transaction = TransactionSignable(frame.payload)
    /\ status \in {"frame", "payload", "transaction"} => transaction = None
    /\ status = "transaction" => frame.payload.len <= MaxPayloadLen
    /\ status \in {"sender", "review", "displayed"} => transaction # None

SenderCompared ==
    /\ key \in {Signer, NoKey}
    /\ status \in {"review", "displayed"} =>
          key = Signer /\ key # NoKey /\ key = transaction.sender

ReviewBuilt ==
    status = "displayed" =>
        /\ BuildsReview(frame, transaction)
        /\ review = ClearSigningReview(frame, transaction)

RefusedWithReason ==
    /\ status = "ProfileBoundExceeded" => frame # None /\ ~(frame.payload.len <= MaxPayloadLen)
    /\ status = "InternalFailure" => transaction # None /\ key = NoKey
    /\ status = "InvalidData" =>
         \/ ~IsSignatureFrame(message)
         \/ frame # None /\ frame.payload.len <= MaxPayloadLen /\ ~IsTransaction(frame.payload)
         \/ transaction # None /\ key # NoKey /\ key # transaction.sender
         \/ /\ transaction # None /\ key # NoKey /\ key = transaction.sender
            /\ ~BuildsReview(frame, transaction)

Statuses ==
    {"frame", "payload", "transaction", "sender", "review", "displayed",
     "InvalidData", "ProfileBoundExceeded", "InternalFailure"}

SigningInv ==
    /\ message \in ByteString
    /\ status \in Statuses
    /\ FrameDecoded
    /\ TransactionDecoded
    /\ SenderCompared
    /\ ReviewBuilt
    /\ status # "displayed" => review = None
    /\ RefusedWithReason

\* decode_signature_frame returns something.
LEMMA SomeFrame == ASSUME NEW b PROVE SignatureFrame(b) # None
BY DEF SignatureFrame, None

\* decode_transaction_signable returns something.
LEMMA SomeTransaction == ASSUME NEW b PROVE TransactionSignable(b) # None
BY DEF TransactionSignable, None

\* build_review returns something.
LEMMA SomeReview == ASSUME NEW f, NEW t PROVE ClearSigningReview(f, t) # None
BY DEF ClearSigningReview, None

-----------------------------------------------------------------------------
(* The calls. *)

\* decode_signature_frame
LEMMA DecodeSignatureFrameKeeps ==
    ASSUME SigningInv, DecodeSignatureFrame
    PROVE  SigningInv'
<1>1. /\ status = "frame" /\ frame = None /\ transaction = None /\ review = None
      /\ UNCHANGED <<message, transaction, key, review>>
    BY DEF DecodeSignatureFrame, Turn, SigningInv, FrameDecoded, TransactionDecoded
<1>2. CASE IsSignatureFrame(message)
    <2>1. frame' = SignatureFrame(message) /\ status' = "payload" /\ frame' # None
        BY <1>2, SomeFrame DEF DecodeSignatureFrame
    <2> QED
        BY <1>1, <1>2, <2>1 DEF SigningInv, Statuses, FrameDecoded, TransactionDecoded,
           SenderCompared, ReviewBuilt, RefusedWithReason
<1>3. CASE ~IsSignatureFrame(message)
    <2>1. frame' = frame /\ status' = "InvalidData"
        BY <1>3 DEF DecodeSignatureFrame, Turn
    <2> QED
        BY <1>1, <1>3, <2>1 DEF SigningInv, Statuses, FrameDecoded, TransactionDecoded,
           SenderCompared, ReviewBuilt, RefusedWithReason
<1> QED
    BY <1>2, <1>3

\* The bound on the payload
LEMMA BoundPayloadKeeps ==
    ASSUME SigningInv, BoundPayload
    PROVE  SigningInv'
<1>1. /\ status = "payload" /\ UNCHANGED <<message, frame, transaction, key, review>>
      /\ frame # None /\ transaction = None /\ review = None
    BY DEF BoundPayload, Turn, SigningInv, FrameDecoded, TransactionDecoded
<1>2. frame.payload.len \in Nat
    <2>1. frame.payload \in ByteString
        BY <1>1, SignatureFrameIsEncoded DEF SigningInv, FrameDecoded
    <2> QED
        BY <2>1, ByteStringAssumption DEF WellFormed
<1>3. \/ status' = "transaction" /\ frame.payload.len <= MaxPayloadLen
      \/ status' = "ProfileBoundExceeded" /\ ~(frame.payload.len <= MaxPayloadLen)
    BY <1>2, PayloadBoundAssumption DEF BoundPayload, Turn
<1> QED
    BY <1>1, <1>3 DEF SigningInv, Statuses, FrameDecoded, TransactionDecoded,
       SenderCompared, ReviewBuilt, RefusedWithReason

\* decode_transaction_signable
LEMMA DecodeTransactionKeeps ==
    ASSUME SigningInv, DecodeTransactionSignable
    PROVE  SigningInv'
<1>1. /\ status = "transaction" /\ UNCHANGED <<message, frame, key, review>>
      /\ frame # None /\ transaction = None /\ review = None
      /\ frame.payload.len <= MaxPayloadLen
    BY DEF DecodeTransactionSignable, Turn, SigningInv, FrameDecoded, TransactionDecoded
<1>2. CASE IsTransaction(frame.payload)
    <2>1. /\ transaction' = TransactionSignable(frame.payload) /\ status' = "sender"
          /\ transaction' # None
        BY <1>2, SomeTransaction DEF DecodeTransactionSignable
    <2> QED
        BY <1>1, <1>2, <2>1 DEF SigningInv, Statuses, FrameDecoded, TransactionDecoded,
           SenderCompared, ReviewBuilt, RefusedWithReason
<1>3. CASE ~IsTransaction(frame.payload)
    <2>1. transaction' = transaction /\ status' = "InvalidData"
        BY <1>3 DEF DecodeTransactionSignable, Turn
    <2> QED
        BY <1>1, <1>3, <2>1 DEF SigningInv, Statuses, FrameDecoded, TransactionDecoded,
           SenderCompared, ReviewBuilt, RefusedWithReason
<1> QED
    BY <1>2, <1>3

\* The comparison of the sender with the derived key
LEMMA CompareSenderKeeps ==
    ASSUME SigningInv, CompareSender
    PROVE  SigningInv'
<1>1. /\ status = "sender" /\ UNCHANGED <<message, frame, transaction, review>>
      /\ transaction # None /\ review = None
    BY DEF CompareSender, SigningInv, TransactionDecoded
<1>2. /\ key' \in {Signer, NoKey}
      /\ \/ key' = NoKey /\ status' = "InternalFailure"
         \/ key' # NoKey /\ key' = Signer /\ key' = transaction.sender /\ status' = "review"
         \/ key' # NoKey /\ key' # transaction.sender /\ status' = "InvalidData"
    BY DEF CompareSender
<1> QED
    BY <1>1, <1>2 DEF SigningInv, Statuses, FrameDecoded, TransactionDecoded,
       SenderCompared, ReviewBuilt, RefusedWithReason

\* build_review
LEMMA BuildReviewKeeps ==
    ASSUME SigningInv, BuildReview
    PROVE  SigningInv'
<1>1. /\ status = "review" /\ UNCHANGED <<message, frame, transaction, key>>
      /\ frame # None /\ transaction # None /\ review = None
      /\ key = Signer /\ key # NoKey /\ key = transaction.sender
    BY DEF BuildReview, Turn, SigningInv, FrameDecoded, TransactionDecoded, SenderCompared
<1>2. \/ /\ BuildsReview(frame, transaction) /\ status' = "displayed"
         /\ review' = ClearSigningReview(frame, transaction)
      \/ ~BuildsReview(frame, transaction) /\ status' = "InvalidData" /\ review' = review
    BY DEF BuildReview, Turn
<1> QED
    BY <1>1, <1>2 DEF SigningInv, Statuses, FrameDecoded, TransactionDecoded,
       SenderCompared, ReviewBuilt, RefusedWithReason

\* Every call of handle_last keeps the invariant.
LEMMA SigningKeeps ==
    ASSUME SigningInv, [Next]_vars
    PROVE  SigningInv'
<1>1. CASE Next
    BY <1>1, DecodeSignatureFrameKeeps, BoundPayloadKeeps, DecodeTransactionKeeps,
       CompareSenderKeeps, BuildReviewKeeps DEF Next
<1>2. CASE UNCHANGED vars
    BY <1>2 DEF vars, SigningInv, Statuses, FrameDecoded, TransactionDecoded,
       SenderCompared, ReviewBuilt, RefusedWithReason
<1> QED
    BY <1>1, <1>2

\* The invariant holds of every run of handle_last.
THEOREM SigningInvariant == Spec => []SigningInv
<1>1. Init => SigningInv
    BY MessageAssumption DEF Init, SigningInv, Statuses, FrameDecoded, TransactionDecoded,
       SenderCompared, ReviewBuilt, RefusedWithReason
<1>2. SigningInv /\ [Next]_vars => SigningInv'
    BY SigningKeeps
<1> QED
    BY <1>1, <1>2, PTL DEF Spec

\* The calls keep to their order and what they use is there, within the bounds
\* of the code's fixed-size values.
THEOREM CallsTypeCorrect == Spec => []TypeOK
<1>1. ASSUME SigningInv
      PROVE  TypeOK
    <2>1. ASSUME transaction # None
          PROVE  /\ frame.payload.len <= MaxPayloadLen
                 /\ Len(transaction.access_manifest) <= MaxAccessEntries
        <3> DEFINE manifest == frame.payload.fields[6]
        <3>1. /\ frame.payload \in ByteString /\ IsTransaction(frame.payload)
              /\ frame.payload.len <= MaxPayloadLen
              /\ transaction = TransactionSignable(frame.payload)
            BY <1>1, <2>1, SignatureFrameIsEncoded
               DEF SigningInv, FrameDecoded, TransactionDecoded
        <3>2. manifest \in ByteString /\ IsAccessManifest(manifest)
            BY <3>1, FrameParts DEF IsTransaction, IsFrame
        <3>3. Value(manifest, 1) \in Nat /\ Value(manifest, 1) <= MaxAccessEntries
            BY <3>2, CountedFieldsAreListed DEF IsAccessManifest, CountedFields
        <3>4. Len(transaction.access_manifest) = Value(manifest, 1)
            BY <3>1, <3>3 DEF TransactionSignable, AccessManifest
        <3> QED
            BY <3>1, <3>3, <3>4
    <2>2. status = "displayed" <=> review # None
        BY <1>1, SomeReview DEF SigningInv, ReviewBuilt
    <2> QED
        BY <1>1, <2>1, <2>2 DEF TypeOK, SigningInv, Statuses, FrameDecoded, TransactionDecoded
<1>2. SigningInv => TypeOK
    BY <1>1
<1> QED
    BY <1>2, SigningInvariant, PTL

\* No decoder takes two different byte strings for the same thing: what it
\* returns encodes back to what it was given.
THEOREM NothingLostInDecoding == Spec => []DecodingLosesNothing
<1>1. SigningInv => DecodingLosesNothing
    BY SignatureFrameIsEncoded, TransactionIsEncoded
       DEF SigningInv, FrameDecoded, TransactionDecoded, DecodingLosesNothing
<1> QED
    BY <1>1, SigningInvariant, PTL

\* Every signed byte follows from the review, which is a transfer by the signer.
THEOREM NothingHidden == Spec => []NothingIsHidden
<1>1. ASSUME SigningInv, status = "displayed"
      PROVE  /\ message = Rebuilt(review)
             /\ review.sender = Signer
             /\ review.scheme = Ed25519
             /\ review.amount # 0
             /\ Cardinality({e.object_ref.id : e \in Range(review.access_entries)}) = 3
             /\ review.fee.fee_object = review.access_entries[1].object_ref
    <2>1. /\ message \in ByteString /\ IsSignatureFrame(message)
          /\ frame = SignatureFrame(message) /\ IsTransaction(frame.payload)
          /\ transaction = TransactionSignable(frame.payload)
          /\ BuildsReview(frame, transaction)
          /\ review = ClearSigningReview(frame, transaction)
        BY <1>1 DEF SigningInv, FrameDecoded, TransactionDecoded, ReviewBuilt
    <2>2. frame.payload \in ByteString
        BY <2>1, SignatureFrameIsEncoded
    <2>3. message = Rebuilt(review)
        BY <2>1, ReviewTellsFrame
    <2>4. review.sender = Signer
        BY <1>1, <2>1 DEF SigningInv, SenderCompared, ClearSigningReview
    <2> QED
        BY <2>1, <2>2, <2>3, <2>4, ReviewIsATransfer
<1>2. SigningInv => NothingIsHidden
    BY <1>1 DEF NothingIsHidden
<1> QED
    BY <1>2, SigningInvariant, PTL

\* The single step the session makes of LAST ends as the calls end one by one.
THEOREM VerdictsAgree == Spec => []VerdictAgrees
<1>1. ASSUME SigningInv
      PROVE  VerdictAgrees
    <2> DEFINE seen == Inspected(message, NoKey)
    <2>1. /\ seen.frame <=> IsSignatureFrame(message)
          /\ IsSignatureFrame(message) =>
               seen.payload_len = SignatureFrame(message).payload.len
        BY DEF Inspected
    <2>2. ASSUME frame # None
          PROVE  /\ seen.transaction <=> IsTransaction(frame.payload)
                 /\ IsSignatureFrame(message) /\ frame = SignatureFrame(message)
        <3>1. IsSignatureFrame(message) /\ frame = SignatureFrame(message)
            BY <1>1, <2>2 DEF SigningInv, FrameDecoded
        <3>2. frame.payload = message.fields[6]
            BY <3>1 DEF SignatureFrame
        <3>3. seen.transaction = (IsSignatureFrame(message) /\ IsTransaction(message.fields[6]))
            BY DEF Inspected
        <3> QED
            BY <3>1, <3>2, <3>3
    <2>3. ASSUME transaction # None
          PROVE  /\ seen.sender = transaction.sender
                 /\ frame # None
                 /\ IsTransaction(frame.payload)
                 /\ seen.review = IF BuildsReview(frame, transaction)
                                  THEN ClearSigningReview(frame, transaction) ELSE None
        BY <1>1, <2>3 DEF SigningInv, FrameDecoded, TransactionDecoded, Inspected,
           SignatureFrame
    <2> DEFINE verdict ==
            IF ~seen.frame THEN "InvalidData"
            ELSE IF seen.payload_len > MaxPayloadLen THEN "ProfileBoundExceeded"
            ELSE IF ~seen.transaction THEN "InvalidData"
            ELSE IF key = NoKey THEN "InternalFailure"
            ELSE IF seen.sender # key THEN "InvalidData"
            ELSE IF seen.review = None THEN "InvalidData"
            ELSE "Success"
    <2>4. Step!FrameStatus(message, key) = verdict
        BY DEF Step!FrameStatus
    <2>5. ASSUME frame # None
          PROVE  seen.payload_len > MaxPayloadLen <=> ~(frame.payload.len <= MaxPayloadLen)
        <3>1. frame.payload \in ByteString
            BY <1>1, <2>5, SignatureFrameIsEncoded DEF SigningInv, FrameDecoded
        <3>2. frame.payload.len \in Nat
            BY <3>1, ByteStringAssumption DEF WellFormed
        <3>3. seen.payload_len = frame.payload.len
            BY <2>1, <2>2, <2>5
        <3> HIDE DEF seen
        <3> QED
            BY <3>2, <3>3, PayloadBoundAssumption
    <2>6. transaction # None => frame.payload.len <= MaxPayloadLen
        BY <1>1 DEF SigningInv, TransactionDecoded
    <2> HIDE DEF seen
    <2>7. status = "ProfileBoundExceeded" => verdict = "ProfileBoundExceeded"
        BY <1>1, <2>1, <2>2, <2>5 DEF SigningInv, RefusedWithReason
    <2>8. status = "InternalFailure" => verdict = "InternalFailure"
        BY <1>1, <2>1, <2>2, <2>3, <2>5, <2>6 DEF SigningInv, RefusedWithReason
    <2>9. status = "InvalidData" => verdict = "InvalidData"
        BY <1>1, <2>1, <2>2, <2>3, <2>5, <2>6 DEF SigningInv, RefusedWithReason
    <2>10. status = "displayed" => verdict = "Success" /\ review = seen.review
        BY <1>1, <2>1, <2>2, <2>3, <2>5, <2>6, SomeReview
           DEF SigningInv, TransactionDecoded, SenderCompared, ReviewBuilt
    <2> QED
        BY <2>4, <2>7, <2>8, <2>9, <2>10 DEF VerdictAgrees, seen
<1>2. SigningInv => VerdictAgrees
    BY <1>1
<1> QED
    BY <1>2, SigningInvariant, PTL

-----------------------------------------------------------------------------
(* The review screen.  A shown review is the one the last call left behind, *)
(* no call follows it, and what is laid out are its facts.                  *)

Shown ==
    /\ display \in {"none", "facts"}
    /\ display = "facts" => status = "displayed" /\ screen = Facts(review)

ScreenInv == SigningInv /\ Shown

\* What a displayed review was built from.
LEMMA DisplayedReview ==
    ASSUME SigningInv, status = "displayed"
    PROVE  /\ message \in ByteString /\ IsSignatureFrame(message)
           /\ frame = SignatureFrame(message)
           /\ frame.payload \in ByteString /\ IsTransaction(frame.payload)
           /\ transaction = TransactionSignable(frame.payload)
           /\ BuildsReview(frame, transaction)
           /\ review = ClearSigningReview(frame, transaction)
<1>1. /\ message \in ByteString /\ IsSignatureFrame(message)
      /\ frame = SignatureFrame(message) /\ IsTransaction(frame.payload)
      /\ transaction = TransactionSignable(frame.payload)
      /\ BuildsReview(frame, transaction)
      /\ review = ClearSigningReview(frame, transaction)
    BY DEF SigningInv, FrameDecoded, TransactionDecoded, ReviewBuilt
<1> QED
    BY <1>1, SignatureFrameIsEncoded

\* No call of handle_last is made once there is a review.
LEMMA DisplayedIsFinal ==
    ASSUME status = "displayed"
    PROVE  ~Next
BY DEF Next, DecodeSignatureFrame, BoundPayload, DecodeTransactionSignable,
       CompareSender, BuildReview

\* ui_display_transaction never fails to format and shows the facts of the review.
LEMMA DisplayTransactionKeeps ==
    ASSUME ScreenInv, DisplayTransaction
    PROVE  Shown'
<1>1. Formats(review)
    BY DisplayedReview, ReviewFormats DEF ScreenInv, DisplayTransaction
<1> QED
    BY <1>1 DEF DisplayTransaction, Shown, vars

\* The invariant of the screen holds of every run.
THEOREM ScreenInvariant == ScreenSpec => []ScreenInv
<1>1. ScreenInit => ScreenInv
    BY MessageAssumption DEF ScreenInit, ScreenInv, Shown, Init, SigningInv, Statuses,
       FrameDecoded, TransactionDecoded, SenderCompared, ReviewBuilt, RefusedWithReason
<1>2. ASSUME ScreenInv, [ScreenNext]_screenVars
      PROVE  ScreenInv'
    <2>1. [Next]_vars
        BY <1>2 DEF ScreenNext, DisplayTransaction, screenVars
    <2>2. SigningInv'
        BY <1>2, <2>1, SigningKeeps DEF ScreenInv
    <2>3. Shown'
        <3>1. CASE Next /\ UNCHANGED <<display, screen>>
            BY <1>2, <3>1, DisplayedIsFinal DEF ScreenInv, Shown
        <3>2. CASE DisplayTransaction
            BY <1>2, <3>2, DisplayTransactionKeeps
        <3>3. CASE UNCHANGED screenVars
            BY <1>2, <3>3 DEF ScreenInv, Shown, screenVars, vars
        <3> QED
            BY <1>2, <3>1, <3>2, <3>3 DEF ScreenNext
    <2> QED
        BY <2>2, <2>3 DEF ScreenInv
<1>3. ScreenInv /\ [ScreenNext]_screenVars => ScreenInv'
    BY <1>2
<1> QED
    BY <1>1, <1>3, PTL DEF ScreenSpec

\* The screen runs the calls of handle_last and nothing but them: what is
\* proved of Spec holds with the screen behind it.
THEOREM ScreenImplementsCalls == ScreenSpec => Spec
<1>1. ScreenInit => Init
    BY DEF ScreenInit
<1>2. [ScreenNext]_screenVars => [Next]_vars
    BY DEF ScreenNext, DisplayTransaction, screenVars
<1> QED
    BY <1>1, <1>2, PTL DEF ScreenSpec, Spec

\* The errors of format_review_facts are never met: whatever recognize lets
\* through has three entries, a fee, and texts and digests that fit.
THEOREM ReviewsAreShown == ScreenSpec => []EveryReviewIsShown
<1>1. ScreenInv => EveryReviewIsShown
    BY DEF ScreenInv, Shown, EveryReviewIsShown
<1> QED
    BY <1>1, ScreenInvariant, PTL

\* The 32 facts of format_review_facts spell out every byte that is signed.
THEOREM FactsTell == ScreenSpec => []FactsTellTheFrame
<1>1. ASSUME ScreenInv, display = "facts"
      PROVE  message = Rebuilt(ReviewOf(screen))
    <2>1. SigningInv /\ status = "displayed" /\ screen = Facts(review)
        BY <1>1 DEF ScreenInv, Shown
    <2>2. ReviewOf(Facts(review)) = review
        BY <2>1, DisplayedReview, FactsTellReview
    <2>3. message = Rebuilt(review)
        BY <2>1, DisplayedReview, ReviewTellsFrame
    <2> QED
        BY <2>1, <2>2, <2>3
<1>2. ScreenInv => FactsTellTheFrame
    BY <1>1 DEF FactsTellTheFrame
<1> QED
    BY <1>2, ScreenInvariant, PTL

-----------------------------------------------------------------------------
(* The way through: what the encoder lays out is decoded to what it was    *)
(* laid out from.                                                          *)

\* The parts of a frame.
LEMMA CanonicalHas ==
    ASSUME NEW type_id, NEW version, NEW fields, NEW c, c = Canonical(type_id, version, fields)
    PROVE  /\ "fields" \in DOMAIN c
           /\ c.type_id = type_id /\ c.version = version /\ c.fields = fields
BY DEF Canonical

\* A number is one field.
LEMMA NumberHas ==
    ASSUME NEW n, NEW len
    PROVE  /\ "value" \in DOMAIN Number(n, len)
           /\ Number(n, len).value = n /\ Number(n, len).len = len
BY DEF Number

\* So is a text.
LEMMA TextHas ==
    ASSUME NEW x
    PROVE  /\ "text" \in DOMAIN Text(x)
           /\ Text(x).text = x /\ Text(x).len = TextLen[x]
BY DEF Text

\* A number that is laid out in a field is read from it.
LEMMA NumberIsThere ==
    ASSUME NEW b, NEW id, id \in DOMAIN b.fields, NEW n, NEW len, b.fields[id] = Number(n, len)
    PROVE  HasNumber(b, id, len) /\ Value(b, id) = n
BY NumberHas DEF HasNumber, Value

\* So is a text that the decoder takes.
LEMMA TextIsThere ==
    ASSUME NEW b, NEW id, id \in DOMAIN b.fields, NEW x, b.fields[id] = Text(x),
           NEW max, TextLen[x] <= max, x \notin NotUtf8
    PROVE  HasText(b, id, max) /\ TextOf(b, id) = x
BY TextHas DEF HasText, TextOf

\* A frame of two fields
LEMMA TwoFields ==
    ASSUME NEW b, NEW type_id, NEW version, NEW x, NEW y,
           b = Canonical(type_id, version, <<x, y>>)
    PROVE  /\ IsFrame(b, type_id, version, {1, 2})
           /\ 1 \in DOMAIN b.fields /\ b.fields[1] = x
           /\ 2 \in DOMAIN b.fields /\ b.fields[2] = y
<1>1. "fields" \in DOMAIN b /\ b.type_id = type_id /\ b.version = version /\ b.fields = <<x, y>>
    BY CanonicalHas
<1>2. DOMAIN <<x, y>> = {1, 2} /\ <<x, y>>[1] = x /\ <<x, y>>[2] = y
    OBVIOUS
<1> QED
    BY <1>1, <1>2 DEF IsFrame

\* A frame of one field
LEMMA OneField ==
    ASSUME NEW b, NEW type_id, NEW version, NEW x,
           b = Canonical(type_id, version, <<x>>)
    PROVE  /\ IsFrame(b, type_id, version, {1})
           /\ 1 \in DOMAIN b.fields /\ b.fields[1] = x
<1>1. "fields" \in DOMAIN b /\ b.type_id = type_id /\ b.version = version /\ b.fields = <<x>>
    BY CanonicalHas
<1>2. DOMAIN <<x>> = {1} /\ <<x>>[1] = x
    OBVIOUS
<1> QED
    BY <1>1, <1>2 DEF IsFrame

\* A frame of three fields
LEMMA ThreeFields ==
    ASSUME NEW b, NEW type_id, NEW version, NEW x, NEW y, NEW z,
           b = Canonical(type_id, version, <<x, y, z>>)
    PROVE  /\ IsFrame(b, type_id, version, 1..3)
           /\ 1 \in DOMAIN b.fields /\ b.fields[1] = x
           /\ 2 \in DOMAIN b.fields /\ b.fields[2] = y
           /\ 3 \in DOMAIN b.fields /\ b.fields[3] = z
<1>1. "fields" \in DOMAIN b /\ b.type_id = type_id /\ b.version = version
      /\ b.fields = <<x, y, z>>
    BY CanonicalHas
<1>2. /\ DOMAIN <<x, y, z>> = 1..3
      /\ <<x, y, z>>[1] = x /\ <<x, y, z>>[2] = y /\ <<x, y, z>>[3] = z
    OBVIOUS
<1> QED
    BY <1>1, <1>2 DEF IsFrame

\* decode_object_ref and decode_digest
LEMMA ReferenceDecodes ==
    ASSUME NEW x, IsReference(x), NEW b, b = EncodedObjectRef(x)
    PROVE  IsObjectRef(b) /\ ObjectRef(b) = x
<1> DEFINE d == EncodedDigest(x.digest)
           o == Canonical(TypeId.object_id, 1, <<Number(x.id, 32)>>)
<1>1. IsDigest(d) /\ Digest(d) = x.digest
  <2>1. /\ IsFrame(d, TypeId.digest, 1, {1, 2})
        /\ 1 \in DOMAIN d.fields /\ d.fields[1] = Number(x.digest.algorithm, 2)
        /\ 2 \in DOMAIN d.fields /\ d.fields[2] = Number(x.digest.bytes, 32)
    BY TwoFields DEF EncodedDigest
  <2> HIDE DEF d
  <2>2. HasNumber(d, 1, 2) /\ Value(d, 1) = x.digest.algorithm
    BY <2>1, NumberIsThere
  <2>3. HasNumber(d, 2, 32) /\ Value(d, 2) = x.digest.bytes
    BY <2>1, NumberIsThere
  <2> QED
    BY <2>1, <2>2, <2>3 DEF IsDigest, Digest, IsReference
<1>2. IsObjectId(o) /\ Value(o, 1) = x.id
  <2>1. /\ IsFrame(o, TypeId.object_id, 1, {1})
        /\ 1 \in DOMAIN o.fields /\ o.fields[1] = Number(x.id, 32)
    BY OneField
  <2> HIDE DEF o
  <2> QED
    BY <2>1, NumberIsThere DEF IsObjectId
<1>3. b = Canonical(TypeId.object_ref, 1, <<o, Number(x.version, 8), d>>)
    BY DEF EncodedObjectRef
<1> HIDE DEF d, o
<1>4. /\ IsFrame(b, TypeId.object_ref, 1, 1..3)
      /\ 1 \in DOMAIN b.fields /\ b.fields[1] = o
      /\ 2 \in DOMAIN b.fields /\ b.fields[2] = Number(x.version, 8)
      /\ 3 \in DOMAIN b.fields /\ b.fields[3] = d
    BY <1>3, ThreeFields
<1>5. HasNumber(b, 2, 8) /\ Value(b, 2) = x.version
    BY <1>4, NumberIsThere
<1>6. IsObjectRef(b)
    BY <1>1, <1>2, <1>4, <1>5 DEF IsObjectRef
<1>7. ObjectRef(b) = [id |-> x.id, version |-> x.version, digest |-> x.digest]
    BY <1>1, <1>2, <1>4, <1>5 DEF ObjectRef
<1> QED
    BY <1>6, <1>7 DEF IsReference

\* decode_access_entry
LEMMA EntryDecodes ==
    ASSUME NEW x, NEW m \in AccessModes, IsReference(x), NEW e,
           e = [object_ref |-> x, mode |-> m], NEW b, b = EncodedAccessEntry(e)
    PROVE  IsAccessEntry(b) /\ AccessEntry(b) = e
<1> DEFINE o == EncodedObjectRef(x)
           a == Canonical(TypeId.access_mode, 1, <<Number(m, 1)>>)
<1>1. IsObjectRef(o) /\ ObjectRef(o) = x
    BY ReferenceDecodes
<1>2. IsAccessMode(a) /\ Value(a, 1) = m
  <2>1. /\ IsFrame(a, TypeId.access_mode, 1, {1})
        /\ 1 \in DOMAIN a.fields /\ a.fields[1] = Number(m, 1)
    BY OneField
  <2> HIDE DEF a
  <2>2. HasNumber(a, 1, 1) /\ Value(a, 1) = m
    BY <2>1, NumberIsThere
  <2> QED
    BY <2>1, <2>2 DEF IsAccessMode
<1>3. b = Canonical(TypeId.access_entry, 1, <<o, a>>)
    BY DEF EncodedAccessEntry
<1> HIDE DEF o, a
<1>4. /\ IsFrame(b, TypeId.access_entry, 1, {1, 2})
      /\ 1 \in DOMAIN b.fields /\ b.fields[1] = o
      /\ 2 \in DOMAIN b.fields /\ b.fields[2] = a
    BY <1>3, TwoFields
<1> QED
    BY <1>1, <1>2, <1>4 DEF IsAccessEntry, AccessEntry

\* decode_fee_payment
LEMMA FeeDecodes ==
    ASSUME NEW p, p = [asset_id |-> p.asset_id, max_fee |-> p.max_fee,
                       fee_object |-> p.fee_object],
           IsReference(p.fee_object), NEW b, b = EncodedFeePayment(p)
    PROVE  IsFeePayment(b) /\ FeePayment(b) = p
<1> DEFINE o == EncodedObjectRef(p.fee_object)
           a == Canonical(TypeId.asset_id, 1, <<Number(p.asset_id, 32)>>)
<1>1. IsObjectRef(o) /\ ObjectRef(o) = p.fee_object
    BY ReferenceDecodes
<1>2. IsAssetId(a) /\ Value(a, 1) = p.asset_id
  <2>1. /\ IsFrame(a, TypeId.asset_id, 1, {1})
        /\ 1 \in DOMAIN a.fields /\ a.fields[1] = Number(p.asset_id, 32)
    BY OneField
  <2> HIDE DEF a
  <2> QED
    BY <2>1, NumberIsThere DEF IsAssetId
<1>3. b = Canonical(TypeId.fee_payment, 1, <<a, Number(p.max_fee, 8), o>>)
    BY DEF EncodedFeePayment
<1> HIDE DEF o, a
<1>4. /\ IsFrame(b, TypeId.fee_payment, 1, 1..3)
      /\ 1 \in DOMAIN b.fields /\ b.fields[1] = a
      /\ 2 \in DOMAIN b.fields /\ b.fields[2] = Number(p.max_fee, 8)
      /\ 3 \in DOMAIN b.fields /\ b.fields[3] = o
    BY <1>3, ThreeFields
<1>5. HasNumber(b, 2, 8) /\ Value(b, 2) = p.max_fee
    BY <1>4, NumberIsThere
<1>6. IsFeePayment(b)
    BY <1>1, <1>2, <1>4, <1>5 DEF IsFeePayment
<1>7. FeePayment(b) = [asset_id |-> p.asset_id, max_fee |-> p.max_fee,
                       fee_object |-> p.fee_object]
    BY <1>1, <1>2, <1>4, <1>5 DEF FeePayment
<1> QED
    BY <1>6, <1>7

\* The fields of a manifest of three entries
LEMMA CountAndEntries ==
    ASSUME NEW n, NEW entries, entries = [i \in 1..3 |-> entries[i]],
           NEW all, all = <<n>> \o entries
    PROVE  /\ DOMAIN all = 1..4
           /\ all[1] = n
           /\ \A i \in 1..3 : i + 1 \in 1..4 /\ all[i + 1] = entries[i]
<1>1. entries \in Seq(Range(entries)) /\ Len(entries) = 3
    BY DEF Range
<1>2. Len(all) = 4 /\ DOMAIN all = 1..4
    BY <1>1
<1>3. all[1] = n
    BY <1>1
<1>4. \A i \in 1..3 : i + 1 \in 1..4 /\ all[i + 1] = entries[i]
    BY <1>1
<1> QED
    BY <1>2, <1>3, <1>4

\* The fields of a transaction that pays a fee
LEMMA FieldsAndFee ==
    ASSUME NEW signed, signed = [i \in 1..10 |-> signed[i]], NEW fee,
           NEW all, all = signed \o <<fee>>
    PROVE  /\ DOMAIN all = 1..11
           /\ \A i \in 1..10 : i \in 1..11 /\ all[i] = signed[i]
           /\ all[11] = fee
<1>1. signed \in Seq(Range(signed)) /\ Len(signed) = 10
    BY DEF Range
<1>2. Len(all) = 11 /\ DOMAIN all = 1..11
    BY <1>1
<1>3. \A i \in 1..10 : i \in 1..11 /\ all[i] = signed[i]
    BY <1>1
<1>4. all[11] = fee
    BY <1>1
<1> QED
    BY <1>2, <1>3, <1>4

\* decode_access_manifest
LEMMA ManifestDecodes ==
    ASSUME NEW entries, IsTransferManifest(entries),
           NEW b, b = EncodedAccessManifest(entries)
    PROVE  IsAccessManifest(b) /\ AccessManifest(b) = entries
<1> DEFINE encoded == [i \in 1..3 |-> EncodedAccessEntry(entries[i])]
           all == <<Number(3, 4)>> \o encoded
<1>1. /\ entries = [i \in 1..3 |-> [object_ref |-> entries[i].object_ref, mode |-> Write]]
      /\ \A i \in 1..3 : IsReference(entries[i].object_ref)
      /\ \A i, j \in 1..3 : entries[i].object_ref.id = entries[j].object_ref.id => i = j
    BY DEF IsTransferManifest
<1>2. Len(entries) = 3 /\ DOMAIN entries = 1..3
    BY <1>1
<1>3. ASSUME NEW i \in 1..3
      PROVE  IsAccessEntry(encoded[i]) /\ AccessEntry(encoded[i]) = entries[i]
  <2>1. entries[i] = [object_ref |-> entries[i].object_ref, mode |-> Write]
        /\ IsReference(entries[i].object_ref) /\ Write \in AccessModes
    BY <1>1 DEF AccessModes
  <2>2. encoded[i] = EncodedAccessEntry(entries[i])
    OBVIOUS
  <2> HIDE DEF encoded
  <2> QED
    BY <2>1, <2>2, EntryDecodes
<1>4. b = Canonical(TypeId.access_manifest, 1, all)
    BY <1>2 DEF EncodedAccessManifest
<1>5. /\ DOMAIN all = 1..4
      /\ all[1] = Number(3, 4)
      /\ \A i \in 1..3 : i + 1 \in 1..4 /\ all[i + 1] = encoded[i]
  <2>1. encoded = [i \in 1..3 |-> encoded[i]]
    OBVIOUS
  <2> HIDE DEF encoded
  <2> QED
    BY <2>1, CountAndEntries
<1> HIDE DEF encoded, all
<1>6. /\ "fields" \in DOMAIN b /\ b.type_id = TypeId.access_manifest /\ b.version = 1
      /\ b.fields = all
    BY <1>4, CanonicalHas
<1>7. DOMAIN b.fields = 1..4 /\ 1 \in DOMAIN b.fields /\ b.fields[1] = Number(3, 4)
      /\ \A i \in 1..3 : i + 1 \in 1..4 /\ b.fields[i + 1] = encoded[i]
    BY <1>5, <1>6
<1>8. HasNumber(b, 1, 4) /\ Value(b, 1) = 3
    BY <1>7, NumberIsThere
<1>9. CountedFields(b)
  <2>1. Cardinality(1..4) = 4
    <3>1. \A n \in Nat : Cardinality(1..(n + 1)) = n + 1
        BY FS_Interval
    <3>2. 3 \in Nat /\ 3 + 1 = 4
        OBVIOUS
    <3> QED
        BY <3>1, <3>2
  <2> QED
    BY <1>7, <1>8, <2>1, ProfileAssumption DEF CountedFields
<1>10. AccessManifest(b) = entries
  <2>1. AccessManifest(b) = [i \in 1..3 |-> AccessEntry(encoded[i])]
    BY <1>7, <1>8 DEF AccessManifest
  <2>2. entries = [i \in 1..3 |-> entries[i]]
    BY <1>1
  <2> QED
    BY <1>3, <2>1, <2>2
<1>11. DistinctObjects(entries)
    BY <1>1, <1>2 DEF DistinctObjects, IsInjective
<1> QED
    BY <1>3, <1>6, <1>7, <1>8, <1>9, <1>10, <1>11 DEF IsAccessManifest

\* The eleven fields of a transaction that pays a fee, whatever is in them
LEMMA TransactionFields ==
    ASSUME NEW t, t.fee_payment # None, NEW b, b = EncodedTransaction(t)
    PROVE  /\ "fields" \in DOMAIN b /\ b.type_id = TypeId.transaction /\ b.version = 1
           /\ DOMAIN b.fields = 1..11
           /\ 1 \in DOMAIN b.fields /\ b.fields[1] = Text(t.chain_id)
           /\ 2 \in DOMAIN b.fields /\ b.fields[2] = Number(t.protocol_version, 4)
           /\ 3 \in DOMAIN b.fields /\ b.fields[3] = Number(t.epoch, 8)
           /\ 4 \in DOMAIN b.fields /\ b.fields[4] = Number(t.sender, 32)
           /\ 5 \in DOMAIN b.fields /\ b.fields[5] = Number(t.nonce, 8)
           /\ 6 \in DOMAIN b.fields /\ b.fields[6] = EncodedAccessManifest(t.access_manifest)
           /\ 7 \in DOMAIN b.fields /\ b.fields[7] = EncodedObjectRef(t.module_ref)
           /\ 8 \in DOMAIN b.fields /\ b.fields[8] = Text(t.entrypoint)
           /\ 9 \in DOMAIN b.fields /\ b.fields[9] = t.args
           /\ 10 \in DOMAIN b.fields /\ b.fields[10] = Number(t.gas_limit, 8)
           /\ 11 \in DOMAIN b.fields /\ b.fields[11] = EncodedFeePayment(t.fee_payment)
<1> DEFINE signed == <<Text(t.chain_id), Number(t.protocol_version, 4), Number(t.epoch, 8),
                       Number(t.sender, 32), Number(t.nonce, 8),
                       EncodedAccessManifest(t.access_manifest),
                       EncodedObjectRef(t.module_ref), Text(t.entrypoint), t.args,
                       Number(t.gas_limit, 8)>>
           fee == EncodedFeePayment(t.fee_payment)
           all == signed \o <<fee>>
<1>1. b = Canonical(TypeId.transaction, 1, all)
    BY DEF EncodedTransaction
<1>2. /\ "fields" \in DOMAIN b /\ b.type_id = TypeId.transaction /\ b.version = 1
      /\ b.fields = all
    <2> HIDE DEF all
    <2> QED
        BY <1>1, CanonicalHas
<1>3. signed = [i \in 1..10 |-> signed[i]]
    OBVIOUS
<1>4. /\ signed[1] = Text(t.chain_id) /\ signed[2] = Number(t.protocol_version, 4)
      /\ signed[3] = Number(t.epoch, 8) /\ signed[4] = Number(t.sender, 32)
      /\ signed[5] = Number(t.nonce, 8)
      /\ signed[6] = EncodedAccessManifest(t.access_manifest)
      /\ signed[7] = EncodedObjectRef(t.module_ref) /\ signed[8] = Text(t.entrypoint)
      /\ signed[9] = t.args /\ signed[10] = Number(t.gas_limit, 8)
    OBVIOUS
<1>5. /\ DOMAIN b.fields = 1..11
      /\ \A i \in 1..10 : i \in 1..11 /\ b.fields[i] = signed[i]
      /\ b.fields[11] = fee
    <2> HIDE DEF signed, fee
    <2> QED
        BY <1>2, <1>3, FieldsAndFee
<1> HIDE DEF signed, fee
<1>6. /\ 1 \in 1..10 /\ 2 \in 1..10 /\ 3 \in 1..10 /\ 4 \in 1..10 /\ 5 \in 1..10
      /\ 6 \in 1..10 /\ 7 \in 1..10 /\ 8 \in 1..10 /\ 9 \in 1..10 /\ 10 \in 1..10
      /\ 11 \in 1..11
    OBVIOUS
<1> QED
    BY <1>2, <1>4, <1>5, <1>6 DEF fee

\* decode_transaction_signable, on a transfer: t is what Rebuilt lays out.
LEMMA TransactionDecodes ==
    ASSUME NEW t,
           t = [chain_id |-> t.chain_id, protocol_version |-> t.protocol_version,
                epoch |-> t.epoch, sender |-> t.sender, nonce |-> t.nonce,
                access_manifest |-> t.access_manifest, module_ref |-> t.module_ref,
                entrypoint |-> t.entrypoint, args |-> t.args, gas_limit |-> t.gas_limit,
                fee_payment |-> t.fee_payment],
           TextLen[t.chain_id] <= MaxChainIdLen, t.chain_id \notin NotUtf8,
           TextLen[t.entrypoint] \in 1..MaxEntrypointLen, t.entrypoint \notin NotUtf8,
           IsTransferManifest(t.access_manifest),
           IsReference(t.module_ref),
           t.args.len <= MaxArgsLen,
           t.fee_payment = [asset_id |-> t.fee_payment.asset_id,
                            max_fee |-> t.fee_payment.max_fee,
                            fee_object |-> t.fee_payment.fee_object],
           IsReference(t.fee_payment.fee_object),
           NEW b, b = EncodedTransaction(t)
    PROVE  IsTransaction(b) /\ TransactionSignable(b) = t
<1>1. t.fee_payment # None
    <2>1. DOMAIN t.fee_payment = {"asset_id", "max_fee", "fee_object"}
        OBVIOUS
    <2>2. DOMAIN None = {"none"}
        BY DEF None
    <2> QED
        BY <2>1, <2>2
<1>2. /\ "fields" \in DOMAIN b /\ b.type_id = TypeId.transaction /\ b.version = 1
      /\ DOMAIN b.fields = 1..11
      /\ 1 \in DOMAIN b.fields /\ b.fields[1] = Text(t.chain_id)
      /\ 2 \in DOMAIN b.fields /\ b.fields[2] = Number(t.protocol_version, 4)
      /\ 3 \in DOMAIN b.fields /\ b.fields[3] = Number(t.epoch, 8)
      /\ 4 \in DOMAIN b.fields /\ b.fields[4] = Number(t.sender, 32)
      /\ 5 \in DOMAIN b.fields /\ b.fields[5] = Number(t.nonce, 8)
      /\ 6 \in DOMAIN b.fields /\ b.fields[6] = EncodedAccessManifest(t.access_manifest)
      /\ 7 \in DOMAIN b.fields /\ b.fields[7] = EncodedObjectRef(t.module_ref)
      /\ 8 \in DOMAIN b.fields /\ b.fields[8] = Text(t.entrypoint)
      /\ 9 \in DOMAIN b.fields /\ b.fields[9] = t.args
      /\ 10 \in DOMAIN b.fields /\ b.fields[10] = Number(t.gas_limit, 8)
      /\ 11 \in DOMAIN b.fields /\ b.fields[11] = EncodedFeePayment(t.fee_payment)
    BY <1>1, TransactionFields
<1>3. /\ HasNumber(b, 2, 4) /\ Value(b, 2) = t.protocol_version
      /\ HasNumber(b, 3, 8) /\ Value(b, 3) = t.epoch
      /\ HasNumber(b, 4, 32) /\ Value(b, 4) = t.sender
      /\ HasNumber(b, 5, 8) /\ Value(b, 5) = t.nonce
      /\ HasNumber(b, 10, 8) /\ Value(b, 10) = t.gas_limit
    BY <1>2, NumberIsThere
<1>4. /\ HasText(b, 1, MaxChainIdLen) /\ TextOf(b, 1) = t.chain_id
    BY <1>2, TextIsThere
<1>5. /\ HasText(b, 8, MaxEntrypointLen) /\ TextOf(b, 8) = t.entrypoint
       /\ b.fields[8].len > 0
    <2>1. TextLen[t.entrypoint] <= MaxEntrypointLen /\ TextLen[t.entrypoint] > 0
        OBVIOUS
    <2> QED
        BY <2>1, <1>2, TextIsThere, TextHas
<1>6. IsAccessManifest(b.fields[6]) /\ AccessManifest(b.fields[6]) = t.access_manifest
    BY <1>2, ManifestDecodes
<1>7. IsObjectRef(b.fields[7]) /\ ObjectRef(b.fields[7]) = t.module_ref
    BY <1>2, ReferenceDecodes
<1>8. IsFeePayment(b.fields[11]) /\ FeePayment(b.fields[11]) = t.fee_payment
    BY <1>2, FeeDecodes
<1>9. IsFrame(b, TypeId.transaction, 1, 1..11)
    BY <1>2 DEF IsFrame
<1>10. IsTransaction(b)
    BY <1>2, <1>3, <1>4, <1>5, <1>6, <1>7, <1>8, <1>9 DEF IsTransaction
<1>11. TransactionSignable(b) =
           [chain_id |-> t.chain_id, protocol_version |-> t.protocol_version,
            epoch |-> t.epoch, sender |-> t.sender, nonce |-> t.nonce,
            access_manifest |-> t.access_manifest, module_ref |-> t.module_ref,
            entrypoint |-> t.entrypoint, args |-> t.args, gas_limit |-> t.gas_limit,
            fee_payment |-> t.fee_payment]
    BY <1>2, <1>3, <1>4, <1>5, <1>6, <1>7, <1>8 DEF TransactionSignable
<1> QED
    BY <1>2, <1>10, <1>11

\* decode_signature_frame, on a frame of the profile
LEMMA FrameDecodes ==
    ASSUME NEW f,
           f = [chain_id |-> f.chain_id, protocol_version |-> f.protocol_version,
                epoch |-> f.epoch, message_type |-> f.message_type,
                signature_scheme_id |-> f.signature_scheme_id, payload |-> f.payload],
           TextLen[f.chain_id] <= MaxChainIdLen, f.chain_id \notin NotUtf8 \cup BlankText,
           TextLen[f.message_type] <= MaxMessageTypeLen,
           f.message_type \notin NotUtf8 \cup BlankText,
           f.signature_scheme_id \in SignatureScheme,
           NEW b, b = EncodedFrame(f)
    PROVE  /\ IsSignatureFrame(b) /\ SignatureFrame(b) = f
           /\ b.fields[6] = f.payload
<1> DEFINE all == <<Text(f.chain_id), Number(f.protocol_version, 4), Number(f.epoch, 8),
                    Text(f.message_type), Number(f.signature_scheme_id, 2), f.payload>>
<1>1. /\ DOMAIN all = 1..6
      /\ all[1] = Text(f.chain_id) /\ all[2] = Number(f.protocol_version, 4)
      /\ all[3] = Number(f.epoch, 8) /\ all[4] = Text(f.message_type)
      /\ all[5] = Number(f.signature_scheme_id, 2) /\ all[6] = f.payload
    OBVIOUS
<1>2. b = Canonical(TypeId.signature_frame, 1, all)
    BY DEF EncodedFrame
<1> HIDE DEF all
<1>3. /\ "fields" \in DOMAIN b /\ b.type_id = TypeId.signature_frame /\ b.version = 1
      /\ b.fields = all
    BY <1>2, CanonicalHas
<1>4. /\ DOMAIN b.fields = 1..6
      /\ 1 \in DOMAIN b.fields /\ b.fields[1] = Text(f.chain_id)
      /\ 2 \in DOMAIN b.fields /\ b.fields[2] = Number(f.protocol_version, 4)
      /\ 3 \in DOMAIN b.fields /\ b.fields[3] = Number(f.epoch, 8)
      /\ 4 \in DOMAIN b.fields /\ b.fields[4] = Text(f.message_type)
      /\ 5 \in DOMAIN b.fields /\ b.fields[5] = Number(f.signature_scheme_id, 2)
      /\ 6 \in DOMAIN b.fields /\ b.fields[6] = f.payload
    BY <1>1, <1>3
<1>5. /\ HasNumber(b, 2, 4) /\ Value(b, 2) = f.protocol_version
      /\ HasNumber(b, 3, 8) /\ Value(b, 3) = f.epoch
      /\ HasNumber(b, 5, 2) /\ Value(b, 5) = f.signature_scheme_id
    BY <1>4, NumberIsThere
<1>6. /\ HasText(b, 1, MaxChainIdLen) /\ TextOf(b, 1) = f.chain_id
      /\ HasText(b, 4, MaxMessageTypeLen) /\ TextOf(b, 4) = f.message_type
    BY <1>4, TextIsThere
<1>7. IsFrame(b, TypeId.signature_frame, 1, 1..6)
    BY <1>3, <1>4 DEF IsFrame
<1>8. IsSignatureFrame(b)
    BY <1>4, <1>5, <1>6, <1>7 DEF IsSignatureFrame
<1>9. SignatureFrame(b) =
          [chain_id |-> f.chain_id, protocol_version |-> f.protocol_version,
           epoch |-> f.epoch, message_type |-> f.message_type,
           signature_scheme_id |-> f.signature_scheme_id, payload |-> f.payload]
    BY <1>4, <1>5, <1>6 DEF SignatureFrame
<1> QED
    BY <1>4, <1>8, <1>9

\* What recognize looks for in the arguments
LEMMA AmountDecodes ==
    ASSUME NEW amount, NEW b,
           b = Canonical(Policy.args_type_id, Policy.args_version,
                         [id \in {Policy.args_field_id} |-> Number(amount, 8)])
    PROVE  /\ IsFrame(b, Policy.args_type_id, Policy.args_version, {Policy.args_field_id})
           /\ HasNumber(b, Policy.args_field_id, 8)
           /\ Value(b, Policy.args_field_id) = amount
<1> DEFINE fields == [id \in {Policy.args_field_id} |-> Number(amount, 8)]
<1>1. /\ DOMAIN fields = {Policy.args_field_id}
      /\ fields[Policy.args_field_id] = Number(amount, 8)
    OBVIOUS
<1>2. b = Canonical(Policy.args_type_id, Policy.args_version, fields)
    OBVIOUS
<1> HIDE DEF fields
<1>3. /\ "fields" \in DOMAIN b /\ b.type_id = Policy.args_type_id
      /\ b.version = Policy.args_version /\ b.fields = fields
    BY <1>2, CanonicalHas
<1>4. Policy.args_field_id \in DOMAIN b.fields
      /\ b.fields[Policy.args_field_id] = Number(amount, 8)
    BY <1>1, <1>3
<1> QED
    BY <1>1, <1>3, <1>4, NumberIsThere DEF IsFrame

\* The frame of a transfer passes each of the checks of handle_last: the two
\* decoders, the bound on the payload, the sender and build_review.
LEMMA TransferPasses ==
    ASSUME NEW r, IsTransfer(r), NEW m, m = Rebuilt(r)
    PROVE  /\ IsSignatureFrame(m)
           /\ SignatureFrame(m).payload.len <= MaxPayloadLen
           /\ IsTransaction(SignatureFrame(m).payload)
           /\ TransactionSignable(SignatureFrame(m).payload).sender = Signer
           /\ BuildsReview(SignatureFrame(m),
                           TransactionSignable(SignatureFrame(m).payload))
<1> DEFINE args == Canonical(Policy.args_type_id, Policy.args_version,
                             [id \in {Policy.args_field_id} |-> Number(r.amount, 8)])
           t == [chain_id |-> r.chain_id, protocol_version |-> r.protocol_version,
                 epoch |-> r.epoch, sender |-> r.sender, nonce |-> r.nonce,
                 access_manifest |-> r.access_entries, module_ref |-> r.module,
                 entrypoint |-> r.entrypoint, args |-> args,
                 gas_limit |-> r.gas_limit, fee_payment |-> r.fee]
           f == [chain_id |-> r.chain_id, protocol_version |-> r.protocol_version,
                 epoch |-> r.epoch, message_type |-> r.message_type,
                 signature_scheme_id |-> r.scheme, payload |-> EncodedTransaction(t)]
<1>1. m = EncodedFrame(f)
    BY DEF Rebuilt
<1>2. /\ r.chain_id = Policy.chain_id /\ r.protocol_version = Policy.protocol_version
      /\ r.epoch = Policy.epoch /\ r.message_type = TRANSACTION_V1_MESSAGE_TYPE
      /\ r.scheme = Ed25519 /\ r.sender = Signer
      /\ r.module = Policy.module_ref /\ r.entrypoint = Policy.entrypoint
      /\ r.amount # 0
    BY DEF IsTransfer
<1>3. /\ IsTransferManifest(r.access_entries)
      /\ r.fee = [asset_id |-> Policy.fee_asset_id, max_fee |-> r.fee.max_fee,
                  fee_object |-> r.access_entries[1].object_ref]
      /\ m.fields[6].len <= MaxPayloadLen
      /\ m.fields[6].fields[9].len <= MaxArgsLen
    BY DEF IsTransfer, Fits
<1>4. /\ IsFrame(args, Policy.args_type_id, Policy.args_version, {Policy.args_field_id})
      /\ HasNumber(args, Policy.args_field_id, 8)
      /\ Value(args, Policy.args_field_id) = r.amount
    BY AmountDecodes
<1> HIDE DEF args
<1>5. /\ t.chain_id = r.chain_id /\ t.protocol_version = r.protocol_version
      /\ t.epoch = r.epoch /\ t.sender = r.sender /\ t.nonce = r.nonce
      /\ t.access_manifest = r.access_entries /\ t.module_ref = r.module
      /\ t.entrypoint = r.entrypoint /\ t.args = args
      /\ t.gas_limit = r.gas_limit /\ t.fee_payment = r.fee
    OBVIOUS
<1>6. t = [chain_id |-> t.chain_id, protocol_version |-> t.protocol_version,
           epoch |-> t.epoch, sender |-> t.sender, nonce |-> t.nonce,
           access_manifest |-> t.access_manifest, module_ref |-> t.module_ref,
           entrypoint |-> t.entrypoint, args |-> t.args, gas_limit |-> t.gas_limit,
           fee_payment |-> t.fee_payment]
    OBVIOUS
<1> HIDE DEF t
<1>7. /\ f.chain_id = r.chain_id /\ f.protocol_version = r.protocol_version
      /\ f.epoch = r.epoch /\ f.message_type = r.message_type
      /\ f.signature_scheme_id = r.scheme /\ f.payload = EncodedTransaction(t)
    OBVIOUS
<1>8. f = [chain_id |-> f.chain_id, protocol_version |-> f.protocol_version,
           epoch |-> f.epoch, message_type |-> f.message_type,
           signature_scheme_id |-> f.signature_scheme_id, payload |-> f.payload]
    OBVIOUS
<1> HIDE DEF f
<1>9. /\ f.chain_id \notin NotUtf8 \cup BlankText
      /\ f.message_type \notin NotUtf8 \cup BlankText
      /\ t.chain_id \notin NotUtf8 /\ t.entrypoint \notin NotUtf8
    BY <1>2, <1>5, <1>7, ProfileAssumption
<1>10. /\ TextLen[f.chain_id] <= MaxChainIdLen
       /\ TextLen[f.message_type] <= MaxMessageTypeLen
       /\ TextLen[t.chain_id] <= MaxChainIdLen
       /\ TextLen[t.entrypoint] \in 1..MaxEntrypointLen
       /\ IsReference(t.module_ref)
    BY <1>2, <1>5, <1>7, ProfileAssumption
<1>11. f.signature_scheme_id \in SignatureScheme
    BY <1>2, <1>7 DEF SignatureScheme
<1>12. /\ IsSignatureFrame(m) /\ SignatureFrame(m) = f
       /\ m.fields[6] = EncodedTransaction(t)
    BY <1>1, <1>7, <1>8, <1>9, <1>10, <1>11, FrameDecodes
<1>13. /\ DOMAIN r.access_entries = 1..3 /\ Len(r.access_entries) = 3
       /\ \A i \in 1..3 : /\ IsReference(r.access_entries[i].object_ref)
                          /\ r.access_entries[i].mode = Write
    BY <1>3 DEF IsTransferManifest
<1>14. /\ t.fee_payment = [asset_id |-> t.fee_payment.asset_id,
                           max_fee |-> t.fee_payment.max_fee,
                           fee_object |-> t.fee_payment.fee_object]
       /\ t.fee_payment.asset_id = Policy.fee_asset_id
       /\ t.fee_payment.fee_object = t.access_manifest[1].object_ref
       /\ IsReference(t.fee_payment.fee_object)
    <2>1. IsReference(r.access_entries[1].object_ref)
        BY <1>13
    <2> QED
        BY <1>3, <1>5, <2>1
<1>15. t.fee_payment # None
    <2>1. DOMAIN t.fee_payment = {"asset_id", "max_fee", "fee_object"}
        BY <1>14
    <2>2. DOMAIN None = {"none"}
        BY DEF None
    <2> QED
        BY <2>1, <2>2
<1> DEFINE b == EncodedTransaction(t)
<1>16. IsTransaction(b) /\ TransactionSignable(b) = t
    <2>1. b.fields[9] = t.args
        BY <1>15, TransactionFields
    <2>2. t.args.len <= MaxArgsLen
        BY <1>3, <1>12, <2>1
    <2> HIDE DEF b
    <2> QED
        BY <1>3, <1>5, <1>6, <1>9, <1>10, <1>14, <2>2, TransactionDecodes DEF b
<1>17. BuildsReview(f, t)
    <2>1. SameContext(t)
        BY <1>2, <1>5 DEF SameContext
    <2>2. PaysFromFirst(t)
        BY <1>14, <1>15 DEF PaysFromFirst
    <2>3. Recognized(t)
        BY <1>2, <1>4, <1>5, <1>13, <2>1, <2>2 DEF Recognized
    <2> QED
        BY <1>2, <1>5, <1>7, <2>3 DEF BuildsReview
<1>18. f.payload = b /\ t.sender = Signer /\ b.len <= MaxPayloadLen
    BY <1>2, <1>3, <1>5, <1>7, <1>12
<1> HIDE DEF b
<1> QED
    BY <1>12, <1>16, <1>17, <1>18

\* The checks together leave a transfer of the profile a way through.
THEOREM TransfersDisplayed == Spec => []TransfersAreDisplayed
<1>1. ASSUME SigningInv, status \in {"InvalidData", "ProfileBoundExceeded"},
             NEW r \in Transfer, message = Rebuilt(r)
      PROVE  FALSE
    <2>1. /\ IsSignatureFrame(message)
          /\ SignatureFrame(message).payload.len <= MaxPayloadLen
          /\ IsTransaction(SignatureFrame(message).payload)
          /\ TransactionSignable(SignatureFrame(message).payload).sender = Signer
          /\ BuildsReview(SignatureFrame(message),
                          TransactionSignable(SignatureFrame(message).payload))
        BY <1>1, TransferAssumption, TransferPasses
    <2>2. /\ frame # None => frame = SignatureFrame(message)
          /\ transaction # None =>
                frame # None /\ transaction = TransactionSignable(frame.payload)
          /\ key \in {Signer, NoKey}
        BY <1>1 DEF SigningInv, FrameDecoded, TransactionDecoded, SenderCompared
    <2>3. RefusedWithReason
        BY <1>1 DEF SigningInv
    <2> QED
        BY <1>1, <2>1, <2>2, <2>3 DEF RefusedWithReason
<1>2. SigningInv => TransfersAreDisplayed
    BY <1>1 DEF TransfersAreDisplayed
<1> QED
    BY <1>2, SigningInvariant, PTL
=============================================================================
