---------------------------- MODULE ClearSigning ----------------------------
(***************************************************************************)
(* What LAST makes of a completed frame, the second half of handle_last    *)
(* (crates/sunrise-edge-ledger-core/src/apdu.rs): the signature frame is   *)
(* decoded, its payload bounded and decoded, the sender compared with the  *)
(* derived key, and the review built from what the policy recognises.  One *)
(* action is one of these calls.                                           *)
(***************************************************************************)
EXTENDS Decoders

CONSTANTS
    MaxPayloadLen,
    Signer,         \* the public key of the path of FIRST
    NoKey,          \* the None of a deriver that fails
    Message,        \* the byte strings that reach decode_signature_frame
    Transfer        \* the reviews that are to be displayed

ASSUME PayloadBoundAssumption == MaxPayloadLen \in Nat
ASSUME MessageAssumption == Message \subseteq ByteString

\* The texts of the profile are texts a decoder takes.
ASSUME ProfileAssumption ==
    /\ MaxAccessEntries \in Nat /\ MaxAccessEntries >= 3
    /\ {Policy.chain_id, Policy.entrypoint, TRANSACTION_V1_MESSAGE_TYPE} \cap NotUtf8 = {}
    /\ {Policy.chain_id, TRANSACTION_V1_MESSAGE_TYPE} \cap BlankText = {}
    /\ TextLen[Policy.chain_id] <= MaxChainIdLen
    /\ TextLen[TRANSACTION_V1_MESSAGE_TYPE] <= MaxMessageTypeLen
    /\ TextLen[Policy.entrypoint] \in 1..MaxEntrypointLen
    /\ IsReference(Policy.module_ref)

\* Three entries to write to, of objects that differ.
IsTransferManifest(entries) ==
    /\ entries = [i \in 1..3 |-> [object_ref |-> entries[i].object_ref, mode |-> Write]]
    /\ \A i \in 1..3 : IsReference(entries[i].object_ref)
    /\ \A i, j \in 1..3 : entries[i].object_ref.id = entries[j].object_ref.id => i = j

\* The arguments and the payload of its frame are within their bounds.
Fits(r) ==
    LET payload == Rebuilt(r).fields[6]
    IN  payload.len <= MaxPayloadLen /\ payload.fields[9].len <= MaxArgsLen

\* A transfer of the profile by the signer: its context, its module and its assets
\* are the profile's, and all else is free.
IsTransfer(r) ==
    /\ r = [chain_id |-> Policy.chain_id, protocol_version |-> Policy.protocol_version,
            epoch |-> Policy.epoch, message_type |-> TRANSACTION_V1_MESSAGE_TYPE,
            scheme |-> Ed25519, sender |-> Signer, nonce |-> r.nonce,
            module |-> Policy.module_ref, entrypoint |-> Policy.entrypoint,
            amount |-> r.amount, amount_label |-> Policy.args_label,
            gas_limit |-> r.gas_limit, access_entries |-> r.access_entries, fee |-> r.fee]
    /\ r.amount # 0
    /\ IsTransferManifest(r.access_entries)
    /\ r.fee = [asset_id |-> Policy.fee_asset_id, max_fee |-> r.fee.max_fee,
                fee_object |-> r.access_entries[1].object_ref]
    /\ Fits(r)

ASSUME TransferAssumption == \A r \in Transfer : IsTransfer(r)

VARIABLES
    message,        \* the buffered frame
    status,         \* the call to be made next, or how handle_last ended
    frame,          \* the decoded signature frame
    transaction,    \* the decoded transaction
    key,            \* the derived key
    review          \* the review handed to the adapter

vars == <<message, status, frame, transaction, key, review>>

-----------------------------------------------------------------------------
Init ==
    /\ message \in Message
    /\ status = "frame"
    /\ frame = None
    /\ transaction = None
    /\ key = NoKey
    /\ review = None

Turn(to) ==
    /\ status' = to
    /\ UNCHANGED <<message, frame, transaction, key, review>>

DecodeSignatureFrame ==
    /\ status = "frame"
    /\ \/ /\ IsSignatureFrame(message)
          /\ frame' = SignatureFrame(message)
          /\ status' = "payload"
          /\ UNCHANGED <<message, transaction, key, review>>
       \/ /\ ~IsSignatureFrame(message)
          /\ Turn("InvalidData")

\* Decodes a payload of any length.
BoundPayload_Slip == status = "payload" /\ Turn("transaction")

BoundPayload ==
    /\ status = "payload"
    /\ Turn(IF frame.payload.len > MaxPayloadLen
              THEN "ProfileBoundExceeded" ELSE "transaction")

DecodeTransactionSignable ==
    /\ status = "transaction"
    /\ \/ /\ IsTransaction(frame.payload)
          /\ transaction' = TransactionSignable(frame.payload)
          /\ status' = "sender"
          /\ UNCHANGED <<message, frame, key, review>>
       \/ /\ ~IsTransaction(frame.payload)
          /\ Turn("InvalidData")

\* Takes a deriver that fails for the key of another sender.
CompareSender_Slip ==
    /\ status = "sender"
    /\ key' \in {Signer, NoKey}
    /\ status' = IF key' = transaction.sender THEN "review" ELSE "InvalidData"
    /\ UNCHANGED <<message, frame, transaction, review>>

\* The deriver may fail on any path.
CompareSender ==
    /\ status = "sender"
    /\ key' \in {Signer, NoKey}
    /\ status' = IF key' = NoKey THEN "InternalFailure"
                 ELSE IF key' = transaction.sender THEN "review"
                 ELSE "InvalidData"
    /\ UNCHANGED <<message, frame, transaction, review>>

BuildReview ==
    /\ status = "review"
    /\ \/ /\ BuildsReview(frame, transaction)
          /\ review' = ClearSigningReview(frame, transaction)
          /\ status' = "displayed"
          /\ UNCHANGED <<message, frame, transaction, key>>
       \/ /\ ~BuildsReview(frame, transaction)
          /\ Turn("InvalidData")

Next ==
    \/ DecodeSignatureFrame
    \/ BoundPayload
    \/ DecodeTransactionSignable
    \/ CompareSender
    \/ BuildReview

Spec == Init /\ [][Next]_vars

-----------------------------------------------------------------------------
(* Properties. *)

\* What a later call uses is there, and within the bounds that keep it in the
\* fixed-size values of the code.
TypeOK ==
    /\ status \in {"frame", "payload", "transaction", "sender", "review", "displayed",
                   "InvalidData", "ProfileBoundExceeded", "InternalFailure"}
    /\ status \in {"payload", "transaction", "sender", "review", "displayed"} => frame # None
    /\ status \in {"sender", "review", "displayed"} => transaction # None
    /\ transaction # None =>
         /\ frame.payload.len <= MaxPayloadLen
         /\ Len(transaction.access_manifest) <= MaxAccessEntries
    /\ status = "displayed" <=> review # None

\* Decoding loses nothing: whatever a decoder accepted encodes back to the very
\* bytes it was given, so two different frames are never taken for one, though
\* the access manifest is the one frame whose fields are counted and not listed.
DecodingLosesNothing ==
    /\ frame # None => EncodedFrame(frame) = message
    /\ transaction # None => EncodedTransaction(transaction) = frame.payload

\* The review hides nothing: all that is signed follows from what is displayed,
\* and what is displayed is a transfer by the signer out of the first of three
\* distinct objects, which pays the fee.
NothingIsHidden ==
    status = "displayed" =>
        /\ message = Rebuilt(review)
        /\ review.sender = Signer
        /\ review.scheme = Ed25519
        /\ review.amount # 0
        /\ Cardinality({e.object_ref.id : e \in Range(review.access_entries)}) = 3
        /\ review.fee.fee_object = review.access_entries[1].object_ref

\* A transfer the profile describes is never refused: the checks together leave
\* it a way through, whatever its nonce, amount, fee, gas and objects.
TransfersAreDisplayed ==
    status \in {"InvalidData", "ProfileBoundExceeded"} =>
        message \notin {Rebuilt(r) : r \in Transfer}

\* The calls made one by one end as the session's single step says: the same
\* status word for every frame and every answer of the deriver, and a review
\* exactly when the session hands one out.
Step == INSTANCE FrameChecks WITH
    NoReview <- None,
    Inspect <- [m \in {message} |-> Inspected(m, NoKey)]

VerdictAgrees ==
    /\ status \in {"InvalidData", "ProfileBoundExceeded", "InternalFailure"} =>
         Step!FrameStatus(message, key) = status
    /\ status = "displayed" =>
         /\ Step!FrameStatus(message, key) = "Success"
         /\ review = Inspected(message, NoKey).review

\* What types.rs says of Secp256k1: "always an FrameError rejection".  The frame
\* decoder accepts it and build_review refuses it.
OtherSchemesAreFrameErrors == frame # None => frame.signature_scheme_id = Ed25519

\* What transaction.rs says of its ChainId error: "empty or too large".  The
\* decoder of the transaction accepts an empty chain identifier, which no later
\* check lets through.
EmptyChainIdIsRefused == transaction # None => TextLen[transaction.chain_id] > 0

=============================================================================
