----------------------------- MODULE FrameChecks -----------------------------
(***************************************************************************)
(* The checks LAST makes on a completed frame, one after the other         *)
(* (handle_last, crates/sunrise-edge-ledger-core/src/apdu.rs), given what  *)
(* each call it makes would return.  The session takes them in one step;   *)
(* ClearSigning takes them one by one, with the decoders in place of       *)
(* Inspect.                                                                *)
(***************************************************************************)
EXTENDS Naturals

CONSTANTS
    MaxPayloadLen,  \* MAX_TRANSACTION_PAYLOAD_LEN, 3072 in the code
    NoKey,          \* the None of a deriver that fails
    NoReview,       \* the Err of build_review
    Inspect         \* what the decoders and the policy make of each frame

\* Without the comparison of the sender with the derived key.
FrameStatus_Slip(frame, key) ==
    LET seen == Inspect[frame]
    IN  IF ~seen.frame \/ ~seen.transaction THEN "InvalidData"
        ELSE IF seen.payload_len > MaxPayloadLen THEN "ProfileBoundExceeded"
        ELSE IF key = NoKey THEN "InternalFailure"
        ELSE IF seen.review = NoReview THEN "InvalidData"
        ELSE "Success"

\* key is derived from the path of FIRST.
FrameStatus(frame, key) ==
    LET seen == Inspect[frame]
    IN  IF ~seen.frame THEN "InvalidData"
        ELSE IF seen.payload_len > MaxPayloadLen THEN "ProfileBoundExceeded"
        ELSE IF ~seen.transaction THEN "InvalidData"
        ELSE IF key = NoKey THEN "InternalFailure"
        ELSE IF seen.sender # key THEN "InvalidData"
        ELSE IF seen.review = NoReview THEN "InvalidData"
        ELSE "Success"

=============================================================================
