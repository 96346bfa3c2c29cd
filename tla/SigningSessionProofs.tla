------------------------ MODULE SigningSessionProofs ------------------------
(***************************************************************************)
(* Proofs about the signing session, for every value of its constants, and *)
(* the proof that it implements the abstract signer.                       *)
(***************************************************************************)
EXTENDS SigningSession, SequenceTheorems, TLAPS

(***************************************************************************)
(* The inductive invariant.  TypeOK alone is not inductive: the frame that *)
(* is signed is a frame only because Accounting makes it non-empty, and    *)
(* the review handed out is one only because LAST found it to be.          *)
(* IdleHoldsNothing needs NoResidue, because wipe zeroes no more than the  *)
(* bytes in use.                                                           *)
(***************************************************************************)
SessionInv ==
    /\ TypeOK
    /\ NoResidue
    /\ IdleHoldsNothing
    /\ Accounting
    /\ PendingIsReviewed
    /\ FailureEndsSession

Buffer == [1..MaxFrameLen -> Byte]

Status == FailureStatus \cup {"Success"}

-----------------------------------------------------------------------------
(* The buffer. *)

\* Writing a chunk into the buffer (copy_from_slice) leaves it a buffer.
LEMMA WrittenIsBuffer ==
    ASSUME NEW buf \in Buffer, NEW at \in Nat, NEW chunk \in Seq(Byte)
    PROVE  Written(buf, at, chunk) \in Buffer
<1>1. ASSUME NEW i \in 1..MaxFrameLen, i \in (at + 1)..(at + Len(chunk))
      PROVE  chunk[i - at] \in Byte
    <2>1. i - at \in 1..Len(chunk)
        BY <1>1, BoundAssumption
    <2> QED
        BY <2>1
<1> QED
    BY <1>1 DEF Written, Buffer

\* Writing at the end of the bytes in use leaves zeroes behind the new end.
LEMMA WrittenLeavesNoResidue ==
    ASSUME NEW buf \in Buffer, NEW at \in Nat, NEW chunk \in Seq(Byte),
           \A i \in (at + 1)..MaxFrameLen : buf[i] = 0
    PROVE  \A i \in (at + Len(chunk) + 1)..MaxFrameLen :
              Written(buf, at, chunk)[i] = 0
<1> SUFFICES ASSUME NEW i \in (at + Len(chunk) + 1)..MaxFrameLen
             PROVE  Written(buf, at, chunk)[i] = 0
    OBVIOUS
<1>1. Len(chunk) \in Nat
    OBVIOUS
<1>2. i \in 1..MaxFrameLen /\ i \in (at + 1)..MaxFrameLen
    BY <1>1, BoundAssumption
<1>3. i \notin (at + 1)..(at + Len(chunk))
    BY <1>1
<1> QED
    BY <1>2, <1>3 DEF Written, Buffer

\* A wipe of the bytes in use zeroes the whole buffer if there is no residue.
LEMMA ZeroedIsBlank ==
    ASSUME NEW buf \in Buffer, NEW n \in Nat,
           \A i \in (n + 1)..MaxFrameLen : buf[i] = 0
    PROVE  Zeroed(buf, n) = Blank
<1>1. \A i \in 1..MaxFrameLen : i <= n \/ i \in (n + 1)..MaxFrameLen
    BY BoundAssumption
<1> QED
    BY <1>1 DEF Zeroed, Blank, Buffer

\* The buffer of a new session is a buffer of bytes.
LEMMA BlankIsBuffer == Blank \in Buffer
BY ByteAssumption DEF Blank, Buffer

\* A non-empty prefix of the buffer is a frame.
LEMMA PrefixIsFrame ==
    ASSUME NEW buf \in Buffer, NEW n \in 1..MaxFrameLen
    PROVE  Prefix(buf, n) \in Frame
<1>1. 1..n \subseteq 1..MaxFrameLen
    BY BoundAssumption
<1>2. Prefix(buf, n) \in [1..n -> Byte]
    BY <1>1 DEF Prefix, Buffer
<1> QED
    BY <1>2 DEF Frame

-----------------------------------------------------------------------------
(* The status operators. *)

\* Every check of a handler answers with a status word of the core.
LEMMA StatusTypes ==
    ASSUME NEW c \in ApduCommand, NEW key \in Key \cup {NoKey}
    PROVE  /\ NoDataStatus(c) \in Status
           /\ VerifyStatus(c, key) \in Status
           /\ FirstStatus(c) \in Status
           /\ ContinueStatus(c.chunk) \in Status
           /\ LastAppendStatus(c.chunk) \in Status
           /\ LastStatus(c.chunk, key) \in Status
BY DEF NoDataStatus, VerifyStatus, FirstStatus, ContinueStatus, ChunkStatus,
       LastAppendStatus, LastStatus, FrameStatus, AppendStatus, Status, FailureStatus

\* A FIRST that succeeds opens a session within every bound.
LEMMA FirstSucceeds ==
    ASSUME TypeOK, IdleHoldsNothing, NEW c \in ApduCommand,
           FirstStatus(c) = "Success"
    PROVE  /\ state = "Idle"
           /\ c.total \in 1..MaxFrameLen
           /\ PathOf[c.path] \in Path
           /\ Len(c.chunk) > 0
           /\ Len(c.chunk) < c.total
<1>1. /\ c.chunk \in Seq(Byte)
      /\ c.total \in Nat
      /\ c.path \in EncodedPath
    BY DEF ApduCommand
<1>2. /\ state = "Idle"
      /\ c.chunk # <<>>
      /\ c.total # 0
      /\ ~(c.total > MaxFrameLen)
      /\ PathOf[c.path] # NoPath
      /\ c.total # Len(c.chunk)
      /\ ~(received_len + Len(c.chunk) > c.total)
    BY DEF FirstStatus, AppendStatus
<1>3. received_len = 0
    BY <1>2 DEF IdleHoldsNothing
<1>4. Len(c.chunk) \in Nat /\ Len(c.chunk) # 0
    BY <1>1, <1>2
<1> QED
    BY <1>1, <1>2, <1>3, <1>4, PathAssumption, BoundAssumption

\* A CONTINUE that succeeds adds bytes and leaves some missing.
LEMMA ContinueSucceeds ==
    ASSUME TypeOK, NEW chunk \in Seq(Byte), ContinueStatus(chunk) = "Success"
    PROVE  /\ state = "Collecting"
           /\ Len(chunk) > 0
           /\ received_len + Len(chunk) < declared_total
<1>1. /\ state = "Collecting"
      /\ chunk # <<>>
      /\ declared_total - received_len # Len(chunk)
      /\ ~(received_len + Len(chunk) > declared_total)
    BY DEF ContinueStatus, ChunkStatus, AppendStatus
<1>2. Len(chunk) \in Nat /\ Len(chunk) # 0
    BY <1>1
<1> QED
    BY <1>1, <1>2 DEF TypeOK

\* A LAST that gets past its append adds bytes within the declared total.
LEMMA LastAppends ==
    ASSUME TypeOK, Accounting, NEW chunk \in Seq(Byte),
           LastAppendStatus(chunk) = "Success"
    PROVE  /\ state = "Collecting"
           /\ Len(chunk) > 0
           /\ received_len + Len(chunk) <= declared_total
           /\ buffered_len + Len(chunk) \in 1..MaxFrameLen
<1>1. /\ state = "Collecting"
      /\ chunk # <<>>
      /\ ~(received_len + Len(chunk) > declared_total)
    BY DEF LastAppendStatus, ChunkStatus, AppendStatus
<1>2. Len(chunk) \in Nat /\ Len(chunk) # 0
    BY <1>1
<1> QED
    BY <1>1, <1>2, BoundAssumption DEF TypeOK, Accounting

\* What LAST decodes is a frame.
LEMMA CompletedIsFrame ==
    ASSUME TypeOK, Accounting, NEW chunk \in Seq(Byte),
           LastAppendStatus(chunk) = "Success"
    PROVE  CompletedFrame(chunk) \in Frame
<1>1. buffered_len + Len(chunk) \in 1..MaxFrameLen
    BY LastAppends
<1>2. Written(buffer, buffered_len, chunk) \in Buffer
    BY WrittenIsBuffer DEF TypeOK, Buffer
<1> QED
    BY <1>1, <1>2, PrefixIsFrame DEF CompletedFrame

\* A LAST that succeeds completes the total with a frame that is reviewable
\* under the path of FIRST.
LEMMA LastSucceeds ==
    ASSUME TypeOK, Accounting, NEW chunk \in Seq(Byte), path \in Path,
           NEW key \in Derived(path), LastStatus(chunk, key) = "Success"
    PROVE  /\ LastAppendStatus(chunk) = "Success"
           /\ received_len + Len(chunk) = declared_total
           /\ Reviewable(path, CompletedFrame(chunk))
<1> DEFINE seen == Inspect[CompletedFrame(chunk)]
<1>1. /\ LastAppendStatus(chunk) = "Success"
      /\ received_len + Len(chunk) = declared_total
      /\ FrameStatus(CompletedFrame(chunk), key) = "Success"
    BY DEF LastStatus
<1>2. /\ seen.frame
      /\ ~(seen.payload_len > MaxPayloadLen)
      /\ seen.transaction
      /\ key # NoKey
      /\ seen.sender = key
      /\ seen.review # NoReview
    BY <1>1 DEF FrameStatus
<1>3. key = KeyOf[path]
    BY <1>2 DEF Derived
<1>4. seen.payload_len <= MaxPayloadLen
    <2>1. CompletedFrame(chunk) \in Frame
        BY <1>1, CompletedIsFrame
    <2>2. seen.payload_len \in Nat
        BY <2>1, InspectAssumption DEF Inspection
    <2> QED
        BY <1>2, <2>2, BoundAssumption
<1> QED
    BY <1>1, <1>2, <1>3, <1>4 DEF Reviewable

-----------------------------------------------------------------------------
(* The steps. *)

\* A wipe leaves nothing, whatever its caller returns.
LEMMA WipePreserves ==
    ASSUME NEW buf \in Buffer, NEW n \in Nat,
           \A i \in (n + 1)..MaxFrameLen : buf[i] = 0,
           WipeFrom(buf, n), outcome' \in Outcome
    PROVE  SessionInv'
<1>1. /\ state' = "Idle"
      /\ buffer' = Blank
      /\ buffered_len' = 0
      /\ declared_total' = 0
      /\ received_len' = 0
      /\ path' = NoPath
    BY ZeroedIsBlank DEF WipeFrom
<1>2. TypeOK'
    BY <1>1, BlankIsBuffer, BoundAssumption DEF TypeOK, Buffer
<1>3. NoResidue'
    BY <1>1, BoundAssumption DEF NoResidue, Blank
<1> QED
    BY <1>1, <1>2, <1>3 DEF SessionInv, IdleHoldsNothing, Accounting,
       PendingIsReviewed, FailureEndsSession

\* The wipe every error path of apdu.rs calls, on the session as it is.
LEMMA WipeOfSessionPreserves ==
    ASSUME SessionInv, Wipe, outcome' \in Outcome
    PROVE  SessionInv'
<1>1. /\ buffer \in Buffer
      /\ buffered_len \in Nat
      /\ \A i \in (buffered_len + 1)..MaxFrameLen : buffer[i] = 0
    BY DEF SessionInv, TypeOK, NoResidue, Buffer
<1> QED
    BY <1>1, WipePreserves DEF Wipe

\* A failure reply, which dispatch never returns without a wipe.
LEMMA FailPreserves ==
    ASSUME SessionInv, NEW status \in FailureStatus, Fail(status)
    PROVE  SessionInv'
<1>1. outcome' \in Outcome
    BY DEF Fail, Reply, Outcome
<1> QED
    BY <1>1, WipeOfSessionPreserves DEF Fail

\* What an append within the declared total and the buffer leaves.
LEMMA AppendPreserves ==
    ASSUME SessionInv, NEW chunk \in Seq(Byte),
           buffered_len + Len(chunk) \in 1..MaxFrameLen,
           AppendChunk(chunk)
    PROVE  /\ buffer' \in Buffer
           /\ NoResidue'
           /\ buffered_len' = buffered_len + Len(chunk)
           /\ received_len' = buffered_len'
<1>1. /\ buffer \in Buffer
      /\ buffered_len \in Nat
      /\ received_len = buffered_len
      /\ \A i \in (buffered_len + 1)..MaxFrameLen : buffer[i] = 0
    BY DEF SessionInv, TypeOK, NoResidue, Accounting, Buffer
<1>2. buffer' \in Buffer
    BY <1>1, WrittenIsBuffer DEF AppendChunk
<1>3. \A i \in (buffered_len' + 1)..MaxFrameLen : buffer'[i] = 0
    BY <1>1, WrittenLeavesNoResidue DEF AppendChunk
<1> QED
    BY <1>1, <1>2, <1>3 DEF AppendChunk, NoResidue

\* handle_first, whether it opens a sequence or fails.
LEMMA FirstPreserves ==
    ASSUME SessionInv, NEW c \in ApduCommand, HandleFirst(c)
    PROVE  SessionInv'
<1>1. CASE FirstStatus(c) # "Success"
    BY <1>1, StatusTypes, FailPreserves DEF HandleFirst, Status
<1>2. CASE FirstStatus(c) = "Success"
    <2>1. /\ declared_total' = c.total
          /\ path' = PathOf[c.path]
          /\ state' = "Collecting"
          /\ AppendChunk(c.chunk)
          /\ outcome' = Reply("Success", "Empty")
        BY <1>2 DEF HandleFirst
    <2>2. /\ state = "Idle"
          /\ c.total \in 1..MaxFrameLen
          /\ PathOf[c.path] \in Path
          /\ Len(c.chunk) > 0
          /\ Len(c.chunk) < c.total
        BY <1>2, FirstSucceeds DEF SessionInv
    <2>3. c.chunk \in Seq(Byte) /\ Len(c.chunk) \in Nat
        BY DEF ApduCommand
    <2>4. buffered_len = 0
        BY <2>2 DEF SessionInv, IdleHoldsNothing
    <2>5. /\ buffer' \in Buffer
          /\ NoResidue'
          /\ buffered_len' = Len(c.chunk)
          /\ received_len' = Len(c.chunk)
        BY <2>1, <2>2, <2>3, <2>4, AppendPreserves, BoundAssumption
    <2>6. TypeOK'
        <3>1. outcome' \in Outcome
            BY <2>1 DEF Reply, Outcome
        <3> QED
            BY <2>1, <2>2, <2>3, <2>5, <3>1, BoundAssumption DEF TypeOK, Buffer
    <2>7. Accounting'
        BY <2>1, <2>2, <2>3, <2>5, BoundAssumption DEF Accounting
    <2>8. IdleHoldsNothing' /\ PendingIsReviewed'
        BY <2>1, <2>2 DEF IdleHoldsNothing, PendingIsReviewed
    <2>9. FailureEndsSession'
        BY <2>1 DEF FailureEndsSession, Reply, FailureStatus
    <2> QED
        BY <2>5, <2>6, <2>7, <2>8, <2>9 DEF SessionInv
<1> QED
    BY <1>1, <1>2

\* handle_continue, whether it appends its chunk or fails.
LEMMA ContinuePreserves ==
    ASSUME SessionInv, NEW c \in ApduCommand, HandleContinue(c)
    PROVE  SessionInv'
<1>1. CASE ContinueStatus(c.chunk) # "Success"
    <2>1. ContinueStatus(c.chunk) \in FailureStatus
        BY <1>1, StatusTypes DEF Status
    <2> QED
        BY <1>1, <2>1, FailPreserves DEF HandleContinue
<1>2. CASE ContinueStatus(c.chunk) = "Success"
    <2>1. /\ AppendChunk(c.chunk)
          /\ outcome' = Reply("Success", "Empty")
          /\ UNCHANGED <<state, declared_total, path>>
        BY <1>2 DEF HandleContinue
    <2>2. c.chunk \in Seq(Byte) /\ Len(c.chunk) \in Nat
        BY DEF ApduCommand
    <2>3. /\ state = "Collecting"
          /\ Len(c.chunk) > 0
          /\ received_len + Len(c.chunk) < declared_total
        BY <1>2, <2>2, ContinueSucceeds DEF SessionInv
    <2>4. /\ buffered_len = received_len
          /\ buffered_len \in Nat
          /\ declared_total \in 0..MaxFrameLen
          /\ path \in Path
        BY <2>3 DEF SessionInv, Accounting, TypeOK, IdleHoldsNothing
    <2>5. /\ buffer' \in Buffer
          /\ NoResidue'
          /\ buffered_len' = buffered_len + Len(c.chunk)
          /\ received_len' = buffered_len + Len(c.chunk)
        BY <2>1, <2>2, <2>3, <2>4, AppendPreserves, BoundAssumption
    <2>6. TypeOK'
        <3>1. outcome' \in Outcome
            BY <2>1 DEF Reply, Outcome
        <3> QED
            BY <2>1, <2>2, <2>3, <2>4, <2>5, <3>1, BoundAssumption DEF TypeOK, Buffer
    <2>7. Accounting'
        BY <2>1, <2>2, <2>3, <2>4, <2>5, BoundAssumption DEF Accounting
    <2>8. IdleHoldsNothing' /\ PendingIsReviewed'
        BY <2>1, <2>3, <2>4 DEF IdleHoldsNothing, PendingIsReviewed
    <2>9. FailureEndsSession'
        BY <2>1 DEF FailureEndsSession, Reply, FailureStatus
    <2> QED
        BY <2>5, <2>6, <2>7, <2>8, <2>9 DEF SessionInv
<1> QED
    BY <1>1, <1>2

\* The step that puts a frame under review.
LEMMA LastAcceptedPreserves ==
    ASSUME SessionInv, NEW c \in ApduCommand, path \in Path,
           NEW key \in Derived(path), LastStatus(c.chunk, key) = "Success",
           AppendChunk(c.chunk), state' = "AwaitingApproval",
           outcome' = ReviewTransaction(Inspect[CompletedFrame(c.chunk)].review),
           UNCHANGED <<declared_total, path>>
    PROVE  SessionInv'
<1> DEFINE frame == CompletedFrame(c.chunk)
<1>1. c.chunk \in Seq(Byte) /\ Len(c.chunk) \in Nat
    BY DEF ApduCommand
<1>2. TypeOK /\ Accounting
    BY DEF SessionInv
<1>3. /\ LastAppendStatus(c.chunk) = "Success"
      /\ received_len + Len(c.chunk) = declared_total
      /\ Reviewable(path, frame)
    BY <1>1, <1>2, LastSucceeds
<1>4. /\ Len(c.chunk) > 0
      /\ buffered_len + Len(c.chunk) \in 1..MaxFrameLen
    BY <1>1, <1>2, <1>3, LastAppends
<1>5. /\ buffer' \in Buffer
      /\ NoResidue'
      /\ buffered_len' = buffered_len + Len(c.chunk)
      /\ received_len' = buffered_len'
    BY <1>1, <1>4, AppendPreserves
<1>6. PendingFrame' = frame
    BY <1>5 DEF PendingFrame, CompletedFrame, AppendChunk
<1>7. frame \in Frame
    BY <1>1, <1>2, <1>3, CompletedIsFrame
<1>8. outcome' \in Outcome
    <2>1. Inspect[frame].review \in Review \cup {NoReview}
        BY <1>7, InspectAssumption DEF Inspection
    <2>2. Inspect[frame].review \in Review
        BY <1>3, <2>1 DEF Reviewable
    <2> QED
        BY <2>2 DEF ReviewTransaction, Outcome
<1>9. TypeOK'
    BY <1>2, <1>4, <1>5, <1>8, BoundAssumption DEF TypeOK, Buffer
<1>10. Accounting'
    BY <1>1, <1>2, <1>3, <1>4, <1>5, BoundAssumption DEF Accounting, TypeOK
<1>11. PendingIsReviewed'
    BY <1>3, <1>6 DEF PendingIsReviewed, Reviewable
<1>12. IdleHoldsNothing' /\ FailureEndsSession'
    BY DEF IdleHoldsNothing, FailureEndsSession, ReviewTransaction
<1> QED
    BY <1>5, <1>9, <1>10, <1>11, <1>12 DEF SessionInv

\* handle_last, whether it hands out a review, fails before its append or after it.
LEMMA LastPreserves ==
    ASSUME SessionInv, NEW c \in ApduCommand, HandleLast(c)
    PROVE  SessionInv'
<1>1. c.chunk \in Seq(Byte) /\ Len(c.chunk) \in Nat
    BY DEF ApduCommand
<1>2. PICK key \in IF path \in Path THEN Derived(path) ELSE {NoKey} :
          \/ /\ LastStatus(c.chunk, key) = "Success"
             /\ AppendChunk(c.chunk)
             /\ state' = "AwaitingApproval"
             /\ outcome' = ReviewTransaction(Inspect[CompletedFrame(c.chunk)].review)
             /\ UNCHANGED <<declared_total, path>>
          \/ /\ LastStatus(c.chunk, key) # "Success"
             /\ LastAppendStatus(c.chunk) = "Success"
             /\ WipeFrom(Written(buffer, buffered_len, c.chunk),
                         buffered_len + Len(c.chunk))
             /\ outcome' = Reply(LastStatus(c.chunk, key), "Empty")
          \/ /\ LastAppendStatus(c.chunk) # "Success"
             /\ Fail(LastAppendStatus(c.chunk))
    BY DEF HandleLast
<1>3. key \in Key \cup {NoKey}
    BY KeyAssumption DEF Derived
<1>4. CASE LastAppendStatus(c.chunk) # "Success"
    <2>1. LastAppendStatus(c.chunk) \in FailureStatus
        BY <1>3, <1>4, StatusTypes DEF Status
    <2>2. LastStatus(c.chunk, key) # "Success"
        BY <1>4 DEF LastStatus
    <2> QED
        BY <1>2, <1>4, <2>1, <2>2, FailPreserves
<1>5. CASE LastAppendStatus(c.chunk) = "Success"
    <2>1. state = "Collecting" /\ buffered_len + Len(c.chunk) \in 1..MaxFrameLen
        BY <1>1, <1>5, LastAppends DEF SessionInv
    <2>2. path \in Path
        BY <2>1 DEF SessionInv, IdleHoldsNothing
    <2>3. CASE LastStatus(c.chunk, key) = "Success"
        BY <1>2, <1>5, <2>2, <2>3, LastAcceptedPreserves
    <2>4. CASE LastStatus(c.chunk, key) # "Success"
        <3>1. LastStatus(c.chunk, key) \in FailureStatus
            BY <1>3, <2>4, StatusTypes DEF Status
        <3>2. /\ WipeFrom(Written(buffer, buffered_len, c.chunk),
                          buffered_len + Len(c.chunk))
              /\ outcome' = Reply(LastStatus(c.chunk, key), "Empty")
            BY <1>2, <1>5, <2>4
        <3>3. outcome' \in Outcome
            BY <3>1, <3>2 DEF Reply, Outcome
        <3>4. /\ buffer \in Buffer
              /\ buffered_len \in Nat
              /\ \A i \in (buffered_len + 1)..MaxFrameLen : buffer[i] = 0
            BY DEF SessionInv, TypeOK, NoResidue, Buffer
        <3>5. Written(buffer, buffered_len, c.chunk) \in Buffer
            BY <1>1, <3>4, WrittenIsBuffer
        <3>6. \A i \in (buffered_len + Len(c.chunk) + 1)..MaxFrameLen :
                 Written(buffer, buffered_len, c.chunk)[i] = 0
            BY <1>1, <3>4, WrittenLeavesNoResidue
        <3>7. buffered_len + Len(c.chunk) \in Nat
            BY <1>1, <3>4
        <3> QED
            BY <3>2, <3>3, <3>5, <3>6, <3>7, WipePreserves
    <2> QED
        BY <2>3, <2>4
<1> QED
    BY <1>4, <1>5

\* handle_get_configuration, which leaves an idle session as it is.
LEMMA GetConfigurationPreserves ==
    ASSUME SessionInv, NEW c \in ApduCommand, HandleGetConfiguration(c)
    PROVE  SessionInv'
<1>1. CASE NoDataStatus(c) # "Success"
    <2>1. NoDataStatus(c) \in FailureStatus
        BY <1>1, StatusTypes DEF Status
    <2> QED
        BY <1>1, <2>1, FailPreserves DEF HandleGetConfiguration
<1>2. CASE NoDataStatus(c) = "Success"
    <2>1. /\ state = "Idle"
          /\ outcome' = Reply("Success", "Configuration")
          /\ UNCHANGED session
        BY <1>2 DEF HandleGetConfiguration, Admitted, Conflicts
    <2>2. outcome' \in Outcome
        BY <2>1 DEF Reply, Outcome
    <2> QED
        BY <2>1, <2>2 DEF session, SessionInv, TypeOK, NoResidue, IdleHoldsNothing,
           Accounting, PendingIsReviewed, FailureEndsSession, Reply, FailureStatus
<1> QED
    BY <1>1, <1>2

\* handle_verify_public_key, which hands out a key and leaves the session as it is.
LEMMA VerifyPublicKeyPreserves ==
    ASSUME SessionInv, NEW c \in ApduCommand, HandleVerifyPublicKey(c)
    PROVE  SessionInv'
<1> DEFINE p == PathOf[c.path]
<1>1. PICK key \in IF p \in Path THEN Derived(p) ELSE {NoKey} :
          \/ /\ VerifyStatus(c, key) = "Success"
             /\ outcome' = ReviewPublicKey(p, key)
             /\ UNCHANGED session
          \/ /\ VerifyStatus(c, key) # "Success"
             /\ Fail(VerifyStatus(c, key))
    BY DEF HandleVerifyPublicKey
<1>2. key \in Key \cup {NoKey}
    BY KeyAssumption DEF Derived
<1>3. CASE VerifyStatus(c, key) # "Success"
    <2>1. VerifyStatus(c, key) \in FailureStatus
        BY <1>2, <1>3, StatusTypes DEF Status
    <2> QED
        BY <1>1, <1>3, <2>1, FailPreserves
<1>4. CASE VerifyStatus(c, key) = "Success"
    <2>1. state = "Idle"
        BY DEF HandleVerifyPublicKey, Admitted, Conflicts
    <2>2. p # NoPath /\ key # NoKey
        BY <1>4 DEF VerifyStatus
    <2>3. c.path \in EncodedPath
        BY DEF ApduCommand
    <2>4. p \in Path /\ key \in Key
        BY <1>2, <2>2, <2>3, PathAssumption
    <2>5. outcome' = ReviewPublicKey(p, key) /\ UNCHANGED session
        BY <1>1, <1>4
    <2>6. outcome' \in Outcome
        BY <2>4, <2>5 DEF ReviewPublicKey, Outcome
    <2> QED
        BY <2>1, <2>5, <2>6 DEF session, SessionInv, TypeOK, NoResidue,
           IdleHoldsNothing, Accounting, PendingIsReviewed, FailureEndsSession,
           ReviewPublicKey
<1> QED
    BY <1>3, <1>4

\* handle_reset_signing, which wipes even where it fails.
LEMMA ResetSigningPreserves ==
    ASSUME SessionInv, NEW c \in ApduCommand, HandleResetSigning(c)
    PROVE  SessionInv'
<1>1. CASE NoDataStatus(c) # "Success"
    <2>1. NoDataStatus(c) \in FailureStatus
        BY <1>1, StatusTypes DEF Status
    <2> QED
        BY <1>1, <2>1, FailPreserves DEF HandleResetSigning
<1>2. CASE NoDataStatus(c) = "Success"
    <2>1. Wipe /\ outcome' = Reply("Success", "Empty")
        BY <1>2 DEF HandleResetSigning
    <2>2. outcome' \in Outcome
        BY <2>1 DEF Reply, Outcome
    <2> QED
        BY <2>1, <2>2, WipeOfSessionPreserves
<1> QED
    BY <1>1, <1>2

\* What pending_frame returns while approval is pending is a frame of bytes.
LEMMA PendingFrameIsFrame ==
    ASSUME SessionInv, state = "AwaitingApproval"
    PROVE  PendingFrame \in Frame
<1>1. buffer \in Buffer /\ buffered_len \in 1..MaxFrameLen
    BY BoundAssumption DEF SessionInv, TypeOK, Accounting, Buffer
<1> QED
    BY <1>1, PrefixIsFrame DEF PendingFrame

\* approve_and_sign, whether it signs, the signer fails or nothing is pending.
LEMMA ApproveAndSignPreserves ==
    ASSUME SessionInv, ApproveAndSign
    PROVE  SessionInv'
<1>1. CASE SignPending
    <2>1. state = "AwaitingApproval" /\ Wipe
        BY <1>1 DEF SignPending
    <2>2. path \in Path /\ PendingFrame \in Frame
        BY <2>1, PendingFrameIsFrame DEF SessionInv, IdleHoldsNothing
    <2>3. outcome' \in Outcome
        BY <1>1, <2>2 DEF SignPending, Signature, Reply, Outcome, FailureStatus
    <2> QED
        BY <2>1, <2>3, WipeOfSessionPreserves
<1>2. CASE RefuseToSign
    BY <1>2, FailPreserves DEF RefuseToSign, FailureStatus
<1> QED
    BY <1>1, <1>2 DEF ApproveAndSign

\* dispatch, through whichever check or handler the command goes.
LEMMA DispatchPreserves ==
    ASSUME SessionInv, NEW c \in Command, Dispatch(c)
    PROVE  SessionInv'
<1>1. c \in ApduCommand
    BY CommandAssumption
<1>2. CASE RefuseCla(c)
    BY <1>2, FailPreserves DEF RefuseCla, FailureStatus
<1>3. CASE RefuseConflict(c)
    BY <1>3, FailPreserves DEF RefuseConflict, FailureStatus
<1>4. CASE RefuseIns(c)
    BY <1>4, FailPreserves DEF RefuseIns, FailureStatus
<1>5. CASE HandleGetConfiguration(c)
    BY <1>1, <1>5, GetConfigurationPreserves
<1>6. CASE HandleResetSigning(c)
    BY <1>1, <1>6, ResetSigningPreserves
<1>7. CASE HandleVerifyPublicKey(c)
    BY <1>1, <1>7, VerifyPublicKeyPreserves
<1>8. CASE RefuseSignParameters(c)
    BY <1>8, FailPreserves DEF RefuseSignParameters, FailureStatus
<1>9. CASE HandleFirst(c)
    BY <1>1, <1>9, FirstPreserves
<1>10. CASE HandleContinue(c)
    BY <1>1, <1>10, ContinuePreserves
<1>11. CASE HandleLast(c)
    BY <1>1, <1>11, LastPreserves
<1> QED
    BY <1>2, <1>3, <1>4, <1>5, <1>6, <1>7, <1>8, <1>9, <1>10, <1>11 DEF Dispatch

\* SigningSession::new establishes the invariant.
LEMMA InitEstablishes == Init => SessionInv
<1> SUFFICES ASSUME Init
             PROVE  SessionInv
    OBVIOUS
<1>1. TypeOK
    BY BlankIsBuffer, BoundAssumption DEF Init, TypeOK, Buffer, Outcome
<1>2. NoResidue
    BY BoundAssumption DEF Init, NoResidue, Blank
<1>3. FailureEndsSession
    BY DEF Init, FailureEndsSession
<1> QED
    BY <1>1, <1>2, <1>3 DEF Init, SessionInv, IdleHoldsNothing, Accounting,
       PendingIsReviewed

\* Every call on the session preserves the invariant.
LEMMA NextPreserves == SessionInv /\ [Next]_vars => SessionInv'
<1> SUFFICES ASSUME SessionInv, [Next]_vars
             PROVE  SessionInv'
    OBVIOUS
<1>1. ASSUME NEW c \in Command, Dispatch(c)
      PROVE  SessionInv'
    BY <1>1, DispatchPreserves
<1>2. CASE ApproveAndSign
    BY <1>2, ApproveAndSignPreserves
<1>3. ASSUME Wipe, outcome' = Nothing
      PROVE  SessionInv'
    BY <1>3, WipeOfSessionPreserves DEF Outcome
<1>4. CASE RejectReview \/ Reset
    BY <1>3, <1>4 DEF RejectReview, Reset
<1>5. CASE UNCHANGED vars
    BY <1>5 DEF vars, SessionInv, TypeOK, NoResidue, IdleHoldsNothing, Accounting,
       PendingIsReviewed, PendingFrame, Prefix, FailureEndsSession
<1> QED
    BY <1>1, <1>2, <1>4, <1>5 DEF Next

-----------------------------------------------------------------------------
(* The theorems. *)

\* Every call on the session preserves the whole invariant.
THEOREM SessionInvariant == Spec => []SessionInv
<1>1. Init => SessionInv
    BY InitEstablishes
<1>2. SessionInv /\ [Next]_vars => SessionInv'
    BY NextPreserves
<1> QED
    BY <1>1, <1>2, PTL DEF Spec

\* The session's variables keep their types, and its lengths the bound of the
\* buffer.
THEOREM TypeCorrect == Spec => []TypeOK
<1>1. SessionInv => TypeOK
    BY DEF SessionInv
<1> QED
    BY <1>1, SessionInvariant, PTL

\* No byte of an earlier frame survives a wipe.
THEOREM WipedClean == Spec => []NoResidue
<1>1. SessionInv => NoResidue
    BY DEF SessionInv
<1> QED
    BY <1>1, SessionInvariant, PTL

\* After a wipe, and only then, the session holds nothing.
THEOREM IdleIsEmpty == Spec => []IdleHoldsNothing
<1>1. SessionInv => IdleHoldsNothing
    BY DEF SessionInv
<1> QED
    BY <1>1, SessionInvariant, PTL

\* The length counters agree, and only LAST completes the declared total.
THEOREM Accounted == Spec => []Accounting
<1>1. SessionInv => Accounting
    BY DEF SessionInv
<1> QED
    BY <1>1, SessionInvariant, PTL

\* What waits for approval passed every check under its path, and the review
\* handed out is its own.
THEOREM OnlyReviewedPends == Spec => []PendingIsReviewed
<1>1. SessionInv => PendingIsReviewed
    BY DEF SessionInv
<1> QED
    BY <1>1, SessionInvariant, PTL

\* A failure reply leaves an idle session.
THEOREM FailureIsFinal == Spec => []FailureEndsSession
<1>1. SessionInv => FailureEndsSession
    BY DEF SessionInv
<1> QED
    BY <1>1, SessionInvariant, PTL

\* The InternalFailure branches of append_chunk and handle_continue cannot be
\* reached by any command.
THEOREM DefenceIsDead == Spec => []DefensiveBranchesDead
<1>1. ASSUME SessionInv, NEW c \in Command
      PROVE  AppendStatus(declared_total, c.chunk) # "InternalFailure"
    <2>1. Len(c.chunk) \in Nat
        BY CommandAssumption DEF ApduCommand
    <2>2. /\ buffered_len = received_len
          /\ received_len \in Nat
          /\ declared_total \in 0..MaxFrameLen
        BY <1>1 DEF SessionInv, TypeOK, Accounting
    <2> QED
        BY <2>1, <2>2, BoundAssumption DEF AppendStatus
<1>2. SessionInv => DefensiveBranchesDead
    BY <1>1 DEF DefensiveBranchesDead, SessionInv, Accounting
<1> QED
    BY <1>2, SessionInvariant, PTL

-----------------------------------------------------------------------------
(* What a step may do. *)

\* A call either ends the session, opens one that was idle, or extends it in
\* place.
StepKinds ==
    \/ state' = "Idle"
    \/ state = "Idle"
    \/ /\ state = "Collecting"
       /\ UNCHANGED <<path, declared_total>>
       /\ \E chunk \in Seq(Byte) :
             Len(chunk) > 0 /\ AppendChunk(chunk)

\* dispatch wipes the session, starts from an idle one, or appends one chunk to it.
LEMMA DispatchKinds ==
    ASSUME SessionInv, NEW c \in Command, Dispatch(c)
    PROVE  StepKinds
<1>1. c \in ApduCommand /\ c.chunk \in Seq(Byte)
    BY CommandAssumption DEF ApduCommand
<1>2. ASSUME NEW status, Fail(status)
      PROVE  state' = "Idle"
    BY <1>2 DEF Fail, Wipe, WipeFrom
<1>3. CASE RefuseCla(c) \/ RefuseConflict(c) \/ RefuseIns(c) \/ RefuseSignParameters(c)
    BY <1>2, <1>3 DEF RefuseCla, RefuseConflict, RefuseIns, RefuseSignParameters,
       StepKinds
<1>4. CASE HandleGetConfiguration(c) \/ HandleVerifyPublicKey(c)
    BY <1>4 DEF HandleGetConfiguration, HandleVerifyPublicKey, Admitted, Conflicts,
       StepKinds
<1>5. CASE HandleResetSigning(c)
    BY <1>2, <1>5 DEF HandleResetSigning, Wipe, WipeFrom, StepKinds
<1>6. CASE HandleFirst(c)
    <2>1. CASE FirstStatus(c) = "Success"
        BY <1>1, <2>1, FirstSucceeds DEF SessionInv, StepKinds
    <2>2. CASE FirstStatus(c) # "Success"
        BY <1>2, <1>6, <2>2 DEF HandleFirst, StepKinds
    <2> QED
        BY <2>1, <2>2
<1>7. CASE HandleContinue(c)
    <2>1. CASE ContinueStatus(c.chunk) = "Success"
        <3>1. state = "Collecting" /\ Len(c.chunk) > 0
            BY <1>1, <2>1, ContinueSucceeds DEF SessionInv
        <3>2. AppendChunk(c.chunk) /\ UNCHANGED <<path, declared_total>>
            BY <1>7, <2>1 DEF HandleContinue
        <3> QED
            BY <1>1, <3>1, <3>2 DEF StepKinds
    <2>2. CASE ContinueStatus(c.chunk) # "Success"
        BY <1>2, <1>7, <2>2 DEF HandleContinue, StepKinds
    <2> QED
        BY <2>1, <2>2
<1>8. CASE HandleLast(c)
    <2>1. CASE LastAppendStatus(c.chunk) = "Success"
        <3>1. state = "Collecting" /\ Len(c.chunk) > 0
            BY <1>1, <2>1, LastAppends DEF SessionInv
        <3>2. \/ AppendChunk(c.chunk) /\ UNCHANGED <<path, declared_total>>
              \/ state' = "Idle"
            BY <1>8, <2>1 DEF HandleLast, WipeFrom
        <3> QED
            BY <1>1, <3>1, <3>2 DEF StepKinds
    <2>2. CASE LastAppendStatus(c.chunk) # "Success"
        <3>1. \A key : LastStatus(c.chunk, key) # "Success"
            BY <2>2 DEF LastStatus
        <3>2. Fail(LastAppendStatus(c.chunk))
            BY <1>8, <2>2, <3>1 DEF HandleLast
        <3> QED
            BY <1>2, <3>2 DEF StepKinds
    <2> QED
        BY <2>1, <2>2
<1> QED
    BY <1>3, <1>4, <1>5, <1>6, <1>7, <1>8 DEF Dispatch

\* So does every call, those of the adapter included.
LEMMA NextKinds ==
    ASSUME SessionInv, Next
    PROVE  StepKinds
<1>1. CASE ApproveAndSign \/ RejectReview \/ Reset
    BY <1>1 DEF ApproveAndSign, SignPending, RefuseToSign, RejectReview, Reset, Fail,
       Wipe, WipeFrom, StepKinds
<1> QED
    BY <1>1, DispatchKinds DEF Next

\* Bytes that were accepted are never altered while their session lives, nor are
\* its path and total.
THEOREM BytesStand == Spec => AcceptedBytesStand
<1> DEFINE Stand ==
        state # "Idle" /\ state' # "Idle" =>
          /\ path' = path
          /\ declared_total' = declared_total
          /\ buffered_len < buffered_len'
          /\ Prefix(buffer', buffered_len) = PendingFrame
<1>1. SessionInv /\ [Next]_vars => [Stand]_vars
    <2> SUFFICES ASSUME SessionInv, Next, state # "Idle", state' # "Idle"
                 PROVE  Stand
        OBVIOUS
    <2>1. PICK chunk \in Seq(Byte) : Len(chunk) > 0 /\ AppendChunk(chunk)
        BY NextKinds DEF StepKinds
    <2>2. path' = path /\ declared_total' = declared_total
        BY NextKinds DEF StepKinds
    <2>3. /\ buffer \in Buffer
          /\ buffered_len \in 0..MaxFrameLen
          /\ Len(chunk) \in Nat
        BY DEF SessionInv, TypeOK, Buffer
    <2>4. buffered_len < buffered_len'
        BY <2>1, <2>3, BoundAssumption DEF AppendChunk
    <2>5. ASSUME NEW i \in 1..buffered_len
          PROVE  buffer'[i] = buffer[i]
        <3>1. i \in 1..MaxFrameLen /\ i \notin (buffered_len + 1)..(buffered_len + Len(chunk))
            BY <2>3, BoundAssumption
        <3> QED
            BY <2>1, <2>3, <3>1 DEF AppendChunk, Written, Buffer
    <2>6. Prefix(buffer', buffered_len) = PendingFrame
        BY <2>5 DEF Prefix, PendingFrame
    <2> QED
        BY <2>2, <2>4, <2>6
<1> QED
    BY <1>1, SessionInvariant, PTL DEF Spec, AcceptedBytesStand

\* Of all calls only approve_and_sign, with a frame pending, returns a signature.
LEMMA SignatureIsSignPending ==
    ASSUME SessionInv, Next, NEW p, NEW frame, outcome' = Signature(p, frame)
    PROVE  SignPending
<1>1. ASSUME NEW status, Fail(status)
      PROVE  FALSE
    BY <1>1 DEF Fail, Reply, Signature
<1>2. ASSUME NEW c \in Command, Dispatch(c)
      PROVE  FALSE
    BY <1>1, <1>2 DEF Dispatch, RefuseCla, RefuseConflict, RefuseIns,
       RefuseSignParameters, HandleGetConfiguration, HandleResetSigning,
       HandleVerifyPublicKey, HandleFirst, HandleContinue, HandleLast, Reply,
       ReviewPublicKey, ReviewTransaction, Signature
<1>3. ~(RejectReview \/ Reset \/ RefuseToSign)
    BY <1>1 DEF RejectReview, Reset, RefuseToSign, Nothing, Signature
<1> QED
    BY <1>2, <1>3 DEF Next, ApproveAndSign

\* approve_and_sign signs the very frame whose review the call before it handed out,
\* under the path whose key is its sender, and wipes it.
THEOREM OnlyReviewedIsSigned == Spec => SignsOnlyWhatWasReviewed
<1> DEFINE Signed ==
        \A p \in Path, frame \in Frame :
          outcome' = Signature(p, frame) =>
            /\ outcome = ReviewTransaction(Inspect[frame].review)
            /\ Reviewable(p, frame)
            /\ state' = "Idle"
<1>1. SessionInv /\ [Next]_vars => [Signed]_vars
    <2> SUFFICES ASSUME SessionInv, Next, NEW p \in Path, NEW frame \in Frame,
                        outcome' = Signature(p, frame)
                 PROVE  /\ outcome = ReviewTransaction(Inspect[frame].review)
                        /\ Reviewable(p, frame)
                        /\ state' = "Idle"
        OBVIOUS
    <2>1. SignPending
        BY SignatureIsSignPending
    <2>2. p = path /\ frame = PendingFrame
        BY <2>1 DEF SignPending, Signature, Reply
    <2>3. PendingIsReviewed /\ state = "AwaitingApproval"
        BY <2>1 DEF SessionInv, SignPending
    <2> QED
        BY <2>1, <2>2, <2>3 DEF PendingIsReviewed, SignPending, Wipe, WipeFrom
<1> QED
    BY <1>1, SessionInvariant, PTL DEF Spec, SignsOnlyWhatWasReviewed

-----------------------------------------------------------------------------
(***************************************************************************)
(* The session implements the abstract signer: the buffer and its counters *)
(* are an offer, and every call on the session is one step of ClearSigner  *)
(* or none.                                                                *)
(***************************************************************************)

\* The bytes of a session after an append are the bytes before it and the chunk.
LEMMA AppendExtendsPrefix ==
    ASSUME NEW buf \in Buffer, NEW n \in 0..MaxFrameLen, NEW chunk \in Seq(Byte),
           n + Len(chunk) <= MaxFrameLen
    PROVE  Prefix(Written(buf, n, chunk), n + Len(chunk)) = Prefix(buf, n) \o chunk
<1> DEFINE new == Prefix(Written(buf, n, chunk), n + Len(chunk))
           old == Prefix(buf, n)
<1>1. Len(chunk) \in Nat /\ n \in Nat
    OBVIOUS
<1>2. old \in Seq(Byte) /\ Len(old) = n
    <2>1. old \in [1..n -> Byte]
        BY BoundAssumption DEF Prefix, Buffer
    <2> QED
        BY <1>1, <2>1
<1>3. new \in Seq(Byte) /\ Len(new) = n + Len(chunk)
    <2>1. Written(buf, n, chunk) \in Buffer
        BY <1>1, WrittenIsBuffer
    <2>2. new \in [1..(n + Len(chunk)) -> Byte]
        BY <1>1, <2>1, BoundAssumption DEF Prefix, Buffer
    <2> QED
        BY <1>1, <2>2
<1> HIDE DEF new, old
<1>4. /\ old \o chunk \in Seq(Byte)
      /\ Len(old \o chunk) = n + Len(chunk)
      /\ \A i \in 1..(n + Len(chunk)) :
            (old \o chunk)[i] = IF i <= n THEN old[i] ELSE chunk[i - n]
    BY <1>2, ConcatProperties
<1>5. ASSUME NEW i \in 1..(n + Len(chunk))
      PROVE  new[i] = (old \o chunk)[i]
    <2>1. i \in 1..MaxFrameLen
        BY <1>1, BoundAssumption
    <2>2. Written(buf, n, chunk)[i] = IF i \in (n + 1)..(n + Len(chunk)) THEN chunk[i - n] ELSE buf[i]
        BY <2>1 DEF Written, Buffer
    <2>3. i <= n => old[i] = buf[i]
        BY <1>1 DEF old, Prefix
    <2>4. new[i] = Written(buf, n, chunk)[i]
        BY DEF new, Prefix
    <2> QED
        BY <1>1, <1>4, <2>2, <2>3, <2>4
<1>6. \A s, t \in Seq(Byte) :
        Len(s) = Len(t) /\ (\A i \in 1..Len(s) : s[i] = t[i]) => s = t
    BY SeqEqual
<1>7. new = old \o chunk
    BY <1>3, <1>4, <1>5, <1>6
<1> QED
    BY <1>7 DEF new, old

-----------------------------------------------------------------------------
(* The steps. *)

Offer == [path |-> path, total |-> declared_total, bytes |-> PendingFrame]

Released ==
    IF outcome.kind = "Signature"
    THEN [path |-> outcome.path, frame |-> outcome.frame]
    ELSE [path |-> NoPath, frame |-> <<>>]

NothingOffered == [path |-> NoPath, total |-> 0, bytes |-> <<>>]

\* A session that was wiped, or is new, is no offer.
LEMMA IdleIsNoOffer ==
    ASSUME SessionInv, state = "Idle"
    PROVE  Offer = NothingOffered
<1>1. path = NoPath /\ declared_total = 0 /\ buffered_len = 0
    BY DEF SessionInv, IdleHoldsNothing
<1>2. PendingFrame = <<>>
    BY <1>1 DEF PendingFrame, Prefix
<1> QED
    BY <1>1, <1>2 DEF Offer, NothingOffered

\* A session of FIRST is an offer of at least one byte.
LEMMA LiveIsOffer ==
    ASSUME SessionInv, state # "Idle"
    PROVE  /\ Offer # NothingOffered
           /\ Len(PendingFrame) = buffered_len
           /\ buffered_len \in 1..MaxFrameLen
           /\ PendingFrame \in Frame
<1>1. path \in Path
    BY DEF SessionInv, IdleHoldsNothing
<1>2. buffer \in Buffer /\ buffered_len \in 1..MaxFrameLen
    BY BoundAssumption DEF SessionInv, TypeOK, Accounting, Buffer
<1>3. PendingFrame \in [1..buffered_len -> Byte]
    BY <1>2, BoundAssumption DEF PendingFrame, Prefix, Buffer
<1>4. Len(PendingFrame) = buffered_len
    BY <1>2, <1>3
<1>5. Offer # NothingOffered
    BY <1>1, PathAssumption DEF Offer, NothingOffered
<1> QED
    BY <1>2, <1>4, <1>5, PrefixIsFrame DEF PendingFrame

\* A call that wipes and signs nothing abandons the offer.
LEMMA AbandonStep ==
    ASSUME SessionInv', state' = "Idle", outcome'.kind # "Signature"
    PROVE  ImplementedSigner!Abandon
<1>1. path' = NoPath /\ declared_total' = 0 /\ buffered_len' = 0
    BY DEF SessionInv, IdleHoldsNothing
<1>2. PendingFrame' = <<>>
    BY <1>1 DEF PendingFrame, Prefix
<1> QED
    BY <1>1, <1>2 DEF ImplementedSigner!Abandon, ImplementedSigner!NoOffer,
       ImplementedSigner!NoSignature

\* Neither a reply of the core nor a review is a signature.
LEMMA ReplyIsNoSignature ==
    ASSUME NEW o, NEW status, NEW response,
           \/ o = Reply(status, response)
           \/ \E review : o = ReviewTransaction(review)
    PROVE  o.kind # "Signature"
BY DEF Reply, ReviewTransaction

\* What an append leaves of an offer.
LEMMA AppendGrows ==
    ASSUME SessionInv, NEW chunk \in Seq(Byte), Len(chunk) > 0,
           buffered_len + Len(chunk) \in 1..MaxFrameLen, AppendChunk(chunk)
    PROVE  /\ PendingFrame' = PendingFrame \o chunk
           /\ chunk \in ImplementedSigner!Bytes
<1>1. buffer \in Buffer /\ buffered_len \in 0..MaxFrameLen
    BY DEF SessionInv, TypeOK, Buffer
<1>2. buffered_len + Len(chunk) <= MaxFrameLen /\ Len(chunk) \in 1..MaxFrameLen
    BY <1>1, BoundAssumption
<1>3. PendingFrame' = Prefix(Written(buffer, buffered_len, chunk), buffered_len + Len(chunk))
    BY DEF PendingFrame, AppendChunk
<1>4. PendingFrame' = PendingFrame \o chunk
    BY <1>1, <1>2, <1>3, AppendExtendsPrefix DEF PendingFrame
<1>5. chunk \in [1..Len(chunk) -> Byte]
    OBVIOUS
<1> QED
    BY <1>2, <1>4, <1>5 DEF ImplementedSigner!Bytes

\* An offer with the bytes of a chunk behind its own.
LEMMA ExtendedOffer ==
    ASSUME NEW chunk
    PROVE  [Offer EXCEPT !.bytes = @ \o chunk]
             = [path |-> path, total |-> declared_total, bytes |-> PendingFrame \o chunk]
<1> DEFINE bytes == PendingFrame \o chunk
<1>1. Offer.bytes \o chunk = bytes
    BY DEF Offer
<1> HIDE DEF bytes
<1>2. [Offer EXCEPT !.bytes = bytes]
        = [path |-> path, total |-> declared_total, bytes |-> bytes]
    BY DEF Offer
<1> QED
    BY <1>1, <1>2 DEF bytes

\* handle_first opens an offer with the path, the total and the chunk it was sent.
LEMMA FirstOpens ==
    ASSUME SessionInv, SessionInv', NEW c \in ApduCommand, HandleFirst(c),
           FirstStatus(c) = "Success"
    PROVE  ImplementedSigner!Open
<1>1. /\ declared_total' = c.total
      /\ path' = PathOf[c.path]
      /\ AppendChunk(c.chunk)
      /\ outcome' = Reply("Success", "Empty")
    BY DEF HandleFirst
<1>2. /\ state = "Idle"
      /\ c.total \in 1..MaxFrameLen
      /\ PathOf[c.path] \in Path
      /\ Len(c.chunk) > 0
      /\ Len(c.chunk) < c.total
    BY FirstSucceeds DEF SessionInv
<1>3. c.chunk \in Seq(Byte) /\ Len(c.chunk) \in Nat
    BY DEF ApduCommand
<1>4. buffered_len = 0
    BY <1>2 DEF SessionInv, IdleHoldsNothing
<1>5. /\ PendingFrame' = PendingFrame \o c.chunk
      /\ c.chunk \in ImplementedSigner!Bytes
    <2>1. buffered_len + Len(c.chunk) \in 1..MaxFrameLen
        BY <1>2, <1>3, <1>4, BoundAssumption
    <2> QED
        BY <1>1, <1>2, <1>3, <2>1, AppendGrows
<1>6. PendingFrame = <<>>
    BY <1>4 DEF PendingFrame, Prefix
<1>7. PendingFrame' = c.chunk
    BY <1>3, <1>5, <1>6
<1>8. Offer = NothingOffered
    BY <1>2, IdleIsNoOffer
<1>9. outcome'.kind # "Signature"
    BY <1>1, ReplyIsNoSignature
<1>10. state' # "AwaitingApproval"
    BY DEF HandleFirst
<1>11. \E p \in Path, total \in 1..MaxFrameLen, bytes \in ImplementedSigner!Bytes :
          /\ Len(bytes) < total
          /\ [path |-> path', total |-> declared_total', bytes |-> PendingFrame']
                = [path |-> p, total |-> total, bytes |-> bytes]
    BY <1>1, <1>2, <1>5, <1>7
<1> QED
    BY <1>8, <1>9, <1>10, <1>11 DEF ImplementedSigner!Open, ImplementedSigner!NoOffer,
       ImplementedSigner!NoSignature, Offer, NothingOffered

\* handle_continue extends the offer by its chunk and leaves a part of the total open.
LEMMA ContinueExtends ==
    ASSUME SessionInv, SessionInv', NEW c \in ApduCommand, HandleContinue(c),
           ContinueStatus(c.chunk) = "Success"
    PROVE  ImplementedSigner!Extend
<1>1. /\ AppendChunk(c.chunk)
      /\ outcome' = Reply("Success", "Empty")
      /\ UNCHANGED <<state, declared_total, path>>
    BY DEF HandleContinue
<1>2. c.chunk \in Seq(Byte) /\ Len(c.chunk) \in Nat
    BY DEF ApduCommand
<1>3. /\ state = "Collecting"
      /\ Len(c.chunk) > 0
      /\ received_len + Len(c.chunk) < declared_total
    BY <1>2, ContinueSucceeds DEF SessionInv
<1>4. /\ Len(PendingFrame) = buffered_len
      /\ Offer # NothingOffered
    BY <1>3, LiveIsOffer
<1>5. /\ buffered_len = received_len
      /\ buffered_len \in Nat
      /\ declared_total \in 0..MaxFrameLen
    BY DEF SessionInv, Accounting, TypeOK
<1>6. /\ PendingFrame' = PendingFrame \o c.chunk
      /\ c.chunk \in ImplementedSigner!Bytes
    BY <1>1, <1>2, <1>3, <1>5, AppendGrows, BoundAssumption
<1>7. Len(PendingFrame) + Len(c.chunk) < declared_total
    BY <1>3, <1>4, <1>5
<1>8. outcome'.kind # "Signature"
    BY <1>1, ReplyIsNoSignature
<1>9. [path |-> path', total |-> declared_total', bytes |-> PendingFrame']
        = [Offer EXCEPT !.bytes = @ \o c.chunk]
    BY <1>1, <1>6, ExtendedOffer
<1> QED
    BY <1>1, <1>3, <1>4, <1>6, <1>7, <1>8, <1>9 DEF ImplementedSigner!Extend,
       ImplementedSigner!NoOffer, ImplementedSigner!NoSignature, Offer, NothingOffered

\* handle_last submits the whole offer, and only one whose frame passed every check.
LEMMA LastSubmits ==
    ASSUME SessionInv, SessionInv', NEW c \in ApduCommand, HandleLast(c),
           state' # "Idle"
    PROVE  ImplementedSigner!Submit
<1>1. PICK key \in IF path \in Path THEN Derived(path) ELSE {NoKey} :
          /\ LastStatus(c.chunk, key) = "Success"
          /\ AppendChunk(c.chunk)
          /\ state' = "AwaitingApproval"
          /\ outcome' = ReviewTransaction(Inspect[CompletedFrame(c.chunk)].review)
          /\ UNCHANGED <<declared_total, path>>
    BY DEF HandleLast, Fail, Wipe, WipeFrom
<1>2. c.chunk \in Seq(Byte) /\ Len(c.chunk) \in Nat
    BY DEF ApduCommand
<1>3. TypeOK /\ Accounting
    BY DEF SessionInv
<1>4. LastAppendStatus(c.chunk) = "Success"
    BY <1>1 DEF LastStatus
<1>5. /\ state = "Collecting"
      /\ Len(c.chunk) > 0
      /\ buffered_len + Len(c.chunk) \in 1..MaxFrameLen
    BY <1>2, <1>3, <1>4, LastAppends
<1>6. path \in Path
    BY <1>5 DEF SessionInv, IdleHoldsNothing
<1>7. received_len + Len(c.chunk) = declared_total
    BY <1>1, <1>2, <1>3, <1>6, LastSucceeds
<1>8. /\ Len(PendingFrame) = buffered_len
      /\ Offer # NothingOffered
    BY <1>5, LiveIsOffer
<1>9. /\ PendingFrame' = PendingFrame \o c.chunk
      /\ c.chunk \in ImplementedSigner!Bytes
    BY <1>1, <1>2, <1>5, AppendGrows
<1>10. /\ Reviewable(path, PendingFrame')
       /\ PendingFrame' \in Frame
    <2>1. Reviewable(path', PendingFrame')
        BY <1>1 DEF SessionInv, PendingIsReviewed, Reviewable
    <2>2. PendingFrame' \in Frame
        BY <1>1, LiveIsOffer, PrefixIsFrame, BoundAssumption
           DEF SessionInv, TypeOK, Accounting, PendingFrame, Buffer
    <2> QED
        BY <1>1, <2>1, <2>2
<1>11. <<path, PendingFrame \o c.chunk>> \in {pf \in Path \X Frame : Reviewable(pf[1], pf[2])}
    <2>1. <<path, PendingFrame \o c.chunk>> \in Path \X Frame
        BY <1>6, <1>9, <1>10
    <2> QED
        BY <1>9, <1>10, <2>1
<1>12. Len(PendingFrame) + Len(c.chunk) = declared_total
    BY <1>3, <1>7, <1>8 DEF Accounting
<1>13. outcome'.kind # "Signature"
    BY <1>1, ReplyIsNoSignature
<1>14. [path |-> path', total |-> declared_total', bytes |-> PendingFrame']
         = [Offer EXCEPT !.bytes = @ \o c.chunk]
    BY <1>1, <1>9, ExtendedOffer
<1> QED
    BY <1>1, <1>5, <1>8, <1>9, <1>11, <1>12, <1>13, <1>14 DEF ImplementedSigner!Submit,
       ImplementedSigner!NoOffer, ImplementedSigner!NoSignature, Offer, NothingOffered

\* approve_and_sign releases a signature over the offer that was reviewed.
LEMMA SigningSigns ==
    ASSUME SessionInv, SessionInv', SignPending, outcome'.kind = "Signature"
    PROVE  ImplementedSigner!Sign
<1>1. state = "AwaitingApproval" /\ state' = "Idle"
    BY DEF SignPending, Wipe, WipeFrom
<1>2. outcome' = Signature(path, PendingFrame)
    BY DEF SignPending, Reply
<1>3. Offer' = NothingOffered
    BY <1>1 DEF Offer, NothingOffered, SessionInv, IdleHoldsNothing, PendingFrame, Prefix
<1> QED
    BY <1>1, <1>2, <1>3 DEF ImplementedSigner!Sign, ImplementedSigner!NoOffer,
       Signature, Offer, NothingOffered

\* A step that leaves a live session behind is FIRST, CONTINUE or LAST accepting
\* its chunk, or changes nothing.
LEMMA LiveStep ==
    ASSUME SessionInv, SessionInv', Next, state' # "Idle"
    PROVE  ImplementedSigner!Next
<1>1. PICK c \in Command : Dispatch(c)
    BY DEF Next, ApproveAndSign, SignPending, RefuseToSign, RejectReview, Reset, Fail,
       Wipe, WipeFrom
<1>2. c \in ApduCommand
    BY CommandAssumption
<1>3. ASSUME NEW status, Fail(status)
      PROVE  FALSE
    BY <1>3 DEF Fail, Wipe, WipeFrom
<1>4. HandleFirst(c) \/ HandleContinue(c) \/ HandleLast(c)
    BY <1>1, <1>3 DEF Dispatch, RefuseCla, RefuseConflict, RefuseIns,
       RefuseSignParameters, HandleGetConfiguration, HandleResetSigning,
       HandleVerifyPublicKey, Admitted, Conflicts, session, Wipe, WipeFrom
<1>5. CASE HandleFirst(c)
    <2>1. FirstStatus(c) = "Success"
        BY <1>3, <1>5 DEF HandleFirst
    <2> QED
        BY <1>2, <1>5, <2>1, FirstOpens DEF ImplementedSigner!Next
<1>6. CASE HandleContinue(c)
    <2>1. ContinueStatus(c.chunk) = "Success"
        BY <1>3, <1>6 DEF HandleContinue
    <2> QED
        BY <1>2, <1>6, <2>1, ContinueExtends DEF ImplementedSigner!Next
<1>7. CASE HandleLast(c)
    BY <1>2, <1>7, LastSubmits DEF ImplementedSigner!Next
<1> QED
    BY <1>4, <1>5, <1>6, <1>7

\* A call that leaves an idle session signs what was reviewed or abandons the offer.
LEMMA IdleStep ==
    ASSUME SessionInv, SessionInv', Next, state' = "Idle"
    PROVE  ImplementedSigner!Next
<1>1. CASE outcome'.kind # "Signature"
    BY <1>1, AbandonStep DEF ImplementedSigner!Next
<1>2. CASE outcome'.kind = "Signature"
    <2>1. outcome' \in Outcome
        BY DEF SessionInv, TypeOK
    <2>2. outcome' \in [kind : {"Signature"}, path : Path, frame : Frame]
        BY <1>2, <2>1 DEF Outcome, Nothing
    <2>3. outcome' = Signature(outcome'.path, outcome'.frame)
        BY <2>2 DEF Signature
    <2>4. SignPending
        BY <2>3, SignatureIsSignPending
    <2> QED
        BY <1>2, <2>4, SigningSigns DEF ImplementedSigner!Next
<1> QED
    BY <1>1, <1>2

\* Every behaviour of the session is one of the abstract signer: it releases a
\* signature only for an offer that was opened, extended and submitted whole and
\* found acceptable, and everything else abandons the offer.
THEOREM Implementation == Spec => ImplementsClearSigner
<1>1. Init => ImplementedSigner!Init
    <2> SUFFICES ASSUME Init
                 PROVE  ImplementedSigner!Init
        OBVIOUS
    <2>1. SessionInv
        BY InitEstablishes
    <2>2. Offer = NothingOffered
        BY <2>1, IdleIsNoOffer DEF Init
    <2>3. outcome.kind # "Signature" /\ state # "AwaitingApproval"
        BY DEF Init, Nothing
    <2> QED
        BY <2>2, <2>3 DEF ImplementedSigner!Init, ImplementedSigner!NoOffer,
           ImplementedSigner!NoSignature, Offer, NothingOffered
<1>2. SessionInv /\ SessionInv' /\ [Next]_vars
        => [ImplementedSigner!Next]_ImplementedSigner!vars
    <2> SUFFICES ASSUME SessionInv, SessionInv', [Next]_vars
                 PROVE  [ImplementedSigner!Next]_ImplementedSigner!vars
        OBVIOUS
    <2>1. CASE Next
        BY <2>1, LiveStep, IdleStep
    <2>2. CASE UNCHANGED vars
        BY <2>2 DEF vars, ImplementedSigner!vars, PendingFrame, Prefix
    <2> QED
        BY <2>1, <2>2
<1> QED
    BY <1>1, <1>2, SessionInvariant, PTL DEF Spec, ImplementsClearSigner,
       ImplementedSigner!Spec

=============================================================================
