--------------------------- MODULE SigningSession ---------------------------
(***************************************************************************)
(* The APDU core of the application: the signing session, the dispatcher   *)
(* and its handlers, and the three calls the device adapter makes after a  *)
(* review (crates/sunrise-edge-ledger-core/src/apdu.rs).                   *)
(*                                                                         *)
(* What a frame says is abstracted: Inspect (FrameChecks) gives, for every *)
(* frame, the verdict of each decoder handle_last calls, the payload       *)
(* length, the sender and the review.  How the bytes arrive, are bounded, kept, shown  *)
(* as pending, signed and wiped is modelled exactly.                       *)
(*                                                                         *)
(* A definition whose name ends in _Slip is a wrong form of the one it is  *)
(* named after.  Nothing uses it: each property is checked to notice one   *)
(* of them when it takes the place of the right form.                      *)
(***************************************************************************)
EXTENDS Naturals, Sequences, FrameChecks

CONSTANTS
    Byte,           \* the values of a buffered byte
    MaxFrameLen,    \* MAX_FRAME_LEN, 4096 in the code
    MaxChunkLen,    \* MAX_CHUNK_LEN, 230 in the code
    Path, NoPath,   \* derivation paths, and None
    EncodedPath,    \* what a command carries where a path is expected
    PathOf,         \* decode_path: the path, or NoPath where it is an Err
    Key,            \* public keys
    KeyOf,          \* the key of each path
    Review,
    Command         \* the commands a host may send

Frame == UNION {[1..n -> Byte] : n \in 1..MaxFrameLen}

Inspection ==
    [frame : BOOLEAN, payload_len : Nat, transaction : BOOLEAN,
     sender : Key \cup {NoKey}, review : Review \cup {NoReview}]

(***************************************************************************)
(* The data of a command is read by one handler only: total, path and      *)
(* chunk by FIRST, path by VERIFY_PUBLIC_KEY, chunk by the others.  An      *)
(* empty chunk on FIRST stands for data shorter than FIRST_MIN_DATA_LEN,   *)
(* one longer than MaxChunkLen for data longer than FIRST_MAX_DATA_LEN.    *)
(***************************************************************************)
ApduCommand ==
    [cla : Nat, ins : Nat, p1 : Nat, p2 : Nat,
     total : Nat, path : EncodedPath, chunk : Seq(Byte)]

ASSUME ByteAssumption == 0 \in Byte
ASSUME BoundAssumption ==
    /\ MaxFrameLen \in Nat \ {0}
    /\ MaxChunkLen \in Nat \ {0}
    /\ MaxPayloadLen \in Nat
ASSUME PathAssumption ==
    /\ NoPath \notin Path
    /\ PathOf \in [EncodedPath -> Path \cup {NoPath}]
ASSUME KeyAssumption ==
    /\ NoKey \notin Key
    /\ KeyOf \in [Path -> Key]
ASSUME InspectAssumption ==
    /\ NoReview \notin Review
    /\ Inspect \in [Frame -> Inspection]
ASSUME CommandAssumption == Command \subseteq ApduCommand

CLA == 224
GET_CONFIGURATION == 0
VERIFY_PUBLIC_KEY == 2
SIGN_TRANSACTION == 4
RESET_SIGNING == 6
KnownIns ==
    {GET_CONFIGURATION, VERIFY_PUBLIC_KEY, SIGN_TRANSACTION, RESET_SIGNING}
FIRST == 0
CONTINUE == 1
LAST == 2

FailureStatus ==
    {"UserRejected", "InvalidState", "InvalidData", "ProfileBoundExceeded",
     "InvalidP1P2", "UnsupportedIns", "UnsupportedCla", "InternalFailure"}

VARIABLES
    state, buffer, buffered_len, declared_total, received_len, path,
    outcome         \* what the last call returned to its caller

session == <<state, buffer, buffered_len, declared_total, received_len, path>>

vars == <<state, buffer, buffered_len, declared_total, received_len, path,
          outcome>>

-----------------------------------------------------------------------------
(* What a call returns. *)

Reply(status, response) ==
    [kind |-> "Reply", status |-> status, response |-> response]

ReviewPublicKey(p, key) == [kind |-> "ReviewPublicKey", path |-> p, key |-> key]

ReviewTransaction(review) == [kind |-> "ReviewTransaction", review |-> review]

\* The Ok of approve_and_sign: the signature FrameSigner makes for a path over
\* a frame is known by the two.
Signature(p, frame) == [kind |-> "Signature", path |-> p, frame |-> frame]

\* reject_review and reset return nothing.
Nothing == [kind |-> "Nothing"]

Outcome ==
    [kind : {"Reply"}, status : FailureStatus \cup {"Success"},
     response : {"Empty", "Configuration"}]
      \cup [kind : {"ReviewPublicKey"}, path : Path, key : Key]
      \cup [kind : {"ReviewTransaction"}, review : Review]
      \cup [kind : {"Signature"}, path : Path, frame : Frame]
      \cup {Nothing}

-----------------------------------------------------------------------------
(* The buffer. *)

Blank == [i \in 1..MaxFrameLen |-> 0]

\* Stops one byte short.
Zeroed_Slip(buf, n) == [i \in DOMAIN buf |-> IF i < n THEN 0 ELSE buf[i]]

Zeroed(buf, n) == [i \in DOMAIN buf |-> IF i <= n THEN 0 ELSE buf[i]]

Written(buf, at, chunk) ==
    [i \in DOMAIN buf |->
        IF i \in (at + 1)..(at + Len(chunk)) THEN chunk[i - at] ELSE buf[i]]

Prefix(buf, n) == [i \in 1..n |-> buf[i]]

PendingFrame == Prefix(buffer, buffered_len)

\* The frame LAST decodes: what is buffered and the chunk it brings.
CompletedFrame(chunk) ==
    Prefix(Written(buffer, buffered_len, chunk), buffered_len + Len(chunk))

AppendStatus(total, chunk) ==
    IF received_len + Len(chunk) > total THEN "ProfileBoundExceeded"
    ELSE IF buffered_len + Len(chunk) > MaxFrameLen THEN "InternalFailure"
    ELSE "Success"

\* Copies every chunk to the front of the buffer.
AppendChunk_Slip(chunk) ==
    /\ buffer' = Written(buffer, 0, chunk)
    /\ buffered_len' = buffered_len + Len(chunk)
    /\ received_len' = received_len + Len(chunk)

AppendChunk(chunk) ==
    /\ buffer' = Written(buffer, buffered_len, chunk)
    /\ buffered_len' = buffered_len + Len(chunk)
    /\ received_len' = received_len + Len(chunk)

\* Leaves the path of the session behind.
WipeFrom_Slip(buf, n) ==
    /\ buffer' = Zeroed(buf, n)
    /\ state' = "Idle"
    /\ buffered_len' = 0
    /\ declared_total' = 0
    /\ received_len' = 0
    /\ UNCHANGED path

\* wipe, on a buffer of which the first n bytes are in use.
WipeFrom(buf, n) ==
    /\ buffer' = Zeroed(buf, n)
    /\ state' = "Idle"
    /\ buffered_len' = 0
    /\ declared_total' = 0
    /\ received_len' = 0
    /\ path' = NoPath

Wipe == WipeFrom(buffer, buffered_len)

Fail(status) ==
    /\ Wipe
    /\ outcome' = Reply(status, "Empty")

-----------------------------------------------------------------------------
(* dispatch: the checks it makes before it calls a handler.  A command that *)
(* passes them is Admitted to the handler of its instruction.               *)

Conflicts(c) ==
    \/ c.ins \in {GET_CONFIGURATION, VERIFY_PUBLIC_KEY} /\ state # "Idle"
    \/ c.ins = SIGN_TRANSACTION /\ state = "AwaitingApproval"

Admitted(c, ins) == c.cla = CLA /\ c.ins = ins /\ ~Conflicts(c)

RefuseCla(c) ==
    /\ c.cla # CLA
    /\ Fail("UnsupportedCla")

\* Answers without the wipe.
RefuseConflict_Slip(c) ==
    /\ c.cla = CLA
    /\ Conflicts(c)
    /\ outcome' = Reply("InvalidState", "Empty")
    /\ UNCHANGED session

RefuseConflict(c) ==
    /\ c.cla = CLA
    /\ Conflicts(c)
    /\ Fail("InvalidState")

RefuseIns(c) ==
    /\ c.cla = CLA
    /\ c.ins \notin KnownIns
    /\ Fail("UnsupportedIns")

-----------------------------------------------------------------------------
(* The handlers.  Each status operator gives the first check of the handler *)
(* that fails, in the order the code makes them, or "Success"; the wipe of  *)
(* every failure reply at the end of dispatch is in Fail.                   *)

NoDataStatus(c) ==
    IF c.p1 # 0 \/ c.p2 # 0 THEN "InvalidP1P2"
    ELSE IF c.chunk # <<>> THEN "InvalidData"
    ELSE "Success"

HandleGetConfiguration(c) ==
    /\ Admitted(c, GET_CONFIGURATION)
    /\ \/ /\ NoDataStatus(c) = "Success"
          /\ outcome' = Reply("Success", "Configuration")
          /\ UNCHANGED session
       \/ /\ NoDataStatus(c) # "Success"
          /\ Fail(NoDataStatus(c))

HandleResetSigning(c) ==
    /\ Admitted(c, RESET_SIGNING)
    /\ \/ /\ NoDataStatus(c) = "Success"
          /\ Wipe
          /\ outcome' = Reply("Success", "Empty")
       \/ /\ NoDataStatus(c) # "Success"
          /\ Fail(NoDataStatus(c))

\* The deriver may fail on any path; key is what it returned.
Derived(p) == {KeyOf[p], NoKey}

VerifyStatus(c, key) ==
    IF c.p1 # 1 \/ c.p2 # 0 THEN "InvalidP1P2"
    ELSE IF PathOf[c.path] = NoPath THEN "InvalidData"
    ELSE IF key = NoKey THEN "InternalFailure"
    ELSE "Success"

HandleVerifyPublicKey(c) ==
    /\ Admitted(c, VERIFY_PUBLIC_KEY)
    /\ \E key \in IF PathOf[c.path] \in Path THEN Derived(PathOf[c.path]) ELSE {NoKey} :
          \/ /\ VerifyStatus(c, key) = "Success"
             /\ outcome' = ReviewPublicKey(PathOf[c.path], key)
             /\ UNCHANGED session
          \/ /\ VerifyStatus(c, key) # "Success"
             /\ Fail(VerifyStatus(c, key))

RefuseSignParameters(c) ==
    /\ Admitted(c, SIGN_TRANSACTION)
    /\ c.p2 # 0 \/ c.p1 \notin {FIRST, CONTINUE, LAST}
    /\ Fail("InvalidP1P2")

SignPart(c, p1) == Admitted(c, SIGN_TRANSACTION) /\ c.p2 = 0 /\ c.p1 = p1

\* Lets a total through that is one more than the buffer holds.
FirstStatus_Slip(c) ==
    IF state # "Idle" THEN "InvalidState"
    ELSE IF c.chunk = <<>> THEN "InvalidData"
    ELSE IF Len(c.chunk) > MaxChunkLen THEN "ProfileBoundExceeded"
    ELSE IF c.total = 0 \/ c.total > MaxFrameLen + 1 THEN "ProfileBoundExceeded"
    ELSE IF PathOf[c.path] = NoPath THEN "InvalidData"
    ELSE IF c.total = Len(c.chunk) THEN "InvalidData"
    ELSE AppendStatus(c.total, c.chunk)

FirstStatus(c) ==
    IF state # "Idle" THEN "InvalidState"
    ELSE IF c.chunk = <<>> THEN "InvalidData"
    ELSE IF Len(c.chunk) > MaxChunkLen THEN "ProfileBoundExceeded"
    ELSE IF c.total = 0 \/ c.total > MaxFrameLen THEN "ProfileBoundExceeded"
    ELSE IF PathOf[c.path] = NoPath THEN "InvalidData"
    ELSE IF c.total = Len(c.chunk) THEN "InvalidData"
    ELSE AppendStatus(c.total, c.chunk)

HandleFirst(c) ==
    /\ SignPart(c, FIRST)
    /\ \/ /\ FirstStatus(c) = "Success"
          /\ declared_total' = c.total
          /\ path' = PathOf[c.path]
          /\ state' = "Collecting"
          /\ AppendChunk(c.chunk)
          /\ outcome' = Reply("Success", "Empty")
       \/ /\ FirstStatus(c) # "Success"
          /\ Fail(FirstStatus(c))

\* What CONTINUE and LAST check before they look at the total.
ChunkStatus(chunk) ==
    IF state # "Collecting" THEN "InvalidState"
    ELSE IF chunk = <<>> THEN "InvalidData"
    ELSE IF Len(chunk) > MaxChunkLen THEN "ProfileBoundExceeded"
    ELSE "Success"

\* Without the rule that only LAST completes the total.
ContinueStatus_Slip(chunk) ==
    IF ChunkStatus(chunk) # "Success" THEN ChunkStatus(chunk)
    ELSE AppendStatus(declared_total, chunk)

ContinueStatus(chunk) ==
    IF ChunkStatus(chunk) # "Success" THEN ChunkStatus(chunk)
    ELSE IF received_len > declared_total THEN "InternalFailure"
    ELSE IF declared_total - received_len = Len(chunk) THEN "InvalidData"
    ELSE AppendStatus(declared_total, chunk)

HandleContinue(c) ==
    /\ SignPart(c, CONTINUE)
    /\ \/ /\ ContinueStatus(c.chunk) = "Success"
          /\ AppendChunk(c.chunk)
          /\ outcome' = Reply("Success", "Empty")
          /\ UNCHANGED <<state, declared_total, path>>
       \/ /\ ContinueStatus(c.chunk) # "Success"
          /\ Fail(ContinueStatus(c.chunk))

LastAppendStatus(chunk) ==
    IF ChunkStatus(chunk) # "Success" THEN ChunkStatus(chunk)
    ELSE AppendStatus(declared_total, chunk)

LastStatus(chunk, key) ==
    IF LastAppendStatus(chunk) # "Success" THEN LastAppendStatus(chunk)
    ELSE IF received_len + Len(chunk) # declared_total THEN "InvalidData"
    ELSE FrameStatus(CompletedFrame(chunk), key)

\* A LAST that fails after its append wipes what it appended too.
HandleLast(c) ==
    /\ SignPart(c, LAST)
    /\ \E key \in IF path \in Path THEN Derived(path) ELSE {NoKey} :
          \/ /\ LastStatus(c.chunk, key) = "Success"
             /\ AppendChunk(c.chunk)
             /\ state' = "AwaitingApproval"
             /\ outcome' = ReviewTransaction(Inspect[CompletedFrame(c.chunk)].review)
             /\ UNCHANGED <<declared_total, path>>
          \/ /\ LastStatus(c.chunk, key) # "Success"
             /\ LastAppendStatus(c.chunk) = "Success"
             /\ WipeFrom(Written(buffer, buffered_len, c.chunk),
                         buffered_len + Len(c.chunk))
             /\ outcome' = Reply(LastStatus(c.chunk, key), "Empty")
          \/ /\ LastAppendStatus(c.chunk) # "Success"
             /\ Fail(LastAppendStatus(c.chunk))

Dispatch(c) ==
    \/ RefuseCla(c)
    \/ RefuseConflict(c)
    \/ RefuseIns(c)
    \/ HandleGetConfiguration(c)
    \/ HandleResetSigning(c)
    \/ HandleVerifyPublicKey(c)
    \/ RefuseSignParameters(c)
    \/ HandleFirst(c)
    \/ HandleContinue(c)
    \/ HandleLast(c)

-----------------------------------------------------------------------------
(* What the adapter calls after a review, or on an error of its own. *)

\* Signs whatever is buffered.
SignPending_SlipGuard ==
    /\ state # "Idle"
    /\ Wipe
    /\ outcome' = Signature(path, PendingFrame)

\* Signs and keeps the frame pending.
SignPending_SlipWipe ==
    /\ state = "AwaitingApproval"
    /\ outcome' = Signature(path, PendingFrame)
    /\ UNCHANGED session

SignPending ==
    /\ state = "AwaitingApproval"
    /\ Wipe
    /\ \/ outcome' = Signature(path, PendingFrame)
       \/ outcome' = Reply("InternalFailure", "Empty")

RefuseToSign ==
    /\ state # "AwaitingApproval"
    /\ Fail("InvalidState")

ApproveAndSign == SignPending \/ RefuseToSign

RejectReview ==
    /\ Wipe
    /\ outcome' = Nothing

Reset ==
    /\ Wipe
    /\ outcome' = Nothing

Init ==
    /\ state = "Idle"
    /\ buffer = Blank
    /\ buffered_len = 0
    /\ declared_total = 0
    /\ received_len = 0
    /\ path = NoPath
    /\ outcome = Nothing

Next ==
    \/ \E c \in Command : Dispatch(c)
    \/ ApproveAndSign
    \/ RejectReview
    \/ Reset

Spec == Init /\ [][Next]_vars

-----------------------------------------------------------------------------
(* Properties. *)

\* Every variable of the session stays within its type, the lengths within the
\* bound of the buffer.
TypeOK ==
    /\ state \in {"Idle", "Collecting", "AwaitingApproval"}
    /\ buffer \in [1..MaxFrameLen -> Byte]
    /\ buffered_len \in 0..MaxFrameLen
    /\ declared_total \in 0..MaxFrameLen
    /\ received_len \in 0..MaxFrameLen
    /\ path \in Path \cup {NoPath}
    /\ outcome \in Outcome

\* wipe only zeroes the bytes in use, so no byte of an earlier frame survives
\* only if every byte past buffered_len is zero at all times: across chunks, a
\* LAST that fails after its append, and any sequence of sessions.
NoResidue ==
    \A i \in (buffered_len + 1)..MaxFrameLen : buffer[i] = 0

\* A session is idle exactly when it holds nothing: no bytes, no lengths and no
\* path (the contract of wipe and of new).
IdleHoldsNothing ==
    IF state = "Idle"
    THEN /\ buffer = Blank
         /\ buffered_len = 0
         /\ declared_total = 0
         /\ received_len = 0
         /\ path = NoPath
    ELSE path \in Path

\* The two length counters agree; while collecting some bytes are there and
\* some are missing, so that only LAST can complete the total ("only LAST may
\* deliver the chunk that completes the declared total"); under review the
\* declared total is there.
Accounting ==
    /\ buffered_len = received_len
    /\ received_len <= declared_total
    /\ state = "Collecting" => 0 < received_len /\ received_len < declared_total
    /\ state = "AwaitingApproval" => 0 < received_len /\ received_len = declared_total

\* What handle_last requires of a frame before it may be displayed.
Reviewable(p, frame) ==
    LET seen == Inspect[frame]
    IN  /\ seen.frame
        /\ seen.payload_len <= MaxPayloadLen
        /\ seen.transaction
        /\ seen.sender = KeyOf[p]
        /\ seen.review # NoReview

\* While approval is pending the frame in the buffer passed every decoder, its
\* sender is the key of the path it would be signed with, and the review handed
\* to the adapter is the review of exactly these bytes.
PendingIsReviewed ==
    state = "AwaitingApproval" =>
        /\ Reviewable(path, PendingFrame)
        /\ outcome = ReviewTransaction(Inspect[PendingFrame].review)

\* A failure reply leaves no signing sequence behind ("Every failure ... wipes
\* the buffered frame and derivation state back to idle"), so a host that is
\* told of an error can start over with FIRST.
FailureEndsSession ==
    outcome \in [kind : {"Reply"}, status : FailureStatus, response : {"Empty"}]
        => state = "Idle"

\* The InternalFailure branches of append_chunk and handle_continue are there
\* for defence: no chunk a host may send reaches them.
DefensiveBranchesDead ==
    /\ received_len <= declared_total
    /\ \A c \in Command :
          state = "Collecting" =>
            AppendStatus(declared_total, c.chunk) # "InternalFailure"

\* A signature comes out of a step only when the step before handed out the
\* review of the very frame that is signed, under the path whose key is the
\* frame's sender, and nothing of the frame is left.
SignsOnlyWhatWasReviewed ==
    [][\A p \in Path, frame \in Frame :
          outcome' = Signature(p, frame) =>
            /\ outcome = ReviewTransaction(Inspect[frame].review)
            /\ Reviewable(p, frame)
            /\ state' = "Idle"]_vars

\* Bytes that were accepted are never altered while their session lives: a step
\* keeps them, adds behind them or ends the session; nor do its path and total
\* change.
AcceptedBytesStand ==
    [][state # "Idle" /\ state' # "Idle" =>
         /\ path' = path
         /\ declared_total' = declared_total
         /\ buffered_len < buffered_len'
         /\ Prefix(buffer', buffered_len) = PendingFrame]_vars

\* The session implements the abstract signer: its counters and buffer are an
\* offer, AwaitingApproval is reviewed, the Ok of approve_and_sign released.
ImplementedSigner == INSTANCE ClearSigner WITH
    Acceptable <- {pf \in Path \X Frame : Reviewable(pf[1], pf[2])},
    offer <- [path |-> path, total |-> declared_total, bytes |-> PendingFrame],
    reviewed <- (state = "AwaitingApproval"),
    released <- IF outcome.kind = "Signature"
                THEN [path |-> outcome.path, frame |-> outcome.frame]
                ELSE [path |-> NoPath, frame |-> <<>>]

ImplementsClearSigner == ImplementedSigner!Spec

=============================================================================
