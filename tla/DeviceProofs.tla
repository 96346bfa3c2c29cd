------------------------------ MODULE DeviceProofs ------------------------------
(***************************************************************************)
(* Proofs about the device, for every value of its constants: the event    *)
(* loop is a use of the session, its safety properties hold, and with the  *)
(* decoders and the facts they reach from the screen to the wire.          *)
(***************************************************************************)
EXTENDS Device, SigningSessionProofs, DecodersProofs

(***************************************************************************)
(* The inductive invariant.  The properties of the loop say what holds     *)
(* when it takes a command, shows a review or has sent an answer; the      *)
(* invariant says what leads there: what the host will make of an answer    *)
(* that is about to be sent, and that nothing was sent before.             *)
(***************************************************************************)

\* The session is one the host reckons with, or will whether it gets the answer
\* or not; behind a review and its answer it is idle.
Synced ==
    /\ pc \in {"next_command", "popup"} => Held \in told
    /\ pc = "send" => Held \in claim.answered
    /\ pc \in {"address_review", "transaction_review", "sign"} =>
          NoCollection \in claim.answered
    /\ NoCollection \in claim.unanswered
    /\ claim.answered \subseteq claim.unanswered
    /\ pc \in {"send", "popup"} /\ popup # NoPopup => state = "Idle"

\* The frame under review is one that the command in hand completes.
ReviewsWhatWasSent ==
    pc \in {"transaction_review", "sign"} => Held \in claim.completed

Unanswered ==
    pc \in {"address_review", "transaction_review", "sign", "send"} => wire = Silence

\* The host sent, and the user agreed to, what data releases.
Consented(data) ==
    /\ \A p \in Path, frame \in Frame :
          data = Signature(p, frame) =>
            /\ Collection(p, Len(frame), frame) \in claim.completed
            /\ approved = ReviewTransaction(Inspect[frame].review)
            /\ Reviewable(p, frame)
    /\ \A key \in Key :
          data = PublicKey(key) =>
            \E p \in Path : KeyOf[p] = key /\ approved = ReviewPublicKey(p, key)

\* No key is released without the review of its path.
KeyIsReviewed ==
    pc = "address_review" => outcome.path \in Path /\ outcome.key = KeyOf[outcome.path]

AnswerIsTruthful ==
    pc \in {"send", "popup"} =>
        /\ popup.success <=> answer.data.kind \in {"Signature", "PublicKey"}
        /\ popup.success => approved # Nothing

LoopInv ==
    /\ SessionInv
    /\ LoopTypeOK
    /\ Synced
    /\ ReviewsWhatWasSent
    /\ ScreenShowsPending
    /\ Unanswered
    /\ Consented(wire.data)
    /\ pc = "send" => Consented(answer.data)
    /\ KeyIsReviewed
    /\ ConsentWasShown
    /\ AnswerIsTruthful

-----------------------------------------------------------------------------
(* The loop uses the session. *)

\* A power cycle is a reset to the session: a wipe leaves what new returns.
LEMMA RestartIsReset ==
    ASSUME SessionInv, Restart
    PROVE  Reset
<1>1. /\ buffer \in Buffer
      /\ buffered_len \in Nat
      /\ \A i \in (buffered_len + 1)..MaxFrameLen : buffer[i] = 0
    BY DEF SessionInv, TypeOK, NoResidue, Buffer
<1>2. Zeroed(buffer, buffered_len) = Blank
    BY <1>1, ZeroedIsBlank
<1> QED
    BY <1>2 DEF Restart, Reset, Wipe, WipeFrom

\* What an arm of the loop does to the session is one call on it or nothing.
LEMMA LoopUsesSession ==
    ASSUME SessionInv, [LoopNext]_loopVars
    PROVE  [Next]_vars
<1>1. CASE \E c \in Command : NextCommand(c)
    BY <1>1 DEF NextCommand, Next
<1>2. CASE RejectHeader
    BY <1>2 DEF RejectHeader, Next
<1>3. CASE Decision
    BY <1>3 DEF Decision, ApproveKey, RejectKey, ApproveTransaction, RejectTransaction, Next
<1>4. CASE DeviceStep
    BY <1>4 DEF DeviceStep, KeyNotDisplayable, TransactionNotDisplayable, Sign, Send,
       SendFails, ShowStatus, Next
<1>5. CASE Restart
    BY <1>5, RestartIsReset DEF Next
<1>6. CASE UNCHANGED loopVars
    BY <1>6 DEF loopVars
<1> QED
    BY <1>1, <1>2, <1>3, <1>4, <1>5, <1>6 DEF LoopNext

\* The session's invariant is one of the loop.
LEMMA LoopKeepsSession ==
    ASSUME SessionInv, [LoopNext]_loopVars
    PROVE  SessionInv'
BY LoopUsesSession, NextPreserves

\* The loop is a behaviour of the session: no arm does to it what a caller of
\* its interface could not do, and no order of arms leads out of it.
THEOREM LoopImplementsSession == LoopSpec => Spec
<1>1. LoopInit => Init /\ SessionInv
    BY InitEstablishes DEF LoopInit
<1>2. SessionInv /\ [LoopNext]_loopVars => SessionInv' /\ [Next]_vars
    BY LoopUsesSession, LoopKeepsSession
<1> QED
    BY <1>1, <1>2, PTL DEF LoopSpec, Spec

-----------------------------------------------------------------------------
(* What a command does, as the loop sees it. *)

\* What a session holds: nothing while idle, else a path, a total and the bytes
\* so far, fewer than the total before LAST and all of them after.
HeldFits ==
    /\ state = "Idle" => Held = NoCollection
    /\ state # "Idle" => Held \in Collections \ {NoCollection}
    /\ state = "Collecting" => Len(Held.bytes) < Held.total
    /\ state = "AwaitingApproval" => Len(Held.bytes) = Held.total

\* It is what the invariant of the session makes of its counters.
LEMMA HeldIs == SessionInv => HeldFits
<1> SUFFICES ASSUME SessionInv
             PROVE  HeldFits
    OBVIOUS
<1>1. Held.path = path /\ Held.total = declared_total /\ Held.bytes = PendingFrame
    BY DEF Held, Collection
<1>2. CASE state = "Idle"
  <2>1. path = NoPath /\ declared_total = 0 /\ buffered_len = 0
    BY <1>2 DEF SessionInv, IdleHoldsNothing
  <2>2. PendingFrame = <<>>
    BY <2>1 DEF PendingFrame, Prefix
  <2> QED
    BY <1>2, <2>1, <2>2 DEF Held, NoCollection, HeldFits
<1>3. CASE state # "Idle"
  <2>1. /\ state \in {"Collecting", "AwaitingApproval"}
        /\ path \in Path
        /\ buffered_len = received_len
        /\ buffered_len \in 1..MaxFrameLen
        /\ declared_total \in 1..MaxFrameLen
        /\ buffer \in Buffer
    BY <1>3, BoundAssumption DEF SessionInv, IdleHoldsNothing, TypeOK, Accounting, Buffer
  <2>2. PendingFrame \in Frame
    BY <2>1, PrefixIsFrame DEF PendingFrame
  <2>3. Len(PendingFrame) = buffered_len
    BY <2>1 DEF PendingFrame, Prefix
  <2>4. Held \in Collections
    BY <2>1, <2>2 DEF Held, Collection, Collections
  <2>5. Held # NoCollection
    BY <1>1, <2>1, PathAssumption DEF NoCollection, Collection
  <2>6. /\ state = "Collecting" => buffered_len < declared_total
        /\ state = "AwaitingApproval" => buffered_len = declared_total
    BY <2>1 DEF SessionInv, Accounting
  <2> QED
    BY <1>1, <1>3, <2>3, <2>4, <2>5, <2>6 DEF HeldFits
<1> QED
    BY <1>2, <1>3

\* The same after a step.
LEMMA HeldIsNext ==
    ASSUME SessionInv'
    PROVE  HeldFits'
<1>1. (SessionInv => HeldFits)'
    BY HeldIs, PTL
<1> QED
    BY <1>1

\* A step that leaves the session idle leaves nothing in it.
LEMMA IdleNext ==
    ASSUME SessionInv', state' = "Idle"
    PROVE  Held' = NoCollection
BY HeldIsNext DEF HeldFits, NoCollection, Collection

\* dispatch returns one of three kinds of outcome, each with the session it
\* belongs to.
LEMMA DispatchOutcomes ==
    ASSUME SessionInv, state # "AwaitingApproval", NEW c \in Command, Dispatch(c)
    PROVE  \/ /\ \E status \in Status, response \in {"Empty", "Configuration"} :
                    outcome' = Reply(status, response)
              /\ state' # "AwaitingApproval"
           \/ /\ \E p \in Path : outcome' = ReviewPublicKey(p, KeyOf[p])
              /\ state' = "Idle"
           \/ /\ \E review : outcome' = ReviewTransaction(review)
              /\ state' = "AwaitingApproval"
<1> DEFINE Replied ==
        /\ \E status \in Status, response \in {"Empty", "Configuration"} :
              outcome' = Reply(status, response)
        /\ state' # "AwaitingApproval"
<1>1. c \in ApduCommand
    BY CommandAssumption
<1>2. ASSUME NEW status \in FailureStatus, Fail(status)
      PROVE  Replied
    BY <1>2 DEF Fail, Wipe, WipeFrom, Status
<1>3. CASE RefuseCla(c) \/ RefuseConflict(c) \/ RefuseIns(c) \/ RefuseSignParameters(c)
    BY <1>2, <1>3 DEF RefuseCla, RefuseConflict, RefuseIns, RefuseSignParameters,
       FailureStatus
<1>4. CASE HandleGetConfiguration(c)
    <2>1. CASE NoDataStatus(c) = "Success"
        BY <1>4, <2>1 DEF HandleGetConfiguration, session, Status
    <2>2. CASE NoDataStatus(c) # "Success"
        BY <1>1, <1>2, <1>4, <2>2, StatusTypes DEF HandleGetConfiguration, Status
    <2> QED
        BY <2>1, <2>2
<1>5. CASE HandleResetSigning(c)
    <2>1. CASE NoDataStatus(c) = "Success"
        BY <1>5, <2>1 DEF HandleResetSigning, Wipe, WipeFrom, Status
    <2>2. CASE NoDataStatus(c) # "Success"
        BY <1>1, <1>2, <1>5, <2>2, StatusTypes DEF HandleResetSigning, Status
    <2> QED
        BY <2>1, <2>2
<1>6. CASE HandleVerifyPublicKey(c)
    <2> DEFINE p == PathOf[c.path]
    <2>1. PICK key \in IF p \in Path THEN Derived(p) ELSE {NoKey} :
              \/ /\ VerifyStatus(c, key) = "Success"
                 /\ outcome' = ReviewPublicKey(p, key)
                 /\ UNCHANGED session
              \/ /\ VerifyStatus(c, key) # "Success"
                 /\ Fail(VerifyStatus(c, key))
        BY <1>6 DEF HandleVerifyPublicKey
    <2>2. key \in Key \cup {NoKey}
        BY KeyAssumption DEF Derived
    <2>3. CASE VerifyStatus(c, key) = "Success"
        <3>1. p # NoPath /\ key # NoKey
            BY <2>3 DEF VerifyStatus
        <3>2. p \in Path /\ key = KeyOf[p]
            BY <1>1, <3>1, PathAssumption DEF ApduCommand, Derived
        <3>3. state' = "Idle"
            BY <1>6, <2>1, <2>3 DEF HandleVerifyPublicKey, Admitted, Conflicts, session
        <3> QED
            BY <2>1, <2>3, <3>2, <3>3
    <2>4. CASE VerifyStatus(c, key) # "Success"
        BY <1>1, <1>2, <2>1, <2>2, <2>4, StatusTypes DEF Status
    <2> QED
        BY <2>3, <2>4
<1>7. CASE HandleFirst(c)
    <2>1. CASE FirstStatus(c) = "Success"
        BY <1>7, <2>1 DEF HandleFirst, Status
    <2>2. CASE FirstStatus(c) # "Success"
        BY <1>1, <1>2, <1>7, <2>2, StatusTypes DEF HandleFirst, Status
    <2> QED
        BY <2>1, <2>2
<1>8. CASE HandleContinue(c)
    <2>1. CASE ContinueStatus(c.chunk) = "Success"
        BY <1>8, <2>1 DEF HandleContinue, Status
    <2>2. CASE ContinueStatus(c.chunk) # "Success"
        <3>1. ContinueStatus(c.chunk) \in FailureStatus
            BY <1>1, <2>2, StatusTypes DEF Status
        <3> QED
            BY <1>2, <1>8, <2>2, <3>1 DEF HandleContinue
    <2> QED
        BY <2>1, <2>2
<1>9. CASE HandleLast(c)
    <2>1. PICK key \in IF path \in Path THEN Derived(path) ELSE {NoKey} :
              \/ /\ state' = "AwaitingApproval"
                 /\ outcome' = ReviewTransaction(Inspect[CompletedFrame(c.chunk)].review)
              \/ /\ state' = "Idle"
                 /\ outcome' = Reply(LastStatus(c.chunk, key), "Empty")
              \/ /\ LastAppendStatus(c.chunk) # "Success"
                 /\ Fail(LastAppendStatus(c.chunk))
        BY <1>9 DEF HandleLast, WipeFrom
    <2>2. key \in Key \cup {NoKey}
        BY KeyAssumption DEF Derived
    <2>3. /\ LastStatus(c.chunk, key) \in Status
          /\ LastAppendStatus(c.chunk) \in Status
        BY <1>1, <2>2, StatusTypes
    <2>4. LastAppendStatus(c.chunk) # "Success" => LastAppendStatus(c.chunk) \in FailureStatus
        BY <2>3 DEF Status
    <2> QED
        BY <1>2, <2>1, <2>3, <2>4
<1> QED
    BY <1>3, <1>4, <1>5, <1>6, <1>7, <1>8, <1>9 DEF Dispatch

\* A CONTINUE or LAST that appends its chunk makes of what the host reckons with
\* what is buffered then.
LEMMA AppendIsReckoned ==
    ASSUME SessionInv, SessionInv', Held \in told, state # "Idle", state' # "Idle",
           NEW c, c.chunk \in Seq(Byte), Len(c.chunk) > 0,
           buffered_len + Len(c.chunk) \in 1..MaxFrameLen, AppendChunk(c.chunk),
           UNCHANGED <<declared_total, path>>
    PROVE  Held' \in Grown(c)
<1> DEFINE bytes == PendingFrame \o c.chunk
<1>1. Held' = Collection(path, declared_total, bytes)
    BY AppendGrows DEF Held, Collection
<1>2. Held.bytes \o c.chunk = bytes
    BY DEF Held, Collection
<1> HIDE DEF bytes
<1>3. [Held EXCEPT !.bytes = bytes] = Collection(path, declared_total, bytes)
    BY DEF Held, Collection
<1>4. [Held EXCEPT !.bytes = @ \o c.chunk] = Held'
    BY <1>1, <1>2, <1>3
<1>5. Held \in told \ {NoCollection}
    BY HeldIs DEF HeldFits
<1>6. Held' \in Collections
    BY HeldIsNext DEF HeldFits, Collections, Frame
<1> QED
    BY <1>4, <1>5, <1>6 DEF Grown

\* What the host makes of the reply to a command fits what the session holds
\* after it, and what it will make of the end of a review an idle session.
LEMMA ConclusionIsHeld ==
    ASSUME SessionInv, SessionInv', Held \in told, state # "AwaitingApproval",
           NEW c \in Command, Dispatch(c)
    PROVE  IF outcome'.kind = "Reply" THEN Held' \in Concluded(c, outcome')
           ELSE NoCollection \in Concluded(c, outcome')
<1>1. c \in ApduCommand /\ c.chunk \in Seq(Byte) /\ Len(c.chunk) \in Nat
    BY CommandAssumption DEF ApduCommand
<1>2. state' = "Idle" => Held' = NoCollection
    BY IdleNext
<1>3. ASSUME outcome' # Reply("Success", "Empty")
      PROVE  NoCollection \in Concluded(c, outcome')
    BY <1>3 DEF Concluded
<1>4. ASSUME outcome' # Reply("Success", "Empty"), state' = "Idle"
      PROVE  Held' \in Concluded(c, outcome')
    BY <1>2, <1>3, <1>4
<1>5. ASSUME outcome'.kind # "Reply"
      PROVE  NoCollection \in Concluded(c, outcome')
    BY <1>3, <1>5 DEF Reply
<1>6. ASSUME NEW status \in FailureStatus, Fail(status)
      PROVE  outcome' # Reply("Success", "Empty") /\ state' = "Idle"
    BY <1>6 DEF Fail, Wipe, WipeFrom, Reply, FailureStatus
<1>7. ASSUME NEW status \in FailureStatus, Fail(status)
      PROVE  Held' \in Concluded(c, outcome')
    BY <1>4, <1>6, <1>7
<1> SUFFICES ASSUME outcome'.kind = "Reply"
             PROVE  Held' \in Concluded(c, outcome')
    BY <1>5
<1>8. CASE RefuseCla(c) \/ RefuseConflict(c) \/ RefuseIns(c) \/ RefuseSignParameters(c)
    BY <1>7, <1>8 DEF RefuseCla, RefuseConflict, RefuseIns, RefuseSignParameters,
       FailureStatus
<1>9. CASE HandleGetConfiguration(c)
    <2>1. CASE NoDataStatus(c) = "Success"
        <3>1. outcome' = Reply("Success", "Configuration") /\ state' = "Idle"
            BY <1>9, <2>1 DEF HandleGetConfiguration, session, Admitted, Conflicts
        <3> QED
            BY <1>4, <3>1 DEF Reply
    <2>2. CASE NoDataStatus(c) # "Success"
        BY <1>1, <1>7, <1>9, <2>2, StatusTypes DEF HandleGetConfiguration, Status
    <2> QED
        BY <2>1, <2>2
<1>10. CASE HandleResetSigning(c)
    <2>1. CASE NoDataStatus(c) = "Success"
        <3>1. state' = "Idle"
            BY <1>10, <2>1 DEF HandleResetSigning, Wipe, WipeFrom
        <3>2. ~SignPart(c, FIRST) /\ ~SignPart(c, CONTINUE)
            BY <1>10 DEF HandleResetSigning, SignPart, Admitted, RESET_SIGNING,
               SIGN_TRANSACTION
        <3>3. Accepted(c) = {NoCollection}
            BY <3>2 DEF Accepted
        <3> QED
            BY <1>2, <3>1, <3>3 DEF Concluded
    <2>2. CASE NoDataStatus(c) # "Success"
        BY <1>1, <1>7, <1>10, <2>2, StatusTypes DEF HandleResetSigning, Status
    <2> QED
        BY <2>1, <2>2
<1>11. CASE HandleVerifyPublicKey(c)
    <2> DEFINE p == PathOf[c.path]
    <2>1. PICK key \in IF p \in Path THEN Derived(p) ELSE {NoKey} :
              \/ outcome' = ReviewPublicKey(p, key)
              \/ /\ VerifyStatus(c, key) # "Success"
                 /\ Fail(VerifyStatus(c, key))
        BY <1>11 DEF HandleVerifyPublicKey
    <2>2. outcome' # ReviewPublicKey(p, key)
        BY DEF ReviewPublicKey
    <2>3. VerifyStatus(c, key) \in Status
        <3>1. key \in Key \cup {NoKey}
            BY KeyAssumption DEF Derived
        <3> QED
            BY <1>1, <3>1, StatusTypes
    <2> QED
        BY <1>7, <2>1, <2>2, <2>3 DEF Status
<1>12. CASE HandleFirst(c)
    <2>1. CASE FirstStatus(c) = "Success"
        <3>1. /\ declared_total' = c.total
              /\ path' = PathOf[c.path]
              /\ AppendChunk(c.chunk)
              /\ outcome' = Reply("Success", "Empty")
              /\ SignPart(c, FIRST)
            BY <1>12, <2>1 DEF HandleFirst
        <3>2. /\ state = "Idle"
              /\ Len(c.chunk) > 0
              /\ c.total \in 1..MaxFrameLen
              /\ Len(c.chunk) < c.total
            BY <1>1, <2>1, FirstSucceeds DEF SessionInv
        <3>3. buffered_len = 0 /\ buffered_len + Len(c.chunk) \in 1..MaxFrameLen
            BY <1>1, <3>2, BoundAssumption DEF SessionInv, IdleHoldsNothing
        <3>4. Held' = Collection(PathOf[c.path], c.total, PendingFrame \o c.chunk)
            BY <1>1, <3>1, <3>2, <3>3, AppendGrows DEF Held, Collection
        <3>5. PendingFrame \o c.chunk = c.chunk
            BY <1>1, <3>3 DEF PendingFrame, Prefix
        <3>6. Held' \in Collections /\ Len(Held'.bytes) < Held'.total
            <4>1. state' = "Collecting"
                BY <1>12, <2>1 DEF HandleFirst
            <4> QED
                BY <4>1, HeldIsNext DEF HeldFits, Collections, Frame
        <3>7. Held' \in Accepted(c)
            BY <3>1, <3>4, <3>5, <3>6 DEF Accepted, Begun
        <3> QED
            BY <3>1, <3>7 DEF Concluded
    <2>2. CASE FirstStatus(c) # "Success"
        BY <1>1, <1>7, <1>12, <2>2, StatusTypes DEF HandleFirst, Status
    <2> QED
        BY <2>1, <2>2
<1>13. CASE HandleContinue(c)
    <2>1. CASE ContinueStatus(c.chunk) = "Success"
        <3>1. /\ AppendChunk(c.chunk)
              /\ outcome' = Reply("Success", "Empty")
              /\ UNCHANGED <<declared_total, path>>
              /\ state' = state
              /\ SignPart(c, CONTINUE)
            BY <1>13, <2>1 DEF HandleContinue
        <3>2. /\ state = "Collecting"
              /\ Len(c.chunk) > 0
              /\ received_len + Len(c.chunk) < declared_total
            BY <1>1, <2>1, ContinueSucceeds DEF SessionInv
        <3>3. buffered_len + Len(c.chunk) \in 1..MaxFrameLen
            BY <1>1, <3>2, BoundAssumption DEF SessionInv, TypeOK, Accounting
        <3>4. Held' \in Grown(c)
            BY <1>1, <3>1, <3>2, <3>3, AppendIsReckoned
        <3>5. Len(Held'.bytes) < Held'.total
            BY <3>1, <3>2, HeldIsNext DEF HeldFits
        <3>6. ~SignPart(c, FIRST)
            BY <3>1 DEF SignPart, FIRST, CONTINUE
        <3>7. Held' \in Accepted(c)
            BY <3>1, <3>4, <3>5, <3>6 DEF Accepted
        <3> QED
            BY <3>1, <3>7 DEF Concluded
    <2>2. CASE ContinueStatus(c.chunk) # "Success"
        <3>1. ContinueStatus(c.chunk) \in FailureStatus
            BY <1>1, <2>2, StatusTypes DEF Status
        <3> QED
            BY <1>7, <1>13, <2>2, <3>1 DEF HandleContinue
    <2> QED
        BY <2>1, <2>2
<1>14. CASE HandleLast(c)
    <2>1. PICK key \in IF path \in Path THEN Derived(path) ELSE {NoKey} :
              \/ outcome' = ReviewTransaction(Inspect[CompletedFrame(c.chunk)].review)
              \/ /\ LastStatus(c.chunk, key) # "Success"
                 /\ state' = "Idle"
                 /\ outcome' = Reply(LastStatus(c.chunk, key), "Empty")
              \/ /\ LastAppendStatus(c.chunk) # "Success"
                 /\ Fail(LastAppendStatus(c.chunk))
        BY <1>14 DEF HandleLast, WipeFrom
    <2>2. outcome' # ReviewTransaction(Inspect[CompletedFrame(c.chunk)].review)
        BY DEF ReviewTransaction
    <2>3. LastAppendStatus(c.chunk) # "Success" => LastAppendStatus(c.chunk) \in FailureStatus
        <3>1. key \in Key \cup {NoKey}
            BY KeyAssumption DEF Derived
        <3> QED
            BY <1>1, <3>1, StatusTypes DEF Status
    <2>4. ASSUME LastStatus(c.chunk, key) # "Success", state' = "Idle",
                 outcome' = Reply(LastStatus(c.chunk, key), "Empty")
          PROVE  Held' \in Concluded(c, outcome')
        BY <1>4, <2>4 DEF Reply
    <2> QED
        BY <1>7, <2>1, <2>2, <2>3, <2>4
<1> QED
    BY <1>8, <1>9, <1>10, <1>11, <1>12, <1>13, <1>14 DEF Dispatch

\* The frame a LAST hands out for review is one it completes.
LEMMA CompletionIsHeld ==
    ASSUME SessionInv, SessionInv', Held \in told, NEW c \in Command, HandleLast(c),
           outcome'.kind # "Reply"
    PROVE  Held' \in Completed(c)
<1>1. c \in ApduCommand /\ c.chunk \in Seq(Byte)
    BY CommandAssumption DEF ApduCommand
<1>2. PICK key \in IF path \in Path THEN Derived(path) ELSE {NoKey} :
          /\ LastStatus(c.chunk, key) = "Success"
          /\ AppendChunk(c.chunk)
          /\ state' = "AwaitingApproval"
          /\ UNCHANGED <<declared_total, path>>
    BY DEF HandleLast, Fail, Reply
<1>3. LastAppendStatus(c.chunk) = "Success"
    BY <1>2 DEF LastStatus
<1>4. /\ state = "Collecting"
      /\ Len(c.chunk) > 0
      /\ buffered_len + Len(c.chunk) \in 1..MaxFrameLen
    BY <1>1, <1>3, LastAppends DEF SessionInv
<1>5. Held' \in Grown(c)
    BY <1>1, <1>2, <1>4, AppendIsReckoned
<1>6. Held'.total = Len(Held'.bytes)
    BY <1>2, HeldIsNext DEF HeldFits
<1>7. SignPart(c, LAST)
    BY DEF HandleLast
<1> QED
    BY <1>5, <1>6, <1>7 DEF Completed

\* Only LAST puts a transaction on the screen.
LEMMA LastIsReviewed ==
    ASSUME NEW c, Dispatch(c), outcome'.kind = "ReviewTransaction"
    PROVE  HandleLast(c)
<1>1. \A status : ~Fail(status)
    BY DEF Fail, Reply
<1>2. /\ \A status, response : outcome' # Reply(status, response)
      /\ \A p, key : outcome' # ReviewPublicKey(p, key)
    BY DEF Reply, ReviewPublicKey
<1> QED
    BY <1>1, <1>2 DEF Dispatch, RefuseCla, RefuseConflict, RefuseIns, HandleGetConfiguration,
       HandleResetSigning, HandleVerifyPublicKey, RefuseSignParameters, HandleFirst,
       HandleContinue

\* What the host may have to reckon with after an answer is a session.
LEMMA ClaimIs ==
    ASSUME NEW c, NEW reply
    PROVE  /\ Claim(c, reply).answered = Concluded(c, reply)
           /\ Claim(c, reply).completed = Completed(c)
           /\ NoCollection \in Claim(c, reply).unanswered
           /\ Claim(c, reply).answered \subseteq Claim(c, reply).unanswered
           /\ Claim(c, reply).answered \cup Claim(c, reply).unanswered
                \cup Claim(c, reply).completed \subseteq Collections \cup {NoCollection}
<1>1. /\ Claim(c, reply).answered = Concluded(c, reply)
      /\ Claim(c, reply).unanswered = Accepted(c) \cup {NoCollection}
      /\ Claim(c, reply).completed = Completed(c)
    BY DEF Claim
<1>2. Concluded(c, reply) \subseteq Accepted(c) \cup {NoCollection}
    BY DEF Concluded
<1>3. Begun(c) \subseteq Collections /\ Grown(c) \subseteq Collections
    BY DEF Begun, Grown
<1>4. Accepted(c) \subseteq Collections \cup {NoCollection}
    BY <1>3 DEF Accepted
<1>5. Completed(c) \subseteq Collections
    BY <1>3 DEF Completed
<1> QED
    BY <1>1, <1>2, <1>4, <1>5

-----------------------------------------------------------------------------
(* The steps of the loop. *)

\* No answer but a signature and a key releases anything.
LEMMA NothingReleased ==
    ASSUME NEW data \in {NoData, Configuration}
    PROVE  /\ \A p \in Path, frame \in Frame : data # Signature(p, frame)
           /\ \A key \in Key : data # PublicKey(key)
           /\ data.kind \notin {"Signature", "PublicKey"}
BY DEF NoData, Configuration, Signature, PublicKey

\* The status words of the core have one each on the wire.
LEMMA StatusWords ==
    ASSUME NEW status \in Status
    PROVE  status \in DOMAIN AppSW
BY DEF Status, FailureStatus, AppSW

\* While no frame is pending the session is of no concern to the screen.
LEMMA NoPendingScreen ==
    ASSUME LoopInv, pc \in {"next_command", "send", "popup"}
    PROVE  state # "AwaitingApproval"
BY DEF LoopInv, ScreenShowsPending

\* The Reply arm: the answer of dispatch is about to be sent.
LEMMA ReplyPreserves ==
    ASSUME LoopInv, SessionInv', NEW c \in Command, NextCommand(c),
           outcome'.kind = "Reply"
    PROVE  LoopInv'
<1>1. /\ pc = "next_command" /\ Held \in told /\ state # "AwaitingApproval" /\ SessionInv
      /\ Dispatch(c)
    BY NoPendingScreen DEF LoopInv, Synced, NextCommand
<1>2. PICK status \in Status, response \in {"Empty", "Configuration"} :
          /\ outcome' = Reply(status, response)
          /\ state' # "AwaitingApproval"
    BY <1>1, DispatchOutcomes DEF ReviewPublicKey, ReviewTransaction
<1>3. /\ answer' = AnswerTo(outcome')
      /\ pc' = "send"
      /\ popup' = NoPopup
      /\ wire' = Silence
      /\ approved' = Nothing
      /\ told' = told
    BY <1>2 DEF NextCommand, Reply
<1>4. claim' = Claim(c, outcome') /\ Held' \in claim'.answered
    <2>1. claim' = Claim(c, outcome')
        BY DEF NextCommand
    <2>2. Held' \in Concluded(c, outcome')
        BY <1>1, ConclusionIsHeld
    <2> QED
        BY <2>1, <2>2, ClaimIs
<1>5. answer'.sw = AppSW[status] /\ answer'.data \in {NoData, Configuration}
    BY <1>2, <1>3 DEF AnswerTo, Answer, Reply
<1>6. wire'.sw = "None" /\ wire'.data = NoData
    BY <1>3 DEF Silence, Answer
<1>7. LoopTypeOK'
    <2>1. TypeOK'
        BY DEF SessionInv
    <2>3. told' \cup claim'.answered \cup claim'.unanswered \cup claim'.completed
            \subseteq Collections \cup {NoCollection}
        BY <1>3, <1>4, ClaimIs DEF LoopInv, LoopTypeOK
    <2>4. AppSW[status] \in {AppSW[s] : s \in DOMAIN AppSW}
        BY StatusWords
    <2>5. popup' \in [type : {"None", "Address", "Transaction"}, success : BOOLEAN]
        BY <1>3 DEF NoPopup
    <2>6. approved' \in Outcome
        BY <1>3 DEF Outcome
    <2> QED
        BY <1>3, <1>5, <1>6, <2>1, <2>3, <2>4, <2>5, <2>6
        DEF LoopTypeOK, Collections, Frame, NoCollection
<1>8. Synced' /\ ReviewsWhatWasSent' /\ Unanswered' /\ KeyIsReviewed'
    BY <1>3, <1>4, ClaimIs DEF Synced, ReviewsWhatWasSent, Unanswered, KeyIsReviewed,
       NoCollection
<1>9. ScreenShowsPending'
    BY <1>2, <1>3 DEF ScreenShowsPending
<1>10. Consented(wire.data)' /\ Consented(answer.data)'
    BY <1>5, <1>6, NothingReleased DEF Consented
<1>11. ConsentWasShown'
    BY <1>3 DEF ConsentWasShown, Nothing
<1>12. AnswerIsTruthful'
    BY <1>3, <1>5, NothingReleased DEF AnswerIsTruthful, NoPopup
<1> QED
    BY <1>7, <1>8, <1>9, <1>10, <1>11, <1>12 DEF LoopInv

\* The two arms that put a review on the screen.
LEMMA ReviewPreserves ==
    ASSUME LoopInv, SessionInv', NEW c \in Command, NextCommand(c),
           outcome'.kind # "Reply"
    PROVE  LoopInv'
<1>1. /\ pc = "next_command" /\ Held \in told /\ state # "AwaitingApproval" /\ SessionInv
      /\ Dispatch(c)
    BY NoPendingScreen DEF LoopInv, Synced, NextCommand
<1>2. \/ /\ \E p \in Path : outcome' = ReviewPublicKey(p, KeyOf[p])
         /\ state' = "Idle"
      \/ /\ \E review : outcome' = ReviewTransaction(review)
         /\ state' = "AwaitingApproval"
    BY <1>1, DispatchOutcomes DEF Reply
<1>3. /\ popup' = NoPopup
      /\ wire' = Silence
      /\ approved' = Nothing
      /\ UNCHANGED <<told, answer>>
      /\ \/ outcome'.kind = "ReviewPublicKey" /\ pc' = "address_review"
         \/ outcome'.kind = "ReviewTransaction" /\ pc' = "transaction_review"
    BY DEF NextCommand
<1>4. /\ claim' = Claim(c, outcome') /\ NoCollection \in claim'.answered
      /\ outcome'.kind = "ReviewTransaction" => Held' \in claim'.completed
    <2>1. claim' = Claim(c, outcome')
        BY DEF NextCommand
    <2>2. NoCollection \in Concluded(c, outcome')
        BY <1>1, ConclusionIsHeld
    <2>3. outcome'.kind = "ReviewTransaction" => Held' \in Completed(c)
        BY <1>1, LastIsReviewed, CompletionIsHeld
    <2> QED
        BY <2>1, <2>2, <2>3, ClaimIs
<1>5. wire'.sw = "None" /\ wire'.data = NoData
    BY <1>3 DEF Silence, Answer
<1>6. LoopTypeOK'
    <2>1. TypeOK'
        BY DEF SessionInv
    <2>2. told' \cup claim'.answered \cup claim'.unanswered \cup claim'.completed
            \subseteq Collections \cup {NoCollection}
        BY <1>3, <1>4, ClaimIs DEF LoopInv, LoopTypeOK
    <2>3. popup' \in [type : {"None", "Address", "Transaction"}, success : BOOLEAN]
        BY <1>3 DEF NoPopup
    <2>4. approved' \in Outcome
        BY <1>3 DEF Outcome
    <2>5. answer'.sw = answer.sw /\ answer'.data = answer.data
        BY <1>3
    <2> QED
        BY <1>3, <1>5, <2>1, <2>2, <2>3, <2>4, <2>5
        DEF LoopTypeOK, LoopInv, Collections, Frame, NoCollection
<1>7. Synced' /\ ReviewsWhatWasSent' /\ Unanswered' /\ AnswerIsTruthful'
    BY <1>3, <1>4, ClaimIs DEF Synced, ReviewsWhatWasSent, Unanswered, AnswerIsTruthful,
       NoCollection
<1>8. KeyIsReviewed'
    BY <1>2, <1>3 DEF KeyIsReviewed, ReviewPublicKey, ReviewTransaction
<1>9. ScreenShowsPending'
    BY <1>2, <1>3 DEF ScreenShowsPending, SessionInv, PendingIsReviewed,
       ReviewPublicKey, ReviewTransaction
<1>10. Consented(wire.data)'
    BY <1>5, NothingReleased DEF Consented
<1>11. ConsentWasShown'
    BY <1>3 DEF ConsentWasShown, Nothing
<1> QED
    BY <1>3, <1>6, <1>7, <1>8, <1>9, <1>10, <1>11 DEF LoopInv

\* A header the SDK could not decode.
LEMMA RejectHeaderPreserves ==
    ASSUME LoopInv, SessionInv', RejectHeader
    PROVE  LoopInv'
<1>1. /\ pc = "next_command" /\ pc' = "next_command"
      /\ told' \in {{NoCollection}, told \cup {NoCollection}}
      /\ approved' = Nothing
      /\ UNCHANGED <<answer, popup, claim>>
      /\ state' = "Idle"
    BY DEF RejectHeader, loop, Reset, Wipe, WipeFrom
<1>2. Held' = NoCollection
    BY <1>1, IdleNext
<1>3. wire'.sw \in {"None", "SdkReply"} /\ wire'.data = NoData
    BY DEF RejectHeader, Silence, Answer
<1>4. LoopTypeOK'
    <2>1. TypeOK'
        BY DEF SessionInv
    <2>2. told' \subseteq told \cup {NoCollection}
        BY <1>1
    <2>3. approved' \in Outcome
        BY <1>1 DEF Outcome
    <2> QED
        BY <1>1, <1>3, <2>1, <2>2, <2>3 DEF LoopTypeOK, LoopInv, Collections, Frame,
           NoCollection
<1>5. /\ Synced' /\ ReviewsWhatWasSent' /\ Unanswered' /\ AnswerIsTruthful'
      /\ KeyIsReviewed' /\ ScreenShowsPending'
    BY <1>1, <1>2 DEF LoopInv, Synced, ReviewsWhatWasSent, Unanswered, AnswerIsTruthful,
       KeyIsReviewed, ScreenShowsPending, NoCollection
<1>6. Consented(wire.data)'
    BY <1>3, NothingReleased DEF Consented
<1>7. ConsentWasShown'
    BY <1>1 DEF ConsentWasShown, Nothing
<1> QED
    BY <1>1, <1>4, <1>5, <1>6, <1>7 DEF LoopInv

\* A review that ends in a refusal: the session is wiped, an error is about to
\* be sent and the status screen will say so.
LEMMA RefusalPreserves ==
    ASSUME LoopInv, SessionInv', NEW status \in {"UserRejected", "InternalFailure"},
           NEW type \in {"Address", "Transaction"},
           pc \in {"address_review", "transaction_review"},
           Wipe, Conclude(AppSW[status], NoData, Popup(type, FALSE)), UNCHANGED history
    PROVE  LoopInv'
<1>1. /\ pc' = "send"
      /\ answer'.sw = AppSW[status] /\ answer'.data = NoData
      /\ popup' = [type |-> type, success |-> FALSE]
      /\ UNCHANGED <<wire, told, claim, approved>>
      /\ state' = "Idle"
    BY DEF Conclude, Answer, Popup, history, Wipe, WipeFrom
<1>2. Held' = NoCollection
    BY <1>1, IdleNext
<1>3. /\ NoCollection \in claim.answered /\ NoCollection \in claim.unanswered
      /\ claim.answered \subseteq claim.unanswered
      /\ wire = Silence
    BY DEF LoopInv, Synced, Unanswered
<1>4. LoopTypeOK'
    <2>1. TypeOK'
        BY DEF SessionInv
    <2>2. AppSW[status] \in {AppSW[s] : s \in DOMAIN AppSW}
        BY StatusWords DEF Status, FailureStatus
    <2>3. popup' \in [type : {"None", "Address", "Transaction"}, success : BOOLEAN]
        BY <1>1
    <2> QED
        BY <1>1, <2>1, <2>2, <2>3 DEF LoopTypeOK, LoopInv
<1>5. Synced' /\ ReviewsWhatWasSent' /\ Unanswered' /\ KeyIsReviewed'
      /\ ScreenShowsPending'
    BY <1>1, <1>2, <1>3 DEF Synced, ReviewsWhatWasSent, Unanswered,
       KeyIsReviewed, ScreenShowsPending, NoCollection
<1>6. Consented(wire.data)' /\ Consented(answer.data)'
    BY <1>1, NothingReleased DEF Consented, LoopInv
<1>7. ConsentWasShown'
    BY <1>1 DEF ConsentWasShown, LoopInv
<1>8. AnswerIsTruthful'
    BY <1>1, NothingReleased DEF AnswerIsTruthful
<1> QED
    BY <1>4, <1>5, <1>6, <1>7, <1>8 DEF LoopInv

\* The user confirms a key: it was on the screen and is the key of its path.
LEMMA ApproveKeyPreserves ==
    ASSUME LoopInv, SessionInv', ApproveKey
    PROVE  LoopInv'
<1>1. /\ pc = "address_review" /\ pc' = "send"
      /\ outcome.key \in Displayable
      /\ approved' = outcome
      /\ answer'.sw = "Ok" /\ answer'.data = PublicKey(outcome.key)
      /\ popup' = [type |-> "Address", success |-> TRUE]
      /\ UNCHANGED <<vars, wire, told, claim>>
    BY DEF ApproveKey, Conclude, Answer, Popup
<1>2. /\ state = "Idle" /\ outcome.kind = "ReviewPublicKey" /\ outcome \in Outcome
      /\ outcome.path \in Path /\ outcome.key = KeyOf[outcome.path]
      /\ NoCollection \in claim.answered /\ wire = Silence /\ SessionInv
      /\ NoCollection \in claim.unanswered /\ claim.answered \subseteq claim.unanswered
    BY <1>1 DEF LoopInv, ScreenShowsPending, KeyIsReviewed, Synced, Unanswered,
       SessionInv, TypeOK
<1>3. outcome = ReviewPublicKey(outcome.path, outcome.key)
    BY <1>2 DEF Outcome, ReviewPublicKey, Nothing
<1>4. Held' = NoCollection
    <2>1. state' = "Idle"
        BY <1>1, <1>2 DEF vars
    <2> QED
        BY <2>1, IdleNext
<1>5. outcome.key \in Key
    BY <1>2, KeyAssumption
<1>6. LoopTypeOK'
    <2>1. TypeOK'
        BY DEF SessionInv
    <2>2. AppSW["Success"] = "Ok" /\ "Success" \in DOMAIN AppSW
        BY DEF AppSW
    <2>3. popup' \in [type : {"None", "Address", "Transaction"}, success : BOOLEAN]
        BY <1>1
    <2> QED
        BY <1>1, <1>2, <1>5, <2>1, <2>2, <2>3 DEF LoopTypeOK, LoopInv
<1>7. Synced' /\ ReviewsWhatWasSent' /\ Unanswered' /\ KeyIsReviewed'
      /\ ScreenShowsPending'
    BY <1>1, <1>2, <1>4 DEF Synced, ReviewsWhatWasSent, Unanswered,
       KeyIsReviewed, ScreenShowsPending, NoCollection, vars
<1>8. Consented(answer.data)'
    BY <1>1, <1>2, <1>3 DEF Consented, PublicKey, Signature
<1>9. Consented(wire.data)'
    <2>1. wire'.data = NoData
        BY <1>1, <1>2 DEF Silence, Answer
    <2> QED
        BY <2>1, NothingReleased DEF Consented
<1>10. ConsentWasShown'
    BY <1>1, <1>2 DEF ConsentWasShown
<1>11. AnswerIsTruthful'
    BY <1>1, <1>2 DEF AnswerIsTruthful, PublicKey, Nothing
<1> QED
    BY <1>6, <1>7, <1>8, <1>9, <1>10, <1>11 DEF LoopInv

\* The user agrees to a transaction: its review was on the screen.
LEMMA ApproveTransactionPreserves ==
    ASSUME LoopInv, SessionInv', ApproveTransaction
    PROVE  LoopInv'
<1>1. /\ pc = "transaction_review" /\ pc' = "sign"
      /\ outcome.review \in Displayable
      /\ approved' = outcome
      /\ UNCHANGED <<vars, answer, popup, wire, told, claim>>
    BY DEF ApproveTransaction
<1>2. /\ outcome = ReviewTransaction(Inspect[PendingFrame].review)
      /\ outcome \in Outcome
      /\ wire = Silence
    BY <1>1 DEF LoopInv, ScreenShowsPending, Unanswered, SessionInv, TypeOK
<1>3. LoopTypeOK'
    <2>1. TypeOK'
        BY DEF SessionInv
    <2> QED
        BY <1>1, <1>2, <2>1 DEF LoopTypeOK, LoopInv
<1>4. /\ Synced' /\ ReviewsWhatWasSent' /\ Unanswered' /\ KeyIsReviewed'
      /\ AnswerIsTruthful'
    <2>1. Held' = Held
        BY <1>1 DEF vars, Held, PendingFrame, Prefix
    <2> QED
        BY <1>1, <2>1 DEF LoopInv, Synced, ReviewsWhatWasSent, Unanswered, KeyIsReviewed,
           AnswerIsTruthful, NoCollection
<1>5. ScreenShowsPending'
    BY <1>1 DEF LoopInv, ScreenShowsPending, vars, PendingFrame, Prefix
<1>6. Consented(wire.data)'
    <2>1. wire'.data = NoData
        BY <1>1, <1>2 DEF Silence, Answer
    <2> QED
        BY <2>1, NothingReleased DEF Consented
<1>7. ConsentWasShown'
    BY <1>1, <1>2 DEF ConsentWasShown, ReviewTransaction, vars
<1> QED
    BY <1>1, <1>3, <1>4, <1>5, <1>6, <1>7 DEF LoopInv

\* approve_and_sign, called for what the user has just agreed to.
LEMMA SignPreserves ==
    ASSUME LoopInv, SessionInv', Sign
    PROVE  LoopInv'
<1>1. /\ pc = "sign" /\ pc' = "send" /\ ApproveAndSign
      /\ UNCHANGED <<wire, told, claim, approved>>
    BY DEF Sign, Conclude, history
<1>2. /\ state = "AwaitingApproval"
      /\ outcome = ReviewTransaction(Inspect[PendingFrame].review)
      /\ approved = outcome
      /\ NoCollection \in claim.answered /\ wire = Silence /\ SessionInv
      /\ NoCollection \in claim.unanswered /\ claim.answered \subseteq claim.unanswered
    BY <1>1 DEF LoopInv, ScreenShowsPending, ConsentWasShown, Synced, Unanswered
<1>3. /\ state' = "Idle"
      /\ outcome' \in {Signature(path, PendingFrame), Reply("InternalFailure", "Empty")}
    BY <1>1, <1>2 DEF ApproveAndSign, SignPending, RefuseToSign, Wipe, WipeFrom
<1>4. Held' = NoCollection
    BY <1>3, IdleNext
<1>5. /\ path \in Path
      /\ PendingFrame \in Frame
      /\ Reviewable(path, PendingFrame)
      /\ Collection(path, Len(PendingFrame), PendingFrame) \in claim.completed
    <2>1. Held \in claim.completed
        BY <1>1 DEF LoopInv, ReviewsWhatWasSent
    <2>2. Held = Collection(path, Len(PendingFrame), PendingFrame)
        BY <1>2, HeldIs DEF HeldFits, Held, Collection
    <2> QED
        BY <1>2, <2>1, <2>2, PendingFrameIsFrame
        DEF SessionInv, IdleHoldsNothing, PendingIsReviewed
<1>6. \/ /\ answer'.sw = "Ok" /\ answer'.data = Signature(path, PendingFrame)
         /\ popup' = [type |-> "Transaction", success |-> TRUE]
      \/ /\ answer'.sw = AppSW["InternalFailure"] /\ answer'.data = NoData
         /\ popup' = [type |-> "Transaction", success |-> FALSE]
    BY <1>3 DEF Sign, Conclude, Answer, Popup, Signature, Reply
<1>7. LoopTypeOK'
    <2>1. TypeOK'
        BY DEF SessionInv
    <2>2. /\ AppSW["Success"] = "Ok" /\ "Success" \in DOMAIN AppSW
          /\ "InternalFailure" \in DOMAIN AppSW
        BY DEF AppSW
    <2>3. answer'.sw \in {AppSW[status] : status \in DOMAIN AppSW}
        BY <1>6, <2>2
    <2>4. answer'.data \in {NoData} \cup {Signature(p, frame) : p \in Path, frame \in Frame}
        BY <1>5, <1>6
    <2>5. popup' \in [type : {"None", "Address", "Transaction"}, success : BOOLEAN]
        <3>1. CASE popup' = [type |-> "Transaction", success |-> TRUE]
            BY <3>1
        <3>2. CASE popup' = [type |-> "Transaction", success |-> FALSE]
            BY <3>2
        <3> QED
            BY <1>6, <3>1, <3>2
    <2> QED
        BY <1>1, <2>1, <2>3, <2>4, <2>5 DEF LoopTypeOK, LoopInv
<1>8. Synced' /\ ReviewsWhatWasSent' /\ Unanswered' /\ KeyIsReviewed'
      /\ ScreenShowsPending'
    BY <1>1, <1>2, <1>3, <1>4 DEF Synced, ReviewsWhatWasSent, Unanswered,
       KeyIsReviewed, ScreenShowsPending, NoCollection
<1>9. Consented(answer.data)'
    <2>1. CASE answer'.data = NoData
        BY <2>1, NothingReleased DEF Consented
    <2>2. CASE answer'.data = Signature(path, PendingFrame)
        <3>1. ASSUME NEW p \in Path, NEW frame \in Frame, answer'.data = Signature(p, frame)
              PROVE  p = path /\ frame = PendingFrame
            BY <2>2, <3>1 DEF Signature
        <3>2. ASSUME NEW key \in Key
              PROVE  answer'.data # PublicKey(key)
            BY <2>2 DEF Signature, PublicKey
        <3> QED
            BY <1>1, <1>2, <1>5, <3>1, <3>2 DEF Consented
    <2> QED
        BY <1>6, <2>1, <2>2
<1>10. Consented(wire.data)'
    <2>1. wire'.data = NoData
        BY <1>1, <1>2 DEF Silence, Answer
    <2> QED
        BY <2>1, NothingReleased DEF Consented
<1>11. ConsentWasShown'
    BY <1>1 DEF ConsentWasShown, LoopInv
<1>12. AnswerIsTruthful'
    BY <1>1, <1>2, <1>6 DEF AnswerIsTruthful, Signature, NoData, ReviewTransaction, Nothing
<1> QED
    BY <1>7, <1>8, <1>9, <1>10, <1>11, <1>12 DEF LoopInv


\* The rejected, and the undisplayable, reviews.
LEMMA RefusedReviewPreserves ==
    ASSUME LoopInv, SessionInv',
           RejectKey \/ KeyNotDisplayable \/ RejectTransaction \/ TransactionNotDisplayable
    PROVE  LoopInv'
<1>1. AppSW["UserRejected"] = "Deny" /\ AppSW["InternalFailure"] = "InternalFailure"
    BY DEF AppSW
<1>2. pc = "transaction_review" => state = "AwaitingApproval"
    BY DEF LoopInv, ScreenShowsPending
<1>3. CASE RejectKey
    BY <1>1, <1>3, RefusalPreserves DEF RejectKey, Reset
<1>4. CASE KeyNotDisplayable
    BY <1>1, <1>4, RefusalPreserves DEF KeyNotDisplayable, Reset
<1>5. CASE RejectTransaction
    BY <1>1, <1>2, <1>5, RefusalPreserves DEF RejectTransaction, RejectReview
<1>6. CASE TransactionNotDisplayable
    BY <1>1, <1>2, <1>6, RefusalPreserves DEF TransactionNotDisplayable, RejectReview
<1> QED
    BY <1>3, <1>4, <1>5, <1>6

\* The answer is sent, and arrives or not.
LEMMA SendPreserves ==
    ASSUME LoopInv, SessionInv', Send
    PROVE  LoopInv'
<1>1. /\ pc = "send" /\ pc' = AfterSend
      /\ wire' = answer
      /\ told' \in {claim.answered, claim.unanswered}
      /\ UNCHANGED <<vars, answer, popup, claim, approved>>
    BY DEF Send
<1>2. pc' \in {"next_command", "popup"} /\ (pc' = "popup" => popup # NoPopup)
    BY <1>1 DEF AfterSend
<1>3. /\ Held' = Held /\ Held \in claim.answered
      /\ NoCollection \in claim.unanswered /\ claim.answered \subseteq claim.unanswered
      /\ popup # NoPopup => state = "Idle"
    BY <1>1 DEF LoopInv, Synced, vars, Held, PendingFrame, Prefix
<1>4. state # "AwaitingApproval" /\ state' = state
    BY <1>1 DEF LoopInv, ScreenShowsPending, vars
<1>5. LoopTypeOK'
    <2>1. TypeOK'
        BY DEF SessionInv
    <2> QED
        BY <1>1, <1>2, <2>1 DEF LoopTypeOK, LoopInv
<1>6. Synced' /\ ReviewsWhatWasSent' /\ Unanswered' /\ KeyIsReviewed'
      /\ ScreenShowsPending'
    BY <1>1, <1>2, <1>3, <1>4 DEF Synced, ReviewsWhatWasSent, Unanswered,
       KeyIsReviewed, ScreenShowsPending, NoCollection
<1>7. Consented(wire.data)'
    BY <1>1 DEF LoopInv, Consented
<1>8. ConsentWasShown' /\ AnswerIsTruthful'
    BY <1>1, <1>2 DEF LoopInv, ConsentWasShown, AnswerIsTruthful
<1> QED
    BY <1>2, <1>5, <1>6, <1>7, <1>8 DEF LoopInv

\* The answer could not be sent: the session is idle, which a host without an
\* answer reckons with.
LEMMA SendFailsPreserves ==
    ASSUME LoopInv, SessionInv', SendFails
    PROVE  LoopInv'
<1>1. /\ pc = "send" /\ pc' = AfterSend
      /\ told' = claim.unanswered
      /\ UNCHANGED <<answer, popup, wire, claim, approved>>
      /\ Reset \/ (UNCHANGED vars /\ popup # NoPopup)
    BY DEF SendFails
<1>2. pc' \in {"next_command", "popup"}
    BY <1>1 DEF AfterSend
<1>3. state' = "Idle"
    <2>1. CASE Reset
        BY <2>1 DEF Reset, Wipe, WipeFrom
    <2>2. CASE UNCHANGED vars /\ popup # NoPopup
        BY <1>1, <2>2 DEF LoopInv, Synced, vars
    <2> QED
        BY <1>1, <2>1, <2>2
<1>4. /\ Held' = NoCollection
      /\ NoCollection \in claim.unanswered /\ claim.answered \subseteq claim.unanswered
    <2>1. Held' = NoCollection
        BY <1>3, IdleNext
    <2> QED
        BY <2>1 DEF LoopInv, Synced
<1>5. LoopTypeOK'
    <2>1. TypeOK'
        BY DEF SessionInv
    <2> QED
        BY <1>1, <1>2, <2>1 DEF LoopTypeOK, LoopInv
<1>6. Synced' /\ ReviewsWhatWasSent' /\ Unanswered' /\ KeyIsReviewed'
      /\ ScreenShowsPending'
    BY <1>1, <1>2, <1>3, <1>4 DEF Synced, ReviewsWhatWasSent, Unanswered,
       KeyIsReviewed, ScreenShowsPending, NoCollection
<1>7. Consented(wire.data)'
    BY <1>1 DEF LoopInv, Consented
<1>8. ConsentWasShown' /\ AnswerIsTruthful'
    BY <1>1, <1>2 DEF LoopInv, ConsentWasShown, AnswerIsTruthful
<1> QED
    BY <1>2, <1>5, <1>6, <1>7, <1>8 DEF LoopInv

\* The status screen touches neither the session nor the host.
LEMMA ShowStatusPreserves ==
    ASSUME LoopInv, SessionInv', ShowStatus
    PROVE  LoopInv'
<1>1. /\ pc = "popup" /\ pc' = "next_command"
      /\ UNCHANGED <<vars, answer, popup, wire, told, claim, approved>>
    BY DEF ShowStatus, history
<1>2. Held' = Held
    BY <1>1 DEF vars, Held, PendingFrame, Prefix
<1>3. LoopTypeOK'
    <2>1. TypeOK'
        BY DEF SessionInv
    <2> QED
        BY <1>1, <2>1 DEF LoopTypeOK, LoopInv
<1>4. Synced' /\ ReviewsWhatWasSent' /\ Unanswered' /\ KeyIsReviewed'
      /\ ScreenShowsPending'
    BY <1>1, <1>2 DEF LoopInv, Synced, ReviewsWhatWasSent, Unanswered,
       KeyIsReviewed, ScreenShowsPending, NoCollection, vars
<1>5. Consented(wire.data)'
    BY <1>1 DEF LoopInv, Consented
<1>6. ConsentWasShown' /\ AnswerIsTruthful'
    BY <1>1 DEF LoopInv, ConsentWasShown, AnswerIsTruthful
<1> QED
    BY <1>1, <1>3, <1>4, <1>5, <1>6 DEF LoopInv

\* What normal_main starts with.
Fresh ==
    /\ state = "Idle" /\ pc = "next_command"
    /\ answer = Silence /\ popup = NoPopup /\ wire = Silence
    /\ told = {NoCollection} /\ claim = NoClaim /\ approved = Nothing

\* The loop that takes its first command, at start and after a power cycle.
LEMMA FreshLoop == SessionInv /\ Fresh => LoopInv
<1> SUFFICES ASSUME SessionInv, Fresh
             PROVE  LoopInv
    OBVIOUS
<1> USE DEF Fresh
<1>1. answer.sw = "None" /\ answer.data = NoData /\ wire.sw = "None" /\ wire.data = NoData
    BY DEF Silence, Answer
<1>2. Held = NoCollection
    BY HeldIs DEF HeldFits
<1>3. LoopTypeOK
    <2>1. TypeOK
        BY DEF SessionInv
    <2>2. told \cup claim.answered \cup claim.unanswered \cup claim.completed
            \subseteq {NoCollection}
        BY DEF NoClaim
    <2>3. popup \in [type : {"None", "Address", "Transaction"}, success : BOOLEAN]
        BY DEF NoPopup
    <2>4. approved \in Outcome
        BY DEF Outcome
    <2> QED
        BY <1>1, <2>1, <2>2, <2>3, <2>4 DEF LoopTypeOK
<1>4. /\ Synced /\ ReviewsWhatWasSent /\ ScreenShowsPending /\ Unanswered
      /\ KeyIsReviewed /\ AnswerIsTruthful
    BY <1>2 DEF Synced, ReviewsWhatWasSent, ScreenShowsPending, Unanswered, KeyIsReviewed,
       AnswerIsTruthful, NoClaim
<1>5. Consented(wire.data)
    BY <1>1, NothingReleased DEF Consented
<1>6. ConsentWasShown
    BY DEF ConsentWasShown, Nothing
<1> QED
    BY <1>3, <1>4, <1>5, <1>6 DEF LoopInv

\* Every step of the loop keeps its invariant.
LEMMA LoopPreserves ==
    ASSUME LoopInv, [LoopNext]_loopVars
    PROVE  LoopInv'
<1>1. SessionInv'
    BY LoopKeepsSession DEF LoopInv
<1>2. ASSUME NEW c \in Command, NextCommand(c)
      PROVE  LoopInv'
    BY <1>1, <1>2, ReplyPreserves, ReviewPreserves
<1>3. CASE RejectHeader
    BY <1>1, <1>3, RejectHeaderPreserves
<1>4. CASE Decision
    BY <1>1, <1>4, ApproveKeyPreserves, ApproveTransactionPreserves,
       RefusedReviewPreserves DEF Decision
<1>5. CASE DeviceStep
    BY <1>1, <1>5, SignPreserves, SendPreserves, SendFailsPreserves, ShowStatusPreserves,
       RefusedReviewPreserves DEF DeviceStep
<1>6. CASE Restart
    <2>1. Fresh'
        BY <1>6 DEF Restart, Fresh
    <2>2. (SessionInv /\ Fresh => LoopInv)'
        BY FreshLoop, PTL
    <2> QED
        BY <1>1, <2>1, <2>2
<1>7. CASE UNCHANGED loopVars
    <2>1. /\ UNCHANGED <<state, buffer, buffered_len, path, declared_total, outcome>>
          /\ UNCHANGED <<pc, answer, popup, wire, told, claim, approved>>
        BY <1>7 DEF loopVars, vars, loop, history
    <2>2. Held' = Held /\ PendingFrame' = PendingFrame
        BY <2>1 DEF Held, PendingFrame, Prefix
    <2>3. LoopTypeOK'
        BY <1>1, <2>1 DEF LoopTypeOK, LoopInv, SessionInv
    <2>4. Synced' /\ ReviewsWhatWasSent' /\ Unanswered' /\ KeyIsReviewed'
      /\ ScreenShowsPending'
        BY <2>1, <2>2 DEF LoopInv, Synced, ReviewsWhatWasSent, Unanswered,
       KeyIsReviewed, ScreenShowsPending, NoCollection
    <2>5. Consented(wire.data)' /\ (pc = "send" => Consented(answer.data))'
        BY <2>1 DEF LoopInv, Consented
    <2>6. ConsentWasShown' /\ AnswerIsTruthful'
        BY <2>1 DEF LoopInv, ConsentWasShown, AnswerIsTruthful
    <2> QED
        BY <1>1, <2>3, <2>4, <2>5, <2>6 DEF LoopInv
<1> QED
    BY <1>2, <1>3, <1>4, <1>5, <1>6, <1>7 DEF LoopNext

-----------------------------------------------------------------------------
(* What the loop promises. *)

\* The invariant holds of every behaviour of normal_main.
THEOREM LoopInvariant == LoopSpec => []LoopInv
<1>1. LoopInit => LoopInv
    BY InitEstablishes, FreshLoop DEF LoopInit, Init, Fresh
<1>2. LoopInv /\ [LoopNext]_loopVars => LoopInv'
    BY LoopPreserves
<1> QED
    BY <1>1, <1>2, PTL DEF LoopSpec

\* The loop is at one of its places, and answers with one of its status words.
THEOREM LoopTypeCorrect == LoopSpec => []LoopTypeOK
<1>1. LoopInv => LoopTypeOK
    BY DEF LoopInv
<1> QED
    BY <1>1, LoopInvariant, PTL

\* Whenever next_command is called the session is one the host reckons with,
\* after answers that arrived or were lost, refusals and power cycles: the answers
\* of the loop never mislead it.
THEOREM HostsAgree == LoopSpec => []HostAgrees
<1>1. LoopInv => HostAgrees
    BY DEF LoopInv, Synced, HostAgrees
<1> QED
    BY <1>1, LoopInvariant, PTL

\* The frame under a signature is the concatenation of the chunks of one sequence
\* the host sent, whatever was lost or given up on the way.
THEOREM SignedIsSent == LoopSpec => []SignsWhatWasSent
<1>1. LoopInv => SignsWhatWasSent
    BY DEF LoopInv, Consented, SignsWhatWasSent
<1> QED
    BY <1>1, LoopInvariant, PTL

\* The transaction review on the screen is that of the frame in the buffer.
THEOREM PendingIsOnScreen == LoopSpec => []ScreenShowsPending
<1>1. LoopInv => ScreenShowsPending
    BY DEF LoopInv
<1> QED
    BY <1>1, LoopInvariant, PTL

\* The signature or key in a reply is the one the user agreed to for the command
\* it answers.
THEOREM ConsentBeforeRelease == LoopSpec => []ReleaseHasConsent
<1>1. LoopInv => ReleaseHasConsent
    BY DEF LoopInv, Consented, ReleaseHasConsent
<1> QED
    BY <1>1, LoopInvariant, PTL

\* The user agrees to nothing the UI could not lay out.
THEOREM OnlyShownIsAgreed == LoopSpec => []ConsentWasShown
<1>1. LoopInv => ConsentWasShown
    BY DEF LoopInv
<1> QED
    BY <1>1, LoopInvariant, PTL

\* The status screen tells what was about to be sent.
THEOREM StatusTruthful == LoopSpec => []StatusIsTruthful
<1>1. LoopInv => StatusIsTruthful
    BY DEF LoopInv, AnswerIsTruthful, StatusIsTruthful
<1> QED
    BY <1>1, LoopInvariant, PTL
-----------------------------------------------------------------------------
(***************************************************************************)
(* From the screen to the wire: what is shown above of the loop and in     *)
(* DecodersProofs of the decoders and the facts, put together.             *)
(***************************************************************************)

\* A frame handle_last lets through decodes to a transfer by the key of the path
\* it is signed with, and its review was built from that.
LEMMA ReviewableFrame ==
    ASSUME NEW p \in Path, NEW frame \in Frame, Reviewable(p, frame),
           NEW b, b = Meaning[frame], NEW review, review = Inspect[frame].review
    PROVE  /\ b \in ByteString /\ IsSignatureFrame(b)
           /\ b.fields[6] \in ByteString /\ IsTransaction(b.fields[6])
           /\ BuildsReview(SignatureFrame(b), TransactionSignable(b.fields[6]))
           /\ review = ClearSigningReview(SignatureFrame(b), TransactionSignable(b.fields[6]))
           /\ review.sender = KeyOf[p]
           /\ review \in Review
<1>1. b \in ByteString /\ Inspect[frame] = Inspected(b, NoKey) /\ NoReview = None
    BY MeaningAssumption
<1>2. /\ Inspect[frame].frame /\ Inspect[frame].transaction
      /\ Inspect[frame].sender = KeyOf[p] /\ review # None
    BY <1>1 DEF Reviewable
<1>3. /\ Inspected(b, NoKey).frame = IsSignatureFrame(b)
      /\ Inspected(b, NoKey).transaction = (IsSignatureFrame(b) /\ IsTransaction(b.fields[6]))
    BY DEF Inspected
<1>4. IsSignatureFrame(b) /\ IsTransaction(b.fields[6])
    BY <1>1, <1>2, <1>3
<1>5. /\ review = IF BuildsReview(SignatureFrame(b), TransactionSignable(b.fields[6]))
                  THEN ClearSigningReview(SignatureFrame(b),
                                          TransactionSignable(b.fields[6]))
                  ELSE None
      /\ KeyOf[p] = TransactionSignable(b.fields[6]).sender
    BY <1>1, <1>2, <1>4 DEF Inspected
<1>6. /\ BuildsReview(SignatureFrame(b), TransactionSignable(b.fields[6]))
      /\ review = ClearSigningReview(SignatureFrame(b), TransactionSignable(b.fields[6]))
    BY <1>2, <1>5
<1>7. review.sender = KeyOf[p]
    BY <1>5, <1>6 DEF ClearSigningReview
<1>8. b.fields[6] \in ByteString
    BY <1>1, <1>4, SignatureFrameIsEncoded DEF SignatureFrame
<1>9. review \in Review
    <2>1. Inspect[frame].review \in Review \cup {NoReview}
        BY InspectAssumption DEF Inspection
    <2> QED
        BY <1>1, <1>2, <2>1
<1> QED
    BY <1>1, <1>4, <1>6, <1>7, <1>8, <1>9

\* From handle_last to the wire: the signature in a reply is over the one frame
\* that the facts on the screen spelled out, by the key of the sender they name.
THEOREM FactsShownAreSigned == LoopSpec => []SignsTheFactsShown
<1>1. ASSUME LoopInv, NEW p \in Path, NEW frame \in Frame,
             wire.data = Signature(p, frame)
      PROVE  /\ Meaning[frame] = Rebuilt(ReviewOf(FactsApproved))
             /\ KeyOf[p] = ReviewOf(FactsApproved).sender
    <2> DEFINE b == Meaning[frame]
               review == Inspect[frame].review
    <2>1. approved = ReviewTransaction(review) /\ Reviewable(p, frame)
        BY <1>1 DEF LoopInv, Consented
    <2>2. FactsApproved = Facts(review)
        BY <2>1 DEF FactsApproved, ReviewTransaction
    <2>3. /\ b \in ByteString /\ IsSignatureFrame(b)
          /\ b.fields[6] \in ByteString /\ IsTransaction(b.fields[6])
          /\ BuildsReview(SignatureFrame(b), TransactionSignable(b.fields[6]))
          /\ review = ClearSigningReview(SignatureFrame(b), TransactionSignable(b.fields[6]))
          /\ review.sender = KeyOf[p]
        BY <2>1, ReviewableFrame
    <2> HIDE DEF review
    <2>4. ReviewOf(Facts(review)) = review
        BY <2>3, FactsTellReview
    <2>5. SignatureFrame(b).payload = b.fields[6]
        BY DEF SignatureFrame
    <2>6. b = Rebuilt(review)
        BY <2>3, <2>5, ReviewTellsFrame
    <2> QED
        BY <2>2, <2>3, <2>4, <2>6
<1>2. LoopInv => SignsTheFactsShown
    BY <1>1 DEF SignsTheFactsShown
<1> QED
    BY <1>2, LoopInvariant, PTL
=============================================================================
