----------------------------- MODULE DeviceLoop -----------------------------
(***************************************************************************)
(* The device application around the core: the event loop of normal_main   *)
(* (crates/sunrise-edge-ledger-app/src/main.rs), which takes one command   *)
(* from the host, dispatches it, runs the review the outcome asks for,     *)
(* answers, shows a status and takes the next command.                     *)
(*                                                                         *)
(* The host, the user, the SDK and the power supply are the environment:   *)
(* the host sends any command of Command, the user approves or rejects,    *)
(* sending may fail, an answer that was sent may be lost, and the device   *)
(* may be switched off at any step.  A command that arrives during a       *)
(* review is answered by the SDK (6901) and reaches neither the loop nor   *)
(* the session: it is a stuttering step, and so is a command that is lost. *)
(*                                                                         *)
(* wire, told, claim and approved are history variables: what was sent,    *)
(* what that leaves the host to reckon with, and what the user agreed to.  *)
(* No action reads them to decide what the program does.  Comm::send does  *)
(* not say whether an answer arrived, so neither does any variable of the  *)
(* program: told is the set of sessions that fit the commands that reached *)
(* the loop and the answers that reached the host.                         *)
(***************************************************************************)
EXTENDS SigningSession

CONSTANT Displayable    \* the keys and reviews the UI can lay out

ASSUME DisplayableAssumption == Displayable \subseteq Key \cup Review

VARIABLES
    pc,         \* where the loop is
    answer,     \* the reply about to be sent
    popup,      \* the status to show after it
    wire,       \* the reply that was sent to the command in hand
    told,       \* the sessions the host has to reckon with
    claim,      \* what told becomes, and which frames the command completes
    approved    \* the review the user agreed to for the command in hand

loop == <<pc, answer, popup>>

history == <<wire, told, claim, approved>>

loopVars == <<vars, loop, history>>

-----------------------------------------------------------------------------
(* Replies. *)

NoData == [kind |-> "NoData"]

Configuration == [kind |-> "Configuration"]

PublicKey(key) == [kind |-> "PublicKey", key |-> key]

\* The status word each core status is sent as.
AppSW ==
    [Success |-> "Ok", UserRejected |-> "Deny", InvalidState |-> "InvalidState",
     InvalidData |-> "InvalidData", ProfileBoundExceeded |-> "ProfileBoundExceeded",
     InvalidP1P2 |-> "WrongP1P2", UnsupportedIns |-> "InsNotSupported",
     UnsupportedCla |-> "ClaNotSupported", InternalFailure |-> "InternalFailure"]

Answer(sw, data) == [sw |-> sw, data |-> data]

Silence == Answer("None", NoData)

\* What the Reply arm of the loop sends for a reply of the core.
AnswerTo(reply) ==
    Answer(AppSW[reply.status],
           IF reply.response = "Configuration" THEN Configuration ELSE NoData)

NoPopup == [type |-> "None", success |-> FALSE]

Popup(type, success) == [type |-> type, success |-> success]

\* What a session holds, as the host would put it.
Collection(p, total, bytes) == [path |-> p, total |-> total, bytes |-> bytes]

NoCollection == Collection(NoPath, 0, <<>>)

\* What a session with bytes in it may hold.
Collections == [path : Path, total : 1..MaxFrameLen, bytes : Frame]

Held == Collection(path, declared_total, PendingFrame)

-----------------------------------------------------------------------------

(* What the host makes of an answer. *)

\* What a FIRST begins, and what a further chunk makes of each session the host
\* reckons with.
Begun(c) == {Collection(PathOf[c.path], c.total, c.chunk)} \cap Collections

Grown(c) ==
    {[k EXCEPT !.bytes = @ \o c.chunk] : k \in told \ {NoCollection}} \cap Collections

\* The sessions that fit the success of command c.
Accepted(c) ==
    IF SignPart(c, FIRST) THEN {k \in Begun(c) : Len(k.bytes) < k.total}
    ELSE IF SignPart(c, CONTINUE) THEN {k \in Grown(c) : Len(k.bytes) < k.total}
    ELSE {NoCollection}

\* The frames that command c may complete.
Completed(c) == {k \in Grown(c) : SignPart(c, LAST) /\ Len(k.bytes) = k.total}

\* A success fits what the command makes of a session, any other answer an idle
\* session; without an answer the host has to reckon with both.
Concluded(c, reply) ==
    IF reply = Reply("Success", "Empty") THEN Accepted(c) ELSE {NoCollection}

Claim(c, reply) ==
    [answered |-> Concluded(c, reply),
     unanswered |-> Accepted(c) \cup {NoCollection},
     completed |-> Completed(c)]

NoClaim ==
    [answered |-> {NoCollection}, unanswered |-> {NoCollection}, completed |-> {}]

-----------------------------------------------------------------------------

NextCommand(c) ==
    /\ pc = "next_command"
    /\ Dispatch(c)
    /\ popup' = NoPopup
    /\ wire' = Silence
    /\ approved' = Nothing
    /\ claim' = Claim(c, outcome')
    /\ UNCHANGED told
    /\ \/ /\ outcome'.kind = "Reply"
          /\ answer' = AnswerTo(outcome')
          /\ pc' = "send"
       \/ /\ outcome'.kind = "ReviewPublicKey"
          /\ pc' = "address_review"
          /\ UNCHANGED answer
       \/ /\ outcome'.kind = "ReviewTransaction"
          /\ pc' = "transaction_review"
          /\ UNCHANGED answer

\* Sends the reply and leaves the session as it is.
RejectHeader_Slip ==
    /\ pc = "next_command"
    /\ \/ /\ wire' = Answer("SdkReply", NoData)
          /\ told' \in {{NoCollection}, told \cup {NoCollection}}
       \/ /\ wire' = Silence
          /\ told' = told \cup {NoCollection}
    /\ approved' = Nothing
    /\ UNCHANGED <<vars, loop, claim>>

\* The SDK could not decode the header: the loop resets the session, sends the
\* SDK's reply and does not look whether it was sent.
RejectHeader ==
    /\ pc = "next_command"
    /\ Reset
    /\ \/ /\ wire' = Answer("SdkReply", NoData)
          /\ told' \in {{NoCollection}, told \cup {NoCollection}}
       \/ /\ wire' = Silence
          /\ told' = told \cup {NoCollection}
    /\ approved' = Nothing
    /\ UNCHANGED <<loop, claim>>

Conclude(sw, data, status) ==
    /\ answer' = Answer(sw, data)
    /\ popup' = status
    /\ pc' = "send"

ApproveKey ==
    /\ pc = "address_review"
    /\ outcome.key \in Displayable
    /\ approved' = outcome
    /\ Conclude("Ok", PublicKey(outcome.key), Popup("Address", TRUE))
    /\ UNCHANGED <<vars, wire, told, claim>>

RejectKey ==
    /\ pc = "address_review"
    /\ outcome.key \in Displayable
    /\ Reset
    /\ Conclude("Deny", NoData, Popup("Address", FALSE))
    /\ UNCHANGED history

\* Resets and sends the key all the same.
KeyNotDisplayable_Slip ==
    /\ pc = "address_review"
    /\ outcome.key \notin Displayable
    /\ Reset
    /\ Conclude("Ok", PublicKey(outcome.key), Popup("Address", FALSE))
    /\ UNCHANGED history

KeyNotDisplayable ==
    /\ pc = "address_review"
    /\ outcome.key \notin Displayable
    /\ Reset
    /\ Conclude("InternalFailure", NoData, Popup("Address", FALSE))
    /\ UNCHANGED history

ApproveTransaction ==
    /\ pc = "transaction_review"
    /\ outcome.review \in Displayable
    /\ approved' = outcome
    /\ pc' = "sign"
    /\ UNCHANGED <<vars, answer, popup, wire, told, claim>>

\* Shows success whatever the signer returned.
Sign_Slip ==
    /\ pc = "sign"
    /\ ApproveAndSign
    /\ \/ /\ outcome'.kind = "Signature"
          /\ Conclude("Ok", outcome', Popup("Transaction", TRUE))
       \/ /\ outcome'.kind = "Reply"
          /\ Conclude(AppSW[outcome'.status], NoData, Popup("Transaction", TRUE))
    /\ UNCHANGED history

Sign ==
    /\ pc = "sign"
    /\ ApproveAndSign
    /\ \/ /\ outcome'.kind = "Signature"
          /\ Conclude("Ok", outcome', Popup("Transaction", TRUE))
       \/ /\ outcome'.kind = "Reply"
          /\ Conclude(AppSW[outcome'.status], NoData, Popup("Transaction", FALSE))
    /\ UNCHANGED history

\* Goes on to the answer without a rejection.
RejectTransaction_Slip ==
    /\ pc = "transaction_review"
    /\ outcome.review \in Displayable
    /\ Conclude("Deny", NoData, Popup("Transaction", FALSE))
    /\ UNCHANGED <<vars, history>>

RejectTransaction ==
    /\ pc = "transaction_review"
    /\ outcome.review \in Displayable
    /\ RejectReview
    /\ Conclude("Deny", NoData, Popup("Transaction", FALSE))
    /\ UNCHANGED history

\* Signs what could not be shown.
TransactionNotDisplayable_Slip ==
    /\ pc = "transaction_review"
    /\ outcome.review \notin Displayable
    /\ pc' = "sign"
    /\ UNCHANGED <<vars, answer, popup, history>>

TransactionNotDisplayable ==
    /\ pc = "transaction_review"
    /\ outcome.review \notin Displayable
    /\ RejectReview
    /\ Conclude("InternalFailure", NoData, Popup("Transaction", FALSE))
    /\ UNCHANGED history

AfterSend == IF popup = NoPopup THEN "next_command" ELSE "popup"

\* The answer is sent, and arrives or is lost: the loop cannot tell.
Send ==
    /\ pc = "send"
    /\ wire' = answer
    /\ told' \in {claim.answered, claim.unanswered}
    /\ pc' = AfterSend
    /\ UNCHANGED <<vars, answer, popup, claim, approved>>

\* Comm::send reports that the answer does not fit its buffer: nothing is sent.
\* The loop resets the session if it was the answer of dispatch, a public key or
\* a signature, and ignores the error after a rejection or a failure.
SendFails ==
    /\ pc = "send"
    /\ IF popup = NoPopup \/ answer.sw = "Ok" THEN Reset ELSE UNCHANGED vars
    /\ told' = claim.unanswered
    /\ pc' = AfterSend
    /\ UNCHANGED <<answer, popup, wire, claim, approved>>

\* Goes back to the answer.
ShowStatus_Slip ==
    /\ pc = "popup"
    /\ pc' = "send"
    /\ UNCHANGED <<vars, answer, popup, history>>

\* The status screen, then the home screen.
ShowStatus ==
    /\ pc = "popup"
    /\ pc' = "next_command"
    /\ UNCHANGED <<vars, answer, popup, history>>

\* The device is switched off and on: normal_main starts from the beginning,
\* and the host notices that its connection is gone.
Restart ==
    /\ state' = "Idle"
    /\ buffer' = Blank
    /\ buffered_len' = 0
    /\ declared_total' = 0
    /\ received_len' = 0
    /\ path' = NoPath
    /\ outcome' = Nothing
    /\ pc' = "next_command"
    /\ answer' = Silence
    /\ popup' = NoPopup
    /\ wire' = Silence
    /\ told' = {NoCollection}
    /\ claim' = NoClaim
    /\ approved' = Nothing

LoopInit ==
    /\ Init
    /\ pc = "next_command"
    /\ answer = Silence
    /\ popup = NoPopup
    /\ wire = Silence
    /\ told = {NoCollection}
    /\ claim = NoClaim
    /\ approved = Nothing

Decision ==
    \/ ApproveKey
    \/ RejectKey
    \/ ApproveTransaction
    \/ RejectTransaction

\* The steps the program takes by itself, without the host or the user.
DeviceStep ==
    \/ KeyNotDisplayable
    \/ TransactionNotDisplayable
    \/ Sign
    \/ Send
    \/ SendFails
    \/ ShowStatus

LoopNext ==
    \/ \E c \in Command : NextCommand(c)
    \/ RejectHeader
    \/ Decision
    \/ DeviceStep
    \/ Restart

\* The loop is one thread that never blocks outside next_command and the two
\* review screens.
LoopSpec == LoopInit /\ [][LoopNext]_loopVars /\ WF_loopVars(DeviceStep)

-----------------------------------------------------------------------------
(* Properties. *)

\* The loop is at one of its places, holds one of its replies, and the history
\* is made of sessions, replies and reviews.
LoopTypeOK ==
    /\ TypeOK
    /\ pc \in {"next_command", "address_review", "transaction_review", "sign",
               "send", "popup"}
    /\ {answer.sw, wire.sw} \subseteq
         {AppSW[status] : status \in DOMAIN AppSW} \cup {"None", "SdkReply"}
    /\ {answer.data, wire.data} \subseteq
         {NoData, Configuration} \cup {PublicKey(key) : key \in Key}
           \cup {Signature(p, frame) : p \in Path, frame \in Frame}
    /\ popup \in [type : {"None", "Address", "Transaction"}, success : BOOLEAN]
    /\ told \cup claim.answered \cup claim.unanswered \cup claim.completed
         \subseteq Collections \cup {NoCollection}
    /\ approved \in Outcome

\* Whenever the loop takes a command, the session is one the host reckons with:
\* idle after an answer of failure, exactly its chunks after a success, those of
\* every earlier chunk whose answer was lost among them.  After a lost answer it
\* is one of two, idle or with the chunk, and never a third.
HostAgrees == pc = "next_command" => Held \in told

\* A signed frame consists of the chunks of one sequence the host sent, FIRST to
\* LAST in their order, over the path and up to the total of that FIRST: no
\* chunk is missing, doubled or of another sequence, whichever answers were
\* lost on the way and whichever sequences were begun and given up before.
SignsWhatWasSent ==
    \A p \in Path, frame \in Frame :
       wire.data = Signature(p, frame) =>
         Collection(p, Len(frame), frame) \in claim.completed

\* A transaction review is on the screen exactly while its frame is pending and
\* shows the review of that frame; an address review never has a frame behind
\* it.  No step between the two can swap what is shown and what is signed.
ScreenShowsPending ==
    /\ pc \in {"transaction_review", "sign"} <=> state = "AwaitingApproval"
    /\ state = "AwaitingApproval" =>
         outcome = ReviewTransaction(Inspect[PendingFrame].review)
    /\ pc = "address_review" => state = "Idle" /\ outcome.kind = "ReviewPublicKey"

\* What is sent with a signature or a public key is what the user agreed to for
\* the command in hand: the signed frame is the one whose review was approved,
\* by the key of its sender, and the key is the one that was confirmed.
ReleaseHasConsent ==
    /\ \A p \in Path, frame \in Frame :
          wire.data = Signature(p, frame) =>
            /\ approved = ReviewTransaction(Inspect[frame].review)
            /\ Reviewable(p, frame)
    /\ \A key \in Key :
          wire.data = PublicKey(key) =>
            \E p \in Path : KeyOf[p] = key /\ approved = ReviewPublicKey(p, key)

\* What the user agreed to was laid out on the screen in full: no approval of a
\* review the UI could not display, and none is signed.
ConsentWasShown ==
    /\ approved.kind = "ReviewTransaction" => approved.review \in Displayable
    /\ approved.kind = "ReviewPublicKey" => approved.key \in Displayable
    /\ pc = "sign" => approved = outcome

\* The status screen reports success exactly when a signature or a key was to be
\* sent, and only after the user agreed.
StatusIsTruthful ==
    pc = "popup" =>
        /\ popup.success <=> answer.data.kind \in {"Signature", "PublicKey"}
        /\ popup.success => approved # Nothing

\* Once nothing is asked of the user the loop comes back for the next command,
\* whatever fails on the way.
LoopReturns == pc \in {"sign", "send", "popup"} ~> pc = "next_command"

=============================================================================
