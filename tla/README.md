# Sunrise Edge Ledger App: a TLA+ model

This directory models the Sunrise Edge Ledger application
(`src/crates/sunrise-edge-ledger-core` and `src/crates/sunrise-edge-ledger-app`) in TLA+, checks it
with TLC on small instances and proves with TLAPS, for all instances, every invariant and action property
that holds there. Two liveness properties stay with TLC.

## The system

A Ledger device holds an Ed25519 key. A host sends it a transaction in chunks (APDU commands); the
device assembles the frame, decodes it, checks that its sender is the key of the requested derivation
path and that it is one known kind of transfer, shows what it says, and signs exactly those bytes if
the user agrees. There is one thread. What makes the program hard is not parallelism but order: any
command may come at any time, each may fail at any of a dozen checks, the review and the signature are
two calls with a screen and a user in between, answers may get lost and the power may go.

| part | state | operations | interacts with |
|---|---|---|---|
| dispatcher and signing session (`apdu.rs`) | `SigningSession`: state, 4096-byte buffer, three lengths, path | `dispatch` with one handler per instruction; `approve_and_sign`, `reject_review`, `reset` | is called by the loop; calls the decoders, the deriver and the signer |
| event loop (`main.rs`) | the session, the position in the loop | `normal_main` | SDK transport and screens, dispatcher |
| status words (`status.rs`) | none | conversion of core status words | loop |
| screens (`app_ui.rs`) | none | address review, transaction review: yes, no, or an error | loop, review facts |
| derivation and signing (`derivation.rs`) | none | `derive`, `sign`; both may fail | session, SDK cryptography |
| canonical decoder (`canonical.rs`) | offset in the input | `decode_canonical_frame`, `field`, `require_only_fields`, typed accessors | all decoders |
| frame, transaction decoders (`frame.rs`, `transaction.rs`, `types.rs`) | none | one decoder per nested frame | `handle_last` |
| policy and review (`policy.rs`, `review.rs`) | none | `recognize`, `build_review` | `handle_last` |
| path decoder (`path.rs`) | none | `decode_path` | FIRST, VERIFY_PUBLIC_KEY |
| review facts (`review_ui.rs`) | none | `format_review_facts` and bounded strings | screens |
| point compression (`compression.rs`) | none | `compress_ed25519_point` | deriver |

What makes each part correct:

- *Session.* A signature is over the very frame whose review was handed out, by the key of the path
  whose public key is the frame's sender; whatever goes wrong, nothing of a frame stays behind and the
  host can begin again; bytes that were accepted do not change.
- *Loop.* Nothing is sent without the user's consent to what was on the screen; the user is never shown
  a success that was not sent; whichever answers are lost, the session is one that the host can reckon
  with, and a signed frame is made of the chunks of one sequence; the loop always comes back for the next
  command.
- *Canonical decoder.* It accepts exactly the encodings, so that two byte strings are never one frame.
- *Decoders, policy, review.* What is displayed determines every byte that is signed, and exactly the
  transfers the policy describes are displayed.
- *Facts and screen.* Every review that passes the policy can be laid out, its facts spell out the one
  frame that is signed, and a value is shown whole or not at all.
- *Path decoder.* A key is derived from exactly the components the host sent, and every account of the
  profile can be named.
- *Point compression.* It accepts exactly the field, without arithmetic wider than a byte, and loses
  nothing of the point.
- *The device as a whole.* Whoever reads the facts and agrees gets a signature over the frame they spell
  out, and over no other.

## The modules

| module | models | how |
|---|---|---|
| `ClearSigner` | what the session promises | an offer that is opened, extended, submitted whole if it is acceptable, and then signed or abandoned |
| `SigningSession` | `apdu.rs` | one action per handler and per early return of `dispatch`, one per adapter call; the fields of the session are the variables, `outcome` is what the last call returned |
| `DeviceLoop` | `main.rs`, `status.rs`, what `app_ui.rs` returns | extends `SigningSession`: every action is an arm of the loop around a call on the session |
| `FrameChecks` | the checks of `handle_last` | the status of a completed frame, given what each call would return; `SigningSession` extends it |
| `CanonicalFrame` | `canonical.rs` | one action per part of the pass (magic, header, field, end), over real bytes |
| `Decoders` | `frame.rs`, `transaction.rs`, `policy.rs`, `review.rs`, `types.rs` | a decoder is a predicate and the value it returns, over canonical frames as nested records; `Inspected` is all of them on one frame |
| `ClearSigning` | the calls in `handle_last` | one action per call, over `Decoders` |
| `ManifestDecoder` | `decode_access_manifest` | its loops, one action per entry and per pair, and the fixed array they fill |
| `ReviewFacts` | `review_ui.rs`, the labels of `types.rs` | the 32 facts of a review, which reviews have them, and what a reader makes of them |
| `ReviewScreen` | the transaction screen (`app_ui.rs`) | `ClearSigning` and then the screen |
| `FactText` | `BoundedFactStr` | how one value becomes characters; the loop of `from_u64` digit by digit |
| `DerivationPath` | `path.rs`, the components in `derivation.rs` | decode, then what the SDK is asked to derive |
| `PointCompression` | `compression.rs` | the byte-wise comparison, one action per byte; the reversal; the sign bit |
| `Numerals`, `Bytes` | the conversions between numbers and digits (`to_le_bytes`, `from_be_bytes`, ...) | recursive functions over the digits, in any base; a byte is a digit of `Base` |
| `Device` | the whole | extends `DeviceLoop`, with the decoders, the policy and the formatter in place of what the loop leaves open |
| `MC...` | the instances for TLC | constants as definitions and model values; `MCParts` collects the byte strings nested in given ones |
| `SigningSessionProofs` | | theorems about the session, and that it implements `ClearSigner` |
| `DecodersProofs` | | lemmas: what each decoder accepts encodes back, a review tells its frame, facts tell their review |
| `ClearSigningProofs` | | theorems about the calls of `handle_last` and the review screen |
| `DeviceProofs` | | that the loop is a use of the session, theorems about the loop, and theorems about the whole |
| `ManifestDecoderProofs` | | theorems about the loops of `decode_access_manifest` |
| `NumeralsProofs` | | recursive functions on `0..n`, and numbers and their digits in any base |
| `CanonicalFrameProofs` | | theorems about the canonical decoder |
| `ConversionProofs` | | theorems about the path decoder, the compression and the rendering of values |

`SigningSession` and `DeviceLoop` do not look into frames: the constant `Inspect` gives, for each byte
string, what the decoders make of it, and `Displayable` what the screens can lay out. This keeps the
proofs free of the decoders. The levels meet in three places:

- `ClearSigning` takes the checks of LAST one call at a time. `VerdictAgrees` says that it ends as
  `FrameStatus`, the one step of the session, says for the same frame and key, `Inspect` being
  `Inspected`.
- `Device` assumes of its constants that `Inspect` is `Inspected` of what the bytes mean, and
  `Displayable` what `Formats`; TLC evaluates both assumptions. Its properties begin at the facts on the
  screen and end at the signature on the wire.
- `CanonicalFrame` is what makes records of bytes. `Decoders` assumes of its byte strings
  (`ByteStringAssumption`) only that one read as a number, a text or a frame is made up of what is read,
  and that the fields of a frame are byte strings again. That a record stands for one byte string,
  and one byte string for no two records, is what `OnlyCanonicalIsAccepted` proves for the real bytes:
  an accepted input is the encoding of what was decoded from it. `EncodingsAreAccepted` is the converse.
  The step from one to the other is by this argument, since the two modules describe different data.

`ManifestDecoder` and `FactText` do in single steps what `Decoders` and `ReviewFacts` say in a formula
(`LoopsAgree`; a fact is read back as the value it was made from, `TextTellsValue`).

Correspondence worth knowing:

- `dispatch` is four layers of checks. `RefuseCla`, `RefuseConflict` and `RefuseIns` are the first ones,
  `Admitted` is their absence. `Fail` is a failure reply with the wipe that either the handler or the end
  of `dispatch` makes; the two are one step because nothing can come between them.
- A `LAST` that fails after its append wipes the appended bytes too (the middle disjunct of
  `HandleLast`), which matters because `wipe` zeroes the buffered prefix only.
- The u32 and usize arithmetic of `append_chunk` and `handle_continue` cannot wrap: lengths stay
  within `MAX_FRAME_LEN` (theorem `TypeCorrect`), so the branches for it are the `InternalFailure` ones
  that `DefensiveBranchesDead` shows to be dead. FIRST compares its total with `MAX_FRAME_LEN` before
  anything else uses it.
- The deriver and the signer are external: `Derived`, `SignPending` and `CompareSender` let them fail at
  any time; what they return otherwise is determined by the path, and by the path and the frame.
- `handle_last` takes `MAX_TRANSACTION_PAYLOAD_LEN` before it decodes the transaction; an oversized
  payload is therefore `ProfileBoundExceeded` even when it does not decode. `FrameChecks` keeps the order.
- `Formats` stands for all the errors of the formatter at once, since `app_ui.rs` maps each of them to
  `InternalFailure` and shows nothing. Facts are built in one array before anything is displayed, so a
  failing one leaves no half review.
- A fact in `ReviewFacts` is what it was rendered from, with its kind and its length; `FactText` shows for
  each kind that nothing is lost on the way to characters. `from_u64` is the one rendering that checks no
  bound, hence `RenderingEnds`: a write past its array would be a panic, a step that is not there.
- In `PointCompression` the prime has the shape of the real one, half of `Base^Width` less `Offset`, and the
  code's three groups of byte comparisons (the highest byte, those between, the lowest) are its actions.
- `Comm::send` reports only that an answer does not fit its buffer, which the source calls no "claim of
  disconnect detection" (`main.rs:203-205`). `SendFails` is that error: nothing is sent, and the session
  is reset where the code resets it. `Send` is a send without an error, whose answer may arrive or be
  lost; the loop cannot tell, so it does nothing about it. After a lost success the session goes on
  collecting while the host was told nothing, and it is not claimed that the two agree then.
- `wire`, `told`, `claim` and `approved` of `DeviceLoop` are history variables. `told` is the set of
  sessions that fit the commands that reached the loop and the answers that reached the host: after an
  answer what follows from it, after a lost one that or an idle session, for each session the host had to
  reckon with before. `HostAgrees` says that the session is always one of them, `SignsWhatWasSent` that a
  frame that is signed is one of those its command could complete. `claim` holds what `told` becomes, for
  either outcome, and these frames.
- A command that is lost on its way, or arrives during a review and is answered by the SDK, does not reach
  the loop and is no step. A host that does not know whether its command arrived has to reckon with what
  `told` was before the command as well.
- `Restart` is the device being switched off at any step. The session is not persistent, so it is new, and
  the host notices that its connection is gone.

Definitions ending in `_Slip` are wrong forms of the definition that follows them, each with a comment
that says what is wrong. No specification uses them. They document, and let one check, that a property
would notice such a mistake: put in place of the right form, the property named in `PROJECT.json` fails.

## The runs

| run | module and configuration | states | shows |
|---|---|---|---|
| `session` | `MCSigningSession`, `SigningSession.cfg` | 162 | the session's invariants, its action properties, and that it implements `ClearSigner` |
| `loop` | `MCDeviceLoop`, `DeviceLoop.cfg` | 27437 | consent, truthful status, return of the loop; whatever answers are lost, the session is one the host reckons with and a signed frame is of one sequence |
| `device` | `MCDevice`, `Device.cfg` | 5580 | with real decoders, policy and formatter: a signature is over the frame the approved facts spell out |
| `canonical` | `MCCanonicalFrame`, `CanonicalFrame.cfg` | 39373 | accepted inputs are exactly the encodings; the scans agree with the decode |
| `clear_signing` | `MCClearSigning`, `ClearSigning.cfg` | 9470 | decoding loses nothing; a review hides nothing; every transfer is displayed; the calls end as the session's step says |
| `manifest` | `MCManifestDecoder`, `ManifestDecoder.cfg` | 7347 | the loops accept what the formula says and never fill the array |
| `review_screen` | `MCReviewScreen`, `ReviewScreen.cfg` | 10895 | every review is shown; the facts alone determine the frame |
| `fact_text` | `MCFactText`, `FactText.cfg` | 9698 | a text is complete and read back as its value, or refused for a reason it has, and rendering ends |
| `path` | `MCDerivationPath`, `DerivationPath.cfg` | 8262 | keys are derived from what was sent; every account has a path |
| `compression` | `MCPointCompression`, `PointCompression.cfg` | 27972 | exactly the field is accepted; the key gives back Y and the sign of X |
| `scheme_rejection` | `MCClearSigning`, `SchemeRejection.cfg` | violated | see the findings |
| `empty_chain_id` | `MCClearSigning`, `EmptyChainId.cfg` | violated | see the findings |

Bounds, and why they are enough (the theorems lift those of the session, the loop, the device, the
canonical decoder, the clear signing, the manifest, the review screen, the texts, the paths and the
compression):

- *Session and loop.* Frames of four bytes and chunks of two. With these a frame takes FIRST,
  several CONTINUE and LAST, so that the answer to each of three parts may be lost; totals of zero, of the whole buffer and one more than it occur, and so do
  chunks that are empty, that complete the total, that exceed it, and that are longer than the bound.
  Three byte values tell a zeroed byte, two frames and a frame that does not decode apart. A review is
  the frame itself, so that signing any other bytes than those reviewed shows. A frame may fill the buffer and still
  be reviewed, or fill it and exceed the bound of the payload. There are two paths with
  different keys and one that does not decode. The session reaches few states because every failure leads
  to the same idle session, which is what `FailureEndsSession` and `IdleHoldsNothing` are about; there are
  several hundred different commands. The loop reaches more, as the host may reckon with several sessions. The proofs lift the bounds.
- *Canonical.* Two byte values and two-byte integers, so byte order and lengths matter. Every input of up
  to six bytes, and behind a fixed header every field count and every ten bytes: two fields with their
  bytes, a length that reaches beyond the end, equal and descending identifiers, bytes too many.
- *Clear signing.* The transfers are 48 with different nonces, amounts, limits, fees and objects. From
  one of them everything that differs in one place at any depth (a number, text, length, type, version; a
  field dropped, added or renumbered), and every change of a value together with a change in the outer
  frame, so that the two copies of the signed context can change alike. The identifiers and lengths are
  the code's own, except that four access entries are the most (eight in the code) and 1400 bytes the
  longest payload (3072), so that either bound is met without the other.

- *Device.* The commands of the session, over frames of up to three bytes that mean something: two
  transfers from each of two senders, with amount and highest fee exchanged in one of them; frames with
  another scheme, entrypoint, no fee or no amount; texts that cannot be displayed; and bytes that are no
  frame. Its messages are few because `review_screen` has the many; what it adds is the way through the
  session.
- *Manifest.* An array of three and up to four fields, so the array is filled, one field is too many, and
  with three entries the first and the last are a pair that neighbours would not show.
- *Review screen.* The messages of `clear_signing` and one more text, which is UTF-8 and not ASCII, in one
  or both copies of the chain identifier; lengths, label lengths and `MAX_FACT_LEN` are the code's own.
- *Fact text.* Numbers of ten bits with room for four digits and texts of eight characters: the largest
  number needs all the room, as u64::MAX does of twenty, and for each kind there are values on both sides
  of the bound, digests with a short and a long label among them.
- *Path.* Components of two bytes of three bits: the purpose, the coin type and the highest account each
  need both bytes and the hardened bit. Every account, every change of one byte of its path, every
  change of two bytes of one path, and strings too short and too long.
- *Compression.* Five bytes of two bits: the prime is 509 and all 1024 values of Y are tried, so both its
  sides are, and there are several bytes between the outer ones. X is odd and even in its first and its
  last byte independently, so that the parity of the wrong end shows.

`CHECK_DEADLOCK FALSE` is set where a program text ends (a decoder, `handle_last`, a rendering): it has
no next step. The session, the loop and the device never stop and are checked for deadlock.

Fairness. `LoopSpec` assumes weak fairness of `DeviceStep`, the steps the single thread takes without
host or user: the loop never blocks there. No fairness is assumed of the host, the user, or the
transport; whether a send succeeds and its answer arrives is left open, since every outcome is a
`DeviceStep`.
`LoopReturns` follows for every behaviour, however often sends fail. `FactText` assumes weak fairness of its
one straight-line call, which does not wait for anything; `RenderingEnds` then fails exactly if a digit
has no room.

## The proofs

TLAPS checks every theorem below for all values of the constants that satisfy the assumptions stated with
them; TLC evaluates the same assumptions in the runs. They are:

- *Session and loop.* Zero is a byte, the bounds of frame and chunk are positive, paths decode to a path or
  to none, every path has a key, and `Inspect` returns an inspection. What the screens can lay out
  (`Displayable`) is any set of keys and reviews. Nothing is assumed of what the decoders do.
- *Decoders, facts.* `ByteStringAssumption`, explained above. A fact holds at least the 75 characters of a
  digest with the longest label (`MAX_FACT_LEN` is 96), and the constants of the policy
  (`policy.rs:165-190`) and the labels of `types.rs` are ASCII and short enough (`FactLenAssumption`). The
  policy's label for the amount ("amount") is the name of no other fact (`LabelAssumption`); otherwise
  two facts on the screen would have one name.
- *Device.* `Inspect` is `Inspected` of what the bytes mean, and `Displayable` is what `Formats`.
- *Transfers.* Only `TransfersDisplayed` uses these. The texts of the policy are UTF-8, not blank and
  within the bounds of the decoders, and a manifest of three entries is within its bound
  (`ProfileAssumption`; the constants of `policy.rs:165-190`, `frame.rs:24-26`,
  `transaction.rs:45` and `types.rs:438`). A transfer that is to be
  displayed is by the signer, of an amount that is not zero, with three entries to write to, a fee from
  the first of them, and arguments and payload within their bounds (`TransferAssumption`).
- *Manifest.* The array has room for at least one entry.
- *Canonical.* A byte has at least two values, integers have at least one byte, the magic is bytes. The
  frames compared with the encoder have numbers that fit their integers, as the encoder's arguments do by
  their types (`EncodableAssumption`).
- *Paths.* The base is even, so that a component has a highest bit, and purpose and coin type do not use it
  (`ComponentAssumption`; 44 and 21333, `path.rs:17-18`).
- *Compression.* The base is even, a coordinate has more than two bytes, and the prime differs from half the
  range in its lowest byte only (`FieldAssumption`: 256, 32 and 19 in the code).
- *Texts.* The largest number has at most as many digits as the array of `from_u64` has bytes (twenty for
  u64::MAX), and that array is no longer than a fact (`BoundAssumption`). Hexadecimal digits and the colon
  are ASCII (`CharAssumption`). Labels are ASCII without a colon, and no two algorithms share one
  (`LabelAssumption`), without which a digest could not be read back.

### Session

The inductive invariant is `SessionInv`, the conjunction of `TypeOK`, `NoResidue`, `IdleHoldsNothing`,
`Accounting`, `PendingIsReviewed` and `FailureEndsSession`. The conjuncts need each other:

- that a wipe leaves a blank buffer needs `NoResidue`, since it zeroes the buffered prefix only, and
  that `NoResidue` survives an append needs the bounds of `TypeOK` and `buffered_len = received_len`;
- that a LAST completes the declared total, and hence that its append stays in the buffer, needs
  `Accounting`, and FIRST establishes it only because `IdleHoldsNothing` holds before it;
- that what is pending was reviewed needs the path of FIRST to be there (`IdleHoldsNothing`) and the
  buffer to hold what `CompletedFrame` says (`Accounting`).

| theorem | says |
|---|---|
| `SessionInvariant` | the session always satisfies `SessionInv` |
| `TypeCorrect`, `WipedClean`, `Accounted`, `OnlyReviewedPends`, `FailureIsFinal`, `DefenceIsDead`, `IdleIsEmpty` | the invariants of the run `session` |
| `BytesStand`, `OnlyReviewedIsSigned` | its action properties |
| `Implementation` | the session implements `ClearSigner`: a live session is an offer, and each call is one step of the abstract signer or none |

### Loop

`LoopImplementsSession` is proved first: every arm of the loop, a power cycle among them, is a step of the
session or none, so that `SessionInv` holds in the loop. The properties of the loop speak of the moments
when a command is taken, a review is shown or an answer was sent. `LoopInv` adds to `SessionInv` what leads
up to those moments:

- `Synced`: the session is among those the host will reckon with, whether it gets the answer about to be
  sent or not, and an idle one always is among those after no answer. Without it, `HostAgrees` is lost at the
  send. It includes that whoever leaves the loop by way of a status screen leaves an idle session. That
  it survives a command is the work (`ConclusionIsHeld`): whatever `dispatch` does to the session, one of the
  sessions the host reckons with becomes what the session now holds.
- `ReviewsWhatWasSent`: the frame under review is one that the command in hand completes. It follows from
  `HostAgrees` before the command, and nothing changes it up to the signature.
- `Unanswered`: nothing was sent for this command before its answer is. Hence what is on the wire after the
  send is the answer and nothing else.
- `Consented` of the answer as well as of the wire: what is about to be released is what the host sent and
  the user agreed to.
- `KeyIsReviewed`, `ScreenShowsPending`: what a review on the screen is about is what the user agrees to.
- `AnswerIsTruthful`: what the status screen will say agrees with what is sent, before it is.

| theorem | says |
|---|---|
| `LoopImplementsSession` | every behaviour of the loop is one of the session |
| `LoopInvariant` | the loop always satisfies `LoopInv` |
| `LoopTypeCorrect`, `HostsAgree`, `SignedIsSent`, `PendingIsOnScreen`, `ConsentBeforeRelease`, `OnlyShownIsAgreed`, `StatusTruthful` | the invariants of the run `loop` |

### Decoders, policy, review and facts

`DecodersProofs` has one lemma per decoder: whatever it accepts is the encoding of what it returns, so that
nothing of the bytes is lost. On them rest three facts: a review with the policy determines the frame it was
built from (`ReviewTellsFrame`), the facts on the screen determine the review (`FactsTellReview`), and every
review of a recognized transaction formats.

In `ClearSigning` a call relies on the calls before it: `SigningInv` says, for each place in `handle_last`,
what the calls so far have let through and what they returned, and for each way out the reason it was
taken. `VerdictAgrees` needs the reasons: the single step of the session decides by the same conditions in
one formula. `ScreenInv` adds that the facts shown are those of the review.

`TransfersDisplayed` goes the other way, and needs the reasons too. One lemma per decoder says that what the
encoder makes of a reference, an entry, a manifest, a fee, a transaction or a frame is accepted and decodes
to what it was made from (`ReferenceDecodes` to `FrameDecodes`). By `TransferPasses` the frame of a transfer
then meets none of the reasons for which `handle_last` refuses; what remains is a deriver that fails.

| theorem | says |
|---|---|
| `SigningInvariant` | `handle_last` always satisfies `SigningInv` |
| `CallsTypeCorrect`, `NothingLostInDecoding`, `NothingHidden`, `TransfersDisplayed`, `VerdictsAgree` | the invariants of the run `clear_signing` |
| `ReviewsAreShown`, `FactsTell` | the invariants of the run `review_screen` |

### The device as a whole

`SignsTheFactsShown` is the composition: a signature on the wire was agreed to, on a review of the very
frame (`ConsentBeforeRelease`); that review formats and its facts determine it (`FactsTellReview`); and a
review determines its frame (`ReviewTellsFrame`). So no other frame has the facts the user saw.

| theorem | says |
|---|---|
| `FactsShownAreSigned` | the invariant of the run `device` |

### Manifest

`ManifestInv` says that the array holds the entries of the fields decoded so far, in order and without a
gap, that the pairs the two nested loops have passed are of different objects, and that a refusal had a
reason. The last is what `LoopsAgree` needs in the other direction: whatever the formula accepts, the loops
do not refuse.

| theorem | says |
|---|---|
| `ManifestInvariant` | the loops always satisfy `ManifestInv` |
| `PushSucceeds`, `LoopsAreRight` | the invariants of the run `manifest` |

### Canonical decoder

`FrameInv` relates the pass to the encoder, which it never calls, and to the scan that comes after it:

- `Taken`: the bytes taken so far are the encoding of what was read from them. At the end that is
  `AcceptedIsCanonical`; before it, one more field read is one more field encoded.
- `InOrder`: the fields ascend, and `previous` is the last identifier. Comparing neighbours is enough only
  because of it.
- `Scanned`: the scan of `field()`, which starts over at the first field and reads
  every length again, finds each field where it was read and arrives where the pass is. `ScanAgrees` follows from it at the end.

For the converse (`RefusedIsNotCanonical`), `EncodingsFollow` is the invariant: on the encoding of a frame
the pass is at the start of one of its fields and has not failed. It is relative to `FrameInv`.

The decoder's scan, its integers and the encoder are recursive functions. The library's induction theorems
cannot be instantiated here, so `NumeralsProofs` shows what such functions compute by the least number for
which it would fail (`LeastElement`, `UpTo`), and that they exist at all in the same way, for the set of
functions that obey the recursion up to a number (`RecursionDefines`). On top of that `DigitsOfNumber` and
`NumberOfDigits` say that reading a number and writing one are inverse to each other in every base; all the
conversions below use them.

| theorem | says |
|---|---|
| `FrameInvariant` | the pass always satisfies `FrameInv` |
| `FrameTypeCorrect`, `OnlyCanonicalIsAccepted`, `EncodingsAreAccepted`, `ScansAgree` | the invariants of the run `canonical` |

### Paths

`PathInv` says that what was decided was decided from the bytes, and that the components handed to the SDK
are those of the decoded account. `DerivesWhatWasSent` then needs the arithmetic: a component that was
hardened, split into bytes, read back and stripped of its highest bit is the one it was. In the other
direction (`AccountIsAccepted`) the encoding of every account passes all the checks of `decode_path`.

| theorem | says |
|---|---|
| `PathInvariant` | decoding always satisfies `PathInv` |
| `SentComponents`, `EveryAccount` | the invariants of the run `path` |

### Compression

`CompressionInv` says that during the scan all bytes above the current one equal those of the prime
(`LikePrime`), and that the reversed bytes are those of Y. A byte that differs decides the comparison of the
numbers (`SmallerTop`, `SmallerInside`, `LastByte`), because what the bytes below it can add is less than one
of its units. The sign bit has room because Y is below the prime, which is below half the range
(`HighBitFree`), and reading it back does not disturb Y (`SignAdds`).

| theorem | says |
|---|---|
| `CompressionInvariant` | the call always satisfies `CompressionInv` |
| `FieldMembers`, `KeyTellsThePoint` | the invariants of the run `compression` |

### Texts

`TextInv` says that the digits found so far are the last ones of the number, and that `num` is what is left
of it; that a text which is done is read back as its value, is ASCII and has all its characters; and that a
refusal for length had a text that was too long, one for its characters a text that is not ASCII. A number
is complete because it is below the power of ten of its digits (`NumberIsComplete`). That `from_u64` never writes past its array is the safety half of `RenderingEnds`
(`NoDigitPastTheArray`): a number below a power of ten has no digit left after that many divisions.

| theorem | says |
|---|---|
| `TextInvariant` | rendering always satisfies `TextInv` |
| `TextIsReadBack`, `CompleteOrRefused` | the invariants of the run `fact_text` |
| `NoDigitPastTheArray` | when `from_u64` looks for a digit its array has room |

### Only model-checked

- Liveness under fairness is beyond the prover: `LoopReturns`, `RenderingEnds`.
- What the wrong forms (`_Slip`) break is shown by TLC only.

## Findings

Both are comments that say less or more than the code does; neither changes what a host or user sees.

- `types.rs:256-257` says that Secp256k1 is "always an `FrameError` rejection". The frame decoder accepts
  the scheme, and `build_review` refuses it as `UnsupportedSignatureScheme` (`review.rs:156-158`). Run
  `scheme_rejection`.
- `transaction.rs:58` says the `ChainId` error is for a `chain_id` that is "empty or too large". The
  decoder accepts an empty one; the comparison with the frame's chain identifier, which is never blank,
  refuses it. Run `empty_chain_id`.

## Not modelled

- layout of screens, pages and glyphs, and the numeric values of status words: nothing depends on them;
- the SDK and the operating system (transport, the reply to a command during a review, panics), and the
  Ed25519 arithmetic: not in this repository, and taken as said under "Correspondence worth knowing";
- `Display` and the other conversions of the bounded types that only tests use;
- crate roots, tests, scripts and build files: they have no behaviour of their own.

What could come next: the two levels of bytes, `CanonicalFrame` and `Decoders`, joined by a mapping from
byte sequences to records instead of the argument given above.
