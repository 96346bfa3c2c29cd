SPECIFICATION Spec
CONSTANTS
    p1 = p1
    p2 = p2
    malformed = malformed
    k1 = k1
    k2 = k2
    NoPath = NoPath
    NoKey = NoKey
    NoReview = NoReview
    MaxFrameLen = 4
    MaxChunkLen = 2
    MaxPayloadLen = 3
    Byte <- MCByte
    Path <- MCPath
    EncodedPath <- MCEncodedPath
    PathOf <- MCPathOf
    Key <- MCKey
    KeyOf <- MCKeyOf
    Review <- MCReview
    Inspect <- MCInspect
    Command <- MCCommand
INVARIANTS
    TypeOK
    NoResidue
    IdleHoldsNothing
    Accounting
    PendingIsReviewed
    FailureEndsSession
    DefensiveBranchesDead
PROPERTIES
    SignsOnlyWhatWasReviewed
    AcceptedBytesStand
    ImplementsClearSigner
