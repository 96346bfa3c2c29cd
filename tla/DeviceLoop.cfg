SPECIFICATION LoopSpec
CONSTANTS
    p1 = p1
    p2 = p2
    malformed = malformed
    k1 = k1
    k2 = k2
    NoPath = NoPath
    NoKey = NoKey
    NoReview = NoReview
    MaxFrameLen = 4
    MaxChunkLen = 2
    MaxPayloadLen = 3
    Byte <- MCByte
    Path <- MCPath
    EncodedPath <- MCEncodedPath
    PathOf <- MCPathOf
    Key <- MCKey
    KeyOf <- MCKeyOf
    Review <- MCReview
    Inspect <- MCInspect
    Command <- MCCommand
    Displayable <- MCDisplayable
INVARIANTS
    LoopTypeOK
    HostAgrees
    SignsWhatWasSent
    ScreenShowsPending
    ReleaseHasConsent
    ConsentWasShown
    StatusIsTruthful
PROPERTY LoopReturns
