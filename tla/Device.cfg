SPECIFICATION LoopSpec
CONSTANTS
    p1 = p1
    p2 = p2
    malformed = malformed
    k1 = k1
    k2 = k2
    NoPath = NoPath
    NoKey = NoKey
    NoReview <- MCNone
    MaxFrameLen = 3
    MaxChunkLen = 2
    MaxPayloadLen = 1400
    Byte <- MCByte
    Path <- MCPath
    EncodedPath <- MCEncodedPath
    PathOf <- MCPathOf
    Key <- MCKey
    KeyOf <- MCKeyOf
    Review <- MCReviews
    Inspect <- MCInspected
    Command <- MCCommand
    Displayable <- MCDisplayable
    Meaning <- MCMeaning
    TextLen <- MCTextLen
    NotUtf8 = {}
    BlankText = {}
    NonAscii = {"not ascii"}
    MaxChainIdLen = 64
    MaxMessageTypeLen = 32
    MaxEntrypointLen = 64
    MaxArgsLen = 40
    MaxAccessEntries = 4
    MaxFactLen = 96
    Policy <- MCPolicy
    ByteString <- MCByteString
INVARIANT SignsTheFactsShown
