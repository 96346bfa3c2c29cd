SPECIFICATION ScreenSpec
CONSTANTS
    TextLen <- MCFactTextLen
    NotUtf8 <- MCNotUtf8
    BlankText <- MCBlankText
    MaxChainIdLen = 64
    MaxMessageTypeLen = 32
    MaxEntrypointLen = 64
    MaxArgsLen = 40
    MaxAccessEntries = 4
    MaxPayloadLen = 1400
    Policy <- MCPolicy
    ByteString <- MCByteString
    MaxFactLen = 96
    NonAscii <- MCNonAscii
    Signer <- MCSigner
    NoKey = NoKey
    Message <- MCMessage
    Transfer <- MCTransfer
INVARIANTS
    EveryReviewIsShown
    FactsTellTheFrame
\* The adapter returns.
CHECK_DEADLOCK FALSE
