SPECIFICATION Spec
CONSTANTS
    TextLen <- MCTextLen
    NotUtf8 <- MCNotUtf8
    BlankText <- MCBlankText
    MaxChainIdLen = 64
    MaxMessageTypeLen = 32
    MaxEntrypointLen = 64
    MaxArgsLen = 40
    MaxAccessEntries = 4
    MaxPayloadLen = 1400
    Policy <- MCPolicy
    ByteString <- MCByteString
    Signer <- MCSigner
    NoKey = NoKey
    Message <- MCMessage
    Transfer <- MCTransfer
INVARIANT OtherSchemesAreFrameErrors
CHECK_DEADLOCK FALSE
