SPECIFICATION Spec
CONSTANTS
    TextLen <- MCTextLen
    NotUtf8 = {}
    BlankText = {}
    MaxChainIdLen = 64
    MaxMessageTypeLen = 32
    MaxEntrypointLen = 64
    MaxArgsLen = 40
    MaxAccessEntries = 3
    Policy <- MCPolicy
    ByteString <- MCByteString
    Input <- MCInput
INVARIANTS
    PushNeverFails
    LoopsAgree
