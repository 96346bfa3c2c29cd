SPECIFICATION Spec
CONSTANTS
    Base = 2
    U16 = 2
    U32 = 2
    MaxRest = 10
    Magic <- MCMagic
    Input <- MCInput
    Encodable <- MCEncodable
INVARIANTS
    TypeOK
    AcceptedIsCanonical
    RefusedIsNotCanonical
    ScanAgrees
\* A decoder stops when it has decoded.
CHECK_DEADLOCK FALSE
