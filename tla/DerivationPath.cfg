SPECIFICATION PathSpec
CONSTANTS
    Base = 8
    Width = 2
    PURPOSE = 5
    COIN_TYPE = 12
    Wire <- MCWire
INVARIANTS
    DerivesWhatWasSent
    EveryAccountHasAPath
\* A path is decoded once.
CHECK_DEADLOCK FALSE
