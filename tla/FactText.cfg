SPECIFICATION TextSpec
CONSTANTS
    MaxFactLen = 8
    MaxNumber = 1023
    TempLen = 4
    Ascii <- MCAscii
    Colon <- MCColon
    LabelOf <- MCLabelOf
    Value <- MCValue
INVARIANTS
    TextTellsValue
    NeverTruncated
PROPERTY RenderingEnds
\* A text is rendered once.
CHECK_DEADLOCK FALSE
