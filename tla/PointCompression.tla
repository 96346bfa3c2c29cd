--------------------------- MODULE PointCompression ---------------------------
(***************************************************************************)
(* compress_ed25519_point                                                  *)
(* (crates/sunrise-edge-ledger-app/src/compression.rs): an uncompressed    *)
(* point becomes the 32 bytes of RFC 8032.  A coordinate is a function     *)
(* from its byte indices, counted from 0 as in the code; the base and the  *)
(* width are constants, so that every coordinate can be enumerated.        *)
(***************************************************************************)
EXTENDS Bytes

CONSTANTS
    KeyLen,         \* the bytes of a coordinate and of a key, 32 in the code
    Offset,         \* the field prime is half of Base^KeyLen less this, 19 in the code
    Point           \* what the SDK may return: header, x and y, big-endian

Half == Base \div 2

ASSUME FieldAssumption ==
    /\ Base = 2 * Half
    /\ KeyLen \in Nat /\ KeyLen > 2
    /\ Offset \in 1..(Base - 1)

Index == 0..(KeyLen - 1)
Top == KeyLen - 1
Uncompressed == 4

Coordinate == [Index -> Byte]

ASSUME PointAssumption == \A p \in Point : p.x \in Coordinate /\ p.y \in Coordinate

VARIABLES
    raw,            \* the point
    compressed,     \* the local of this name
    b,              \* the index of the scan
    stage           \* what is done next, or how the call ended

compressionVars == <<raw, compressed, b, stage>>

-----------------------------------------------------------------------------
CompressionInit ==
    /\ raw \in Point
    /\ compressed = [i \in Index |-> 0]
    /\ b = 0
    /\ stage = "header"

Turn(to) == stage' = to /\ UNCHANGED <<raw, compressed, b>>

CheckHeader ==
    /\ stage = "header"
    /\ Turn(IF raw.header # Uncompressed THEN "InvalidPointHeader" ELSE "reverse")

ReverseY ==
    /\ stage = "reverse"
    /\ compressed' = [i \in Index |-> raw.y[Top - i]]
    /\ stage' = "top"
    /\ UNCHANGED <<raw, b>>

\* Takes the sign bit for a bit of Y.
CheckTop_Slip ==
    /\ stage = "top"
    /\ b' = Top - 1
    /\ stage' = IF compressed[Top] = Half - 1 THEN "scan" ELSE "sign"
    /\ UNCHANGED <<raw, compressed>>

CheckTop ==
    /\ stage = "top"
    /\ b' = Top - 1
    /\ stage' = CASE compressed[Top] >= Half -> "FieldOverflow"
                   [] compressed[Top] = Half - 1 -> "scan"
                   [] OTHER -> "sign"
    /\ UNCHANGED <<raw, compressed>>

\* Leaves the loop before the byte at index 1.
ScanByte_Slip ==
    /\ stage = "scan"
    /\ stage' = IF compressed[b] # Base - 1 THEN "sign"
                ELSE IF b = 2 THEN "low" ELSE "scan"
    /\ b' = IF stage' = "scan" THEN b - 1 ELSE b
    /\ UNCHANGED <<raw, compressed>>

\* A byte that is not the largest leaves Y below the prime.
ScanByte ==
    /\ stage = "scan"
    /\ stage' = IF compressed[b] # Base - 1 THEN "sign"
                ELSE IF b = 1 THEN "low" ELSE "scan"
    /\ b' = IF stage' = "scan" THEN b - 1 ELSE b
    /\ UNCHANGED <<raw, compressed>>

CheckLow ==
    /\ stage = "low"
    /\ Turn(IF compressed[0] >= Base - Offset THEN "FieldOverflow" ELSE "sign")

\* Takes the parity of the most significant byte of X.
PackSign_Slip ==
    /\ stage = "sign"
    /\ compressed' = IF raw.x[0] % 2 = 1
                     THEN [compressed EXCEPT ![Top] = (@ % Half) + Half] ELSE compressed
    /\ stage' = "done"
    /\ UNCHANGED <<raw, b>>

PackSign ==
    /\ stage = "sign"
    /\ compressed' = IF raw.x[Top] % 2 = 1
                     THEN [compressed EXCEPT ![Top] = (@ % Half) + Half] ELSE compressed
    /\ stage' = "done"
    /\ UNCHANGED <<raw, b>>

Done ==
    /\ stage \in {"done", "InvalidPointHeader", "FieldOverflow"}
    /\ UNCHANGED compressionVars

CompressionNext ==
    \/ CheckHeader
    \/ ReverseY
    \/ CheckTop
    \/ ScanByte
    \/ CheckLow
    \/ PackSign
    \/ Done

CompressionSpec == CompressionInit /\ [][CompressionNext]_compressionVars

-----------------------------------------------------------------------------
(* Properties. *)

\* The bytes of a coordinate in their order.
InOrder(bytes) == [i \in 1..KeyLen |-> bytes[i - 1]]

Sign == Half * Power(Base, Top)        \* the weight of the bit the sign goes into
Prime == Sign - Offset

Y == BigEndian(InOrder(raw.y))
X == BigEndian(InOrder(raw.x))

\* The scan of bytes is the comparison with the prime: the coordinates of the
\* field are accepted and no others, at the boundary too.
AcceptsTheField ==
    /\ stage = "done" => Y < Prime
    /\ stage = "FieldOverflow" => Y >= Prime

\* Y and the sign of X are read back from the compressed key, so no two points
\* of a curve share one and the key is not reversed twice.
DecompressesToThePoint ==
    stage = "done" =>
        LET key == LittleEndian(InOrder(compressed))
        IN  /\ key % Sign = Y
            /\ key \div Sign = X % 2
            /\ raw.header = Uncompressed

=============================================================================
