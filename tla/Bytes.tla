-------------------------------- MODULE Bytes --------------------------------
(***************************************************************************)
(* Bytes of any base, and the numbers that are read from them and written  *)
(* with them.                                                              *)
(***************************************************************************)
EXTENDS Numerals

CONSTANT Base       \* the number of values of a byte, 256 in the code

ASSUME BaseAssumption == Base \in Nat \ {0, 1}

Byte == Digit(Base)

\* from_be_bytes and from_le_bytes.
BigEndian(bytes) == NumberOf(Base, bytes)

LittleEndian(bytes) == NumberOf(Base, Reverse(bytes))

\* to_be_bytes and to_le_bytes, of an integer of so many bytes.
ToBigEndian(value, width) == DigitsOf(Base, value, width)

ToLittleEndian(value, width) == Reverse(DigitsOf(Base, value, width))

=============================================================================
