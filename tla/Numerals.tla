------------------------------- MODULE Numerals -------------------------------
(***************************************************************************)
(* Numbers as sequences of the digits of some base, the first weighing     *)
(* most: what from_le_bytes, from_be_bytes and to_le_bytes do with bytes   *)
(* (canonical.rs and path.rs of crates/sunrise-edge-ledger-core), and what *)
(* the decimal text of a number is.  Recursion is over the digits.         *)
(***************************************************************************)
EXTENDS Integers, Sequences, SequencesExt

Digit(base) == 0..(base - 1)

\* The values of the first digits, from none to all of them.
Values(base, digits) ==
    LET value[i \in 0..Len(digits)] ==
            IF i = 0 THEN 0 ELSE base * value[i - 1] + digits[i]
    IN  value

NumberOf(base, digits) == Values(base, digits)[Len(digits)]

\* What is left of a number after its last digits are taken, from none to all.
Rests(base, value, width) ==
    LET rest[i \in 0..width] == IF i = 0 THEN value ELSE rest[i - 1] \div base
    IN  rest

DigitsOf(base, value, width) ==
    [i \in 1..width |-> Rests(base, value, width)[width - i] % base]

\* base^n.
Power(base, n) ==
    LET power[i \in 0..n] == IF i = 0 THEN 1 ELSE base * power[i - 1]
    IN  power[n]

=============================================================================
