------------------------------- MODULE FactText -------------------------------
(***************************************************************************)
(* How a value becomes the text of a fact (BoundedFactStr,                 *)
(* crates/sunrise-edge-ledger-app/src/review_ui.rs).  A text is a sequence *)
(* of characters, and a character a number: a digit is its value.  The     *)
(* loop of from_u64 is modelled digit by digit, since it writes into an    *)
(* array whose bound it does not check.                                    *)
(***************************************************************************)
EXTENDS Numerals

CONSTANTS
    MaxFactLen,     \* the capacity of a text, 96 in the code
    MaxNumber,      \* the largest number, u64::MAX in the code
    TempLen,        \* the digits from_u64 has room for, 20 in the code
    Ascii,          \* the characters that are ASCII
    Colon,
    LabelOf,        \* the label of each algorithm
    Value           \* what is rendered

ASSUME BoundAssumption ==
    /\ MaxFactLen \in Nat \ {0} /\ MaxNumber \in Nat /\ TempLen \in Nat
    /\ MaxNumber < Power(10, TempLen)
    /\ TempLen <= MaxFactLen
ASSUME CharAssumption ==
    /\ 0..15 \cup {Colon} \subseteq Ascii
    /\ Colon \notin 0..15
ASSUME LabelAssumption ==
    /\ \A a \in DOMAIN LabelOf : LabelOf[a] \in Seq(Ascii \ {Colon})
    /\ \A a, b \in DOMAIN LabelOf : LabelOf[a] = LabelOf[b] => a = b

Number(n) == [kind |-> "number", n |-> n]
Bytes(bytes) == [kind |-> "bytes", bytes |-> bytes]
Digest(algorithm, bytes) == [kind |-> "digest", algorithm |-> algorithm, bytes |-> bytes]
Chars(chars) == [kind |-> "chars", chars |-> chars]

\* An u64, a byte slice, a Digest32 or a str.
IsValue(v) ==
    \/ /\ v.kind = "number" /\ v = Number(v.n)
       /\ v.n \in 0..MaxNumber
    \/ /\ v.kind = "bytes" /\ v = Bytes(v.bytes)
       /\ v.bytes \in Seq(0..255)
    \/ /\ v.kind = "digest" /\ v = Digest(v.algorithm, v.bytes)
       /\ v.algorithm \in DOMAIN LabelOf /\ v.bytes \in Seq(0..255)
    \/ /\ v.kind = "chars" /\ v = Chars(v.chars)
       /\ v.chars \in Seq(Nat)

ASSUME ValueAssumption == \A v \in Value : IsValue(v)

VARIABLES
    value,
    num, temp,      \* the locals of from_u64
    status,         \* what is done next, or how rendering ended
    text            \* the text, blank unless status is "done"

textVars == <<value, num, temp, status, text>>

-----------------------------------------------------------------------------

TextInit ==
    /\ value \in Value
    /\ num = 0
    /\ temp = <<>>
    /\ status = "start"
    /\ text = <<>>

Stop(how, with) ==
    /\ status' = how
    /\ text' = with
    /\ UNCHANGED <<value, num, temp>>

FromU64 ==
    /\ status = "start"
    /\ value.kind = "number"
    /\ \/ /\ value.n = 0
          /\ Stop("done", <<0>>)
       \/ /\ value.n # 0
          /\ num' = value.n
          /\ status' = "digits"
          /\ UNCHANGED <<value, temp, text>>

\* The array is one digit short.
TakeDigit_Slip ==
    /\ status = "digits"
    /\ num > 0
    /\ Len(temp) + 1 < TempLen
    /\ temp' = Append(temp, num % 10)
    /\ num' = num \div 10
    /\ UNCHANGED <<value, status, text>>

\* Writing past the array is a panic: the step is not there.
TakeDigit ==
    /\ status = "digits"
    /\ num > 0
    /\ Len(temp) < TempLen
    /\ temp' = Append(temp, num % 10)
    /\ num' = num \div 10
    /\ UNCHANGED <<value, status, text>>

\* Leaves the digits in the order they were found in.
ReverseDigits_Slip ==
    /\ status = "digits"
    /\ num = 0
    /\ Stop("done", temp)

ReverseDigits ==
    /\ status = "digits"
    /\ num = 0
    /\ Stop("done", Reverse(temp))

\* Cuts off what does not fit.
Bounded_Slip(chars) ==
    Stop("done", IF Len(chars) > MaxFactLen THEN SubSeq(chars, 1, MaxFactLen) ELSE chars)

\* The text if it fits, and nothing of it otherwise.
Bounded(chars) ==
    IF Len(chars) > MaxFactLen THEN Stop("ValueTooLong", <<>>) ELSE Stop("done", chars)

Hex(bytes) ==
    [i \in 1..(2 * Len(bytes)) |->
        IF i % 2 = 1 THEN bytes[(i + 1) \div 2] \div 16 ELSE bytes[i \div 2] % 16]

TryFromHex ==
    /\ status = "start"
    /\ value.kind = "bytes"
    /\ Bounded(Hex(value.bytes))

TryFromDigest ==
    /\ status = "start"
    /\ value.kind = "digest"
    /\ Bounded(LabelOf[value.algorithm] \o <<Colon>> \o Hex(value.bytes))

TryFromStr ==
    /\ status = "start"
    /\ value.kind = "chars"
    /\ IF \E i \in DOMAIN value.chars : value.chars[i] \notin Ascii
       THEN Stop("NonAscii", <<>>)
       ELSE Bounded(value.chars)

TextNext ==
    \/ FromU64
    \/ TakeDigit
    \/ ReverseDigits
    \/ TryFromHex
    \/ TryFromDigest
    \/ TryFromStr

TextSpec == TextInit /\ [][TextNext]_textVars /\ WF_textVars(TextNext)

-----------------------------------------------------------------------------
(* Properties. *)

ReadNumber(chars) == NumberOf(10, chars)

ReadBytes(chars) ==
    [i \in 1..(Len(chars) \div 2) |-> 16 * chars[2 * i - 1] + chars[2 * i]]

\* The value a reader takes the text of a value of this kind for.
ReadBack(kind, chars) ==
    CASE kind = "number" -> Number(ReadNumber(chars))
      [] kind = "bytes" -> Bytes(ReadBytes(chars))
      [] kind = "chars" -> Chars(chars)
      [] kind = "digest" ->
            LET colon == CHOOSE i \in DOMAIN chars : chars[i] = Colon
                label == SubSeq(chars, 1, colon - 1)
            IN  Digest(CHOOSE a \in DOMAIN LabelOf : LabelOf[a] = label,
                       ReadBytes(SubSeq(chars, colon + 1, Len(chars))))

\* A text is read back as the value it was made from, in the shortest way: no
\* digit is lost, swapped or put in front, so two values never look alike.
TextTellsValue ==
    status = "done" =>
        /\ ReadBack(value.kind, text) = value
        /\ value.kind = "number" /\ Len(text) > 1 => text[1] # 0

\* The characters a value takes, counted without rendering it.
FullLength(v) ==
    CASE v.kind = "bytes" -> 2 * Len(v.bytes)
      [] v.kind = "chars" -> Len(v.chars)
      [] v.kind = "digest" -> Len(LabelOf[v.algorithm]) + 1 + 2 * Len(v.bytes)

\* Nothing of the value is cut off: a number is below the power of ten of its
\* digits, and any other text has all the characters of its value.
IsComplete(v, chars) ==
    IF v.kind = "number" THEN v.n < Power(10, Len(chars)) ELSE Len(chars) = FullLength(v)

IsAscii(v) == v.kind = "chars" => \A i \in DOMAIN v.chars : v.chars[i] \in Ascii

\* Values are refused, "never truncated": a text is complete, within its capacity
\* and of ASCII; an error leaves no text and has its reason, which for
\* ValueTooLong is a value that does not fit as a whole and for NonAscii a text
\* with a character that is not ASCII.
NeverTruncated ==
    /\ Len(text) <= MaxFactLen
    /\ status = "done" => IsComplete(value, text) /\ IsAscii(value)
    /\ status # "done" => text = <<>>
    /\ status = "ValueTooLong" => value.kind # "number" /\ FullLength(value) > MaxFactLen
    /\ status = "NonAscii" => ~IsAscii(value)

\* The digits of every number fit into the array of from_u64, which checks no
\* bound: rendering ends with a text or an error and never with a panic.
RenderingEnds == <>(status \notin {"start", "digits"})

=============================================================================
