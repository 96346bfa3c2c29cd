------------------------- MODULE CanonicalFrameProofs -------------------------
(***************************************************************************)
(* Proofs about the canonical decoder, for every size of bytes and         *)
(* integers, every magic and every set of inputs.                          *)
(***************************************************************************)
EXTENDS CanonicalFrame, NumeralsProofs

-----------------------------------------------------------------------------
(* Numbers and bytes. *)

\* Bytes in the other direction.
LEMMA Reversed ==
    ASSUME NEW bytes \in Seq(Byte)
    PROVE  /\ Reverse(bytes) \in Seq(Byte)
           /\ Len(Reverse(bytes)) = Len(bytes)
           /\ Reverse(Reverse(bytes)) = bytes
<1> DEFINE n == Len(bytes)
           back == [i \in 1..n |-> bytes[(n - i) + 1]]
<1>1. n \in Nat /\ bytes \in [1..n -> Byte]
    OBVIOUS
<1>2. Reverse(bytes) = back
    BY DEF Reverse
<1> HIDE DEF n
<1>3. back \in Seq(Byte) /\ Len(back) = n
  <2>1. \A i \in 1..n : (n - i) + 1 \in 1..n
    BY <1>1
  <2>2. back \in [1..n -> Byte]
    BY <1>1, <2>1
  <2> QED
    BY <1>1, <2>2
<1>4. Reverse(back) = [i \in 1..n |-> back[(n - i) + 1]]
  <2> HIDE DEF back
  <2> QED
    BY <1>3 DEF Reverse
<1>5. ASSUME NEW i \in 1..n PROVE back[(n - i) + 1] = bytes[i]
  <2>1. (n - i) + 1 \in 1..n /\ (n - ((n - i) + 1)) + 1 = i
    BY <1>1
  <2> QED
    BY <2>1
<1>6. Reverse(back) = bytes
    BY <1>1, <1>4, <1>5
<1> QED
    BY <1>2, <1>3, <1>6 DEF n

\* The digits of a number are as many bytes as it is given.
LEMMA DigitsAre ==
    ASSUME NEW value \in Nat, NEW width \in Nat
    PROVE  /\ Digits(value, width) \in Seq(Byte)
           /\ Len(Digits(value, width)) = width
<1> DEFINE d == DigitsOf(Base, value, width)
<1>1. d \in Seq(Byte) /\ Len(d) = width
    BY BaseAssumption, DigitsOfAre DEF Byte
<1> HIDE DEF d
<1>2. Reverse(d) \in Seq(Byte) /\ Len(Reverse(d)) = width
    BY <1>1, Reversed
<1> QED
    BY <1>2 DEF Digits, ToLittleEndian, d

\* A sequence of so many bytes.
LEMMA BytesAreSeq ==
    ASSUME NEW width \in Nat, NEW bytes \in [1..width -> Byte]
    PROVE  bytes \in Seq(Byte) /\ Len(bytes) = width
OBVIOUS

\* from_le_bytes returns a number.
LEMMA LittleEndianIsNat ==
    ASSUME NEW bytes \in Seq(Byte)
    PROVE  LittleEndian(bytes) \in Nat
<1>1. Reverse(bytes) \in Seq(Digit(Base))
    BY Reversed DEF Byte
<1> QED
    BY <1>1, BaseAssumption, NumberIsNat DEF LittleEndian

\* What from_le_bytes reads is written as the bytes it was read from.
LEMMA DigitsOfValue ==
    ASSUME NEW width \in Nat, NEW bytes \in [1..width -> Byte]
    PROVE  Digits(LittleEndian(bytes), width) = bytes
<1> DEFINE back == Reverse(bytes)
<1>1. back \in Seq(Digit(Base)) /\ Len(back) = width /\ Reverse(back) = bytes
    BY BytesAreSeq, Reversed DEF Byte
<1> HIDE DEF back
<1>2. DigitsOf(Base, NumberOf(Base, back), width) = back
    BY <1>1, BaseAssumption, DigitsOfNumber
<1> QED
    BY <1>1, <1>2 DEF Digits, ToLittleEndian, LittleEndian, back

\* What is written in enough bytes is read back.
LEMMA ValueOfDigits ==
    ASSUME NEW width \in Nat, NEW value, Fits(value, width)
    PROVE  value \in Nat /\ LittleEndian(Digits(value, width)) = value
<1>1. PICK bytes \in [1..width -> Byte] : LittleEndian(bytes) = value
    BY DEF Fits
<1>2. bytes \in Seq(Byte) /\ Digits(LittleEndian(bytes), width) = bytes
    BY BytesAreSeq, DigitsOfValue
<1>3. LittleEndian(bytes) \in Nat
    BY <1>2, LittleEndianIsNat
<1> QED
    BY <1>1, <1>2, <1>3

-----------------------------------------------------------------------------
(* Fields. *)

FieldRecord == [id : Nat, bytes : Seq(Byte)]

\* What is in a sequence of fields.
LEMMA FieldOfSeq ==
    \A fs \in Seq(FieldRecord) : \A k \in 1..Len(fs) :
        fs[k].id \in Nat /\ fs[k].bytes \in Seq(Byte)
<1> SUFFICES ASSUME NEW fs \in Seq(FieldRecord), NEW k \in 1..Len(fs)
             PROVE  fs[k].id \in Nat /\ fs[k].bytes \in Seq(Byte)
    OBVIOUS
<1>1. fs[k] \in FieldRecord
    BY ElementOfSeq
<1> QED
    BY <1>1 DEF FieldRecord

\* Byte strings one behind the other.
LEMMA BehindBytes ==
    \A s, t \in Seq(Byte) :
        /\ s \o t \in Seq(Byte)
        /\ Len(s \o t) = Len(s) + Len(t)
        /\ Len(s) \in Nat /\ Len(t) \in Nat
<1> SUFFICES ASSUME NEW s \in Seq(Byte), NEW t \in Seq(Byte)
             PROVE  /\ s \o t \in Seq(Byte)
                    /\ Len(s \o t) = Len(s) + Len(t)
                    /\ Len(s) \in Nat /\ Len(t) \in Nat
    OBVIOUS
<1> QED
    BY ConcatProperties, LenProperties

\* It does not matter which are put together first.
LEMMA Regroup == \A s, t, u \in Seq(Byte) : (s \o t) \o u = s \o (t \o u)
<1> SUFFICES ASSUME NEW s \in Seq(Byte), NEW t \in Seq(Byte), NEW u \in Seq(Byte)
             PROVE  (s \o t) \o u = s \o (t \o u)
    OBVIOUS
<1> QED
    BY ConcatAssociative

\* What is known of four byte strings one behind the other.
Joined(a, b, c, d) ==
    /\ a \o b \in Seq(Byte) /\ Len(a \o b) = Len(a) + Len(b)
    /\ (a \o b) \o c \in Seq(Byte)
    /\ Len((a \o b) \o c) = Len(a) + Len(b) + Len(c)
    /\ c \o d \in Seq(Byte) /\ b \o (c \o d) \in Seq(Byte)
    /\ a \o (b \o (c \o d)) \in Seq(Byte)
    /\ Len(a \o (b \o (c \o d))) = Len(a) + Len(b) + Len(c) + Len(d)
    /\ ((a \o b) \o c) \o d = (a \o b) \o (c \o d)
    /\ ((a \o b) \o c) \o d = a \o (b \o (c \o d))
    /\ Len(a) \in Nat /\ Len(b) \in Nat /\ Len(c) \in Nat /\ Len(d) \in Nat

\* Magic, header and fields are put together in any grouping.
LEMMA FourParts ==
    ASSUME NEW a \in Seq(Byte), NEW b \in Seq(Byte), NEW c \in Seq(Byte), NEW d \in Seq(Byte)
    PROVE  Joined(a, b, c, d)
<1> DEFINE ab == a \o b
           cd == c \o d
<1>1. /\ Len(a) \in Nat /\ Len(b) \in Nat /\ Len(c) \in Nat /\ Len(d) \in Nat
      /\ ab \in Seq(Byte) /\ Len(ab) = Len(a) + Len(b)
      /\ cd \in Seq(Byte) /\ Len(cd) = Len(c) + Len(d)
    BY BehindBytes
<1>2. a \o (b \o cd) = ab \o cd
  <2>1. \A u \in Seq(Byte) : (a \o b) \o u = a \o (b \o u)
    BY Regroup
  <2> HIDE DEF cd
  <2> QED
    BY <1>1, <2>1
<1>3. (ab \o c) \o d = ab \o cd
  <2>1. \A u \in Seq(Byte) : (u \o c) \o d = u \o (c \o d)
    BY Regroup
  <2>2. ab \in Seq(Byte)
    BY <1>1
  <2> HIDE DEF ab
  <2> QED
    BY <2>1, <2>2
<1> HIDE DEF ab, cd
<1>4. ab \o c \in Seq(Byte) /\ Len(ab \o c) = Len(a) + Len(b) + Len(c)
  <2>1. ab \o c \in Seq(Byte) /\ Len(ab \o c) = Len(ab) + Len(c)
    BY <1>1, BehindBytes
  <2> QED
    BY <1>1, <2>1
<1>5. b \o cd \in Seq(Byte)
    BY <1>1, BehindBytes
<1>6. ab \o cd \in Seq(Byte) /\ Len(ab \o cd) = Len(a) + Len(b) + Len(c) + Len(d)
  <2>1. ab \o cd \in Seq(Byte) /\ Len(ab \o cd) = Len(ab) + Len(cd)
    BY <1>1, BehindBytes
  <2> QED
    BY <1>1, <2>1
<1> QED
    BY <1>1, <1>2, <1>3, <1>4, <1>5, <1>6 DEF ab, cd, Joined

\* An encoded field is its identifier, its length and its bytes.
LEMMA EncodedFieldParts ==
    ASSUME NEW field \in FieldRecord
    PROVE  /\ Digits(field.id, U16) \in Seq(Byte) /\ Len(Digits(field.id, U16)) = U16
           /\ Digits(Len(field.bytes), U32) \in Seq(Byte)
           /\ Len(Digits(Len(field.bytes), U32)) = U32
           /\ field.bytes \in Seq(Byte) /\ Len(field.bytes) \in Nat
           /\ EncodedField(field) \in Seq(Byte)
           /\ Len(EncodedField(field)) = Prelude + Len(field.bytes)
<1>1. field.id \in Nat /\ field.bytes \in Seq(Byte) /\ Len(field.bytes) \in Nat
    BY DEF FieldRecord
<1>2. U16 \in Nat /\ U32 \in Nat
    BY WidthAssumption
<1>3. Digits(field.id, U16) \in Seq(Byte) /\ Len(Digits(field.id, U16)) = U16
    BY <1>1, <1>2, DigitsAre
<1>4. Digits(Len(field.bytes), U32) \in Seq(Byte) /\ Len(Digits(Len(field.bytes), U32)) = U32
    BY <1>1, <1>2, DigitsAre
<1>5. /\ EncodedField(field) \in Seq(Byte)
      /\ Len(EncodedField(field)) = Prelude + Len(field.bytes)
  <2> DEFINE id == Digits(field.id, U16)
             len == Digits(Len(field.bytes), U32)
  <2>1. id \o len \in Seq(Byte) /\ Len(id \o len) = Prelude
    BY <1>3, <1>4, BehindBytes DEF Prelude
  <2>2. EncodedField(field) = (id \o len) \o field.bytes
    BY DEF EncodedField
  <2> HIDE DEF id, len
  <2> QED
    BY <1>1, <2>1, <2>2, BehindBytes
<1> QED
    BY <1>1, <1>3, <1>4, <1>5

\* The encoder writes one field behind the other.
LEMMA EncodedFieldsAre ==
    ASSUME NEW fs \in Seq(FieldRecord)
    PROVE  /\ EncodedFields(fs) \in [0..Len(fs) -> Seq(Byte)]
           /\ EncodedFields(fs)[0] = <<>>
           /\ \A k \in 1..Len(fs) :
                 EncodedFields(fs)[k] = EncodedFields(fs)[k - 1] \o EncodedField(fs[k])
<1> DEFINE n == Len(fs)
           F(f) == [k \in 0..n |-> IF k = 0 THEN <<>> ELSE f[k - 1] \o EncodedField(fs[k])]
           Step == [k \in 1..n |-> [b \in Seq(Byte) |-> b \o EncodedField(fs[k])]]
<1>1. n \in Nat
    OBVIOUS
<1>2. \A k \in 1..n : EncodedField(fs[k]) \in Seq(Byte)
    BY EncodedFieldParts
<1>3. Step \in [1..n -> [Seq(Byte) -> Seq(Byte)]]
  <2> HIDE DEF n
  <2>1. \A k \in 1..n : \A b \in Seq(Byte) : b \o EncodedField(fs[k]) \in Seq(Byte)
    BY <1>2
  <2> QED
    BY <2>1
<1>4. PICK g \in [0..n -> Seq(Byte)] :
          g[0] = <<>> /\ \A k \in 1..n : g[k] = Step[k][g[k - 1]]
  <2> HIDE DEF Step, n
  <2>1. <<>> \in Seq(Byte)
    OBVIOUS
  <2>2. Recursion(n, Seq(Byte), <<>>, Step) # {}
    BY <1>1, <1>3, <2>1, RecursionDefines
  <2> QED
    BY <2>2 DEF Recursion
<1>5. g = F(g)
  <2> HIDE DEF n
  <2>1. ASSUME NEW k \in 1..n PROVE g[k] = g[k - 1] \o EncodedField(fs[k])
    <3>1. g[k - 1] \in Seq(Byte)
        BY <1>1
    <3> QED
        BY <1>4, <3>1
  <2>2. ASSUME NEW k \in 0..n
        PROVE  g[k] = IF k = 0 THEN <<>> ELSE g[k - 1] \o EncodedField(fs[k])
    <3>1. k = 0 \/ k \in 1..n
        BY <1>1
    <3> QED
        BY <1>4, <2>1, <3>1
  <2> QED
    BY <2>2
<1>6. EncodedFields(fs) = F(EncodedFields(fs))
    BY <1>5 DEF EncodedFields
<1> HIDE DEF n
<1>7. PICK f : f = EncodedFields(fs) /\ f = F(f)
    BY <1>6
<1>8. f[0] = <<>>
    BY <1>1, <1>7
<1>9. ASSUME NEW k \in 1..n PROVE f[k] = f[k - 1] \o EncodedField(fs[k])
  <2>1. k \in 0..n /\ k # 0
    BY <1>1
  <2> QED
    BY <1>7, <2>1
<1>10. ASSUME NEW k \in 1..n, f[k - 1] \in Seq(Byte) PROVE f[k] \in Seq(Byte)
    BY <1>2, <1>9, <1>10, BehindBytes
<1>11. \A k \in 0..n : f[k] \in Seq(Byte)
  <2>1. f[0] \in Seq(Byte)
    BY <1>8
  <2> QED
    BY <1>1, <2>1, <1>10, StaysIn
<1>12. f \in [0..n -> Seq(Byte)]
    BY <1>7, <1>11
<1> QED
    BY <1>7, <1>8, <1>9, <1>12 DEF n

\* field() goes from one field to the next by the length it reads there.
LEMMA FieldAtIs ==
    ASSUME header.field_count \in Nat
    PROVE  /\ FieldAt[0] = FieldsStart
           /\ \A k \in 1..header.field_count :
                 FieldAt[k] = FieldAt[k - 1] + Prelude + ReadU32(FieldAt[k - 1] + U16)
<1> DEFINE n == header.field_count
           After(at) == at + Prelude + ReadU32(at + U16)
           F(m, f) == [k \in 0..m |-> IF k = 0 THEN FieldsStart ELSE After(f[k - 1])]
           T == {m \in 0..n : \E g : g = F(m, g)}
<1> HIDE DEF After
<1>1. 0 \in T
  <2> DEFINE g == [k \in 0..0 |-> FieldsStart]
  <2>1. g = F(0, g)
    OBVIOUS
  <2> HIDE DEF g, F
  <2> QED
    BY <2>1
<1>2. ASSUME NEW m \in 0..(n - 1), m \in T PROVE m + 1 \in T
  <2>1. PICK g : g = F(m, g)
    BY <1>2
  <2>2. \A k \in 0..m : g[k] = IF k = 0 THEN FieldsStart ELSE After(g[k - 1])
    BY <2>1
  <2> DEFINE h == [k \in 0..(m + 1) |-> IF k <= m THEN g[k] ELSE After(g[m])]
  <2>3. ASSUME NEW k \in 0..(m + 1)
        PROVE  h[k] = IF k = 0 THEN FieldsStart ELSE After(h[k - 1])
    <3>1. CASE k \in 0..m
      <4>1. h[k] = g[k] /\ (k # 0 => h[k - 1] = g[k - 1])
        BY <3>1
      <4> QED
        BY <2>2, <3>1, <4>1
    <3>2. CASE k = m + 1
        BY <3>2
    <3> QED
        BY <3>1, <3>2
  <2>4. h = F(m + 1, h)
    BY <2>3
  <2>5. m + 1 \in 0..n
    OBVIOUS
  <2> HIDE DEF h, F
  <2> QED
    BY <2>4, <2>5
<1>3. \E g : g = F(n, g)
  <2>1. 0..n \subseteq T
    <3> HIDE DEF T
    <3> QED
        BY <1>1, <1>2, UpTo
  <2> QED
    BY <2>1
<1>4. FieldAt = F(n, FieldAt)
    BY <1>3 DEF FieldAt, After
<1>5. PICK f : f = FieldAt /\ f = F(n, f)
    BY <1>4
<1>6. f[0] = FieldsStart
    BY <1>5
<1>7. ASSUME NEW k \in 1..n PROVE f[k] = After(f[k - 1])
  <2>1. k \in 0..n /\ k # 0
    OBVIOUS
  <2> QED
    BY <1>5, <2>1
<1> QED
    BY <1>5, <1>6, <1>7 DEF After

\* The bytes taken from the input, in their place between those before and behind.
LEMMA SliceIs ==
    ASSUME input \in Seq(Byte), NEW at \in Nat, NEW n \in Nat, Has(at, n)
    PROVE  /\ Slice(at, n) \in [1..n -> Byte]
           /\ Slice(at, n) \in Seq(Byte) /\ Len(Slice(at, n)) = n
           /\ SubSeq(input, 1, at) \o Slice(at, n) = SubSeq(input, 1, at + n)
<1>1. Len(input) \in Nat /\ at + n <= Len(input)
    BY LenProperties DEF Has
<1>2. \A i \in (at + 1)..(at + n) : input[i] \in Byte
    BY <1>1, ElementOfSeq
<1>3. Slice(at, n) \in Seq(Byte) /\ Len(Slice(at, n)) = n
  <2>1. at + 1 \in Int /\ at + n \in Int
    OBVIOUS
  <2>2. /\ SubSeq(input, at + 1, at + n) \in Seq(Byte)
        /\ Len(SubSeq(input, at + 1, at + n)) =
              IF at + 1 <= at + n THEN (at + n) - (at + 1) + 1 ELSE 0
    BY <1>2, <2>1, SubSeqProperties
  <2> QED
    BY <2>2 DEF Slice
<1>4. Slice(at, n) \in [1..n -> Byte]
    BY <1>3, LenProperties
<1>5. SubSeq(input, 1, at) \o SubSeq(input, at + 1, at + n) = SubSeq(input, 1, at + n)
  <2>1. 1 \in 1..(Len(input) + 1) /\ at \in (1 - 1)..Len(input) /\ at + n \in at..Len(input)
    BY <1>1
  <2> QED
    BY <2>1, ConcatAdjacentSubSeq
<1> QED
    BY <1>3, <1>4, <1>5 DEF Slice

\* What lies behind known bytes is found there.
LEMMA SliceOfConcat ==
    ASSUME NEW before \in Seq(Byte), NEW bytes \in Seq(Byte), NEW behind \in Seq(Byte),
           input = before \o (bytes \o behind)
    PROVE  /\ Has(Len(before), Len(bytes))
           /\ Slice(Len(before), Len(bytes)) = bytes
<1> DEFINE at == Len(before)
           n == Len(bytes)
<1>1. /\ bytes \o behind \in Seq(Byte) /\ input \in Seq(Byte)
      /\ at \in Nat /\ n \in Nat /\ Len(behind) \in Nat
      /\ Len(bytes \o behind) = n + Len(behind)
      /\ Len(input) = at + (n + Len(behind))
    BY BehindBytes
<1> HIDE DEF at, n
<1>2. Has(at, n)
    BY <1>1 DEF Has
<1>3. Slice(at, n) \in Seq(Byte) /\ Len(Slice(at, n)) = n
    BY <1>1, <1>2, SliceIs
<1>4. ASSUME NEW i \in 1..n PROVE Slice(at, n)[i] = bytes[i]
  <2>1. Slice(at, n)[i] = input[at + i]
    BY <1>1 DEF Slice
  <2>2. input[at + i] = (bytes \o behind)[i]
    BY <1>1, ConcatProperties DEF at
  <2>3. (bytes \o behind)[i] = bytes[i]
    BY <1>1, ConcatProperties DEF n
  <2> QED
    BY <2>1, <2>2, <2>3
<1>5. Slice(at, n) = bytes
    BY <1>3, <1>4, SeqEqual DEF n
<1> QED
    BY <1>2, <1>5 DEF at, n

\* A field more is an encoded field more.
LEMMA EncodedFieldsOfAppend ==
    ASSUME NEW fs \in Seq(FieldRecord), NEW field \in FieldRecord
    PROVE  EncodedFields(Append(fs, field))[Len(fs) + 1] =
              EncodedFields(fs)[Len(fs)] \o EncodedField(field)
<1> DEFINE n == Len(fs)
           more == Append(fs, field)
           e == EncodedFields(fs)
           f == EncodedFields(more)
           T == {k \in 0..n : f[k] = e[k]}
<1>1. /\ n \in Nat /\ more \in Seq(FieldRecord) /\ Len(more) = n + 1
      /\ more[n + 1] = field
      /\ \A k \in 1..n : more[k] = fs[k]
    BY AppendProperties, LenProperties
<1>2. e[0] = <<>> /\ \A k \in 1..n : e[k] = e[k - 1] \o EncodedField(fs[k])
    BY EncodedFieldsAre
<1>3. f[0] = <<>> /\ \A k \in 1..(n + 1) : f[k] = f[k - 1] \o EncodedField(more[k])
  <2> HIDE DEF n, more
  <2> QED
    BY <1>1, EncodedFieldsAre
<1> HIDE DEF n, more, e, f
<1>4. 0..n \subseteq T
  <2>1. 0 \in T
    BY <1>1, <1>2, <1>3
  <2>2. ASSUME NEW k \in 0..(n - 1), k \in T PROVE k + 1 \in T
    <3>1. k + 1 \in 1..n /\ k + 1 \in 0..n /\ k + 1 \in 1..(n + 1) /\ (k + 1) - 1 = k
        BY <1>1
    <3>2. f[k + 1] = f[k] \o EncodedField(more[k + 1])
        BY <1>3, <3>1
    <3>3. e[k + 1] = e[k] \o EncodedField(fs[k + 1])
        BY <1>2, <3>1
    <3> QED
        BY <1>1, <2>2, <3>1, <3>2, <3>3
  <2> HIDE DEF T
  <2> QED
    BY <1>1, <2>1, <2>2, UpTo
<1>5. f[n] = e[n]
    BY <1>1, <1>4
<1>6. f[n + 1] = f[n] \o EncodedField(more[n + 1])
  <2>1. n + 1 \in 1..(n + 1) /\ (n + 1) - 1 = n
    BY <1>1
  <2> QED
    BY <1>3, <2>1
<1> QED
    BY <1>1, <1>5, <1>6 DEF n, more, e, f

\* The encoded fields up to one of them are where the encoding of all begins.
LEMMA EncodedFieldsBegin ==
    ASSUME NEW fs \in Seq(FieldRecord), NEW k \in 0..(Len(fs) - 1)
    PROVE  \E rest \in Seq(Byte) :
              EncodedFields(fs)[Len(fs)] =
                 EncodedFields(fs)[k] \o (EncodedField(fs[k + 1]) \o rest)
<1> DEFINE n == Len(fs)
           e == EncodedFields(fs)
           Begins(m) == m > k => \E rest \in Seq(Byte) :
                                    e[m] = e[k] \o (EncodedField(fs[k + 1]) \o rest)
           T == {m \in 0..n : Begins(m)}
<1>1. /\ n \in Nat
      /\ \A m \in 0..n : e[m] \in Seq(Byte)
      /\ \A m \in 1..n : e[m] = e[m - 1] \o EncodedField(fs[m])
    BY EncodedFieldsAre, LenProperties
<1>2. \A m \in 1..n : EncodedField(fs[m]) \in Seq(Byte)
    BY EncodedFieldParts, ElementOfSeq
<1> HIDE DEF n, e
<1>3. k \in 0..n /\ k + 1 \in 1..n /\ k < n
    BY <1>1 DEF n
<1>4. e[k] \in Seq(Byte) /\ EncodedField(fs[k + 1]) \in Seq(Byte)
    BY <1>1, <1>2, <1>3
<1>5. 0 \in T
  <2>1. Begins(0)
    BY <1>1, <1>3
  <2> HIDE DEF Begins
  <2> QED
    BY <1>1, <2>1
<1>6. ASSUME NEW m \in 0..(n - 1), Begins(m) PROVE Begins(m + 1)
  <2>1. m + 1 \in 1..n /\ m + 1 \in 0..n /\ (m + 1) - 1 = m
    BY <1>1
  <2>2. e[m + 1] = e[m] \o EncodedField(fs[m + 1])
    BY <1>1, <2>1
  <2>3. CASE m = k
    <3>1. <<>> \in Seq(Byte)
        BY EmptySeq
    <3>2. e[m + 1] = e[k] \o (EncodedField(fs[k + 1]) \o <<>>)
        BY <1>4, <2>2, <2>3, ConcatEmptySeq
    <3> QED
        BY <2>1, <3>1, <3>2
  <2>4. CASE m > k
    <3>1. PICK rest \in Seq(Byte) : e[m] = e[k] \o (EncodedField(fs[k + 1]) \o rest)
        BY <1>6, <2>4
    <3> DEFINE x == EncodedField(fs[k + 1])
               y == EncodedField(fs[m + 1])
    <3>2. x \in Seq(Byte) /\ y \in Seq(Byte)
        BY <1>2, <1>4, <2>1
    <3> HIDE DEF x, y
    <3>3. rest \o y \in Seq(Byte) /\ x \o rest \in Seq(Byte)
        BY <3>2, BehindBytes
    <3>4. (e[k] \o (x \o rest)) \o y = e[k] \o ((x \o rest) \o y)
      <4> DEFINE z == x \o rest
      <4>1. e[k] \in Seq(Byte) /\ z \in Seq(Byte) /\ y \in Seq(Byte)
        BY <1>4, <3>2, <3>3
      <4> HIDE DEF z
      <4>2. (e[k] \o z) \o y = e[k] \o (z \o y)
        BY <4>1, Regroup
      <4> QED
        BY <4>2 DEF z
    <3>5. (x \o rest) \o y = x \o (rest \o y)
        BY <3>2, Regroup, Zenon
    <3>6. e[m + 1] = e[k] \o (x \o (rest \o y))
        BY <2>2, <3>1, <3>4, <3>5 DEF x, y
    <3> QED
        BY <2>1, <3>3, <3>6 DEF x
  <2>5. CASE m < k
    <3>1. ~ (m + 1 > k)
        BY <1>3, <2>5
    <3> QED
        BY <2>1, <3>1
  <2>6. m = k \/ m > k \/ m < k
    BY <1>1, <1>3
  <2> QED
    BY <2>3, <2>4, <2>5, <2>6
<1>7. ASSUME NEW m \in 0..(n - 1), m \in T PROVE m + 1 \in T
  <2> HIDE DEF Begins
  <2> QED
    BY <1>1, <1>6, <1>7
<1>8. Begins(n)
  <2> HIDE DEF Begins
  <2>1. 0..n \subseteq T
    <3> HIDE DEF T
    <3> QED
        BY <1>1, <1>5, <1>7, UpTo
  <2> QED
    BY <1>1, <2>1
<1> QED
    BY <1>3, <1>8 DEF n, e

-----------------------------------------------------------------------------
(* The inductive invariant: the bytes taken so far are the encoding of what *)
(* was read from them, and a scan of the fields comes to where the pass is. *)

Taken ==
    /\ status = "magic" => offset = 0
    /\ status = "header" => SubSeq(input, 1, offset) = Magic
    /\ status \in {"magic", "header"} => fields = <<>>
    /\ status \in {"fields", "accepted"} =>
         SubSeq(input, 1, offset) =
            EncodedHeader(header.type_id, header.version, header.field_count)
              \o EncodedFields(fields)[Len(fields)]
    /\ status = "accepted" => Len(fields) = header.field_count /\ offset = Len(input)

InOrder ==
    /\ Ascending(fields)
    /\ previous = IF fields = <<>> THEN NoField ELSE fields[Len(fields)].id

\* The k-th field is where the scan finds it.
FoundAt(k) ==
    /\ ReadU16(FieldAt[k - 1]) = fields[k].id
    /\ Slice(FieldAt[k - 1] + Prelude, ReadU32(FieldAt[k - 1] + U16)) = fields[k].bytes

Scanned ==
    status \in {"fields", "accepted"} =>
        /\ FieldAt[Len(fields)] = offset
        /\ \A k \in 1..Len(fields) : FoundAt(k)

FrameInv ==
    /\ TypeOK
    /\ fields \in Seq(FieldRecord)
    /\ Taken
    /\ InOrder
    /\ Scanned

\* On the encoding of a frame the pass is always at the start of one of its fields.
Follows(f) ==
    /\ status \notin Failure
    /\ status = "fields" =>
         /\ header.field_count = Len(f.fields)
         /\ offset = FieldsStart + Len(EncodedFields(f.fields)[Len(fields)])
         /\ previous = IF Len(fields) = 0 THEN NoField ELSE f.fields[Len(fields)].id

EncodingsFollow ==
    \A f \in Encodable :
        Ascending(f.fields) /\ input = Encoding(f.type_id, f.version, f.fields) => Follows(f)

\* The header behind the magic is three integers.
LEMMA EncodedHeaderIs ==
    ASSUME NEW type_id \in Nat, NEW version \in Nat, NEW field_count \in Nat
    PROVE  /\ EncodedHeader(type_id, version, field_count) \in Seq(Byte)
           /\ Len(EncodedHeader(type_id, version, field_count)) = FieldsStart
<1> DEFINE t == Digits(type_id, U16)
           v == Digits(version, U16)
           c == Digits(field_count, U16)
<1>1. /\ U16 \in Nat /\ Magic \in Seq(Byte) /\ Len(Magic) \in Nat
      /\ t \in Seq(Byte) /\ Len(t) = U16
      /\ v \in Seq(Byte) /\ Len(v) = U16
      /\ c \in Seq(Byte) /\ Len(c) = U16
    BY WidthAssumption, InputAssumption, DigitsAre, LenProperties
<1>2. EncodedHeader(type_id, version, field_count) = ((Magic \o t) \o v) \o c
    BY DEF EncodedHeader
<1> HIDE DEF t, v, c
<1>3. Magic \o t \in Seq(Byte) /\ Len(Magic \o t) = Len(Magic) + U16
    BY <1>1, BehindBytes
<1>4. (Magic \o t) \o v \in Seq(Byte) /\ Len((Magic \o t) \o v) = Len(Magic) + U16 + U16
    BY <1>1, <1>3, BehindBytes
<1>5. /\ ((Magic \o t) \o v) \o c \in Seq(Byte)
      /\ Len(((Magic \o t) \o v) \o c) = Len(Magic) + U16 + U16 + U16
    BY <1>1, <1>4, BehindBytes
<1> QED
    BY <1>1, <1>2, <1>5 DEF FieldsStart, HeaderLen

\* An integer read from the input is a number, and its digits are the bytes read.
LEMMA ReadIs ==
    ASSUME input \in Seq(Byte), NEW at \in Nat, NEW n \in Nat, Has(at, n)
    PROVE  /\ LittleEndian(Slice(at, n)) \in Nat
           /\ Digits(LittleEndian(Slice(at, n)), n) = Slice(at, n)
    BY SliceIs, LittleEndianIsNat, DigitsOfValue

\* The pass begins before the magic.
LEMMA InitFrame == Init => FrameInv
<1> SUFFICES ASSUME Init PROVE FrameInv
    OBVIOUS
<1>1. input \in Input /\ Len(input) \in Nat
    BY InputAssumption, LenProperties DEF Init
<1>2. TypeOK
    BY <1>1 DEF Init, TypeOK, NoHeader
<1>3. fields \in Seq(FieldRecord)
    BY EmptySeq DEF Init
<1>4. Taken
    BY DEF Init, Taken
<1>5. InOrder
    BY DEF Init, InOrder, Ascending
<1>6. Scanned
    BY DEF Init, Scanned
<1> QED
    BY <1>2, <1>3, <1>4, <1>5, <1>6 DEF FrameInv

\* A failure leaves what was read.
LEMMA FailureKeeps ==
    ASSUME FrameInv, NEW how \in Failure, Stop(how)
    PROVE  FrameInv'
<1>1. status' \in Failure /\ UNCHANGED <<input, offset, header, previous, fields>>
    BY DEF Stop
<1>2. TypeOK'
    BY <1>1 DEF FrameInv, TypeOK
<1>3. Taken'
    BY <1>1 DEF Taken, Failure
<1>4. InOrder'
    BY <1>1 DEF FrameInv, InOrder, Ascending
<1>5. Scanned'
    BY <1>1 DEF Scanned, Failure
<1> QED
    BY <1>1, <1>2, <1>3, <1>4, <1>5 DEF FrameInv

\* The magic is the first that is taken.
LEMMA TakeMagicKeeps == FrameInv /\ TakeMagic => FrameInv'
<1> SUFFICES ASSUME FrameInv, TakeMagic PROVE FrameInv'
    OBVIOUS
<1>1. CASE Stop("Truncated") \/ Stop("InvalidMagic")
    BY <1>1, FailureKeeps DEF Failure
<1>2. CASE /\ Has(0, Len(Magic)) /\ Slice(0, Len(Magic)) = Magic
           /\ offset' = Len(Magic) /\ status' = "header"
           /\ UNCHANGED <<input, header, previous, fields>>
  <2>1. /\ input \in Input /\ Len(input) \in Nat /\ Len(Magic) \in Nat
        /\ fields = <<>>
    BY InputAssumption, LenProperties DEF FrameInv, TypeOK, Taken, TakeMagic
  <2>2. Len(Magic) \in 0..Len(input)
    BY <1>2, <2>1 DEF Has
  <2>3. TypeOK'
    BY <1>2, <2>2 DEF FrameInv, TypeOK
  <2>4. SubSeq(input, 1, Len(Magic)) = Magic
    BY <1>2, <2>1 DEF Slice
  <2>5. Taken'
    BY <1>2, <2>1, <2>4 DEF Taken
  <2>6. InOrder'
    BY <1>2 DEF FrameInv, InOrder, Ascending
  <2>7. Scanned'
    BY <1>2 DEF Scanned
  <2> QED
    BY <1>2, <2>3, <2>5, <2>6, <2>7 DEF FrameInv
<1> QED
    BY <1>1, <1>2 DEF TakeMagic

\* A scan of the header just read begins behind it.
LEMMA FieldAtStarts == header'.field_count \in Nat => FieldAt'[0] = FieldsStart
<1>1. header.field_count \in Nat => FieldAt[0] = FieldsStart
    BY FieldAtIs
<1>2. (header.field_count \in Nat => FieldAt[0] = FieldsStart)'
    BY <1>1, PTL
<1> QED
    BY <1>2 DEF FieldsStart, HeaderLen

\* The header tells how many fields there are.
LEMMA ReadHeaderKeeps == FrameInv /\ ReadHeader => FrameInv'
<1> SUFFICES ASSUME FrameInv, ReadHeader PROVE FrameInv'
    OBVIOUS
<1>1. CASE Stop("Truncated")
    BY <1>1, FailureKeeps DEF Failure
<1>2. CASE /\ Has(offset, HeaderLen)
           /\ header' = [type_id |-> ReadU16(offset),
                         version |-> ReadU16(offset + U16),
                         field_count |-> ReadU16(offset + 2 * U16)]
           /\ offset' = offset + HeaderLen
           /\ status' = "fields"
           /\ UNCHANGED <<input, previous, fields>>
  <2> DEFINE t == ReadU16(offset)
             v == ReadU16(offset + U16)
             c == ReadU16(offset + 2 * U16)
  <2>1. /\ input \in Input /\ input \in Seq(Byte) /\ Len(input) \in Nat
        /\ offset \in Nat /\ U16 \in Nat /\ U16 > 0
        /\ fields = <<>> /\ status = "header"
        /\ SubSeq(input, 1, offset) = Magic /\ Magic \in Seq(Byte)
    BY InputAssumption, WidthAssumption, LenProperties
       DEF FrameInv, TypeOK, Taken, ReadHeader
  <2>2. /\ Has(offset, U16) /\ Has(offset + U16, U16) /\ Has(offset + 2 * U16, U16)
        /\ offset + U16 \in Nat /\ offset + 2 * U16 \in Nat
        /\ (offset + U16) + U16 = offset + 2 * U16
        /\ (offset + 2 * U16) + U16 = offset + HeaderLen
        /\ offset + HeaderLen \in 0..Len(input)
    BY <1>2, <2>1 DEF Has, HeaderLen
  <2>3. /\ t \in Nat /\ Slice(offset, U16) = Digits(t, U16)
        /\ v \in Nat /\ Slice(offset + U16, U16) = Digits(v, U16)
        /\ c \in Nat /\ Slice(offset + 2 * U16, U16) = Digits(c, U16)
    BY <2>1, <2>2, ReadIs DEF ReadU16
  <2>4. offset = Len(Magic)
    <3>1. SubSeq(input, 1, offset) \in Seq(Byte) /\ Len(SubSeq(input, 1, offset)) = offset
      <4>1. Has(0, offset)
        BY <2>1 DEF Has, FrameInv, TypeOK
      <4>2. Slice(0, offset) \in Seq(Byte) /\ Len(Slice(0, offset)) = offset
        BY <2>1, <4>1, SliceIs
      <4> QED
        BY <2>1, <4>2 DEF Slice
    <3> QED
        BY <2>1, <3>1
  <2> HIDE DEF t, v, c
  <2>5. SubSeq(input, 1, offset + HeaderLen) = EncodedHeader(t, v, c)
    <3>1. Magic \o Digits(t, U16) = SubSeq(input, 1, offset + U16)
        BY <2>1, <2>2, <2>3, SliceIs
    <3>2. SubSeq(input, 1, offset + U16) \o Digits(v, U16) = SubSeq(input, 1, offset + 2 * U16)
      <4>1. SubSeq(input, 1, offset + U16) \o Slice(offset + U16, U16)
               = SubSeq(input, 1, (offset + U16) + U16)
        BY <2>1, <2>2, SliceIs
      <4> QED
        BY <2>2, <2>3, <4>1
    <3>3. SubSeq(input, 1, offset + 2 * U16) \o Digits(c, U16)
             = SubSeq(input, 1, offset + HeaderLen)
      <4>1. SubSeq(input, 1, offset + 2 * U16) \o Slice(offset + 2 * U16, U16)
               = SubSeq(input, 1, (offset + 2 * U16) + U16)
        BY <2>1, <2>2, SliceIs
      <4> QED
        BY <2>2, <2>3, <4>1
    <3> QED
        BY <3>1, <3>2, <3>3 DEF EncodedHeader
  <2>6. header' = [type_id |-> t, version |-> v, field_count |-> c]
    BY <1>2 DEF t, v, c
  <2>7. TypeOK'
    <3>1. header' \in [type_id : Nat, version : Nat, field_count : Nat]
        BY <2>3, <2>6
    <3>2. Len(fields') <= header'.field_count
        BY <1>2, <2>1, <2>3, <2>6
    <3> QED
        BY <1>2, <2>1, <2>2, <3>1, <3>2 DEF FrameInv, TypeOK
  <2>8. Taken'
    <3>1. Len(<<>>) = 0 /\ EncodedFields(<<>>)[0] = <<>>
        BY EncodedFieldsAre, EmptySeq
    <3>2. EncodedHeader(t, v, c) \o <<>> = EncodedHeader(t, v, c)
        BY <2>3, EncodedHeaderIs, ConcatEmptySeq
    <3>3. SubSeq(input, 1, offset + HeaderLen) =
             EncodedHeader(t, v, c) \o EncodedFields(<<>>)[Len(<<>>)]
        BY <2>5, <3>1, <3>2
    <3>4. /\ input' = input /\ offset' = offset + HeaderLen /\ fields' = <<>>
          /\ status' = "fields"
          /\ header'.type_id = t /\ header'.version = v /\ header'.field_count = c
        BY <1>2, <2>1, <2>6
    <3> QED
        BY <3>3, <3>4 DEF Taken
  <2>9. InOrder'
    BY <1>2 DEF FrameInv, InOrder, Ascending
  <2>10. Scanned'
    <3>1. header'.field_count \in Nat
        BY <2>3, <2>6
    <3>2. header'.field_count \in Nat => FieldAt'[0] = FieldsStart
        BY FieldAtStarts
    <3>3. FieldsStart = offset'
        BY <1>2, <2>1, <2>4 DEF FieldsStart
    <3>4. Len(fields') = 0
        BY <1>2, <2>1
    <3> QED
        BY <3>1, <3>2, <3>3, <3>4 DEF Scanned
  <2> QED
    BY <1>2, <2>7, <2>8, <2>9, <2>10 DEF FrameInv
<1> QED
    BY <1>1, <1>2 DEF ReadHeader

\* What a field that passes the checks is read from.
LEMMA FieldIsRead ==
    ASSUME FrameInv, status = "fields", FieldStatus = "fields",
           NEW id, id = ReadU16(offset), NEW len, len = ReadU32(offset + U16)
    PROVE  /\ id \in Nat /\ len \in Nat /\ id > previous
           /\ [id |-> id, bytes |-> Slice(offset + Prelude, len)] \in FieldRecord
           /\ offset + Prelude + len \in 0..Len(input)
           /\ SubSeq(input, 1, offset + Prelude + len) =
                SubSeq(input, 1, offset)
                  \o EncodedField([id |-> id, bytes |-> Slice(offset + Prelude, len)])
<1> DEFINE bytes == Slice(offset + Prelude, len)
           head == SubSeq(input, 1, offset)
           a == Slice(offset, U16)
           b == Slice(offset + U16, U32)
<1>1. /\ input \in Seq(Byte) /\ Len(input) \in Nat
      /\ offset \in Nat /\ offset <= Len(input) /\ U16 \in Nat /\ U32 \in Nat
      /\ offset + U16 \in Nat /\ offset + Prelude \in Nat
      /\ (offset + U16) + U32 = offset + Prelude
    BY InputAssumption, WidthAssumption, LenProperties DEF FrameInv, TypeOK, Prelude
<1>2. /\ Has(offset, U16) /\ Has(offset + U16, U32) /\ Has(offset + Prelude, len)
      /\ ~ (id <= previous)
    BY DEF FieldStatus
<1>3. id \in Nat /\ a = Digits(id, U16)
    BY <1>1, <1>2, ReadIs DEF ReadU16
<1>4. len \in Nat /\ b = Digits(len, U32)
    BY <1>1, <1>2, ReadIs DEF ReadU32
<1>5. /\ bytes \in Seq(Byte) /\ Len(bytes) = len
      /\ SubSeq(input, 1, offset + Prelude) \o bytes = SubSeq(input, 1, offset + Prelude + len)
    BY <1>1, <1>2, <1>4, SliceIs
<1>6. a \in Seq(Byte) /\ head \o a = SubSeq(input, 1, offset + U16)
    BY <1>1, <1>2, SliceIs
<1>7. b \in Seq(Byte) /\ SubSeq(input, 1, offset + U16) \o b = SubSeq(input, 1, offset + Prelude)
    BY <1>1, <1>2, SliceIs
<1>8. head \in Seq(Byte)
  <2>1. Has(0, offset)
    BY <1>1 DEF Has
  <2>2. Slice(0, offset) \in Seq(Byte)
    BY <1>1, <2>1, SliceIs
  <2> QED
    BY <1>1, <2>2 DEF Slice
<1>9. id > previous
    BY <1>2, <1>3 DEF FrameInv, TypeOK, NoField
<1>10. EncodedField([id |-> id, bytes |-> bytes]) = (a \o b) \o bytes
    BY <1>3, <1>4, <1>5 DEF EncodedField
<1>11. offset + Prelude + len \in 0..Len(input)
    BY <1>1, <1>2, <1>4 DEF Has
<1>12. [id |-> id, bytes |-> bytes] \in FieldRecord
    BY <1>3, <1>5 DEF FieldRecord
<1> HIDE DEF a, b, bytes, head
<1>13. ((head \o a) \o b) \o bytes = head \o ((a \o b) \o bytes)
  <2> DEFINE ab == a \o b
  <2>1. (head \o a) \o b = head \o ab /\ ab \in Seq(Byte)
    BY <1>6, <1>7, <1>8, Regroup, BehindBytes
  <2>2. ASSUME NEW s \in Seq(Byte) PROVE (head \o s) \o bytes = head \o (s \o bytes)
    BY <1>5, <1>8, Regroup
  <2> HIDE DEF ab
  <2>3. (head \o ab) \o bytes = head \o (ab \o bytes)
    BY <2>1, <2>2
  <2> QED
    BY <2>1, <2>3 DEF ab
<1>14. SubSeq(input, 1, offset + Prelude + len) = head \o EncodedField([id |-> id, bytes |-> bytes])
    BY <1>5, <1>6, <1>7, <1>10, <1>13
<1> QED
    BY <1>3, <1>4, <1>9, <1>11, <1>12, <1>14 DEF bytes, head

\* A scan stays what it is while the input and the header do.
LEMMA FieldAtStays == input' = input /\ header' = header => FieldAt' = FieldAt
BY DEF FieldAt, ReadU32, Slice, FieldsStart, HeaderLen, Prelude

\* A field that passes the checks is one more of the frame.
LEMMA TakenFieldKeeps ==
    ASSUME FrameInv, status = "fields", FieldStatus = "fields",
           Len(fields) < header.field_count,
           NEW id, id = ReadU16(offset), NEW len, len = ReadU32(offset + U16),
           fields' = Append(fields, [id |-> id, bytes |-> Slice(offset + Prelude, len)]),
           previous' = id, offset' = offset + Prelude + len,
           UNCHANGED <<input, status, header>>
    PROVE  FrameInv'
<1> DEFINE n == Len(fields)
           field == [id |-> id, bytes |-> Slice(offset + Prelude, len)]
           start == EncodedHeader(header.type_id, header.version, header.field_count)
<1>1. /\ id \in Nat /\ len \in Nat /\ id > previous
      /\ field \in FieldRecord
      /\ offset + Prelude + len \in 0..Len(input)
      /\ SubSeq(input, 1, offset + Prelude + len) =
            SubSeq(input, 1, offset) \o EncodedField(field)
    BY FieldIsRead
<1>2. field.id = id /\ field.bytes = Slice(offset + Prelude, len)
    OBVIOUS
<1> HIDE DEF field
<1>3. /\ fields \in Seq(FieldRecord) /\ n \in Nat
      /\ fields' = Append(fields, field)
      /\ fields' \in Seq(FieldRecord) /\ Len(fields') = n + 1 /\ fields' # <<>>
      /\ fields'[n + 1] = field
      /\ \A k \in 1..n : fields'[k] = fields[k]
      /\ DOMAIN fields = 1..n /\ DOMAIN fields' = 1..(n + 1)
  <2>1. fields \in Seq(FieldRecord) /\ n \in Nat /\ fields' = Append(fields, field)
        /\ DOMAIN fields = 1..n
    BY LenProperties DEF FrameInv, field
  <2>2. /\ Append(fields, field) \in Seq(FieldRecord)
        /\ Append(fields, field) # <<>>
        /\ Len(Append(fields, field)) = n + 1
        /\ \A k \in 1..n : Append(fields, field)[k] = fields[k]
        /\ Append(fields, field)[n + 1] = field
    <3>1. field \in FieldRecord /\ fields \in Seq(FieldRecord)
        BY <1>1, <2>1
    <3> QED
        BY <3>1, AppendProperties
  <2>3. DOMAIN Append(fields, field) = 1..(n + 1)
    BY <2>2, LenProperties
  <2> QED
    BY <2>1, <2>2, <2>3
<1>4. /\ header.type_id \in Nat /\ header.version \in Nat /\ header.field_count \in Nat
    BY DEF FrameInv, TypeOK
<1> HIDE DEF n
<1>5. TypeOK'
  <2>1. Len(fields') <= header'.field_count
    BY <1>3, <1>4 DEF n
  <2>2. \A k \in DOMAIN fields' : fields'[k].id \in Nat /\ fields'[k].bytes \in Seq(Byte)
    BY <1>3, FieldOfSeq
  <2> QED
    BY <1>1, <2>1, <2>2 DEF FrameInv, TypeOK
<1>6. Taken'
  <2>1. SubSeq(input, 1, offset) = start \o EncodedFields(fields)[n]
    BY DEF FrameInv, Taken, n
  <2>2. start \in Seq(Byte)
    BY <1>4, EncodedHeaderIs
  <2>3. EncodedFields(fields)[n] \in Seq(Byte)
    <3>1. EncodedFields(fields) \in [0..Len(fields) -> Seq(Byte)]
        BY <1>3, EncodedFieldsAre
    <3> QED
        BY <1>3, <3>1 DEF n
  <2>4. EncodedField(field) \in Seq(Byte)
    BY <1>1, EncodedFieldParts
  <2> DEFINE e == EncodedFields(fields)[n]
             x == EncodedField(field)
  <2>5. EncodedFields(fields')[Len(fields')] = e \o x
    BY <1>1, <1>3, EncodedFieldsOfAppend DEF n
  <2>6. (start \o e) \o x = start \o (e \o x)
    <3> HIDE DEF start, e, x
    <3> QED
        BY <2>2, <2>3, <2>4, Regroup DEF e, x
  <2>7. SubSeq(input, 1, offset + Prelude + len) = start \o EncodedFields(fields')[Len(fields')]
    <3> HIDE DEF start
    <3> QED
        BY <1>1, <2>1, <2>5, <2>6
  <2> QED
    BY <2>7 DEF Taken
<1>7. InOrder'
  <2>1. \A i, j \in 1..(n + 1) : i < j => fields'[i].id < fields'[j].id
    <3> SUFFICES ASSUME NEW i \in 1..(n + 1), NEW j \in 1..(n + 1), i < j
                 PROVE  fields'[i].id < fields'[j].id
        OBVIOUS
    <3>1. i \in 1..n /\ fields[i].id \in Nat /\ fields'[i] = fields[i]
      <4>1. i \in 1..n
        BY <1>3
      <4> QED
        BY <1>3, <4>1, FieldOfSeq DEF n
    <3>2. CASE j \in 1..n
        BY <1>3, <3>1, <3>2 DEF FrameInv, InOrder, Ascending
    <3>3. CASE j = n + 1
      <4>1. n \in 1..n /\ fields # <<>> /\ fields[n].id \in Nat /\ previous = fields[n].id
        <5>1. n \in 1..n
            BY <1>3, <3>1
        <5>2. fields # <<>>
            BY <5>1, EmptySeq DEF n
        <5>3. fields[n].id \in Nat
            BY <1>3, <5>1, FieldOfSeq DEF n
        <5>4. previous = fields[n].id
            BY <5>2 DEF FrameInv, InOrder, n
        <5> QED
            BY <5>1, <5>2, <5>3, <5>4
      <4>2. fields[i].id <= fields[n].id
        <5>1. \A p, q \in 1..n : p < q => fields[p].id < fields[q].id
            BY <1>3 DEF FrameInv, InOrder, Ascending
        <5>2. i < n \/ i = n
            BY <1>3, <3>1
        <5>3. i < n => fields[i].id < fields[n].id
            BY <3>1, <4>1, <5>1
        <5> QED
            BY <3>1, <4>1, <5>2, <5>3
      <4>3. fields'[j].id = id
        BY <1>2, <1>3, <3>3
      <4>4. fields'[i].id = fields[i].id /\ fields[i].id \in Nat
        BY <3>1
      <4>5. fields[n].id \in Nat /\ id \in Nat /\ id > fields[n].id
        BY <1>1, <4>1
      <4>6. ASSUME NEW x \in Nat, NEW y \in Nat, NEW z \in Nat, x <= y, z > y PROVE x < z
        BY <4>6
      <4>7. fields[i].id < id
        BY <4>2, <4>4, <4>5, <4>6
      <4> QED
        BY <4>3, <4>4, <4>7
    <3> QED
        BY <1>3, <3>2, <3>3
  <2>2. Ascending(fields)'
    BY <1>3, <2>1 DEF Ascending
  <2>3. previous' = fields'[Len(fields')].id
    BY <1>2, <1>3
  <2> QED
    BY <1>3, <2>2, <2>3 DEF InOrder
<1>8. Scanned'
  <2>1. FieldAt' = FieldAt
    BY FieldAtStays
  <2>2. FieldAt[n] = offset /\ \A k \in 1..n : FoundAt(k)
    BY DEF FrameInv, Scanned, n
  <2>3. FieldAt[n + 1] = offset + Prelude + len
    <3>1. n + 1 \in 1..header.field_count /\ (n + 1) - 1 = n
        BY <1>3, <1>4 DEF n
    <3>2. FieldAt[n + 1] = FieldAt[n] + Prelude + ReadU32(FieldAt[n] + U16)
        BY <1>4, <3>1, FieldAtIs
    <3> QED
        BY <2>2, <3>2
  <2>4. ASSUME NEW k \in 1..(n + 1)
        PROVE  /\ ReadU16(FieldAt[k - 1]) = fields'[k].id
               /\ Slice(FieldAt[k - 1] + Prelude, ReadU32(FieldAt[k - 1] + U16))
                     = fields'[k].bytes
    <3>1. CASE k \in 1..n
      <4>1. FoundAt(k) /\ fields'[k] = fields[k]
        BY <1>3, <2>2, <3>1
      <4> QED
        BY <4>1 DEF FoundAt
    <3>2. CASE k = n + 1
      <4>1. FieldAt[k - 1] = offset
        BY <1>3, <2>2, <3>2
      <4> QED
        BY <1>2, <1>3, <3>2, <4>1
    <3> QED
        BY <1>3, <3>1, <3>2
  <2>5. ASSUME NEW k \in 1..(n + 1) PROVE FoundAt(k)'
    BY <2>1, <2>4 DEF FoundAt, ReadU16, ReadU32, Slice
  <2> QED
    BY <1>3, <2>1, <2>3, <2>5 DEF Scanned
<1> QED
    BY <1>3, <1>5, <1>6, <1>7, <1>8 DEF FrameInv

\* The fields are taken one after the other.
LEMMA ReadFieldKeeps == FrameInv /\ ReadField => FrameInv'
<1> SUFFICES ASSUME FrameInv, ReadField PROVE FrameInv'
    OBVIOUS
<1>1. CASE FieldStatus # "fields" /\ Stop(FieldStatus)
  <2>1. FieldStatus \in Failure
    BY <1>1 DEF FieldStatus, Failure
  <2>2. PICK how \in Failure : Stop(how)
    BY <1>1, <2>1
  <2> QED
    BY <2>2, FailureKeeps
<1>2. CASE FieldStatus = "fields"
  <2> DEFINE id == ReadU16(offset)
             len == ReadU32(offset + U16)
  <2>1. /\ status = "fields" /\ Len(fields) < header.field_count
        /\ fields' = Append(fields, [id |-> id, bytes |-> Slice(offset + Prelude, len)])
        /\ previous' = id /\ offset' = offset + Prelude + len
        /\ UNCHANGED <<input, status, header>>
    BY <1>2 DEF ReadField, Stop
  <2> QED
    BY <1>2, <2>1, TakenFieldKeeps
<1> QED
    BY <1>1, <1>2 DEF ReadField

\* The frame is accepted if it ends where the input ends.
LEMMA FinishKeeps == FrameInv /\ Finish => FrameInv'
<1> SUFFICES ASSUME FrameInv, Finish PROVE FrameInv'
    OBVIOUS
<1>1. CASE Stop("TrailingBytes")
    BY <1>1, FailureKeeps DEF Failure
<1>2. CASE offset = Len(input) /\ Stop("accepted")
  <2>1. /\ status = "fields" /\ status' = "accepted" /\ Len(fields) = header.field_count
        /\ UNCHANGED <<input, offset, header, previous, fields>>
    BY <1>2 DEF Finish, Stop
  <2>2. TypeOK'
    BY <2>1 DEF FrameInv, TypeOK
  <2>3. Taken'
    BY <1>2, <2>1 DEF FrameInv, Taken
  <2>4. InOrder'
    BY <2>1 DEF FrameInv, InOrder, Ascending
  <2>5. Scanned'
    <3>1. FieldAt' = FieldAt
        BY <2>1, FieldAtStays
    <3>2. \A k \in 1..Len(fields) : FoundAt(k)'
        BY <2>1, <3>1 DEF FrameInv, Scanned, FoundAt, ReadU16, ReadU32, Slice
    <3> QED
        BY <2>1, <3>1, <3>2 DEF FrameInv, Scanned
  <2> QED
    BY <2>1, <2>2, <2>3, <2>4, <2>5 DEF FrameInv
<1> QED
    BY <1>1, <1>2 DEF Finish

\* The inductive invariant of decode_canonical_frame.
THEOREM FrameInvariant == Spec => []FrameInv
<1>1. FrameInv /\ UNCHANGED vars => FrameInv'
  <2> SUFFICES ASSUME FrameInv, UNCHANGED vars PROVE FrameInv'
    OBVIOUS
  <2>1. UNCHANGED <<input, offset, status, header, previous, fields>>
    BY DEF vars
  <2>2. FieldAt' = FieldAt
    BY <2>1, FieldAtStays
  <2>3. Scanned'
    BY <2>1, <2>2 DEF FrameInv, Scanned, FoundAt, ReadU16, ReadU32, Slice
  <2> QED
    BY <2>1, <2>3 DEF FrameInv, TypeOK, Taken, InOrder, Ascending
<1>2. FrameInv /\ [Next]_vars => FrameInv'
    BY <1>1, TakeMagicKeeps, ReadHeaderKeeps, ReadFieldKeeps, FinishKeeps DEF Next
<1> QED
    BY <1>2, InitFrame, PTL DEF Spec

\* The pass never leaves the input and never takes more fields than declared.
THEOREM FrameTypeCorrect == Spec => []TypeOK
<1>1. FrameInv => TypeOK
    BY DEF FrameInv
<1> QED
    BY <1>1, FrameInvariant, PTL

\* An accepted input is the encoding of its fields: the strict decode is the
\* canonicality check.
THEOREM OnlyCanonicalIsAccepted == Spec => []AcceptedIsCanonical
<1>1. FrameInv => AcceptedIsCanonical
  <2> SUFFICES ASSUME FrameInv, status = "accepted"
               PROVE  /\ Ascending(fields)
                      /\ input = Encoding(header.type_id, header.version, fields)
    BY DEF AcceptedIsCanonical
  <2>1. input \in Seq(Byte)
    BY InputAssumption DEF FrameInv, TypeOK
  <2>2. SubSeq(input, 1, Len(input)) = input
    BY <2>1, SubSeqFull
  <2> QED
    BY <2>2 DEF FrameInv, InOrder, Taken, Encoding
<1> QED
    BY <1>1, FrameInvariant, PTL

\* field() and require_only_fields scan an accepted frame without a check of their
\* own, and see exactly the fields that were decoded.
THEOREM ScansAgree == Spec => []ScanAgrees
<1>1. ASSUME FrameInv, status = "accepted"
      PROVE  /\ \A id : Field(id) =
                   {fields[i].bytes : i \in {i \in DOMAIN fields : fields[i].id = id}}
             /\ \A allowed :
                   OnlyFields(allowed) <=> {fields[i].id : i \in DOMAIN fields} \subseteq allowed
  <2> DEFINE n == Len(fields)
             at == FieldAt
             id_at(k) == ReadU16(at[k])
             bytes_at(k) == Slice(at[k] + Prelude, ReadU32(at[k] + U16))
  <2>1. n \in Nat /\ DOMAIN fields = 1..n /\ header.field_count = n
    BY <1>1, LenProperties DEF FrameInv, Taken
  <2>2. \A i \in 1..n : id_at(i - 1) = fields[i].id /\ bytes_at(i - 1) = fields[i].bytes
    BY <1>1 DEF FrameInv, Scanned, FoundAt
  <2>3. \A i, j \in 1..n : i < j => fields[i].id < fields[j].id
    BY <1>1, <2>1 DEF FrameInv, InOrder, Ascending
  <2>4. \A i \in 1..n : fields[i].id \in Nat
    BY <1>1, FieldOfSeq DEF FrameInv
  <2> HIDE DEF n, at, id_at, bytes_at
  <2>5. \A i, j \in 1..n : fields[i].id = fields[j].id => i = j
    BY <2>1, <2>3, <2>4
  <2>6. \A k \in 0..(n - 1) :
           k + 1 \in 1..n /\ id_at(k) = fields[k + 1].id /\ bytes_at(k) = fields[k + 1].bytes
    <3> SUFFICES ASSUME NEW k \in 0..(n - 1)
                 PROVE  /\ k + 1 \in 1..n
                        /\ id_at(k) = fields[k + 1].id /\ bytes_at(k) = fields[k + 1].bytes
        OBVIOUS
    <3>1. k + 1 \in 1..n /\ (k + 1) - 1 = k
        BY <2>1
    <3> QED
        BY <2>2, <3>1
  <2>7. ASSUME NEW id
        PROVE  Field(id) = {fields[i].bytes : i \in {i \in DOMAIN fields : fields[i].id = id}}
    <3> DEFINE hits == {k \in 0..(n - 1) : id_at(k) = id}
               first == {k \in hits : \A j \in hits : k <= j}
               named == {i \in 1..n : fields[i].id = id}
    <3>1. Field(id) = {bytes_at(k) : k \in first}
        BY <2>1 DEF Field, at, id_at, bytes_at
    <3>2. ASSUME NEW k \in hits PROVE k \in first
      <4>1. ASSUME NEW j \in hits PROVE k = j
        <5>1. fields[k + 1].id = fields[j + 1].id /\ k + 1 \in 1..n /\ j + 1 \in 1..n
            BY <2>6
        <5>2. k + 1 = j + 1 /\ k \in Nat /\ j \in Nat
            BY <2>1, <2>5, <5>1
        <5> QED
            BY <5>2
      <4>2. k \in Nat
        BY <2>1
      <4> QED
        BY <4>1, <4>2
    <3>3. first = hits
        BY <3>2
    <3>4. ASSUME NEW k \in hits PROVE \E i \in named : bytes_at(k) = fields[i].bytes
        BY <2>6
    <3>5. ASSUME NEW i \in named PROVE \E k \in hits : bytes_at(k) = fields[i].bytes
      <4>1. i - 1 \in 0..(n - 1)
        BY <2>1
      <4> QED
        BY <2>2, <4>1
    <3>6. {bytes_at(k) : k \in hits} = {fields[i].bytes : i \in named}
      <4> HIDE DEF hits, named
      <4> QED
        BY <3>4, <3>5
    <3> QED
        BY <2>1, <3>1, <3>3, <3>6
  <2>8. ASSUME NEW allowed
        PROVE  OnlyFields(allowed) <=> {fields[i].id : i \in DOMAIN fields} \subseteq allowed
    <3>1. OnlyFields(allowed) <=> \A k \in 0..(n - 1) : id_at(k) \in allowed
        BY <2>1 DEF OnlyFields, at, id_at
    <3>2. ASSUME \A k \in 0..(n - 1) : id_at(k) \in allowed, NEW i \in 1..n
          PROVE  fields[i].id \in allowed
      <4>1. i - 1 \in 0..(n - 1)
        BY <2>1
      <4> QED
        BY <2>2, <3>2, <4>1
    <3>3. ASSUME \A i \in 1..n : fields[i].id \in allowed, NEW k \in 0..(n - 1)
          PROVE  id_at(k) \in allowed
        BY <2>6, <3>3
    <3> QED
        BY <2>1, <3>1, <3>2, <3>3
  <2> QED
    BY <2>7, <2>8
<1>2. FrameInv => ScanAgrees
    BY <1>1 DEF ScanAgrees
<1> QED
    BY <1>2, FrameInvariant, PTL

-----------------------------------------------------------------------------
(* No encoding is refused: each part of it is found where the pass looks.  *)

\* A frame that the encoder takes.
LEMMA EncodableFrame ==
    ASSUME NEW f \in Encodable
    PROVE  /\ Fits(f.type_id, U16) /\ Fits(f.version, U16) /\ Fits(Len(f.fields), U16)
           /\ f.fields \in Seq(FieldRecord)
           /\ \A i \in 1..Len(f.fields) :
                 Fits(f.fields[i].id, U16) /\ Fits(Len(f.fields[i].bytes), U32)
           /\ f.type_id \in Nat /\ f.version \in Nat /\ Len(f.fields) \in Nat
<1>1. /\ Fits(f.type_id, U16) /\ Fits(f.version, U16) /\ Fits(Len(f.fields), U16)
      /\ f.fields \in Seq(FieldRecord)
      /\ \A i \in DOMAIN f.fields :
            Fits(f.fields[i].id, U16) /\ Fits(Len(f.fields[i].bytes), U32)
    BY EncodableAssumption DEF FieldRecord
<1>2. U16 \in Nat
    BY WidthAssumption
<1>3. f.type_id \in Nat /\ f.version \in Nat
    BY <1>1, <1>2, ValueOfDigits
<1> QED
    BY <1>1, <1>3, LenProperties

\* What the encoder makes of it, and how long that is.
LEMMA EncodingIs ==
    ASSUME NEW f \in Encodable
    PROVE  LET bytes == Encoding(f.type_id, f.version, f.fields)
               start == EncodedHeader(f.type_id, f.version, Len(f.fields))
               body == EncodedFields(f.fields)[Len(f.fields)]
           IN  /\ start \in Seq(Byte) /\ Len(start) = FieldsStart
               /\ body \in Seq(Byte) /\ Len(body) \in Nat
               /\ bytes = start \o body /\ bytes \in Seq(Byte)
               /\ Len(bytes) = FieldsStart + Len(body)
<1> DEFINE n == Len(f.fields)
           start == EncodedHeader(f.type_id, f.version, n)
           body == EncodedFields(f.fields)[n]
<1>1. start \in Seq(Byte) /\ Len(start) = FieldsStart
    BY EncodableFrame, EncodedHeaderIs
<1>2. body \in Seq(Byte)
  <2>1. EncodedFields(f.fields) \in [0..n -> Seq(Byte)] /\ n \in Nat
    BY EncodableFrame, EncodedFieldsAre
  <2> QED
    BY <2>1
<1>3. Encoding(f.type_id, f.version, f.fields) = start \o body
    BY DEF Encoding
<1> HIDE DEF start, body
<1>4. start \o body \in Seq(Byte) /\ Len(start \o body) = FieldsStart + Len(body)
      /\ Len(body) \in Nat
    BY <1>1, <1>2, BehindBytes
<1> QED
    BY <1>1, <1>2, <1>3, <1>4 DEF start, body

\* Its magic and its header.
LEMMA EncodingBegins ==
    ASSUME NEW f \in Encodable, input = Encoding(f.type_id, f.version, f.fields)
    PROVE  /\ Has(0, Len(Magic)) /\ Slice(0, Len(Magic)) = Magic
           /\ Has(Len(Magic), HeaderLen)
           /\ ReadU16(Len(Magic) + 2 * U16) = Len(f.fields)
<1> DEFINE t == Digits(f.type_id, U16)
           v == Digits(f.version, U16)
           c == Digits(Len(f.fields), U16)
           body == EncodedFields(f.fields)[Len(f.fields)]
<1>1. /\ U16 \in Nat /\ Magic \in Seq(Byte) /\ Len(Magic) \in Nat
      /\ f.type_id \in Nat /\ f.version \in Nat /\ Len(f.fields) \in Nat
    BY WidthAssumption, InputAssumption, LenProperties, EncodableFrame
<1>2. /\ t \in Seq(Byte) /\ Len(t) = U16
      /\ v \in Seq(Byte) /\ Len(v) = U16
      /\ c \in Seq(Byte) /\ Len(c) = U16
    BY <1>1, DigitsAre
<1>3. /\ body \in Seq(Byte) /\ Len(body) \in Nat
      /\ input = (((Magic \o t) \o v) \o c) \o body
      /\ Len(input) = FieldsStart + Len(body)
    BY EncodingIs DEF EncodedHeader
<1>4. LittleEndian(c) = Len(f.fields)
    BY <1>1, EncodableFrame, ValueOfDigits
<1> HIDE DEF t, v, c, body
<1> DEFINE mt == Magic \o t
<1>5. mt \in Seq(Byte) /\ Len(mt) = Len(Magic) + U16
    BY <1>1, <1>2, BehindBytes
<1>6. \A u \in Seq(Byte) : mt \o u = Magic \o (t \o u) /\ t \o u \in Seq(Byte)
  <2>1. \A u \in Seq(Byte) : mt \o u = Magic \o (t \o u)
    BY <1>1, <1>2, Regroup, Zenon
  <2>2. \A u \in Seq(Byte) : t \o u \in Seq(Byte)
    BY <1>2, BehindBytes, Zenon
  <2> QED
    BY <2>1, <2>2
<1> HIDE DEF mt
<1>7. /\ mt \o v \in Seq(Byte) /\ Len(mt \o v) = Len(Magic) + 2 * U16
      /\ c \o body \in Seq(Byte) /\ v \o (c \o body) \in Seq(Byte)
      /\ input = (mt \o v) \o (c \o body)
      /\ input = Magic \o (t \o (v \o (c \o body)))
      /\ t \o (v \o (c \o body)) \in Seq(Byte)
  <2>1. /\ mt \o v \in Seq(Byte) /\ Len(mt \o v) = Len(mt) + Len(v)
        /\ c \o body \in Seq(Byte) /\ v \o (c \o body) \in Seq(Byte)
        /\ ((mt \o v) \o c) \o body = (mt \o v) \o (c \o body)
        /\ ((mt \o v) \o c) \o body = mt \o (v \o (c \o body))
    <3>1. mt \in Seq(Byte) /\ v \in Seq(Byte) /\ c \in Seq(Byte) /\ body \in Seq(Byte)
        BY <1>2, <1>3, <1>5
    <3>2. Joined(mt, v, c, body)
        BY <3>1, FourParts
    <3> QED
        BY <3>2 DEF Joined
  <2>2. input = ((mt \o v) \o c) \o body
    BY <1>3 DEF mt
  <2> DEFINE x == v \o (c \o body)
  <2>3. mt \o x = Magic \o (t \o x) /\ t \o x \in Seq(Byte)
    <3>1. x \in Seq(Byte)
        BY <2>1
    <3> HIDE DEF x
    <3> QED
        BY <1>6, <3>1
  <2>4. Len(mt \o v) = Len(Magic) + 2 * U16
    BY <1>1, <1>2, <1>5, <2>1
  <2> QED
    BY <2>1, <2>2, <2>3, <2>4
<1>8. Has(0, Len(Magic)) /\ Slice(0, Len(Magic)) = Magic
  <2> DEFINE rest == t \o (v \o (c \o body))
  <2>1. rest \in Seq(Byte) /\ input = Magic \o rest
    BY <1>7
  <2> HIDE DEF rest
  <2>2. input = <<>> \o (Magic \o rest) /\ <<>> \in Seq(Byte) /\ Len(<<>>) = 0
    BY <1>1, <2>1, BehindBytes, ConcatEmptySeq, EmptySeq
  <2>3. Has(Len(<<>>), Len(Magic)) /\ Slice(Len(<<>>), Len(Magic)) = Magic
    BY <1>1, <2>1, <2>2, SliceOfConcat
  <2> QED
    BY <2>2, <2>3
<1>9. Has(Len(Magic), HeaderLen)
    BY <1>1, <1>3 DEF Has, HeaderLen, FieldsStart
<1>10. Slice(Len(Magic) + 2 * U16, U16) = c
  <2> DEFINE before == mt \o v
  <2>1. before \in Seq(Byte) /\ input = before \o (c \o body) /\ Len(before) = Len(Magic) + 2 * U16
    BY <1>7
  <2> HIDE DEF before
  <2>2. Slice(Len(before), Len(c)) = c
    BY <1>2, <1>3, <2>1, SliceOfConcat
  <2> QED
    BY <1>2, <2>1, <2>2
<1> QED
    BY <1>4, <1>8, <1>9, <1>10 DEF ReadU16

\* Each of its fields.
LEMMA EncodingGoesOn ==
    ASSUME NEW f \in Encodable, input = Encoding(f.type_id, f.version, f.fields),
           NEW k \in 0..(Len(f.fields) - 1),
           NEW at, at = FieldsStart + Len(EncodedFields(f.fields)[k])
    PROVE  /\ at \in Nat
           /\ Has(at, U16) /\ ReadU16(at) = f.fields[k + 1].id
           /\ Has(at + U16, U32) /\ ReadU32(at + U16) = Len(f.fields[k + 1].bytes)
           /\ Has(at + Prelude, Len(f.fields[k + 1].bytes))
           /\ at + Prelude + Len(f.fields[k + 1].bytes) =
                 FieldsStart + Len(EncodedFields(f.fields)[k + 1])
<1> DEFINE fs == f.fields
           n == Len(fs)
           field == fs[k + 1]
           e == EncodedFields(fs)
           start == EncodedHeader(f.type_id, f.version, n)
           i == Digits(field.id, U16)
           l == Digits(Len(field.bytes), U32)
           b == field.bytes
<1>1. /\ fs \in Seq(FieldRecord) /\ n \in Nat /\ k + 1 \in 1..n
      /\ k \in 0..n /\ k + 1 \in 0..n /\ (k + 1) - 1 = k
      /\ U16 \in Nat /\ U32 \in Nat
    BY EncodableFrame, WidthAssumption
<1>2. field \in FieldRecord
    BY <1>1, ElementOfSeq
<1>3. /\ i \in Seq(Byte) /\ Len(i) = U16
      /\ l \in Seq(Byte) /\ Len(l) = U32
      /\ b \in Seq(Byte) /\ Len(b) \in Nat
      /\ EncodedField(field) = (i \o l) \o b
      /\ EncodedField(field) \in Seq(Byte)
      /\ Len(EncodedField(field)) = Prelude + Len(b)
    BY <1>2, EncodedFieldParts DEF EncodedField
<1>4. LittleEndian(i) = field.id /\ LittleEndian(l) = Len(b)
    BY <1>1, EncodableFrame, ValueOfDigits
<1>5. /\ e[k] \in Seq(Byte) /\ Len(e[k]) \in Nat
      /\ e[k + 1] = e[k] \o EncodedField(field)
      /\ Len(e[k + 1]) = Len(e[k]) + (Prelude + Len(b))
  <2>1. e[k] \in Seq(Byte) /\ e[k + 1] = e[k] \o EncodedField(field)
    BY <1>1, EncodedFieldsAre
  <2> QED
    BY <1>3, <2>1, BehindBytes
<1>6. PICK rest \in Seq(Byte) : e[n] = e[k] \o (EncodedField(field) \o rest)
    BY <1>1, EncodedFieldsBegin
<1>7. /\ start \in Seq(Byte) /\ Len(start) = FieldsStart
      /\ input = start \o e[n]
    BY EncodingIs
<1>8. FieldsStart \in Nat
    BY <1>7, LenProperties
<1> HIDE DEF fs, n, e, field, start, i, l, b
<1> DEFINE before == start \o e[k]
<1>9. before \in Seq(Byte) /\ Len(before) = at /\ at \in Nat
  <2>1. before \in Seq(Byte) /\ Len(before) = Len(start) + Len(e[k])
    BY <1>5, <1>7, BehindBytes
  <2>2. at = FieldsStart + Len(e[k])
    BY DEF e, fs
  <2> QED
    BY <1>5, <1>7, <1>8, <2>1, <2>2
<1> DEFINE x == i \o (l \o (b \o rest))
<1>10. /\ b \o rest \in Seq(Byte) /\ l \o (b \o rest) \in Seq(Byte) /\ x \in Seq(Byte)
       /\ Len(x) = U16 + U32 + Len(b) + Len(rest) /\ Len(rest) \in Nat
       /\ ((i \o l) \o b) \o rest = x
  <2>1. i \in Seq(Byte) /\ l \in Seq(Byte) /\ b \in Seq(Byte) /\ rest \in Seq(Byte)
    BY <1>3, <1>6
  <2>2. /\ b \o rest \in Seq(Byte) /\ l \o (b \o rest) \in Seq(Byte) /\ x \in Seq(Byte)
        /\ Len(x) = Len(i) + Len(l) + Len(b) + Len(rest) /\ Len(rest) \in Nat
        /\ ((i \o l) \o b) \o rest = x
    <3>1. Joined(i, l, b, rest)
        BY <2>1, FourParts
    <3> QED
        BY <3>1 DEF Joined
  <2> QED
    BY <1>3, <2>2
<1>11. input = before \o x
  <2> HIDE DEF x
  <2>1. e[n] = e[k] \o x
    BY <1>3, <1>6, <1>10
  <2>2. (start \o e[k]) \o x = start \o (e[k] \o x)
    BY <1>5, <1>7, <1>10, Regroup
  <2> QED
    BY <1>7, <2>1, <2>2
<1> HIDE DEF before
<1>12. Has(at, U16) /\ Slice(at, U16) = i
  <2> DEFINE behind == l \o (b \o rest)
  <2>1. behind \in Seq(Byte) /\ input = before \o (i \o behind)
    BY <1>10, <1>11
  <2> HIDE DEF behind
  <2>2. Has(Len(before), Len(i)) /\ Slice(Len(before), Len(i)) = i
    BY <1>3, <1>9, <2>1, SliceOfConcat
  <2> QED
    BY <1>3, <1>9, <2>2
<1>13. Has(at + U16, U32) /\ Slice(at + U16, U32) = l
  <2> DEFINE past == before \o i
             behind == l \o (b \o rest)
  <2>1. past \in Seq(Byte) /\ Len(past) = at + U16
    <3>1. past \in Seq(Byte) /\ Len(past) = Len(before) + Len(i)
        BY <1>3, <1>9, BehindBytes
    <3> QED
        BY <1>3, <1>9, <3>1
  <2>2. input = past \o behind
    <3>1. \A u \in Seq(Byte) : (before \o i) \o u = before \o (i \o u)
        BY <1>3, <1>9, Regroup
    <3>2. behind \in Seq(Byte) /\ input = before \o (i \o behind)
        BY <1>10, <1>11
    <3> HIDE DEF behind
    <3> QED
        BY <3>1, <3>2
  <2> HIDE DEF past
  <2>3. Has(Len(past), Len(l)) /\ Slice(Len(past), Len(l)) = l
    BY <1>3, <1>10, <2>1, <2>2, SliceOfConcat
  <2> QED
    BY <1>3, <2>1, <2>3
<1>14. Has(at + Prelude, Len(b))
  <2>1. Len(input) = at + Len(x)
    <3> HIDE DEF x
    <3> QED
        BY <1>9, <1>10, <1>11, BehindBytes
  <2>2. Len(x) = U16 + U32 + Len(b) + Len(rest) /\ Len(rest) \in Nat
    BY <1>10
  <2>3. U16 \in Nat /\ U32 \in Nat /\ at \in Nat /\ Len(b) \in Nat
    BY <1>1, <1>3, <1>9
  <2> HIDE DEF x
  <2> QED
    BY <2>1, <2>2, <2>3 DEF Has, Prelude
<1>15. at + Prelude + Len(b) = FieldsStart + Len(e[k + 1])
  <2>1. Prelude \in Nat
    BY <1>1 DEF Prelude
  <2>2. at = FieldsStart + Len(e[k])
    BY DEF e, fs
  <2>3. at + Prelude + Len(b) = FieldsStart + (Len(e[k]) + (Prelude + Len(b)))
    <3> DEFINE s == FieldsStart
               y == Len(e[k])
               p == Prelude
               z == Len(b)
    <3>1. s \in Nat /\ y \in Nat /\ p \in Nat /\ z \in Nat /\ at = s + y
        BY <1>3, <1>5, <1>8, <2>1, <2>2
    <3> HIDE DEF s, y, p, z
    <3>2. (s + y) + p + z = s + (y + (p + z))
        BY <3>1
    <3>3. at + p + z = s + (y + (p + z))
        BY <3>1, <3>2
    <3> QED
        BY <3>3 DEF s, y, p, z
  <2> QED
    BY <1>5, <2>3
<1> QED
    BY <1>4, <1>9, <1>12, <1>13, <1>14, <1>15 DEF ReadU16, ReadU32, fs, e, field, b

IsEncodingOf(f) ==
    Ascending(f.fields) /\ input = Encoding(f.type_id, f.version, f.fields)

\* What was taken when the header is read is the magic.
LEMMA MagicIsTaken ==
    ASSUME FrameInv, status = "header"
    PROVE  offset = Len(Magic)
<1>1. /\ input \in Seq(Byte) /\ Len(input) \in Nat
      /\ offset \in Nat /\ offset <= Len(input)
      /\ SubSeq(input, 1, offset) = Magic
    BY InputAssumption, LenProperties DEF FrameInv, TypeOK, Taken
<1>2. Has(0, offset)
    BY <1>1 DEF Has
<1>3. Len(Slice(0, offset)) = offset
    BY <1>1, <1>2, SliceIs
<1> QED
    BY <1>1, <1>3 DEF Slice

\* The header of an encoding declares its fields, and the first begins behind it.
LEMMA ReadHeaderFollows ==
    ASSUME FrameInv, NEW f \in Encodable, IsEncodingOf(f), ReadHeader
    PROVE  Follows(f)'
<1>1. offset = Len(Magic) /\ fields = <<>> /\ previous = NoField
    BY MagicIsTaken DEF ReadHeader, FrameInv, Taken, InOrder
<1>2. Has(offset, HeaderLen) /\ ReadU16(offset + 2 * U16) = Len(f.fields)
    BY <1>1, EncodingBegins DEF IsEncodingOf
<1>3. /\ header' = [type_id |-> ReadU16(offset),
                    version |-> ReadU16(offset + U16),
                    field_count |-> ReadU16(offset + 2 * U16)]
      /\ offset' = offset + HeaderLen /\ status' = "fields"
      /\ UNCHANGED <<input, previous, fields>>
    BY <1>2 DEF ReadHeader
<1>4. header'.field_count = Len(f.fields)
    BY <1>2, <1>3
<1>5. Len(fields') = 0 /\ previous' = NoField
    BY <1>1, <1>3, EmptySeq
<1>6. offset' = FieldsStart + Len(EncodedFields(f.fields)[0])
  <2>1. EncodedFields(f.fields)[0] = <<>> /\ Len(<<>>) = 0
    BY EncodableFrame, EncodedFieldsAre, EmptySeq
  <2>2. FieldsStart \in Nat /\ offset' = FieldsStart
    BY <1>1, <1>3, InputAssumption, WidthAssumption, LenProperties DEF FieldsStart, HeaderLen
  <2> QED
    BY <2>1, <2>2
<1> QED
    BY <1>3, <1>4, <1>5, <1>6 DEF Follows, Failure

\* Behind a field of an encoding comes its next field.
LEMMA ReadFieldFollows ==
    ASSUME FrameInv, NEW f \in Encodable, IsEncodingOf(f), Follows(f), ReadField
    PROVE  Follows(f)'
<1> DEFINE k == Len(fields)
           n == Len(f.fields)
           field == f.fields[k + 1]
<1>1. /\ status = "fields" /\ k < n /\ header.field_count = n
      /\ offset = FieldsStart + Len(EncodedFields(f.fields)[k])
      /\ previous = IF k = 0 THEN NoField ELSE f.fields[k].id
    BY DEF ReadField, Follows
<1>2. /\ k \in Nat /\ n \in Nat /\ f.fields \in Seq(FieldRecord) /\ fields \in Seq(FieldRecord)
      /\ DOMAIN f.fields = 1..n
    BY EncodableFrame, LenProperties DEF FrameInv
<1>3. k \in 0..(n - 1) /\ k + 1 \in 1..n
    BY <1>1, <1>2
<1>4. /\ Has(offset, U16) /\ ReadU16(offset) = field.id
      /\ Has(offset + U16, U32) /\ ReadU32(offset + U16) = Len(field.bytes)
      /\ Has(offset + Prelude, Len(field.bytes))
      /\ offset + Prelude + Len(field.bytes) =
            FieldsStart + Len(EncodedFields(f.fields)[k + 1])
    BY <1>1, <1>3, EncodingGoesOn DEF IsEncodingOf
<1>5. ~ (field.id <= previous)
  <2>1. field.id \in Nat
    BY <1>2, <1>3, FieldOfSeq
  <2>2. CASE k = 0
    BY <1>1, <2>1, <2>2 DEF NoField
  <2>3. CASE k # 0
    <3>1. k \in 1..n /\ k < k + 1
        BY <1>2, <1>3, <2>3
    <3>2. f.fields[k].id < field.id /\ f.fields[k].id \in Nat
        BY <1>2, <1>3, <3>1, FieldOfSeq DEF IsEncodingOf, Ascending
    <3> QED
        BY <1>1, <2>1, <2>3, <3>2
  <2> QED
    BY <2>2, <2>3
<1>6. FieldStatus = "fields"
    BY <1>4, <1>5 DEF FieldStatus
<1> DEFINE taken == [id |-> ReadU16(offset),
                     bytes |-> Slice(offset + Prelude, ReadU32(offset + U16))]
<1>7. /\ fields' = Append(fields, taken)
      /\ previous' = ReadU16(offset) /\ offset' = offset + Prelude + ReadU32(offset + U16)
      /\ UNCHANGED <<input, status, header>>
    BY <1>6 DEF ReadField, Stop
<1>8. taken \in FieldRecord
    BY <1>1, <1>6, FieldIsRead
<1> HIDE DEF taken, k, n, field
<1>9. Len(fields') = k + 1
    BY <1>2, <1>7, <1>8, AppendProperties DEF k
<1>10. previous' = f.fields[k + 1].id
    BY <1>4, <1>7 DEF field
<1>11. offset' = FieldsStart + Len(EncodedFields(f.fields)[k + 1])
    BY <1>4, <1>7
<1>12. k + 1 # 0
    BY <1>2
<1> QED
    BY <1>1, <1>7, <1>9, <1>10, <1>11, <1>12 DEF Follows, Failure, n

\* Behind the last field of an encoding comes nothing.
LEMMA FinishFollows ==
    ASSUME FrameInv, NEW f \in Encodable, IsEncodingOf(f), Follows(f), Finish
    PROVE  Follows(f)'
<1>1. /\ status = "fields" /\ Len(fields) = Len(f.fields)
      /\ offset = FieldsStart + Len(EncodedFields(f.fields)[Len(f.fields)])
    BY DEF Finish, Follows
<1>2. offset = Len(input)
    BY <1>1, EncodingIs DEF IsEncodingOf
<1> QED
    BY <1>2 DEF Finish, Stop, Follows, Failure

\* The pass over an encoding goes from one of its parts to the next.
LEMMA NextFollows ==
    ASSUME FrameInv, NEW f \in Encodable, IsEncodingOf(f), Follows(f), [Next]_vars
    PROVE  Follows(f)'
<1>1. CASE TakeMagic
  <2>1. Has(0, Len(Magic)) /\ Slice(0, Len(Magic)) = Magic
    BY EncodingBegins DEF IsEncodingOf
  <2> QED
    BY <1>1, <2>1 DEF TakeMagic, Follows, Failure
<1>2. CASE ReadHeader
    BY <1>2, ReadHeaderFollows
<1>3. CASE ReadField
    BY <1>3, ReadFieldFollows
<1>4. CASE Finish
    BY <1>4, FinishFollows
<1>5. CASE UNCHANGED vars
    BY <1>5 DEF vars, Follows
<1> QED
    BY <1>1, <1>2, <1>3, <1>4, <1>5 DEF Next

\* No encoding is refused.
THEOREM EncodingsAreAccepted == Spec => []RefusedIsNotCanonical
<1>1. Init => EncodingsFollow
    BY DEF Init, EncodingsFollow, Follows, Failure
<1>2. FrameInv /\ EncodingsFollow /\ [Next]_vars => EncodingsFollow'
  <2> SUFFICES ASSUME FrameInv, EncodingsFollow, [Next]_vars,
                      NEW f \in Encodable, Ascending(f.fields),
                      input' = Encoding(f.type_id, f.version, f.fields)
               PROVE  Follows(f)'
    BY DEF EncodingsFollow
  <2>1. input' = input
    BY DEF Next, vars, TakeMagic, ReadHeader, ReadField, Finish, Stop
  <2>2. IsEncodingOf(f) /\ Follows(f)
    BY <2>1 DEF EncodingsFollow, IsEncodingOf
  <2> QED
    BY <2>2, NextFollows
<1>3. EncodingsFollow => RefusedIsNotCanonical
    BY DEF EncodingsFollow, Follows, RefusedIsNotCanonical, Canonical
<1>4. Spec => []EncodingsFollow
    BY <1>1, <1>2, FrameInvariant, PTL DEF Spec
<1> QED
    BY <1>3, <1>4, PTL

=============================================================================
