--------------------------- MODULE ConversionProofs ---------------------------
(***************************************************************************)
(* Proofs about the conversions at the edges of the device, for every base *)
(* and every width: the path a key is derived from, the key that is given  *)
(* out, and the text a value is shown as.                                  *)
(***************************************************************************)
EXTENDS DerivationPath, PointCompression, FactText, NumeralsProofs

-----------------------------------------------------------------------------
(* The path.  Half the values of a component have the highest bit.         *)

\* The components of a path are pairs of the base.
LEMMA HardenedBitIs ==
    /\ HARDENED_BIT \in Nat \ {0}
    /\ Power(Base, Width) = 2 * HARDENED_BIT
<1> DEFINE half == Base \div 2
           rest == Power(Base, Width - 1)
<1>1. Base \in Nat \ {0, 1} /\ Base = 2 * half /\ half \in Nat
    BY BaseAssumption, ComponentAssumption
<1>2. Width - 1 \in Nat /\ (Width - 1) + 1 = Width
    BY ComponentAssumption
<1>3. Power(Base, (Width - 1) + 1) = Base * rest /\ rest \in Nat \ {0}
    BY <1>1, <1>2, PowerIs
<1> HIDE DEF half, rest
<1>4. Power(Base, Width) = 2 * (half * rest) /\ half * rest \in Nat
    BY <1>1, <1>2, <1>3
<1>5. half # 0
    BY <1>1
<1>6. half * rest # 0
    BY <1>1, <1>3, <1>5
<1>7. HARDENED_BIT = half * rest
    BY <1>4 DEF HARDENED_BIT
<1> QED
    BY <1>4, <1>6, <1>7

\* Division of a number below twice another by that.
LEMMA OnceOrNot ==
    ASSUME NEW h \in Nat \ {0}, NEW n \in 0..(2 * h - 1)
    PROVE  /\ n < h => n \div h = 0 /\ n % h = n
           /\ n >= h => n \div h = 1 /\ n % h = n - h
<1> DEFINE q == n \div h
           m == n % h
<1>1. q \in Nat /\ m \in 0..(h - 1) /\ n = h * q + m
    OBVIOUS
<1> HIDE DEF q, m
<1>2. q = 0 \/ q = 1 \/ q >= 2
    BY <1>1
<1>3. q >= 2 => h * q >= h * 2
    BY <1>1, Grows
<1>4. q < 2
    BY <1>1, <1>3
<1>5. q = 0 => n = m
    BY <1>1
<1>6. q = 1 => n = h + m
    BY <1>1
<1> QED
    BY <1>1, <1>2, <1>4, <1>5, <1>6 DEF q, m

\* The decoder takes off the bit the conversion to components puts on.
LEMMA TheBit ==
    /\ \A n \in 0..(HARDENED_BIT - 1) :
          /\ Unhardened(n) = n /\ ~IsHardened(n)
          /\ Hardened(n) = n + HARDENED_BIT
          /\ Hardened(n) \in HARDENED_BIT..(2 * HARDENED_BIT - 1)
    /\ \A n \in 0..(2 * HARDENED_BIT - 1) :
          /\ IsHardened(n) <=> n >= HARDENED_BIT
          /\ IsHardened(n) => /\ Unhardened(n) \in 0..(HARDENED_BIT - 1)
                              /\ n = Unhardened(n) + HARDENED_BIT
<1>1. HARDENED_BIT \in Nat \ {0}
    BY HardenedBitIs
<1>2. ASSUME NEW n \in 0..(HARDENED_BIT - 1)
      PROVE  /\ Unhardened(n) = n /\ ~IsHardened(n)
             /\ Hardened(n) = n + HARDENED_BIT
             /\ Hardened(n) \in HARDENED_BIT..(2 * HARDENED_BIT - 1)
  <2>1. n \in 0..(2 * HARDENED_BIT - 1) /\ n < HARDENED_BIT
    BY <1>1
  <2>2. n \div HARDENED_BIT = 0 /\ n % HARDENED_BIT = n
    BY <1>1, <2>1, OnceOrNot
  <2> QED
    BY <1>1, <2>1, <2>2 DEF Unhardened, IsHardened, Hardened
<1>3. ASSUME NEW n \in 0..(2 * HARDENED_BIT - 1)
      PROVE  /\ IsHardened(n) <=> n >= HARDENED_BIT
             /\ IsHardened(n) => /\ Unhardened(n) \in 0..(HARDENED_BIT - 1)
                                 /\ n = Unhardened(n) + HARDENED_BIT
  <2>1. /\ n < HARDENED_BIT => n \div HARDENED_BIT = 0
        /\ n >= HARDENED_BIT => n \div HARDENED_BIT = 1
                                /\ n % HARDENED_BIT = n - HARDENED_BIT
    BY <1>1, OnceOrNot
  <2> QED
    BY <1>1, <2>1 DEF Unhardened, IsHardened
<1> QED
    BY <1>2, <1>3

\* The bytes of the i-th component.
ComponentBytes(i) == SubSeq(bytes, 2 + (i - 1) * Width, 1 + i * Width)

\* Every component is read from as many bytes as it has.
LEMMA ComponentIs ==
    ASSUME bytes \in Seq(Byte), Len(bytes) = PATH_ENCODED_LEN, NEW i \in 1..PATH_DEPTH
    PROVE  /\ ComponentBytes(i) \in Seq(Byte) /\ Len(ComponentBytes(i)) = Width
           /\ \A j \in 1..Width : ComponentBytes(i)[j] = bytes[1 + (i - 1) * Width + j]
           /\ Component(i) \in 0..(2 * HARDENED_BIT - 1)
           /\ ToBigEndian(Component(i), Width) = ComponentBytes(i)
<1> DEFINE from == 2 + (i - 1) * Width
           to == 1 + i * Width
<1>1. Width \in Nat \ {0} /\ Base \in Nat \ {0, 1}
    BY BaseAssumption, ComponentAssumption
<1>2. i \in Nat /\ i >= 1 /\ i <= 5 /\ Len(bytes) = 1 + 5 * Width
    BY DEF PATH_DEPTH, PATH_ENCODED_LEN
<1>3. /\ from \in Int /\ to \in Int /\ to - from + 1 = Width
      /\ from >= 1 /\ to <= Len(bytes)
      /\ \A j \in 1..Width : from + j - 1 = 1 + (i - 1) * Width + j
  <2>1. i = 1 \/ i = 2 \/ i = 3 \/ i = 4 \/ i = 5
    BY <1>2
  <2> QED
    BY <1>1, <1>2, <2>1
<1> HIDE DEF from, to
<1>4. \A k \in from..to : bytes[k] \in Byte
  <2>1. \A k \in from..to : k \in 1..Len(bytes)
    BY <1>2, <1>3, <1>1
  <2> QED
    BY <2>1, ElementOfSeq
<1>5. /\ SubSeq(bytes, from, to) \in Seq(Byte)
      /\ Len(SubSeq(bytes, from, to)) = Width
      /\ \A j \in 1..Width : SubSeq(bytes, from, to)[j] = bytes[from + j - 1]
  <2>1. /\ SubSeq(bytes, from, to) \in Seq(Byte)
        /\ Len(SubSeq(bytes, from, to)) = IF from <= to THEN to - from + 1 ELSE 0
        /\ \A j \in 1..(to - from + 1) : SubSeq(bytes, from, to)[j] = bytes[from + j - 1]
    BY <1>3, <1>4, SubSeqProperties
  <2> QED
    BY <1>1, <1>3, <2>1
<1>6. ComponentBytes(i) = SubSeq(bytes, from, to)
    BY DEF ComponentBytes, from, to
<1> DEFINE s == ComponentBytes(i)
<1>7. s \in Seq(Digit(Base)) /\ Len(s) = Width
    BY <1>5, <1>6 DEF Byte
<1>8. Component(i) = NumberOf(Base, s)
    BY DEF Component, BigEndian, ComponentBytes
<1> HIDE DEF s
<1>9. NumberOf(Base, s) \in Nat
    BY <1>1, <1>7, NumberIsNat
<1>10. NumberOf(Base, s) < Power(Base, Width)
  <2>1. \A k \in 0..Len(s) : Values(Base, s)[k] < Power(Base, k)
    BY <1>1, <1>7, NumberBound
  <2> QED
    BY <1>1, <1>7, <2>1 DEF NumberOf
<1>11. DigitsOf(Base, NumberOf(Base, s), Width) = s
    BY <1>1, <1>7, DigitsOfNumber
<1>12. Component(i) \in 0..(2 * HARDENED_BIT - 1)
    BY <1>8, <1>9, <1>10, HardenedBitIs
<1>13. ToBigEndian(Component(i), Width) = ComponentBytes(i)
    BY <1>8, <1>11 DEF ToBigEndian, s
<1> QED
    BY <1>3, <1>5, <1>6, <1>12, <1>13

\* A sequence behind another.
LEMMA Behind ==
    ASSUME NEW s \in Seq(Nat), NEW t \in Seq(Nat)
    PROVE  /\ s \o t \in Seq(Nat) /\ Len(s \o t) = Len(s) + Len(t)
           /\ \A i \in 1..Len(s) : (s \o t)[i] = s[i]
           /\ \A i \in 1..Len(t) : (s \o t)[Len(s) + i] = t[i]
<1>1. Len(s) \in Nat /\ Len(t) \in Nat
    OBVIOUS
<1>2. /\ s \o t \in Seq(Nat) /\ Len(s \o t) = Len(s) + Len(t)
      /\ \A i \in 1..(Len(s) + Len(t)) :
            (s \o t)[i] = IF i <= Len(s) THEN s[i] ELSE t[i - Len(s)]
    BY ConcatProperties
<1>3. ASSUME NEW i \in 1..Len(s) PROVE (s \o t)[i] = s[i]
    BY <1>1, <1>2
<1>4. ASSUME NEW i \in 1..Len(t) PROVE (s \o t)[Len(s) + i] = t[i]
  <2>1. Len(s) + i \in 1..(Len(s) + Len(t)) /\ ~(Len(s) + i <= Len(s))
        /\ (Len(s) + i) - Len(s) = i
    BY <1>1
  <2> QED
    BY <1>2, <2>1
<1> QED
    BY <1>2, <1>3, <1>4

\* A part of so many bytes more, behind k of them and the depth.
Grown(w, k, s, d, t) ==
    /\ t \in Seq(Nat) /\ Len(t) = 1 + k * w
    /\ \A j \in 1..(1 + (k - 1) * w) : t[j] = s[j]
    /\ \A j \in 1..w : t[1 + (k - 1) * w + j] = d[j]

\* Five parts behind the depth, each in its place.
InPlace(w, d, t) ==
    /\ Len(t) = 1 + 5 * w
    /\ t[1] = 5
    /\ \A i \in 1..5 : \A j \in 1..w : t[1 + (i - 1) * w + j] = d[i][j]

\* The encoding of a path is its depth and, each in its place, its components.
LEMMA EncodedParts ==
    ASSUME NEW w \in Nat \ {0}, NEW d \in [1..5 -> Seq(Nat)], \A i \in 1..5 : Len(d[i]) = w,
           NEW t, t = << 5 >> \o d[1] \o d[2] \o d[3] \o d[4] \o d[5]
    PROVE  InPlace(w, d, t)
<1>1. ASSUME NEW k \in 1..5, NEW s \in Seq(Nat), Len(s) = 1 + (k - 1) * w
      PROVE  Grown(w, k, s, d[k], s \o d[k])
  <2>1. d[k] \in Seq(Nat) /\ Len(d[k]) = w
    OBVIOUS
  <2>2. /\ s \o d[k] \in Seq(Nat) /\ Len(s \o d[k]) = Len(s) + w
        /\ \A i \in 1..Len(s) : (s \o d[k])[i] = s[i]
        /\ \A i \in 1..w : (s \o d[k])[Len(s) + i] = d[k][i]
    BY <2>1, Behind
  <2>3. Len(s) + w = 1 + k * w
    <3>1. k = 1 \/ k = 2 \/ k = 3 \/ k = 4 \/ k = 5
        OBVIOUS
    <3> QED
        BY <1>1, <3>1
  <2> QED
    BY <1>1, <2>2, <2>3 DEF Grown
<1> DEFINE t0 == << 5 >>
           t1 == t0 \o d[1]
           t2 == t1 \o d[2]
           t3 == t2 \o d[3]
           t4 == t3 \o d[4]
           t5 == t4 \o d[5]
<1>2. t0 \in Seq(Nat) /\ Len(t0) = 1 + (1 - 1) * w /\ t0[1] = 5
    OBVIOUS
<1>3. t = t5
    OBVIOUS
<1> HIDE DEF t0
<1>4. Grown(w, 1, t0, d[1], t1)
    BY <1>1, <1>2
<1> HIDE DEF t1
<1>5. Grown(w, 2, t1, d[2], t2)
  <2>1. t1 \in Seq(Nat) /\ Len(t1) = 1 + (2 - 1) * w
    BY <1>4 DEF Grown
  <2> QED
    BY <1>1, <2>1
<1> HIDE DEF t2
<1>6. Grown(w, 3, t2, d[3], t3)
  <2>1. t2 \in Seq(Nat) /\ Len(t2) = 1 + (3 - 1) * w
    BY <1>5 DEF Grown
  <2> QED
    BY <1>1, <2>1
<1> HIDE DEF t3
<1>7. Grown(w, 4, t3, d[4], t4)
  <2>1. t3 \in Seq(Nat) /\ Len(t3) = 1 + (4 - 1) * w
    BY <1>6 DEF Grown
  <2> QED
    BY <1>1, <2>1
<1> HIDE DEF t4
<1>8. Grown(w, 5, t4, d[5], t5)
  <2>1. t4 \in Seq(Nat) /\ Len(t4) = 1 + (5 - 1) * w
    BY <1>7 DEF Grown
  <2> QED
    BY <1>1, <2>1
<1> HIDE DEF t5
<1>9. ASSUME NEW j \in 1..w PROVE t5[1 + (1 - 1) * w + j] = d[1][j]
  <2>1. t1[1 + j] = d[1][j]
    BY <1>4 DEF Grown
  <2>2. t2[1 + j] = t1[1 + j]
    BY <1>5 DEF Grown
  <2>3. t3[1 + j] = t2[1 + j]
    BY <1>6 DEF Grown
  <2>4. t4[1 + j] = t3[1 + j]
    BY <1>7 DEF Grown
  <2>5. t5[1 + j] = t4[1 + j]
    BY <1>8 DEF Grown
  <2> QED
    BY <2>1, <2>2, <2>3, <2>4, <2>5
<1>10. ASSUME NEW j \in 1..w PROVE t5[1 + (2 - 1) * w + j] = d[2][j]
  <2>2. t2[1 + w + j] = d[2][j]
    BY <1>5 DEF Grown
  <2>3. t3[1 + w + j] = t2[1 + w + j]
    BY <1>6 DEF Grown
  <2>4. t4[1 + w + j] = t3[1 + w + j]
    BY <1>7 DEF Grown
  <2>5. t5[1 + w + j] = t4[1 + w + j]
    BY <1>8 DEF Grown
  <2> QED
    BY <2>2, <2>3, <2>4, <2>5
<1>11. ASSUME NEW j \in 1..w PROVE t5[1 + (3 - 1) * w + j] = d[3][j]
  <2>3. t3[1 + 2 * w + j] = d[3][j]
    BY <1>6 DEF Grown
  <2>4. t4[1 + 2 * w + j] = t3[1 + 2 * w + j]
    BY <1>7 DEF Grown
  <2>5. t5[1 + 2 * w + j] = t4[1 + 2 * w + j]
    BY <1>8 DEF Grown
  <2> QED
    BY <2>3, <2>4, <2>5
<1>12. ASSUME NEW j \in 1..w PROVE t5[1 + (4 - 1) * w + j] = d[4][j]
  <2>4. t4[1 + 3 * w + j] = d[4][j]
    BY <1>7 DEF Grown
  <2>5. t5[1 + 3 * w + j] = t4[1 + 3 * w + j]
    BY <1>8 DEF Grown
  <2> QED
    BY <2>4, <2>5
<1>13. ASSUME NEW j \in 1..w PROVE t5[1 + (5 - 1) * w + j] = d[5][j]
    BY <1>8 DEF Grown
<1>14. t5[1] = 5
  <2>1. t1[1] = 5 /\ t2[1] = t1[1] /\ t3[1] = t2[1]
    BY <1>2, <1>4, <1>5, <1>6 DEF Grown
  <2>2. t4[1] = t3[1] /\ t5[1] = t4[1]
    BY <1>7, <1>8 DEF Grown
  <2> QED
    BY <2>1, <2>2
<1>15. Len(t5) = 1 + 5 * w
    BY <1>8 DEF Grown
<1>16. ASSUME NEW i \in 1..5, NEW j \in 1..w PROVE t5[1 + (i - 1) * w + j] = d[i][j]
  <2>1. i = 1 \/ i = 2 \/ i = 3 \/ i = 4 \/ i = 5
    OBVIOUS
  <2> QED
    BY <1>9, <1>10, <1>11, <1>12, <1>13, <2>1
<1> QED
    BY <1>3, <1>14, <1>15, <1>16 DEF InPlace

\* The components of a path and the bytes they are encoded as.
Encodes(path, d) ==
    /\ d \in [1..5 -> Seq(Byte)]
    /\ \A i \in 1..5 : Len(d[i]) = Width /\ d[i] = ToBigEndian(path[i], Width)

\* The depth and the bytes of the components in their places.
LaidOut(s, d) ==
    /\ Len(s) = 1 + 5 * Width
    /\ s[1] = PATH_DEPTH
    /\ s \in Seq(Nat)
    /\ \A i \in 1..5 : \A j \in 1..Width : s[1 + (i - 1) * Width + j] = d[i][j]

\* An encoded path, byte by byte.
LEMMA EncodedIs ==
    ASSUME NEW path, NEW d, Encodes(path, d)
    PROVE  LaidOut(Encoded(path), d)
<1> DEFINE t == << 5 >> \o d[1] \o d[2] \o d[3] \o d[4] \o d[5]
<1>1. Width \in Nat \ {0} /\ Base \in Nat
    BY BaseAssumption, ComponentAssumption
<1>2. \A s \in Seq(Byte) : s \in Seq(Nat)
  <2>1. Byte \subseteq Nat
    BY <1>1 DEF Byte, Digit
  <2> QED
    BY <2>1, SeqMonotonic
<1>3. d \in [1..5 -> Seq(Nat)] /\ \A i \in 1..5 : Len(d[i]) = Width
    BY <1>2 DEF Encodes
<1>4. Encoded(path) = t
    BY DEF Encodes, Encoded, PATH_DEPTH
<1>5. t \in Seq(Nat)
  <2>1. d[1] \in Seq(Nat) /\ d[2] \in Seq(Nat) /\ d[3] \in Seq(Nat)
        /\ d[4] \in Seq(Nat) /\ d[5] \in Seq(Nat)
    BY <1>3
  <2>2. << 5 >> \in Seq(Nat)
    OBVIOUS
  <2> QED
    BY <2>1, <2>2
<1> HIDE DEF t
<1>6. /\ Len(t) = 1 + 5 * Width /\ t[1] = 5
      /\ \A i \in 1..5 : \A j \in 1..Width : t[1 + (i - 1) * Width + j] = d[i][j]
  <2>1. t = << 5 >> \o d[1] \o d[2] \o d[3] \o d[4] \o d[5]
    BY DEF t
  <2>2. InPlace(Width, d, t)
    BY <1>1, <1>3, <2>1, EncodedParts
  <2> QED
    BY <2>2 DEF InPlace
<1>7. LaidOut(t, d)
    BY <1>5, <1>6 DEF LaidOut, PATH_DEPTH
<1> QED
    BY <1>4, <1>7

\* Where a byte of an encoded path is: it is the depth or one of a component.
LEMMA Places ==
    ASSUME NEW k \in 1..(1 + 5 * Width)
    PROVE  k = 1 \/ \E i \in 1..5, j \in 1..Width : k = 1 + (i - 1) * Width + j
<1>1. Width \in Nat \ {0}
    BY ComponentAssumption
<1>2. ASSUME NEW i \in 1..5, NEW n \in Nat, n = (i - 1) * Width, k > 1 + n, k <= 1 + n + Width
      PROVE  \E m \in 1..5, j \in 1..Width : k = 1 + (m - 1) * Width + j
  <2>1. k - (1 + n) \in 1..Width /\ k = 1 + n + (k - (1 + n))
    BY <1>1, <1>2
  <2> QED
    BY <1>2, <2>1
<1>3. CASE k > 1 /\ k <= 1 + Width
    BY <1>1, <1>2, <1>3
<1>4. CASE k > 1 + Width /\ k <= 1 + 2 * Width
    BY <1>1, <1>2, <1>4
<1>5. CASE k > 1 + 2 * Width /\ k <= 1 + 3 * Width
    BY <1>1, <1>2, <1>5
<1>6. CASE k > 1 + 3 * Width /\ k <= 1 + 4 * Width
    BY <1>1, <1>2, <1>6
<1>7. CASE k > 1 + 4 * Width
    BY <1>1, <1>2, <1>7
<1> QED
    BY <1>1, <1>3, <1>4, <1>5, <1>6, <1>7

\* A path of the right length and depth is the encoding of its components.
LEMMA WrittenBack ==
    ASSUME bytes \in Seq(Byte), Len(bytes) = PATH_ENCODED_LEN, bytes[1] = PATH_DEPTH,
           NEW path, \A i \in 1..5 : path[i] = Component(i)
    PROVE  Encoded(path) = bytes
<1> DEFINE d == [i \in 1..5 |-> ComponentBytes(i)]
           t == Encoded(path)
<1>1. Width \in Nat \ {0} /\ Base \in Nat /\ Len(bytes) = 1 + 5 * Width /\ PATH_DEPTH = 5
    BY BaseAssumption, ComponentAssumption DEF PATH_ENCODED_LEN, PATH_DEPTH
<1>2. ASSUME NEW i \in 1..5
      PROVE  /\ d[i] \in Seq(Byte) /\ Len(d[i]) = Width /\ d[i] = ToBigEndian(path[i], Width)
             /\ \A j \in 1..Width : d[i][j] = bytes[1 + (i - 1) * Width + j]
  <2>1. i \in 1..PATH_DEPTH
    BY <1>1
  <2>2. /\ ComponentBytes(i) \in Seq(Byte) /\ Len(ComponentBytes(i)) = Width
        /\ \A j \in 1..Width : ComponentBytes(i)[j] = bytes[1 + (i - 1) * Width + j]
        /\ ToBigEndian(Component(i), Width) = ComponentBytes(i)
    BY <2>1, ComponentIs
  <2> QED
    BY <2>2
<1>3. Encodes(path, d)
  <2>1. d \in [1..5 -> Seq(Byte)]
    BY <1>2
  <2> HIDE DEF d
  <2> QED
    BY <1>2, <2>1 DEF Encodes
<1> HIDE DEF d
<1>4. /\ Len(t) = 1 + 5 * Width /\ t[1] = PATH_DEPTH /\ t \in Seq(Nat)
      /\ \A i \in 1..5 : \A j \in 1..Width : t[1 + (i - 1) * Width + j] = d[i][j]
  <2>1. LaidOut(t, d)
    BY <1>3, EncodedIs
  <2> QED
    BY <2>1 DEF LaidOut
<1> HIDE DEF t
<1>5. ASSUME NEW k \in 1..Len(t) PROVE t[k] = bytes[k]
  <2>1. k = 1 \/ \E i \in 1..5, j \in 1..Width : k = 1 + (i - 1) * Width + j
    BY <1>4, Places
  <2>2. CASE k = 1
    BY <1>4, <2>2
  <2>3. ASSUME NEW i \in 1..5, NEW j \in 1..Width, k = 1 + (i - 1) * Width + j
        PROVE  t[k] = bytes[k]
    BY <1>2, <1>4, <2>3
  <2> QED
    BY <2>1, <2>2, <2>3
<1>6. bytes \in Seq(Nat)
  <2>1. Byte \subseteq Nat
    BY <1>1 DEF Byte, Digit
  <2> QED
    BY <2>1, SeqMonotonic
<1>7. t = bytes
    BY <1>1, <1>4, <1>5, <1>6, SeqEqual
<1> QED
    BY <1>7 DEF t

\* The components of an encoded path are those it was encoded from.
LEMMA ReadBackComponents ==
    ASSUME bytes \in Seq(Byte), NEW path,
           \A i \in 1..5 : path[i] \in 0..(2 * HARDENED_BIT - 1),
           bytes = Encoded(path)
    PROVE  /\ Len(bytes) = PATH_ENCODED_LEN
           /\ bytes[1] = PATH_DEPTH
           /\ \A i \in 1..PATH_DEPTH : Component(i) = path[i]
<1> DEFINE d == [i \in 1..5 |-> ToBigEndian(path[i], Width)]
<1>1. /\ Width \in Nat \ {0} /\ Base \in Nat \ {0, 1} /\ HARDENED_BIT \in Nat
      /\ Power(Base, Width) = 2 * HARDENED_BIT
    BY BaseAssumption, ComponentAssumption, HardenedBitIs
<1>2. ASSUME NEW i \in 1..5
      PROVE  /\ ToBigEndian(path[i], Width) \in Seq(Byte)
             /\ Len(ToBigEndian(path[i], Width)) = Width
             /\ BigEndian(ToBigEndian(path[i], Width)) = path[i]
  <2>1. path[i] \in Nat /\ path[i] < Power(Base, Width)
    <3>1. path[i] \in 0..(2 * HARDENED_BIT - 1)
        OBVIOUS
    <3> QED
        BY <1>1, <3>1
  <2>2. /\ DigitsOf(Base, path[i], Width) \in Seq(Digit(Base))
        /\ Len(DigitsOf(Base, path[i], Width)) = Width
    BY <1>1, <2>1, DigitsOfAre
  <2>3. NumberOf(Base, DigitsOf(Base, path[i], Width)) = path[i]
    BY <1>1, <2>1, NumberOfDigits
  <2> QED
    BY <2>2, <2>3 DEF ToBigEndian, BigEndian, Byte
<1>3. Encodes(path, d)
    BY <1>2 DEF Encodes
<1>4. /\ Len(bytes) = 1 + 5 * Width /\ bytes[1] = PATH_DEPTH
      /\ \A i \in 1..5 : \A j \in 1..Width : bytes[1 + (i - 1) * Width + j] = d[i][j]
  <2> HIDE DEF d
  <2>1. LaidOut(Encoded(path), d)
    BY <1>3, EncodedIs
  <2>2. LaidOut(bytes, d)
    BY <2>1
  <2> QED
    BY <2>2 DEF LaidOut
<1>5. Len(bytes) = PATH_ENCODED_LEN /\ 1..PATH_DEPTH = 1..5
    BY <1>4 DEF PATH_ENCODED_LEN, PATH_DEPTH
<1>6. ASSUME NEW i \in 1..5 PROVE Component(i) = path[i]
  <2>1. /\ ComponentBytes(i) \in Seq(Byte) /\ Len(ComponentBytes(i)) = Width
        /\ \A j \in 1..Width : ComponentBytes(i)[j] = bytes[1 + (i - 1) * Width + j]
    BY <1>5, ComponentIs
  <2>2. d[i] \in Seq(Byte) /\ Len(d[i]) = Width /\ BigEndian(d[i]) = path[i]
    BY <1>2
  <2> HIDE DEF d
  <2>3. \A j \in 1..Width : ComponentBytes(i)[j] = d[i][j]
    BY <1>4, <2>1
  <2>4. ComponentBytes(i) = d[i]
    BY <2>1, <2>2, <2>3, SeqEqual
  <2> QED
    BY <2>2, <2>4 DEF Component, ComponentBytes
<1> QED
    BY <1>4, <1>5, <1>6

\* The path of an account.
AccountPath(a) ==
    <<Hardened(PURPOSE), Hardened(COIN_TYPE), Hardened(a), Hardened(0), Hardened(0)>>

\* A path is decoded when it has the components of an account.
LEMMA AcceptedPath ==
    ASSUME bytes \in Seq(Byte), PathStatus = "decoded"
    PROVE  /\ Len(bytes) = PATH_ENCODED_LEN /\ bytes[1] = PATH_DEPTH
           /\ Unhardened(Component(3)) \in 0..(HARDENED_BIT - 1)
           /\ \A i \in 1..5 : /\ IsHardened(Component(i))
                              /\ AccountPath(Unhardened(Component(3)))[i] = Component(i)
<1>1. /\ Len(bytes) = PATH_ENCODED_LEN /\ bytes[1] = PATH_DEPTH /\ AllHardened
      /\ Unhardened(Component(1)) = PURPOSE /\ Unhardened(Component(2)) = COIN_TYPE
      /\ Unhardened(Component(4)) = 0 /\ Unhardened(Component(5)) = 0
    BY DEF PathStatus
<1>2. ASSUME NEW i \in 1..5
      PROVE  /\ IsHardened(Component(i))
             /\ Unhardened(Component(i)) \in 0..(HARDENED_BIT - 1)
             /\ Hardened(Unhardened(Component(i))) = Component(i)
  <2>1. i \in 1..PATH_DEPTH
    BY DEF PATH_DEPTH
  <2>2. Component(i) \in 0..(2 * HARDENED_BIT - 1) /\ IsHardened(Component(i))
    BY <1>1, <2>1, ComponentIs DEF AllHardened
  <2>3. /\ Unhardened(Component(i)) \in 0..(HARDENED_BIT - 1)
        /\ Component(i) = Unhardened(Component(i)) + HARDENED_BIT
    BY <2>2, TheBit
  <2>4. Hardened(Unhardened(Component(i))) = Unhardened(Component(i)) + HARDENED_BIT
    BY <2>3, TheBit
  <2> QED
    BY <2>2, <2>3, <2>4
<1>3. /\ Hardened(PURPOSE) = Component(1) /\ Hardened(COIN_TYPE) = Component(2)
      /\ Hardened(Unhardened(Component(3))) = Component(3)
      /\ Hardened(0) = Component(4) /\ Hardened(0) = Component(5)
    BY <1>1, <1>2
<1>4. ASSUME NEW i \in 1..5 PROVE AccountPath(Unhardened(Component(3)))[i] = Component(i)
  <2>1. i = 1 \/ i = 2 \/ i = 3 \/ i = 4 \/ i = 5
    OBVIOUS
  <2> QED
    BY <1>3, <2>1 DEF AccountPath
<1> QED
    BY <1>1, <1>2, <1>4

\* The encoding of the path of an account is decoded.
LEMMA AccountIsAccepted ==
    ASSUME bytes \in Seq(Byte), NEW a \in 0..(HARDENED_BIT - 1), bytes = Encoded(AccountPath(a))
    PROVE  PathStatus = "decoded"
<1> DEFINE p == AccountPath(a)
<1>1. HARDENED_BIT \in Nat \ {0} /\ PURPOSE \in 0..(HARDENED_BIT - 1)
      /\ COIN_TYPE \in 0..(HARDENED_BIT - 1) /\ 0 \in 0..(HARDENED_BIT - 1)
    BY HardenedBitIs, ComponentAssumption
<1>2. \A n \in 0..(HARDENED_BIT - 1) :
          /\ Hardened(n) \in 0..(2 * HARDENED_BIT - 1)
          /\ IsHardened(Hardened(n)) /\ Unhardened(Hardened(n)) = n
  <2> SUFFICES ASSUME NEW n \in 0..(HARDENED_BIT - 1)
               PROVE  /\ Hardened(n) \in 0..(2 * HARDENED_BIT - 1)
                      /\ IsHardened(Hardened(n)) /\ Unhardened(Hardened(n)) = n
    OBVIOUS
  <2>1. /\ Hardened(n) = n + HARDENED_BIT
        /\ Hardened(n) \in HARDENED_BIT..(2 * HARDENED_BIT - 1)
    BY TheBit
  <2>2. Hardened(n) \in 0..(2 * HARDENED_BIT - 1) /\ Hardened(n) >= HARDENED_BIT
    BY <1>1, <2>1
  <2>3. IsHardened(Hardened(n)) /\ Hardened(n) = Unhardened(Hardened(n)) + HARDENED_BIT
        /\ Unhardened(Hardened(n)) \in 0..(HARDENED_BIT - 1)
    BY <2>2, TheBit
  <2> QED
    BY <1>1, <2>1, <2>2, <2>3
<1>3. /\ p[1] = Hardened(PURPOSE) /\ p[2] = Hardened(COIN_TYPE) /\ p[3] = Hardened(a)
      /\ p[4] = Hardened(0) /\ p[5] = Hardened(0)
    BY DEF AccountPath
<1> HIDE DEF p
<1>4. \A i \in 1..5 : p[i] \in 0..(2 * HARDENED_BIT - 1) /\ IsHardened(p[i])
  <2> SUFFICES ASSUME NEW i \in 1..5
               PROVE  p[i] \in 0..(2 * HARDENED_BIT - 1) /\ IsHardened(p[i])
    OBVIOUS
  <2>1. i = 1 \/ i = 2 \/ i = 3 \/ i = 4 \/ i = 5
    OBVIOUS
  <2> QED
    BY <1>1, <1>2, <1>3, <2>1
<1>5. /\ Len(bytes) = PATH_ENCODED_LEN /\ bytes[1] = PATH_DEPTH
      /\ \A i \in 1..PATH_DEPTH : Component(i) = p[i]
    BY <1>4, ReadBackComponents DEF p
<1>6. \A i \in 1..5 : Component(i) = p[i]
    BY <1>5 DEF PATH_DEPTH
<1>7. AllHardened
    BY <1>4, <1>6 DEF AllHardened, PATH_DEPTH
<1>8. /\ Unhardened(Component(1)) = PURPOSE /\ Unhardened(Component(2)) = COIN_TYPE
      /\ Unhardened(Component(4)) = 0 /\ Unhardened(Component(5)) = 0
    BY <1>1, <1>2, <1>3, <1>6
<1> QED
    BY <1>5, <1>7, <1>8 DEF PathStatus

(***************************************************************************)
(* The inductive invariant of decoding: what was decided was decided from  *)
(* the bytes, and what a key is derived from is the path that was decoded. *)
(***************************************************************************)
PathInv ==
    /\ bytes \in Seq(Byte)
    /\ decoding \in {"decode", "derived"} \/ decoding = PathStatus
    /\ decoding \in {"decoded", "derived"} =>
          PathStatus = "decoded" /\ account = Unhardened(Component(3))
    /\ decoding = "derived" => components = AccountPath(account)

\* The invariant holds of every run of decode_path and the conversion behind it.
THEOREM PathInvariant == PathSpec => []PathInv
<1>1. PathInit => PathInv
    BY ComponentAssumption DEF PathInit, PathInv
<1>2. PathInv /\ [PathNext]_pathVars => PathInv'
  <2> SUFFICES ASSUME PathInv, [PathNext]_pathVars PROVE PathInv'
    OBVIOUS
  <2>1. bytes' = bytes /\ PathStatus' = PathStatus /\ Component(3)' = Component(3)
    <3>1. bytes' = bytes
        BY DEF PathNext, DecodePath, Derive, pathVars
    <3> QED
        BY <3>1 DEF PathStatus, AllHardened, Component
  <2>2. CASE DecodePath
    <3>1. /\ decoding' = PathStatus /\ decoding' # "derived"
          /\ PathStatus = "decoded" => account' = Unhardened(Component(3))
        BY <2>2 DEF DecodePath, PathStatus
    <3>2. (Unhardened(Component(3)))' = Unhardened(Component(3))
        BY <2>1 DEF Unhardened, HARDENED_BIT
    <3> QED
        BY <2>1, <3>1, <3>2 DEF PathInv
  <2>3. CASE Derive
    <3>1. /\ PathStatus = "decoded" /\ account = Unhardened(Component(3))
          /\ decoding' = "derived" /\ account' = account
          /\ components' = AccountPath(account)
        BY <2>3 DEF PathInv, Derive, AccountPath
    <3> QED
        BY <2>1, <3>1 DEF PathInv, Unhardened, AccountPath, Hardened
  <2>4. CASE UNCHANGED pathVars
    BY <2>1, <2>4 DEF PathInv, pathVars, Unhardened, AccountPath, Hardened
  <2> QED
    BY <2>2, <2>3, <2>4 DEF PathNext
<1> QED
    BY <1>1, <1>2, PTL DEF PathSpec

\* Keys are derived from the very components the host sent, all of them hardened:
\* what decode_path takes off a component to_bip32_components puts back.
THEOREM SentComponents == PathSpec => []DerivesWhatWasSent
<1>1. PathInv => DerivesWhatWasSent
  <2> SUFFICES ASSUME PathInv, decoding = "derived"
               PROVE  /\ Encoded(components) = bytes
                      /\ \A i \in DOMAIN components : IsHardened(components[i])
    BY DEF DerivesWhatWasSent
  <2>1. /\ bytes \in Seq(Byte) /\ PathStatus = "decoded"
        /\ components = AccountPath(Unhardened(Component(3)))
    BY DEF PathInv
  <2>2. /\ Len(bytes) = PATH_ENCODED_LEN /\ bytes[1] = PATH_DEPTH
        /\ \A i \in 1..5 : IsHardened(Component(i)) /\ components[i] = Component(i)
    BY <2>1, AcceptedPath
  <2>3. Encoded(components) = bytes
    BY <2>1, <2>2, WrittenBack
  <2>4. DOMAIN components = 1..5
    BY <2>1 DEF AccountPath
  <2> QED
    BY <2>2, <2>3, <2>4
<1> QED
    BY <1>1, PathInvariant, PTL

\* decode_path refuses no account of the profile, the highest one included.
THEOREM EveryAccount == PathSpec => []EveryAccountHasAPath
<1>1. PathInv => EveryAccountHasAPath
  <2> SUFFICES ASSUME PathInv, decoding \notin {"decode", "decoded", "derived"},
                      NEW a \in 0..(HARDENED_BIT - 1), bytes = Encoded(AccountPath(a))
               PROVE  FALSE
    BY DEF EveryAccountHasAPath, AccountPath
  <2>1. bytes \in Seq(Byte) /\ PathStatus # "decoded"
    BY DEF PathInv
  <2> QED
    BY <2>1, AccountIsAccepted
<1> QED
    BY <1>1, PathInvariant, PTL

-----------------------------------------------------------------------------
(* The key.  A coordinate of n bytes is compared with half of Base^n less  *)
(* Offset by its bytes, from the most significant one.                     *)

\* What the first k bytes of that bound weigh.
Bound(k) == Half * Power(Base, k - 1)

\* The weights go up by the base.
LEMMA BoundIs ==
    /\ Base \in Nat /\ Half \in Nat \ {0} /\ Base = 2 * Half
    /\ Bound(1) = Half
    /\ \A k \in Nat \ {0} : Bound(k) \in Nat \ {0} /\ Bound(k + 1) = Base * Bound(k)
    /\ Sign = Bound(KeyLen)
<1>1. Base \in Nat \ {0, 1} /\ Base = 2 * Half /\ Half \in Nat
    BY BaseAssumption, FieldAssumption DEF Half
<1>2. Half \in Nat \ {0}
    BY <1>1
<1>3. Bound(1) = Half
  <2>1. Power(Base, 0) = 1 /\ 1 - 1 = 0
    BY <1>1, PowerIs
  <2> QED
    BY <1>2, <2>1 DEF Bound
<1>4. ASSUME NEW k \in Nat \ {0}
      PROVE  Bound(k) \in Nat \ {0} /\ Bound(k + 1) = Base * Bound(k)
  <2> DEFINE p == Power(Base, k - 1)
  <2>1. k - 1 \in Nat /\ (k - 1) + 1 = k /\ (k + 1) - 1 = k
    OBVIOUS
  <2>2. p \in Nat \ {0} /\ Power(Base, (k - 1) + 1) = Base * p
    BY <1>1, <2>1, PowerIs
  <2>3. Bound(k) = Half * p /\ Bound(k + 1) = Half * (Base * p)
    BY <2>1, <2>2 DEF Bound
  <2> HIDE DEF p
  <2>4. Half * p \in Nat \ {0}
    BY <1>2, <2>2
  <2>5. Half * (Base * p) = Base * (Half * p)
    BY <1>1, <2>2
  <2> QED
    BY <2>3, <2>4, <2>5
<1>5. Sign = Bound(KeyLen)
    BY DEF Sign, Bound, Top
<1> QED
    BY <1>1, <1>2, <1>3, <1>4, <1>5

\* Bytes of a key or a coordinate and what the first of them are worth.
Worth(d, v) ==
    /\ d \in Seq(Byte) /\ Len(d) = KeyLen
    /\ d \in [1..KeyLen -> Byte]
    /\ v \in [0..KeyLen -> Nat]
    /\ v[0] = 0 /\ v[1] = d[1]
    /\ \A k \in 1..(KeyLen - 1) : v[k + 1] = Base * v[k] + d[k + 1]
    /\ v[KeyLen] = BigEndian(d)

\* The value of a coordinate is that of all its bytes.
LEMMA WorthIs ==
    ASSUME NEW d \in [1..KeyLen -> Byte]
    PROVE  Worth(d, Values(Base, d))
<1> DEFINE v == Values(Base, d)
<1>1. KeyLen \in Nat /\ KeyLen > 2 /\ Base \in Nat \ {0, 1}
    BY FieldAssumption, BaseAssumption
<1>2. d \in Seq(Digit(Base)) /\ Len(d) = KeyLen
    BY <1>1 DEF Byte
<1>3. Sums(Base, d, v)
    BY <1>1, <1>2, ValuesAre
<1> HIDE DEF v
<1>4. /\ v \in [0..KeyLen -> Nat] /\ v[0] = 0
      /\ \A i \in 1..KeyLen : v[i] = Base * v[i - 1] + d[i]
    BY <1>2, <1>3 DEF Sums
<1>5. v[1] = d[1]
  <2>1. 1 \in 1..KeyLen /\ v[1] = Base * v[1 - 1] + d[1] /\ d[1] \in Nat
    BY <1>1, <1>4 DEF Byte, Digit
  <2> QED
    BY <1>1, <1>4, <2>1
<1>6. ASSUME NEW k \in 1..(KeyLen - 1) PROVE v[k + 1] = Base * v[k] + d[k + 1]
  <2>1. k + 1 \in 1..KeyLen /\ (k + 1) - 1 = k
    BY <1>1
  <2> QED
    BY <1>4, <2>1
<1>7. v[KeyLen] = BigEndian(d)
    BY <1>2 DEF BigEndian, NumberOf, v
<1> QED
    BY <1>2, <1>4, <1>5, <1>6, <1>7 DEF Worth, Byte, v

\* The value of a coordinate is a number, and so are the bounds it is compared with.
LEMMA CoordinateIsNat ==
    /\ \A d \in [1..KeyLen -> Byte] : BigEndian(d) \in Nat
    /\ Sign \in Nat \ {0} /\ Prime \in Int /\ Prime < Sign
<1>1. KeyLen \in Nat /\ KeyLen > 2 /\ KeyLen \in 0..KeyLen /\ Base \in Nat
      /\ Offset \in 1..(Base - 1)
    BY FieldAssumption, BaseAssumption
<1>2. ASSUME NEW d \in [1..KeyLen -> Byte] PROVE BigEndian(d) \in Nat
  <2> DEFINE v == Values(Base, d)
  <2>1. Worth(d, v)
    BY WorthIs
  <2> HIDE DEF v
  <2>2. v \in [0..KeyLen -> Nat] /\ v[KeyLen] = BigEndian(d)
    BY <2>1 DEF Worth
  <2> QED
    BY <1>1, <2>2
<1>3. Sign \in Nat \ {0}
    BY <1>1, BoundIs
<1> QED
    BY <1>1, <1>2, <1>3 DEF Prime

\* A byte more.
LEMMA NextByte ==
    ASSUME NEW d, NEW v, Worth(d, v), NEW k \in 1..(KeyLen - 1)
    PROVE  /\ v[k + 1] = Base * v[k] + d[k + 1]
           /\ v[k] \in Nat /\ d[k + 1] \in Nat /\ d[k + 1] < Base
<1>1. KeyLen \in Nat /\ Base \in Nat
    BY FieldAssumption, BaseAssumption
<1>2. k \in 0..KeyLen /\ k + 1 \in 1..KeyLen
    BY <1>1
<1>3. v[k] \in Nat /\ d[k + 1] \in Byte
    BY <1>2 DEF Worth
<1>4. v[k + 1] = Base * v[k] + d[k + 1]
    BY DEF Worth
<1> QED
    BY <1>1, <1>3, <1>4 DEF Byte, Digit

\* What holds of the first k bytes and of each more holds of all.
LEMMA FromByteOn ==
    ASSUME NEW k \in 1..KeyLen, NEW T, k \in T,
           \A m \in k..(KeyLen - 1) : m \in T => m + 1 \in T
    PROVE  k..KeyLen \subseteq T
<1> DEFINE R == {i \in 0..(KeyLen - k) : k + i \in T}
<1>1. KeyLen \in Nat /\ KeyLen - k \in Nat
    BY FieldAssumption
<1>2. 0 \in R
    BY <1>1
<1>3. ASSUME NEW i \in 0..((KeyLen - k) - 1), i \in R PROVE i + 1 \in R
  <2>1. k + i \in k..(KeyLen - 1) /\ (k + i) + 1 = k + (i + 1) /\ i + 1 \in 0..(KeyLen - k)
    BY <1>1
  <2>2. (k + i) + 1 \in T
    BY <1>3, <2>1
  <2> QED
    BY <2>1, <2>2
<1>4. 0..(KeyLen - k) \subseteq R
  <2> HIDE DEF R
  <2> QED
    BY <1>1, <1>2, <1>3, UpTo
<1>5. ASSUME NEW m \in k..KeyLen PROVE m \in T
  <2>1. m - k \in 0..(KeyLen - k) /\ k + (m - k) = m
    BY <1>1
  <2> QED
    BY <1>4, <2>1
<1> QED
    BY <1>5

\* A coordinate with its highest bit set is no member of the field.
LEMMA HighBitSet ==
    ASSUME NEW d, NEW v, Worth(d, v), d[1] >= Half
    PROVE  BigEndian(d) >= Sign
<1> DEFINE T == {k \in 1..KeyLen : v[k] >= Bound(k)}
<1>1. KeyLen \in Nat /\ KeyLen > 2
    BY FieldAssumption
<1>2. 1 \in T
    BY <1>1, BoundIs DEF Worth
<1>3. ASSUME NEW k \in 1..(KeyLen - 1), k \in T PROVE k + 1 \in T
  <2>1. k + 1 \in 1..KeyLen /\ k \in 0..KeyLen /\ k \in Nat \ {0}
    BY <1>1
  <2>2. /\ v[k + 1] = Base * v[k] + d[k + 1] /\ v[k] \in Nat
        /\ d[k + 1] \in Nat
    BY NextByte
  <2>3. Bound(k + 1) = Base * Bound(k) /\ Bound(k) \in Nat /\ Base \in Nat
    BY <2>1, BoundIs
  <2>4. Bound(k) <= v[k]
    BY <1>3, <2>2, <2>3
  <2>5. Base * Bound(k) <= Base * v[k]
    BY <2>2, <2>3, <2>4, Grows
  <2>6. Base * Bound(k) \in Nat /\ Base * v[k] \in Nat
    BY <2>2, <2>3
  <2> QED
    BY <2>1, <2>2, <2>3, <2>5, <2>6
<1>4. KeyLen \in T
  <2> HIDE DEF T
  <2>1. 1 \in 1..KeyLen /\ KeyLen \in 1..KeyLen
    BY <1>1
  <2> QED
    BY <1>2, <1>3, <2>1, FromByteOn
<1> QED
    BY <1>4, BoundIs DEF Worth

\* A byte below that of the prime, above its last one, makes a coordinate smaller
\* by more than the prime is below the bound.
LEMMA SmallerByte ==
    ASSUME NEW d, NEW v, Worth(d, v), NEW k \in 1..(KeyLen - 1), v[k] + 2 <= Bound(k)
    PROVE  BigEndian(d) < Prime
<1> DEFINE T == {m \in k..KeyLen : v[m] + 2 <= Bound(m) /\ (m > k => v[m] + Base < Bound(m))}
<1>1. KeyLen \in Nat /\ KeyLen > 2 /\ Offset \in 1..(Base - 1)
    BY FieldAssumption
<1>2. k \in T
    BY <1>1
<1>3. ASSUME NEW m \in k..(KeyLen - 1), m \in T PROVE m + 1 \in T
  <2>1. m + 1 \in k..KeyLen /\ m \in 0..KeyLen /\ m \in Nat \ {0} /\ m \in 1..(KeyLen - 1)
        /\ m + 1 \in 1..KeyLen
    BY <1>1
  <2>2. /\ v[m + 1] = Base * v[m] + d[m + 1] /\ v[m] \in Nat
        /\ d[m + 1] \in Nat /\ d[m + 1] < Base
    BY <2>1, NextByte
  <2>3. Bound(m + 1) = Base * Bound(m) /\ Bound(m) \in Nat /\ Base \in Nat /\ Base >= 2
    BY <2>1, BoundIs
  <2>4. v[m] + 2 <= Bound(m)
    BY <1>3
  <2>5. Base * (v[m] + 2) <= Base * Bound(m)
    BY <2>2, <2>3, <2>4, Grows
  <2>6. Base * (v[m] + 2) = Base * v[m] + 2 * Base /\ Base * v[m] \in Nat
    BY <2>2, <2>3
  <2>7. v[m + 1] + Base < Bound(m + 1)
    BY <2>2, <2>3, <2>5, <2>6
  <2> QED
    BY <2>1, <2>2, <2>3, <2>6, <2>7
<1>4. KeyLen \in T
  <2> HIDE DEF T
  <2>1. k \in 1..KeyLen /\ KeyLen \in k..KeyLen
    BY <1>1
  <2> QED
    BY <1>2, <1>3, <2>1, FromByteOn
<1>5. v[KeyLen] + Base < Bound(KeyLen)
    BY <1>1, <1>4
<1>6. v[KeyLen] \in Nat /\ Bound(KeyLen) \in Nat /\ Base \in Nat
    BY <1>1, BoundIs DEF Worth
<1>7. v[KeyLen] = BigEndian(d) /\ Prime = Bound(KeyLen) - Offset
    BY BoundIs DEF Worth, Prime
<1> QED
    BY <1>1, <1>5, <1>6, <1>7

\* The first k bytes are those of the prime.
LikePrime(d, k) == d[1] = Half - 1 /\ \A i \in 2..k : d[i] = Base - 1

\* They are then worth one less than the bound.
LEMMA BytesOfPrime ==
    ASSUME NEW d, NEW v, Worth(d, v), NEW k \in 1..KeyLen, LikePrime(d, k)
    PROVE  v[k] + 1 = Bound(k)
<1> DEFINE T == {m \in 0..(k - 1) : v[m + 1] + 1 = Bound(m + 1)}
<1>1. KeyLen \in Nat /\ k - 1 \in Nat
    BY FieldAssumption
<1>2. 0 \in T
  <2>1. v[1] = Half - 1 /\ Bound(1) = Half /\ Half \in Nat
    BY BoundIs DEF Worth, LikePrime
  <2> QED
    BY <1>1, <2>1
<1>3. ASSUME NEW m \in 0..((k - 1) - 1), m \in T PROVE m + 1 \in T
  <2> DEFINE n == m + 1
  <2>1. n \in 1..(KeyLen - 1) /\ n \in 0..(k - 1) /\ n + 1 \in 2..k /\ n \in Nat \ {0}
    BY <1>1
  <2>2. v[n] + 1 = Bound(n)
    BY <1>3
  <2> HIDE DEF n
  <2>3. v[n + 1] = Base * v[n] + d[n + 1] /\ v[n] \in Nat
    BY <2>1, NextByte
  <2>4. Bound(n + 1) = Base * Bound(n) /\ Base \in Nat
    BY <2>1, BoundIs
  <2>5. d[n + 1] = Base - 1
    BY <2>1 DEF LikePrime
  <2>6. Base * (v[n] + 1) = Base * v[n] + Base /\ Base * v[n] \in Nat
    BY <2>3, <2>4
  <2>7. v[n + 1] + 1 = Bound(n + 1)
    BY <2>2, <2>3, <2>4, <2>5, <2>6
  <2> QED
    BY <2>1, <2>7 DEF n
<1>4. 0..(k - 1) \subseteq T
  <2> HIDE DEF T
  <2> QED
    BY <1>1, <1>2, <1>3, UpTo
<1>5. k - 1 \in T /\ (k - 1) + 1 = k
    BY <1>1, <1>4
<1> QED
    BY <1>5

\* A coordinate with a smaller most significant byte is a member of the field.
LEMMA SmallerTop ==
    ASSUME NEW d \in [1..KeyLen -> Byte], d[1] < Half - 1
    PROVE  BigEndian(d) < Prime
<1> DEFINE v == Values(Base, d)
<1>1. Worth(d, v)
    BY WorthIs
<1> HIDE DEF v
<1>2. KeyLen \in Nat /\ KeyLen > 2 /\ Base \in Nat
    BY FieldAssumption, BaseAssumption
<1>3. v[1] = d[1] /\ d[1] \in Nat
  <2>1. d[1] \in Byte
    BY <1>2
  <2> QED
    BY <1>1, <1>2, <2>1 DEF Worth, Byte, Digit
<1>4. Bound(1) = Half /\ Half \in Nat
    BY BoundIs
<1>5. 1 \in 1..(KeyLen - 1) /\ v[1] + 2 <= Bound(1)
    BY <1>2, <1>3, <1>4
<1> QED
    BY <1>1, <1>5, SmallerByte

\* So is one whose first byte that is not that of the prime is smaller.
LEMMA SmallerInside ==
    ASSUME NEW d \in [1..KeyLen -> Byte], NEW k \in 1..(KeyLen - 2), LikePrime(d, k),
           d[k + 1] # Base - 1
    PROVE  BigEndian(d) < Prime
<1> DEFINE v == Values(Base, d)
<1>1. Worth(d, v)
    BY WorthIs
<1> HIDE DEF v
<1>2. /\ KeyLen \in Nat /\ k \in 1..KeyLen /\ k \in 1..(KeyLen - 1) /\ k \in Nat \ {0}
      /\ k + 1 \in 1..(KeyLen - 1)
    BY FieldAssumption
<1>3. v[k] + 1 = Bound(k)
    BY <1>1, <1>2, BytesOfPrime
<1>4. /\ v[k + 1] = Base * v[k] + d[k + 1] /\ v[k] \in Nat
      /\ d[k + 1] \in Nat /\ d[k + 1] < Base
    BY <1>1, <1>2, NextByte
<1>5. Bound(k + 1) = Base * Bound(k) /\ Base \in Nat
    BY <1>2, BoundIs
<1>6. Base * (v[k] + 1) = Base * v[k] + Base /\ Base * v[k] \in Nat
    BY <1>4, <1>5
<1> DEFINE p == Base * v[k]
<1>7. /\ v[k + 1] = p + d[k + 1] /\ Bound(k + 1) = p + Base
      /\ p \in Nat /\ d[k + 1] + 1 < Base
  <2>1. d[k + 1] + 1 < Base
    BY <1>4, <1>5
  <2>2. Bound(k + 1) = Base * (v[k] + 1)
    BY <1>3, <1>5
  <2> QED
    BY <1>4, <1>6, <2>1, <2>2
<1> HIDE DEF p
<1>8. v[k + 1] + 2 <= Bound(k + 1)
    BY <1>4, <1>5, <1>7
<1> QED
    BY <1>1, <1>2, <1>8, SmallerByte

\* With all bytes before the last those of the prime, the last decides.
LEMMA LastByte ==
    ASSUME NEW d \in [1..KeyLen -> Byte], LikePrime(d, KeyLen - 1)
    PROVE  BigEndian(d) >= Prime <=> d[KeyLen] >= Base - Offset
<1> DEFINE v == Values(Base, d)
           k == KeyLen - 1
<1>1. Worth(d, v)
    BY WorthIs
<1> HIDE DEF v
<1>2. /\ KeyLen \in Nat /\ k \in 1..KeyLen /\ k \in 1..(KeyLen - 1) /\ k \in Nat \ {0}
      /\ k + 1 = KeyLen
    BY FieldAssumption
<1>3. v[k] + 1 = Bound(k)
    BY <1>1, <1>2, BytesOfPrime
<1>4. v[k + 1] = Base * v[k] + d[k + 1] /\ v[k] \in Nat /\ d[k + 1] \in Nat
    BY <1>1, <1>2, NextByte
<1>5. Bound(k + 1) = Base * Bound(k) /\ Base \in Nat
    BY <1>2, BoundIs
<1>6. Base * (v[k] + 1) = Base * v[k] + Base /\ Base * v[k] \in Nat
    BY <1>4, <1>5
<1>7. BigEndian(d) = v[k + 1] /\ Prime = Bound(k + 1) - Offset /\ Offset \in Nat
  <2>1. BigEndian(d) = v[KeyLen]
    BY <1>1 DEF Worth
  <2>2. Prime = Bound(KeyLen) - Offset
    BY BoundIs DEF Prime
  <2> QED
    BY <1>2, <2>1, <2>2, FieldAssumption
<1> DEFINE p == Base * v[k]
<1>8. v[k + 1] = p + d[k + 1] /\ Bound(k + 1) = p + Base /\ p \in Nat
  <2>1. Bound(k + 1) = Base * (v[k] + 1)
    BY <1>3, <1>5
  <2> QED
    BY <1>4, <1>6, <2>1
<1> HIDE DEF k, p
<1>9. BigEndian(d) = p + d[k + 1] /\ Prime = (p + Base) - Offset
    BY <1>7, <1>8
<1> QED
    BY <1>2, <1>4, <1>5, <1>7, <1>8, <1>9

\* A coordinate below the prime has its highest bit free.
LEMMA HighBitFree ==
    ASSUME NEW d \in [1..KeyLen -> Byte], BigEndian(d) < Prime
    PROVE  d[1] \in 0..(Half - 1)
<1> DEFINE v == Values(Base, d)
<1>1. Worth(d, v)
    BY WorthIs
<1> HIDE DEF v
<1>2. /\ KeyLen \in Nat /\ KeyLen > 2 /\ Offset \in Nat /\ Base \in Nat
      /\ Sign \in Nat /\ Half \in Nat /\ Prime = Sign - Offset
    BY FieldAssumption, BaseAssumption, BoundIs DEF Prime
<1>3. BigEndian(d) \in Nat
    BY <1>1, <1>2 DEF Worth
<1>4. d[1] \in Nat
  <2>1. d[1] \in Byte
    BY <1>2
  <2> QED
    BY <1>2, <2>1 DEF Byte, Digit
<1>5. ~(d[1] >= Half)
    BY <1>1, <1>2, <1>3, HighBitSet
<1> QED
    BY <1>2, <1>4, <1>5

\* The sign bit weighs Sign.
LEMMA SignAdds ==
    ASSUME NEW d \in [1..KeyLen -> Byte], d[1] \in 0..(Half - 1),
           NEW e \in [1..KeyLen -> Byte], e[1] = d[1] + Half,
           \A i \in 2..KeyLen : e[i] = d[i]
    PROVE  BigEndian(e) = BigEndian(d) + Sign
<1> DEFINE v == Values(Base, d)
           u == Values(Base, e)
           T == {k \in 1..KeyLen : u[k] = v[k] + Bound(k)}
<1>1. Worth(d, v) /\ Worth(e, u)
    BY WorthIs
<1> HIDE DEF v, u
<1>2. KeyLen \in Nat /\ KeyLen > 2
    BY FieldAssumption
<1>3. 1 \in T
    BY <1>1, <1>2, BoundIs DEF Worth
<1>4. ASSUME NEW k \in 1..(KeyLen - 1), k \in T PROVE k + 1 \in T
  <2>1. k + 1 \in 1..KeyLen /\ k + 1 \in 2..KeyLen /\ k \in Nat \ {0}
    BY <1>2
  <2>2. v[k + 1] = Base * v[k] + d[k + 1] /\ v[k] \in Nat /\ d[k + 1] \in Nat
    BY <1>1, NextByte
  <2>3. u[k + 1] = Base * u[k] + d[k + 1]
    <3>1. u[k + 1] = Base * u[k] + e[k + 1]
        BY <1>1, NextByte
    <3>2. e[k + 1] = d[k + 1]
        BY <2>1
    <3> QED
        BY <3>1, <3>2
  <2>4. Bound(k + 1) = Base * Bound(k) /\ Bound(k) \in Nat /\ Base \in Nat
    BY <2>1, BoundIs
  <2>5. u[k] = v[k] + Bound(k)
    BY <1>4
  <2>6. Base * (v[k] + Bound(k)) = Base * v[k] + Base * Bound(k)
        /\ Base * v[k] \in Nat /\ Base * Bound(k) \in Nat
    BY <2>2, <2>4
  <2>7. u[k + 1] = (Base * v[k] + Base * Bound(k)) + d[k + 1]
    BY <2>3, <2>5, <2>6
  <2>8. u[k + 1] = v[k + 1] + Bound(k + 1)
    BY <2>2, <2>4, <2>6, <2>7
  <2> QED
    BY <2>1, <2>8
<1>5. KeyLen \in T
  <2> HIDE DEF T
  <2>1. 1 \in 1..KeyLen /\ KeyLen \in 1..KeyLen
    BY <1>2
  <2> QED
    BY <1>3, <1>4, <2>1, FromByteOn
<1> QED
    BY <1>1, <1>5, BoundIs DEF Worth

\* A big-endian number is odd when its last byte is.
LEMMA ParityOfLast ==
    ASSUME NEW d \in [1..KeyLen -> Byte]
    PROVE  BigEndian(d) % 2 = d[KeyLen] % 2
<1> DEFINE v == Values(Base, d)
           k == KeyLen - 1
<1>1. Worth(d, v)
    BY WorthIs
<1> HIDE DEF v
<1>2. k \in 1..(KeyLen - 1) /\ k + 1 = KeyLen
    BY FieldAssumption
<1>3. v[k + 1] = Base * v[k] + d[k + 1] /\ v[k] \in Nat /\ d[k + 1] \in Nat
    BY <1>1, <1>2, NextByte
<1>4. Base = 2 * Half /\ Half \in Nat
    BY BoundIs
<1>5. BigEndian(d) = v[k + 1]
    BY <1>1, <1>2 DEF Worth
<1> HIDE DEF k
<1> DEFINE z == Half * v[k]
<1>6. z \in Nat /\ Base * v[k] = 2 * z
    BY <1>3, <1>4
<1> HIDE DEF z
<1>7. (2 * z + d[k + 1]) % 2 = d[k + 1] % 2
    BY <1>3, <1>6
<1> QED
    BY <1>2, <1>3, <1>5, <1>6, <1>7

\* The bytes of a coordinate.
LEMMA InOrderIs ==
    ASSUME NEW c \in Coordinate
    PROVE  /\ InOrder(c) \in [1..KeyLen -> Byte]
           /\ \A i \in 1..KeyLen : InOrder(c)[i] = c[i - 1]
<1>1. \A i \in 1..KeyLen : i - 1 \in Index
    BY FieldAssumption DEF Index
<1> QED
    BY <1>1 DEF InOrder, Coordinate

\* A key is read from its last byte to its first.
LEMMA KeyIs ==
    ASSUME NEW c \in Coordinate, NEW e \in [1..KeyLen -> Byte],
           \A i \in 1..KeyLen : e[i] = c[KeyLen - i]
    PROVE  LittleEndian(InOrder(c)) = BigEndian(e)
<1> DEFINE d == InOrder(c)
<1>1. KeyLen \in Nat
    BY FieldAssumption
<1>2. d \in [1..KeyLen -> Byte] /\ \A i \in 1..KeyLen : d[i] = c[i - 1]
    BY InOrderIs
<1> HIDE DEF d
<1>3. Len(d) = KeyLen
    BY <1>1, <1>2
<1>4. Reverse(d) = [i \in 1..KeyLen |-> d[(KeyLen - i) + 1]]
    BY <1>3 DEF Reverse
<1>5. ASSUME NEW i \in 1..KeyLen PROVE d[(KeyLen - i) + 1] = e[i]
  <2>1. (KeyLen - i) + 1 \in 1..KeyLen /\ ((KeyLen - i) + 1) - 1 = KeyLen - i
    BY <1>1
  <2> QED
    BY <1>2, <2>1
<1>6. Reverse(d) = e
    BY <1>4, <1>5
<1> QED
    BY <1>6 DEF LittleEndian, BigEndian, d

(***************************************************************************)
(* The inductive invariant of the compression: the scan has compared the   *)
(* bytes of Y above b with those of the prime, and what is packed is the   *)
(* reverse of Y.                                                           *)
(***************************************************************************)
BytesOfY == InOrder(raw.y)

Reversed == compressed = [i \in Index |-> raw.y[Top - i]]

CompressionInv ==
    /\ raw \in Point
    /\ stage \notin {"header", "InvalidPointHeader"} => raw.header = Uncompressed
    /\ stage \in {"top", "scan", "low", "sign"} => Reversed
    /\ stage = "scan" => b \in 1..(KeyLen - 2) /\ LikePrime(BytesOfY, (KeyLen - 1) - b)
    /\ stage = "low" => LikePrime(BytesOfY, KeyLen - 1)
    /\ stage \in {"sign", "done"} => Y < Prime
    /\ stage = "FieldOverflow" => Y >= Prime
    /\ stage = "done" =>
          LittleEndian(InOrder(compressed)) = IF raw.x[Top] % 2 = 1 THEN Y + Sign ELSE Y

\* Y is a number of so many bytes, and the reverse of it is read as Y.
LEMMA YIs ==
    ASSUME raw \in Point
    PROVE  /\ raw.x \in Coordinate /\ raw.y \in Coordinate
           /\ BytesOfY \in [1..KeyLen -> Byte]
           /\ \A i \in 1..KeyLen : BytesOfY[i] = raw.y[i - 1]
           /\ Y = BigEndian(BytesOfY)
           /\ Reversed => \A i \in Index : compressed[i] = BytesOfY[KeyLen - i]
<1>1. raw.x \in Coordinate /\ raw.y \in Coordinate
    BY PointAssumption
<1>2. BytesOfY \in [1..KeyLen -> Byte] /\ \A i \in 1..KeyLen : BytesOfY[i] = raw.y[i - 1]
    BY <1>1, InOrderIs DEF BytesOfY
<1>3. ASSUME Reversed, NEW i \in Index PROVE compressed[i] = BytesOfY[KeyLen - i]
  <2>1. KeyLen - i \in 1..KeyLen /\ (KeyLen - i) - 1 = Top - i
    BY FieldAssumption DEF Index, Top
  <2>2. compressed[i] = raw.y[Top - i]
    BY <1>3 DEF Reversed
  <2> QED
    BY <1>2, <2>1, <2>2
<1> QED
    BY <1>1, <1>2, <1>3 DEF Y, BytesOfY

\* A key below the prime is packed with the sign of X.
LEMMA Packed ==
    ASSUME raw \in Point, Reversed, Y < Prime, NEW c,
           c = IF raw.x[Top] % 2 = 1
               THEN [compressed EXCEPT ![Top] = (@ % Half) + Half] ELSE compressed
    PROVE  LittleEndian(InOrder(c)) = IF raw.x[Top] % 2 = 1 THEN Y + Sign ELSE Y
<1> DEFINE d == BytesOfY
           e == [i \in 1..KeyLen |-> c[KeyLen - i]]
<1>1. KeyLen \in Nat /\ KeyLen > 2 /\ Top \in Index /\ Top = KeyLen - 1 /\ KeyLen - Top = 1
    BY FieldAssumption DEF Index, Top
<1>2. /\ d \in [1..KeyLen -> Byte] /\ Y = BigEndian(d)
      /\ \A i \in Index : compressed[i] = d[KeyLen - i]
    BY YIs
<1> HIDE DEF d
<1>3. /\ d[1] \in 0..(Half - 1) /\ Half \in Nat \ {0} /\ Base = 2 * Half
    BY <1>2, HighBitFree, BoundIs
<1>4. DOMAIN compressed = Index
    BY DEF Reversed
<1>5. \A i \in 1..KeyLen : KeyLen - i \in Index /\ KeyLen - (KeyLen - i) = i
    BY <1>1 DEF Index
<1>6. \A i \in Index : compressed[i] \in Byte
  <2>1. \A i \in Index : KeyLen - i \in 1..KeyLen
    BY <1>1 DEF Index
  <2> QED
    BY <1>2, <2>1
<1>7. compressed \in Coordinate
    BY <1>6 DEF Reversed, Coordinate
<1>8. CASE raw.x[Top] % 2 = 1
  <2>1. compressed[Top] = d[1] /\ d[1] % Half = d[1]
    BY <1>1, <1>2, <1>3
  <2>2. c = [compressed EXCEPT ![Top] = d[1] + Half]
    BY <1>8, <2>1
  <2>3. d[1] + Half \in Byte
    BY <1>3 DEF Byte, Digit
  <2>4. c \in Coordinate
    BY <1>7, <2>2, <2>3 DEF Coordinate
  <2>5. e[1] = d[1] + Half
    BY <1>1, <1>4, <2>2
  <2>6. ASSUME NEW i \in 2..KeyLen PROVE e[i] = d[i]
    <3>1. KeyLen - i \in Index /\ KeyLen - i # Top /\ KeyLen - (KeyLen - i) = i
          /\ i \in 1..KeyLen
        BY <1>1, <1>5
    <3>2. c[KeyLen - i] = compressed[KeyLen - i]
        BY <1>4, <2>2, <3>1
    <3> QED
        BY <1>2, <3>1, <3>2
  <2>7. e \in [1..KeyLen -> Byte]
    BY <1>5, <2>4 DEF Coordinate
  <2>8. \A i \in 1..KeyLen : e[i] = c[KeyLen - i]
    OBVIOUS
  <2> HIDE DEF e
  <2>9. BigEndian(e) = BigEndian(d) + Sign
    BY <1>2, <1>3, <2>5, <2>6, <2>7, SignAdds
  <2>10. LittleEndian(InOrder(c)) = BigEndian(e)
    BY <2>4, <2>7, <2>8, KeyIs
  <2> QED
    BY <1>2, <1>8, <2>9, <2>10
<1>9. CASE raw.x[Top] % 2 # 1
  <2>1. c \in Coordinate /\ c = compressed
    BY <1>7, <1>9
  <2>2. \A i \in 1..KeyLen : d[i] = c[KeyLen - i]
    BY <1>2, <1>5, <2>1
  <2>3. LittleEndian(InOrder(c)) = BigEndian(d)
    BY <1>2, <2>1, <2>2, KeyIs
  <2> QED
    BY <1>2, <1>9, <2>3
<1> QED
    BY <1>8, <1>9

\* It holds in every state of a compression.
THEOREM CompressionInvariant == CompressionSpec => []CompressionInv
<1>1. CompressionInit => CompressionInv
    BY DEF CompressionInit, CompressionInv
<1>2. CompressionInv /\ [CompressionNext]_compressionVars => CompressionInv'
  <2> SUFFICES ASSUME CompressionInv, [CompressionNext]_compressionVars
               PROVE  CompressionInv'
    OBVIOUS
  <2> DEFINE d == BytesOfY
  <2>1. /\ d \in [1..KeyLen -> Byte] /\ Y = BigEndian(d)
        /\ Reversed => \A i \in Index : compressed[i] = d[KeyLen - i]
    BY YIs DEF CompressionInv
  <2>2. /\ KeyLen \in Nat /\ KeyLen > 2 /\ Top = KeyLen - 1 /\ Offset \in 1..(Base - 1)
        /\ Base \in Nat /\ Half \in Nat
    BY FieldAssumption, BaseAssumption, BoundIs DEF Top
  <2>3. UNCHANGED raw => UNCHANGED d /\ UNCHANGED Y
    BY DEF BytesOfY, Y
  <2>4. UNCHANGED <<raw, compressed>> => UNCHANGED Reversed
    BY DEF Reversed
  <2> HIDE DEF d
  <2>5. CASE CheckHeader
    BY <2>5 DEF CheckHeader, Turn, CompressionInv
  <2>6. CASE ReverseY
    BY <2>6 DEF ReverseY, CompressionInv, Reversed
  <2>7. CASE CheckTop
    <3>1. Reversed /\ raw.header = Uncompressed /\ raw \in Point
        BY <2>7 DEF CheckTop, CompressionInv
    <3>2. Top \in Index /\ KeyLen - Top = 1 /\ 1 \in 1..KeyLen
        BY <2>2 DEF Index
    <3>3. compressed[Top] = d[1] /\ d[1] \in Nat
        BY <2>1, <2>2, <3>1, <3>2 DEF Byte, Digit
    <3>4. CASE d[1] >= Half
      <4>1. Y >= Sign
        BY <2>1, <3>4, WorthIs, HighBitSet
      <4>2. Y >= Prime
        <5>1. Y \in Nat /\ Sign \in Nat
            BY <2>1, CoordinateIsNat
        <5> QED
            BY <2>2, <4>1, <5>1 DEF Prime
      <4>3. stage' = "FieldOverflow" /\ UNCHANGED <<raw, compressed>>
        BY <2>2, <2>7, <3>3, <3>4 DEF CheckTop
      <4> QED
        BY <2>3, <3>1, <4>2, <4>3 DEF CompressionInv
    <3>5. CASE d[1] = Half - 1
      <4>1. stage' = "scan" /\ b' = Top - 1 /\ UNCHANGED <<raw, compressed>>
        BY <2>2, <2>7, <3>3, <3>5 DEF CheckTop
      <4>2. b' \in 1..(KeyLen - 2) /\ (KeyLen - 1) - b' = 1
        BY <2>2, <4>1
      <4>3. LikePrime(d, 1)
        BY <3>5 DEF LikePrime
      <4>4. LikePrime(d', (KeyLen - 1) - b')
        BY <2>3, <4>1, <4>2, <4>3
      <4> QED
        BY <2>4, <3>1, <4>1, <4>2, <4>4 DEF CompressionInv, d
    <3>6. CASE d[1] < Half - 1
      <4>1. stage' = "sign" /\ UNCHANGED <<raw, compressed>>
        BY <2>2, <2>7, <3>3, <3>6 DEF CheckTop
      <4>2. Y < Prime
        BY <2>1, <3>6, SmallerTop
      <4> QED
        BY <2>3, <2>4, <3>1, <4>1, <4>2 DEF CompressionInv
    <3> QED
        BY <2>2, <3>3, <3>4, <3>5, <3>6
  <2>8. CASE ScanByte
    <3> DEFINE k == (KeyLen - 1) - b
    <3>1. Reversed /\ raw.header = Uncompressed /\ raw \in Point
        BY <2>8 DEF ScanByte, CompressionInv
    <3>2. b \in 1..(KeyLen - 2) /\ LikePrime(d, k)
        BY <2>8 DEF ScanByte, CompressionInv, d
    <3>3. b \in Index /\ k \in 1..(KeyLen - 2) /\ k + 1 = KeyLen - b
          /\ k + 1 \in 1..KeyLen
        BY <2>2, <3>2 DEF Index
    <3>4. compressed[b] = d[k + 1]
        BY <2>1, <3>1, <3>3
    <3>5. UNCHANGED <<raw, compressed>>
        BY <2>8 DEF ScanByte
    <3>6. CASE d[k + 1] # Base - 1
      <4>1. stage' = "sign"
        BY <2>8, <3>3, <3>4, <3>6 DEF ScanByte
      <4>2. Y < Prime
        <5> HIDE DEF k
        <5> QED
            BY <2>1, <3>2, <3>3, <3>6, SmallerInside
      <4> QED
        BY <2>3, <2>4, <3>1, <3>5, <4>1, <4>2 DEF CompressionInv
    <3>7. CASE d[k + 1] = Base - 1
      <4>1. LikePrime(d, k + 1)
        <5>1. \A i \in 2..(k + 1) : i \in 2..k \/ i = k + 1
            BY <3>3
        <5> HIDE DEF k
        <5> QED
            BY <3>2, <3>7, <5>1 DEF LikePrime
      <4>2. CASE b = 1
        <5>1. stage' = "low"
            BY <2>8, <3>4, <3>7, <4>2 DEF ScanByte
        <5>2. LikePrime(d, KeyLen - 1)
            BY <2>2, <3>3, <4>1, <4>2
        <5>3. LikePrime(d', KeyLen - 1)
            BY <2>3, <3>5, <5>2
        <5> QED
            BY <2>4, <3>1, <3>5, <5>1, <5>3 DEF CompressionInv, d
      <4>3. CASE b # 1
        <5>1. stage' = "scan" /\ b' = b - 1
            BY <2>8, <3>4, <3>7, <4>3 DEF ScanByte
        <5>2. b' \in 1..(KeyLen - 2) /\ (KeyLen - 1) - b' = k + 1
            BY <2>2, <3>2, <4>3, <5>1
        <5>3. LikePrime(d', (KeyLen - 1) - b')
            BY <2>3, <3>5, <4>1, <5>2
        <5> QED
            BY <2>4, <3>1, <3>5, <5>1, <5>2, <5>3 DEF CompressionInv, d
      <4> QED
        BY <4>2, <4>3
    <3> QED
        BY <3>6, <3>7
  <2>9. CASE CheckLow
    <3>1. Reversed /\ raw.header = Uncompressed /\ raw \in Point
          /\ LikePrime(d, KeyLen - 1)
        BY <2>9 DEF CheckLow, CompressionInv, d
    <3>2. 0 \in Index /\ KeyLen - 0 = KeyLen
        BY <2>2 DEF Index
    <3>3. compressed[0] = d[KeyLen]
        BY <2>1, <3>1, <3>2
    <3>4. Y >= Prime <=> compressed[0] >= Base - Offset
        BY <2>1, <3>1, <3>3, LastByte
    <3>5. Y \in Nat /\ Prime \in Int
        BY <2>1, CoordinateIsNat
    <3>6. UNCHANGED <<raw, compressed>>
          /\ stage' = IF Y >= Prime THEN "FieldOverflow" ELSE "sign"
        BY <2>9, <3>4 DEF CheckLow, Turn
    <3>7. CASE Y >= Prime
        BY <2>3, <3>1, <3>6, <3>7 DEF CompressionInv
    <3>8. CASE Y < Prime
      <4>1. stage' = "sign"
        BY <3>5, <3>6, <3>8
      <4> QED
        BY <2>3, <2>4, <3>1, <3>6, <3>8, <4>1 DEF CompressionInv
    <3> QED
        BY <3>5, <3>7, <3>8
  <2>10. CASE PackSign
    <3>1. Reversed /\ raw.header = Uncompressed /\ raw \in Point /\ Y < Prime
        BY <2>10 DEF PackSign, CompressionInv
    <3>2. /\ stage' = "done" /\ UNCHANGED raw
          /\ compressed' = IF raw.x[Top] % 2 = 1
                           THEN [compressed EXCEPT ![Top] = (@ % Half) + Half]
                           ELSE compressed
        BY <2>10 DEF PackSign
    <3>3. LittleEndian(InOrder(compressed')) = IF raw.x[Top] % 2 = 1 THEN Y + Sign ELSE Y
        BY <3>1, <3>2, Packed
    <3> QED
        BY <2>3, <3>1, <3>2, <3>3 DEF CompressionInv
  <2>11. CASE UNCHANGED compressionVars
    BY <2>3, <2>4, <2>11 DEF compressionVars, CompressionInv, d
  <2> QED
    BY <2>5, <2>6, <2>7, <2>8, <2>9, <2>10, <2>11 DEF CompressionNext, Done
<1> QED
    BY <1>1, <1>2, PTL DEF CompressionSpec

\* The scan of the bytes is the comparison of Y with the field prime, whatever the
\* width of a coordinate and wherever its bytes differ from those of the prime.
THEOREM FieldMembers == CompressionSpec => []AcceptsTheField
<1>1. CompressionInv => AcceptsTheField
    BY DEF CompressionInv, AcceptsTheField
<1> QED
    BY <1>1, CompressionInvariant, PTL

\* compress_ed25519_point loses nothing of the point but the half of X it does
\* not need: Y and the sign of X are read back from the key.
THEOREM KeyTellsThePoint == CompressionSpec => []DecompressesToThePoint
<1>1. CompressionInv => DecompressesToThePoint
  <2> SUFFICES ASSUME CompressionInv, stage = "done"
               PROVE  LET key == LittleEndian(InOrder(compressed))
                      IN  /\ key % Sign = Y
                          /\ key \div Sign = X % 2
                          /\ raw.header = Uncompressed
    BY DEF DecompressesToThePoint
  <2> DEFINE key == LittleEndian(InOrder(compressed))
             odd == raw.x[Top] % 2 = 1
  <2>1. /\ raw \in Point /\ raw.header = Uncompressed /\ Y < Prime
        /\ key = IF odd THEN Y + Sign ELSE Y
    BY DEF CompressionInv
  <2>2. X % 2 = raw.x[Top] % 2 /\ raw.x[Top] \in Nat
    <3>1. raw.x \in Coordinate
        BY <2>1, YIs
    <3>2. /\ InOrder(raw.x) \in [1..KeyLen -> Byte]
          /\ \A i \in 1..KeyLen : InOrder(raw.x)[i] = raw.x[i - 1]
        BY <3>1, InOrderIs
    <3>3. KeyLen \in 1..KeyLen /\ KeyLen - 1 = Top /\ Top \in Index
        BY FieldAssumption DEF Top, Index
    <3>4. InOrder(raw.x)[KeyLen] = raw.x[Top]
        BY <3>2, <3>3
    <3>5. raw.x[Top] \in Byte
        BY <3>1, <3>3 DEF Coordinate
    <3> QED
        BY <3>2, <3>4, <3>5, ParityOfLast DEF X, Byte, Digit
  <2>3. Y \in Nat /\ Sign \in Nat \ {0} /\ Prime \in Int /\ Prime < Sign
    BY <2>1, YIs, CoordinateIsNat
  <2> HIDE DEF key
  <2>4. CASE odd
    <3>1. key = Y + Sign /\ key \in 0..(2 * Sign - 1) /\ key >= Sign
        BY <2>1, <2>3, <2>4
    <3>2. key \div Sign = 1 /\ key % Sign = key - Sign
        BY <2>3, <3>1, OnceOrNot
    <3>3. key - Sign = Y
        BY <2>3, <3>1
    <3> QED
        BY <2>1, <2>2, <2>4, <3>2, <3>3 DEF key
  <2>5. CASE ~odd
    <3>1. key = Y /\ key \in 0..(2 * Sign - 1) /\ key < Sign
        BY <2>1, <2>3, <2>5
    <3>2. key \div Sign = 0 /\ key % Sign = key
        BY <2>3, <3>1, OnceOrNot
    <3>3. X % 2 = 0
        BY <2>2, <2>5
    <3> QED
        BY <2>1, <3>1, <3>2, <3>3 DEF key
  <2> QED
    BY <2>4, <2>5
<1> QED
    BY <1>1, CompressionInvariant, PTL

-----------------------------------------------------------------------------
(* The text.  A byte is two hexadecimal digits.                            *)

\* The places of a byte's digits are the odd and the even ones.
LEMMA TwoPlaces ==
    ASSUME NEW n \in Nat
    PROVE  /\ (2 * n) \div 2 = n /\ (2 * n) % 2 = 0
           /\ n > 0 => (2 * n - 1) % 2 = 1 /\ ((2 * n - 1) + 1) \div 2 = n
<1>1. \A v \in Nat : /\ (2 * v + 0) \div 2 = v /\ (2 * v + 0) % 2 = 0
                     /\ (2 * v + 1) % 2 = 1
    BY OneDigit DEF Digit
<1>2. 2 * n + 0 = 2 * n
    OBVIOUS
<1>3. (2 * n) \div 2 = n /\ (2 * n) % 2 = 0
    BY <1>1, <1>2
<1>4. ASSUME n > 0 PROVE (2 * n - 1) % 2 = 1 /\ ((2 * n - 1) + 1) \div 2 = n
  <2>1. n - 1 \in Nat /\ 2 * (n - 1) + 1 = 2 * n - 1 /\ (2 * n - 1) + 1 = 2 * n
    BY <1>4
  <2>2. (2 * (n - 1) + 1) % 2 = 1
    BY <1>1, <2>1
  <2> QED
    BY <1>3, <2>1, <2>2
<1> QED
    BY <1>3, <1>4

\* The digits a byte is written with.
LEMMA HexIs ==
    ASSUME NEW s \in Seq(0..255)
    PROVE  /\ Hex(s) \in Seq(Digit(16)) /\ Len(Hex(s)) = 2 * Len(s)
           /\ \A i \in 1..Len(s) : /\ Hex(s)[2 * i - 1] = s[i] \div 16
                                   /\ Hex(s)[2 * i] = s[i] % 16
<1> DEFINE n == Len(s)
           h == Hex(s)
<1>1. n \in Nat /\ \A i \in 1..n : s[i] \in 0..255
    BY LenProperties, ElementOfSeq
<1>2. \A d \in 0..255 : d \div 16 \in Digit(16) /\ d % 16 \in Digit(16)
    BY DEF Digit
<1>3. h = [i \in 1..(2 * n) |->
              IF i % 2 = 1 THEN s[(i + 1) \div 2] \div 16 ELSE s[i \div 2] % 16]
    BY DEF Hex
<1> HIDE DEF n, h
<1>4. ASSUME NEW i \in 1..n
      PROVE  /\ 2 * i - 1 \in 1..(2 * n) /\ 2 * i \in 1..(2 * n)
             /\ h[2 * i - 1] = s[i] \div 16 /\ h[2 * i] = s[i] % 16
             /\ h[2 * i - 1] \in Digit(16) /\ h[2 * i] \in Digit(16)
  <2>1. 2 * i - 1 \in 1..(2 * n) /\ 2 * i \in 1..(2 * n)
    BY <1>1
  <2>2. /\ (2 * i - 1) % 2 = 1 /\ ((2 * i - 1) + 1) \div 2 = i
        /\ (2 * i) % 2 = 0 /\ (2 * i) \div 2 = i
    BY <1>1, TwoPlaces
  <2>3. h[2 * i - 1] = s[i] \div 16
    BY <1>3, <2>1, <2>2
  <2>4. h[2 * i] = s[i] % 16
    BY <1>3, <2>1, <2>2
  <2> QED
    BY <1>1, <1>2, <2>1, <2>3, <2>4
<1>5. ASSUME NEW j \in 1..(2 * n) PROVE h[j] \in Digit(16)
  <2>1. PICK i \in 1..n : j = 2 * i - 1 \/ j = 2 * i
    <3> DEFINE q == j \div 2
               m == j % 2
    <3>1. q \in Nat /\ m \in 0..1 /\ j = 2 * q + m
        BY <1>1
    <3> HIDE DEF q, m
    <3>2. CASE m = 0
      <4>1. q \in 1..n /\ j = 2 * q
        BY <1>1, <3>1, <3>2
      <4> QED
        BY <4>1
    <3>3. CASE m = 1
      <4>1. q + 1 \in 1..n /\ j = 2 * (q + 1) - 1
        BY <1>1, <3>1, <3>3
      <4> QED
        BY <4>1
    <3> QED
        BY <3>1, <3>2, <3>3
  <2> QED
    BY <1>4, <2>1
<1>6. 2 * n \in Nat /\ h \in [1..(2 * n) -> Digit(16)]
    BY <1>1, <1>3, <1>5
<1>7. h \in Seq(Digit(16)) /\ Len(h) = 2 * n
    BY <1>6
<1> QED
    BY <1>4, <1>7 DEF n, h

\* The bytes are read back from their digits.
LEMMA BytesOfHex ==
    ASSUME NEW s \in Seq(0..255)
    PROVE  ReadBytes(Hex(s)) = s
<1> DEFINE n == Len(s)
           h == Hex(s)
<1>1. n \in Nat /\ s \in [1..n -> 0..255] /\ \A i \in 1..n : s[i] \in 0..255
    BY LenProperties, ElementOfSeq
<1>2. /\ Len(h) = 2 * n
      /\ \A i \in 1..n : h[2 * i - 1] = s[i] \div 16 /\ h[2 * i] = s[i] % 16
    BY HexIs
<1> HIDE DEF n, h
<1>3. Len(h) \div 2 = n
    BY <1>1, <1>2, TwoPlaces
<1>4. \A d \in 0..255 : 16 * (d \div 16) + (d % 16) = d
    OBVIOUS
<1>5. ASSUME NEW i \in 1..n PROVE 16 * h[2 * i - 1] + h[2 * i] = s[i]
    BY <1>1, <1>2, <1>4
<1>6. ReadBytes(h) = [i \in 1..n |-> s[i]]
    BY <1>3, <1>5 DEF ReadBytes
<1> QED
    BY <1>1, <1>6 DEF h

\* The text of a digest.
DigestText(a, s) == LabelOf[a] \o <<Colon>> \o Hex(s)

\* The first colon of it is the one after the label, whatever the label is.
LEMMA DigestIsReadBack ==
    ASSUME NEW a \in DOMAIN LabelOf, NEW s \in Seq(0..255)
    PROVE  /\ ReadBack("digest", DigestText(a, s)) = Digest(a, s)
           /\ DigestText(a, s) \in Seq(Ascii)
           /\ Len(DigestText(a, s)) = Len(LabelOf[a]) + 1 + 2 * Len(s)
<1> DEFINE l == LabelOf[a]
           n == Len(l)
           h == Hex(s)
           t == DigestText(a, s)
           colon == CHOOSE i \in DOMAIN t : t[i] = Colon
<1>1. l \in Seq(Ascii \ {Colon}) /\ n \in Nat
    BY LabelAssumption
<1>2. l \in Seq(Ascii) /\ \A i \in 1..n : l[i] # Colon
    BY <1>1
<1>3. h \in Seq(Digit(16)) /\ Len(h) = 2 * Len(s) /\ Len(s) \in Nat
    BY HexIs
<1>4. Colon \in Ascii /\ Digit(16) \subseteq Ascii /\ Colon \notin Digit(16)
    BY CharAssumption DEF Digit
<1>5. h \in Seq(Ascii) /\ \A i \in 1..Len(h) : h[i] # Colon
  <2>1. h \in Seq(Ascii)
    BY <1>3, <1>4, SeqMonotonic
  <2>2. \A i \in 1..Len(h) : h[i] \in Digit(16)
    BY <1>3, ElementOfSeq
  <2> QED
    BY <1>4, <2>1, <2>2
<1>6. /\ l \o <<Colon>> \in Seq(Ascii) /\ Len(l \o <<Colon>>) = n + 1
      /\ \A i \in 1..n : (l \o <<Colon>>)[i] = l[i]
      /\ (l \o <<Colon>>)[n + 1] = Colon
    BY <1>2, <1>4, AppendIsConcat, AppendProperties
<1> HIDE DEF l, n, h
<1>7. /\ t \in Seq(Ascii) /\ Len(t) = n + 1 + Len(h)
      /\ \A i \in 1..n : t[i] = l[i]
      /\ t[n + 1] = Colon
      /\ \A i \in 1..Len(h) : t[(n + 1) + i] = h[i]
  <2> DEFINE k == l \o <<Colon>>
  <2>1. t = k \o h
    BY DEF DigestText, l, h
  <2>2. k \in Seq(Ascii) /\ h \in Seq(Ascii) /\ Len(k) = n + 1 /\ n \in Nat /\ Len(h) \in Nat
    BY <1>1, <1>5, <1>6
  <2>3. \A i \in 1..n : k[i] = l[i]
    BY <1>6
  <2>4. k[n + 1] = Colon
    BY <1>6
  <2> HIDE DEF k, t
  <2>5. /\ t \in Seq(Ascii) /\ Len(t) = (n + 1) + Len(h)
        /\ \A i \in 1..((n + 1) + Len(h)) : t[i] = IF i <= n + 1 THEN k[i] ELSE h[i - (n + 1)]
    <3>1. /\ k \o h \in Seq(Ascii) /\ Len(k \o h) = Len(k) + Len(h)
          /\ \A i \in 1..(Len(k) + Len(h)) :
                (k \o h)[i] = IF i <= Len(k) THEN k[i] ELSE h[i - Len(k)]
        BY <2>2, ConcatProperties
    <3> QED
        BY <2>1, <2>2, <3>1
  <2>6. \A i \in 1..n : t[i] = l[i]
    BY <2>2, <2>3, <2>5
  <2>7. t[n + 1] = Colon
    BY <2>2, <2>4, <2>5
  <2>8. ASSUME NEW i \in 1..Len(h) PROVE t[(n + 1) + i] = h[i]
    <3>1. /\ (n + 1) + i \in 1..((n + 1) + Len(h)) /\ ~((n + 1) + i <= n + 1)
          /\ ((n + 1) + i) - (n + 1) = i
        BY <2>2
    <3> QED
        BY <2>5, <3>1
  <2> QED
    BY <2>2, <2>5, <2>6, <2>7, <2>8
<1> HIDE DEF t
<1>8. colon = n + 1
  <2>1. DOMAIN t = 1..(n + 1 + Len(h)) /\ Len(h) \in Nat
    BY <1>5, <1>7
  <2>2. n + 1 \in DOMAIN t
    BY <1>1, <2>1
  <2>3. ASSUME NEW i \in DOMAIN t, t[i] = Colon PROVE i = n + 1
    <3>1. i \in 1..n \/ i = n + 1 \/ i - (n + 1) \in 1..Len(h)
        BY <1>1, <2>1
    <3>2. i \notin 1..n
        BY <1>2, <1>7, <2>3 DEF l, n
    <3>3. ASSUME i - (n + 1) \in 1..Len(h) PROVE FALSE
      <4>1. (n + 1) + (i - (n + 1)) = i
        BY <1>1, <2>1
      <4> QED
        BY <1>5, <1>7, <2>3, <3>3, <4>1
    <3> QED
        BY <3>1, <3>2, <3>3
  <2> QED
    BY <1>7, <2>2, <2>3
<1>9. SubSeq(t, 1, (n + 1) - 1) = l
  <2>1. (n + 1) - 1 = n /\ n <= Len(t) /\ l \in Seq(Ascii) /\ n = Len(l)
    BY <1>1, <1>2, <1>5, <1>7 DEF l, n
  <2>2. \A i \in 1..n : t[i] \in Ascii
    BY <1>2, <1>7 DEF l, n
  <2>3. /\ SubSeq(t, 1, n) \in Seq(Ascii) /\ Len(SubSeq(t, 1, n)) = n
        /\ \A i \in 1..n : SubSeq(t, 1, n)[i] = t[i]
    <3>1. /\ SubSeq(t, 1, n) \in Seq(Ascii)
          /\ Len(SubSeq(t, 1, n)) = IF 1 <= n THEN n - 1 + 1 ELSE 0
          /\ \A i \in 1..(n - 1 + 1) : SubSeq(t, 1, n)[i] = t[1 + i - 1]
        BY <1>1, <2>2, SubSeqProperties
    <3>2. n - 1 + 1 = n /\ \A i \in 1..n : 1 + i - 1 = i
        BY <1>1
    <3> QED
        BY <1>1, <3>1, <3>2
  <2> QED
    BY <1>7, <2>1, <2>3, SeqEqual
<1>10. SubSeq(t, (n + 1) + 1, Len(t)) = h
  <2> DEFINE p == (n + 1) + 1
             u == SubSeq(t, p, Len(t))
  <2>1. /\ p \in Int /\ Len(t) \in Int /\ Len(h) \in Nat /\ n \in Nat
        /\ Len(t) - p + 1 = Len(h) /\ (p <= Len(t) <=> Len(h) > 0)
    BY <1>1, <1>5, <1>7
  <2>2. \A i \in p..Len(t) : t[i] \in Ascii
    BY <1>1, <1>7
  <2>3. /\ u \in Seq(Ascii) /\ Len(u) = IF p <= Len(t) THEN Len(t) - p + 1 ELSE 0
        /\ \A i \in 1..(Len(t) - p + 1) : u[i] = t[p + i - 1]
    BY <2>1, <2>2, SubSeqProperties
  <2>4. Len(u) = Len(h)
    BY <2>1, <2>3
  <2>5. ASSUME NEW i \in 1..Len(h) PROVE u[i] = h[i]
    <3>1. p + i - 1 = (n + 1) + i
        BY <2>1
    <3> QED
        BY <1>7, <2>1, <2>3, <3>1
  <2> HIDE DEF u
  <2>6. u = h
    BY <1>5, <2>3, <2>4, <2>5, SeqEqual
  <2> QED
    BY <2>6 DEF u
<1>11. (CHOOSE c \in DOMAIN LabelOf : LabelOf[c] = l) = a
    BY LabelAssumption DEF l
<1>12. ReadBytes(h) = s
    BY BytesOfHex DEF h
<1>13. ReadBack("digest", t) =
          Digest(CHOOSE c \in DOMAIN LabelOf : LabelOf[c] = SubSeq(t, 1, colon - 1),
                 ReadBytes(SubSeq(t, colon + 1, Len(t))))
    BY DEF ReadBack
<1>14. ReadBack("digest", t) = Digest(a, s)
    BY <1>8, <1>9, <1>10, <1>11, <1>12, <1>13
<1> QED
    BY <1>3, <1>7, <1>14 DEF t, n, l

\* The digits found so far: v[i] is the number the first i digits of the text that
\* are known would be worth, after what is left to be divided.
Division(n, left, digits, v) ==
    /\ v \in [0..Len(digits) -> Nat]
    /\ v[0] = left
    /\ v[Len(digits)] = n
    /\ \A i \in 1..Len(digits) : v[i] = 10 * v[i - 1] + digits[(Len(digits) + 1) - i]

\* The loop of from_u64: no digit is zero once nothing is left.
DigitsFound(n, left, digits) ==
    /\ left \in Nat /\ digits \in Seq(Digit(10))
    /\ left = 0 => digits # <<>> /\ digits[Len(digits)] # 0
    /\ \E v : Division(n, left, digits, v)

\* The loop starts with the whole number.
LEMMA NoDigitYet ==
    ASSUME NEW n \in Nat \ {0}
    PROVE  DigitsFound(n, n, <<>>)
<1> DEFINE v == [i \in 0..0 |-> n]
<1>1. Division(n, n, <<>>, v)
    BY DEF Division
<1> QED
    BY <1>1 DEF DigitsFound

\* A pass of the loop takes the last digit of what is left.
LEMMA DigitTaken ==
    ASSUME NEW n, NEW left \in Nat \ {0}, NEW digits, DigitsFound(n, left, digits)
    PROVE  DigitsFound(n, left \div 10, Append(digits, left % 10))
<1> DEFINE k == Len(digits)
           q == left \div 10
           m == left % 10
           e == Append(digits, m)
<1>1. q \in Nat /\ m \in Digit(10) /\ 10 * q + m = left
    BY OneDigit
<1>2. digits \in Seq(Digit(10)) /\ k \in Nat
    BY DEF DigitsFound
<1> HIDE DEF q, m, k
<1>3. /\ e \in Seq(Digit(10)) /\ Len(e) = k + 1 /\ e # <<>> /\ e[k + 1] = m
      /\ \A i \in 1..k : e[i] = digits[i]
    BY <1>1, <1>2, AppendProperties DEF k
<1>4. PICK v : Division(n, left, digits, v)
    BY DEF DigitsFound
<1>5. /\ v \in [0..k -> Nat] /\ v[0] = left /\ v[k] = n
      /\ \A i \in 1..k : v[i] = 10 * v[i - 1] + digits[(k + 1) - i]
    BY <1>4 DEF Division, k
<1> DEFINE u == [i \in 0..(k + 1) |-> IF i = 0 THEN q ELSE v[i - 1]]
<1>6. u \in [0..(k + 1) -> Nat]
  <2>1. \A i \in 0..(k + 1) : i = 0 \/ i - 1 \in 0..k
    BY <1>2
  <2> QED
    BY <1>1, <1>5, <2>1
<1>7. u[0] = q /\ \A i \in 0..k : u[i + 1] = v[i]
  <2>1. 0 \in 0..(k + 1)
        /\ \A i \in 0..k : i + 1 \in 0..(k + 1) /\ i + 1 # 0 /\ (i + 1) - 1 = i
    BY <1>2
  <2> QED
    BY <2>1
<1> HIDE DEF u, e
<1>8. u[k + 1] = n /\ u[1] = left
  <2>1. k \in 0..k /\ 0 \in 0..k /\ 0 + 1 = 1
    BY <1>2
  <2> QED
    BY <1>5, <1>7, <2>1
<1>9. ASSUME NEW i \in 1..(k + 1) PROVE u[i] = 10 * u[i - 1] + e[((k + 1) + 1) - i]
  <2>1. CASE i = 1
    <3>1. u[i] = left /\ u[i - 1] = q /\ e[((k + 1) + 1) - i] = m
      <4>1. i - 1 = 0 /\ ((k + 1) + 1) - i = k + 1
        BY <1>2, <2>1
      <4> QED
        BY <1>3, <1>7, <1>8, <2>1, <4>1
    <3> QED
        BY <1>1, <3>1
  <2>2. CASE i # 1
    <3> DEFINE j == i - 1
    <3>1. /\ j \in 1..k /\ j \in 0..k /\ j - 1 \in 0..k /\ i = j + 1 /\ (j - 1) + 1 = j
          /\ ((k + 1) + 1) - i = (k + 1) - j /\ (k + 1) - j \in 1..k
        BY <1>2, <2>2
    <3> HIDE DEF j
    <3>2. u[i] = v[j] /\ u[j] = v[j - 1]
      <4>1. u[j + 1] = v[j] /\ u[(j - 1) + 1] = v[j - 1]
        BY <1>7, <3>1
      <4> QED
        BY <3>1, <4>1
    <3>3. e[((k + 1) + 1) - i] = digits[(k + 1) - j]
        BY <1>3, <3>1
    <3>4. v[j] = 10 * v[j - 1] + digits[(k + 1) - j]
        BY <1>5, <3>1
    <3>5. u[i - 1] = v[j - 1]
        BY <3>1, <3>2 DEF j
    <3> QED
        BY <3>2, <3>3, <3>4, <3>5
  <2> QED
    BY <2>1, <2>2
<1>10. Division(n, q, e, u)
    BY <1>3, <1>6, <1>7, <1>8, <1>9 DEF Division
<1>11. q = 0 => e[Len(e)] # 0
    BY <1>1, <1>3
<1> QED
    BY <1>1, <1>3, <1>10, <1>11 DEF DigitsFound, q, e, m

\* With nothing left, the digits in reverse are the text of the number.
LEMMA DigitsReversed ==
    ASSUME NEW n, NEW digits, DigitsFound(n, 0, digits)
    PROVE  /\ ReadNumber(Reverse(digits)) = n
           /\ Reverse(digits) \in Seq(Digit(10))
           /\ Len(Reverse(digits)) = Len(digits)
           /\ Reverse(digits)[1] # 0
<1> DEFINE k == Len(digits)
           t == Reverse(digits)
<1>1. digits \in Seq(Digit(10)) /\ digits # <<>> /\ digits[k] # 0
    BY DEF DigitsFound
<1>2. k \in Nat \ {0} /\ \A i \in 1..k : digits[i] \in Digit(10)
    BY <1>1, EmptySeq, ElementOfSeq
<1>3. PICK v : Division(n, 0, digits, v)
    BY DEF DigitsFound
<1>4. /\ v[0] = 0 /\ v[k] = n
      /\ \A i \in 1..k : v[i] = 10 * v[i - 1] + digits[(k + 1) - i]
    BY <1>3 DEF Division
<1>5. t = [i \in 1..k |-> digits[(k - i) + 1]]
    BY DEF Reverse
<1> HIDE DEF k, t
<1>6. \A i \in 1..k : (k - i) + 1 \in 1..k /\ (k - i) + 1 = (k + 1) - i
    BY <1>2
<1>7. t \in [1..k -> Digit(10)] /\ \A i \in 1..k : t[i] = digits[(k + 1) - i]
    BY <1>2, <1>5, <1>6
<1>8. t \in Seq(Digit(10)) /\ Len(t) = k
    BY <1>2, <1>7
<1>9. \A i \in 1..Len(t) : v[i] = 10 * v[i - 1] + t[i]
    BY <1>4, <1>7, <1>8
<1>10. 10 \in Nat \ {0, 1}
    OBVIOUS
<1>11. \A i \in 0..Len(t) : Values(10, t)[i] = v[i]
    BY <1>4, <1>8, <1>9, <1>10, NumberIs
<1>12. Values(10, t)[k] = v[k]
    BY <1>2, <1>8, <1>11
<1>13. ReadNumber(t) = n
    BY <1>4, <1>8, <1>12 DEF ReadNumber, NumberOf
<1>14. t[1] = digits[k]
  <2>1. 1 \in 1..k /\ (k + 1) - 1 = k
    BY <1>2
  <2> QED
    BY <1>7, <2>1
<1> QED
    BY <1>1, <1>8, <1>13, <1>14 DEF k, t

\* As long as something is left, a digit more would still not be more than the
\* largest number has.
LEMMA RoomForDigits ==
    ASSUME NEW n \in 0..MaxNumber, NEW left \in Nat \ {0}, NEW digits,
           DigitsFound(n, left, digits)
    PROVE  Len(digits) < TempLen
<1> DEFINE k == Len(digits)
           p == [i \in 0..k |-> Power(10, i)]
<1>1. digits \in Seq(Digit(10)) /\ k \in Nat
    BY DEF DigitsFound
<1>2. 10 \in Nat \ {0, 1}
    OBVIOUS
<1>3. /\ \A i \in Nat : Power(10, i) \in Nat \ {0}
      /\ Power(10, 0) = 1
      /\ \A i \in Nat : Power(10, i + 1) = 10 * Power(10, i)
    BY <1>2, PowerIs
<1>4. PICK v : Division(n, left, digits, v)
    BY DEF DigitsFound
<1> DEFINE R == {i \in 0..k : v[i] >= Power(10, i)}
<1>5. /\ v \in [0..k -> Nat] /\ v[0] = left /\ v[k] = n
      /\ \A i \in 1..k : v[i] = 10 * v[i - 1] + digits[(k + 1) - i]
    BY <1>4 DEF Division
<1>6. 0 \in R
    BY <1>1, <1>3, <1>5
<1>7. ASSUME NEW i \in 0..(k - 1), i \in R PROVE i + 1 \in R
  <2>1. /\ i \in Nat /\ i + 1 \in 1..k /\ i + 1 \in 0..k /\ (i + 1) - 1 = i
        /\ (k + 1) - (i + 1) \in 1..k
    BY <1>1
  <2>2. digits[(k + 1) - (i + 1)] \in Nat
    <3>1. digits[(k + 1) - (i + 1)] \in Digit(10)
        BY <1>1, <2>1, ElementOfSeq
    <3> QED
        BY <3>1 DEF Digit
  <2>3. v[i + 1] = 10 * v[i] + digits[(k + 1) - (i + 1)]
    BY <1>5, <2>1
  <2>4. v[i] \in Nat /\ v[i] >= Power(10, i)
    BY <1>5, <1>7
  <2>5. Power(10, i) \in Nat /\ Power(10, i + 1) = 10 * Power(10, i)
    BY <1>3, <2>1
  <2>6. v[i + 1] >= Power(10, i + 1)
    BY <2>2, <2>3, <2>4, <2>5
  <2> QED
    BY <2>1, <2>6
<1>8. n >= Power(10, k)
  <2>1. k \in R
    <3> HIDE DEF R, k
    <3>1. 0..k \subseteq R
        BY <1>1, <1>6, <1>7, UpTo
    <3> QED
        BY <1>1, <3>1
  <2> QED
    BY <1>5, <2>1
<1>9. ASSUME k >= TempLen PROVE FALSE
  <2>1. TempLen \in Nat /\ MaxNumber \in Nat /\ MaxNumber < Power(10, TempLen)
    BY BoundAssumption
  <2> DEFINE S == {i \in 0..(k - TempLen) : Power(10, TempLen + i) >= Power(10, TempLen)}
  <2>2. k - TempLen \in Nat
    BY <1>1, <1>9, <2>1
  <2>3. 0 \in S
    BY <1>3, <2>1, <2>2
  <2>4. ASSUME NEW i \in 0..((k - TempLen) - 1), i \in S PROVE i + 1 \in S
    <3>1. TempLen + i \in Nat /\ (TempLen + i) + 1 = TempLen + (i + 1)
          /\ i + 1 \in 0..(k - TempLen)
        BY <2>1, <2>2
    <3>2. /\ Power(10, TempLen + (i + 1)) = 10 * Power(10, TempLen + i)
          /\ Power(10, TempLen + i) \in Nat /\ Power(10, TempLen) \in Nat
        BY <1>3, <2>1, <3>1
    <3>3. Power(10, TempLen + i) >= Power(10, TempLen)
        BY <2>4
    <3> QED
        BY <3>1, <3>2, <3>3
  <2>5. Power(10, k) >= Power(10, TempLen)
    <3>1. k - TempLen \in S
      <4> HIDE DEF S, k
      <4>1. 0..(k - TempLen) \subseteq S
        BY <2>2, <2>3, <2>4, UpTo
      <4> QED
        BY <2>2, <4>1
    <3>2. TempLen + (k - TempLen) = k
        BY <1>1, <2>1
    <3> QED
        BY <3>1, <3>2
  <2>6. Power(10, k) \in Nat /\ Power(10, TempLen) \in Nat /\ n \in Nat /\ n <= MaxNumber
    BY <1>1, <1>3, <2>1
  <2> HIDE DEF k
  <2> QED
    BY <1>8, <2>1, <2>5, <2>6
<1> QED
    BY <1>1, <1>9, BoundAssumption

\* What a text of a value must be.
Tells(v, chars) ==
    /\ ReadBack(v.kind, chars) = v
    /\ v.kind = "number" /\ Len(chars) > 1 => chars[1] # 0
    /\ IsComplete(v, chars)
    /\ Len(chars) <= MaxFactLen

\* As many digits as a number has are enough for it.
LEMMA NumberIsComplete ==
    ASSUME NEW n, NEW chars \in Seq(Digit(10)), ReadNumber(chars) = n
    PROVE  IsComplete(Number(n), chars)
<1>1. 10 \in Nat \ {0, 1} /\ Len(chars) \in 0..Len(chars)
  <2>1. Len(chars) \in Nat
    BY LenProperties
  <2> QED
    BY <2>1
<1>2. Values(10, chars)[Len(chars)] < Power(10, Len(chars))
    BY <1>1, NumberBound
<1>3. n < Power(10, Len(chars))
    BY <1>2 DEF ReadNumber, NumberOf
<1> QED
    BY <1>3 DEF IsComplete, Number

\* Zero has a digit too.
LEMMA ZeroTells == Tells(Number(0), <<0>>)
<1>1. <<0>> \in Seq(Digit(10)) /\ Len(<<0>>) = 1 /\ <<0>>[1] = 0
    BY DEF Digit
<1>2. Sums(10, <<0>>, Values(10, <<0>>))
  <2>1. 10 \in Nat \ {0, 1}
    OBVIOUS
  <2> QED
    BY <1>1, <2>1, ValuesAre
<1> DEFINE v == Values(10, <<0>>)
<1>3. v[0] = 0 /\ v[1] = 10 * v[1 - 1] + <<0>>[1]
    BY <1>1, <1>2 DEF Sums
<1>4. v[1] = 0
    BY <1>1, <1>3
<1>5. ReadNumber(<<0>>) = 0
    BY <1>1, <1>4 DEF ReadNumber, NumberOf
<1>6. Number(0).kind = "number"
    BY DEF Number
<1>7. ReadBack("number", <<0>>) = Number(0)
    BY <1>5 DEF ReadBack
<1>8. IsComplete(Number(0), <<0>>)
    BY <1>1, <1>5, NumberIsComplete
<1> QED
    BY <1>1, <1>6, <1>7, <1>8, BoundAssumption DEF Tells

\* The digits that were found make a text.
LEMMA NumberTells ==
    ASSUME NEW n, NEW digits, DigitsFound(n, 0, digits), Len(digits) <= TempLen
    PROVE  Tells(Number(n), Reverse(digits))
<1>1. /\ ReadNumber(Reverse(digits)) = n /\ Reverse(digits)[1] # 0
      /\ Len(Reverse(digits)) = Len(digits)
    BY DigitsReversed
<1>2. Number(n).kind = "number"
    BY DEF Number
<1>3. ReadBack("number", Reverse(digits)) = Number(n)
    BY <1>1 DEF ReadBack
<1>4. Len(digits) \in Nat
    BY LenProperties DEF DigitsFound
<1>5. Len(Reverse(digits)) <= MaxFactLen
    BY <1>1, <1>4, BoundAssumption
<1>6. IsComplete(Number(n), Reverse(digits))
    BY DigitsReversed, NumberIsComplete
<1> QED
    BY <1>1, <1>2, <1>3, <1>5, <1>6 DEF Tells

\* The text that is made at once.
FullText(v) ==
    CASE v.kind = "bytes" -> Hex(v.bytes)
      [] v.kind = "digest" -> DigestText(v.algorithm, v.bytes)
      [] v.kind = "chars" -> v.chars

\* If it fits, it tells the value, and otherwise its length is the reason.
LEMMA FullTextTells ==
    ASSUME NEW v, IsValue(v), v.kind \in {"bytes", "digest", "chars"}
    PROVE  /\ Len(FullText(v)) <= MaxFactLen => Tells(v, FullText(v))
           /\ Len(FullText(v)) = FullLength(v)
<1>1. CASE v.kind = "bytes"
  <2>1. v = Bytes(v.bytes) /\ v.bytes \in Seq(0..255)
    BY <1>1 DEF IsValue
  <2>2. FullText(v) = Hex(v.bytes) /\ FullLength(v) = 2 * Len(v.bytes)
    BY <1>1 DEF FullText, FullLength
  <2>3. Len(Hex(v.bytes)) = 2 * Len(v.bytes) /\ ReadBytes(Hex(v.bytes)) = v.bytes
    BY <2>1, HexIs, BytesOfHex
  <2>4. ReadBack(v.kind, Hex(v.bytes)) = v
    BY <1>1, <2>1, <2>3 DEF ReadBack
  <2> QED
    BY <1>1, <2>2, <2>3, <2>4 DEF Tells, IsComplete
<1>2. CASE v.kind = "digest"
  <2>1. /\ v = Digest(v.algorithm, v.bytes) /\ v.bytes \in Seq(0..255)
        /\ v.algorithm \in DOMAIN LabelOf
    BY <1>2 DEF IsValue
  <2>2. /\ FullText(v) = DigestText(v.algorithm, v.bytes)
        /\ FullLength(v) = Len(LabelOf[v.algorithm]) + 1 + 2 * Len(v.bytes)
    BY <1>2 DEF FullText, FullLength
  <2>3. /\ ReadBack(v.kind, DigestText(v.algorithm, v.bytes)) = v
        /\ Len(DigestText(v.algorithm, v.bytes))
              = Len(LabelOf[v.algorithm]) + 1 + 2 * Len(v.bytes)
    BY <1>2, <2>1, DigestIsReadBack
  <2> QED
    BY <1>2, <2>2, <2>3 DEF Tells, IsComplete
<1>3. CASE v.kind = "chars"
  <2>1. v = Chars(v.chars)
    BY <1>3 DEF IsValue
  <2>2. FullText(v) = v.chars /\ FullLength(v) = Len(v.chars)
    BY <1>3 DEF FullText, FullLength
  <2>3. ReadBack(v.kind, v.chars) = v
    BY <1>3, <2>1 DEF ReadBack
  <2> QED
    BY <1>3, <2>2, <2>3 DEF Tells, IsComplete
<1> QED
    BY <1>1, <1>2, <1>3

(***************************************************************************)
(* The inductive invariant of rendering: in the loop of from_u64 the       *)
(* digits and what is left make up the number, a text that is done tells   *)
(* the value, and an error has its reason.                                 *)
(***************************************************************************)
InDigits ==
    /\ value = Number(value.n) /\ value.n \in 0..MaxNumber
    /\ DigitsFound(value.n, num, temp) /\ Len(temp) <= TempLen

TextInv ==
    /\ IsValue(value)
    /\ status \in {"start", "digits", "done", "ValueTooLong", "NonAscii"}
    /\ status # "done" => text = <<>>
    /\ status = "start" => temp = <<>>
    /\ status = "digits" => InDigits
    /\ status = "done" => Tells(value, text) /\ IsAscii(value)
    /\ status = "ValueTooLong" => value.kind # "number" /\ FullLength(value) > MaxFactLen
    /\ status = "NonAscii" => ~IsAscii(value)

\* A text made at once is bounded.
LEMMA BoundedTells ==
    ASSUME TextInv, value.kind \in {"bytes", "digest", "chars"}, IsAscii(value),
           Bounded(FullText(value))
    PROVE  TextInv'
<1> DEFINE t == FullText(value)
<1>1. /\ Len(t) <= MaxFactLen => Tells(value, t)
      /\ Len(t) = FullLength(value)
      /\ IsValue(value)
    BY FullTextTells DEF TextInv
<1>2. FullLength(value) \in Nat /\ MaxFactLen \in Nat
  <2>1. value.kind = "bytes" => FullLength(value) = 2 * Len(value.bytes)
    BY DEF FullLength
  <2>2. value.kind = "chars" => FullLength(value) = Len(value.chars)
    BY DEF FullLength
  <2>3. value.kind = "digest" =>
            FullLength(value) = Len(LabelOf[value.algorithm]) + 1 + 2 * Len(value.bytes)
    BY DEF FullLength
  <2>4. value.kind \in {"bytes", "digest"} => Len(value.bytes) \in Nat
    BY <1>1, LenProperties DEF IsValue
  <2>5. value.kind = "chars" => Len(value.chars) \in Nat
    BY <1>1, LenProperties DEF IsValue
  <2>6. value.kind = "digest" => Len(LabelOf[value.algorithm]) \in Nat
    BY <1>1, LabelAssumption, LenProperties DEF IsValue
  <2>7. value.kind = "bytes" => FullLength(value) \in Nat
    BY <2>1, <2>4
  <2>8. value.kind = "chars" => FullLength(value) \in Nat
    BY <2>2, <2>5
  <2>9. ASSUME value.kind = "digest" PROVE FullLength(value) \in Nat
    <3> DEFINE l == Len(LabelOf[value.algorithm])
               n == Len(value.bytes)
    <3>1. l \in Nat /\ n \in Nat /\ FullLength(value) = l + 1 + 2 * n
        BY <2>3, <2>4, <2>6, <2>9
    <3> HIDE DEF l, n
    <3> QED
        BY <3>1
  <2> QED
    BY <2>7, <2>8, <2>9, BoundAssumption
<1> HIDE DEF t
<1>3. CASE Len(t) > MaxFactLen
  <2>1. status' = "ValueTooLong" /\ text' = <<>> /\ value' = value
    BY <1>3 DEF Bounded, Stop, t
  <2>2. FullLength(value') = FullLength(value)
    BY <2>1
  <2> QED
    BY <1>1, <1>3, <2>1, <2>2 DEF TextInv
<1>4. CASE Len(t) <= MaxFactLen
  <2>1. status' = "done" /\ text' = t /\ value' = value
    BY <1>1, <1>2, <1>4 DEF Bounded, Stop, t
  <2>2. Tells(value', text') /\ IsAscii(value')
    BY <1>1, <1>4, <2>1
  <2> QED
    BY <1>1, <2>1, <2>2 DEF TextInv
<1> QED
    BY <1>1, <1>2, <1>3, <1>4

\* It holds in every state of a rendering.
THEOREM TextInvariant == TextSpec => []TextInv
<1>1. TextInit => TextInv
    BY ValueAssumption DEF TextInit, TextInv
<1>2. TextInv /\ [TextNext]_textVars => TextInv'
  <2> SUFFICES ASSUME TextInv, [TextNext]_textVars PROVE TextInv'
    OBVIOUS
  <2>1. CASE FromU64
    <3>1. status = "start" /\ value.kind = "number" /\ temp = <<>> /\ IsValue(value)
          /\ text = <<>>
        BY <2>1 DEF FromU64, TextInv
    <3>2. value = Number(value.n) /\ value.n \in 0..MaxNumber
        BY <3>1 DEF IsValue
    <3>3. CASE value.n = 0
      <4>1. status' = "done" /\ text' = <<0>> /\ value' = value
        BY <2>1, <3>3 DEF FromU64, Stop
      <4>2. Tells(value, <<0>>)
        BY <3>2, <3>3, ZeroTells
      <4>3. IsAscii(value)
        BY <3>1 DEF IsAscii
      <4> QED
        BY <3>1, <4>1, <4>2, <4>3 DEF TextInv
    <3>4. CASE value.n # 0
      <4>1. status' = "digits" /\ num' = value.n /\ UNCHANGED <<value, temp, text>>
        BY <2>1, <3>4 DEF FromU64, Stop
      <4>2. value.n \in Nat \ {0}
        BY <3>2, <3>4
      <4>3. DigitsFound(value.n, value.n, <<>>)
        BY <4>2, NoDigitYet
      <4>4. Len(<<>>) <= TempLen
        BY BoundAssumption
      <4>5. InDigits'
        BY <3>1, <3>2, <4>1, <4>3, <4>4 DEF InDigits
      <4> QED
        BY <3>1, <4>1, <4>5 DEF TextInv
    <3> QED
        BY <3>3, <3>4
  <2>2. CASE TakeDigit
    <3>1. InDigits /\ IsValue(value) /\ text = <<>>
        BY <2>2 DEF TakeDigit, TextInv
    <3>2. /\ num > 0 /\ Len(temp) < TempLen
          /\ temp' = Append(temp, num % 10) /\ num' = num \div 10
          /\ UNCHANGED <<value, status, text>> /\ status = "digits"
        BY <2>2 DEF TakeDigit
    <3>3. /\ DigitsFound(value.n, num, temp) /\ num \in Nat /\ temp \in Seq(Digit(10))
          /\ Len(temp) \in Nat
        BY <3>1, LenProperties DEF InDigits, DigitsFound
    <3>4. DigitsFound(value.n, num', temp')
      <4>1. num \in Nat \ {0}
        BY <3>2, <3>3
      <4> QED
        BY <3>2, <3>3, <4>1, DigitTaken
    <3>5. Len(temp') <= TempLen
      <4>1. num % 10 \in Digit(10)
        BY <3>3 DEF Digit
      <4>2. Len(temp') = Len(temp) + 1
        BY <3>2, <3>3, <4>1, AppendProperties
      <4> QED
        BY <3>2, <3>3, <4>2, BoundAssumption
    <3>6. InDigits'
        BY <3>1, <3>2, <3>4, <3>5 DEF InDigits
    <3> QED
        BY <3>1, <3>2, <3>6 DEF TextInv
  <2>3. CASE ReverseDigits
    <3>1. InDigits /\ IsValue(value)
        BY <2>3 DEF ReverseDigits, TextInv
    <3>2. num = 0 /\ status' = "done" /\ text' = Reverse(temp) /\ value' = value
        BY <2>3 DEF ReverseDigits, Stop
    <3>3. Tells(value, Reverse(temp))
        BY <3>1, <3>2, NumberTells DEF InDigits
    <3>4. IsAscii(value)
        BY <3>1 DEF InDigits, Number, IsAscii
    <3> QED
        BY <3>1, <3>2, <3>3, <3>4 DEF TextInv
  <2>4. CASE TryFromHex
    <3>1. value.kind = "bytes" /\ FullText(value) = Hex(value.bytes)
        BY <2>4 DEF TryFromHex, FullText
    <3>2. IsAscii(value)
        BY <3>1 DEF IsAscii
    <3> QED
        BY <2>4, <3>1, <3>2, BoundedTells DEF TryFromHex
  <2>5. CASE TryFromDigest
    <3>1. /\ value.kind = "digest"
          /\ FullText(value) = LabelOf[value.algorithm] \o <<Colon>> \o Hex(value.bytes)
        BY <2>5 DEF TryFromDigest, FullText, DigestText
    <3>2. IsAscii(value)
        BY <3>1 DEF IsAscii
    <3> QED
        BY <2>5, <3>1, <3>2, BoundedTells DEF TryFromDigest
  <2>6. CASE TryFromStr
    <3>1. value.kind = "chars" /\ FullText(value) = value.chars
        BY <2>6 DEF TryFromStr, FullText
    <3>2. CASE \E i \in DOMAIN value.chars : value.chars[i] \notin Ascii
      <4>1. status' = "NonAscii" /\ text' = <<>> /\ value' = value
        BY <2>6, <3>2 DEF TryFromStr, Stop
      <4>2. ~IsAscii(value)
        BY <3>1, <3>2 DEF IsAscii
      <4> QED
        BY <4>1, <4>2 DEF TextInv
    <3>3. CASE ~\E i \in DOMAIN value.chars : value.chars[i] \notin Ascii
      <4>1. Bounded(FullText(value))
        BY <2>6, <3>1, <3>3 DEF TryFromStr
      <4>2. IsAscii(value)
        BY <3>3 DEF IsAscii
      <4> QED
        BY <3>1, <4>1, <4>2, BoundedTells
    <3> QED
        BY <3>2, <3>3
  <2>7. CASE UNCHANGED textVars
    BY <2>7 DEF textVars, TextInv, InDigits
  <2> QED
    BY <2>1, <2>2, <2>3, <2>4, <2>5, <2>6, <2>7 DEF TextNext
<1> QED
    BY <1>1, <1>2, PTL DEF TextSpec

\* A text of BoundedFactStr is read back as the value it was made from, whatever
\* the number, the bytes, the label and the capacity are.
THEOREM TextIsReadBack == TextSpec => []TextTellsValue
<1>1. TextInv => TextTellsValue
    BY DEF TextInv, TextTellsValue, Tells
<1> QED
    BY <1>1, TextInvariant, PTL

\* A text of BoundedFactStr is complete, of ASCII and within its capacity, and a
\* value without a text is too long as a whole or not ASCII.
THEOREM CompleteOrRefused == TextSpec => []NeverTruncated
<1>1. TextInv => NeverTruncated
  <2> SUFFICES ASSUME TextInv PROVE NeverTruncated
    OBVIOUS
  <2>1. Len(<<>>) <= MaxFactLen
    BY BoundAssumption
  <2>2. Len(text) <= MaxFactLen
    BY <2>1 DEF TextInv, Tells
  <2>3. status = "done" => IsComplete(value, text)
    BY DEF TextInv, Tells
  <2> QED
    BY <2>2, <2>3 DEF TextInv, NeverTruncated
<1> QED
    BY <1>1, TextInvariant, PTL

\* The array of from_u64 has room for every digit that is left to be written: the
\* write, which the code does not check, never panics.
DigitsFit == status = "digits" /\ num > 0 => Len(temp) < TempLen

THEOREM NoDigitPastTheArray == TextSpec => []DigitsFit
<1>1. TextInv => DigitsFit
  <2> SUFFICES ASSUME TextInv, status = "digits", num > 0 PROVE Len(temp) < TempLen
    BY DEF DigitsFit
  <2>1. value.n \in 0..MaxNumber /\ DigitsFound(value.n, num, temp)
    BY DEF TextInv, InDigits
  <2>2. num \in Nat \ {0}
    BY <2>1 DEF DigitsFound
  <2> QED
    BY <2>1, <2>2, RoomForDigits
<1> QED
    BY <1>1, TextInvariant, PTL
=============================================================================
