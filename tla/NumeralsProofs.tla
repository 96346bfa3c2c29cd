---------------------------- MODULE NumeralsProofs ----------------------------
(***************************************************************************)
(* Proofs about recursive functions on 0..n and about numbers written with *)
(* digits, for every base.                                                 *)
(***************************************************************************)
EXTENDS Numerals, SequenceTheorems, WellFoundedInduction, TLAPS

-----------------------------------------------------------------------------
(* Counting up.  The scans and the conversions between numbers and bytes   *)
(* are recursive functions on 0..n; what they compute is shown by the      *)
(* least element at which it would fail.                                   *)

\* A scan that goes wrong goes wrong somewhere first.
LEMMA LeastElement ==
    ASSUME NEW T \in SUBSET Nat, T # {}
    PROVE  \E m \in T : \A k \in T : m <= k
<1> DEFINE R == {ss \in Nat \X Nat : ss[1] < ss[2]}
<1>1. IsWellFoundedOn(R, Nat)
    BY NatLessThanWellFounded DEF OpToRel
<1>2. PICK m \in T : \A k \in T : ~ (<<k, m>> \in R)
  <2> HIDE DEF R
  <2> QED
    BY <1>1, WFMin
<1>3. ASSUME NEW k \in T PROVE m <= k
  <2>1. <<k, m>> \in Nat \X Nat /\ ~ (<<k, m>> \in R)
    BY <1>2
  <2>2. ~ (k < m)
    BY <2>1
  <2> QED
    BY <2>2
<1> QED
    BY <1>3

\* What holds at the start of a scan and after each of its steps holds throughout.
LEMMA UpTo ==
    ASSUME NEW n \in Nat, NEW T, 0 \in T,
           \A m \in 0..(n - 1) : m \in T => m + 1 \in T
    PROVE  0..n \subseteq T
<1> SUFFICES ASSUME NEW e \in 0..n, e \notin T PROVE FALSE
    OBVIOUS
<1> DEFINE S == {k \in 0..n : k \notin T}
<1>1. PICK m \in S : \A k \in S : m <= k
  <2>1. S # {} /\ S \in SUBSET Nat
    OBVIOUS
  <2> HIDE DEF S
  <2> QED
    BY <2>1, LeastElement
<1>2. m # 0 /\ m \in 0..n /\ m \notin T
    OBVIOUS
<1>3. m - 1 \in 0..(n - 1) /\ m - 1 \notin S
    BY <1>1, <1>2
<1>4. m - 1 \in T
    BY <1>3
<1> QED
    BY <1>2, <1>3, <1>4

\* The functions on 0..n that begin with start and go on by Step.
Recursion(n, D, start, Step) ==
    {g \in [0..n -> D] : g[0] = start /\ \A i \in 1..n : g[i] = Step[i][g[i - 1]]}

\* A recursive function on 0..n exists.
LEMMA RecursionDefines ==
    ASSUME NEW n \in Nat, NEW D, NEW start \in D, NEW Step \in [1..n -> [D -> D]]
    PROVE  Recursion(n, D, start, Step) # {}
<1> DEFINE Computes(m, g) == g[0] = start /\ \A i \in 1..m : g[i] = Step[i][g[i - 1]]
           T == {m \in 0..n : \E g \in [0..m -> D] : Computes(m, g)}
<1>1. 0 \in T
  <2> DEFINE g == [i \in 0..0 |-> start]
  <2>1. g \in [0..0 -> D] /\ Computes(0, g)
    OBVIOUS
  <2> HIDE DEF g, Computes
  <2> QED
    BY <2>1
<1>2. ASSUME NEW m \in 0..(n - 1), m \in T PROVE m + 1 \in T
  <2>1. PICK g \in [0..m -> D] : Computes(m, g)
    BY <1>2
  <2> DEFINE h == [i \in 0..(m + 1) |-> IF i <= m THEN g[i] ELSE Step[m + 1][g[m]]]
  <2>2. Step[m + 1][g[m]] \in D
    <3>1. Step[m + 1] \in [D -> D] /\ g[m] \in D
        OBVIOUS
    <3> QED
        BY <3>1
  <2>3. h \in [0..(m + 1) -> D]
    BY <2>2
  <2>4. Computes(m + 1, h)
    BY <2>1
  <2>5. m + 1 \in 0..n
    OBVIOUS
  <2> HIDE DEF h, Computes
  <2> QED
    BY <2>3, <2>4, <2>5
<1>3. 0..n \subseteq T
  <2> HIDE DEF T
  <2> QED
    BY <1>1, <1>2, UpTo
<1> QED
    BY <1>3 DEF Recursion

\* Values that step by step stay in a set are in it.
LEMMA StaysIn ==
    ASSUME NEW n \in Nat, NEW D, NEW f, f[0] \in D,
           \A i \in 1..n : f[i - 1] \in D => f[i] \in D
    PROVE  \A i \in 0..n : f[i] \in D
<1> DEFINE T == {i \in 0..n : f[i] \in D}
<1>1. 0 \in T
    OBVIOUS
<1>2. ASSUME NEW i \in 0..(n - 1), i \in T PROVE i + 1 \in T
  <2>1. i + 1 \in 1..n /\ (i + 1) - 1 = i
    OBVIOUS
  <2> QED
    BY <1>2, <2>1
<1>3. 0..n \subseteq T
  <2> HIDE DEF T
  <2> QED
    BY <1>1, <1>2, UpTo
<1> QED
    BY <1>3

-----------------------------------------------------------------------------
(* Numbers and digits. *)

\* The arithmetic of one digit.
LEMMA OneDigit ==
    ASSUME NEW base \in Nat \ {0, 1}
    PROVE  /\ \A d \in Digit(base), v \in Nat :
                /\ base * v + d \in Nat
                /\ (base * v + d) \div base = v
                /\ (base * v + d) % base = d
           /\ \A v \in Nat :
                /\ v \div base \in Nat
                /\ v % base \in Digit(base)
                /\ base * (v \div base) + (v % base) = v
<1>1. ASSUME NEW d \in Digit(base), NEW v \in Nat
      PROVE  /\ base * v + d \in Nat
             /\ (base * v + d) \div base = v
             /\ (base * v + d) % base = d
    BY DEF Digit
<1>2. ASSUME NEW v \in Nat
      PROVE  /\ v \div base \in Nat
             /\ v % base \in Digit(base)
             /\ base * (v \div base) + (v % base) = v
    BY DEF Digit
<1> QED
    BY <1>1, <1>2

\* The sums of the first digits.
Sums(base, digits, v) ==
    /\ v \in [0..Len(digits) -> Nat]
    /\ v[0] = 0
    /\ \A i \in 1..Len(digits) : v[i] = base * v[i - 1] + digits[i]

\* A conversion from digits adds them up, from the first to the last.
LEMMA ValuesAre ==
    ASSUME NEW base \in Nat \ {0, 1}, NEW digits \in Seq(Digit(base))
    PROVE  Sums(base, digits, Values(base, digits))
<1> DEFINE n == Len(digits)
           F(f) == [i \in 0..n |-> IF i = 0 THEN 0 ELSE base * f[i - 1] + digits[i]]
           Step == [i \in 1..n |-> [v \in Nat |-> base * v + digits[i]]]
<1>1. n \in Nat
    OBVIOUS
<1>2. \A i \in 1..n : \A v \in Nat : base * v + digits[i] \in Nat
  <2>1. \A i \in 1..n : digits[i] \in Digit(base)
    OBVIOUS
  <2> HIDE DEF n
  <2> QED
    BY <2>1, OneDigit
<1>3. Step \in [1..n -> [Nat -> Nat]]
  <2> HIDE DEF n
  <2> QED
    BY <1>2
<1>4. PICK g \in [0..n -> Nat] : g[0] = 0 /\ \A i \in 1..n : g[i] = Step[i][g[i - 1]]
  <2> HIDE DEF Step, n
  <2>1. Recursion(n, Nat, 0, Step) # {}
    BY <1>1, <1>3, RecursionDefines
  <2> QED
    BY <2>1 DEF Recursion
<1>5. g = F(g)
  <2> HIDE DEF n
  <2>1. ASSUME NEW i \in 1..n PROVE g[i] = base * g[i - 1] + digits[i]
    <3>1. g[i - 1] \in Nat
        BY <1>1
    <3> QED
        BY <1>4, <3>1
  <2>2. ASSUME NEW i \in 0..n
        PROVE  g[i] = IF i = 0 THEN 0 ELSE base * g[i - 1] + digits[i]
    <3>1. i = 0 \/ i \in 1..n
        BY <1>1
    <3> QED
        BY <1>4, <2>1, <3>1
  <2> QED
    BY <2>2
<1>6. Values(base, digits) = F(Values(base, digits))
    BY <1>5 DEF Values
<1> HIDE DEF n
<1>7. PICK f : f = Values(base, digits) /\ f = F(f)
    BY <1>6
<1>8. f[0] = 0
    BY <1>1, <1>7
<1>9. ASSUME NEW i \in 1..n PROVE f[i] = base * f[i - 1] + digits[i]
  <2>1. i \in 0..n /\ i # 0
    BY <1>1
  <2> QED
    BY <1>7, <2>1
<1>10. ASSUME NEW i \in 1..n, f[i - 1] \in Nat PROVE f[i] \in Nat
    BY <1>2, <1>9, <1>10
<1>11. \A i \in 0..n : f[i] \in Nat
  <2>1. f[0] \in Nat
    BY <1>8
  <2> QED
    BY <1>1, <2>1, <1>10, StaysIn
<1>12. f \in [0..n -> Nat]
    BY <1>7, <1>11
<1> QED
    BY <1>7, <1>8, <1>9, <1>12 DEF n, Sums

\* What division by one base after the other leaves.
Quotients(base, value, width, r) ==
    /\ r \in [0..width -> Nat]
    /\ r[0] = value
    /\ \A i \in 1..width : r[i] = r[i - 1] \div base

\* A conversion to digits divides by one base after the other.
LEMMA RestsAre ==
    ASSUME NEW base \in Nat \ {0, 1}, NEW value \in Nat, NEW width \in Nat
    PROVE  Quotients(base, value, width, Rests(base, value, width))
<1> DEFINE F(f) == [i \in 0..width |-> IF i = 0 THEN value ELSE f[i - 1] \div base]
           Step == [i \in 1..width |-> [v \in Nat |-> v \div base]]
<1>1. Step \in [1..width -> [Nat -> Nat]]
    BY OneDigit
<1>2. PICK g \in [0..width -> Nat] :
          g[0] = value /\ \A i \in 1..width : g[i] = Step[i][g[i - 1]]
  <2> HIDE DEF Step
  <2>1. Recursion(width, Nat, value, Step) # {}
    BY <1>1, RecursionDefines
  <2> QED
    BY <2>1 DEF Recursion
<1>3. g = F(g)
  <2>1. ASSUME NEW i \in 1..width PROVE g[i] = g[i - 1] \div base
    <3>1. g[i - 1] \in Nat
        OBVIOUS
    <3> QED
        BY <1>2, <3>1
  <2>2. ASSUME NEW i \in 0..width
        PROVE  g[i] = IF i = 0 THEN value ELSE g[i - 1] \div base
    <3>1. i = 0 \/ i \in 1..width
        OBVIOUS
    <3> QED
        BY <1>2, <2>1, <3>1
  <2> QED
    BY <2>2
<1>4. Rests(base, value, width) = F(Rests(base, value, width))
    BY <1>3 DEF Rests
<1>5. PICK f : f = Rests(base, value, width) /\ f = F(f)
    BY <1>4
<1>6. f[0] = value
    BY <1>5
<1>7. ASSUME NEW i \in 1..width PROVE f[i] = f[i - 1] \div base
  <2>1. i \in 0..width /\ i # 0
    OBVIOUS
  <2> QED
    BY <1>5, <2>1
<1>8. ASSUME NEW i \in 1..width, f[i - 1] \in Nat PROVE f[i] \in Nat
  <2>1. \A v \in Nat : v \div base \in Nat
    BY OneDigit
  <2> QED
    BY <1>7, <1>8, <2>1
<1>9. \A i \in 0..width : f[i] \in Nat
  <2>1. f[0] \in Nat
    BY <1>6
  <2> QED
    BY <2>1, <1>8, StaysIn
<1>10. f \in [0..width -> Nat]
    BY <1>5, <1>9
<1> QED
    BY <1>5, <1>6, <1>7, <1>10 DEF Quotients

\* The powers of a base, as a function of the exponent.
Powers(base, n, power) ==
    /\ power \in [0..n -> Nat \ {0}]
    /\ power[0] = 1
    /\ \A i \in 1..n : power[i] = base * power[i - 1]

\* A power is computed from the one before.
LEMMA PowersAre ==
    ASSUME NEW base \in Nat \ {0, 1}, NEW n \in Nat
    PROVE  \E power : Powers(base, n, power) /\ Power(base, n) = power[n]
<1> DEFINE D == Nat \ {0}
           F(f) == [i \in 0..n |-> IF i = 0 THEN 1 ELSE base * f[i - 1]]
           Step == [i \in 1..n |-> [v \in D |-> base * v]]
<1>1. \A v \in D : base * v \in D
    OBVIOUS
<1> HIDE DEF D
<1>2. Step \in [1..n -> [D -> D]]
    BY <1>1
<1>3. 1 \in D
    BY DEF D
<1>4. PICK g \in [0..n -> D] : g[0] = 1 /\ \A i \in 1..n : g[i] = Step[i][g[i - 1]]
  <2> HIDE DEF Step
  <2>1. Recursion(n, D, 1, Step) # {}
    BY <1>2, <1>3, RecursionDefines
  <2> QED
    BY <2>1 DEF Recursion
<1>5. g = F(g)
  <2>1. ASSUME NEW i \in 1..n PROVE g[i] = base * g[i - 1]
    <3>1. g[i - 1] \in D
        OBVIOUS
    <3> QED
        BY <1>4, <3>1
  <2>2. ASSUME NEW i \in 0..n PROVE g[i] = IF i = 0 THEN 1 ELSE base * g[i - 1]
    <3>1. i = 0 \/ i \in 1..n
        OBVIOUS
    <3> QED
        BY <1>4, <2>1, <3>1
  <2> QED
    BY <2>2
<1> DEFINE P == CHOOSE f : f = F(f)
<1>6. P = F(P)
    BY <1>5
<1>7. Power(base, n) = P[n]
    BY DEF Power
<1>8. PICK p : p = P /\ p = F(p)
    BY <1>6
<1> HIDE DEF P
<1>9. p[0] = 1
    BY <1>8
<1>10. ASSUME NEW i \in 1..n PROVE p[i] = base * p[i - 1]
  <2>1. i \in 0..n /\ i # 0
    OBVIOUS
  <2> QED
    BY <1>8, <2>1
<1>11. p[0] = 1 /\ \A i \in 1..n : p[i] = base * p[i - 1]
    BY <1>9, <1>10
<1>12. ASSUME NEW i \in 1..n, p[i - 1] \in D PROVE p[i] \in D
    BY <1>1, <1>11, <1>12
<1>13. \A i \in 0..n : p[i] \in D
    BY <1>3, <1>11, <1>12, StaysIn
<1>14. p \in [0..n -> D]
    BY <1>8, <1>13
<1> QED
    BY <1>7, <1>8, <1>11, <1>14 DEF Powers, D

\* So it is the same whichever power it is computed on the way to.
LEMMA PowerIs ==
    ASSUME NEW base \in Nat \ {0, 1}
    PROVE  /\ \A n \in Nat : Power(base, n) \in Nat \ {0}
           /\ Power(base, 0) = 1
           /\ \A n \in Nat : Power(base, n + 1) = base * Power(base, n)
<1>1. ASSUME NEW n \in Nat PROVE Power(base, n) \in Nat \ {0}
  <2>1. PICK p : Powers(base, n, p) /\ Power(base, n) = p[n]
    BY PowersAre
  <2>2. n \in 0..n
    OBVIOUS
  <2> QED
    BY <2>1, <2>2 DEF Powers
<1>2. Power(base, 0) = 1
  <2>1. \E p : Powers(base, 0, p) /\ Power(base, 0) = p[0]
    BY PowersAre
  <2> QED
    BY <2>1 DEF Powers
<1>3. ASSUME NEW n \in Nat PROVE Power(base, n + 1) = base * Power(base, n)
  <2>1. PICK p : Powers(base, n, p) /\ Power(base, n) = p[n]
    BY PowersAre
  <2>2. n + 1 \in Nat
    OBVIOUS
  <2>3. PICK q : Powers(base, n + 1, q) /\ Power(base, n + 1) = q[n + 1]
    BY <2>2, PowersAre
  <2> DEFINE T == {i \in 0..n : p[i] = q[i]}
  <2>4. 0 \in T
    BY <2>1, <2>3 DEF Powers
  <2>5. ASSUME NEW i \in 0..(n - 1), i \in T PROVE i + 1 \in T
    <3>1. i + 1 \in 1..n /\ i + 1 \in 1..(n + 1) /\ (i + 1) - 1 = i
        OBVIOUS
    <3>2. p[i + 1] = base * p[i]
        BY <2>1, <3>1 DEF Powers
    <3>3. q[i + 1] = base * q[i]
        BY <2>3, <3>1 DEF Powers
    <3> QED
        BY <2>5, <3>1, <3>2, <3>3
  <2>6. p[n] = q[n]
    <3>1. 0..n \subseteq T
      <4> HIDE DEF T
      <4> QED
        BY <2>4, <2>5, UpTo
    <3> QED
        BY <3>1
  <2>7. n + 1 \in 1..(n + 1) /\ (n + 1) - 1 = n
    OBVIOUS
  <2>8. q[n + 1] = base * q[n]
    BY <2>3, <2>7 DEF Powers
  <2> QED
    BY <2>1, <2>3, <2>6, <2>8
<1> QED
    BY <1>1, <1>2, <1>3

\* A conversion from digits returns a number.
LEMMA NumberIsNat ==
    ASSUME NEW base \in Nat \ {0, 1}, NEW digits \in Seq(Digit(base))
    PROVE  NumberOf(base, digits) \in Nat
<1>1. Len(digits) \in 0..Len(digits)
    OBVIOUS
<1>2. Sums(base, digits, Values(base, digits))
    BY ValuesAre
<1>3. Values(base, digits)[Len(digits)] \in Nat
    BY <1>1, <1>2 DEF Sums
<1> QED
    BY <1>3 DEF NumberOf

\* A conversion to digits returns as many as it is given.
LEMMA DigitsOfAre ==
    ASSUME NEW base \in Nat \ {0, 1}, NEW value \in Nat, NEW width \in Nat
    PROVE  /\ DigitsOf(base, value, width) \in [1..width -> Digit(base)]
           /\ DigitsOf(base, value, width) \in Seq(Digit(base))
           /\ Len(DigitsOf(base, value, width)) = width
<1>1. ASSUME NEW i \in 1..width
      PROVE  Rests(base, value, width)[width - i] % base \in Digit(base)
  <2>1. width - i \in 0..width
    OBVIOUS
  <2>2. Quotients(base, value, width, Rests(base, value, width))
    BY RestsAre
  <2>3. \A v \in Nat : v % base \in Digit(base)
    BY OneDigit
  <2>4. Rests(base, value, width)[width - i] \in Nat
    BY <2>1, <2>2 DEF Quotients
  <2> QED
    BY <2>3, <2>4
<1>2. DigitsOf(base, value, width) \in [1..width -> Digit(base)]
    BY <1>1 DEF DigitsOf
<1> QED
    BY <1>2

\* A product grows with its factors.
LEMMA Grows ==
    ASSUME NEW base \in Nat, NEW a \in Nat, NEW b \in Nat, a <= b
    PROVE  base * a <= base * b
OBVIOUS

\* A number of so many digits is below that power of the base.
LEMMA NumberBound ==
    ASSUME NEW base \in Nat \ {0, 1}, NEW digits \in Seq(Digit(base))
    PROVE  \A i \in 0..Len(digits) : Values(base, digits)[i] < Power(base, i)
<1> DEFINE n == Len(digits)
           v == Values(base, digits)
           T == {i \in 0..n : v[i] < Power(base, i)}
<1>1. /\ v \in [0..n -> Nat] /\ v[0] = 0
      /\ \A i \in 1..n : v[i] = base * v[i - 1] + digits[i]
  <2>1. Sums(base, digits, v)
    BY ValuesAre
  <2> QED
    BY <2>1 DEF Sums
<1>2. n \in Nat /\ \A i \in 1..n : digits[i] \in Digit(base)
    OBVIOUS
<1> HIDE DEF v, n
<1>3. 0 \in T
    BY <1>1, <1>2, PowerIs
<1>4. ASSUME NEW i \in 0..(n - 1), i \in T PROVE i + 1 \in T
  <2>1. i + 1 \in 1..n /\ (i + 1) - 1 = i /\ i \in Nat
    BY <1>2
  <2>2. v[i + 1] = base * v[i] + digits[i + 1] /\ v[i] \in Nat
    BY <1>1, <1>2, <2>1
  <2>3. digits[i + 1] \in Nat /\ digits[i + 1] < base
    BY <1>2, <2>1 DEF Digit
  <2>4. Power(base, i) \in Nat /\ Power(base, i + 1) = base * Power(base, i)
    BY <2>1, PowerIs
  <2>5. v[i] + 1 <= Power(base, i)
    <3>1. v[i] < Power(base, i)
        BY <1>4
    <3> QED
        BY <2>2, <2>4, <3>1
  <2>6. base * (v[i] + 1) <= base * Power(base, i)
    <3>1. v[i] + 1 \in Nat /\ Power(base, i) \in Nat /\ base \in Nat
        BY <2>2, <2>4
    <3> QED
        BY <2>5, <3>1, Grows, Zenon
  <2>7. base * (v[i] + 1) = base * v[i] + base /\ base * v[i] \in Nat
    BY <2>2
  <2>8. v[i + 1] < Power(base, i + 1)
    BY <2>2, <2>3, <2>4, <2>6, <2>7
  <2> QED
    BY <1>2, <2>1, <2>8
<1>5. 0..n \subseteq T
  <2> HIDE DEF T
  <2> QED
    BY <1>2, <1>3, <1>4, UpTo
<1> QED
    BY <1>5 DEF n, v

\* There is one way to add the digits up.
LEMMA NumberIs ==
    ASSUME NEW base \in Nat \ {0, 1}, NEW digits \in Seq(Digit(base)), NEW f,
           f[0] = 0, \A i \in 1..Len(digits) : f[i] = base * f[i - 1] + digits[i]
    PROVE  \A i \in 0..Len(digits) : Values(base, digits)[i] = f[i]
<1> DEFINE n == Len(digits)
           v == Values(base, digits)
           T == {i \in 0..n : v[i] = f[i]}
<1>1. v[0] = 0 /\ \A i \in 1..n : v[i] = base * v[i - 1] + digits[i]
  <2>1. Sums(base, digits, v)
    BY ValuesAre
  <2> QED
    BY <2>1 DEF Sums
<1>2. n \in Nat
    OBVIOUS
<1> HIDE DEF v
<1>3. 0 \in T
    BY <1>1, <1>2
<1>4. ASSUME NEW i \in 0..(n - 1), i \in T PROVE i + 1 \in T
  <2> HIDE DEF n
  <2>1. i + 1 \in 1..n /\ (i + 1) - 1 = i /\ i + 1 \in 0..n
    BY <1>2
  <2>2. v[i + 1] = base * v[i] + digits[i + 1]
    BY <1>1, <2>1
  <2>3. f[i + 1] = base * f[i] + digits[i + 1]
    BY <2>1 DEF n
  <2> QED
    BY <1>4, <2>1, <2>2, <2>3
<1>5. 0..n \subseteq T
  <2> HIDE DEF T, n
  <2> QED
    BY <1>2, <1>3, <1>4, UpTo
<1> QED
    BY <1>5 DEF v

\* What is read from digits is written as the digits it was read from.
LEMMA DigitsOfNumber ==
    ASSUME NEW base \in Nat \ {0, 1}, NEW digits \in Seq(Digit(base))
    PROVE  DigitsOf(base, NumberOf(base, digits), Len(digits)) = digits
<1> DEFINE n == Len(digits)
           v == Values(base, digits)
           r == Rests(base, NumberOf(base, digits), n)
           T == {i \in 0..n : r[i] = v[n - i]}
<1>1. /\ n \in Nat /\ digits \in [1..n -> Digit(base)]
      /\ NumberOf(base, digits) = v[n]
    BY DEF NumberOf
<1>2. v \in [0..n -> Nat] /\ \A i \in 1..n : v[i] = base * v[i - 1] + digits[i]
  <2>1. Sums(base, digits, v)
    BY ValuesAre
  <2> QED
    BY <2>1 DEF Sums
<1>3. r[0] = v[n] /\ \A i \in 1..n : r[i] = r[i - 1] \div base
  <2>1. NumberOf(base, digits) \in Nat
    BY NumberIsNat
  <2>2. Quotients(base, NumberOf(base, digits), n, r)
    <3> HIDE DEF n
    <3> QED
        BY <1>1, <2>1, RestsAre
  <2> HIDE DEF n, r, v
  <2> QED
    BY <1>1, <2>2 DEF Quotients
<1> HIDE DEF v, r, n
<1>4. ASSUME NEW i \in 1..n
      PROVE  v[i - 1] \in Nat /\ v[i] \div base = v[i - 1] /\ v[i] % base = digits[i]
  <2>1. digits[i] \in Digit(base)
    BY <1>1
  <2>2. v[i - 1] \in Nat
    BY <1>1, <1>2
  <2>3. \A d \in Digit(base), w \in Nat :
            (base * w + d) \div base = w /\ (base * w + d) % base = d
    BY OneDigit
  <2>4. /\ (base * v[i - 1] + digits[i]) \div base = v[i - 1]
        /\ (base * v[i - 1] + digits[i]) % base = digits[i]
    BY <2>1, <2>2, <2>3, Zenon
  <2>5. v[i] = base * v[i - 1] + digits[i]
    BY <1>2
  <2> HIDE <1>2, <2>3
  <2> QED
    BY <2>2, <2>4, <2>5, Zenon
<1>5. 0 \in T
    BY <1>1, <1>3
<1>6. ASSUME NEW i \in 0..(n - 1), i \in T PROVE i + 1 \in T
  <2>1. i + 1 \in 1..n /\ (i + 1) - 1 = i /\ n - i \in 1..n /\ (n - i) - 1 = n - (i + 1)
    BY <1>1
  <2>2. r[i + 1] = v[n - i] \div base
    BY <1>3, <1>6, <2>1
  <2>3. v[n - i] \div base = v[n - (i + 1)]
    BY <1>4, <2>1
  <2> QED
    BY <1>1, <2>1, <2>2, <2>3
<1>7. \A i \in 0..n : r[i] = v[n - i]
  <2>1. 0..n \subseteq T
    <3> HIDE DEF T
    <3> QED
        BY <1>1, <1>5, <1>6, UpTo
  <2> QED
    BY <2>1
<1>8. ASSUME NEW i \in 1..n PROVE r[n - i] % base = digits[i]
  <2>1. n - i \in 0..n /\ n - (n - i) = i
    BY <1>1
  <2>2. r[n - i] = v[i]
    BY <1>7, <2>1
  <2> QED
    BY <1>4, <2>2
<1>9. DigitsOf(base, NumberOf(base, digits), n) = [i \in 1..n |-> r[n - i] % base]
    BY DEF DigitsOf, r
<1>10. [i \in 1..n |-> r[n - i] % base] = digits
    BY <1>1, <1>8
<1> QED
    BY <1>9, <1>10 DEF n

\* What is written with enough digits is read back.
LEMMA NumberOfDigits ==
    ASSUME NEW base \in Nat \ {0, 1}, NEW width \in Nat, NEW value \in Nat,
           value < Power(base, width)
    PROVE  NumberOf(base, DigitsOf(base, value, width)) = value
<1> DEFINE r == Rests(base, value, width)
           d == DigitsOf(base, value, width)
           f == [i \in 0..width |-> r[width - i]]
           T == {i \in 0..width : r[i] < Power(base, width - i)}
<1>1. /\ r \in [0..width -> Nat] /\ r[0] = value
      /\ \A i \in 1..width : r[i] = r[i - 1] \div base
  <2>1. Quotients(base, value, width, r)
    BY RestsAre
  <2> HIDE DEF r
  <2> QED
    BY <2>1 DEF Quotients
<1>2. /\ d \in Seq(Digit(base)) /\ Len(d) = width
      /\ \A i \in 1..width : d[i] = r[width - i] % base
  <2>1. d \in Seq(Digit(base)) /\ Len(d) = width
    BY DigitsOfAre
  <2>2. d = [i \in 1..width |-> r[width - i] % base]
    BY DEF DigitsOf
  <2> HIDE DEF r, d
  <2> QED
    BY <2>1, <2>2
<1> HIDE DEF r, d
<1>3. 0 \in T
    BY <1>1
<1>4. ASSUME NEW i \in 0..(width - 1), i \in T PROVE i + 1 \in T
  <2> DEFINE k == width - (i + 1)
  <2>1. i + 1 \in 1..width /\ (i + 1) - 1 = i /\ k \in Nat /\ width - i = k + 1
    OBVIOUS
  <2>2. r[i + 1] = r[i] \div base /\ r[i] \in Nat
    BY <1>1, <2>1
  <2>3. r[i] < Power(base, k + 1)
    BY <1>4, <2>1
  <2> HIDE DEF k
  <2>4. Power(base, k) \in Nat /\ Power(base, k + 1) = base * Power(base, k)
    BY <2>1, PowerIs
  <2>5. r[i + 1] \in Nat /\ base * r[i + 1] <= r[i]
    <3>1. \A w \in Nat : w \div base \in Nat /\ w % base \in Digit(base)
                         /\ base * (w \div base) + (w % base) = w
        BY OneDigit
    <3>2. /\ r[i + 1] \in Nat /\ r[i] % base \in Digit(base)
          /\ base * r[i + 1] + (r[i] % base) = r[i]
        BY <2>2, <3>1
    <3> QED
        BY <2>2, <3>2 DEF Digit
  <2>6. r[i + 1] < Power(base, k)
    <3>1. CASE Power(base, k) <= r[i + 1]
      <4>1. base * Power(base, k) <= base * r[i + 1]
        BY <2>4, <2>5, <3>1, Grows
      <4> QED
        BY <2>2, <2>3, <2>4, <2>5, <4>1
    <3> QED
        BY <2>4, <2>5, <3>1
  <2> QED
    BY <2>1, <2>6 DEF k
<1>5. r[width] = 0
  <2>1. 0..width \subseteq T
    <3> HIDE DEF T
    <3> QED
        BY <1>3, <1>4, UpTo
  <2>2. width \in T /\ width - width = 0
    BY <2>1
  <2> QED
    BY <1>1, <2>2, PowerIs
<1>6. f[0] = 0
    BY <1>5
<1>7. ASSUME NEW i \in 1..width PROVE f[i] = base * f[i - 1] + d[i]
  <2>1. width - (i - 1) \in 1..width /\ (width - (i - 1)) - 1 = width - i
        /\ width - i \in 0..width /\ i - 1 \in 0..width
    OBVIOUS
  <2>2. r[width - (i - 1)] = r[width - i] \div base /\ r[width - i] \in Nat
    BY <1>1, <2>1
  <2>3. \A w \in Nat : base * (w \div base) + (w % base) = w
    BY OneDigit
  <2>4. base * r[width - (i - 1)] + d[i] = r[width - i]
    BY <1>2, <2>2, <2>3
  <2> QED
    BY <2>1, <2>4
<1>8. f[width] = value
    BY <1>1
<1> HIDE DEF f
<1>9. Values(base, d)[width] = f[width]
  <2>1. d \in Seq(Digit(base)) /\ Len(d) = width /\ width \in 0..width
    BY <1>2
  <2>2. \A i \in 0..Len(d) : Values(base, d)[i] = f[i]
    BY <1>6, <1>7, <2>1, NumberIs
  <2> QED
    BY <2>1, <2>2
<1> QED
    BY <1>2, <1>8, <1>9 DEF NumberOf, d
=============================================================================
