---------------------------- MODULE Divisibility ----------------------------
(***************************************************************************)
(* Arithmetic of aligned addresses: quotients, remainders, multiples and   *)
(* powers of two.                                                          *)
(***************************************************************************)
EXTENDS Integers, WellFoundedInduction, TLAPS

\* A number is a multiple of t and a remainder below t.
LEMMA DivMod ==
    ASSUME NEW v \in Int, NEW t \in Nat, t > 0
    PROVE  /\ v \div t \in Int
           /\ v % t \in 0 .. t - 1
           /\ v = t * (v \div t) + (v % t)
    OBVIOUS

\* The quotient and the remainder are the only such pair.
LEMMA ModOf ==
    ASSUME NEW q \in Int, NEW r \in Nat, NEW t \in Nat, t > 0, r < t
    PROVE  (t * q + r) % t = r
    OBVIOUS

\* Multiples have no remainder.
LEMMA MultipleMod ==
    ASSUME NEW q \in Int, NEW t \in Nat, t > 0
    PROVE  (t * q) % t = 0
    OBVIOUS

\* A quotient of what is not negative is the largest number that fits.
LEMMA DivNat ==
    ASSUME NEW v \in Nat, NEW t \in Nat, t > 0
    PROVE  v \div t \in Nat /\ t * (v \div t) <= v /\ v < t * (v \div t) + t
    OBVIOUS

\* The quotient is the only one that fits.
LEMMA DivOf ==
    ASSUME NEW v \in Int, NEW q \in Int, NEW t \in Nat, t > 0, t * q <= v, v < t * (q + 1)
    PROVE  v \div t = q
    OBVIOUS

\* An address and the one t further fold to the same place.
LEMMA ModFold ==
    ASSUME NEW v \in Int, NEW t \in Nat, t > 0
    PROVE  (v + t) % t = v % t
<1> DEFINE q == v \div t
           r == v % t
<1>1. q \in Int /\ r \in Nat /\ r < t /\ v = t * q + r
    BY DivMod
<1> HIDE DEF q, r
<1>2. v + t = t * (q + 1) + r
    BY <1>1
<1>3. (t * (q + 1) + r) % t = r
    BY <1>1, ModOf, q + 1 \in Int
<1> QED
    BY <1>2, <1>3 DEF r

\* Sums and differences of multiples are multiples.
LEMMA ModSum ==
    ASSUME NEW v \in Int, NEW w \in Int, NEW t \in Nat, t > 0, v % t = 0, w % t = 0
    PROVE  (v + w) % t = 0 /\ (v - w) % t = 0
<1> DEFINE a == v \div t
           b == w \div t
<1>1. a \in Int /\ b \in Int /\ v = t * a /\ w = t * b
    BY DivMod
<1> HIDE DEF a, b
<1>2. v + w = t * (a + b) /\ v - w = t * (a - b)
    BY <1>1
<1>3. (t * (a + b)) % t = 0
    BY <1>1, a + b \in Int, MultipleMod
<1>4. (t * (a - b)) % t = 0
    BY <1>1, a - b \in Int, MultipleMod
<1> QED
    BY <1>2, <1>3, <1>4

\* Products of a multiple are multiples.
LEMMA ModProduct ==
    ASSUME NEW k \in Int, NEW w \in Int, NEW t \in Nat, t > 0, w % t = 0
    PROVE  (k * w) % t = 0
<1> DEFINE b == w \div t
<1>1. b \in Int /\ w = t * b
    BY DivMod
<1> HIDE DEF b
<1>2. k * w = t * (k * b)
    BY <1>1
<1> QED
    BY <1>1, <1>2, MultipleMod, k * b \in Int

\* Multiples of a multiple are multiples.
LEMMA ModTransitive ==
    ASSUME NEW v \in Int, NEW s \in Nat, s > 0, NEW t \in Nat, t > 0, v % s = 0, s % t = 0
    PROVE  v % t = 0
<1> DEFINE a == v \div s
           b == s \div t
<1>1. a \in Int /\ v = s * a /\ b \in Int /\ s = t * b
    BY DivMod
<1> HIDE DEF a, b
<1>2. v = t * (b * a)
    BY <1>1
<1> QED
    BY <1>1, <1>2, MultipleMod, b * a \in Int

\* A multiple above 0 is at least one whole, and two multiples are a whole apart.
LEMMA ModGap ==
    ASSUME NEW v \in Int, NEW w \in Int, NEW t \in Nat, t > 0, v % t = 0, w % t = 0, v < w
    PROVE  v + t <= w
<1> DEFINE a == v \div t
           b == w \div t
<1>1. a \in Int /\ b \in Int /\ v = t * a /\ w = t * b
    BY DivMod
<1> HIDE DEF a, b
<1>2. a < b
  <2>1. SUFFICES ASSUME b <= a PROVE FALSE
      BY <1>1
  <2>2. t * b <= t * a
      BY <1>1, <2>1
  <2> QED
      BY <1>1, <2>2
<1>3. t * (a + 1) <= t * b
    BY <1>1, <1>2
<1> QED
    BY <1>1, <1>3

\* A positive multiple is at least one whole.
LEMMA ModWhole ==
    ASSUME NEW v \in Int, NEW t \in Nat, t > 0, v % t = 0, v > 0
    PROVE  v >= t
<1> DEFINE a == v \div t
<1>1. a \in Int /\ v = t * a
    BY DivMod
<1> HIDE DEF a
<1>2. a > 0
    BY <1>1
<1> QED
    BY <1>1, <1>2

\* What fits is no more than the quotient.
LEMMA DivAtLeast ==
    ASSUME NEW v \in Nat, NEW t \in Nat, t > 0, NEW n \in Nat, t * n <= v
    PROVE  n <= v \div t
<1> DEFINE q == v \div t
<1>1. q \in Nat /\ v < t * q + t
    BY DivNat
<1> HIDE DEF q
<1>2. t * q + t = t * (q + 1)
    BY <1>1
<1>3. ASSUME q + 1 <= n PROVE FALSE
  <2>1. t * (q + 1) <= t * n
      BY <1>1, <1>3
  <2> QED
      BY <1>1, <1>2, <2>1
<1> QED
    BY <1>1, <1>3 DEF q

\* What does not fit is more than the quotient.
LEMMA DivBelow ==
    ASSUME NEW v \in Nat, NEW t \in Nat, t > 0, NEW n \in Nat, v < t * n
    PROVE  v \div t < n
<1> DEFINE q == v \div t
<1>1. q \in Nat /\ t * q <= v
    BY DivNat
<1> HIDE DEF q
<1>2. ASSUME n <= q PROVE FALSE
  <2>1. t * n <= t * q
      BY <1>1, <1>2
  <2> QED
      BY <1>1, <2>1
<1> QED
    BY <1>1, <1>2 DEF q

\* The larger the divisor, the smaller the quotient.
LEMMA DivAntitone ==
    ASSUME NEW v \in Nat, NEW s \in Nat, s > 0, NEW t \in Nat, s <= t
    PROVE  v \div t <= v \div s
<1> DEFINE q == v \div t
<1>1. q \in Nat /\ t * q <= v
    BY DivNat
<1> HIDE DEF q
<1>2. s * q <= t * q
    BY <1>1
<1>3. s * q <= v
    BY <1>1, <1>2
<1> QED
    BY <1>1, <1>3, DivAtLeast DEF q

-----------------------------------------------------------------------------
(***************************************************************************)
(* Powers of two are the numbers without an odd divisor above 1.  What is  *)
(* said of them by induction is shown by looking at the smallest number    *)
(* for which it would fail.                                                *)
(***************************************************************************)
PowerOfTwo(v) == v > 0 /\ \A d \in 2 .. v : v % d = 0 => d % 2 = 0

\* A set of natural numbers has a smallest one.
LEMMA SmallestNumber ==
    ASSUME NEW T \in SUBSET Nat, T # {}
    PROVE  \E x \in T : \A y \in T : x <= y
<1>1. PICK x \in T : \A y \in T : ~(<<y, x>> \in OpToRel(<, Nat))
  <2>1. T \subseteq Nat
      OBVIOUS
  <2> QED
      BY <2>1, NatLessThanWellFounded, WFMin, Zenon
<1>2. \A y \in T : ~(y < x)
    BY <1>1 DEF OpToRel
<1> QED
    BY <1>2

\* Above 1, a power of two is twice a power of two.
LEMMA PowerHalf ==
    ASSUME NEW a \in Nat, PowerOfTwo(a), a > 1
    PROVE  \E h \in Nat : a = 2 * h /\ PowerOfTwo(h)
<1> DEFINE h == a \div 2
<1>1. a % 2 = 0
  <2>1. a \in 2 .. a /\ a % a = 0
      OBVIOUS
  <2> QED
      BY <2>1 DEF PowerOfTwo
<1>2. h \in Nat /\ a = 2 * h
    BY <1>1
<1> HIDE DEF h
<1>3. h > 0
    BY <1>2
<1>4. ASSUME NEW d \in 2 .. h, h % d = 0 PROVE d % 2 = 0
  <2>1. d \in Nat /\ d > 0 /\ d \in 2 .. a /\ h \in Int
      BY <1>2
  <2>2. (2 * h) % d = 0
      BY <1>4, <2>1, ModProduct, 2 \in Int, Zenon
  <2> QED
      BY <1>2, <2>1, <2>2 DEF PowerOfTwo
<1> QED
    BY <1>2, <1>3, <1>4 DEF PowerOfTwo

\* Twice a power of two is one.
LEMMA PowerDouble ==
    ASSUME NEW h \in Nat, PowerOfTwo(h)
    PROVE  PowerOfTwo(2 * h)
<1>1. h > 0
    BY DEF PowerOfTwo
<1>2. ASSUME NEW d \in 2 .. 2 * h, (2 * h) % d = 0, d % 2 # 0 PROVE FALSE
  <2> DEFINE q == (2 * h) \div d
             e == d \div 2
  <2>1. d \in Nat /\ d > 1 /\ 2 * h \in Int
      OBVIOUS
  <2>2. q \in Int /\ 2 * h = d * q
      BY <1>2, <2>1, DivMod
  <2>3. e \in Int /\ d = 2 * e + 1
      BY <1>2, <2>1
  <2> HIDE DEF q, e
  <2>4. e * q \in Int
      BY <2>2, <2>3
  <2>5. d * q = 2 * (e * q) + q
      BY <2>2, <2>3
  <2> DEFINE r == h - e * q
  <2>6. r \in Int /\ q = 2 * r
      BY <2>2, <2>4, <2>5
  <2>7. h = d * r
    <3> HIDE DEF r
    <3>1. d * q = 2 * (d * r)
        BY <2>1, <2>6
    <3>2. d * r \in Int
        BY <2>1, <2>6
    <3> QED
        BY <2>2, <3>1, <3>2
  <2> HIDE DEF r
  <2>8. h % d = 0
      BY <2>1, <2>6, <2>7, MultipleMod
  <2>9. d <= h
      BY <1>1, <2>1, <2>8, ModWhole, h \in Int
  <2> QED
      BY <1>2, <2>1, <2>8, <2>9 DEF PowerOfTwo
<1> QED
    BY <1>1, <1>2 DEF PowerOfTwo

\* Of two powers of two the larger is at least twice the smaller.
LEMMA PowersApart ==
    ASSUME NEW a \in Nat, PowerOfTwo(a), NEW b \in Nat, PowerOfTwo(b), a < b
    PROVE  2 * a <= b
<1> DEFINE T == { x \in Nat : /\ PowerOfTwo(x)
                              /\ \E y \in Nat : PowerOfTwo(y) /\ x < y /\ y < 2 * x }
<1> SUFFICES ASSUME a \in T PROVE FALSE
  <2>1. a \notin T => ~(b < 2 * a)
      OBVIOUS
  <2> QED
      BY <2>1
<1>1. PICK x \in T : \A z \in T : x <= z
    BY SmallestNumber
<1>2. PICK y \in Nat : PowerOfTwo(y) /\ x < y /\ y < 2 * x
    BY <1>1
<1>3. x \in Nat /\ PowerOfTwo(x) /\ x > 1
    BY <1>1, <1>2
<1>4. PICK h \in Nat : x = 2 * h /\ PowerOfTwo(h)
    BY <1>3, PowerHalf
<1>5. PICK g \in Nat : y = 2 * g /\ PowerOfTwo(g)
    BY <1>2, <1>3, PowerHalf
<1>6. h < g /\ g < 2 * h /\ h < x
    BY <1>2, <1>3, <1>4, <1>5
<1>7. h \in T
    BY <1>4, <1>5, <1>6
<1> QED
    BY <1>1, <1>3, <1>6, <1>7

\* The larger is the smaller times a power of two.
LEMMA PowersDivide ==
    ASSUME NEW a \in Nat, PowerOfTwo(a), NEW b \in Nat, PowerOfTwo(b), a <= b
    PROVE  \E k \in Nat : PowerOfTwo(k) /\ b = a * k
<1> DEFINE Divides(x, y) == \E k \in Nat : PowerOfTwo(k) /\ y = x * k
           T == { x \in Nat : /\ PowerOfTwo(x)
                              /\ \E y \in Nat : PowerOfTwo(y) /\ x <= y /\ ~Divides(x, y) }
<1> SUFFICES ASSUME a \in T PROVE FALSE
    OBVIOUS
<1>1. PICK x \in T : \A z \in T : x <= z
  <2>1. T \in SUBSET Nat /\ T # {}
      OBVIOUS
  <2> HIDE DEF T
  <2> QED
      BY <2>1, SmallestNumber
<1>2. PICK y \in Nat : PowerOfTwo(y) /\ x <= y /\ ~Divides(x, y)
    BY <1>1
<1>3. x \in Nat /\ PowerOfTwo(x) /\ x > 1
  <2>1. x # 1
      BY <1>2
  <2> QED
      BY <1>1, <2>1 DEF PowerOfTwo
<1>4. PICK h \in Nat : x = 2 * h /\ PowerOfTwo(h)
    BY <1>3, PowerHalf
<1>5. PICK g \in Nat : y = 2 * g /\ PowerOfTwo(g)
    BY <1>2, <1>3, PowerHalf
<1>6. h <= g /\ h < x
    BY <1>2, <1>3, <1>4, <1>5
<1>7. ~Divides(h, g)
  <2> SUFFICES ASSUME NEW k \in Nat, PowerOfTwo(k), g = h * k PROVE FALSE
      OBVIOUS
  <2>1. y = x * k
      BY <1>4, <1>5
  <2> QED
      BY <1>2, <2>1
<1>8. h \in T
    BY <1>4, <1>5, <1>6, <1>7
<1> QED
    BY <1>1, <1>3, <1>4, <1>6, <1>8
=============================================================================
