----------------------------- MODULE SpeedProofs -----------------------------
(***************************************************************************)
(* What holds of every survey, whatever drive, sizes and number of zones:  *)
(* no address is read twice, the zones span the drive, and the status and  *)
(* the headlines are those of the zones that were read.                    *)
(***************************************************************************)
EXTENDS Speed, Divisibility

-----------------------------------------------------------------------------
(***************************************************************************)
(* Arithmetic.                                                             *)
(***************************************************************************)

\* The remainder of the machine is that of mathematics, from 0 on.
LEMMA RemIsMod ==
    ASSUME NEW v \in Nat, NEW t \in Nat, t > 0
    PROVE  Rem(v, t) = v % t
    BY DivMod DEF Rem, Quot

\* What fits into the integers is as it is, and wrapping makes nothing larger.
LEMMA WrapFacts ==
    ASSUME NEW x \in Nat
    PROVE  /\ Wrap(x) \in Int /\ Wrap(x) <= x /\ Wrap(x) < Limit
           /\ x < Limit => Wrap(x) = x
           /\ x < 2 * Limit /\ ~(x < Limit) => Wrap(x) < 0
<1>1. Limit \in Nat /\ Limit > 0
    BY SizesAssumption
<1> DEFINE t == 2 * Limit
           q == (x + Limit) \div t
           r == (x + Limit) % t
<1>2. t \in Nat /\ t > 0
    BY <1>1
<1>3. q \in Int /\ r \in 0 .. t - 1 /\ x + Limit = t * q + r
    BY <1>1, <1>2, DivMod, x + Limit \in Int, Zenon
<1>4. Wrap(x) = r - Limit
    BY DEF Wrap
<1> HIDE DEF q, r
<1>5. q >= 0
  <2>1. SUFFICES ASSUME q <= -1 PROVE FALSE
      BY <1>3
  <2>2. t * q <= t * (-1)
      BY <1>2, <1>3, <2>1
  <2> QED
      BY <1>1, <1>2, <1>3, <2>2
<1>6. t * q >= 0
    BY <1>2, <1>3, <1>5
<1>7. Wrap(x) \in Int /\ Wrap(x) <= x /\ Wrap(x) < Limit
    BY <1>1, <1>3, <1>4, <1>6
<1>8. ASSUME x < Limit PROVE Wrap(x) = x
  <2>1. q < 1
    <3>1. SUFFICES ASSUME q >= 1 PROVE FALSE
        BY <1>3
    <3>2. t * q >= t
        BY <1>2, <1>3, <3>1
    <3> QED
        BY <1>1, <1>3, <1>8, <3>2
  <2>2. q = 0
      BY <1>3, <1>5, <2>1
  <2> QED
      BY <1>1, <1>3, <1>4, <2>2
<1>9. ASSUME x < 2 * Limit, ~(x < Limit) PROVE Wrap(x) < 0
  <2>1. q >= 1
    <3>1. SUFFICES ASSUME q <= 0 PROVE FALSE
        BY <1>3
    <3>2. q = 0
        BY <1>3, <1>5, <3>1
    <3> QED
        BY <1>1, <1>3, <1>9, <3>2
  <2>2. t * q >= t
      BY <1>2, <1>3, <2>1
  <2> QED
      BY <1>1, <1>3, <1>4, <1>9, <2>2
<1> QED
    BY <1>7, <1>8, <1>9

\* Aligning downwards goes to the multiple before.
LEMMA AlignDownFacts ==
    ASSUME NEW v \in Nat, NEW t \in Nat, t > 0
    PROVE  /\ AlignDown(v, t) \in Nat
           /\ AlignDown(v, t) % t = 0
           /\ AlignDown(v, t) <= v /\ v < AlignDown(v, t) + t
           /\ AlignDown(v, t) = t * (v \div t)
<1> DEFINE q == v \div t
           r == v % t
<1>1. q \in Int /\ r \in Nat /\ r < t /\ v = t * q + r
    BY DivMod
<1>2. AlignDown(v, t) = v - r
    BY RemIsMod DEF AlignDown
<1> HIDE DEF q, r
<1>3. q >= 0
    BY <1>1
<1>4. (t * q) % t = 0 /\ t * q >= 0
    BY <1>1, <1>3, MultipleMod
<1> QED
    BY <1>1, <1>2, <1>4 DEF q

\* Aligning upwards goes to the next multiple, or overflows.
LEMMA AlignUpFacts ==
    ASSUME NEW v \in Nat, v < Limit, NEW t \in Nat, t > 0, t < Limit
    PROVE  /\ AlignUp(v, t) \in Int /\ AlignUp(v, t) < v + t
           /\ AlignUp(v, t) >= 0 => AlignUp(v, t) % t = 0 /\ v <= AlignUp(v, t)
<1> DEFINE q == v \div t
           r == v % t
<1>1. q \in Int /\ r \in Nat /\ r < t /\ v = t * q + r
    BY DivMod
<1>2. Rem(v, t) = r
    BY RemIsMod
<1>3. CASE r = 0
    BY <1>1, <1>2, <1>3 DEF AlignUp
<1>4. CASE r # 0
  <2> DEFINE x == v + (t - r)
  <2>1. AlignUp(v, t) = Wrap(x)
      BY <1>2, <1>4 DEF AlignUp
  <2> HIDE DEF q, r
  <2>2. x \in Nat /\ v <= x /\ x < v + t /\ x = t * (q + 1) /\ Limit \in Nat /\ x < 2 * Limit
      BY <1>1, <1>4, SizesAssumption
  <2>3. (t * (q + 1)) % t = 0
      BY <1>1, MultipleMod, q + 1 \in Int
  <2> HIDE DEF x
  <2>4. /\ Wrap(x) \in Int /\ Wrap(x) <= x /\ Wrap(x) < Limit
        /\ x < Limit => Wrap(x) = x
        /\ ~(x < Limit) => Wrap(x) < 0
      BY <2>2, WrapFacts, Zenon
  <2> QED
      BY <2>1, <2>2, <2>3, <2>4
<1> QED
    BY <1>3, <1>4

\* Points n to a length are at least a whole part of it apart, rounded down.
LEMMA Spacing ==
    ASSUME NEW l \in Nat, NEW d \in Nat, NEW n \in Nat, n > 0, d * n <= l,
           NEW i \in Nat, i < n
    PROVE  /\ (l * i) \div n \in Nat /\ (l * (i + 1)) \div n \in Nat
           /\ (l * i) \div n + d <= (l * (i + 1)) \div n
<1> DEFINE a == (l * i) \div n
           b == (l * (i + 1)) \div n
<1>1. l * i \in Nat /\ l * (i + 1) \in Nat /\ l * (i + 1) = l * i + l
    OBVIOUS
<1>2. a \in Int /\ n * a <= l * i /\ l * i < n * a + n
    BY <1>1, DivMod
<1>3. b \in Int /\ n * b <= l * (i + 1) /\ l * (i + 1) < n * b + n
    BY <1>1, DivMod
<1> HIDE DEF a, b
<1>4. a >= 0 /\ b >= 0
    BY <1>1, <1>2, <1>3
<1>5. n * (a + d) < n * (b + 1)
  <2>1. n * (a + d) = n * a + d * n /\ n * (b + 1) = n * b + n
      BY <1>2, <1>3
  <2> QED
      BY <1>1, <1>2, <1>3, <2>1
<1>6. a + d < b + 1
  <2>1. SUFFICES ASSUME b + 1 <= a + d PROVE FALSE
      BY <1>2, <1>3
  <2>2. n * (b + 1) <= n * (a + d)
      BY <1>2, <1>3, <2>1
  <2> QED
      BY <1>2, <1>3, <1>5, <2>2
<1> QED
    BY <1>2, <1>3, <1>4, <1>6 DEF a, b

\* A share of a length is no longer than the length.
LEMMA QuotientNat ==
    ASSUME NEW l \in Nat, NEW n \in Nat, n > 0
    PROVE  \A i \in 0 .. n : (l * i) \div n \in Nat /\ (l * i) \div n <= l
<1> TAKE i \in 0 .. n
<1> DEFINE a == (l * i) \div n
<1>1. l * i \in Nat /\ l * i <= n * l
    OBVIOUS
<1>2. a \in Nat /\ n * a <= l * i
    BY <1>1, DivNat
<1> HIDE DEF a
<1>3. a <= l
  <2>1. SUFFICES ASSUME l + 1 <= a PROVE FALSE
      BY <1>2
  <2>2. n * (l + 1) <= n * a /\ n * (l + 1) = n * l + n
      BY <1>2, <2>1
  <2> QED
      BY <1>1, <1>2, <2>2
<1> QED
    BY <1>2, <1>3 DEF a

\* What is multiples of t apart stays so when aligned downwards.
LEMMA AlignDownApart ==
    ASSUME NEW v \in Nat, NEW w \in Nat, NEW d \in Nat, NEW t \in Nat, t > 0,
           d % t = 0, v + d <= w
    PROVE  AlignDown(v, t) + d <= AlignDown(w, t)
<1> DEFINE a == AlignDown(v, t)
           b == AlignDown(w, t)
<1>1. a \in Nat /\ a % t = 0 /\ a <= v
    BY AlignDownFacts
<1>2. b \in Nat /\ b % t = 0 /\ w < b + t
    BY AlignDownFacts
<1> HIDE DEF a, b
<1>3. (a + d) % t = 0 /\ a + d \in Int /\ b \in Int
    BY <1>1, <1>2, a \in Int, d \in Int, ModSum
<1>4. b < a + d => b + t <= a + d
    BY <1>2, <1>3, ModGap, Zenon
<1> QED
    BY <1>1, <1>2, <1>4 DEF a, b

-----------------------------------------------------------------------------
(***************************************************************************)
(* The plan of a request that is not refused.                              *)
(***************************************************************************)
Parsed == /\ Accepted(req.length) /\ Accepted(req.transfer)
          /\ req.zones > 0 /\ req.end > 0

Admitted == Parsed /\ Buffer >= 0 /\ CanBuild

\* Where each zone starts.
Starts == [i \in 0 .. Count - 1 |-> Offset(i)]

\* The request decides on the plan.
LEMMA Frame ==
    ASSUME UNCHANGED req
    PROVE  /\ (Parsed' <=> Parsed) /\ (Admitted' <=> Admitted) /\ (NoOverflow' <=> NoOverflow)
           /\ Span' = Span /\ Chunk' = Chunk /\ Length' = Length /\ Count' = Count
           /\ Starts' = Starts
    BY DEF Parsed, Admitted, NoOverflow, Span, Chunk, Length, Count, Starts, Accepted,
           Buffer, CanBuild, Transfer, ZoneBytes, Capped, Share, Asked, Fitting, Offset,
           Last, Steps, ParseSize, Meant

\* A size that is accepted is no more than was meant.
LEMMA SizeFacts ==
    ASSUME NEW t \in Texts, Accepted(t)
    PROVE  /\ Meant(t) \in Nat
           /\ ParseSize(t) \in Int /\ ParseSize(t) <= Meant(t) /\ ParseSize(t) < Limit
<1>1. t.n \in Nat /\ Mult(t.suffix) \in Nat
  <2>1. Kilo \in Nat /\ Kilo * Kilo \in Nat /\ Kilo * Kilo * Kilo \in Nat
      BY SizesAssumption
  <2> QED
      BY <2>1 DEF Texts, Accepted, Mult
<1>2. Meant(t) \in Nat
    BY <1>1 DEF Meant
<1> QED
    BY <1>2, WrapFacts DEF ParseSize

\* The span is made up of blocks, and a transfer fits into it.
LEMMA SpanFacts ==
    ASSUME req \in Surveys, Admitted
    PROVE  /\ req.block \in Nat /\ req.block > 0
           /\ Span \in Nat /\ Span % req.block = 0 /\ Span <= req.end /\ Span < Limit
           /\ Chunk \in Nat /\ Chunk > 0 /\ Chunk % req.block = 0 /\ Chunk <= Span
<1>1. /\ req.block \in Nat /\ req.block > 0 /\ req.end \in Nat /\ req.end < Limit
      /\ req.length \in Texts /\ req.transfer \in Texts
    BY SpeedAssumption
<1>2. /\ Span \in Nat /\ Span % req.block = 0 /\ Span <= req.end
    BY <1>1, AlignDownFacts DEF Span
<1>3. Limit \in Nat /\ Limit > 0 /\ Kilo \in Nat
    BY SizesAssumption
<1>4. Span >= req.block /\ Transfer > 0 /\ Buffer >= 0 /\ Span < Limit
    BY <1>1, <1>2, <1>3 DEF Admitted, CanBuild
<1>5. Transfer \in Nat /\ Transfer < Limit
    BY <1>1, <1>4, SizeFacts DEF Transfer, Admitted, Parsed
<1>6. Buffer \in Nat /\ Buffer % req.block = 0 /\ Buffer > 0
    BY <1>1, <1>2, <1>3, <1>4, <1>5, AlignUpFacts DEF Buffer
<1>7. AlignDown(Span, req.block) = Span
  <2>1. Rem(Span, req.block) = 0
      BY <1>1, <1>2, RemIsMod
  <2> QED
      BY <1>2, <2>1 DEF AlignDown
<1> QED
    BY <1>1, <1>2, <1>4, <1>6, <1>7 DEF Chunk

\* The zones are of whole transfers, no longer than asked for, and together no
\* longer than the span.
LEMMA LengthFacts ==
    ASSUME req \in Surveys, Admitted
    PROVE  /\ Length \in Nat /\ Length >= Chunk /\ Length % Chunk = 0
           /\ Count \in Nat /\ Count >= 1 /\ Length * Count <= Span
           /\ Length < Meant(req.length) + Chunk
<1>1. /\ Chunk \in Nat /\ Chunk > 0 /\ Chunk <= Span /\ Chunk < Limit /\ Span \in Nat
      /\ Limit \in Nat
    BY SpanFacts, SizesAssumption
<1>2. req.zones \in Nat /\ req.zones > 0 /\ req.length \in Texts
    BY SpeedAssumption DEF Admitted, Parsed
<1>3. /\ ZoneBytes \in Nat /\ ZoneBytes > 0 /\ ZoneBytes < Limit
      /\ Meant(req.length) \in Nat /\ ZoneBytes <= Meant(req.length)
    BY <1>2, SizeFacts DEF ZoneBytes, Admitted, Parsed, CanBuild
<1>4. /\ Asked \in Int /\ Asked < ZoneBytes + Chunk
      /\ Asked >= 0 => Asked % Chunk = 0
    BY <1>1, <1>3, AlignUpFacts DEF Asked
<1> DEFINE share == Span \div req.zones
<1>5. share \in Nat /\ req.zones * share <= Span
    BY <1>1, <1>2, DivNat, Zenon
<1> HIDE DEF share
<1>6. Share \in Nat /\ Share % Chunk = 0 /\ Share <= share
    BY <1>1, <1>5, AlignDownFacts DEF Share, share
<1>7. Fitting \in Nat /\ Fitting >= 1 /\ Chunk * Fitting <= Span
  <2>1. /\ Fitting \in Int /\ Span % Chunk \in 0 .. Chunk - 1
        /\ Span = Chunk * Fitting + (Span % Chunk)
      BY <1>1, DivMod DEF Fitting
  <2>2. Fitting >= 1
    <3>1. SUFFICES ASSUME Fitting <= 0 PROVE FALSE
        BY <2>1
    <3>2. Chunk * Fitting <= 0
        BY <1>1, <2>1, <3>1
    <3> QED
        BY <1>1, <2>1, <3>2
  <2> QED
      BY <1>1, <2>1, <2>2
<1>8. Capped \in Int /\ Capped <= Share /\ Capped <= Asked
    BY <1>4, <1>6 DEF Capped
<1>9. CASE Capped < Chunk
  <2>1. Length = Chunk /\ Count \in Nat /\ Count >= 1 /\ Count <= Fitting
      BY <1>1, <1>2, <1>7, <1>9 DEF Length, Count
  <2>2. Chunk * Count <= Chunk * Fitting
      BY <1>1, <1>7, <2>1
  <2>3. Chunk % Chunk = 0
      BY <1>1, MultipleMod, Chunk * 1 = Chunk
  <2> QED
      BY <1>1, <1>3, <1>7, <2>1, <2>2, <2>3
<1>10. CASE ~(Capped < Chunk)
  <2>1. Length = Capped /\ Length >= Chunk /\ Count = req.zones
      BY <1>1, <1>8, <1>10 DEF Length, Count
  <2>2. Length % Chunk = 0
      BY <1>1, <1>4, <1>6, <1>10, <2>1 DEF Capped
  <2>3. Length \in Nat /\ Length <= share
      BY <1>1, <1>5, <1>6, <1>8, <2>1
  <2>4. Length * Count <= req.zones * share
      BY <1>2, <1>5, <2>1, <2>3
  <2> QED
      BY <1>1, <1>2, <1>3, <1>4, <1>5, <1>8, <2>1, <2>2, <2>3, <2>4
<1> QED
    BY <1>9, <1>10

\* The zones start at blocks, a length apart, from 0 to a length before the end.
LEMMA StartsFacts ==
    ASSUME req \in Surveys, Admitted, NoOverflow
    PROVE  /\ \A i \in 0 .. Count - 1 : /\ Starts[i] \in Nat /\ Starts[i] % req.block = 0
                                        /\ Starts[i] + Length <= Span
           /\ \A i \in 0 .. Count - 1 : i + 1 < Count => Starts[i] + Length <= Starts[i + 1]
           /\ Starts[0] = 0
           /\ Count > 1 => Starts[Count - 1] + Length = Span
<1>1. /\ req.block \in Nat /\ req.block > 0 /\ Span \in Nat /\ Span % req.block = 0
      /\ Chunk \in Nat /\ Chunk > 0 /\ Chunk % req.block = 0
    BY SpanFacts
<1>2. /\ Length \in Nat /\ Length > 0 /\ Length % req.block = 0
      /\ Count \in Nat /\ Count >= 1 /\ Length * Count <= Span
  <2>1. /\ Length \in Nat /\ Length >= Chunk /\ Length % Chunk = 0
        /\ Count \in Nat /\ Count >= 1 /\ Length * Count <= Span
      BY LengthFacts
  <2>2. Length % req.block = 0
      BY <1>1, <2>1, Length \in Int, ModTransitive, Zenon
  <2> QED
      BY <1>1, <2>1, <2>2
<1>3. Length <= Span
  <2>1. Length * 1 <= Length * Count
      BY <1>2
  <2> QED
      BY <1>1, <1>2, <2>1
<1>4. (Span - Length) \in Nat /\ (Span - Length) % req.block = 0
  <2>1. (Span - Length) % req.block = 0
      BY <1>1, <1>2, Span \in Int, Length \in Int, ModSum, Zenon
  <2> QED
      BY <1>1, <1>2, <1>3, <2>1
<1>5. Last = Span - Length
  <2>1. Rem(Span - Length, req.block) = 0
      BY <1>1, <1>4, RemIsMod
  <2> QED
      BY <1>4, <2>1 DEF Last, AlignDown
<1>6. CASE ~(Count > 1)
  <2>1. Count = 1 /\ 0 .. Count - 1 = {0}
      BY <1>2, <1>6
  <2>2. Offset(0) = 0
      BY <1>6 DEF Offset
  <2>3. 0 % req.block = 0
      BY <1>1, MultipleMod, req.block * 0 = 0
  <2> QED
      BY <1>2, <1>3, <2>1, <2>2, <2>3 DEF Starts
<1>7. CASE Count > 1
  <2> DEFINE n == Count - 1
             At(i) == (Last * i) \div n
  <2>1. n \in Nat /\ n > 0 /\ Last \in Nat /\ Steps = n
      BY <1>2, <1>4, <1>5, <1>7 DEF Steps
  <2>2. Length * n <= Last
    <3>1. Length * Count = Length * n + Length
        BY <1>2
    <3> QED
        BY <1>1, <1>2, <1>5, <2>1, <3>1
  <2>3. \A i \in 0 .. n : At(i) \in Nat /\ At(i) <= Last
      BY <2>1, QuotientNat
  <2>4. \A i \in 0 .. n : Starts[i] = AlignDown(At(i), req.block)
    <3> TAKE i \in 0 .. n
    <3>1. Last * i \in Nat /\ Last * i <= Span * Count
      <4>1. Last * i \in Nat /\ Last * i <= Last * Count
          BY <1>2, <2>1
      <4>2. Last * Count <= Span * Count
          BY <1>1, <1>2, <1>5, <2>1
      <4> QED
          BY <1>1, <1>2, <4>1, <4>2, <2>1
    <3>2. Last * i < Limit
      <4>1. Limit \in Nat /\ Span * Count \in Nat
          BY <1>1, <1>2, SizesAssumption
      <4> QED
          BY <3>1, <4>1 DEF NoOverflow
    <3>3. Wrap(Last * i) = Last * i
        BY <3>1, <3>2, WrapFacts
    <3>4. Quot(Wrap(Last * i), Steps) = At(i)
        BY <2>1, <3>1, <3>3 DEF Quot
    <3>5. Offset(i) = AlignDown(At(i), req.block)
        BY <1>7, <3>4 DEF Offset
    <3> QED
        BY <1>2, <3>5 DEF Starts
  <2>5. \A i \in 0 .. n : /\ Starts[i] \in Nat /\ Starts[i] % req.block = 0
                          /\ Starts[i] + Length <= Span
    <3> TAKE i \in 0 .. n
    <3>1. At(i) \in Nat /\ At(i) <= Last /\ Starts[i] = AlignDown(At(i), req.block)
        BY <2>3, <2>4
    <3> HIDE DEF At, n
    <3>2. /\ Starts[i] \in Nat /\ Starts[i] % req.block = 0 /\ Starts[i] <= At(i)
        BY <1>1, <3>1, AlignDownFacts
    <3> QED
        BY <1>1, <1>2, <1>5, <2>1, <3>1, <3>2
  <2>6. ASSUME NEW i \in 0 .. n, i + 1 < Count
        PROVE  Starts[i] + Length <= Starts[i + 1]
    <3>1. i \in Nat /\ i < n /\ i + 1 \in 0 .. n
        BY <1>2, <2>6
    <3>2. At(i) + Length <= At(i + 1) /\ At(i) \in Nat /\ At(i + 1) \in Nat
        BY <1>2, <2>1, <2>2, <3>1, Spacing
    <3> HIDE DEF At, n
    <3>3. Starts[i] = AlignDown(At(i), req.block) /\ Starts[i + 1] = AlignDown(At(i + 1), req.block)
        BY <2>4, <3>1
    <3> QED
        BY <1>1, <1>2, <3>2, <3>3, AlignDownApart
  <2>7. Starts[0] = 0
    <3>1. At(0) = 0
        BY <2>1
    <3>2. 0 <= n /\ Starts[0] = AlignDown(At(0), req.block)
        BY <2>1, <2>4, 0 \in 0 .. n
    <3>3. AlignDown(0, req.block) \in Nat /\ AlignDown(0, req.block) <= 0
        BY <1>1, AlignDownFacts
    <3> QED
        BY <3>1, <3>2, <3>3
  <2>8. Starts[n] + Length = Span
    <3>1. At(n) = Last
        BY <2>1, DivOf
    <3>2. Starts[n] = AlignDown(Last, req.block)
        BY <2>1, <2>4, <3>1, n \in 0 .. n
    <3>3. AlignDown(Last, req.block) = Last
        BY <1>1, <1>4, <1>5, RemIsMod DEF AlignDown
    <3> QED
        BY <1>1, <1>2, <1>5, <3>2, <3>3
  <2> QED
      BY <2>5, <2>6, <2>7, <2>8
<1> QED
    BY <1>2, <1>6, <1>7

-----------------------------------------------------------------------------
(***************************************************************************)
(* The inductive invariant.                                                *)
(***************************************************************************)
Zone == [bytes : Nat, ns : Nat, err : BOOLEAN]

Begun == pc \in {"reopen", "read", "zone", "sum", "done"} \/ results # <<>>

\* Zones are read of requests that are not refused.
PlanInv ==
    /\ pc = "open" => Parsed
    /\ Begun => Admitted
    /\ pc \in {"parse", "open"} => results = <<>> /\ errors = 0 /\ seen = {}

\* A zone is left at its end, or with an error before that.
ZoneInv ==
    /\ pc \in {"reopen", "read", "zone"} => Len(results) < Count
    /\ pc \in {"sum", "done"} => Len(results) = Count
    /\ pc \in {"read", "zone"} => zr.bytes % Chunk = 0
    /\ pc = "read" => ~zr.err /\ zr.bytes < Length
    /\ pc = "zone" => zr.bytes <= Length /\ (zr.err <=> zr.bytes < Length)

ResultsInv ==
    \A i \in 1 .. Len(results) :
        /\ results[i].bytes <= Length
        /\ results[i].err <=> results[i].bytes < Length
        /\ errors = 0 => ~results[i].err

\* What has been read is what the zones so far cover, and lies before the next.
SeenInv ==
    NoOverflow =>
        /\ pc = "reopen" => \A x \in seen : x < Starts[Len(results)]
        /\ pc \in {"read", "zone"} =>
              /\ \A x \in seen : x < Starts[Len(results)] + zr.bytes
              /\ Starts[Len(results)] .. Starts[Len(results)] + zr.bytes - 1 \subseteq seen
        /\ \A i \in 1 .. Len(results) :
              Starts[i - 1] .. Starts[i - 1] + results[i].bytes - 1 \subseteq seen

\* Of two zones of one length, the one that took m is no slower than the other,
\* which took n, by their rates: a zone that took no time has rate 0.
NoSlower(m, n) == n = 0 \/ (m # 0 /\ m <= n)

\* The zones named so far are the best of those looked at.
BestInv ==
    /\ pc \notin {"sum", "done"} => next = 1
    /\ pc = "done" => next = Len(results) + 1
    /\ slowest < next /\ fastest < next /\ (slowest = 0 <=> fastest = 0)
    /\ slowest # 0 => ~results[slowest].err /\ ~results[fastest].err
    /\ \A i \in 1 .. next - 1 :
          ~results[i].err => /\ slowest # 0
                             /\ NoSlower(results[i].ns, results[slowest].ns)
                             /\ NoSlower(results[fastest].ns, results[i].ns)

IInv == TypeOK /\ PlanInv /\ ZoneInv /\ ResultsInv /\ SeenInv /\ BestInv

-----------------------------------------------------------------------------
(***************************************************************************)
(* Every step keeps the invariant.                                         *)
(***************************************************************************)

\* What a survey that has begun knows of its plan.
LEMMA BegunFacts ==
    ASSUME IInv, Begun
    PROVE  /\ req \in Surveys /\ Admitted
           /\ Chunk \in Nat /\ Chunk > 0
           /\ Length \in Nat /\ Length >= Chunk /\ Length % Chunk = 0
           /\ Count \in Nat /\ Count >= 1
<1>1. req \in Surveys /\ Admitted
    BY DEF IInv, TypeOK, PlanInv
<1> QED
    BY <1>1, SpanFacts, LengthFacts

\* The results are a sequence of zones.
LEMMA ResultFacts ==
    ASSUME IInv
    PROVE  /\ results \in Seq(Zone) /\ Len(results) \in Nat
           /\ DOMAIN results = 1 .. Len(results)
           /\ \A i \in 1 .. Len(results) :
                 results[i] \in Zone /\ results[i].bytes \in Nat /\ results[i].ns \in Nat
<1>1. results \in Seq(Zone)
    BY DEF IInv, TypeOK, Zone
<1>2. \A i \in 1 .. Len(results) : results[i] \in Zone
    BY <1>1
<1>3. \A z \in Zone : z.bytes \in Nat /\ z.ns \in Nat
    BY DEF Zone
<1> QED
    BY <1>1, <1>2, <1>3

\* At first nothing has been read.
LEMMA InitInv == Init => IInv
<1> SUFFICES ASSUME Init PROVE IInv
    OBVIOUS
<1>1. Len(results) = 0 /\ results = <<>> /\ results \in Seq(Zone)
    BY DEF Init
<1>2. NoZone \in Zone
    BY DEF NoZone, Zone
<1>3. TypeOK
    BY <1>1, <1>2 DEF Init, TypeOK, Zone
<1>4. PlanInv /\ ZoneInv
    BY <1>1 DEF Init, PlanInv, Begun, ZoneInv
<1>5. ResultsInv /\ SeenInv
    BY <1>1 DEF Init, ResultsInv, SeenInv
<1>6. BestInv
    BY <1>1 DEF Init, BestInv
<1> QED
    BY <1>3, <1>4, <1>5, <1>6 DEF IInv

\* The steps that only move on.
LEMMA MoveStep ==
    ASSUME IInv, ParseSizes \/ RejectSizes \/ OpenDevice \/ OpenFails \/ Report
    PROVE  IInv'
<1>1. UNCHANGED <<req, zr, results, errors, slowest, fastest, next, seen>>
    BY DEF ParseSizes, RejectSizes, OpenDevice, OpenFails, Report, Goto
<1>2. /\ (Parsed' <=> Parsed) /\ (Admitted' <=> Admitted) /\ (NoOverflow' <=> NoOverflow)
      /\ Chunk' = Chunk /\ Length' = Length /\ Count' = Count /\ Starts' = Starts
    BY <1>1, Frame
<1>3. \/ pc = "parse" /\ pc' \in {"panic", "rejected"}
      \/ pc = "parse" /\ pc' = "open" /\ Parsed
      \/ pc = "open" /\ pc' = "rejected"
      \/ pc = "open" /\ pc' = "reopen" /\ Buffer >= 0 /\ CanBuild
      \/ pc \in {"open", "reopen"} /\ pc' = "aborted"
      \/ pc = "sum" /\ pc' = "done" /\ next > Len(results)
    BY DEF ParseSizes, RejectSizes, OpenDevice, OpenFails, Report, Goto, Parsed
<1>4. TypeOK'
    BY <1>1, <1>2, <1>3 DEF IInv, TypeOK
<1>5. PlanInv'
    BY <1>1, <1>2, <1>3 DEF IInv, PlanInv, Begun, Admitted
<1>6. ASSUME pc' = "reopen" PROVE Len(results) = 0 /\ seen = {} /\ Count \in Nat /\ Count >= 1
  <2>1. req \in Surveys /\ Admitted /\ results = <<>> /\ seen = {}
      BY <1>3, <1>6 DEF IInv, TypeOK, PlanInv, Admitted
  <2> QED
      BY <2>1, LengthFacts
<1>7. ZoneInv'
    BY <1>1, <1>2, <1>3, <1>6 DEF IInv, ZoneInv
<1>8. ResultsInv'
    BY <1>1, <1>2 DEF IInv, ResultsInv
<1>9. SeenInv'
    BY <1>1, <1>2, <1>3, <1>6 DEF IInv, SeenInv
<1>10. BestInv'
  <2>1. pc' = "done" => next = Len(results) + 1
      BY <1>3 DEF IInv, TypeOK
  <2> QED
      BY <1>1, <1>3, <2>1 DEF IInv, BestInv
<1> QED
    BY <1>4, <1>5, <1>7, <1>8, <1>9, <1>10 DEF IInv

\* A zone is begun.
LEMMA ReopenStep == ASSUME IInv, Reopen PROVE IInv'
<1>1. /\ UNCHANGED <<req, results, errors, slowest, fastest, next, seen>>
      /\ pc = "reopen" /\ pc' = "read" /\ zr' = NoZone
    BY DEF Reopen
<1>2. /\ (Parsed' <=> Parsed) /\ (Admitted' <=> Admitted) /\ (NoOverflow' <=> NoOverflow)
      /\ Chunk' = Chunk /\ Length' = Length /\ Count' = Count /\ Starts' = Starts
    BY <1>1, Frame
<1>3. /\ req \in Surveys /\ Admitted /\ Chunk \in Nat /\ Chunk > 0
      /\ Length \in Nat /\ Length >= Chunk /\ Count \in Nat
    BY <1>1, BegunFacts DEF Begun
<1>4. zr'.bytes = 0 /\ ~zr'.err /\ zr' \in [bytes : Nat, ns : Nat, err : BOOLEAN]
    BY <1>1 DEF NoZone
<1>5. TypeOK'
    BY <1>1, <1>2, <1>3, <1>4 DEF IInv, TypeOK
<1>6. PlanInv'
    BY <1>1, <1>2, <1>3 DEF IInv, PlanInv
<1>7. ZoneInv'
  <2>1. 0 % Chunk = 0
      BY <1>3, MultipleMod, Chunk * 0 = 0
  <2> QED
      BY <1>1, <1>2, <1>3, <1>4, <2>1 DEF IInv, ZoneInv
<1>8. ResultsInv'
    BY <1>1, <1>2 DEF IInv, ResultsInv
<1>9. SeenInv'
  <2>1. SUFFICES ASSUME NoOverflow PROVE SeenInv'
      BY <1>2 DEF SeenInv
  <2>2. Starts[Len(results)] \in Nat
      BY <1>1, <1>3, <2>1, StartsFacts DEF IInv, TypeOK, ZoneInv
  <2> QED
      BY <1>1, <1>2, <1>4, <2>1, <2>2 DEF IInv, SeenInv
<1>10. BestInv'
    BY <1>1 DEF IInv, BestInv
<1> QED
    BY <1>5, <1>6, <1>7, <1>8, <1>9, <1>10 DEF IInv

\* A transfer: the zone grows by it, and so does what has been read.
LEMMA ReadStep == ASSUME IInv, Read PROVE IInv'
<1>1. /\ UNCHANGED <<req, results, errors, slowest, fastest, next>>
      /\ pc = "read" /\ seen' = seen \cup Region /\ Region \subseteq 0 .. req.end - 1
      /\ pc' = IF zr.bytes + Chunk < Length THEN "read" ELSE "zone"
    BY DEF Read, More
<1>2. /\ (Parsed' <=> Parsed) /\ (Admitted' <=> Admitted) /\ (NoOverflow' <=> NoOverflow)
      /\ Chunk' = Chunk /\ Length' = Length /\ Count' = Count /\ Starts' = Starts
    BY <1>1, Frame
<1>3. /\ req \in Surveys /\ Admitted /\ Chunk \in Nat /\ Chunk > 0
      /\ Length \in Nat /\ Length % Chunk = 0 /\ Count \in Nat
    BY <1>1, BegunFacts DEF Begun
<1>4. /\ zr \in [bytes : Nat, ns : Nat, err : BOOLEAN] /\ ~zr.err
      /\ zr.bytes < Length /\ zr.bytes % Chunk = 0 /\ Len(results) \in Nat
      /\ Len(results) < Count
    BY <1>1 DEF IInv, TypeOK, ZoneInv
<1>5. /\ zr'.bytes = zr.bytes + Chunk /\ ~zr'.err
      /\ zr' \in [bytes : Nat, ns : Nat, err : BOOLEAN]
  <2>1. PICK t \in Times : zr' = [zr EXCEPT !.bytes = @ + Chunk, !.ns = @ + t]
      BY DEF Read
  <2>2. zr.bytes + Chunk \in Nat /\ zr.ns + t \in Nat /\ zr.err \in BOOLEAN
      BY <1>3, <1>4, SpeedAssumption
  <2>3. zr' = [bytes |-> zr.bytes + Chunk, ns |-> zr.ns + t, err |-> zr.err]
      BY <1>4, <2>1
  <2> QED
      BY <1>4, <2>2, <2>3, Zenon
<1>6. zr.bytes + Chunk <= Length
    BY <1>3, <1>4, zr.bytes \in Int, Length \in Int, ModGap, Zenon
<1>7. (zr.bytes + Chunk) % Chunk = 0
  <2>1. Chunk % Chunk = 0
      BY <1>3, MultipleMod, Chunk * 1 = Chunk
  <2> QED
      BY <1>3, <1>4, <2>1, zr.bytes \in Int, Chunk \in Int, ModSum, Zenon
<1>8. TypeOK'
    BY <1>1, <1>2, <1>3, <1>5, <1>6 DEF IInv, TypeOK
<1>9. PlanInv'
    BY <1>1, <1>2, <1>3 DEF IInv, PlanInv
<1>10. ZoneInv'
    BY <1>1, <1>2, <1>3, <1>4, <1>5, <1>6, <1>7 DEF IInv, ZoneInv
<1>11. ResultsInv'
    BY <1>1, <1>2 DEF IInv, ResultsInv
<1>12. SeenInv'
  <2>1. SUFFICES ASSUME NoOverflow PROVE SeenInv'
      BY <1>2 DEF SeenInv
  <2> DEFINE at == Starts[Len(results)]
  <2>2. at \in Nat
      BY <1>3, <1>4, <2>1, StartsFacts
  <2>3. Region = at + zr.bytes .. at + zr.bytes + Chunk - 1
    <3>1. Offset(Len(results)) = at
        BY <1>3, <1>4 DEF Starts
    <3> QED
        BY <3>1 DEF Region, Here
  <2>4. /\ \A x \in seen : x < at + zr.bytes
        /\ at .. at + zr.bytes - 1 \subseteq seen
        /\ \A i \in 1 .. Len(results) :
              Starts[i - 1] .. Starts[i - 1] + results[i].bytes - 1 \subseteq seen
      BY <1>1, <2>1 DEF IInv, SeenInv
  <2>5. \A x \in seen : x \in Int
      BY DEF IInv, TypeOK
  <2> HIDE DEF at
  <2>6. \A x \in seen' : x < at + zr'.bytes
      BY <1>1, <1>3, <1>4, <1>5, <2>2, <2>3, <2>4, <2>5
  <2>7. at .. at + zr'.bytes - 1 \subseteq seen'
    <3>1. zr'.bytes = zr.bytes + Chunk /\ zr.bytes \in Nat /\ Chunk \in Nat
        BY <1>3, <1>4, <1>5
    <3>2. at .. at + zr'.bytes - 1 \subseteq (at .. at + zr.bytes - 1) \cup Region
        BY <2>2, <2>3, <3>1
    <3>3. seen' = seen \cup Region
        BY <1>1
    <3> QED
        BY <2>4, <3>2, <3>3, Zenon
  <2> QED
      BY <1>1, <1>2, <2>4, <2>6, <2>7 DEF SeenInv, at
<1>13. BestInv'
    BY <1>1 DEF IInv, BestInv
<1> QED
    BY <1>8, <1>9, <1>10, <1>11, <1>12, <1>13 DEF IInv

\* A transfer fails, before the zone has its length.
LEMMA ReadFailsStep == ASSUME IInv, ReadFails PROVE IInv'
<1>1. /\ UNCHANGED <<req, results, errors, slowest, fastest, next, seen>>
      /\ pc = "read" /\ pc' = "zone" /\ zr' = [zr EXCEPT !.err = TRUE]
    BY DEF ReadFails
<1>2. /\ (Parsed' <=> Parsed) /\ (Admitted' <=> Admitted) /\ (NoOverflow' <=> NoOverflow)
      /\ Chunk' = Chunk /\ Length' = Length /\ Count' = Count /\ Starts' = Starts
    BY <1>1, Frame
<1>3. Length \in Nat /\ zr \in [bytes : Nat, ns : Nat, err : BOOLEAN] /\ zr.bytes < Length
    BY <1>1, BegunFacts DEF Begun, IInv, TypeOK, ZoneInv
<1>4. zr'.bytes = zr.bytes /\ zr'.err /\ zr' \in [bytes : Nat, ns : Nat, err : BOOLEAN]
    BY <1>1, <1>3
<1>5. TypeOK'
    BY <1>1, <1>2, <1>3, <1>4 DEF IInv, TypeOK
<1>6. PlanInv' /\ ResultsInv' /\ BestInv'
    BY <1>1, <1>2 DEF IInv, PlanInv, Begun, ResultsInv, BestInv
<1>7. ZoneInv'
    BY <1>1, <1>2, <1>3, <1>4 DEF IInv, ZoneInv
<1>8. SeenInv'
    BY <1>1, <1>2, <1>4 DEF IInv, SeenInv
<1> QED
    BY <1>5, <1>6, <1>7, <1>8 DEF IInv

\* A zone is over: it joins the results.
LEMMA EndZoneStep == ASSUME IInv, EndZone PROVE IInv'
<1>1. /\ UNCHANGED <<req, zr, slowest, fastest, next, seen>>
      /\ pc = "zone" /\ results' = Append(results, zr)
      /\ errors' = IF zr.err THEN errors + 1 ELSE errors
      /\ pc' = IF Len(results) + 1 < Count THEN "reopen" ELSE "sum"
    BY DEF EndZone, CountErrors
<1>2. /\ (Parsed' <=> Parsed) /\ (Admitted' <=> Admitted) /\ (NoOverflow' <=> NoOverflow)
      /\ Chunk' = Chunk /\ Length' = Length /\ Count' = Count /\ Starts' = Starts
    BY <1>1, Frame
<1>3. /\ req \in Surveys /\ Admitted /\ Length \in Nat /\ Count \in Nat
    BY <1>1, BegunFacts DEF Begun
<1> DEFINE n == Len(results)
<1>4. /\ results \in Seq(Zone) /\ zr \in Zone /\ n \in Nat /\ n < Count
      /\ errors \in 0 .. n /\ zr.bytes <= Length /\ (zr.err <=> zr.bytes < Length)
  <2>1. results \in Seq(Zone) /\ zr \in Zone /\ errors \in 0 .. n
      BY DEF IInv, TypeOK, Zone
  <2>2. n < Count /\ zr.bytes <= Length /\ (zr.err <=> zr.bytes < Length)
      BY <1>1 DEF IInv, ZoneInv
  <2> QED
      BY <2>1, <2>2
<1>5. /\ results' \in Seq(Zone) /\ Len(results') = n + 1 /\ results' # <<>>
      /\ \A i \in 1 .. n : results'[i] = results[i]
      /\ results'[n + 1] = zr
    BY <1>1, <1>4
<1>6. errors' \in 0 .. n + 1 /\ (errors' = 0 => errors = 0 /\ ~zr.err)
  <2>1. CASE zr.err
      BY <1>1, <1>4, <2>1
  <2>2. CASE ~zr.err
      BY <1>1, <1>4, <2>2
  <2> QED
      BY <2>1, <2>2
<1>7. TypeOK'
  <2>1. /\ req \in Surveys /\ seen \subseteq 0 .. req.end - 1 /\ next \in 1 .. n + 1
        /\ slowest \in 0 .. n /\ fastest \in 0 .. n
      BY DEF IInv, TypeOK
  <2>2. pc' \in {"reopen", "sum"}
      BY <1>1
  <2> HIDE DEF n
  <2>3. next' \in 1 .. n + 2 /\ slowest' \in 0 .. n + 1 /\ fastest' \in 0 .. n + 1
      BY <1>1, <1>4, <2>1
  <2> QED
      BY <1>1, <1>4, <1>5, <1>6, <2>1, <2>2, <2>3 DEF TypeOK, Zone
<1>8. PlanInv'
    BY <1>1, <1>2, <1>3 DEF IInv, PlanInv
<1> HIDE DEF n
<1>9. ZoneInv'
    BY <1>1, <1>2, <1>3, <1>4, <1>5 DEF ZoneInv
<1>10. ResultsInv'
  <2> SUFFICES ASSUME NEW i \in 1 .. n + 1
               PROVE  /\ results'[i].bytes <= Length
                      /\ results'[i].err <=> results'[i].bytes < Length
                      /\ errors' = 0 => ~results'[i].err
      BY <1>2, <1>5 DEF ResultsInv
  <2>1. CASE i = n + 1
      BY <1>4, <1>5, <1>6, <2>1
  <2>2. CASE i # n + 1
    <3>1. i \in 1 .. n /\ results'[i] = results[i]
        BY <1>4, <1>5, <2>2
    <3> QED
        BY <1>6, <3>1 DEF IInv, ResultsInv, n
  <2> QED
      BY <2>1, <2>2
<1>11. SeenInv'
  <2>1. SUFFICES ASSUME NoOverflow PROVE SeenInv'
      BY <1>2 DEF SeenInv
  <2>2. /\ \A x \in seen : x < Starts[n] + zr.bytes
        /\ Starts[n] .. Starts[n] + zr.bytes - 1 \subseteq seen
        /\ \A i \in 1 .. n :
              Starts[i - 1] .. Starts[i - 1] + results[i].bytes - 1 \subseteq seen
      BY <1>1, <2>1 DEF IInv, SeenInv, n
  <2>3. ASSUME pc' = "reopen" PROVE \A x \in seen' : x < Starts[n + 1]
    <3>1. n \in 0 .. Count - 1 /\ n + 1 \in 0 .. Count - 1 /\ n + 1 < Count
        BY <1>1, <1>3, <1>4, <2>3 DEF n
    <3>2. Starts[n] \in Nat /\ Starts[n + 1] \in Nat /\ Starts[n] + Length <= Starts[n + 1]
        BY <1>3, <2>1, <3>1, StartsFacts, Zenon
    <3>3. \A x \in seen : x \in Int
        BY DEF IInv, TypeOK
    <3>4. zr.bytes \in Nat
        BY <1>4 DEF Zone
    <3> QED
        BY <1>1, <1>3, <1>4, <2>2, <3>2, <3>3, <3>4
  <2>4. ASSUME NEW i \in 1 .. n + 1
        PROVE  Starts[i - 1] .. Starts[i - 1] + results'[i].bytes - 1 \subseteq seen'
    <3>1. CASE i = n + 1
      <4>1. i - 1 = n /\ results'[i] = zr
          BY <1>4, <1>5, <3>1
      <4> QED
          BY <1>1, <2>2, <4>1
    <3>2. CASE i # n + 1
      <4>1. i \in 1 .. n /\ results'[i] = results[i]
          BY <1>4, <1>5, <3>2
      <4> QED
          BY <1>1, <2>2, <4>1
    <3> QED
        BY <3>1, <3>2
  <2>5. pc' \in {"reopen", "sum"}
      BY <1>1
  <2> QED
      BY <1>2, <1>5, <2>3, <2>4, <2>5 DEF SeenInv
<1>12. BestInv'
  <2>1. next = 1 /\ slowest = 0 /\ fastest = 0 /\ pc' \in {"reopen", "sum"}
      BY <1>1 DEF IInv, BestInv, TypeOK
  <2> QED
      BY <1>1, <2>1 DEF BestInv
<1> QED
    BY <1>7, <1>8, <1>9, <1>10, <1>11, <1>12 DEF IInv

\* Being no slower is transitive.
LEMMA NoSlowerChain ==
    ASSUME NEW a \in Nat, NEW b \in Nat, NEW c \in Nat, NoSlower(a, b), NoSlower(b, c)
    PROVE  NoSlower(a, c)
    BY DEF NoSlower

\* Among zones of one length the slower is the one that took longer, or no
\* time at all.
LEMMA SlowerFacts ==
    ASSUME NEW y \in Zone, NEW z \in Zone, y.bytes = z.bytes, y.bytes > 0
    PROVE  Slower(y, z) <=> ~NoSlower(y.ns, z.ns)
<1> DEFINE b == y.bytes
           m == y.ns
           n == z.ns
<1>1. b \in Nat /\ b > 0 /\ m \in Nat /\ n \in Nat
    BY DEF Zone
<1>2. Slower(y, z) <=> n > 0 /\ (m = 0 \/ b * n < b * m)
    BY DEF Slower
<1> HIDE DEF b, m, n
<1>3. n < m => b * n < b * m
    BY <1>1
<1>4. m <= n => b * m <= b * n
    BY <1>1
<1>5. b * n \in Int /\ b * m \in Int
    BY <1>1
<1>6. b * n < b * m => n < m
    BY <1>1, <1>4, <1>5
<1> QED
    BY <1>1, <1>2, <1>3, <1>6 DEF b, m, n, NoSlower

\* One more zone is looked at.
LEMMA SummarizeStep == ASSUME IInv, Summarize PROVE IInv'
<1> DEFINE z == results[next]
           slower == slowest = 0 \/ Slower(z, results[slowest])
           faster == fastest = 0 \/ Slower(results[fastest], z)
<1>1. /\ UNCHANGED <<req, pc, zr, results, errors, seen>>
      /\ pc = "sum" /\ next <= Len(results) /\ next' = next + 1
      /\ slowest' = IF Ok(z) /\ slower THEN next ELSE slowest
      /\ fastest' = IF Ok(z) /\ faster THEN next ELSE fastest
    BY DEF Summarize
<1>2. /\ (Parsed' <=> Parsed) /\ (Admitted' <=> Admitted) /\ (NoOverflow' <=> NoOverflow)
      /\ Chunk' = Chunk /\ Length' = Length /\ Count' = Count /\ Starts' = Starts
    BY <1>1, Frame
<1>3. Length \in Nat /\ Length > 0
    BY <1>1, BegunFacts DEF Begun
<1>4. /\ results \in Seq(Zone) /\ Len(results) \in Nat /\ next \in 1 .. Len(results)
      /\ slowest \in 0 .. Len(results) /\ fastest \in 0 .. Len(results)
      /\ slowest < next /\ fastest < next /\ (slowest = 0 <=> fastest = 0)
    BY <1>1 DEF IInv, TypeOK, Zone, BestInv
<1>5. \A i \in 1 .. Len(results) :
        results[i] \in Zone /\ (~results[i].err => results[i].bytes = Length)
  <2> TAKE i \in 1 .. Len(results)
  <2>1. results[i] \in Zone
      BY <1>4
  <2>2. results[i].bytes <= Length /\ (results[i].err <=> results[i].bytes < Length)
      BY DEF IInv, ResultsInv
  <2> QED
      BY <1>3, <2>1, <2>2 DEF Zone
<1>6. TypeOK'
    BY <1>1, <1>4 DEF IInv, TypeOK
<1>7. PlanInv' /\ ZoneInv' /\ ResultsInv'
    BY <1>1, <1>2 DEF IInv, PlanInv, Begun, ZoneInv, ResultsInv
<1>8. SeenInv'
    BY <1>1, <1>2 DEF IInv, SeenInv
<1>9. BestInv'
  <2>1. /\ slowest # 0 => ~results[slowest].err /\ ~results[fastest].err
        /\ \A i \in 1 .. next - 1 :
              ~results[i].err => /\ slowest # 0
                                 /\ NoSlower(results[i].ns, results[slowest].ns)
                                 /\ NoSlower(results[fastest].ns, results[i].ns)
      BY DEF IInv, BestInv
  <2>2. Ok(z) <=> ~z.err
      BY <1>3, <1>4, <1>5 DEF Ok
  <2>3. CASE z.err
    <3>1. slowest' = slowest /\ fastest' = fastest
        BY <1>1, <2>2, <2>3
    <3>2. \A i \in 1 .. next' - 1 : i \in 1 .. next - 1 \/ i = next
        BY <1>1, <1>4
    <3> QED
        BY <1>1, <1>4, <2>1, <2>3, <3>1, <3>2 DEF BestInv
  <2>4. CASE ~z.err
    <3>1. z \in Zone /\ z.bytes = Length /\ z.ns \in Nat
        BY <1>4, <1>5, <2>4 DEF Zone
    <3>2. slowest # 0 =>
            /\ results[slowest] \in Zone /\ results[fastest] \in Zone
            /\ results[slowest].bytes = Length /\ results[fastest].bytes = Length
        BY <1>4, <1>5, <2>1
    <3>3. slowest # 0 =>
            /\ Slower(z, results[slowest]) <=> ~NoSlower(z.ns, results[slowest].ns)
            /\ Slower(results[fastest], z) <=> ~NoSlower(results[fastest].ns, z.ns)
        BY <1>3, <3>1, <3>2, SlowerFacts
    <3>4. /\ slowest' = IF slowest = 0 \/ ~NoSlower(z.ns, results[slowest].ns) THEN next ELSE slowest
          /\ fastest' = IF slowest = 0 \/ ~NoSlower(results[fastest].ns, z.ns) THEN next ELSE fastest
        BY <1>1, <1>4, <2>2, <2>4, <3>3
    <3>5. slowest # 0 => results[slowest].ns \in Nat /\ results[fastest].ns \in Nat
        BY <3>2 DEF Zone
    <3>6. /\ slowest' \in 1 .. next /\ fastest' \in 1 .. next
          /\ ~results[slowest'].err /\ ~results[fastest'].err
          /\ NoSlower(z.ns, results[slowest'].ns) /\ NoSlower(results[fastest'].ns, z.ns)
          /\ slowest # 0 => /\ NoSlower(results[slowest].ns, results[slowest'].ns)
                            /\ NoSlower(results[fastest'].ns, results[fastest].ns)
          /\ results[slowest'].ns \in Nat /\ results[fastest'].ns \in Nat
        BY <1>4, <2>1, <2>4, <3>1, <3>4, <3>5 DEF NoSlower
    <3>7. ASSUME NEW i \in 1 .. next, ~results[i].err
          PROVE  /\ NoSlower(results[i].ns, results[slowest'].ns)
                 /\ NoSlower(results[fastest'].ns, results[i].ns)
      <4>1. CASE i = next
          BY <3>6, <4>1
      <4>2. CASE i # next
        <5>1. /\ slowest # 0 /\ NoSlower(results[i].ns, results[slowest].ns)
              /\ NoSlower(results[fastest].ns, results[i].ns)
            BY <1>4, <2>1, <3>7, <4>2
        <5>2. results[i].ns \in Nat
          <6>1. i \in 1 .. Len(results)
              BY <1>4
          <6>2. results[i] \in Zone
              BY <1>5, <6>1
          <6> QED
              BY <6>2 DEF Zone
        <5> QED
            BY <3>5, <3>6, <5>1, <5>2, NoSlowerChain
      <4> QED
          BY <4>1, <4>2
    <3>8. next' - 1 = next /\ slowest' # 0 /\ fastest' # 0 /\ slowest' < next' /\ fastest' < next'
        BY <1>1, <1>4, <3>6
    <3> HIDE DEF z
    <3> QED
        BY <1>1, <3>6, <3>7, <3>8 DEF BestInv
  <2> QED
      BY <2>3, <2>4
<1> QED
    BY <1>6, <1>7, <1>8, <1>9 DEF IInv

(***************************************************************************)
(* The invariant holds of every survey.                                    *)
(***************************************************************************)
THEOREM Inductive == Spec => []IInv
<1>1. ASSUME IInv, [Next]_vars PROVE IInv'
  <2>1. CASE ParseSizes \/ RejectSizes \/ OpenDevice \/ OpenFails \/ Report
      BY <1>1, <2>1, MoveStep
  <2>2. CASE Reopen
      BY <1>1, <2>2, ReopenStep
  <2>3. CASE Read
      BY <1>1, <2>3, ReadStep
  <2>4. CASE ReadFails
      BY <1>1, <2>4, ReadFailsStep
  <2>5. CASE EndZone
      BY <1>1, <2>5, EndZoneStep
  <2>6. CASE Summarize
      BY <1>1, <2>6, SummarizeStep
  <2>7. CASE UNCHANGED vars
    <3>1. UNCHANGED <<req, pc, zr, results, errors, slowest, fastest, next, seen>>
        BY <2>7 DEF vars
    <3>2. /\ (Parsed' <=> Parsed) /\ (Admitted' <=> Admitted) /\ (NoOverflow' <=> NoOverflow)
          /\ Chunk' = Chunk /\ Length' = Length /\ Count' = Count /\ Starts' = Starts
        BY <3>1, Frame
    <3>3. TypeOK'
        BY <1>1, <3>1, <3>2 DEF IInv, TypeOK
    <3>4. PlanInv' /\ ZoneInv' /\ ResultsInv'
        BY <1>1, <3>1, <3>2 DEF IInv, PlanInv, Begun, ZoneInv, ResultsInv
    <3>5. SeenInv' /\ BestInv'
        BY <1>1, <3>1, <3>2 DEF IInv, SeenInv, BestInv
    <3> QED
        BY <3>3, <3>4, <3>5 DEF IInv
  <2> QED
      BY <1>1, <2>1, <2>2, <2>3, <2>4, <2>5, <2>6, <2>7 DEF Next
<1> QED
    BY InitInv, <1>1, PTL DEF Spec

-----------------------------------------------------------------------------
(***************************************************************************)
(* Every variable keeps its type, and a zone its length.                   *)
(***************************************************************************)
THEOREM TypeCorrect == Spec => []TypeOK
<1>1. IInv => TypeOK
    BY DEF IInv
<1> QED
    BY Inductive, <1>1, PTL

(***************************************************************************)
(* "No two of them ever read the same blocks": whatever the sizes and the  *)
(* number of zones, the next transfer is at a block of the drive and reads *)
(* addresses that have not been read.                                      *)
(***************************************************************************)
THEOREM EveryReadIsFresh == Spec => []NothingReadTwice
<1>1. IInv => NothingReadTwice
  <2> SUFFICES ASSUME IInv, pc = "read", NoOverflow
               PROVE  /\ Region \cap seen = {} /\ Region \subseteq 0 .. req.end - 1
                      /\ Here % req.block = 0
      BY DEF NothingReadTwice
  <2> DEFINE n == Len(results)
             at == Starts[n]
  <2>1. /\ req \in Surveys /\ Admitted /\ Chunk \in Nat /\ Chunk > 0
        /\ Length \in Nat /\ Length % Chunk = 0 /\ Count \in Nat /\ Count >= 1
      BY BegunFacts DEF Begun
  <2>2. /\ req.block \in Nat /\ req.block > 0 /\ req.end \in Nat
        /\ Span \in Nat /\ Span <= req.end /\ Chunk % req.block = 0
      BY <2>1, SpanFacts, SpeedAssumption
  <2>3. n \in Nat /\ n < Count /\ n \in 0 .. Count - 1
      BY <2>1 DEF IInv, TypeOK, ZoneInv
  <2>4. at \in Nat /\ at % req.block = 0
      BY <2>1, <2>3, StartsFacts
  <2>5. at + Length <= Span
      BY <2>1, <2>3, StartsFacts
  <2>6. /\ zr.bytes \in Nat /\ zr.bytes < Length /\ zr.bytes % Chunk = 0
      BY DEF IInv, TypeOK, ZoneInv
  <2>7. zr.bytes + Chunk <= Length
      BY <2>1, <2>6, zr.bytes \in Int, Length \in Int, ModGap, Zenon
  <2>8. Here = at + zr.bytes
      BY <2>3 DEF Here, Starts
  <2>9. Here % req.block = 0
    <3>1. zr.bytes % req.block = 0
        BY <2>1, <2>2, <2>6, zr.bytes \in Int, ModTransitive, Zenon
    <3> HIDE DEF at
    <3> QED
        BY <2>2, <2>4, <2>6, <2>8, <3>1, at \in Int, zr.bytes \in Int, ModSum, Zenon
  <2>10. \A x \in seen : x \in Int /\ x < at + zr.bytes
      BY DEF IInv, TypeOK, SeenInv
  <2> HIDE DEF at
  <2>11. Region = at + zr.bytes .. at + zr.bytes + Chunk - 1
      BY <2>8 DEF Region
  <2>12. Region \subseteq 0 .. req.end - 1
      BY <2>1, <2>2, <2>4, <2>5, <2>6, <2>7, <2>11
  <2>13. Region \cap seen = {}
      BY <2>1, <2>4, <2>6, <2>10, <2>11
  <2> QED
      BY <2>9, <2>12, <2>13
<1> QED
    BY Inductive, <1>1, PTL

(***************************************************************************)
(* "The first zone starts at the beginning of the device and the last one  *)
(* finishes at the last addressable block", if no zone was given up.       *)
(***************************************************************************)
THEOREM WholeDriveIsSpanned == Spec => []SpansTheDrive
<1>1. IInv => SpansTheDrive
  <2> SUFFICES ASSUME IInv, pc = "done", errors = 0, NoOverflow
               PROVE  0 \in seen /\ (Count > 1 => Span - 1 \in seen)
      BY DEF SpansTheDrive
  <2>1. /\ req \in Surveys /\ Admitted /\ Chunk \in Nat /\ Chunk > 0
        /\ Length \in Nat /\ Length >= Chunk /\ Count \in Nat /\ Count >= 1
      BY BegunFacts DEF Begun
  <2>2. Len(results) = Count /\ \A i \in 1 .. Count : results[i].bytes \in Nat
    <3>1. Len(results) = Count
        BY DEF IInv, ZoneInv
    <3> QED
        BY <3>1, ResultFacts
  <2>3. \A i \in 1 .. Count : results[i].bytes = Length
    <3> TAKE i \in 1 .. Count
    <3>1. results[i].bytes <= Length /\ ~(results[i].bytes < Length)
        BY <2>2 DEF IInv, ResultsInv
    <3> QED
        BY <2>1, <2>2, <3>1
  <2>4. \A i \in 1 .. Count : Starts[i - 1] .. Starts[i - 1] + Length - 1 \subseteq seen
      BY <2>2, <2>3 DEF IInv, SeenInv
  <2>5. 0 \in seen
    <3>1. Starts[0] = 0
        BY <2>1, StartsFacts
    <3>2. 0 .. 0 + Length - 1 \subseteq seen
        BY <2>1, <2>4, <3>1, 1 \in 1 .. Count, 1 - 1 = 0
    <3> QED
        BY <2>1, <3>2
  <2>6. ASSUME Count > 1 PROVE Span - 1 \in seen
    <3>1. Starts[Count - 1] \in Nat /\ Starts[Count - 1] + Length = Span
        BY <2>1, <2>6, StartsFacts
    <3>2. Starts[Count - 1] .. Starts[Count - 1] + Length - 1 \subseteq seen
        BY <2>1, <2>4, Count \in 1 .. Count
    <3> QED
        BY <2>1, <3>1, <3>2
  <2> QED
      BY <2>5, <2>6
<1> QED
    BY Inductive, <1>1, PTL

(***************************************************************************)
(* No zone is longer than what was asked for in whole transfers, also when *)
(* the sizes overflow.                                                     *)
(***************************************************************************)
THEOREM ZonesAreNoLonger == Spec => []NoZoneIsLonger
<1>1. IInv => NoZoneIsLonger
  <2> SUFFICES ASSUME IInv, NEW i \in DOMAIN results
               PROVE  results[i].bytes < Meant(req.length) + Chunk
      BY DEF NoZoneIsLonger
  <2>1. i \in 1 .. Len(results) /\ results[i].bytes \in Nat
      BY ResultFacts
  <2>2. results # <<>>
      BY <2>1
  <2>3. /\ req \in Surveys /\ Admitted /\ Length \in Nat /\ Chunk \in Nat
        /\ Length < Meant(req.length) + Chunk
      BY <2>2, BegunFacts, LengthFacts DEF Begun
  <2>4. results[i].bytes <= Length
      BY <2>1 DEF IInv, ResultsInv
  <2>5. Meant(req.length) \in Nat
      BY <2>3, SizeFacts, SpeedAssumption DEF Admitted, Parsed
  <2> QED
      BY <2>1, <2>3, <2>4, <2>5
<1> QED
    BY Inductive, <1>1, PTL

(***************************************************************************)
(* Status 0 means that every zone of the plan was read to the end.         *)
(***************************************************************************)
THEOREM StatusIsTrue == Spec => []StatusIsEarned
<1>1. IInv => StatusIsEarned
  <2> SUFFICES ASSUME IInv, pc = "done", Passed
               PROVE  /\ Len(results) = Count
                      /\ \A i \in DOMAIN results : results[i].bytes = Length
      BY DEF StatusIsEarned
  <2>1. Len(results) = Count
      BY DEF IInv, ZoneInv
  <2>2. Length \in Nat
      BY BegunFacts DEF Begun
  <2>3. ASSUME NEW i \in DOMAIN results PROVE results[i].bytes = Length
    <3>1. i \in 1 .. Len(results) /\ results[i].bytes \in Nat
        BY ResultFacts
    <3>2. results[i].bytes <= Length /\ ~(results[i].bytes < Length)
        BY <3>1 DEF IInv, ResultsInv, Passed
    <3> QED
        BY <2>2, <3>1, <3>2
  <2> QED
      BY <2>1, <2>3
<1> QED
    BY Inductive, <1>1, PTL

(***************************************************************************)
(* The zones named as slowest and fastest are those, among the zones that  *)
(* were read to the end, and there are such if there is any.               *)
(***************************************************************************)
THEOREM HeadlinesAreTrue == Spec => []HeadlinesAreRight
<1>1. IInv => HeadlinesAreRight
  <2> SUFFICES ASSUME IInv, pc = "done" PROVE HeadlinesAreRight
      BY DEF HeadlinesAreRight
  <2> DEFINE good == { i \in DOMAIN results : results[i].bytes = Length /\ ~results[i].err }
  <2>1. /\ results \in Seq(Zone) /\ Len(results) \in Nat /\ next = Len(results) + 1
        /\ slowest \in 0 .. Len(results) /\ fastest \in 0 .. Len(results)
        /\ (slowest = 0 <=> fastest = 0)
      BY DEF IInv, TypeOK, BestInv, Zone
  <2>2. Length \in Nat /\ Length > 0
      BY BegunFacts DEF Begun
  <2>3. \A i \in 1 .. Len(results) : results[i] \in Zone
      BY <2>1
  <2>4. ASSUME NEW i \in 1 .. Len(results), ~results[i].err PROVE i \in good
    <3>1. results[i].bytes <= Length /\ ~(results[i].bytes < Length)
        BY <2>4 DEF IInv, ResultsInv
    <3>2. results[i].bytes = Length
        BY <2>2, <2>3, <3>1 DEF Zone
    <3> QED
        BY <2>1, <2>4, <3>2
  <2>5. \A i \in good : i \in 1 .. Len(results) /\ ~results[i].err /\ results[i].bytes = Length
      BY <2>1
  <2>6. /\ slowest # 0 => ~results[slowest].err /\ ~results[fastest].err
        /\ \A i \in 1 .. Len(results) :
              ~results[i].err => /\ slowest # 0
                                 /\ NoSlower(results[i].ns, results[slowest].ns)
                                 /\ NoSlower(results[fastest].ns, results[i].ns)
      BY <2>1 DEF IInv, BestInv
  <2> HIDE DEF good
  <2>7. CASE slowest = 0
    <3>1. good = {}
        BY <2>5, <2>6, <2>7
    <3> QED
        BY <2>1, <2>7, <3>1 DEF HeadlinesAreRight, good
  <2>8. CASE slowest # 0
    <3>1. /\ slowest \in 1 .. Len(results) /\ fastest \in 1 .. Len(results)
          /\ slowest \in good /\ fastest \in good
        BY <2>1, <2>4, <2>6, <2>8
    <3>2. ASSUME NEW i \in good
          PROVE  /\ ~Slower(results[i], results[slowest])
                 /\ ~Slower(results[fastest], results[i])
      <4>1. /\ results[i] \in Zone /\ results[slowest] \in Zone /\ results[fastest] \in Zone
            /\ results[i].bytes = Length /\ results[slowest].bytes = Length
            /\ results[fastest].bytes = Length
          BY <2>3, <2>5, <3>1
      <4>2. /\ Slower(results[i], results[slowest]) <=> ~NoSlower(results[i].ns, results[slowest].ns)
            /\ Slower(results[fastest], results[i]) <=> ~NoSlower(results[fastest].ns, results[i].ns)
          BY <2>2, <4>1, SlowerFacts
      <4>3. NoSlower(results[i].ns, results[slowest].ns) /\ NoSlower(results[fastest].ns, results[i].ns)
          BY <2>5, <2>6
      <4>4. /\ results[i].ns \in Nat /\ results[slowest].ns \in Nat
            /\ results[fastest].ns \in Nat
          BY <4>1 DEF Zone
      <4> QED
          BY <4>2, <4>3, <4>4
    <3> QED
        BY <3>1, <3>2 DEF HeadlinesAreRight, good
  <2> QED
      BY <2>7, <2>8
<1> QED
    BY Inductive, <1>1, PTL
=============================================================================
