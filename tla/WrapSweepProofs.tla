--------------------------- MODULE WrapSweepProofs ---------------------------
(***************************************************************************)
(* What holds of the search for a fold whatever the sizes are: an honest   *)
(* drive is never accused, and a drive that folds at a candidate that was  *)
(* kept is always caught unless a read fails.  Among those kept are the    *)
(* gigabytes, both kinds, whatever else the list held.                     *)
(***************************************************************************)
EXTENDS WrapSweep, Divisibility, FiniteSetTheorems

-----------------------------------------------------------------------------
(***************************************************************************)
(* The inductive invariant.                                                *)
(***************************************************************************)

\* A drive holds whole blocks, or all that it claims.
RealInv == real % BlockSize = 0 \/ real = claimed

\* Candidates are only left while they are tried.
LeftInv == left # {} => pc = "sweep"

\* A candidate at which the drive folds is not passed over before a fold is
\* found, and the fold found is no larger.
SweepInv ==
    (reached /\ faults = 0 /\ Folds /\ real \in Candidates) =>
        /\ pc = "sweep" => real \in left
        /\ pc = "done" => wrapModulus \in 1 .. real

IInv == TypeOK /\ RealInv /\ LeftInv /\ OnlyFoldsAreReported /\ SweepInv

-----------------------------------------------------------------------------
\* Every candidate is a size up to the claimed one.
LEMMA CandidateFacts ==
    ASSUME claimed \in Claims
    PROVE  Candidates \subseteq Mebi .. claimed
<1>1. claimed \in Nat /\ {Mebi, Gibi, Giga} \subseteq Nat
    BY SizesAssumption
<1>2. Powers \subseteq Mebi .. claimed
    BY DEF Powers
<1>3. Units \subseteq Nat
  <2>1. \A k \in 1 .. Multiples, unit \in {Mebi, Gibi, Giga} : k * unit \in Nat
      BY SizesAssumption, <1>1
  <2> QED
      BY <2>1 DEF Units
<1>4. Plausible \subseteq Mebi .. claimed
  <2> SUFFICES ASSUME NEW v \in Units, Mebi <= v, v <= claimed
               PROVE  v \in Mebi .. claimed
      BY <1>2 DEF Plausible
  <2>1. v \in Nat /\ Mebi \in Nat
      BY <1>1, <1>3
  <2> QED
      BY <1>1, <2>1
<1>5. Candidates \subseteq Plausible
    BY DEF Candidates, Keep
<1> QED
    BY <1>4, <1>5

\* The highest sample starts at a block below the claimed size.
LEMMA HighFacts ==
    ASSUME claimed \in Claims
    PROVE  /\ claimed \in Nat /\ High \in Nat /\ High < claimed
           /\ High % BlockSize = 0
<1> DEFINE v == claimed - SampleSize
<1>1. claimed \in Nat /\ SampleSize \in Nat /\ SampleSize > 0 /\ v \in Nat
    BY SizesAssumption
<1>2. v \in Int /\ v % SampleSize \in 0 .. SampleSize - 1
      /\ v = SampleSize * (v \div SampleSize) + (v % SampleSize)
      /\ v \div SampleSize \in Nat
    BY <1>1, DivMod, DivNat
<1> DEFINE q == v \div SampleSize
           r == v % SampleSize
<1>3. High = v - r
    BY DEF High
<1>4. High = SampleSize * q /\ q \in Nat
  <2> HIDE DEF v, q, r
  <2>1. v = SampleSize * q + r /\ q \in Nat /\ r \in Int
      BY <1>2 DEF q, r
  <2> QED
      BY <1>1, <1>2, <1>3, <2>1
<1>5. High % SampleSize = 0
    BY <1>1, <1>4, MultipleMod
<1>6. High \in Nat /\ High < claimed
  <2>1. r \in Nat /\ r <= v
      BY <1>1, <1>2, <1>4, <1>3
  <2> HIDE DEF r
  <2>2. v - r \in Nat /\ v - r < claimed
    <3>1. v < claimed
        BY <1>1
    <3> QED
        BY <1>1, <2>1, <3>1
  <2> QED
      BY <1>3, <2>2
<1>7. High % BlockSize = 0
    BY <1>1, <1>5, <1>6, ModTransitive, SizesAssumption, High \in Int
<1> QED
    BY <1>1, <1>6, <1>7

\* An address beyond the size a drive holds reaches another place.
LEMMA EchoFacts ==
    ASSUME claimed \in Claims, NEW m \in Nat, m > 0
    PROVE  /\ Echo(m) \in Nat /\ Echo(m) < m /\ Echo(m) <= High
<1>1. High \in Nat
    BY HighFacts
<1> QED
    BY <1>1, DivMod DEF Echo

\* What a drive that folds nothing returns at the echo is not the pattern.
LEMMA HonestIsPassed ==
    ASSUME claimed \in Claims, real \in 1 .. claimed, ~Folds,
           NEW m \in Nat, m > 0, Found(m)
    PROVE  ~WorthProbing(m)
<1>1. High \in Nat /\ real \in Nat /\ High < real
    BY HighFacts DEF Folds
<1>2. Echo(m) \in Nat /\ Echo(m) <= High
    BY EchoFacts
<1>3. High % real = High /\ Echo(m) % real = Echo(m)
    BY <1>1, <1>2
<1> QED
    BY <1>3 DEF Found, WorthProbing

\* A drive that folds at the candidate is recognised by it.
LEMMA FoldIsFound ==
    ASSUME claimed \in Claims, real \in 1 .. claimed, RealInv, Folds
    PROVE  WorthProbing(real) /\ Found(real)
<1>1. /\ High \in Nat /\ real \in Nat /\ real > 0 /\ real <= High /\ High < claimed
      /\ High % BlockSize = 0 /\ BlockSize \in Nat /\ BlockSize > 0
    BY HighFacts, SizesAssumption DEF Folds
<1>2. real % BlockSize = 0
    BY <1>1 DEF RealInv
<1>3. Echo(real) \in Nat /\ Echo(real) < real /\ Echo(real) = High % real
    BY <1>1, EchoFacts DEF Echo
<1>4. Echo(real) # High
    BY <1>1, <1>3
<1>5. Echo(real) % BlockSize = 0
  <2> DEFINE q == High \div real
  <2>1. q \in Int /\ High = real * q + Echo(real)
      BY <1>1, <1>3, DivMod
  <2> HIDE DEF q
  <2>2. real \in Int /\ q * real \in Int
      BY <1>1, <2>1
  <2>3. (q * real) % BlockSize = 0
      BY <1>1, <1>2, <2>1, <2>2, ModProduct, Zenon
  <2>4. (High - q * real) % BlockSize = 0
      BY <1>1, <2>2, <2>3, ModSum, High \in Int
  <2>5. Echo(real) = High - q * real
      BY <1>1, <1>3, <2>1
  <2> QED
      BY <2>4, <2>5
<1>6. Found(real)
  <2>1. Echo(real) % real = Echo(real)
      BY <1>1, <1>3
  <2> QED
      BY <1>3, <2>1 DEF Found
<1> QED
    BY <1>4, <1>5, <1>6 DEF WorthProbing

-----------------------------------------------------------------------------
(***************************************************************************)
(* Every step keeps the invariant.                                         *)
(***************************************************************************)

\* Nothing has been tried.
LEMMA InitInv == Init => IInv
<1> SUFFICES ASSUME Init PROVE IInv
    OBVIOUS
<1>1. claimed \in Nat /\ claimed > 0 /\ Mebi \in Nat /\ Mebi > 0 /\ MaxFaults \in Nat
    BY SizesAssumption DEF Init
<1>2. real \in 1 .. claimed /\ RealInv
    BY <1>1 DEF Init, RealInv
<1> QED
    BY <1>1, <1>2 DEF Init, IInv, TypeOK, LeftInv, OnlyFoldsAreReported, SweepInv

\* The types, unfolded.
LEMMA TypeFacts ==
    ASSUME TypeOK
    PROVE  /\ claimed \in Claims /\ claimed \in Nat /\ real \in Nat /\ real > 0
           /\ real <= claimed /\ Mebi \in Nat /\ Mebi > 0 /\ MaxFaults \in Nat
           /\ \A m \in left : m \in Nat /\ m > 0 /\ m <= claimed
           /\ faults \in Nat
    BY SizesAssumption DEF TypeOK

\* The candidates are set out, the size of the drive among them if it is one.
LEMMA StartStep == ASSUME IInv, StartSweep PROVE IInv'
<1>1. left' \subseteq Mebi .. claimed
    BY CandidateFacts DEF IInv, TypeOK, StartSweep
<1>2. UNCHANGED <<claimed, real, reached, wrapModulus, wrapEcho, faults>>
      /\ pc' = "sweep" /\ left' = Candidates
    BY DEF StartSweep
<1>3. TypeOK' /\ RealInv' /\ LeftInv'
    BY <1>1, <1>2 DEF IInv, TypeOK, RealInv, LeftInv
<1>4. Candidates' = Candidates /\ High' = High
    BY <1>2 DEF Candidates, Keep, Plausible, Powers, Units, High
<1>5. OnlyFoldsAreReported' /\ SweepInv'
    BY <1>2, <1>4 DEF IInv, OnlyFoldsAreReported, SweepInv, Folds
<1> QED
    BY <1>3, <1>5 DEF IInv

\* The candidate passed over is not the size of the drive, unless a read failed.
LEMMA PassStep ==
    ASSUME IInv, NEW m \in left, PassCandidate(m) \/ ReadFails(m)
    PROVE  IInv'
<1>1. /\ UNCHANGED <<claimed, real, reached, pc, wrapModulus, wrapEcho>>
      /\ left' = left \ {m} /\ pc = "sweep" /\ faults' \in 0 .. MaxFaults
    BY TypeFacts DEF IInv, TypeOK, PassCandidate, ReadFails, Trying
<1>2. TypeOK' /\ RealInv' /\ LeftInv'
    BY <1>1 DEF IInv, TypeOK, RealInv, LeftInv
<1>3. Candidates' = Candidates /\ High' = High
    BY <1>1 DEF Candidates, Keep, Plausible, Powers, Units, High
<1>4. OnlyFoldsAreReported'
    BY <1>1, <1>3 DEF IInv, OnlyFoldsAreReported, Folds
<1>5. SweepInv'
  <2> SUFFICES ASSUME reached, faults' = 0, Folds, real \in Candidates
               PROVE  real \in left'
      BY <1>1, <1>3 DEF SweepInv, Folds
  <2>1. faults = 0 /\ PassCandidate(m)
    <3>1. faults \in Nat
        BY TypeFacts DEF IInv
    <3>2. ReadFails(m) => faults' = faults + 1
        BY DEF ReadFails
    <3>3. faults + 1 # 0
        BY <3>1
    <3>4. PassCandidate(m)
        BY <3>2, <3>3
    <3>5. PassCandidate(m) => faults' = faults
        BY DEF PassCandidate
    <3> QED
        BY <3>4, <3>5
  <2>2. real \in left
      BY <1>1, <2>1 DEF IInv, SweepInv
  <2>3. m # real
      BY <2>1, FoldIsFound DEF IInv, TypeOK, PassCandidate
  <2> QED
      BY <1>1, <2>2, <2>3
<1> QED
    BY <1>2, <1>4, <1>5 DEF IInv

\* A fold found is one, and at no more than the drive holds if that was still to try.
LEMMA FindStep ==
    ASSUME IInv, NEW m \in left, FindEcho(m)
    PROVE  IInv'
<1>1. /\ UNCHANGED <<claimed, real, reached, faults>> /\ pc = "sweep" /\ pc' = "done"
      /\ left' = {} /\ wrapModulus' = m /\ wrapEcho' = Echo(m)
      /\ WorthProbing(m) /\ Found(m) /\ \A k \in left : m <= k
    BY DEF FindEcho, Trying, IsNext
<1>2. m \in Nat /\ m > 0 /\ m <= claimed
    BY TypeFacts DEF IInv
<1>3. Echo(m) \in 0 .. claimed - 1
    BY <1>2, EchoFacts, TypeFacts DEF IInv
<1>4. TypeOK' /\ RealInv' /\ LeftInv'
    BY <1>1, <1>2, <1>3 DEF IInv, TypeOK, RealInv, LeftInv
<1>5. Candidates' = Candidates /\ High' = High
    BY <1>1 DEF Candidates, Keep, Plausible, Powers, Units, High
<1>6. OnlyFoldsAreReported'
  <2>1. Folds
      BY <1>1, <1>2, HonestIsPassed DEF IInv, TypeOK
  <2> QED
      BY <1>1, <1>5, <2>1 DEF OnlyFoldsAreReported, Folds
<1>7. SweepInv'
  <2> SUFFICES ASSUME reached, faults = 0, Folds, real \in Candidates
               PROVE  m \in 1 .. real
      BY <1>1, <1>5 DEF SweepInv, Folds
  <2>1. m <= real
      BY <1>1 DEF IInv, SweepInv
  <2> QED
      BY <1>2, <2>1, TypeFacts DEF IInv
<1> QED
    BY <1>4, <1>6, <1>7 DEF IInv

\* The search ends with nothing found only when nothing was left to try.
LEMMA EndStep ==
    ASSUME IInv, NothingUpThere \/ Finish
    PROVE  IInv'
<1>1. /\ UNCHANGED <<claimed, real, reached, left, wrapModulus, wrapEcho, faults>>
      /\ pc' = "done" /\ (~reached \/ (pc = "sweep" /\ left = {}))
      /\ left = {}
    BY DEF IInv, LeftInv, NothingUpThere, Finish
<1>2. TypeOK' /\ RealInv' /\ LeftInv'
    BY <1>1 DEF IInv, TypeOK, RealInv, LeftInv
<1>3. Candidates' = Candidates /\ High' = High
    BY <1>1 DEF Candidates, Keep, Plausible, Powers, Units, High
<1>4. OnlyFoldsAreReported' /\ SweepInv'
    BY <1>1, <1>3 DEF IInv, OnlyFoldsAreReported, SweepInv, Folds
<1> QED
    BY <1>2, <1>4 DEF IInv

-----------------------------------------------------------------------------
(***************************************************************************)
(* The theorems.                                                           *)
(***************************************************************************)

\* The invariant holds of every search.
THEOREM Inductive == Spec => []IInv
<1>1. IInv /\ [Next]_vars => IInv'
  <2> SUFFICES ASSUME IInv, [Next]_vars PROVE IInv'
      OBVIOUS
  <2>1. CASE Next
      BY <2>1, StartStep, PassStep, FindStep, EndStep DEF Next
  <2>2. CASE UNCHANGED vars
    <3>1. Candidates' = Candidates /\ High' = High
        BY <2>2 DEF vars, Candidates, Keep, Plausible, Powers, Units, High
    <3> QED
        BY <2>2, <3>1 DEF vars, IInv, TypeOK, RealInv, LeftInv, OnlyFoldsAreReported, SweepInv,
           Folds
  <2> QED
      BY <2>1, <2>2
<1> QED
    BY <1>1, InitInv, PTL DEF Spec

\* Every variable has its type.
THEOREM TypeCorrect == Spec => []TypeOK
<1>1. IInv => TypeOK
    BY DEF IInv
<1> QED
    BY <1>1, Inductive, PTL

\* An honest drive is never said to fold.
THEOREM NoFalseAccusation == Spec => []OnlyFoldsAreReported
<1>1. IInv => OnlyFoldsAreReported
    BY DEF IInv
<1> QED
    BY <1>1, Inductive, PTL

\* A drive that folds at a candidate that was kept is caught.
THEOREM KeptFoldsAreCaught == Spec => []CandidateFoldsAreCaught
<1>1. IInv => CandidateFoldsAreCaught
    BY DEF IInv, SweepInv, CandidateFoldsAreCaught
<1> QED
    BY <1>1, Inductive, PTL

-----------------------------------------------------------------------------
(***************************************************************************)
(* Whole gigabytes survive the trimming of the list: there are no more     *)
(* than twice Multiples of them, and every other candidate is smaller.     *)
(***************************************************************************)

\* The constants, one by one.
LEMMA Sizes ==
    /\ Mebi \in Nat /\ Mebi > 0 /\ Gibi \in Nat /\ Gibi > 0 /\ Giga \in Nat /\ Giga > 0
    /\ Multiples \in Nat /\ Multiples > 0 /\ MaxCandidates \in Nat
    BY SizesAssumption

\* There is one gigabyte of a kind for each multiple at most.
LEMMA GigabytesAreFew ==
    IsFiniteSet(Gigabytes) /\ Cardinality(Gigabytes) <= 2 * Multiples
<1> DEFINE n == 2 * Multiples
           f == [k \in 1 .. n |-> IF k <= Multiples THEN k * Gibi ELSE (k - Multiples) * Giga]
<1>1. n \in Nat /\ 1 \in Int /\ n \in Int
    BY Sizes
<1>2. f \in Surjection(1 .. n, Gigabytes)
  <2>1. ASSUME NEW k \in 1 .. n PROVE f[k] \in Gigabytes
    <3>1. CASE k <= Multiples
        BY <3>1, Sizes DEF Gigabytes
    <3>2. CASE ~(k <= Multiples)
      <4>1. k - Multiples \in 1 .. Multiples
          BY <3>2, Sizes
      <4> QED
          BY <3>2, <4>1 DEF Gigabytes
    <3> QED
        BY <3>1, <3>2
  <2>2. ASSUME NEW v \in Gigabytes PROVE \E k \in 1 .. n : f[k] = v
    <3>1. PICK j \in 1 .. Multiples, unit \in {Gibi, Giga} : v = j * unit
        BY DEF Gigabytes
    <3>2. CASE unit = Gibi
      <4>1. j \in 1 .. n /\ f[j] = v
          BY <3>1, <3>2, Sizes
      <4> QED
          BY <4>1
    <3>3. CASE unit = Giga
      <4> DEFINE k == j + Multiples
      <4>1. k \in 1 .. n /\ ~(k <= Multiples) /\ k - Multiples = j
          BY Sizes
      <4> HIDE DEF k, n
      <4>2. f[k] = j * Giga
          BY <4>1
      <4> QED
          BY <3>1, <3>3, <4>1, <4>2
    <3> QED
        BY <3>2, <3>3
  <2> HIDE DEF n
  <2>3. f \in [1 .. n -> Gigabytes]
      BY <2>1
  <2> HIDE DEF f
  <2> QED
      BY <2>2, <2>3 DEF Surjection
<1> HIDE DEF f
<1>3. IsFiniteSet(1 .. n) /\ Cardinality(1 .. n) = n
  <2>1. n >= 1
      BY Sizes
  <2> HIDE DEF n
  <2> QED
      BY <1>1, <2>1, FS_Interval
<1> HIDE DEF n
<1>4. IsFiniteSet(Gigabytes) /\ Cardinality(Gigabytes) <= Cardinality(1 .. n)
    BY <1>2, <1>3, FS_Surjection
<1> QED
    BY <1>3, <1>4 DEF n

\* A power of two above half a GiB is a multiple of it that is listed too.
LEMMA PowersAreGigabytes ==
    ASSUME claimed \in Claims, claimed < 2 * Multiples * Gibi, NEW w \in Powers, Gibi < 2 * w
    PROVE  w \in Gigabytes
<1> DEFINE p == w \div Mebi
           g == Gibi \div Mebi
<1>1. claimed \in Nat /\ w \in Nat /\ w > 0 /\ w <= claimed /\ w % Mebi = 0 /\ IsPow2(p)
    BY Sizes, SizesAssumption DEF Powers
<1>2. p \in Nat /\ w = Mebi * p
    BY <1>1, Sizes, DivMod, DivNat
<1>3. g \in Nat /\ Gibi = Mebi * g /\ IsPow2(g)
    BY Sizes, UnitsAssumption, DivMod, DivNat
<1> HIDE DEF p, g
<1>4. PowerOfTwo(p) /\ PowerOfTwo(g) /\ PowerOfTwo(Multiples)
    BY <1>1, <1>3, UnitsAssumption, Zenon DEF IsPow2, PowerOfTwo
<1>5. g < 2 * p
  <2>1. SUFFICES ASSUME 2 * p <= g PROVE FALSE
      BY <1>2, <1>3
  <2>2. Mebi * (2 * p) <= Mebi * g
      BY <1>2, <1>3, <2>1, Sizes
  <2>3. Mebi * (2 * p) = 2 * w
      BY <1>2, Sizes
  <2> QED
      BY <1>1, <1>3, <2>2, <2>3, Sizes
<1>6. g <= p
  <2>1. p < g => 2 * p <= g
      BY <1>2, <1>3, <1>4, PowersApart
  <2> QED
      BY <1>2, <1>3, <1>5, <2>1
<1>7. PICK k \in Nat : PowerOfTwo(k) /\ p = g * k
    BY <1>2, <1>3, <1>4, <1>6, PowersDivide
<1>8. w = k * Gibi
  <2>1. Mebi * (g * k) = (Mebi * g) * k
      BY <1>3, Sizes
  <2> QED
      BY <1>2, <1>3, <1>7, <2>1, Sizes
<1>9. k < 2 * Multiples
  <2>1. SUFFICES ASSUME 2 * Multiples <= k PROVE FALSE
      BY Sizes
  <2>2. 2 * Multiples * Gibi <= k * Gibi
      BY <2>1, Sizes
  <2>3. 2 * Multiples * Gibi \in Int
      BY Sizes
  <2> QED
      BY <1>1, <1>8, <2>2, <2>3
<1>10. k \in 1 .. Multiples
  <2>1. Multiples < k => 2 * Multiples <= k
      BY <1>4, <1>7, Sizes, PowersApart
  <2> QED
      BY <1>7, <1>9, <2>1, Sizes DEF PowerOfTwo
<1> QED
    BY <1>8, <1>10 DEF Gigabytes

\* A gigabyte is at least as large as every multiple of a MiB that is listed.
LEMMA GigabyteFacts ==
    ASSUME NEW v \in Gigabytes
    PROVE  v \in Nat /\ Mebi <= v /\ Multiples * Mebi <= v /\ Gibi <= 2 * v
<1>1. PICK j \in 1 .. Multiples, unit \in {Gibi, Giga} : v = j * unit
    BY DEF Gigabytes
<1>2. /\ unit \in Nat /\ Multiples * Mebi <= unit /\ Gibi <= 2 * unit
      /\ Multiples * Mebi \in Nat
    BY Sizes, UnitsAssumption
<1>3. j * unit \in Nat /\ unit <= j * unit
    BY <1>2, Sizes
<1>4. Mebi <= Multiples * Mebi
    BY Sizes
<1> QED
    BY <1>1, <1>2, <1>3, <1>4, Sizes

\* Only gigabytes are listed above a gigabyte.
LEMMA LargerAreGigabytes ==
    ASSUME claimed \in Claims, claimed < 2 * Multiples * Gibi,
           NEW v \in Gigabytes, NEW w \in Plausible, w > v
    PROVE  w \in Gigabytes
<1>1. v \in Nat /\ Multiples * Mebi <= v /\ Gibi <= 2 * v
    BY GigabyteFacts
<1>2. CASE w \in Powers
  <2>1. w \in Int
      BY <1>2, Sizes, SizesAssumption DEF Powers
  <2>2. Gibi < 2 * w
      BY <1>1, <2>1, Sizes
  <2> QED
      BY <1>2, <2>2, PowersAreGigabytes
<1>3. CASE w \in Units
  <2>1. PICK j \in 1 .. Multiples, unit \in {Mebi, Gibi, Giga} : w = j * unit
      BY <1>3 DEF Units
  <2>2. CASE unit = Mebi
    <3>1. j * Mebi <= Multiples * Mebi
        BY Sizes
    <3>2. j * Mebi \in Int /\ Multiples * Mebi \in Int
        BY Sizes
    <3> QED
        BY <1>1, <2>1, <2>2, <3>1, <3>2
  <2> QED
      BY <2>1, <2>2 DEF Gigabytes
<1> QED
    BY <1>2, <1>3 DEF Plausible

\* A gigabyte up to the claimed size is kept.
LEMMA GigabyteIsKept ==
    ASSUME claimed \in Claims, claimed < 2 * Multiples * Gibi,
           NEW v \in Gigabytes, v <= claimed
    PROVE  v \in Candidates
<1> DEFINE Larger == { w \in Plausible : w > v }
           Others == Gigabytes \ {v}
<1>1. v \in Plausible
  <2>1. v \in Units
      BY DEF Gigabytes, Units
  <2> QED
      BY <2>1, GigabyteFacts DEF Plausible
<1>2. Larger \in SUBSET Others
    BY LargerAreGigabytes, GigabyteFacts
<1>3. IsFiniteSet(Others) /\ Cardinality(Others) = Cardinality(Gigabytes) - 1
    BY GigabytesAreFew, FS_RemoveElement
<1> HIDE DEF Larger, Others
<1>4. Cardinality(Larger) <= Cardinality(Others) /\ IsFiniteSet(Larger)
    BY <1>2, <1>3, FS_Subset
<1>5. Cardinality(Larger) \in Nat /\ Cardinality(Gigabytes) \in Nat
    BY <1>4, GigabytesAreFew, FS_CardinalityType
<1>6. Cardinality(Larger) < MaxCandidates
    BY <1>3, <1>4, <1>5, GigabytesAreFew, UnitsAssumption, Sizes
<1> QED
    BY <1>1, <1>6 DEF Larger, Candidates, Keep

(***************************************************************************)
(* A drive that folds at a whole gigabyte, binary or decimal, is caught,   *)
(* unless a read fails or it claims more than the list reaches.            *)
(***************************************************************************)
THEOREM GigabytesAreCaught == Spec => []GigabyteFoldsAreCaught
<1>1. IInv => GigabyteFoldsAreCaught
  <2> SUFFICES ASSUME IInv, pc = "done", reached, faults = 0, Folds,
                      real \in Gigabytes, claimed < 2 * Multiples * Gibi
               PROVE  wrapModulus \in 1 .. real
      BY DEF GigabyteFoldsAreCaught
  <2>1. claimed \in Claims /\ real <= claimed
      BY TypeFacts DEF IInv
  <2>2. real \in Candidates
      BY <2>1, GigabyteIsKept
  <2> QED
      BY <2>2 DEF IInv, SweepInv
<1> QED
    BY <1>1, Inductive, PTL
=============================================================================
