----------------------------- MODULE PlanProofs -----------------------------
(***************************************************************************)
(* What holds of the plan of every request: where the samples lie, that    *)
(* the last slot is one of them, and which folds they reveal.              *)
(***************************************************************************)
EXTENDS Plan, Divisibility

-----------------------------------------------------------------------------
(***************************************************************************)
(* Arithmetic of slots.                                                    *)
(***************************************************************************)

\* Aligning upwards goes to the next multiple.
LEMMA AlignUpFacts ==
    ASSUME NEW v \in Nat, NEW t \in Nat, t > 0
    PROVE  /\ AlignUp(v, t) \in Nat
           /\ AlignUp(v, t) % t = 0
           /\ v <= AlignUp(v, t)
<1> DEFINE q == v \div t
           r == v % t
<1>1. q \in Int /\ r \in Nat /\ r < t /\ v = t * q + r
    BY DivMod
<1>2. CASE r = 0
    BY <1>2 DEF AlignUp
<1>3. CASE r # 0
  <2>1. AlignUp(v, t) = v + (t - r)
    BY <1>3 DEF AlignUp
  <2> HIDE DEF q, r
  <2>2. v + (t - r) = t * (q + 1)
    BY <1>1
  <2>3. (t * (q + 1)) % t = 0
    BY <1>1, MultipleMod, q + 1 \in Int
  <2> QED
    BY <1>1, <2>1, <2>2, <2>3
<1> QED
    BY <1>2, <1>3

\* Aligning downwards goes to the multiple before.
LEMMA AlignDownFacts ==
    ASSUME NEW v \in Nat, NEW t \in Nat, t > 0
    PROVE  /\ AlignDown(v, t) \in Nat
           /\ AlignDown(v, t) % t = 0
           /\ AlignDown(v, t) <= v /\ v < AlignDown(v, t) + t
<1> DEFINE q == v \div t
           r == v % t
<1>1. q \in Int /\ r \in Nat /\ r < t /\ v = t * q + r
    BY DivMod
<1>2. AlignDown(v, t) = v - r
    BY DEF AlignDown
<1> HIDE DEF q, r
<1>3. v - r = t * q
    BY <1>1
<1>4. q >= 0
    BY <1>1
<1>5. (t * q) % t = 0 /\ t * q >= 0
    BY <1>1, <1>4, MultipleMod
<1> QED
    BY <1>1, <1>2, <1>3, <1>5

-----------------------------------------------------------------------------
(***************************************************************************)
(* The inductive invariant: what each step of the call has established.    *)
(***************************************************************************)
Accepted == pc \in {"stride", "double", "slide", "lay", "done"}

\* The span is aligned and holds a slot.
SpanInv ==
    Accepted => /\ Valid(req) /\ Fits(req)
                /\ first = Start(req) /\ last = Last(req)

\* The variables of the call have their types.
Types ==
    /\ req \in Requests
    /\ pc \in {"check", "rejected", "stride", "double", "slide", "lay", "done"}
    /\ first \in Nat /\ last \in Nat /\ phase \in Nat
    /\ stride \in Nat
    /\ \A i \in DOMAIN plan : plan[i] \in Nat

\* The stride is a whole number of slots.
StrideInv ==
    pc \in {"double", "slide", "lay", "done"} => stride > 0 /\ stride % Size = 0

\* The lattice stays aligned and below the last slot wherever it slides.
PhaseInv ==
    pc \in {"lay", "done"} => phase % Size = 0 /\ phase <= MaxPhase

\* The lattice is laid out and ends in the last slot.
LaidOut ==
    LET n == Count(stride)
    IN  /\ \A i \in 0 .. n - 1 : i \in DOMAIN plan /\ plan[i] = LatticeOffset(i)
        /\ \/ DOMAIN plan = 0 .. n - 1 /\ LatticeOffset(n - 1) = last
           \/ /\ DOMAIN plan = 0 .. n /\ plan[n] = last
              /\ LatticeOffset(n - 1) + Size <= last

PlanInv == pc = "done" => LaidOut

IInv == Types /\ SpanInv /\ StrideInv /\ PhaseInv /\ PlanInv

-----------------------------------------------------------------------------
(***************************************************************************)
(* Facts about the span, the lattice and the last slot.                    *)
(***************************************************************************)

\* What an accepted request and its span look like.
LEMMA SpanFacts ==
    ASSUME req \in Requests, Valid(req), Fits(req),
           first = Start(req), last = Last(req)
    PROVE  /\ req.start \in Nat /\ req.end \in Nat /\ req.count \in Nat /\ req.count > 0
           /\ req.blockSize \in Nat /\ req.blockSize > 0
           /\ Size \in Nat /\ Size > 0 /\ Size % req.blockSize = 0
           /\ first \in Nat /\ first % Size = 0 /\ req.start <= first
           /\ last \in Nat /\ last % Size = 0
           /\ last + Size <= req.end /\ req.end < last + 2 * Size
           /\ first <= last /\ Span \in Nat
<1>1. /\ req.start \in Nat /\ req.end \in Nat /\ req.sampleSize \in Nat
      /\ req.blockSize \in Nat /\ req.count \in Nat
    BY RequestsAssumption
<1>2. /\ req.count > 0 /\ req.blockSize > 0 /\ req.sampleSize > 0
      /\ req.sampleSize % req.blockSize = 0
    BY <1>1 DEF Valid
<1>3. first \in Nat /\ first % req.sampleSize = 0 /\ req.start <= first
    BY <1>1, <1>2, AlignUpFacts DEF Start
<1>4. req.end - req.sampleSize \in Nat /\ first <= req.end - req.sampleSize
    BY <1>1, <1>3 DEF Fits
<1>5. /\ last \in Nat /\ last % req.sampleSize = 0
      /\ last <= req.end - req.sampleSize
      /\ req.end - req.sampleSize < last + req.sampleSize
    BY <1>1, <1>2, <1>4, AlignDownFacts DEF Last
<1>6. first <= last
  <2> DEFINE s == req.sampleSize
  <2>1. /\ s \in Nat /\ s > 0 /\ first \in Int /\ last \in Int
        /\ first % s = 0 /\ last % s = 0
        /\ first <= req.end - s /\ req.end - s < last + s
      BY <1>1, <1>2, <1>3, <1>4, <1>5
  <2> HIDE DEF s
  <2>2. last < first => last + s <= first
      BY <2>1, ModGap
  <2>3. req.end - s \in Int
      BY <1>1, <2>1
  <2> QED
      BY <2>1, <2>2, <2>3
<1> QED
    BY <1>1, <1>2, <1>3, <1>4, <1>5, <1>6 DEF Size, Span

\* The lattice has at least one sample and the shift left over is below a stride.
LEMMA CountFacts ==
    ASSUME Span \in Nat, stride \in Nat, stride > 0
    PROVE  /\ Count(stride) \in Nat /\ Count(stride) >= 1
           /\ MaxPhase \in 0 .. stride - 1
<1> DEFINE q == Span \div stride
           r == Span % stride
<1>1. q \in Int /\ r \in 0 .. stride - 1 /\ Span = stride * q + r
    BY DivMod
<1>2. Count(stride) = q + 1 /\ MaxPhase = Span - ((q + 1) - 1) * stride
    BY DEF Count, MaxPhase
<1> HIDE DEF q, r
<1>3. q >= 0
    BY <1>1
<1>4. ((q + 1) - 1) * stride = stride * q
    BY <1>1
<1> QED
    BY <1>1, <1>2, <1>3, <1>4

\* The samples of the lattice are aligned slots of the span, in ascending order.
LEMMA LatticeFacts ==
    ASSUME first \in Nat, last \in Nat, first <= last,
           Size \in Nat, Size > 0, first % Size = 0,
           stride \in Nat, stride > 0, stride % Size = 0,
           phase \in Nat, phase % Size = 0, phase <= MaxPhase,
           NEW i \in 0 .. Count(stride) - 1
    PROVE  /\ LatticeOffset(i) \in Nat /\ LatticeOffset(i) % Size = 0
           /\ first <= LatticeOffset(i) /\ LatticeOffset(i) <= last
           /\ \A j \in 0 .. Count(stride) - 1 :
                 i < j => LatticeOffset(i) + stride <= LatticeOffset(j)
           /\ \A k \in Nat : k <= i => LatticeOffset(i) = LatticeOffset(i - k) + k * stride
<1>1. Span \in Nat
    BY DEF Span
<1>2. Count(stride) \in Nat /\ MaxPhase \in 0 .. stride - 1
    BY <1>1, CountFacts
<1>3. i \in Nat /\ i * stride \in Nat /\ i * stride <= (Count(stride) - 1) * stride
    BY <1>2
<1>4. MaxPhase = Span - (Count(stride) - 1) * stride
    BY DEF MaxPhase
<1>5. (Count(stride) - 1) * stride \in Int
    BY <1>2
<1>6. LatticeOffset(i) = first + phase + i * stride
    BY DEF LatticeOffset
<1>7. LatticeOffset(i) \in Nat /\ first <= LatticeOffset(i) /\ LatticeOffset(i) <= last
    BY <1>1, <1>2, <1>3, <1>4, <1>5, <1>6 DEF Span
<1>8. LatticeOffset(i) % Size = 0
  <2>1. (first + phase) % Size = 0 /\ first + phase \in Int
      BY ModSum
  <2>2. i \in Int /\ stride \in Int
      BY <1>3
  <2>3. (i * stride) % Size = 0
      BY <2>2, ModProduct, Zenon
  <2>4. i * stride \in Int
      BY <1>3
  <2>5. (first + phase + i * stride) % Size = 0
      BY <2>1, <2>3, <2>4, ModSum, Zenon
  <2> QED
      BY <1>6, <2>5
<1>9. ASSUME NEW j \in 0 .. Count(stride) - 1, i < j
      PROVE  LatticeOffset(i) + stride <= LatticeOffset(j)
  <2>1. i * stride + stride <= j * stride
      BY <1>2, <1>9
  <2> QED
      BY <1>2, <1>3, <1>9, <2>1 DEF LatticeOffset
<1>10. ASSUME NEW k \in Nat, k <= i
       PROVE  LatticeOffset(i) = LatticeOffset(i - k) + k * stride
  <2>1. i * stride = (i - k) * stride + k * stride
      BY <1>3, <1>10
  <2> QED
      BY <1>3, <1>10, <2>1 DEF LatticeOffset
<1> QED
    BY <1>7, <1>8, <1>9, <1>10
-----------------------------------------------------------------------------
(***************************************************************************)
(* The invariant holds at the start and is kept by every step.             *)
(***************************************************************************)

\* A call starts with the request alone.
LEMMA InitIInv == Init => IInv
    BY DEF Init, IInv, Types, SpanInv, Accepted, StrideInv, PhaseInv, PlanInv

\* The span's facts, once the call has been accepted.
LEMMA AcceptedFacts ==
    ASSUME IInv, Accepted
    PROVE  /\ req.start \in Nat /\ req.end \in Nat /\ req.count \in Nat /\ req.count > 0
           /\ req.blockSize \in Nat /\ req.blockSize > 0
           /\ Size \in Nat /\ Size > 0 /\ Size % req.blockSize = 0
           /\ first \in Nat /\ first % Size = 0 /\ req.start <= first
           /\ last \in Nat /\ last % Size = 0
           /\ last + Size <= req.end /\ req.end < last + 2 * Size
           /\ first <= last /\ Span \in Nat
    BY SpanFacts DEF IInv, Types, SpanInv

\* Aligning the span.
LEMMA AlignStep == ASSUME IInv, Align PROVE IInv'
<1>1. /\ req \in Requests /\ Valid(req) /\ Fits(req) /\ phase \in Nat
      /\ \A i \in DOMAIN plan : plan[i] \in Nat
    BY DEF IInv, Types, Align
<1>2. /\ req' = req /\ stride' = stride /\ phase' = phase /\ plan' = plan
      /\ pc' = "stride" /\ first' = Start(req) /\ last' = Last(req)
    BY DEF Align
<1>3. first' \in Nat /\ last' \in Nat
  <2>1. /\ req.start \in Nat /\ req.end \in Nat
        /\ req.sampleSize \in Nat /\ req.sampleSize > 0
      BY <1>1, RequestsAssumption DEF Valid
  <2>2. Start(req) \in Nat
      BY <2>1, AlignUpFacts DEF Start
  <2>3. req.end - req.sampleSize \in Nat
      BY <1>1, <2>1, <2>2 DEF Fits
  <2> QED
      BY <1>2, <2>1, <2>2, <2>3, AlignDownFacts DEF Last
<1> QED
    BY <1>1, <1>2, <1>3
    DEF IInv, Types, SpanInv, Accepted, StrideInv, PhaseInv, PlanInv

\* Choosing the stride: whatever step sets it, it stays a multiple of a sample.
LEMMA StrideStep ==
    ASSUME IInv,
           StrideOfOne \/ StrideDivides \/ StartDoubling \/ Double \/ PickStride
    PROVE  IInv'
<1>1. Accepted
    BY DEF Accepted, StrideOfOne, StrideDivides, StartDoubling, Double, PickStride
<1>2. /\ Size \in Nat /\ Size > 0 /\ Span \in Nat
      /\ req.count \in Nat /\ req.count > 0
    BY <1>1, AcceptedFacts
<1>3. /\ req' = req /\ first' = first /\ last' = last /\ phase' = phase /\ plan' = plan
      /\ pc' \in {"double", "slide"}
    BY DEF StrideOfOne, StrideDivides, StartDoubling, Double, PickStride, IInv, Types
<1>4. Size % Size = 0
    BY <1>2, MultipleMod, Size * 1 = Size
<1>5. /\ stride' \in Nat /\ stride' > 0 /\ stride' % Size = 0
  <2>1. CASE StrideOfOne \/ StartDoubling
      BY <1>2, <1>4, <2>1 DEF StrideOfOne, StartDoubling
  <2>2. CASE StrideDivides
    <3>1. Target \in Nat
        BY <1>2, DivMod DEF Target
    <3>2. AlignUp(Target, Size) \in Nat /\ AlignUp(Target, Size) % Size = 0
        BY <1>2, <3>1, AlignUpFacts
    <3> QED
        BY <1>2, <1>4, <2>2, <3>2 DEF StrideDivides, EvenStride
  <2>3. CASE Double \/ PickStride
    <3>1. stride \in Nat /\ stride > 0 /\ stride % Size = 0
        BY <2>3 DEF IInv, Types, StrideInv, Double, PickStride
    <3>2. (stride + stride) % Size = 0
        BY <1>2, <3>1, stride \in Int, ModSum, Zenon
    <3>3. stride * 2 = stride + stride
        BY <3>1
    <3>4. stride' = stride * 2 \/ stride' = stride
        BY <2>3 DEF Double, PickStride
    <3> QED
        BY <3>1, <3>2, <3>3, <3>4
  <2> QED
      BY <2>1, <2>2, <2>3
<1>6. Size' = Size
    BY <1>3 DEF Size
<1> QED
    BY <1>1, <1>3, <1>5, <1>6
    DEF IInv, Types, SpanInv, Accepted, StrideInv, PhaseInv, PlanInv

\* Sliding the lattice keeps it aligned and within the span.
LEMMA SlideStep == ASSUME IInv, Slide PROVE IInv'
<1>1. Accepted
    BY DEF Accepted, Slide
<1>2. Size \in Nat /\ Size > 0 /\ Span \in Nat
    BY <1>1, AcceptedFacts
<1>3. stride \in Nat /\ stride > 0
    BY DEF IInv, Types, StrideInv, Slide
<1>4. MaxPhase \in Nat
    BY <1>2, <1>3, CountFacts
<1>5. phase' \in Nat /\ phase' % Size = 0 /\ phase' <= MaxPhase
  <2>1. CASE MaxPhase >= Size
    <3>1. PICK r \in 0 .. MaxPhase : phase' = AlignDown(r, Size)
        BY <2>1 DEF Slide, Phases
    <3> QED
        BY <1>2, <1>4, <3>1, AlignDownFacts
  <2>2. CASE ~(MaxPhase >= Size)
    <3>1. phase' = 0
        BY <2>2 DEF Slide
    <3>2. 0 % Size = 0
        BY <1>2, MultipleMod, Size * 0 = 0
    <3> QED
        BY <1>4, <3>1, <3>2
  <2> QED
      BY <2>1, <2>2
<1>6. /\ req' = req /\ first' = first /\ last' = last /\ stride' = stride /\ plan' = plan
      /\ pc = "slide" /\ pc' = "lay"
    BY DEF Slide
<1>7. Size' = Size /\ MaxPhase' = MaxPhase
    BY <1>6 DEF Size, MaxPhase, Count, Span
<1> QED
    BY <1>1, <1>5, <1>6, <1>7
    DEF IInv, Types, SpanInv, Accepted, StrideInv, PhaseInv, PlanInv

\* Laying out the lattice: what is not pinned ends in the last slot anyway.
LEMMA LayOutStep == ASSUME IInv, LayOut PROVE IInv'
<1> DEFINE n == Count(stride)
           tail == LatticeOffset(n - 1)
<1>1. Accepted
    BY DEF Accepted, LayOut
<1>2. /\ Size \in Nat /\ Size > 0 /\ Span \in Nat
      /\ first \in Nat /\ last \in Nat /\ first <= last
      /\ first % Size = 0 /\ last % Size = 0
    BY <1>1, AcceptedFacts
<1>3. /\ stride \in Nat /\ stride > 0 /\ stride % Size = 0
      /\ phase \in Nat /\ phase % Size = 0 /\ phase <= MaxPhase
    BY DEF IInv, Types, StrideInv, PhaseInv, LayOut
<1>4. n \in Nat /\ n >= 1
    BY <1>2, <1>3, CountFacts
<1>5. \A i \in 0 .. n - 1 : LatticeOffset(i) \in Nat /\ LatticeOffset(i) <= last
    BY <1>2, <1>3, LatticeFacts
<1>6. tail \in Nat /\ tail % Size = 0 /\ tail <= last
    BY <1>2, <1>3, <1>4, LatticeFacts, n - 1 \in 0 .. n - 1
<1>7. ~PinsTail(tail) => tail = last
  <2>1. (last - tail) % Size = 0
      BY <1>2, <1>6, last \in Int, tail \in Int, ModSum, Zenon
  <2>2. last - tail > 0 => last - tail >= Size
      BY <1>2, <1>6, <2>1, ModWhole
  <2> QED
      BY <1>2, <1>6, <2>2 DEF PinsTail
<1>8. /\ req' = req /\ first' = first /\ last' = last /\ stride' = stride /\ phase' = phase
      /\ pc' = "done"
      /\ plan' = IF PinsTail(tail)
                 THEN [i \in 0 .. n |-> IF i < n THEN LatticeOffset(i) ELSE last]
                 ELSE [i \in 0 .. n - 1 |-> IF i < n - 1 \/ last <= tail
                                            THEN LatticeOffset(i) ELSE last]
    BY DEF LayOut
<1>9. Size' = Size /\ Span' = Span /\ Count(stride)' = n /\ MaxPhase' = MaxPhase
    BY <1>8 DEF Size, Span, Count, MaxPhase
<1>10. \A i : LatticeOffset(i)' = LatticeOffset(i)
    BY <1>8 DEF LatticeOffset
<1> HIDE DEF n, tail
<1>11. CASE PinsTail(tail)
  <2>1. plan' = [i \in 0 .. n |-> IF i < n THEN LatticeOffset(i) ELSE last]
      BY <1>8, <1>11
  <2>2. DOMAIN plan' = 0 .. n /\ plan'[n] = last
      BY <1>4, <2>1
  <2>3. \A i \in 0 .. n - 1 : i \in DOMAIN plan' /\ plan'[i] = LatticeOffset(i)
      BY <1>4, <2>1
  <2>4. tail + Size <= last
      BY <1>2, <1>6, <1>11 DEF PinsTail
  <2>5. \A i \in DOMAIN plan' : plan'[i] \in Nat
      BY <1>2, <1>4, <1>5, <2>1
  <2>6. LaidOut'
      BY <1>8, <1>9, <1>10, <2>2, <2>3, <2>4 DEF LaidOut, n, tail
  <2> QED
      BY <1>1, <1>2, <1>3, <1>8, <1>9, <2>5, <2>6
      DEF IInv, Types, SpanInv, Accepted, StrideInv, PhaseInv, PlanInv
<1>12. CASE ~PinsTail(tail)
  <2>1. plan' = [i \in 0 .. n - 1 |-> IF i < n - 1 \/ last <= tail
                                      THEN LatticeOffset(i) ELSE last]
      BY <1>8, <1>12
  <2>2. DOMAIN plan' = 0 .. n - 1
      BY <1>4, <2>1
  <2>3. last <= tail /\ tail = last
      BY <1>2, <1>7, <1>12
  <2>4. \A i \in 0 .. n - 1 : i \in DOMAIN plan' /\ plan'[i] = LatticeOffset(i)
      BY <1>4, <2>1, <2>3
  <2>5. \A i \in DOMAIN plan' : plan'[i] \in Nat
      BY <1>5, <2>2, <2>4
  <2>6. LaidOut'
      BY <1>8, <1>9, <1>10, <2>2, <2>3, <2>4 DEF LaidOut, n, tail
  <2> QED
      BY <1>1, <1>2, <1>3, <1>8, <1>9, <2>5, <2>6
      DEF IInv, Types, SpanInv, Accepted, StrideInv, PhaseInv, PlanInv
<1> QED
    BY <1>11, <1>12

\* Every step keeps the invariant.
LEMMA NextIInv == ASSUME IInv, [Next]_vars PROVE IInv'
<1>1. CASE Reject
    BY <1>1 DEF Reject, IInv, Types, SpanInv, Accepted, StrideInv, PhaseInv, PlanInv
<1>2. CASE UNCHANGED vars
    BY <1>2
    DEF vars, IInv, Types, SpanInv, Accepted, StrideInv, PhaseInv, PlanInv, LaidOut,
        Size, Span, Count, MaxPhase, LatticeOffset
<1> QED
    BY <1>1, <1>2, AlignStep, StrideStep, SlideStep, LayOutStep DEF Next

(***************************************************************************)
(* Whatever is asked for, every step of buildPlan keeps its variables in   *)
(* range and its lattice aligned, inside the span and ending in the last   *)
(* slot.                                                                   *)
(***************************************************************************)
THEOREM Inductive == Spec => []IInv
<1>1. Init => IInv
    BY InitIInv
<1>2. IInv /\ [Next]_vars => IInv'
    BY NextIInv
<1> QED
    BY <1>1, <1>2, PTL DEF Spec
-----------------------------------------------------------------------------
(***************************************************************************)
(* The properties of the runs, for every request.                          *)
(***************************************************************************)

\* A finished plan: the facts of the span and of the lattice together.
LEMMA DoneFacts ==
    ASSUME IInv, pc = "done"
    PROVE  /\ req.start \in Nat /\ req.end \in Nat
           /\ req.blockSize \in Nat /\ req.blockSize > 0
           /\ Size \in Nat /\ Size > 0 /\ Size % req.blockSize = 0
           /\ first \in Nat /\ first % Size = 0 /\ req.start <= first
           /\ last \in Nat /\ last % Size = 0
           /\ last + Size <= req.end /\ req.end < last + 2 * Size
           /\ first <= last /\ Span \in Nat
           /\ stride \in Nat /\ stride > 0 /\ stride % Size = 0 /\ stride >= Size
           /\ phase \in Nat /\ phase % Size = 0 /\ phase <= MaxPhase
           /\ Count(stride) \in Nat /\ Count(stride) >= 1
           /\ LaidOut
<1>1. Accepted
    BY DEF Accepted
<1>2. /\ stride \in Nat /\ stride > 0 /\ stride % Size = 0
      /\ phase \in Nat /\ phase % Size = 0 /\ phase <= MaxPhase /\ LaidOut
    BY DEF IInv, Types, StrideInv, PhaseInv, PlanInv
<1>3. Size \in Nat /\ Size > 0 /\ Span \in Nat
    BY <1>1, AcceptedFacts
<1>4. stride >= Size
    BY <1>2, <1>3, ModWhole
<1>5. Count(stride) \in Nat /\ Count(stride) >= 1
    BY <1>2, <1>3, CountFacts
<1> QED
    BY <1>1, <1>2, <1>4, <1>5, AcceptedFacts

\* Where a sample of a finished plan lies.
LEMMA SampleFacts ==
    ASSUME IInv, pc = "done", NEW i \in DOMAIN plan
    PROVE  /\ plan[i] \in Nat /\ plan[i] % Size = 0
           /\ first <= plan[i] /\ plan[i] <= last
           /\ \A j \in DOMAIN plan : i < j => plan[i] + Size <= plan[j]
<1> DEFINE n == Count(stride)
<1>1. /\ Size \in Nat /\ Size > 0 /\ first % Size = 0 /\ last % Size = 0
      /\ first \in Nat /\ last \in Nat /\ first <= last
      /\ stride \in Nat /\ stride > 0 /\ stride % Size = 0 /\ stride >= Size
      /\ phase \in Nat /\ phase % Size = 0 /\ phase <= MaxPhase
      /\ n \in Nat /\ n >= 1
    BY DoneFacts
<1>2. \A k \in 0 .. n - 1 :
         /\ LatticeOffset(k) \in Nat /\ LatticeOffset(k) % Size = 0
         /\ first <= LatticeOffset(k) /\ LatticeOffset(k) <= last
         /\ \A j \in 0 .. n - 1 : k < j => LatticeOffset(k) + stride <= LatticeOffset(j)
    BY <1>1, LatticeFacts
<1>3. /\ \A k \in 0 .. n - 1 : k \in DOMAIN plan /\ plan[k] = LatticeOffset(k)
      /\ \/ DOMAIN plan = 0 .. n - 1
         \/ /\ DOMAIN plan = 0 .. n /\ plan[n] = last
            /\ LatticeOffset(n - 1) + Size <= last
    BY DoneFacts DEF LaidOut
<1> HIDE DEF n
<1>4. ASSUME NEW k \in 0 .. n - 1
      PROVE  LatticeOffset(k) <= LatticeOffset(n - 1)
  <2>1. k = n - 1 \/ k < n - 1
      BY <1>1
  <2>2. n - 1 \in 0 .. n - 1
      BY <1>1
  <2> QED
      BY <1>1, <1>2, <2>1, <2>2
<1>5. CASE i \in 0 .. n - 1
  <2>1. plan[i] = LatticeOffset(i)
      BY <1>3, <1>5
  <2>2. ASSUME NEW j \in DOMAIN plan, i < j
        PROVE  plan[i] + Size <= plan[j]
    <3>1. CASE j \in 0 .. n - 1
      <4>1. plan[j] = LatticeOffset(j) /\ LatticeOffset(i) + stride <= LatticeOffset(j)
          BY <1>2, <1>3, <1>5, <2>2, <3>1
      <4> QED
          BY <1>1, <1>2, <1>5, <2>1, <3>1, <4>1
    <3>2. CASE j \notin 0 .. n - 1
      <4>1. j = n /\ plan[j] = last /\ LatticeOffset(n - 1) + Size <= last
          BY <1>1, <1>3, <3>2
      <4>2. LatticeOffset(i) <= LatticeOffset(n - 1) /\ n - 1 \in 0 .. n - 1
          BY <1>1, <1>4, <1>5
      <4> QED
          BY <1>1, <1>2, <1>5, <2>1, <4>1, <4>2
    <3> QED
        BY <3>1, <3>2
  <2> QED
      BY <1>2, <1>5, <2>1, <2>2
<1>6. CASE i \notin 0 .. n - 1
  <2>1. i = n /\ plan[i] = last /\ DOMAIN plan = 0 .. n
      BY <1>1, <1>3, <1>6
  <2> QED
      BY <1>1, <2>1
<1> QED
    BY <1>5, <1>6

(***************************************************************************)
(* The variables of the call keep their types, and the stride is a         *)
(* positive multiple of a sample wherever it is used.                      *)
(***************************************************************************)
THEOREM TypeCorrect == Spec => []TypeOK
<1>1. IInv => TypeOK
    BY DEF IInv, Types, StrideInv, TypeOK
<1> QED
    BY <1>1, Inductive, PTL

(***************************************************************************)
(* For every request that is accepted, every phase and every drive size,   *)
(* the samples are aligned to the drive's blocks, lie between the skipped  *)
(* start and the end of the drive, and do not overlap.                     *)
(***************************************************************************)
THEOREM PlansAreWellPlaced == Spec => []WellPlaced
<1>1. ASSUME IInv, pc = "done", NEW i \in DOMAIN plan
      PROVE  /\ plan[i] % req.blockSize = 0
             /\ req.start <= plan[i] /\ plan[i] + Size <= req.end
             /\ \A j \in DOMAIN plan : i < j => plan[i] + Size <= plan[j]
  <2>1. /\ plan[i] \in Nat /\ plan[i] % Size = 0 /\ first <= plan[i] /\ plan[i] <= last
        /\ \A j \in DOMAIN plan : i < j => plan[i] + Size <= plan[j]
      BY <1>1, SampleFacts
  <2>2. /\ req.start \in Nat /\ req.end \in Nat /\ first \in Nat /\ last \in Nat
        /\ req.blockSize \in Nat /\ req.blockSize > 0
        /\ Size \in Nat /\ Size > 0 /\ Size % req.blockSize = 0
        /\ req.start <= first /\ last + Size <= req.end
      BY <1>1, DoneFacts
  <2>3. plan[i] % req.blockSize = 0
      BY <2>1, <2>2, plan[i] \in Int, ModTransitive, Zenon
  <2> QED
      BY <2>1, <2>2, <2>3
<1>2. IInv => WellPlaced
    BY <1>1 DEF WellPlaced
<1> QED
    BY <1>2, Inductive, PTL

(***************************************************************************)
(* For every request that is accepted the last aligned slot of the drive   *)
(* is sampled.                                                             *)
(***************************************************************************)
THEOREM LastSlotIsSampled == Spec => []LastSlotCovered
<1>1. ASSUME IInv, pc = "done"
      PROVE  \E i \in DOMAIN plan :
                /\ \A j \in DOMAIN plan : j <= i
                /\ plan[i] + 2 * Size > req.end
  <2> DEFINE n == Count(stride)
  <2>1. n \in Nat /\ n >= 1 /\ req.end < last + 2 * Size
      BY <1>1, DoneFacts
  <2>2. /\ \A i \in 0 .. n - 1 : i \in DOMAIN plan /\ plan[i] = LatticeOffset(i)
        /\ \/ DOMAIN plan = 0 .. n - 1 /\ LatticeOffset(n - 1) = last
           \/ DOMAIN plan = 0 .. n /\ plan[n] = last
      BY <1>1, DoneFacts DEF LaidOut
  <2> HIDE DEF n
  <2>3. last + 2 * Size > req.end
      BY <1>1, DoneFacts
  <2>4. CASE DOMAIN plan = 0 .. n - 1 /\ LatticeOffset(n - 1) = last
    <3>1. n - 1 \in DOMAIN plan /\ \A j \in DOMAIN plan : j <= n - 1
        BY <2>1, <2>4
    <3>2. plan[n - 1] = last
        BY <2>2, <2>4, <3>1
    <3> QED
        BY <2>3, <3>1, <3>2
  <2>5. CASE DOMAIN plan = 0 .. n /\ plan[n] = last
    <3>1. n \in DOMAIN plan /\ \A j \in DOMAIN plan : j <= n
        BY <2>1, <2>5
    <3> QED
        BY <2>3, <2>5, <3>1
  <2> QED
      BY <2>2, <2>4, <2>5
<1>2. IInv => LastSlotCovered
    BY <1>1 DEF LastSlotCovered
<1> QED
    BY <1>2, Inductive, PTL

(***************************************************************************)
(* On every drive that folds its addresses at k strides, for a k below the *)
(* number of samples of the lattice, two samples share their storage.      *)
(***************************************************************************)
THEOREM StrideFoldsCollide == Spec => []FoldsCollide
<1>1. ASSUME IInv, pc = "done", NEW k \in 1 .. Count(stride) - 1
      PROVE  Collide(k * stride)
  <2>1. /\ Size \in Nat /\ Size > 0 /\ first % Size = 0
        /\ first \in Nat /\ last \in Nat /\ first <= last
        /\ stride \in Nat /\ stride > 0 /\ stride % Size = 0
        /\ phase \in Nat /\ phase % Size = 0 /\ phase <= MaxPhase
        /\ Count(stride) \in Nat
      BY <1>1, DoneFacts
  <2>2. k \in Nat /\ k > 0 /\ 0 \in 0 .. Count(stride) - 1 /\ k \in 0 .. Count(stride) - 1
      BY <2>1
  <2>3. LatticeOffset(k) = LatticeOffset(k - k) + k * stride
      BY <2>1, <2>2, LatticeFacts
  <2>4. LatticeOffset(0) \in Nat /\ k - k = 0
      BY <2>1, <2>2, LatticeFacts
  <2>5. k * stride \in Nat /\ k * stride > 0
      BY <2>1, <2>2
  <2>6. LatticeOffset(k) % (k * stride) = LatticeOffset(0) % (k * stride)
    <3> DEFINE m == k * stride
               v == LatticeOffset(0)
    <3>1. m \in Nat /\ m > 0 /\ v \in Int /\ LatticeOffset(k) = v + m
        BY <2>3, <2>4, <2>5
    <3> HIDE DEF m, v
    <3>2. LatticeOffset(k) % m = v % m
        BY <3>1, ModFold
    <3> QED
        BY <3>2 DEF m, v
  <2>7. /\ 0 \in DOMAIN plan /\ plan[0] = LatticeOffset(0)
        /\ k \in DOMAIN plan /\ plan[k] = LatticeOffset(k)
      BY <1>1, <2>2, DoneFacts DEF LaidOut
  <2> QED
      BY <2>2, <2>6, <2>7 DEF Collide
<1>2. IInv => FoldsCollide
    BY <1>1 DEF FoldsCollide
<1> QED
    BY <1>2, Inductive, PTL

-----------------------------------------------------------------------------
(***************************************************************************)
(* The choice of the stride.  Doubling ends at the largest power of two    *)
(* that is no more than the span divided by the count, or at a slot; every *)
(* other power of two is below it or at least twice as large, and lands at *)
(* least as far from the count as the one or the other.                    *)
(***************************************************************************)

\* The doubling has not gone past the target.
DoubleInv ==
    pc = "double" => /\ IsPow2(Size) /\ req.count > 1
                     /\ IsPow2(stride) /\ (stride = Size \/ stride <= Target)

\* The stride is chosen, and none is better.
ClosestInv ==
    (pc \in {"slide", "lay", "done"} /\ IsPow2(Size) /\ req.count > 1) => IsClosest

\* How many samples a stride yields, and how far that is from the request.
LEMMA DistanceFacts ==
    ASSUME Span \in Nat, req.count \in Nat, NEW s \in Nat, s > 0
    PROVE  /\ Span \div s \in Nat /\ Count(s) = Span \div s + 1
           /\ Count(s) >= req.count => Distance(s) = Count(s) - req.count
           /\ Count(s) <= req.count => Distance(s) = req.count - Count(s)
           /\ Distance(s) \in Int
<1>1. Span \div s \in Nat /\ Count(s) = Span \div s + 1
    BY DivNat DEF Count
<1> DEFINE c == Count(s)
<1>2. c \in Int
    BY <1>1
<1>3. Distance(s) = IF c - req.count < 0 THEN -(c - req.count) ELSE c - req.count
    BY DEF Distance
<1> HIDE DEF c
<1>4. /\ c >= req.count => Distance(s) = c - req.count
      /\ c <= req.count => Distance(s) = req.count - c
      /\ Distance(s) \in Int
    BY <1>2, <1>3
<1> QED
    BY <1>1, <1>4 DEF c

\* One of the two strides the doubling ends between is as close as any other.
LEMMA BestOfTwo ==
    ASSUME Span \in Nat, Size \in Nat, Size > 0, req.count \in Nat, req.count > 0,
           NEW lo \in Nat, IsPow2(lo), lo = Size \/ lo <= Target, lo > Target \div 2,
           NEW s \in Strides
    PROVE  Distance(lo) <= Distance(s) \/ Distance(2 * lo) <= Distance(s)
<1>1. /\ s \in Nat /\ s > 0 /\ Size <= s /\ IsPow2(s) /\ lo > 0 /\ 2 * lo \in Nat /\ 2 * lo > 0
    BY DEF Strides, IsPow2
<1>2. s <= lo \/ 2 * lo <= s
  <2>1. PowerOfTwo(lo) /\ PowerOfTwo(s)
      BY <1>1, Zenon DEF IsPow2, PowerOfTwo
  <2>2. lo < s => 2 * lo <= s
      BY <1>1, <2>1, PowersApart
  <2> QED
      BY <1>1, <2>2
<1> DEFINE t == Target
<1>3. t \in Nat /\ req.count * t <= Span /\ Span < req.count * t + req.count
    BY DivNat DEF Target
<1>4. 2 * lo >= t + 1
    BY <1>3
<1>5. CASE s <= lo
  <2>1. CASE s = lo
      BY <1>1, <2>1, DistanceFacts
  <2>2. CASE s < lo
    <3>1. lo <= t
        BY <1>1, <2>2
    <3> HIDE DEF t
    <3>2. lo * req.count <= Span
      <4>1. lo * req.count <= req.count * t
          BY <1>3, <3>1
      <4> QED
          BY <1>3, <4>1
    <3>3. req.count <= Span \div lo
        BY <1>1, <3>2, DivAtLeast
    <3>4. Span \div lo <= Span \div s
        BY <1>1, <2>2, DivAntitone
    <3>5. /\ Span \div lo \in Nat /\ Span \div s \in Nat
          /\ Count(lo) = Span \div lo + 1 /\ Count(s) = Span \div s + 1
        BY <1>1, DistanceFacts
    <3>6. Count(lo) >= req.count /\ Count(s) >= req.count /\ Count(lo) <= Count(s)
        BY <3>3, <3>4, <3>5
    <3>7. Distance(lo) = Count(lo) - req.count /\ Distance(s) = Count(s) - req.count
        BY <1>1, <3>6, DistanceFacts
    <3> QED
        BY <3>5, <3>6, <3>7
  <2> QED
      BY <1>1, <1>5, <2>1, <2>2
<1>6. CASE 2 * lo <= s
  <2> DEFINE hi == 2 * lo
  <2>1. hi \in Nat /\ hi > 0 /\ hi <= s /\ hi >= t + 1
      BY <1>1, <1>4, <1>6
  <2> HIDE DEF hi, t
  <2>2. Span < hi * req.count
    <3>1. (t + 1) * req.count <= hi * req.count
        BY <1>3, <2>1
    <3>2. (t + 1) * req.count = req.count * t + req.count
        BY <1>3
    <3>3. hi * req.count \in Int /\ req.count * t \in Int
        BY <1>3, <2>1
    <3> QED
        BY <1>3, <3>1, <3>2, <3>3
  <2>3. Span \div hi < req.count
      BY <2>1, <2>2, DivBelow
  <2>4. Span \div s <= Span \div hi
      BY <1>1, <2>1, DivAntitone
  <2>5. /\ Span \div hi \in Nat /\ Span \div s \in Nat
        /\ Count(hi) = Span \div hi + 1 /\ Count(s) = Span \div s + 1
      BY <1>1, <2>1, DistanceFacts
  <2>6. Count(hi) <= req.count /\ Count(s) <= req.count /\ Count(s) <= Count(hi)
      BY <2>3, <2>4, <2>5
  <2>7. Distance(hi) = req.count - Count(hi) /\ Distance(s) = req.count - Count(s)
      BY <1>1, <2>1, <2>6, DistanceFacts
  <2>8. Distance(hi) <= Distance(s)
      BY <2>5, <2>6, <2>7
  <2> QED
      BY <2>8 DEF hi
<1> QED
    BY <1>2, <1>5, <1>6

\* Every step keeps the choice the best.
LEMMA ClosestStep ==
    ASSUME IInv, DoubleInv, ClosestInv, [Next]_vars
    PROVE  DoubleInv' /\ ClosestInv'
<1>1. CASE Reject \/ Align
    BY <1>1 DEF Reject, Align, DoubleInv, ClosestInv
<1>2. CASE Slide \/ LayOut \/ UNCHANGED vars
  <2>1. /\ UNCHANGED <<req, first, last, stride>>
        /\ pc' = "double" => pc = "double"
        /\ pc' \in {"slide", "lay", "done"} => pc \in {"slide", "lay", "done"}
      BY <1>2 DEF Slide, LayOut, vars
  <2> QED
      BY <2>1 DEF DoubleInv, ClosestInv, IsClosest, Strides, Distance, Count, Target, Span, Size
<1>3. CASE StrideOfOne \/ StrideDivides \/ StartDoubling \/ Double \/ PickStride
  <2>1. Accepted /\ UNCHANGED <<req, first, last>>
      BY <1>3 DEF Accepted, StrideOfOne, StrideDivides, StartDoubling, Double, PickStride
  <2>2. /\ Size \in Nat /\ Size > 0 /\ Span \in Nat /\ req.count \in Nat /\ req.count > 0
      BY <2>1, AcceptedFacts
  <2>3. Size' = Size /\ Span' = Span /\ Target' = Target /\ Strides' = Strides
      BY <2>1 DEF Size, Span, Target, Strides
  <2>4. CASE StrideOfOne
    <3> SUFFICES ASSUME req.count > 1, NEW s \in Strides PROVE Distance(Size) <= Distance(s)
        BY <2>1, <2>3, <2>4 DEF StrideOfOne, DoubleInv, ClosestInv, IsClosest, Distance, Count
    <3>1. Span = 0
        BY <2>2, <2>4 DEF StrideOfOne
    <3>2. s \in Nat /\ s > 0
        BY <2>2 DEF Strides
    <3>3. 0 \div s = 0 /\ 0 \div Size = 0
        BY <2>2, <3>2, DivOf
    <3>4. Distance(s) = Distance(Size) /\ Distance(s) \in Int
        BY <2>2, <3>1, <3>2, <3>3, DistanceFacts DEF Distance, Count
    <3> QED
        BY <3>4
  <2>5. CASE StrideDivides
      BY <2>3, <2>5 DEF StrideDivides, DoubleInv, ClosestInv
  <2>6. CASE StartDoubling
      BY <2>1, <2>3, <2>6 DEF StartDoubling, DoubleInv, ClosestInv
  <2>7. CASE Double
    <3>1. /\ IsPow2(Size) /\ req.count > 1 /\ IsPow2(stride) /\ stride \in Nat
          /\ pc' = "double" /\ stride' = 2 * stride /\ stride <= Target \div 2
        BY <2>7 DEF IInv, Types, DoubleInv, Double, Doubling
    <3>2. IsPow2(2 * stride)
        BY <3>1, PowerDouble DEF IsPow2, PowerOfTwo
    <3>3. 2 * stride <= Target
      <4>1. Target \in Nat
          BY <2>2, DivNat DEF Target
      <4> QED
          BY <3>1, <4>1
    <3> QED
        BY <2>1, <2>3, <3>1, <3>2, <3>3 DEF DoubleInv, ClosestInv
  <2>8. CASE PickStride
    <3>1. /\ IsPow2(Size) /\ req.count > 1 /\ IsPow2(stride) /\ stride \in Nat /\ stride > 0
          /\ stride = Size \/ stride <= Target
          /\ pc' = "slide" /\ ~(stride <= Target \div 2)
        BY <2>8 DEF IInv, Types, StrideInv, DoubleInv, PickStride, Doubling
    <3>2. stride > Target \div 2
      <4>1. Target \in Nat
          BY <2>2, DivNat DEF Target
      <4> QED
          BY <3>1, <4>1
    <3>3. stride' = IF Distance(2 * stride) < Distance(stride) THEN 2 * stride ELSE stride
        BY <2>8, <3>1, stride * 2 = 2 * stride DEF PickStride
    <3>4. ASSUME NEW s \in Strides PROVE Distance(stride)' <= Distance(s)'
      <4>1. Distance(stride) <= Distance(s) \/ Distance(2 * stride) <= Distance(s)
          BY <2>2, <3>1, <3>2, BestOfTwo
      <4>2. s \in Nat /\ s > 0 /\ 2 * stride \in Nat /\ 2 * stride > 0
          BY <2>2, <3>1 DEF Strides
      <4>3. Distance(stride) \in Int /\ Distance(2 * stride) \in Int /\ Distance(s) \in Int
          BY <2>2, <3>1, <4>2, DistanceFacts
      <4>4. Distance(s)' = Distance(s)
          BY <2>1, <2>3 DEF Distance, Count
      <4>5. \/ stride' = 2 * stride /\ Distance(stride)' = Distance(2 * stride)
               /\ Distance(2 * stride) < Distance(stride)
            \/ stride' = stride /\ Distance(stride)' = Distance(stride)
               /\ ~(Distance(2 * stride) < Distance(stride))
          BY <2>1, <2>3, <3>3 DEF Distance, Count
      <4> QED
          BY <4>1, <4>3, <4>4, <4>5
    <3> QED
        BY <2>3, <3>1, <3>4 DEF DoubleInv, ClosestInv, IsClosest
  <2> QED
      BY <1>3, <2>4, <2>5, <2>6, <2>7, <2>8
<1> QED
    BY <1>1, <1>2, <1>3 DEF Next

(***************************************************************************)
(* The stride is the power of two that lands closest to the count asked    *)
(* for, for every span, slot and count above one.                          *)
(***************************************************************************)
THEOREM StrideIsClosest == Spec => []ClosestToCount
<1>1. Init => DoubleInv /\ ClosestInv
    BY DEF Init, DoubleInv, ClosestInv
<1>2. IInv /\ DoubleInv /\ ClosestInv /\ [Next]_vars => (DoubleInv /\ ClosestInv)'
    BY ClosestStep
<1>3. ClosestInv => ClosestToCount
    BY DEF ClosestInv, ClosestToCount
<1> QED
    BY <1>1, <1>2, <1>3, Inductive, PTL DEF Spec
=============================================================================
