-------------------------------- MODULE Plan --------------------------------
(***************************************************************************)
(* Where a run takes its samples: buildPlan and chooseStride of plan.go.   *)
(* One behaviour is one call: the request is checked, the span aligned, a  *)
(* stride chosen (the doubling loop is one step per iteration), a random   *)
(* phase drawn, and the lattice laid out with the last slot pinned.        *)
(* Offsets are in bytes of a scaled drive.  Drives are taken to be small   *)
(* enough that nothing wraps in 64 bits.                                   *)
(***************************************************************************)
EXTENDS Integers

CONSTANT Requests       \* the calls: start, end, sampleSize, blockSize, count

ASSUME RequestsAssumption ==
    Requests \subseteq [start : Nat, end : Nat, sampleSize : Nat,
                        blockSize : Nat, count : Nat]

VARIABLES
    req,        \* the arguments of the call
    pc,         \* where the call is
    first,      \* start, aligned to the sample size
    last,       \* the last slot that fits
    stride,     \* the stride, or lo while it is being doubled
    phase,      \* the random shift of the lattice
    plan        \* plan[i]: the offset of sample i

vars == <<req, pc, first, last, stride, phase, plan>>

AlignUp(v, to)   == IF v % to = 0 THEN v ELSE v + (to - (v % to))
AlignDown(v, to) == v - (v % to)
IsPow2(v)        == v > 0 /\ \A d \in 2 .. v : v % d = 0 => d % 2 = 0

Size   == req.sampleSize
Span   == last - first
Target == Span \div req.count

\* The lattice samples a stride yields.
Count(s) == Span \div s + 1

-----------------------------------------------------------------------------
(***************************************************************************)
(* Mistakes the code could have made where it makes the decisions below.   *)
(***************************************************************************)

\* Doubling once too often.
DoublingOnce == stride <= Target

\* Spreading the samples evenly instead of by the stride.
EvenlySpread(i) == first + phase + AlignDown((i * Span) \div Count(stride), Size)

\* Taking the end for the last byte of the drive.
LastExclusive(r) == AlignDown(r.end - r.sampleSize - 1, r.sampleSize)

\* Aligning the start downwards, into the part to be skipped.
StartDown(r) == AlignDown(r.start, r.sampleSize)

\* Dividing the span without rounding to whole samples.
UnroundedStride == IF Target > Size THEN Target ELSE Size

-----------------------------------------------------------------------------
(***************************************************************************)
(* The decisions of the code.                                              *)
(***************************************************************************)
Valid(r) ==
    /\ r.blockSize > 0
    /\ r.sampleSize > 0 /\ r.sampleSize % r.blockSize = 0
    /\ r.count > 0

Start(r) == AlignUp(r.start, r.sampleSize)
Last(r)  == AlignDown(r.end - r.sampleSize, r.sampleSize)
Fits(r)  == r.end - r.sampleSize >= Start(r)

\* The stride for a sample size that is no power of two.
EvenStride == IF AlignUp(Target, Size) > Size THEN AlignUp(Target, Size) ELSE Size

\* distance: how far from the requested count stride s lands.
Distance(s) == LET d == Count(s) - req.count IN IF d < 0 THEN -d ELSE d

Doubling == stride <= Target \div 2

\* The shifts a random number in 0 .. max yields.
Phases(max) == { AlignDown(r, Size) : r \in 0 .. max }

MaxPhase == Span - (Count(stride) - 1) * stride

LatticeOffset(i) == first + phase + i * stride

\* The last slot gets a sample of its own.
PinsTail(tail) == last - tail >= Size

-----------------------------------------------------------------------------
Init ==
    /\ req \in Requests
    /\ pc = "check"
    /\ first = 0
    /\ last = 0
    /\ stride = 0
    /\ phase = 0
    /\ plan = <<>>

Reject ==
    /\ pc = "check"
    /\ ~(Valid(req) /\ Fits(req))
    /\ pc' = "rejected"
    /\ UNCHANGED <<req, first, last, stride, phase, plan>>

Align ==
    /\ pc = "check"
    /\ Valid(req) /\ Fits(req)
    /\ first' = Start(req)
    /\ last' = Last(req)
    /\ pc' = "stride"
    /\ UNCHANGED <<req, stride, phase, plan>>

\* chooseStride, its early returns.
StrideOfOne ==
    /\ pc = "stride" /\ (Span <= 0 \/ req.count <= 1)
    /\ stride' = Size
    /\ pc' = "slide"
    /\ UNCHANGED <<req, first, last, phase, plan>>

StrideDivides ==
    /\ pc = "stride" /\ Span > 0 /\ req.count > 1
    /\ ~IsPow2(Size)
    /\ stride' = EvenStride
    /\ pc' = "slide"
    /\ UNCHANGED <<req, first, last, phase, plan>>

\* chooseStride, the search for a power of two.
StartDoubling ==
    /\ pc = "stride" /\ Span > 0 /\ req.count > 1
    /\ IsPow2(Size)
    /\ stride' = Size
    /\ pc' = "double"
    /\ UNCHANGED <<req, first, last, phase, plan>>

Double ==
    /\ pc = "double" /\ Doubling
    /\ stride' = stride * 2
    /\ UNCHANGED <<req, pc, first, last, phase, plan>>

PickStride ==
    /\ pc = "double" /\ ~Doubling
    /\ stride' = IF Distance(stride * 2) < Distance(stride) THEN stride * 2 ELSE stride
    /\ pc' = "slide"
    /\ UNCHANGED <<req, first, last, phase, plan>>

Slide ==
    /\ pc = "slide"
    /\ IF MaxPhase >= Size THEN phase' \in Phases(MaxPhase) ELSE phase' = 0
    /\ pc' = "lay"
    /\ UNCHANGED <<req, first, last, stride, plan>>

\* The lattice, and the last slot: appended, or in place of the last sample.
LayOut ==
    /\ pc = "lay"
    /\ LET n    == Count(stride)
           tail == LatticeOffset(n - 1)
       IN  plan' = IF PinsTail(tail)
                   THEN [i \in 0 .. n |-> IF i < n THEN LatticeOffset(i) ELSE last]
                   ELSE [i \in 0 .. n - 1 |-> IF i < n - 1 \/ last <= tail
                                              THEN LatticeOffset(i) ELSE last]
    /\ pc' = "done"
    /\ UNCHANGED <<req, first, last, stride, phase>>

Next ==
    \/ Reject \/ Align
    \/ StrideOfOne \/ StrideDivides \/ StartDoubling \/ Double \/ PickStride
    \/ Slide \/ LayOut

Spec == Init /\ [][Next]_vars

-----------------------------------------------------------------------------
(***************************************************************************)
(* Properties.                                                             *)
(***************************************************************************)

\* Every variable has its type; the stride is a positive multiple of a sample
\* once it is chosen.
TypeOK ==
    /\ req \in Requests
    /\ pc \in {"check", "rejected", "stride", "double", "slide", "lay", "done"}
    /\ first \in Nat /\ last \in Nat /\ phase \in Nat
    /\ stride \in Nat
    /\ pc \in {"double", "slide", "lay", "done"} => stride > 0 /\ stride % Size = 0
    /\ \A i \in DOMAIN plan : plan[i] \in Nat

\* Every sample lies in the part of the drive the run may touch, aligned to
\* the blocks of the drive, and no two overlap: a pattern never runs into
\* another sample or outside the span.
WellPlaced ==
    pc = "done" =>
        \A i \in DOMAIN plan :
            /\ plan[i] % req.blockSize = 0
            /\ req.start <= plan[i] /\ plan[i] + Size <= req.end
            /\ \A j \in DOMAIN plan : i < j => plan[i] + Size <= plan[j]

\* "The very last block is never left to chance": no aligned slot follows the
\* last sample.
LastSlotCovered ==
    pc = "done" =>
        \E i \in DOMAIN plan :
            /\ \A j \in DOMAIN plan : j <= i
            /\ plan[i] + 2 * Size > req.end

\* Two samples that a drive of this real capacity stores in the same place.
Collide(real) ==
    \E i, j \in DOMAIN plan : i < j /\ plan[i] % real = plan[j] % real

(***************************************************************************)
(* A drive that folds its addresses at a multiple of the stride stores two *)
(* samples in the same place, for every phase, as long as two samples of   *)
(* the lattice are that far apart.                                         *)
(***************************************************************************)
FoldsCollide ==
    pc = "done" => \A k \in 1 .. Count(stride) - 1 : Collide(k * stride)

(***************************************************************************)
(* The stride is "the power-of-two stride that lands closest to the        *)
(* requested sample count", when more than one sample is requested.        *)
(***************************************************************************)
Strides == { s \in Size .. 2 * Span + 2 * Size : IsPow2(s) }

IsClosest == \A s \in Strides : Distance(stride) <= Distance(s)

ClosestToCount == (pc = "done" /\ IsPow2(Size) /\ req.count > 1) => IsClosest
=============================================================================
