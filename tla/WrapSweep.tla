------------------------------ MODULE WrapSweep ------------------------------
(***************************************************************************)
(* The search for the address at which a drive folds: detectWrap and       *)
(* wrapCandidates of run.go, with the sizes as parameters.  The pattern of *)
(* the highest sample is looked for where a drive that folds at each       *)
(* candidate in turn would have put it, smallest candidate first.  The     *)
(* drive folds every address modulo what it really holds; it is honest     *)
(* when that is all it claims.                                             *)
(***************************************************************************)
EXTENDS Integers, FiniteSets

CONSTANTS
    Claims,         \* claimed sizes of the drives, in bytes
    SampleSize,     \* bytes of a sample
    BlockSize,      \* bytes of a block
    Mebi,           \* 1<<20: the smallest candidate
    Gibi,           \* 1<<30
    Giga,           \* 1_000_000_000
    Multiples,      \* 512: how many multiples of each are candidates
    MaxCandidates,  \* 1024: how many candidates are kept
    MaxFaults       \* bound on the reads that fail

ASSUME SizesAssumption ==
    /\ SampleSize \in Nat \ {0} /\ BlockSize \in Nat \ {0}
    /\ SampleSize % BlockSize = 0
    /\ Claims \subseteq Nat /\ \A c \in Claims : c >= SampleSize
    /\ {Mebi, Gibi, Giga, Multiples, MaxCandidates} \subseteq Nat \ {0}
    /\ MaxFaults \in Nat

VARIABLES
    claimed,        \* cfg.End
    real,           \* what the drive holds: addresses fold modulo real
    reached,        \* whether the highest sample was written and read back
    left,           \* the candidates not tried yet; {} before and after
    pc,             \* "start", "sweep" or "done"
    wrapModulus,    \* res.WrapModulus, 0 for none
    wrapEcho,       \* res.WrapEcho
    faults          \* reads that failed

vars == <<claimed, real, reached, left, pc, wrapModulus, wrapEcho, faults>>

IsPow2(v) == v > 0 /\ \A d \in 2 .. v : v % d = 0 => d % 2 = 0

(***************************************************************************)
(* What the units of the code have to do with each other: 1 GiB is a power *)
(* of two of MiB, the multiples of 1 MiB end at half of it, before the     *)
(* decimal gigabyte, and both kinds of gigabytes fit into the list.        *)
(***************************************************************************)
ASSUME UnitsAssumption ==
    /\ Gibi % Mebi = 0 /\ IsPow2(Gibi \div Mebi)
    /\ Gibi <= 2 * Giga
    /\ Multiples * Mebi <= Gibi /\ Multiples * Mebi <= Giga
    /\ IsPow2(Multiples)
    /\ MaxCandidates >= 2 * Multiples

\* The last slot of the drive, which buildPlan always samples.
High == (claimed - SampleSize) - ((claimed - SampleSize) % SampleSize)

-----------------------------------------------------------------------------
(***************************************************************************)
(* Mistakes the code could have made where it makes the decisions below.   *)
(***************************************************************************)

\* Keeping the smallest candidates when there are too many.
KeepSmallest(S) == { v \in S : Cardinality({ w \in S : w < v }) < MaxCandidates }

\* Probing candidates that leave the highest address where it is.
ProbeEverything(m) == (High % m) % BlockSize = 0

\* Trying the largest candidate first.
LargestFirst(m) == \A k \in left : k <= m

-----------------------------------------------------------------------------
(***************************************************************************)
(* The candidates: powers of two, and the first multiples of each unit,    *)
(* from 1 MiB up to the claimed size.                                      *)
(***************************************************************************)
Powers == { v \in Mebi .. claimed : v % Mebi = 0 /\ IsPow2(v \div Mebi) }

Units == { k * unit : k \in 1 .. Multiples, unit \in {Mebi, Gibi, Giga} }

Plausible == Powers \cup { v \in Units : Mebi <= v /\ v <= claimed }

\* Too many candidates: the largest are kept.
Keep(S) == { v \in S : Cardinality({ w \in S : w > v }) < MaxCandidates }

Candidates == Keep(Plausible)

\* The candidates are tried in ascending order.
IsNext(m) == \A k \in left : m <= k

\* Where a drive folding at m would have put the highest sample.
Echo(m) == High % m

\* Nothing is probed where nothing folds, or off the blocks of the drive.
WorthProbing(m) == Echo(m) # High /\ Echo(m) % BlockSize = 0

\* The pattern of the highest sample is read at the echo: the drive stores
\* both addresses in the same place.
Found(m) == Echo(m) % real = High % real

-----------------------------------------------------------------------------
Init ==
    /\ claimed \in Claims
    /\ real \in { r \in Mebi .. claimed : r % BlockSize = 0 } \cup {claimed}
    /\ reached \in BOOLEAN
    /\ left = {}
    /\ pc = "start"
    /\ wrapModulus = 0
    /\ wrapEcho = 0
    /\ faults = 0

\* Nothing of the run is at the highest sample.
NothingUpThere ==
    /\ pc = "start" /\ ~reached
    /\ pc' = "done"
    /\ UNCHANGED <<claimed, real, reached, left, wrapModulus, wrapEcho, faults>>

StartSweep ==
    /\ pc = "start" /\ reached
    /\ left' = Candidates
    /\ pc' = "sweep"
    /\ UNCHANGED <<claimed, real, reached, wrapModulus, wrapEcho, faults>>

Trying(m) == pc = "sweep" /\ m \in left /\ IsNext(m)

\* The candidate is skipped, or its echo holds something else.
PassCandidate(m) ==
    /\ Trying(m)
    /\ ~WorthProbing(m) \/ ~Found(m)
    /\ left' = left \ {m}
    /\ UNCHANGED <<claimed, real, reached, pc, wrapModulus, wrapEcho, faults>>

ReadFails(m) ==
    /\ Trying(m) /\ WorthProbing(m)
    /\ faults < MaxFaults /\ faults' = faults + 1
    /\ left' = left \ {m}
    /\ UNCHANGED <<claimed, real, reached, pc, wrapModulus, wrapEcho>>

FindEcho(m) ==
    /\ Trying(m) /\ WorthProbing(m) /\ Found(m)
    /\ wrapModulus' = m
    /\ wrapEcho' = Echo(m)
    /\ left' = {}
    /\ pc' = "done"
    /\ UNCHANGED <<claimed, real, reached, faults>>

Finish ==
    /\ pc = "sweep" /\ left = {}
    /\ pc' = "done"
    /\ UNCHANGED <<claimed, real, reached, left, wrapModulus, wrapEcho, faults>>

Next ==
    \/ NothingUpThere \/ StartSweep \/ Finish
    \/ \E m \in left : PassCandidate(m) \/ ReadFails(m) \/ FindEcho(m)

Spec == Init /\ [][Next]_vars

-----------------------------------------------------------------------------
(***************************************************************************)
(* Properties.                                                             *)
(***************************************************************************)

\* Every variable has its type.
TypeOK ==
    /\ claimed \in Claims /\ real \in 1 .. claimed /\ reached \in BOOLEAN
    /\ left \subseteq Mebi .. claimed
    /\ pc \in {"start", "sweep", "done"}
    /\ wrapModulus \in 0 .. claimed
    /\ wrapEcho \in 0 .. claimed - 1
    /\ faults \in 0 .. MaxFaults

\* Some address of the highest sample lies beyond what the drive holds.
Folds == real <= High

\* A fold is reported of drives that fold, never of honest ones.
OnlyFoldsAreReported == wrapModulus # 0 => Folds

(***************************************************************************)
(* A drive that folds at one of the candidates is caught, whatever was     *)
(* trimmed from the list and however its addresses lie, unless a read      *)
(* fails; and what is then reported as its capacity it really holds.       *)
(***************************************************************************)
CandidateFoldsAreCaught ==
    (pc = "done" /\ reached /\ faults = 0 /\ Folds /\ real \in Candidates)
    => wrapModulus \in 1 .. real

(***************************************************************************)
(* "Whole binary gigabytes and whole decimal gigabytes" are always tried:  *)
(* the candidates that had to give way to them are smaller, unless the     *)
(* drive claims more than twice the largest multiple.                      *)
(***************************************************************************)
Gigabytes == { k * unit : k \in 1 .. Multiples, unit \in {Gibi, Giga} }

GigabyteFoldsAreCaught ==
    (/\ pc = "done" /\ reached /\ faults = 0 /\ Folds
     /\ real \in Gigabytes /\ claimed < 2 * Multiples * Gibi)
    => wrapModulus \in 1 .. real
=============================================================================
