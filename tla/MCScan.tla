------------------------------- MODULE MCScan -------------------------------
(***************************************************************************)
(* Instances of Scan for TLC.  Six slots, and samples at slots 1, 3 and 5: *)
(* a lattice of stride 2 with phase 1, the highest sample on the last      *)
(* slot, and slots that are not sampled between them.                      *)
(***************************************************************************)
EXTENDS Scan

MCOffset == [i \in Sample |-> 2 * i + 1]

(***************************************************************************)
(* Folding(4) puts samples 0 and 2 on one cell, Folding(2) all three;      *)
(* Folding(3) puts no two samples together but reaches unsampled cells     *)
(* 0 and 2.                                                                *)
(***************************************************************************)
FoldingDrives == { Folding(2), Folding(3), Folding(4) }

FailingDrives == { Failing(real, how) : real \in {2, 4}, how \in {"drop", "zeros", "reject"} }

\* A fold onto a range whose upper part drops or zeroes what it is given.
MixedDrives == { [Folding(4) EXCEPT !.kind = Failing(3, how).kind] : how \in {"drop", "zeros"} }

FallbackDrives == { WithoutFullSync(Honest), WithoutFullSync(Folding(4)) }

AllDrives == {Honest} \cup FoldingDrives \cup FailingDrives \cup MixedDrives \cup FallbackDrives

\* Distinct user data, and a partly blank drive that repeats a block.
MCMedia == { [s \in Slot |-> User(s)],
             [s \in Slot |-> IF s \in {1, 2, 5} THEN Zero ELSE User(0)] }

UserMedia == { [s \in Slot |-> User(s)] }

DestructiveModes == {"check", "unjournaled"}
JournaledModes   == {"check"}

MCFolds == <<2, 3, 4, 6>>
=============================================================================
