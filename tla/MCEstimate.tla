----------------------------- MODULE MCEstimate -----------------------------
(* Two samples seven slots apart on drives that fail from any slot on. *)
EXTENDS Estimate

MCOffset == [i \in Sample |-> IF i = 0 THEN 1 ELSE 7]

FailingDrives == { Failing(b, how) : b \in 1 .. 7, how \in {"drop", "zeros", "reject"} }

FoldingDrives == { Folding(3), Folding(4), Folding(6) }

AllDrives ==
    {Honest, WithoutFullSync(Failing(4, "drop"))} \cup FailingDrives \cup FoldingDrives

MCMedia == { [s \in Slot |-> User(s)] }

MCFolds == <<4, 5>>

MCModes == {"check", "unjournaled"}
=============================================================================
