----------------------------- MODULE MCRecovery -----------------------------
(* The runs of MCEstimate, with a replay of their journals. *)
EXTENDS Recovery

MCOffset == [i \in Sample |-> IF i = 0 THEN 1 ELSE 6]

FailingDrives == { Failing(4, how) : how \in {"drop", "zeros", "reject"} }

FoldingDrives == { Folding(3), Folding(4) }

AllDrives ==
    {WithoutFullSync(Failing(4, "drop"))} \cup FailingDrives \cup FoldingDrives

MCMedia == { [s \in Slot |-> User(s)] }

MCFolds == <<4, 5>>

MCModes == {"check"}
=============================================================================
