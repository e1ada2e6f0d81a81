------------------------------ MODULE UndoLog ------------------------------
(***************************************************************************)
(* What the undo journal promises, without any of how it is done.  A       *)
(* program changes cells of a disk and means to put them back.  It may     *)
(* keep an undo log; while it does, it only lets a cell depart from its    *)
(* original contents after that original is in the log, and it only throws *)
(* the log away when no cell departs from its original any more.           *)
(* (journal.go, "the journal is the insurance".)                           *)
(***************************************************************************)
CONSTANT Cells

VARIABLES
    saved,      \* the cells whose original is in the log
    dirty,      \* the cells that may not hold their original
    undo        \* "off" (no log yet, or none wanted), "on", "gone"

vars == <<saved, dirty, undo>>

TypeOK ==
    /\ saved \subseteq Cells
    /\ dirty \subseteq Cells
    /\ undo \in {"off", "on", "gone"}

Init == saved = {} /\ dirty = {} /\ undo = "off"

Begin == undo = "off" /\ dirty = {} /\ undo' = "on" /\ UNCHANGED <<saved, dirty>>

\* Originals are saved before anything is changed.
Save(c) ==
    /\ undo = "on" /\ dirty = {}
    /\ saved' = saved \cup {c}
    /\ UNCHANGED <<dirty, undo>>

\* A run without a log is free to change anything.
Touch(c) ==
    /\ undo = "off" \/ (undo = "on" /\ c \in saved)
    /\ dirty' = dirty \cup {c}
    /\ UNCHANGED <<saved, undo>>

\* Cells get their originals back, one by one or many at a flush.
Clean ==
    /\ dirty' \in SUBSET dirty
    /\ UNCHANGED <<saved, undo>>

Drop ==
    /\ undo = "on" /\ dirty = {}
    /\ undo' = "gone"
    /\ UNCHANGED <<saved, dirty>>

Next ==
    \/ Begin \/ Clean \/ Drop
    \/ \E c \in Cells : Save(c) \/ Touch(c)

Spec == Init /\ [][Next]_vars

(***************************************************************************)
(* What follows from the discipline: whatever may have departed from its   *)
(* original can be put back as long as a log was kept, and once the log is *)
(* gone there is nothing to put back.                                      *)
(***************************************************************************)
Protected ==
    /\ undo = "on" => dirty \subseteq saved
    /\ undo = "gone" => dirty = {}
=============================================================================
