------------------------------ MODULE Recovery ------------------------------
(***************************************************************************)
(* A run and what -restore makes of it afterwards: doRestore of main.go on *)
(* the journal of a run that died, or that ended and kept its journal.     *)
(* Every record is written back in the order of the file, whatever happens *)
(* to the ones before, and the drive is flushed.  The replay may fail or   *)
(* die itself and be started again.                                        *)
(***************************************************************************)
EXTENDS Estimate

VARIABLES
    rpc,        \* the replay: "idle", "write", "flush", "restored", "failed",
                \* "refused"
    next,       \* the record it is at
    failures    \* whether a record could not be written back

replay  == <<rpc, next, failures>>
runVars == <<rigid, pc, cur, file, memory, results, todo, wrap, undoing, runErr,
             search, probe>>

everything == <<allVars, replay>>

-----------------------------------------------------------------------------
(***************************************************************************)
(* Mistakes the code could have made where it makes the decisions below.   *)
(***************************************************************************)

\* Counting only the failure of the last record.
OnlyLastFailure == FALSE

\* Replaying the torn record at the end as if it were whole.
WithTornTail == DOMAIN log

-----------------------------------------------------------------------------
(***************************************************************************)
(* The decisions of the code.                                              *)
(***************************************************************************)

(***************************************************************************)
(* What readJournal makes of the file (Journal.tla).  It refuses a torn    *)
(* record that a whole one follows.  It may refuse one that none follows,  *)
(* depending on where it ends, or stop there.                              *)
(***************************************************************************)
Torn == { k \in DOMAIN log : log[k].part = "torn" }

Unreadable == \E k \in Torn : \E m \in DOMAIN log \ Torn : k < m

\* The records the reader returns: those before the first torn one.
Intact == { k \in DOMAIN log : 1 .. k \cap Torn = {} }

\* What is there of a record to be written back.
Blocks(r) == IF r.part = "whole" THEN r.data ELSE Garbage

\* A failure is not forgotten.
FailuresSoFar == failures

\* The step after record k.
AfterLast(k) == IF k + 1 \in Intact THEN "write" ELSE "flush"

-----------------------------------------------------------------------------
RecInit == EstInit /\ rpc = "idle" /\ next = 1 /\ failures = FALSE

RunStep == EstNext /\ UNCHANGED replay

\* The run is over and its journal is there.
Over == pc \in {"dead", "done"} /\ journal \in {"open", "kept"}

CanStart == Over /\ rpc \in {"idle", "failed"}

(***************************************************************************)
(* The drive is without power between the run, or a replay that did not    *)
(* finish, and the next replay: a cell is found with anything it may hold. *)
(* One cell at a time, a cell left out having kept what was written last.  *)
(***************************************************************************)
LosePower ==
    /\ CanStart
    /\ \E c \in Dirty, x \in Content :
          /\ x \in maybe[c] /\ maybe[c] # {x}
          /\ view' = [view EXCEPT ![c] = x]
          /\ maybe' = [maybe EXCEPT ![c] = {x}]
    /\ NoFault
    /\ UNCHANGED <<runVars, file, replay>>

StartReplay ==
    /\ CanStart
    /\ ~Unreadable /\ Intact # {}
    /\ rpc' = "write"
    /\ next' = 1
    /\ failures' = FALSE
    /\ NoFault
    /\ UNCHANGED <<runVars, media>>

\* What is refused is refused at the first attempt: the file does not change.
RefuseReplay ==
    /\ CanStart /\ rpc = "idle"
    /\ Torn # {} \/ Intact = {}
    /\ rpc' = "refused"
    /\ NoFault
    /\ UNCHANGED <<runVars, media, next, failures>>

Replay ==
    /\ rpc = "write"
    /\ WriteSlot(log[next].slot, Blocks(log[next]))
    /\ failures' = FailuresSoFar
    /\ rpc' = AfterLast(next)
    /\ next' = next + 1
    /\ UNCHANGED runVars

ReplayFails ==
    /\ rpc = "write"
    /\ WriteSlotFails(log[next].slot, Blocks(log[next]))
    /\ failures' = TRUE
    /\ rpc' = AfterLast(next)
    /\ next' = next + 1
    /\ UNCHANGED runVars

ReplaySync ==
    /\ rpc = "flush"
    /\ maybe' = Flush(drive, maybe, view)
    /\ rpc' = IF failures THEN "failed" ELSE "restored"
    /\ NoFault
    /\ UNCHANGED <<runVars, view, next, failures>>

ReplaySyncFails ==
    /\ rpc = "flush"
    /\ rpc' = "failed"
    /\ Fault
    /\ UNCHANGED <<runVars, media, next, failures>>

\* The replay dies and can be started again.
ReplayCrash ==
    /\ rpc \in {"write", "flush"}
    /\ rpc' = "failed"
    /\ NoFault
    /\ UNCHANGED <<runVars, media, next, failures>>

RecNext ==
    \/ RunStep
    \/ LosePower \/ StartReplay \/ RefuseReplay
    \/ Replay \/ ReplayFails \/ ReplaySync \/ ReplaySyncFails \/ ReplayCrash

RecSpec == RecInit /\ [][RecNext]_everything

-----------------------------------------------------------------------------
(***************************************************************************)
(* Properties.                                                             *)
(***************************************************************************)

\* No two addresses share a cell.
Straight == \A s, t \in Slot : drive.phys[s] = drive.phys[t] => s = t

(***************************************************************************)
(* What the search costs on a drive that folds: it went ahead although the *)
(* sample in this cell could not be put back.  A probe of another address  *)
(* of the cell then journals the pattern it finds for an original, behind  *)
(* the record of the sample (run.go:192, run.go:288).                      *)
(***************************************************************************)
Lost(c) ==
    /\ ~Straight /\ probes > 0
    /\ \E i \in restoreErrors \cap Sample :
          drive.kind[Offset[i]] = "store" /\ drive.phys[Offset[i]] = c

(***************************************************************************)
(* After a replay that reports success the cells of the drive hold what    *)
(* they held before the run, wherever the run died, whatever power losses  *)
(* did to unflushed writes and however often the replay was cut off; a     *)
(* full flush makes that durable.  Excepted are exactly the cells that the *)
(* search costs on a drive that folds.  (doRestore of main.go: "the        *)
(* journal can now be deleted".)                                           *)
(***************************************************************************)
ReplayRestores ==
    rpc = "restored" =>
        /\ \A c \in Slot : Lost(c) \/ view[c] = before[c]
        /\ drive.fullSync => \A c \in Dirty : Lost(c)

(***************************************************************************)
(* A replay can only help: no step of it takes a cell away from its        *)
(* original, but for a write that fails, and for the cells that the search *)
(* costs.                                                                  *)
(***************************************************************************)
ReplayNeverHarms ==
    [][ rpc = "write" =>
          \A c \in Slot : view[c] = before[c] =>
             view'[c] = before[c] \/ faults' > faults \/ Lost(c) ]_everything

=============================================================================
