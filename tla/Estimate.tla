------------------------------ MODULE Estimate ------------------------------
(***************************************************************************)
(* A whole run with the search for the real capacity: runScan with         *)
(* estimateCapacity of run.go.  When samples have failed, and the fold     *)
(* point is not known, the run searches between the highest good and the   *)
(* lowest bad sample: each probe reads a slot, journals it, overwrites it, *)
(* reads it back and restores it.  The run's journal stays open for this,  *)
(* and what doCheck does with it comes after.  Scan is the rest of the     *)
(* run; its variables keep their meaning.                                  *)
(***************************************************************************)
EXTENDS Scan, Integers, FiniteSetsExt

CONSTANTS
    First,          \* the first slot a run may touch: alignUp(start)
    MaxProbes       \* maxProbes, 48

\* The plan ends with the last slot (Plan.tla, LastSlotIsSampled).
ASSUME SearchAssumption ==
    /\ First \in Slot /\ \A i \in Sample : First <= Offset[i]
    /\ Offset[High] = Slots - 1
    /\ MaxProbes \in Nat

(***************************************************************************)
(* Slots <= 2^MaxProbes, written with a sequence of ranges that at most    *)
(* double and grow from one slot to all of them: 48 probes are enough for  *)
(* 2^48 slots, an exabyte in samples of 4 KB.                              *)
(***************************************************************************)
ASSUME ProbesAssumption ==
    \E range \in [0 .. MaxProbes -> 1 .. Slots] :
        /\ range[0] = 1 /\ range[MaxProbes] = Slots
        /\ \A k \in 0 .. MaxProbes - 1 : range[k + 1] <= 2 * range[k]

VARIABLES
    est,        \* the search: "off", "search" or "done"
    lo,         \* slots from First on: lo is known good, -1 for none
    hi,         \* hi is known bad
    at,         \* the next I/O of the probe, "idle" between probes
    orig,       \* the contents the probe has read
    took,       \* whether its write returned no error
    held,       \* whether its pattern came back
    probes,     \* res.Probes
    unrestored, \* restoreFailed: a probe could not put its contents back
    capacity,   \* res.EstimatedCapacity in slots, -1 while unknown
    note        \* which explanation res.EstimateNote gives

search == <<est, lo, hi, probes, capacity, note>>
probe  == <<at, orig, took, held, unrestored>>
scan   == <<rigid, pc, cur, memory, results, todo, wrap, restored, runErr>>

allVars == <<vars, search, probe>>

-----------------------------------------------------------------------------
(***************************************************************************)
(* Mistakes the code could have made where it makes the decisions below.   *)
(***************************************************************************)

\* Writing the pattern without a record.
ProbeUnrecorded(s) == log

\* Reporting the samples that could not be restored, but not the probes.
ProbeErrorForgotten == restoreErrors

\* Taking the highest good slot for the capacity.
LastGoodSlot == First + lo

\* Searching on until the bounds meet.
SearchesOn == hi > lo /\ probes < MaxProbes /\ ~unrestored

-----------------------------------------------------------------------------
(***************************************************************************)
(* The decisions of the code.                                              *)
(***************************************************************************)
Failed == { i \in Sample : verdict[i] # "ok" }

\* The slots of the highest good and the lowest bad sample.
LastGood == IF Failed = Sample THEN -1 ELSE Max({ Offset[i] : i \in Sample \ Failed })
FirstBad == Min({ Offset[i] : i \in Failed })

Interleaved == LastGood > FirstBad
Reused == \E i \in Sample : verdict[i] = "aliased"

Mid  == lo + (hi - lo) \div 2
Here == First + Mid

\* The record a probe of slot s appends; none without a journal.
ProbeRecorded(s) ==
    IF journal = "open" THEN Append(log, Entry(s, Read(s), "whole")) ELSE log

ProbeLeftover(s) ==
    {log, Append(log, Entry(s, Read(s), "torn")), Append(log, Entry(s, Read(s), "whole"))}

\* A probe that could not be restored is reported like a sample.
ProbeErrorReported == restoreErrors \cup {ProbeError}

Continues == hi - lo > 1 /\ probes < MaxProbes /\ ~unrestored

Boundary == IF lo < 0 THEN First ELSE First + lo + 1

-----------------------------------------------------------------------------
EstInit ==
    /\ Init
    /\ est = "off" /\ at = "idle" /\ note = ""
    /\ lo = -1 /\ hi = 0
    /\ orig = Nil
    /\ took = FALSE /\ held = FALSE /\ unrestored = FALSE
    /\ probes = 0
    /\ capacity = -1

\* A destructive scan that returned no error looks for the capacity before
\* the run goes on.
Due == pc = "return" /\ runErr = "none" /\ mode # "readonly"

ScanStep ==
    /\ Due => est = "done"
    /\ Step
    /\ UNCHANGED <<search, probe>>

Deciding == Due /\ est = "off"

\* The outcome of the decision, when it is not to search.
Conclude(c, n) ==
    /\ est' = "done"
    /\ capacity' = c
    /\ note' = n
    /\ NoFault
    /\ UNCHANGED <<scan, media, file, restoreErrors, lo, hi, probes, probe>>

AllHeld ==
    /\ Deciding /\ Failed = {}
    /\ IF wrapModulus > 0 THEN Conclude(wrapModulus, "fold") ELSE Conclude(Slots, "")

TakeFold ==
    /\ Deciding /\ Failed # {} /\ wrapModulus > 0
    /\ Conclude(wrapModulus, "fold")

GiveUpInterleaved ==
    /\ Deciding /\ Failed # {} /\ wrapModulus = 0 /\ Interleaved
    /\ Conclude(-1, "interleaved")

GiveUpReused ==
    /\ Deciding /\ Failed # {} /\ wrapModulus = 0 /\ ~Interleaved /\ Reused
    /\ Conclude(-1, "reused")

StartSearch ==
    /\ Deciding /\ Failed # {} /\ wrapModulus = 0 /\ ~Interleaved /\ ~Reused
    /\ est' = "search"
    /\ lo' = IF LastGood >= 0 THEN LastGood - First ELSE -1
    /\ hi' = FirstBad - First
    /\ NoFault
    /\ UNCHANGED <<scan, media, file, restoreErrors, probes, capacity, note, probe>>

-----------------------------------------------------------------------------
(***************************************************************************)
(* One probe, an action per I/O call.                                      *)
(***************************************************************************)
StartProbe ==
    /\ est = "search" /\ at = "idle" /\ Continues
    /\ probes' = probes + 1
    /\ at' = "read"
    /\ NoFault
    /\ UNCHANGED <<scan, media, file, restoreErrors, est, lo, hi, capacity, note,
                   orig, took, held, unrestored>>

\* The probe returns: the slot becomes a bound of the search.
Bound(good) ==
    /\ at' = "idle"
    /\ IF good THEN lo' = Mid /\ UNCHANGED hi ELSE hi' = Mid /\ UNCHANGED lo
    /\ UNCHANGED <<scan, est, probes, capacity, note>>

ProbeRead ==
    /\ at = "read"
    /\ orig' = Read(Here)
    /\ at' = "record"
    /\ NoFault
    /\ UNCHANGED <<scan, media, file, restoreErrors, search, took, held, unrestored>>

ProbeReadFails ==
    /\ at = "read"
    /\ Bound(FALSE)
    /\ Fault
    /\ UNCHANGED <<media, file, restoreErrors, orig, took, held, unrestored>>

ProbeRecord ==
    /\ at = "record"
    /\ log' = ProbeRecorded(Here)
    /\ at' = "write"
    /\ NoFault
    /\ UNCHANGED <<scan, media, journal, restoreErrors, search, orig, took, held,
                   unrestored>>

\* Nothing has been written yet: the slot counts as bad.
ProbeRecordFails ==
    /\ at = "record" /\ journal = "open"
    /\ log' \in ProbeLeftover(Here)
    /\ Bound(FALSE)
    /\ Fault
    /\ UNCHANGED <<media, journal, restoreErrors, orig, took, held, unrestored>>

ProbeWrite ==
    /\ at = "write"
    /\ \/ WriteSlot(Here, Pattern(Here)) /\ took' = TRUE
       \/ WriteSlotFails(Here, Pattern(Here)) /\ took' = FALSE
    /\ at' = "reopen"
    /\ UNCHANGED <<scan, file, restoreErrors, search, orig, held, unrestored>>

\* The flush may fail unnoticed.
ProbeReopen ==
    /\ at = "reopen"
    /\ \/ maybe' = Flush(drive, maybe, view) /\ NoFault
       \/ UNCHANGED maybe /\ Fault
    /\ at' = "readback"
    /\ UNCHANGED <<scan, view, file, restoreErrors, search, orig, took, held, unrestored>>

(***************************************************************************)
(* So may the reopening, but then the device is closed: neither the        *)
(* reading back nor the restore can succeed.                               *)
(***************************************************************************)
ProbeReopenFails ==
    /\ at = "reopen"
    /\ restoreErrors' = ProbeErrorReported
    /\ unrestored' = TRUE
    /\ Bound(FALSE)
    /\ Fault
    /\ UNCHANGED <<media, file, orig, took, held>>

ProbeReadBack ==
    /\ at = "readback"
    /\ \/ held' = (took /\ Read(Here) = Pattern(Here)) /\ NoFault
       \/ took /\ held' = FALSE /\ Fault
    /\ at' = "restore"
    /\ UNCHANGED <<scan, media, file, restoreErrors, search, orig, took, unrestored>>

\* The original is put back, whatever happened before.
ProbeRestore ==
    /\ at = "restore"
    /\ WriteSlot(Here, orig)
    /\ at' = "flush"
    /\ UNCHANGED <<scan, file, restoreErrors, search, orig, took, held, unrestored>>

ProbeRestoreFails ==
    /\ at = "restore"
    /\ WriteSlotFails(Here, orig)
    /\ restoreErrors' = ProbeErrorReported
    /\ unrestored' = TRUE
    /\ Bound(held)
    /\ UNCHANGED <<file, orig, took, held>>

ProbeFlush ==
    /\ at = "flush"
    /\ maybe' = Flush(drive, maybe, view)
    /\ Bound(held)
    /\ NoFault
    /\ UNCHANGED <<view, file, restoreErrors, orig, took, held, unrestored>>

ProbeFlushFails ==
    /\ at = "flush"
    /\ restoreErrors' = ProbeErrorReported
    /\ unrestored' = TRUE
    /\ Bound(held)
    /\ Fault
    /\ UNCHANGED <<media, file, orig, took, held>>

EndSearch ==
    /\ est = "search" /\ at = "idle" /\ ~Continues
    /\ est' = "done"
    /\ capacity' = Boundary
    /\ note' = IF hi - lo > 1 THEN "between" ELSE ""
    /\ NoFault
    /\ UNCHANGED <<scan, media, file, restoreErrors, lo, hi, probes, probe>>

\* The run dies; a record being appended may get to the file in part.
EstCrash ==
    /\ Crash \/ /\ at = "record" /\ journal = "open"
                /\ pc' = "dead"
                /\ log' \in ProbeLeftover(Here)
                /\ NoFault
                /\ UNCHANGED <<rigid, cur, media, journal, memory, results, todo,
                               wrap, undoing, runErr>>
    /\ at' = "idle" /\ est' = "done"
    /\ UNCHANGED <<lo, hi, probes, capacity, note, orig, took, held, unrestored>>

EstNext ==
    \/ ScanStep
    \/ AllHeld \/ TakeFold \/ GiveUpInterleaved \/ GiveUpReused \/ StartSearch
    \/ StartProbe \/ ProbeRead \/ ProbeReadFails \/ ProbeRecord \/ ProbeRecordFails
    \/ ProbeWrite \/ ProbeReopen \/ ProbeReopenFails \/ ProbeReadBack
    \/ ProbeRestore \/ ProbeRestoreFails \/ ProbeFlush \/ ProbeFlushFails
    \/ EndSearch
    \/ EstCrash

EstSpec == EstInit /\ [][EstNext]_allVars

-----------------------------------------------------------------------------
(***************************************************************************)
(* Properties.                                                             *)
(***************************************************************************)

\* The variables of the search have their types; its bounds never cross.
EstTypeOK ==
    /\ est \in {"off", "search", "done"}
    /\ lo \in -1 .. Slots - 1 /\ hi \in 0 .. Slots - 1
    /\ est = "search" => lo < hi
    /\ at \in {"idle", "read", "record", "write", "reopen", "readback", "restore", "flush"}
    /\ orig \in Content \cup {Nil}
    /\ took \in BOOLEAN /\ held \in BOOLEAN /\ unrestored \in BOOLEAN
    /\ probes \in 0 .. MaxProbes
    /\ capacity \in -1 .. Slots
    /\ note \in {"", "fold", "interleaved", "reused", "between"}

(***************************************************************************)
(* The search is undo-logged like the scan: whenever the run dies, every   *)
(* cell that may not hold its original has it in a whole record.  Whether  *)
(* the file can be read up to that record is another matter (Recovery).    *)
(***************************************************************************)
ProbesAreRecorded ==
    (mode = "check" /\ journal # "removed") =>
        \A c \in Dirty : \E k \in DOMAIN log : PutsBack(k, c)

(***************************************************************************)
(* The journal is removed only when every cell, those of the probes        *)
(* included, is back to its original.                                      *)
(***************************************************************************)
ProbesLeaveNoTrace ==
    journal = "removed" => view = before /\ (drive.fullSync => Dirty = {})

(***************************************************************************)
(* On a drive that holds the slots below some boundary, each on a cell of  *)
(* its own, and none above it, a run that met no I/O error never reports   *)
(* more than the boundary, and reports less only as a range the boundary   *)
(* lies in.  Where writes above it do not even fail the answer is exact,   *)
(* and MaxProbes probes are enough for it.                                 *)
(***************************************************************************)
HoldsBelow(b) ==
    /\ \A s \in Slot : drive.kind[s] = "store" <=> s < b
    /\ \A s, t \in Slot : drive.phys[s] = drive.phys[t] => s = t

Rejects == \E s \in Slot : drive.kind[s] = "reject"

Finished == est = "done" /\ pc # "dead" /\ faults = 0

EstimateBrackets ==
    Finished => \A b \in First .. Slots : HoldsBelow(b) =>
        IF note = "between"
        THEN Rejects /\ capacity <= b /\ b <= First + hi
        ELSE capacity = b

(***************************************************************************)
(* As run.go:237 has it, "a binary search between the highest good sample  *)
(* and the lowest bad one finds it to within one sample", and              *)
(* docs/design.md:74 has it for devices that "error above their real       *)
(* capacity" too.  The first probe above the capacity of such a device     *)
(* cannot be written, and cannot be restored either, which ends the        *)
(* search.                                                                 *)
(***************************************************************************)
SearchFindsBoundary ==
    Finished => \A b \in First .. Slots : HoldsBelow(b) => capacity \in b - 1 .. b + 1
=============================================================================
