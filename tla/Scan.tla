-------------------------------- MODULE Scan --------------------------------
(***************************************************************************)
(* One run of the destructive check: runScan of run.go with -no-estimate,  *)
(* from the creation of the undo journal to its removal in doCheck of      *)
(* main.go.  The run                                                       *)
(*   1. reads every sample's original and appends it to the journal,       *)
(*   2. writes a pattern bound to its address to every sample, flushes,    *)
(*   3. reopens the device and reads the samples back in a shuffled order, *)
(*      then looks for the pattern of the highest sample at the addresses  *)
(*      where a folding drive would have put it,                           *)
(*   4. writes the originals back, flushes, and removes the journal.       *)
(* Any read, write, flush or reopen of the device, and any append to the   *)
(* journal, may fail; the process may die, or the drive be pulled, at any  *)
(* step.                                                                   *)
(***************************************************************************)
EXTENDS BlockDevice

CONSTANTS
    N,          \* number of samples of the plan
    Offset,     \* Offset[i] is the slot of sample i, ascending (plan.go)
    Drives,     \* the drives a run may meet
    Media,      \* what their cells may hold before the run
    Modes,      \* the modes a run may be started in
    Folds,      \* the candidates of the wrap sweep, ascending, in slots
    MaxFaults   \* bound on the I/O errors of one run

Sample == 0 .. N - 1

AllModes == {"check", "unjournaled", "readonly"}

ASSUME PlanAssumption ==
    /\ N \in Nat \ {0}
    /\ Offset \in [Sample -> Slot]
    /\ \A i, j \in Sample : i < j => Offset[i] < Offset[j]

ASSUME EnvironmentAssumption ==
    /\ Drives \subseteq Drive
    /\ Media \subseteq [Slot -> Blank]
    /\ Modes \subseteq AllModes
    /\ Folds \in Seq(Nat \ {0})
    /\ MaxFaults \in Nat

VARIABLES
    drive,          \* the drive, fixed for the run
    before,         \* what its cells held before the run, fixed
    mode,           \* "check", "unjournaled" (-journal none) or "readonly"
    pc,             \* the phase of the run
    cur,            \* loop index of the phase
    view,           \* view[c]: what a read of cell c returns
    maybe,          \* maybe[c]: what cell c may hold after a power loss
    log,            \* the records of the journal file
    journal,        \* "none", "open", "kept" or "removed"
    originals,      \* originals[i]: the buffer read in phase 1, or Nil
    written,        \* the samples with written[i]: a write was attempted
    verdict,        \* res.Samples[i].Verdict, "" while undecided
    aliasOf,        \* res.Samples[i].AliasOffset, Slots for none (-1)
    todo,           \* the samples not verified yet
    wrapModulus,    \* res.WrapModulus
    wrapEcho,       \* res.WrapEcho
    restored,       \* the samples with res.Samples[i].Restored
    restoreErrors,  \* res.RestoreErrors: samples, FinalFlush, ProbeError
    runErr,         \* the error runScan returned, "none" for nil
    faults          \* how many I/O errors the run has met

rigid   == <<drive, before, mode>>
media   == <<view, maybe>>
file    == <<log, journal>>
memory  == <<originals, written>>
results == <<verdict, aliasOf>>
wrap    == <<wrapModulus, wrapEcho>>
undoing == <<restored, restoreErrors>>

vars == <<rigid, pc, cur, media, file, memory, results, todo, wrap, undoing,
          runErr, faults>>

-----------------------------------------------------------------------------
Phases == {"create", "read", "write", "reopen", "verify", "wrapscan",
           "restore", "return", "done", "dead"}

Verdicts == {"", "ok", "unchanged", "zeros", "aliased", "corrupt",
             "read-error", "write-error"}

RunErrors == {"none", "setup", "journal", "flush", "reopen"}

\* A buffer that was never filled, and an alias offset that was never set.
Nil     == [tag |-> "nil", slot |-> 0]
NoAlias == Slots

\* A journal record; torn when the file ends inside it.
Entry(s, x, part) == [slot |-> s, data |-> x, part |-> part]
Entries == [slot : Slot, data : Content, part : {"whole", "torn"}]

\* The entry of res.RestoreErrors for the flush after the last restore.
FinalFlush == N

\* The entry for a probe of the search for the capacity (Estimate.tla).
ProbeError == N + 1

High == N - 1       \* the highest sample

-----------------------------------------------------------------------------
(***************************************************************************)
(* Mistakes the code could have made where it makes the decisions below.   *)
(* Each run of the project is repeated with one of them in place of the    *)
(* decision, to see that its properties depend on it.                      *)
(***************************************************************************)

\* Writing a sample whose original could not be read.
OverwriteRegardless(i) == TRUE

\* Marking a sample as written only when the write returned no error.
RestoreWrittenOk(i) == i \in written /\ originals[i] # Nil /\ verdict[i] # "write-error"

\* Removing the journal at the end of every run that returned no error.
DiscardAlways == TRUE

\* A pattern that depends on the seed only, not on the address.
UnboundPattern(i) == Pattern(0)

\* Looking for unchanged data before looking for zeros.
ClassifyUnchangedFirst(i, got) ==
    IF got = Pattern(Offset[i]) THEN "ok"
    ELSE IF got = originals[i] THEN "unchanged"
    ELSE IF got = Zero THEN "zeros"
    ELSE IF got.tag = "pattern" THEN "aliased"
    ELSE "corrupt"

\* Probing addresses that do not fold, and accepting any pattern as an echo.
ProbeEverything(m)   == TRUE
AnyPatternIsEcho(m)  == view[drive.phys[Offset[High] % m]].tag = "pattern"

\* Journaling the buffer of the sample before the read has filled it.
RecordUnread(i, part) == Entry(Offset[i], originals[i], part)

-----------------------------------------------------------------------------
(***************************************************************************)
(* The decisions of the code.                                              *)
(***************************************************************************)

\* The pattern expected at sample i.
Expected(i) == Pattern(Offset[i])

\* What a read of slot s returns now.
Read(s) == Load(drive, view, s)

\* Phase 2 leaves a sample alone once it has a verdict.
MayOverwrite(i) == verdict[i] = ""

\* restoreOriginals leaves a sample alone unless both hold.
MustRestore(i) == i \in written /\ originals[i] # Nil

\* doCheck removes the journal only then.
MayDiscard == restoreErrors = {}

\* byPattern: the slots whose pattern the run knows.
Planned == { Offset[i] : i \in Sample }

\* classify, in the order of its cases.
Classify(i, got) ==
    IF got = Expected(i) THEN "ok"
    ELSE IF got = Zero THEN "zeros"
    ELSE IF got = originals[i] THEN "unchanged"
    ELSE IF got.tag = "pattern" /\ got.slot \in Planned THEN "aliased"
    ELSE "corrupt"

\* The address at which a drive folding at m would have put the highest sample.
Echo(m) == Offset[High] % m

\* detectWrap does not probe where nothing would be folded.
WorthProbing(m) == Echo(m) # Offset[High]

EchoFound(m) == Read(Echo(m)) = Expected(High)

\* Nothing of the run is at the highest sample.
NothingUpThere == verdict[High] \in {"write-error", "read-error"}

-----------------------------------------------------------------------------
Init ==
    /\ drive \in Drives
    /\ before \in Media
    /\ mode \in Modes
    /\ pc = "create"
    /\ cur = 0
    /\ view = before
    /\ maybe = [c \in Slot |-> {before[c]}]
    /\ log = <<>>
    /\ journal = "none"
    /\ originals = [i \in Sample |-> Nil]
    /\ written = {}
    /\ verdict = [i \in Sample |-> ""]
    /\ aliasOf = [i \in Sample |-> NoAlias]
    /\ todo = {}
    /\ wrapModulus = 0
    /\ wrapEcho = 0
    /\ restored = {}
    /\ restoreErrors = {}
    /\ runErr = "none"
    /\ faults = 0

\* An I/O call returns an error.
Fault == faults < MaxFaults /\ faults' = faults + 1
NoFault == UNCHANGED faults

-----------------------------------------------------------------------------
(***************************************************************************)
(* Setting up: doCheck creates the journal and opens the device.           *)
(***************************************************************************)
SetUp ==
    /\ pc = "create"
    /\ journal' = IF mode = "check" THEN "open" ELSE "none"
    /\ pc' = "read"
    /\ NoFault
    /\ UNCHANGED <<rigid, cur, media, log, memory, results, todo, wrap,
                   undoing, runErr>>

\* newJournal removes what it created and the check stops before the scan.
CreateJournalFails ==
    /\ pc = "create" /\ mode = "check"
    /\ pc' = "done"
    /\ runErr' = "setup"
    /\ Fault
    /\ UNCHANGED <<rigid, cur, media, file, memory, results, todo, wrap,
                   undoing>>

\* The journal, which holds no record yet, is closed and left behind.
OpenDeviceFails ==
    /\ pc = "create"
    /\ journal' = IF mode = "check" THEN "kept" ELSE "none"
    /\ pc' = "done"
    /\ runErr' = "setup"
    /\ Fault
    /\ UNCHANGED <<rigid, cur, media, log, memory, results, todo, wrap,
                   undoing>>

-----------------------------------------------------------------------------
(***************************************************************************)
(* Phase 1: read the originals into the journal.                           *)
(***************************************************************************)
Reading == pc = "read" /\ cur < N

RecordOf(i, part) == Entry(Offset[i], Read(Offset[i]), part)

\* journal.record; on a nil journal it does nothing.
Recorded(i) == IF journal = "open" THEN Append(log, RecordOf(i, "whole")) ELSE log

ReadOriginal ==
    /\ Reading
    /\ originals' = [originals EXCEPT ![cur] = Read(Offset[cur])]
    /\ log' = Recorded(cur)
    /\ cur' = cur + 1
    /\ NoFault
    /\ UNCHANGED <<rigid, pc, media, journal, written, results, todo, wrap,
                   undoing, runErr>>

ReadOriginalFails ==
    /\ Reading
    /\ verdict' = [verdict EXCEPT ![cur] = "read-error"]
    /\ cur' = cur + 1
    /\ Fault
    /\ UNCHANGED <<rigid, pc, media, file, memory, aliasOf, todo, wrap,
                   undoing, runErr>>

\* What an append that was cut short, or not flushed, can leave in the file.
Leftover(i) == { log, Append(log, RecordOf(i, "torn")), Append(log, RecordOf(i, "whole")) }

RecordFails ==
    /\ Reading /\ journal = "open"
    /\ originals' = [originals EXCEPT ![cur] = Read(Offset[cur])]
    /\ log' \in Leftover(cur)
    /\ runErr' = "journal"
    /\ pc' = "return"
    /\ Fault
    /\ UNCHANGED <<rigid, cur, media, journal, written, results, todo, wrap,
                   undoing>>

\* A read-only run ends here: what could be read is ok.
FinishReads ==
    /\ pc = "read" /\ cur = N
    /\ IF mode = "readonly"
       THEN /\ verdict' = [i \in Sample |-> IF verdict[i] = "" THEN "ok" ELSE verdict[i]]
            /\ pc' = "return"
       ELSE /\ pc' = "write"
            /\ UNCHANGED verdict
    /\ cur' = 0
    /\ NoFault
    /\ UNCHANGED <<rigid, media, file, memory, aliasOf, todo, wrap, undoing,
                   runErr>>

-----------------------------------------------------------------------------
(***************************************************************************)
(* Phase 2: write the patterns and flush them.                             *)
(***************************************************************************)
Writing == pc = "write" /\ cur < N

SkipWrite ==
    /\ Writing /\ ~MayOverwrite(cur)
    /\ cur' = cur + 1
    /\ NoFault
    /\ UNCHANGED <<rigid, pc, media, file, memory, results, todo, wrap,
                   undoing, runErr>>

\* A write of x to slot s that succeeds.
WriteSlot(s, x) ==
    /\ drive.kind[s] # "reject"
    /\ view' = Store(drive, view, s, x)
    /\ maybe' = StoreMaybe(drive, maybe, s, x)
    /\ NoFault

(***************************************************************************)
(* A write of x to slot s that returns an error.  A drive that rejects it  *)
(* has done nothing; after any other error all of it, none of it or some   *)
(* of its blocks may have been stored.                                     *)
(***************************************************************************)
WriteSlotFails(s, x) ==
    \/ /\ drive.kind[s] = "reject"
       /\ NoFault
       /\ UNCHANGED media
    \/ /\ Fault
       /\ \E y \in {view[drive.phys[s]], x, Garbage} :
             view' = Store(drive, view, s, y)
       /\ maybe' = StoreMaybe(drive, maybe, s, x)

WritePattern ==
    /\ Writing /\ MayOverwrite(cur)
    /\ WriteSlot(Offset[cur], Expected(cur))
    /\ written' = written \cup {cur}
    /\ cur' = cur + 1
    /\ UNCHANGED <<rigid, pc, file, originals, results, todo, wrap, undoing,
                   runErr>>

\* The sample counts as written: some of the data may have got there.
WritePatternFails ==
    /\ Writing /\ MayOverwrite(cur)
    /\ WriteSlotFails(Offset[cur], Expected(cur))
    /\ written' = written \cup {cur}
    /\ verdict' = [verdict EXCEPT ![cur] = "write-error"]
    /\ cur' = cur + 1
    /\ UNCHANGED <<rigid, pc, file, originals, aliasOf, todo, wrap, undoing,
                   runErr>>

SyncWrites ==
    /\ pc = "write" /\ cur = N
    /\ maybe' = Flush(drive, maybe, view)
    /\ pc' = "reopen"
    /\ cur' = 0
    /\ NoFault
    /\ UNCHANGED <<rigid, view, file, memory, results, todo, wrap, undoing,
                   runErr>>

\* The originals are put back before the error is returned.
SyncWritesFails ==
    /\ pc = "write" /\ cur = N
    /\ runErr' = "flush"
    /\ pc' = "restore"
    /\ cur' = 0
    /\ Fault
    /\ UNCHANGED <<rigid, media, file, memory, results, todo, wrap, undoing>>

-----------------------------------------------------------------------------
(***************************************************************************)
(* Phase 3: reopen, verify in any order, sweep for a fold.                 *)
(***************************************************************************)
Reopen ==
    /\ pc = "reopen"
    /\ pc' = "verify"
    /\ todo' = { i \in Sample : verdict[i] = "" }
    /\ NoFault
    /\ UNCHANGED <<rigid, cur, media, file, memory, results, wrap, undoing,
                   runErr>>

\* runScan returns with the patterns still on the media.
ReopenFails ==
    /\ pc = "reopen"
    /\ pc' = "return"
    /\ runErr' = "reopen"
    /\ Fault
    /\ UNCHANGED <<rigid, cur, media, file, memory, results, todo, wrap,
                   undoing>>

Verify(i) ==
    /\ pc = "verify" /\ i \in todo
    /\ LET got == Read(Offset[i]) IN
       /\ verdict' = [verdict EXCEPT ![i] = Classify(i, got)]
       /\ aliasOf' = [aliasOf EXCEPT ![i] =
                        IF Classify(i, got) = "aliased" THEN got.slot ELSE NoAlias]
    /\ todo' = todo \ {i}
    /\ NoFault
    /\ UNCHANGED <<rigid, pc, cur, media, file, memory, wrap, undoing, runErr>>

VerifyFails(i) ==
    /\ pc = "verify" /\ i \in todo
    /\ verdict' = [verdict EXCEPT ![i] = "read-error"]
    /\ todo' = todo \ {i}
    /\ Fault
    /\ UNCHANGED <<rigid, pc, cur, media, file, memory, aliasOf, wrap, undoing,
                   runErr>>

FinishVerify ==
    /\ pc = "verify" /\ todo = {}
    /\ pc' = IF NothingUpThere THEN "restore" ELSE "wrapscan"
    /\ cur' = 0
    /\ NoFault
    /\ UNCHANGED <<rigid, media, file, memory, results, todo, wrap, undoing,
                   runErr>>

Sweeping == pc = "wrapscan" /\ cur < Len(Folds)

Candidate == Folds[cur + 1]

\* The first candidate whose echo holds the pattern ends the sweep.
FindEcho ==
    /\ Sweeping /\ WorthProbing(Candidate) /\ EchoFound(Candidate)
    /\ wrapModulus' = Candidate
    /\ wrapEcho' = Echo(Candidate)
    /\ pc' = "restore"
    /\ cur' = 0
    /\ NoFault
    /\ UNCHANGED <<rigid, media, file, memory, results, todo, undoing, runErr>>

PassCandidate ==
    /\ Sweeping
    /\ \/ ~WorthProbing(Candidate) /\ NoFault
       \/ WorthProbing(Candidate) /\ ~EchoFound(Candidate) /\ NoFault
       \/ WorthProbing(Candidate) /\ Fault
    /\ cur' = cur + 1
    /\ UNCHANGED <<rigid, pc, media, file, memory, results, todo, wrap,
                   undoing, runErr>>

FinishSweep ==
    /\ pc = "wrapscan" /\ cur = Len(Folds)
    /\ pc' = "restore"
    /\ cur' = 0
    /\ NoFault
    /\ UNCHANGED <<rigid, media, file, memory, results, todo, wrap, undoing,
                   runErr>>

-----------------------------------------------------------------------------
(***************************************************************************)
(* Phase 4: restoreOriginals, then what doCheck does with the journal.     *)
(***************************************************************************)
Restoring == pc = "restore" /\ cur < N

SkipRestore ==
    /\ Restoring /\ ~MustRestore(cur)
    /\ cur' = cur + 1
    /\ NoFault
    /\ UNCHANGED <<rigid, pc, media, file, memory, results, todo, wrap,
                   undoing, runErr>>

Restore ==
    /\ Restoring /\ MustRestore(cur)
    /\ WriteSlot(Offset[cur], originals[cur])
    /\ restored' = restored \cup {cur}
    /\ cur' = cur + 1
    /\ UNCHANGED <<rigid, pc, file, memory, results, todo, wrap, restoreErrors,
                   runErr>>

RestoreFails ==
    /\ Restoring /\ MustRestore(cur)
    /\ WriteSlotFails(Offset[cur], originals[cur])
    /\ restoreErrors' = restoreErrors \cup {cur}
    /\ cur' = cur + 1
    /\ UNCHANGED <<rigid, pc, file, memory, results, todo, wrap, restored,
                   runErr>>

SyncRestore ==
    /\ pc = "restore" /\ cur = N
    /\ maybe' = Flush(drive, maybe, view)
    /\ pc' = "return"
    /\ NoFault
    /\ UNCHANGED <<rigid, cur, view, file, memory, results, todo, wrap,
                   undoing, runErr>>

SyncRestoreFails ==
    /\ pc = "restore" /\ cur = N
    /\ restoreErrors' = restoreErrors \cup {FinalFlush}
    /\ pc' = "return"
    /\ Fault
    /\ UNCHANGED <<rigid, cur, media, file, memory, results, todo, wrap,
                   restored, runErr>>

\* After an error, or with originals missing, the journal is kept.
KeepJournal ==
    /\ pc = "return" /\ (runErr # "none" \/ ~MayDiscard)
    /\ journal' = IF journal = "open" THEN "kept" ELSE journal
    /\ pc' = "done"
    /\ NoFault
    /\ UNCHANGED <<rigid, cur, media, log, memory, results, todo, wrap,
                   undoing, runErr>>

DiscardJournal ==
    /\ pc = "return" /\ runErr = "none" /\ MayDiscard
    /\ journal' = IF journal = "open" THEN "removed" ELSE journal
    /\ pc' = "done"
    /\ NoFault
    /\ UNCHANGED <<rigid, cur, media, log, memory, results, todo, wrap,
                   undoing, runErr>>

\* discard could not close or remove the file: only a warning.
DiscardJournalFails ==
    /\ pc = "return" /\ runErr = "none" /\ MayDiscard /\ journal = "open"
    /\ journal' = "kept"
    /\ pc' = "done"
    /\ Fault
    /\ UNCHANGED <<rigid, cur, media, log, memory, results, todo, wrap,
                   undoing, runErr>>

-----------------------------------------------------------------------------
(***************************************************************************)
(* The process dies, the machine panics or the drive is pulled.  A record  *)
(* being appended may have got to the file whole, in part or not at all.   *)
(***************************************************************************)
Crash ==
    /\ pc \notin {"done", "dead"}
    /\ pc' = "dead"
    /\ log' \in IF Reading /\ journal = "open" THEN Leftover(cur) ELSE {log}
    /\ NoFault
    /\ UNCHANGED <<rigid, cur, media, journal, memory, results, todo, wrap,
                   undoing, runErr>>

Step ==
    \/ SetUp \/ CreateJournalFails \/ OpenDeviceFails
    \/ ReadOriginal \/ ReadOriginalFails \/ RecordFails \/ FinishReads
    \/ SkipWrite \/ WritePattern \/ WritePatternFails
    \/ SyncWrites \/ SyncWritesFails
    \/ Reopen \/ ReopenFails
    \/ \E i \in Sample : Verify(i) \/ VerifyFails(i)
    \/ FinishVerify
    \/ FindEcho \/ PassCandidate \/ FinishSweep
    \/ SkipRestore \/ Restore \/ RestoreFails
    \/ SyncRestore \/ SyncRestoreFails
    \/ KeepJournal \/ DiscardJournal \/ DiscardJournalFails

Next == Step \/ Crash

Spec == Init /\ [][Next]_vars

(***************************************************************************)
(* The engine is one thread of loops over finite plans, and every I/O call *)
(* it makes returns; nothing obliges it to crash.                          *)
(***************************************************************************)
FairSpec == Spec /\ WF_vars(Step)

-----------------------------------------------------------------------------
(***************************************************************************)
(* Properties.                                                             *)
(***************************************************************************)

\* Every variable holds a value of the kind the code gives it.
TypeOK ==
    /\ drive \in Drives
    /\ before \in Media
    /\ mode \in Modes
    /\ pc \in Phases
    /\ cur \in Nat
    /\ view \in [Slot -> Content]
    /\ maybe \in [Slot -> SUBSET Content]
    /\ log \in Seq(Entries)
    /\ journal \in {"none", "open", "kept", "removed"}
    /\ originals \in [Sample -> Content \cup {Nil}]
    /\ written \subseteq Sample
    /\ verdict \in [Sample -> Verdicts]
    /\ aliasOf \in [Sample -> Slot \cup {NoAlias}]
    /\ todo \subseteq Sample
    /\ wrapModulus \in Nat
    /\ wrapEcho \in Nat
    /\ restored \subseteq Sample
    /\ restoreErrors \subseteq Sample \cup {FinalFlush, ProbeError}
    /\ runErr \in RunErrors
    /\ faults \in 0 .. MaxFaults

\* The cell behind sample i, and whether a write to i reaches it.
CellOf(i) == drive.phys[Offset[i]]
Stores(i) == drive.kind[Offset[i]] = "store"

\* The cells that may not hold their original if the power fails now.
Dirty == { c \in Slot : maybe[c] # {before[c]} }

\* Record k of the journal can be replayed, and puts back the original of c.
Replayable(k) == k \in DOMAIN log /\ log[k].part = "whole"

PutsBack(k, c) ==
    /\ Replayable(k)
    /\ drive.kind[log[k].slot] = "store"
    /\ drive.phys[log[k].slot] = c
    /\ log[k].data = before[c]

(***************************************************************************)
(* Write-ahead: at every moment of a journaled run, a crash or power loss  *)
(* included, every cell that may not hold its original has it in a         *)
(* replayable record, and no record would put anything else on any cell -  *)
(* even on a drive that folds several samples onto one cell.  A torn       *)
(* record is in the file only while the media is untouched.  (journal.go,  *)
(* "flushed to disk before the device is touched"; run.go phases 1 and 2.) *)
(***************************************************************************)
Recoverable ==
    (mode = "check" /\ journal # "removed") =>
        /\ \A c \in Dirty : \E k \in DOMAIN log : PutsBack(k, c)
        /\ \A k \in DOMAIN log :
              Replayable(k) /\ drive.kind[log[k].slot] = "store"
                => PutsBack(k, drive.phys[log[k].slot])
        /\ Dirty # {} => \A k \in DOMAIN log : Replayable(k)

(***************************************************************************)
(* The journal is thrown away only when every cell of the media is back to *)
(* its original, and on a drive whose flush is a full one no power loss    *)
(* can bring anything else back.  (doCheck and journal.discard: "once      *)
(* every block is known to be back in place".)                             *)
(***************************************************************************)
DiscardOnlyWhenClean ==
    journal = "removed" => /\ view = before
                           /\ drive.fullSync => Dirty = {}

(***************************************************************************)
(* A run that ends, with or without a journal, and did not report a        *)
(* restore error has put every cell back, cells no sample was meant for    *)
(* included, unless it could not reopen the device.  In particular a       *)
(* failed first flush is followed by a restore.  (runScan, the rescue      *)
(* before "flushing writes".)                                              *)
(***************************************************************************)
CleanUnlessReported ==
    (pc = "done" /\ restoreErrors = {} /\ runErr # "reopen") => view = before

\* overallVerdict: the check exits with status 0.
Pass ==
    /\ pc = "done" /\ runErr = "none" /\ mode # "readonly"
    /\ wrapModulus = 0
    /\ \A i \in Sample : verdict[i] = "ok"

(***************************************************************************)
(* A drive passes only if each sample has a cell of its own that kept what *)
(* was written to it: neither dropping, zeroing, rejecting nor folding two *)
(* samples together goes unnoticed, whatever the order of verification and *)
(* whatever errors the run met.                                            *)
(***************************************************************************)
NoFalsePass ==
    Pass => /\ \A i \in Sample : Stores(i)
            /\ \A i, j \in Sample : CellOf(i) = CellOf(j) => i = j

(***************************************************************************)
(* Each verdict of a destructive run says what its description says        *)
(* (pattern.go describe, README "The verdicts are"): ok only for a sample  *)
(* whose cell no other ok sample has, aliased only with the name of an     *)
(* address that shares the cell, unchanged only where writes are dropped,  *)
(* zeros only where zeros are read whatever is written (or dropped over    *)
(* zeros), the others only after an I/O error.                             *)
(***************************************************************************)
VerdictsAreJust ==
    mode # "readonly" => \A i \in Sample :
        /\ verdict[i] = "ok" =>
              Stores(i) /\ \A j \in Sample \ {i} :
                              verdict[j] = "ok" => CellOf(j) # CellOf(i)
        /\ verdict[i] = "aliased" =>
              /\ aliasOf[i] \in Slot \ {Offset[i]}
              /\ drive.kind[aliasOf[i]] = "store"
              /\ drive.phys[aliasOf[i]] = CellOf(i)
        /\ verdict[i] = "unchanged" => drive.kind[Offset[i]] = "drop"
        /\ verdict[i] = "zeros" =>
              \/ drive.kind[Offset[i]] = "zeros"
              \/ drive.kind[Offset[i]] = "drop" /\ before[CellOf(i)] = Zero
        /\ verdict[i] \in {"corrupt", "read-error"} => faults > 0
        /\ verdict[i] = "write-error" =>
              faults > 0 \/ drive.kind[Offset[i]] = "reject"

(***************************************************************************)
(* The sweep reports a fold only on a drive that has one: the echo address *)
(* is another address that reaches the cell of the highest sample.         *)
(* (detectWrap.)                                                           *)
(***************************************************************************)
FoldReportIsReal ==
    wrapModulus # 0 =>
        /\ wrapEcho # Offset[High]
        /\ drive.phys[wrapEcho] = CellOf(High)

(***************************************************************************)
(* No false alarm: an honest drive that met no I/O error passes, and the   *)
(* run leaves neither changes nor a journal behind.                        *)
(***************************************************************************)
HonestPasses ==
    (pc = "done" /\ faults = 0 /\ IsHonest(drive) /\ mode # "readonly") =>
        Pass /\ view = before /\ journal \in {"none", "removed"}

(***************************************************************************)
(* A sample that was written is not forgotten: it is written back, or the  *)
(* run reports a restore error, could not reopen the device, or died.      *)
(***************************************************************************)
WrittenIsRestored ==
    \A i \in Sample :
        i \in written ~> \/ i \in restored \cup restoreErrors
                          \/ runErr = "reopen"
                          \/ pc = "dead"

(***************************************************************************)
(* The run is an undo-logged change of the media (UndoLog.tla).  On a      *)
(* drive without a full flush only what a read returns can be promised     *)
(* once the journal is gone.                                               *)
(***************************************************************************)
Saved == { c \in Slot : \E k \in DOMAIN log : PutsBack(k, c) }

Departed == IF drive.fullSync THEN Dirty ELSE { c \in Slot : view[c] # before[c] }

Undo == INSTANCE UndoLog WITH
            Cells <- Slot,
            saved <- Saved,
            dirty <- Departed,
            undo  <- CASE journal = "none"             -> "off"
                       [] journal \in {"open", "kept"} -> "on"
                       [] journal = "removed"          -> "gone"

ImplementsUndoLog == Undo!Spec
=============================================================================
