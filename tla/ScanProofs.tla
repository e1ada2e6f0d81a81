----------------------------- MODULE ScanProofs -----------------------------
(***************************************************************************)
(* Proofs about Scan, for every drive, plan, media and number of faults.   *)
(***************************************************************************)
EXTENDS Scan, TLAPS

-----------------------------------------------------------------------------
(***************************************************************************)
(* Typing of the device operators.                                         *)
(***************************************************************************)

\* The special contents are contents.
LEMMA ContentFacts ==
    /\ Zero \in Content
    /\ Garbage \in Content
    /\ \A s \in Slot : Pattern(s) \in Content
    /\ Blank \subseteq Content
  BY SlotsAssumption DEF Zero, Garbage, Pattern, Content, Blank, Tags, Slot

\* Reads and writes of slots stay within the contents a cell can have.
LEMMA DeviceTypes ==
    ASSUME NEW d \in Drive, NEW s \in Slot, NEW x \in Content,
           NEW m \in [Slot -> Content], NEW may \in [Slot -> SUBSET Content]
    PROVE  /\ d.phys[s] \in Slot
           /\ d.kind[s] \in Kinds
           /\ Load(d, m, s) \in Content
           /\ Store(d, m, s, x) \in [Slot -> Content]
           /\ StoreMaybe(d, may, s, x) \in [Slot -> SUBSET Content]
           /\ Flush(d, may, m) \in [Slot -> SUBSET Content]
<1>1. d.phys[s] \in Slot /\ d.kind[s] \in Kinds
  BY DEF Drive
<1>2. Load(d, m, s) \in Content
  BY <1>1, ContentFacts DEF Load
<1>3. Store(d, m, s, x) \in [Slot -> Content]
  BY <1>1 DEF Store
<1>4. StoreMaybe(d, may, s, x) \in [Slot -> SUBSET Content]
  BY <1>1, ContentFacts DEF StoreMaybe
<1>5. Flush(d, may, m) \in [Slot -> SUBSET Content]
  BY DEF Flush
<1> QED
  BY <1>1, <1>2, <1>3, <1>4, <1>5

\* A drive of the run is a drive, and a sample's slot a slot.
LEMMA RunTypes ==
    ASSUME TypeOK
    PROVE  /\ drive \in Drive
           /\ before \in [Slot -> Content]
           /\ Offset \in [Sample -> Slot]
           /\ High \in Sample
<1>1. drive \in Drive
  BY EnvironmentAssumption DEF TypeOK
<1>2. before \in [Slot -> Content]
  BY EnvironmentAssumption, ContentFacts DEF TypeOK
<1>3. High \in Sample
  BY PlanAssumption DEF High, Sample
<1> QED
  BY <1>1, <1>2, <1>3, PlanAssumption

\* Samples are the loop indices below N.
LEMMA SampleFacts ==
    /\ \A i \in Sample : i \in Nat /\ i < N
    /\ \A n \in Nat : n < N => n \in Sample
  BY PlanAssumption DEF Sample

\* The samples before the next one are those before this one, and this one.
LEMMA BeforeNext ==
    ASSUME NEW a \in Nat, NEW b \in Nat, a < b + 1, a # b
    PROVE  a < b
  OBVIOUS

\* No sample comes before the first.
LEMMA NotBelowZero ==
    ASSUME NEW a \in Nat
    PROVE  ~(a < 0)
  OBVIOUS

\* What Classify answers is a verdict.
LEMMA ClassifyType ==
    ASSUME NEW i, NEW got
    PROVE  Classify(i, got) \in Verdicts \ {""}
  BY DEF Classify, Verdicts

-----------------------------------------------------------------------------
(***************************************************************************)
(* Type correctness.                                                       *)
(***************************************************************************)
LEMMA InitTypeOK == Init => TypeOK
<1> SUFFICES ASSUME Init PROVE TypeOK
  OBVIOUS
<1>1. before \in [Slot -> Content]
  BY EnvironmentAssumption, ContentFacts DEF Init
<1>2. mode \in Modes /\ drive \in Drives /\ before \in Media
  BY DEF Init
<1>3. log \in Seq(Entries)
  <2>1. log = <<>>
    BY Zenon DEF Init
  <2> QED
    BY <2>1
<1>4. view \in [Slot -> Content] /\ maybe \in [Slot -> SUBSET Content]
  <2>1. view = before
    BY DEF Init
  <2>2. maybe = [c \in Slot |-> {before[c]}]
    BY Zenon DEF Init
  <2>3. \A c \in Slot : {before[c]} \in SUBSET Content
    BY <1>1
  <2> QED
    BY <1>1, <2>1, <2>2, <2>3
<1>5. originals \in [Sample -> Content \cup {Nil}] /\ written \subseteq Sample
  BY DEF Init
<1>6. verdict \in [Sample -> Verdicts] /\ aliasOf \in [Sample -> Slot \cup {NoAlias}]
  BY DEF Init, Verdicts
<1>7. restored \subseteq Sample /\ written \subseteq Sample
  BY DEF Init
<1>8. faults \in 0 .. MaxFaults /\ cur \in Nat
  <2>1. faults = 0 /\ cur = 0
    BY DEF Init
  <2>2. MaxFaults \in Nat
    BY EnvironmentAssumption
  <2> QED
    BY <2>1, <2>2
<1>9. /\ pc \in Phases
      /\ journal \in {"none", "open", "kept", "removed"}
      /\ todo \subseteq Sample
      /\ wrapModulus \in Nat /\ wrapEcho \in Nat
      /\ restoreErrors \subseteq Sample \cup {FinalFlush}
      /\ runErr \in RunErrors
  BY DEF Init, Phases, RunErrors
<1> QED
  BY <1>2, <1>3, <1>4, <1>5, <1>6, <1>7, <1>8, <1>9 DEF TypeOK

\* A record of a sample just read is a record.
LEMMA RecordType ==
    ASSUME TypeOK, NEW i \in Sample, NEW b \in {"whole", "torn"}
    PROVE  /\ Read(Offset[i]) \in Content
           /\ RecordOf(i, b) \in Entries
           /\ Append(log, RecordOf(i, b)) \in Seq(Entries)
<1>1. Read(Offset[i]) \in Content
  <2>1. drive \in Drive /\ Offset[i] \in Slot /\ view \in [Slot -> Content]
    BY RunTypes DEF TypeOK
  <2>2. /\ Zero \in Content
        /\ drive.phys[Offset[i]] \in Slot
    BY <2>1, ContentFacts DEF Drive
  <2> QED
    BY <2>1, <2>2 DEF Read, Load
<1>2. RecordOf(i, b) \in Entries
  BY <1>1, RunTypes DEF RecordOf, Entry, Entries
<1> QED
  BY <1>1, <1>2 DEF TypeOK

\* A write that succeeds, or fails part of the way, leaves media of the right type.
LEMMA WriteSlotType ==
    ASSUME TypeOK, NEW s \in Slot, NEW x \in Content,
           WriteSlot(s, x) \/ WriteSlotFails(s, x)
    PROVE  /\ view' \in [Slot -> Content]
           /\ maybe' \in [Slot -> SUBSET Content]
           /\ faults' \in 0 .. MaxFaults
<1>1. /\ drive \in Drive
      /\ view \in [Slot -> Content]
      /\ maybe \in [Slot -> SUBSET Content]
      /\ faults \in 0 .. MaxFaults
      /\ MaxFaults \in Nat
  BY RunTypes, EnvironmentAssumption DEF TypeOK
<1>2. StoreMaybe(drive, maybe, s, x) \in [Slot -> SUBSET Content]
  BY <1>1, DeviceTypes
<1>3. \A y \in Content : Store(drive, view, s, y) \in [Slot -> Content]
  BY <1>1, DeviceTypes
<1>4. {view[drive.phys[s]], x, Garbage} \subseteq Content
  <2>1. drive.phys[s] \in Slot /\ Garbage \in Content
    BY <1>1, ContentFacts DEF Drive
  <2> QED
    BY <1>1, <2>1
<1>5. CASE WriteSlot(s, x)
  BY <1>1, <1>2, <1>3, <1>5 DEF WriteSlot, NoFault
<1>6. CASE WriteSlotFails(s, x)
  <2>1. CASE NoFault /\ UNCHANGED media
    BY <1>1, <2>1 DEF NoFault, media
  <2>2. CASE /\ Fault
             /\ \E y \in {view[drive.phys[s]], x, Garbage} :
                   view' = Store(drive, view, s, y)
             /\ maybe' = StoreMaybe(drive, maybe, s, x)
    <3>1. faults' \in 0 .. MaxFaults
      BY <1>1, <2>2 DEF Fault
    <3>2. view' \in [Slot -> Content]
      BY <1>3, <1>4, <2>2
    <3> QED
      BY <1>2, <2>2, <3>1, <3>2
  <2> QED
    BY <1>6, <2>1, <2>2 DEF WriteSlotFails
<1> QED
  BY <1>5, <1>6

\* Every step keeps the types.
LEMMA NextTypeOK == TypeOK /\ [Next]_vars => TypeOK'
<1> SUFFICES ASSUME TypeOK, [Next]_vars PROVE TypeOK'
  OBVIOUS
<1> USE DEF rigid, media, file, memory, results, wrap, undoing, NoFault
<1>0. faults < MaxFaults => faults + 1 \in 0 .. MaxFaults
  BY EnvironmentAssumption DEF TypeOK
<1>1. CASE UNCHANGED vars
  BY <1>1 DEF TypeOK, vars
<1>2. CASE SetUp \/ CreateJournalFails \/ OpenDeviceFails
  BY <1>0, <1>2 DEF TypeOK, SetUp, CreateJournalFails, OpenDeviceFails, Fault, Phases, RunErrors
<1>3. CASE ReadOriginal \/ RecordFails
  <2>1. cur \in Sample
    BY <1>3, PlanAssumption DEF TypeOK, ReadOriginal, RecordFails, Reading, Sample
  <2>2. Read(Offset[cur]) \in Content /\ log' \in Seq(Entries)
    BY <1>3, <2>1, RecordType DEF TypeOK, ReadOriginal, RecordFails, Recorded, Leftover
  <2>3. originals' \in [Sample -> Content \cup {Nil}]
    BY <1>3, <2>1, <2>2 DEF TypeOK, ReadOriginal, RecordFails
  <2> QED
    BY <1>0, <1>3, <2>2, <2>3 DEF TypeOK, ReadOriginal, RecordFails, Fault, Phases, RunErrors
<1>4. CASE ReadOriginalFails
  <2>1. faults' \in 0 .. MaxFaults /\ cur' \in Nat
    BY <1>0, <1>4 DEF TypeOK, ReadOriginalFails, Fault
  <2>2. verdict' \in [Sample -> Verdicts]
    BY <1>4 DEF TypeOK, ReadOriginalFails, Verdicts
  <2> QED
    BY <1>4, <2>1, <2>2 DEF TypeOK, ReadOriginalFails
<1>5. CASE FinishReads
  BY <1>5 DEF TypeOK, FinishReads, Verdicts, Phases
<1>6. CASE SkipWrite \/ SkipRestore
  BY <1>6 DEF TypeOK, SkipWrite, SkipRestore
<1>7. CASE WritePattern \/ WritePatternFails
  <2>0. cur \in Sample
    BY <1>7, PlanAssumption DEF TypeOK, WritePattern, WritePatternFails, Writing, Sample
  <2>1. Offset[cur] \in Slot /\ Expected(cur) \in Content
    BY <2>0, RunTypes, ContentFacts DEF Expected
  <2>2. view' \in [Slot -> Content] /\ maybe' \in [Slot -> SUBSET Content] /\ faults' \in 0 .. MaxFaults
    BY <1>7, <2>1, WriteSlotType DEF WritePattern, WritePatternFails
  <2>3. written' \subseteq Sample /\ cur' \in Nat
    <3>1. written' = written \cup {cur} /\ cur' = cur + 1
      BY <1>7 DEF WritePattern, WritePatternFails
    <3> QED
      BY <2>0, <3>1 DEF TypeOK
  <2>4. verdict' \in [Sample -> Verdicts]
    BY <1>7 DEF TypeOK, WritePattern, WritePatternFails, Verdicts
  <2> QED
    BY <1>7, <2>2, <2>3, <2>4 DEF TypeOK, WritePattern, WritePatternFails
<1>8. CASE SyncWrites \/ SyncRestore
  <2>1. maybe' \in [Slot -> SUBSET Content]
    BY <1>8 DEF TypeOK, SyncWrites, SyncRestore, Flush
  <2> QED
    BY <1>8, <2>1 DEF TypeOK, SyncWrites, SyncRestore, Phases
<1>9. CASE SyncWritesFails \/ ReopenFails \/ SyncRestoreFails
  <2>1. faults' \in 0 .. MaxFaults /\ cur' \in Nat
    BY <1>0, <1>9 DEF TypeOK, SyncWritesFails, ReopenFails, SyncRestoreFails, Fault
  <2>2. pc' \in Phases /\ runErr' \in RunErrors /\ restoreErrors' \subseteq Sample \cup {FinalFlush, ProbeError}
    BY <1>9 DEF TypeOK, SyncWritesFails, ReopenFails, SyncRestoreFails, Phases, RunErrors
  <2> QED
    BY <1>9, <2>1, <2>2 DEF TypeOK, SyncWritesFails, ReopenFails, SyncRestoreFails
<1>10. CASE Reopen
  BY <1>10 DEF TypeOK, Reopen, Phases
<1>11. ASSUME NEW i \in Sample, Verify(i) PROVE TypeOK'
  <2>1. Read(Offset[i]) \in Content
    BY RecordType
  <2>2. Classify(i, Read(Offset[i])) \in Verdicts /\ Read(Offset[i]).slot \in Slot
    BY <2>1, ClassifyType DEF Content
  <2>3. verdict' \in [Sample -> Verdicts] /\ aliasOf' \in [Sample -> Slot \cup {NoAlias}]
    BY <1>11, <2>2 DEF TypeOK, Verify
  <2> QED
    BY <1>11, <2>3 DEF TypeOK, Verify
<1>12. ASSUME NEW i \in Sample, VerifyFails(i) PROVE TypeOK'
  BY <1>0, <1>12 DEF TypeOK, VerifyFails, Fault, Verdicts
<1>13. CASE FinishVerify \/ FinishSweep
  BY <1>13 DEF TypeOK, FinishVerify, FinishSweep, Phases
<1>14. CASE FindEcho
  <2>1. Candidate \in Nat \ {0}
    BY <1>14, EnvironmentAssumption DEF TypeOK, FindEcho, Sweeping, Candidate
  <2>2. Offset[High] \in Nat
    BY RunTypes DEF Slot
  <2>3. Echo(Candidate) \in Nat
    BY <2>1, <2>2 DEF Echo
  <2> QED
    BY <1>14, <2>1, <2>3 DEF TypeOK, FindEcho, Phases
<1>15. CASE PassCandidate
  BY <1>0, <1>15 DEF TypeOK, PassCandidate, Fault
<1>16. CASE Restore \/ RestoreFails
  <2>0. cur \in Sample
    BY <1>16, PlanAssumption DEF TypeOK, Restore, RestoreFails, Restoring, Sample
  <2>1. Offset[cur] \in Slot /\ originals[cur] \in Content
    BY <1>16, <2>0, RunTypes DEF TypeOK, Restore, RestoreFails, MustRestore
  <2>2. view' \in [Slot -> Content] /\ maybe' \in [Slot -> SUBSET Content] /\ faults' \in 0 .. MaxFaults
    BY <1>16, <2>1, WriteSlotType DEF Restore, RestoreFails
  <2>3. /\ restored' \subseteq Sample
        /\ restoreErrors' \subseteq Sample \cup {FinalFlush, ProbeError}
        /\ cur' \in Nat
    <3>1. /\ restored' \in {restored, restored \cup {cur}}
          /\ restoreErrors' \in {restoreErrors, restoreErrors \cup {cur}}
          /\ cur' = cur + 1
      BY <1>16 DEF Restore, RestoreFails
    <3> QED
      BY <2>0, <3>1 DEF TypeOK
  <2> QED
    BY <1>16, <2>2, <2>3 DEF TypeOK, Restore, RestoreFails
<1>17. CASE KeepJournal \/ DiscardJournal \/ DiscardJournalFails
  BY <1>0, <1>17 DEF TypeOK, KeepJournal, DiscardJournal, DiscardJournalFails, Fault, Phases
<1>18. CASE Crash
  <2>1. log' \in Seq(Entries)
    <3>1. CASE Reading /\ journal = "open"
      <4>1. cur \in Sample
        BY <3>1, PlanAssumption DEF TypeOK, Reading, Sample
      <4> QED
        BY <1>18, <3>1, <4>1, RecordType DEF TypeOK, Crash, Leftover
    <3>2. CASE ~(Reading /\ journal = "open")
      BY <1>18, <3>2 DEF TypeOK, Crash
    <3> QED
      BY <3>1, <3>2
  <2> QED
    BY <1>18, <2>1 DEF TypeOK, Crash, Phases
<1> QED
  BY <1>1, <1>2, <1>3, <1>4, <1>5, <1>6, <1>7, <1>8, <1>9, <1>10, <1>11, <1>12,
     <1>13, <1>14, <1>15, <1>16, <1>17, <1>18 DEF Next, Step

(***************************************************************************)
(* Every variable of a run keeps the kind of value the code gives it.      *)
(***************************************************************************)
THEOREM TypeCorrect == Spec => []TypeOK
  BY InitTypeOK, NextTypeOK, PTL DEF Spec

-----------------------------------------------------------------------------
(***************************************************************************)
(* The inductive invariant of the run, in named parts.                     *)
(***************************************************************************)

\* The original of sample i is in memory and, in a journaled run, on file.
Original(i) == Load(drive, before, Offset[i])

Backed(i) ==
    /\ originals[i] = Original(i)
    /\ mode = "check" =>
          \E k \in DOMAIN log : log[k] = Entry(Offset[i], Original(i), "whole")

\* Which phases go with which mode, error and state of the journal.
PhaseInv ==
    /\ pc = "create" => cur = 0
    /\ pc \in {"create", "read"} => written = {}
    /\ mode = "readonly" =>
          written = {} /\ pc \notin {"write", "reopen", "verify", "wrapscan", "restore"}
    /\ runErr \in {"setup", "journal"} => written = {} /\ pc \in {"return", "done", "dead"}
    /\ mode # "check" => journal = "none"
    /\ mode = "check" =>
          /\ pc = "create" => journal = "none"
          /\ pc \notin {"create", "done", "dead"} => journal = "open"
          /\ journal = "none" => written = {}
    /\ journal = "removed" => pc = "done" /\ runErr = "none" /\ restoreErrors = {}

\* A cell departs from its original only because a sample behind it was written.
CellInv ==
    \A c \in Slot :
        (view[c] # before[c] \/ maybe[c] # {before[c]}) =>
            \E i \in written : Stores(i) /\ CellOf(i) = c

\* Nothing is written before its original is backed up.
NeedsBackup(i) ==
    \/ i \in written
    \/ pc = "read" /\ i < cur /\ verdict[i] = ""
    \/ pc = "write" /\ verdict[i] = ""

BackupInv == \A i \in Sample : NeedsBackup(i) => Backed(i)

\* All the journal holds is originals, and a torn record only in a run that
\* ended before it wrote anything.
LogInv ==
    \A k \in DOMAIN log :
        /\ log[k].data = Load(drive, before, log[k].slot)
        /\ log[k].part # "whole" => written = {} /\ pc \in {"return", "done", "dead"}

\* The restore puts back cell after cell, but for those it fails to write, and
\* then all of them are back.
PutBack(i) == (i < cur /\ Stores(i)) => view[CellOf(i)] = before[CellOf(i)]

\* A sample in this cell could not be restored.
Missing(c) == \E i \in restoreErrors \cap Sample : Stores(i) /\ CellOf(i) = c

RestoringInv ==
    pc = "restore" => \A i \in written : PutBack(i) \/ Missing(CellOf(i))

AllBack == view = before /\ (drive.fullSync => Dirty = {})

RestoredInv ==
    (pc \in {"return", "done"} /\ runErr # "reopen" /\ restoreErrors = {}) => AllBack

\* A pattern is found only in the cell behind the sample it belongs to.
PatternInv ==
    \A c \in Slot : view[c].tag = "pattern" =>
        \E i \in Sample : Stores(i) /\ CellOf(i) = c /\ view[c] = Expected(i)

\* A sample is ok only while its cell holds its pattern.
OkSample(i) ==
    /\ pc \notin {"create", "read", "write", "reopen"}
    /\ Stores(i)
    /\ pc \in {"verify", "wrapscan"} => view[CellOf(i)] = Expected(i)
    /\ \A j \in Sample \ {i} : verdict[j] = "ok" => CellOf(j) # CellOf(i)

OkInv == mode # "readonly" => \A i \in Sample : verdict[i] = "ok" => OkSample(i)

IInv == TypeOK /\ PhaseInv /\ CellInv /\ BackupInv /\ LogInv
               /\ RestoringInv /\ RestoredInv /\ PatternInv /\ OkInv

-----------------------------------------------------------------------------
(***************************************************************************)
(* Which steps change what.                                                *)
(***************************************************************************)
LEMMA Frames ==
    ASSUME [Next]_vars
    PROVE  /\ UNCHANGED <<drive, before, mode>>
           /\ \/ UNCHANGED <<view, maybe>>
              \/ WritePattern \/ WritePatternFails \/ Restore \/ RestoreFails
              \/ SyncWrites \/ SyncRestore
           /\ UNCHANGED written \/ WritePattern \/ WritePatternFails
           /\ UNCHANGED log \/ ReadOriginal \/ RecordFails \/ Crash
           /\ UNCHANGED originals \/ ReadOriginal \/ RecordFails
           /\ \/ UNCHANGED verdict
              \/ ReadOriginalFails \/ FinishReads \/ WritePatternFails
              \/ \E i \in Sample : Verify(i) \/ VerifyFails(i)
           /\ UNCHANGED restoreErrors \/ RestoreFails \/ SyncRestoreFails
<1> USE DEF rigid, media, file, memory, results, wrap, undoing
<1>1. CASE UNCHANGED vars
  BY <1>1 DEF vars
<1>2. CASE SetUp \/ CreateJournalFails \/ OpenDeviceFails
  BY <1>2 DEF SetUp, CreateJournalFails, OpenDeviceFails
<1>3. CASE ReadOriginal \/ ReadOriginalFails \/ RecordFails \/ FinishReads
  BY <1>3 DEF ReadOriginal, ReadOriginalFails, RecordFails, FinishReads
<1>4. CASE SkipWrite \/ WritePattern \/ WritePatternFails
  BY <1>4 DEF SkipWrite, WritePattern, WritePatternFails
<1>5. CASE SyncWrites \/ SyncWritesFails \/ Reopen \/ ReopenFails
  BY <1>5 DEF SyncWrites, SyncWritesFails, Reopen, ReopenFails
<1>6. ASSUME NEW i \in Sample, Verify(i) \/ VerifyFails(i)
      PROVE  /\ UNCHANGED <<drive, before, mode, view, maybe, written, log, originals>>
             /\ UNCHANGED restoreErrors
  BY <1>6 DEF Verify, VerifyFails
<1>7. CASE FinishVerify \/ FindEcho \/ PassCandidate \/ FinishSweep
  BY <1>7 DEF FinishVerify, FindEcho, PassCandidate, FinishSweep
<1>8. CASE SkipRestore \/ Restore \/ RestoreFails \/ SyncRestore \/ SyncRestoreFails
  BY <1>8 DEF SkipRestore, Restore, RestoreFails, SyncRestore, SyncRestoreFails
<1>9. CASE KeepJournal \/ DiscardJournal \/ DiscardJournalFails
  BY <1>9 DEF KeepJournal, DiscardJournal, DiscardJournalFails
<1>10. CASE Crash
  BY <1>10 DEF Crash
<1> QED
  BY <1>1, <1>2, <1>3, <1>4, <1>5, <1>6, <1>7, <1>8, <1>9, <1>10 DEF Next, Step

\* A write changes only the cell behind its slot, and only if writes reach it.
LEMMA WriteFrame ==
    ASSUME TypeOK, NEW s \in Slot, NEW x \in Content,
           WriteSlot(s, x) \/ WriteSlotFails(s, x)
    PROVE  /\ \A c \in Slot : (view'[c] # view[c] \/ maybe'[c] # maybe[c]) =>
                 drive.kind[s] = "store" /\ drive.phys[s] = c
           /\ view'[drive.phys[s]] \in {view[drive.phys[s]], x, Garbage}
           /\ WriteSlot(s, x) /\ drive.kind[s] = "store" =>
                 view'[drive.phys[s]] = x
<1>1. /\ view \in [Slot -> Content] /\ maybe \in [Slot -> SUBSET Content]
      /\ drive.phys[s] \in Slot
  BY RunTypes DEF TypeOK, Drive
<1>2. \A y : \A c \in Slot :
        Store(drive, view, s, y)[c] # view[c] =>
            drive.kind[s] = "store" /\ drive.phys[s] = c
  BY <1>1 DEF Store
<1>3. \A c \in Slot :
        StoreMaybe(drive, maybe, s, x)[c] # maybe[c] =>
            drive.kind[s] = "store" /\ drive.phys[s] = c
  BY <1>1 DEF StoreMaybe
<1>4. \A y : /\ Store(drive, view, s, y)[drive.phys[s]] \in {view[drive.phys[s]], y}
             /\ drive.kind[s] = "store" => Store(drive, view, s, y)[drive.phys[s]] = y
  BY <1>1 DEF Store
<1>5. CASE WriteSlot(s, x)
  BY <1>2, <1>3, <1>4, <1>5 DEF WriteSlot
<1>6. CASE WriteSlotFails(s, x) /\ ~WriteSlot(s, x)
  <2>1. CASE UNCHANGED media
    BY <1>6, <2>1 DEF media
  <2>2. ASSUME NEW y \in {view[drive.phys[s]], x, Garbage},
               view' = Store(drive, view, s, y),
               maybe' = StoreMaybe(drive, maybe, s, x)
        PROVE  /\ \A c \in Slot : (view'[c] # view[c] \/ maybe'[c] # maybe[c]) =>
                     drive.kind[s] = "store" /\ drive.phys[s] = c
               /\ view'[drive.phys[s]] \in {view[drive.phys[s]], x, Garbage}
    BY <1>2, <1>3, <1>4, <2>2
  <2> QED
    BY <1>6, <2>1, <2>2 DEF WriteSlotFails
<1> QED
  BY <1>5, <1>6

\* What the steps that write a sample have in common.
LEMMA WriteSteps ==
    ASSUME TypeOK
    PROVE  /\ WritePattern \/ WritePatternFails =>
                 /\ cur \in Sample /\ Offset[cur] \in Slot /\ Expected(cur) \in Content
                 /\ \/ WriteSlot(Offset[cur], Expected(cur))
                    \/ WriteSlotFails(Offset[cur], Expected(cur))
                 /\ pc = "write" /\ pc' = "write" /\ verdict[cur] = ""
                 /\ written' = written \cup {cur}
           /\ Restore \/ RestoreFails =>
                 /\ cur \in Sample /\ Offset[cur] \in Slot /\ originals[cur] \in Content
                 /\ \/ WriteSlot(Offset[cur], originals[cur])
                    \/ WriteSlotFails(Offset[cur], originals[cur])
                 /\ pc = "restore" /\ pc' = "restore"
                 /\ cur \in written /\ written' = written
<1>1. (WritePattern \/ WritePatternFails) => cur \in Sample
  BY PlanAssumption DEF TypeOK, WritePattern, WritePatternFails, Writing, Sample
<1>2. (Restore \/ RestoreFails) => cur \in Sample
  BY PlanAssumption DEF TypeOK, Restore, RestoreFails, Restoring, Sample
<1>3. \A i \in Sample : Offset[i] \in Slot /\ Expected(i) \in Content
  BY RunTypes, ContentFacts DEF Expected
<1>4. (WritePattern \/ WritePatternFails) =>
         /\ \/ WriteSlot(Offset[cur], Expected(cur))
            \/ WriteSlotFails(Offset[cur], Expected(cur))
         /\ pc = "write" /\ pc' = "write" /\ verdict[cur] = ""
         /\ written' = written \cup {cur}
  BY DEF WritePattern, WritePatternFails, Writing, MayOverwrite
<1>5. (Restore \/ RestoreFails) =>
         /\ \/ WriteSlot(Offset[cur], originals[cur])
            \/ WriteSlotFails(Offset[cur], originals[cur])
         /\ pc = "restore" /\ pc' = "restore"
         /\ cur \in written /\ originals[cur] # Nil /\ written' = written
  BY DEF Restore, RestoreFails, Restoring, MustRestore, memory
<1>6. (Restore \/ RestoreFails) => originals[cur] \in Content
  BY <1>2, <1>5 DEF TypeOK
<1> QED
  BY <1>1, <1>2, <1>3, <1>4, <1>5, <1>6

\* A cell that no written sample stores to is untouched.
LEMMA Untouched ==
    ASSUME TypeOK, CellInv, written = {}
    PROVE  /\ view = before
           /\ Dirty = {}
           /\ \A s \in Slot : Read(s) = Load(drive, before, s)
<1>1. \A c \in Slot : view[c] = before[c] /\ maybe[c] = {before[c]}
  BY DEF CellInv
<1>2. view = before
  BY <1>1, RunTypes DEF TypeOK
<1> QED
  BY <1>1, <1>2 DEF Dirty, Read

\* Every step keeps a cell that its samples have not touched as it was.
LEMMA NextCellInv == TypeOK /\ CellInv /\ [Next]_vars => CellInv'
<1> SUFFICES ASSUME TypeOK, CellInv, [Next]_vars PROVE CellInv'
  OBVIOUS
<1>1. drive' = drive /\ before' = before /\ written \subseteq written'
  BY Frames, WriteSteps
<1>2. SUFFICES ASSUME NEW c \in Slot,
                      view'[c] # before[c] \/ maybe'[c] # {before[c]}
               PROVE  \E i \in written' : Stores(i) /\ CellOf(i) = c
  BY <1>1 DEF CellInv, Stores, CellOf
<1>3. (\E i \in written : Stores(i) /\ CellOf(i) = c) =>
         \E i \in written' : Stores(i) /\ CellOf(i) = c
  BY <1>1
<1>4. (view[c] # before[c] \/ maybe[c] # {before[c]}) =>
         \E i \in written : Stores(i) /\ CellOf(i) = c
  BY DEF CellInv
<1>5. CASE UNCHANGED <<view, maybe>>
  BY <1>2, <1>3, <1>4, <1>5
<1>6. CASE WritePattern \/ WritePatternFails \/ Restore \/ RestoreFails
  <2>1. cur \in written'
    BY <1>6, WriteSteps
  <2>2. (view'[c] # view[c] \/ maybe'[c] # maybe[c]) => Stores(cur) /\ CellOf(cur) = c
    BY <1>6, WriteSteps, WriteFrame DEF Stores, CellOf
  <2> QED
    BY <1>2, <1>3, <1>4, <2>1, <2>2
<1>7. CASE SyncWrites \/ SyncRestore
  <2>1. view' = view /\ maybe'[c] \in {maybe[c], {view[c]}}
    BY <1>7 DEF SyncWrites, SyncRestore, Flush
  <2> QED
    BY <1>2, <1>3, <1>4, <2>1
<1> QED
  BY <1>5, <1>6, <1>7, Frames

\* Every step keeps what is known of the phases.
LEMMA NextPhaseInv == TypeOK /\ PhaseInv /\ [Next]_vars => PhaseInv'
<1> SUFFICES ASSUME TypeOK, PhaseInv, [Next]_vars PROVE PhaseInv'
  OBVIOUS
<1> USE DEF rigid, media, file, memory, results, wrap, undoing
<1>1. CASE UNCHANGED vars
  BY <1>1 DEF vars, PhaseInv
<1>2. CASE SetUp \/ CreateJournalFails \/ OpenDeviceFails
  BY <1>2 DEF SetUp, CreateJournalFails, OpenDeviceFails, PhaseInv
<1>3. CASE ReadOriginal \/ ReadOriginalFails \/ RecordFails \/ FinishReads
  BY <1>3 DEF ReadOriginal, ReadOriginalFails, RecordFails, FinishReads, Reading, PhaseInv
<1>4. CASE SkipWrite \/ WritePattern \/ WritePatternFails
  BY <1>4 DEF SkipWrite, WritePattern, WritePatternFails, Writing, PhaseInv
<1>5. CASE SyncWrites \/ SyncWritesFails \/ Reopen \/ ReopenFails
  BY <1>5 DEF SyncWrites, SyncWritesFails, Reopen, ReopenFails, PhaseInv
<1>6. ASSUME NEW i \in Sample, Verify(i) \/ VerifyFails(i) PROVE PhaseInv'
  BY <1>6 DEF Verify, VerifyFails, PhaseInv
<1>7. CASE FinishVerify \/ FindEcho \/ PassCandidate \/ FinishSweep
  BY <1>7 DEF FinishVerify, FindEcho, PassCandidate, FinishSweep, Sweeping, PhaseInv
<1>8. CASE SkipRestore \/ Restore \/ RestoreFails \/ SyncRestore \/ SyncRestoreFails
  BY <1>8 DEF SkipRestore, Restore, RestoreFails, SyncRestore, SyncRestoreFails,
              Restoring, PhaseInv
<1>9. CASE KeepJournal \/ DiscardJournal \/ DiscardJournalFails
  BY <1>9 DEF KeepJournal, DiscardJournal, DiscardJournalFails, MayDiscard, PhaseInv
<1>10. CASE Crash
  BY <1>10 DEF Crash, PhaseInv
<1> QED
  BY <1>1, <1>2, <1>3, <1>4, <1>5, <1>6, <1>7, <1>8, <1>9, <1>10 DEF Next, Step

\* The journal only ever grows, by a record of the sample being read.
LEMMA LogGrowth ==
    ASSUME TypeOK, [Next]_vars, ~UNCHANGED log
    PROVE  /\ cur \in Sample /\ pc = "read"
           /\ \E part \in {"whole", "torn"} :
                 /\ log' = Append(log, Entry(Offset[cur], Read(Offset[cur]), part))
                 /\ part = "torn" => pc' \in {"return", "dead"}
<1>1. CASE ReadOriginal
  <2>1. log' = Append(log, RecordOf(cur, "whole"))
    BY <1>1 DEF ReadOriginal, Recorded
  <2>2. cur \in Sample /\ pc = "read"
    BY <1>1, PlanAssumption DEF ReadOriginal, Reading, TypeOK, Sample
  <2> QED
    BY <2>1, <2>2 DEF RecordOf
<1>2. CASE RecordFails \/ Crash
  <2>1. Reading /\ log' \in Leftover(cur) /\ pc' \in {"return", "dead"}
    BY <1>2 DEF RecordFails, Crash
  <2>2. cur \in Sample /\ pc = "read"
    BY <2>1, PlanAssumption DEF Reading, TypeOK, Sample
  <2> QED
    BY <2>1, <2>2 DEF Leftover, RecordOf
<1> QED
  BY <1>1, <1>2, Frames

\* Every step keeps the journal a list of originals.
LEMMA NextLogInv ==
    TypeOK /\ PhaseInv /\ CellInv /\ LogInv /\ [Next]_vars => LogInv'
<1> SUFFICES ASSUME TypeOK, PhaseInv, CellInv, LogInv, [Next]_vars,
                    NEW k \in DOMAIN log'
             PROVE  /\ log'[k].data = Load(drive, before, log'[k].slot)
                    /\ log'[k].part # "whole" =>
                          written' = {} /\ pc' \in {"return", "done", "dead"}
  BY Frames DEF LogInv
<1> DEFINE Ended == written = {} /\ pc \in {"return", "done", "dead"}
<1>1. Ended => Ended'
  <2> SUFFICES ASSUME Ended PROVE Ended'
    OBVIOUS
  <2>1. written' = written
    BY Frames, WriteSteps
  <2>2. pc' \in {"return", "done", "dead"}
    <3> USE DEF SetUp, CreateJournalFails, OpenDeviceFails, Reading, Writing,
                Sweeping, Restoring
    <3>1. CASE UNCHANGED vars
      BY <3>1 DEF vars
    <3>2. CASE KeepJournal \/ DiscardJournal \/ DiscardJournalFails \/ Crash
      BY <3>2 DEF KeepJournal, DiscardJournal, DiscardJournalFails, Crash
    <3>3. ~(SetUp \/ CreateJournalFails \/ OpenDeviceFails)
      OBVIOUS
    <3>4. ~(ReadOriginal \/ ReadOriginalFails \/ RecordFails \/ FinishReads)
      BY DEF ReadOriginal, ReadOriginalFails, RecordFails, FinishReads
    <3>5. ~(SkipWrite \/ WritePattern \/ WritePatternFails \/ SyncWrites
            \/ SyncWritesFails \/ Reopen \/ ReopenFails)
      BY DEF SkipWrite, WritePattern, WritePatternFails, SyncWrites,
             SyncWritesFails, Reopen, ReopenFails
    <3>6. \A i \in Sample : ~(Verify(i) \/ VerifyFails(i))
      BY DEF Verify, VerifyFails
    <3>7. ~(FinishVerify \/ FindEcho \/ PassCandidate \/ FinishSweep)
      BY DEF FinishVerify, FindEcho, PassCandidate, FinishSweep
    <3>8. ~(SkipRestore \/ Restore \/ RestoreFails \/ SyncRestore \/ SyncRestoreFails)
      BY DEF SkipRestore, Restore, RestoreFails, SyncRestore, SyncRestoreFails
    <3> QED
      BY <3>1, <3>2, <3>3, <3>4, <3>5, <3>6, <3>7, <3>8 DEF Next, Step
  <2> QED
    BY <2>1, <2>2
<1>2. CASE UNCHANGED log
  BY <1>1, <1>2 DEF LogInv
<1>3. CASE ~UNCHANGED log
  <2>1. PICK part \in {"whole", "torn"} :
           /\ log' = Append(log, Entry(Offset[cur], Read(Offset[cur]), part))
           /\ part = "torn" => pc' \in {"return", "dead"}
    BY <1>3, LogGrowth
  <2>2. written = {} /\ Read(Offset[cur]) = Load(drive, before, Offset[cur])
    BY <1>3, LogGrowth, Untouched, RunTypes DEF PhaseInv
  <2>3. written' = {}
    BY <1>3, <2>2, LogGrowth, Frames, WriteSteps
  <2>4. \/ k \in DOMAIN log /\ log'[k] = log[k]
        \/ log'[k] = Entry(Offset[cur], Read(Offset[cur]), part)
    BY <2>1 DEF TypeOK
  <2>5. CASE k \in DOMAIN log /\ log'[k] = log[k]
    BY <1>1, <2>5 DEF LogInv
  <2>6. CASE log'[k] = Entry(Offset[cur], Read(Offset[cur]), part)
    BY <2>1, <2>2, <2>3, <2>6 DEF Entry
  <2> QED
    BY <2>4, <2>5, <2>6
<1> QED
  BY <1>2, <1>3

\* What has been backed up stays backed up, except the sample being read.
LEMMA BackedStays ==
    ASSUME TypeOK, [Next]_vars, NEW i \in Sample, Backed(i),
           originals'[i] = originals[i]
    PROVE  Backed(i)'
<1>1. Original(i)' = Original(i) /\ mode' = mode
  BY Frames DEF Original
<1>2. \A k \in DOMAIN log : k \in DOMAIN log' /\ log'[k] = log[k]
  <2>1. CASE UNCHANGED log
    BY <2>1
  <2>2. CASE ~UNCHANGED log
    <3>1. \E e : log' = Append(log, e)
      BY <2>2, LogGrowth
    <3> QED
      BY <3>1 DEF TypeOK
  <2> QED
    BY <2>1, <2>2
<1> QED
  BY <1>1, <1>2 DEF Backed

\* Every step keeps the samples that are, or may now be, written backed up.
LEMMA NextBackupInv ==
    TypeOK /\ PhaseInv /\ CellInv /\ BackupInv /\ [Next]_vars => BackupInv'
<1> SUFFICES ASSUME TypeOK, PhaseInv, CellInv, BackupInv, [Next]_vars, NEW i \in Sample, NeedsBackup(i)'
             PROVE  Backed(i)'
  BY DEF BackupInv
<1>1. NeedsBackup(i) => Backed(i)
  BY DEF BackupInv
<1> USE DEF rigid, media, file, memory, results, wrap, undoing
<1>2. CASE ReadOriginal
  <2>0. cur \in Sample
    BY <1>2, SampleFacts DEF ReadOriginal, Reading, TypeOK
  <2>1. pc = "read" /\ cur \in Sample /\ pc' = pc /\ written' = written /\ verdict' = verdict
    BY <1>2, <2>0 DEF ReadOriginal, Reading
  <2>2. written = {}
    BY <2>1 DEF PhaseInv
  <2>3. i < cur + 1 /\ verdict[i] = ""
    BY <1>2, <2>1, <2>2 DEF ReadOriginal, NeedsBackup
  <2>4. CASE i # cur
    <3>1. NeedsBackup(i)
      <4>1. i \in Nat /\ cur \in Nat
        BY <2>0, SampleFacts
      <4>2. i < cur
        BY <2>3, <2>4, <4>1, BeforeNext
      <4> QED
        BY <2>1, <2>3, <4>2 DEF NeedsBackup
    <3>2. originals'[i] = originals[i]
      BY <1>2, <2>4 DEF ReadOriginal, TypeOK
    <3> QED
      BY <1>1, <3>1, <3>2, BackedStays
  <2>5. CASE i = cur
    <3>1. Read(Offset[i]) = Original(i) /\ Original(i)' = Original(i) /\ mode' = mode
      BY <2>2, Untouched, RunTypes, Frames DEF Original
    <3>2. originals'[i] = Original(i)
      BY <1>2, <2>5, <3>1 DEF ReadOriginal, TypeOK
    <3>3. ASSUME mode = "check"
          PROVE  \E k \in DOMAIN log' : log'[k] = Entry(Offset[i], Original(i), "whole")
      <4>1. journal = "open"
        BY <2>1, <3>3 DEF PhaseInv
      <4>2. log' = Append(log, Entry(Offset[i], Original(i), "whole"))
        BY <1>2, <2>5, <3>1, <4>1 DEF ReadOriginal, Recorded, RecordOf
      <4>3. /\ Len(log) + 1 \in DOMAIN log'
            /\ log'[Len(log) + 1] = Entry(Offset[i], Original(i), "whole")
        <5>1. RecordOf(i, "whole") \in Entries
          BY RecordType
        <5>2. RecordOf(i, "whole") = Entry(Offset[i], Original(i), "whole")
          BY <3>1 DEF RecordOf
        <5>3. log \in Seq(Entries)
          BY DEF TypeOK
        <5> QED
          BY <4>2, <5>1, <5>2, <5>3
      <4> QED
        BY <4>3
    <3> QED
      BY <3>1, <3>2, <3>3 DEF Backed
  <2> QED
    BY <2>4, <2>5
<1>3. CASE RecordFails
  <2>1. written = {} /\ written' = written /\ pc' = "return"
    BY <1>3 DEF RecordFails, Reading, PhaseInv
  <2> QED
    BY <2>1 DEF NeedsBackup
<1>4. CASE ReadOriginalFails
  <2>1. /\ pc = "read" /\ pc' = pc /\ written' = written /\ cur' = cur + 1
        /\ cur \in Sample /\ verdict'[cur] = "read-error"
        /\ i # cur => verdict'[i] = verdict[i]
    <3>1. cur \in Sample
      BY <1>4, SampleFacts DEF ReadOriginalFails, Reading, TypeOK
    <3> QED
      BY <1>4, <3>1 DEF ReadOriginalFails, Reading, TypeOK
  <2>2. NeedsBackup(i)
    <3>1. i < cur + 1 /\ i # cur /\ verdict[i] = ""
      <4>1. i \in written' \/ (i < cur + 1 /\ verdict'[i] = "")
        BY <2>1 DEF NeedsBackup
      <4>2. written' = {}
        BY <2>1 DEF PhaseInv
      <4> QED
        BY <2>1, <4>1, <4>2
    <3>2. i \in Nat /\ cur \in Nat
      BY <2>1, SampleFacts
    <3>3. i < cur
      BY <3>1, <3>2, BeforeNext
    <3> QED
      BY <2>1, <3>1, <3>3 DEF NeedsBackup
  <2>3. originals' = originals
    BY <1>4 DEF ReadOriginalFails
  <2> QED
    BY <1>1, <2>2, <2>3, BackedStays
<1>5. CASE FinishReads
  <2>1. pc = "read" /\ cur = N /\ written' = written /\ pc' # "read" /\ originals' = originals
    BY <1>5 DEF FinishReads
  <2>2. pc' = "write" => verdict' = verdict
    BY <1>5 DEF FinishReads
  <2>3. i < N
    BY SampleFacts
  <2> QED
    BY <1>1, <2>1, <2>2, <2>3, BackedStays DEF NeedsBackup
<1>6. CASE WritePattern \/ WritePatternFails
  <2>1. pc = "write" /\ pc' = "write" /\ verdict[cur] = "" /\ written' = written \cup {cur}
    BY <1>6, WriteSteps
  <2>2. originals' = originals
    BY <1>6 DEF WritePattern, WritePatternFails
  <2>3. verdict'[i] = "" => verdict[i] = ""
    BY <1>6 DEF WritePattern, WritePatternFails, TypeOK
  <2> QED
    BY <1>1, <2>1, <2>2, <2>3, BackedStays DEF NeedsBackup
<1>7. CASE ~(\/ ReadOriginal \/ ReadOriginalFails \/ RecordFails \/ FinishReads
             \/ WritePattern \/ WritePatternFails)
  <2>1. originals' = originals /\ written' = written
    BY <1>7, Frames
  <2>2. /\ pc' = "read" => (pc = "read" /\ cur' = cur /\ verdict' = verdict) \/ pc = "create"
        /\ pc' = "write" => pc = "write" /\ verdict' = verdict
    <3>1. CASE UNCHANGED vars
      BY <3>1 DEF vars
    <3>2. CASE SetUp
      BY <3>2 DEF SetUp
    <3>3. CASE SkipWrite
      BY <3>3 DEF SkipWrite, Writing
    <3>4. CASE ~(UNCHANGED vars \/ SetUp \/ SkipWrite)
      <4>1. ASSUME CreateJournalFails \/ OpenDeviceFails
            PROVE  pc' \notin {"read", "write"}
        BY <4>1 DEF CreateJournalFails, OpenDeviceFails
      <4>2. ASSUME SyncWrites \/ SyncWritesFails \/ Reopen \/ ReopenFails
            PROVE  pc' \notin {"read", "write"}
        BY <4>2 DEF SyncWrites, SyncWritesFails, Reopen, ReopenFails
      <4>3. ASSUME NEW j \in Sample, Verify(j) \/ VerifyFails(j)
            PROVE  pc' \notin {"read", "write"}
        BY <4>3 DEF Verify, VerifyFails
      <4>4. ASSUME FinishVerify \/ FindEcho \/ PassCandidate \/ FinishSweep
            PROVE  pc' \notin {"read", "write"}
        BY <4>4 DEF FinishVerify, FindEcho, PassCandidate, FinishSweep, Sweeping
      <4>5. ASSUME \/ SkipRestore \/ Restore \/ RestoreFails
                   \/ SyncRestore \/ SyncRestoreFails
            PROVE  pc' \notin {"read", "write"}
        BY <4>5 DEF SkipRestore, Restore, RestoreFails, SyncRestore,
                    SyncRestoreFails, Restoring
      <4>6. ASSUME KeepJournal \/ DiscardJournal \/ DiscardJournalFails \/ Crash
            PROVE  pc' \notin {"read", "write"}
        BY <4>6 DEF KeepJournal, DiscardJournal, DiscardJournalFails, Crash
      <4> QED
        BY <1>7, <3>4, <4>1, <4>2, <4>3, <4>4, <4>5, <4>6 DEF Next, Step
    <3> QED
      BY <3>1, <3>2, <3>3, <3>4
  <2>3. pc = "create" /\ pc' = "read" => cur' = 0
    <3>1. pc = "create" => UNCHANGED cur
      BY DEF Next, Step, vars, SetUp, CreateJournalFails, OpenDeviceFails, ReadOriginal,
             ReadOriginalFails, RecordFails, FinishReads, SkipWrite, WritePattern,
             WritePatternFails, SyncWrites, SyncWritesFails, Reopen, ReopenFails,
             Verify, VerifyFails, FinishVerify, FindEcho, PassCandidate, FinishSweep,
             SkipRestore, Restore, RestoreFails, SyncRestore, SyncRestoreFails,
             KeepJournal, DiscardJournal, DiscardJournalFails, Crash,
             Reading, Writing, Sweeping, Restoring
    <3> QED
      BY <3>1 DEF PhaseInv
  <2>4. CASE i \in written
    BY <1>1, <2>1, <2>4, BackedStays DEF NeedsBackup
  <2>5. CASE i \notin written
    <3>1. ~(i < 0)
      BY SampleFacts
    <3> QED
      BY <1>1, <2>1, <2>2, <2>3, <2>5, <3>1, BackedStays DEF NeedsBackup
  <2> QED
    BY <2>4, <2>5
<1> QED
  BY <1>2, <1>3, <1>4, <1>5, <1>6, <1>7

\* A write that goes through to the cell of a sample restores it if it writes
\* the original.
LEMMA OriginalIsBefore ==
    ASSUME TypeOK, NEW i \in Sample, Stores(i)
    PROVE  Original(i) = before[CellOf(i)]
  BY DEF Original, Stores, CellOf, Load

\* The original of a sample is not a pattern, and not an unfilled buffer.
LEMMA OriginalType ==
    ASSUME TypeOK, NEW i \in Sample
    PROVE  Original(i) \in Blank /\ Original(i) # Nil
<1>1. Original(i) \in {Zero, before[drive.phys[Offset[i]]]}
  BY DEF Original, Load
<1>2. drive.phys[Offset[i]] \in Slot
  BY RunTypes DEF Drive
<1>3. before \in [Slot -> Blank]
  BY EnvironmentAssumption DEF TypeOK
<1>4. Zero \in Blank
  BY ContentFacts DEF Blank, Zero
<1>5. Original(i) \in Blank
  BY <1>1, <1>2, <1>3, <1>4
<1> QED
  BY <1>5 DEF Blank, Nil

\* Every step keeps the cells the restore has gone past at their originals,
\* those excepted that it failed to write.
LEMMA NextRestoringInv ==
    TypeOK /\ BackupInv /\ RestoringInv /\ [Next]_vars => RestoringInv'
<1> SUFFICES ASSUME TypeOK, BackupInv, RestoringInv, [Next]_vars,
                    pc' = "restore", NEW i \in written'
             PROVE  PutBack(i)' \/ Missing(CellOf(i))'
  BY DEF RestoringInv
<1> USE DEF rigid, media, file, memory, results, wrap, undoing
<1>0. i \in Sample /\ i \in Nat /\ ~(i < 0)
  <2>1. i \in Sample
    BY NextTypeOK DEF TypeOK
  <2> QED
    BY <2>1, SampleFacts
<1>1. drive' = drive /\ before' = before
  BY Frames
<1>2. CASE UNCHANGED vars
  BY <1>2 DEF vars, RestoringInv, PutBack, Missing, Stores, CellOf
<1>3. CASE cur' = 0
  BY <1>0, <1>3 DEF PutBack
<1>4. CASE SkipRestore
  <2>1. ~MustRestore(cur) /\ cur' = cur + 1 /\ pc = "restore" /\ cur \in Nat
    BY <1>4 DEF SkipRestore, Restoring, TypeOK
  <2>2. UNCHANGED <<view, written, restoreErrors>>
    BY <1>4 DEF SkipRestore
  <2>3. i # cur
    BY <1>0, <2>1, <2>2, OriginalType DEF MustRestore, BackupInv, NeedsBackup, Backed
  <2>4. i < cur + 1 => i < cur
    BY <1>0, <2>1, <2>3, BeforeNext
  <2>5. PutBack(i) \/ Missing(CellOf(i))
    BY <2>1, <2>2 DEF RestoringInv
  <2> QED
    BY <1>1, <2>1, <2>2, <2>4, <2>5 DEF PutBack, Missing, Stores, CellOf
<1>5. CASE Restore \/ RestoreFails
  <2>1. /\ cur \in Sample /\ cur \in Nat /\ Offset[cur] \in Slot /\ originals[cur] \in Content
        /\ \/ WriteSlot(Offset[cur], originals[cur])
           \/ WriteSlotFails(Offset[cur], originals[cur])
        /\ pc = "restore" /\ cur \in written /\ written' = written
        /\ cur' = cur + 1 /\ restoreErrors \subseteq restoreErrors'
        /\ Restore => WriteSlot(Offset[cur], originals[cur])
        /\ RestoreFails => cur \in restoreErrors'
    BY <1>5, WriteSteps, SampleFacts DEF Restore, RestoreFails
  <2>2. originals[cur] = Original(cur)
    BY <2>1 DEF BackupInv, NeedsBackup, Backed
  <2>3. SUFFICES ASSUME i < cur + 1, Stores(i), ~Missing(CellOf(i))'
                 PROVE  view'[CellOf(i)] = before[CellOf(i)]
    BY <1>1, <2>1 DEF PutBack, Missing, Stores, CellOf
  <2>4. CellOf(i) \in Slot
    BY <1>0, RunTypes DEF CellOf, Drive
  <2>5. CASE Stores(cur) /\ CellOf(cur) = CellOf(i)
    <3>1. ~RestoreFails
      BY <1>1, <2>1, <2>3, <2>5 DEF Missing, Stores, CellOf
    <3> QED
      BY <1>5, <2>1, <2>2, <2>5, <3>1, WriteFrame, OriginalIsBefore DEF Stores, CellOf
  <2>6. CASE ~(Stores(cur) /\ CellOf(cur) = CellOf(i))
    <3>1. i # cur
      BY <2>3, <2>6
    <3>2. i < cur
      BY <1>0, <2>1, <2>3, <3>1, BeforeNext
    <3>3. view[CellOf(i)] = before[CellOf(i)]
      BY <1>1, <2>1, <2>3, <3>2 DEF RestoringInv, PutBack, Missing, Stores, CellOf
    <3>4. view'[CellOf(i)] = view[CellOf(i)]
      BY <2>1, <2>4, <2>6, WriteFrame DEF Stores, CellOf
    <3> QED
      BY <3>3, <3>4
  <2> QED
    BY <2>5, <2>6
<1>6. CASE ~(UNCHANGED vars \/ SkipRestore \/ Restore \/ RestoreFails)
  <2>1. ASSUME \/ SetUp \/ CreateJournalFails \/ OpenDeviceFails \/ ReadOriginal
               \/ ReadOriginalFails \/ RecordFails \/ FinishReads
        PROVE  FALSE
    BY <2>1 DEF SetUp, CreateJournalFails, OpenDeviceFails, ReadOriginal,
                ReadOriginalFails, RecordFails, FinishReads, Reading
  <2>2. ASSUME \/ SkipWrite \/ WritePattern \/ WritePatternFails \/ SyncWrites
               \/ SyncWritesFails \/ Reopen \/ ReopenFails
        PROVE  cur' = 0
    BY <2>2 DEF SkipWrite, WritePattern, WritePatternFails, SyncWrites,
                SyncWritesFails, Reopen, ReopenFails, Writing
  <2>3. ASSUME NEW j \in Sample, Verify(j) \/ VerifyFails(j)
        PROVE  FALSE
    BY <2>3 DEF Verify, VerifyFails
  <2>4. ASSUME FinishVerify \/ FindEcho \/ PassCandidate \/ FinishSweep
        PROVE  cur' = 0
    BY <2>4 DEF FinishVerify, FindEcho, PassCandidate, FinishSweep, Sweeping
  <2>5. ASSUME \/ SyncRestore \/ SyncRestoreFails
               \/ KeepJournal \/ DiscardJournal \/ DiscardJournalFails \/ Crash
        PROVE  FALSE
    BY <2>5 DEF SyncRestore, SyncRestoreFails, KeepJournal, DiscardJournal,
                DiscardJournalFails, Crash
  <2>6. cur' = 0
    BY <1>6, <2>1, <2>2, <2>3, <2>4, <2>5 DEF Next, Step
  <2> QED
    BY <1>3, <2>6
<1> QED
  BY <1>2, <1>4, <1>5, <1>6

\* Every step keeps a run that returns without a restore error a clean one.
LEMMA NextRestoredInv ==
    /\ TypeOK /\ PhaseInv /\ CellInv /\ RestoringInv /\ RestoredInv
    /\ [Next]_vars
    => RestoredInv'
<1> SUFFICES ASSUME TypeOK, PhaseInv, CellInv, RestoringInv, RestoredInv, [Next]_vars,
                    pc' \in {"return", "done"}, runErr' # "reopen", restoreErrors' = {}
             PROVE  AllBack'
  BY DEF RestoredInv
<1> USE DEF rigid, media, file, memory, results, wrap, undoing
<1>1. drive' = drive /\ before' = before
  BY Frames
<1>2. ASSUME AllBack, UNCHANGED <<view, maybe>> PROVE AllBack'
  BY <1>1, <1>2 DEF AllBack, Dirty
<1>3. CASE UNCHANGED vars
  BY <1>2, <1>3 DEF vars, RestoredInv
<1>4. CASE CreateJournalFails \/ OpenDeviceFails \/ RecordFails \/ FinishReads
  <2>1. written = {} /\ UNCHANGED <<view, maybe>>
    BY <1>4 DEF CreateJournalFails, OpenDeviceFails, RecordFails, FinishReads,
                Reading, PhaseInv
  <2>2. AllBack
    BY <2>1, Untouched DEF AllBack
  <2> QED
    BY <1>2, <2>1, <2>2
<1>5. CASE SyncRestore
  <2>1. /\ pc = "restore" /\ cur = N /\ restoreErrors = {}
        /\ view' = view /\ maybe' = Flush(drive, maybe, view)
    BY <1>5 DEF SyncRestore
  <2>2. ASSUME NEW c \in Slot PROVE view[c] = before[c]
    <3>1. \A i \in written : i \in Sample /\ i < N
      BY SampleFacts DEF TypeOK
    <3>2. \A i \in written : Stores(i) => view[CellOf(i)] = before[CellOf(i)]
      BY <2>1, <3>1 DEF RestoringInv, PutBack, Missing
    <3> QED
      BY <3>2 DEF CellInv
  <2>3. view = before
    BY <2>2, RunTypes DEF TypeOK
  <2>4. drive.fullSync => \A c \in Slot : maybe'[c] = {before[c]}
    BY <2>1, <2>3 DEF Flush
  <2> QED
    BY <1>1, <2>1, <2>3, <2>4 DEF AllBack, Dirty
<1>6. CASE KeepJournal \/ DiscardJournal \/ DiscardJournalFails
  <2>1. /\ pc = "return" /\ UNCHANGED <<view, maybe, runErr, restoreErrors>>
    BY <1>6 DEF KeepJournal, DiscardJournal, DiscardJournalFails
  <2> QED
    BY <1>2, <2>1 DEF RestoredInv
<1>7. ~(SetUp \/ ReadOriginal \/ ReadOriginalFails)
  BY DEF SetUp, ReadOriginal, ReadOriginalFails, Reading
<1>8. ~(\/ SkipWrite \/ WritePattern \/ WritePatternFails \/ SyncWrites
        \/ SyncWritesFails \/ Reopen \/ ReopenFails)
  BY DEF SkipWrite, WritePattern, WritePatternFails, SyncWrites, SyncWritesFails,
         Reopen, ReopenFails, Writing
<1>9. \A j \in Sample : ~(Verify(j) \/ VerifyFails(j))
  BY DEF Verify, VerifyFails
<1>10. ~(FinishVerify \/ FindEcho \/ PassCandidate \/ FinishSweep)
  BY DEF FinishVerify, FindEcho, PassCandidate, FinishSweep, Sweeping
<1>11. ~(SkipRestore \/ Restore \/ RestoreFails \/ SyncRestoreFails \/ Crash)
  BY DEF SkipRestore, Restore, RestoreFails, SyncRestoreFails, Crash, Restoring
<1> QED
  BY <1>3, <1>4, <1>5, <1>6, <1>7, <1>8, <1>9, <1>10, <1>11 DEF Next, Step

\* Patterns of different slots differ.
LEMMA PatternsDiffer ==
    \A i, j \in Sample : Expected(i) = Expected(j) => i = j
<1> SUFFICES ASSUME NEW i \in Sample, NEW j \in Sample, Expected(i) = Expected(j)
             PROVE  i = j
  OBVIOUS
<1>1. Offset[i] = Offset[j]
  BY DEF Expected, Pattern
<1>2. i \in Nat /\ j \in Nat /\ Offset[i] \in Nat /\ Offset[j] \in Nat
  BY SampleFacts, PlanAssumption DEF Slot
<1>3. ~(i < j) /\ ~(j < i)
  BY <1>1, <1>2, PlanAssumption
<1> QED
  BY <1>2, <1>3

\* Every step keeps patterns to the cells behind the samples they belong to.
LEMMA NextPatternInv ==
    TypeOK /\ BackupInv /\ PatternInv /\ [Next]_vars => PatternInv'
<1> SUFFICES ASSUME TypeOK, BackupInv, PatternInv, [Next]_vars,
                    NEW c \in Slot, view'[c].tag = "pattern"
             PROVE  \E i \in Sample :
                        Stores(i) /\ CellOf(i) = c /\ view'[c] = Expected(i)
  BY Frames DEF PatternInv, Stores, CellOf
<1>1. CASE view'[c] = view[c]
  BY <1>1 DEF PatternInv
<1>2. CASE view'[c] # view[c] /\ (WritePattern \/ WritePatternFails)
  <2>1. Stores(cur) /\ CellOf(cur) = c /\ cur \in Sample
    BY <1>2, WriteSteps, WriteFrame DEF Stores, CellOf
  <2>2. view'[c] \in {Expected(cur), Garbage}
    BY <1>2, <2>1, WriteSteps, WriteFrame DEF CellOf
  <2> QED
    BY <2>1, <2>2 DEF Garbage
<1>3. CASE view'[c] # view[c] /\ (Restore \/ RestoreFails)
  <2>1. CellOf(cur) = c /\ cur \in Sample /\ cur \in written
    BY <1>3, WriteSteps, WriteFrame DEF CellOf
  <2>2. view'[c] \in {originals[cur], Garbage}
    BY <1>3, <2>1, WriteSteps, WriteFrame DEF CellOf
  <2>3. originals[cur] \in Blank
    BY <2>1, OriginalType DEF BackupInv, NeedsBackup, Backed
  <2> QED
    BY <2>2, <2>3 DEF Garbage, Blank
<1>4. CASE SyncWrites \/ SyncRestore
  BY <1>1, <1>4 DEF SyncWrites, SyncRestore
<1> QED
  BY <1>1, <1>2, <1>3, <1>4, Frames

\* Reading back its own pattern shows that the writes of a sample reach a cell.
LEMMA OwnPattern ==
    ASSUME TypeOK, PatternInv, NEW i \in Sample, Read(Offset[i]) = Expected(i)
    PROVE  Stores(i) /\ view[CellOf(i)] = Expected(i)
<1>1. view[CellOf(i)] = Expected(i)
  BY DEF Read, Load, Zero, Expected, Pattern, CellOf
<1>2. CellOf(i) \in Slot
  BY RunTypes DEF CellOf, Drive
<1>3. PICK j \in Sample : Stores(j) /\ CellOf(j) = CellOf(i) /\ view[CellOf(i)] = Expected(j)
  BY <1>1, <1>2 DEF PatternInv, Expected, Pattern
<1> QED
  BY <1>1, <1>3, PatternsDiffer

\* Once verification has begun, it is never gone back to, and nothing is
\* written before the restore.
LEMMA LatePhases ==
    ASSUME [Next]_vars, pc \notin {"create", "read", "write", "reopen"}
    PROVE  /\ pc' \notin {"create", "read", "write", "reopen"}
           /\ pc' \in {"verify", "wrapscan"} =>
                 pc \in {"verify", "wrapscan"} /\ view' = view
<1> USE DEF rigid, media, file, memory, results, wrap, undoing
<1>1. CASE UNCHANGED vars
  BY <1>1 DEF vars
<1>2. ~(SetUp \/ CreateJournalFails \/ OpenDeviceFails)
  BY DEF SetUp, CreateJournalFails, OpenDeviceFails
<1>3. ~(ReadOriginal \/ ReadOriginalFails \/ RecordFails \/ FinishReads)
  BY DEF ReadOriginal, ReadOriginalFails, RecordFails, FinishReads, Reading
<1>4. ~(\/ SkipWrite \/ WritePattern \/ WritePatternFails \/ SyncWrites
        \/ SyncWritesFails \/ Reopen \/ ReopenFails)
  BY DEF SkipWrite, WritePattern, WritePatternFails, SyncWrites, SyncWritesFails,
         Reopen, ReopenFails, Writing
<1>5. ASSUME NEW j \in Sample, Verify(j) \/ VerifyFails(j)
      PROVE  pc = "verify" /\ pc' = "verify" /\ view' = view
  BY <1>5 DEF Verify, VerifyFails
<1>6. CASE FinishVerify \/ FindEcho \/ PassCandidate \/ FinishSweep
  BY <1>6 DEF FinishVerify, FindEcho, PassCandidate, FinishSweep, Sweeping
<1>7. CASE SkipRestore \/ Restore \/ RestoreFails \/ SyncRestore \/ SyncRestoreFails
  BY <1>7 DEF SkipRestore, Restore, RestoreFails, SyncRestore, SyncRestoreFails, Restoring
<1>8. CASE KeepJournal \/ DiscardJournal \/ DiscardJournalFails \/ Crash
  BY <1>8 DEF KeepJournal, DiscardJournal, DiscardJournalFails, Crash
<1> QED
  BY <1>1, <1>2, <1>3, <1>4, <1>5, <1>6, <1>7, <1>8 DEF Next, Step

\* Every step keeps what a verdict of ok says of the cell behind the sample.
LEMMA NextOkInv ==
    TypeOK /\ PatternInv /\ OkInv /\ [Next]_vars => OkInv'
<1> SUFFICES ASSUME TypeOK, PatternInv, OkInv, [Next]_vars, mode # "readonly",
                    NEW i \in Sample, verdict'[i] = "ok"
             PROVE  OkSample(i)'
  BY Frames DEF OkInv
<1>1. drive' = drive
  BY Frames
<1>2. \A j \in Sample : verdict[j] = "ok" => OkSample(j)
  BY DEF OkInv
<1>3. ASSUME \A j \in Sample : verdict'[j] = "ok" => verdict[j] = "ok"
      PROVE  OkSample(i)'
  <2>1. OkSample(i)
    BY <1>2, <1>3
  <2>2. /\ pc' \notin {"create", "read", "write", "reopen"}
        /\ pc' \in {"verify", "wrapscan"} =>
              pc \in {"verify", "wrapscan"} /\ view' = view
    BY <2>1, LatePhases DEF OkSample
  <2> QED
    BY <1>1, <1>3, <2>1, <2>2 DEF OkSample, Stores, CellOf
<1>4. CASE UNCHANGED verdict
  BY <1>3, <1>4
<1>5. CASE ReadOriginalFails \/ WritePatternFails
  <2>1. \A j \in Sample : verdict'[j] = "ok" => verdict[j] = "ok"
    BY <1>5 DEF ReadOriginalFails, WritePatternFails, TypeOK
  <2> QED
    BY <1>3, <2>1
<1>6. CASE FinishReads
  <2>1. UNCHANGED verdict
    BY <1>6 DEF FinishReads
  <2> QED
    BY <1>4, <2>1
<1>7. ASSUME NEW j \in Sample, VerifyFails(j) PROVE OkSample(i)'
  <2>1. \A k \in Sample : verdict'[k] = "ok" => verdict[k] = "ok"
    BY <1>7 DEF VerifyFails, TypeOK
  <2> QED
    BY <1>3, <2>1
<1>8. ASSUME NEW j \in Sample, Verify(j) PROVE OkSample(i)'
  <2>1. /\ pc = "verify" /\ pc' = "verify" /\ view' = view
        /\ verdict' = [verdict EXCEPT ![j] = Classify(j, Read(Offset[j]))]
    BY <1>8 DEF Verify, media
  <2>2. ASSUME NEW k \in Sample, verdict'[k] = "ok"
        PROVE  Stores(k) /\ view[CellOf(k)] = Expected(k)
    <3>1. CASE k # j
      <4>1. verdict[k] = "ok"
        BY <2>1, <2>2, <3>1 DEF TypeOK
      <4> QED
        BY <1>2, <2>1, <4>1 DEF OkSample
    <3>2. CASE k = j
      <4>1. Classify(k, Read(Offset[k])) = "ok"
        BY <2>1, <2>2, <3>2 DEF TypeOK
      <4>2. Read(Offset[k]) = Expected(k)
        BY <4>1 DEF Classify
      <4> QED
        BY <4>2, OwnPattern
    <3> QED
      BY <3>1, <3>2
  <2>3. \A k \in Sample \ {i} : verdict'[k] = "ok" => CellOf(k) # CellOf(i)
    BY <2>2, PatternsDiffer
  <2> QED
    BY <1>1, <2>1, <2>2, <2>3 DEF OkSample, Stores, CellOf
<1> QED
  BY <1>4, <1>5, <1>6, <1>7, <1>8, Frames

-----------------------------------------------------------------------------
(***************************************************************************)
(* The invariant holds, and with it the properties.                        *)
(***************************************************************************)
LEMMA InitIInv == Init => IInv
<1> SUFFICES ASSUME Init PROVE IInv
  OBVIOUS
<1>1. TypeOK
  BY InitTypeOK
<1>2. pc = "create" /\ cur = 0 /\ written = {} /\ journal = "none" /\ runErr = "none"
  BY Zenon DEF Init
<1>3. view = before /\ log = <<>>
  BY Zenon DEF Init
<1>4. maybe = [c \in Slot |-> {before[c]}]
  BY Zenon DEF Init
<1>5. verdict = [i \in Sample |-> ""]
  BY Zenon DEF Init
<1>6. PhaseInv
  BY <1>2 DEF PhaseInv
<1>7. CellInv
  BY <1>3, <1>4 DEF CellInv
<1>8. BackupInv
  BY <1>2 DEF BackupInv, NeedsBackup
<1>9. LogInv
  BY <1>3 DEF LogInv
<1>10. RestoringInv /\ RestoredInv
  BY <1>2 DEF RestoringInv, RestoredInv
<1>11. PatternInv
  <2>1. \A c \in Slot : before[c] \in Blank
    BY <1>1, EnvironmentAssumption DEF TypeOK
  <2> QED
    BY <1>3, <2>1 DEF PatternInv, Blank
<1>12. OkInv
  BY <1>5 DEF OkInv
<1> QED
  BY <1>1, <1>6, <1>7, <1>8, <1>9, <1>10, <1>11, <1>12 DEF IInv

\* Every step keeps the inductive invariant.
LEMMA NextIInv == IInv /\ [Next]_vars => IInv'
  BY NextTypeOK, NextPhaseInv, NextCellInv, NextBackupInv, NextLogInv,
     NextRestoringInv, NextRestoredInv, NextPatternInv, NextOkInv DEF IInv

(***************************************************************************)
(* The invariant the safety theorems follow from: types, untouched cells,  *)
(* phases, the journal, the buffers, the restore and the verdicts of a run *)
(* are consistent with each other, at every step and after every failure.  *)
(***************************************************************************)
THEOREM Inductive == Spec => []IInv
  BY InitIInv, NextIInv, PTL DEF Spec

\* The inductive invariant gives the write-ahead property.
LEMMA RecoverableFromIInv == IInv => Recoverable
<1> SUFFICES ASSUME TypeOK, PhaseInv, CellInv, BackupInv, LogInv,
                    mode = "check", journal # "removed"
             PROVE  /\ \A c \in Dirty : \E k \in DOMAIN log : PutsBack(k, c)
                    /\ \A k \in DOMAIN log :
                          Replayable(k) /\ drive.kind[log[k].slot] = "store"
                            => PutsBack(k, drive.phys[log[k].slot])
                    /\ Dirty # {} => \A k \in DOMAIN log : Replayable(k)
  BY DEF IInv, Recoverable
<1>1. ASSUME NEW c \in Dirty PROVE \E k \in DOMAIN log : PutsBack(k, c)
  <2>1. PICK i \in written : Stores(i) /\ CellOf(i) = c
    BY DEF CellInv, Dirty
  <2>2. i \in Sample /\ Backed(i)
    BY DEF TypeOK, BackupInv, NeedsBackup
  <2>3. PICK k \in DOMAIN log : log[k] = Entry(Offset[i], Original(i), "whole")
    BY <2>2 DEF Backed
  <2>4. Original(i) = before[c]
    BY <2>1, <2>2, OriginalIsBefore
  <2> QED
    BY <2>1, <2>3, <2>4 DEF PutsBack, Replayable, Entry, Stores, CellOf
<1>2. ASSUME NEW k \in DOMAIN log, Replayable(k), drive.kind[log[k].slot] = "store"
      PROVE  PutsBack(k, drive.phys[log[k].slot])
  <2>1. log[k].data = Load(drive, before, log[k].slot)
    BY DEF LogInv
  <2> QED
    BY <1>2, <2>1 DEF PutsBack, Load
<1>3. ASSUME Dirty # {}, NEW k \in DOMAIN log PROVE Replayable(k)
  <2>1. written # {}
    BY <1>3, Untouched
  <2> QED
    BY <2>1 DEF LogInv, Replayable
<1> QED
  BY <1>1, <1>2, <1>3

(***************************************************************************)
(* At every moment of a journaled run, whatever fails and whenever it is   *)
(* cut off, replaying the journal puts back every cell that may have       *)
(* changed and never puts back anything but originals.                     *)
(***************************************************************************)
THEOREM WriteAhead == Spec => []Recoverable
  BY Inductive, RecoverableFromIInv, PTL

(***************************************************************************)
(* The journal is only ever removed when every cell holds its original,    *)
(* and after a full flush even a power loss does not change that.          *)
(***************************************************************************)
THEOREM SafeDiscard == Spec => []DiscardOnlyWhenClean
<1>1. IInv => DiscardOnlyWhenClean
  BY DEF IInv, PhaseInv, RestoredInv, AllBack, DiscardOnlyWhenClean
<1> QED
  BY <1>1, Inductive, PTL

(***************************************************************************)
(* A run that reports no restore error has left the drive as it found it,  *)
(* unless it could not reopen the device.                                  *)
(***************************************************************************)
THEOREM NonDestructive == Spec => []CleanUnlessReported
<1>1. IInv => CleanUnlessReported
  BY DEF IInv, RestoredInv, AllBack, CleanUnlessReported
<1> QED
  BY <1>1, Inductive, PTL

(***************************************************************************)
(* Whatever drive it meets and whatever errors occur, a check that passes  *)
(* has stored every sample in a cell of its own.                           *)
(***************************************************************************)
THEOREM PassIsEarned == Spec => []NoFalsePass
<1>1. IInv => NoFalsePass
  <2> SUFFICES ASSUME IInv, Pass
               PROVE  /\ \A i \in Sample : Stores(i)
                      /\ \A i, j \in Sample : CellOf(i) = CellOf(j) => i = j
    BY DEF NoFalsePass
  <2>1. \A i \in Sample : verdict[i] = "ok" /\ OkSample(i)
    BY DEF IInv, OkInv, Pass
  <2> QED
    BY <2>1 DEF OkSample
<1> QED
  BY <1>1, Inductive, PTL

\* Folding an address gives one that is not higher.
LEMMA ModNotHigher ==
    ASSUME NEW a \in Nat, NEW m \in Nat \ {0}
    PROVE  a % m \in Nat /\ a % m <= a
<1>1. a % m \in Nat /\ a % m < m
  OBVIOUS
<1>2. CASE m <= a
  BY <1>1, <1>2
<1>3. CASE a < m
  BY <1>1, <1>3
<1> QED
  BY <1>1, <1>2, <1>3

\* The echo of a sample is at a slot.
LEMMA EchoSlot ==
    ASSUME TypeOK, Sweeping
    PROVE  Echo(Candidate) \in Slot
<1>1. Candidate \in Nat \ {0}
  BY EnvironmentAssumption DEF Sweeping, Candidate, TypeOK
<1>2. Offset[High] \in Nat /\ Offset[High] <= Slots - 1 /\ Slots \in Nat
  BY RunTypes, SlotsAssumption DEF Slot
<1>3. Echo(Candidate) \in Nat /\ Echo(Candidate) <= Offset[High]
  BY <1>1, <1>2, ModNotHigher DEF Echo
<1> QED
  BY <1>2, <1>3 DEF Slot

\* Only finding an echo sets what is reported of a fold.
LEMMA WrapFrame ==
    ASSUME [Next]_vars
    PROVE  UNCHANGED wrap \/ FindEcho
  BY DEF vars, Next, Step, SetUp, CreateJournalFails, OpenDeviceFails, ReadOriginal,
         ReadOriginalFails, RecordFails, FinishReads, SkipWrite, WritePattern,
         WritePatternFails, SyncWrites, SyncWritesFails, Reopen, ReopenFails,
         Verify, VerifyFails, FinishVerify, PassCandidate, FinishSweep,
         SkipRestore, Restore, RestoreFails, SyncRestore, SyncRestoreFails,
         KeepJournal, DiscardJournal, DiscardJournalFails, Crash, wrap

\* Every step keeps a reported fold real.
LEMMA NextFoldReport == IInv /\ FoldReportIsReal /\ [Next]_vars => FoldReportIsReal'
<1> SUFFICES ASSUME IInv, FoldReportIsReal, [Next]_vars PROVE FoldReportIsReal'
  OBVIOUS
<1> USE DEF rigid, media, file, memory, results, wrap, undoing
<1>1. TypeOK /\ PatternInv
  BY DEF IInv
<1>2. drive' = drive
  BY Frames
<1>3. CASE FindEcho
  <2>1. /\ WorthProbing(Candidate) /\ EchoFound(Candidate)
        /\ wrapEcho' = Echo(Candidate)
    BY <1>3 DEF FindEcho
  <2>2. High \in Sample /\ Offset[High] \in Slot
    BY <1>1, RunTypes
  <2>3. Echo(Candidate) \in Slot
    BY <1>1, <1>3, EchoSlot DEF FindEcho
  <2>4. view[drive.phys[Echo(Candidate)]] = Expected(High)
    BY <2>1 DEF EchoFound, Read, Load, Zero, Expected, Pattern
  <2>5. drive.phys[Echo(Candidate)] \in Slot
    BY <1>1, <2>3, RunTypes DEF Drive
  <2>6. PICK i \in Sample : /\ CellOf(i) = drive.phys[Echo(Candidate)]
                            /\ view[drive.phys[Echo(Candidate)]] = Expected(i)
    BY <1>1, <2>4, <2>5 DEF PatternInv, Expected, Pattern
  <2>7. i = High
    BY <2>2, <2>4, <2>6, PatternsDiffer
  <2> QED
    BY <1>2, <2>1, <2>6, <2>7 DEF FoldReportIsReal, WorthProbing, CellOf
<1>4. CASE UNCHANGED wrap
  BY <1>2, <1>4 DEF FoldReportIsReal, CellOf
<1> QED
  BY <1>3, <1>4, WrapFrame

(***************************************************************************)
(* A fold is reported only on a drive where another address reaches the    *)
(* cell of the highest sample.                                             *)
(***************************************************************************)
THEOREM FoldIsReal == Spec => []FoldReportIsReal
<1>1. Init => FoldReportIsReal
  BY Zenon DEF Init, FoldReportIsReal
<1> QED
  BY <1>1, NextFoldReport, Inductive, PTL DEF Spec

-----------------------------------------------------------------------------
(***************************************************************************)
(* The run as an undo-logged change of the media.                          *)
(***************************************************************************)

\* What a read returns is among what a power loss can leave.
ViewInv == \A c \in Slot : view[c] \in maybe[c]

\* At first a cell holds one thing.
LEMMA InitViewInv == Init => ViewInv
<1> SUFFICES ASSUME Init PROVE ViewInv
  OBVIOUS
<1>1. view = before
  BY Zenon DEF Init
<1>2. maybe = [c \in Slot |-> {before[c]}]
  BY Zenon DEF Init
<1> QED
  BY <1>1, <1>2 DEF ViewInv

\* A write that gets to the cell is among the writes that may have.
LEMMA WriteView ==
    ASSUME TypeOK, ViewInv, NEW s \in Slot, NEW x \in Content,
           WriteSlot(s, x) \/ WriteSlotFails(s, x)
    PROVE  ViewInv'
<1> SUFFICES ASSUME NEW c \in Slot PROVE view'[c] \in maybe'[c]
  BY DEF ViewInv
<1>1. view[c] \in maybe[c]
  BY DEF ViewInv
<1>2. CASE UNCHANGED media
  BY <1>1, <1>2 DEF media
<1>3. ASSUME NEW y \in {view[drive.phys[s]], x, Garbage},
             view' = Store(drive, view, s, y), maybe' = StoreMaybe(drive, maybe, s, x)
      PROVE  view'[c] \in maybe'[c]
  <2>1. /\ view \in [Slot -> Content] /\ maybe \in [Slot -> SUBSET Content]
        /\ drive.phys[s] \in Slot
    BY RunTypes DEF TypeOK, Drive
  <2>2. CASE drive.kind[s] = "store" /\ c = drive.phys[s]
    BY <1>1, <1>3, <2>1, <2>2 DEF Store, StoreMaybe
  <2>3. CASE ~(drive.kind[s] = "store" /\ c = drive.phys[s])
    BY <1>1, <1>3, <2>1, <2>3 DEF Store, StoreMaybe
  <2> QED
    BY <2>2, <2>3
<1> QED
  BY <1>2, <1>3 DEF WriteSlot, WriteSlotFails

\* A flush leaves what a read returns.
LEMMA FlushView ==
    ASSUME ViewInv, view' = view, maybe' \in {maybe, Flush(drive, maybe, view)}
    PROVE  ViewInv'
<1> SUFFICES ASSUME NEW c \in Slot PROVE view'[c] \in maybe'[c]
  BY DEF ViewInv
<1>1. maybe' \in {maybe, [d \in Slot |-> {view[d]}]}
  BY DEF Flush
<1> QED
  BY <1>1 DEF ViewInv

\* Every step keeps what a read returns among it.
LEMMA NextViewInv == TypeOK /\ ViewInv /\ [Next]_vars => ViewInv'
<1> SUFFICES ASSUME TypeOK, ViewInv, [Next]_vars PROVE ViewInv'
  OBVIOUS
<1>1. CASE UNCHANGED <<view, maybe>>
  BY <1>1 DEF ViewInv
<1>2. CASE WritePattern \/ WritePatternFails \/ Restore \/ RestoreFails
  BY <1>2, WriteView, WriteSteps
<1>3. CASE SyncWrites \/ SyncRestore
  BY <1>3, FlushView DEF SyncWrites, SyncRestore
<1> QED
  BY <1>1, <1>2, <1>3, Frames

\* When the journal changes, and how.
LEMMA JournalFrame ==
    ASSUME PhaseInv, [Next]_vars
    PROVE  /\ UNCHANGED log \/ (journal = "open" /\ UNCHANGED <<journal, view, maybe>>)
           /\ \/ UNCHANGED journal
              \/ /\ journal = "none" /\ journal' \in {"open", "kept"} /\ written = {}
                 /\ UNCHANGED <<view, maybe>>
              \/ journal = "open" /\ journal' = "kept" /\ UNCHANGED <<view, maybe>>
              \/ /\ journal = "open" /\ journal' = "removed" /\ UNCHANGED <<view, maybe>>
                 /\ pc = "return" /\ runErr = "none" /\ restoreErrors = {}
<1> USE DEF rigid, media, file, memory, results, wrap, undoing
<1>1. CASE UNCHANGED vars
  BY <1>1 DEF vars
<1>2. CASE SetUp \/ CreateJournalFails \/ OpenDeviceFails
  BY <1>2 DEF SetUp, CreateJournalFails, OpenDeviceFails, PhaseInv
<1>3. CASE ReadOriginal \/ ReadOriginalFails \/ RecordFails \/ FinishReads
  BY <1>3 DEF ReadOriginal, ReadOriginalFails, RecordFails, FinishReads, Recorded
<1>4. CASE SkipWrite \/ WritePattern \/ WritePatternFails
  BY <1>4 DEF SkipWrite, WritePattern, WritePatternFails
<1>5. CASE SyncWrites \/ SyncWritesFails \/ Reopen \/ ReopenFails
  BY <1>5 DEF SyncWrites, SyncWritesFails, Reopen, ReopenFails
<1>6. ASSUME NEW i \in Sample, Verify(i) \/ VerifyFails(i) PROVE UNCHANGED <<log, journal>>
  BY <1>6 DEF Verify, VerifyFails
<1>7. CASE FinishVerify \/ FindEcho \/ PassCandidate \/ FinishSweep
  BY <1>7 DEF FinishVerify, FindEcho, PassCandidate, FinishSweep
<1>8. CASE SkipRestore \/ Restore \/ RestoreFails \/ SyncRestore \/ SyncRestoreFails
  BY <1>8 DEF SkipRestore, Restore, RestoreFails, SyncRestore, SyncRestoreFails
<1>9. CASE KeepJournal \/ DiscardJournal \/ DiscardJournalFails
  BY <1>9 DEF KeepJournal, DiscardJournal, DiscardJournalFails, MayDiscard
<1>10. CASE Crash
  BY <1>10 DEF Crash
<1> QED
  BY <1>1, <1>2, <1>3, <1>4, <1>5, <1>6, <1>7, <1>8, <1>9, <1>10 DEF Next, Step

\* A record of the sample being read saves the cell behind it, or nothing.
LEMMA SavedGrows ==
    ASSUME IInv, [Next]_vars, ~UNCHANGED log
    PROVE  Departed = {} /\ (Saved' = Saved \/ \E c \in Slot : Saved' = Saved \cup {c})
<1>1. TypeOK /\ PhaseInv /\ CellInv
  BY DEF IInv
<1>2. /\ cur \in Sample /\ pc = "read"
      /\ \E part \in {"whole", "torn"} :
            log' = Append(log, Entry(Offset[cur], Read(Offset[cur]), part))
  BY <1>1, LogGrowth
<1>3. PICK part \in {"whole", "torn"} :
         log' = Append(log, Entry(Offset[cur], Read(Offset[cur]), part))
  BY <1>2
<1>4. view = before /\ Dirty = {} /\ Read(Offset[cur]) = Load(drive, before, Offset[cur])
  BY <1>1, <1>2, Untouched, RunTypes DEF PhaseInv
<1>5. drive' = drive /\ before' = before
  BY Frames
<1> PICK new \in Nat : new = Len(log) + 1
  BY <1>1 DEF TypeOK
<1>6. /\ DOMAIN log' = DOMAIN log \cup {new}
      /\ \A k \in DOMAIN log : log'[k] = log[k]
      /\ log'[new] = Entry(Offset[cur], Read(Offset[cur]), part)
  BY <1>1, <1>3 DEF TypeOK
<1>7. \A c \in Slot, k \in DOMAIN log : PutsBack(k, c)' <=> PutsBack(k, c)
  BY <1>5, <1>6 DEF PutsBack, Replayable
<1>8. ASSUME NEW c \in Slot
      PROVE  PutsBack(new, c)' <=> (part = "whole" /\ Stores(cur) /\ CellOf(cur) = c)
  <2>1. /\ new \in DOMAIN log' /\ log'[new].slot = Offset[cur] /\ log'[new].part = part
        /\ log'[new].data = Load(drive, before, Offset[cur])
    BY <1>4, <1>6 DEF Entry
  <2>2. Stores(cur) => log'[new].data = before[CellOf(cur)]
    BY <2>1 DEF Stores, CellOf, Load
  <2> QED
    BY <1>5, <2>1, <2>2 DEF PutsBack, Replayable, Stores, CellOf
<1>9. Departed = {}
  BY <1>4 DEF Departed
<1>10. CASE part = "whole" /\ Stores(cur)
  <2>1. CellOf(cur) \in Slot
    BY <1>1, <1>2, RunTypes DEF CellOf, Drive
  <2>2. Saved' = Saved \cup {CellOf(cur)}
    BY <1>6, <1>7, <1>8, <1>10, <2>1 DEF Saved
  <2> QED
    BY <1>9, <2>1, <2>2
<1>11. CASE ~(part = "whole" /\ Stores(cur))
  <2>1. Saved' = Saved
    BY <1>6, <1>7, <1>8, <1>11 DEF Saved
  <2> QED
    BY <1>9, <2>1
<1> QED
  BY <1>10, <1>11

\* A write makes one cell depart at most, and one that is saved if there is a
\* journal.
LEMMA DepartedGrows ==
    ASSUME IInv, [Next]_vars, WritePattern \/ WritePatternFails \/ Restore \/ RestoreFails
    PROVE  \/ Departed' \subseteq Departed
           \/ \E c \in Slot : /\ Departed' = Departed \cup {c}
                              /\ journal = "none" \/ (journal = "open" /\ c \in Saved)
<1>1. TypeOK /\ PhaseInv /\ BackupInv
  BY DEF IInv
<1>2. /\ cur \in Sample /\ pc \in {"write", "restore"}
      /\ cur \in written \/ (pc = "write" /\ verdict[cur] = "")
      /\ \A c \in Slot : (view'[c] # view[c] \/ maybe'[c] # maybe[c]) =>
            Stores(cur) /\ CellOf(cur) = c
  BY <1>1, WriteSteps, WriteFrame DEF Stores, CellOf
<1>3. drive' = drive /\ before' = before
  BY Frames
<1>4. \A c \in Slot : (c \in Departed' /\ c \notin Departed) => Stores(cur) /\ CellOf(cur) = c
  BY <1>2, <1>3 DEF Departed, Dirty
<1>5. \A c \in Slot : (c \notin Departed' /\ c \in Departed) => Stores(cur) /\ CellOf(cur) = c
  BY <1>2, <1>3 DEF Departed, Dirty
<1>6. Departed \subseteq Slot /\ Departed' \subseteq Slot
  BY DEF Departed, Dirty
<1>7. CASE Departed' \subseteq Departed
  BY <1>7
<1>8. CASE ~(Departed' \subseteq Departed)
  <2>1. PICK c \in Slot : c \in Departed' /\ c \notin Departed
    BY <1>6, <1>8
  <2>2. Stores(cur) /\ CellOf(cur) = c
    BY <1>4, <2>1
  <2>3. Departed' = Departed \cup {c}
    BY <1>4, <1>5, <1>6, <2>1, <2>2
  <2>4. CASE mode = "check"
    <3>1. journal = "open"
      BY <1>1, <1>2, <2>4 DEF PhaseInv
    <3>2. Backed(cur)
      BY <1>1, <1>2 DEF BackupInv, NeedsBackup
    <3>3. PICK k \in DOMAIN log : log[k] = Entry(Offset[cur], Original(cur), "whole")
      BY <2>4, <3>2 DEF Backed
    <3>4. Original(cur) = before[c]
      BY <1>1, <1>2, <2>2, OriginalIsBefore
    <3>5. PutsBack(k, c)
      BY <2>2, <3>3, <3>4 DEF PutsBack, Replayable, Entry, Stores, CellOf
    <3> QED
      BY <2>3, <3>1, <3>5 DEF Saved
  <2>5. CASE mode # "check"
    BY <1>1, <2>3, <2>5 DEF PhaseInv
  <2> QED
    BY <2>4, <2>5
<1> QED
  BY <1>7, <1>8

\* Every step of a run is one of the undo log, or none.
LEMMA NextUndo ==
    ASSUME IInv, ViewInv, [Next]_vars
    PROVE  [Undo!Next]_(Undo!vars)
<1>1. /\ TypeOK /\ PhaseInv /\ CellInv /\ RestoredInv
      /\ journal \in {"none", "open", "kept", "removed"}
  BY DEF IInv, TypeOK
<1>2. drive' = drive /\ before' = before
  BY Frames
<1> DEFINE off == journal = "none"
           on  == journal \in {"open", "kept"}
<1>3. CASE ~UNCHANGED log
  <2>1. journal = "open" /\ UNCHANGED <<journal, view, maybe>>
    BY <1>1, <1>3, JournalFrame
  <2>2. Departed' = Departed
    BY <1>2, <2>1 DEF Departed, Dirty
  <2>3. CASE Saved' = Saved
    BY <2>1, <2>2, <2>3 DEF Undo!vars
  <2>4. ASSUME NEW c \in Slot, Saved' = Saved \cup {c} PROVE Undo!Next
    <3>1. Undo!Save(c)
      BY <1>3, <2>1, <2>2, <2>4, SavedGrows DEF Undo!Save
    <3> QED
      BY <3>1 DEF Undo!Next
  <2> QED
    BY <1>3, <2>3, <2>4, SavedGrows
<1>4. CASE UNCHANGED log
  <2>1. Saved' = Saved
    BY <1>2, <1>4 DEF Saved, PutsBack, Replayable
  <2>2. CASE UNCHANGED <<view, maybe>>
    <3>1. Departed' = Departed
      BY <1>2, <2>2 DEF Departed, Dirty
    <3>2. CASE UNCHANGED journal
      BY <2>1, <3>1, <3>2 DEF Undo!vars
    <3>3. CASE journal = "none" /\ journal' \in {"open", "kept"} /\ written = {}
      <4>1. Departed = {}
        BY <1>1, <3>3, Untouched DEF Departed
      <4>2. Undo!Begin
        BY <2>1, <3>1, <3>3, <4>1 DEF Undo!Begin
      <4> QED
        BY <4>2 DEF Undo!Next
    <3>4. CASE journal = "open" /\ journal' = "kept"
      BY <2>1, <3>1, <3>4 DEF Undo!vars
    <3>5. CASE /\ journal = "open" /\ journal' = "removed"
               /\ pc = "return" /\ runErr = "none" /\ restoreErrors = {}
      <4>1. Departed = {}
        BY <1>1, <3>5 DEF RestoredInv, AllBack, Departed
      <4>2. Undo!Drop
        BY <2>1, <3>1, <3>5, <4>1 DEF Undo!Drop
      <4> QED
        BY <4>2 DEF Undo!Next
    <3> QED
      BY <1>1, <3>2, <3>3, <3>4, <3>5, JournalFrame
  <2>3. CASE ~UNCHANGED <<view, maybe>>
    <3>1. UNCHANGED journal
      BY <1>1, <2>3, JournalFrame
    <3>2. ASSUME Departed' \subseteq Departed PROVE Undo!Next
      <4>1. Undo!Clean
        BY <2>1, <3>1, <3>2 DEF Undo!Clean
      <4> QED
        BY <4>1 DEF Undo!Next
    <3>3. CASE WritePattern \/ WritePatternFails \/ Restore \/ RestoreFails
      <4>1. ASSUME NEW c \in Slot, Departed' = Departed \cup {c},
                   journal = "none" \/ (journal = "open" /\ c \in Saved)
            PROVE  Undo!Next
        <5>1. Undo!Touch(c)
          BY <2>1, <3>1, <4>1 DEF Undo!Touch
        <5> QED
          BY <5>1 DEF Undo!Next
      <4> QED
        BY <3>2, <3>3, <4>1, DepartedGrows
    <3>4. CASE SyncWrites \/ SyncRestore
      <4>1. view' = view /\ maybe' = IF drive.fullSync THEN [d \in Slot |-> {view[d]}] ELSE maybe
        BY <3>4 DEF SyncWrites, SyncRestore, Flush
      <4>2. Departed' \subseteq Departed
        <5> SUFFICES ASSUME NEW c \in Slot, c \in Departed' PROVE c \in Departed
          BY DEF Departed, Dirty
        <5>1. view[c] \in maybe[c]
          BY DEF ViewInv
        <5> QED
          BY <1>2, <4>1, <5>1 DEF Departed, Dirty
      <4> QED
        BY <3>2, <4>2
    <3> QED
      BY <2>3, <3>3, <3>4, Frames
  <2> QED
    BY <2>2, <2>3
<1> QED
  BY <1>3, <1>4

(***************************************************************************)
(* Whatever fails and whenever it ends, a run does no more than the undo   *)
(* log allows: it saves before it changes, and it throws the log away when *)
(* nothing departs from its original any more.                             *)
(***************************************************************************)
THEOREM RunIsUndoLogged == Spec => ImplementsUndoLog
<1>1. Init => Undo!Init
  <2> SUFFICES ASSUME Init PROVE Undo!Init
    OBVIOUS
  <2>1. TypeOK /\ CellInv /\ written = {} /\ log = <<>> /\ journal = "none"
    <3>1. IInv
      BY InitIInv
    <3>2. written = {} /\ log = <<>> /\ journal = "none"
      BY Zenon DEF Init
    <3> QED
      BY <3>1, <3>2 DEF IInv
  <2>2. Saved = {}
    BY <2>1 DEF Saved
  <2>3. Departed = {}
    BY <2>1, Untouched DEF Departed
  <2> QED
    BY <2>1, <2>2, <2>3 DEF Undo!Init
<1>2. IInv /\ ViewInv /\ [Next]_vars => [Undo!Next]_(Undo!vars)
  BY NextUndo
<1>3. IInv => TypeOK
  BY DEF IInv
<1> QED
  BY <1>1, <1>2, <1>3, Inductive, InitViewInv, NextViewInv, PTL DEF Spec, ImplementsUndoLog,
     Undo!Spec

(***************************************************************************)
(* The discipline of the undo log protects every cell, whoever keeps to    *)
(* it: saving before changing and dropping the log only when all is back   *)
(* is enough.                                                              *)
(***************************************************************************)
LEMMA UndoLogProtects == Undo!Spec => []Undo!Protected
<1> DEFINE UInv == Undo!TypeOK /\ Undo!Protected
<1>1. Undo!Init => UInv
  BY DEF Undo!Init, Undo!TypeOK, Undo!Protected
<1>2. UInv /\ [Undo!Next]_(Undo!vars) => UInv'
  <2> SUFFICES ASSUME UInv, [Undo!Next]_(Undo!vars)
               PROVE  UInv'
    OBVIOUS
  <2> USE DEF Undo!TypeOK, Undo!Protected
  <2>1. CASE Undo!Begin
    BY <2>1 DEF Undo!Begin
  <2>2. CASE Undo!Clean
    BY <2>2 DEF Undo!Clean
  <2>3. CASE Undo!Drop
    BY <2>3 DEF Undo!Drop
  <2>4. ASSUME NEW c \in Slot, Undo!Save(c)
        PROVE  UInv'
    BY <2>4 DEF Undo!Save
  <2>5. ASSUME NEW c \in Slot, Undo!Touch(c)
        PROVE  UInv'
    BY <2>5 DEF Undo!Touch
  <2>6. CASE UNCHANGED Undo!vars
    BY <2>6 DEF Undo!vars
  <2> QED
    BY <2>1, <2>2, <2>3, <2>4, <2>5, <2>6 DEF Undo!Next
<1>3. UInv => Undo!Protected
  OBVIOUS
<1> QED
  BY <1>1, <1>2, <1>3, PTL DEF Undo!Spec

(***************************************************************************)
(* So in every run the journal can put back whatever has departed from its *)
(* original, and once it is gone there is nothing to put back.             *)
(***************************************************************************)
THEOREM RunIsProtected == Spec => []Undo!Protected
  BY RunIsUndoLogged, UndoLogProtects DEF ImplementsUndoLog

-----------------------------------------------------------------------------
(***************************************************************************)
(* What the verdicts say.                                                  *)
(***************************************************************************)

\* The phases before the restore.
Fore == {"create", "read", "write", "reopen", "verify", "wrapscan"}

\* Before the restore a cell holds what it held, a pattern, or the garbage of
\* a write that failed.
MediaInv ==
    pc \in Fore => \A c \in Slot :
        \/ view[c] = before[c] \/ view[c].tag = "pattern"
        \/ view[c] = Garbage /\ faults > 0

\* A sample without a verdict has been written, and that shows where it stores.
Covered(i) ==
    /\ i \in written /\ drive.kind[Offset[i]] # "reject"
    /\ Stores(i) => \/ view[CellOf(i)].tag = "pattern"
                    \/ view[CellOf(i)] = Garbage /\ faults > 0

WroteInv ==
    pc \in {"write", "reopen", "verify", "wrapscan"} => \A i \in Sample :
        (verdict[i] = "" /\ (pc = "write" => i < cur)) => Covered(i)

\* What is still to be verified is what has no verdict.
TodoInv == pc = "verify" => \A i \in Sample : i \in todo <=> verdict[i] = ""

\* A verdict other than ok says what it should of drive and run.
JustSample(i) ==
    /\ verdict[i] = "aliased" =>
          /\ aliasOf[i] \in Slot \ {Offset[i]}
          /\ drive.kind[aliasOf[i]] = "store"
          /\ drive.phys[aliasOf[i]] = CellOf(i)
    /\ verdict[i] = "unchanged" => drive.kind[Offset[i]] = "drop"
    /\ verdict[i] = "zeros" =>
          \/ drive.kind[Offset[i]] = "zeros"
          \/ drive.kind[Offset[i]] = "drop" /\ before[CellOf(i)] = Zero
    /\ verdict[i] \in {"corrupt", "read-error"} => faults > 0
    /\ verdict[i] = "write-error" => faults > 0 \/ drive.kind[Offset[i]] = "reject"

JustInv == mode # "readonly" => \A i \in Sample : JustSample(i)

VerdictInv == MediaInv /\ WroteInv /\ TodoInv /\ JustInv

\* Errors are only ever added.
LEMMA FaultsGrow ==
    ASSUME TypeOK, [Next]_vars
    PROVE  faults \in Nat /\ faults' \in Nat /\ faults' >= faults
<1>1. faults \in Nat
  BY DEF TypeOK
<1>2. UNCHANGED faults \/ faults' = faults + 1
  <2> USE DEF NoFault, Fault
  <2>1. CASE UNCHANGED vars
    BY <2>1 DEF vars
  <2>2. CASE \/ SetUp \/ CreateJournalFails \/ OpenDeviceFails \/ ReadOriginal
             \/ ReadOriginalFails \/ RecordFails \/ FinishReads \/ SkipWrite
    BY <2>2 DEF SetUp, CreateJournalFails, OpenDeviceFails, ReadOriginal, ReadOriginalFails,
                RecordFails, FinishReads, SkipWrite
  <2>3. CASE WritePattern \/ WritePatternFails \/ Restore \/ RestoreFails
    BY <2>3 DEF WritePattern, WritePatternFails, Restore, RestoreFails, WriteSlot,
                WriteSlotFails
  <2>4. CASE SyncWrites \/ SyncWritesFails \/ Reopen \/ ReopenFails
    BY <2>4 DEF SyncWrites, SyncWritesFails, Reopen, ReopenFails
  <2>5. ASSUME NEW i \in Sample, Verify(i) \/ VerifyFails(i)
        PROVE  UNCHANGED faults \/ faults' = faults + 1
    BY <2>5 DEF Verify, VerifyFails
  <2>6. CASE FinishVerify \/ FindEcho \/ PassCandidate \/ FinishSweep
    BY <2>6 DEF FinishVerify, FindEcho, PassCandidate, FinishSweep
  <2>7. CASE SkipRestore \/ SyncRestore \/ SyncRestoreFails \/ KeepJournal
             \/ DiscardJournal \/ DiscardJournalFails \/ Crash
    BY <2>7 DEF SkipRestore, SyncRestore, SyncRestoreFails, KeepJournal, DiscardJournal,
                DiscardJournalFails, Crash
  <2> QED
    BY <2>1, <2>2, <2>3, <2>4, <2>5, <2>6, <2>7 DEF Next, Step
<1> QED
  BY <1>1, <1>2

\* A write leaves a cell, or what is written, or garbage if it met an error.
LEMMA WriteFault ==
    ASSUME TypeOK, NEW s \in Slot, NEW x \in Content, NEW c \in Slot,
           WriteSlot(s, x) \/ WriteSlotFails(s, x)
    PROVE  view'[c] \in {view[c], x} \/ (view'[c] = Garbage /\ faults' > 0)
<1>1. /\ view \in [Slot -> Content] /\ drive.phys[s] \in Slot /\ faults \in Nat
  BY RunTypes DEF TypeOK, Drive
<1>2. \A y : Store(drive, view, s, y)[c] \in {view[c], y}
  BY <1>1 DEF Store
<1>3. CASE WriteSlot(s, x)
  BY <1>2, <1>3 DEF WriteSlot
<1>4. CASE UNCHANGED media
  BY <1>4 DEF media
<1>5. ASSUME Fault, NEW y \in {view[drive.phys[s]], x, Garbage},
             view' = Store(drive, view, s, y)
      PROVE  view'[c] \in {view[c], x} \/ (view'[c] = Garbage /\ faults' > 0)
  <2>1. faults' > 0
    BY <1>1, <1>5 DEF Fault
  <2>2. CASE y = view[drive.phys[s]]
    BY <1>1, <1>5, <2>2 DEF Store
  <2>3. CASE y # view[drive.phys[s]]
    BY <1>2, <1>5, <2>1, <2>3
  <2> QED
    BY <2>2, <2>3
<1> QED
  BY <1>3, <1>4, <1>5 DEF WriteSlotFails

\* A step before the restore changes no more than the pattern of one sample.
LEMMA ForeFrame ==
    ASSUME TypeOK, [Next]_vars, pc' \in Fore, NEW c \in Slot
    PROVE  /\ pc \in Fore
           /\ \/ view'[c] = view[c] \/ view'[c].tag = "pattern"
              \/ view'[c] = Garbage /\ faults' > 0
<1>1. pc \in Fore
  <2> USE DEF rigid, Fore
  <2>1. CASE UNCHANGED vars
    BY <2>1 DEF vars
  <2>2. CASE pc \in {"create", "read", "write", "reopen"}
    BY <2>2
  <2>3. CASE pc \notin {"create", "read", "write", "reopen"}
    BY <2>3, LatePhases
  <2> QED
    BY <2>2, <2>3
<1>2. CASE UNCHANGED <<view, maybe>>
  BY <1>1, <1>2
<1>3. CASE WritePattern \/ WritePatternFails
  <2>1. view'[c] \in {view[c], Expected(cur)} \/ (view'[c] = Garbage /\ faults' > 0)
    BY <1>3, WriteSteps, WriteFault
  <2> QED
    BY <1>1, <2>1 DEF Expected, Pattern
<1>4. ~(Restore \/ RestoreFails \/ SyncRestore)
  BY WriteSteps DEF Fore, SyncRestore
<1>5. CASE SyncWrites
  BY <1>1, <1>5 DEF SyncWrites
<1> QED
  BY <1>2, <1>3, <1>4, <1>5, Frames

\* Every step keeps what cells can hold before the restore.
LEMMA NextMediaInv == TypeOK /\ MediaInv /\ [Next]_vars => MediaInv'
<1> SUFFICES ASSUME TypeOK, MediaInv, [Next]_vars, pc' \in Fore, NEW c \in Slot
             PROVE  \/ view'[c] = before[c] \/ view'[c].tag = "pattern"
                    \/ view'[c] = Garbage /\ faults' > 0
  BY Frames DEF MediaInv, Fore
<1>1. \/ view[c] = before[c] \/ view[c].tag = "pattern"
      \/ view[c] = Garbage /\ faults > 0
  BY ForeFrame DEF MediaInv
<1>2. faults > 0 => faults' > 0
  BY FaultsGrow
<1> QED
  BY <1>1, <1>2, ForeFrame

\* Every step before the restore keeps what shows of a sample's write.
LEMMA CoveredStays ==
    ASSUME TypeOK, [Next]_vars, pc' \in Fore, NEW i \in Sample, Covered(i)
    PROVE  Covered(i)'
<1>1. drive' = drive /\ written \subseteq written'
  BY Frames, WriteSteps
<1>2. CellOf(i) \in Slot
  BY RunTypes DEF CellOf, Drive
<1>3. faults > 0 => faults' > 0
  BY FaultsGrow
<1>4. \/ view'[CellOf(i)] = view[CellOf(i)] \/ view'[CellOf(i)].tag = "pattern"
      \/ view'[CellOf(i)] = Garbage /\ faults' > 0
  BY <1>2, ForeFrame
<1> QED
  BY <1>1, <1>3, <1>4 DEF Covered, Stores, CellOf

\* A sample that awaits its verdict awaited it before, or was written just now.
LEMMA Awaiting ==
    ASSUME TypeOK, [Next]_vars, pc' \in {"write", "reopen", "verify", "wrapscan"},
           NEW i \in Sample, verdict'[i] = "", pc' = "write" => i < cur'
    PROVE  \/ WritePattern /\ i = cur
           \/ /\ pc \in {"write", "reopen", "verify", "wrapscan"}
              /\ verdict[i] = "" /\ (pc = "write" => i < cur)
<1> USE DEF rigid, media, file, memory, results, wrap, undoing
<1>1. i \in Nat /\ i < N /\ cur \in Nat /\ verdict \in [Sample -> Verdicts]
  BY SampleFacts DEF TypeOK
<1>2. CASE UNCHANGED vars
  BY <1>2 DEF vars
<1>3. ~(\/ SetUp \/ CreateJournalFails \/ OpenDeviceFails \/ ReadOriginal
        \/ ReadOriginalFails \/ RecordFails)
  BY DEF SetUp, CreateJournalFails, OpenDeviceFails, ReadOriginal, ReadOriginalFails,
         RecordFails, Reading
<1>4. ASSUME FinishReads PROVE FALSE
  <2>1. cur' = 0 /\ pc' \in {"write", "return"}
    BY <1>4 DEF FinishReads
  <2>2. pc' = "write"
    BY <2>1
  <2>3. i < 0
    BY <2>1, <2>2
  <2> QED
    BY <1>1, <2>3, NotBelowZero
<1>5. CASE SkipWrite
  <2>1. i # cur /\ i < cur + 1 /\ pc = "write" /\ verdict[i] = ""
    BY <1>5 DEF SkipWrite, Writing, MayOverwrite
  <2> QED
    BY <1>1, <2>1, BeforeNext
<1>6. CASE WritePattern
  <2>1. i < cur + 1 /\ pc = "write" /\ verdict[i] = ""
    BY <1>6 DEF WritePattern, Writing
  <2> QED
    BY <1>1, <1>6, <2>1, BeforeNext
<1>7. CASE WritePatternFails
  <2>1. /\ cur' = cur + 1 /\ pc = "write" /\ pc' = "write" /\ cur \in Sample
        /\ verdict' = [verdict EXCEPT ![cur] = "write-error"]
    BY <1>7, WriteSteps DEF WritePatternFails
  <2>2. i # cur
    BY <1>1, <2>1
  <2>3. verdict[i] = ""
    BY <1>1, <2>1, <2>2
  <2> QED
    BY <1>1, <2>1, <2>2, <2>3, BeforeNext
<1>8. CASE SyncWrites \/ SyncWritesFails \/ Reopen \/ ReopenFails
  BY <1>1, <1>8 DEF SyncWrites, SyncWritesFails, Reopen, ReopenFails
<1>9. ASSUME NEW j \in Sample, Verify(j) \/ VerifyFails(j)
      PROVE  pc = "verify" /\ verdict[i] = ""
  <2>1. pc = "verify"
    BY <1>9 DEF Verify, VerifyFails
  <2>2. PICK v \in Verdicts \ {""} : verdict' = [verdict EXCEPT ![j] = v]
    <3>1. CASE Verify(j)
      BY <3>1, ClassifyType DEF Verify
    <3>2. CASE VerifyFails(j)
      BY <3>2 DEF VerifyFails, Verdicts
    <3> QED
      BY <1>9, <3>1, <3>2
  <2>3. i # j
    BY <1>1, <2>2
  <2> QED
    BY <1>1, <2>1, <2>2, <2>3
<1>10. CASE FinishVerify \/ FindEcho \/ PassCandidate \/ FinishSweep
  BY <1>10 DEF FinishVerify, FindEcho, PassCandidate, FinishSweep, Sweeping
<1>11. ~(SkipRestore \/ Restore \/ RestoreFails \/ SyncRestore \/ SyncRestoreFails)
  BY DEF SkipRestore, Restore, RestoreFails, SyncRestore, SyncRestoreFails, Restoring
<1>12. ~(KeepJournal \/ DiscardJournal \/ DiscardJournalFails \/ Crash)
  BY DEF KeepJournal, DiscardJournal, DiscardJournalFails, Crash
<1> QED
  BY <1>2, <1>3, <1>4, <1>5, <1>6, <1>7, <1>8, <1>9, <1>10, <1>11, <1>12 DEF Next, Step

\* Every step keeps the samples without a verdict written.
LEMMA NextWroteInv == TypeOK /\ WroteInv /\ [Next]_vars => WroteInv'
<1> SUFFICES ASSUME TypeOK, WroteInv, [Next]_vars,
                    pc' \in {"write", "reopen", "verify", "wrapscan"},
                    NEW i \in Sample, verdict'[i] = "", pc' = "write" => i < cur'
             PROVE  Covered(i)'
  BY DEF WroteInv
<1>1. CASE WritePattern /\ i = cur
  <2>1. /\ i \in written' /\ WriteSlot(Offset[i], Expected(i))
        /\ drive' = drive /\ Offset[i] \in Slot /\ Expected(i) \in Content
    BY <1>1, WriteSteps, Frames DEF WritePattern
  <2>2. drive.kind[Offset[i]] # "reject"
    BY <2>1 DEF WriteSlot
  <2>3. drive.kind[Offset[i]] = "store" => view'[drive.phys[Offset[i]]] = Expected(i)
    BY <2>1, WriteFrame
  <2>4. Expected(i).tag = "pattern"
    BY DEF Expected, Pattern
  <2> QED
    BY <2>1, <2>2, <2>3, <2>4 DEF Covered, Stores, CellOf
<1>2. CASE /\ pc \in {"write", "reopen", "verify", "wrapscan"}
           /\ verdict[i] = "" /\ (pc = "write" => i < cur)
  <2>1. Covered(i)
    BY <1>2 DEF WroteInv
  <2>2. pc' \in Fore
    BY DEF Fore
  <2> QED
    BY <2>1, <2>2, CoveredStays
<1> QED
  BY <1>1, <1>2, Awaiting

\* Every step keeps the list of what is still to be verified right.
LEMMA NextTodoInv == TypeOK /\ TodoInv /\ [Next]_vars => TodoInv'
<1> SUFFICES ASSUME TypeOK, TodoInv, [Next]_vars, pc' = "verify", NEW i \in Sample
             PROVE  i \in todo' <=> verdict'[i] = ""
  BY DEF TodoInv
<1> USE DEF rigid, media, file, memory, results, wrap, undoing
<1>1. verdict \in [Sample -> Verdicts]
  BY DEF TypeOK
<1>2. CASE UNCHANGED vars
  BY <1>2 DEF vars, TodoInv
<1>3. CASE Reopen
  BY <1>3 DEF Reopen
<1>4. ASSUME NEW j \in Sample, Verify(j) \/ VerifyFails(j)
      PROVE  i \in todo' <=> verdict'[i] = ""
  <2>1. pc = "verify" /\ todo' = todo \ {j}
    BY <1>4 DEF Verify, VerifyFails
  <2>2. PICK v \in Verdicts \ {""} : verdict' = [verdict EXCEPT ![j] = v]
    <3>1. CASE Verify(j)
      BY <3>1, ClassifyType DEF Verify
    <3>2. CASE VerifyFails(j)
      BY <3>2 DEF VerifyFails, Verdicts
    <3> QED
      BY <1>4, <3>1, <3>2
  <2> QED
    BY <1>1, <2>1, <2>2 DEF TodoInv
<1>5. ~(\/ SetUp \/ CreateJournalFails \/ OpenDeviceFails \/ ReadOriginal
        \/ ReadOriginalFails \/ RecordFails \/ FinishReads)
  BY DEF SetUp, CreateJournalFails, OpenDeviceFails, ReadOriginal, ReadOriginalFails,
         RecordFails, FinishReads, Reading
<1>6. ~(\/ SkipWrite \/ WritePattern \/ WritePatternFails \/ SyncWrites
        \/ SyncWritesFails \/ ReopenFails)
  BY DEF SkipWrite, WritePattern, WritePatternFails, SyncWrites, SyncWritesFails,
         ReopenFails, Writing
<1>7. ~(FinishVerify \/ FindEcho \/ PassCandidate \/ FinishSweep)
  BY DEF FinishVerify, FindEcho, PassCandidate, FinishSweep, Sweeping
<1>8. ~(SkipRestore \/ Restore \/ RestoreFails \/ SyncRestore \/ SyncRestoreFails)
  BY DEF SkipRestore, Restore, RestoreFails, SyncRestore, SyncRestoreFails, Restoring
<1>9. ~(KeepJournal \/ DiscardJournal \/ DiscardJournalFails \/ Crash)
  BY DEF KeepJournal, DiscardJournal, DiscardJournalFails, Crash
<1> QED
  BY <1>2, <1>3, <1>4, <1>5, <1>6, <1>7, <1>8, <1>9 DEF Next, Step

\* Who changes the verdicts and the addresses that go with them.
LEMMA ResultFrame ==
    ASSUME [Next]_vars
    PROVE  \/ UNCHANGED results
           \/ (ReadOriginalFails \/ FinishReads \/ WritePatternFails) /\ UNCHANGED aliasOf
           \/ \E j \in Sample : Verify(j)
           \/ \E j \in Sample : VerifyFails(j) /\ UNCHANGED aliasOf
<1> USE DEF results
<1>1. CASE UNCHANGED vars
  BY <1>1 DEF vars
<1>2. CASE \/ SetUp \/ CreateJournalFails \/ OpenDeviceFails \/ ReadOriginal
           \/ ReadOriginalFails \/ RecordFails \/ FinishReads
  BY <1>2 DEF SetUp, CreateJournalFails, OpenDeviceFails, ReadOriginal, ReadOriginalFails,
              RecordFails, FinishReads
<1>3. CASE \/ SkipWrite \/ WritePattern \/ WritePatternFails \/ SyncWrites
           \/ SyncWritesFails \/ Reopen \/ ReopenFails
  BY <1>3 DEF SkipWrite, WritePattern, WritePatternFails, SyncWrites, SyncWritesFails,
              Reopen, ReopenFails
<1>4. ASSUME NEW j \in Sample, VerifyFails(j) PROVE UNCHANGED aliasOf
  BY <1>4 DEF VerifyFails
<1>5. CASE FinishVerify \/ FindEcho \/ PassCandidate \/ FinishSweep
  BY <1>5 DEF FinishVerify, FindEcho, PassCandidate, FinishSweep
<1>6. CASE SkipRestore \/ Restore \/ RestoreFails \/ SyncRestore \/ SyncRestoreFails
  BY <1>6 DEF SkipRestore, Restore, RestoreFails, SyncRestore, SyncRestoreFails
<1>7. CASE KeepJournal \/ DiscardJournal \/ DiscardJournalFails \/ Crash
  BY <1>7 DEF KeepJournal, DiscardJournal, DiscardJournalFails, Crash
<1> QED
  BY <1>1, <1>2, <1>3, <1>4, <1>5, <1>6, <1>7 DEF Next, Step

\* A pattern read back is the sample's own or names the address it belongs to.
LEMMA PatternVerdict ==
    ASSUME TypeOK, PatternInv, NEW i \in Sample, originals[i] = Original(i),
           view[CellOf(i)].tag = "pattern"
    PROVE  LET got == view[CellOf(i)] IN
           /\ Classify(i, got) \in {"ok", "aliased"}
           /\ Classify(i, got) = "aliased" =>
                 /\ got.slot \in Slot \ {Offset[i]}
                 /\ drive.kind[got.slot] = "store"
                 /\ drive.phys[got.slot] = CellOf(i)
<1> DEFINE got == view[CellOf(i)]
<1>1. CellOf(i) \in Slot
  BY RunTypes DEF CellOf, Drive
<1>2. PICK j \in Sample : Stores(j) /\ CellOf(j) = CellOf(i) /\ got = Expected(j)
  BY <1>1 DEF PatternInv
<1>3. got.slot = Offset[j] /\ Offset[j] \in Slot
  BY <1>2, RunTypes DEF Expected, Pattern
<1>4. got # Zero /\ got # originals[i]
  BY OriginalType DEF Zero, Blank
<1>5. got.slot \in Planned
  BY <1>3 DEF Planned
<1>6. Classify(i, got) \in {"ok", "aliased"}
  BY <1>4, <1>5 DEF Classify
<1>7. ASSUME Classify(i, got) = "aliased" PROVE Offset[j] # Offset[i]
  <2>1. got # Expected(i)
    BY <1>7 DEF Classify
  <2> QED
    BY <1>2, <2>1 DEF Expected
<1> QED
  BY <1>2, <1>3, <1>6, <1>7 DEF Stores, CellOf

\* Garbage read back is corrupt, and an original that is not zeros unchanged.
LEMMA OtherVerdicts ==
    ASSUME TypeOK, NEW i \in Sample, originals[i] = Original(i)
    PROVE  /\ Classify(i, Garbage) = "corrupt"
           /\ Classify(i, Zero) = "zeros"
           /\ Original(i) # Zero => Classify(i, Original(i)) = "unchanged"
<1>1. Original(i) \in Blank
  BY OriginalType
<1>2. Expected(i).tag = "pattern" /\ Zero.tag = "zero" /\ Garbage.tag = "garbage"
  BY DEF Expected, Pattern, Zero, Garbage
<1>3. Original(i).tag # "pattern" /\ Original(i).tag # "garbage"
  BY <1>1 DEF Blank
<1>4. Expected(i) # Zero /\ Expected(i) # Garbage /\ Expected(i) # Original(i)
  BY <1>2, <1>3
<1>5. Garbage # Zero /\ Garbage # Original(i) /\ Garbage.tag # "pattern"
  BY <1>2, <1>3
<1> QED
  BY <1>4, <1>5 DEF Classify

\* A verification gives a verdict that says what it should.
LEMMA VerifyJust ==
    ASSUME TypeOK, BackupInv, PatternInv, MediaInv, WroteInv, TodoInv,
           NEW i \in Sample, Verify(i)
    PROVE  JustSample(i)'
<1> DEFINE got == Read(Offset[i])
<1>1. pc = "verify" /\ i \in todo /\ UNCHANGED <<drive, before, view, faults>>
  BY DEF Verify, rigid, media, NoFault
<1>2. /\ verdict'[i] = Classify(i, got)
      /\ aliasOf'[i] = IF Classify(i, got) = "aliased" THEN got.slot ELSE NoAlias
  BY DEF Verify, TypeOK
<1>3. Covered(i)
  BY <1>1 DEF TodoInv, WroteInv
<1>4. originals[i] = Original(i)
  BY <1>3 DEF Covered, BackupInv, NeedsBackup, Backed
<1>5. CellOf(i) \in Slot /\ drive.kind[Offset[i]] \in {"store", "drop", "zeros"}
  <2>1. drive.phys[Offset[i]] \in Slot /\ drive.kind[Offset[i]] \in Kinds
    BY RunTypes DEF Drive
  <2> QED
    BY <1>3, <2>1 DEF Covered, CellOf, Kinds
<1>6. CASE drive.kind[Offset[i]] = "zeros"
  <2>1. verdict'[i] = "zeros"
    BY <1>2, <1>4, <1>6, OtherVerdicts DEF Read, Load
  <2> QED
    BY <1>1, <1>6, <2>1 DEF JustSample
<1>7. CASE drive.kind[Offset[i]] # "zeros"
  <2>1. got = view[CellOf(i)]
    BY <1>7 DEF Read, Load, CellOf
  <2>2. CASE view[CellOf(i)].tag = "pattern"
    <3>1. /\ verdict'[i] \in {"ok", "aliased"}
          /\ verdict'[i] = "aliased" =>
                /\ aliasOf'[i] \in Slot \ {Offset[i]}
                /\ drive.kind[aliasOf'[i]] = "store"
                /\ drive.phys[aliasOf'[i]] = CellOf(i)
      BY <1>2, <1>4, <2>1, <2>2, PatternVerdict
    <3> QED
      BY <1>1, <3>1 DEF JustSample, CellOf
  <2>3. CASE view[CellOf(i)] = Garbage /\ faults > 0
    <3>1. verdict'[i] = "corrupt"
      BY <1>2, <1>4, <2>1, <2>3, OtherVerdicts
    <3> QED
      BY <1>1, <2>3, <3>1 DEF JustSample
  <2>4. CASE drive.kind[Offset[i]] = "drop" /\ view[CellOf(i)] = before[CellOf(i)]
    <3>1. Original(i) = before[CellOf(i)]
      BY <2>4 DEF Original, Load, CellOf
    <3>2. CASE before[CellOf(i)] = Zero
      <4>1. verdict'[i] = "zeros"
        BY <1>2, <1>4, <2>1, <2>4, <3>2, OtherVerdicts
      <4> QED
        BY <1>1, <2>4, <3>2, <4>1 DEF JustSample, CellOf
    <3>3. CASE before[CellOf(i)] # Zero
      <4>1. verdict'[i] = "unchanged"
        BY <1>2, <1>4, <2>1, <2>4, <3>1, <3>3, OtherVerdicts
      <4> QED
        BY <1>1, <2>4, <4>1 DEF JustSample
    <3> QED
      BY <3>2, <3>3
  <2>5. Stores(i) => \/ view[CellOf(i)].tag = "pattern"
                     \/ view[CellOf(i)] = Garbage /\ faults > 0
    BY <1>3 DEF Covered
  <2>6. \/ view[CellOf(i)] = before[CellOf(i)] \/ view[CellOf(i)].tag = "pattern"
        \/ view[CellOf(i)] = Garbage /\ faults > 0
    BY <1>1, <1>5 DEF MediaInv, Fore
  <2> QED
    BY <1>5, <1>7, <2>2, <2>3, <2>4, <2>5, <2>6 DEF Stores
<1> QED
  BY <1>6, <1>7

\* A verdict stays just when neither it nor its address changes.
LEMMA JustStays ==
    ASSUME TypeOK, [Next]_vars, NEW i \in Sample, JustSample(i),
           verdict'[i] = verdict[i], aliasOf'[i] = aliasOf[i]
    PROVE  JustSample(i)'
<1>1. drive' = drive /\ before' = before
  BY Frames
<1>2. faults > 0 => faults' > 0
  BY FaultsGrow
<1> QED
  BY <1>1, <1>2 DEF JustSample, CellOf

\* Every step keeps the verdicts just.
LEMMA NextJustInv ==
    (TypeOK /\ BackupInv /\ PatternInv /\ VerdictInv /\ [Next]_vars) => JustInv'
<1> SUFFICES ASSUME TypeOK, BackupInv, PatternInv, MediaInv, WroteInv, TodoInv,
                    JustInv, [Next]_vars, mode # "readonly", NEW i \in Sample
             PROVE  JustSample(i)'
  BY Frames DEF JustInv, VerdictInv
<1>1. JustSample(i) /\ verdict \in [Sample -> Verdicts] /\ aliasOf \in [Sample -> Slot \cup {NoAlias}]
  BY DEF JustInv, TypeOK
<1>2. CASE UNCHANGED results
  BY <1>1, <1>2, JustStays DEF results
<1>3. CASE FinishReads
  BY <1>1, <1>3, JustStays DEF FinishReads
<1>4. CASE ReadOriginalFails
  <2>1. /\ verdict' = [verdict EXCEPT ![cur] = "read-error"] /\ Fault /\ UNCHANGED aliasOf
    BY <1>4 DEF ReadOriginalFails
  <2>2. CASE i = cur
    <3>1. faults' > 0
      BY <2>1 DEF Fault, TypeOK
    <3>2. verdict'[i] = "read-error"
      BY <1>1, <2>1, <2>2
    <3> QED
      BY <3>1, <3>2 DEF JustSample
  <2>3. CASE i # cur
    BY <1>1, <2>1, <2>3, JustStays
  <2> QED
    BY <2>2, <2>3
<1>5. CASE WritePatternFails
  <2>1. /\ verdict' = [verdict EXCEPT ![cur] = "write-error"] /\ UNCHANGED aliasOf
        /\ WriteSlotFails(Offset[cur], Expected(cur))
    BY <1>5 DEF WritePatternFails
  <2>2. CASE i = cur
    <3>1. faults' > 0 \/ drive.kind[Offset[i]] = "reject"
      <4>1. drive.kind[Offset[i]] = "reject" \/ Fault
        BY <2>1, <2>2 DEF WriteSlotFails
      <4> QED
        BY <4>1 DEF Fault, TypeOK
    <3>2. verdict'[i] = "write-error" /\ drive' = drive
      BY <1>1, <2>1, <2>2, Frames
    <3> QED
      BY <3>1, <3>2 DEF JustSample
  <2>3. CASE i # cur
    BY <1>1, <2>1, <2>3, JustStays
  <2> QED
    BY <2>2, <2>3
<1>6. ASSUME NEW j \in Sample, Verify(j) PROVE JustSample(i)'
  <2>1. CASE i = j
    BY <1>6, <2>1, VerifyJust
  <2>2. CASE i # j
    <3>1. verdict'[i] = verdict[i] /\ aliasOf'[i] = aliasOf[i]
      BY <1>1, <1>6, <2>2 DEF Verify
    <3> QED
      BY <1>1, <3>1, JustStays
  <2> QED
    BY <2>1, <2>2
<1>7. ASSUME NEW j \in Sample, VerifyFails(j), UNCHANGED aliasOf PROVE JustSample(i)'
  <2>1. verdict' = [verdict EXCEPT ![j] = "read-error"] /\ Fault
    BY <1>7 DEF VerifyFails
  <2>2. CASE i = j
    <3>1. faults' > 0
      BY <2>1 DEF Fault, TypeOK
    <3>2. verdict'[i] = "read-error"
      BY <1>1, <2>1, <2>2
    <3> QED
      BY <3>1, <3>2 DEF JustSample
  <2>3. CASE i # j
    BY <1>1, <1>7, <2>1, <2>3, JustStays
  <2> QED
    BY <2>2, <2>3
<1> QED
  BY <1>2, <1>3, <1>4, <1>5, <1>6, <1>7, ResultFrame

\* At first there are no verdicts, and nothing has been written.
LEMMA InitVerdictInv == Init => VerdictInv
<1> SUFFICES ASSUME Init PROVE VerdictInv
  OBVIOUS
<1>1. pc = "create" /\ view = before /\ verdict = [i \in Sample |-> ""]
  BY Zenon DEF Init
<1>2. MediaInv
  BY <1>1 DEF MediaInv
<1>3. WroteInv /\ TodoInv
  BY <1>1 DEF WroteInv, TodoInv
<1>4. JustInv
  BY <1>1 DEF JustInv, JustSample
<1> QED
  BY <1>2, <1>3, <1>4 DEF VerdictInv

\* Verdicts stay just through the whole run.
LEMMA VerdictsInv == Spec => [](IInv /\ VerdictInv)
<1>1. IInv /\ VerdictInv /\ [Next]_vars => VerdictInv'
  BY NextMediaInv, NextWroteInv, NextTodoInv, NextJustInv DEF IInv, VerdictInv
<1> QED
  BY <1>1, InitVerdictInv, Inductive, PTL DEF Spec

(***************************************************************************)
(* Whatever the drive, the errors and the order of verification, each      *)
(* verdict of a destructive run says of the drive and the run what its     *)
(* description says.                                                       *)
(***************************************************************************)
THEOREM VerdictsAreEarned == Spec => []VerdictsAreJust
<1>1. IInv /\ VerdictInv => VerdictsAreJust
  <2> SUFFICES ASSUME IInv, VerdictInv, mode # "readonly", NEW i \in Sample
               PROVE  /\ JustSample(i)
                      /\ verdict[i] = "ok" =>
                            Stores(i) /\ \A j \in Sample \ {i} :
                                            verdict[j] = "ok" => CellOf(j) # CellOf(i)
    BY DEF VerdictsAreJust, JustSample
  <2>1. JustSample(i)
    BY DEF VerdictInv, JustInv
  <2>2. verdict[i] = "ok" => OkSample(i)
    BY DEF IInv, OkInv
  <2> QED
    BY <2>1, <2>2 DEF OkSample
<1> QED
  BY <1>1, VerdictsInv, PTL

-----------------------------------------------------------------------------
(***************************************************************************)
(* An honest drive without errors.                                         *)
(***************************************************************************)

\* Without an I/O error nothing goes wrong but writes the drive rejects, and a
\* run that gets as far as its end has a verdict for every sample.
ErrorInv ==
    /\ runErr # "none" => faults > 0
    /\ restoreErrors # {} => faults > 0 \/ \E s \in Slot : drive.kind[s] = "reject"
    /\ pc = "done" => \/ journal \in {"none", "removed"}
                      \/ runErr # "none" \/ restoreErrors # {} \/ faults > 0

DecidedInv ==
    (runErr = "none" /\ pc \in {"wrapscan", "restore", "return", "done"}) =>
        \A i \in Sample : verdict[i] # ""

EchoInv == wrapModulus # 0 => wrapEcho \in Slot

\* Every step keeps errors to their causes.
LEMMA NextErrorInv == TypeOK /\ PhaseInv /\ ErrorInv /\ [Next]_vars => ErrorInv'
<1> SUFFICES ASSUME TypeOK, PhaseInv, ErrorInv, [Next]_vars PROVE ErrorInv'
  OBVIOUS
<1> USE DEF rigid, media, file, memory, results, wrap, undoing
<1>1. /\ drive' = drive /\ (faults > 0 => faults' > 0)
      /\ (Fault => faults' > 0)
  BY Frames, FaultsGrow DEF Fault
<1>2. CASE UNCHANGED vars
  BY <1>2 DEF vars, ErrorInv
<1>3. CASE SetUp \/ CreateJournalFails \/ OpenDeviceFails
  BY <1>1, <1>3 DEF SetUp, CreateJournalFails, OpenDeviceFails, ErrorInv
<1>4. CASE ReadOriginal \/ ReadOriginalFails \/ RecordFails \/ FinishReads
  BY <1>1, <1>4 DEF ReadOriginal, ReadOriginalFails, RecordFails, FinishReads, Reading,
                    ErrorInv
<1>5. CASE SkipWrite \/ WritePattern \/ WritePatternFails
  BY <1>1, <1>5 DEF SkipWrite, WritePattern, WritePatternFails, Writing, ErrorInv
<1>6. CASE SyncWrites \/ SyncWritesFails \/ Reopen \/ ReopenFails
  BY <1>1, <1>6 DEF SyncWrites, SyncWritesFails, Reopen, ReopenFails, ErrorInv
<1>7. ASSUME NEW j \in Sample, Verify(j) \/ VerifyFails(j) PROVE ErrorInv'
  BY <1>1, <1>7 DEF Verify, VerifyFails, ErrorInv
<1>8. CASE FinishVerify \/ FindEcho \/ PassCandidate \/ FinishSweep
  BY <1>1, <1>8 DEF FinishVerify, FindEcho, PassCandidate, FinishSweep, Sweeping, ErrorInv
<1>9. CASE SkipRestore \/ Restore \/ SyncRestore \/ SyncRestoreFails
  BY <1>1, <1>9 DEF SkipRestore, Restore, SyncRestore, SyncRestoreFails, Restoring, ErrorInv
<1>10. CASE RestoreFails
  <2>1. Offset[cur] \in Slot
    BY <1>10, WriteSteps
  <2>2. drive.kind[Offset[cur]] = "reject" \/ faults' > 0
    BY <1>1, <1>10 DEF RestoreFails, WriteSlotFails
  <2> QED
    BY <1>1, <1>10, <2>1, <2>2 DEF RestoreFails, Restoring, ErrorInv
<1>11. CASE KeepJournal \/ DiscardJournal \/ DiscardJournalFails
  <2>1. pc = "return" => journal \in {"none", "open"}
    BY DEF PhaseInv
  <2> QED
    BY <1>1, <1>11, <2>1 DEF KeepJournal, DiscardJournal, DiscardJournalFails, MayDiscard,
                             ErrorInv
<1>12. CASE Crash
  BY <1>1, <1>12 DEF Crash, ErrorInv
<1> QED
  BY <1>2, <1>3, <1>4, <1>5, <1>6, <1>7, <1>8, <1>9, <1>10, <1>11, <1>12 DEF Next, Step

\* Every step keeps the verdicts of a run that has finished verifying.
LEMMA NextDecidedInv == TypeOK /\ TodoInv /\ DecidedInv /\ [Next]_vars => DecidedInv'
<1> SUFFICES ASSUME TypeOK, TodoInv, DecidedInv, [Next]_vars, runErr' = "none",
                    pc' \in {"wrapscan", "restore", "return", "done"},
                    NEW i \in Sample
             PROVE  verdict'[i] # ""
  BY DEF DecidedInv
<1> USE DEF rigid, media, file, memory, results, wrap, undoing
<1>1. CASE UNCHANGED vars
  BY <1>1 DEF vars, DecidedInv
<1>2. ~(\/ SetUp \/ CreateJournalFails \/ OpenDeviceFails \/ ReadOriginal
        \/ ReadOriginalFails \/ RecordFails)
  BY DEF SetUp, CreateJournalFails, OpenDeviceFails, ReadOriginal, ReadOriginalFails,
         RecordFails, Reading
<1>3. CASE FinishReads
  BY <1>3 DEF FinishReads
<1>4. ~(\/ SkipWrite \/ WritePattern \/ WritePatternFails \/ SyncWrites
        \/ SyncWritesFails \/ Reopen \/ ReopenFails)
  BY DEF SkipWrite, WritePattern, WritePatternFails, SyncWrites, SyncWritesFails,
         Reopen, ReopenFails, Writing
<1>5. ASSUME NEW j \in Sample, Verify(j) \/ VerifyFails(j) PROVE FALSE
  BY <1>5 DEF Verify, VerifyFails
<1>6. CASE FinishVerify
  BY <1>6 DEF FinishVerify, TodoInv
<1>7. CASE FindEcho \/ PassCandidate \/ FinishSweep
  BY <1>7 DEF FindEcho, PassCandidate, FinishSweep, Sweeping, DecidedInv
<1>8. CASE SkipRestore \/ Restore \/ RestoreFails \/ SyncRestore \/ SyncRestoreFails
  BY <1>8 DEF SkipRestore, Restore, RestoreFails, SyncRestore, SyncRestoreFails,
              Restoring, DecidedInv
<1>9. CASE KeepJournal \/ DiscardJournal \/ DiscardJournalFails
  BY <1>9 DEF KeepJournal, DiscardJournal, DiscardJournalFails, DecidedInv
<1>10. ~Crash
  BY DEF Crash
<1> QED
  BY <1>1, <1>2, <1>3, <1>4, <1>5, <1>6, <1>7, <1>8, <1>9, <1>10 DEF Next, Step

\* Every step keeps a reported echo at a slot.
LEMMA NextEchoInv == TypeOK /\ EchoInv /\ [Next]_vars => EchoInv'
<1> SUFFICES ASSUME TypeOK, EchoInv, [Next]_vars PROVE EchoInv'
  OBVIOUS
<1>1. CASE UNCHANGED wrap
  BY <1>1 DEF EchoInv, wrap
<1>2. CASE FindEcho
  BY <1>2, EchoSlot DEF FindEcho, EchoInv
<1> QED
  BY <1>1, <1>2, WrapFrame

\* A run begins without errors and without a verdict on the drive.
LEMMA InitEndInv == Init => ErrorInv /\ DecidedInv /\ EchoInv
<1> SUFFICES ASSUME Init PROVE ErrorInv /\ DecidedInv /\ EchoInv
  OBVIOUS
<1>1. pc = "create" /\ runErr = "none" /\ restoreErrors = {} /\ wrapModulus = 0
  BY Zenon DEF Init
<1> QED
  BY <1>1 DEF ErrorInv, DecidedInv, EchoInv

\* What the end of a run is known by.
LEMMA EndInv == Spec => [](ErrorInv /\ DecidedInv /\ EchoInv)
<1>1. /\ IInv /\ VerdictInv /\ [Next]_vars
      /\ ErrorInv /\ DecidedInv /\ EchoInv
      => ErrorInv' /\ DecidedInv' /\ EchoInv'
  BY NextErrorInv, NextDecidedInv, NextEchoInv DEF IInv, VerdictInv
<1> QED
  BY <1>1, InitEndInv, VerdictsInv, PTL DEF Spec

(***************************************************************************)
(* An honest drive that met no I/O error passes, holds what it held, and   *)
(* leaves no journal.                                                      *)
(***************************************************************************)
THEOREM NoFalseAlarm == Spec => []HonestPasses
<1>1. /\ IInv /\ VerdictInv /\ ErrorInv /\ DecidedInv /\ EchoInv
      /\ FoldReportIsReal /\ CleanUnlessReported
      => HonestPasses
  <2> SUFFICES ASSUME IInv, VerdictInv, ErrorInv, DecidedInv, EchoInv,
                      FoldReportIsReal, CleanUnlessReported,
                      pc = "done", faults = 0, IsHonest(drive), mode # "readonly"
               PROVE  Pass /\ view = before /\ journal \in {"none", "removed"}
    BY DEF HonestPasses
  <2>1. TypeOK /\ \A i \in Sample : Offset[i] \in Slot
    BY RunTypes DEF IInv
  <2>2. /\ \A s \in Slot : drive.kind[s] = "store"
        /\ \A s, t \in Slot : drive.phys[s] = drive.phys[t] => s = t
    BY DEF IsHonest
  <2>3. ~(faults > 0)
    OBVIOUS
  <2>4. runErr = "none" /\ restoreErrors = {} /\ journal \in {"none", "removed"}
    BY <2>2, <2>3 DEF ErrorInv
  <2>5. view = before
    BY <2>4 DEF CleanUnlessReported
  <2>6. wrapModulus = 0
    BY <2>1, <2>2, RunTypes DEF FoldReportIsReal, EchoInv, CellOf
  <2>7. ASSUME NEW i \in Sample PROVE verdict[i] = "ok"
    <3>1. JustSample(i) /\ verdict[i] # "" /\ verdict[i] \in Verdicts
      BY <2>1, <2>4 DEF VerdictInv, JustInv, DecidedInv, TypeOK
    <3>2. drive.kind[Offset[i]] = "store"
      BY <2>1, <2>2
    <3>3. verdict[i] # "aliased"
      BY <2>1, <2>2, <3>1 DEF JustSample, CellOf
    <3> QED
      BY <2>3, <3>1, <3>2, <3>3 DEF JustSample, Verdicts
  <2> QED
    BY <2>4, <2>5, <2>6, <2>7 DEF Pass
<1> QED
  BY <1>1, VerdictsInv, EndInv, FoldIsReal, NonDestructive, PTL
=============================================================================
