--------------------------- MODULE RecoveryProofs ---------------------------
(***************************************************************************)
(* Proofs about Estimate and about Recovery, which extends it: the search  *)
(* for the capacity and the replay of the journal, for every drive, plan,  *)
(* media, number of probes and number of faults.  What ScanProofs shows of *)
(* a step of the scan holds for the scan's steps here.                     *)
(***************************************************************************)
EXTENDS Recovery, ScanProofs, Divisibility

-----------------------------------------------------------------------------
(***************************************************************************)
(* Smallest and largest slots.                                             *)
(***************************************************************************)

\* Max and Min of a set of slots are its largest and smallest.
LEMMA Extremes ==
    ASSUME NEW S \in SUBSET Slot, S # {}
    PROVE  /\ Max(S) \in S /\ \A y \in S : y <= Max(S)
           /\ Min(S) \in S /\ \A y \in S : Min(S) <= y
<1>0. S \subseteq Nat /\ \A y \in S : y <= Slots - 1
  BY SlotsAssumption DEF Slot
<1>1. \E x \in S : \A y \in S : x <= y
  BY <1>0, SmallestNumber
<1>2. \E x \in S : \A y \in S : x >= y
  <2> DEFINE Above == { n \in Nat : \A y \in S : y <= n }
  <2>1. Slots - 1 \in Above
    BY <1>0, SlotsAssumption
  <2>2. PICK n \in Above : \A m \in Above : n <= m
    BY <2>1, SmallestNumber
  <2>3. n \in S
    <3>1. CASE n = 0
      <4>1. PICK s \in S : TRUE
        OBVIOUS
      <4>2. s <= 0 /\ s \in Nat
        BY <1>0, <3>1
      <4> QED
        BY <3>1, <4>2
    <3>2. CASE n # 0 /\ n \notin S
      <4>1. n - 1 \in Above
        BY <1>0, <3>2
      <4> QED
        BY <2>2, <4>1
    <3> QED
      BY <3>1, <3>2
  <2> QED
    BY <1>0, <2>3
<1>3. Max(S) \in S /\ \A y \in S : Max(S) >= y
  BY <1>2 DEF Max
<1>4. Min(S) \in S /\ \A y \in S : Min(S) <= y
  BY <1>1 DEF Min
<1> QED
  BY <1>0, <1>3, <1>4

-----------------------------------------------------------------------------
(***************************************************************************)
(* What the search starts from, and where it probes.                       *)
(***************************************************************************)

\* The highest good sample is good and the lowest bad one bad, and all others
\* are beyond them.
LEMMA SearchStart ==
    ASSUME TypeOK, Failed # {}
    PROVE  /\ FirstBad \in Slot /\ First <= FirstBad
           /\ \E i \in Failed : Offset[i] = FirstBad
           /\ \A i \in Failed : FirstBad <= Offset[i]
           /\ LastGood \in Slot \cup {-1}
           /\ LastGood # -1 => First <= LastGood /\ \E i \in Sample \ Failed : Offset[i] = LastGood
           /\ \A i \in Sample \ Failed : LastGood # -1 /\ Offset[i] <= LastGood
           /\ LastGood # FirstBad
<1>1. /\ Failed \subseteq Sample /\ Offset \in [Sample -> Slot]
      /\ \A i \in Sample : First <= Offset[i]
  BY RunTypes, SearchAssumption DEF Failed
<1>2. /\ FirstBad \in { Offset[i] : i \in Failed }
      /\ \A y \in { Offset[i] : i \in Failed } : FirstBad <= y
  <2>1. { Offset[i] : i \in Failed } \in SUBSET Slot /\ { Offset[i] : i \in Failed } # {}
    BY <1>1
  <2> QED
    BY <2>1, Extremes DEF FirstBad
<1>3. CASE Failed = Sample
  <2>1. LastGood = -1
    BY <1>3 DEF LastGood
  <2>2. FirstBad # -1
    BY <1>1, <1>2 DEF Slot
  <2> QED
    BY <1>1, <1>2, <1>3, <2>1, <2>2
<1>4. CASE Failed # Sample
  <2>1. /\ { Offset[i] : i \in Sample \ Failed } \in SUBSET Slot
        /\ { Offset[i] : i \in Sample \ Failed } # {}
    BY <1>1, <1>4
  <2>2. /\ LastGood \in { Offset[i] : i \in Sample \ Failed }
        /\ \A y \in { Offset[i] : i \in Sample \ Failed } : y <= LastGood
    BY <1>4, <2>1, Extremes DEF LastGood
  <2>3. LastGood # FirstBad
    <3>1. PICK i \in Sample \ Failed : Offset[i] = LastGood
      BY <2>2
    <3>2. PICK j \in Failed : Offset[j] = FirstBad
      BY <1>2
    <3>3. i \in Nat /\ j \in Nat /\ i # j /\ j \in Sample
      BY <1>1, <3>1, <3>2, SampleFacts
    <3>4. i < j \/ j < i
      BY <3>3
    <3>5. Offset[i] < Offset[j] \/ Offset[j] < Offset[i]
      BY <3>3, <3>4, PlanAssumption
    <3>6. Offset[i] \in Nat /\ Offset[j] \in Nat
      BY <1>1, <3>3 DEF Slot
    <3> QED
      BY <3>1, <3>2, <3>5, <3>6
  <2>4. LastGood # -1
    BY <2>1, <2>2 DEF Slot
  <2> QED
    BY <1>1, <1>2, <2>2, <2>3, <2>4
<1> QED
  BY <1>3, <1>4

\* A range of more than one slot has its middle strictly inside, and neither
\* half is longer than half of it, rounded up.
LEMMA Halves ==
    ASSUME NEW a \in Int, NEW b \in Int, b - a > 1
    PROVE  LET m == a + (b - a) \div 2 IN
           /\ m \in Int /\ a < m /\ m < b
           /\ \A r \in Int : b - a <= 2 * r => m - a <= r /\ b - m <= r
<1>1. PICK h \in Int : h = (b - a) \div 2
  OBVIOUS
<1>2. 2 * h <= b - a /\ b - a <= 2 * h + 1
  BY <1>1
<1>3. h > 0
  BY <1>2
<1> QED
  BY <1>1, <1>2, <1>3

-----------------------------------------------------------------------------
(***************************************************************************)
(* The steps of the search.                                                *)
(***************************************************************************)
SearchStep ==
    \/ AllHeld \/ TakeFold \/ GiveUpInterleaved \/ GiveUpReused \/ StartSearch
    \/ StartProbe \/ ProbeRead \/ ProbeReadFails \/ ProbeRecord \/ ProbeRecordFails
    \/ ProbeWrite \/ ProbeReopen \/ ProbeReopenFails \/ ProbeReadBack
    \/ ProbeRestore \/ ProbeRestoreFails \/ ProbeFlush \/ ProbeFlushFails
    \/ EndSearch

\* A death in the middle of the append of a probe.
CutShort ==
    /\ at = "record" /\ journal = "open"
    /\ pc' = "dead"
    /\ log' \in ProbeLeftover(Here)
    /\ NoFault
    /\ UNCHANGED <<rigid, cur, media, journal, memory, results, todo,
                   wrap, undoing, runErr>>
    /\ at' = "idle" /\ est' = "done"
    /\ UNCHANGED <<lo, hi, probes, capacity, note, orig, took, held, unrestored>>

\* A step is one of the scan, one of the search, a death, or none.
LEMMA StepKinds ==
    ASSUME [EstNext]_allVars
    PROVE  \/ ScanStep \/ UNCHANGED allVars
           \/ SearchStep
           \/ /\ Crash /\ at' = "idle" /\ est' = "done"
              /\ UNCHANGED <<lo, hi, probes, capacity, note, orig, took, held, unrestored>>
           \/ CutShort
  BY DEF EstNext, SearchStep, EstCrash, CutShort

\* The search leaves the state of the scan alone, but for the device, the
\* records and the list of restore errors.
LEMMA SearchFrame ==
    ASSUME SearchStep
    PROVE  /\ UNCHANGED <<drive, before, mode, pc, cur, originals, written, verdict,
                          aliasOf, todo, wrapModulus, wrapEcho, restored, runErr, journal>>
           /\ UNCHANGED log \/ ProbeRecord \/ ProbeRecordFails
           /\ \/ UNCHANGED <<view, maybe>>
              \/ ProbeWrite \/ ProbeReopen \/ ProbeRestore \/ ProbeRestoreFails \/ ProbeFlush
           /\ \/ UNCHANGED restoreErrors
              \/ /\ ProbeReopenFails \/ ProbeRestoreFails \/ ProbeFlushFails
                 /\ restoreErrors' = restoreErrors \cup {ProbeError}
<1> USE DEF scan, rigid, media, file, memory, results, wrap, Bound, Conclude,
            ProbeErrorReported
<1>1. CASE AllHeld \/ TakeFold \/ GiveUpInterleaved \/ GiveUpReused
  BY <1>1 DEF AllHeld, TakeFold, GiveUpInterleaved, GiveUpReused
<1>2. CASE StartSearch \/ StartProbe \/ EndSearch
  BY <1>2 DEF StartSearch, StartProbe, EndSearch
<1>3. CASE ProbeRead \/ ProbeReadFails \/ ProbeRecord \/ ProbeRecordFails
  BY <1>3 DEF ProbeRead, ProbeReadFails, ProbeRecord, ProbeRecordFails
<1>4. CASE ProbeWrite \/ ProbeReopen \/ ProbeReopenFails \/ ProbeReadBack
  BY <1>4 DEF ProbeWrite, ProbeReopen, ProbeReopenFails, ProbeReadBack
<1>5. CASE ProbeRestore \/ ProbeRestoreFails \/ ProbeFlush \/ ProbeFlushFails
  BY <1>5 DEF ProbeRestore, ProbeRestoreFails, ProbeFlush, ProbeFlushFails
<1> QED
  BY <1>1, <1>2, <1>3, <1>4, <1>5 DEF SearchStep

\* A step of the search meets at most one more error.
LEMMA SearchFaults ==
    ASSUME TypeOK, SearchStep
    PROVE  UNCHANGED faults \/ Fault
<1> USE DEF NoFault, Bound, Conclude, WriteSlot, WriteSlotFails
<1>1. CASE AllHeld \/ TakeFold \/ GiveUpInterleaved \/ GiveUpReused
  BY <1>1 DEF AllHeld, TakeFold, GiveUpInterleaved, GiveUpReused
<1>2. CASE StartSearch \/ StartProbe \/ EndSearch
  BY <1>2 DEF StartSearch, StartProbe, EndSearch
<1>3. CASE ProbeRead \/ ProbeReadFails \/ ProbeRecord \/ ProbeRecordFails
  BY <1>3 DEF ProbeRead, ProbeReadFails, ProbeRecord, ProbeRecordFails
<1>4. CASE ProbeWrite \/ ProbeReopen \/ ProbeReopenFails \/ ProbeReadBack
  BY <1>4 DEF ProbeWrite, ProbeReopen, ProbeReopenFails, ProbeReadBack
<1>5. CASE ProbeRestore \/ ProbeRestoreFails \/ ProbeFlush \/ ProbeFlushFails
  BY <1>5 DEF ProbeRestore, ProbeRestoreFails, ProbeFlush, ProbeFlushFails
<1> QED
  BY <1>1, <1>2, <1>3, <1>4, <1>5 DEF SearchStep

\* Where a probe is when it takes a step, and where that takes it.
LEMMA ProbePath ==
    /\ AllHeld \/ TakeFold \/ GiveUpInterleaved \/ GiveUpReused \/ StartSearch =>
          /\ Deciding /\ est = "off" /\ pc = "return" /\ runErr = "none" /\ mode # "readonly"
          /\ UNCHANGED <<at, orig, took, held, unrestored, probes>>
    /\ StartProbe =>
          /\ est = "search" /\ at = "idle" /\ at' = "read" /\ hi - lo > 1 /\ ~unrestored
          /\ UNCHANGED <<est, lo, hi, capacity, note, orig, took, held, unrestored>>
    /\ ProbeRead =>
          /\ at = "read" /\ at' = "record" /\ orig' = Read(Here)
          /\ UNCHANGED <<est, lo, hi, probes, capacity, note, took, held, unrestored>>
    /\ ProbeRecord =>
          /\ at = "record" /\ at' = "write"
          /\ UNCHANGED <<est, lo, hi, probes, capacity, note, orig, took, held, unrestored>>
    /\ ProbeWrite =>
          /\ at = "write" /\ at' = "reopen"
          /\ UNCHANGED <<est, lo, hi, probes, capacity, note, orig, held, unrestored>>
    /\ ProbeReopen =>
          /\ at = "reopen" /\ at' = "readback"
          /\ UNCHANGED <<est, lo, hi, probes, capacity, note, orig, took, held, unrestored>>
    /\ ProbeReadBack =>
          /\ at = "readback" /\ at' = "restore"
          /\ UNCHANGED <<est, lo, hi, probes, capacity, note, orig, took, unrestored>>
    /\ ProbeRestore =>
          /\ at = "restore" /\ at' = "flush"
          /\ UNCHANGED <<est, lo, hi, probes, capacity, note, orig, took, held, unrestored>>
    /\ ProbeReadFails \/ ProbeRecordFails =>
          at \in {"read", "record"} /\ Bound(FALSE) /\ Fault
          /\ UNCHANGED <<orig, took, held, unrestored>>
    /\ ProbeReopenFails => at = "reopen" /\ Bound(FALSE) /\ Fault /\ unrestored' = TRUE
    /\ ProbeRestoreFails => at = "restore" /\ Bound(held) /\ unrestored' = TRUE
    /\ ProbeFlush => at = "flush" /\ Bound(held) /\ UNCHANGED unrestored
    /\ ProbeFlushFails => at = "flush" /\ Bound(held) /\ Fault /\ unrestored' = TRUE
    /\ ProbeReopenFails \/ ProbeRestoreFails \/ ProbeFlush \/ ProbeFlushFails =>
          UNCHANGED <<orig, took, held>>
    /\ EndSearch =>
          /\ est = "search" /\ at = "idle" /\ est' = "done"
          /\ UNCHANGED <<lo, hi, probes, at, orig, took, held, unrestored>>
<1> USE DEF search, probe
<1>1. AllHeld \/ TakeFold \/ GiveUpInterleaved \/ GiveUpReused \/ StartSearch =>
         /\ Deciding /\ est = "off" /\ pc = "return" /\ runErr = "none" /\ mode # "readonly"
         /\ UNCHANGED <<at, orig, took, held, unrestored, probes>>
  BY DEF AllHeld, TakeFold, GiveUpInterleaved, GiveUpReused, StartSearch, Deciding, Due, Conclude
<1> QED
  BY <1>1 DEF StartProbe, Continues, ProbeRead, ProbeRecord, ProbeWrite, ProbeReopen,
     ProbeReadBack, ProbeRestore, ProbeReadFails, ProbeRecordFails, ProbeReopenFails,
     ProbeRestoreFails, ProbeFlush, ProbeFlushFails, EndSearch

-----------------------------------------------------------------------------
(***************************************************************************)
(* What the search needs of the scan before it: all that ScanProofs knows, *)
(* and a little more.                                                      *)
(***************************************************************************)

\* Which restore errors are reported in which phase, and that a scan has put
\* back all samples it reports no error for, flushed or not.
ReportInv ==
    /\ restoreErrors \subseteq Sample \cup {FinalFlush}
    /\ pc \in Fore => restoreErrors = {}
    /\ pc = "restore" => restoreErrors \subseteq Sample
    /\ (pc \in {"return", "done"} /\ runErr # "reopen") =>
          \A c \in Slot : view[c] # before[c] => Missing(c)

\* A fold is within the claimed size.
FoldInv == wrapModulus <= Slots

ScanInv ==
    /\ IInv /\ VerdictInv /\ ErrorInv /\ DecidedInv /\ EchoInv
    /\ FoldReportIsReal /\ ReportInv

\* The entries of the list of restore errors that are not samples.
LEMMA ErrorEntries ==
    FinalFlush \notin Sample /\ ProbeError \notin Sample /\ ProbeError # FinalFlush
  BY PlanAssumption DEF FinalFlush, ProbeError, Sample

\* Restore errors are only ever added.
LEMMA ErrorsStay ==
    ASSUME [Next]_vars
    PROVE  restoreErrors \subseteq restoreErrors'
  BY Frames DEF RestoreFails, SyncRestoreFails

\* How a run gets to its restore and from there to its end.
LEMMA Returning ==
    ASSUME TypeOK, PhaseInv, [Next]_vars
    PROVE  /\ pc' \in Fore => pc \in Fore /\ UNCHANGED restoreErrors
           /\ pc' = "restore" =>
                 \/ pc \in Fore /\ UNCHANGED restoreErrors
                 \/ pc = "restore" /\ restoreErrors' \in {restoreErrors, restoreErrors \cup {cur}}
           /\ pc' \in {"return", "done"} =>
                 \/ SyncRestore \/ SyncRestoreFails
                 \/ /\ UNCHANGED <<view, maybe, restoreErrors>>
                    /\ \/ pc \in {"return", "done"} /\ UNCHANGED runErr
                       \/ written = {} \/ runErr' = "reopen"
<1> USE DEF media, undoing, vars, results, Fore
<1>1. CASE UNCHANGED vars
  BY <1>1
<1>2. CASE SetUp \/ CreateJournalFails \/ OpenDeviceFails
  BY <1>2 DEF SetUp, CreateJournalFails, OpenDeviceFails, PhaseInv
<1>3. CASE ReadOriginal \/ ReadOriginalFails \/ RecordFails \/ FinishReads
  BY <1>3 DEF ReadOriginal, ReadOriginalFails, RecordFails, FinishReads, Reading, PhaseInv
<1>4. CASE SkipWrite \/ WritePattern \/ WritePatternFails
  BY <1>4 DEF SkipWrite, WritePattern, WritePatternFails, Writing
<1>5. CASE SyncWrites \/ SyncWritesFails \/ Reopen \/ ReopenFails
  BY <1>5 DEF SyncWrites, SyncWritesFails, Reopen, ReopenFails
<1>6. ASSUME NEW i \in Sample, Verify(i) \/ VerifyFails(i)
      PROVE  pc = "verify" /\ pc' = "verify" /\ UNCHANGED restoreErrors
  BY <1>6 DEF Verify, VerifyFails
<1>7. CASE FinishVerify \/ FindEcho \/ PassCandidate \/ FinishSweep
  BY <1>7 DEF FinishVerify, FindEcho, PassCandidate, FinishSweep, Sweeping
<1>8. CASE SkipRestore \/ Restore \/ RestoreFails \/ SyncRestore \/ SyncRestoreFails
  BY <1>8 DEF SkipRestore, Restore, RestoreFails, SyncRestore, SyncRestoreFails, Restoring
<1>9. CASE KeepJournal \/ DiscardJournal \/ DiscardJournalFails \/ Crash
  BY <1>9 DEF KeepJournal, DiscardJournal, DiscardJournalFails, Crash
<1> QED
  BY <1>1, <1>2, <1>3, <1>4, <1>5, <1>6, <1>7, <1>8, <1>9 DEF Next, Step

\* Once the restore is through, a cell that is not back is a missing sample's.
LEMMA AllPutBack ==
    ASSUME TypeOK, CellInv, RestoringInv, pc = "restore", cur = N,
           NEW c \in Slot, view[c] # before[c]
    PROVE  Missing(c)
<1>1. PICK i \in written : Stores(i) /\ CellOf(i) = c
  BY DEF CellInv
<1>2. i \in Sample /\ i < N
  BY SampleFacts DEF TypeOK
<1>3. ~PutBack(i)
  BY <1>1, <1>2 DEF PutBack
<1> QED
  BY <1>1, <1>3 DEF RestoringInv

\* Every step keeps the list of restore errors what it is.
LEMMA NextReportInv ==
    TypeOK /\ PhaseInv /\ CellInv /\ RestoringInv /\ ReportInv /\ [Next]_vars => ReportInv'
<1> SUFFICES ASSUME TypeOK, PhaseInv, CellInv, RestoringInv, ReportInv, [Next]_vars
             PROVE  ReportInv'
  OBVIOUS
<1>1. restoreErrors' \subseteq Sample \cup {FinalFlush}
  <2>1. RestoreFails => cur \in Sample /\ restoreErrors' = restoreErrors \cup {cur}
    BY WriteSteps DEF RestoreFails
  <2>2. SyncRestoreFails => restoreErrors' = restoreErrors \cup {FinalFlush}
    BY DEF SyncRestoreFails
  <2> QED
    BY <2>1, <2>2, Frames DEF ReportInv
<1>2. pc' \in Fore => restoreErrors' = {}
  BY Returning DEF ReportInv
<1>3. pc' = "restore" => restoreErrors' \subseteq Sample
  <2>1. RestoreFails => cur \in Sample
    BY WriteSteps
  <2>2. pc' = "restore" => ~SyncRestoreFails
    BY DEF SyncRestoreFails
  <2> QED
    BY <2>1, <2>2, Returning, Frames DEF ReportInv, RestoreFails
<1>4. ASSUME pc' \in {"return", "done"}, runErr' # "reopen",
             NEW c \in Slot, view'[c] # before'[c]
      PROVE  Missing(c)'
  <2>1. before' = before /\ drive' = drive /\ restoreErrors \subseteq restoreErrors'
    BY Frames, ErrorsStay
  <2>2. SUFFICES view' = view => Missing(c)
    <3>1. view' = view
      BY <1>4, <2>1, Returning, Untouched DEF SyncRestore, SyncRestoreFails, undoing, media
    <3>2. Missing(c)
      BY <2>2, <3>1
    <3> QED
      BY <2>1, <3>2 DEF Missing, Stores, CellOf
  <2>3. CASE SyncRestore \/ SyncRestoreFails
    <3>1. pc = "restore" /\ cur = N
      BY <2>3 DEF SyncRestore, SyncRestoreFails
    <3> QED
      BY <1>4, <2>1, <3>1, AllPutBack
  <2>4. CASE pc \in {"return", "done"} /\ UNCHANGED runErr
    BY <1>4, <2>1, <2>4 DEF ReportInv
  <2>5. CASE written = {}
    BY <1>4, <2>1, <2>5, Untouched
  <2> QED
    BY <1>4, <2>3, <2>4, <2>5, Returning
<1> QED
  BY <1>1, <1>2, <1>3, <1>4 DEF ReportInv

\* An address that is folded is not below the fold.
LEMMA FoldedAbove ==
    ASSUME NEW a \in Nat, NEW m \in Nat \ {0}, a % m # a
    PROVE  m <= a
<1>1. CASE a < m
  BY <1>1
<1> QED
  BY <1>1

\* Every step keeps a reported fold within the claimed size.
LEMMA NextFoldInv == TypeOK /\ FoldInv /\ [Next]_vars => FoldInv'
<1> SUFFICES ASSUME TypeOK, FoldInv, FindEcho PROVE wrapModulus' <= Slots
  BY WrapFrame DEF FoldInv, wrap
<1>1. /\ Candidate \in Nat \ {0} /\ Offset[High] % Candidate # Offset[High]
      /\ wrapModulus' = Candidate
  BY EnvironmentAssumption DEF FindEcho, Sweeping, Candidate, WorthProbing, Echo, TypeOK
<1>2. Offset[High] \in Nat /\ Offset[High] <= Slots - 1 /\ Slots \in Nat
  BY RunTypes, SlotsAssumption DEF Slot
<1>3. Candidate <= Offset[High]
  BY <1>1, <1>2, FoldedAbove
<1> QED
  BY <1>1, <1>2, <1>3

\* Every step of the scan keeps all of it.
LEMMA NextScanInv == ScanInv /\ [Next]_vars => ScanInv'
<1> SUFFICES ASSUME ScanInv, [Next]_vars PROVE ScanInv'
  OBVIOUS
<1>1. /\ TypeOK /\ PhaseInv /\ CellInv /\ RestoringInv
      /\ MediaInv /\ WroteInv /\ TodoInv /\ JustInv /\ OkInv
      /\ PatternInv /\ BackupInv
  BY DEF ScanInv, IInv, VerdictInv
<1>2. IInv' /\ FoldReportIsReal'
  BY NextIInv, NextFoldReport DEF ScanInv
<1>3. VerdictInv'
  BY <1>1, NextMediaInv, NextWroteInv, NextTodoInv, NextJustInv DEF ScanInv, VerdictInv
<1>4. ErrorInv' /\ DecidedInv' /\ EchoInv'
  BY <1>1, NextErrorInv, NextDecidedInv, NextEchoInv DEF ScanInv
<1>5. ReportInv'
  BY <1>1, NextReportInv DEF ScanInv
<1> QED
  BY <1>2, <1>3, <1>4, <1>5 DEF ScanInv

\* And it holds at the start.
LEMMA InitScanInv == Init => ScanInv /\ FoldInv
<1> SUFFICES ASSUME Init PROVE ScanInv /\ FoldInv
  OBVIOUS
<1>1. restoreErrors = {} /\ pc = "create" /\ view = before /\ wrapModulus = 0
  BY Zenon DEF Init
<1>2. ReportInv
  BY <1>1 DEF ReportInv
<1>3. FoldReportIsReal
  BY <1>1 DEF FoldReportIsReal
<1>4. FoldInv
  BY <1>1, SlotsAssumption DEF FoldInv
<1> QED
  BY <1>2, <1>3, <1>4, InitIInv, InitVerdictInv, InitEndInv DEF ScanInv

-----------------------------------------------------------------------------
(***************************************************************************)
(* Types and phases of the search.                                         *)
(***************************************************************************)

\* The steps of a probe at which it has its original in memory.
Holding == {"record", "write", "reopen", "readback", "restore", "flush"}

\* When there is a search, where a probe is within it, and what stays of it.
SearchInv ==
    /\ est = "off" => at = "idle" /\ probes = 0 /\ ~unrestored
    /\ at # "idle" => est = "search" /\ hi - lo > 1 /\ ~unrestored /\ probes > 0
    /\ est = "search" =>
          pc = "return" /\ runErr = "none" /\ mode # "readonly" /\ First + hi < Slots
    /\ est = "done" => pc \in {"return", "done", "dead"}
    /\ unrestored => ProbeError \in restoreErrors
    /\ at \in Holding => orig \in Content

\* What holds of every state of a run with a search.
EstBase ==
    /\ TypeOK /\ PhaseInv /\ ViewInv /\ EstTypeOK /\ SearchInv /\ FoldInv
    /\ est = "off" => ScanInv

\* A probe is at a slot strictly between the bounds.
LEMMA HereFacts ==
    ASSUME EstTypeOK, SearchInv, at # "idle"
    PROVE  /\ lo \in Int /\ hi \in Int /\ Mid \in Int /\ lo < Mid /\ Mid < hi
           /\ Here \in Slot /\ First + lo < Here /\ Here < First + hi
           /\ First + hi < Slots /\ -1 <= lo
<1>1. /\ lo \in Int /\ hi \in Int /\ hi - lo > 1 /\ First + hi < Slots /\ -1 <= lo
      /\ First \in Nat /\ Slots \in Nat
  <2>1. hi - lo > 1 /\ First + hi < Slots
    BY DEF SearchInv
  <2>2. First \in Nat /\ Slots \in Nat
    BY SearchAssumption, SlotsAssumption DEF Slot
  <2>3. lo \in -1 .. Slots - 1 /\ hi \in 0 .. Slots - 1
    BY DEF EstTypeOK
  <2> QED
    BY <2>1, <2>2, <2>3
<1>2. Mid \in Int /\ lo < Mid /\ Mid < hi
  BY <1>1, Halves DEF Mid
<1>3. Here = First + Mid
  BY DEF Here
<1>4. Here \in Int /\ 0 <= Here /\ Here <= Slots - 1
  BY <1>1, <1>2, <1>3
<1>5. Here \in Slot
  BY <1>1, <1>4 DEF Slot
<1> QED
  BY <1>1, <1>2, <1>3, <1>5

\* What a probe writes, and where.
LEMMA ProbeWrites ==
    ASSUME TypeOK, EstTypeOK, SearchInv
    PROVE  /\ ProbeWrite =>
                 /\ Here \in Slot /\ Pattern(Here) \in Content
                 /\ WriteSlot(Here, Pattern(Here)) \/ WriteSlotFails(Here, Pattern(Here))
           /\ ProbeRestore \/ ProbeRestoreFails =>
                 /\ Here \in Slot /\ orig \in Content
                 /\ WriteSlot(Here, orig) \/ WriteSlotFails(Here, orig)
<1>1. ProbeWrite => at = "write" /\ (WriteSlot(Here, Pattern(Here)) \/ WriteSlotFails(Here, Pattern(Here)))
  BY DEF ProbeWrite
<1>2. (ProbeRestore \/ ProbeRestoreFails) =>
         at = "restore" /\ (WriteSlot(Here, orig) \/ WriteSlotFails(Here, orig))
  BY DEF ProbeRestore, ProbeRestoreFails
<1>3. at = "restore" => orig \in Content
  BY DEF SearchInv, Holding
<1> QED
  BY <1>1, <1>2, <1>3, HereFacts, ContentFacts

\* A record of a slot is a record.
LEMMA SlotRecord ==
    ASSUME TypeOK, NEW s \in Slot
    PROVE  /\ Read(s) \in Content
           /\ \A part \in {"whole", "torn"} :
                 Append(log, Entry(s, Read(s), part)) \in Seq(Entries)
           /\ ProbeRecorded(s) \in Seq(Entries) /\ ProbeLeftover(s) \subseteq Seq(Entries)
<1>1. Read(s) \in Content
  BY RunTypes, DeviceTypes DEF TypeOK, Read
<1>2. \A part \in {"whole", "torn"} : Entry(s, Read(s), part) \in Entries
  BY <1>1 DEF Entry, Entries
<1>3. \A part \in {"whole", "torn"} : Append(log, Entry(s, Read(s), part)) \in Seq(Entries)
  BY <1>2 DEF TypeOK
<1> QED
  BY <1>1, <1>3 DEF ProbeRecorded, ProbeLeftover, TypeOK

\* Every step of the search keeps the types of the run.
LEMMA SearchTypes ==
    ASSUME TypeOK, EstTypeOK, SearchInv, SearchStep
    PROVE  TypeOK'
<1>1. /\ UNCHANGED <<drive, before, mode, pc, cur, originals, written, verdict,
                     aliasOf, todo, wrapModulus, wrapEcho, restored, runErr, journal>>
  BY SearchFrame
<1>2. faults' \in 0 .. MaxFaults
  BY SearchFaults, EnvironmentAssumption DEF TypeOK, Fault
<1>3. log' \in Seq(Entries)
  <2>1. CASE ProbeRecord
    <3>1. Here \in Slot /\ log' = ProbeRecorded(Here)
      BY <2>1, HereFacts DEF ProbeRecord
    <3> QED
      BY <3>1, SlotRecord
  <2>2. CASE ProbeRecordFails
    <3>1. Here \in Slot /\ log' \in ProbeLeftover(Here)
      BY <2>2, HereFacts DEF ProbeRecordFails
    <3> QED
      BY <3>1, SlotRecord
  <2> QED
    BY <2>1, <2>2, SearchFrame DEF TypeOK
<1>4. view' \in [Slot -> Content] /\ maybe' \in [Slot -> SUBSET Content]
  <2>1. CASE ProbeWrite \/ ProbeRestore \/ ProbeRestoreFails
    BY <2>1, ProbeWrites, WriteSlotType
  <2>2. CASE ProbeReopen \/ ProbeFlush
    <3>1. view' = view /\ maybe' \in {maybe, Flush(drive, maybe, view)}
      BY <2>2 DEF ProbeReopen, ProbeFlush
    <3> QED
      BY <3>1 DEF TypeOK, Flush
  <2> QED
    BY <2>1, <2>2, SearchFrame DEF TypeOK
<1>5. restoreErrors' \subseteq Sample \cup {FinalFlush, ProbeError}
  BY SearchFrame DEF TypeOK
<1> QED
  BY <1>1, <1>2, <1>3, <1>4, <1>5 DEF TypeOK

\* So does the death in an append.
LEMMA CutShortTypes ==
    ASSUME TypeOK, EstTypeOK, SearchInv, CutShort
    PROVE  /\ TypeOK'
           /\ UNCHANGED <<drive, before, mode, written, view, maybe, journal, runErr,
                          restoreErrors, wrapModulus, faults>>
           /\ at = "record" /\ journal = "open" /\ pc' = "dead" /\ Here \in Slot
<1> USE DEF rigid, media, memory, results, wrap, undoing, NoFault
<1>1. at = "record" /\ Here \in Slot
  BY HereFacts DEF CutShort
<1>2. log' \in Seq(Entries)
  BY <1>1, SlotRecord DEF CutShort
<1>3. TypeOK'
  BY <1>2 DEF TypeOK, CutShort, Phases
<1> QED
  BY <1>1, <1>3 DEF CutShort

\* Every step of the search keeps the phases.
LEMMA SearchPhases ==
    ASSUME TypeOK, PhaseInv, EstTypeOK, SearchInv, SearchStep
    PROVE  PhaseInv'
<1>1. UNCHANGED <<pc, cur, written, mode, runErr, journal>>
  BY SearchFrame
<1>2. pc = "return"
  <2>1. est = "search" \/ at # "idle" \/ Deciding
    BY ProbePath DEF SearchStep
  <2> QED
    BY <2>1 DEF SearchInv, Deciding, Due
<1>3. journal # "removed"
  BY <1>2 DEF PhaseInv
<1> QED
  BY <1>1, <1>3 DEF PhaseInv

\* A probe that returns has moved one of the bounds to its slot.
LEMMA BoundStep ==
    ASSUME EstTypeOK, SearchInv, at # "idle", NEW good \in BOOLEAN, Bound(good)
    PROVE  /\ est = "search" /\ est' = "search" /\ at' = "idle"
           /\ UNCHANGED <<probes, capacity, note>>
           /\ \/ good /\ lo' = Mid /\ hi' = hi
              \/ ~good /\ lo' = lo /\ hi' = Mid
           /\ lo' \in -1 .. Slots - 1 /\ hi' \in 0 .. Slots - 1
           /\ lo' < hi' /\ First + hi' < Slots
           /\ lo <= lo' /\ hi' <= hi
<1>1. /\ est = "search" /\ est' = est /\ at' = "idle" /\ UNCHANGED <<probes, capacity, note>>
  BY DEF SearchInv, Bound
<1>2. \/ good /\ lo' = Mid /\ hi' = hi
      \/ ~good /\ lo' = lo /\ hi' = Mid
  BY DEF Bound
<1>3. /\ lo \in Int /\ hi \in Int /\ Mid \in Int /\ lo < Mid /\ Mid < hi
      /\ First + hi < Slots /\ -1 <= lo
  BY HereFacts
<1>4. lo \in -1 .. Slots - 1 /\ hi \in 0 .. Slots - 1
  BY DEF EstTypeOK
<1>5. First \in Nat /\ Slots \in Nat
  BY SearchAssumption, SlotsAssumption DEF Slot
<1> HIDE DEF Mid
<1>6. /\ lo' \in -1 .. Slots - 1 /\ hi' \in 0 .. Slots - 1
      /\ lo' < hi' /\ First + hi' < Slots
      /\ lo <= lo' /\ hi' <= hi
  BY <1>2, <1>3, <1>4, <1>5
<1> QED
  BY <1>1, <1>2, <1>6

\* The first bounds are on slots, and in order.
LEMMA FirstBounds ==
    ASSUME TypeOK, StartSearch
    PROVE  /\ lo' \in -1 .. Slots - 1 /\ hi' \in 0 .. Slots - 1
           /\ lo' < hi' /\ First + hi' < Slots
           /\ hi' = FirstBad - First
           /\ First + lo' = LastGood \/ (LastGood = -1 /\ lo' = -1)
<1>1. /\ FirstBad \in Nat /\ FirstBad < Slots /\ First <= FirstBad
      /\ LastGood \in Int /\ LastGood < Slots /\ LastGood # FirstBad
      /\ LastGood = -1 \/ (First <= LastGood /\ LastGood >= 0)
  <2>1. Failed # {}
    BY DEF StartSearch
  <2>2. /\ FirstBad \in Slot /\ First <= FirstBad
        /\ LastGood \in Slot \cup {-1} /\ LastGood # FirstBad
        /\ LastGood # -1 => First <= LastGood
    BY <2>1, SearchStart
  <2> QED
    BY <2>2, SlotsAssumption DEF Slot
<1>2. /\ lo' = IF LastGood >= 0 THEN LastGood - First ELSE -1
      /\ hi' = FirstBad - First /\ ~(LastGood > FirstBad)
  BY DEF StartSearch, Interleaved
<1>3. First \in Nat /\ Slots \in Nat
  BY SearchAssumption, SlotsAssumption DEF Slot
<1> QED
  BY <1>1, <1>2, <1>3

\* Every step of the search keeps the types of the search.
LEMMA SearchEstTypes ==
    ASSUME TypeOK, EstTypeOK, SearchInv, FoldInv, SearchStep
    PROVE  EstTypeOK'
<1>0. /\ est \in {"off", "search", "done"}
      /\ lo \in -1 .. Slots - 1 /\ hi \in 0 .. Slots - 1
      /\ est = "search" => lo < hi
      /\ at \in {"idle", "read", "record", "write", "reopen", "readback", "restore", "flush"}
      /\ orig \in Content \cup {Nil}
      /\ took \in BOOLEAN /\ held \in BOOLEAN /\ unrestored \in BOOLEAN
      /\ probes \in 0 .. MaxProbes
      /\ capacity \in -1 .. Slots
  BY DEF EstTypeOK
<1>n. note \in {"", "fold", "interleaved", "reused", "between"}
  BY DEF EstTypeOK
<1>1. Slots \in Nat /\ First \in Nat /\ MaxProbes \in Nat
  BY SearchAssumption, SlotsAssumption DEF Slot
<1>2. CASE AllHeld \/ TakeFold \/ GiveUpInterleaved \/ GiveUpReused
  <2>1. /\ est' = "done" /\ capacity' \in {wrapModulus, Slots, -1}
        /\ note' \in {"", "fold", "interleaved", "reused"}
        /\ UNCHANGED <<lo, hi, probes, at, orig, took, held, unrestored>>
    BY <1>2 DEF AllHeld, TakeFold, GiveUpInterleaved, GiveUpReused, Conclude, probe
  <2>2. capacity' \in -1 .. Slots
    <3>1. wrapModulus \in Nat /\ wrapModulus <= Slots
      BY DEF TypeOK, FoldInv
    <3>2. {wrapModulus, Slots, -1} \subseteq -1 .. Slots
      BY <1>1, <3>1
    <3> QED
      BY <2>1, <3>2
  <2> QED
    BY <1>0, <1>n, <2>1, <2>2 DEF EstTypeOK
<1>3. CASE StartSearch
  <2>1. /\ est' = "search"
        /\ UNCHANGED <<probes, capacity, note, at, orig, took, held, unrestored>>
    BY <1>3 DEF StartSearch, probe
  <2> QED
    BY <1>0, <1>n, <1>3, <2>1, FirstBounds DEF EstTypeOK
<1>4. CASE StartProbe
  <2>1. /\ at' = "read" /\ probes' = probes + 1 /\ probes < MaxProbes
        /\ UNCHANGED <<est, lo, hi, capacity, note, orig, took, held, unrestored>>
    BY <1>4 DEF StartProbe, Continues
  <2>2. probes' \in 0 .. MaxProbes
    BY <1>0, <1>1, <2>1
  <2> QED
    BY <1>0, <1>n, <2>1, <2>2 DEF EstTypeOK
<1>5. CASE ProbeRead
  <2>1. Read(Here) \in Content
    BY <1>5, HereFacts, SlotRecord DEF ProbeRead
  <2> QED
    BY <1>0, <1>n, <1>5, <2>1, ProbePath DEF EstTypeOK
<1>6. CASE ProbeRecord \/ ProbeReopen \/ ProbeRestore
  BY <1>0, <1>n, <1>6, ProbePath DEF EstTypeOK
<1>7. CASE ProbeWrite \/ ProbeReadBack
  <2>1. took' \in BOOLEAN /\ held' \in BOOLEAN
    BY <1>0, <1>7 DEF ProbeWrite, ProbeReadBack
  <2> QED
    BY <1>0, <1>n, <1>7, <2>1, ProbePath DEF EstTypeOK
<1>8. CASE \/ ProbeReadFails \/ ProbeRecordFails \/ ProbeReopenFails \/ ProbeRestoreFails
           \/ ProbeFlush \/ ProbeFlushFails
  <2>1. /\ at # "idle" /\ \E good \in BOOLEAN : Bound(good)
        /\ UNCHANGED <<orig, took, held>> /\ unrestored' \in BOOLEAN
    BY <1>0, <1>8, ProbePath
  <2> QED
    BY <1>0, <1>n, <2>1, BoundStep DEF EstTypeOK
<1>9. CASE EndSearch
  <2>1. /\ est' = "done" /\ capacity' = Boundary /\ note' \in {"between", ""}
        /\ UNCHANGED <<lo, hi, probes, at, orig, took, held, unrestored>>
    BY <1>9, ProbePath DEF EndSearch
  <2>2. First + hi < Slots /\ lo < hi
    BY <1>0, <1>9 DEF EndSearch, SearchInv
  <2>3. Boundary \in -1 .. Slots
    BY <1>0, <1>1, <2>2 DEF Boundary
  <2> QED
    BY <1>0, <1>n, <2>1, <2>3 DEF EstTypeOK
<1> QED
  BY <1>2, <1>3, <1>4, <1>5, <1>6, <1>7, <1>8, <1>9 DEF SearchStep

\* And its phases.
LEMMA SearchSearchInv ==
    ASSUME TypeOK, EstTypeOK, SearchInv, SearchStep
    PROVE  SearchInv'
<1>0. /\ est = "off" => at = "idle" /\ probes = 0 /\ ~unrestored
      /\ at # "idle" => est = "search" /\ hi - lo > 1 /\ ~unrestored /\ probes > 0
      /\ est = "search" =>
            pc = "return" /\ runErr = "none" /\ mode # "readonly" /\ First + hi < Slots
      /\ est = "done" => pc \in {"return", "done", "dead"}
      /\ unrestored => ProbeError \in restoreErrors
      /\ at \in Holding => orig \in Content
  BY DEF SearchInv
<1>1. UNCHANGED <<pc, runErr, mode>> /\ restoreErrors \subseteq restoreErrors'
  BY SearchFrame
<1>2. CASE AllHeld \/ TakeFold \/ GiveUpInterleaved \/ GiveUpReused
  <2>1. /\ est' = "done"
        /\ UNCHANGED <<lo, hi, probes, at, orig, took, held, unrestored>>
        /\ est = "off" /\ pc = "return"
    BY <1>2, ProbePath DEF AllHeld, TakeFold, GiveUpInterleaved, GiveUpReused, Conclude, probe
  <2> QED
    BY <1>0, <1>1, <2>1 DEF SearchInv, Holding
<1>3. CASE StartSearch
  <2>1. /\ est' = "search" /\ est = "off"
        /\ UNCHANGED <<probes, capacity, note, at, orig, took, held, unrestored>>
        /\ pc = "return" /\ runErr = "none" /\ mode # "readonly"
    BY <1>3, ProbePath DEF StartSearch, probe
  <2> QED
    BY <1>0, <1>1, <1>3, <2>1, FirstBounds DEF SearchInv, Holding
<1>4. CASE StartProbe
  <2>1. /\ at' = "read" /\ est = "search" /\ hi - lo > 1 /\ ~unrestored
        /\ UNCHANGED <<est, lo, hi, orig, unrestored>>
    BY <1>4, ProbePath
  <2>2. probes' > 0
    <3>1. probes \in 0 .. MaxProbes /\ probes' = probes + 1
      BY <1>4 DEF StartProbe, EstTypeOK
    <3> QED
      BY <3>1
  <2> QED
    BY <1>0, <1>1, <2>1, <2>2 DEF SearchInv, Holding
<1>5. CASE ProbeRead
  <2>1. Read(Here) \in Content
    BY <1>5, HereFacts, SlotRecord DEF ProbeRead
  <2> QED
    BY <1>0, <1>1, <1>5, <2>1, ProbePath DEF SearchInv
<1>6. CASE ProbeRecord \/ ProbeReopen \/ ProbeRestore \/ ProbeWrite \/ ProbeReadBack
  <2>1. at \in Holding /\ at # "idle" /\ UNCHANGED <<est, lo, hi, probes, orig, unrestored>>
    BY <1>6, ProbePath DEF Holding
  <2> QED
    BY <1>0, <1>1, <2>1 DEF SearchInv
<1>7. CASE \/ ProbeReadFails \/ ProbeRecordFails \/ ProbeReopenFails \/ ProbeRestoreFails
           \/ ProbeFlush \/ ProbeFlushFails
  <2>1. /\ at # "idle" /\ \E good \in BOOLEAN : Bound(good)
        /\ UNCHANGED orig
    BY <1>7, ProbePath DEF EstTypeOK
  <2>2. unrestored' => ProbeError \in restoreErrors'
    <3>1. CASE ProbeReopenFails \/ ProbeRestoreFails \/ ProbeFlushFails
      BY <3>1 DEF ProbeReopenFails, ProbeRestoreFails, ProbeFlushFails, ProbeErrorReported
    <3>2. CASE ProbeReadFails \/ ProbeRecordFails \/ ProbeFlush
      BY <1>0, <1>1, <3>2, ProbePath
    <3> QED
      BY <1>7, <3>1, <3>2
  <2>3. est' = "search" /\ at' = "idle" /\ First + hi' < Slots /\ est = "search"
    BY <2>1, BoundStep
  <2> QED
    BY <1>0, <1>1, <2>2, <2>3 DEF SearchInv, Holding
<1>8. CASE EndSearch
  <2>1. /\ est' = "done" /\ est = "search" /\ at = "idle"
        /\ UNCHANGED <<lo, hi, probes, at, orig, took, held, unrestored>>
    BY <1>8, ProbePath
  <2> QED
    BY <1>0, <1>1, <2>1 DEF SearchInv, Holding
<1> QED
  BY <1>2, <1>3, <1>4, <1>5, <1>6, <1>7, <1>8 DEF SearchStep

\* A run that has got to its end does no more than decide on its journal.
LEMMA LateSteps ==
    ASSUME TypeOK, pc \in {"return", "done", "dead"}, [Next]_vars
    PROVE  /\ UNCHANGED <<drive, before, mode, view, maybe, log, written, verdict,
                          wrapModulus, restoreErrors, runErr>>
           /\ pc' \in {"return", "done", "dead"}
           /\ pc' = "return" => pc = "return" /\ UNCHANGED vars
           /\ pc = "dead" => pc' = "dead"
           /\ journal' = "removed" =>
                 \/ journal = "removed"
                 \/ pc = "return" /\ runErr = "none" /\ restoreErrors = {} /\ journal = "open"
<1> USE DEF rigid, media, file, memory, results, wrap, undoing, vars
<1>1. CASE UNCHANGED vars
  BY <1>1
<1>2. CASE KeepJournal \/ DiscardJournal \/ DiscardJournalFails
  BY <1>2 DEF KeepJournal, DiscardJournal, DiscardJournalFails, MayDiscard
<1>3. CASE Crash
  BY <1>3 DEF Crash, Reading
<1>4. ~(\/ SetUp \/ CreateJournalFails \/ OpenDeviceFails \/ ReadOriginal
        \/ ReadOriginalFails \/ RecordFails \/ FinishReads \/ SkipWrite \/ WritePattern
        \/ WritePatternFails \/ SyncWrites \/ SyncWritesFails \/ Reopen \/ ReopenFails)
  BY DEF SetUp, CreateJournalFails, OpenDeviceFails, ReadOriginal, ReadOriginalFails,
         RecordFails, FinishReads, SkipWrite, WritePattern, WritePatternFails, SyncWrites,
         SyncWritesFails, Reopen, ReopenFails, Reading, Writing
<1>5. /\ \A j \in Sample : ~(Verify(j) \/ VerifyFails(j))
      /\ ~(\/ FinishVerify \/ FindEcho \/ PassCandidate \/ FinishSweep \/ SkipRestore
           \/ Restore \/ RestoreFails \/ SyncRestore \/ SyncRestoreFails)
  BY DEF Verify, VerifyFails, FinishVerify, FindEcho, PassCandidate, FinishSweep, Sweeping,
         SkipRestore, Restore, RestoreFails, SyncRestore, SyncRestoreFails, Restoring
<1> QED
  BY <1>1, <1>2, <1>3, <1>4, <1>5 DEF Next, Step

\* Every step of the search keeps what a read returns among what a power loss
\* can leave.
LEMMA SearchViewInv ==
    ASSUME TypeOK, EstTypeOK, SearchInv, ViewInv, SearchStep
    PROVE  ViewInv'
<1>1. CASE UNCHANGED <<view, maybe>>
  BY <1>1 DEF ViewInv
<1>2. CASE ProbeWrite \/ ProbeRestore \/ ProbeRestoreFails
  BY <1>2, ProbeWrites, WriteView
<1>3. CASE ProbeReopen \/ ProbeFlush
  BY <1>3, FlushView DEF ProbeReopen, ProbeFlush
<1> QED
  BY <1>1, <1>2, <1>3, SearchFrame

\* A step of the scan, or a death within it, as the search sees it.
LEMMA ScanSteps ==
    ASSUME EstBase, [EstNext]_allVars, ~SearchStep, ~CutShort
    PROVE  /\ [Next]_vars
           /\ UNCHANGED <<lo, hi, probes, capacity, note, orig, took, held, unrestored>>
           /\ \/ UNCHANGED <<est, at>> /\ (est = "search" => UNCHANGED vars)
              \/ at' = "idle" /\ est' = "done" /\ pc' = "dead" /\ Crash
<1> USE DEF search, probe
<1>1. CASE ScanStep
  <2>1. Step /\ UNCHANGED <<search, probe>> /\ (Due => est = "done")
    BY <1>1 DEF ScanStep
  <2>2. est # "search"
    BY <2>1 DEF EstBase, SearchInv, Due
  <2> QED
    BY <2>1, <2>2 DEF Next
<1>2. CASE UNCHANGED allVars
  BY <1>2 DEF allVars
<1>3. CASE /\ Crash /\ at' = "idle" /\ est' = "done"
           /\ UNCHANGED <<lo, hi, probes, capacity, note, orig, took, held, unrestored>>
  BY <1>3 DEF Next, Crash
<1> QED
  BY <1>1, <1>2, <1>3, StepKinds

\* Every step keeps all of this.
LEMMA NextEstBase == EstBase /\ [EstNext]_allVars => EstBase'
<1> SUFFICES ASSUME EstBase, [EstNext]_allVars PROVE EstBase'
  OBVIOUS
<1>0. TypeOK /\ PhaseInv /\ ViewInv /\ EstTypeOK /\ SearchInv /\ FoldInv
  BY DEF EstBase
<1>1. CASE SearchStep
  <2>1. TypeOK' /\ PhaseInv' /\ ViewInv' /\ EstTypeOK' /\ SearchInv'
    BY <1>0, <1>1, SearchTypes, SearchPhases, SearchViewInv, SearchEstTypes, SearchSearchInv
  <2>2. FoldInv'
    BY <1>0, <1>1, SearchFrame DEF FoldInv
  <2>3. est' # "off"
    <3>1. CASE \/ ProbeReadFails \/ ProbeRecordFails \/ ProbeReopenFails \/ ProbeRestoreFails
               \/ ProbeFlush \/ ProbeFlushFails
      <4>1. /\ at # "idle" /\ \E good \in BOOLEAN : Bound(good)
        BY <1>0, <3>1, ProbePath DEF EstTypeOK
      <4> QED
        BY <1>0, <4>1, BoundStep
    <3>2. CASE \/ AllHeld \/ TakeFold \/ GiveUpInterleaved \/ GiveUpReused
               \/ StartSearch \/ StartProbe \/ EndSearch
      BY <3>2, ProbePath DEF AllHeld, TakeFold, GiveUpInterleaved, GiveUpReused, StartSearch, Conclude
    <3>3. CASE \/ ProbeRead \/ ProbeRecord \/ ProbeWrite \/ ProbeReopen
               \/ ProbeReadBack \/ ProbeRestore
      BY <1>0, <3>3, ProbePath DEF SearchInv
    <3> QED
      BY <1>1, <3>1, <3>2, <3>3 DEF SearchStep
  <2> QED
    BY <2>1, <2>2, <2>3 DEF EstBase
<1>2. CASE CutShort
  <2>1. /\ TypeOK' /\ UNCHANGED <<view, maybe, mode, journal, written, runErr, wrapModulus, restoreErrors>>
        /\ at = "record" /\ journal = "open" /\ pc' = "dead" /\ at' = "idle" /\ est' = "done"
        /\ UNCHANGED <<lo, hi, probes, capacity, note, orig, took, held, unrestored>>
    BY <1>0, <1>2, CutShortTypes DEF CutShort
  <2>2. PhaseInv' /\ ViewInv' /\ FoldInv'
    <3>1. PhaseInv'
      BY <1>0, <2>1 DEF PhaseInv
    <3>2. ViewInv' /\ FoldInv'
      BY <1>0, <2>1 DEF ViewInv, FoldInv
    <3> QED
      BY <3>1, <3>2
  <2>3. EstTypeOK'
    BY <1>0, <2>1 DEF EstTypeOK
  <2>4. SearchInv'
    BY <1>0, <2>1 DEF SearchInv, Holding
  <2> QED
    BY <2>1, <2>2, <2>3, <2>4 DEF EstBase
<1>3. CASE ~SearchStep /\ ~CutShort
  <2>1. /\ [Next]_vars
        /\ UNCHANGED <<lo, hi, probes, capacity, note, orig, took, held, unrestored>>
        /\ \/ UNCHANGED <<est, at>> /\ (est = "search" => UNCHANGED vars)
           \/ at' = "idle" /\ est' = "done" /\ pc' = "dead" /\ Crash
    BY <1>3, ScanSteps
  <2>2. TypeOK' /\ PhaseInv' /\ ViewInv' /\ FoldInv'
    BY <1>0, <2>1, NextTypeOK, NextPhaseInv, NextViewInv, NextFoldInv
  <2>3. EstTypeOK'
    BY <1>0, <2>1 DEF EstTypeOK
  <2>4. est' = "off" => ScanInv'
    BY <2>1, NextScanInv DEF EstBase
  <2>5. SearchInv'
    <3>1. restoreErrors \subseteq restoreErrors'
      BY <2>1, ErrorsStay
    <3>2. CASE at' = "idle" /\ est' = "done" /\ pc' = "dead"
      BY <1>0, <2>1, <3>1, <3>2 DEF SearchInv, Holding
    <3>3. CASE UNCHANGED <<est, at>> /\ est = "done"
      <4>1. pc' \in {"return", "done", "dead"}
        BY <1>0, <2>1, <3>3, LateSteps DEF SearchInv
      <4> QED
        BY <1>0, <2>1, <3>1, <3>3, <4>1 DEF SearchInv
    <3>4. CASE UNCHANGED <<est, at>> /\ est = "search"
      BY <1>0, <2>1, <3>4 DEF SearchInv, vars, rigid, undoing
    <3>5. CASE UNCHANGED <<est, at>> /\ est = "off"
      BY <1>0, <2>1, <3>1, <3>5 DEF SearchInv, Holding
    <3> QED
      BY <1>0, <2>1, <3>2, <3>3, <3>4, <3>5 DEF EstTypeOK
  <2> QED
    BY <2>2, <2>3, <2>4, <2>5 DEF EstBase
<1> QED
  BY <1>1, <1>2, <1>3

\* The types and phases of a run at its start.
LEMMA InitEstBase == EstInit => EstBase
<1> SUFFICES ASSUME EstInit PROVE EstBase
  OBVIOUS
<1>1. Init
  BY DEF EstInit
<1>2. ScanInv /\ FoldInv /\ ViewInv
  BY <1>1, InitScanInv, InitViewInv
<1>3. TypeOK /\ PhaseInv
  BY <1>2 DEF ScanInv, IInv
<1>4. /\ est = "off" /\ at = "idle" /\ lo = -1 /\ hi = 0 /\ orig = Nil
      /\ took = FALSE /\ held = FALSE /\ unrestored = FALSE /\ probes = 0 /\ capacity = -1
  BY DEF EstInit
<1>5. EstTypeOK
  <2>1. /\ lo \in -1 .. Slots - 1 /\ hi \in 0 .. Slots - 1
        /\ probes \in 0 .. MaxProbes /\ capacity \in -1 .. Slots
    BY <1>4, SlotsAssumption, SearchAssumption
  <2>2. note = ""
    BY DEF EstInit
  <2> QED
    BY <1>4, <2>1, <2>2 DEF EstTypeOK
<1>6. SearchInv
  BY <1>4 DEF SearchInv, Holding
<1> QED
  BY <1>2, <1>3, <1>5, <1>6 DEF EstBase

LEMMA EstBaseHolds == EstSpec => []EstBase
  BY InitEstBase, NextEstBase, PTL DEF EstSpec

(***************************************************************************)
(* The variables of the search keep their types: in particular its bounds  *)
(* stay on slots and never cross, and no more than maxProbes are made.     *)
(***************************************************************************)
THEOREM EstTypeCorrect == EstSpec => []EstTypeOK
<1>1. EstBase => EstTypeOK
  BY DEF EstBase
<1> QED
  BY <1>1, EstBaseHolds, PTL

-----------------------------------------------------------------------------
(***************************************************************************)
(* What a probe does to the media and the journal.                         *)
(***************************************************************************)

\* The steps between the write of a probe and its restore.
Overwritten == {"reopen", "readback", "restore"}

\* The cell behind the slot of the probe, if writes reach it.
ProbeAt(c) == drive.kind[Here] = "store" /\ drive.phys[Here] = c

\* No sample is strictly between the bounds.
SampledInv ==
    est = "search" => \A i \in Sample : Offset[i] <= First + lo \/ First + hi <= Offset[i]

\* A cell departs from its original only if the scan has left it so, or under
\* the probe of the moment, until a probe cannot be restored.
DepartInv ==
    (pc = "return" /\ est # "off" /\ ~unrestored) => \A c \in Slot :
        view[c] # before[c] => Missing(c) \/ (at \in Overwritten /\ ProbeAt(c))

\* What a probe puts back is the original, unless the scan had lost it before.
OrigInv ==
    at \in Holding => \A c \in Slot :
        (ProbeAt(c) /\ orig # before[c]) => Missing(c)

\* After full flushes only the cell of the probe may change in a power loss.
DurableInv ==
    (pc = "return" /\ est # "off" /\ restoreErrors = {} /\ drive.fullSync) =>
        \A c \in Dirty : at \in Overwritten \cup {"flush"} /\ ProbeAt(c)

\* A probe writes only to a cell whose original is on file.
RecordedInv ==
    (mode = "check" /\ at \in Holding \ {"record"}) => \A c \in Slot :
        ProbeAt(c) => \E k \in DOMAIN log : PutsBack(k, c)

\* The search went ahead only with the samples of a cell in place, or no two
\* addresses share a cell.  Then all records of the cell are of its original,
\* those of torn appends included.
Genuine(c) == Straight \/ probes = 0 \/ ~Missing(c)

GenuineInv ==
    \A k \in DOMAIN log :
        (drive.kind[log[k].slot] = "store" /\ Genuine(drive.phys[log[k].slot])) =>
            log[k].data = before[drive.phys[log[k].slot]]

TraceInv ==
    /\ SampledInv /\ DepartInv /\ OrigInv /\ DurableInv /\ RecordedInv /\ GenuineInv
    /\ ProbesAreRecorded /\ ProbesLeaveNoTrace

\* The samples and cells are where they were after a step of the search.
LEMMA SearchPlaces ==
    ASSUME SearchStep, NEW c \in Slot
    PROVE  /\ Missing(c) => Missing(c)'
           /\ UNCHANGED <<lo, hi>> => Here' = Here /\ (ProbeAt(c)' <=> ProbeAt(c))
<1>1. UNCHANGED <<drive, written>> /\ restoreErrors \subseteq restoreErrors'
  BY SearchFrame
<1>2. Missing(c) => Missing(c)'
  <2>1. \A i : (Stores(i)' <=> Stores(i)) /\ CellOf(i)' = CellOf(i)
    BY <1>1 DEF Stores, CellOf
  <2> QED
    BY <1>1, <2>1 DEF Missing
<1>3. UNCHANGED <<lo, hi>> => Here' = Here
  BY DEF Here, Mid
<1> QED
  BY <1>1, <1>2, <1>3 DEF ProbeAt

\* Before the search only cells of samples that are missing depart, and if none
\* is, not even a power loss changes a cell.
LEMMA CleanStart ==
    ASSUME EstBase, Deciding
    PROVE  /\ \A c \in Slot : view[c] # before[c] => Missing(c)
           /\ restoreErrors = {} => AllBack
<1>1. ReportInv /\ RestoredInv /\ pc = "return" /\ runErr = "none"
  BY DEF EstBase, Deciding, Due, ScanInv, IInv
<1> QED
  BY <1>1 DEF ReportInv, RestoredInv

\* The bounds of the search are integers.
LEMMA BoundTypes ==
    ASSUME EstTypeOK
    PROVE  lo \in Int /\ hi \in Int
<1>1. lo \in -1 .. Slots - 1 /\ hi \in 0 .. Slots - 1
  BY DEF EstTypeOK
<1> QED
  BY <1>1, SlotsAssumption

\* No step moves a bound past a sample.
LEMMA NextSampledInv == EstBase /\ SampledInv /\ [EstNext]_allVars => SampledInv'
<1> SUFFICES ASSUME EstBase, SampledInv, [EstNext]_allVars, est' = "search", NEW i \in Sample
             PROVE  Offset[i] <= First + lo' \/ First + hi' <= Offset[i]
  BY DEF SampledInv
<1>0. TypeOK /\ EstTypeOK /\ SearchInv
  BY DEF EstBase
<1>1. Offset[i] \in Nat /\ First \in Nat
  BY <1>0, RunTypes, SearchAssumption DEF Slot
<1>2. CASE StartSearch
  <2>1. /\ hi' = FirstBad - First
        /\ First + lo' = LastGood \/ (LastGood = -1 /\ lo' = -1)
        /\ Failed # {}
    BY <1>0, <1>2, FirstBounds DEF StartSearch
  <2>2. CASE i \in Failed
    <3>1. FirstBad <= Offset[i] /\ FirstBad \in Slot
      BY <1>0, <2>1, <2>2, SearchStart
    <3>2. FirstBad \in Int
      BY <3>1 DEF Slot
    <3> QED
      BY <1>1, <2>1, <3>1, <3>2
  <2>3. CASE i \notin Failed
    <3>1. LastGood # -1 /\ Offset[i] <= LastGood
      BY <1>0, <2>1, <2>3, SearchStart
    <3> QED
      BY <2>1, <3>1
  <2> QED
    BY <2>2, <2>3
<1>3. ASSUME est = "search", lo \in Int, hi \in Int, lo' \in Int, hi' \in Int, lo <= lo', hi' <= hi
      PROVE  Offset[i] <= First + lo' \/ First + hi' <= Offset[i]
  <2>1. Offset[i] <= First + lo \/ First + hi <= Offset[i]
    BY <1>3 DEF SampledInv
  <2> QED
    BY <1>1, <1>3, <2>1
<1>4. CASE SearchStep /\ ~StartSearch
  <2>1. lo \in Int /\ hi \in Int
    BY <1>0, BoundTypes
  <2>2. CASE \/ ProbeReadFails \/ ProbeRecordFails \/ ProbeReopenFails \/ ProbeRestoreFails
             \/ ProbeFlush \/ ProbeFlushFails
    <3>1. at # "idle" /\ \E good \in BOOLEAN : Bound(good)
      BY <1>0, <2>2, ProbePath DEF EstTypeOK
    <3>2. est = "search" /\ lo' \in Int /\ hi' \in Int /\ lo <= lo' /\ hi' <= hi
      BY <1>0, <3>1, BoundStep
    <3> QED
      BY <1>3, <2>1, <3>2
  <2>3. CASE AllHeld \/ TakeFold \/ GiveUpInterleaved \/ GiveUpReused \/ EndSearch
    BY <2>3 DEF AllHeld, TakeFold, GiveUpInterleaved, GiveUpReused, EndSearch, Conclude
  <2>4. CASE \/ StartProbe \/ ProbeRead \/ ProbeRecord \/ ProbeWrite \/ ProbeReopen
             \/ ProbeReadBack \/ ProbeRestore
    <3>1. est = "search" /\ UNCHANGED <<lo, hi>>
      BY <2>4, ProbePath
    <3> QED
      BY <1>3, <2>1, <3>1
  <2> QED
    BY <1>4, <2>2, <2>3, <2>4 DEF SearchStep
<1>5. CASE ~SearchStep /\ ~CutShort
  <2>1. est = "search" /\ UNCHANGED <<lo, hi>>
    BY <1>5, ScanSteps
  <2> QED
    BY <1>0, <1>3, <2>1, BoundTypes
<1>6. ~CutShort
  BY DEF CutShort
<1> QED
  BY <1>2, <1>4, <1>5, <1>6

\* A step that is not one of the search leaves it where it is, and does not
\* change the run that goes on.
LEMMA OtherSteps ==
    ASSUME EstBase, [EstNext]_allVars, ~SearchStep
    PROVE  /\ UNCHANGED <<drive, before, mode, lo, hi, probes, orig, took, held, unrestored>>
           /\ restoreErrors \subseteq restoreErrors'
           /\ est' = "off" => est = "off"
           /\ (est' # "off" /\ pc' = "return") => UNCHANGED vars /\ UNCHANGED <<est, at>>
           /\ at' # "idle" => est' # "off" /\ pc' = "return" /\ UNCHANGED at
           /\ est = "off" => ScanInv' \/ CutShort
           /\ est # "off" =>
                 /\ UNCHANGED <<view, maybe, restoreErrors, runErr>>
                 /\ UNCHANGED log \/ CutShort
                 /\ journal' = "removed" =>
                       \/ journal = "removed"
                       \/ est = "done" /\ pc = "return" /\ restoreErrors = {}
<1>0. TypeOK /\ EstTypeOK /\ SearchInv /\ PhaseInv
  BY DEF EstBase
<1>1. CASE CutShort
  <2>1. /\ UNCHANGED <<drive, before, mode, view, maybe, journal, runErr, restoreErrors>>
        /\ journal = "open" /\ pc' = "dead"
    BY <1>0, <1>1, CutShortTypes
  <2>2. /\ UNCHANGED <<lo, hi, probes, orig, took, held, unrestored>>
        /\ est' = "done" /\ at' = "idle"
    BY <1>1 DEF CutShort
  <2> QED
    BY <1>1, <2>1, <2>2
<1>2. CASE ~CutShort
  <2>1. /\ [Next]_vars
        /\ UNCHANGED <<lo, hi, probes, orig, took, held, unrestored>>
        /\ \/ UNCHANGED <<est, at>> /\ (est = "search" => UNCHANGED vars)
           \/ at' = "idle" /\ est' = "done" /\ pc' = "dead" /\ Crash
    BY <1>2, ScanSteps
  <2>2. UNCHANGED <<drive, before, mode>> /\ restoreErrors \subseteq restoreErrors'
    BY <2>1, Frames, ErrorsStay
  <2>3. est = "off" => ScanInv'
    BY <2>1, NextScanInv DEF EstBase
  <2>4. ASSUME est # "off"
        PROVE  /\ UNCHANGED <<view, maybe, log, restoreErrors, runErr>>
               /\ pc' = "return" => pc = "return" /\ UNCHANGED vars
               /\ journal' = "removed" =>
                     \/ journal = "removed"
                     \/ est = "done" /\ pc = "return" /\ restoreErrors = {}
    <3>1. pc \in {"return", "done", "dead"}
      BY <1>0, <2>4 DEF SearchInv, EstTypeOK
    <3>2. est = "search" => UNCHANGED vars \/ Crash
      BY <2>1
    <3>3. (UNCHANGED vars \/ Crash) => UNCHANGED journal
      BY DEF vars, file, Crash
    <3> QED
      BY <1>0, <2>1, <2>4, <3>1, <3>2, <3>3, LateSteps DEF EstTypeOK
  <2>5. est = "off" => at = "idle"
    BY <1>0 DEF SearchInv
  <2>6. at' # "idle" => est' # "off" /\ pc' = "return" /\ UNCHANGED at
    <3>1. SearchInv'
      BY NextEstBase DEF EstBase
    <3> QED
      BY <2>1, <3>1 DEF SearchInv
  <2> QED
    BY <2>1, <2>2, <2>3, <2>4, <2>5, <2>6
<1> QED
  BY <1>1, <1>2

\* While a probe is under way the run waits for it.
LEMMA UnderWay ==
    ASSUME SearchInv, at # "idle"
    PROVE  est = "search" /\ pc = "return" /\ ~unrestored /\ probes > 0
  BY DEF SearchInv

\* The cells that depart are the probe's, or were missing before.
LEMMA NextDepartInv ==
    EstBase /\ OrigInv /\ DepartInv /\ [EstNext]_allVars => DepartInv'
<1> SUFFICES ASSUME EstBase, OrigInv, DepartInv, [EstNext]_allVars,
                    pc' = "return", est' # "off", ~unrestored',
                    NEW c \in Slot, view'[c] # before'[c]
             PROVE  Missing(c)' \/ (at' \in Overwritten /\ ProbeAt(c)')
  BY DEF DepartInv
<1>0. TypeOK /\ EstTypeOK /\ SearchInv /\ drive \in Drive
  BY RunTypes DEF EstBase
<1>1. CASE ~SearchStep
  <2>1. /\ UNCHANGED vars /\ UNCHANGED <<est, at, lo, hi, unrestored>>
    BY <1>1, OtherSteps
  <2>2. UNCHANGED <<pc, view, drive, before, written, restoreErrors>>
    BY <2>1 DEF vars, rigid, media, memory, undoing
  <2>3. Missing(c) \/ (at \in Overwritten /\ ProbeAt(c))
    BY <2>1, <2>2 DEF DepartInv
  <2> QED
    BY <2>1, <2>2, <2>3 DEF Missing, ProbeAt, Here, Mid, Stores, CellOf
<1>2. SearchStep => /\ UNCHANGED <<pc, before>> /\ (Missing(c) => Missing(c)')
                    /\ UNCHANGED <<lo, hi>> => Here' = Here /\ (ProbeAt(c)' <=> ProbeAt(c))
  BY SearchFrame, SearchPlaces
<1>3. CASE AllHeld \/ TakeFold \/ GiveUpInterleaved \/ GiveUpReused \/ StartSearch
  <2>1. SearchStep /\ Deciding
    BY <1>3, ProbePath DEF SearchStep
  <2>2. UNCHANGED view
    BY <1>3 DEF AllHeld, TakeFold, GiveUpInterleaved, GiveUpReused, StartSearch, Conclude, media
  <2> QED
    BY <1>2, <2>1, <2>2, CleanStart
<1>4. CASE \/ StartProbe \/ ProbeRead \/ ProbeReadFails \/ ProbeRecord \/ ProbeRecordFails
           \/ ProbeFlush \/ EndSearch
  <2>1. /\ SearchStep /\ at \notin Overwritten /\ UNCHANGED unrestored
        /\ at # "idle" \/ est = "search"
    BY <1>4, ProbePath DEF SearchStep, Overwritten
  <2>2. UNCHANGED view
    BY <1>4 DEF StartProbe, ProbeRead, ProbeReadFails, ProbeRecord, ProbeRecordFails,
                ProbeFlush, EndSearch, media
  <2>3. est = "search" /\ pc = "return"
    BY <1>0, <2>1, UnderWay DEF SearchInv
  <2> QED
    BY <1>2, <2>1, <2>2, <2>3 DEF DepartInv
<1>5. CASE ProbeReopen \/ ProbeReadBack
  <2>1. /\ SearchStep /\ at' \in Overwritten /\ UNCHANGED <<lo, hi, unrestored>> /\ at # "idle"
    BY <1>5, ProbePath DEF SearchStep, Overwritten
  <2>2. UNCHANGED view
    BY <1>5 DEF ProbeReopen, ProbeReadBack, media
  <2> QED
    BY <1>0, <1>2, <2>1, <2>2, UnderWay DEF DepartInv
<1>6. ~(ProbeReopenFails \/ ProbeRestoreFails \/ ProbeFlushFails)
  BY ProbePath
<1>7. CASE ProbeWrite
  <2>1. /\ SearchStep /\ at = "write" /\ at' = "reopen" /\ UNCHANGED <<lo, hi, unrestored>>
    BY <1>7, ProbePath DEF SearchStep
  <2>2. view'[c] # view[c] => ProbeAt(c)
    BY <1>0, <1>7, ProbeWrites, WriteFrame DEF ProbeAt
  <2>3. view[c] # before[c] => Missing(c)
    BY <1>0, <2>1, UnderWay DEF DepartInv, Overwritten
  <2> QED
    BY <1>2, <2>1, <2>2, <2>3 DEF Overwritten
<1>8. CASE ProbeRestore
  <2>1. /\ SearchStep /\ at = "restore" /\ UNCHANGED <<lo, hi, unrestored>>
    BY <1>8, ProbePath DEF SearchStep
  <2>2. view'[c] # view[c] => ProbeAt(c)
    BY <1>0, <1>8, ProbeWrites, WriteFrame DEF ProbeAt
  <2>3. ProbeAt(c) => view'[c] = orig
    <3>1. WriteSlot(Here, orig) /\ Here \in Slot /\ orig \in Content
      BY <1>0, <1>8, ProbeWrites DEF ProbeRestore
    <3> QED
      BY <1>0, <3>1, WriteFrame DEF ProbeAt
  <2>4. view[c] # before[c] => Missing(c) \/ ProbeAt(c)
    BY <1>0, <2>1, UnderWay DEF DepartInv
  <2>5. ProbeAt(c) /\ orig # before[c] => Missing(c)
    BY <2>1 DEF OrigInv, Holding
  <2> QED
    BY <1>2, <2>1, <2>2, <2>3, <2>4, <2>5
<1> QED
  BY <1>1, <1>3, <1>4, <1>5, <1>6, <1>7, <1>8 DEF SearchStep

\* What a probe has read is the original, or the cell's was missing before.
LEMMA NextOrigInv ==
    EstBase /\ OrigInv /\ DepartInv /\ [EstNext]_allVars => OrigInv'
<1> SUFFICES ASSUME EstBase, OrigInv, DepartInv, [EstNext]_allVars, at' \in Holding,
                    NEW c \in Slot, ProbeAt(c)', orig' # before'[c]
             PROVE  Missing(c)'
  BY DEF OrigInv
<1>0. TypeOK /\ EstTypeOK /\ SearchInv
  BY DEF EstBase
<1>1. CASE ~SearchStep
  <2>1. UNCHANGED vars /\ UNCHANGED <<at, lo, hi, orig>>
    BY <1>1, OtherSteps DEF Holding
  <2>2. UNCHANGED <<drive, before, written, restoreErrors>>
    BY <2>1 DEF vars, rigid, memory, undoing
  <2>3. ProbeAt(c)' => ProbeAt(c)
    BY <2>1, <2>2 DEF ProbeAt, Here, Mid
  <2>4. Missing(c)
    BY <2>1, <2>2, <2>3 DEF OrigInv
  <2> QED
    BY <2>2, <2>4 DEF Missing, Stores, CellOf
<1>2. SearchStep => /\ UNCHANGED before /\ (Missing(c) => Missing(c)')
                    /\ UNCHANGED <<lo, hi>> => Here' = Here /\ (ProbeAt(c)' <=> ProbeAt(c))
  BY SearchFrame, SearchPlaces
<1>3. CASE ProbeRead
  <2>1. /\ SearchStep /\ at = "read" /\ orig' = Read(Here) /\ UNCHANGED <<lo, hi>>
    BY <1>3, ProbePath DEF SearchStep
  <2>2. ProbeAt(c)
    BY <1>2, <2>1
  <2>3. view[c] # before[c]
    BY <1>2, <2>1, <2>2 DEF ProbeAt, Read, Load
  <2> QED
    BY <1>0, <1>2, <2>1, <2>3, UnderWay DEF DepartInv, Overwritten
<1>4. CASE ProbeRecord \/ ProbeWrite \/ ProbeReopen \/ ProbeReadBack \/ ProbeRestore
  <2>1. /\ SearchStep /\ at \in Holding /\ UNCHANGED <<lo, hi, orig>>
    BY <1>4, ProbePath DEF SearchStep, Holding
  <2> QED
    BY <1>2, <2>1 DEF OrigInv
<1>5. ~(\/ ProbeReadFails \/ ProbeRecordFails \/ ProbeReopenFails \/ ProbeRestoreFails
        \/ ProbeFlush \/ ProbeFlushFails)
  BY ProbePath DEF Holding, Bound
<1>6. ~(\/ AllHeld \/ TakeFold \/ GiveUpInterleaved \/ GiveUpReused \/ StartSearch
        \/ StartProbe \/ EndSearch)
  BY <1>0, ProbePath DEF Holding, SearchInv
<1> QED
  BY <1>1, <1>3, <1>4, <1>5, <1>6 DEF SearchStep

\* A cell that is not at risk holds its original, and a flush leaves it so.
LEMMA SafeCell ==
    ASSUME ViewInv, NEW c \in Slot, c \notin Dirty
    PROVE  /\ maybe[c] = {before[c]} /\ view[c] = before[c]
           /\ \A m \in {maybe, Flush(drive, maybe, view)} : m[c] = {before[c]}
<1>1. maybe[c] = {before[c]}
  BY DEF Dirty
<1>2. view[c] = before[c]
  BY <1>1 DEF ViewInv
<1> QED
  BY <1>1, <1>2 DEF Flush

\* A step of the search puts only the cell of its probe at risk.
LEMMA NewRisk ==
    ASSUME EstBase, SearchStep, NEW c \in Slot, c \notin Dirty, maybe'[c] # {before[c]}
    PROVE  /\ ProbeWrite \/ ProbeRestore \/ ProbeRestoreFails
           /\ at \in {"write", "restore"} /\ ProbeAt(c)
<1>0. TypeOK /\ EstTypeOK /\ SearchInv /\ ViewInv
  BY DEF EstBase
<1>1. maybe[c] = {before[c]} /\ \A m \in {maybe, Flush(drive, maybe, view)} : m[c] = {before[c]}
  BY <1>0, SafeCell
<1>2. ~(ProbeReopen \/ ProbeFlush)
  BY <1>1 DEF ProbeReopen, ProbeFlush
<1>3. ProbeWrite \/ ProbeRestore \/ ProbeRestoreFails
  BY <1>1, <1>2, SearchFrame
<1>4. ProbeAt(c)
  BY <1>0, <1>1, <1>3, ProbeWrites, WriteFrame DEF ProbeAt
<1> QED
  BY <1>3, <1>4, ProbePath

\* After full flushes only the cell of the probe is at risk.
LEMMA NextDurableInv ==
    EstBase /\ DepartInv /\ DurableInv /\ [EstNext]_allVars => DurableInv'
<1> SUFFICES ASSUME EstBase, DepartInv, DurableInv, [EstNext]_allVars,
                    pc' = "return", est' # "off", restoreErrors' = {}, drive'.fullSync,
                    NEW c \in Dirty'
             PROVE  at' \in Overwritten \cup {"flush"} /\ ProbeAt(c)'
  BY DEF DurableInv
<1>0. TypeOK /\ EstTypeOK /\ SearchInv /\ ViewInv /\ c \in Slot /\ maybe'[c] # {before'[c]}
  BY DEF EstBase, Dirty
<1>1. CASE ~SearchStep
  <2>1. UNCHANGED vars /\ UNCHANGED <<est, at, lo, hi>>
    BY <1>1, OtherSteps
  <2>2. UNCHANGED <<pc, maybe, drive, before, restoreErrors>>
    BY <2>1 DEF vars, rigid, media, undoing
  <2>3. at \in Overwritten \cup {"flush"} /\ ProbeAt(c)
    BY <1>0, <2>1, <2>2 DEF DurableInv, Dirty
  <2> QED
    BY <2>1, <2>2, <2>3 DEF ProbeAt, Here, Mid
<1>2. SearchStep => /\ UNCHANGED <<pc, before, drive>> /\ restoreErrors = {}
                    /\ UNCHANGED <<lo, hi>> => Here' = Here /\ (ProbeAt(c)' <=> ProbeAt(c))
  BY <1>0, SearchFrame, SearchPlaces
<1>3. CASE AllHeld \/ TakeFold \/ GiveUpInterleaved \/ GiveUpReused \/ StartSearch
  <2>1. SearchStep /\ Deciding
    BY <1>3, ProbePath DEF SearchStep
  <2>2. Dirty = {}
    BY <1>2, <2>1, CleanStart DEF AllBack
  <2>3. at \in {"write", "restore"}
    BY <1>0, <1>2, <2>1, <2>2, NewRisk
  <2>4. est = "off"
    BY <1>3, ProbePath
  <2> QED
    BY <1>0, <2>3, <2>4 DEF SearchInv
<1>4. CASE StartProbe \/ ProbeRead \/ ProbeReadFails \/ ProbeRecord \/ ProbeRecordFails \/ EndSearch
  <2>1. SearchStep /\ at \in {"idle", "read", "record"} /\ (at # "idle" \/ est = "search")
    BY <1>4, ProbePath DEF SearchStep
  <2>2. c \notin Dirty
    BY <1>0, <1>2, <2>1, UnderWay DEF DurableInv, SearchInv, Overwritten
  <2> QED
    BY <1>0, <1>2, <2>1, <2>2, NewRisk
<1>5. CASE ProbeWrite \/ ProbeReopen \/ ProbeReadBack \/ ProbeRestore
  <2>1. /\ SearchStep /\ UNCHANGED <<lo, hi>> /\ at # "idle"
        /\ at' \in Overwritten \cup {"flush"}
    BY <1>5, ProbePath DEF SearchStep, Overwritten
  <2>2. CASE c \in Dirty
    BY <1>0, <1>2, <2>1, <2>2, UnderWay DEF DurableInv
  <2>3. CASE c \notin Dirty
    BY <1>0, <1>2, <2>1, <2>3, NewRisk
  <2> QED
    BY <2>2, <2>3
<1>6. ~(ProbeReopenFails \/ ProbeRestoreFails \/ ProbeFlushFails)
  BY DEF ProbeReopenFails, ProbeRestoreFails, ProbeFlushFails, ProbeErrorReported
<1>7. ~ProbeFlush
  <2> SUFFICES ASSUME ProbeFlush PROVE FALSE
    OBVIOUS
  <2>1. SearchStep /\ at = "flush"
    BY ProbePath DEF SearchStep
  <2>2. maybe'[c] = {view[c]}
    BY <1>0, <1>2, <2>1 DEF ProbeFlush, Flush
  <2>3. view[c] = before[c]
    BY <1>0, <1>2, <2>1, UnderWay DEF DepartInv, Overwritten, Missing
  <2> QED
    BY <1>0, <1>2, <2>1, <2>2, <2>3
<1> QED
  BY <1>1, <1>3, <1>4, <1>5, <1>6, <1>7 DEF SearchStep

\* How the records change: at most one is added, and none of a step that is
\* not one of the search once that has begun.
LEMMA RecordsGrow ==
    ASSUME TypeOK, EstTypeOK, SearchInv, SearchStep \/ CutShort
    PROVE  /\ log \in Seq(Entries)
           /\ \/ UNCHANGED log
              \/ /\ at = "record" /\ Here \in Slot
                 /\ \E part \in {"whole", "torn"} :
                       log' = Append(log, Entry(Here, Read(Here), part))
<1>1. CASE ProbeRecord \/ ProbeRecordFails \/ CutShort
  BY <1>1, HereFacts DEF ProbeRecord, ProbeRecordFails, CutShort, ProbeRecorded, ProbeLeftover, TypeOK
<1>2. CASE UNCHANGED log
  BY <1>2 DEF TypeOK
<1> QED
  BY <1>1, <1>2, SearchFrame

\* A record that puts back a cell goes on doing so.
LEMMA RecordStays ==
    ASSUME log \in Seq(Entries), UNCHANGED <<drive, before>>,
           UNCHANGED log \/ \E e : log' = Append(log, e),
           NEW c, NEW k \in DOMAIN log, PutsBack(k, c)
    PROVE  k \in DOMAIN log' /\ PutsBack(k, c)'
<1>1. k \in DOMAIN log' /\ log'[k] = log[k]
  OBVIOUS
<1> QED
  BY <1>1 DEF PutsBack, Replayable

\* Before a probe writes, its cell has a record.
LEMMA NextRecordedInv ==
    EstBase /\ RecordedInv /\ ProbesAreRecorded /\ [EstNext]_allVars => RecordedInv'
<1> SUFFICES ASSUME EstBase, RecordedInv, ProbesAreRecorded, [EstNext]_allVars,
                    mode' = "check", at' \in Holding \ {"record"},
                    NEW c \in Slot, ProbeAt(c)'
             PROVE  \E k \in DOMAIN log' : PutsBack(k, c)'
  BY DEF RecordedInv
<1>0. TypeOK /\ EstTypeOK /\ SearchInv /\ ViewInv /\ PhaseInv
  BY DEF EstBase
<1>1. CASE ~SearchStep
  <2>1. UNCHANGED vars /\ UNCHANGED <<at, lo, hi>>
    BY <1>1, OtherSteps DEF Holding
  <2>2. UNCHANGED <<drive, before, mode, log>>
    BY <2>1 DEF vars, rigid, file
  <2>3. ProbeAt(c)
    BY <2>1, <2>2 DEF ProbeAt, Here, Mid
  <2>4. PICK k \in DOMAIN log : PutsBack(k, c)
    BY <2>1, <2>2, <2>3 DEF RecordedInv
  <2> QED
    BY <2>2, <2>4 DEF PutsBack, Replayable
<1>2. SearchStep => /\ UNCHANGED <<before, drive, mode, journal>>
                    /\ UNCHANGED <<lo, hi>> => Here' = Here /\ (ProbeAt(c)' <=> ProbeAt(c))
  BY SearchFrame, SearchPlaces
<1>3. ASSUME SearchStep, \E k \in DOMAIN log : PutsBack(k, c)
      PROVE  \E k \in DOMAIN log' : PutsBack(k, c)'
  <2>1. PICK k \in DOMAIN log : PutsBack(k, c)
    BY <1>3
  <2> QED
    BY <1>0, <1>2, <1>3, <2>1, RecordsGrow, RecordStays
<1>4. CASE ProbeRecord
  <2>1. SearchStep /\ at = "record" /\ UNCHANGED <<lo, hi>>
    BY <1>4, ProbePath DEF SearchStep
  <2>2. mode = "check" /\ journal = "open" /\ ProbeAt(c)
    BY <1>0, <1>2, <2>1, UnderWay DEF PhaseInv
  <2>3. CASE c \in Dirty
    <3>1. \E k \in DOMAIN log : PutsBack(k, c)
      BY <2>2, <2>3 DEF ProbesAreRecorded
    <3> QED
      BY <1>3, <2>1, <3>1
  <2>4. CASE c \notin Dirty
    <3>1. log' = Append(log, Entry(Here, Read(Here), "whole")) /\ log \in Seq(Entries)
      BY <1>0, <1>4, <2>2 DEF ProbeRecord, ProbeRecorded, TypeOK
    <3>2. Read(Here) = before[c]
      BY <1>0, <2>2, <2>4, SafeCell DEF ProbeAt, Read, Load
    <3>3. PICK k \in DOMAIN log' : log'[k] = Entry(Here, before[c], "whole")
      BY <3>1, <3>2
    <3>4. PutsBack(k, c)'
      BY <1>2, <2>1, <2>2, <3>3 DEF PutsBack, Replayable, Entry, ProbeAt
    <3> QED
      BY <3>4
  <2> QED
    BY <2>3, <2>4
<1>5. CASE ProbeWrite \/ ProbeReopen \/ ProbeReadBack \/ ProbeRestore
  <2>1. SearchStep /\ at \in Holding \ {"record"} /\ UNCHANGED <<lo, hi>>
    BY <1>5, ProbePath DEF SearchStep, Holding
  <2> QED
    BY <1>2, <1>3, <2>1 DEF RecordedInv
<1>6. ~(\/ ProbeReadFails \/ ProbeRecordFails \/ ProbeReopenFails \/ ProbeRestoreFails
        \/ ProbeFlush \/ ProbeFlushFails \/ ProbeRead)
  BY ProbePath DEF Holding, Bound
<1>7. ~(\/ AllHeld \/ TakeFold \/ GiveUpInterleaved \/ GiveUpReused \/ StartSearch
        \/ StartProbe \/ EndSearch)
  BY <1>0, ProbePath DEF Holding, SearchInv
<1> QED
  BY <1>1, <1>4, <1>5, <1>6, <1>7 DEF SearchStep

\* While the search is under way, the run's own journal is the file.
LEMMA NextProbesAreRecorded ==
    EstBase /\ RecordedInv /\ ProbesAreRecorded /\ [EstNext]_allVars => ProbesAreRecorded'
<1> SUFFICES ASSUME EstBase, RecordedInv, ProbesAreRecorded, [EstNext]_allVars,
                    mode' = "check", journal' # "removed", NEW c \in Dirty'
             PROVE  \E k \in DOMAIN log' : PutsBack(k, c)'
  BY DEF ProbesAreRecorded
<1>0. /\ TypeOK /\ EstTypeOK /\ SearchInv /\ ViewInv /\ PhaseInv
      /\ c \in Slot /\ maybe'[c] # {before'[c]}
  BY DEF EstBase, Dirty
<1>1. ASSUME \E k \in DOMAIN log : PutsBack(k, c), UNCHANGED <<drive, before>>,
             UNCHANGED log \/ SearchStep \/ CutShort
      PROVE  \E k \in DOMAIN log' : PutsBack(k, c)'
  <2>1. PICK k \in DOMAIN log : PutsBack(k, c)
    BY <1>1
  <2>2. log \in Seq(Entries) /\ (UNCHANGED log \/ \E e : log' = Append(log, e))
    BY <1>0, <1>1, RecordsGrow DEF TypeOK
  <2> QED
    BY <1>1, <2>1, <2>2, RecordStays
<1>2. CASE SearchStep
  <2>1. UNCHANGED <<drive, before, mode, journal>>
    BY <1>2, SearchFrame
  <2>2. CASE c \in Dirty
    BY <1>1, <1>2, <2>1, <2>2 DEF ProbesAreRecorded
  <2>3. CASE c \notin Dirty
    <3>1. at \in {"write", "restore"} /\ ProbeAt(c)
      BY <1>0, <1>2, <2>1, <2>3, NewRisk
    <3> QED
      BY <1>0, <1>1, <1>2, <2>1, <3>1 DEF RecordedInv, Holding
  <2> QED
    BY <2>2, <2>3
<1>3. CASE ~SearchStep /\ est = "off"
  <2>1. ~CutShort
    BY <1>0, <1>3 DEF CutShort, SearchInv
  <2>2. IInv'
    BY <1>3, <2>1, OtherSteps DEF ScanInv
  <2>3. Recoverable'
    BY <2>2, RecoverableFromIInv, PTL
  <2> QED
    BY <2>3 DEF Recoverable
<1>4. CASE ~SearchStep /\ est # "off"
  <2>1. UNCHANGED <<drive, before, mode, maybe>> /\ (UNCHANGED log \/ CutShort)
    BY <1>4, OtherSteps
  <2>2. journal # "removed"
    <3> SUFFICES ASSUME journal = "removed" PROVE FALSE
      OBVIOUS
    <3>1. pc = "done"
      BY <1>0 DEF PhaseInv
    <3>2. est = "done" /\ at = "idle"
      BY <1>0, <1>4, <3>1 DEF SearchInv, EstTypeOK
    <3>3. ~CutShort
      BY <3>2 DEF CutShort
    <3>4. [Next]_vars
      BY <1>4, <3>3, ScanSteps
    <3>5. UNCHANGED journal
      BY <1>0, <3>1, <3>4, JournalFrame
    <3> QED
      BY <3>5
  <2>3. c \in Dirty
    BY <1>0, <2>1 DEF Dirty
  <2> QED
    BY <1>1, <2>1, <2>2, <2>3 DEF ProbesAreRecorded
<1> QED
  BY <1>2, <1>3, <1>4

\* A record says of its slot what was there before the run, unless the search
\* costs the cell.
IsOriginal(r) ==
    (drive.kind[r.slot] = "store" /\ Genuine(drive.phys[r.slot])) =>
        r.data = before[drive.phys[r.slot]]

\* What a probe reads is the original, but where a sample is missing and two
\* addresses share a cell.
LEMMA ReadsOriginal ==
    ASSUME EstBase, SampledInv, DepartInv, at = "record",
           NEW part \in {"whole", "torn"}
    PROVE  IsOriginal(Entry(Here, Read(Here), part))
<1>0. TypeOK /\ EstTypeOK /\ SearchInv /\ Here \in Slot /\ drive \in Drive
  BY HereFacts, RunTypes DEF EstBase
<1> SUFFICES ASSUME drive.kind[Here] = "store", Genuine(drive.phys[Here])
             PROVE  Read(Here) = before[drive.phys[Here]]
  BY DEF IsOriginal, Entry
<1> DEFINE c == drive.phys[Here]
<1>1. c \in Slot /\ Read(Here) = view[c]
  BY <1>0 DEF Drive, Read, Load
<1>2. ~Missing(c)
  <2> SUFFICES ASSUME Missing(c) PROVE FALSE
    OBVIOUS
  <2>1. Straight
    BY <1>0, UnderWay DEF Genuine
  <2>2. PICK i \in restoreErrors \cap Sample : Stores(i) /\ CellOf(i) = c
    BY DEF Missing
  <2>3. i \in Sample /\ Offset[i] \in Slot
    BY <1>0, RunTypes
  <2>4. Offset[i] = Here
    BY <1>0, <2>1, <2>2, <2>3 DEF Straight, CellOf
  <2>5. Offset[i] <= First + lo \/ First + hi <= Offset[i]
    BY <1>0, <2>3, UnderWay DEF SampledInv
  <2>6. /\ First + lo < Here /\ Here < First + hi
        /\ First + lo \in Int /\ First + hi \in Int /\ Here \in Int
    <3>1. First \in Int /\ Here \in Int
      BY <1>0, SearchAssumption, SlotsAssumption DEF Slot
    <3> QED
      BY <1>0, <3>1, HereFacts
  <2>7. Here <= First + lo \/ First + hi <= Here
    BY <2>4, <2>5
  <2> HIDE DEF c
  <2> QED
    BY <2>6, <2>7
<1> QED
  BY <1>0, <1>1, <1>2, UnderWay DEF DepartInv, Overwritten

\* All records that are added are of originals.
LEMMA NextGenuineInv ==
    EstBase /\ SampledInv /\ DepartInv /\ GenuineInv /\ [EstNext]_allVars => GenuineInv'
<1> SUFFICES ASSUME EstBase, SampledInv, DepartInv, GenuineInv, [EstNext]_allVars,
                    NEW k \in DOMAIN log', NEW r, r = log'[k]
             PROVE  IsOriginal(r)'
  <2>1. (\A k \in DOMAIN log' : \A r : r = log'[k] => IsOriginal(r)') => GenuineInv'
    BY DEF GenuineInv, IsOriginal
  <2> QED
    BY <2>1 DEF GenuineInv
<1>0. TypeOK /\ EstTypeOK /\ SearchInv
  BY DEF EstBase
<1>1. CASE SearchStep \/ CutShort
  <2>1. /\ UNCHANGED <<drive, before>> /\ restoreErrors \subseteq restoreErrors'
    BY <1>1, <1>0, SearchFrame, CutShortTypes
  <2>2. probes \in Nat /\ probes' \in {probes, probes + 1}
    <3>1. UNCHANGED probes \/ StartProbe
      BY <1>1, ProbePath DEF SearchStep, CutShort, Bound
    <3>2. StartProbe => probes' = probes + 1
      BY DEF StartProbe
    <3>3. probes \in 0 .. MaxProbes
      BY <1>0 DEF EstTypeOK
    <3> QED
      BY <3>1, <3>2, <3>3
  <2>3. \A c : Genuine(c)' => Genuine(c)
    <3>1. probes' = 0 => probes = 0
      <4>1. probes \in Nat /\ probes' \in {probes, probes + 1}
        BY <2>2
      <4> QED
        BY <4>1
    <3> QED
      BY <2>1, <3>1 DEF Genuine, Straight, Missing, Stores, CellOf
  <2>4. \A j \in DOMAIN log : IsOriginal(log[j])
    BY DEF GenuineInv, IsOriginal
  <2>5. \/ k \in DOMAIN log /\ log'[k] = log[k]
        \/ /\ at = "record"
           /\ \E part \in {"whole", "torn"} : log'[k] = Entry(Here, Read(Here), part)
    BY <1>0, <1>1, RecordsGrow
  <2>6. IsOriginal(r)
    BY <2>4, <2>5, ReadsOriginal
  <2> QED
    BY <2>1, <2>3, <2>6 DEF IsOriginal
<1>2. CASE ~SearchStep /\ ~CutShort /\ est = "off"
  <2>1. LogInv'
    BY <1>2, OtherSteps DEF ScanInv, IInv
  <2> QED
    BY <2>1 DEF LogInv, IsOriginal, Load
<1>3. CASE ~SearchStep /\ ~CutShort /\ est # "off"
  <2>1. UNCHANGED <<drive, before, log, probes>> /\ restoreErrors' = restoreErrors
    BY <1>3, OtherSteps
  <2>2. \A c : Genuine(c)' <=> Genuine(c)
    BY <2>1 DEF Genuine, Straight, Missing, Stores, CellOf
  <2> QED
    BY <2>1, <2>2 DEF GenuineInv, IsOriginal
<1> QED
  BY <1>1, <1>2, <1>3

\* A run that ends without a restore error has left no trace of its probes.
LEMMA NextLeaveNoTrace ==
    EstBase /\ DepartInv /\ DurableInv /\ ProbesLeaveNoTrace /\ [EstNext]_allVars
      => ProbesLeaveNoTrace'
<1> SUFFICES ASSUME EstBase, DepartInv, DurableInv, ProbesLeaveNoTrace, [EstNext]_allVars,
                    journal' = "removed"
             PROVE  AllBack'
  BY DEF ProbesLeaveNoTrace, AllBack
<1>0. TypeOK /\ EstTypeOK /\ SearchInv /\ PhaseInv /\ TypeOK'
  BY NextEstBase DEF EstBase
<1>1. ~SearchStep
  <2> SUFFICES ASSUME SearchStep PROVE FALSE
    OBVIOUS
  <2>1. journal = "removed"
    BY SearchFrame
  <2>2. pc = "return"
    BY <1>0, ProbePath DEF SearchStep, SearchInv
  <2> QED
    BY <2>1, <2>2 DEF EstBase, PhaseInv
<1>2. CASE est = "off"
  <2>1. ~CutShort
    BY <1>0, <1>2 DEF CutShort, SearchInv
  <2>2. PhaseInv' /\ RestoredInv'
    BY <1>1, <1>2, <2>1, OtherSteps DEF ScanInv, IInv
  <2> QED
    BY <2>2 DEF PhaseInv, RestoredInv
<1>3. CASE est # "off"
  <2>1. /\ UNCHANGED <<view, maybe, drive, before>>
        /\ \/ journal = "removed"
           \/ est = "done" /\ pc = "return" /\ restoreErrors = {}
    BY <1>1, <1>3, OtherSteps
  <2>2. CASE journal = "removed"
    BY <2>1, <2>2 DEF ProbesLeaveNoTrace, AllBack, Dirty
  <2>3. CASE est = "done" /\ pc = "return" /\ restoreErrors = {}
    <3>1. at = "idle" /\ ~unrestored
      BY <1>0, <2>3 DEF SearchInv
    <3>2. \A c \in Slot : view[c] = before[c]
      BY <1>3, <2>3, <3>1 DEF DepartInv, Missing, Overwritten
    <3>3. drive.fullSync => Dirty = {}
      BY <1>3, <2>3, <3>1 DEF DurableInv, Overwritten
    <3>4. view = before
      BY <1>0, <3>2, RunTypes DEF TypeOK
    <3> QED
      BY <2>1, <3>3, <3>4 DEF AllBack, Dirty
  <2> QED
    BY <2>1, <2>2, <2>3
<1> QED
  BY <1>2, <1>3

\* All of this together.
LEMMA NextTraceInv == EstBase /\ TraceInv /\ [EstNext]_allVars => TraceInv'
  BY NextSampledInv, NextDepartInv, NextOrigInv, NextDurableInv, NextRecordedInv,
     NextGenuineInv, NextProbesAreRecorded, NextLeaveNoTrace DEF TraceInv

LEMMA InitTraceInv == EstInit => TraceInv
<1> SUFFICES ASSUME EstInit PROVE TraceInv
  OBVIOUS
<1>1. Init /\ est = "off" /\ at = "idle" /\ pc = "create"
  BY Zenon DEF EstInit, Init
<1>2. log = <<>> /\ journal = "none" /\ view = before /\ maybe = [c \in Slot |-> {before[c]}]
  BY <1>1, Zenon DEF Init
<1>3. SampledInv /\ DepartInv /\ DurableInv
  BY <1>1 DEF SampledInv, DepartInv, DurableInv
<1>4. OrigInv /\ RecordedInv
  BY <1>1 DEF OrigInv, RecordedInv, Holding
<1>5. GenuineInv
  BY <1>2 DEF GenuineInv
<1>6. ProbesAreRecorded /\ ProbesLeaveNoTrace
  BY <1>2 DEF ProbesAreRecorded, ProbesLeaveNoTrace, Dirty
<1> QED
  BY <1>3, <1>4, <1>5, <1>6 DEF TraceInv

LEMMA TraceHolds == EstSpec => [](EstBase /\ TraceInv)
<1>1. EstInit => EstBase /\ TraceInv
  BY InitEstBase, InitTraceInv
<1>2. EstBase /\ TraceInv /\ [EstNext]_allVars => (EstBase /\ TraceInv)'
  BY NextEstBase, NextTraceInv
<1> QED
  BY <1>1, <1>2, PTL DEF EstSpec

(***************************************************************************)
(* Write-ahead, for the probes of the search as for the samples: at every  *)
(* moment of a journaled run every cell that may not hold its original     *)
(* has it in a whole record of the file.                                   *)
(***************************************************************************)
THEOREM ProbesWriteAhead == EstSpec => []ProbesAreRecorded
<1>1. TraceInv => ProbesAreRecorded
  BY DEF TraceInv
<1> QED
  BY <1>1, TraceHolds, PTL

(***************************************************************************)
(* A run that has searched for the capacity removes its journal only when  *)
(* no cell, of a sample or of a probe, can be anything but its original.   *)
(***************************************************************************)
THEOREM SafeDiscardAfterSearch == EstSpec => []ProbesLeaveNoTrace
<1>1. TraceInv => ProbesLeaveNoTrace
  BY DEF TraceInv
<1> QED
  BY <1>1, TraceHolds, PTL

-----------------------------------------------------------------------------
(***************************************************************************)
(* What the search finds.                                                  *)
(***************************************************************************)

\* The most slots there can be between the bounds with k probes to go.
Reach == CHOOSE range \in [0 .. MaxProbes -> 1 .. Slots] :
            /\ range[0] = 1 /\ range[MaxProbes] = Slots
            /\ \A k \in 0 .. MaxProbes - 1 : range[k + 1] <= 2 * range[k]

\* The probes to go, the one under way included.
ToGo == IF at = "idle" THEN MaxProbes - probes ELSE MaxProbes - probes + 1

WidthInv == est = "search" => ToGo \in 0 .. MaxProbes /\ hi - lo <= Reach[ToGo]

\* On a drive that holds the slots below b: the boundary is between the bounds,
\* and a probe holds what it should.
Bracketed(b) ==
    /\ First + lo < b /\ b <= First + hi
    /\ unrestored => Rejects
    /\ at \in {"reopen", "readback"} =>
          /\ took <=> drive.kind[Here] # "reject"
          /\ drive.kind[Here] = "store" => view[drive.phys[Here]] = Pattern(Here)
    /\ at \in {"restore", "flush"} => (held <=> Here < b)

BracketInv ==
    (faults = 0 /\ est = "search") =>
        \A b \in First .. Slots : HoldsBelow(b) => Bracketed(b)

LEMMA ReachFacts ==
    /\ Reach \in [0 .. MaxProbes -> 1 .. Slots]
    /\ Reach[0] = 1 /\ Reach[MaxProbes] = Slots
    /\ \A k \in 0 .. MaxProbes - 1 : Reach[k + 1] <= 2 * Reach[k]
<1> DEFINE P(range) == /\ range[0] = 1 /\ range[MaxProbes] = Slots
                       /\ \A k \in 0 .. MaxProbes - 1 : range[k + 1] <= 2 * range[k]
<1>1. \E range \in [0 .. MaxProbes -> 1 .. Slots] : P(range)
  BY ProbesAssumption
<1>2. Reach = CHOOSE range \in [0 .. MaxProbes -> 1 .. Slots] : P(range)
  BY DEF Reach
<1> HIDE DEF P
<1>3. Reach \in [0 .. MaxProbes -> 1 .. Slots] /\ P(Reach)
  BY <1>1, <1>2
<1> QED
  BY <1>3 DEF P

\* Every probe that returns has halved what is between the bounds.
LEMMA NextWidthInv == EstBase /\ WidthInv /\ [EstNext]_allVars => WidthInv'
<1> SUFFICES ASSUME EstBase, WidthInv, [EstNext]_allVars, est' = "search"
             PROVE  ToGo' \in 0 .. MaxProbes /\ hi' - lo' <= Reach[ToGo']
  BY DEF WidthInv
<1>0. TypeOK /\ EstTypeOK /\ SearchInv
  BY DEF EstBase
<1>1. probes \in 0 .. MaxProbes /\ MaxProbes \in Nat
  BY <1>0, SearchAssumption DEF EstTypeOK
<1>2. CASE ~SearchStep
  <2>1. pc' = "return"
    <3>1. SearchInv'
      BY NextEstBase DEF EstBase
    <3> QED
      BY <3>1 DEF SearchInv
  <2>2. UNCHANGED <<est, at, lo, hi, probes>>
    BY <1>2, <2>1, OtherSteps
  <2> QED
    BY <2>2 DEF WidthInv, ToGo
<1>3. CASE StartSearch
  <2>1. probes = 0 /\ at = "idle" /\ UNCHANGED <<at, probes>>
    BY <1>0, <1>3, ProbePath DEF SearchInv
  <2>2. ToGo' = MaxProbes
    BY <1>1, <2>1 DEF ToGo
  <2>3. hi' - lo' <= Slots
    <3>1. lo' \in -1 .. Slots - 1 /\ hi' \in 0 .. Slots - 1 /\ Slots \in Nat
      BY <1>0, <1>3, FirstBounds, SlotsAssumption
    <3>2. \A a \in -1 .. Slots - 1 : \A b \in 0 .. Slots - 1 : b - a <= Slots
      BY <3>1
    <3> QED
      BY <3>1, <3>2
  <2> QED
    BY <1>1, <2>2, <2>3, ReachFacts
<1>4. CASE StartProbe
  <2>1. /\ est = "search" /\ at = "idle" /\ at' = "read" /\ probes' = probes + 1
        /\ UNCHANGED <<lo, hi>>
    BY <1>4, ProbePath DEF StartProbe
  <2>2. ToGo' = ToGo
    BY <1>1, <2>1 DEF ToGo
  <2> QED
    BY <2>1, <2>2 DEF WidthInv
<1>5. CASE \/ ProbeRead \/ ProbeRecord \/ ProbeWrite \/ ProbeReopen \/ ProbeReadBack
           \/ ProbeRestore
  <2>1. est = "search" /\ at # "idle" /\ at' # "idle" /\ UNCHANGED <<lo, hi, probes>>
    BY <1>5, ProbePath
  <2> QED
    BY <2>1 DEF WidthInv, ToGo
<1>6. CASE \/ ProbeReadFails \/ ProbeRecordFails \/ ProbeReopenFails \/ ProbeRestoreFails
           \/ ProbeFlush \/ ProbeFlushFails
  <2>1. at # "idle" /\ \E good \in BOOLEAN : Bound(good)
    BY <1>0, <1>6, ProbePath DEF EstTypeOK
  <2>2. /\ est = "search" /\ at' = "idle" /\ UNCHANGED probes
        /\ (lo' = Mid /\ hi' = hi) \/ (lo' = lo /\ hi' = Mid)
    BY <1>0, <2>1, BoundStep
  <2>3. ToGo' = MaxProbes - probes /\ ToGo = ToGo' + 1 /\ probes > 0
    BY <1>0, <1>1, <2>1, <2>2, UnderWay DEF ToGo
  <2>4. ToGo' \in 0 .. MaxProbes - 1
    BY <1>1, <2>3
  <2>5. hi - lo <= Reach[ToGo] /\ Reach[ToGo] <= 2 * Reach[ToGo']
    BY <2>2, <2>3, <2>4, ReachFacts DEF WidthInv
  <2>6. Reach[ToGo] \in Int /\ Reach[ToGo'] \in Int
    <3>1. ToGo \in 0 .. MaxProbes /\ ToGo' \in 0 .. MaxProbes
      BY <1>1, <2>2, <2>4 DEF WidthInv
    <3>2. \A k \in 0 .. MaxProbes : Reach[k] \in 1 .. Slots
      BY ReachFacts
    <3> QED
      BY <3>1, <3>2
  <2>7. lo \in Int /\ hi \in Int /\ hi - lo > 1
    BY <1>0, <2>1, BoundTypes DEF SearchInv
  <2>8. hi - lo <= 2 * Reach[ToGo']
    BY <2>5, <2>6, <2>7
  <2>9. Mid - lo <= Reach[ToGo'] /\ hi - Mid <= Reach[ToGo']
    BY <2>6, <2>7, <2>8, Halves DEF Mid
  <2> QED
    BY <1>1, <2>2, <2>4, <2>9
<1>7. ~(AllHeld \/ TakeFold \/ GiveUpInterleaved \/ GiveUpReused \/ EndSearch)
  BY DEF AllHeld, TakeFold, GiveUpInterleaved, GiveUpReused, EndSearch, Conclude
<1> QED
  BY <1>2, <1>3, <1>4, <1>5, <1>6, <1>7 DEF SearchStep

\* On a drive that holds the slots below b each on a cell of its own, a run
\* without an I/O error finds just the samples below b good, and no fold.
LEMMA CleanVerdicts ==
    ASSUME EstBase, Deciding, faults = 0, NEW b \in First .. Slots, HoldsBelow(b)
    PROVE  /\ \A i \in Sample : verdict[i] = "ok" <=> Offset[i] < b
           /\ \A i \in Sample : verdict[i] # "aliased"
           /\ wrapModulus = 0
<1>0. /\ IInv /\ VerdictInv /\ DecidedInv /\ EchoInv /\ FoldReportIsReal
      /\ TypeOK /\ pc = "return" /\ runErr = "none" /\ mode # "readonly"
  BY DEF EstBase, ScanInv, Deciding, Due
<1>1. /\ \A s \in Slot : drive.kind[s] = "store" <=> s < b
      /\ \A s, t \in Slot : drive.phys[s] = drive.phys[t] => s = t
  BY DEF HoldsBelow
<1>2. \A i \in Sample : Offset[i] \in Slot
  BY <1>0, RunTypes
<1>3. ASSUME NEW i \in Sample
      PROVE  (verdict[i] = "ok" <=> Offset[i] < b) /\ verdict[i] # "aliased"
  <2>1. JustSample(i) /\ verdict[i] # "" /\ verdict[i] \in Verdicts
    BY <1>0 DEF VerdictInv, JustInv, DecidedInv, TypeOK
  <2>2. verdict[i] # "aliased"
    BY <1>1, <1>2, <2>1 DEF JustSample, CellOf
  <2>3. verdict[i] = "ok" => drive.kind[Offset[i]] = "store"
    BY <1>0 DEF IInv, OkInv, OkSample, Stores
  <2>4. drive.kind[Offset[i]] = "store" => verdict[i] = "ok"
    <3>1. ~(faults > 0)
      OBVIOUS
    <3> QED
      BY <2>1, <2>2, <3>1 DEF JustSample, Verdicts
  <2> QED
    BY <1>1, <1>2, <2>2, <2>3, <2>4
<1>4. wrapModulus = 0
  BY <1>0, <1>1, <1>2, RunTypes DEF FoldReportIsReal, EchoInv, CellOf
<1> QED
  BY <1>3, <1>4

\* A cell that the drive does not give to the slot of a probe shows no pattern
\* of that slot.
LEMMA NotHeld ==
    ASSUME EstBase, DepartInv, at # "idle", NEW b \in First .. Slots, HoldsBelow(b),
           drive.kind[Here] # "store"
    PROVE  Read(Here) # Pattern(Here)
<1>0. TypeOK /\ EstTypeOK /\ SearchInv /\ Here \in Slot /\ drive \in Drive
  BY HereFacts, RunTypes DEF EstBase
<1> DEFINE c == drive.phys[Here]
<1>1. c \in Slot
  BY <1>0 DEF Drive
<1>2. ~ProbeAt(c)
  BY DEF ProbeAt
<1>3. ~Missing(c)
  <2> SUFFICES ASSUME NEW i \in restoreErrors \cap Sample, Stores(i), CellOf(i) = c
               PROVE  FALSE
    BY DEF Missing
  <2>1. Offset[i] \in Slot
    BY <1>0, RunTypes
  <2>2. Offset[i] = Here
    BY <1>0, <2>1 DEF HoldsBelow, CellOf
  <2> QED
    BY <2>2 DEF Stores
<1>4. view[c] = before[c]
  BY <1>0, <1>1, <1>2, <1>3, UnderWay DEF DepartInv
<1>5. before[c] \in Blank
  BY <1>0, <1>1, EnvironmentAssumption DEF TypeOK
<1>6. Read(Here) \in {Zero, before[c]}
  BY <1>4 DEF Read, Load
<1> QED
  BY <1>5, <1>6 DEF Pattern, Zero, Blank

\* The first bounds have the boundary between them.
LEMMA FirstBracket ==
    ASSUME EstBase, faults = 0, StartSearch, NEW b \in First .. Slots, HoldsBelow(b)
    PROVE  First + lo' < b /\ b <= First + hi'
<1>0. TypeOK /\ Deciding /\ Failed # {} /\ Failed \subseteq Sample
  BY DEF EstBase, StartSearch, Failed
<1>1. \A i \in Sample : i \in Failed <=> ~(Offset[i] < b)
  BY <1>0, CleanVerdicts DEF Failed
<1>2. /\ First \in Nat /\ Slots \in Nat /\ b \in Int /\ First <= b
      /\ \A i \in Sample : Offset[i] \in Nat
  BY <1>0, RunTypes, SearchAssumption, SlotsAssumption DEF Slot
<1>3. /\ hi' = FirstBad - First
      /\ First + lo' = LastGood \/ (LastGood = -1 /\ lo' = -1)
  BY <1>0, FirstBounds
<1>4. b <= FirstBad /\ FirstBad \in Int
  <2>1. PICK i \in Failed : Offset[i] = FirstBad
    BY <1>0, SearchStart
  <2> QED
    BY <1>0, <1>1, <1>2, <2>1
<1>5. First + lo' < b
  <2>1. CASE LastGood = -1
    <3>1. lo' \in Int
      <4>1. lo' \in -1 .. Slots - 1
        BY <1>0, FirstBounds
      <4> QED
        BY <1>2, <4>1
    <3>2. First + lo' = -1 \/ lo' = -1
      BY <1>3, <2>1
    <3>3. \A l \in Int : (First + l = -1 \/ l = -1) => First + l < b
      BY <1>2
    <3> QED
      BY <3>1, <3>2, <3>3
  <2>2. CASE LastGood # -1
    <3>1. PICK i \in Sample \ Failed : Offset[i] = LastGood
      BY <1>0, <2>2, SearchStart
    <3>2. LastGood < b
      BY <1>1, <3>1
    <3> QED
      BY <1>3, <2>2, <3>2
  <2> QED
    BY <2>1, <2>2
<1> QED
  BY <1>2, <1>3, <1>4, <1>5

\* A probe that comes back with what the drive holds keeps the boundary between
\* the bounds.
LEMMA BoundBracket ==
    ASSUME EstTypeOK, SearchInv, at # "idle", held \in BOOLEAN, Bound(held),
           NEW b \in First .. Slots, First + lo < b, b <= First + hi, held <=> Here < b
    PROVE  First + lo' < b /\ b <= First + hi'
<1>1. (held /\ lo' = Mid /\ hi' = hi) \/ (~held /\ lo' = lo /\ hi' = Mid)
  BY BoundStep
<1>2. Here = First + Mid /\ Here \in Int /\ b \in Int
  BY HereFacts, SearchAssumption, SlotsAssumption DEF Here, Slot
<1> QED
  BY <1>1, <1>2

\* A run that has met no error so far has met none before.
LEMMA NoErrorYet ==
    ASSUME EstBase, [EstNext]_allVars, faults' = 0
    PROVE  faults = 0 /\ ~Fault
<1>0. TypeOK /\ EstTypeOK /\ SearchInv /\ faults \in Nat
  BY EnvironmentAssumption DEF EstBase, TypeOK
<1>1. ~Fault
  BY <1>0 DEF Fault
<1>2. UNCHANGED faults
  <2>1. CASE SearchStep
    BY <1>0, <1>1, <2>1, SearchFaults
  <2>2. CASE CutShort
    BY <1>0, <2>2, CutShortTypes
  <2>3. CASE ~SearchStep /\ ~CutShort
    <3>1. faults' >= faults
      BY <1>0, <2>3, ScanSteps, FaultsGrow
    <3> QED
      BY <1>0, <3>1
  <2> QED
    BY <2>1, <2>2, <2>3
<1> QED
  BY <1>1, <1>2

\* The boundary stays between the bounds.
LEMMA NextBracketInv == EstBase /\ DepartInv /\ BracketInv /\ [EstNext]_allVars => BracketInv'
<1> SUFFICES ASSUME EstBase, DepartInv, BracketInv, [EstNext]_allVars,
                    faults' = 0, est' = "search", NEW b \in First .. Slots, HoldsBelow(b)'
             PROVE  Bracketed(b)'
  BY DEF BracketInv
<1>0. /\ TypeOK /\ EstTypeOK /\ SearchInv /\ SearchInv' /\ pc' = "return"
      /\ faults = 0 /\ ~Fault /\ drive \in Drive
      /\ took \in BOOLEAN /\ held \in BOOLEAN
  BY NextEstBase, NoErrorYet, RunTypes DEF EstBase, SearchInv, EstTypeOK
<1>1. UNCHANGED drive /\ HoldsBelow(b) /\ (Rejects <=> Rejects')
  <2>1. UNCHANGED drive
    BY SearchFrame, OtherSteps
  <2> QED
    BY <2>1 DEF HoldsBelow, Rejects
<1>2. est = "search" => Bracketed(b)
  BY <1>0, <1>1 DEF BracketInv
<1>3. /\ at # "idle" => Here \in Slot /\ (drive.kind[Here] = "store" <=> Here < b)
      /\ UNCHANGED <<lo, hi>> => Here' = Here
  BY <1>0, <1>1, HereFacts DEF HoldsBelow, Here, Mid
<1>4. CASE ~SearchStep
  <2>1. UNCHANGED vars /\ UNCHANGED <<est, at, lo, hi, took, held, unrestored>>
    BY <1>0, <1>4, OtherSteps
  <2>2. UNCHANGED view
    BY <2>1 DEF vars, media
  <2> QED
    BY <1>1, <1>2, <1>3, <2>1, <2>2 DEF Bracketed
<1>5. CASE StartSearch
  <2>1. at' = "idle" /\ ~unrestored'
    BY <1>0, <1>5, ProbePath DEF SearchInv
  <2>2. First + lo' < b /\ b <= First + hi'
    BY <1>0, <1>1, <1>5, FirstBracket
  <2> QED
    BY <2>1, <2>2 DEF Bracketed
<1>6. CASE StartProbe \/ ProbeRead \/ ProbeRecord
  <2>1. /\ est = "search" /\ at' \in {"read", "record", "write"}
        /\ UNCHANGED <<lo, hi, unrestored>>
    BY <1>0, <1>6, ProbePath, UnderWay
  <2> QED
    BY <1>1, <1>2, <2>1 DEF Bracketed
<1>7. CASE ProbeWrite
  <2>1. /\ est = "search" /\ at # "idle" /\ at' = "reopen" /\ UNCHANGED <<lo, hi, unrestored>>
    BY <1>0, <1>7, ProbePath, UnderWay
  <2>2. took' <=> drive.kind[Here] # "reject"
    BY <1>0, <1>7 DEF ProbeWrite, WriteSlot, WriteSlotFails
  <2>3. drive.kind[Here] = "store" => view'[drive.phys[Here]] = Pattern(Here)
    <3> SUFFICES ASSUME drive.kind[Here] = "store"
                 PROVE  view'[drive.phys[Here]] = Pattern(Here)
      OBVIOUS
    <3>1. WriteSlot(Here, Pattern(Here))
      BY <1>0, <1>7 DEF ProbeWrite, WriteSlotFails
    <3>2. Here \in Slot /\ Pattern(Here) \in Content
      BY <1>0, <1>7, ProbeWrites
    <3> QED
      BY <1>0, <3>1, <3>2, WriteFrame
  <2> QED
    BY <1>1, <1>2, <1>3, <2>1, <2>2, <2>3 DEF Bracketed
<1>8. CASE ProbeReopen
  <2>1. /\ at = "reopen" /\ at' = "readback" /\ est = "search"
        /\ UNCHANGED <<lo, hi, took, unrestored>>
    BY <1>0, <1>8, ProbePath, UnderWay
  <2>2. UNCHANGED view
    BY <1>8 DEF ProbeReopen
  <2> QED
    BY <1>1, <1>2, <1>3, <2>1, <2>2 DEF Bracketed
<1>9. CASE ProbeReadBack
  <2>1. /\ at = "readback" /\ at' = "restore" /\ est = "search"
        /\ UNCHANGED <<lo, hi, unrestored>>
    BY <1>0, <1>9, ProbePath, UnderWay
  <2>2. held' <=> (took /\ Read(Here) = Pattern(Here))
    BY <1>0, <1>9, Zenon DEF ProbeReadBack
  <2>3. took <=> drive.kind[Here] # "reject"
    BY <1>2, <2>1 DEF Bracketed
  <2>4. drive.kind[Here] = "store" => Read(Here) = Pattern(Here)
    BY <1>2, <2>1 DEF Bracketed, Read, Load
  <2>5. drive.kind[Here] # "store" => Read(Here) # Pattern(Here)
    BY <1>1, <2>1, NotHeld
  <2>6. held' <=> Here < b
    BY <1>3, <2>1, <2>2, <2>3, <2>4, <2>5
  <2> QED
    BY <1>1, <1>2, <1>3, <2>1, <2>6 DEF Bracketed
<1>10. CASE ProbeRestore
  <2>1. /\ at = "restore" /\ at' = "flush" /\ est = "search"
        /\ UNCHANGED <<lo, hi, held, unrestored>>
    BY <1>0, <1>10, ProbePath, UnderWay
  <2> QED
    BY <1>1, <1>2, <1>3, <2>1 DEF Bracketed
<1>11. CASE ProbeRestoreFails \/ ProbeFlush
  <2>1. /\ at \in {"restore", "flush"} /\ est = "search" /\ Bound(held) /\ at' = "idle"
    BY <1>0, <1>11, ProbePath, UnderWay DEF Bound
  <2>2. unrestored' => Rejects
    <3>1. CASE ProbeFlush
      BY <1>0, <3>1, ProbePath, UnderWay
    <3>2. CASE ProbeRestoreFails
      <4>1. WriteSlotFails(Here, orig) /\ Here \in Slot
        BY <1>0, <3>2, ProbeWrites DEF ProbeRestoreFails
      <4>2. drive.kind[Here] = "reject"
        BY <1>0, <4>1 DEF WriteSlotFails
      <4> QED
        BY <4>1, <4>2 DEF Rejects
    <3> QED
      BY <1>11, <3>1, <3>2
  <2>3. First + lo' < b /\ b <= First + hi'
    BY <1>0, <1>2, <2>1, BoundBracket DEF Bracketed
  <2> QED
    BY <1>1, <2>1, <2>2, <2>3 DEF Bracketed
<1>12. ~(ProbeReadFails \/ ProbeRecordFails \/ ProbeReopenFails \/ ProbeFlushFails)
  BY <1>0, ProbePath
<1>13. ~(AllHeld \/ TakeFold \/ GiveUpInterleaved \/ GiveUpReused \/ EndSearch)
  BY DEF AllHeld, TakeFold, GiveUpInterleaved, GiveUpReused, EndSearch, Conclude
<1> QED
  BY <1>4, <1>5, <1>6, <1>7, <1>8, <1>9, <1>10, <1>11, <1>12, <1>13 DEF SearchStep

\* What the search ends with.
LEMMA SearchEnds ==
    ASSUME EstBase, WidthInv, BracketInv, EndSearch, faults = 0,
           NEW b \in First .. Slots, HoldsBelow(b)
    PROVE  IF hi - lo > 1
           THEN Rejects /\ Boundary <= b /\ b <= First + hi
           ELSE Boundary = b
<1>0. /\ EstTypeOK /\ SearchInv /\ est = "search" /\ at = "idle" /\ ~Continues
      /\ lo < hi /\ Bracketed(b)
  BY DEF EstBase, EstTypeOK, EndSearch, BracketInv
<1>1. /\ lo \in Int /\ hi \in Int /\ -1 <= lo /\ First \in Nat /\ b \in Int /\ First <= b
      /\ probes \in 0 .. MaxProbes /\ MaxProbes \in Nat
  <2>1. lo \in -1 .. Slots - 1 /\ hi \in 0 .. Slots - 1 /\ probes \in 0 .. MaxProbes
    BY <1>0 DEF EstTypeOK
  <2> QED
    BY <2>1, SearchAssumption, SlotsAssumption DEF Slot
<1>2. First + lo < b /\ b <= First + hi
  BY <1>0 DEF Bracketed
<1>3. CASE hi - lo > 1
  <2>1. unrestored
    <3>1. probes = MaxProbes => hi - lo <= 1
      <4>1. probes = MaxProbes => ToGo = 0
        BY <1>0, <1>1 DEF ToGo
      <4> QED
        BY <1>0, <4>1, ReachFacts DEF WidthInv
    <3>2. probes < MaxProbes
      BY <1>1, <1>3, <3>1
    <3> QED
      BY <1>0, <1>3, <3>2 DEF Continues
  <2>2. Rejects
    BY <1>0, <2>1 DEF Bracketed
  <2>3. Boundary <= b
    BY <1>1, <1>2 DEF Boundary
  <2> QED
    BY <1>2, <1>3, <2>2, <2>3
<1>4. CASE ~(hi - lo > 1)
  <2>1. hi = lo + 1
    BY <1>0, <1>1, <1>4
  <2>2. b = First + lo + 1
    BY <1>1, <1>2, <2>1
  <2>3. Boundary = b
    BY <1>1, <2>2 DEF Boundary
  <2> QED
    BY <1>4, <2>3
<1> QED
  BY <1>3, <1>4

\* What the run says without a search.
LEMMA NoSearchNeeded ==
    ASSUME EstBase, faults = 0, NEW b \in First .. Slots, HoldsBelow(b)
    PROVE  /\ AllHeld => capacity' = b /\ note' = ""
           /\ ~(TakeFold \/ GiveUpInterleaved \/ GiveUpReused)
<1>0. TypeOK /\ b \in Int /\ Slots \in Nat
  BY SearchAssumption, SlotsAssumption DEF EstBase, Slot
<1>1. Deciding =>
        /\ \A i \in Sample : verdict[i] = "ok" <=> Offset[i] < b
        /\ \A i \in Sample : verdict[i] # "aliased"
        /\ wrapModulus = 0
  BY CleanVerdicts
<1>2. AllHeld => capacity' = b /\ note' = ""
  <2> SUFFICES ASSUME AllHeld PROVE capacity' = b /\ note' = ""
    OBVIOUS
  <2>1. Deciding /\ Failed = {}
    BY DEF AllHeld
  <2>2. wrapModulus = 0 /\ Offset[High] < b
    BY <1>0, <1>1, <2>1, RunTypes DEF Failed
  <2>3. capacity' = Slots /\ note' = ""
    <3>1. ~(wrapModulus > 0)
      BY <2>2
    <3> QED
      BY <3>1 DEF AllHeld, Conclude
  <2>4. Slots = b
    BY <1>0, <2>2, SearchAssumption
  <2> QED
    BY <2>3, <2>4
<1>3. ~TakeFold
  BY <1>1 DEF TakeFold
<1>4. ~GiveUpReused
  BY <1>1 DEF GiveUpReused, Reused
<1>5. ~GiveUpInterleaved
  <2> SUFFICES ASSUME GiveUpInterleaved PROVE FALSE
    OBVIOUS
  <2>1. Deciding /\ Failed # {} /\ LastGood > FirstBad
    BY DEF GiveUpInterleaved, Interleaved
  <2>2. PICK j \in Failed : Offset[j] = FirstBad
    BY <1>0, <2>1, SearchStart
  <2>3. FirstBad \in Nat /\ ~(FirstBad < b)
    <3>1. j \in Sample /\ verdict[j] # "ok"
      BY <2>2 DEF Failed
    <3> QED
      BY <1>0, <1>1, <2>1, <2>2, <3>1, RunTypes DEF Slot
  <2>4. CASE LastGood = -1
    BY <2>1, <2>3, <2>4
  <2>5. CASE LastGood # -1
    <3>1. PICK i \in Sample \ Failed : Offset[i] = LastGood
      BY <1>0, <2>1, <2>5, SearchStart
    <3>2. LastGood < b /\ LastGood \in Nat
      BY <1>0, <1>1, <2>1, <3>1, RunTypes DEF Failed, Slot
    <3> QED
      BY <1>0, <2>1, <2>3, <3>2
  <2> QED
    BY <2>4, <2>5
<1> QED
  BY <1>2, <1>3, <1>4, <1>5

\* The answer that is given for a drive that holds the slots below b.
Answered(b) ==
    IF note = "between"
    THEN Rejects /\ capacity <= b /\ b <= First + hi
    ELSE capacity = b

LEMMA NextEstimateBrackets ==
    EstBase /\ WidthInv /\ BracketInv /\ EstimateBrackets /\ [EstNext]_allVars
      => EstimateBrackets'
<1> SUFFICES ASSUME EstBase, WidthInv, BracketInv, EstimateBrackets, [EstNext]_allVars,
                    est' = "done", pc' # "dead", faults' = 0,
                    NEW b \in First .. Slots, HoldsBelow(b)'
             PROVE  Answered(b)'
  BY DEF EstimateBrackets, Finished, Answered
<1>0. TypeOK /\ EstTypeOK /\ SearchInv /\ faults = 0 /\ ~Fault
  BY NoErrorYet DEF EstBase
<1>1. UNCHANGED drive /\ HoldsBelow(b) /\ (Rejects <=> Rejects')
  <2>1. UNCHANGED drive
    BY SearchFrame, OtherSteps
  <2> QED
    BY <2>1 DEF HoldsBelow, Rejects
<1>2. CASE ~SearchStep
  <2>1. ~CutShort
    BY DEF CutShort
  <2>2. [Next]_vars /\ est = "done" /\ UNCHANGED <<hi, capacity, note>>
    BY <1>2, <2>1, ScanSteps
  <2>3. pc # "dead"
    BY <1>0, <2>2, LateSteps
  <2>4. Answered(b)
    BY <1>0, <1>1, <2>2, <2>3 DEF EstimateBrackets, Finished, Answered
  <2> QED
    BY <1>1, <2>2, <2>4 DEF Answered
<1>3. CASE EndSearch
  <2>1. /\ capacity' = Boundary /\ hi' = hi
        /\ note' = IF hi - lo > 1 THEN "between" ELSE ""
    BY <1>3 DEF EndSearch
  <2>2. IF hi - lo > 1 THEN Rejects /\ Boundary <= b /\ b <= First + hi ELSE Boundary = b
    BY <1>0, <1>1, <1>3, SearchEnds
  <2> QED
    BY <1>1, <2>1, <2>2, Zenon DEF Answered
<1>4. CASE AllHeld
  BY <1>0, <1>1, <1>4, NoSearchNeeded DEF Answered
<1>5. ~(TakeFold \/ GiveUpInterleaved \/ GiveUpReused)
  BY <1>0, <1>1, NoSearchNeeded
<1>6. ~(\/ ProbeReadFails \/ ProbeRecordFails \/ ProbeReopenFails \/ ProbeRestoreFails
        \/ ProbeFlush \/ ProbeFlushFails)
  <2> SUFFICES ASSUME at # "idle", NEW good \in BOOLEAN, Bound(good) PROVE FALSE
    BY <1>0, ProbePath DEF EstTypeOK
  <2>1. est' = "search"
    BY <1>0, BoundStep
  <2> QED
    BY <2>1
<1>7. ~(\/ StartSearch \/ StartProbe \/ ProbeRead \/ ProbeRecord \/ ProbeWrite \/ ProbeReopen
        \/ ProbeReadBack \/ ProbeRestore)
  <2>1. ~StartSearch
    BY DEF StartSearch
  <2> QED
    BY <1>0, <2>1, ProbePath, UnderWay
<1> QED
  BY <1>2, <1>3, <1>4, <1>5, <1>6, <1>7 DEF SearchStep

LEMMA InitBracket == EstInit => WidthInv /\ BracketInv /\ EstimateBrackets
<1> SUFFICES ASSUME EstInit PROVE WidthInv /\ BracketInv /\ EstimateBrackets
  OBVIOUS
<1>1. est = "off"
  BY DEF EstInit
<1> QED
  BY <1>1 DEF WidthInv, BracketInv, EstimateBrackets, Finished

(***************************************************************************)
(* The capacity the run reports, for a drive of any size, any boundary and *)
(* any samples: exact where writes above the boundary do not fail, and     *)
(* otherwise no more than the boundary, with a range that it lies in.      *)
(***************************************************************************)
THEOREM EstimateIsSound == EstSpec => []EstimateBrackets
<1>1. /\ EstBase /\ TraceInv /\ WidthInv /\ BracketInv /\ EstimateBrackets /\ [EstNext]_allVars
      => WidthInv' /\ BracketInv' /\ EstimateBrackets'
  BY NextWidthInv, NextBracketInv, NextEstimateBrackets DEF TraceInv
<1> QED
  BY <1>1, InitBracket, TraceHolds, PTL DEF EstSpec

-----------------------------------------------------------------------------
(***************************************************************************)
(* The replay of the journal.                                              *)
(***************************************************************************)

\* All cells that may not hold their original have it on file, whatever power
\* losses and replays have made of the drive since.
CoveredInv ==
    \A c \in Dirty : Genuine(c) => \E k \in DOMAIN log : PutsBack(k, c)

\* The replay is at a record it may write, or past all of them.
RecPhase ==
    /\ next \in Nat /\ failures \in BOOLEAN
    /\ rpc \in {"idle", "write", "flush", "restored", "failed", "refused"}
    /\ rpc \in {"write", "flush"} => ~Unreadable
    /\ rpc = "write" => next \in Intact
    /\ rpc = "flush" => \A k \in Intact : k < next

\* What has been written back without an error is back.
BackInv ==
    (rpc \in {"write", "flush"} /\ ~failures) =>
        \A k \in Intact :
          (k < next /\ drive.kind[log[k].slot] = "store" /\ Genuine(drive.phys[log[k].slot])) =>
            view[drive.phys[log[k].slot]] = before[drive.phys[log[k].slot]]

\* What the replay needs of the run, once that is over.
OverInv ==
    /\ TypeOK /\ PhaseInv /\ ViewInv /\ EstTypeOK /\ SearchInv
    /\ GenuineInv /\ CoveredInv /\ BackInv /\ ReplayRestores

RInv ==
    /\ RecPhase
    /\ ~Over => EstBase /\ TraceInv /\ rpc = "idle"
    /\ Over => OverInv

\* Nothing of the run goes on after it is over.
LEMMA OverIsFinal ==
    ASSUME TypeOK, EstTypeOK, SearchInv, Over, [EstNext]_allVars
    PROVE  UNCHANGED allVars
<1>0. pc \in {"dead", "done"} /\ est # "search" /\ at = "idle" /\ ~Due
  BY DEF Over, SearchInv, Due
<1>1. ~SearchStep
  <2>1. ~(AllHeld \/ TakeFold \/ GiveUpInterleaved \/ GiveUpReused \/ StartSearch)
    BY <1>0 DEF AllHeld, TakeFold, GiveUpInterleaved, GiveUpReused, StartSearch, Deciding
  <2>2. ~(\/ StartProbe \/ ProbeRead \/ ProbeReadFails \/ ProbeRecord \/ ProbeRecordFails
          \/ ProbeWrite \/ ProbeReopen \/ ProbeReopenFails \/ ProbeReadBack
          \/ ProbeRestore \/ ProbeRestoreFails \/ ProbeFlush \/ ProbeFlushFails
          \/ EndSearch)
    BY <1>0, ProbePath
  <2> QED
    BY <2>1, <2>2 DEF SearchStep
<1>2. ~CutShort /\ ~Crash
  BY <1>0 DEF CutShort, Crash
<1>3. ~ScanStep
  <2> SUFFICES ASSUME Step PROVE FALSE
    BY DEF ScanStep
  <2> USE DEF Reading, Writing, Restoring, Sweeping
  <2>1. ~(\/ SetUp \/ CreateJournalFails \/ OpenDeviceFails \/ ReadOriginal
          \/ ReadOriginalFails \/ RecordFails \/ FinishReads)
    BY <1>0 DEF SetUp, CreateJournalFails, OpenDeviceFails, ReadOriginal,
                ReadOriginalFails, RecordFails, FinishReads
  <2>2. ~(\/ SkipWrite \/ WritePattern \/ WritePatternFails \/ SyncWrites
          \/ SyncWritesFails \/ Reopen \/ ReopenFails)
    BY <1>0 DEF SkipWrite, WritePattern, WritePatternFails, SyncWrites, SyncWritesFails,
                Reopen, ReopenFails
  <2>3. \A i \in Sample : ~(Verify(i) \/ VerifyFails(i))
    BY <1>0 DEF Verify, VerifyFails
  <2>4. ~(FinishVerify \/ FindEcho \/ PassCandidate \/ FinishSweep)
    BY <1>0 DEF FinishVerify, FindEcho, PassCandidate, FinishSweep
  <2>5. ~(SkipRestore \/ Restore \/ RestoreFails \/ SyncRestore \/ SyncRestoreFails)
    BY <1>0 DEF SkipRestore, Restore, RestoreFails, SyncRestore, SyncRestoreFails
  <2>6. ~(KeepJournal \/ DiscardJournal \/ DiscardJournalFails)
    BY <1>0 DEF KeepJournal, DiscardJournal, DiscardJournalFails
  <2> QED
    BY <2>1, <2>2, <2>3, <2>4, <2>5, <2>6 DEF Step
<1> QED
  BY <1>1, <1>2, <1>3, StepKinds

\* The records of the reader are the whole ones, in a row from the first; the
\* reader of a file it does not refuse returns all whole ones.
LEMMA IntactRecords ==
    ASSUME TypeOK
    PROVE  /\ \A k \in Intact : /\ k \in Nat /\ k >= 1 /\ k \in DOMAIN log
                                /\ log[k] \in Entries /\ log[k].part = "whole"
                                /\ \A m \in Nat : (1 <= m /\ m <= k) => m \in Intact
           /\ ~Unreadable => \A k \in DOMAIN log : log[k].part = "whole" => k \in Intact
<1>0. log \in Seq(Entries)
  BY DEF TypeOK
<1>1. /\ DOMAIN log = 1 .. Len(log) /\ Len(log) \in Nat
      /\ \A k \in DOMAIN log : log[k] \in Entries /\ log[k].part \in {"whole", "torn"}
  <2>1. \A r \in Entries : r.part \in {"whole", "torn"}
    BY DEF Entries
  <2>2. /\ DOMAIN log = 1 .. Len(log) /\ Len(log) \in Nat
        /\ \A k \in DOMAIN log : log[k] \in Entries
    BY <1>0
  <2> QED
    BY <2>1, <2>2
<1>2. ASSUME NEW k \in Intact
      PROVE  /\ k \in Nat /\ k >= 1 /\ k \in DOMAIN log
             /\ log[k] \in Entries /\ log[k].part = "whole"
             /\ \A m \in Nat : (1 <= m /\ m <= k) => m \in Intact
  <2>1. k \in DOMAIN log /\ 1 .. k \cap Torn = {}
    BY DEF Intact
  <2>2. k \in Nat /\ k >= 1 /\ k \in 1 .. k
    BY <1>1, <2>1
  <2>3. k \notin Torn
    BY <2>1, <2>2
  <2>4. ASSUME NEW m \in Nat, 1 <= m, m <= k PROVE m \in Intact
    <3>1. m \in DOMAIN log /\ 1 .. m \subseteq 1 .. k
      BY <1>1, <2>1, <2>2, <2>4
    <3> QED
      BY <2>1, <3>1 DEF Intact
  <2> QED
    BY <1>1, <2>1, <2>2, <2>3, <2>4 DEF Torn
<1>3. ASSUME ~Unreadable, NEW k \in DOMAIN log, log[k].part = "whole" PROVE k \in Intact
  <2>1. \A m \in Torn : m \in Nat /\ ~(m < k) /\ m # k
    BY <1>1, <1>3 DEF Unreadable, Torn
  <2>2. 1 .. k \cap Torn = {}
    <3> SUFFICES ASSUME NEW m \in 1 .. k, m \in Torn PROVE FALSE
      OBVIOUS
    <3>1. m \in Nat /\ k \in Nat /\ m <= k
      BY <1>1
    <3> QED
      BY <2>1, <3>1
  <2> QED
    BY <2>2 DEF Intact
<1> QED
  BY <1>2, <1>3

\* A step of the replay leaves all but the device alone.
LEMMA ReplayFrame ==
    ASSUME TypeOK, UNCHANGED runVars, view' \in [Slot -> Content],
           maybe' \in [Slot -> SUBSET Content], faults' \in 0 .. MaxFaults
    PROVE  /\ UNCHANGED <<drive, before, mode, pc, log, journal, written, runErr,
                          restoreErrors, probes, est, at, lo, hi, orig, unrestored>>
           /\ TypeOK' /\ (PhaseInv => PhaseInv') /\ (EstTypeOK => EstTypeOK')
           /\ (SearchInv => SearchInv') /\ (GenuineInv => GenuineInv')
           /\ (Over <=> Over') /\ \A c : Genuine(c)' <=> Genuine(c)
           /\ Intact' = Intact /\ (Unreadable <=> Unreadable')
<1> USE DEF runVars, rigid, file, memory, results, wrap, undoing, search, probe
<1>1. /\ UNCHANGED <<drive, before, mode, pc, log, journal, written, runErr,
                     restoreErrors, probes, est, at, lo, hi, orig, unrestored>>
      /\ UNCHANGED <<cur, originals, verdict, aliasOf, todo, wrapModulus, wrapEcho,
                     restored, took, held, capacity, note>>
  OBVIOUS
<1>2. TypeOK'
  BY <1>1 DEF TypeOK
<1>3. (PhaseInv => PhaseInv') /\ (EstTypeOK => EstTypeOK') /\ (SearchInv => SearchInv')
  <2>1. PhaseInv => PhaseInv'
    BY <1>1 DEF PhaseInv
  <2>2. EstTypeOK => EstTypeOK'
    BY <1>1 DEF EstTypeOK
  <2>3. SearchInv => SearchInv'
    BY <1>1 DEF SearchInv
  <2> QED
    BY <2>1, <2>2, <2>3
<1>4. (Over <=> Over') /\ \A c : Genuine(c)' <=> Genuine(c)
  BY <1>1 DEF Genuine, Straight, Missing, Stores, CellOf, Over
<1>5. GenuineInv => GenuineInv'
  BY <1>1, <1>4 DEF GenuineInv
<1>6. Intact' = Intact /\ (Unreadable <=> Unreadable')
  BY <1>1 DEF Intact, Unreadable, Torn
<1> QED
  BY <1>1, <1>2, <1>3, <1>4, <1>5, <1>6

ReplayStep ==
    \/ LosePower \/ StartReplay \/ RefuseReplay
    \/ Replay \/ ReplayFails \/ ReplaySync \/ ReplaySyncFails \/ ReplayCrash

\* What a replay writes is what the record has of its slot, and where the
\* records are genuine, the original.
LEMMA ReplayWrites ==
    ASSUME TypeOK, RecPhase, rpc = "write"
    PROVE  /\ next \in Intact /\ next \in DOMAIN log
           /\ log[next].slot \in Slot /\ Blocks(log[next]) \in Content
           /\ Replay => WriteSlot(log[next].slot, Blocks(log[next]))
           /\ ReplayFails => WriteSlotFails(log[next].slot, Blocks(log[next]))
           /\ (GenuineInv /\ drive.kind[log[next].slot] = "store"
                 /\ Genuine(drive.phys[log[next].slot])) =>
                 /\ Blocks(log[next]) = before[drive.phys[log[next].slot]]
                 /\ PutsBack(next, drive.phys[log[next].slot])
<1>1. next \in Intact
  BY DEF RecPhase
<1>2. next \in DOMAIN log /\ log[next] \in Entries /\ log[next].part = "whole"
  BY <1>1, IntactRecords
<1>3. \A r \in Entries : r.slot \in Slot /\ r.data \in Content
  BY DEF Entries
<1>4. Blocks(log[next]) = log[next].data
  BY <1>2 DEF Blocks
<1>5. (GenuineInv /\ drive.kind[log[next].slot] = "store"
         /\ Genuine(drive.phys[log[next].slot])) =>
         log[next].data = before[drive.phys[log[next].slot]]
  BY <1>2 DEF GenuineInv
<1> QED
  BY <1>1, <1>2, <1>3, <1>4, <1>5 DEF Replay, ReplayFails, PutsBack, Replayable

\* What a step of the replay does to the drive.
LEMMA ReplayMedia ==
    ASSUME OverInv, RecPhase, ReplayStep
    PROVE  /\ UNCHANGED runVars
           /\ view' \in [Slot -> Content] /\ maybe' \in [Slot -> SUBSET Content]
           /\ faults' \in 0 .. MaxFaults
           /\ ViewInv'
           /\ \A c \in Slot : (Genuine(c) /\ maybe'[c] # {before[c]}) =>
                 c \in Dirty \/ \E k \in DOMAIN log : PutsBack(k, c)
<1>0. /\ TypeOK /\ ViewInv /\ GenuineInv
      /\ view \in [Slot -> Content] /\ maybe \in [Slot -> SUBSET Content]
      /\ faults \in 0 .. MaxFaults
  BY DEF OverInv, TypeOK
<1>1. UNCHANGED runVars
  BY DEF ReplayStep, LosePower, StartReplay, RefuseReplay, Replay, ReplayFails,
         ReplaySync, ReplaySyncFails, ReplayCrash
<1>2. CASE StartReplay \/ RefuseReplay \/ ReplaySyncFails \/ ReplayCrash
  <2>1. UNCHANGED media /\ (NoFault \/ Fault)
    BY <1>2 DEF StartReplay, RefuseReplay, ReplaySyncFails, ReplayCrash
  <2>2. faults' \in 0 .. MaxFaults
    BY <1>0, <2>1, EnvironmentAssumption DEF NoFault, Fault
  <2> QED
    BY <1>0, <1>1, <2>1, <2>2 DEF media, ViewInv, Dirty
<1>3. CASE LosePower
  <2>1. PICK c \in Dirty, x \in Content :
           /\ x \in maybe[c]
           /\ view' = [view EXCEPT ![c] = x]
           /\ maybe' = [maybe EXCEPT ![c] = {x}]
    BY <1>3 DEF LosePower
  <2>2. c \in Slot /\ UNCHANGED faults
    BY <1>3 DEF Dirty, LosePower, NoFault
  <2>3. view' \in [Slot -> Content] /\ maybe' \in [Slot -> SUBSET Content]
    BY <1>0, <2>1, <2>2
  <2>4. ViewInv'
    BY <1>0, <2>1, <2>2 DEF ViewInv
  <2>5. \A d \in Slot : maybe'[d] # {before[d]} => d \in Dirty
    BY <1>0, <2>1, <2>2 DEF Dirty
  <2> QED
    BY <1>0, <1>1, <2>2, <2>3, <2>4, <2>5
<1>4. CASE Replay \/ ReplayFails
  <2>1. rpc = "write"
    BY <1>4 DEF Replay, ReplayFails
  <2> DEFINE s == log[next].slot
             x == Blocks(log[next])
  <2>2. /\ s \in Slot /\ x \in Content
        /\ WriteSlot(s, x) \/ WriteSlotFails(s, x)
        /\ drive.kind[s] = "store" /\ Genuine(drive.phys[s]) =>
              next \in DOMAIN log /\ PutsBack(next, drive.phys[s])
    BY <1>0, <1>4, <2>1, ReplayWrites
  <2> HIDE DEF s, x
  <2>3. ViewInv' /\ view' \in [Slot -> Content] /\ maybe' \in [Slot -> SUBSET Content]
        /\ faults' \in 0 .. MaxFaults
    BY <1>0, <2>2, WriteView, WriteSlotType
  <2>4. \A c \in Slot : maybe'[c] # maybe[c] => drive.kind[s] = "store" /\ drive.phys[s] = c
    BY <1>0, <2>2, WriteFrame
  <2>5. \A c \in Slot : (Genuine(c) /\ maybe'[c] # {before[c]}) =>
           c \in Dirty \/ \E k \in DOMAIN log : PutsBack(k, c)
    BY <2>2, <2>4 DEF Dirty
  <2> QED
    BY <1>1, <2>3, <2>5
<1>5. CASE ReplaySync
  <2>1. view' = view /\ maybe' = Flush(drive, maybe, view) /\ UNCHANGED faults
    BY <1>5 DEF ReplaySync, NoFault
  <2>2. ViewInv'
    BY <1>0, <2>1, FlushView
  <2>3. maybe' \in [Slot -> SUBSET Content]
    BY <1>0, <2>1 DEF Flush
  <2>4. \A c \in Slot : maybe'[c] # {before[c]} => c \in Dirty
    BY <1>0, <2>1, SafeCell
  <2> QED
    BY <1>0, <1>1, <2>1, <2>2, <2>3, <2>4
<1> QED
  BY <1>2, <1>3, <1>4, <1>5 DEF ReplayStep

\* The replay goes from record to record.
LEMMA NextRecPhase ==
    ASSUME OverInv, RecPhase, ReplayStep
    PROVE  RecPhase'
<1>0. TypeOK /\ next \in Nat /\ failures \in BOOLEAN
  BY DEF OverInv, RecPhase
<1>1. Intact' = Intact /\ (Unreadable <=> Unreadable')
  BY <1>0, ReplayMedia, ReplayFrame
<1>2. CASE LosePower
  BY <1>1, <1>2 DEF LosePower, replay, RecPhase
<1>3. CASE StartReplay
  <2>1. /\ rpc' = "write" /\ next' = 1 /\ failures' = FALSE /\ ~Unreadable
        /\ Intact # {}
    BY <1>3 DEF StartReplay
  <2>2. 1 \in Intact
    <3>1. PICK k \in Intact : TRUE
      BY <2>1
    <3>2. \A m \in Nat : (1 <= m /\ m <= k) => m \in Intact
      BY <1>0, <3>1, IntactRecords
    <3>3. k \in Nat /\ k >= 1
      BY <1>0, <3>1, IntactRecords
    <3> QED
      BY <3>2, <3>3
  <2> QED
    BY <1>1, <2>1, <2>2 DEF RecPhase
<1>4. CASE RefuseReplay \/ ReplaySync \/ ReplaySyncFails \/ ReplayCrash
  <2>1. rpc' \in {"refused", "failed", "restored"} /\ UNCHANGED <<next, failures>>
    BY <1>4 DEF RefuseReplay, ReplaySync, ReplaySyncFails, ReplayCrash
  <2> QED
    BY <1>0, <2>1 DEF RecPhase
<1>5. CASE Replay \/ ReplayFails
  <2>1. /\ rpc = "write" /\ rpc' = AfterLast(next) /\ next' = next + 1
        /\ failures' \in BOOLEAN
    BY <1>0, <1>5 DEF Replay, ReplayFails, FailuresSoFar
  <2>2. ~Unreadable
    BY <2>1 DEF RecPhase
  <2>3. CASE next + 1 \in Intact
    BY <1>0, <1>1, <2>1, <2>2, <2>3 DEF RecPhase, AfterLast
  <2>4. CASE next + 1 \notin Intact
    <3>1. ASSUME NEW k \in Intact PROVE k < next + 1
      <4>1. /\ k \in Nat
            /\ \A m \in Nat : (1 <= m /\ m <= k) => m \in Intact
        BY <1>0, <3>1, IntactRecords
      <4>2. ~(next + 1 <= k)
        <5>1. next + 1 \in Nat /\ 1 <= next + 1
          BY <1>0
        <5> QED
          BY <2>4, <4>1, <5>1
      <4> QED
        BY <1>0, <4>1, <4>2
    <3>2. rpc' = "flush"
      BY <2>1, <2>4 DEF AfterLast
    <3>3. next' \in Nat
      BY <1>0, <2>1
    <3> QED
      BY <1>1, <2>1, <2>2, <3>1, <3>2, <3>3 DEF RecPhase
  <2> QED
    BY <2>3, <2>4
<1> QED
  BY <1>2, <1>3, <1>4, <1>5 DEF ReplayStep

\* What it has passed without an error stays back.
LEMMA NextBackInv ==
    ASSUME OverInv, RecPhase, ReplayStep
    PROVE  BackInv'
<1>0. /\ TypeOK /\ GenuineInv /\ next \in Nat
      /\ UNCHANGED <<drive, before, log>> /\ Intact' = Intact
      /\ \A c : Genuine(c)' <=> Genuine(c)
  BY ReplayMedia, ReplayFrame DEF OverInv, RecPhase
<1> SUFFICES ASSUME rpc' \in {"write", "flush"}, ~failures',
                    NEW k \in Intact, k < next', drive.kind[log[k].slot] = "store",
                    Genuine(drive.phys[log[k].slot])
             PROVE  view'[drive.phys[log[k].slot]] = before[drive.phys[log[k].slot]]
  BY <1>0 DEF BackInv
<1>1. k \in Nat /\ k >= 1 /\ log[k] \in Entries
  BY <1>0, IntactRecords
<1>2. ~(LosePower \/ RefuseReplay \/ ReplaySync \/ ReplaySyncFails \/ ReplayCrash)
  BY DEF LosePower, CanStart, RefuseReplay, ReplaySync, ReplaySyncFails, ReplayCrash, replay
<1>3. ~StartReplay
  BY <1>1 DEF StartReplay
<1>4. Replay /\ ~failures
  BY <1>2, <1>3 DEF ReplayStep, ReplayFails, Replay, FailuresSoFar
<1> DEFINE s == log[next].slot
           x == Blocks(log[next])
           c == drive.phys[log[k].slot]
<1>5. /\ rpc = "write" /\ next' = next + 1
      /\ s \in Slot /\ x \in Content /\ WriteSlot(s, x)
      /\ drive.kind[s] = "store" /\ Genuine(drive.phys[s]) => x = before[drive.phys[s]]
  BY <1>0, <1>4, ReplayWrites DEF Replay
<1>6. c \in Slot
  <2>1. log[k].slot \in Slot
    BY <1>1 DEF Entries
  <2> QED
    BY <1>0, <2>1, RunTypes DEF Drive
<1> HIDE DEF s, x
<1>7. /\ view'[c] # view[c] => drive.kind[s] = "store" /\ drive.phys[s] = c
      /\ drive.kind[s] = "store" => view'[drive.phys[s]] = x
  <2> HIDE DEF c
  <2> QED
    BY <1>0, <1>5, <1>6, WriteFrame
<1>8. CASE drive.kind[s] = "store" /\ drive.phys[s] = c
  BY <1>5, <1>7, <1>8
<1>9. CASE ~(drive.kind[s] = "store" /\ drive.phys[s] = c)
  <2>1. k # next
    BY <1>9 DEF s
  <2>2. k < next
    BY <1>0, <1>1, <1>5, <2>1
  <2>3. view[c] = before[c]
    BY <1>4, <1>5, <2>2 DEF OverInv, BackInv
  <2> QED
    BY <1>7, <1>9, <2>3
<1> QED
  BY <1>8, <1>9

\* The cells the search costs are those whose records need not be genuine.
LEMMA Excepted ==
    ASSUME EstTypeOK, NEW c
    PROVE  Lost(c) <=> ~Genuine(c)
<1>1. probes \in 0 .. MaxProbes
  BY DEF EstTypeOK
<1>2. probes > 0 <=> probes # 0
  BY <1>1
<1> QED
  BY <1>2 DEF Lost, Genuine, Missing, Stores, CellOf

\* A replay reports success only when all it should put back is back.
LEMMA NextReplayRestores ==
    ASSUME OverInv, RecPhase, ReplayStep
    PROVE  ReplayRestores'
<1>0. /\ TypeOK /\ ViewInv /\ CoveredInv /\ BackInv
      /\ UNCHANGED <<drive, before>>
      /\ \A c : (Lost(c)' <=> Lost(c)) /\ (Lost(c) \/ Genuine(c))
  <2>1. EstTypeOK /\ UNCHANGED <<drive, restoreErrors, probes>>
    BY ReplayMedia, ReplayFrame DEF OverInv
  <2>2. \A c : Lost(c)' <=> Lost(c)
    BY <2>1 DEF Lost, Straight
  <2> QED
    BY <2>1, <2>2, Excepted, ReplayMedia, ReplayFrame DEF OverInv
<1> SUFFICES ASSUME rpc' = "restored", NEW c \in Slot, ~Lost(c)
             PROVE  view'[c] = before[c] /\ (drive.fullSync => c \notin Dirty')
  BY <1>0 DEF ReplayRestores, Dirty
<1>1. ReplaySync
  <2>1. ~(StartReplay \/ RefuseReplay \/ ReplaySyncFails \/ ReplayCrash)
    BY DEF StartReplay, RefuseReplay, ReplaySyncFails, ReplayCrash
  <2>2. ~(Replay \/ ReplayFails \/ LosePower)
    BY DEF Replay, ReplayFails, AfterLast, LosePower, CanStart, replay
  <2> QED
    BY <2>1, <2>2 DEF ReplayStep
<1>2. /\ rpc = "flush" /\ ~failures /\ UNCHANGED view
      /\ maybe' = Flush(drive, maybe, view)
  BY <1>1 DEF ReplaySync, RecPhase
<1>3. ~Unreadable /\ \A k \in Intact : k < next
  BY <1>2 DEF RecPhase
<1>4. view[c] = before[c]
  <2>1. CASE c \notin Dirty
    BY <1>0, <2>1, SafeCell
  <2>2. CASE c \in Dirty
    <3>1. PICK k \in DOMAIN log : PutsBack(k, c)
      BY <1>0, <2>2 DEF CoveredInv
    <3>2. k \in Intact
      BY <1>0, <1>3, <3>1, IntactRecords DEF PutsBack, Replayable
    <3> QED
      BY <1>0, <1>2, <1>3, <3>1, <3>2 DEF BackInv, PutsBack
  <2> QED
    BY <2>1, <2>2
<1>5. drive.fullSync => c \notin Dirty'
  BY <1>0, <1>2, <1>4 DEF Flush, Dirty
<1> QED
  BY <1>2, <1>4, <1>5

\* Every step of the replay keeps what it needs.
LEMMA NextOverInv ==
    ASSUME OverInv, RecPhase, ReplayStep
    PROVE  OverInv'
<1>1. /\ TypeOK' /\ PhaseInv' /\ EstTypeOK' /\ SearchInv' /\ GenuineInv' /\ ViewInv'
  BY ReplayMedia, ReplayFrame DEF OverInv
<1>2. CoveredInv'
  <2> SUFFICES ASSUME NEW c \in Dirty', Genuine(c)' PROVE \E k \in DOMAIN log' : PutsBack(k, c)'
    BY DEF CoveredInv
  <2>1. UNCHANGED <<drive, before, log>> /\ Genuine(c)
    BY ReplayMedia, ReplayFrame DEF OverInv
  <2>2. c \in Slot /\ maybe'[c] # {before[c]}
    BY <2>1 DEF Dirty
  <2>3. c \in Dirty \/ \E k \in DOMAIN log : PutsBack(k, c)
    BY <2>1, <2>2, ReplayMedia
  <2>4. PICK k \in DOMAIN log : PutsBack(k, c)
    BY <2>1, <2>3 DEF OverInv, CoveredInv
  <2> QED
    BY <2>1, <2>4 DEF PutsBack, Replayable
<1> QED
  BY <1>1, <1>2, NextBackInv, NextReplayRestores DEF OverInv

\* A run that ends with its journal in place leaves what a replay needs.
LEMMA OverAtFirst ==
    EstBase /\ TraceInv /\ RecPhase /\ rpc = "idle" /\ Over => OverInv
<1> SUFFICES ASSUME EstBase, TraceInv, RecPhase, rpc = "idle", Over PROVE OverInv
  OBVIOUS
<1>1. TypeOK /\ PhaseInv /\ ViewInv /\ EstTypeOK /\ SearchInv /\ GenuineInv
  BY DEF EstBase, TraceInv
<1>2. mode = "check" /\ journal # "removed"
  BY <1>1 DEF Over, PhaseInv
<1>3. CoveredInv
  BY <1>2 DEF CoveredInv, TraceInv, ProbesAreRecorded
<1>4. BackInv /\ ReplayRestores
  BY DEF BackInv, ReplayRestores
<1> QED
  BY <1>1, <1>3, <1>4 DEF OverInv

\* The steps of a run and its replays.
LEMMA RecSteps ==
    ASSUME [RecNext]_everything, RInv
    PROVE  \/ ~Over /\ [EstNext]_allVars /\ UNCHANGED replay
           \/ Over /\ UNCHANGED everything
           \/ Over /\ ReplayStep
<1>1. CASE RunStep \/ UNCHANGED everything
  <2>1. [EstNext]_allVars /\ UNCHANGED replay
    BY <1>1 DEF RunStep, everything
  <2>2. CASE Over
    <3>1. UNCHANGED allVars
      BY <2>1, <2>2, OverIsFinal DEF RInv, OverInv
    <3> QED
      BY <2>1, <2>2, <3>1 DEF everything
  <2> QED
    BY <2>1, <2>2
<1>2. CASE ReplayStep
  <2>1. CASE CanStart
    BY <1>2, <2>1 DEF CanStart
  <2>2. CASE ~CanStart
    <3>1. rpc \in {"write", "flush"}
      BY <1>2, <2>2 DEF ReplayStep, LosePower, StartReplay, RefuseReplay, Replay,
                        ReplayFails, ReplaySync, ReplaySyncFails, ReplayCrash
    <3> QED
      BY <1>2, <3>1 DEF RInv
  <2> QED
    BY <2>1, <2>2
<1> QED
  BY <1>1, <1>2 DEF RecNext, ReplayStep

LEMMA NextRInv == RInv /\ [RecNext]_everything => RInv'
<1> SUFFICES ASSUME RInv, [RecNext]_everything PROVE RInv'
  OBVIOUS
<1>1. CASE ~Over /\ [EstNext]_allVars /\ UNCHANGED replay
  <2>1. EstBase' /\ TraceInv' /\ rpc' = "idle"
    BY <1>1, NextEstBase, NextTraceInv DEF RInv, replay
  <2>2. RecPhase'
    BY <1>1, <2>1 DEF RInv, replay, RecPhase
  <2>3. (EstBase /\ TraceInv /\ RecPhase /\ rpc = "idle" /\ Over => OverInv)'
    BY OverAtFirst, PTL
  <2> QED
    BY <2>1, <2>2, <2>3 DEF RInv
<1>2. CASE Over /\ UNCHANGED everything
  <2>1. Over' /\ RecPhase'
    BY <1>2 DEF RInv, Over, RecPhase, Intact, Unreadable, Torn, everything, allVars, vars,
                file, replay
  <2>2. OverInv'
    <3> USE DEF everything, allVars, vars, rigid, media, file, memory, results, wrap, undoing,
                search, probe, replay
    <3>1. /\ TypeOK /\ PhaseInv /\ ViewInv /\ EstTypeOK /\ SearchInv
          /\ GenuineInv /\ CoveredInv /\ BackInv /\ ReplayRestores
      BY <1>2 DEF RInv, OverInv
    <3>2. UNCHANGED runVars /\ UNCHANGED <<view, maybe, faults>> /\ UNCHANGED <<rpc, next, failures>>
      BY <1>2 DEF runVars
    <3>3. view' \in [Slot -> Content] /\ maybe' \in [Slot -> SUBSET Content] /\ faults' \in 0 .. MaxFaults
      BY <3>1, <3>2 DEF TypeOK
    <3>4. /\ UNCHANGED <<drive, before, mode, pc, log, journal>>
          /\ TypeOK' /\ PhaseInv' /\ EstTypeOK' /\ SearchInv' /\ GenuineInv'
          /\ (\A c : Genuine(c)' <=> Genuine(c)) /\ Intact' = Intact
          /\ UNCHANGED <<restoreErrors, probes>>
      BY <3>1, <3>2, <3>3, ReplayFrame
    <3>5. ViewInv' /\ CoveredInv'
      BY <3>1, <3>2, <3>4 DEF ViewInv, CoveredInv, Dirty, PutsBack, Replayable
    <3>6. BackInv' /\ ReplayRestores'
      BY <3>1, <3>2, <3>4 DEF BackInv, ReplayRestores, Dirty, Lost, Straight
    <3> QED
      BY <3>4, <3>5, <3>6 DEF OverInv
  <2> QED
    BY <2>1, <2>2 DEF RInv
<1>3. CASE Over /\ ReplayStep
  <2>1. OverInv /\ RecPhase
    BY <1>3 DEF RInv
  <2>2. Over' /\ RecPhase' /\ OverInv'
    BY <1>3, <2>1, ReplayMedia, ReplayFrame, NextRecPhase, NextOverInv DEF OverInv
  <2> QED
    BY <2>2 DEF RInv
<1> QED
  BY <1>1, <1>2, <1>3, RecSteps

LEMMA InitRInv == RecInit => RInv
<1> SUFFICES ASSUME RecInit PROVE RInv
  OBVIOUS
<1>1. EstBase /\ TraceInv
  BY InitEstBase, InitTraceInv DEF RecInit
<1>2. RecPhase /\ rpc = "idle"
  BY DEF RecInit, RecPhase
<1> QED
  BY <1>1, <1>2, OverAtFirst DEF RInv

LEMMA RInvHolds == RecSpec => []RInv
  BY InitRInv, NextRInv, PTL DEF RecSpec

(***************************************************************************)
(* After a replay that reports success every cell holds its original, but  *)
(* for those the search costs, wherever the run died, whatever power       *)
(* losses made of the writes that were not flushed, and however often the  *)
(* replay was cut off.                                                     *)
(***************************************************************************)
THEOREM ReplayIsComplete == RecSpec => []ReplayRestores
<1>1. RInv => ReplayRestores
  BY DEF RInv, OverInv, ReplayRestores
<1> QED
  BY <1>1, RInvHolds, PTL

\* No write of the replay takes a cell away from its original, but one that fails.
LEMMA ReplayHelps ==
    ASSUME RInv, [RecNext]_everything, rpc = "write",
           NEW c \in Slot, Genuine(c), view[c] = before[c]
    PROVE  view'[c] = before[c] \/ faults' > faults
<1>1. Over /\ OverInv /\ RecPhase
  BY DEF RInv
<1>2. TypeOK /\ GenuineInv /\ faults \in Nat
  BY <1>1, EnvironmentAssumption DEF OverInv, TypeOK
<1>3. CASE UNCHANGED view
  BY <1>3
<1>4. CASE Replay
  <2> DEFINE s == log[next].slot
             x == Blocks(log[next])
  <2>1. /\ s \in Slot /\ x \in Content /\ WriteSlot(s, x)
        /\ drive.kind[s] = "store" /\ Genuine(drive.phys[s]) => x = before[drive.phys[s]]
    BY <1>1, <1>2, <1>4, ReplayWrites
  <2> HIDE DEF s, x
  <2>2. /\ view'[c] # view[c] => drive.kind[s] = "store" /\ drive.phys[s] = c
        /\ drive.kind[s] = "store" => view'[drive.phys[s]] = x
    BY <1>2, <2>1, WriteFrame
  <2> QED
    BY <2>1, <2>2
<1>5. CASE ReplayFails
  <2>1. WriteSlotFails(log[next].slot, Blocks(log[next]))
    BY <1>5 DEF ReplayFails
  <2>2. UNCHANGED view \/ faults' = faults + 1
    BY <2>1 DEF WriteSlotFails, Fault, media
  <2> QED
    BY <1>2, <2>2
<1>6. ~(LosePower \/ StartReplay \/ RefuseReplay \/ ReplaySync \/ ReplaySyncFails)
  BY DEF LosePower, CanStart, StartReplay, RefuseReplay, ReplaySync, ReplaySyncFails
<1>7. ReplayCrash \/ UNCHANGED everything => UNCHANGED view
  BY DEF ReplayCrash, media, everything, allVars, vars
<1> QED
  BY <1>1, <1>3, <1>4, <1>5, <1>6, <1>7, RecSteps DEF ReplayStep

(***************************************************************************)
(* A replay can only help: a record of a cell that already holds its       *)
(* original does not change it, so that no order of replays, deaths and    *)
(* power losses makes the drive worse.  Only a write that fails does, and  *)
(* the record of a cell that the search costs.                             *)
(***************************************************************************)
THEOREM ReplayIsHarmless == RecSpec => ReplayNeverHarms
<1>1. ASSUME RInv, [RecNext]_everything, rpc = "write", NEW c \in Slot, view[c] = before[c]
      PROVE  view'[c] = before[c] \/ faults' > faults \/ Lost(c)
  <2>1. EstTypeOK
    BY <1>1 DEF RInv, OverInv
  <2> QED
    BY <1>1, <2>1, Excepted, ReplayHelps
<1>2. RInv /\ [RecNext]_everything =>
        [ rpc = "write" =>
            \A c \in Slot : view[c] = before[c] =>
               view'[c] = before[c] \/ faults' > faults \/ Lost(c) ]_everything
  BY <1>1
<1> QED
  BY <1>2, RInvHolds, PTL DEF RecSpec, ReplayNeverHarms
=============================================================================
