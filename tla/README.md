# A verification project for checkdrive

checkdrive decides whether a USB drive holds what it claims. It reads the blocks at a set of
sampled locations into an undo journal, overwrites them with patterns bound to their addresses,
reads them back, looks for folded addresses, writes the originals back and removes the journal.
This directory holds TLA+ modules that model that program, TLC configurations that check them on
small instances, and TLAPS proofs of what matters most for every instance. Line numbers refer to
the files of the repository.

## Inventory

| Part | State it keeps | Operations | What makes it hard | What makes it correct |
| --- | --- | --- | --- | --- |
| Scan engine, `run.go` `runScan` | per-sample verdicts, originals, written flags, restore errors | read, journal, write, flush, reopen, verify, sweep, restore | every device call may fail, the process may die anywhere, the drive lies | user data stays recoverable; a pass is earned; verdicts mean what they say |
| Undo journal, `journal.go` | a header and a sequence of records | create, record, close, discard, read back | torn tails, failed appends, flush order | an original is on file before its block changes; what is read back is a prefix of what was recorded |
| Drive, `device.go`, `device_darwin.go`, `fake_test.go` | cells behind addresses, a write cache | read, write, flush, reopen | folds, drops, zeroes, rejects, does not flush | nothing: it is the adversary |
| Probe plan, `plan.go` | none | `buildPlan`, `chooseStride` | alignment, rounding, last block, collisions under a fold | samples aligned, in range, disjoint, last block covered, folds that are multiples of the stride collide |
| Wrap sweep, `run.go` `detectWrap`, `wrapCandidates` | modulus and echo | probe candidates in order | candidates that divide the real fold, trimmed list | a report is a real fold |
| Capacity estimate, `run.go` `estimateCapacity` | bounds of the search, probes | probe, journal, write back | runs after the restore, journals again, ignores flush errors | estimate within a sample of the truth; probes leave no trace |
| Restore, `main.go` `doRestore` | none | replay the journal | interrupted, repeated, stale journal | all originals back after a replay that reports success |
| Command, `main.go` `doCheck`, `checkSafety`, `confirm` | what was probed, the open device, the journal path, exit status | probe, unmount, probe again, confirm, create the journal, open, scan, remount | drives and volumes change between any two calls; commands follow killed commands | writes only to a drive that was confirmed and is not refused; data is on its drive or in a journal |
| Speed survey, `speed.go` `buildSpeedPlan`, `runSpeedSurvey`, `summarizeSpeed` | zones, bytes and times, errors | place zones, read them, summarise | overflow, rounding, short drives, failing reads | nothing is read twice; the zones span the drive; status and headlines are earned |
| Command line, `main.go` `parseSize` | none | turn a text into a size | wrap-around, texts that are only a unit | no zone is longer than was asked for |
| Report, `report.go` | statistics | verdict line, buckets | percentiles, empty input | exit status agrees with the verdicts |

The parts interact by calls. `doCheck` probes and unmounts the disk, asks for confirmation, creates
the journal, opens the device, and calls `runScan`, which calls the plan, the device, the journal,
the sweep and the estimate; `doCheck` then removes or keeps the journal by what `runScan` reports.
`doRestore` shares nothing with a run but the journal file and the drive. There is one thread:
what interleaves with it is the drive's cache, the failures of calls, and the end of the process.

## Modules

| Module | Models | Composes |
| --- | --- | --- |
| `BlockDevice` | the drive behind `blockDevice`, its misbehaviour and its write cache | |
| `UndoLog` | abstractly: what an undo journal promises | |
| `Scan` | `runScan`, and what `doCheck` does with the journal | `BlockDevice`; implements `UndoLog` |
| `Estimate` | `estimateCapacity`, one action per I/O of a probe | extends `Scan`; its steps are `Scan`'s with the search before the end |
| `Recovery` | `doRestore`, after a run and power losses | extends `Estimate` |
| `Journal` | the journal file by bytes, `record` and `readJournal` | the reason for what `Recovery` says of torn records |
| `Plan` | `buildPlan`, `chooseStride` | its `WellPlaced` is `PlanAssumption` of `Scan` |
| `WrapSweep` | `detectWrap`, `wrapCandidates` with their arithmetic | the sweep of `Scan` for given `Folds` |
| `Command` | `doCheck`, `doRestore` and `doSpeed` around the engine, one command after the other | `Scan` appears by its effect on the drive and its journal |
| `Sizes` | `parseSize`, `alignUp`, `alignDown` in integers of the machine's width | |
| `Speed` | a survey from its command line to its report | extends `Sizes` |
| `MCScan`, `MCEstimate`, `MCRecovery`, `MCPlan`, `MCWrapSweep`, `MCCommand`, `MCSpeed` | instances for TLC | |
| `ScanProofs`, `JournalProofs`, `PlanProofs`, `WrapSweepProofs`, `CommandProofs`, `SpeedProofs` | theorems | each extends the module it is named for |
| `RecoveryProofs` | theorems about `Estimate` and `Recovery` | extends `Recovery` and `ScanProofs` |
| `Divisibility` | lemmas about remainders, quotients and powers of two | used by the other modules with proofs |

### How state and actions correspond to the code

*Slots and cells.* Every transfer of a scan is `SampleSize` bytes at a multiple of `SampleSize`, so
the drive is a row of slots. A drive maps slots to cells (`phys`) and treats writes in one of four
ways (`kind`), as the modes of `fake_test.go` do. `view[c]` is what a read of cell `c` returns,
`maybe[c]` all it may hold if the power fails: a write adds the new contents and a mixture of old
and new, a full flush leaves `view[c]` alone, a plain `fsync` leaves everything as it was.
Contents are user data, zeros, garbage, or the pattern of a slot: `fillPattern` binds a pattern to
its address and the seed, and that two such patterns differ is taken as given.

*Scan.* `pc` is the phase of `runScan`, `cur` the index of the loop it is in. Each action is one
iteration or one call: `ReadOriginal`, `ReadOriginalFails`, `RecordFails` are phase 1;
`WritePattern` and its failure, `SyncWrites`, `Reopen` phase 2; `Verify` phase 3, in any order
since the code shuffles it; `FindEcho`, `PassCandidate` the sweep; `Restore`, `SyncRestore` phase
4; `KeepJournal`, `DiscardJournal` are `doCheck`. `SyncWritesFails` goes to the restore and keeps
the error, as the code does. `Crash` is possible before any step, and in the middle of an append.
Guards that a plausible bug would get wrong are operators of their own (`MayOverwrite`,
`MustRestore`, `MayDiscard`, `Classify`, ...), and each module lists, as "mistakes", the forms such
bugs would give them. The runs are repeated with a mistake in place of the decision, and must fail.

*Estimate.* `est` says whether the search has not begun, runs or is over; `lo`, `hi`, `probes`
are those of the code, counted in slots from `First`; `at` is the next I/O of the probe. Errors the
code ignores (`sync` and `reopen` in a probe) are nondeterministic and go unnoticed, except that a
failed `reopen` leaves the device closed, so that the restore fails.

*Recovery.* `rpc`, `next`, `failures` are the loop of `doRestore`. Between a run and a replay, or
two replays, `LosePower` lets any cell fall back to anything it may hold. Of torn records it takes
from `Journal` that one followed by a whole record makes the file unreadable, and that one that is
not may be dropped or refused, always the same way for the same file.

*Journal.* The file is a sequence of pieces, one for each call of `record`, with the number of
bytes that reached the file. A piece may be cut off at any byte, by a failed write or by a crash.
A panic may also garble a piece that was not flushed, since length and bytes of a file reach the
disk apart: the record then has its full length and a wrong field. And one field of the file may be
damaged while it lies there (`damaged`). Each way an iteration of `readJournal` can go is an action.
`phase = "probing"` is the capacity search, the one place that appends after a failure. What is
taken as given: a panic garbles one piece, a panic or damage one field of it, and the checksum of
data that is not what was recorded does not match. The checksum is of the data only, so a wrong
offset that is in range and aligned (`"place"`) is accepted, and the data handed over under it: that
is how the code is, and no property says otherwise of a damaged file or of a record that was never
acknowledged.

*Plan, WrapSweep.* One behaviour is one call. Offsets are in bytes of a drive scaled down; the
doubling loop and the loop over candidates take a step per iteration; the random phase is any value
the generator can give. `WrapSweep` takes the drive's fold and all the sizes as parameters.

*Command.* `pc` is the next call of the command to `diskutil`, to the person, to the journal or to
the drive; between any two of them `Attach` and `VolumesChange` let another drive come to be
attached under the identifier and volumes come and go, and `Killed` ends the process. `c` holds the
local variables: the drive probed last, the rounded sample size, the journal path, the drive the
open device leads to, what was read from which drive. `o` is the command line. The scan is six
calls: `SaveOriginals`, `WritePatterns`, `Reopen` (which goes by the path, so possibly to another
drive), `PutBack`, and the failures. A drive holds its own data or other data, a journal has saved
the one or the other; what is between is `Scan`. `h` is history for the properties: who was shown,
what was written, and which drives came to be attached since the last probe (`came`), which nothing
in the code could notice. `waived` are the drives nothing is promised for: written with
`-journal none`, or exchanged for one another behind an open device or before a replay.

*Speed.* One survey is one behaviour. `req` is the command line with size and block size of the
drive; sizes are the texts `parseSize` takes apart, and all arithmetic on them wraps at `Limit` as
that of `int64` does at 2^63, with division truncated (`Quot`, `Rem`). Each transfer is an action
that takes some time or fails; `seen` is the set of addresses read. `Summarize` is an iteration of
the loop of `summarizeSpeed`, and rates are compared by cross-multiplication. A clock that has not
moved gives a transfer no time; a zone that took none has rate 0 (`speed.go:224`), so that it
counts as the slowest.

## Runs

| Run | Shows | Bounds, and why they are enough |
| --- | --- | --- |
| `scan` | Data stays recoverable at every step (`Recoverable`), the journal goes only when all is back (`DiscardOnlyWhenClean`), a run without a restore error has changed nothing (`CleanUnlessReported`), a pass is earned (`NoFalsePass`, `HonestPasses`), verdicts mean what they say (`VerdictsAreJust`), a fold report is real (`FoldReportIsReal`), the journal is used as an undo log (`ImplementsUndoLog`), what was written is restored or reported (`WrittenIsRestored`) | 6 slots, 3 samples, so that folds put two or three of them on a cell or reach cells that are not sampled; 14 drives of every kind; distinct, blank and repeated user data; every mode; 2 I/O errors, which is enough for one to be met while recovering from another |
| `journal` | Nothing reported as saved is lost silently (`NothingSavedIsLost`); a crash or a failed append leaves what was reported as saved as it was recorded, or the journal is refused for a piece that was not (`SavedAreIntact`); the torn record of a sound file is dropped and all others are kept (`TornRecordIsDropped`) | 3 calls of `record`, samples of 2 bytes, every byte at which a record can end: a torn record alone, last, or between others; one garbled piece and one damaged field |
| `plan` | Samples in range, aligned and apart, the last slot covered, folds at multiples of the stride collide, the stride is closest to the count | every request with a drive of up to 40 bytes, samples of up to 4, also not a power of two; invalid requests too |
| `wrapsweep` | Only folds are reported, and every fold at a candidate is caught, whole gigabytes in spite of the trimming | every claimed size from 6 to 140 and every real size, with units that are to each other as those of the code are (`UnitsAssumption`); 8 candidates kept, so that trimming happens and reaches just below the smallest gigabyte; one failing read |
| `estimate` | The probes are undo-logged and leave no trace; the estimate brackets the boundary of a drive that fails from some slot on | 8 slots, 2 samples, every boundary between, 3 probes, 2 I/O errors, a crash at any I/O. Three probes are what a range of 6 needs, as 48 are for any drive |
| `recovery` | A replay that reports success has restored every cell that the search has not cost, whatever died before it; no step of it undoes good | 7 slots, 2 samples, 2 I/O errors over the run and all replays, any number of replays and power losses |
| `command` | Over commands in any order: data is on its drive or in a journal (`NothingMissingUnlogged`), what is written is the drive that was probed last, after it was confirmed, or one that came since (`WritesAreConsented`); the former is not one to be refused (`RefusalsHold`), and replays and samples fit it (`ReplayFits`, `AlignedToDrive`) | 3 commands, so that a check that was killed is followed by another check, and that by a replay; 2 events, to exchange a drive and exchange it back; 4 drives that differ in size, block size and kind; 2 journal paths; 8 command lines |
| `speed` | No block is read twice (`NothingReadTwice`), the zones span the drive (`SpansTheDrive`), none is longer than asked for (`NoZoneIsLonger`), status and headlines agree with what was read (`StatusIsEarned`, `HeadlinesAreRight`) | drives of 0 to 12 bytes and blocks of 1 or 2, up to 5 zones, so that shares round down to nothing and zones are dropped; integers that hold 31 and sizes beyond that; transfers that take no time by the clock or a tick |
| `journal_torn`, `estimate_boundary`, `recovery_refused`, `command_unconfirmed` | the divergences below | as the run of the module |

Deadlock is not checked: a run, a call, a replay, a survey and a series of commands end.

What properties leave out, because the code does not give it:

- `ReplayRestores` and `ReplayNeverHarms` except, cell by cell, what the search costs (`Lost`): on a
  drive that folds, the cells of samples that could not be put back before the search began and
  probed. Such a search can record a pattern as an original, see the end of the next section. All
  other cells of the same drive are restored.
- `WritesAreConsented`, `RefusalsHold`, `ReplayFits` and `AlignedToDrive` are about the drive probed
  last. The code does not look again between the confirmation and the opening, so that a drive that
  came since (`h.came`) is written without being asked about. What the properties rule out is that
  any drive is written which was there earlier, at the first probe or during the unmount, and that
  what was found out about it is used for another. A replay with `-read-only` asks nobody either:
  `WritesAreConsented` excepts it, and the run `command_unconfirmed` shows it.
- `NothingMissingUnlogged` is not about the drives in `waived`.
- `NothingReadTwice` and `SpansTheDrive` are about surveys of drives times zones below 2^63
  (`NoOverflow`), where the placement does not overflow.
- `EstimateBrackets` is about runs without I/O errors: any error makes a good slot count as bad.

*Fairness.* Only `WrittenIsRestored` needs it: weak fairness of `Step`, all steps of the engine
but a crash. The engine is a single thread of loops over finite lists, and every call it makes
returns, with or without an error; what hangs in a call for ever is outside of the model.

## Divergences found

| Run | The code | What is said |
| --- | --- | --- |
| `journal_torn` | a final record that ends within its first eight bytes makes `readJournal` refuse the journal (`journal.go:159`, `io.ErrUnexpectedEOF` is not `io.EOF`) | "a torn final record ... is dropped rather than treated as corruption" (`journal.go:115`) |
| `recovery_refused` | after a failed append a probe goes on to append behind the partial record and overwrites its slot; the journal can no longer be read (`run.go:288`) | "every original block is flushed to the undo journal before the device is touched ... replay it" (`README.md:186`) |
| `estimate_boundary` | the first probe above the capacity of a drive that rejects writes there cannot be restored either, which ends the search (`run.go:308`) | "finds it to within one sample" (`run.go:238`), on devices that "error above their real capacity" (`docs/design.md:74`) |
| `command_unconfirmed` | `confirm` returns at once with `-read-only`, and `doRestore` writes whatever `-read-only` says (`main.go:489`) | "the target's identifier has to be typed to confirm unless `-yes`" (`docs/design.md:120`) |

Met while modelling, without a run of their own:

- With the last slot pinned off the lattice, folds between the lattice and it need not collide
  (`plan.go:61`; `plan.go:31` says "guaranteed for any real capacity that is a multiple of the
  stride"). `FoldsCollide` is about the lattice.
- The first candidate with the same echo is reported, which can be smaller than the fold
  (`run.go:372`; `docs/design.md:70` says "a hit pins the fold point exactly"). The modulus taken
  for the capacity can also be a multiple of what the drive holds (`run.go:258`).
- The capacity search starts although a sample is missing, can record its pattern under another
  address of the same block, and a replay then writes that last (`run.go:192`, `284`), before it
  says that the journal "can now be deleted" (`main.go:463`).
- `-samples 1` lays a sample at every slot of the drive (`plan.go:97`), which is why
  `ClosestToCount` asks for more than one.
- A drive caught folding by the lattice but not by the sweep is explained as "failing or damaged
  media", since good and bad samples interleave and that is looked for first (`run.go:262`).
- Without `F_FULLFSYNC` the journal can go while a power loss may still undo the restore
  (`device.go:17`; the repository's `README.md` mentions the fallback).
- A plan that cannot be built, or a device that cannot be opened, leaves a journal without records
  behind, which then blocks its path.
- After an error, or a confirmation that was refused, the volumes that were unmounted are not
  mounted again, and `-restore -remount` never mounts anything (`main.go:94`).
- `reopen` goes by the path (`run.go:157`): a drive exchanged at that moment is given the originals
  of the other, the restore counts as complete, and the journal is removed.
- The exit status ignores restore errors (`report.go:128`); the journal is then kept.
- `-size B` panics (`main.go:541`), and sizes beyond 63 bits wrap around without a word
  (`main.go:556`).
- When so many zones are dropped that one is left, it lies at the start of the drive only
  (`speed.go:151`), which is why `SpansTheDrive` asks for two.

## What is proved

For every number of slots, every drive, every placement of samples that is ascending, every media
and any number of faults (`SlotsAssumption`, `PlanAssumption`, `EnvironmentAssumption`):

- `TypeCorrect`: the type invariant of `Scan`.
- `Inductive`: the invariant `IInv` the others rest on. `Recoverable` is not inductive. That a cell
  is dirty only if a written sample stores to it (`CellInv`) has to be known with the fact that
  such a sample, or one about to be written, has its original in its buffer and in a whole record
  (`BackupInv`), that nothing else is ever recorded (`LogInv`), and that nothing was written before
  all was read (`PhaseInv`): on a folding drive a record of anything read later would be wrong.
- `WriteAhead`: `Recoverable`, from those.
- `SafeDiscard`, `NonDestructive`: `DiscardOnlyWhenClean` and `CleanUnlessReported`. The restore
  passes over the samples in order; `RestoringInv` says that the cells behind it are back
  or of a sample it failed to write (`Missing`), which holds on a folding drive because two
  originals of one cell are equal, and `RestoredInv` that after it and its flush all are back if
  there was no error.
- `PassIsEarned`: `NoFalsePass`. A pattern is found only in the cell of the sample it belongs to
  (`PatternInv`), so reading it back shows that the cell is that sample's and no other's (`OkInv`).
- `FoldIsReal`: `FoldReportIsReal`.
- `VerdictsAreEarned`: `VerdictsAreJust`. Before the restore a cell holds what it held, a pattern,
  or garbage of a failed write (`MediaInv`), and a sample without a verdict has been written, which
  shows if its writes reach a cell (`WroteInv`). What is read back for it then has one explanation.
- `NoFalseAlarm`: `HonestPasses`, from the verdicts, `NonDestructive` and `FoldIsReal`, with the
  causes an error can have (`ErrorInv`) and that a run that ends has decided on all samples.
- `RunIsUndoLogged`: `ImplementsUndoLog`. Initial states map to initial states and each step of a
  run to a step of `UndoLog` or to none, under `IInv` and that a read returns something a power
  loss could leave (`ViewInv`).

- `RunIsProtected`: the cells are protected as `UndoLog` promises, since its steps keep that
  (`UndoLogProtects`) and a run takes no others.

For every search for the capacity, whatever the drive, the plan and the number of probes and faults
(`RecoveryProofs`; `SearchAssumption` says that the probes lie between the first slot that may be
touched and the last, which is sampled):

- `EstTypeCorrect`: `EstTypeOK`. Its invariant `EstBase` says in which phases there is a search and
  what a probe may rely on at each of its steps (`SearchInv`). While there is none the steps are
  those of `Scan`, and what `ScanProofs` shows of them holds (`ScanInv`).
- `ProbesWriteAhead`, `ProbesAreRecorded`, and `SafeDiscardAfterSearch`, `ProbesLeaveNoTrace`.
  Neither is inductive, because a probe journals what it finds. `TraceInv` adds to them that a cell
  departs from its original only under the probe of the moment or where the scan has left it so
  (`DepartInv`), hence that what a probe reads, journals and puts back is an original (`OrigInv`,
  `RecordedInv`), that after full flushes only the cell of the probe can change in a power loss
  (`DurableInv`), and that no sample lies strictly between the bounds (`SampledInv`). `GenuineInv`
  says that all records are of originals, but for those of the cells that the search costs.
- `EstimateIsSound`: `EstimateBrackets`. `BracketInv` says that the boundary of the drive is between
  the bounds, and what each step of a probe finds on a drive with such a boundary; `WidthInv` that
  the probes to go are enough to bring the bounds together, because the distance between them is
  halved each time. That takes `ProbesAssumption`: doubling `MaxProbes` times reaches the size of
  the drive, as 48 doublings do for every drive there is.

For every run, and any number of replays, interruptions and power losses after it:

- `ReplayIsComplete`, `ReplayRestores`. While the run goes on the invariant is that of the search.
  When it is over, `CoveredInv` says that every cell that may not hold its original has it in an
  intact record, whatever power losses and replays have done since, and `BackInv` that what a
  replay has passed without a failure is back, on a folding drive too since all records of a cell
  are equal. Both are about the cells whose records are genuine, which are all but those that the
  search costs; on a drive that does not fold, that is every cell.
- `ReplayIsHarmless`: `ReplayNeverHarms`, from the same invariant.

For every sequence of records, damage and cut in the file (`JournalProofs`): `TypeCorrect`;
`SavedIsThere`, `NothingSavedIsLost`; `SavedComesBack`, `SavedAreIntact`; `TornTailCostsItself`,
`TornRecordIsDropped`. The invariant says that
what was acknowledged lies whole within what has been flushed, which neither a failed append nor a
crash can cut or garble, and that what the reader has handed over is a prefix of the file whose records
are all whole and accepted.

For every request to `buildPlan` (`RequestsAssumption`), in `PlanProofs`: `TypeCorrect`,
`PlansAreWellPlaced`, `LastSlotIsSampled`, `StrideFoldsCollide`, all from one invariant that
carries the alignment of the bounds, the stride and the phase through the steps, and from lemmas
about rounding up and down. The first of them is what `Scan` assumes of a plan. `StrideIsClosest`,
`ClosestToCount`: the doubling stays a power of two and below the target (`DoubleInv`), so that each
power of two is no more than the one it ends at or no less than twice that (`PowersApart`), and
lands no closer than one of the two (`BestOfTwo`).

For every claimed and real size (`WrapSweepProofs`): `TypeCorrect`; `NoFalseAccusation`,
`OnlyFoldsAreReported`; `KeptFoldsAreCaught`, `CandidateFoldsAreCaught`; `GigabytesAreCaught`,
`GigabyteFoldsAreCaught`. The invariant says that the candidate at which the drive folds is not
passed over before a fold is found, unless a read has failed, and that the fold found is no larger.
That gigabytes are among the candidates kept is a matter of counting: above one there are only
other gigabytes, since the multiples of a MiB end below and the powers of two there are multiples
of a GiB (`PowersDivide`), and there are 1024 gigabytes at most (`UnitsAssumption`, which the
constants of `run.go:380` fulfil).

For every set of drives, command lines and journal paths, any number of commands and events
(`CommandProofs`): `TypeCorrect`; `NothingIsLost`, `NothingMissingUnlogged`; `WritesAreConfirmed`,
`WritesAreConsented`; `RefusalsAreKept`, `RefusalsHold`; `ReplaysFit`, `ReplayFits`;
`SamplesAreAligned`, `AlignedToDrive`. The invariant says what each point of a command may rely on
unless a drive came to be attached since the last probe, and that the journal of a drive that lacks its
data is never given to another run, since an existing file is never opened.

For every survey, every drive and every width of the integers (`SpeedProofs`): `TypeCorrect`;
`EveryReadIsFresh`, `NothingReadTwice`; `WholeDriveIsSpanned`, `SpansTheDrive`; `ZonesAreNoLonger`,
`NoZoneIsLonger`; `StatusIsTrue`, `StatusIsEarned`; `HeadlinesAreTrue`, `HeadlinesAreRight`. The
zones are apart because the length of one is at most a share of the drive and their starts are a
share apart, rounded down to blocks of which both are multiples; that is arithmetic on remainders,
stated once in `Divisibility`.

## What is only checked

- `WrittenIsRestored`: liveness under fairness is out of the prover's reach. All other properties
  of the passing runs are proved.
- That the runs of the last row are violations: a counterexample is TLC's to find.

Facts about powers of two are shown without induction over data, by looking at the smallest number
for which one would fail (`SmallestNumber` in `Divisibility`).

## What is not modelled, and why

- `listDisks` and the parsing of what `diskutil` prints (`device_darwin.go`): text without state;
  the calls themselves, and the ioctls, appear by what they do to the drive and its volumes.
- Flags other than the ones `Command` names, report layout, percentiles and buckets, JSON,
  progress (`report.go`, `main.go`): output and parsing without state.
- Seeds and the random generators: every phase and every order they can give is allowed.
- 64-bit overflow of the offsets of a scan: no drive is that large; the candidates and the plan
  stay far below. Sizes from the command line do overflow, in `Sizes`.
- Damaged and garbled records are in `Journal`, not in `Recovery`: there a record is whole or torn.
- That the directory entry of a new journal is not flushed (`journal.go:47`), and the file system
  below: a file that was created exists.

## Plan

Done: the engine and its journal, the plan, the sweep, the estimate, the replay, the commands and
the survey, and the theorems above. What is left:

1. That a run with its search implements `UndoLog`, as the scan alone does.
2. `Command` as an abstraction of `Scan`: its six calls of the engine as a refinement mapping.
