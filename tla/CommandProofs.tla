---------------------------- MODULE CommandProofs ----------------------------
(***************************************************************************)
(* What holds of any number of commands, drives, journals and exchanges of *)
(* drives: nothing is lost without a journal, and of the drives that were  *)
(* there at the last probe only the one confirmed is written, which is not *)
(* refused and fits.                                                       *)
(***************************************************************************)
EXTENDS Command, TLAPS

-----------------------------------------------------------------------------
(***************************************************************************)
(* The inductive invariant: first where a command is, then what is on      *)
(* drives and in journals, then what is known of the drive.                *)
(***************************************************************************)
Scanning == {"save", "write", "reopen", "undo", "finish", "remount"}

Opened == Scanning \cup {"replay", "survey"}

\* What the path of a command says of its options and its journal.
WayInv ==
    /\ pc \in {"journal"} \cup Scanning => Check
    /\ pc = "replay" => Restore
    /\ pc = "journal" => Journaled
    /\ pc \in {"write", "reopen", "undo"} => ~o.readOnly
    /\ pc # "idle" /\ ~Restore =>
          /\ c.path # None => Journaled
          /\ pc \in {"probe", "unmount", "reprobe", "confirm", "journal"} => c.path = None
    /\ pc # "idle" /\ Restore => c.path \in Paths

\* The new journal has nothing, then what is in memory; a replayed one has data.
JournalInv ==
    /\ pc # "idle" /\ Restore => journals[c.path].saved \in {"own", "other"}
    /\ pc \in {"open", "save"} /\ ~Restore /\ c.path # None =>
          journals[c.path].saved = "nothing"
    /\ pc \in {"write", "reopen", "undo"} /\ c.path # None =>
          journals[c.path].drive = c.mem.drive /\ journals[c.path].saved = c.mem.what

\* What is in memory is what the drive holds until it is written.
MemoryInv ==
    /\ pc = "write" => c.mem.drive = c.fd /\ c.mem.what = holds[c.fd]
    /\ pc \in {"reopen", "undo"} => c.mem.drive \in Drives /\ holds[c.mem.drive] = "other"

\* A journal that may go protects nothing any more.
FinishInv ==
    (/\ pc = "finish" /\ c.run = "clean" /\ c.path # None
     /\ journals[c.path].saved = "own") =>
            journals[c.path].drive \in waived \/ holds[journals[c.path].drive] = "own"

\* Journals that outlive the running command.
Lasting(q) == pc = "idle" \/ Restore \/ q # c.path

\* Where a journal has patterns for originals, another one has the originals.
LogInv ==
    \A p \in Paths :
        /\ journals[p].saved \in {"own", "other"} => journals[p].drive \in Drives
        /\ journals[p].saved = "other" /\ journals[p].drive \notin waived =>
              \E q \in Paths : /\ journals[q].drive = journals[p].drive
                               /\ journals[q].saved = "own" /\ Lasting(q)

DataInv == JournalInv /\ MemoryInv /\ FinishInv /\ LogInv /\ NothingMissingUnlogged

\* The drive that is open is the one probed last, or one that came since.
TargetInv ==
    /\ pc \notin {"idle", "probe"} =>
          c.info \in Drives /\ attached \in {c.info, None} \cup h.came
    /\ pc \in {"probe", "unmount", "reprobe", "confirm", "journal", "open"} =>
          c.fd = None /\ h.wrote = {}
    /\ pc # "idle" => c.fd \in {c.info, None} \cup h.came

\* What was asked of the drive probed last has been answered.
ChecksInv ==
    /\ pc \notin {"idle", "probe"} =>
          /\ o.force \/ (~Attr[c.info].internal /\ Attr[c.info].whole)
          /\ Restore => o.force \/ Attr[c.info].size = journals[c.path].size
    /\ pc \in {"journal", "open"} \cup Opened => (Asks => h.shown = c.info)
    /\ pc \in {"write", "reopen", "undo"} => c.sample % Attr[c.info].block = 0

WrittenInv == WritesAreConsented /\ RefusalsHold /\ ReplayFits /\ AlignedToDrive

IInv == TypeOK /\ WayInv /\ DataInv /\ TargetInv /\ ChecksInv /\ WrittenInv

-----------------------------------------------------------------------------
(***************************************************************************)
(* Types.                                                                  *)
(***************************************************************************)

\* The sizes, blocks and flags of a drive.
LEMMA AttrFacts ==
    ASSUME NEW d \in Drives
    PROVE  /\ Attr[d].size \in Nat /\ Attr[d].block \in Nat /\ Attr[d].block > 0
    BY CommandAssumption

\* The options of a command.
LEMMA RequestFacts ==
    ASSUME NEW r \in Requests
    PROVE  /\ r.mode \in {"check", "restore", "speed"} /\ r.sample \in Nat
           /\ r.path \in Paths \cup {None}
           /\ r.mode = "restore" => r.path \in Paths
    BY CommandAssumption

\* The sample size is rounded to a number.
LEMMA RoundedFacts ==
    ASSUME NEW d \in Drives, o \in Requests
    PROVE  Rounded(d) \in Nat
<1> DEFINE b == Attr[d].block
           s == o.sample
<1>1. b \in Nat /\ b > 0 /\ s \in Nat
    BY AttrFacts, RequestFacts
<1> HIDE DEF b, s
<1>2. s % b \in 0 .. b - 1
    BY <1>1
<1>3. s + b - (s % b) \in Nat
    BY <1>1, <1>2
<1> QED
    BY <1>1, <1>3 DEF Rounded, b, s

Files == [drive : Drives \cup {None}, size : Nat,
          saved : {"absent", "nothing", "own", "other"}]

\* At first everything has its type.
LEMMA InitType == Init => TypeOK
<1> SUFFICES ASSUME Init PROVE TypeOK
    OBVIOUS
<1>1. o \in Requests
    BY CommandAssumption DEF Init
<1>2. c \in [info : Drives \cup {None}, sample : Nat, path : Paths \cup {None},
             fd : Drives \cup {None},
             mem : [drive : Drives \cup {None}, what : {"own", "other"}],
             run : {"clean", "missing", "error"}]
    BY DEF Init, Fresh
<1>3. h \in [came : SUBSET Drives, shown : Drives \cup {None}, wrote : SUBSET Drives]
    BY DEF Init, Nothing
<1>4. journals \in [Paths -> Files]
    BY DEF Init, NoFile, Files
<1> QED
    BY <1>1, <1>2, <1>3, <1>4 DEF Init, TypeOK, Points, Files

Locals == [info : Drives \cup {None}, sample : Nat, path : Paths \cup {None},
           fd : Drives \cup {None},
           mem : [drive : Drives \cup {None}, what : {"own", "other"}],
           run : {"clean", "missing", "error"}]

Deeds == [came : SUBSET Drives, shown : Drives \cup {None}, wrote : SUBSET Drives]

\* Every step keeps the types.
LEMMA TypeStep ==
    ASSUME TypeOK, WayInv, TargetInv, JournalInv, MemoryInv, Next
    PROVE  TypeOK'
<1>1. /\ attached \in Drives \cup {None} /\ mounted \subseteq Drives /\ waived \subseteq Drives
      /\ holds \in [Drives -> {"own", "other"}] /\ journals \in [Paths -> Files]
      /\ pc \in Points /\ o \in Requests /\ c \in Locals /\ h \in Deeds
      /\ status \in {"none", "running", "pass", "fail", "error", "killed"}
      /\ pc \in {"save", "write", "undo", "replay"} => c.fd \in Drives
    BY DEF TypeOK, Files, Locals, Deeds
<1>2. ASSUME NEW d \in Drives \cup {None}, Attach(d) PROVE TypeOK'
  <2>1. mounted' \subseteq Drives /\ attached' \in Drives \cup {None}
      BY <1>1, <1>2 DEF Attach
  <2>2. h' \in Deeds
      BY <1>1, <1>2 DEF Attach, Deeds
  <2>3. UNCHANGED <<files, pc, status, o, c>>
      BY <1>2 DEF Attach
  <2> QED
      BY <1>1, <2>1, <2>2, <2>3 DEF files, TypeOK, Files, Locals, Deeds
<1>3. CASE VolumesChange
    BY <1>1, <1>3 DEF VolumesChange, files, TypeOK, Files, Locals, Deeds
<1>4. CASE Killed
    BY <1>1, <1>4 DEF Killed, Exit, Fresh, Nothing, world, files, TypeOK, Files, Locals, Deeds, Points
<1>5. ASSUME NEW r \in Requests, Start(r) PROVE TypeOK'
    BY <1>1, <1>5, RequestFacts DEF Start, Exit, Fresh, Nothing, world, files, TypeOK, Files,
       Locals, Deeds, Points
<1>6. CASE Fail \/ RunFailed \/ ReplayFails \/ Survey \/ NothingReadable
    BY <1>1, <1>6 DEF Fail, RunFailed, ReplayFails, Survey, NothingReadable, Exit, Goto, world,
       files, TypeOK, Files, Locals, Deeds, Points
<1>7. CASE Probe
    BY <1>1, <1>7, RoundedFacts DEF Probe, Exit, Goto, world, files, TypeOK, Files, Locals,
       Deeds, Points
<1>8. CASE Unmount
    BY <1>1, <1>8 DEF Unmount, Goto, files, TypeOK, Files, Locals, Deeds, Points
<1>9. CASE Reprobe
    BY <1>1, <1>9 DEF Reprobe, Exit, Goto, world, files, TypeOK, Files, Locals, Deeds, Points
<1>10. CASE Confirm
    BY <1>1, <1>10 DEF Confirm, Goto, world, files, TypeOK, Files, Locals, Deeds, Points
<1>11. CASE NewJournal
    BY <1>1, <1>11, AttrFacts, RequestFacts DEF NewJournal, Goto, world, files, TypeOK, Files,
       Locals, Deeds, Points, WayInv, Journaled, TargetInv
<1>12. CASE OpenDevice
    BY <1>1, <1>12 DEF OpenDevice, CanOpen, Goto, world, files, TypeOK, Files, Locals, Deeds,
       Points
<1>13. CASE SaveOriginals
    BY <1>1, <1>13 DEF SaveOriginals, Saved, There, Goto, world, files, TypeOK, Files, Locals,
       Deeds, Points
<1>14. CASE RunEndsEarly
    BY <1>1, <1>14 DEF RunEndsEarly, Saved, Exit, world, files, TypeOK, Files, Locals,
       Deeds, Points
<1>15. CASE WritePatterns
    BY <1>1, <1>15 DEF WritePatterns, Goto, world, files, TypeOK, Files, Locals, Deeds, Points
<1>16. CASE Reopen
    BY <1>1, <1>16 DEF Reopen, CanOpen, Goto, world, files, TypeOK, Files, Locals, Deeds, Points
<1>17. CASE PutBack
    BY <1>1, <1>17 DEF PutBack, Goto, world, files, TypeOK, Files, Locals, Deeds, Points,
       MemoryInv
<1>18. CASE PutBackFails
    BY <1>1, <1>18 DEF PutBackFails, Goto, world, files, TypeOK, Files, Locals, Deeds, Points
<1>19. CASE Finish
    BY <1>1, <1>19 DEF Finish, NoFile, Goto, world, files, TypeOK, Files, Locals, Deeds, Points
<1>20. CASE Remount
    BY <1>1, <1>20 DEF Remount, Exit, files, TypeOK, Files, Locals, Deeds, Points
<1>21. CASE Replay
    BY <1>1, <1>21 DEF Replay, Exit, world, files, TypeOK, Files, Locals, Deeds, Points,
       WayInv, JournalInv
<1> QED
    BY <1>2, <1>3, <1>4, <1>5, <1>6, <1>7, <1>8, <1>9, <1>10, <1>11, <1>12, <1>13, <1>14,
       <1>15, <1>16, <1>17, <1>18, <1>19, <1>20, <1>21 DEF Next

-----------------------------------------------------------------------------
(***************************************************************************)
(* The way of a command, and its journal.                                  *)
(***************************************************************************)

\* At first no command runs.
LEMMA InitRest == Init => WayInv /\ DataInv /\ TargetInv /\ ChecksInv /\ WrittenInv
<1> SUFFICES ASSUME Init PROVE WayInv /\ DataInv /\ TargetInv /\ ChecksInv /\ WrittenInv
    OBVIOUS
<1>1. /\ pc = "idle" /\ h.wrote = {} /\ waived = {}
      /\ \A d \in Drives : holds[d] = "own"
      /\ \A p \in Paths : journals[p].saved = "absent"
    BY DEF Init, Nothing, NoFile
<1>2. WayInv /\ TargetInv /\ ChecksInv
    BY <1>1 DEF WayInv, TargetInv, ChecksInv, Scanning, Opened
<1>3. DataInv
    BY <1>1 DEF DataInv, JournalInv, MemoryInv, FinishInv, LogInv, NothingMissingUnlogged
<1>4. WrittenInv
    BY <1>1 DEF WrittenInv, WritesAreConsented, RefusalsHold, ReplayFits, AlignedToDrive
<1> QED
    BY <1>2, <1>3, <1>4

\* Every step goes on in the way of its command.
LEMMA WayStep ==
    ASSUME TypeOK, WayInv, TargetInv, Next
    PROVE  WayInv'
<1>1. o \in Requests /\ c \in Locals /\ pc \in Points
    BY DEF TypeOK, Locals
<1>2. ASSUME NEW r \in Requests, Start(r) PROVE WayInv'
    BY <1>2, RequestFacts DEF Start, Exit, Fresh, WayInv, Scanning, Check, Restore, Journaled
<1>3. ASSUME UNCHANGED <<o, c>>,
             \/ pc' \in {pc, "idle"}
             \/ pc = "unmount" /\ pc' = "reprobe"
             \/ pc \in {"save", "undo"} /\ pc' = "finish"
             \/ pc = "finish" /\ pc' = "remount"
             \/ pc = "write" /\ pc' \in {"reopen", "undo"}
             \/ pc = "confirm" /\ pc' = IF Journaled THEN "journal" ELSE "open"
      PROVE  WayInv'
    BY <1>3 DEF WayInv, Scanning, Check, Restore, Journaled
<1>4. ASSUME NEW d \in Drives \cup {None}, Attach(d) PROVE WayInv'
    BY <1>3, <1>4 DEF Attach
<1>5. CASE VolumesChange
    BY <1>3, <1>5 DEF VolumesChange
<1>6. CASE Killed
    BY <1>6 DEF Killed, Exit, WayInv, Scanning
<1>7. CASE Fail \/ RunFailed \/ ReplayFails \/ Survey \/ NothingReadable \/ RunEndsEarly
    BY <1>3, <1>7 DEF Fail, RunFailed, ReplayFails, Survey, NothingReadable, RunEndsEarly,
       Exit, Goto
<1>8. CASE Probe
    BY <1>1, <1>8 DEF Probe, Exit, Goto, WayInv, Scanning, Check, Restore, Journaled, Locals
<1>9. CASE Unmount \/ Confirm \/ Finish \/ Remount \/ Replay
    BY <1>3, <1>9 DEF Unmount, Confirm, Finish, Remount, Replay, Goto, Exit
<1>10. CASE Reprobe
    BY <1>1, <1>10 DEF Reprobe, Exit, Goto, WayInv, Scanning, Check, Restore, Journaled, Locals
<1>11. CASE NewJournal
    BY <1>1, <1>11 DEF NewJournal, Goto, WayInv, Scanning, Check, Restore, Journaled, Locals
<1>12. CASE OpenDevice
    BY <1>1, <1>12, RequestFacts DEF OpenDevice, Goto, WayInv, Scanning, Check, Restore,
       Journaled, Locals
<1>13. CASE SaveOriginals
    BY <1>1, <1>13 DEF SaveOriginals, Goto, WayInv, Scanning, Check, Restore, Journaled, Locals
<1>14. CASE WritePatterns
    BY <1>1, <1>14 DEF WritePatterns, Goto, WayInv, Scanning, Check, Restore, Journaled, Locals
<1>15. CASE Reopen
    BY <1>1, <1>15 DEF Reopen, Goto, WayInv, Scanning, Check, Restore, Journaled, Locals
<1>16. CASE PutBack
    BY <1>1, <1>16 DEF PutBack, Goto, WayInv, Scanning, Check, Restore, Journaled, Locals
<1>17. CASE PutBackFails
    BY <1>1, <1>17 DEF PutBackFails, Goto, WayInv, Scanning, Check, Restore, Journaled, Locals
<1> QED
    BY <1>2, <1>4, <1>5, <1>6, <1>7, <1>8, <1>9, <1>10, <1>11, <1>12, <1>13, <1>14, <1>15,
       <1>16, <1>17 DEF Next

\* Every step keeps what is known of the journal and of memory.
LEMMA JournalStep ==
    ASSUME TypeOK, WayInv, JournalInv, MemoryInv, Next
    PROVE  JournalInv' /\ MemoryInv'
<1>1. /\ o \in Requests /\ c \in Locals /\ pc \in Points /\ journals \in [Paths -> Files]
      /\ holds \in [Drives -> {"own", "other"}]
    BY DEF TypeOK, Locals, Files
<1>2. ASSUME NEW r \in Requests, Start(r) PROVE JournalInv' /\ MemoryInv'
    BY <1>2, RequestFacts DEF Start, Exit, Fresh, JournalInv, MemoryInv, Restore, files
<1>3. ASSUME UNCHANGED <<o, journals, holds>>, c'.path = c.path,
             c'.mem = c.mem, c'.fd = c.fd,
             \/ pc' \in {pc, "idle", "probe", "unmount", "reprobe", "confirm", "journal", "finish",
                         "remount"}
             \/ pc = "confirm" /\ pc' = IF Journaled THEN "journal" ELSE "open",
             pc' # "idle" => pc # "idle"
      PROVE  JournalInv' /\ MemoryInv'
    BY <1>3 DEF WayInv, JournalInv, MemoryInv, Restore
<1>4. ASSUME NEW d \in Drives \cup {None}, Attach(d) PROVE JournalInv' /\ MemoryInv'
    BY <1>3, <1>4 DEF Attach, files
<1>5. CASE VolumesChange
    BY <1>3, <1>5 DEF VolumesChange, files
<1>6. CASE Killed
    BY <1>6 DEF Killed, Exit, JournalInv, MemoryInv
<1>7. CASE Fail \/ RunFailed \/ ReplayFails \/ Survey \/ NothingReadable
    BY <1>3, <1>7 DEF Fail, RunFailed, ReplayFails, Survey, NothingReadable, Exit, Goto, files
<1>8. CASE RunEndsEarly
    BY <1>8 DEF RunEndsEarly, Exit, JournalInv, MemoryInv
<1>9. CASE Probe \/ Reprobe
    BY <1>1, <1>3, <1>9 DEF Probe, Reprobe, Exit, Goto, files, Locals
<1>10. CASE Unmount \/ Confirm \/ Remount
    BY <1>3, <1>10 DEF Unmount, Confirm, Remount, Goto, Exit, files
<1>11. CASE NewJournal
    BY <1>1, <1>11, RequestFacts DEF NewJournal, Goto, WayInv, JournalInv, MemoryInv, Scanning,
       Check, Restore, Journaled, Locals, files
<1>12. CASE OpenDevice
    BY <1>1, <1>12 DEF OpenDevice, Goto, WayInv, JournalInv, MemoryInv, Scanning,
       Check, Restore, Locals, files
<1>13. CASE SaveOriginals
    BY <1>1, <1>13 DEF SaveOriginals, Saved, There, Goto, TypeOK, WayInv, JournalInv, MemoryInv,
       Scanning, Check, Restore, Locals, Files
<1>14. CASE WritePatterns
    BY <1>1, <1>14 DEF WritePatterns, Goto, TypeOK, WayInv, JournalInv, MemoryInv, Scanning,
       Check, Restore, Locals
<1>15. CASE Reopen
    BY <1>1, <1>15 DEF Reopen, Goto, WayInv, JournalInv, MemoryInv, Scanning, Check, Restore,
       Locals, files
<1>16. CASE PutBack
    BY <1>16 DEF PutBack, Goto, WayInv, JournalInv, MemoryInv, Scanning, Check, Restore
<1>17. CASE PutBackFails
    BY <1>1, <1>17 DEF PutBackFails, Goto, WayInv, JournalInv, MemoryInv, Scanning, Check,
       Restore, files
<1>18. CASE Finish
    BY <1>18 DEF Finish, Goto, WayInv, JournalInv, MemoryInv, Scanning, Check, Restore
<1>19. CASE Replay
    BY <1>19 DEF Replay, Exit, JournalInv, MemoryInv
<1> QED
    BY <1>2, <1>4, <1>5, <1>6, <1>7, <1>8, <1>9, <1>10, <1>11, <1>12, <1>13, <1>14, <1>15,
       <1>16, <1>17, <1>18, <1>19 DEF Next

-----------------------------------------------------------------------------
(***************************************************************************)
(* What drives and journals hold.                                          *)
(***************************************************************************)

Safe == LogInv /\ FinishInv /\ NothingMissingUnlogged

\* Every step keeps a journal of what a drive does not hold.
LEMMA LogStep ==
    ASSUME TypeOK, WayInv, DataInv, Next
    PROVE  Safe'
<1>1. /\ o \in Requests /\ c \in Locals /\ pc \in Points /\ journals \in [Paths -> Files]
      /\ holds \in [Drives -> {"own", "other"}] /\ waived \subseteq Drives
      /\ pc \in {"save", "write", "undo", "replay"} => c.fd \in Drives
      /\ None \notin Paths /\ None \notin Drives
    BY CommandAssumption DEF TypeOK, Locals, Files
<1>2. LogInv /\ FinishInv /\ NothingMissingUnlogged /\ JournalInv /\ MemoryInv
    BY DEF DataInv
<1>3. ASSUME UNCHANGED files,
             pc' = "finish" => (pc = "finish" /\ UNCHANGED c) \/ c'.run # "clean",
             \A q \in Paths : Lasting(q) => Lasting(q)'
      PROVE  Safe'
  <2>1. LogInv'
      BY <1>2, <1>3 DEF LogInv, files
  <2>2. FinishInv' /\ NothingMissingUnlogged'
      BY <1>2, <1>3 DEF FinishInv, NothingMissingUnlogged, files
  <2> QED
      BY <2>1, <2>2 DEF Safe
<1>4. ASSUME NEW d \in Drives \cup {None}, Attach(d) PROVE Safe'
    BY <1>3, <1>4 DEF Attach, Lasting, Restore
<1>5. ASSUME NEW r \in Requests, Start(r) PROVE Safe'
  <2>1. \A q \in Paths : Lasting(q)'
      BY <1>1, <1>5 DEF Start, Exit, Fresh, Lasting, Restore
  <2> QED
      BY <1>3, <1>5, <2>1 DEF Start, Exit
<1>6. CASE VolumesChange \/ Unmount \/ Confirm
    BY <1>3, <1>6 DEF VolumesChange, Unmount, Confirm, Goto, Lasting, Restore
<1>7. CASE Killed \/ Fail \/ RunFailed \/ ReplayFails \/ Survey \/ Remount
    BY <1>3, <1>7 DEF Killed, Fail, RunFailed, ReplayFails, Survey, Remount, Exit, Lasting
<1>8. CASE Probe \/ Reprobe \/ OpenDevice
    BY <1>1, <1>3, <1>8 DEF Probe, Reprobe, OpenDevice, Goto, Exit, Lasting, Restore, Locals
<1>9. CASE Reopen \/ PutBackFails
    BY <1>1, <1>3, <1>9 DEF Reopen, PutBackFails, Goto, Lasting, Restore, Locals
<1>10. CASE NewJournal
  <2>1. /\ ~Restore /\ ~Restore' /\ o.path \in Paths /\ c'.path = o.path /\ pc' = "open"
        /\ pc # "idle" /\ c.path = None /\ journals[o.path].saved = "absent"
        /\ journals'[o.path].saved = "nothing"
        /\ \A p \in Paths \ {o.path} : journals'[p] = journals[p]
        /\ UNCHANGED <<holds, waived>>
      BY <1>1, <1>10, RequestFacts DEF NewJournal, Goto, Free, NoFile, WayInv, Scanning, Check,
         Restore, Journaled, Locals, Files
  <2>2. LogInv'
      BY <1>1, <1>2, <2>1 DEF LogInv, Lasting
  <2>3. NothingMissingUnlogged' /\ FinishInv'
      BY <1>1, <1>2, <2>1 DEF NothingMissingUnlogged, FinishInv
  <2> QED
      BY <2>2, <2>3 DEF Safe
<1>11. ASSUME pc = "save", UNCHANGED <<holds, waived, o>>, c'.path = c.path, ~Restore,
              journals' = Saved,
              \/ pc' = "idle"
              \/ pc' \in {"write", "finish"} /\ (pc' = "finish" => c.path = None)
       PROVE  Safe'
  <2>1. CASE c.path = None
    <3>1. UNCHANGED journals /\ ~Restore'
        BY <1>11, <2>1 DEF Saved, Restore
    <3>2. LogInv'
        BY <1>1, <1>2, <1>11, <2>1, <3>1 DEF LogInv, Lasting
    <3>3. NothingMissingUnlogged' /\ FinishInv'
        BY <1>1, <1>2, <1>11, <2>1, <3>1 DEF NothingMissingUnlogged, FinishInv
    <3> QED
        BY <3>2, <3>3 DEF Safe
  <2>2. CASE c.path # None
    <3>1. /\ c.path \in Paths /\ journals[c.path].saved = "nothing" /\ ~Restore'
          /\ pc' # "finish" /\ c.fd \in Drives
          /\ journals'[c.path].drive = c.fd /\ journals'[c.path].saved = holds[c.fd]
          /\ \A p \in Paths \ {c.path} : journals'[p] = journals[p]
        BY <1>1, <1>2, <1>11, <2>2 DEF Saved, JournalInv, Locals, Files, Restore
    <3>2. \A q \in Paths \ {c.path} : Lasting(q)'
        BY <1>11 DEF Lasting
    <3>3. \A d \in Drives \ waived : holds[d] = "other" =>
             \E q \in Paths \ {c.path} : journals'[q].drive = d /\ journals'[q].saved = "own"
        BY <1>1, <1>2, <3>1 DEF NothingMissingUnlogged
    <3>4. LogInv'
      <4> SUFFICES ASSUME NEW p \in Paths
                   PROVE  /\ journals'[p].saved \in {"own", "other"} => journals'[p].drive \in Drives
                          /\ journals'[p].saved = "other" /\ journals'[p].drive \notin waived =>
                                \E q \in Paths : /\ journals'[q].drive = journals'[p].drive
                                                 /\ journals'[q].saved = "own" /\ Lasting(q)'
          BY <1>11 DEF LogInv
      <4>1. CASE p = c.path
          BY <1>1, <3>1, <3>2, <3>3, <4>1
      <4>2. CASE p # c.path
          BY <1>1, <1>2, <1>11, <3>1, <3>2, <4>2 DEF LogInv
      <4> QED
          BY <4>1, <4>2
    <3>5. NothingMissingUnlogged' /\ FinishInv'
        BY <1>1, <1>11, <3>1, <3>3 DEF NothingMissingUnlogged, FinishInv
    <3> QED
        BY <3>4, <3>5 DEF Safe
  <2> QED
      BY <2>1, <2>2
<1>12. CASE SaveOriginals
    BY <1>1, <1>11, <1>12 DEF SaveOriginals, Goto, WayInv, Scanning, Check, Restore, Journaled,
       Locals
<1>13. CASE NothingReadable
  <2>1. /\ pc = "save" /\ pc' = "finish" /\ UNCHANGED <<files, c, o>>
        /\ c.path # None => journals[c.path].saved = "nothing"
      BY <1>2, <1>13 DEF NothingReadable, Goto, WayInv, JournalInv, Scanning, Check, Restore
  <2>2. LogInv' /\ NothingMissingUnlogged' /\ FinishInv'
      BY <1>2, <2>1 DEF LogInv, Lasting, Restore, NothingMissingUnlogged, FinishInv, files
  <2> QED
      BY <2>2 DEF Safe
<1>14. CASE RunEndsEarly
  <2>1. CASE UNCHANGED journals
      BY <1>3, <1>14, <2>1 DEF RunEndsEarly, Exit, files, Lasting
  <2>2. CASE journals' = Saved
      BY <1>11, <1>14, <2>2 DEF RunEndsEarly, Exit, WayInv, Scanning, Check, Restore
  <2> QED
      BY <1>14, <2>1, <2>2 DEF RunEndsEarly
<1>15. CASE WritePatterns
  <2>1. /\ c.fd \in Drives /\ holds' = [holds EXCEPT ![c.fd] = "other"] /\ UNCHANGED journals
        /\ waived' = IF c.path = None THEN waived \cup {c.fd} ELSE waived
        /\ c'.path = c.path /\ UNCHANGED o /\ pc \in {"write"} /\ pc' \in {"reopen", "undo"}
        /\ c.path \in Paths \cup {None}
        /\ c.path # None => journals[c.path].drive = c.fd /\ journals[c.path].saved = holds[c.fd]
      BY <1>1, <1>2, <1>15 DEF WritePatterns, Goto, JournalInv, MemoryInv, Locals
  <2>2. LogInv' /\ FinishInv'
      BY <1>1, <1>2, <2>1 DEF LogInv, Lasting, Restore, FinishInv
  <2>3. NothingMissingUnlogged'
      BY <1>1, <1>2, <2>1 DEF NothingMissingUnlogged, LogInv
  <2> QED
      BY <2>2, <2>3 DEF Safe
<1>16. CASE PutBack
  <2>1. /\ c.fd \in Drives /\ c.mem.drive \in Drives /\ holds[c.mem.drive] = "other"
        /\ c.mem.what \in {"own", "other"}
        /\ holds' = [holds EXCEPT ![c.fd] = IF c.fd = c.mem.drive THEN c.mem.what ELSE "other"]
        /\ waived' = IF c.fd = c.mem.drive THEN waived ELSE waived \cup {c.fd, c.mem.drive}
        /\ UNCHANGED <<journals, o>> /\ c'.path = c.path /\ pc = "undo" /\ pc' = "finish"
        /\ c.path # None =>
             journals[c.path].drive = c.mem.drive /\ journals[c.path].saved = c.mem.what
      BY <1>1, <1>2, <1>16 DEF PutBack, Goto, JournalInv, MemoryInv, Locals
  <2>2. LogInv'
      BY <1>1, <1>2, <2>1 DEF LogInv, Lasting, Restore
  <2>3. FinishInv'
      BY <1>1, <2>1 DEF FinishInv
  <2>4. NothingMissingUnlogged'
      BY <1>1, <1>2, <2>1 DEF NothingMissingUnlogged
  <2> QED
      BY <2>2, <2>3, <2>4 DEF Safe
<1>17. CASE Finish
  <2>1. CASE UNCHANGED journals
      BY <1>3, <1>17, <2>1 DEF Finish, Goto, files, Lasting, Restore
  <2>2. CASE c.run = "clean" /\ c.path # None /\ journals' = [journals EXCEPT ![c.path] = NoFile]
    <3>1. /\ c.path \in Paths /\ ~Restore /\ pc = "finish" /\ pc' = "remount"
          /\ UNCHANGED <<holds, waived, o, c>> /\ journals'[c.path].saved = "absent"
          /\ \A p \in Paths \ {c.path} : journals'[p] = journals[p]
        BY <1>1, <1>17, <2>2 DEF Finish, Goto, NoFile, Locals, WayInv, Scanning, Check, Restore
    <3>2. LogInv' /\ FinishInv'
        BY <1>1, <1>2, <3>1 DEF LogInv, Lasting, Restore, FinishInv
    <3>3. NothingMissingUnlogged'
        BY <1>1, <1>2, <2>2, <3>1 DEF NothingMissingUnlogged, FinishInv
    <3> QED
        BY <3>2, <3>3 DEF Safe
  <2> QED
      BY <1>17, <2>1, <2>2 DEF Finish, MayDiscard
<1>18. CASE Replay
  <2> DEFINE j == journals[c.path]
  <2>1. /\ c.fd \in Drives /\ c.path \in Paths /\ j.saved \in {"own", "other"} /\ j.drive \in Drives
        /\ holds' = [holds EXCEPT ![c.fd] = IF c.fd = j.drive THEN j.saved ELSE "other"]
        /\ waived' = IF c.fd = j.drive THEN waived ELSE waived \cup {c.fd}
        /\ UNCHANGED journals /\ pc' = "idle"
      BY <1>1, <1>2, <1>18 DEF Replay, Exit, JournalInv, LogInv, WayInv
  <2>2. LogInv' /\ FinishInv'
      BY <1>1, <1>2, <2>1 DEF LogInv, Lasting, FinishInv
  <2>3. NothingMissingUnlogged'
      BY <1>1, <1>2, <2>1 DEF NothingMissingUnlogged, LogInv
  <2> QED
      BY <2>2, <2>3 DEF Safe
<1> QED
    BY <1>4, <1>5, <1>6, <1>7, <1>8, <1>9, <1>10, <1>12, <1>13, <1>14, <1>15, <1>16, <1>17,
       <1>18 DEF Next

-----------------------------------------------------------------------------
(***************************************************************************)
(* What is known of the drive.                                             *)
(***************************************************************************)

\* Every step keeps track of which drive is open.
LEMMA TargetStep ==
    ASSUME TypeOK, WayInv, TargetInv, Next
    PROVE  TargetInv'
<1>1. /\ c \in Locals /\ h \in Deeds /\ pc \in Points /\ attached \in Drives \cup {None}
      /\ None \notin Drives
    BY CommandAssumption DEF TypeOK, Locals, Deeds
<1>2. ASSUME UNCHANGED attached, h'.came = h.came, c'.info = c.info, c'.fd = c.fd,
             pc' # "idle" => pc \notin {"idle", "probe"},
             pc' \in {"idle"} \cup Opened
                \/ (h'.wrote = h.wrote /\ pc \notin Opened /\ pc' # "probe")
      PROVE  TargetInv'
    BY <1>1, <1>2 DEF TargetInv, Opened, Scanning, Points
<1>3. ASSUME NEW d \in Drives \cup {None}, Attach(d) PROVE TargetInv'
    BY <1>1, <1>3 DEF Attach, TargetInv, Deeds
<1>4. ASSUME NEW r \in Requests, Start(r) PROVE TargetInv'
    BY <1>1, <1>4 DEF Start, Exit, Fresh, Nothing, TargetInv
<1>5. CASE VolumesChange
    BY <1>5 DEF VolumesChange, TargetInv
<1>6. CASE Killed
    BY <1>6 DEF Killed, Exit, Fresh, Nothing, TargetInv
<1>7. CASE Fail \/ RunFailed \/ ReplayFails \/ Survey \/ RunEndsEarly \/ Remount
    BY <1>7 DEF Fail, RunFailed, ReplayFails, Survey, RunEndsEarly, Remount, Exit, TargetInv,
       world
<1>8. CASE Probe
    BY <1>1, <1>8 DEF Probe, Exit, Goto, TargetInv, Locals, Deeds, world
<1>9. CASE Unmount
    BY <1>2, <1>9 DEF Unmount, Goto, Opened, Scanning
<1>10. CASE Reprobe
    BY <1>1, <1>10 DEF Reprobe, Exit, Goto, TargetInv, Locals, Deeds, world
<1>11. CASE Confirm
    BY <1>1, <1>2, <1>11 DEF Confirm, Goto, Opened, Scanning, Deeds, world
<1>12. CASE NewJournal
    BY <1>1, <1>2, <1>12 DEF NewJournal, Goto, Opened, Scanning, Locals, world
<1>13. CASE OpenDevice
    BY <1>1, <1>13 DEF OpenDevice, CanOpen, Goto, TargetInv, Locals, world
<1>14. CASE SaveOriginals
    BY <1>1, <1>2, <1>14 DEF SaveOriginals, Goto, Opened, Scanning, Locals, world
<1>15. CASE NothingReadable \/ Finish
    BY <1>2, <1>15 DEF NothingReadable, Finish, Goto, Opened, Scanning, world
<1>16. CASE WritePatterns
    BY <1>1, <1>2, <1>16 DEF WritePatterns, Goto, Opened, Scanning, Locals, Deeds, world
<1>17. CASE Reopen
    BY <1>1, <1>17 DEF Reopen, CanOpen, Goto, TargetInv, Locals, world
<1>18. CASE PutBack
    BY <1>1, <1>2, <1>18 DEF PutBack, Goto, Opened, Scanning, Locals, Deeds, world
<1>19. CASE PutBackFails
    BY <1>1, <1>2, <1>19 DEF PutBackFails, Goto, Opened, Scanning, Locals, world
<1>20. CASE Replay
    BY <1>20 DEF Replay, Exit, TargetInv
<1> QED
    BY <1>3, <1>4, <1>5, <1>6, <1>7, <1>8, <1>9, <1>10, <1>11, <1>12, <1>13, <1>14, <1>15,
       <1>16, <1>17, <1>18, <1>19, <1>20 DEF Next

\* Every step keeps what was asked of the drive probed last.
LEMMA ChecksStep ==
    ASSUME TypeOK, WayInv, TargetInv, ChecksInv, Next
    PROVE  ChecksInv'
<1>1. c \in Locals /\ h \in Deeds /\ pc \in Points /\ journals \in [Paths -> Files]
    BY DEF TypeOK, Locals, Deeds, Files
<1>2. ASSUME UNCHANGED o, c'.info = c.info, c'.sample = c.sample, c'.path = c.path,
             h'.shown = h.shown, Restore => UNCHANGED journals,
             pc' # "idle" => pc \notin {"idle", "probe"},
             pc' \in {"journal", "open"} \cup Opened => pc \in {"journal", "open"} \cup Opened,
             pc' \in {"write", "reopen", "undo"} => pc \in {"write", "reopen", "undo"}
      PROVE  ChecksInv'
    BY <1>2 DEF ChecksInv, Restore, Asks
<1>3. ASSUME pc' = "idle" PROVE ChecksInv'
    BY <1>3 DEF ChecksInv, Opened, Scanning
<1>4. ASSUME NEW d \in Drives \cup {None}, Attach(d) PROVE ChecksInv'
    BY <1>1, <1>4 DEF Attach, ChecksInv, Restore, Asks, Deeds, files
<1>5. ASSUME NEW r \in Requests, Start(r) PROVE ChecksInv'
    BY <1>5 DEF Start, Exit, ChecksInv, Opened, Scanning
<1>6. CASE VolumesChange
    BY <1>6 DEF VolumesChange, ChecksInv, Restore, Asks, files
<1>7. CASE Killed \/ Fail \/ RunFailed \/ ReplayFails \/ Survey \/ RunEndsEarly \/ Remount \/ Replay
    BY <1>3, <1>7 DEF Killed, Fail, RunFailed, ReplayFails, Survey, RunEndsEarly, Remount,
       Replay, Exit
<1>8. CASE Probe
    BY <1>1, <1>3, <1>8 DEF Probe, Refused, Unsafe, WrongSize, Exit, Goto, ChecksInv, Opened,
       Scanning, Restore, Locals, files
<1>9. CASE Unmount \/ NothingReadable \/ Finish
    BY <1>2, <1>9 DEF Unmount, NothingReadable, Finish, Goto, Opened, Scanning, WayInv, Check,
       Restore, files
<1>10. CASE Reprobe
    BY <1>1, <1>3, <1>10 DEF Reprobe, RefusedAgain, Unsafe, WrongSizeNow, WrongSize, Exit, Goto,
       ChecksInv, Opened, Scanning, Restore, Locals, files
<1>11. CASE Confirm
    BY <1>1, <1>11 DEF Confirm, Goto, ChecksInv, Restore, Asks, Deeds, files
<1>12. CASE NewJournal
    BY <1>1, <1>12 DEF NewJournal, Goto, ChecksInv, WayInv, Check, Restore, Asks, Locals
<1>13. CASE OpenDevice
    BY <1>1, <1>2, <1>13 DEF OpenDevice, Goto, Opened, Scanning, Locals, files
<1>14. CASE SaveOriginals
  <2>1. c.sample % Attr[c.info].block = 0
      BY <1>14 DEF SaveOriginals, PlanFits
  <2>2. c'.info = c.info /\ c'.sample = c.sample /\ ~Restore /\ UNCHANGED <<o, h>>
      BY <1>1, <1>14 DEF SaveOriginals, WayInv, Scanning, Check, Restore, Locals
  <2> QED
      BY <1>14, <2>1, <2>2 DEF SaveOriginals, ChecksInv, Opened, Scanning, Restore, Asks
<1>15. CASE WritePatterns
    BY <1>1, <1>2, <1>15 DEF WritePatterns, Goto, Opened, Scanning, Locals, Deeds
<1>16. CASE Reopen \/ PutBackFails
    BY <1>1, <1>2, <1>16 DEF Reopen, PutBackFails, Goto, Opened, Scanning, Locals, files
<1>17. CASE PutBack
    BY <1>1, <1>2, <1>17 DEF PutBack, Goto, Opened, Scanning, Locals, Deeds
<1> QED
    BY <1>4, <1>5, <1>6, <1>7, <1>8, <1>9, <1>10, <1>11, <1>12, <1>13, <1>14, <1>15, <1>16,
       <1>17 DEF Next

\* Every write is to the drive that was asked about, or to one that came since.
LEMMA WrittenStep ==
    ASSUME TypeOK, WayInv, TargetInv, ChecksInv, WrittenInv, Next
    PROVE  WrittenInv'
<1>1. /\ c \in Locals /\ h \in Deeds /\ pc \in Points /\ o \in Requests
      /\ pc \in {"write", "undo", "replay"} => c.fd \in Drives
      /\ None \notin Drives
    BY CommandAssumption DEF TypeOK, Locals, Deeds
<1>2. ASSUME h'.wrote = {} PROVE WrittenInv'
    BY <1>2 DEF WrittenInv, WritesAreConsented, RefusalsHold, ReplayFits, AlignedToDrive
<1>3. ASSUME UNCHANGED o, c'.sample = c.sample, c'.path = c.path, h'.shown = h.shown,
             c'.info = c.info, h.came \subseteq h'.came, h'.wrote = h.wrote,
             Restore => UNCHANGED journals
      PROVE  WrittenInv'
    BY <1>3 DEF WrittenInv, WritesAreConsented, RefusalsHold, ReplayFits, AlignedToDrive,
       Check, Restore
<1>4. ASSUME pc \in {"write", "undo", "replay"},
             UNCHANGED <<o, journals>>, c'.sample = c.sample, c'.path = c.path, c'.info = c.info,
             h' = [h EXCEPT !.wrote = @ \cup {c.fd}]
      PROVE  WrittenInv'
  <2>1. /\ h'.came = h.came /\ h'.shown = h.shown /\ h'.wrote = h.wrote \cup {c.fd}
        /\ c.fd \in Drives /\ pc \in Opened
      BY <1>1, <1>4 DEF Deeds, Opened, Scanning
  <2>2. c.fd \in {c.info} \cup h.came
      BY <1>1, <1>4, <2>1 DEF TargetInv
  <2>3. WritesAreConsented'
    <3>1. o.yes \/ h.shown = c.info \/ (Restore /\ o.readOnly)
        BY <1>4, <2>1 DEF ChecksInv, Asks, WayInv, Scanning, Check, Restore
    <3>2. h'.wrote \subseteq {c'.info} \cup h'.came
        BY <1>4, <2>1, <2>2 DEF WrittenInv, WritesAreConsented
    <3> QED
        BY <1>4, <2>1, <3>1, <3>2 DEF WrittenInv, WritesAreConsented, Restore
  <2>4. RefusalsHold'
      BY <1>4, <2>1, <2>2 DEF WrittenInv, RefusalsHold, ChecksInv
  <2>5. ReplayFits'
      BY <1>4, <2>1, <2>2 DEF WrittenInv, ReplayFits, ChecksInv, Restore
  <2>6. AlignedToDrive'
      BY <1>4, <2>1, <2>2 DEF WrittenInv, AlignedToDrive, ChecksInv, WayInv, Check, Restore
  <2> QED
      BY <2>3, <2>4, <2>5, <2>6 DEF WrittenInv
<1>5. ASSUME NEW d \in Drives \cup {None}, Attach(d) PROVE WrittenInv'
    BY <1>1, <1>3, <1>5 DEF Attach, Deeds, files
<1>6. ASSUME NEW r \in Requests, Start(r) PROVE WrittenInv'
    BY <1>2, <1>6 DEF Start, Nothing
<1>7. CASE Killed
    BY <1>2, <1>7 DEF Killed, Nothing
<1>8. CASE VolumesChange \/ Fail \/ RunFailed \/ ReplayFails \/ Survey \/ Remount \/ Unmount
           \/ NothingReadable
    BY <1>3, <1>8 DEF VolumesChange, Fail, RunFailed, ReplayFails, Survey, Remount, Unmount,
       NothingReadable, files
<1>9. CASE Probe \/ Reprobe \/ Confirm
    BY <1>1, <1>2, <1>9 DEF Probe, Reprobe, Confirm, TargetInv, Deeds
<1>10. CASE NewJournal
    BY <1>1, <1>2, <1>10 DEF NewJournal, TargetInv
<1>11. CASE OpenDevice \/ Reopen \/ PutBackFails
    BY <1>1, <1>3, <1>11 DEF OpenDevice, Reopen, PutBackFails, Locals, files
<1>12. CASE SaveOriginals \/ RunEndsEarly \/ Finish
    BY <1>1, <1>3, <1>12 DEF SaveOriginals, RunEndsEarly, Finish, WayInv, Scanning, Check,
       Restore, Locals
<1>13. CASE WritePatterns
    BY <1>1, <1>4, <1>13 DEF WritePatterns, Locals
<1>14. CASE PutBack
    BY <1>1, <1>4, <1>14 DEF PutBack, Locals
<1>15. CASE Replay
    BY <1>4, <1>15 DEF Replay
<1> QED
    BY <1>5, <1>6, <1>7, <1>8, <1>9, <1>10, <1>11, <1>12, <1>13, <1>14, <1>15 DEF Next

-----------------------------------------------------------------------------
(***************************************************************************)
(* The theorems.                                                           *)
(***************************************************************************)

\* The invariant holds of every state that commands, and what happens to the
\* drives meanwhile, can reach.
THEOREM Inductive == Spec => []IInv
<1>1. Init => IInv
    BY InitType, InitRest DEF IInv
<1>2. IInv /\ [Next]_vars => IInv'
  <2> SUFFICES ASSUME IInv, [Next]_vars PROVE IInv'
      OBVIOUS
  <2>1. CASE Next
    <3>1. TypeOK' /\ WayInv'
        BY <2>1, TypeStep, WayStep DEF IInv, DataInv
    <3>2. DataInv'
        BY <2>1, JournalStep, LogStep DEF IInv, DataInv, Safe
    <3>3. TargetInv' /\ ChecksInv' /\ WrittenInv'
        BY <2>1, TargetStep, ChecksStep, WrittenStep DEF IInv
    <3> QED
        BY <3>1, <3>2, <3>3 DEF IInv
  <2>2. CASE UNCHANGED vars
    <3>1. UNCHANGED <<attached, mounted, holds, journals, waived, pc, status, o, c, h>>
        BY <2>2 DEF vars, world, files
    <3>2. TypeOK' /\ WayInv' /\ TargetInv'
        BY <3>1 DEF IInv, TypeOK, WayInv, TargetInv, Check, Restore, Journaled
    <3>3. DataInv'
        BY <3>1 DEF IInv, DataInv, JournalInv, MemoryInv, FinishInv, LogInv, Lasting,
           NothingMissingUnlogged, Restore
    <3>4. ChecksInv' /\ WrittenInv'
        BY <3>1 DEF IInv, ChecksInv, Asks, WrittenInv, WritesAreConsented, RefusalsHold,
           ReplayFits, AlignedToDrive, Check, Restore
    <3> QED
        BY <3>2, <3>3, <3>4 DEF IInv
  <2> QED
      BY <2>1, <2>2
<1> QED
    BY <1>1, <1>2, PTL DEF Spec

\* Every variable has its type; past the opening there is an open device.
THEOREM TypeCorrect == Spec => []TypeOK
<1>1. IInv => TypeOK
    BY DEF IInv
<1> QED
    BY <1>1, Inductive, PTL

\* However many commands are run, fail and are killed: a drive that does not
\* hold its own data has a journal that does.
THEOREM NothingIsLost == Spec => []NothingMissingUnlogged
<1>1. IInv => NothingMissingUnlogged
    BY DEF IInv, DataInv
<1> QED
    BY <1>1, Inductive, PTL

(***************************************************************************)
(* A command writes to the drive probed last, which the person was shown   *)
(* and confirmed, or to one that came since; only a replay with -read-only *)
(* writes without a confirmation or -yes.                                  *)
(***************************************************************************)
THEOREM WritesAreConfirmed == Spec => []WritesAreConsented
<1>1. IInv => WritesAreConsented
    BY DEF IInv, WrittenInv
<1> QED
    BY <1>1, Inductive, PTL

\* No internal disk and no partition is written without -force,
\* or it came to be attached after the last probe.
THEOREM RefusalsAreKept == Spec => []RefusalsHold
<1>1. IInv => RefusalsHold
    BY DEF IInv, WrittenInv
<1> QED
    BY <1>1, Inductive, PTL

\* No journal is replayed to a drive of another size,
\* or it came to be attached after the last probe.
THEOREM ReplaysFit == Spec => []ReplayFits
<1>1. IInv => ReplayFits
    BY DEF IInv, WrittenInv
<1> QED
    BY <1>1, Inductive, PTL

\* The samples written are whole blocks of the drive they are written to,
\* or it came to be attached after the last probe.
THEOREM SamplesAreAligned == Spec => []AlignedToDrive
<1>1. IInv => AlignedToDrive
    BY DEF IInv, WrittenInv
<1> QED
    BY <1>1, Inductive, PTL
===============================================================================
