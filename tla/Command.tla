-------------------------------- MODULE Command --------------------------------
(***************************************************************************)
(* The commands of main.go around the engine: doCheck, doSpeed and         *)
(* doRestore, one after the other, against one identifier.  A command is a *)
(* single thread; between any two of its calls to diskutil, to the person  *)
(* and to the drive, another drive can come to be attached under the       *)
(* identifier, volumes can be mounted or unmounted, and the process can be *)
(* killed.  What runScan does with a drive is Scan; here a drive holds its *)
(* own data or it does not, and a journal has saved that or has not.       *)
(***************************************************************************)
EXTENDS Integers

CONSTANTS
    Drives,         \* the drives that may be attached
    Attr,           \* what diskutil reports of a drive
    Requests,       \* the command lines
    Paths,          \* where undo journals may be
    MaxCommands,    \* how many commands are run
    MaxEvents       \* how often volumes and drives come and go

None == "none"

ASSUME CommandAssumption ==
    /\ None \notin Drives \cup Paths
    /\ Attr \in [Drives -> [size : Nat, block : Nat \ {0},
                            internal : BOOLEAN, whole : BOOLEAN]]
    /\ Requests # {} /\ Requests \subseteq
         [mode : {"check", "restore", "speed"}, readOnly : BOOLEAN,
          unmount : BOOLEAN, remount : BOOLEAN, force : BOOLEAN, yes : BOOLEAN,
          sample : Nat, path : Paths \cup {None}]
    /\ \A r \in Requests : r.mode = "restore" => r.path # None

VARIABLES
    attached,   \* the drive under the identifier, or None
    mounted,    \* the drives with mounted volumes
    holds,      \* holds[d]: whether d holds its "own" data or "other"
    journals,   \* the file at each path
    pc,         \* the next call of the command, "idle" between commands
    status,     \* how the last command ended
    o,          \* its options; path is None for -journal none
    c,          \* its local variables
    h,          \* what it has done, for the properties
    waived,     \* drives that nothing is promised for any more
    commands, events

world == <<attached, mounted, events>>
files == <<holds, journals, waived>>
vars  == <<world, files, pc, status, o, c, h, commands>>

NoFile == [drive |-> None, size |-> 0, saved |-> "absent"]

\* info: the drive last probed; sample: sampleSize; path: the journal in use;
\* fd: the drive the open device leads to; mem: what was read from which
\* drive; run: how the scan went.
Fresh == [info |-> None, sample |-> 0, path |-> None, fd |-> None,
          mem |-> [drive |-> None, what |-> "own"], run |-> "clean"]

\* came: the drives that came to be attached since the last probe; shown: the
\* drive the person has confirmed; wrote: the drives written.
Nothing == [came |-> {}, shown |-> None, wrote |-> {}]

Check   == o.mode = "check"
Restore == o.mode = "restore"

\* -speed counts as -read-only.
ReadOnly == o.readOnly \/ o.mode = "speed"

\* The device is opened for writing.
Writable == Restore \/ ~ReadOnly

-----------------------------------------------------------------------------
(***************************************************************************)
(* Mistakes the code could have made where it makes the decisions below.   *)
(***************************************************************************)

\* Truncating a journal that exists.
Truncates(p) == TRUE

\* Taking -force for an answer to the prompt too.
AsksUnlessForced == ~(o.yes \/ o.readOnly \/ o.force)

\* Looking only at the volumes after the unmount, not at the disk.
OnlyMountsAgain(d) == d \in mounted

\* Not asking for the size of the target again, as before the unmount.
SizeTakenAsRead(d) == FALSE

\* Leaving the alignment of the samples to the first probe.
AnySampleFits(d) == c.sample > 0 /\ c.sample <= Attr[d].size

\* Opening whatever is there, or nothing.
OpensAnything == TRUE

-----------------------------------------------------------------------------
(***************************************************************************)
(* The decisions of the code.                                              *)
(***************************************************************************)

\* checkSafety.
Unsafe(d) ==
    \/ Attr[d].internal /\ ~o.force
    \/ ~Attr[d].whole /\ ~o.force
    \/ d \in mounted /\ ~ReadOnly /\ ~o.unmount

\* The journal was taken from a drive of another size.
WrongSize(d) == Restore /\ Attr[d].size # journals[c.path].size /\ ~o.force

Refused(d) == Unsafe(d) \/ WrongSize(d) \/ (~Restore /\ Attr[d].size = 0)

\* The size again, but in doCheck not whether there is one.
WrongSizeNow(d) == WrongSize(d)

RefusedAgain(d) == Unsafe(d) \/ WrongSizeNow(d) \/ d \in mounted

Unmounts(d) == o.unmount /\ d \in mounted /\ o.mode # "speed" /\ (Restore \/ ~o.readOnly)

\* The sample size, a multiple of the block size of the drive probed first.
Rounded(d) ==
    LET b == Attr[d].block IN
    IF o.sample % b = 0 THEN o.sample ELSE o.sample + b - (o.sample % b)

Asks == ~(o.yes \/ o.readOnly \/ o.mode = "speed")

Journaled == Check /\ ~o.readOnly /\ o.path # None

\* O_EXCL.
Free(p) == journals[p] = NoFile

\* What buildPlan asks of the drive probed last, for some start.
PlanFits(d) == c.sample > 0 /\ c.sample % Attr[d].block = 0 /\ c.sample <= Attr[d].size

MayDiscard == c.run = "clean"

\* macOS refuses to open a disk for writing while its volumes are mounted.
CanOpen == attached # None /\ (Writable => attached \notin mounted)

-----------------------------------------------------------------------------
Goto(next) == pc' = next /\ UNCHANGED status
Exit(how)  == pc' = "idle" /\ status' = how

Init ==
    /\ attached \in Drives
    /\ mounted \in {{}, {attached}}
    /\ holds = [d \in Drives |-> "own"]
    /\ journals = [p \in Paths |-> NoFile]
    /\ pc = "idle" /\ status = "none"
    /\ o = CHOOSE r \in Requests : TRUE
    /\ c = Fresh
    /\ h = Nothing
    /\ waived = {}
    /\ commands = 0 /\ events = 0

(***************************************************************************)
(* The system and its user: drives and volumes come and go, and the        *)
(* process may be killed.                                                  *)
(***************************************************************************)
Attach(d) ==
    /\ events < MaxEvents /\ d # attached
    /\ events' = events + 1
    /\ attached' = d
    /\ mounted' \in {mounted \ {attached}, (mounted \ {attached}) \cup ({d} \ {None})}
    /\ h' = [h EXCEPT !.came = @ \cup ({d} \ {None})]
    /\ UNCHANGED <<files, pc, status, o, c, commands>>

VolumesChange ==
    /\ events < MaxEvents /\ attached # None
    /\ events' = events + 1
    /\ mounted' = IF attached \in mounted THEN mounted \ {attached}
                                          ELSE mounted \cup {attached}
    /\ UNCHANGED <<attached, files, pc, status, o, c, h, commands>>

Killed ==
    /\ pc # "idle"
    /\ Exit("killed")
    /\ c' = Fresh /\ h' = Nothing
    /\ UNCHANGED <<world, files, o, commands>>

-----------------------------------------------------------------------------
(***************************************************************************)
(* The way to the open device, which the commands share.                   *)
(***************************************************************************)

\* A journal without a whole record is refused.
Start(r) ==
    /\ pc = "idle" /\ commands < MaxCommands
    /\ commands' = commands + 1
    /\ o' = r
    /\ c' = [Fresh EXCEPT !.path = IF r.mode = "restore" THEN r.path ELSE None]
    /\ h' = Nothing
    /\ IF r.mode = "restore" /\ journals[r.path].saved \notin {"own", "other"}
       THEN Exit("error") ELSE pc' = "probe" /\ status' = "running"
    /\ UNCHANGED <<world, files>>

\* The call fails and the command ends; a new journal stays behind.
Fail ==
    /\ pc \in {"probe", "unmount", "reprobe", "confirm", "journal", "open", "survey"}
    /\ Exit("error")
    /\ UNCHANGED <<world, files, o, c, h, commands>>

Probe ==
    /\ pc = "probe" /\ attached # None
    /\ c' = [c EXCEPT !.info = attached, !.sample = Rounded(attached)]
    /\ h' = [h EXCEPT !.came = {}]
    /\ IF Refused(attached) THEN Exit("error")
       ELSE Goto(IF Unmounts(attached) THEN "unmount" ELSE "confirm")
    /\ UNCHANGED <<world, files, o, commands>>

\* diskutil unmounts what is under the identifier by now.
Unmount ==
    /\ pc = "unmount" /\ attached # None
    /\ mounted' = mounted \ {attached}
    /\ Goto("reprobe")
    /\ UNCHANGED <<attached, events, files, o, c, h, commands>>

Reprobe ==
    /\ pc = "reprobe" /\ attached # None
    /\ c' = [c EXCEPT !.info = attached]
    /\ h' = [h EXCEPT !.came = {}]
    /\ IF RefusedAgain(attached) THEN Exit("error") ELSE Goto("confirm")
    /\ UNCHANGED <<world, files, o, commands>>

\* The person types the identifier of the drive the prompt describes; any
\* other answer, or none, is Fail.
Confirm ==
    /\ pc = "confirm"
    /\ h' = [h EXCEPT !.shown = IF Asks THEN c.info ELSE None]
    /\ Goto(IF Journaled THEN "journal" ELSE "open")
    /\ UNCHANGED <<world, files, o, c, commands>>

NewJournal ==
    /\ pc = "journal" /\ Free(o.path)
    /\ journals' = [journals EXCEPT ![o.path] =
          [drive |-> None, size |-> Attr[c.info].size, saved |-> "nothing"]]
    /\ c' = [c EXCEPT !.path = o.path]
    /\ Goto("open")
    /\ UNCHANGED <<world, holds, waived, o, h, commands>>

OpenDevice ==
    /\ pc = "open" /\ CanOpen
    /\ c' = [c EXCEPT !.fd = attached]
    /\ Goto(IF Restore THEN "replay" ELSE IF Check THEN "save" ELSE "survey")
    /\ UNCHANGED <<world, files, o, h, commands>>

-----------------------------------------------------------------------------
(***************************************************************************)
(* doCheck: runScan, by its effect on drive and journal.  A drive that is  *)
(* no longer attached can neither be read nor written.                     *)
(***************************************************************************)
There == c.fd = attached

Saved ==
    IF c.path = None THEN journals
    ELSE [journals EXCEPT ![c.path].drive = c.fd, ![c.path].saved = holds[c.fd]]

SaveOriginals ==
    /\ pc = "save" /\ There /\ PlanFits(c.info)
    /\ journals' = Saved
    /\ c' = [c EXCEPT !.mem = [drive |-> c.fd, what |-> holds[c.fd]]]
    /\ Goto(IF o.readOnly THEN "finish" ELSE "write")
    /\ UNCHANGED <<world, holds, waived, o, h, commands>>

\* No location can be read, and so none is written.
NothingReadable ==
    /\ pc = "save" /\ PlanFits(c.info)
    /\ Goto("finish")
    /\ UNCHANGED <<world, files, o, c, h, commands>>

\* The plan cannot be built, or a record cannot be appended.
RunEndsEarly ==
    /\ pc = "save"
    /\ journals' = journals \/ (There /\ journals' = Saved)
    /\ Exit("error")
    /\ UNCHANGED <<world, holds, waived, o, c, h, commands>>

\* The patterns are written; if they cannot be flushed the run restores and
\* returns the error.
WritePatterns ==
    /\ pc = "write" /\ There
    /\ holds' = [holds EXCEPT ![c.fd] = "other"]
    /\ waived' = IF c.path = None THEN waived \cup {c.fd} ELSE waived
    /\ h' = [h EXCEPT !.wrote = @ \cup {c.fd}]
    /\ \/ Goto("reopen") /\ UNCHANGED c
       \/ Goto("undo") /\ c' = [c EXCEPT !.run = "error"]
    /\ UNCHANGED <<world, journals, o, commands>>

\* The device is opened by its path again; the drive behind it may be another.
Reopen ==
    /\ pc = "reopen"
    /\ \/ CanOpen /\ c' = [c EXCEPT !.fd = attached] /\ Goto("undo")
       \/ c' = [c EXCEPT !.run = "error"] /\ Goto("finish")
    /\ UNCHANGED <<world, files, o, h, commands>>

\* What was read is written back, to the drive the device leads to now, and
\* flushed, or not.  The probes of the capacity search come to the same.
PutBack ==
    /\ pc = "undo" /\ There
    /\ holds' = [holds EXCEPT ![c.fd] = IF c.fd = c.mem.drive THEN c.mem.what ELSE "other"]
    /\ waived' = IF c.fd = c.mem.drive THEN waived ELSE waived \cup {c.fd, c.mem.drive}
    /\ h' = [h EXCEPT !.wrote = @ \cup {c.fd}]
    /\ c' \in {c, [c EXCEPT !.run = IF @ = "clean" THEN "missing" ELSE @]}
    /\ Goto("finish")
    /\ UNCHANGED <<world, journals, o, commands>>

\* The drive is gone, or locations cannot be restored.
PutBackFails ==
    /\ pc \in {"write", "undo"}
    /\ pc = "write" => ~There
    /\ c' = [c EXCEPT !.run = IF pc = "undo" /\ c.run = "clean" THEN "missing" ELSE "error"]
    /\ Goto("finish")
    /\ UNCHANGED <<world, files, o, h, commands>>

RunFailed ==
    /\ pc = "finish" /\ c.run = "error"
    /\ Exit("error")
    /\ UNCHANGED <<world, files, o, c, h, commands>>

\* The journal goes or stays; a removal that fails is only a warning.
Finish ==
    /\ pc = "finish" /\ c.run # "error"
    /\ \/ MayDiscard /\ c.path # None /\ journals' = [journals EXCEPT ![c.path] = NoFile]
       \/ UNCHANGED journals
    /\ Goto("remount")
    /\ UNCHANGED <<world, holds, waived, o, c, h, commands>>

\* The verdicts decide on the status, whatever was said of the restore;
\* printing them may fail.
Remount ==
    /\ pc = "remount"
    /\ mounted' \in {mounted, IF o.remount THEN mounted \cup ({attached} \ {None}) ELSE mounted}
    /\ \E how \in {"pass", "fail", "error"} : Exit(how)
    /\ UNCHANGED <<attached, events, files, o, c, h, commands>>

-----------------------------------------------------------------------------
(***************************************************************************)
(* doRestore and doSpeed, with the device open.                            *)
(***************************************************************************)
Replay ==
    /\ pc = "replay" /\ There
    /\ LET j == journals[c.path] IN
         /\ holds' = [holds EXCEPT ![c.fd] = IF c.fd = j.drive THEN j.saved ELSE "other"]
         /\ waived' = IF c.fd = j.drive THEN waived ELSE waived \cup {c.fd}
    /\ h' = [h EXCEPT !.wrote = @ \cup {c.fd}]
    /\ Exit("pass") \/ Exit("error")
    /\ UNCHANGED <<world, journals, o, c, commands>>

ReplayFails ==
    /\ pc = "replay"
    /\ Exit("error")
    /\ UNCHANGED <<world, files, o, c, h, commands>>

Survey ==
    /\ pc = "survey"
    /\ Exit("pass") \/ Exit("fail")
    /\ UNCHANGED <<world, files, o, c, h, commands>>

Next ==
    \/ \E d \in Drives \cup {None} : Attach(d)
    \/ VolumesChange \/ Killed
    \/ \E r \in Requests : Start(r)
    \/ Fail \/ Probe \/ Unmount \/ Reprobe \/ Confirm \/ NewJournal \/ OpenDevice
    \/ SaveOriginals \/ NothingReadable \/ RunEndsEarly \/ WritePatterns \/ Reopen
    \/ PutBack \/ PutBackFails \/ RunFailed \/ Finish \/ Remount
    \/ Replay \/ ReplayFails \/ Survey

Spec == Init /\ [][Next]_vars

-----------------------------------------------------------------------------
(***************************************************************************)
(* Properties.                                                             *)
(***************************************************************************)
Points == {"idle", "probe", "unmount", "reprobe", "confirm", "journal", "open",
           "save", "write", "reopen", "undo", "finish", "remount", "replay", "survey"}

\* Every variable has its type; past the opening there is an open device.
TypeOK ==
    /\ attached \in Drives \cup {None} /\ mounted \subseteq Drives
    /\ holds \in [Drives -> {"own", "other"}]
    /\ journals \in [Paths -> [drive : Drives \cup {None}, size : Nat,
                               saved : {"absent", "nothing", "own", "other"}]]
    /\ pc \in Points
    /\ status \in {"none", "running", "pass", "fail", "error", "killed"}
    /\ o \in Requests
    /\ c \in [info : Drives \cup {None}, sample : Nat, path : Paths \cup {None},
              fd : Drives \cup {None},
              mem : [drive : Drives \cup {None}, what : {"own", "other"}],
              run : {"clean", "missing", "error"}]
    /\ h \in [came : SUBSET Drives, shown : Drives \cup {None}, wrote : SUBSET Drives]
    /\ waived \subseteq Drives
    /\ pc \in {"save", "write", "undo", "replay"} => c.fd \in Drives

(***************************************************************************)
(* However commands are killed, fail and follow each other, checks of a    *)
(* drive that is still full of patterns and replays of any journal among   *)
(* them: a drive that does not hold its own data has a journal that does.  *)
(* Not for -journal none, nor for a drive that took the place of another   *)
(* behind an open device or in a replay.  (main.go:285 and :290, which     *)
(* keep or remove the journal; journal.go:47, which never reuses a file.)  *)
(***************************************************************************)
NothingMissingUnlogged ==
    \A d \in Drives \ waived :
        holds[d] = "own" \/ \E p \in Paths : journals[p].drive = d /\ journals[p].saved = "own"

(***************************************************************************)
(* A command writes to the drive it probed last, the one the person was    *)
(* shown, and only once its identifier was typed or -yes given.  There are *)
(* two exceptions.  A replay with -read-only is not confirmed at all: see  *)
(* TypedBeforeWriting.  And a drive that came to be attached after the     *)
(* last probe can be written in place of the one confirmed: nothing looks  *)
(* at the drive again.  Any other drive is safe, one that was attached at  *)
(* the first probe or during the unmount among them.  (confirm, and the    *)
(* second probe of doCheck and doRestore.)                                 *)
(***************************************************************************)
WritesAreConsented ==
    h.wrote # {} =>
        /\ h.wrote \subseteq {c.info} \cup h.came
        /\ o.yes \/ (Restore /\ o.readOnly) \/ h.shown = c.info

(***************************************************************************)
(* "Internal disks and bare partitions are refused without -force", also   *)
(* if they come to be attached while the volumes are being unmounted.  Not *)
(* if they come after the last probe: nothing asks what they are.          *)
(***************************************************************************)
RefusalsHold ==
    \A d \in h.wrote \ h.came : o.force \/ (~Attr[d].internal /\ Attr[d].whole)

(***************************************************************************)
(* A replay writes to a drive of the size the journal was taken from, also *)
(* after an unmount (main.go:405 and :423), unless the drive came after    *)
(* the last probe.  Nothing says it is the drive.                          *)
(***************************************************************************)
ReplayFits ==
    Restore => \A d \in h.wrote \ h.came :
        o.force \/ Attr[d].size = journals[c.path].size

(***************************************************************************)
(* The samples written are whole blocks of the drive written, although the *)
(* sample size was rounded for the drive probed before the unmount         *)
(* (main.go:205): a run on another drive is refused by buildPlan.  Not if  *)
(* the drive came after the last probe.                                    *)
(***************************************************************************)
AlignedToDrive ==
    Check => \A d \in h.wrote \ h.came : c.sample % Attr[d].block = 0

(***************************************************************************)
(* As design.md:120 has it, "the target's identifier has to be typed to    *)
(* confirm unless -yes".  With -read-only, confirm lets a restore pass.    *)
(***************************************************************************)
TypedBeforeWriting == h.wrote # {} => o.yes \/ h.shown # None
=============================================================================
