------------------------------ MODULE Journal ------------------------------
(***************************************************************************)
(* The undo journal as a file (journal.go): a header, then records of      *)
(* fixed length, each appended and flushed by record and read back field   *)
(* by field by readJournal.  An append may fail or be cut off after any    *)
(* number of bytes; an interrupted run leaves whatever was flushed and any *)
(* part of what was not, which a panic may also garble.  A field of the    *)
(* file may later be damaged.                                              *)
(*                                                                         *)
(* The file is a sequence of pieces.  A piece is what one call of record   *)
(* put there: the number of its bytes that are in the file.                *)
(***************************************************************************)
EXTENDS Naturals, Sequences, SequencesExt

CONSTANTS
    DataLen,        \* bytes of one sample
    MaxRecords      \* bound on the calls of record

ASSUME JournalAssumption == DataLen \in Nat \ {0} /\ MaxRecords \in Nat

\* Lengths of the fields of a record, in the order they are written.
OffsetLen == 8
LengthLen == 4
CrcLen    == 4
RecordLen == OffsetLen + LengthLen + DataLen + CrcLen

VARIABLES
    phase,      \* "create", "open", "probing", "closed", "reading", "end"
    header,     \* "absent", "torn", "whole" or "flawed"
    file,       \* the pieces after the header
    flushed,    \* how many of them are known to be on disk
    calls,      \* how many times record was called
    acked,      \* the calls that returned nil
    cutOff,     \* whether the run was interrupted rather than closing the file
    damaged,    \* whether the file was damaged while it lay there
    pos,        \* readJournal: the piece it is at
    out,        \* readJournal: the records it has accepted
    status      \* readJournal: "none", "ok" or "error"

vars == <<phase, header, file, flushed, calls, acked, cutOff, damaged, pos, out, status>>
reader == <<pos, out, status>>

(***************************************************************************)
(* What can be wrong with a piece: nothing, or one field.  place is an     *)
(* offset that is wrong but possible.                                      *)
(***************************************************************************)
Flaws == {"none", "length", "offset", "place", "data"}

Piece(call, bytes) == [call |-> call, bytes |-> bytes, flaw |-> "none"]

Whole(p) == p.bytes = RecordLen

-----------------------------------------------------------------------------
(***************************************************************************)
(* Mistakes readJournal and record could have made; see the README.        *)
(***************************************************************************)

\* Returning before the flush.
FlushedLazily(f) == flushed

\* Accepting a record without comparing its checksum.
AcceptUnchecked(p) == p.flaw \in {"none", "place", "data"}

\* Dropping a torn record only when the file ends in its data or checksum.
EndsInData(p) == ~Whole(p) /\ p.bytes >= OffsetLen + LengthLen

\* Passing over a record that a check refuses, and reading on.
PassOver ==
    /\ phase = "reading" /\ pos <= Len(file)
    /\ Whole(file[pos]) /\ file[pos].flaw \notin {"none", "place"}
    /\ pos' = pos + 1
    /\ UNCHANGED <<phase, header, file, flushed, calls, acked, cutOff, damaged, out, status>>

-----------------------------------------------------------------------------
\* The file with one more piece, if any byte of it got there.
With(f, call, bytes) == IF bytes = 0 THEN f ELSE Append(f, Piece(call, bytes))

\* How many pieces are on disk once a flush of file f has succeeded.
FlushedBy(f) == Len(f)

\* The checks of readJournal on the fields of a whole record: length, offset
\* range and alignment, checksum of the data.  The checksum is of the data only.
Accepts(p) == p.flaw \in {"none", "place"}

\* A check fails: those of length and offset come before the data is read.
Refuses(p) == ~Accepts(p) /\ (Whole(p) \/ (p.flaw # "data" /\ p.bytes >= OffsetLen + LengthLen))

\* The file ends inside this record, after its offset: readJournal stops.
EndsReading(p) == ~Whole(p) /\ p.bytes >= OffsetLen

\* What a crash may leave of the bytes of a file f: those known to be on disk
\* and any number of those that follow.
Remains(f) ==
    { SubSeq(f, 1, n) : n \in flushed .. Len(f) }
      \cup UNION { { Append(SubSeq(f, 1, n), [f[n + 1] EXCEPT !.bytes = bytes]) :
                       bytes \in 1 .. f[n + 1].bytes } : n \in flushed .. Len(f) - 1 }

Init ==
    /\ phase = "create"
    /\ header = "absent"
    /\ file = <<>>
    /\ flushed = 0
    /\ calls = 0
    /\ acked = {}
    /\ cutOff = FALSE
    /\ damaged = FALSE
    /\ pos = 1
    /\ out = <<>>
    /\ status = "none"

-----------------------------------------------------------------------------
(***************************************************************************)
(* Writing.                                                                *)
(***************************************************************************)
Create ==
    /\ phase = "create"
    /\ header' = "whole"
    /\ phase' = "open"
    /\ UNCHANGED <<file, flushed, calls, acked, cutOff, damaged, reader>>

\* The run is interrupted in newJournal.
CreateCutOff ==
    /\ phase = "create"
    /\ header' \in {"absent", "torn", "whole"}
    /\ phase' = "closed"
    /\ cutOff' = TRUE
    /\ UNCHANGED <<file, flushed, calls, acked, damaged, reader>>

Recording == phase \in {"open", "probing"} /\ calls < MaxRecords

Record ==
    /\ Recording
    /\ calls' = calls + 1
    /\ file' = With(file, calls + 1, RecordLen)
    /\ flushed' = FlushedBy(file')
    /\ acked' = acked \cup {calls + 1}
    /\ UNCHANGED <<phase, header, cutOff, damaged, reader>>

(***************************************************************************)
(* The write or the flush returns an error.  The scan gives up and closes  *)
(* the journal; the search for the capacity counts the probe as failed and *)
(* goes on to the next, which appends to the same file.                    *)
(***************************************************************************)
RecordFails ==
    /\ Recording
    /\ calls' = calls + 1
    /\ \E bytes \in 0 .. RecordLen : file' = With(file, calls + 1, bytes)
    /\ phase' = IF phase = "probing" THEN "probing" ELSE "closed"
    /\ UNCHANGED <<header, flushed, acked, cutOff, damaged, reader>>

\* The originals are back, and the search for the capacity begins.
StartProbing ==
    /\ phase = "open"
    /\ phase' = "probing"
    /\ UNCHANGED <<header, file, flushed, calls, acked, cutOff, damaged, reader>>

\* The run ends and keeps its journal.
Close ==
    /\ phase \in {"open", "probing"}
    /\ phase' = "closed"
    /\ UNCHANGED <<header, file, flushed, calls, acked, cutOff, damaged, reader>>

(***************************************************************************)
(* The process dies or the machine panics, in an append perhaps.  A panic  *)
(* may garble one of the pieces not known to be flushed: its length in the *)
(* file and its bytes reach the disk apart.                                *)
(***************************************************************************)
CutOff ==
    /\ phase \in {"open", "probing"}
    /\ LET next == IF calls < MaxRecords THEN With(file, calls + 1, RecordLen) ELSE file
       IN  \E left \in Remains(next) :
              \/ file' = left
              \/ \E k \in flushed + 1 .. Len(left), flaw \in Flaws :
                    file' = [left EXCEPT ![k].flaw = flaw]
    /\ phase' = "closed"
    /\ cutOff' = TRUE
    /\ UNCHANGED <<header, flushed, calls, acked, damaged, reader>>

\* One field of a file at rest is damaged.
Damage ==
    /\ phase = "closed" /\ ~damaged
    /\ damaged' = TRUE
    /\ \/ header = "whole" /\ header' = "flawed" /\ UNCHANGED file
       \/ /\ \E k \in DOMAIN file, flaw \in Flaws \ {"none"} :
                Whole(file[k]) /\ file' = [file EXCEPT ![k].flaw = flaw]
          /\ UNCHANGED header
    /\ UNCHANGED <<phase, flushed, calls, acked, cutOff, reader>>

-----------------------------------------------------------------------------
(***************************************************************************)
(* Reading: one action per way an iteration of readJournal can go.         *)
(***************************************************************************)
Stop(result) == phase' = "end" /\ status' = result

StartReading ==
    /\ phase = "closed"
    /\ IF header = "whole"
       THEN phase' = "reading" /\ UNCHANGED status
       ELSE Stop("error")
    /\ UNCHANGED <<header, file, flushed, calls, acked, cutOff, damaged, pos, out>>

\* The offset of the next record is not there at all: the end of the file.
ReadEOF ==
    /\ phase = "reading" /\ pos > Len(file)
    /\ Stop("ok")
    /\ UNCHANGED <<header, file, flushed, calls, acked, cutOff, damaged, pos, out>>

AtPiece == phase = "reading" /\ pos <= Len(file)

\* The file ends inside the offset: io.ErrUnexpectedEOF is not io.EOF.
ReadTornOffset ==
    /\ AtPiece /\ pos = Len(file)
    /\ ~Whole(file[pos]) /\ ~EndsReading(file[pos])
    /\ Stop("error")
    /\ UNCHANGED <<header, file, flushed, calls, acked, cutOff, damaged, pos, out>>

\* The file ends inside a later field: a torn record.
ReadTornRecord ==
    /\ AtPiece /\ pos = Len(file)
    /\ EndsReading(file[pos]) /\ ~Refuses(file[pos])
    /\ Stop("ok")
    /\ UNCHANGED <<header, file, flushed, calls, acked, cutOff, damaged, pos, out>>

(***************************************************************************)
(* A torn record that others follow: its missing fields are read across    *)
(* into theirs.  If one of them is whole there are bytes enough for all    *)
(* fields, and the checks refuse what comes out; if none is, the file may  *)
(* end before a check fails.                                               *)
(***************************************************************************)
ReadAcross ==
    /\ AtPiece /\ pos < Len(file)
    /\ ~Whole(file[pos])
    /\ \/ Stop("error")
       \/ /\ \A k \in pos + 1 .. Len(file) : ~Whole(file[k])
          /\ Stop("ok")
    /\ UNCHANGED <<header, file, flushed, calls, acked, cutOff, damaged, pos, out>>

\* A check on a field fails.
ReadDamaged ==
    /\ AtPiece /\ (Whole(file[pos]) \/ pos = Len(file))
    /\ Refuses(file[pos])
    /\ Stop("error")
    /\ UNCHANGED <<header, file, flushed, calls, acked, cutOff, damaged, pos, out>>

ReadRecord ==
    /\ AtPiece /\ Whole(file[pos])
    /\ Accepts(file[pos])
    /\ out' = Append(out, file[pos])
    /\ pos' = pos + 1
    /\ UNCHANGED <<phase, header, file, flushed, calls, acked, cutOff, damaged, status>>

Next ==
    \/ Create \/ CreateCutOff
    \/ Record \/ RecordFails \/ StartProbing \/ Close \/ CutOff
    \/ Damage
    \/ StartReading \/ ReadEOF \/ ReadTornOffset \/ ReadTornRecord
    \/ ReadAcross \/ ReadDamaged \/ ReadRecord

Spec == Init /\ [][Next]_vars

-----------------------------------------------------------------------------
(***************************************************************************)
(* Properties.                                                             *)
(***************************************************************************)

\* Every variable holds a value of the kind the code gives it.
TypeOK ==
    /\ phase \in {"create", "open", "probing", "closed", "reading", "end"}
    /\ header \in {"absent", "torn", "whole", "flawed"}
    /\ file \in Seq([call : 1 .. MaxRecords, bytes : 1 .. RecordLen, flaw : Flaws])
    /\ flushed \in 0 .. MaxRecords
    /\ calls \in 0 .. MaxRecords
    /\ acked \subseteq 1 .. MaxRecords
    /\ cutOff \in BOOLEAN
    /\ damaged \in BOOLEAN
    /\ pos \in 1 .. MaxRecords + 1
    /\ IsPrefix(out, file)
    /\ status \in {"none", "ok", "error"}

\* The calls whose records readJournal hands over.
Returned == { out[k].call : k \in DOMAIN out }

(***************************************************************************)
(* A journal that readJournal accepts holds every record the run was told  *)
(* was saved: neither a crash at any byte, nor a failed append in the      *)
(* middle, nor damage makes one disappear silently.  (record: "the flush   *)
(* is the whole point".)                                                   *)
(***************************************************************************)
NothingSavedIsLost == status = "ok" => acked \subseteq Returned

(***************************************************************************)
(* What a crash or a failed append may do to the records that record said  *)
(* were saved: nothing.  A journal that is accepted hands them over as     *)
(* they were recorded, and one that is refused, although it was not        *)
(* damaged at rest, is refused for a piece of an append that was never     *)
(* acknowledged: one that is torn or that a panic garbled.  (record: "the  *)
(* flush is the whole point, so it is not optional and not batched".)  An  *)
(* append that was not acknowledged can be handed over under a wrong       *)
(* offset, which the checksum does not cover, but never with wrong data.   *)
(***************************************************************************)
SavedAreIntact ==
    (status # "none" /\ header = "whole" /\ ~damaged)
    => /\ status = "ok" => \A k \in DOMAIN out :
             out[k].flaw = "none" \/ (out[k].flaw = "place" /\ out[k].call \notin acked)
       /\ status = "error" => \E k \in DOMAIN file :
             file[k].call \notin acked /\ (~Whole(file[k]) \/ file[k].flaw # "none")

\* Nothing in the file is damaged or garbled.
Sound == header # "flawed" /\ \A k \in DOMAIN file : file[k].flaw = "none"

(***************************************************************************)
(* After a crash that tears the last record anywhere behind its offset,    *)
(* readJournal hands over all records before it.                           *)
(***************************************************************************)
OnlyLastTorn == \A k \in 1 .. Len(file) - 1 : Whole(file[k])

TornRecordIsDropped ==
    (/\ status # "none" /\ header = "whole" /\ Sound /\ OnlyLastTorn
     /\ \A k \in DOMAIN file : file[k].bytes >= OffsetLen)
    => /\ status = "ok"
       /\ DOMAIN out = { k \in DOMAIN file : Whole(file[k]) }
       /\ \A k \in DOMAIN out : out[k] = file[k]

(***************************************************************************)
(* As the comment on readJournal has it: "a torn final record (the process *)
(* died mid-write) is dropped rather than treated as corruption".  It is   *)
(* not when the file ends inside the offset of that record.                *)
(***************************************************************************)
TornTailIsDropped ==
    (cutOff /\ status # "none" /\ header = "whole" /\ Sound /\ OnlyLastTorn)
    => status = "ok"
=============================================================================
