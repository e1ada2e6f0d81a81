--------------------------------- MODULE Speed ---------------------------------
(***************************************************************************)
(* The read-speed survey: doSpeed from the sizes on its command line to    *)
(* the numbers it reports, with buildSpeedPlan, runSpeedSurvey and         *)
(* summarizeSpeed of speed.go.  The clock ticks between the two looks at   *)
(* it; a read may fail, and fails outside of the drive.                    *)
(***************************************************************************)
EXTENDS Sizes, Sequences

CONSTANTS
    Surveys,    \* command lines and drives
    Times       \* how long a transfer may take by the clock

ASSUME SpeedAssumption ==
    /\ Surveys \subseteq [length : Texts, transfer : Texts, zones : Int,
                          end : Nat, block : Nat \ {0}]
    /\ \A r \in Surveys : r.end < Limit
    /\ Times \subseteq Nat

VARIABLES
    req,        \* the command line, and size and block size of the drive
    pc,         \* where the survey is
    zr,         \* the result of the zone being read
    results,    \* the zones that have been read, or given up
    errors,     \* res.Errors
    slowest, fastest, \* the zones named in the report, 0 for none
    next,       \* the loop of summarizeSpeed
    seen        \* the addresses that have been read

vars == <<req, pc, zr, results, errors, slowest, fastest, next, seen>>

-----------------------------------------------------------------------------
ZoneBytes == ParseSize(req.length)
Transfer  == ParseSize(req.transfer)

\* The size of the buffer, and of a transfer on a large drive.
Buffer == AlignUp(Transfer, req.block)
Span   == AlignDown(req.end, req.block)
Chunk  == IF Buffer > Span THEN AlignDown(Span, req.block) ELSE Buffer

-----------------------------------------------------------------------------
(***************************************************************************)
(* Mistakes the code could have made where it makes the decisions below.   *)
(***************************************************************************)

\* Capping a zone by the drive instead of by its share.
WholeDrive == AlignDown(Span, Chunk)

\* Spacing the zones so that one more would fit behind the last.
ByCount == req.zones

\* Rounding a zone up by a transfer although it is a multiple.
OneMore == Wrap(ZoneBytes + (Chunk - (ZoneBytes % Chunk)))

\* Breaking off a zone without counting it.
NotCounted == errors

\* Naming zones that were not read to the end.
AnyZone(z) == z.bytes > 0

\* One transfer too many.
UpTo(bytes, length) == bytes <= length

-----------------------------------------------------------------------------
(***************************************************************************)
(* The decisions of the code.  Each zone gets at most an equal share of    *)
(* the drive; if that is less than a transfer, zones are dropped.          *)
(***************************************************************************)
Asked  == AlignUp(ZoneBytes, Chunk)
Share  == AlignDown(Span \div req.zones, Chunk)
Capped == IF Share < Asked THEN Share ELSE Asked
Length == IF Capped < Chunk THEN Chunk ELSE Capped
Fitting == Span \div Chunk
Count  == IF Capped < Chunk /\ Fitting < req.zones THEN Fitting ELSE req.zones

\* Where the last zone starts, and where zone i does, from 0.
Last == AlignDown(Span - Length, req.block)

Steps == Count - 1

Offset(i) ==
    IF Count > 1 THEN AlignDown(Quot(Wrap(Last * i), Steps), req.block) ELSE 0

CanBuild == Span >= req.block /\ Transfer > 0 /\ ZoneBytes > 0

\* perZone transfers make up a zone.
More(bytes, length) == bytes < length

\* zoneResult.ok.
Ok(z) == ~z.err /\ z.bytes > 0

\* BytesPerSec, compared: it stays 0 for a zone that took no time by the clock.
Slower(y, z) == z.ns > 0 /\ (y.ns = 0 \/ y.bytes * z.ns < z.bytes * y.ns)

CountErrors == IF zr.err THEN errors + 1 ELSE errors

\* The exit status of doSpeed.
Passed == errors = 0

-----------------------------------------------------------------------------
NoZone == [bytes |-> 0, ns |-> 0, err |-> FALSE]

Init ==
    /\ req \in Surveys
    /\ pc = "parse"
    /\ zr = NoZone
    /\ results = <<>>
    /\ errors = 0
    /\ slowest = 0 /\ fastest = 0
    /\ next = 1
    /\ seen = {}

Goto(p) == pc' = p /\ UNCHANGED <<req, zr, results, errors, slowest, fastest, next, seen>>

ParseSizes ==
    /\ pc = "parse"
    /\ Accepted(req.length) /\ Accepted(req.transfer)
    /\ req.zones > 0 /\ req.end > 0
    /\ Goto("open")

RejectSizes ==
    /\ pc = "parse"
    /\ \/ ~Accepted(req.length) /\ Goto(IF Panics(req.length) THEN "panic" ELSE "rejected")
       \/ /\ Accepted(req.length) /\ ~Accepted(req.transfer)
          /\ Goto(IF Panics(req.transfer) THEN "panic" ELSE "rejected")
       \/ /\ Accepted(req.length) /\ Accepted(req.transfer)
          /\ ~(req.zones > 0 /\ req.end > 0) /\ Goto("rejected")

\* No buffer of a negative size is given, and the plan may not fit.
OpenDevice ==
    /\ pc = "open"
    /\ Goto(IF Buffer >= 0 /\ CanBuild THEN "reopen" ELSE "rejected")

\* The device is opened, or opened again for each zone.
OpenFails == pc \in {"open", "reopen"} /\ Goto("aborted")

Reopen ==
    /\ pc = "reopen"
    /\ zr' = NoZone
    /\ pc' = "read"
    /\ UNCHANGED <<req, results, errors, slowest, fastest, next, seen>>

\* The next transfer of the zone that follows those read.
Here   == Offset(Len(results)) + zr.bytes
Region == Here .. Here + Chunk - 1

Read ==
    /\ pc = "read"
    /\ Region \subseteq 0 .. req.end - 1
    /\ \E t \in Times : zr' = [zr EXCEPT !.bytes = @ + Chunk, !.ns = @ + t]
    /\ seen' = seen \cup Region
    /\ pc' = IF More(zr.bytes + Chunk, Length) THEN "read" ELSE "zone"
    /\ UNCHANGED <<req, results, errors, slowest, fastest, next>>

ReadFails ==
    /\ pc = "read"
    /\ zr' = [zr EXCEPT !.err = TRUE]
    /\ pc' = "zone"
    /\ UNCHANGED <<req, results, errors, slowest, fastest, next, seen>>

EndZone ==
    /\ pc = "zone"
    /\ results' = Append(results, zr)
    /\ errors' = CountErrors
    /\ pc' = IF Len(results) + 1 < Count THEN "reopen" ELSE "sum"
    /\ UNCHANGED <<req, zr, slowest, fastest, next, seen>>

Summarize ==
    /\ pc = "sum" /\ next <= Len(results)
    /\ LET z == results[next] IN
         /\ slowest' = IF Ok(z) /\ (slowest = 0 \/ Slower(z, results[slowest])) THEN next ELSE slowest
         /\ fastest' = IF Ok(z) /\ (fastest = 0 \/ Slower(results[fastest], z)) THEN next ELSE fastest
    /\ next' = next + 1
    /\ UNCHANGED <<req, pc, zr, results, errors, seen>>

Report == pc = "sum" /\ next > Len(results) /\ Goto("done")

Next ==
    \/ ParseSizes \/ RejectSizes \/ OpenDevice \/ OpenFails \/ Reopen
    \/ Read \/ ReadFails \/ EndZone \/ Summarize \/ Report

Spec == Init /\ [][Next]_vars

-----------------------------------------------------------------------------
(***************************************************************************)
(* Properties.                                                             *)
(***************************************************************************)

\* Every variable has its type, and a zone has no more than its length.
TypeOK ==
    /\ req \in Surveys
    /\ pc \in {"parse", "panic", "rejected", "open", "aborted", "reopen", "read",
              "zone", "sum", "done"}
    /\ zr \in [bytes : Nat, ns : Nat, err : BOOLEAN]
    /\ results \in Seq([bytes : Nat, ns : Nat, err : BOOLEAN])
    /\ errors \in 0 .. Len(results)
    /\ slowest \in 0 .. Len(results) /\ fastest \in 0 .. Len(results)
    /\ next \in 1 .. Len(results) + 1
    /\ seen \subseteq 0 .. req.end - 1
    /\ pc \in {"read", "zone"} => zr.bytes <= Length

\* (last-start)*i stays within 64 bits: drives times zones below 2^63.
NoOverflow == Span * Count < Limit

(***************************************************************************)
(* "No two of them ever read the same blocks - a second read of the same   *)
(* address would be timing a cache": the next transfer is on the drive, at *)
(* a block, and its addresses have not been read before, however short the *)
(* drive and whichever sizes were asked for (speed.go:142).                *)
(***************************************************************************)
NothingReadTwice ==
    (pc = "read" /\ NoOverflow) =>
        /\ Region \cap seen = {} /\ Region \subseteq 0 .. req.end - 1
        /\ Here % req.block = 0

(***************************************************************************)
(* "The first zone starts at the beginning of the device and the last one  *)
(* finishes at the last addressable block", as long as there are two: what *)
(* a survey without errors has read reaches from one to the other.         *)
(***************************************************************************)
SpansTheDrive ==
    (pc = "done" /\ errors = 0 /\ NoOverflow) =>
        0 \in seen /\ (Count > 1 => Span - 1 \in seen)

(***************************************************************************)
(* A zone is no longer than was asked for, in whole transfers, also where  *)
(* the arithmetic has wrapped around (speed.go:145).                       *)
(***************************************************************************)
NoZoneIsLonger ==
    \A i \in DOMAIN results : results[i].bytes < Meant(req.length) + Chunk

(***************************************************************************)
(* Status 0 of a survey says that every zone of its plan was read to the   *)
(* end (main.go:383, README.md:164).                                       *)
(***************************************************************************)
StatusIsEarned ==
    (pc = "done" /\ Passed) =>
        /\ Len(results) = Count
        /\ \A i \in DOMAIN results : results[i].bytes = Length

(***************************************************************************)
(* The zones named as slowest and fastest were read to the end, and by the *)
(* rates of the report no other zone that was is slower or faster; there   *)
(* are such zones unless every one failed (summarizeSpeed).                *)
(***************************************************************************)
HeadlinesAreRight ==
    pc = "done" =>
        LET good == { i \in DOMAIN results : results[i].bytes = Length /\ ~results[i].err } IN
        IF good = {} THEN slowest = 0 /\ fastest = 0
        ELSE /\ {slowest, fastest} \subseteq good
             /\ \A i \in good : /\ ~Slower(results[i], results[slowest])
                               /\ ~Slower(results[fastest], results[i])
=============================================================================
