---------------------------- MODULE BlockDevice ----------------------------
(***************************************************************************)
(* The drive under test, as the scan engine sees it through the interface  *)
(* blockDevice of device.go, and the ways it misbehaves, taken from the    *)
(* simulated devices of fake_test.go.                                      *)
(*                                                                         *)
(* One slot is one sample-sized, sample-aligned piece of the claimed       *)
(* address range: every transfer of the scan is exactly one slot           *)
(* (SampleSize bytes at a multiple of SampleSize), so a smaller unit would *)
(* tell nothing more apart.  The media behind the addresses is a set of    *)
(* cells, numbered like the slots they belong to on an honest drive.       *)
(***************************************************************************)
EXTENDS Naturals, Sequences

CONSTANT Slots      \* how many slots the drive claims to have

ASSUME SlotsAssumption == Slots \in Nat \ {0}

Slot == 0 .. Slots - 1

-----------------------------------------------------------------------------
(***************************************************************************)
(* What one slot can hold.  The pattern of a slot is bound to its address  *)
(* (pattern.go), so patterns of different slots differ, and none of them   *)
(* equals zeros, user data or the mixture a torn write leaves.             *)
(***************************************************************************)
Tags == {"zero", "garbage", "user", "pattern"}

Content == [tag : Tags, slot : Slot]

Zero       == [tag |-> "zero",    slot |-> 0]
Garbage    == [tag |-> "garbage", slot |-> 0]
User(s)    == [tag |-> "user",    slot |-> s]
Pattern(s) == [tag |-> "pattern", slot |-> s]

\* What can be on a drive before a run: anything but this run's patterns.
Blank == { x \in Content : x.tag \in {"zero", "user"} }

-----------------------------------------------------------------------------
(***************************************************************************)
(* A drive maps every slot to the cell its reads and writes reach, and     *)
(* treats writes to it in one of four ways:                                *)
(*   store   the cell takes the data                                       *)
(*   drop    the write succeeds and nothing happens                        *)
(*   zeros   like drop, and reads return zeros                             *)
(*   reject  the write returns an error                                    *)
(* fullSync says whether the drive implements F_FULLFSYNC; without it a    *)
(* flush only hands the data over to the drive (syncWithFallback).         *)
(***************************************************************************)
Kinds == {"store", "drop", "zeros", "reject"}

Drive == [phys : [Slot -> Slot], kind : [Slot -> Kinds], fullSync : BOOLEAN]

Honest == [phys     |-> [s \in Slot |-> s],
           kind     |-> [s \in Slot |-> "store"],
           fullSync |-> TRUE]

\* fakeWrap: addresses are folded back with a modulo.
Folding(real) == [Honest EXCEPT !.phys = [s \in Slot |-> s % real]]

\* fakeDiscard, fakeZeros, fakeWriteError: slots from real on misbehave.
Failing(real, how) ==
    [Honest EXCEPT !.kind = [s \in Slot |-> IF s < real THEN "store" ELSE how]]

WithoutFullSync(d) == [d EXCEPT !.fullSync = FALSE]

\* A drive that has a cell of its own for every slot, and keeps what is written.
IsHonest(d) ==
    /\ \A s \in Slot : d.kind[s] = "store"
    /\ \A s, t \in Slot : d.phys[s] = d.phys[t] => s = t

-----------------------------------------------------------------------------
(***************************************************************************)
(* Reads and writes of a drive d whose cells hold m.                       *)
(***************************************************************************)
Load(d, m, s) == IF d.kind[s] = "zeros" THEN Zero ELSE m[d.phys[s]]

Store(d, m, s, x) ==
    IF d.kind[s] = "store" THEN [m EXCEPT ![d.phys[s]] = x] ELSE m

(***************************************************************************)
(* What may be on each cell if the power fails now.  A write the drive has *)
(* taken may or may not have reached the cell, or only some blocks of it,  *)
(* until a flush that empties the drive's own cache.                       *)
(***************************************************************************)
StoreMaybe(d, may, s, x) ==
    IF d.kind[s] = "store"
    THEN [may EXCEPT ![d.phys[s]] = @ \cup {x, Garbage}]
    ELSE may

Flush(d, may, m) == IF d.fullSync THEN [c \in Slot |-> {m[c]}] ELSE may
=============================================================================
