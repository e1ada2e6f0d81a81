---------------------------- MODULE JournalProofs ----------------------------
(***************************************************************************)
(* What holds of every journal file, whatever the length of a sample and   *)
(* however many records there are: a journal that is accepted has all that *)
(* the run was told was saved, as it was saved, and one that is refused    *)
(* is refused for what was not.                                            *)
(***************************************************************************)
EXTENDS Journal, SequenceTheorems, TLAPS

Pieces == [call : 1 .. MaxRecords, bytes : 1 .. RecordLen, flaw : Flaws]

-----------------------------------------------------------------------------
(***************************************************************************)
(* The inductive invariant.                                                *)
(***************************************************************************)
Types ==
    /\ phase \in {"create", "open", "probing", "closed", "reading", "end"}
    /\ header \in {"absent", "torn", "whole", "flawed"}
    /\ file \in Seq(Pieces)
    /\ flushed \in Nat
    /\ calls \in 0 .. MaxRecords
    /\ acked \subseteq 1 .. MaxRecords
    /\ cutOff \in BOOLEAN
    /\ damaged \in BOOLEAN
    /\ out \in Seq(Pieces)
    /\ status \in {"none", "ok", "error"}

\* There is a piece for each call at most; a crash may add the one of a call
\* that did not return.
LengthInv ==
    /\ Len(file) <= MaxRecords
    /\ phase \in {"create", "open", "probing"} => Len(file) <= calls
    /\ flushed <= Len(file)

\* What a run was told was saved is whole and flushed.
AckedInv ==
    \A a \in acked : \E k \in 1 .. flushed : file[k].call = a /\ file[k].bytes = RecordLen

\* A piece of a call that was acknowledged is flushed and whole, and only damage
\* at rest can touch it; the calls to come are not acknowledged yet.
IntactInv ==
    /\ phase \in {"create", "open", "probing"} =>
          /\ acked \subseteq 1 .. calls
          /\ \A k \in 1 .. Len(file) : file[k].call <= calls
    /\ phase \in {"create", "open", "probing"} => ~damaged
    /\ \A k \in 1 .. Len(file) : file[k].call \in acked =>
          k <= flushed /\ Whole(file[k]) /\ (~damaged => file[k].flaw = "none")

\* The records handed over are the first pieces of the file, and acceptable.
ReaderInv ==
    /\ phase \notin {"reading", "end"} => out = <<>>
    /\ phase # "end" => status = "none"
    /\ pos = Len(out) + 1 /\ Len(out) <= Len(file)
    /\ \A k \in 1 .. Len(out) : out[k] = file[k] /\ Whole(out[k]) /\ Accepts(out[k])

IInv ==
    Types /\ LengthInv /\ AckedInv /\ IntactInv /\ ReaderInv /\ NothingSavedIsLost /\ SavedAreIntact

-----------------------------------------------------------------------------
\* The lengths are numbers.
LEMMA Lengths == RecordLen \in Nat /\ RecordLen > 0 /\ MaxRecords \in Nat
    BY JournalAssumption DEF RecordLen, OffsetLen, LengthLen, CrcLen

\* An append leaves what is there and adds at most one piece.
LEMMA WithFacts ==
    ASSUME NEW f \in Seq(Pieces), NEW call \in 1 .. MaxRecords, NEW bytes \in 0 .. RecordLen
    PROVE  /\ With(f, call, bytes) \in Seq(Pieces)
           /\ Len(With(f, call, bytes)) \in Len(f) .. Len(f) + 1
           /\ \A k \in 1 .. Len(f) : With(f, call, bytes)[k] = f[k]
           /\ bytes > 0 => /\ Len(With(f, call, bytes)) = Len(f) + 1
                           /\ With(f, call, bytes)[Len(f) + 1] = Piece(call, bytes)
<1>1. CASE bytes = 0
    BY <1>1 DEF With
<1>2. CASE bytes # 0
  <2>1. Piece(call, bytes) \in Pieces
      BY <1>2, Lengths DEF Piece, Pieces, Flaws
  <2>2. With(f, call, bytes) = Append(f, Piece(call, bytes))
      BY <1>2 DEF With
  <2> QED
      BY <1>2, <2>1, <2>2, AppendProperties
<1> QED
    BY <1>1, <1>2

\* A flaw in one piece changes neither its call nor its bytes, nor other pieces.
LEMMA FlawFacts ==
    ASSUME NEW f \in Seq(Pieces), NEW k \in 1 .. Len(f), NEW flaw \in Flaws
    PROVE  LET g == [f EXCEPT ![k].flaw = flaw]
           IN  /\ g \in Seq(Pieces) /\ Len(g) = Len(f)
               /\ \A j \in 1 .. Len(f) : g[j].call = f[j].call /\ g[j].bytes = f[j].bytes
               /\ \A j \in 1 .. Len(f) : j # k => g[j] = f[j]
<1> DEFINE p == [f[k] EXCEPT !.flaw = flaw]
<1> DEFINE g == [f EXCEPT ![k] = p]
<1>1. f[k] \in Pieces
    BY ElementOfSeq
<1>2. p \in Pieces /\ p.call = f[k].call /\ p.bytes = f[k].bytes
    BY <1>1 DEF Pieces
<1> HIDE DEF p
<1>3. /\ g \in Seq(Pieces) /\ Len(g) = Len(f) /\ g[k] = p
      /\ \A j \in 1 .. Len(f) : j # k => g[j] = f[j]
    BY <1>2, ExceptSeq
<1> HIDE DEF g
<1>4. \A j \in 1 .. Len(f) : g[j].call = f[j].call /\ g[j].bytes = f[j].bytes
    BY <1>2, <1>3
<1> QED
    BY <1>3, <1>4 DEF g, p

\* A crash leaves the flushed pieces, and of the others no more than there was.
LEMMA RemainsFacts ==
    ASSUME NEW f \in Seq(Pieces), flushed \in Nat, flushed <= Len(f), NEW left \in Remains(f)
    PROVE  /\ left \in Seq(Pieces) /\ Len(left) <= Len(f) /\ flushed <= Len(left)
           /\ \A k \in 1 .. Len(left) : left[k].call = f[k].call
           /\ \A k \in 1 .. flushed : left[k] = f[k]
<1>1. Len(f) \in Nat
    BY LenProperties
<1>2. \A n \in flushed .. Len(f) :
         /\ SubSeq(f, 1, n) \in Seq(Pieces) /\ Len(SubSeq(f, 1, n)) = n
         /\ \A k \in 1 .. n : SubSeq(f, 1, n)[k] = f[k]
  <2> SUFFICES ASSUME NEW n \in flushed .. Len(f)
               PROVE  /\ SubSeq(f, 1, n) \in Seq(Pieces) /\ Len(SubSeq(f, 1, n)) = n
                      /\ \A k \in 1 .. n : SubSeq(f, 1, n)[k] = f[k]
      OBVIOUS
  <2>1. n \in Nat /\ n <= Len(f) /\ \A k \in 1 .. n : f[k] \in Pieces
      BY <1>1, ElementOfSeq
  <2> QED
      BY <2>1
<1>3. CASE \E n \in flushed .. Len(f) : left = SubSeq(f, 1, n)
    BY <1>1, <1>2, <1>3
<1>4. ASSUME NEW n \in flushed .. Len(f) - 1, NEW bytes \in 1 .. f[n + 1].bytes,
             left = Append(SubSeq(f, 1, n), [f[n + 1] EXCEPT !.bytes = bytes])
      PROVE  /\ left \in Seq(Pieces) /\ Len(left) <= Len(f) /\ flushed <= Len(left)
             /\ \A k \in 1 .. Len(left) : left[k].call = f[k].call
             /\ \A k \in 1 .. flushed : left[k] = f[k]
  <2> DEFINE head == SubSeq(f, 1, n)
  <2> DEFINE p == [f[n + 1] EXCEPT !.bytes = bytes]
  <2>1. n \in flushed .. Len(f) /\ n + 1 \in 1 .. Len(f) /\ n \in Nat
      BY <1>1, <1>4
  <2>2. head \in Seq(Pieces) /\ Len(head) = n /\ \A k \in 1 .. n : head[k] = f[k]
      BY <1>2, <2>1
  <2>3. f[n + 1] \in Pieces
      BY <2>1, ElementOfSeq
  <2>4. p \in Pieces /\ p.call = f[n + 1].call
    <3>1. bytes \in 1 .. RecordLen
        BY <1>4, <2>3, Lengths DEF Pieces
    <3> QED
        BY <2>3, <3>1 DEF Pieces
  <2> HIDE DEF head, p
  <2>5. /\ left \in Seq(Pieces) /\ Len(left) = n + 1 /\ left[n + 1] = p
        /\ \A k \in 1 .. n : left[k] = head[k]
    <3>1. left = Append(head, p)
        BY <1>4 DEF head, p
    <3> QED
        BY <2>2, <2>4, <3>1, AppendProperties
  <2>6. \A k \in 1 .. n : left[k] = f[k]
      BY <2>2, <2>5
  <2>7. \A k \in 1 .. flushed : k \in 1 .. n
      BY <1>4, <2>1
  <2>8. \A k \in 1 .. Len(left) : left[k].call = f[k].call
      BY <2>1, <2>4, <2>5, <2>6
  <2> QED
      BY <1>1, <1>4, <2>1, <2>5, <2>6, <2>7, <2>8
<1> QED
    BY <1>3, <1>4 DEF Remains

\* An append that did not return adds a piece of a call that is not acknowledged.
LEMMA UnsavedPiece ==
    ASSUME IInv, phase \in {"open", "probing"}, calls + 1 \in 1 .. MaxRecords,
           NEW bytes \in 0 .. RecordLen
    PROVE  \A k \in 1 .. Len(With(file, calls + 1, bytes)) :
              /\ With(file, calls + 1, bytes)[k].call <= calls + 1
              /\ With(file, calls + 1, bytes)[k].call \in acked => k <= flushed
<1> DEFINE f == With(file, calls + 1, bytes)
<1>1. /\ file \in Seq(Pieces) /\ calls \in 0 .. MaxRecords /\ Len(file) \in Nat
      /\ MaxRecords \in Nat /\ calls \in Nat
    BY LenProperties, Lengths DEF IInv, Types
<1>2. /\ acked \subseteq 1 .. calls
      /\ \A k \in 1 .. Len(file) :
            file[k].call <= calls /\ (file[k].call \in acked => k <= flushed)
    BY DEF IInv, IntactInv
<1>3. /\ Len(f) \in Len(file) .. Len(file) + 1
      /\ \A k \in 1 .. Len(file) : f[k] = file[k]
      /\ bytes > 0 => f[Len(file) + 1] = Piece(calls + 1, bytes)
      /\ bytes = 0 => f = file
  <2>1. bytes = 0 => f = file
      BY DEF With
  <2> QED
      BY <1>1, <2>1, WithFacts
<1> HIDE DEF f
<1>4. ASSUME NEW k \in 1 .. Len(f)
      PROVE  f[k].call <= calls + 1 /\ (f[k].call \in acked => k <= flushed)
  <2>1. CASE k \in 1 .. Len(file)
    <3>1. f[k] = file[k] /\ file[k] \in Pieces
        BY <1>1, <1>3, <2>1, ElementOfSeq
    <3> QED
        BY <1>1, <1>2, <2>1, <3>1 DEF Pieces
  <2>2. CASE k \notin 1 .. Len(file)
    <3>1. k = Len(file) + 1 /\ bytes > 0
        BY <1>1, <1>3, <1>4, <2>2, Lengths
    <3>2. f[k].call = calls + 1
        BY <1>3, <3>1 DEF Piece
    <3> QED
        BY <1>1, <1>2, <3>2
  <2> QED
      BY <2>1, <2>2
<1> QED
    BY <1>4 DEF f

\* At first there is no file.
LEMMA InitInv == Init => IInv
<1> SUFFICES ASSUME Init PROVE IInv
    OBVIOUS
<1>1. file = <<>> /\ out = <<>> /\ acked = {} /\ status = "none" /\ flushed = 0 /\ calls = 0 /\ pos = 1
    BY DEF Init
<1>2. <<>> \in Seq(Pieces) /\ Len(<<>>) = 0
    BY EmptySeq
<1>3. Types
  <2>1. phase = "create" /\ header = "absent" /\ cutOff \in BOOLEAN /\ damaged \in BOOLEAN
      BY DEF Init
  <2>2. calls \in 0 .. MaxRecords /\ flushed \in Nat
      BY <1>1, Lengths
  <2> QED
      BY <1>1, <1>2, <2>1, <2>2 DEF Types
<1>4. LengthInv /\ AckedInv /\ IntactInv
  <2>1. damaged = FALSE
      BY DEF Init
  <2> QED
      BY <1>1, <1>2, <2>1, Lengths DEF LengthInv, AckedInv, IntactInv
<1>5. ReaderInv /\ NothingSavedIsLost /\ SavedAreIntact
    BY <1>1, <1>2 DEF ReaderInv, NothingSavedIsLost, SavedAreIntact
<1> QED
    BY <1>3, <1>4, <1>5 DEF IInv

(***************************************************************************)
(* The writer's steps: nothing is read, and no piece that is flushed goes. *)
(***************************************************************************)
LEMMA WriterStep ==
    ASSUME IInv,
           Create \/ CreateCutOff \/ Record \/ RecordFails \/ StartProbing \/ Close \/ CutOff
             \/ Damage
    PROVE  IInv'
<1>1. /\ file \in Seq(Pieces) /\ flushed \in Nat /\ calls \in 0 .. MaxRecords
      /\ acked \subseteq 1 .. MaxRecords /\ flushed <= Len(file) /\ Len(file) <= MaxRecords
      /\ RecordLen \in Nat /\ RecordLen > 0 /\ MaxRecords \in Nat /\ Len(file) \in Nat
  <2>1. file \in Seq(Pieces) /\ Len(file) \in Nat
      BY LenProperties DEF IInv, Types
  <2>2. flushed \in Nat /\ calls \in 0 .. MaxRecords /\ acked \subseteq 1 .. MaxRecords
      BY DEF IInv, Types
  <2>3. flushed <= Len(file) /\ Len(file) <= MaxRecords
      BY DEF IInv, LengthInv
  <2> QED
      BY <2>1, <2>2, <2>3, Lengths
<1>2. /\ UNCHANGED <<pos, out, status>> /\ out = <<>> /\ status = "none" /\ pos = 1
      /\ phase \notin {"reading", "end"} /\ phase' \notin {"reading", "end"}
  <2>1. UNCHANGED <<pos, out, status>>
      BY DEF Create, CreateCutOff, Record, RecordFails, StartProbing, Close, CutOff, Damage,
         reader
  <2>2. phase \notin {"reading", "end"} /\ phase' \notin {"reading", "end"}
      BY DEF Create, CreateCutOff, Record, RecordFails, Recording, StartProbing, Close, CutOff,
         Damage
  <2>3. out = <<>> /\ status = "none" /\ pos = Len(out) + 1
      BY <2>2 DEF IInv, ReaderInv
  <2>4. Len(<<>>) = 0
      BY EmptySeq
  <2> QED
      BY <2>1, <2>2, <2>3, <2>4
<1>3. Len(file') \in Nat => ReaderInv' /\ NothingSavedIsLost' /\ SavedAreIntact'
  <2>1. out' = <<>> /\ status' = "none" /\ pos' = 1 /\ Len(<<>>) = 0
      BY <1>2, EmptySeq
  <2> QED
      BY <2>1 DEF ReaderInv, NothingSavedIsLost, SavedAreIntact
<1>4. CASE Create \/ CreateCutOff \/ StartProbing \/ Close
  <2>1. /\ UNCHANGED <<file, flushed, calls, acked, damaged>>
        /\ phase \in {"create", "open", "probing"} /\ phase' \in {"open", "probing", "closed"}
        /\ header' \in {"absent", "torn", "whole", "flawed"} /\ cutOff' \in BOOLEAN
      BY <1>4 DEF Create, CreateCutOff, StartProbing, Close, IInv, Types
  <2>2. Types'
      BY <1>2, <2>1 DEF IInv, Types
  <2>3. LengthInv' /\ AckedInv'
      BY <2>1 DEF IInv, LengthInv, AckedInv, RecordLen
  <2>4. IntactInv'
      BY <2>1 DEF IInv, IntactInv, Whole, RecordLen
  <2> QED
      BY <1>1, <1>3, <2>1, <2>2, <2>3, <2>4 DEF IInv
<1>5. CASE Record
  <2>1. /\ calls' = calls + 1 /\ calls + 1 \in 1 .. MaxRecords /\ Len(file) <= calls
        /\ file' = With(file, calls + 1, RecordLen) /\ flushed' = Len(file')
        /\ acked' = acked \cup {calls + 1}
        /\ UNCHANGED <<phase, header, cutOff, damaged>> /\ phase \in {"open", "probing"}
      BY <1>1, <1>5 DEF Record, Recording, FlushedBy, IInv, LengthInv
  <2>2. /\ file' \in Seq(Pieces) /\ Len(file') = Len(file) + 1
        /\ \A k \in 1 .. Len(file) : file'[k] = file[k]
        /\ file'[Len(file) + 1] = Piece(calls + 1, RecordLen)
    <3>1. RecordLen \in 0 .. RecordLen
        BY <1>1
    <3> QED
        BY <1>1, <2>1, <3>1, WithFacts
  <2>3. Types' /\ LengthInv'
    <3>1. LengthInv'
        BY <1>1, <2>1, <2>2 DEF LengthInv
    <3>2. acked' \subseteq 1 .. MaxRecords /\ flushed' \in Nat /\ calls' \in 0 .. MaxRecords
        BY <1>1, <2>1, <2>2
    <3> QED
        BY <1>2, <2>1, <2>2, <3>1, <3>2 DEF IInv, Types
  <2>4. AckedInv'
    <3> SUFFICES ASSUME NEW a \in acked'
                 PROVE  \E k \in 1 .. flushed' : file'[k].call = a /\ file'[k].bytes = RecordLen
        BY DEF AckedInv, RecordLen
    <3>1. CASE a \in acked
      <4>1. PICK k \in 1 .. flushed : file[k].call = a /\ file[k].bytes = RecordLen
          BY <3>1 DEF IInv, AckedInv
      <4>2. k \in 1 .. flushed' /\ file'[k] = file[k]
          BY <1>1, <2>1, <2>2
      <4> QED
          BY <4>1, <4>2
    <3>2. CASE a = calls + 1
        BY <1>1, <2>1, <2>2, <3>2 DEF Piece
    <3> QED
        BY <2>1, <3>1, <3>2
  <2>5. IntactInv'
    <3>1. acked' \subseteq 1 .. calls' /\ ~damaged'
      <4>1. acked \subseteq 1 .. calls /\ ~damaged
          BY <2>1 DEF IInv, IntactInv
      <4>2. calls \in Nat /\ calls' = calls + 1 /\ acked' = acked \cup {calls + 1}
          BY <1>1, <2>1
      <4> QED
          BY <2>1, <4>1, <4>2
    <3>2. \A k \in 1 .. Len(file') : file'[k].call <= calls'
      <4>1. \A k \in 1 .. Len(file) : file[k].call <= calls /\ file[k].call \in Nat
        <5>1. \A k \in 1 .. Len(file) : file[k].call <= calls
            BY <2>1 DEF IInv, IntactInv
        <5>2. \A k \in 1 .. Len(file) : file[k] \in Pieces
            BY <1>1, ElementOfSeq
        <5> QED
            BY <1>1, <5>1, <5>2 DEF Pieces
      <4>2. file'[Len(file) + 1].call = calls + 1
          BY <2>2 DEF Piece
      <4> SUFFICES ASSUME NEW k \in 1 .. Len(file') PROVE file'[k].call <= calls'
          OBVIOUS
      <4>3. k = Len(file) + 1 \/ k \in 1 .. Len(file)
          BY <1>1, <2>2
      <4>4. calls \in Nat /\ calls' = calls + 1
          BY <1>1, <2>1
      <4>5. CASE k = Len(file) + 1
          BY <4>2, <4>4, <4>5
      <4>6. CASE k \in 1 .. Len(file)
        <5>1. file'[k] = file[k] /\ file[k].call <= calls /\ file[k].call \in Nat
            BY <2>2, <4>1, <4>6
        <5> QED
            BY <4>4, <5>1
      <4> QED
          BY <4>3, <4>5, <4>6
    <3>3. ASSUME NEW k \in 1 .. Len(file'), file'[k].call \in acked'
          PROVE  k <= flushed' /\ Whole(file'[k]) /\ file'[k].flaw = "none"
      <4>1. CASE k = Len(file) + 1
          BY <1>1, <2>1, <2>2, <4>1 DEF Piece, Whole
      <4>2. CASE k \in 1 .. Len(file)
        <5>1. file'[k] = file[k] /\ file[k].call <= calls /\ file[k].call # calls + 1
          <6>1. file'[k] = file[k] /\ file[k].call <= calls
              BY <2>1, <2>2, <4>2 DEF IInv, IntactInv
          <6>2. file[k] \in Pieces
              BY <1>1, <4>2, ElementOfSeq
          <6> QED
              BY <1>1, <6>1, <6>2 DEF Pieces
        <5>2. file[k].call \in acked /\ ~damaged
            BY <2>1, <3>3, <5>1 DEF IInv, IntactInv
        <5> QED
            BY <1>1, <2>1, <2>2, <4>2, <5>1, <5>2 DEF IInv, IntactInv
      <4> QED
          BY <1>1, <2>2, <3>3, <4>1, <4>2
    <3> QED
        BY <3>1, <3>2, <3>3 DEF IntactInv, Whole, RecordLen
  <2> QED
      BY <1>1, <1>3, <2>2, <2>3, <2>4, <2>5 DEF IInv
<1>6. ASSUME file' \in Seq(Pieces), Len(file') <= MaxRecords, flushed <= Len(file'),
             \A k \in 1 .. flushed :
                /\ file'[k].call = file[k].call /\ file'[k].bytes = file[k].bytes
                /\ damaged' \/ file'[k].flaw = file[k].flaw,
             \A k \in 1 .. Len(file') : file'[k].call \in acked => k <= flushed,
             phase' \in {"create", "open", "probing"} =>
                /\ phase \in {"create", "open", "probing"} /\ calls <= calls'
                /\ Len(file') <= calls' /\ ~damaged'
                /\ \A k \in 1 .. Len(file') : file'[k].call <= calls',
             damaged' \in BOOLEAN, damaged => damaged',
             phase' \in {"create", "open", "probing", "closed"},
             header' \in {"absent", "torn", "whole", "flawed"}, cutOff' \in BOOLEAN,
             UNCHANGED <<flushed, acked>>, calls' \in 0 .. MaxRecords
      PROVE  IInv'
  <2>1. Types' /\ LengthInv'
      BY <1>1, <1>2, <1>6 DEF IInv, Types, LengthInv
  <2>2. AckedInv'
      BY <1>1, <1>6 DEF IInv, AckedInv, RecordLen
  <2>3. IntactInv'
    <3>1. \A k \in 1 .. Len(file') : file'[k].call \in acked =>
             k <= flushed /\ Whole(file'[k]) /\ (~damaged' => file'[k].flaw = "none")
      <4> SUFFICES ASSUME NEW k \in 1 .. Len(file'), file'[k].call \in acked
                   PROVE  k <= flushed /\ Whole(file'[k]) /\ (~damaged' => file'[k].flaw = "none")
          OBVIOUS
      <4>1. k \in 1 .. flushed /\ k \in 1 .. Len(file)
          BY <1>1, <1>6
      <4>2. /\ file'[k].call = file[k].call /\ file'[k].bytes = file[k].bytes
            /\ damaged' \/ file'[k].flaw = file[k].flaw
          BY <1>6, <4>1
      <4> QED
          BY <1>1, <1>6, <4>1, <4>2 DEF IInv, IntactInv, Whole
    <3>2. phase' \in {"create", "open", "probing"} =>
             acked \subseteq 1 .. calls' /\ ~damaged'
               /\ \A k \in 1 .. Len(file') : file'[k].call <= calls'
      <4> SUFFICES ASSUME phase' \in {"create", "open", "probing"}
                   PROVE  acked \subseteq 1 .. calls' /\ ~damaged'
                            /\ \A k \in 1 .. Len(file') : file'[k].call <= calls'
          OBVIOUS
      <4>1. acked \subseteq 1 .. calls /\ calls <= calls' /\ calls' \in Nat
          BY <1>1, <1>6 DEF IInv, IntactInv
      <4> QED
          BY <1>1, <1>6, <4>1
    <3> QED
        BY <1>6, <3>1, <3>2 DEF IntactInv, Whole, RecordLen
  <2> QED
      BY <1>3, <1>6, <2>1, <2>2, <2>3, Len(file') \in Nat DEF IInv
<1>7. CASE RecordFails
  <2>1. PICK bytes \in 0 .. RecordLen : file' = With(file, calls + 1, bytes)
      BY <1>7 DEF RecordFails
  <2>2. /\ calls' = calls + 1 /\ calls + 1 \in 1 .. MaxRecords /\ Len(file) <= calls
        /\ phase' \in {"probing", "closed"} /\ phase \in {"open", "probing"}
        /\ UNCHANGED <<header, flushed, acked, cutOff, damaged>>
      BY <1>1, <1>7 DEF RecordFails, Recording, IInv, LengthInv
  <2>3. /\ file' \in Seq(Pieces) /\ Len(file') \in Len(file) .. Len(file) + 1
        /\ \A k \in 1 .. Len(file) : file'[k] = file[k]
      BY <1>1, <2>1, <2>2, WithFacts
  <2>4. /\ header' \in {"absent", "torn", "whole", "flawed"} /\ cutOff' \in BOOLEAN
        /\ damaged' \in BOOLEAN /\ ~damaged'
      BY <2>2 DEF IInv, Types, IntactInv
  <2>5. \A k \in 1 .. Len(file') :
           file'[k].call <= calls + 1 /\ (file'[k].call \in acked => k <= flushed)
      BY <1>1, <2>1, <2>2, UnsavedPiece
  <2> QED
      BY <1>1, <1>6, <2>2, <2>3, <2>4, <2>5
<1>8. CASE CutOff
  <2> DEFINE next == IF calls < MaxRecords THEN With(file, calls + 1, RecordLen) ELSE file
  <2>1. /\ next \in Seq(Pieces) /\ Len(next) <= MaxRecords /\ Len(file) <= Len(next)
        /\ \A k \in 1 .. Len(file) : next[k] = file[k]
        /\ \A k \in 1 .. Len(next) : next[k].call \in acked => k <= flushed
    <3>1. Len(file) <= calls
        BY <1>8 DEF CutOff, IInv, LengthInv
    <3>2. CASE calls < MaxRecords
      <4>1. calls + 1 \in 1 .. MaxRecords /\ RecordLen \in 0 .. RecordLen
          BY <1>1, <3>2
      <4>2. \A k \in 1 .. Len(next) : next[k].call \in acked => k <= flushed
          BY <1>8, <3>2, <4>1, UnsavedPiece DEF CutOff
      <4>3. next = With(file, calls + 1, RecordLen)
          BY <3>2
      <4> HIDE DEF next
      <4>4. /\ next \in Seq(Pieces) /\ Len(next) \in Len(file) .. Len(file) + 1
            /\ \A k \in 1 .. Len(file) : next[k] = file[k]
          BY <1>1, <4>1, <4>3, WithFacts
      <4> QED
          BY <1>1, <3>1, <3>2, <4>2, <4>4
    <3>3. CASE ~(calls < MaxRecords)
        BY <1>1, <3>3 DEF IInv, IntactInv
    <3> QED
        BY <3>2, <3>3
  <2>2. PICK left \in Remains(next) :
           \/ file' = left
           \/ \E k \in flushed + 1 .. Len(left), flaw \in Flaws :
                 file' = [left EXCEPT ![k].flaw = flaw]
      BY <1>8 DEF CutOff
  <2> HIDE DEF next
  <2>3. /\ left \in Seq(Pieces) /\ Len(left) <= Len(next) /\ flushed <= Len(left)
        /\ \A k \in 1 .. Len(left) : left[k].call = next[k].call
        /\ \A k \in 1 .. flushed : left[k] = next[k]
      BY <1>1, <2>1, RemainsFacts
  <2>4. /\ file' \in Seq(Pieces) /\ Len(file') = Len(left)
        /\ \A k \in 1 .. Len(left) : file'[k].call = left[k].call
        /\ \A k \in 1 .. flushed : file'[k] = left[k]
    <3>1. CASE file' = left
        BY <2>3, <3>1
    <3>2. ASSUME NEW k \in flushed + 1 .. Len(left), NEW flaw \in Flaws,
                 file' = [left EXCEPT ![k].flaw = flaw]
          PROVE  <2>4!:
      <4>1. k \in 1 .. Len(left) /\ Len(left) \in Nat
          BY <1>1, <2>3, <3>2, LenProperties
      <4>2. /\ file' \in Seq(Pieces) /\ Len(file') = Len(left)
            /\ \A j \in 1 .. Len(left) : file'[j].call = left[j].call
            /\ \A j \in 1 .. Len(left) : j # k => file'[j] = left[j]
          BY <2>3, <3>2, <4>1, FlawFacts
      <4>3. \A j \in 1 .. flushed : j \in 1 .. Len(left) /\ j # k
          BY <1>1, <2>3, <3>2, <4>1
      <4> QED
          BY <4>2, <4>3
    <3> QED
        BY <2>2, <3>1, <3>2
  <2>5. /\ phase' = "closed" /\ cutOff' = TRUE /\ UNCHANGED <<header, flushed, calls, acked, damaged>>
        /\ header' \in {"absent", "torn", "whole", "flawed"} /\ damaged' \in BOOLEAN
      BY <1>8 DEF CutOff, IInv, Types
  <2>6. Len(file') <= MaxRecords /\ flushed <= Len(file') /\ Len(left) \in Nat /\ Len(next) \in Nat
      BY <1>1, <2>1, <2>3, <2>4, LenProperties
  <2>7. \A k \in 1 .. flushed : file'[k] = file[k]
      BY <1>1, <2>1, <2>3, <2>4
  <2>8. \A k \in 1 .. Len(file') : file'[k].call \in acked => k <= flushed
      BY <2>1, <2>3, <2>4, <2>6
  <2> QED
      BY <1>1, <1>6, <2>4, <2>5, <2>6, <2>7, <2>8
<1>9. CASE Damage
  <2>1. /\ file' \in Seq(Pieces) /\ Len(file') = Len(file)
        /\ \A k \in 1 .. Len(file) : file'[k].call = file[k].call /\ file'[k].bytes = file[k].bytes
    <3>1. CASE UNCHANGED file
        BY <1>1, <3>1
    <3>2. ASSUME NEW k \in DOMAIN file, NEW flaw \in Flaws,
                 file' = [file EXCEPT ![k].flaw = flaw]
          PROVE  <2>1!:
      <4>1. k \in 1 .. Len(file)
          BY <1>1, <3>2
      <4> QED
          BY <1>1, <3>2, <4>1, FlawFacts
    <3> QED
        BY <1>9, <3>1, <3>2 DEF Damage
  <2>2. /\ phase' = "closed" /\ UNCHANGED <<flushed, calls, acked, cutOff>> /\ damaged' = TRUE
        /\ header' \in {"absent", "torn", "whole", "flawed"}
        /\ cutOff \in BOOLEAN
      BY <1>9 DEF Damage, IInv, Types
  <2>3. \A k \in 1 .. Len(file') : file'[k].call \in acked => k <= flushed
      BY <2>1 DEF IInv, IntactInv
  <2> QED
      BY <1>1, <1>6, <2>1, <2>2, <2>3
<1> QED
    BY <1>4, <1>5, <1>7, <1>8, <1>9

(***************************************************************************)
(* The reader's steps: it ends well only behind every whole piece.         *)
(***************************************************************************)
LEMMA ReaderStep ==
    ASSUME IInv,
           StartReading \/ ReadEOF \/ ReadTornOffset \/ ReadTornRecord \/ ReadAcross
             \/ ReadDamaged \/ ReadRecord
    PROVE  IInv'
<1>1. /\ file \in Seq(Pieces) /\ out \in Seq(Pieces) /\ Len(file) \in Nat /\ Len(out) \in Nat
      /\ flushed \in Nat /\ flushed <= Len(file) /\ pos = Len(out) + 1 /\ Len(out) <= Len(file)
      /\ status \in {"none", "ok", "error"}
  <2>1. file \in Seq(Pieces) /\ out \in Seq(Pieces) /\ flushed \in Nat
        /\ status \in {"none", "ok", "error"}
      BY DEF IInv, Types
  <2>2. flushed <= Len(file) /\ pos = Len(out) + 1 /\ Len(out) <= Len(file)
      BY DEF IInv, LengthInv, ReaderInv
  <2> QED
      BY <2>1, <2>2, LenProperties
<1>2. /\ UNCHANGED <<header, file, flushed, calls, acked, cutOff, damaged>>
      /\ phase \in {"closed", "reading"} /\ phase' \in {"reading", "end"}
    BY DEF StartReading, ReadEOF, ReadTornOffset, ReadTornRecord, ReadAcross, ReadDamaged,
       ReadRecord, AtPiece, Stop
<1>3. LengthInv' /\ AckedInv' /\ IntactInv'
    BY <1>2 DEF IInv, LengthInv, AckedInv, IntactInv, RecordLen, Whole
<1>4. CASE ReadRecord
  <2>1. /\ pos <= Len(file) /\ Whole(file[pos]) /\ Accepts(file[pos]) /\ phase = "reading"
        /\ out' = Append(out, file[pos]) /\ pos' = pos + 1 /\ UNCHANGED <<status, phase>>
      BY <1>4 DEF ReadRecord, AtPiece
  <2>2. file[pos] \in Pieces
      BY <1>1, <2>1, ElementOfSeq
  <2>3. /\ out' \in Seq(Pieces) /\ Len(out') = Len(out) + 1 /\ out'[Len(out) + 1] = file[pos]
        /\ \A k \in 1 .. Len(out) : out'[k] = out[k]
      BY <1>1, <2>1, <2>2, AppendProperties
  <2>4. Types'
      BY <1>1, <1>2, <2>1, <2>3 DEF IInv, Types
  <2>5. ReaderInv'
    <3>1. \A k \in 1 .. Len(out') : out'[k] = file[k] /\ Whole(out'[k]) /\ Accepts(out'[k])
      <4> SUFFICES ASSUME NEW k \in 1 .. Len(out')
                   PROVE  out'[k] = file[k] /\ Whole(out'[k]) /\ Accepts(out'[k])
          OBVIOUS
      <4>1. CASE k \in 1 .. Len(out)
          BY <1>1, <2>3, <4>1 DEF IInv, ReaderInv
      <4>2. CASE k = Len(out) + 1
          BY <1>1, <2>1, <2>3, <4>2
      <4> QED
          BY <1>1, <2>3, <4>1, <4>2
    <3>2. status' = "none" /\ phase' = "reading"
        BY <2>1 DEF IInv, ReaderInv
    <3> QED
        BY <1>1, <1>2, <2>1, <2>3, <3>1, <3>2 DEF ReaderInv, Whole, Accepts, RecordLen
  <2>6. NothingSavedIsLost'
    <3>1. Returned \subseteq Returned'
        BY <1>1, <2>3 DEF Returned
    <3> QED
        BY <1>2, <2>1, <3>1 DEF IInv, NothingSavedIsLost
  <2>7. SavedAreIntact'
    <3>1. status' = "none"
        BY <2>1 DEF IInv, ReaderInv
    <3> QED
        BY <3>1 DEF SavedAreIntact
  <2> QED
      BY <1>3, <2>4, <2>5, <2>6, <2>7 DEF IInv
<1>5. CASE ~ReadRecord
  <2>1. /\ UNCHANGED <<pos, out>> /\ status' \in {"none", "ok", "error"}
        /\ phase' # "end" => UNCHANGED status
      BY <1>1, <1>5 DEF StartReading, ReadEOF, ReadTornOffset, ReadTornRecord, ReadAcross,
         ReadDamaged, Stop
  <2>2. Types'
      BY <1>2, <2>1 DEF IInv, Types
  <2>3. ReaderInv'
      BY <1>1, <1>2, <2>1 DEF IInv, ReaderInv, Whole, Accepts, RecordLen
  <2>4. NothingSavedIsLost'
    <3> SUFFICES ASSUME status' = "ok", NEW a \in acked PROVE a \in Returned
        BY <1>2, <2>1 DEF NothingSavedIsLost, Returned
    <3>1. CASE status = "ok"
        BY <3>1 DEF IInv, NothingSavedIsLost
    <3>2. CASE status # "ok"
      <4>1. \A k \in pos .. Len(file) : ~Whole(file[k])
        <5>1. ReadEOF \/ ReadTornRecord \/ ReadAcross
            BY <1>5, <3>2 DEF StartReading, ReadTornOffset, ReadDamaged, Stop
        <5>2. CASE ReadEOF
            BY <1>1, <5>2 DEF ReadEOF
        <5>3. CASE ReadTornRecord
            BY <1>1, <5>3 DEF ReadTornRecord, EndsReading
        <5>4. CASE ReadAcross
            BY <1>1, <5>4 DEF ReadAcross, Stop
        <5> QED
            BY <5>1, <5>2, <5>3, <5>4
      <4>2. PICK k \in 1 .. flushed : file[k].call = a /\ file[k].bytes = RecordLen
          BY DEF IInv, AckedInv
      <4>3. Whole(file[k])
          BY <4>2 DEF Whole
      <4>4. k \in 1 .. Len(out)
          BY <1>1, <4>1, <4>2, <4>3
      <4>5. out[k].call = a /\ k \in DOMAIN out
          BY <1>1, <4>2, <4>4 DEF IInv, ReaderInv
      <4> QED
          BY <4>5 DEF Returned
    <3> QED
        BY <3>1, <3>2
  <2>5. SavedAreIntact'
    <3> SUFFICES ASSUME status' # "none", header = "whole", ~damaged
                 PROVE  /\ status' = "ok" => \A k \in DOMAIN out :
                               out[k].flaw = "none" \/ (out[k].flaw = "place" /\ out[k].call \notin acked)
                        /\ status' = "error" => \E k \in DOMAIN file :
                               file[k].call \notin acked /\ (~Whole(file[k]) \/ file[k].flaw # "none")
        BY <1>2, <2>1 DEF SavedAreIntact, Whole, RecordLen
    <3>1. \A k \in 1 .. Len(file) :
             file[k].call \in acked => Whole(file[k]) /\ file[k].flaw = "none"
        BY DEF IInv, IntactInv
    <3>2. ASSUME NEW k \in DOMAIN out
          PROVE  out[k].flaw = "none" \/ (out[k].flaw = "place" /\ out[k].call \notin acked)
      <4>1. k \in 1 .. Len(out) /\ k \in 1 .. Len(file)
          BY <1>1
      <4>2. out[k] = file[k] /\ out[k].flaw \in {"none", "place"}
          BY <4>1 DEF IInv, ReaderInv, Accepts
      <4> QED
          BY <3>1, <4>1, <4>2
    <3>3. ASSUME status' = "error"
          PROVE  \E k \in DOMAIN file :
                    file[k].call \notin acked /\ (~Whole(file[k]) \/ file[k].flaw # "none")
      <4>1. ReadTornOffset \/ ReadAcross \/ ReadDamaged
        <5>1. status = "none"
            BY <1>2 DEF IInv, ReaderInv
        <5> QED
            BY <1>5, <3>3, <5>1 DEF StartReading, ReadEOF, ReadTornRecord, Stop
      <4>2. pos \in 1 .. Len(file) /\ (~Whole(file[pos]) \/ file[pos].flaw # "none")
          BY <1>1, <4>1 DEF ReadTornOffset, ReadAcross, ReadDamaged, AtPiece, Refuses, Accepts
      <4> QED
          BY <1>1, <3>1, <4>2
    <3> QED
        BY <3>2, <3>3
  <2> QED
      BY <1>3, <2>2, <2>3, <2>4, <2>5 DEF IInv
<1> QED
    BY <1>4, <1>5

-----------------------------------------------------------------------------
(***************************************************************************)
(* The theorems.                                                           *)
(***************************************************************************)

\* The invariant holds while the journal is written, lies there and is read.
THEOREM Inductive == Spec => []IInv
<1>1. IInv /\ [Next]_vars => IInv'
  <2> SUFFICES ASSUME IInv, [Next]_vars PROVE IInv'
      OBVIOUS
  <2>1. CASE Next
      BY <2>1, WriterStep, ReaderStep DEF Next
  <2>2. CASE UNCHANGED vars
      BY <2>2 DEF vars, reader, IInv, Types, LengthInv, AckedInv, IntactInv, ReaderInv,
         NothingSavedIsLost, SavedAreIntact, Returned, Whole, Accepts, RecordLen
  <2> QED
      BY <2>1, <2>2
<1> QED
    BY <1>1, InitInv, PTL DEF Spec

\* Every variable has its type, and what was read is the beginning of the file.
THEOREM TypeCorrect == Spec => []TypeOK
<1>1. IInv => TypeOK
  <2> SUFFICES ASSUME IInv PROVE TypeOK
      OBVIOUS
  <2>1. /\ file \in Seq(Pieces) /\ out \in Seq(Pieces) /\ Len(file) \in Nat /\ Len(out) \in Nat
        /\ MaxRecords \in Nat
      BY LenProperties, Lengths DEF IInv, Types
  <2>2. flushed \in 0 .. MaxRecords /\ pos \in 1 .. MaxRecords + 1
      BY <2>1 DEF IInv, Types, LengthInv, ReaderInv
  <2>3. IsPrefix(out, file)
    <3>1. Len(out) <= Len(file) /\ \A k \in 1 .. Len(out) : out[k] = file[k]
        BY DEF IInv, ReaderInv
    <3>2. SubSeq(out, 1, Len(out)) = SubSeq(file, 1, Len(out))
        BY <2>1, <3>1
    <3> QED
        BY <3>1, <3>2 DEF IsPrefix
  <2> QED
      BY <2>2, <2>3 DEF IInv, Types, TypeOK, Pieces
<1> QED
    BY <1>1, Inductive, PTL

\* A journal that is accepted has every record the run was told was saved.
THEOREM SavedIsThere == Spec => []NothingSavedIsLost
<1>1. IInv => NothingSavedIsLost
    BY DEF IInv
<1> QED
    BY <1>1, Inductive, PTL

(***************************************************************************)
(* Crashes and failed appends do nothing to what was acknowledged: it is   *)
(* handed over as it was recorded, or the journal is refused for a piece   *)
(* that was not.                                                           *)
(***************************************************************************)
THEOREM SavedComesBack == Spec => []SavedAreIntact
<1>1. IInv => SavedAreIntact
    BY DEF IInv
<1> QED
    BY <1>1, Inductive, PTL

(***************************************************************************)
(* A torn record at the end costs itself only: the reading of a sound file *)
(* whose last piece alone may be torn, and not within its offset, ends     *)
(* well and has handed over the whole pieces.                              *)
(***************************************************************************)
TornAtTheEnd ==
    /\ header = "whole" /\ Sound /\ OnlyLastTorn
    /\ \A k \in DOMAIN file : file[k].bytes >= OffsetLen

\* The reader does not stop before it is behind every whole piece.
LEMMA TornStep ==
    ASSUME IInv, TornRecordIsDropped, Next
    PROVE  TornRecordIsDropped'
<1>1. /\ file \in Seq(Pieces) /\ out \in Seq(Pieces) /\ Len(file) \in Nat /\ Len(out) \in Nat
      /\ pos = Len(out) + 1 /\ Len(out) <= Len(file)
      /\ \A k \in 1 .. Len(out) : out[k] = file[k] /\ Whole(out[k])
  <2>1. file \in Seq(Pieces) /\ out \in Seq(Pieces)
      BY DEF IInv, Types
  <2>2. /\ pos = Len(out) + 1 /\ Len(out) <= Len(file)
        /\ \A k \in 1 .. Len(out) : out[k] = file[k] /\ Whole(out[k])
      BY DEF IInv, ReaderInv
  <2> QED
      BY <2>1, <2>2, LenProperties
<1>2. CASE status' = "none"
    BY <1>2 DEF TornRecordIsDropped
<1>3. CASE Create \/ CreateCutOff \/ Record \/ RecordFails \/ StartProbing \/ Close \/ CutOff
             \/ Damage \/ ReadRecord
  <2>1. UNCHANGED status
      BY <1>3 DEF Create, CreateCutOff, Record, RecordFails, StartProbing, Close, CutOff, Damage,
         ReadRecord, reader
  <2>2. phase # "end"
      BY <1>3 DEF Create, CreateCutOff, Record, RecordFails, Recording, StartProbing, Close, CutOff,
         Damage, ReadRecord, AtPiece
  <2>3. status = "none"
      BY <2>2 DEF IInv, ReaderInv
  <2> QED
      BY <1>2, <2>1, <2>3
<1>4. ASSUME UNCHANGED <<header, file, out>>, status' = "ok" \/ ~TornAtTheEnd,
             TornAtTheEnd => \A k \in Len(out) + 1 .. Len(file) : ~Whole(file[k])
      PROVE  TornRecordIsDropped'
  <2>1. (status' # "none" /\ TornAtTheEnd') => TornAtTheEnd
      BY <1>4 DEF TornAtTheEnd, Sound, OnlyLastTorn, Whole, RecordLen
  <2>2. TornAtTheEnd => /\ DOMAIN out = { k \in DOMAIN file : Whole(file[k]) }
                        /\ \A k \in DOMAIN out : out[k] = file[k]
    <3> SUFFICES ASSUME TornAtTheEnd
                 PROVE  /\ DOMAIN out = { k \in DOMAIN file : Whole(file[k]) }
                        /\ \A k \in DOMAIN out : out[k] = file[k]
        OBVIOUS
    <3>1. DOMAIN out = 1 .. Len(out) /\ DOMAIN file = 1 .. Len(file)
        BY <1>1
    <3>2. \A k \in 1 .. Len(file) : Whole(file[k]) <=> k \in 1 .. Len(out)
        BY <1>1, <1>4
    <3>3. 1 .. Len(out) \subseteq 1 .. Len(file)
        BY <1>1
    <3> QED
        BY <1>1, <3>1, <3>2, <3>3
  <2> QED
      BY <1>4, <2>1, <2>2 DEF TornRecordIsDropped, TornAtTheEnd, Whole, RecordLen
<1>5. CASE StartReading
  <2>1. status' = "none" \/ header # "whole"
      BY <1>5 DEF StartReading, IInv, ReaderInv
  <2>2. CASE header # "whole"
      BY <1>4, <1>5, <2>2 DEF StartReading, TornAtTheEnd
  <2> QED
      BY <1>2, <2>1, <2>2
<1>6. CASE ReadEOF
  <2>1. UNCHANGED <<header, file, out>> /\ status' = "ok" /\ pos > Len(file)
      BY <1>6 DEF ReadEOF, Stop
  <2> QED
      BY <1>1, <1>4, <2>1
<1>7. CASE ReadTornOffset
  <2>1. /\ UNCHANGED <<header, file, out>> /\ pos = Len(file)
        /\ ~Whole(file[pos]) /\ ~EndsReading(file[pos])
      BY <1>7 DEF ReadTornOffset
  <2>2. ~TornAtTheEnd
    <3>1. pos \in DOMAIN file /\ ~(file[pos].bytes >= OffsetLen)
        BY <1>1, <2>1 DEF EndsReading
    <3> QED
        BY <3>1 DEF TornAtTheEnd
  <2> QED
      BY <1>4, <2>1, <2>2
<1>8. CASE ReadTornRecord
  <2>1. /\ UNCHANGED <<header, file, out>> /\ pos = Len(file) /\ status' = "ok"
        /\ ~Whole(file[pos])
      BY <1>8 DEF ReadTornRecord, EndsReading, Stop
  <2> QED
      BY <1>1, <1>4, <2>1
<1>9. CASE ReadAcross
  <2>1. UNCHANGED <<header, file, out>> /\ pos < Len(file) /\ ~Whole(file[pos])
      BY <1>9 DEF ReadAcross
  <2>2. ~TornAtTheEnd
    <3>1. pos \in 1 .. Len(file) - 1
        BY <1>1, <2>1
    <3> QED
        BY <2>1, <3>1 DEF TornAtTheEnd, OnlyLastTorn
  <2> QED
      BY <1>4, <2>1, <2>2
<1>10. CASE ReadDamaged
  <2>1. UNCHANGED <<header, file, out>> /\ pos <= Len(file) /\ file[pos].flaw # "none"
      BY <1>10 DEF ReadDamaged, AtPiece, Refuses, Accepts
  <2>2. ~TornAtTheEnd
    <3>1. pos \in DOMAIN file
        BY <1>1, <2>1
    <3> QED
        BY <2>1, <3>1 DEF TornAtTheEnd, Sound
  <2> QED
      BY <1>4, <2>1, <2>2
<1> QED
    BY <1>3, <1>5, <1>6, <1>7, <1>8, <1>9, <1>10 DEF Next

(***************************************************************************)
(* A record torn at the end of a sound file, behind its offset, is dropped *)
(* and all records before it are handed over.                              *)
(***************************************************************************)
THEOREM TornTailCostsItself == Spec => []TornRecordIsDropped
<1>1. Init => TornRecordIsDropped
    BY DEF Init, TornRecordIsDropped
<1>2. IInv /\ TornRecordIsDropped /\ [Next]_vars => TornRecordIsDropped'
  <2> SUFFICES ASSUME IInv, TornRecordIsDropped, [Next]_vars PROVE TornRecordIsDropped'
      OBVIOUS
  <2>1. CASE Next
      BY <2>1, TornStep
  <2>2. CASE UNCHANGED vars
      BY <2>2 DEF vars, reader, TornRecordIsDropped, Sound, OnlyLastTorn, Whole, RecordLen
  <2> QED
      BY <2>1, <2>2
<1> QED
    BY <1>1, <1>2, Inductive, PTL DEF Spec
=============================================================================
