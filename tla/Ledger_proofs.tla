---------------------------- MODULE Ledger_proofs ----------------------------
(***************************************************************************)
(* Proofs about Ledger and LedgerReader, for every set of processes and    *)
(* records, every width of their lines and every bound.  A cached state is *)
(* validated by file size alone.  The invariant shows that this is enough   *)
(* in every case but one: a cached torn tail, when the repaired file has    *)
(* grown back to the very same size (run LedgerStaleCache).  The history    *)
(* variable misled marks an append that begins so; until then everything    *)
(* below holds.                                                            *)
(***************************************************************************)
EXTENDS LedgerReader, SequenceTheorems, TLAPS

-----------------------------------------------------------------------------
(* The inductive invariant, in parts.                                      *)

(* A line ends its width behind the line before, so ends increase; lines   *)
(* are numbered from one.                                                  *)
EndIn(f, n) == IF n = 0 THEN 0 ELSE f[n].end

Lined(f) ==
    /\ \A i \in 1..Len(f) : f[i].end = EndIn(f, i - 1) + Width[f[i].rec.body]
    /\ \A i, j \in 1..Len(f) : i < j => f[i].end < f[j].end
    /\ \A i \in 1..Len(f) : f[i].rec.seq = i

(* A cached state knows where its lines end and whether more was there.    *)
ViewOf(v, f) ==
    /\ Len(v.lines) \in 1..Len(f)
    /\ \A i \in 1..Len(v.lines) : v.lines[i] = f[i].rec
    /\ v.prefix = EndIn(f, Len(v.lines))
    /\ v.prefix <= v.size
    /\ v.torn <=> v.size # v.prefix

Views == \A p \in Process : view[p] # None => ViewOf(view[p], file)

HolderReady ==
    pc # "idle" =>
        /\ holder \in Process
        /\ view[holder] # None
        /\ ~view[holder].poisoned
        /\ pc \in {"truncate", "truncated"} =>
              /\ queued # None
              /\ Len(view[holder].lines) = Len(file)
        /\ pc = "truncated" => tail = <<>>
        /\ pc \in {"write", "confirm", "sync"} => ~view[holder].torn

Appending ==
    pc \in {"write", "confirm", "sync"} =>
        LET n == Len(view[holder].lines) IN
        /\ rec.seq = n + 1
        /\ offset = EndIn(file, n)
        /\ \/ /\ Len(file) = n /\ tail = Pieces(rec, Len(tail))
              /\ Len(tail) < Width[rec.body]
              /\ pc # "sync"
           \/ /\ Len(file) = n + 1 /\ tail = <<>> /\ file[n + 1].rec = rec
              /\ pc # "write"

IInv ==
    /\ TypeOK
    /\ Lined(file)
    /\ Views
    /\ HolderReady
    /\ Appending
    /\ AcknowledgedIsDurable

-----------------------------------------------------------------------------
(* Offsets of complete lines.                                              *)
LEMMA LineFacts ==
    ASSUME NEW f \in Seq(Line)
    PROVE  /\ Len(f) \in Nat
           /\ \A i \in 1..Len(f) : /\ f[i] \in Line /\ f[i].rec \in Record
                                   /\ f[i].end \in Nat /\ f[i].rec.body \in Body
                                   /\ Width[f[i].rec.body] \in Nat \ {0}
           /\ \A n \in 0..Len(f) : EndIn(f, n) \in Nat
<1>1. Len(f) \in Nat
  OBVIOUS
<1>2. ASSUME NEW i \in 1..Len(f)
      PROVE  /\ f[i] \in Line /\ f[i].rec \in Record
             /\ f[i].end \in Nat /\ f[i].rec.body \in Body
             /\ Width[f[i].rec.body] \in Nat \ {0}
  <2>1. f[i] \in Line
    BY ElementOfSeq
  <2>2. f[i].rec \in Record /\ f[i].end \in Nat
    BY <2>1 DEF Line
  <2>3. f[i].rec.body \in Body
    BY <2>2 DEF Record
  <2> QED BY <2>1, <2>2, <2>3, WidthAssumption
<1>3. ASSUME NEW n \in 0..Len(f) PROVE EndIn(f, n) \in Nat
  <2>1. n = 0 \/ n \in 1..Len(f)
    BY <1>1
  <2> QED BY <1>2, <2>1 DEF EndIn
<1> QED BY <1>1, <1>2, <1>3

LEMMA EndsIncrease ==
    ASSUME NEW f \in Seq(Line), Lined(f)
    PROVE  /\ \A m, n \in 0..Len(f) : m < n => EndIn(f, m) < EndIn(f, n)
           /\ \A n \in 1..Len(f) : EndIn(f, n) = EndIn(f, n - 1) + Width[f[n].rec.body]
<1>0. Len(f) \in Nat
  OBVIOUS
<1>1. ASSUME NEW n \in 1..Len(f)
      PROVE  /\ EndIn(f, n) = EndIn(f, n - 1) + Width[f[n].rec.body]
             /\ EndIn(f, n) = f[n].end /\ EndIn(f, n - 1) < EndIn(f, n) /\ 0 < EndIn(f, n)
  <2>1. n - 1 \in 0..Len(f) /\ n # 0
    BY <1>0
  <2>2. EndIn(f, n) = f[n].end /\ f[n].end = EndIn(f, n - 1) + Width[f[n].rec.body]
    BY <2>1 DEF EndIn, Lined
  <2>3. EndIn(f, n - 1) \in Nat /\ Width[f[n].rec.body] \in Nat \ {0}
    BY <2>1, LineFacts
  <2> QED BY <2>2, <2>3
<1>2. ASSUME NEW m \in 0..Len(f), NEW n \in 0..Len(f), m < n
      PROVE  EndIn(f, m) < EndIn(f, n)
  <2>1. n \in 1..Len(f)
    BY <1>0, <1>2
  <2>2. CASE m = 0
    BY <1>1, <2>1, <2>2 DEF EndIn
  <2>3. CASE m # 0
    <3>1. m \in 1..Len(f)
      BY <1>0, <2>3
    <3>2. f[m].end < f[n].end
      BY <1>2, <2>1, <3>1 DEF Lined
    <3> QED BY <1>1, <2>1, <3>1, <3>2
  <2> QED BY <2>2, <2>3
<1> QED BY <1>1, <1>2

(* A line appended behind the others, and a file cut back to some lines.   *)
LEMMA LinedAppend ==
    ASSUME NEW f \in Seq(Line), Lined(f), NEW line \in Line,
           line.rec.seq = Len(f) + 1,
           line.end = EndIn(f, Len(f)) + Width[line.rec.body]
    PROVE  /\ Append(f, line) \in Seq(Line) /\ Lined(Append(f, line))
           /\ Len(Append(f, line)) = Len(f) + 1 /\ Append(f, line)[Len(f) + 1] = line
           /\ \A i \in 1..Len(f) : Append(f, line)[i] = f[i]
<1> DEFINE g == Append(f, line)
           n == Len(f)
<1>1. /\ g \in Seq(Line) /\ Len(g) = n + 1 /\ g[n + 1] = line /\ n \in Nat
      /\ \A i \in 1..n : g[i] = f[i]
  BY AppendProperties
<1>2. \A i \in 1..n + 1 : i \in 1..n \/ i = n + 1
  BY <1>1
<1>3. \A i \in 0..n : EndIn(g, i) = EndIn(f, i) /\ (i # 0 => i \in 1..n)
  BY <1>1 DEF EndIn
<1>4. line.end \in Nat /\ line.rec.body \in Body /\ Width[line.rec.body] \in Nat \ {0}
      /\ EndIn(f, n) \in Nat
  <2>1. line.end \in Nat /\ line.rec \in Record
    BY DEF Line
  <2>2. line.rec.body \in Body
    BY <2>1 DEF Record
  <2>3. n \in 0..n
    BY <1>1
  <2> QED BY <2>1, <2>2, <2>3, LineFacts, WidthAssumption
<1>5. ASSUME NEW i \in 1..n
      PROVE  /\ g[i].end = EndIn(g, i - 1) + Width[g[i].rec.body] /\ g[i].rec.seq = i
             /\ g[i].end < line.end
  <2>1. g[i] = f[i] /\ i - 1 \in 0..n /\ i \in 0..n /\ n \in 0..n /\ (i = n \/ i < n)
    BY <1>1
  <2>2. EndIn(g, i - 1) = EndIn(f, i - 1) /\ EndIn(f, i) = f[i].end
    BY <1>3, <2>1 DEF EndIn
  <2>3. EndIn(f, i) <= EndIn(f, n) /\ EndIn(f, i) \in Nat
    BY <1>4, <2>1, EndsIncrease, LineFacts
  <2>4. f[i].end < line.end
    BY <1>4, <2>2, <2>3
  <2> QED BY <2>1, <2>2, <2>4 DEF Lined
<1>6. /\ g[n + 1].end = EndIn(g, n + 1 - 1) + Width[g[n + 1].rec.body]
      /\ g[n + 1].rec.seq = n + 1
  <2>1. n + 1 - 1 = n /\ n \in 0..n
    BY <1>1
  <2>2. EndIn(g, n + 1 - 1) = EndIn(f, n)
    BY <1>3, <2>1
  <2> QED BY <1>1, <2>2
<1>7. ASSUME NEW i \in 1..n + 1, NEW j \in 1..n + 1, i < j
      PROVE  g[i].end < g[j].end
  <2>1. i \in 1..n
    BY <1>1, <1>7
  <2>2. CASE j \in 1..n
    BY <1>1, <1>7, <2>1, <2>2 DEF Lined
  <2>3. CASE j = n + 1
    BY <1>1, <1>5, <2>1, <2>3
  <2> QED BY <1>2, <2>2, <2>3
<1>8. Lined(g)
  <2> HIDE DEF g, n
  <2> QED BY <1>1, <1>2, <1>5, <1>6, <1>7 DEF Lined
<1> QED BY <1>1, <1>8

LEMMA LinedPrefix ==
    ASSUME NEW f \in Seq(Line), Lined(f), NEW n \in 1..Len(f)
    PROVE  /\ SubSeq(f, 1, n) \in Seq(Line) /\ Lined(SubSeq(f, 1, n))
           /\ Len(SubSeq(f, 1, n)) = n /\ \A i \in 1..n : SubSeq(f, 1, n)[i] = f[i]
<1> DEFINE g == SubSeq(f, 1, n)
<1>1. Len(f) \in Nat /\ \A i \in 1..n : i \in 1..Len(f) /\ f[i] \in Line
  BY ElementOfSeq
<1>2. g \in Seq(Line) /\ Len(g) = n /\ \A i \in 1..n : g[i] = f[i]
  BY <1>1, SubSeqProperties
<1>3. \A i \in 1..n : EndIn(g, i - 1) = EndIn(f, i - 1)
  <2> SUFFICES ASSUME NEW i \in 1..n PROVE EndIn(g, i - 1) = EndIn(f, i - 1)
    OBVIOUS
  <2>1. i - 1 = 0 \/ i - 1 \in 1..n
    OBVIOUS
  <2> QED BY <1>2, <2>1 DEF EndIn
<1> HIDE DEF g
<1>4. Lined(g)
  BY <1>1, <1>2, <1>3 DEF Lined
<1> QED BY <1>2, <1>4 DEF g

(* What was read of a file is still true of it when lines were added.      *)
LEMMA ViewGrows ==
    ASSUME NEW f \in Seq(Line), NEW g \in Seq(Line), Len(f) <= Len(g),
           \A i \in 1..Len(f) : g[i] = f[i], NEW v, ViewOf(v, f)
    PROVE  ViewOf(v, g)
<1>1. Len(f) \in Nat /\ Len(g) \in Nat
  OBVIOUS
<1>2. Len(v.lines) \in 1..Len(f) /\ Len(v.lines) \in 1..Len(g) /\ Len(v.lines) # 0
  BY <1>1 DEF ViewOf
<1>3. EndIn(g, Len(v.lines)) = EndIn(f, Len(v.lines))
  BY <1>2 DEF EndIn
<1>4. \A i \in 1..Len(v.lines) : i \in 1..Len(f)
  BY <1>1, <1>2
<1> QED BY <1>2, <1>3, <1>4 DEF ViewOf

LEMMA FileFacts ==
    ASSUME IInv
    PROVE  /\ file \in Seq(Line) /\ Len(file) \in Nat \ {0} /\ Len(tail) \in Nat
           /\ Eol = EndIn(file, Len(file)) /\ Eol \in Nat
           /\ Size \in Nat /\ Size = Eol + Len(tail)
           /\ (tail # <<>> <=> Len(tail) # 0)
<1>1. file \in Seq(Line) /\ Len(file) \in Nat \ {0} /\ Len(tail) \in Nat
      /\ (tail # <<>> <=> Len(tail) # 0)
  BY DEF IInv, TypeOK
<1>2. Eol = EndIn(file, Len(file)) /\ Eol \in Nat
  <2>1. Len(file) \in 1..Len(file) /\ Len(file) \in 0..Len(file) /\ Len(file) # 0
    BY <1>1
  <2> QED BY <1>1, <2>1, LineFacts DEF EndIn, Eol
<1> QED BY <1>1, <1>2 DEF Size

(* What a cached or freshly read state is worth to the process that is     *)
(* about to append: unless it is poisoned or misleading, it is the file.   *)
LEMMA LoadedIsCurrent ==
    ASSUME IInv, NEW p \in Process
    PROVE  /\ Loaded(p) \in View
           /\ Loaded(p) # None
           /\ ViewOf(Loaded(p), file)
           /\ ~Loaded(p).poisoned /\ ~Misleading(Loaded(p)) =>
                 /\ Len(Loaded(p).lines) = Len(file)
                 /\ Loaded(p).torn <=> tail # <<>>
<1>0. TypeOK /\ Lined(file) /\ Views
  BY DEF IInv
<1>1. /\ file \in Seq(Line) /\ Len(file) \in Nat \ {0} /\ Len(tail) \in Nat
      /\ Eol = EndIn(file, Len(file)) /\ Eol \in Nat
      /\ Size \in Nat /\ Size = Eol + Len(tail)
      /\ (tail # <<>> <=> Len(tail) # 0)
  BY FileFacts
<1>2. CASE Loaded(p) = ReadPath
  <2>1. Lines \in Seq(Record) /\ Len(Lines) = Len(file)
        /\ \A i \in 1..Len(file) : Lines[i] = file[i].rec
    <3>1. Lines \in [1..Len(file) -> Record]
      BY <1>1, LineFacts DEF Lines
    <3>2. Lines \in Seq(Record) /\ Len(Lines) = Len(file)
      BY <3>1, <1>1, SMT
    <3> QED BY <3>2 DEF Lines
  <2>2. /\ ReadPath \in View /\ ReadPath # None
        /\ ReadPath.lines = Lines /\ ReadPath.torn = (tail # <<>>)
        /\ ReadPath.prefix = Eol /\ ReadPath.size = Size
    <3>1. ReadPath \in View
      BY <1>1, <2>1 DEF ReadPath, View
    <3> QED BY <3>1, NoneAssumption DEF ReadPath
  <2> HIDE DEF ReadPath
  <2>3. ViewOf(ReadPath, file)
    <3>1. Len(ReadPath.lines) = Len(file) /\ Len(file) \in 1..Len(file)
      BY <1>1, <2>1, <2>2
    <3>2. Eol <= Size /\ ((tail # <<>>) <=> Size # Eol)
      BY <1>1
    <3> QED BY <1>1, <2>1, <2>2, <3>1, <3>2 DEF ViewOf
  <2> QED BY <1>2, <2>1, <2>2, <2>3
<1>3. CASE Loaded(p) # ReadPath
  <2>1. /\ Loaded(p) = view[p] /\ view[p] # None
        /\ view[p].poisoned \/ view[p].size = Size
    BY <1>3 DEF Loaded
  <2> DEFINE v == view[p]
             n == Len(v.lines)
  <2>2. v \in View /\ ViewOf(v, file) /\ n \in 1..Len(file)
    BY <1>0, <2>1 DEF TypeOK, Views, ViewOf
  <2>3. v.prefix = EndIn(file, n) /\ v.prefix <= v.size /\ (v.torn <=> v.size # v.prefix)
        /\ v.prefix \in Nat /\ v.size \in Nat /\ v.torn \in BOOLEAN
    BY <2>2 DEF ViewOf, View
  <2>4. ASSUME ~v.poisoned, ~Misleading(v)
        PROVE  n = Len(file) /\ (v.torn <=> tail # <<>>)
    <3>1. v.size = Size
      BY <2>1, <2>4
    <3>2. v.torn => v.prefix = Eol
      BY <2>4 DEF Misleading
    <3>3. n < Len(file) => EndIn(file, n) < Eol
      <4>1. n \in 0..Len(file) /\ Len(file) \in 0..Len(file)
        BY <1>1, <2>2
      <4> QED BY <1>0, <1>1, <4>1, EndsIncrease
    <3> HIDE DEF v, n
    <3>4. n = Len(file)
      BY <1>1, <2>2, <2>3, <3>1, <3>2, <3>3
    <3>5. v.prefix = Eol
      BY <1>1, <2>3, <3>4
    <3> QED BY <1>1, <2>3, <3>1, <3>4, <3>5
  <2> QED BY <2>1, <2>2, <2>4
<1> QED BY <1>2, <1>3

(* The pieces of a record are a sequence that grows with each write.       *)
LEMMA PiecesAre ==
    ASSUME NEW r \in Record, NEW k \in Nat
    PROVE  /\ Pieces(r, k) \in Seq(Record \X Nat) /\ Len(Pieces(r, k)) = k
           /\ \A i \in 1..k : Pieces(r, k)[i] = <<r, i>>
           /\ Append(Pieces(r, k), <<r, k + 1>>) = Pieces(r, k + 1)
<1>1. Pieces(r, k) \in [1..k -> Record \X Nat]
  BY DEF Pieces
<1>2. Pieces(r, k) \in Seq(Record \X Nat) /\ Len(Pieces(r, k)) = k
  BY <1>1, SMT
<1>3. \A i \in 1..k : Pieces(r, k)[i] = <<r, i>>
  BY DEF Pieces
<1>4. Append(Pieces(r, k), <<r, k + 1>>) = Pieces(r, k + 1)
  <2>1. Append(Pieces(r, k), <<r, k + 1>>)
          = [i \in 1..k + 1 |-> IF i = k + 1 THEN <<r, k + 1>> ELSE Pieces(r, k)[i]]
    BY <1>2, SMT
  <2>2. \A i \in 1..k + 1 : i = k + 1 \/ i \in 1..k
    OBVIOUS
  <2> QED BY <2>1, <2>2, <1>3 DEF Pieces
<1> QED BY <1>2, <1>3, <1>4

-----------------------------------------------------------------------------
(* One lemma per action: it preserves the invariant.                       *)

LEMMA InitStep == Init => IInv
<1> SUFFICES ASSUME Init PROVE IInv
  OBVIOUS
<1>1. Created \in Body /\ Width[Created] \in Nat \ {0}
  BY WidthAssumption DEF Body
<1>2. NoRecord \in Record /\ NoRecord.seq = 1 /\ NoRecord.body = Created
  BY <1>1 DEF NoRecord, Record
<1>3. file \in Seq(Line) /\ file # <<>> /\ Len(file) = 1 /\ tail = <<>>
      /\ file[1] = [rec |-> NoRecord, end |-> Width[Created]]
  BY <1>1, <1>2 DEF Init, Line
<1>4. TypeOK
  <2>1. tail \in Seq(Record \X Nat) /\ synced \in 1..Len(file)
    BY <1>3 DEF Init
  <2>2. view \in [Process -> View \cup {None}]
    BY DEF Init
  <2>3. /\ pc \in {"idle", "truncate", "truncated", "write", "sync", "confirm"}
        /\ rec \in Record /\ offset \in Nat /\ again \in BOOLEAN
        /\ queued \in Body \cup {None} /\ holder \in Process \cup {None}
        /\ acked \subseteq Record /\ misled \in BOOLEAN /\ faults \in Nat
    BY <1>2 DEF Init
  <2> QED BY <1>3, <2>1, <2>2, <2>3 DEF TypeOK
<1>5. Lined(file)
  <2>1. EndIn(file, 1 - 1) = 0
    BY DEF EndIn
  <2>2. \A i \in 1..Len(file) : i = 1
    BY <1>3
  <2>3. /\ file[1].end = EndIn(file, 1 - 1) + Width[file[1].rec.body]
        /\ file[1].rec.seq = 1
    BY <1>1, <1>2, <1>3, <2>1
  <2> QED BY <2>2, <2>3 DEF Lined
<1>6. Views /\ HolderReady /\ Appending
  BY DEF Init, Views, HolderReady, Appending
<1>7. AcknowledgedIsDurable
  BY <1>2, <1>3 DEF Init, AcknowledgedIsDurable
<1> QED BY <1>4, <1>5, <1>6, <1>7 DEF IInv

LEMMA AcquireStep ==
    ASSUME IInv, NEW p \in Process, Acquire(p)
    PROVE  IInv'
<1>1. TypeOK'
  BY DEF IInv, TypeOK, Acquire, disk, writer
<1>2. Lined(file)' /\ Views' /\ AcknowledgedIsDurable'
  BY DEF IInv, Acquire, disk, Views, AcknowledgedIsDurable
<1>3. HolderReady' /\ Appending'
  BY NoneAssumption DEF IInv, Acquire, writer, HolderReady, Appending, TypeOK
<1> QED BY <1>1, <1>2, <1>3 DEF IInv

LEMMA ReleaseStep ==
    ASSUME IInv, Release
    PROVE  IInv'
<1>1. TypeOK'
  BY DEF IInv, TypeOK, Release, disk, writer
<1>2. Lined(file)' /\ Views' /\ AcknowledgedIsDurable'
  BY DEF IInv, Release, disk, Views, AcknowledgedIsDurable
<1>3. HolderReady' /\ Appending'
  BY DEF IInv, Release, writer, HolderReady, Appending
<1> QED BY <1>1, <1>2, <1>3 DEF IInv

LEMMA LoadStep ==
    ASSUME IInv, Load
    PROVE  IInv'
<1>1. holder \in Process
  BY DEF IInv, TypeOK, Load
<1> DEFINE v == Loaded(holder)
<1>2. v \in View /\ v # None /\ ViewOf(v, file)
  BY <1>1, LoadedIsCurrent
<1> HIDE DEF v
<1>3. /\ view' = [view EXCEPT ![holder] = v]
      /\ view \in [Process -> View \cup {None}]
      /\ UNCHANGED <<file, tail, synced, acked, pc, rec, offset, again, queued, holder,
                     misled, faults>>
  BY DEF Load, IInv, TypeOK, v, writer, disk
<1>4. TypeOK'
  BY <1>1, <1>2, <1>3 DEF IInv, TypeOK
<1>5. Lined(file)' /\ AcknowledgedIsDurable'
  BY <1>3 DEF IInv, AcknowledgedIsDurable
<1>6. Views'
  BY <1>1, <1>2, <1>3 DEF IInv, Views
<1>7. HolderReady' /\ Appending'
  BY <1>3 DEF IInv, Load, HolderReady, Appending
<1> QED BY <1>4, <1>5, <1>6, <1>7 DEF IInv

(* Only here does the invariant need that the append is not misled.        *)
LEMMA StartAppendStep ==
    ASSUME IInv, NEW body \in Payload, StartAppend(body), ~misled'
    PROVE  IInv'
<1>1. holder \in Process
  BY DEF IInv, TypeOK, StartAppend
<1> DEFINE v == Loaded(holder)
<1>2. /\ v \in View /\ v # None /\ ViewOf(v, file)
      /\ ~v.poisoned /\ ~Misleading(v) =>
            Len(v.lines) = Len(file) /\ (v.torn <=> tail # <<>>)
  BY <1>1, LoadedIsCurrent
<1>3. /\ view' = [view EXCEPT ![holder] = v] /\ ~v.poisoned /\ ~Misleading(v)
      /\ UNCHANGED <<disk, file, tail, synced, acked, holder, faults>>
      /\ again' = FALSE /\ misled' \in BOOLEAN
  BY DEF StartAppend, disk
<1>4. \/ /\ v.torn /\ pc' = "truncate" /\ queued' = body
         /\ UNCHANGED <<rec, offset>>
      \/ /\ ~v.torn /\ pc' = "write" /\ queued' = None
         /\ rec' = [seq |-> Len(v.lines) + 1, body |-> body] /\ offset' = Size
  BY DEF StartAppend
<1>5. body \in Body /\ body # None /\ Width[body] \in Nat \ {0}
  BY NoneAssumption, WidthAssumption DEF Body
<1> HIDE DEF v
<1>6. /\ view \in [Process -> View \cup {None}] /\ view'[holder] = v
      /\ Len(v.lines) \in Nat /\ Len(v.lines) = Len(file) /\ (v.torn <=> tail # <<>>)
  BY <1>1, <1>2, <1>3 DEF IInv, TypeOK, View
<1>7. /\ Size \in Nat /\ Size = Eol + Len(tail) /\ Eol = EndIn(file, Len(file)) /\ Eol \in Nat
      /\ Len(tail) \in Nat
  BY FileFacts
<1>8. TypeOK'
  <2>1. rec' \in Record /\ offset' \in Nat /\ queued' \in Body \cup {None}
    <3>1. rec \in Record /\ offset \in Nat
      BY DEF IInv, TypeOK
    <3>2. [seq |-> Len(v.lines) + 1, body |-> body] \in Record
      BY <1>5, <1>6 DEF Record
    <3> QED BY <1>4, <1>5, <1>7, <3>1, <3>2
  <2> QED BY <1>1, <1>2, <1>3, <1>4, <1>6, <2>1 DEF IInv, TypeOK
<1>9. Lined(file)' /\ AcknowledgedIsDurable'
  BY <1>3 DEF IInv, AcknowledgedIsDurable
<1>10. Views'
  BY <1>1, <1>2, <1>3, <1>6 DEF IInv, Views
<1>11. HolderReady'
  BY <1>1, <1>2, <1>3, <1>4, <1>5, <1>6 DEF HolderReady
<1>12. Appending'
  <2>1. CASE v.torn
    BY <2>1, <1>4 DEF Appending
  <2>2. CASE ~v.torn
    <3>1. tail = <<>> /\ Len(tail) = 0 /\ Size = EndIn(file, Len(file))
      BY <2>2, <1>6, <1>7
    <3>2. tail' = Pieces(rec', Len(tail'))
      BY <3>1, <1>3 DEF Pieces
    <3>3. /\ rec'.seq = Len(v.lines) + 1 /\ pc' = "write" /\ rec'.body = body
          /\ offset' = EndIn(file, Len(v.lines)) /\ Len(tail') < Width[rec'.body]
      BY <2>2, <1>3, <1>4, <1>5, <1>6, <3>1
    <3> QED BY <3>1, <3>2, <3>3, <1>3, <1>6 DEF Appending
  <2> QED BY <2>1, <2>2
<1> QED BY <1>8, <1>9, <1>10, <1>11, <1>12 DEF IInv

(* What is known while an append is under way.                             *)
LEMMA HolderFacts ==
    ASSUME IInv, pc # "idle"
    PROVE  /\ holder \in Process /\ view[holder] \in View
           /\ view \in [Process -> View \cup {None}]
           /\ view[holder] # None /\ ViewOf(view[holder], file)
           /\ Len(view[holder].lines) \in 1..Len(file)
           /\ rec \in Record /\ rec.body \in Body /\ Width[rec.body] \in Nat \ {0}
<1>1. TypeOK /\ Views /\ holder \in Process /\ view[holder] # None
  BY DEF IInv, HolderReady
<1>2. /\ view[holder] \in View /\ view \in [Process -> View \cup {None}]
      /\ ViewOf(view[holder], file) /\ rec \in Record
  BY <1>1 DEF TypeOK, Views
<1>3. rec.body \in Body /\ Width[rec.body] \in Nat \ {0}
  <2>1. rec.body \in Body
    BY <1>2 DEF Record
  <2> QED BY <2>1, WidthAssumption
<1> QED BY <1>1, <1>2, <1>3 DEF ViewOf

(* The repair cuts off the torn line and nothing else.                     *)
LEMMA TruncateCuts ==
    ASSUME IInv, Truncate
    PROVE  file' = file /\ tail' = <<>>
<1>1. /\ pc = "truncate" /\ Len(view[holder].lines) = Len(file)
  BY DEF Truncate, IInv, HolderReady
<1>2. view[holder].prefix = Eol
  BY <1>1, HolderFacts, FileFacts DEF ViewOf
<1>3. PICK n \in 0..Len(file) :
         /\ EndOf(n) <= Eol /\ (n < Len(file) => Eol < EndOf(n + 1))
         /\ file' = SubSeq(file, 1, n)
         /\ tail' = IF n = Len(file) THEN SubSeq(tail, 1, Eol - Eol)
                    ELSE Pieces(file[n + 1].rec, Eol - EndOf(n))
  BY <1>2 DEF Truncate
<1>4. n = Len(file)
  <2> SUFFICES ASSUME n # Len(file) PROVE FALSE
    OBVIOUS
  <2>1. n + 1 \in 0..Len(file) /\ Len(file) \in 0..Len(file) /\ n < Len(file)
        /\ (n + 1 < Len(file) \/ n + 1 = Len(file))
    BY FileFacts
  <2>2. EndOf(n + 1) = EndIn(file, n + 1)
    BY DEF EndOf, EndIn
  <2>3. EndIn(file, n + 1) <= EndIn(file, Len(file)) /\ EndIn(file, n + 1) \in Nat
    <3>1. file \in Seq(Line) /\ Lined(file)
      BY FileFacts DEF IInv
    <3>2. EndIn(file, n + 1) \in Nat /\ EndIn(file, Len(file)) \in Nat
      BY <2>1, <3>1, LineFacts
    <3>3. n + 1 < Len(file) => EndIn(file, n + 1) < EndIn(file, Len(file))
      BY <2>1, <3>1, EndsIncrease
    <3>4. n + 1 = Len(file) => EndIn(file, n + 1) = EndIn(file, Len(file))
      OBVIOUS
    <3> QED BY <2>1, <3>2, <3>3, <3>4
  <2> QED BY <1>3, <2>1, <2>2, <2>3, FileFacts
<1>5. file' = file
  BY <1>3, <1>4, FileFacts, SubSeqFull
<1>6. tail' = <<>>
  <2>1. Eol - Eol = 0
    BY FileFacts
  <2>2. tail \in Seq(Record \X Nat)
    BY DEF IInv, TypeOK
  <2>3. SubSeq(tail, 1, 0) = <<>>
    BY <2>2, SubSeqEmpty
  <2> QED BY <1>3, <1>4, <2>1, <2>3
<1> QED BY <1>5, <1>6

LEMMA TruncateStep ==
    ASSUME IInv, Truncate
    PROVE  IInv'
<1>1. pc = "truncate" /\ Len(view[holder].lines) = Len(file) /\ queued # None
  BY DEF Truncate, IInv, HolderReady
<1>2. /\ file' = file /\ tail' = <<>> /\ pc' = "truncated"
      /\ UNCHANGED <<synced, holder, view, rec, offset, again, queued, acked, misled, faults>>
  BY TruncateCuts DEF Truncate
<1>3. TypeOK'
  BY <1>2 DEF IInv, TypeOK
<1>4. Lined(file)' /\ Views' /\ AcknowledgedIsDurable'
  BY <1>2 DEF IInv, Views, AcknowledgedIsDurable
<1>5. HolderReady' /\ Appending'
  BY <1>1, <1>2 DEF IInv, HolderReady, Appending
<1> QED BY <1>3, <1>4, <1>5 DEF IInv

LEMMA SyncTruncateStep ==
    ASSUME IInv, SyncTruncate
    PROVE  IInv'
<1> DEFINE old == view[holder]
           new == view'[holder]
<1>1. /\ pc = "truncated" /\ Len(old.lines) = Len(file) /\ queued # None
      /\ tail = <<>> /\ ~old.poisoned
  BY DEF SyncTruncate, IInv, HolderReady
<1>2. /\ holder \in Process /\ old \in View /\ ViewOf(old, file)
      /\ view \in [Process -> View \cup {None}]
  BY <1>1, HolderFacts
<1>3. /\ Len(file) \in Nat \ {0} /\ Size \in Nat /\ Size = EndIn(file, Len(file))
      /\ Len(tail) = 0
  BY <1>1, FileFacts
<1>4. /\ synced' = Len(file) /\ pc' = "write" /\ offset' = Size
      /\ rec' = [seq |-> Len(old.lines) + 1, body |-> Repaired]
      /\ UNCHANGED <<file, tail, holder, again, queued, acked, misled, faults>>
      /\ view' = [view EXCEPT ![holder].torn = FALSE,
                              ![holder].size = view[holder].prefix]
  BY DEF SyncTruncate
<1>5. /\ new \in View /\ new.lines = old.lines /\ new.prefix = old.prefix
      /\ new.size = old.prefix /\ ~new.torn /\ ~new.poisoned
      /\ \A p \in Process \ {holder} : view'[p] = view[p]
      /\ view' \in [Process -> View \cup {None}]
  BY <1>1, <1>2, <1>4 DEF View
<1>6. new # None /\ new.prefix \in Nat
  BY <1>5, NoneAssumption DEF View
<1>7. Repaired \in Body /\ Width[Repaired] \in Nat \ {0}
  BY WidthAssumption DEF Body
<1> HIDE DEF old, new
<1>8. TypeOK'
  <2>1. rec' \in Record
    BY <1>1, <1>3, <1>4, <1>7 DEF Record
  <2>2. synced' \in 1..Len(file')
    BY <1>3, <1>4
  <2> QED BY <1>2, <1>3, <1>4, <1>5, <2>1, <2>2 DEF IInv, TypeOK
<1>9. Lined(file)'
  BY <1>4 DEF IInv
<1>10. AcknowledgedIsDurable'
  <2>1. synced \in Nat /\ synced <= Len(file)
    BY DEF IInv, TypeOK
  <2> QED BY <1>3, <1>4, <2>1 DEF IInv, AcknowledgedIsDurable
<1>11. Views'
  <2>1. ViewOf(new, file)
    BY <1>2, <1>5, <1>6 DEF ViewOf
  <2> QED BY <1>4, <1>5, <2>1 DEF IInv, Views, new
<1>12. HolderReady'
  BY <1>2, <1>4, <1>5, <1>6 DEF HolderReady, new
<1>13. Appending'
  <2>1. tail' = Pieces(rec', Len(tail')) /\ Len(tail') = 0
    BY <1>1, <1>3, <1>4 DEF Pieces
  <2>2. Len(tail') < Width[rec'.body]
    BY <1>4, <1>7, <2>1
  <2>3. /\ rec'.seq = Len(new.lines) + 1 /\ offset' = EndIn(file, Len(new.lines))
        /\ Len(file) = Len(new.lines)
    BY <1>1, <1>3, <1>4, <1>5
  <2> QED BY <1>4, <2>1, <2>2, <2>3 DEF Appending, new
<1> QED BY <1>8, <1>9, <1>10, <1>11, <1>12, <1>13 DEF IInv

LEMMA WriteStep ==
    ASSUME IInv, Write
    PROVE  IInv'
<1> DEFINE n == Len(view[holder].lines)
           next == Size - offset + 1
           grown == Append(tail, <<rec, next>>)
           w == Width[rec.body]
<1>1. pc = "write" /\ rec \in Record /\ tail \in Seq(Record \X Nat)
  BY DEF Write, IInv, TypeOK
<1>2. /\ n \in Nat /\ Len(tail) \in Nat /\ w \in Nat \ {0}
      /\ file \in Seq(Line) /\ Len(file) \in Nat \ {0}
      /\ Size = Eol + Len(tail) /\ Eol \in Nat /\ Eol = EndIn(file, Len(file))
  BY <1>1, HolderFacts, FileFacts
<1>3. /\ rec.seq = n + 1 /\ offset = Eol /\ Len(file) = n
      /\ tail = Pieces(rec, Len(tail)) /\ Len(tail) < w
  BY <1>1, <1>2 DEF IInv, Appending
<1>4. next = Len(tail) + 1 /\ next \in Nat
  BY <1>2, <1>3
<1>5. grown = Pieces(rec, next) /\ grown \in Seq(Record \X Nat) /\ Len(grown) = next
  <2>1. \A k \in Nat : /\ Append(Pieces(rec, k), <<rec, k + 1>>) = Pieces(rec, k + 1)
                       /\ Pieces(rec, k) \in Seq(Record \X Nat) /\ Len(Pieces(rec, k)) = k
    BY <1>1, PiecesAre
  <2>2. Append(Pieces(rec, Len(tail)), <<rec, Len(tail) + 1>>) = Pieces(rec, Len(tail) + 1)
    BY <1>2, <2>1
  <2>3. grown = Pieces(rec, next)
    BY <1>3, <1>4, <2>2
  <2> QED BY <1>4, <2>1, <2>3
<1>6. UNCHANGED <<synced, holder, view, rec, offset, again, queued, acked, misled, faults>>
  BY DEF Write
<1>7. CASE next = w
  <2> DEFINE line == [rec |-> rec, end |-> Size + 1]
  <2>1. file' = Append(file, line) /\ tail' = <<>> /\ pc' = "sync"
    BY <1>4, <1>5, <1>7 DEF Write
  <2>2. line \in Line /\ line.rec = rec /\ line.end = EndIn(file, Len(file)) + w
    <3>1. Size + 1 \in Nat /\ Size + 1 = Eol + w
      BY <1>2, <1>3, <1>4, <1>7
    <3> QED BY <1>1, <1>2, <3>1 DEF Line
  <2> HIDE DEF line
  <2>3. /\ file' \in Seq(Line) /\ Len(file') = n + 1 /\ file' # <<>> /\ Lined(file')
        /\ file'[n + 1] = line /\ \A i \in 1..n : file'[i] = file[i]
    <3>1. Lined(file) /\ line.rec.seq = Len(file) + 1
      BY <1>3, <2>2 DEF IInv
    <3> HIDE DEF n, w
    <3>2. line.end = EndIn(file, Len(file)) + Width[line.rec.body]
      BY <2>2 DEF w
    <3>3. /\ file' \in Seq(Line) /\ Lined(file') /\ Len(file') = Len(file) + 1
          /\ file'[Len(file) + 1] = line /\ \A i \in 1..Len(file) : file'[i] = file[i]
      BY <1>2, <2>1, <2>2, <3>1, <3>2, LinedAppend
    <3>4. file' # <<>>
      BY <1>2, <3>3
    <3> QED BY <1>3, <3>3, <3>4
  <2> HIDE DEF next, grown, w, n
  <2>4. TypeOK'
    <3>1. synced' \in 1..Len(file')
      BY <1>2, <1>3, <1>6, <2>3 DEF IInv, TypeOK
    <3>2. tail' \in Seq(Record \X Nat)
      BY <2>1
    <3> QED BY <1>6, <2>1, <2>3, <3>1, <3>2 DEF IInv, TypeOK
  <2>5. Lined(file)'
    BY <2>3
  <2>6. AcknowledgedIsDurable'
    <3> SUFFICES ASSUME NEW r \in acked
                 PROVE  /\ r.seq \in 1..synced /\ r.seq <= Len(file')
                        /\ file'[r.seq].rec = r
      BY <1>6 DEF AcknowledgedIsDurable
    <3>1. r.seq \in 1..synced /\ file[r.seq].rec = r /\ synced \in 1..Len(file)
      BY DEF IInv, AcknowledgedIsDurable, TypeOK
    <3>2. r.seq \in 1..n
      BY <3>1, <1>2, <1>3
    <3>3. r.seq <= Len(file')
      BY <3>2, <2>3, <1>2
    <3> QED BY <3>1, <3>2, <3>3, <2>3
  <2>7. Views'
    <3> SUFFICES ASSUME NEW q \in Process, view[q] # None PROVE ViewOf(view[q], file')
      BY <1>6 DEF Views
    <3>1. ViewOf(view[q], file)
      BY DEF IInv, Views
    <3>2. Len(file) <= Len(file') /\ \A i \in 1..Len(file) : file'[i] = file[i]
      BY <1>2, <1>3, <2>3
    <3> QED BY <1>2, <2>3, <3>1, <3>2, ViewGrows
  <2>8. HolderReady'
    BY <1>1, <1>6, <2>1 DEF IInv, HolderReady
  <2>9. Appending'
    <3>1. EndIn(file', n) = EndIn(file, n) /\ n \in 1..Len(file)
      BY <1>2, <1>3, <2>3 DEF EndIn
    <3> QED BY <1>2, <1>3, <1>6, <2>1, <2>2, <2>3, <3>1 DEF Appending, n
  <2> QED BY <2>4, <2>5, <2>6, <2>7, <2>8, <2>9 DEF IInv
<1>8. CASE next # w
  <2>1. tail' = grown /\ UNCHANGED <<file, pc>>
    BY <1>4, <1>8 DEF Write
  <2>2. Len(grown) < w /\ grown = Pieces(rec, Len(grown))
    BY <1>2, <1>3, <1>4, <1>5, <1>8
  <2> HIDE DEF next, grown
  <2>3. TypeOK'
    BY <1>5, <1>6, <2>1 DEF IInv, TypeOK
  <2>4. Lined(file)' /\ Views' /\ AcknowledgedIsDurable'
    BY <1>6, <2>1 DEF IInv, Views, AcknowledgedIsDurable
  <2>5. HolderReady'
    BY <1>1, <1>6, <2>1 DEF IInv, HolderReady
  <2>6. Appending'
    BY <1>1, <1>2, <1>3, <1>6, <2>1, <2>2 DEF Appending
  <2> QED BY <2>3, <2>4, <2>5, <2>6 DEF IInv
<1> QED BY <1>7, <1>8

LEMMA ConfirmStep ==
    ASSUME IInv, Confirm
    PROVE  IInv'
<1> DEFINE n == Len(view[holder].lines)
           w == Width[rec.body]
<1>1. pc = "confirm"
  BY DEF Confirm
<1>2. /\ n \in 1..Len(file) /\ Len(tail) \in Nat /\ w \in Nat \ {0}
      /\ file \in Seq(Line) /\ Len(file) \in Nat
      /\ Size = Eol + Len(tail) /\ Eol \in Nat /\ Eol = EndIn(file, Len(file))
  BY <1>1, HolderFacts, FileFacts
<1>3. /\ again' = TRUE
      /\ pc' = IF Size - offset = w THEN "sync" ELSE "write"
      /\ UNCHANGED <<file, tail, synced, holder, view, rec, offset, queued, acked, misled, faults>>
  BY DEF Confirm, disk
<1>4. TypeOK'
  BY <1>3 DEF IInv, TypeOK
<1>5. Lined(file)' /\ Views' /\ AcknowledgedIsDurable'
  BY <1>3 DEF IInv, Views, AcknowledgedIsDurable
<1>6. HolderReady'
  BY <1>1, <1>3 DEF IInv, HolderReady
<1>7. Appending'
  <2>1. /\ rec.seq = n + 1 /\ offset = EndIn(file, n)
        /\ \/ Len(file) = n /\ tail = Pieces(rec, Len(tail)) /\ Len(tail) < w
           \/ Len(file) = n + 1 /\ tail = <<>> /\ file[n + 1].rec = rec
    BY <1>1 DEF IInv, Appending
  <2>2. CASE Len(file) = n /\ tail = Pieces(rec, Len(tail)) /\ Len(tail) < w
    <3>1. offset = Eol
      BY <1>2, <2>1, <2>2
    <3>2. Size - offset # w
      BY <1>2, <2>2, <3>1
    <3>3. pc' = "write"
      BY <1>3, <3>2
    <3> QED BY <1>3, <2>1, <2>2, <3>3 DEF Appending
  <2>3. CASE Len(file) = n + 1 /\ tail = <<>> /\ file[n + 1].rec = rec
    <3>1. n + 1 \in 1..Len(file) /\ n + 1 - 1 = n /\ n \in 0..Len(file) /\ Len(tail) = 0
      BY <1>2, <2>3
    <3>2. EndIn(file, n + 1) = EndIn(file, n + 1 - 1) + w
      BY <1>2, <2>3, <3>1, EndsIncrease DEF IInv
    <3>3. EndIn(file, n) \in Nat
      BY <1>2, <3>1, LineFacts
    <3>4. Eol = EndIn(file, n) + w /\ Size = Eol
      BY <1>2, <2>3, <3>1, <3>2
    <3>5. Size - offset = w
      <4>1. offset = EndIn(file, n) /\ Size = EndIn(file, n) + w /\ w \in Nat
        BY <1>2, <2>1, <3>4
      <4> HIDE DEF n, w
      <4> QED BY <3>3, <4>1
    <3>6. pc' = "sync"
      BY <1>3, <3>5
    <3> QED BY <1>3, <2>1, <2>3, <3>6 DEF Appending
  <2> QED BY <2>1, <2>2, <2>3
<1> QED BY <1>4, <1>5, <1>6, <1>7 DEF IInv

(* Giving up an append leaves the disk alone and frees the writer.         *)
LEMMA IdleWriter ==
    ASSUME IInv, Idle, UNCHANGED <<disk, acked, misled>>,
           holder' \in Process \cup {None}, faults' \in Nat,
           view' \in [Process -> View \cup {None}],
           \A p \in Process : view'[p] # None =>
              /\ view[p] # None
              /\ view'[p].lines = view[p].lines
              /\ view'[p].prefix = view[p].prefix
              /\ view'[p].size = view[p].size
              /\ (view'[p].torn <=> view[p].torn)
    PROVE  IInv'
<1>1. NoRecord \in Record
  BY DEF NoRecord, Record, Body
<1>2. TypeOK'
  BY <1>1 DEF IInv, TypeOK, Idle, disk
<1>3. Lined(file)' /\ AcknowledgedIsDurable'
  BY DEF IInv, AcknowledgedIsDurable, disk
<1>4. Views'
  <2> SUFFICES ASSUME NEW q \in Process, view'[q] # None PROVE ViewOf(view'[q], file)
    BY DEF Views, disk
  <2> QED BY DEF IInv, Views, ViewOf
<1>5. HolderReady' /\ Appending'
  BY DEF Idle, HolderReady, Appending
<1> QED BY <1>2, <1>3, <1>4, <1>5 DEF IInv

LEMMA PoisonStep ==
    ASSUME IInv, pc # "idle", Poison,
           UNCHANGED <<disk, holder, acked, misled>>, faults' \in Nat
    PROVE  IInv'
<1>1. /\ holder \in Process /\ view[holder] \in View
      /\ view \in [Process -> View \cup {None}] /\ view[holder] # None
  BY HolderFacts
<1>2. Idle /\ view' = [view EXCEPT ![holder].poisoned = TRUE]
  BY DEF Poison
<1>3. /\ view'[holder].lines = view[holder].lines
      /\ view'[holder].prefix = view[holder].prefix
      /\ view'[holder].size = view[holder].size
      /\ view'[holder].torn <=> view[holder].torn
      /\ view'[holder] \in View
      /\ \A p \in Process \ {holder} : view'[p] = view[p]
      /\ view' \in [Process -> View \cup {None}]
  BY <1>1, <1>2 DEF View
<1> QED BY <1>1, <1>2, <1>3, IdleWriter

LEMMA FailTruncateStep ==
    ASSUME IInv, FailTruncate
    PROVE  IInv'
<1>1. /\ Idle /\ UNCHANGED <<disk, acked, misled>> /\ holder' \in Process \cup {None}
      /\ faults' \in Nat /\ view' = view /\ view \in [Process -> View \cup {None}]
  BY DEF FailTruncate, IInv, TypeOK
<1> QED BY <1>1, IdleWriter

LEMMA FailWriteStep ==
    ASSUME IInv, FailWrite
    PROVE  IInv'
<1>1. /\ pc \in {"write", "sync"} /\ faults' \in Nat
      /\ UNCHANGED <<disk, file, tail, synced, holder, acked, misled>>
  BY DEF FailWrite, IInv, TypeOK, disk
<1>2. CASE again
  BY <1>1, <1>2, PoisonStep DEF FailWrite
<1>3. CASE ~again
  <2>1. pc' = "confirm" /\ UNCHANGED <<view, rec, offset, again, queued>>
    BY <1>3 DEF FailWrite
  <2>2. TypeOK'
    BY <1>1, <2>1 DEF IInv, TypeOK
  <2>3. Lined(file)' /\ Views' /\ AcknowledgedIsDurable'
    BY <1>1, <2>1 DEF IInv, Views, AcknowledgedIsDurable
  <2>4. HolderReady' /\ Appending'
    BY <1>1, <2>1 DEF IInv, HolderReady, Appending
  <2> QED BY <2>2, <2>3, <2>4 DEF IInv
<1> QED BY <1>2, <1>3

LEMMA FailConfirmStep ==
    ASSUME IInv, FailConfirm
    PROVE  IInv'
<1>1. /\ pc = "confirm" /\ faults' \in Nat /\ Poison
      /\ UNCHANGED <<disk, holder, acked, misled>>
  BY DEF FailConfirm, IInv, TypeOK
<1> QED BY <1>1, PoisonStep

LEMMA CrashStep ==
    ASSUME IInv, NEW p \in Process, Crash(p)
    PROVE  IInv'
<1>1. /\ UNCHANGED <<disk, file, tail, synced, acked, misled>> /\ faults' \in Nat
      /\ view' = [view EXCEPT ![p] = None]
      /\ view \in [Process -> View \cup {None}]
      /\ holder \in Process \cup {None}
  BY DEF Crash, IInv, TypeOK, disk
<1>2. view' \in [Process -> View \cup {None}]
  BY <1>1
<1>3. \A q \in Process : view'[q] # None => q # p /\ view'[q] = view[q]
  BY <1>1
<1>4. CASE holder = p
  <2>1. Idle /\ holder' = None
    BY <1>4 DEF Crash
  <2> QED BY <1>1, <1>2, <1>3, <2>1, IdleWriter
<1>5. CASE holder # p
  <2>1. UNCHANGED <<holder, writer, pc, rec, offset, again, queued>>
    BY <1>5 DEF Crash, writer
  <2>2. TypeOK'
    BY <1>1, <1>2, <2>1 DEF IInv, TypeOK
  <2>3. Lined(file)' /\ Views' /\ AcknowledgedIsDurable'
    BY <1>1, <1>3 DEF IInv, Views, AcknowledgedIsDurable
  <2>4. view'[holder] = view[holder] \/ pc = "idle"
    BY <1>1, <1>5 DEF IInv, HolderReady
  <2>5. HolderReady' /\ Appending'
    BY <1>1, <2>1, <2>4 DEF IInv, HolderReady, Appending
  <2> QED BY <2>2, <2>3, <2>5 DEF IInv
<1> QED BY <1>4, <1>5

LEMMA SyncStep ==
    ASSUME IInv, Sync
    PROVE  IInv'
<1> DEFINE old == view[holder]
           new == view'[holder]
           n == Len(old.lines)
<1>1. pc = "sync" /\ queued \in Body \cup {None}
  BY DEF Sync, IInv, TypeOK
<1>2. /\ holder \in Process /\ old \in View /\ n \in 1..Len(file) /\ old # None
      /\ view \in [Process -> View \cup {None}] /\ ViewOf(old, file) /\ rec \in Record
      /\ Size = Eol + Len(tail) /\ Eol \in Nat /\ Eol = EndIn(file, Len(file))
      /\ Len(file) \in Nat
  BY <1>1, HolderFacts, FileFacts
<1>3. /\ rec.seq = n + 1 /\ Len(file) = n + 1 /\ tail = <<>> /\ file[n + 1].rec = rec
      /\ Size = EndIn(file, n + 1) /\ Size \in Nat
  <2>1. /\ rec.seq = n + 1 /\ Len(file) = n + 1 /\ tail = <<>>
        /\ file[n + 1].rec = rec
    BY <1>1 DEF IInv, Appending
  <2>2. Len(tail) = 0
    BY <2>1
  <2> QED BY <1>2, <2>1, <2>2
<1>4. ~old.poisoned /\ ~old.torn
  BY <1>1 DEF IInv, HolderReady
<1>5. /\ synced' = Len(file) /\ acked' = acked \cup {rec}
      /\ UNCHANGED <<file, tail, holder, misled, faults>>
      /\ view' = [view EXCEPT ![holder] =
                    [old EXCEPT !.lines = Append(old.lines, rec),
                                !.prefix = Size, !.size = Size]]
  BY DEF Sync
<1>6. \/ queued = None /\ Idle
      \/ /\ rec' = [seq |-> rec.seq + 1, body |-> queued] /\ queued # None
         /\ offset' = Size /\ pc' = "write" /\ again' = FALSE /\ queued' = None
  BY DEF Sync
<1>7. /\ old.lines \in Seq(Record) /\ Append(old.lines, rec) \in Seq(Record)
      /\ Len(Append(old.lines, rec)) = n + 1
      /\ Append(old.lines, rec)[n + 1] = rec
      /\ \A i \in 1..n : Append(old.lines, rec)[i] = old.lines[i]
  BY <1>2, AppendProperties DEF View
<1>8. /\ new \in View /\ new.lines = Append(old.lines, rec)
      /\ new.prefix = Size /\ new.size = Size /\ ~new.torn /\ ~new.poisoned
      /\ \A q \in Process \ {holder} : view'[q] = view[q]
      /\ view' \in [Process -> View \cup {None}]
  BY <1>2, <1>3, <1>4, <1>5, <1>7 DEF View
<1>9. new # None
  BY <1>8, NoneAssumption
<1>10. \A i \in 1..n : old.lines[i] = file[i].rec
  BY <1>2 DEF ViewOf
<1> HIDE DEF old, new, n
<1>11. TypeOK'
  <2>1. NoRecord \in Record
    BY DEF NoRecord, Record, Body
  <2>2. rec' \in Record /\ offset' \in Nat /\ again' \in BOOLEAN
        /\ queued' \in Body \cup {None}
        /\ pc' \in {"idle", "write"}
    <3>1. CASE queued = None /\ Idle
      BY <3>1, <2>1 DEF Idle
    <3>2. CASE queued # None
      <4>1. rec.seq + 1 \in Nat /\ queued \in Body
        BY <1>1, <1>2, <1>3, <3>2
      <4>2. [seq |-> rec.seq + 1, body |-> queued] \in Record
        BY <4>1 DEF Record
      <4> QED BY <1>3, <1>6, <3>2, <4>2
    <3> QED BY <1>6, <3>1, <3>2
  <2>3. synced' \in 1..Len(file)
    BY <1>2, <1>3, <1>5
  <2> QED BY <1>2, <1>5, <1>8, <2>2, <2>3 DEF IInv, TypeOK
<1>12. Lined(file)'
  BY <1>5 DEF IInv
<1>13. AcknowledgedIsDurable'
  <2> SUFFICES ASSUME NEW r \in acked'
               PROVE  r.seq \in 1..Len(file) /\ file[r.seq].rec = r
    BY <1>2, <1>5 DEF AcknowledgedIsDurable
  <2>1. CASE r = rec
    BY <2>1, <1>2, <1>3
  <2>2. CASE r \in acked
    BY <2>2, <1>2 DEF IInv, AcknowledgedIsDurable, TypeOK
  <2> QED BY <2>1, <2>2, <1>5
<1>14. Views'
  <2>1. ViewOf(new, file)
    <3>1. \A i \in 1..n + 1 : i \in 1..n \/ i = n + 1
      BY <1>2
    <3>2. \A i \in 1..n + 1 : new.lines[i] = file[i].rec
      BY <1>3, <1>7, <1>8, <1>10, <3>1
    <3>3. Len(new.lines) = n + 1 /\ n + 1 \in 1..Len(file)
      BY <1>2, <1>3, <1>7, <1>8
    <3> QED BY <1>3, <1>8, <3>2, <3>3 DEF ViewOf
  <2> QED BY <1>5, <1>8, <2>1 DEF IInv, Views, new
<1>15. HolderReady'
  BY <1>2, <1>5, <1>6, <1>8, <1>9 DEF HolderReady, Idle, new
<1>16. Appending'
  <2>1. CASE queued = None /\ Idle
    BY <2>1 DEF Appending, Idle
  <2>2. CASE ~(queued = None /\ Idle)
    <3>1. Len(view'[holder].lines) = n + 1 /\ pc' = "write" /\ rec'.seq = n + 2
          /\ offset' = EndIn(file, n + 1) /\ rec'.body = queued /\ queued \in Body
      BY <2>2, <1>1, <1>2, <1>3, <1>6, <1>7, <1>8 DEF new
    <3>2. tail' = Pieces(rec', Len(tail')) /\ Len(tail') = 0
      BY <1>3, <1>5 DEF Pieces
    <3>3. Len(tail') < Width[rec'.body]
      BY <3>1, <3>2, WidthAssumption
    <3> QED BY <3>1, <3>2, <3>3, <1>2, <1>3, <1>5 DEF Appending
  <2> QED BY <2>1, <2>2
<1> QED BY <1>11, <1>12, <1>13, <1>14, <1>15, <1>16 DEF IInv

LEMMA PowerLossStep ==
    ASSUME IInv, PowerLoss
    PROVE  IInv'
<1>0. PICK n \in synced..Len(file), b \in Body :
           \E k \in 0..Width[b] - 1 :
              /\ file' = SubSeq(file, 1, n)
              /\ tail' = Pieces([seq |-> n + 1, body |-> b], k)
  BY DEF PowerLoss
<1>1. PICK k \in 0..Width[b] - 1 :
           /\ file' = SubSeq(file, 1, n)
           /\ tail' = Pieces([seq |-> n + 1, body |-> b], k)
  BY <1>0
<1>2. /\ UNCHANGED <<synced, acked, misled>> /\ holder' = None /\ Idle /\ faults' \in Nat
      /\ view' = [p \in Process |-> None]
  BY DEF PowerLoss, IInv, TypeOK
<1>3. /\ Width[b] \in Nat \ {0} /\ file \in Seq(Line)
      /\ Len(file) \in Nat /\ synced \in 1..Len(file) /\ k \in Nat
      /\ n \in 1..Len(file)
  <2>1. /\ Width[b] \in Nat \ {0} /\ file \in Seq(Line)
        /\ Len(file) \in Nat /\ synced \in 1..Len(file)
    BY FileFacts, WidthAssumption DEF IInv, TypeOK
  <2> QED BY <2>1
<1>4. /\ file' \in Seq(Line) /\ Len(file') = n /\ file' # <<>> /\ Lined(file')
      /\ \A i \in 1..n : file'[i] = file[i]
  <2>1. Lined(file)
    BY DEF IInv
  <2>2. /\ SubSeq(file, 1, n) \in Seq(Line) /\ Len(SubSeq(file, 1, n)) = n
        /\ Lined(SubSeq(file, 1, n))
        /\ \A i \in 1..n : SubSeq(file, 1, n)[i] = file[i]
    BY <1>3, <2>1, LinedPrefix
  <2>3. Len(file') = n /\ n # 0
    BY <1>1, <1>3, <2>2
  <2>4. file' # <<>>
    BY <2>3
  <2> QED BY <1>1, <2>2, <2>4
<1>5. tail' \in Seq(Record \X Nat)
  <2>1. [seq |-> n + 1, body |-> b] \in Record
    BY <1>3 DEF Record
  <2> QED BY <1>1, <1>3, <2>1, PiecesAre
<1>6. TypeOK'
  <2>1. NoRecord \in Record
    BY DEF NoRecord, Record, Body
  <2>2. synced' \in 1..Len(file')
    BY <1>2, <1>3, <1>4
  <2>3. view' \in [Process -> View \cup {None}]
    BY <1>2
  <2>4. holder' \in Process \cup {None} /\ queued' \in Body \cup {None}
        /\ pc' = "idle" /\ rec' \in Record /\ offset' \in Nat /\ again' \in BOOLEAN
    BY <1>2, <2>1 DEF Idle
  <2> QED BY <1>2, <1>4, <1>5, <2>2, <2>3, <2>4 DEF IInv, TypeOK
<1>7. AcknowledgedIsDurable'
  <2> SUFFICES ASSUME NEW r \in acked
               PROVE  /\ r.seq \in 1..synced /\ r.seq <= Len(file')
                      /\ file'[r.seq].rec = r
    BY <1>2 DEF AcknowledgedIsDurable
  <2>1. r.seq \in 1..synced /\ file[r.seq].rec = r
    BY DEF IInv, AcknowledgedIsDurable
  <2>2. r.seq \in 1..n
    BY <2>1, <1>3
  <2> QED BY <2>1, <2>2, <1>4
<1>8. Views' /\ HolderReady' /\ Appending'
  BY <1>2 DEF Views, HolderReady, Appending, Idle
<1> QED BY <1>4, <1>6, <1>7, <1>8 DEF IInv

-----------------------------------------------------------------------------
(* The invariant holds until an append is misled.                          *)
LEMMA NextPreservesIInv ==
    ASSUME IInv, [Next]_vars, ~misled'
    PROVE  IInv'
<1>1. ASSUME NEW p \in Process, Acquire(p) PROVE IInv'
  BY <1>1, AcquireStep
<1>2. ASSUME NEW p \in Process, Crash(p) PROVE IInv'
  BY <1>2, CrashStep
<1>3. ASSUME NEW b \in Payload, StartAppend(b) PROVE IInv'
  BY <1>3, StartAppendStep
<1>4. CASE Release
  BY <1>4, ReleaseStep
<1>5. CASE Load
  BY <1>5, LoadStep
<1>6. CASE Truncate
  BY <1>6, TruncateStep
<1>7. CASE SyncTruncate
  BY <1>7, SyncTruncateStep
<1>8. CASE Write
  BY <1>8, WriteStep
<1>9. CASE Confirm
  BY <1>9, ConfirmStep
<1>10. CASE Sync
  BY <1>10, SyncStep
<1>11. CASE FailTruncate
  BY <1>11, FailTruncateStep
<1>12. CASE FailWrite
  BY <1>12, FailWriteStep
<1>13. CASE FailConfirm
  BY <1>13, FailConfirmStep
<1>14. CASE PowerLoss
  BY <1>14, PowerLossStep
<1>15. CASE UNCHANGED vars
  BY <1>15 DEF vars, disk, writer, IInv, TypeOK, Views, HolderReady, Appending,
     AcknowledgedIsDurable
<1> QED
  BY <1>1, <1>2, <1>3, <1>4, <1>5, <1>6, <1>7, <1>8, <1>9, <1>10, <1>11, <1>12,
     <1>13, <1>14, <1>15 DEF Next, ProcessStep, AppendStep

(* A misled append is never forgotten.                                     *)
LEMMA MisledStays ==
    ASSUME [Next]_vars, misled
    PROVE  misled'
BY DEF Next, ProcessStep, AppendStep, Acquire, Crash, StartAppend, Release, Load, Truncate,
   SyncTruncate, Write, Confirm, Sync, FailTruncate, FailWrite, FailConfirm, PowerLoss, vars

UntilMisled == ~misled => IInv

THEOREM LedgerInvariant == Spec => []UntilMisled
<1>1. Init => UntilMisled
  BY InitStep DEF UntilMisled
<1>2. UntilMisled /\ [Next]_vars => UntilMisled'
  BY NextPreservesIInv, MisledStays DEF UntilMisled
<1> QED BY <1>1, <1>2, PTL DEF Spec

(* Every variable keeps its type, whatever the widths of the lines, until   *)
(* an append takes a stale torn tail for the present one.                  *)
THEOREM LedgerTypes == Spec => [](misled \/ TypeOK)
<1>1. UntilMisled => misled \/ TypeOK
  BY DEF UntilMisled, IInv
<1> QED BY <1>1, LedgerInvariant, PTL

(* The lines of ledger.jsonl are numbered from one without a gap, and no    *)
(* record was ever merged with a torn line (a corrupt line has number 0).  *)
THEOREM LedgerNumbering == Spec => [](NumberedWithoutGaps /\ (misled \/ NoMergedLine))
<1>1. UntilMisled => NumberedWithoutGaps /\ (misled \/ NoMergedLine)
  <2> SUFFICES ASSUME IInv PROVE NumberedWithoutGaps /\ NoMergedLine
    BY DEF UntilMisled, NumberedWithoutGaps
  <2>1. \A i \in 1..Len(file) : file[i].rec.seq = i
    BY DEF IInv, Lined
  <2>2. ASSUME NEW i \in 1..Len(file) PROVE file[i].rec # Corrupt
    <3>1. file[i].rec.seq = i /\ i # 0
      BY <2>1, FileFacts
    <3> QED BY <3>1 DEF Corrupt
  <2> QED BY <2>1, <2>2 DEF NumberedWithoutGaps, NoMergedLine, Readable
<1> QED BY <1>1, LedgerInvariant, PTL

(* An append that returned is on stable storage and stays at its place,     *)
(* with lines of any widths.  LedgerStaleCache shows that the exception, a  *)
(* misled append, is needed; this shows that nothing else is.              *)
THEOREM AcknowledgedSurvives == Spec => [](misled \/ AcknowledgedIsDurable)
<1>1. UntilMisled => misled \/ AcknowledgedIsDurable
  BY DEF UntilMisled, IInv
<1> QED BY <1>1, LedgerInvariant, PTL

(* No process ever believes more than the file holds.                      *)
THEOREM MemoryFollowsDisk == Spec => [](misled \/ MemoryIsPrefix)
<1>1. UntilMisled => misled \/ MemoryIsPrefix
  <2> SUFFICES ASSUME IInv, NEW p \in Process, view[p] # None
               PROVE  /\ Len(view[p].lines) <= Len(file)
                      /\ \A i \in 1..Len(view[p].lines) : view[p].lines[i] = file[i].rec
    BY DEF UntilMisled, MemoryIsPrefix
  <2>1. ViewOf(view[p], file) /\ Len(file) \in Nat
    BY FileFacts DEF IInv, Views
  <2> QED BY <2>1 DEF ViewOf
<1> QED BY <1>1, LedgerInvariant, PTL

-----------------------------------------------------------------------------
(* Refinement of DurableLog: the flushed lines only grow.                  *)
LEMMA FlushedLinesStay ==
    ASSUME IInv, [Next]_vars
    PROVE  /\ synced <= synced' /\ acked \subseteq acked'
           /\ \A i \in 1..synced : file'[i] = file[i]
<1>1. synced \in 1..Len(file) /\ file \in Seq(Line) /\ Len(file) \in Nat
  BY DEF IInv, TypeOK
<1>2. CASE /\ UNCHANGED file /\ acked \subseteq acked'
           /\ synced' \in {synced, Len(file)}
  BY <1>1, <1>2
<1>3. CASE Truncate
  <2>1. file' = file /\ UNCHANGED <<synced, acked>>
    BY <1>3, TruncateCuts DEF Truncate
  <2> QED BY <1>2, <2>1
<1>4. CASE Write
  <2>1. UNCHANGED <<synced, acked>>
    BY <1>4 DEF Write
  <2>2. file' = file \/ \E e : file' = Append(file, e)
    BY <1>4 DEF Write
  <2>3. ASSUME NEW e, file' = Append(file, e)
        PROVE  \A i \in 1..synced : file'[i] = file[i]
    BY <1>1, <2>3
  <2> QED BY <1>1, <2>1, <2>2, <2>3
<1>5. CASE PowerLoss
  <2>1. PICK n \in synced..Len(file) : file' = SubSeq(file, 1, n)
    BY <1>5 DEF PowerLoss
  <2>2. \A i \in 1..n : i \in 1..Len(file) /\ file[i] \in Line
    BY <1>1, <2>1, ElementOfSeq
  <2>3. \A i \in 1..n : SubSeq(file, 1, n)[i] = file[i]
    BY <1>1, <2>1, <2>2, SubSeqProperties
  <2>4. UNCHANGED <<synced, acked>>
    BY <1>5 DEF PowerLoss
  <2> QED BY <1>1, <2>1, <2>3, <2>4
<1>6. CASE SyncTruncate \/ Sync
  BY <1>1, <1>2, <1>6 DEF SyncTruncate, Sync
<1>7. CASE FailTruncate \/ FailWrite \/ FailConfirm \/ Confirm \/ Release \/ Load
  BY <1>2, <1>7 DEF FailTruncate, FailWrite, FailConfirm, Confirm, Release, Load, disk
<1>8. ASSUME NEW p \in Process, Acquire(p) \/ Crash(p)
      PROVE  UNCHANGED <<file, synced, acked>>
  BY <1>8 DEF Acquire, Crash, disk
<1>9. ASSUME NEW b \in Payload, StartAppend(b)
      PROVE  UNCHANGED <<file, synced, acked>>
  BY <1>9 DEF StartAppend, disk
<1>10. CASE UNCHANGED vars
  BY <1>2, <1>10 DEF vars, disk
<1> QED
  BY <1>2, <1>3, <1>4, <1>5, <1>6, <1>7, <1>8, <1>9, <1>10
     DEF Next, ProcessStep, AppendStep

(* The log that DurableLog sees through the refinement mapping.            *)
FlushedLog == SubSeq(Lines, 1, synced)

FlushedLogFacts ==
    /\ FlushedLog \in Seq(Record) /\ Len(FlushedLog) = synced
    /\ \A i \in 1..synced : FlushedLog[i] = file[i].rec
    /\ Durable!Numbered(FlushedLog)
    /\ acked \subseteq Durable!Recorded(FlushedLog)

LEMMA FlushedLogIs ==
    ASSUME IInv
    PROVE  FlushedLogFacts
<1>1. synced \in 1..Len(file) /\ file \in Seq(Line) /\ Len(file) \in Nat
  BY DEF IInv, TypeOK
<1>2. \A i \in 1..synced : Lines[i] = file[i].rec /\ file[i].rec \in Record
  <2>1. \A i \in 1..Len(file) : file[i] \in Line
    BY <1>1, ElementOfSeq
  <2>2. \A i \in 1..Len(file) : file[i].rec \in Record /\ Lines[i] = file[i].rec
    BY <2>1 DEF Lines, Line
  <2>3. \A i \in 1..synced : i \in 1..Len(file)
    BY <1>1
  <2> QED BY <2>2, <2>3
<1>3. /\ FlushedLog \in Seq(Record) /\ Len(FlushedLog) = synced
      /\ \A i \in 1..synced : FlushedLog[i] = file[i].rec
  <2>1. \A i \in 1..synced : Lines[i] \in Record
    BY <1>2
  <2>2. /\ SubSeq(Lines, 1, synced) \in Seq(Record)
        /\ Len(SubSeq(Lines, 1, synced)) = synced
        /\ \A i \in 1..synced : SubSeq(Lines, 1, synced)[i] = Lines[i]
    BY <1>1, <2>1, SubSeqProperties
  <2> QED BY <2>2, <1>2 DEF FlushedLog
<1>4. Durable!Numbered(FlushedLog)
  <2>1. \A i \in 1..synced : i \in 1..Len(file) /\ file[i].rec.seq = i
    BY <1>1 DEF IInv, Lined
  <2> QED BY <1>1, <1>3, <2>1 DEF Durable!Numbered
<1>5. acked \subseteq Durable!Recorded(FlushedLog)
  BY <1>3 DEF Durable!Recorded, IInv, AcknowledgedIsDurable
<1> QED BY <1>3, <1>4, <1>5 DEF FlushedLogFacts

(* The append protocol implements the durable log, with lines of any widths: *)
(* no step changes or removes what was flushed or takes an acknowledgement   *)
(* back, until an append takes a stale torn tail for the present one.       *)
THEOREM LedgerRefinesDurableLog == Spec => RefinesDurableLog
<1>1. Init => Durable!Init
  <2> SUFFICES ASSUME Init PROVE Durable!Init
    OBVIOUS
  <2>1. IInv
    BY InitStep
  <2>2. synced = 1 /\ acked = {NoRecord} /\ file[1].rec = NoRecord
    BY DEF Init
  <2>3. /\ FlushedLog \in Seq(Record) /\ Len(FlushedLog) = 1
        /\ FlushedLog[1] = NoRecord /\ Durable!Numbered(FlushedLog)
    BY <2>1, <2>2, FlushedLogIs DEF FlushedLogFacts
  <2>4. acked = Durable!Recorded(FlushedLog)
    BY <2>2, <2>3 DEF Durable!Recorded
  <2> QED BY <2>3, <2>4 DEF Durable!Init, FlushedLog
<1>2. IInv => FlushedLogFacts
  BY FlushedLogIs
<1>3. IInv' => FlushedLogFacts'
  BY <1>2, PTL
<1>4. UntilMisled /\ UntilMisled' /\ [Next]_vars => [misled' \/ Durable!Commit]_(Durable!vars)
  <2> SUFFICES ASSUME UntilMisled, UntilMisled', [Next]_vars, ~misled'
               PROVE  Durable!Commit
    OBVIOUS
  <2>0. IInv /\ IInv' /\ FlushedLogFacts /\ FlushedLogFacts'
    <3>1. IInv /\ IInv'
      BY MisledStays DEF UntilMisled
    <3> QED BY <3>1, <1>2, <1>3
  <2>1. /\ FlushedLog \in Seq(Record) /\ Len(FlushedLog) = synced
        /\ \A i \in 1..synced : FlushedLog[i] = file[i].rec
    BY <2>0 DEF FlushedLogFacts
  <2>2. /\ FlushedLog' \in Seq(Record) /\ Len(FlushedLog') = synced'
        /\ \A i \in 1..synced' : FlushedLog'[i] = file'[i].rec
        /\ Durable!Numbered(FlushedLog')
        /\ acked' \subseteq Durable!Recorded(FlushedLog')
    BY <2>0 DEF FlushedLogFacts
  <2>3. /\ synced <= synced' /\ acked \subseteq acked'
        /\ \A i \in 1..synced : file'[i] = file[i]
    BY <2>0, FlushedLinesStay
  <2>4. synced \in Nat /\ synced' \in Nat
    BY <2>0 DEF IInv, TypeOK
  <2>5. Durable!Extends(FlushedLog', FlushedLog)
    BY <2>1, <2>2, <2>3, <2>4 DEF Durable!Extends
  <2> QED BY <2>2, <2>3, <2>5 DEF Durable!Commit, FlushedLog
<1> QED BY <1>1, <1>4, LedgerInvariant, PTL DEF Spec, RefinesDurableLog

-----------------------------------------------------------------------------
(* The reader without a lock.  Up to the lines that were complete at its    *)
(* stat it reads exactly them, whatever happens behind them meanwhile; past *)
(* them it goes on only when the boundary was fixed inside a torn line.     *)
IsSeq(s) == \E S : s \in Seq(S)

Reading ==
    status # "idle" =>
        LET m == Len(atStat)
            n == Len(lines)
            k == Len(partial)
        IN
        /\ IsSeq(lines)
        /\ m \in 1..Len(file)
        /\ \A i \in 1..m : atStat[i] = file[i].rec
        /\ \A i \in 1..m : i <= n => lines[i] = atStat[i]
        /\ boundary \in Nat /\ EndIn(file, m) <= boundary
        /\ ~wasTorn => boundary = EndIn(file, m)
        /\ n < m => /\ status = "reading"
                    /\ k \in Nat /\ position = EndIn(file, n) + k
                    /\ k < Width[atStat[n + 1].body]
                    /\ partial = Pieces(atStat[n + 1], k)
        /\ n >= m /\ ~wasTorn => position = boundary /\ status # "corrupt"

(* Until an append is misled only a power loss takes lines away.           *)
LEMMA LinesStay ==
    ASSUME IInv, ProcessStep
    PROVE  file' = file \/ \E e : file' = Append(file, e)
<1>1. CASE Truncate
  BY <1>1, TruncateCuts
<1>2. CASE Write
  BY <1>2 DEF Write
<1>3. CASE ~Truncate /\ ~Write
  BY <1>3 DEF ProcessStep, AppendStep, Acquire, Crash, StartAppend, Release, Load,
     SyncTruncate, Confirm, Sync, FailTruncate, FailWrite, FailConfirm, disk
<1> QED BY <1>1, <1>2, <1>3

(* What a buffer fill returns inside the complete lines.                   *)
LEMMA PieceOfLine ==
    ASSUME IInv, NEW n \in Nat, n < Len(file),
           NEW k \in 1..Width[file[n + 1].rec.body]
    PROVE  PieceAt(EndIn(file, n) + k) = <<file[n + 1].rec, k>>
<1> DEFINE pos == EndIn(file, n) + k
           Holds(j) == LineStart(j) < pos /\ pos <= file[j].end
<1>1. /\ file \in Seq(Line) /\ Lined(file) /\ Len(file) \in Nat
      /\ Eol = EndIn(file, Len(file)) /\ n + 1 \in 1..Len(file)
  BY FileFacts DEF IInv
<1>2. \A j \in 1..Len(file) : /\ LineStart(j) = EndIn(file, j - 1)
                              /\ file[j].end = EndIn(file, j)
  <2> TAKE j \in 1..Len(file)
  <2>1. j # 0 /\ (j - 1 = 0 <=> j = 1)
    BY <1>1
  <2> QED BY <2>1 DEF LineStart, EndIn
<1>3. /\ \A i, j \in 0..Len(file) : i < j => EndIn(file, i) < EndIn(file, j)
      /\ \A i \in 0..Len(file) : EndIn(file, i) \in Nat
  BY <1>1, EndsIncrease, LineFacts
<1>4. /\ EndIn(file, n + 1) = EndIn(file, n) + Width[file[n + 1].rec.body]
      /\ Width[file[n + 1].rec.body] \in Nat
  <2>1. n + 1 - 1 = n
    OBVIOUS
  <2> QED BY <1>1, <2>1, EndsIncrease, LineFacts
<1>5. EndIn(file, n) < pos /\ pos <= EndIn(file, n + 1) /\ pos \in Nat
      /\ pos - EndIn(file, n) = k
  <2>1. n \in 0..Len(file) /\ n + 1 \in 0..Len(file)
    BY <1>1
  <2> QED BY <1>3, <1>4, <2>1
<1> HIDE DEF pos
<1>6. pos <= Eol
  <2>1. n + 1 \in 0..Len(file) /\ Len(file) \in 0..Len(file)
        /\ (n + 1 < Len(file) \/ n + 1 = Len(file))
    BY <1>1
  <2>2. EndIn(file, n + 1) <= EndIn(file, Len(file))
    BY <1>3, <2>1
  <2> QED BY <1>1, <1>3, <1>5, <2>1, <2>2
<1>7. Holds(n + 1)
  <2>1. LineStart(n + 1) = EndIn(file, n) /\ file[n + 1].end = EndIn(file, n + 1)
    BY <1>1, <1>2
  <2> QED BY <1>5, <2>1
<1>8. ASSUME NEW j \in 1..Len(file), Holds(j) PROVE j = n + 1
  <2>1. EndIn(file, j - 1) < pos /\ pos <= EndIn(file, j)
    BY <1>2, <1>8
  <2>2. /\ j \in 0..Len(file) /\ j - 1 \in 0..Len(file) /\ n \in 0..Len(file)
        /\ n + 1 \in 0..Len(file)
    BY <1>1
  <2>3. CASE j < n + 1
    <3>1. j < n \/ j = n
      BY <2>3
    <3>2. EndIn(file, j) <= EndIn(file, n)
      BY <1>3, <2>2, <3>1
    <3> QED BY <1>3, <1>5, <2>1, <2>2, <3>2
  <2>4. CASE n + 1 < j
    <3>1. n + 1 < j - 1 \/ n + 1 = j - 1
      BY <2>4
    <3>2. EndIn(file, n + 1) <= EndIn(file, j - 1)
      BY <1>3, <2>2, <3>1
    <3> QED BY <1>3, <1>5, <2>1, <2>2, <3>2
  <2> QED BY <2>3, <2>4
<1>9. (CHOOSE j \in 1..Len(file) : Holds(j)) = n + 1
  <2> HIDE DEF Holds
  <2> QED BY <1>1, <1>7, <1>8
<1>10. PieceAt(pos) = <<file[n + 1].rec, pos - LineStart(n + 1)>>
  BY <1>6, <1>9 DEF PieceAt
<1>11. LineStart(n + 1) = EndIn(file, n)
  BY <1>1, <1>2
<1> QED BY <1>5, <1>10, <1>11 DEF pos

(* Lines that appear behind the boundary change nothing it covers.         *)
LEMMA ProcessUnderReader ==
    ASSUME IInv, Reading, ProcessStep, UNCHANGED reader
    PROVE  Reading'
<1> SUFFICES ASSUME status # "idle" PROVE Reading'
  BY DEF Reading, reader
<1> DEFINE m == Len(atStat)
<1>1. m \in 1..Len(file) /\ file \in Seq(Line) /\ Len(file) \in Nat
  BY FileFacts DEF Reading
<1>2. m \in 1..Len(file') /\ \A i \in 1..m : file'[i] = file[i]
  <2>1. CASE file' = file
    BY <1>1, <2>1
  <2>2. CASE \E e : file' = Append(file, e)
    <3>1. PICK e : file' = Append(file, e)
      BY <2>2
    <3>2. Len(file') = Len(file) + 1 /\ \A i \in 1..Len(file) : file'[i] = file[i]
      BY <1>1, <3>1, SMT
    <3> QED BY <1>1, <3>2
  <2> QED BY <2>1, <2>2, LinesStay
<1>3. \A i \in 0..m : EndIn(file', i) = EndIn(file, i)
  BY <1>1, <1>2 DEF EndIn
<1>4. UNCHANGED <<boundary, position, lines, partial, atStat, wasTorn, status>>
  BY DEF reader
<1>5. Len(lines) \in Nat
  BY DEF Reading, IsSeq
<1>6. Len(lines) < m => Len(lines) \in 0..m
  BY <1>1, <1>5
<1>7. m \in 0..m
  BY <1>1
<1> QED BY <1>1, <1>2, <1>3, <1>4, <1>6, <1>7 DEF Reading

LEMMA StatReads ==
    ASSUME IInv, Stat
    PROVE  Reading'
<1>1. /\ boundary' = Size /\ position' = 0 /\ lines' = <<>> /\ partial' = <<>>
      /\ atStat' = Lines /\ wasTorn' = (tail # <<>>) /\ status' = "reading"
      /\ file' = file
  BY DEF Stat, vars, disk
<1>2. /\ file \in Seq(Line) /\ Len(file) \in Nat \ {0} /\ Len(tail) \in Nat
      /\ Eol = EndIn(file, Len(file)) /\ Eol \in Nat /\ Size = Eol + Len(tail)
      /\ (tail # <<>> <=> Len(tail) # 0)
  BY FileFacts
<1>3. Lines \in Seq(Record) /\ Len(Lines) = Len(file)
      /\ \A i \in 1..Len(file) : Lines[i] = file[i].rec
  <2>1. Lines \in [1..Len(file) -> Record]
    BY <1>2, LineFacts DEF Lines
  <2>2. Lines \in Seq(Record) /\ Len(Lines) = Len(file)
    BY <1>2, <2>1, SMT
  <2> QED BY <2>2 DEF Lines
<1>4. IsSeq(lines') /\ Len(lines') = 0 /\ Len(partial') = 0
  <2>1. lines' \in Seq(Record)
    BY <1>1
  <2> QED BY <1>1, <2>1 DEF IsSeq
<1>5. Width[atStat'[1].body] \in Nat \ {0} /\ partial' = Pieces(atStat'[1], 0)
  BY <1>1, <1>2, <1>3, LineFacts DEF Pieces
<1>6. EndIn(file, 0) = 0
  BY DEF EndIn
<1> DEFINE m == Len(atStat')
<1>7. /\ m \in 1..Len(file') /\ m > 0 /\ 0 + 1 = 1
      /\ \A i \in 1..m : atStat'[i] = file'[i].rec
  BY <1>1, <1>2, <1>3
<1>8. /\ boundary' \in Nat /\ EndIn(file', m) <= boundary'
      /\ ~wasTorn' => boundary' = EndIn(file', m)
  <2>1. EndIn(file', m) = Eol
    BY <1>1, <1>2, <1>3
  <2>2. ~wasTorn' => Len(tail) = 0
    BY <1>1, <1>2
  <2> QED BY <1>1, <1>2, <2>1, <2>2
<1>9. /\ 0 \in Nat /\ position' = EndIn(file', 0) + 0
      /\ 0 < Width[atStat'[0 + 1].body]
      /\ partial' = Pieces(atStat'[0 + 1], 0)
  BY <1>1, <1>5, <1>6
<1>10. ~(0 >= m) /\ \A i \in 1..m : ~(i <= 0)
  BY <1>2, <1>7
<1> QED BY <1>1, <1>4, <1>7, <1>8, <1>9, <1>10 DEF Reading

LEMMA SeqGrows ==
    ASSUME NEW s, IsSeq(s), NEW e
    PROVE  /\ IsSeq(Append(s, e)) /\ Len(s) \in Nat /\ Len(Append(s, e)) = Len(s) + 1
           /\ \A i \in 1..Len(s) : Append(s, e)[i] = s[i]
           /\ Append(s, e)[Len(s) + 1] = e
<1>1. PICK S : s \in Seq(S)
  BY DEF IsSeq
<1> DEFINE T == S \cup {e}
<1>2. s \in Seq(T)
  <2>1. Len(s) \in Nat /\ s = [i \in 1..Len(s) |-> s[i]] /\ \A i \in 1..Len(s) : s[i] \in S
    BY <1>1, SMT
  <2> QED BY <2>1, SMT
<1>3. /\ Append(s, e) \in Seq(T) /\ Len(Append(s, e)) = Len(s) + 1
      /\ \A i \in 1..Len(s) : Append(s, e)[i] = s[i]
      /\ Append(s, e)[Len(s) + 1] = e
  BY <1>2, AppendProperties
<1> QED BY <1>2, <1>3 DEF IsSeq

LEMMA PieceReads ==
    ASSUME IInv, Reading, ReadPiece
    PROVE  Reading'
<1> DEFINE m == Len(atStat)
           n == Len(lines)
           k == Len(partial)
           piece == PieceAt(position + 1)
           grown == Append(partial, piece)
           whole == piece # <<>> /\ piece[2] = Width[piece[1].body]
           good  == /\ grown = Pieces(piece[1], piece[2])
                    /\ piece[1].seq = n + 1
<1>1. /\ status = "reading" /\ UNCHANGED <<boundary, atStat, wasTorn, file>>
      /\ \/ /\ position = boundary \/ piece = <<>>
            /\ status' = "done" /\ UNCHANGED <<position, lines, partial>>
         \/ /\ ~(position = boundary \/ piece = <<>>)
            /\ position' = position + 1
            /\ \/ ~whole /\ partial' = grown /\ UNCHANGED <<lines, status>>
               \/ /\ whole /\ partial' = <<>>
                  /\ lines' = IF good THEN Append(lines, piece[1]) ELSE lines
                  /\ status' = IF good THEN status ELSE "corrupt"
  BY DEF ReadPiece, vars, disk
<1>2. /\ IsSeq(lines) /\ n \in Nat /\ m \in 1..Len(file) /\ m \in Nat
      /\ \A i \in 1..m : atStat[i] = file[i].rec
      /\ \A i \in 1..m : i <= n => lines[i] = atStat[i]
      /\ boundary \in Nat /\ EndIn(file, m) <= boundary
      /\ ~wasTorn => boundary = EndIn(file, m)
  BY <1>1 DEF Reading, IsSeq
<1>3. /\ file \in Seq(Line) /\ Lined(file) /\ Len(file) \in Nat
  BY FileFacts DEF IInv
<1> HIDE DEF piece
<1>4. CASE n < m
  <2> DEFINE r == atStat[n + 1]
             w == Width[r.body]
  <2>1. /\ k \in Nat /\ position = EndIn(file, n) + k /\ k < w
        /\ partial = Pieces(r, k)
    BY <1>1, <1>4 DEF Reading
  <2>2. /\ n + 1 \in 1..m /\ n + 1 \in 1..Len(file) /\ n \in 0..Len(file)
        /\ m \in 0..Len(file) /\ n + 1 \in 0..Len(file) /\ n < Len(file)
    BY <1>2, <1>3, <1>4
  <2>3. /\ r = file[n + 1].rec /\ r \in Record /\ w \in Nat \ {0} /\ r.seq = n + 1
        /\ EndIn(file, n) \in Nat /\ EndIn(file, n + 1) \in Nat /\ EndIn(file, m) \in Nat
    BY <1>2, <1>3, <2>2, LineFacts DEF Lined
  <2>4. EndIn(file, n + 1) = EndIn(file, n) + w /\ EndIn(file, n + 1) <= EndIn(file, m)
    <3>1. n + 1 - 1 = n
      BY <1>2
    <3>2. EndIn(file, n + 1) = EndIn(file, n) + w
      BY <1>3, <2>2, <2>3, <3>1, EndsIncrease
    <3>3. n + 1 < m \/ n + 1 = m
      BY <1>2, <1>4
    <3>4. n + 1 < m => EndIn(file, n + 1) < EndIn(file, m)
      BY <1>3, <2>2, EndsIncrease
    <3> QED BY <2>3, <3>2, <3>3, <3>4
  <2> HIDE DEF r, w, k, n, m
  <2>5. piece = <<r, k + 1>>
    <3>1. k + 1 \in 1..w /\ position + 1 = EndIn(file, n) + (k + 1)
      BY <2>1, <2>3
    <3>2. k + 1 \in 1..Width[file[n + 1].rec.body]
      BY <3>1, <2>3 DEF w
    <3>3. PieceAt(EndIn(file, n) + (k + 1)) = <<file[n + 1].rec, k + 1>>
      BY <1>2, <2>2, <3>2, PieceOfLine
    <3> QED BY <2>3, <3>1, <3>3 DEF piece
  <2>6. piece # <<>> /\ piece[1] = r /\ piece[2] = k + 1 /\ position # boundary
    <3>1. position < EndIn(file, n + 1)
      BY <2>1, <2>3, <2>4
    <3>2. position \in Nat
      BY <2>1, <2>3
    <3> QED BY <1>2, <2>3, <2>4, <2>5, <3>1, <3>2
  <2>7. grown = Pieces(r, k + 1) /\ Len(Pieces(r, k + 1)) = k + 1
    <3>1. grown = Append(Pieces(r, k), <<r, k + 1>>)
      BY <2>1, <2>5
    <3>2. Append(Pieces(r, k), <<r, k + 1>>) = Pieces(r, k + 1)
      BY <2>1, <2>3, PiecesAre
    <3>3. k + 1 \in Nat
      BY <2>1
    <3> QED BY <2>3, <3>1, <3>2, <3>3, PiecesAre
  <2>8. whole <=> k + 1 = w
    BY <2>6 DEF w
  <2>9. good
    BY <2>3, <2>6, <2>7
  <2>10. position' = EndIn(file, n) + (k + 1)
    BY <1>1, <2>1, <2>3, <2>6
  <2> HIDE DEF whole, good, grown
  <2>11. CASE ~whole
    <3>1. partial' = Pieces(r, k + 1) /\ UNCHANGED <<lines, status>>
      BY <1>1, <2>6, <2>7, <2>11
    <3>2. k + 1 < w /\ k + 1 \in Nat
      BY <2>1, <2>3, <2>8, <2>11
    <3>3. Len(partial') = k + 1
      BY <2>7, <3>1
    <3> QED BY <1>1, <1>2, <1>4, <2>10, <3>1, <3>2, <3>3 DEF Reading, n, m, r, w
  <2>12. CASE whole
    <3>1. partial' = <<>> /\ lines' = Append(lines, r) /\ status' = "reading"
      BY <1>1, <2>6, <2>9, <2>12
    <3>2. /\ IsSeq(lines') /\ Len(lines') = n + 1 /\ lines'[n + 1] = r
          /\ \A i \in 1..n : lines'[i] = lines[i]
      BY <1>2, <3>1, SeqGrows DEF n
    <3>3. \A i \in 1..m : i <= n + 1 => lines'[i] = atStat[i]
      <4> TAKE i \in 1..m
      <4>1. CASE i = n + 1
        BY <3>2, <4>1 DEF r
      <4>2. CASE i # n + 1
        BY <1>2, <3>2, <4>2
      <4> QED BY <4>1, <4>2
    <3>4. position' = EndIn(file, n + 1)
      BY <2>3, <2>4, <2>8, <2>10, <2>12, <2>1
    <3>5. CASE n + 1 = m
      <4>1. ~wasTorn => position' = boundary
        BY <1>2, <3>4, <3>5
      <4>2. ~(n + 1 < m)
        BY <1>2, <3>5
      <4> QED BY <1>1, <1>2, <3>1, <3>2, <3>3, <4>1, <4>2 DEF Reading, m
    <3>6. CASE n + 1 # m
      <4>1. n + 1 < m /\ ~(n + 1 >= m)
        BY <1>2, <1>4, <3>6
      <4>2. n + 2 \in 1..m /\ n + 2 \in 1..Len(file)
        BY <1>2, <1>3, <4>1
      <4>3. Width[atStat[n + 2].body] \in Nat \ {0}
        BY <1>2, <1>3, <4>2, LineFacts
      <4>4. /\ Len(partial') = 0 /\ partial' = Pieces(atStat[n + 2], 0)
            /\ position' = EndIn(file, n + 1) + 0
        BY <2>3, <3>1, <3>4 DEF Pieces
      <4>5. n + 1 + 1 = n + 2
        BY <1>2
      <4> QED BY <1>1, <1>2, <3>1, <3>2, <3>3, <4>1, <4>3, <4>4, <4>5 DEF Reading, m
    <3> QED BY <3>5, <3>6
  <2> QED BY <2>11, <2>12
<1>5. CASE n >= m
  <2>1. CASE ~wasTorn
    <3>1. position = boundary /\ status # "corrupt"
      BY <1>1, <1>5, <2>1 DEF Reading
    <3>2. status' = "done" /\ UNCHANGED <<position, lines, partial>>
      BY <1>1, <3>1
    <3>3. ~(n < m)
      BY <1>2, <1>5
    <3> HIDE DEF n, m
    <3> QED BY <1>1, <1>2, <3>1, <3>2, <3>3 DEF Reading, n, m
  <2>2. CASE wasTorn
    <3>1. /\ IsSeq(lines') /\ Len(lines') \in Nat /\ n <= Len(lines')
          /\ \A i \in 1..n : lines'[i] = lines[i]
      <4>1. lines' = lines \/ lines' = Append(lines, piece[1])
        BY <1>1
      <4>2. CASE lines' = lines
        BY <1>2, <4>2
      <4>3. CASE lines' = Append(lines, piece[1])
        BY <1>2, <4>3, SeqGrows
      <4> QED BY <4>1, <4>2, <4>3
    <3> HIDE DEF n, m
    <3>2. \A i \in 1..m : i \in 1..n /\ lines'[i] = atStat[i]
      BY <1>2, <1>5, <3>1
    <3>3. ~(Len(lines') < m)
      BY <1>2, <1>5, <3>1
    <3> QED BY <1>1, <1>2, <2>2, <3>1, <3>2, <3>3 DEF Reading, m
  <2> QED BY <2>1, <2>2
<1> QED BY <1>2, <1>4, <1>5

LEMMA ReaderStep ==
    ASSUME IInv, Reading, [NextReader]_<<vars, reader>>
    PROVE  Reading'
<1>1. CASE ProcessStep /\ UNCHANGED reader
  BY <1>1, ProcessUnderReader
<1>2. CASE PowerLoss /\ ResetReader
  BY <1>2 DEF ResetReader, Reading
<1>3. CASE Stat
  BY <1>3, StatReads
<1>4. CASE ReadPiece
  BY <1>4, PieceReads
<1>5. CASE UNCHANGED <<vars, reader>>
  BY <1>5 DEF Reading, reader, vars, disk
<1> QED BY <1>1, <1>2, <1>3, <1>4, <1>5 DEF NextReader

(* Reading writes nothing: every step of the reader is a step of the ledger.*)
LEMMA ReaderOnlyReads ==
    ASSUME [NextReader]_<<vars, reader>>
    PROVE  [Next]_vars
BY DEF NextReader, Stat, ReadPiece, Next

ReadUntilMisled == ~misled => IInv /\ Reading

THEOREM ReaderInvariant == SpecReader => []ReadUntilMisled
<1>1. InitReader => ReadUntilMisled
  BY InitStep DEF InitReader, ReadUntilMisled, Reading
<1>2. ReadUntilMisled /\ [NextReader]_<<vars, reader>> => ReadUntilMisled'
  BY ReaderStep, ReaderOnlyReads, NextPreservesIInv, MisledStays DEF ReadUntilMisled
<1> QED BY <1>1, <1>2, PTL DEF SpecReader

(* A reader without a lock whose boundary is the end of a complete line      *)
(* never takes a healthy ledger for a malformed one, with lines of any      *)
(* widths and whatever is torn, repaired and appended while it reads.       *)
THEOREM MisreadNeedsTornTail == SpecReader => []MisreadWasTorn
<1>1. ReadUntilMisled => MisreadWasTorn
  <2> SUFFICES ASSUME IInv, Reading, status = "corrupt", ~wasTorn PROVE FALSE
    BY DEF ReadUntilMisled, MisreadWasTorn
  <2>1. Len(lines) \in Nat /\ Len(atStat) \in Nat
    BY DEF Reading, IsSeq
  <2> QED BY <2>1 DEF Reading
<1> QED BY <1>1, ReaderInvariant, PTL

(* A snapshot holds every line that was complete when it began, even one    *)
(* that ends in an error; so it holds every append that had returned.       *)
THEOREM ReadersSeeCommitted == SpecReader => []ReaderSeesCommitted
<1>1. ReadUntilMisled => ReaderSeesCommitted
  <2> SUFFICES ASSUME Reading, status \in {"done", "corrupt"}
               PROVE  /\ Len(atStat) <= Len(lines)
                      /\ \A i \in 1..Len(atStat) : lines[i] = atStat[i]
    BY DEF ReadUntilMisled, ReaderSeesCommitted
  <2>1. Len(lines) \in Nat /\ Len(atStat) \in Nat /\ ~(Len(lines) < Len(atStat))
    BY DEF Reading, IsSeq
  <2>2. \A i \in 1..Len(atStat) : i <= Len(lines) => lines[i] = atStat[i]
    BY DEF Reading
  <2> QED BY <2>1, <2>2
<1> QED BY <1>1, ReaderInvariant, PTL
=============================================================================
