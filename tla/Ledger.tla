------------------------------- MODULE Ledger -------------------------------
(***************************************************************************)
(* The append protocol of a run's ledger.jsonl (botpipe/journal.py).       *)
(*                                                                         *)
(* Processes take the run lock in turn.  Its holder appends one JSON line  *)
(* at a time: load (from a cache checked by file size only), repair a torn *)
(* last line, write, fsync, and only then advance the cached state.  Every *)
(* write and fsync may fail, the process may die between any two system    *)
(* calls, and a power loss may drop whatever was not flushed.              *)
(*                                                                         *)
(* A line is written in Width[body] pieces, so the file can end in a torn  *)
(* line, and a record that lands behind a torn line shows as Corrupt.      *)
(***************************************************************************)
EXTENDS Naturals, Sequences

CONSTANTS
    Process,                  \* executors that share the state directory
    Payload,                  \* the records a run appends
    Width,                    \* pieces a record's line is written in
    MaxLines,                 \* bound: lines appended
    MaxFaults,                \* bound: I/O errors, crashes and power losses
    None                      \* no process, no cached state, no queued record

Created  == "run_created"
Repaired == "ledger_tail_repaired"
Body     == Payload \cup {Created, Repaired}
Record   == [seq : Nat, body : Body]
Corrupt  == [seq |-> 0, body |-> Created]     \* a line no record encodes to

Line == [rec : Record, end : Nat]             \* a complete line and its end offset

(* A cached _RunState: the folded records, whether a torn line followed     *)
(* them, prefix_bytes, file_bytes and the poison mark.                      *)
View == [lines : Seq(Record), torn : BOOLEAN, prefix : Nat, size : Nat,
         poisoned : BOOLEAN]

ASSUME WidthAssumption == Width \in [Body -> Nat \ {0}]
ASSUME BoundAssumption == MaxLines \in Nat /\ MaxFaults \in Nat
ASSUME NoneAssumption  == None \notin Process \cup Body /\ None \notin View

VARIABLES
    file,          \* complete lines of ledger.jsonl, with the offset each ends at
    tail,          \* pieces of an incomplete last line
    synced,        \* how many complete lines are known to be on stable storage
    holder,        \* process inside run_lock, or None
    view,          \* each process's cached _RunState
    pc,            \* where the holder is in _append_locked
    rec,           \* the record being appended
    offset,        \* file size when its write began
    again,         \* the confirmation's second attempt is under way
    queued,        \* the record waiting behind ledger_tail_repaired, or None
    acked,         \* history: records whose append returned
    misled,        \* history: an append took a stale torn tail for the present one
    faults         \* history: failures so far

disk   == <<file, tail, synced>>
writer == <<pc, rec, offset, again, queued>>
vars   == <<disk, holder, view, writer, acked, misled, faults>>

-----------------------------------------------------------------------------
Eol   == file[Len(file)].end                  \* offset after the last newline
Size  == Eol + Len(tail)                      \* st_size
Lines == [i \in 1..Len(file) |-> file[i].rec]

EndOf(n) == IF n = 0 THEN 0 ELSE file[n].end   \* offset after the n-th line

Pieces(r, n) == [k \in 1..n |-> <<r, k>>]

NoRecord == [seq |-> 1, body |-> Created]

(* _read_path: fold the complete lines, note whether a torn one follows.    *)
ReadPath == [lines |-> Lines, torn |-> tail # <<>>, prefix |-> Eol,
             size |-> Size, poisoned |-> FALSE]

(* Faulty: a cached state is trusted without looking at the file.          *)
LoadedWithoutSizeCheck(p) == IF view[p] # None THEN view[p] ELSE ReadPath

(* _load: the cached state is kept while it is poisoned or the file still   *)
(* has the size it was read with; otherwise the file is read again.         *)
Loaded(p) ==
    IF view[p] # None /\ (view[p].poisoned \/ view[p].size = Size)
    THEN view[p]
    ELSE ReadPath

Readable == \A i \in 1..Len(file) : file[i].rec # Corrupt

Idle == /\ pc' = "idle"  /\ rec' = NoRecord /\ offset' = 0
        /\ again' = FALSE /\ queued' = None

Init ==
    /\ file = <<[rec |-> NoRecord, end |-> Width[Created]]>>
    /\ tail = <<>> /\ synced = 1
    /\ holder = None
    /\ view = [p \in Process |-> None]
    /\ pc = "idle" /\ rec = NoRecord /\ offset = 0 /\ again = FALSE
    /\ queued = None
    /\ acked = {NoRecord}
    /\ misled = FALSE
    /\ faults = 0

-----------------------------------------------------------------------------
(* run_lock, taken without waiting and released by the end of the call.    *)
Acquire(p) ==
    /\ holder = None
    /\ holder' = p
    /\ UNCHANGED <<disk, view, writer, acked, misled, faults>>

Release ==
    /\ holder # None /\ pc = "idle"
    /\ holder' = None
    /\ UNCHANGED <<disk, view, writer, acked, misled, faults>>

(* Any read of the run under the lock refreshes the cache without writing. *)
Load ==
    /\ holder # None /\ pc = "idle" /\ Readable
    /\ view' = [view EXCEPT ![holder] = Loaded(holder)]
    /\ UNCHANGED <<disk, holder, writer, acked, misled, faults>>

(* The size check passes although the torn tail that the cached state holds *)
(* is not the end of the file any more: somebody repaired it, and the lines *)
(* that followed have brought the file to the very same size.               *)
Misleading(v) == v.torn /\ ~v.poisoned /\ v.prefix # Eol

(* _append_locked up to the first write.  A poisoned state raises instead. *)
StartAppend(body) ==
    LET v == Loaded(holder) IN
    /\ holder # None /\ pc = "idle" /\ Readable
    /\ Len(file) < MaxLines
    /\ ~v.poisoned
    /\ view' = [view EXCEPT ![holder] = v]
    /\ misled' = (misled \/ Misleading(v))
    /\ IF v.torn
       THEN /\ pc' = "truncate" /\ queued' = body
            /\ UNCHANGED <<rec, offset>>
       ELSE /\ pc' = "write" /\ queued' = None
            /\ rec' = [seq |-> Len(v.lines) + 1, body |-> body]
            /\ offset' = Size
    /\ again' = FALSE
    /\ UNCHANGED <<disk, holder, acked, faults>>

(* _repair_tail: cut the file at prefix_bytes of the cached state, wherever *)
(* that falls ...                                                          *)
Truncate ==
    LET cut == view[holder].prefix IN
    /\ pc = "truncate"
    /\ \E n \in 0..Len(file) :
        /\ EndOf(n) <= cut /\ (n < Len(file) => cut < EndOf(n + 1))
        /\ file' = SubSeq(file, 1, n)
        /\ tail' = IF n = Len(file) THEN SubSeq(tail, 1, cut - Eol)
                   ELSE Pieces(file[n + 1].rec, cut - EndOf(n))
    /\ pc' = "truncated"
    /\ UNCHANGED <<synced, holder, view, rec, offset, again, queued, acked, misled, faults>>

(* ... flush, and begin the record that reports the repair.                *)
SyncTruncate ==
    /\ pc = "truncated"
    /\ synced' = Len(file)
    /\ view' = [view EXCEPT ![holder].torn = FALSE,
                            ![holder].size = view[holder].prefix]
    /\ rec' = [seq |-> Len(view[holder].lines) + 1, body |-> Repaired]
    /\ offset' = Size
    /\ pc' = "write"
    /\ UNCHANGED <<file, tail, holder, again, queued, acked, misled, faults>>

(* The truncation or its flush fails: the cached state keeps the old size, *)
(* so the next load reads the file again.                                  *)
FailTruncate ==
    /\ pc \in {"truncate", "truncated"} /\ faults < MaxFaults
    /\ faults' = faults + 1
    /\ Idle
    /\ UNCHANGED <<disk, holder, view, acked, misled>>

(* _write_all: the next piece reaches the file; the last one is the newline.*)
Write ==
    LET next  == Size - offset + 1
        grown == Append(tail, <<rec, next>>)
    IN
    /\ pc = "write"
    /\ IF next = Width[rec.body]
       THEN /\ file' = Append(file,
                  [rec |-> IF grown = Pieces(rec, next) THEN rec ELSE Corrupt,
                   end |-> Size + 1])
            /\ tail' = <<>>
            /\ pc' = "sync"
       ELSE /\ tail' = grown
            /\ UNCHANGED <<file, pc>>
    /\ UNCHANGED <<synced, holder, view, rec, offset, again, queued, acked, misled, faults>>

Poison == /\ view' = [view EXCEPT ![holder].poisoned = TRUE]
          /\ Idle

(* A write or a flush fails.  The first time the bytes are checked at the  *)
(* retained offset; the second time the writer is poisoned.                *)
FailWrite ==
    /\ pc \in {"write", "sync"} /\ faults < MaxFaults
    /\ faults' = faults + 1
    /\ IF again
       THEN Poison
       ELSE /\ pc' = "confirm"
            /\ UNCHANGED <<view, rec, offset, again, queued>>
    /\ UNCHANGED <<disk, holder, acked, misled>>

(* The observed bytes are a prefix of the line: append what is missing and *)
(* flush, or only flush when nothing is missing.                           *)
Confirm ==
    /\ pc = "confirm"
    /\ pc' = IF Size - offset = Width[rec.body] THEN "sync" ELSE "write"
    /\ again' = TRUE
    /\ UNCHANGED <<disk, holder, view, rec, offset, queued, acked, misled, faults>>

FailConfirm ==
    /\ pc = "confirm" /\ faults < MaxFaults
    /\ faults' = faults + 1
    /\ Poison
    /\ UNCHANGED <<disk, holder, acked, misled>>

(* Faulty: the append is acknowledged from the page cache.                 *)
SyncWithoutFlush ==
    /\ pc = "sync"
    /\ view' = [view EXCEPT ![holder].lines = Append(@, rec),
                            ![holder].prefix = Size, ![holder].size = Size]
    /\ acked' = acked \cup {rec}
    /\ Idle
    /\ UNCHANGED <<disk, holder, misled, faults>>

(* fsync returns: the line is durable, memory advances and the append      *)
(* returns; behind a repair the queued record is begun.                    *)
Sync ==
    LET v == view[holder]
    IN
    /\ pc = "sync"
    /\ synced' = Len(file)
    /\ view' = [view EXCEPT ![holder] =
                  [v EXCEPT !.lines = Append(v.lines, rec),
                            !.prefix = Size, !.size = Size]]
    /\ acked' = acked \cup {rec}
    /\ IF queued = None
       THEN Idle
       ELSE /\ rec' = [seq |-> rec.seq + 1, body |-> queued]
            /\ offset' = Size
            /\ pc' = "write" /\ again' = FALSE /\ queued' = None
    /\ UNCHANGED <<file, tail, holder, misled, faults>>

(* The process dies: its cache is gone and the kernel frees its lock.      *)
Crash(p) ==
    /\ faults < MaxFaults
    /\ view[p] # None \/ holder = p
    /\ faults' = faults + 1
    /\ view' = [view EXCEPT ![p] = None]
    /\ IF holder = p
       THEN holder' = None /\ Idle
       ELSE UNCHANGED <<holder, writer>>
    /\ UNCHANGED <<disk, acked, misled>>

(* The machine stops: unflushed lines may be lost, and the last line may   *)
(* be torn (a truncation not flushed may also come undone).                *)
PowerLoss ==
    /\ faults < MaxFaults
    /\ faults' = faults + 1
    /\ \E n \in synced..Len(file), b \in Body :
         \E k \in 0..Width[b] - 1 :
            /\ file' = SubSeq(file, 1, n)
            /\ tail' = Pieces([seq |-> n + 1, body |-> b], k)
    /\ view' = [p \in Process |-> None]
    /\ holder' = None
    /\ Idle
    /\ UNCHANGED <<synced, acked, misled>>

AppendStep == Truncate \/ SyncTruncate \/ Write \/ Confirm \/ Sync

ProcessStep ==
    \/ \E p \in Process : Acquire(p) \/ Crash(p)
    \/ \E b \in Payload : StartAppend(b)
    \/ Release \/ Load
    \/ AppendStep
    \/ FailTruncate \/ FailWrite \/ FailConfirm

Next == ProcessStep \/ PowerLoss

Spec == Init /\ [][Next]_vars

-----------------------------------------------------------------------------
(* Every variable has its type; acknowledgements and failures only count.  *)
TypeOK ==
    /\ file \in Seq(Line) /\ file # <<>>
    /\ tail \in Seq(Record \X Nat)
    /\ synced \in 1..Len(file)
    /\ holder \in Process \cup {None}
    /\ view \in [Process -> View \cup {None}]
    /\ pc \in {"idle", "truncate", "truncated", "write", "sync", "confirm"}
    /\ rec \in Record /\ offset \in Nat /\ again \in BOOLEAN
    /\ queued \in Body \cup {None}
    /\ acked \subseteq Record /\ misled \in BOOLEAN /\ faults \in Nat

(* _append_locked: a record never lands behind a torn line, so every        *)
(* complete line is a record (docs: malformed complete records are fatal).  *)
NoMergedLine == Readable

(* _append_locked numbers from the cached state, which is compared with the *)
(* file by size only: that number is one more than the last line on disk,   *)
(* whoever wrote it, until the size check takes a stale torn tail for the   *)
(* present one.                                                            *)
NumberedWithoutGaps == misled \/ \A i \in 1..Len(file) : file[i].rec.seq = i

(* docs/architecture.md: an executor may truncate an incomplete final line. *)
(* So an append that returned stays on stable storage at its place, through *)
(* every later crash, repair and power loss.                               *)
AcknowledgedIsDurable ==
    \A r \in acked : /\ r.seq \in 1..synced /\ r.seq <= Len(file)
                     /\ file[r.seq].rec = r

(* What any process believes, poisoned or idle or without the lock, is a    *)
(* prefix of the file: memory never runs ahead of the disk.                 *)
MemoryIsPrefix ==
    \A p \in Process : view[p] # None =>
        /\ Len(view[p].lines) <= Len(file)
        /\ \A i \in 1..Len(view[p].lines) : view[p].lines[i] = file[i].rec

(* The flushed lines and the acknowledgements form the promised log, until  *)
(* an append is misled by a stale torn tail.                               *)
Durable == INSTANCE DurableLog WITH
    log <- SubSeq(Lines, 1, synced), acknowledged <- acked
RefinesDurableLog == Durable!Init /\ [][misled' \/ Durable!Commit]_(Durable!vars)
=============================================================================
