---------------------------- MODULE LedgerReader ----------------------------
(***************************************************************************)
(* A reader that takes no lock (read_only_snapshot: inspect, listings,      *)
(* confirmations and foreign session checks) beside the appending          *)
(* processes of Ledger.  It fixes a boundary with one stat and then reads   *)
(* the file piece by piece, while lines are appended and a torn line may be *)
(* cut off and overwritten; a piece is what one buffer fill returns.        *)
(***************************************************************************)
EXTENDS Ledger

VARIABLES
    boundary,      \* file size at the stat
    position,      \* bytes read so far
    lines,         \* records parsed so far
    partial,       \* pieces of the line being read
    atStat,        \* history: complete lines when the boundary was fixed
    wasTorn,       \* history: the boundary was fixed inside a torn line
    status         \* "idle", "reading", "done" or "corrupt"

reader == <<boundary, position, lines, partial, atStat, wasTorn, status>>

InitReader ==
    /\ Init
    /\ boundary = 0 /\ position = 0 /\ lines = <<>> /\ partial = <<>>
    /\ atStat = <<>> /\ wasTorn = FALSE /\ status = "idle"

(* The piece of the file at a byte position; <<>> past its end.            *)
LineStart(i) == IF i = 1 THEN 0 ELSE file[i - 1].end
PieceAt(pos) ==
    IF pos <= Eol
    THEN LET i == CHOOSE j \in 1..Len(file) :
                        LineStart(j) < pos /\ pos <= file[j].end
         IN  <<file[i].rec, pos - LineStart(i)>>
    ELSE IF pos - Eol <= Len(tail) THEN tail[pos - Eol] ELSE <<>>

(* Faulty: the last byte is left out.                                      *)
StatOneShort ==
    /\ status # "reading"
    /\ boundary' = Size - 1 /\ position' = 0 /\ lines' = <<>> /\ partial' = <<>>
    /\ atStat' = Lines /\ wasTorn' = (tail # <<>>)
    /\ status' = "reading"
    /\ UNCHANGED vars

Stat ==
    /\ status # "reading"
    /\ boundary' = Size /\ position' = 0 /\ lines' = <<>> /\ partial' = <<>>
    /\ atStat' = Lines /\ wasTorn' = (tail # <<>>)
    /\ status' = "reading"
    /\ UNCHANGED vars

(* Faulty: the reader follows the file past its boundary.                  *)
ReadPieceUnbounded ==
    LET piece == PieceAt(position + 1)
        grown == Append(partial, piece)
        whole == piece # <<>> /\ piece[2] = Width[piece[1].body]
        good  == /\ grown = Pieces(piece[1], piece[2])
                 /\ piece[1].seq = Len(lines) + 1
    IN
    /\ status = "reading" /\ piece # <<>>
    /\ position' = position + 1
    /\ partial' = IF whole THEN <<>> ELSE grown
    /\ lines' = IF whole /\ good THEN Append(lines, piece[1]) ELSE lines
    /\ status' = IF whole /\ ~good THEN "corrupt" ELSE status
    /\ UNCHANGED <<boundary, atStat, wasTorn, vars>>

(* readline(boundary - position), folded by _apply: a line that is not the  *)
(* next record raises; the end of the file or the boundary inside a line    *)
(* leaves an incomplete tail.                                               *)
ReadPiece ==
    LET piece == PieceAt(position + 1)
        grown == Append(partial, piece)
        whole == piece # <<>> /\ piece[2] = Width[piece[1].body]
        good  == /\ grown = Pieces(piece[1], piece[2])
                 /\ piece[1].seq = Len(lines) + 1
    IN
    /\ status = "reading"
    /\ IF position = boundary \/ piece = <<>>
       THEN /\ status' = "done"
            /\ UNCHANGED <<position, lines, partial>>
       ELSE /\ position' = position + 1
            /\ IF ~whole
               THEN partial' = grown /\ UNCHANGED <<lines, status>>
               ELSE /\ partial' = <<>>
                    /\ lines' = IF good THEN Append(lines, piece[1]) ELSE lines
                    /\ status' = IF good THEN status ELSE "corrupt"
    /\ UNCHANGED <<boundary, atStat, wasTorn, vars>>

(* A power loss takes the reader down too.                                 *)
ResetReader ==
    /\ boundary' = 0 /\ position' = 0 /\ lines' = <<>> /\ partial' = <<>>
    /\ atStat' = <<>> /\ wasTorn' = FALSE /\ status' = "idle"

NextReader ==
    \/ ProcessStep /\ UNCHANGED reader
    \/ PowerLoss /\ ResetReader
    \/ Stat
    \/ ReadPiece

SpecReader == InitReader /\ [][NextReader]_<<vars, reader>>

-----------------------------------------------------------------------------
(* docs/architecture.md:61: readers take a complete-record prefix.  A reader   *)
(* whose boundary is the end of a complete line does so: it never meets a     *)
(* malformed record, whatever is torn, repaired and appended behind it.  One   *)
(* whose boundary lies inside a torn line that is longer than its repair may   *)
(* join what it has of it to new bytes, and calls a healthy ledger corrupt     *)
(* (journal.py:609).                                                          *)
MisreadWasTorn == status = "corrupt" => wasTorn \/ misled

(* A read that ended, even one that ended in an error, had every line that  *)
(* was complete when it began: a snapshot taken after an append returned    *)
(* contains that append, and an error lies behind it.                      *)
ReaderSeesCommitted ==
    status \in {"done", "corrupt"} /\ ~misled =>
        /\ Len(atStat) <= Len(lines)
        /\ \A i \in 1..Len(atStat) : lines[i] = atStat[i]
=============================================================================
