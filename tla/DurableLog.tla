----------------------------- MODULE DurableLog -----------------------------
(***************************************************************************)
(* What one run's ledger promises to the rest of the program: a history of *)
(* records, numbered without gaps, that only ever grows at its end, and    *)
(* acknowledgements that are given for recorded history alone and are      *)
(* never taken back.  No process, cache, file or fault appears here; the   *)
(* module Ledger shows how the append protocol keeps this promise.         *)
(***************************************************************************)
EXTENDS Naturals, Sequences

CONSTANT Record                \* every value that has a field "seq"

VARIABLES
    log,                       \* the records on stable storage
    acknowledged               \* the records whose append was reported done

vars == <<log, acknowledged>>

Numbered(history) == \A i \in 1..Len(history) : history[i].seq = i

Extends(longer, shorter) ==
    /\ Len(shorter) <= Len(longer)
    /\ \A i \in 1..Len(shorter) : longer[i] = shorter[i]

Recorded(history) == {history[i] : i \in 1..Len(history)}

Init ==
    /\ log \in Seq(Record) /\ Len(log) = 1 /\ Numbered(log)
    /\ acknowledged = Recorded(log)

(* One flush may make several records durable: those a crashed process had *)
(* written without a flush come with the next one.                         *)
Commit ==
    /\ log' \in Seq(Record)
    /\ Extends(log', log)
    /\ Numbered(log')
    /\ acknowledged \subseteq acknowledged'
    /\ acknowledged' \subseteq Recorded(log')

Spec == Init /\ [][Commit]_vars
=============================================================================
