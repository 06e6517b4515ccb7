------------------------------- MODULE WorkLoop -------------------------------
(***************************************************************************)
(* The loop over a list of work (botpipe/worklists.py with                  *)
(* botpipe/workflows/ralph_loop): plan until the plan is accepted, select   *)
(* the items once, implement each until it is accepted, complete it.  The   *)
(* run may die after any step; it is then run again from its first line,    *)
(* and takes the results of the operations on record, in their order.       *)
(*                                                                         *)
(* A document is the number of its items and the set of completed ones.     *)
(***************************************************************************)
EXTENDS Naturals, Sequences

CONSTANTS MaxItem,                    \* bound: the items of a plan
          MaxRefuse,                  \* bound: refusals, which the code does not limit
          MaxEdit, MaxCrash           \* bounds: edits of work.json, deaths of the run

VARIABLES pc, m
vars == <<pc, m>>

Document(n, done) == [n |-> n, done |-> done]
Blank == Document(0, {})

(* The memory of the process: at is the operation it comes to, plan the       *)
(* captured plan, items and document those of the Worklist, item the current. *)
(* log: the operations on record; pos: those that were taken again; file:     *)
(* work.json; published: the versions, by the inputs of their operation.      *)
Fresh == [at |-> "plan", plan |-> Blank, items |-> 0, document |-> Blank, item |-> 1]
Init ==
    /\ pc = "run"
    /\ m = [mem |-> Fresh, log |-> <<>>, pos |-> 0, file |-> Blank, published |-> {},
            refused |-> 0, edits |-> 0, crashes |-> 0]

(* ---- what the workflow does with a result ----------------------------------- *)
(* Faulty: the list forgets what it completed before.                         *)
OnlyThis(mem) == Document(mem.plan.n, {mem.item})
Completed(mem) == Document(mem.document.n, mem.document.done \cup {mem.item})

After(mem, out) ==
    CASE mem.at = "plan"      -> [mem EXCEPT !.at = "review", !.plan = out]
      [] mem.at = "review"    -> [mem EXCEPT !.at = IF out = "accepted" THEN "select" ELSE "plan"]
      [] mem.at = "select"    -> [mem EXCEPT !.at = "implement", !.items = out.n, !.document = out]
      [] mem.at = "implement" -> [mem EXCEPT !.at = "judge"]
      [] mem.at = "judge"     -> [mem EXCEPT !.at = IF out = "accepted" THEN "complete" ELSE "implement"]
      [] mem.at = "complete"  ->
           [mem EXCEPT !.document = out, !.item = @ + 1,
                       !.at = IF mem.item = mem.items THEN "return" ELSE "implement"]

(* An operation is on record with its inputs; a run that comes to another one *)
(* at its place does not go on.                                               *)
Inputs(mem) == [at |-> mem.at, item |-> mem.item, document |-> mem.document]
Replaying == m.pos < Len(m.log)
Replay ==
    /\ pc = "run" /\ Replaying
    /\ LET old == m.log[m.pos + 1] IN
       IF old.of = Inputs(m.mem)
       THEN m' = [m EXCEPT !.pos = @ + 1, !.mem = After(@, old.out)] /\ UNCHANGED pc
       ELSE pc' = "mismatch" /\ UNCHANGED m

At(op) == pc = "run" /\ ~Replaying /\ m.mem.at = op
Record(out, f) ==
    /\ m' = [f EXCEPT !.log = Append(@, [of |-> Inputs(m.mem), out |-> out]),
                      !.pos = @ + 1, !.mem = After(@, out)]
    /\ pc' = "run"

(* ---- the operations ----------------------------------------------------------- *)
Plan ==
    /\ At("plan")
    /\ \E n \in 1 .. MaxItem : Record(Document(n, {}), [m EXCEPT !.file = Document(n, {})])

Refuse == m.refused < MaxRefuse /\ Record("needs_rework", [m EXCEPT !.refused = @ + 1])
ReviewPlan == At("review") /\ (Record("accepted", m) \/ Refuse)

FromHandle == m.mem.plan
Select == At("select") /\ Record(FromHandle, m)

Implement == At("implement") /\ Record("done", m)
Judge == At("judge") /\ (Record("accepted", m) \/ Refuse)

(* complete(): publish a version under a key made of the inputs, write it out *)
(* as work.json, and only then is the operation on record.                    *)
Publish ==
    /\ At("complete")
    /\ pc' = "publishing"
    /\ m' = [m EXCEPT !.published = @ \cup {[key |-> Inputs(m.mem), is |-> Completed(m.mem)]},
                      !.file = Completed(m.mem)]
Complete == pc = "publishing" /\ Record(Completed(m.mem), m)

Return == At("return") /\ pc' = "done" /\ UNCHANGED m

(* An agent, or a person, edits work.json.                                    *)
Edit ==
    /\ pc \in {"run", "publishing"} /\ m.edits < MaxEdit
    /\ m' = [m EXCEPT !.file = Document(MaxItem + 1, {}), !.edits = @ + 1] /\ UNCHANGED pc
Crash ==
    /\ pc \in {"run", "publishing"} /\ m.crashes < MaxCrash
    /\ m' = [m EXCEPT !.crashes = @ + 1, !.mem = Fresh, !.pos = 0] /\ pc' = "run"

Step == Replay \/ Plan \/ ReviewPlan \/ Select \/ Implement \/ Judge \/ Publish \/ Complete \/ Return
Next == Step \/ Edit \/ Crash
Spec == Init /\ [][Next]_vars

(* The record of a run is one pass over one accepted plan, whatever died      *)
(* within it: each item is completed once, in order, right after a review     *)
(* accepted it, and its version holds the completions of all items before it. *)
Ops(at) == SelectSeq(m.log, LAMBDA r : r.of.at = at)
CompletionsAreKept ==
    LET done == Ops("complete") IN
    /\ \A i \in DOMAIN done :
         done[i].of.item = i /\ done[i].out = Document(Ops("select")[1].out.n, 1 .. i)
    /\ \A i \in DOMAIN m.log :
         m.log[i].of.at = "complete" =>
             m.log[i - 1].of = [m.log[i].of EXCEPT !.at = "judge"] /\ m.log[i - 1].out = "accepted"
    /\ pc = "done" => Len(done) = m.mem.items /\ m.mem.document.done = 1 .. m.mem.items

(* What the run works through is what the reviewer accepted, even if an agent *)
(* or a person changed work.json since.                                       *)
WorksThePlan == m.mem.items > 0 => m.mem.items = m.mem.plan.n

(* A version is published under its key once: done again, it is the same.     *)
PublishedOnce == \A p, q \in m.published : p.key = q.key => p.is = q.is

(* A run that is run again comes to the operations that are on record.        *)
NeverMismatches == pc # "mismatch"
===============================================================================
