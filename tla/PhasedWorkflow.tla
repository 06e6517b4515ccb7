--------------------------- MODULE PhasedWorkflow ---------------------------
(***************************************************************************)
(* The workflows made of phases (botpipe/workflows/_authoring.py and        *)
(* labs/workflows/*/workflow.py): every phase produces artifacts, reading   *)
(* those of the phases before it, may be reviewed, may be asked again, and  *)
(* may throw the run back to an earlier phase, whose loop restores what the *)
(* run had when it was entered.  One budget of turns covers the whole run.  *)
(*                                                                         *)
(* What a phase wrote is a version, never used twice.                       *)
(***************************************************************************)
EXTENDS Naturals, Sequences

CONSTANT MaxTurn            \* provider_budget(max_turns=...)

VARIABLES pc, m
vars == <<pc, m>>

(* A step of a workflow: where it may throw the run back to, whether it is    *)
(* reviewed, and whether a fact about it enters the context of later ones.    *)
(* A child is another workflow, run as a step; its phases are its own.        *)
Phase(back)    == [back |-> back, review |-> FALSE, fact |-> FALSE, child |-> FALSE]
Reviewed(back) == [Phase(back) EXCEPT !.review = TRUE]
Factual(back)  == [Phase(back) EXCEPT !.fact = TRUE]
Child          == [Phase(0) EXCEPT !.fact = TRUE, !.child = TRUE]

Investigation  == <<Phase(1), Reviewed(1)>>
Incident       == <<Phase(1), Reviewed(1), Reviewed(1), Phase(3)>>
Release        == <<Phase(1), Reviewed(1), Reviewed(1), Phase(3)>>
Security       == <<Child, Reviewed(1), Reviewed(2), Phase(3)>>
Strategy       == <<Phase(1), Child, Phase(1), Phase(3)>>
CandidateSet   == <<Phase(1), Phase(1), Phase(2)>>
ExecutionPlan  == <<Phase(1), Phase(1), Phase(2)>>
Company        == <<Phase(1), Phase(1), Phase(2)>>
Portfolio      == <<Phase(1), Phase(1), Phase(2)>>
EvalSuite      == <<Phase(1), Factual(1), Phase(2)>>
Flows == {Investigation, Incident, Release, Security, Strategy, CandidateSet,
          ExecutionPlan, Company, Portfolio, EvalSuite}

(* The loops are nested: each is around its phase and all that follow.        *)
Loops(flow) == {flow[i].back : i \in DOMAIN flow} \ {0}

(* at: the step; prior: the handles so far, one version for each step; facts: *)
(* what the context says of them; done: the phases accepted; entry: what each *)
(* loop found when it was entered; now: the attempt under way.                *)
Entry == [done |-> 0, prior |-> <<>>, facts |-> {}]
Enter(f) ==
    IF f.at \notin Loops(f.flow) THEN f
    ELSE [f EXCEPT !.entry[f.at] = [done |-> Len(f.done), prior |-> f.prior, facts |-> f.facts]]
Start(flow) ==
    Enter([flow |-> flow, at |-> 1, prior |-> <<>>, facts |-> {}, done |-> <<>>,
           entry |-> [i \in 1 .. 4 |-> Entry], now |-> 0, turns |-> 0, made |-> 0])
Init == pc = "produce" /\ \E flow \in Flows : m = Start(flow)

Go(l, f) == pc' = l /\ m' = f
Fail     == Go("failed", m)
Here    == m.flow[m.at]
Spent    == m.turns >= MaxTurn

(* ---- run_phase ------------------------------------------------------------ *)
Produce ==
    /\ pc = "produce" /\ ~Here.child
    /\ IF Spent THEN Fail
       ELSE \E next \in {"review", "rework", "replan", "ask", "failed"} :
              Go(next, [m EXCEPT !.turns = @ + 1, !.made = @ + 1, !.now = m.made + 1])

(* A workflow called as a step: its turns are turns of this run too.          *)
Call ==
    /\ pc = "produce" /\ Here.child
    /\ IF Spent THEN Fail
       ELSE \/ Fail
            \/ Go("accept", [m EXCEPT !.turns = @ + 1, !.made = @ + 1, !.now = m.made + 1])

Unreviewed == pc = "review" /\ ~Here.review /\ Go("accept", m)
Review ==
    /\ pc = "review" /\ Here.review
    /\ IF Spent THEN Fail
       ELSE \E next \in {"accept", "rework", "replan", "ask", "failed"} :
              Go(next, [m EXCEPT !.turns = @ + 1])

Rework == pc = "rework" /\ Go("produce", m)
Answer == pc = "ask" /\ Go("produce", m)

(* ---- the loops of the workflows --------------------------------------------- *)
Evidence == [at |-> m.at, made |-> m.now, read |-> m.prior, facts |-> m.facts]
Accept ==
    /\ pc = "accept"
    /\ LET f == [m EXCEPT !.done = IF Here.child THEN @ ELSE Append(@, Evidence),
                          !.prior = Append(@, m.now),
                          !.facts = IF Here.fact THEN @ \cup {m.now} ELSE @,
                          !.now = 0]
       IN  IF m.at = Len(m.flow) THEN Go("publish", f)
           ELSE Go("produce", Enter([f EXCEPT !.at = @ + 1]))

(* Faulty: the context is left as it is.                                      *)
KeepFacts(f, e) == [f EXCEPT !.done = SubSeq(@, 1, e.done), !.prior = e.prior]
Restore(f, e) ==
    [f EXCEPT !.done = SubSeq(@, 1, e.done), !.prior = e.prior, !.facts = e.facts]

Replan ==
    /\ pc = "replan"
    /\ LET back == Here.back IN
       Go("produce", [Restore(m, m.entry[back]) EXCEPT !.at = back, !.now = 0])

(* The gates of a publication read the handles that were captured.            *)
Publish == pc = "publish" /\ (Fail \/ Go("done", m))

Step == Produce \/ Call \/ Unreviewed \/ Review \/ Rework \/ Accept \/ Replan \/ Publish
Next == Step \/ Answer
Spec == Init /\ [][Next]_vars /\ WF_vars(Step)

(* A result is made of one version of every phase, and each of them was made  *)
(* from the handles of those before it that are in the result, and from facts *)
(* about those: nothing of what a run was thrown back from is left in it.     *)
UpstreamIsCurrent ==
    pc \in {"publish", "done"} =>
        /\ [i \in DOMAIN m.done |-> m.done[i].at]
             = SelectSeq([i \in DOMAIN m.flow |-> i], LAMBDA i : ~m.flow[i].child)
        /\ \A i \in DOMAIN m.done :
             LET d == m.done[i] IN
             /\ m.prior[d.at] = d.made
             /\ d.read = SubSeq(m.prior, 1, d.at - 1)
             /\ d.facts = {m.prior[j] : j \in {j \in 1 .. d.at - 1 : m.flow[j].fact}}

(* A run ends, or waits for a human.                                           *)
Rests == pc \in {"done", "failed", "ask"}
===============================================================================
