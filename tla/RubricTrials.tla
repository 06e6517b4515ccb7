---------------------------- MODULE RubricTrials ----------------------------
(***************************************************************************)
(* The rubric evaluation of a candidate (labs/workflows/improve_workflow/   *)
(* evaluation.py with botpipe_optimizer/judging.py): the cases are frozen,  *)
(* each case is run on the baseline and on the candidate while the time of  *)
(* the phase lasts, and a blind judge compares each pair, if so wanted in   *)
(* both orders.  The caller may die and resume at any point; a recorded     *)
(* activity is not executed again.                                          *)
(*                                                                         *)
(* Files are versions; every edit gives a file a version it never had.      *)
(***************************************************************************)
EXTENDS Integers, FiniteSets, Sequences

CONSTANTS Pair,                 \* the pairs of trials, numbered from 1
          MaxTime,              \* the time of the trial phase; a trial takes 1
          MaxRepair, MaxTurn,   \* repairs of a judgment; turns of the judges
          Orders,               \* 2 when judged in both orders, else 1
          MaxEdit, MaxCrash     \* bounds: edits of files, deaths of the caller

VARIABLES pc, m
vars == <<pc, m>>

Arm   == {"baseline", "candidate"}
Label == {"A", "B"}
Other(x) == IF x = "A" THEN "B" ELSE "A"
None  == [is |-> "none", prefers |-> "none", a |-> "none", b |-> "none"]
NoPair == [label |-> "none", results |-> [x \in Arm |-> "none"], begun |-> [x \in Arm |-> FALSE],
           judged |-> <<>>]

(* fixture, plan: the inputs and their frozen copy; id: what the plan says    *)
(* they are; code: the arms; pairs; at: the pair and the arms still to run.   *)
Init ==
    /\ pc = "freeze"
    /\ m = [fixture |-> 0, plan |-> -1, id |-> -1, before |-> -1, copy |-> -1, code |-> 0,
            clock |-> 0, at |-> 1, todo |-> {}, pairs |-> [i \in Pair |-> NoPair],
            saw |-> {}, turns |-> 0, repairs |-> 0, verdict |-> "none",
            edits |-> 0, crashes |-> 0]

Go(l, f) == pc' = l /\ m' = f
Last == Cardinality(Pair)

(* ---- freezing: two looks at the source around the copy, one rename -------- *)
Freeze ==
    /\ pc = "freeze"
    /\ IF m.plan # -1 THEN Go("verify", m) ELSE Go("copy", [m EXCEPT !.before = m.fixture])
Copy == pc = "copy" /\ Go("publish", [m EXCEPT !.copy = m.fixture])
Publish ==
    /\ pc = "publish"
    /\ IF m.fixture = m.before /\ m.copy = m.before
       THEN Go("verify", [m EXCEPT !.plan = m.copy, !.id = m.copy])
       ELSE Go("refused", m)
PlanIntact == m.plan = m.id
ArmsIntact == m.code = 0
Verify == pc = "verify" /\ Go(IF PlanIntact /\ ArmsIntact THEN "admit" ELSE "refused", m)

(* ---- trials ---------------------------------------------------------------- *)
AdmitPair == m.clock + 2 <= MaxTime
NextPair(f) == IF m.at = Last THEN Go("judge", [f EXCEPT !.at = 1, !.clock = 0])
               ELSE Go("admit", [f EXCEPT !.at = @ + 1])
Admit ==
    /\ pc = "admit"
    /\ IF AdmitPair THEN Go("check", [m EXCEPT !.todo = Arm]) ELSE NextPair(m)

Check ==
    /\ pc = "check"
    /\ IF PlanIntact /\ ArmsIntact THEN Go("trial", m) ELSE Go("refused", m)

Fits(x) == m.pairs[m.at].begun[x] \/ m.clock + 1 <= MaxTime
(* _execute_trial: the order of the arms was drawn.                           *)
Trial ==
    /\ pc = "trial"
    /\ \E x \in m.todo :
         IF Fits(x)
         THEN Go("running", [m EXCEPT !.pairs[m.at].begun[x] = TRUE,
                                      !.pairs[m.at].results[x] = "running"])
         ELSE Go("checked", [m EXCEPT !.todo = {}, !.pairs[m.at].results[x] = "exhausted"])

Runs(x) == m.pairs[m.at].results[x] = "running"
Ended(x, r) == [m EXCEPT !.todo = {}, !.pairs[m.at].results[x] = r,
                         !.clock = IF @ < MaxTime THEN @ + 1 ELSE @,
                         !.saw = @ \cup {<<m.plan, m.code>>}]
Finish ==
    /\ pc = "running"
    /\ \E x \in Arm : Runs(x) /\ \E r \in {"complete", "infrastructure_error"} :
                                    Go("checked", Ended(x, r))

Undone == {x \in Arm : m.pairs[m.at].results[x] = "none"}
Checked ==
    /\ pc = "checked"
    /\ CASE ~ArmsIntact -> Go("refused", m)
         [] ArmsIntact /\ Undone # {} -> Go("check", [m EXCEPT !.todo = Undone])
         [] OTHER ->
              IF \A x \in Arm : m.pairs[m.at].results[x] = "complete"
              THEN \E l \in Label : NextPair([m EXCEPT !.pairs[m.at].label = l])
              ELSE NextPair(m)

(* ---- judgments -------------------------------------------------------------- *)
(* What a judge may say: it prefers a label, and finds each side to meet the  *)
(* obligation or not.                                                         *)
Judgments ==
    {[is |-> "judged", prefers |-> j[1], a |-> j[2], b |-> j[3]] :
       j \in {<<"A", "met", "not_met">>, <<"B", "not_met", "met">>, <<"A", "not_met", "not_met">>,
              <<"tie", "met", "met">>, <<"inconclusive", "unknown", "met">>}}
Inconclusive == [None EXCEPT !.is = "inconclusive"]

Usable(j) == j.is = "judged" /\ "unknown" \notin {j.a, j.b} /\ j.prefers # "inconclusive"
NextJudged(f) == IF m.at < Last THEN Go("judge", [f EXCEPT !.at = @ + 1])
                 ELSE Go("aggregate", f)
(* What cannot be used is kept as inconclusive.                               *)
Ruled(f, j)   == [f EXCEPT !.pairs[m.at].judged = Append(@, IF Usable(j) THEN j ELSE Inconclusive),
                           !.repairs = 0]

(* A pair without two complete trials is not judged; nor is a packet that     *)
(* leaves evidence out.                                                       *)
Judge ==
    /\ pc = "judge"
    /\ CASE m.pairs[m.at].label = "none" -> NextJudged(Ruled(m, Inconclusive))
         [] m.pairs[m.at].label # "none" /\ ~PlanIntact -> Go("refused", m)
         [] OTHER -> Go("turn", m) \/ Go("answered", Ruled(m, Inconclusive))

(* judge_pair: an invalid answer is repaired a few times, a failure is not.   *)
Turn ==
    /\ pc = "turn"
    /\ LET f == [m EXCEPT !.turns = @ + 1] IN
       IF m.turns >= MaxTurn THEN Go("answered", Ruled(m, Inconclusive))
       ELSE \/ \E j \in Judgments \cup {Inconclusive} : Go("answered", Ruled(f, j))
            \/ m.repairs < MaxRepair /\ Go("turn", [f EXCEPT !.repairs = @ + 1])
Answered ==
    /\ pc = "answered"
    /\ CASE ~PlanIntact -> Go("refused", m)
         [] PlanIntact /\ Len(m.pairs[m.at].judged) < Orders -> Go("judge", m)
         [] OTHER -> NextJudged(m)

(* ---- aggregate_judgments ------------------------------------------------------ *)
(* The label of the candidate in the k-th judgment of a pair.                 *)
Side(p, k) == IF k = 1 THEN p.label ELSE Other(p.label)

Decision(j, l) == CASE j.prefers = "tie" -> "tie"
                    [] j.prefers = l -> "win"
                    [] OTHER -> "loss"
Findings(j, l) == IF l = "A" THEN <<j.a, j.b>> ELSE <<j.b, j.a>>

Views(p)    == {<<Decision(p.judged[k], Side(p, k)), Findings(p.judged[k], Side(p, k))>> :
                  k \in DOMAIN p.judged}
Consistent(p) == (\A k \in DOMAIN p.judged : Usable(p.judged[k])) /\ Cardinality(Views(p)) = 1

Verdict(ps) ==
    LET all   == UNION {Views(ps[i]) : i \in Pair}
        Has(d) == \E v \in all : v[1] = d
    IN  CASE \E i \in Pair : ~Consistent(ps[i]) -> "inconclusive"
          [] OTHER ->
               CASE Has("win") /\ Has("loss") -> "inconclusive"
                 [] Has("win") /\ ~Has("loss") ->
                      IF \E v \in all : v[2][1] # "met" THEN "inconclusive" ELSE "improved"
                 [] ~Has("win") /\ Has("loss") -> "regressed"
                 [] OTHER -> "no_material_change"

Aggregate ==
    /\ pc = "aggregate"
    /\ IF PlanIntact /\ ArmsIntact THEN Go("done", [m EXCEPT !.verdict = Verdict(m.pairs)])
       ELSE Go("refused", m)

(* ---- the environment ------------------------------------------------------------ *)
Done == pc \in {"done", "refused"}
Edit ==
    /\ ~Done /\ m.edits < MaxEdit
    /\ \E f \in {"fixture", "plan", "code"} :
         /\ f = "fixture" => pc \in {"copy", "publish"}
         /\ f = "plan" => m.plan # -1
         /\ m' = [m EXCEPT ![f] = @ + 1, !.edits = @ + 1]
    /\ UNCHANGED pc
(* Death and resume: recorded activities are not executed again, an           *)
(* unfinished one is; a trial that was running is resumed.  (Elsewhere it     *)
(* changes nothing: everything else is replayed or recorded.)                 *)
Crash ==
    /\ pc \in {"copy", "publish", "running"} /\ m.crashes < MaxCrash
    /\ LET f == [m EXCEPT !.crashes = @ + 1] IN
       CASE pc = "running" -> Go("trial", [f EXCEPT !.clock = IF @ < MaxTime THEN @ + 1 ELSE @,
                                           !.todo = {x \in Arm : Runs(x)}])
         [] OTHER -> Go("freeze", f)

Step ==
    \/ Freeze \/ Copy \/ Publish \/ Verify \/ Admit \/ Check \/ Trial \/ Finish \/ Checked
    \/ Judge \/ Turn \/ Answered \/ Aggregate
Next == Step \/ Edit \/ Crash
Spec == Init /\ [][Next]_vars /\ WF_vars(Step)

(* A verdict is about the cases that were frozen and the code of the arms:    *)
(* every trial behind it saw those and no others.                             *)
TrialsSawThePlan ==
    m.verdict # "none" => \A s \in m.saw : s[1] = m.id /\ s[2] = 0

(* Improvement is never claimed on the strength of a label: when a pair was   *)
(* judged in both orders, the candidate won it from both sides; it lost none, *)
(* and it met the obligation in every judgment.                               *)
Swapped(p, k) == IF k = 1 THEN p.label ELSE Other(p.label)
Won(p)  == \A k \in DOMAIN p.judged : p.judged[k].prefers = Swapped(p, k)
Lost(p) == \E k \in DOMAIN p.judged : p.judged[k].prefers = Other(Swapped(p, k))
Met(p)  == \A k \in DOMAIN p.judged :
             (IF Swapped(p, k) = "A" THEN p.judged[k].a ELSE p.judged[k].b) = "met"
ImprovementIsEarned ==
    m.verdict = "improved" =>
        /\ \A i \in Pair : ~Lost(m.pairs[i]) /\ Met(m.pairs[i])
        /\ \A i \in Pair : \A x \in Arm : m.pairs[i].results[x] = "complete"
        /\ \E i \in Pair : Won(m.pairs[i])

(* A trial that was dispatched is never written off for lack of time: it is   *)
(* resumed, however long the caller was away.                                 *)
BegunIsNotWrittenOff ==
    \A i \in Pair : \A x \in Arm : m.pairs[i].begun[x] => m.pairs[i].results[x] # "exhausted"

(* An evaluation ends.                                                       *)
Rests == Done
===============================================================================
