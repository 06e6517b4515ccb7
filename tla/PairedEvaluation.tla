-------------------------- MODULE PairedEvaluation --------------------------
(***************************************************************************)
(* A paired evaluation (botpipe_optimizer/paired_evaluation.py): freeze the *)
(* specification, the evaluator and the cases, run the evaluator once for   *)
(* the baseline and once for the candidate, compare, and, when the workflow *)
(* is resumed, validate the committed record without running again.         *)
(*                                                                         *)
(* Files are versions; every edit gives a file a version it never had.      *)
(* Anybody may edit any file at any time, the evaluators among them.        *)
(***************************************************************************)
EXTENDS Integers

CONSTANTS MaxEdit,      \* bound: edits of files
          MaxRegression, MinImprovement   \* of every metric; of the primary one

VARIABLES pc, m
vars == <<pc, m>>

Arm   == {"baseline", "candidate"}
File  == {"spec", "evaluator", "cases"}
Score == 0 .. 1
NoRun == [state |-> "none", primary |-> 0, guard |-> 0, env |-> FALSE, out |-> 0,
          saw |-> {}]
NoRecord == [state |-> "none", ids |-> [f \in File |-> 0], arms |-> [a \in Arm |-> NoRun]]

(* m.file: the sources; m.frozen: their copies; m.tree: the arms;            *)
(* m.out: the outputs of an arm; m.ids: the identities taken of the sources. *)
Init ==
    /\ pc = "load"
    /\ m = [file |-> [f \in File |-> 0], frozen |-> [f \in File |-> -1],
            ids |-> [f \in File |-> 0], spec |-> 0, tree |-> [a \in Arm |-> 0],
            out |-> [a \in Arm |-> 0], arms |-> [a \in Arm |-> NoRun],
            record |-> NoRecord, late |-> FALSE, edits |-> 0, accepted |-> FALSE]

Go(l, f)  == pc' = l /\ m' = f
Refuse    == Go("refused", m)

(* load_evaluation_spec, and the arms as they were bound (version 0).        *)
Load == pc = "load" /\ Go("identify", [m EXCEPT !.spec = m.file["spec"]])

(* _freeze: identities first, checked against those the spec declares.       *)
Identify ==
    /\ pc = "identify"
    /\ IF \A f \in {"evaluator", "cases"} : m.file[f] = 0
       THEN Go("copy", [m EXCEPT !.ids = m.file]) ELSE Refuse

Copy == pc = "copy" /\ Go("assert", [m EXCEPT !.frozen = m.file])

FrozenIntact == m.frozen = m.ids

Assert ==
    /\ pc = "assert"
    /\ IF FrozenIntact /\ m.frozen["spec"] = m.spec THEN Go("snapshot", m) ELSE Refuse

TreesIntact == \A a \in Arm : m.tree[a] = 0
Snapshot == pc = "snapshot" /\ IF TreesIntact THEN Go("baseline", m) ELSE Refuse

(* _run_arm: one process for the arm, within what is left of the time.       *)
Sees(a)   == {[frozen |-> m.frozen, tree |-> m.tree[a]]}
Launch(a) ==
    /\ pc = a
    /\ CASE m.tree[a] # 0 -> Refuse
         [] m.tree[a] = 0 /\ m.late ->
              Go(IF a = "baseline" THEN "candidate" ELSE "compare",
                 [m EXCEPT !.arms[a].state = "budget_exhausted"])
         [] OTHER -> Go("running", [m EXCEPT !.arms[a].state = "running",
                                             !.arms[a].saw = Sees(a)])

Running(a) == pc = "running" /\ m.arms[a].state = "running"
Returns(a) ==
    /\ Running(a)
    /\ \/ \E p, g \in Score, e \in BOOLEAN :
            Go("check", [m EXCEPT !.arms[a] =
                 [@ EXCEPT !.state = "complete", !.primary = p, !.guard = g, !.env = e,
                           !.out = m.out[a], !.saw = @ \cup Sees(a)]])
       \/ \E s \in {"failed", "timed_out", "cancelled", "budget_exhausted"} :
            Go("check", [m EXCEPT !.arms[a].state = s])

(* After each arm: the arms, the frozen copies and the sources are as before. *)
Intact == TreesIntact /\ FrozenIntact /\ m.file = m.ids

Check ==
    /\ pc = "check"
    /\ LET a == IF m.arms["candidate"].state = "none" THEN "baseline" ELSE "candidate" IN
       IF ~Intact THEN Refuse
       ELSE Go(IF a = "baseline" THEN "candidate" ELSE "compare",
               IF m.late /\ m.arms[a].state = "complete"
               THEN [m EXCEPT !.arms[a].state = "budget_exhausted"] ELSE m)

(* compare_evaluation_aggregates.                                            *)
Complete(x) == \A a \in Arm : x[a].state = "complete"
Verdict(x) ==
    LET primary == x["candidate"].primary - x["baseline"].primary
        guard   == x["candidate"].guard - x["baseline"].guard
    IN  CASE ~Complete(x) \/ ~x["baseline"].env \/ ~x["candidate"].env -> "inconclusive"
          [] OTHER ->
               IF primary < -MaxRegression \/ guard < -MaxRegression THEN "regressed"
               ELSE IF primary >= MinImprovement THEN "improved" ELSE "no_material_change"

Compare ==
    /\ pc = "compare"
    /\ Go("committed", [m EXCEPT !.record = [state |-> Verdict(m.arms), ids |-> m.ids,
                                              arms |-> m.arms]])

(* validate_paired_evaluation_record, at a resume.                           *)
OutputsIntact(r) ==
    \A a \in Arm : r.arms[a].state = "complete" => m.out[a] = r.arms[a].out

Validates(r) ==
    /\ m.file["spec"] = r.ids["spec"]
    /\ m.frozen = r.ids
    /\ OutputsIntact(r)
    /\ r.state = Verdict(r.arms)

Validate ==
    /\ pc = "committed"
    /\ IF Validates(m.record) THEN Go("accepted", [m EXCEPT !.accepted = TRUE]) ELSE Refuse

(* The environment.                                                          *)
Done == pc \in {"refused", "accepted"}
Edit ==
    /\ ~Done /\ m.edits < MaxEdit
    /\ \/ \E f \in File : m' = [m EXCEPT !.file[f] = @ + 1, !.edits = @ + 1]
       \/ \E f \in File : m.frozen[f] >= 0
                          /\ m' = [m EXCEPT !.frozen[f] = @ + 10, !.edits = @ + 1]
       \/ \E a \in Arm : m' = [m EXCEPT !.tree[a] = @ + 1, !.edits = @ + 1]
       \/ \E a \in Arm : m' = [m EXCEPT !.out[a] = @ + 1, !.edits = @ + 1]
    /\ UNCHANGED pc

Time == pc \in {"baseline", "candidate", "running", "check"} /\ ~m.late
        /\ m' = [m EXCEPT !.late = TRUE] /\ UNCHANGED pc

Step ==
    \/ Load \/ Identify \/ Copy \/ Assert \/ Snapshot \/ Check \/ Compare \/ Validate
    \/ \E a \in Arm : Launch(a) \/ Returns(a)
Next == Step \/ Edit \/ Time
Spec == Init /\ [][Next]_vars /\ WF_vars(Step)

(* A verdict compares two runs of the declared evaluator over the declared    *)
(* cases, each on its own unchanged arm: whatever was edited meanwhile, the   *)
(* record would not have been made.                                          *)
ComparesWhatWasFrozen ==
    m.record.state \notin {"none", "inconclusive"} =>
        \A a \in Arm : \A s \in m.record.arms[a].saw :
            /\ s.tree = 0 /\ s.frozen = m.record.ids
            /\ s.frozen["evaluator"] = 0 /\ s.frozen["cases"] = 0

(* A record that a resume accepts is about the outputs and the copies that    *)
(* are there, of the specification that is there.                             *)
AcceptedIsCurrent ==
    m.accepted =>
        /\ \A a \in Arm : m.record.arms[a].state = "complete" =>
                              m.out[a] = m.record.arms[a].out
        /\ m.frozen = m.record.ids /\ m.file["spec"] = m.record.ids["spec"]

(* An evaluation ends.                                                       *)
Rests == Done
===============================================================================
