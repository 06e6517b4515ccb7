------------------------ MODULE CandidateImprovement ------------------------
(***************************************************************************)
(* One improvement of a workflow (labs/workflows/improve_workflow/          *)
(* workflow.py, labs/workflows/optimizer_integration.py, botpipe_optimizer/ *)
(* candidates.py, candidate_validation.py and execution_trees.py): copy the *)
(* recommended surface, freeze the project, let a turn edit the copy,       *)
(* validate it in fresh trees, evaluate it once against the baseline, have  *)
(* it reviewed, and say what came of it; at most MaxRevision + 1 times.     *)
(*                                                                         *)
(* A file is a version; an edit gives it a version it never had.  Whoever   *)
(* works beside the run may edit any of them.                               *)
(***************************************************************************)
EXTENDS Integers

CONSTANTS MaxRevision,
          MaxEdit, MaxCrash     \* bounds: edits of files, deaths of the caller

VARIABLES pc, m
vars == <<pc, m>>

None == -1
NotRun   == [ok |-> FALSE, cand |-> None]
NotPaired == [state |-> "not_evaluated", cand |-> None]

(* source: the workflow's code; hash: of it when the copies were taken; base, *)
(* cand, snap: the copies; arm: a tree of the candidate; ids: what was        *)
(* identified of them; spec: an evaluation was asked for; attempt, cache: the *)
(* files of it.                                                              *)
Fresh(source, spec) ==
    [source |-> source, recommended |-> 0, hash |-> None, base |-> None, cand |-> None,
     read |-> None, snap |-> None, id |-> None, arm |-> None,
     valid |-> NotRun, paired |-> NotPaired,
     attempt |-> None, cache |-> NotPaired, launches |-> 0, tested |-> None,
     reviewed |-> None, accepted |-> FALSE, spec |-> spec,
     rev |-> 0, outcome |-> "none", version |-> 0, edits |-> 0, crashes |-> 0]
Init == pc = "hash" /\ \E spec \in BOOLEAN : m = Fresh(0, spec)

Go(l, f) == pc' = l /\ m' = f
Raise    == Go("failed", m)

(* ---- prepare_candidate_workspace, validate_materialized_handoff ----------- *)
Hash     == pc = "hash" /\ Go("copybase", [m EXCEPT !.hash = m.source])
CopyBase == pc = "copybase" /\ Go("copycand", [m EXCEPT !.base = m.source])
CopyCand == pc = "copycand" /\ Go("bind", [m EXCEPT !.cand = m.source])
Bind     == pc = "bind" /\ IF m.hash = m.recommended THEN Go("freeze", m) ELSE Raise

(* ---- freeze_candidate_workspace, capture_execution_tree -------------------- *)
SourceIntact == m.source = m.hash
SnapIntact   == m.source = m.snap
Freeze ==
    /\ pc = "freeze"
    /\ IF SourceIntact /\ m.base = m.hash THEN Go("capture", [m EXCEPT !.read = m.source])
       ELSE Raise
Capture ==
    /\ pc = "capture"
    /\ IF m.source = m.read THEN Go("build", [m EXCEPT !.snap = m.source]) ELSE Raise

(* The turn that implements the proposal.                                    *)
Build ==
    /\ pc = "build"
    /\ \/ Go("surface", m)
       \/ Go("surface", [m EXCEPT !.cand = m.version + 1, !.version = @ + 1])

(* ---- validate_frozen_candidate ---------------------------------------------- *)
Surface ==
    /\ pc = "surface"
    /\ IF SourceIntact /\ SnapIntact THEN Go("arm", [m EXCEPT !.id = m.cand]) ELSE Raise
(* materialize_execution_arm: identified, then copied.                       *)
ArmCheck == pc = "arm" /\ IF SnapIntact /\ m.cand = m.id THEN Go("armcopy", m) ELSE Raise
ArmCopy  == pc = "armcopy" /\ Go("test", [m EXCEPT !.arm = m.cand])
Test ==
    /\ pc = "test"
    /\ \E ok \in BOOLEAN :
         Go("recheck", [m EXCEPT !.valid = [ok |-> ok, cand |-> m.id], !.tested = m.arm])
Recheck == pc = "recheck" /\ IF SnapIntact /\ m.base = m.hash /\ m.cand = m.id THEN Go("pair", m) ELSE Raise

(* ---- the paired evaluation, once ---------------------------------------------- *)
Changed == m.cand # m.base
NoAttempt == m.cache = NotPaired /\ m.attempt = None
Pair ==
    /\ pc = "pair"
    /\ IF ~SourceIntact \/ ~SnapIntact THEN Raise
       ELSE IF ~(m.valid.ok /\ Changed /\ m.spec)
       THEN Go("revalidate", [m EXCEPT !.paired = NotPaired])
       ELSE IF NoAttempt
       THEN Go("evaluate", [m EXCEPT !.attempt = m.cand, !.launches = @ + 1])
       ELSE IF m.cache # NotPaired
       THEN IF m.cache.cand = m.cand THEN Go("revalidate", [m EXCEPT !.paired = m.cache]) ELSE Raise
       ELSE IF m.attempt = m.cand THEN Go("uncertain", m) ELSE Raise
Evaluate ==
    /\ pc = "evaluate"
    /\ \E s \in {"improved", "regressed", "no_material_change", "inconclusive"} :
         Go("record", [m EXCEPT !.cache = [state |-> s, cand |-> m.attempt]])
RecordResult == pc = "record" /\ Go("revalidate", [m EXCEPT !.paired = m.cache])

(* ---- revalidate_candidate_comparison -------------------------------------------- *)
SavedIsCurrent ==
    /\ SourceIntact /\ SnapIntact
    /\ m.valid.cand = m.cand
    /\ m.paired = NotPaired \/ m.paired.cand = m.cand
Revalidate ==
    /\ pc = "revalidate"
    /\ IF ~SavedIsCurrent THEN Raise
       ELSE Go(IF m.valid.ok /\ Changed THEN "review" ELSE "conclude", m)
Review ==
    /\ pc = "review"
    /\ \E a \in BOOLEAN :
         Go("again", [m EXCEPT !.accepted = a, !.reviewed = m.cand])
Again == pc = "again" /\ IF SavedIsCurrent THEN Go("conclude", m) ELSE Raise

(* The folder of the next revision is new.                                   *)
NextRevision ==
    [Fresh(m.source, m.spec) EXCEPT !.rev = m.rev + 1, !.version = m.version,
                                    !.edits = m.edits, !.crashes = m.crashes]
Conclude ==
    /\ pc = "conclude"
    /\ CASE m.valid.cand = m.hash -> Go("done", [m EXCEPT !.outcome = "no_change"])
         [] m.valid.cand # m.hash /\ m.valid.ok /\ m.accepted ->
              Go("done", [m EXCEPT !.outcome = IF m.paired = NotPaired THEN "candidate_ready"
                                               ELSE m.paired.state])
         [] OTHER -> IF m.rev < MaxRevision THEN Go("hash", NextRevision)
                     ELSE Go("done", [m EXCEPT !.outcome = "rejected"])

(* ---- death, resume and the operator ------------------------------------------------ *)
Preparing  == {"hash", "copybase", "copycand", "bind"}
Validating == {"surface", "arm", "armcopy", "test", "recheck", "pair", "evaluate", "record"}
Reviewing  == {"revalidate", "review", "again"}
Crash ==
    /\ m.crashes < MaxCrash
    /\ LET f == [m EXCEPT !.crashes = @ + 1] IN
       \/ pc \in Preparing \ {"hash", "bind"} /\ Go("hash", f)
       \/ pc = "capture" /\ Go("freeze", f)
       \/ pc \in Validating /\ Go("uncertain", f)
       \/ pc \in Reviewing \ {"revalidate"} /\ Go("revalidate", f)
(* The activity is not retry safe: somebody says that it may run again.       *)
Retry == pc = "uncertain" /\ Go("surface", m)

Done == pc \in {"done", "failed"}
Edit ==
    /\ ~Done /\ m.edits < MaxEdit
    /\ \E f \in {"source", "base", "cand", "snap"} :
         m[f] # None /\ m' = [m EXCEPT ![f] = m.version + 1, !.version = @ + 1, !.edits = @ + 1]
    /\ UNCHANGED pc

Step ==
    \/ Hash \/ CopyBase \/ CopyCand \/ Bind \/ Freeze \/ Capture \/ Build \/ Surface
    \/ ArmCheck \/ ArmCopy \/ Test \/ Recheck \/ Pair \/ Evaluate \/ RecordResult
    \/ Revalidate \/ Review \/ Again \/ Conclude
Next == Step \/ Crash \/ Retry \/ Edit
Spec == Init /\ [][Next]_vars /\ WF_vars(Step)

(* What is called ready or better is one candidate, that was tested, compared *)
(* and reviewed, and it was made from the code that was recommended: nothing  *)
(* was swapped between those steps.                                           *)
Praised == {"candidate_ready", "improved"}
OneCandidateThroughout ==
    m.outcome \in Praised =>
        /\ m.valid.cand = m.reviewed /\ m.tested = m.valid.cand
        /\ m.paired = NotPaired \/ m.paired.cand = m.reviewed
        /\ m.hash = m.recommended

(* The evaluators are launched once for a revision, whatever dies and is      *)
(* allowed to run again.                                                      *)
EvaluatedOnce == m.launches <= 1

(* An improvement ends or waits for an operator.                              *)
Rests == Done \/ pc = "uncertain"
===============================================================================
