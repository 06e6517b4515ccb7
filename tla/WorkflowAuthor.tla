---------------------------- MODULE WorkflowAuthor ----------------------------
(***************************************************************************)
(* The workflow that writes workflows (botpipe/workflows/workflow_author):  *)
(* a brief, then rounds of building, testing and reviewing a copy of the    *)
(* project, shipped only when the copy is what was tested and reviewed.     *)
(* The tests run the candidate's own code, which may rewrite the candidate; *)
(* somebody else may edit it too; the run may die and be resumed.           *)
(*                                                                         *)
(* The code and the transcript of its tests are versions, never used twice. *)
(***************************************************************************)
EXTENDS Integers

CONSTANTS MaxRound, MaxTurn,         \* params.max_rounds, params.max_provider_turns
          MaxEdit, MaxCrash          \* bounds: edits by others, deaths of the run

VARIABLES pc, m
vars == <<pc, m>>

(* code, transcript: the candidate now; built: the code of the last build;    *)
(* first, tested: the code at the first digest, and that the tests saw;       *)
(* valid: the Validation, or None; questions: the brief has some; noted: the  *)
(* validation that the reviewer was given.                                    *)
None == [code |-> -1, transcript |-> -1, ok |-> FALSE, tested |-> -1]
Init ==
    /\ pc = "prepare"
    /\ m = [code |-> -1, transcript |-> -1, next |-> 1, built |-> 0, first |-> 0, tested |-> 0,
            valid |-> None, noted |-> None, questions |-> FALSE, round |-> 0, turns |-> 0,
            edits |-> 0, crashes |-> 0]

Go(l, f) == pc' = l /\ m' = f
Spent == m.turns >= MaxTurn
New(f) == [f EXCEPT !.code = f.next, !.next = @ + 1]

(* A copy left by an attempt that died is thrown away.                        *)
Prepare ==
    /\ pc = "prepare"
    /\ \/ Go("failed", m)
       \/ Go("understand", [m EXCEPT !.code = 0])

(* ---- the rounds ------------------------------------------------------------- *)
Round(f) == IF f.round = MaxRound THEN <<"unshipped", f>> ELSE <<"round", [f EXCEPT !.round = @ + 1]>>
Continue(f) == Go(Round(f)[1], Round(f)[2])
Turn(taken) == IF Spent THEN Go("failed", m) ELSE taken
Turned == [m EXCEPT !.turns = @ + 1]

Understand ==
    /\ pc = "understand"
    /\ Turn(\E q \in BOOLEAN : Continue([Turned EXCEPT !.questions = q]))
Begin == pc = "round" /\ Go(IF m.questions THEN "ask" ELSE "build", m)
Answer == pc = "ask" /\ Go("rebrief", m)
Rebrief ==
    /\ pc = "rebrief"
    /\ Turn(\/ Continue([Turned EXCEPT !.questions = TRUE])
            \/ Go("build", [Turned EXCEPT !.questions = FALSE]))

Forget(f) == [f EXCEPT !.valid = None]

(* The builder edits the candidate and may return a brief with questions.     *)
Build ==
    /\ pc = "build"
    /\ LET f == New(Forget(Turned)) IN
       Turn(\/ Go("digest", [f EXCEPT !.built = f.code])
            \/ Continue([f EXCEPT !.built = f.code, !.questions = TRUE]))

(* ---- validate_candidate ------------------------------------------------------ *)
Digest == pc = "digest" /\ Go("test", [m EXCEPT !.first = m.code, !.transcript = -1])
Test ==
    /\ pc = "test"
    /\ \/ Go("compare", [m EXCEPT !.tested = m.code, !.transcript = m.next, !.next = @ + 1])
       \/ Go("compare", [m EXCEPT !.tested = -1])          \* refused before, or no transcript

Same == m.code = m.first
Compare ==
    /\ pc = "compare"
    /\ \E passed \in BOOLEAN :
         LET ok == passed /\ m.tested # -1 /\ Same
             f  == [m EXCEPT !.valid = [code |-> m.code, transcript |-> m.transcript,
                                        ok |-> ok, tested |-> m.tested]]
         IN  IF ok THEN Go("review", f) ELSE Continue(f)

(* ---- the review, and the handoff --------------------------------------------- *)
Review ==
    /\ pc = "review"
    /\ Turn(\E next \in {"verify", "refuse"} : Go(next, [Turned EXCEPT !.noted = m.valid]))
Refuse == pc = "refuse" /\ Continue(m)

Intact == m.code = m.valid.code /\ m.transcript = m.valid.transcript
Verify == pc = "verify" /\ Go(IF Intact THEN "finish" ELSE "failed", m)
Finish == pc = "finish" /\ Go("shipped", m)

(* ---- the environment ---------------------------------------------------------- *)
Edit ==
    /\ pc \notin {"prepare", "shipped", "unshipped", "failed"} /\ m.edits < MaxEdit
    /\ \/ m' = New([m EXCEPT !.edits = @ + 1])
       \/ m' = [m EXCEPT !.transcript = m.next, !.next = @ + 1, !.edits = @ + 1]
    /\ UNCHANGED pc

(* An activity that was under way is run again; what is no operation of the   *)
(* run, as the verification, is done again too.                               *)
Crash ==
    /\ m.crashes < MaxCrash
    /\ \/ pc \in {"test", "compare"} /\ Go("digest", [m EXCEPT !.crashes = @ + 1])
       \/ pc = "finish" /\ Go("verify", [m EXCEPT !.crashes = @ + 1])

Step == Prepare \/ Understand \/ Begin \/ Rebrief \/ Build \/ Digest \/ Test \/ Compare
        \/ Review \/ Refuse \/ Verify \/ Finish
Next == Step \/ Answer \/ Edit \/ Crash
Spec == Init /\ [][Next]_vars /\ WF_vars(Step)

(* What is handed off is, at its verification, the code and the transcript of *)
(* a test that passed and began and ended on that code, and the validation    *)
(* that the reviewer was shown.                                               *)
HandedOffIsTested ==
    pc \in {"finish", "shipped"} =>
        m.valid.ok /\ m.valid.tested = m.valid.code /\ m.noted = m.valid

(* Nothing changes between the validation and the handoff: the files that are *)
(* verified are those of the validation.                                      *)
VerifiesCurrent ==
    pc' = "finish" => m.code = m.valid.tested /\ m.transcript = m.valid.transcript

(* A validation that is returned is of the last build, as it was or as others *)
(* edited it since, never of a build before.                                  *)
ValidationIsOfLastBuild == m.valid # None => m.valid.code >= m.built

(* The run ends, or waits for a human, within its rounds and turns.           *)
Rests == pc \in {"shipped", "unshipped", "failed", "ask"}
===============================================================================
