------------------------------- MODULE DevLoop -------------------------------
(***************************************************************************)
(* The development loop (botpipe/workflows/devloop/workflow.py and          *)
(* reviews.py): a plan of phases, reviewed; every phase implemented,        *)
(* reviewed and tested until both reviews pass, its definition repaired     *)
(* where a review says so; an audit of the whole, and, while it finds gaps, *)
(* a follow-up run one level deeper.                                        *)
(*                                                                         *)
(* Nothing limits the attempts of a loop; MaxTurn bounds the runs explored. *)
(***************************************************************************)
EXTENDS Naturals, Sequences

CONSTANTS MaxDepth,            \* auto_followup_max_depth
          MaxPhase, MaxTurn    \* bounds: phases of a plan, turns of a run

VARIABLES pc, m
vars == <<pc, m>>

Planned(n) == [i \in 1 .. n |-> [id |-> i, status |-> "planned"]]
Ids(phases) == [i \in DOMAIN phases |-> phases[i].id]

(* phases: the document in memory, file: phase_plan.json; at: phase_index;    *)
(* attempt: stage_attempt, and made, accepted, tested: the attempt whose      *)
(* notes are the latest, that a review accepted, that a test passed.          *)
Fresh(depth, skip, turns) ==
    [depth |-> depth, skip |-> skip, phases |-> <<>>, file |-> <<>>, at |-> 1,
     attempt |-> 0, made |-> 0, accepted |-> 0, tested |-> 0, completed |-> <<>>,
     earned |-> TRUE, gaps |-> FALSE, result |-> "none", turns |-> turns]
Init == pc = "plan" /\ \E skip \in BOOLEAN : m = Fresh(0, skip, 0)

Go(l, f)   == pc' = l /\ m' = f
Turn(f)    == [f EXCEPT !.turns = @ + 1]
MayTurn    == m.turns < MaxTurn
Status(f, s) == [f EXCEPT !.phases[f.at].status = s]
Write(f)   == [f EXCEPT !.file = f.phases]

(* A nested run returns to the one that started it, which needs a follow-up.  *)
Return(f, r) ==
    Go("done", [f EXCEPT !.result = IF f.depth = 0 THEN r ELSE "needs_followup"])

(* ---- reviews ---------------------------------------------------------------- *)
(* current: the review names this attempt; covers: exactly its criteria.      *)
Reviews == [current : BOOLEAN, covers : BOOLEAN, repair : BOOLEAN,
            verdict : {"passed", "failed", "blocked"}]
Passes(r) == r.current /\ r.covers /\ r.verdict = "passed"

(* ---- the plan ---------------------------------------------------------------- *)
Plan ==
    /\ pc = "plan" /\ MayTurn
    /\ \/ Go("plan", Turn(m))                            \* _validate_phase_plan refused it
       \/ \E n \in 1 .. MaxPhase :
            Go("reviewplan", Turn([m EXCEPT !.phases = Planned(n), !.file = Planned(n)]))

ReviewPlan ==
    /\ pc = "reviewplan" /\ MayTurn
    /\ \E r \in Reviews :
         IF r.verdict = "blocked" THEN Return(Turn(m), "blocked")
         ELSE Go(IF Passes(r) THEN "begin" ELSE "plan", Turn(m))

(* ---- a phase ------------------------------------------------------------------ *)
Begin ==
    /\ pc = "begin"
    /\ IF m.at > Len(m.phases) THEN Go("audit", m)
       ELSE Go("implement", Write(Status([m EXCEPT !.attempt = 0, !.made = 0, !.accepted = 0,
                                                   !.tested = 0], "in_progress")))

Implement ==
    /\ pc = "implement" /\ MayTurn
    /\ Go("review", Turn([m EXCEPT !.attempt = @ + 1, !.made = m.attempt + 1]))

Block == Return(Write(Status(Turn(m), "blocked")), "blocked")
Review ==
    /\ pc = "review" /\ MayTurn
    /\ \E r \in Reviews :
         CASE r.verdict = "blocked" -> Block
           [] r.verdict # "blocked" /\ Passes(r) ->
                Go(IF m.skip THEN "complete" ELSE "test", Turn([m EXCEPT !.accepted = m.attempt]))
           [] OTHER -> Go(IF r.repair THEN "repair" ELSE "implement", Turn(m))

Test ==
    /\ pc = "test" /\ MayTurn
    /\ Go("reviewtest", Turn(m))
ReviewTest ==
    /\ pc = "reviewtest" /\ MayTurn
    /\ \E r \in Reviews :
         CASE r.verdict = "blocked" -> Block
           [] r.verdict # "blocked" /\ Passes(r) -> Go("complete", Turn([m EXCEPT !.tested = m.attempt]))
           [] OTHER -> Go("implement", Turn(m))

Complete ==
    /\ pc = "complete"
    /\ LET f == Status(m, "completed") IN
       Go("begin", [Write(f) EXCEPT
                      !.completed = Append(@, m.phases[m.at].id), !.at = @ + 1,
                      !.earned = @ /\ m.accepted = m.made /\ (m.skip \/ m.tested = m.made)])

(* ---- the definition of a phase ------------------------------------------------- *)
(* A plan that the turn may write, valid by itself.                           *)
Statuses  == {"planned", "in_progress", "completed"}
Rewritten(n) ==
    {[i \in 1 .. n |-> [id |-> IF i \in swap THEN MaxPhase + i ELSE i, status |-> s[i]]]
        : swap \in SUBSET (1 .. n), s \in [1 .. n -> Statuses]}

Keeps(c) ==
    /\ m.at <= Len(c)
    /\ c[m.at].id = m.phases[m.at].id /\ c[m.at].status = "in_progress"
    /\ \A i \in 1 .. m.at - 1 :
         /\ c[i].id = m.phases[i].id
         /\ m.phases[i].status = "completed" => c[i].status = "completed"

Repair ==
    /\ pc = "repair" /\ MayTurn
    /\ \E n \in 1 .. MaxPhase : \E c \in Rewritten(n) :
         IF ~Keeps(c) THEN Go("repair", Turn([m EXCEPT !.file = c]))
         ELSE Go("reviewitem", Turn([m EXCEPT !.file = c]))

(* The candidate is what the turn left in the file.                           *)
ReviewItem ==
    /\ pc = "reviewitem" /\ MayTurn
    /\ \E r \in Reviews :
         CASE r.verdict = "blocked" -> Return(Turn(m), "blocked")
           [] r.verdict # "blocked" /\ Passes(r) -> Go("implement", Turn([m EXCEPT !.phases = m.file]))
           [] OTHER -> Go("repair", Turn(m))

(* ---- the audit ------------------------------------------------------------------ *)
Audit ==
    /\ pc = "audit" /\ MayTurn
    /\ \/ Go("audit", Turn(m))                           \* _validate_audit refused it
       \/ \E gaps \in BOOLEAN : Go("reviewaudit", Turn([m EXCEPT !.gaps = gaps]))
ReviewAudit ==
    /\ pc = "reviewaudit" /\ MayTurn
    /\ \E r \in Reviews :
         CASE r.verdict = "blocked" -> Return(Turn(m), "blocked")
           [] r.verdict # "blocked" /\ Passes(r) -> Go("conclude", Turn(m))
           [] OTHER -> Go("audit", Turn(m))

Conclude ==
    /\ pc = "conclude"
    /\ CASE ~m.gaps -> Return(m, "passed")
         [] m.gaps /\ m.depth >= MaxDepth -> Return(m, "needs_followup")
         [] OTHER -> \/ Go("plan", Fresh(m.depth + 1, m.skip, m.turns))
                     \/ Return(m, "failed")              \* no revised request

Step == \/ Plan \/ ReviewPlan \/ Begin \/ Implement \/ Review \/ Test \/ ReviewTest
        \/ Complete \/ Repair \/ ReviewItem \/ Audit \/ ReviewAudit \/ Conclude
Next == Step
Spec == Init /\ [][Next]_vars

(* When the audit begins, the phases the plan names are those that were       *)
(* completed, in that order, whatever was made of the plan meanwhile; each    *)
(* had its last implementation accepted by a review of that attempt and,      *)
(* unless tests are skipped, tested; and the file says so.                    *)
AuditedIsVerified ==
    pc \in {"audit", "reviewaudit", "conclude"} =>
        /\ m.completed = Ids(m.phases) /\ m.earned
        /\ \A i \in DOMAIN m.phases : m.phases[i].status = "completed"
        /\ m.file = m.phases

(* No run goes deeper than it may, and only a whole run says that it passed.  *)
FollowupsAreBounded ==
    m.depth <= MaxDepth /\ (m.result = "passed" => m.depth = 0 /\ ~m.gaps)
===============================================================================
