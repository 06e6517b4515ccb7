--------------------------------- MODULE Goal ---------------------------------
(***************************************************************************)
(* The goal workflow (botpipe/workflows/goal/flow.py).  goal.json and       *)
(* subgoals.json belong to the task and outlive the runs; a run works on    *)
(* copies in its memory, plans, works on one subgoal after another, has     *)
(* each of them verified, and has the whole audited.  A stopped run may be  *)
(* resumed, at once or when other runs have begun and ended: its memory is  *)
(* replayed, the files as it read them included, and it goes on with that    *)
(* where it stopped.                                                        *)
(*                                                                         *)
(* Every turn is charged at least one token.                                *)
(***************************************************************************)
EXTENDS Integers, FiniteSets

CONSTANTS MaxRun, MaxStop,     \* bounds: runs of the workflow, stops of runs
          MaxToken,            \* bound: tokens and turns counted
          Older,               \* bound: where a stopped run can be resumed behind newer ones
          Fingerprint          \* of what may block a subgoal

VARIABLES pc, m
vars == <<pc, m>>

Subgoal == {1, 2}
NoGoal  == [status |-> "none", planning |-> "unplanned", objective |-> 0, tokens |-> 0,
            budget |-> 0, turns |-> 0, most |-> 0, active |-> 0]
NoPlan  == [objective |-> 0, needs |-> {}, active |-> 0,
            item |-> [s \in Subgoal |-> [status |-> "none", print |-> "none", blocks |-> 0]]]
Fresh(objective, budget, most) ==
    [NoGoal EXCEPT !.status = "active", !.objective = objective, !.budget = budget,
                   !.most = most]

(* goal, plan: the files; g, p, draft: the memory of the run, and then where  *)
(* it goes after a save; old: others ran since it read the files; parked: the  *)
(* memories of stopped runs; spent: tokens of the turns for this goal; lost: a *)
(* run that had charged tokens was left for another, or one goes on that does  *)
(* not know of all that were charged.                                         *)
Init ==
    /\ pc = "idle"
    /\ m = [goal |-> NoGoal, plan |-> NoPlan, g |-> NoGoal, p |-> NoPlan, then |-> "idle",
            spent |-> 0, lost |-> FALSE, objectives |-> 0,
            runs |-> 0, old |-> FALSE, stops |-> 0, draft |-> NoPlan, parked |-> {}]

Go(l, f)   == pc' = l /\ m' = f
Save(g, p, then) == Go("save", [m EXCEPT !.g = g, !.p = p, !.then = then])
(* What a caller may limit: nothing, the tokens or the verified turns.        *)
Limits     == {<<0, 0>>, <<MaxToken, 0>>, <<0, 1>>}

(* ---- the actions on a goal ---------------------------------------------- *)
Present == m.goal # NoGoal
Renewed(g, l) == [g EXCEPT !.budget = IF l[1] # 0 THEN l[1] ELSE @,
                           !.most = IF l[2] # 0 THEN l[2] ELSE @]
Start == m.runs < MaxRun /\ pc = "idle"
(* A run that goes on behind others, and saves what it had read; or what it   *)
(* left when it was stopped.                                                  *)
Behind == m.old /\ (pc # "idle" \/ m.parked # {})
Aged(parked) == {[r EXCEPT !.old = TRUE] : r \in parked}
(* The state of m when a run has read the files.                             *)
Read  == [m EXCEPT !.g = m.goal, !.p = m.plan, !.runs = @ + 1, !.old = Behind,
                   !.draft = NoPlan,
                   !.lost = @ \/ (m.parked # {} /\ m.spent # m.goal.tokens),
                   !.parked = Aged({r \in @ : r.at \in Older})]
Begin(g, p, f) == Go("save", [f EXCEPT !.g = g, !.p = p, !.then = "loop"])

Clear == Start /\ Go("idle", [Read EXCEPT !.goal = NoGoal, !.plan = NoPlan, !.g = NoGoal,
                                          !.p = NoPlan, !.spent = 0, !.lost = FALSE])
Pause ==
    /\ Start /\ Present /\ m.goal.status # "complete"
    /\ Go("save", [Read EXCEPT !.g.status = "paused", !.then = "idle"])
Resume ==
    /\ Start /\ Present /\ m.goal.status # "complete"
    /\ \E l \in Limits :
         Begin([Renewed(m.goal, l) EXCEPT !.status = "active",
                    !.planning = IF @ # "planned" \/ m.plan = NoPlan THEN "stale" ELSE @],
               m.plan, Read)

Stale(g) == [g EXCEPT !.status = "active", !.active = 0, !.planning = "stale"]

Edit ==
    /\ Start /\ Present /\ m.goal.status # "complete"
    /\ Begin([Stale(m.goal) EXCEPT !.objective = m.objectives + 1], m.plan,
             [Read EXCEPT !.objectives = @ + 1])
Replan ==
    /\ Start /\ Present /\ m.goal.status # "complete"
    /\ \E l \in Limits : Begin(Stale(Renewed(m.goal, l)), m.plan, Read)
(* The old goal is replaced: it was complete, or the caller agreed.          *)
Set ==
    /\ Start
    /\ \E l \in Limits :
         Begin(Fresh(m.objectives + 1, l[1], l[2]), NoPlan,
               [Read EXCEPT !.objectives = @ + 1, !.spent = 0, !.lost = FALSE])

(* ---- _save_state: two files, one after the other ------------------------- *)
SaveState ==
    pc = "save" /\ Go(m.then, [m EXCEPT !.goal = m.g,
                                        !.plan = IF m.p # NoPlan THEN m.p ELSE @])

(* ---- limits -------------------------------------------------------------- *)
Limited(g) == \/ g.budget # 0 /\ g.tokens >= g.budget
              \/ g.most # 0 /\ g.turns >= g.most
GiveUp(g, p) == Save([g EXCEPT !.status = "budget_limited"], p, "idle")

Top == pc = "loop" /\ IF Limited(m.g) THEN GiveUp(m.g, m.p)
       ELSE Go(CASE m.g.planning # "planned" \/ m.p = NoPlan -> "plan"
                 [] \A s \in Subgoal : m.p.item[s].status = "complete" -> "final"
                 [] OTHER -> "select", m)

(* ---- turns --------------------------------------------------------------- *)
Least(a, b) == IF a < b THEN a ELSE b
Charge(g)   == [g EXCEPT !.tokens = Least(@ + 1, MaxToken)]
(* A turn that was paid for: f is what it leaves in m, l is where it leads.   *)
Paid(f)     == [f EXCEPT !.g = Charge(@), !.spent = Least(@ + 1, MaxToken)]
(* An output that is never valid is charged, saved and raised: the run failed, *)
(* and a resume only repeats that.                                           *)
Invalid(l)  == pc = l /\ Go("save", [Paid(m) EXCEPT !.then = "idle"])

Open == {"pending", "active", "needs_rework"}
Item(status) == [status |-> status, print |-> "none", blocks |-> 0]
(* What the planner may write to subgoals.json, if valid: the second may need *)
(* the first; work that is still good stays complete.                         *)
Plans(g) == {[objective |-> g.objective, needs |-> n, active |-> 0, item |-> i] :
               n \in SUBSET {2},
               i \in [Subgoal -> {Item("pending"), Item("complete")}]}
(* What it may write, if not.                                                 *)
Unusable == [NoPlan EXCEPT !.needs = Subgoal]
Plan ==
    /\ pc = "plan"
    /\ \E p \in Plans(m.g) \cup {Unusable} :
         LET f == [Paid(m) EXCEPT !.plan = p] IN
         Go(CASE Limited(f.g) -> "loop"
              [] ~Limited(f.g) /\ p = Unusable -> "plan"   \* once more
              [] OTHER -> "review",
            [f EXCEPT !.draft = IF Limited(f.g) \/ p = Unusable THEN NoPlan ELSE p])

Review ==
    /\ pc = "review"
    /\ LET f == [Paid(m) EXCEPT !.draft = NoPlan] IN
       \/ Go(IF Limited(f.g) THEN "loop" ELSE "plan", f)  \* needs_rework
       \/ IF Limited(f.g) THEN Go("loop", [f EXCEPT !.p = m.draft])
          ELSE Go("save", [f EXCEPT !.p = m.draft, !.then = "loop",
                                    !.g = [@ EXCEPT !.planning = "planned",
                                              !.status = "active", !.active = 0]])
Completed(p) == {s \in Subgoal : p.item[s].status = "complete"}
Ready(p, s)  == p.item[s].status \in Open /\ (s \in p.needs => 1 \in Completed(p))
(* The subgoal worked on before goes on; else any ready one (by priority).    *)
Selectable(p) == IF p.active # 0 /\ Ready(p, p.active) THEN {p.active}
                 ELSE {s \in Subgoal : Ready(p, s)}
Select ==
    /\ pc = "select"
    /\ IF Selectable(m.p) = {}
       THEN Save([m.g EXCEPT !.status = "blocked", !.active = 0],
                 [m.p EXCEPT !.active = 0], "idle")
       ELSE \E s \in Selectable(m.p) :
              Save([m.g EXCEPT !.active = s],
                   [m.p EXCEPT !.active = s, !.item[s].status = "active"], "work")

Work ==
    /\ pc = "work"
    /\ LET f == Paid(m) IN
       IF Limited(f.g) THEN Go("save", [f EXCEPT !.g.status = "budget_limited", !.then = "idle"])
       ELSE Go("verify", f)

Judged(i, v, fp) ==
    CASE v = "complete" -> Item("complete")
      [] v = "blocked"  ->
           LET n == IF i.print = fp THEN i.blocks + 1 ELSE 1
           IN  [status |-> IF n >= 3 THEN "blocked" ELSE i.status, print |-> fp, blocks |-> n]
      [] v = "needs_rework" -> [i EXCEPT !.status = "needs_rework", !.blocks = 0]
      [] OTHER -> [i EXCEPT !.status = "active", !.blocks = 0]
Verify ==
    /\ pc = "verify"
    /\ \E v \in {"complete", "continue", "needs_rework", "blocked"}, fp \in Fingerprint :
         LET f == Paid(m)
             s == m.p.active
             i == Judged(m.p.item[s], v, fp)
             a == IF i.status \in {"complete", "blocked"} THEN 0 ELSE s
         IN  Go("save", [f EXCEPT !.p = [@ EXCEPT !.item[s] = i, !.active = a],
                                  !.g.active = a, !.g.turns = Least(@ + 1, MaxToken),
                                  !.then = "loop"])

Final ==
    /\ pc = "final"
    /\ LET f == Paid(m) IN
       IF Limited(f.g) THEN Go("save", [f EXCEPT !.g.status = "budget_limited", !.then = "idle"])
       ELSE Go("audit", f)

Reopened(p, again) ==
    [p EXCEPT !.item = [s \in Subgoal |-> IF s \in again
                                          THEN [@[s] EXCEPT !.status = "needs_rework"]
                                          ELSE @[s]]]
Audit ==
    /\ pc = "audit"
    /\ LET f == Paid(m) IN
       \/ Go("save", [f EXCEPT !.g = [@ EXCEPT !.status = "complete", !.active = 0],
                               !.p.active = 0, !.then = "idle"])
       \/ Go("save", [f EXCEPT !.g = [@ EXCEPT !.planning = "stale", !.active = 0],
                               !.p.active = 0, !.then = "loop"])
       \/ \E again \in SUBSET Subgoal :        \* none, if it names no known one
            Go("save", [f EXCEPT !.p = Reopened(@, again), !.then = "loop"])

(* ---- stops ---------------------------------------------------------------- *)
(* One that hits a save may leave goal.json new and subgoals.json old.        *)
Memory == [old |-> m.old, at |-> pc, g |-> m.g, p |-> m.p, then |-> m.then, draft |-> m.draft]
Stop ==
    /\ pc # "idle" /\ m.stops < MaxStop
    /\ \E half \in {m.goal, IF pc = "save" THEN m.g ELSE m.goal} :
         Go("idle", [m EXCEPT !.parked = @ \cup {Memory}, !.goal = half, !.stops = @ + 1])
Replay ==
    /\ pc = "idle"
    /\ \E r \in m.parked :
         Go(r.at, [m EXCEPT !.parked = Aged(@ \ {r}), !.old = r.old, !.g = r.g, !.p = r.p,
                            !.then = r.then, !.draft = r.draft,
                            !.lost = @ \/ r.g.tokens # m.spent])

Turns == {"plan", "review", "work", "verify", "final", "audit"}
Step ==
    \/ SaveState \/ Top \/ Plan \/ Review \/ Select \/ Work
    \/ Verify \/ Final \/ Audit \/ \E l \in Turns : Invalid(l)
Next == Step \/ Clear \/ Pause \/ Resume \/ Edit \/ Replan \/ Set \/ Stop \/ Replay
Spec == Init /\ [][Next]_vars /\ WF_vars(Step)

(* A goal is complete only with every subgoal of the plan that was made for   *)
(* its present objective, through reopened subgoals, edits, stops and         *)
(* half-written files, and again when a run that wrote an older plan between  *)
(* them has ended.                                                            *)
CompleteIsEarned ==
    m.goal.status = "complete" /\ ~Behind =>
        /\ m.plan.objective = m.goal.objective
        /\ Completed(m.plan) = Subgoal

(* A completed goal is cleared or replaced by a newer one; what alone takes it *)
(* back (flow.py:1 calls the goal persistent) is an older run that is resumed  *)
(* and saves its copy, which it does not compare with the file (flow.py:197).  *)
CompletedStays ==
    m.goal.status = "complete" /\ m'.goal # m.goal =>
        \/ m'.goal = NoGoal \/ m'.goal.objective > m.goal.objective
        \/ Behind

(* No turn is paid for once a limit of the goal is reached, in any of the     *)
(* six places where turns are made, by what the run knows of the goal.        *)
PaysWithinLimit == m'.spent > m.spent => ~Limited(m.g)

(* Between runs the file accounts for every turn paid for the goal, unless a  *)
(* stopped run was left for another or goes on behind one.                    *)
TokensAreKept ==
    pc = "idle" /\ m.parked = {} /\ ~m.lost => m.goal.tokens = m.spent

(* A run whose goal has a budget ends.                                        *)
Rests == pc = "idle" \/ m.g.budget = 0
===============================================================================
