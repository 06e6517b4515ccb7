----------------------------- MODULE Storefront -----------------------------
(***************************************************************************)
(* One idea, many storefronts (labs/workflows/idea_to_storefronts/flow.py): *)
(* research, an idea picked by a human, scripts and product side by side,   *)
(* recordings, a package for every platform, approval of every piece, and   *)
(* the totals.  A draft has three rounds before a human decides; a piece    *)
(* that a human sends back is made again, with what depends on it.          *)
(*                                                                         *)
(* A piece is a version, never used twice: 0 when there is none.            *)
(***************************************************************************)
EXTENDS Naturals, FiniteSets

CONSTANTS MaxRound,            \* max_initial_rounds
          MaxHuman             \* bound: decisions that cost another round

VARIABLES pc, m
vars == <<pc, m>>

Script   == {"long_video", "short_1"}
Platform == {"youtube", "kdp"}
Piece    == Script \cup {"product"} \cup Platform
(* What a producer and a reviewer work on: all scripts together, or one piece. *)
Job      == Piece \cup {"scripts"}

NoTotals == [runs |-> {}, cost |-> 0]
Idle     == [is |-> "idle", round |-> 0]

(* ver: the pieces; from: what a package was made of; guide: the product is   *)
(* one (kdp takes no other); cur: the jobs that run now, todo: those after;   *)
(* made: versions used; human: decisions that cost a round.                   *)
Init ==
    /\ pc = "research"
    /\ m = [ver |-> [p \in Piece |-> 0], from |-> [p \in Platform |-> {}], guide |-> FALSE,
            dropped |-> {}, approved |-> {}, seen |-> [p \in Piece |-> 0], noted |-> {},
            changed |-> FALSE, job |-> [j \in Job |-> Idle], cur |-> {}, todo |-> {},
            round |-> 0, made |-> 0, human |-> 0,
            totals |-> NoTotals, mine |-> NoTotals, crashed |-> FALSE]

Go(l, f) == pc' = l /\ m' = f
Costs    == m.human < MaxHuman
Human(f) == [f EXCEPT !.human = @ + 1]

(* ---- research and the choice of an idea ------------------------------------ *)
Research ==
    /\ pc = "research"
    /\ \/ Go("pick", [m EXCEPT !.round = 0])
       \/ Go(IF m.round + 1 < 3 THEN "research" ELSE "failed", [m EXCEPT !.round = @ + 1])

Begin(f, jobs) ==
    [f EXCEPT !.cur = jobs,
              !.job = [j \in Job |-> IF j \in jobs THEN [is |-> "run", round |-> 0] ELSE Idle]]
Pick ==
    /\ pc = "pick"
    /\ \/ Costs /\ Go("research", Human(m))                             \* reject_all
       \/ Go("draft", Begin([m EXCEPT !.dropped = {}, !.approved = {}, !.noted = {}],
                            {"scripts", "product"}))

(* ---- _run_bounded_loop --------------------------------------------------------- *)
Is(j, s)   == [m EXCEPT !.job[j].is = s]
Round(j) ==
    /\ pc \in {"draft", "package", "redo"} /\ j \in m.cur /\ m.job[j].is = "run"
    /\ LET f == [m EXCEPT !.job[j].round = @ + 1] IN
       \/ Go(pc, [f EXCEPT !.job[j].is = "accepted"])
       \/ Go(pc, IF f.job[j].round < MaxRound THEN f ELSE [f EXCEPT !.job[j].is = "ask"])

Escalate(j) ==
    /\ pc \in {"draft", "package", "redo"} /\ j \in m.cur /\ m.job[j].is = "ask"
    /\ \/ Go(pc, Is(j, "accepted"))                                     \* override_approve
       \/ (Costs \/ j \in Platform) /\ Go(pc, Is(j, "abandoned"))
       \/ Costs /\ Go(pc, Human(Is(j, "run")))                          \* retry_with_notes

Rest(f) == [f EXCEPT !.cur = {}, !.job = [j \in Job |-> Idle]]
Settled == \A j \in m.cur : m.job[j].is \in {"accepted", "abandoned"}
Abandoned == \E j \in m.cur : m.job[j].is = "abandoned"

(* ---- scripts and product, then the recordings ------------------------------------- *)
Anew(f, ps) == [f EXCEPT !.made = @ + 1, !.ver = [p \in Piece |-> IF p \in ps THEN f.made + 1 ELSE @[p]]]
Sources(f)  == {f.ver[p] : p \in Script \cup {"product"}}
Platforms(f) == IF f.guide THEN Platform ELSE Platform \ {"kdp"}

BackToPick(f) == Go("research", Human([Rest(f) EXCEPT !.todo = {}]))

Draft ==
    /\ pc = "draft" /\ Settled
    /\ IF Abandoned THEN BackToPick(m)
       ELSE \E g \in BOOLEAN :
              Go("record", [Anew(Rest(m), Script \cup {"product"}) EXCEPT
                               !.guide = g, !.from = [p \in Platform |-> {}]])
(* Gate 2: asked again until every file is there.                             *)
Recorded ==
    /\ pc = "record"
    /\ Go("package", [m EXCEPT !.todo = Platforms(m), !.ver = [p \in Piece |-> IF p \in Platform THEN 0 ELSE @[p]]])

(* ---- the packages -------------------------------------------------------------------- *)
Take ==
    /\ pc \in {"package", "redo"} /\ m.cur = {}
    /\ \E j \in m.todo : Go(pc, Begin([m EXCEPT !.todo = @ \ {j}], {j}))

Withdraw(f, p) == [f EXCEPT !.approved = @ \ {p}]

Packaged ==
    /\ pc = "package" /\ m.cur # {} /\ Settled
    /\ \E p \in m.cur :
         LET f == Withdraw([Anew(Rest(m), {p}) EXCEPT !.from[p] = Sources(m)], p) IN
         Go("package", IF Abandoned THEN [f EXCEPT !.dropped = @ \cup {p}, !.ver[p] = 0] ELSE f)

Applicable == Script \cup {"product"} \cup (Platforms(m) \ m.dropped)
AllPackaged ==
    /\ pc = "package" /\ m.cur = {} /\ m.todo = {}
    /\ LET f == [m EXCEPT !.approved = @ \cap Applicable] IN
       Go(IF f.approved = Applicable THEN "measure" ELSE "approve", f)

(* ---- the approval -------------------------------------------------------------------- *)
Remaining == Applicable \ m.approved
Approve ==
    /\ pc = "approve"
    /\ \E yes \in SUBSET Remaining, notes \in SUBSET Remaining :
         /\ yes \cap notes = {} /\ yes \cup notes # {} /\ (notes # {} => Costs)
         /\ LET f == [m EXCEPT !.approved = @ \cup yes, !.noted = notes, !.changed = FALSE,
                               !.seen = [p \in Piece |-> IF p \in yes THEN m.ver[p] ELSE @[p]],
                               !.todo = notes \ Platform] IN
            Go("redo", IF notes = {} THEN f ELSE Human(f))

Redone ==
    /\ pc = "redo" /\ m.cur # {} /\ Settled
    /\ IF Abandoned THEN BackToPick(m)
       ELSE \E g \in IF "product" \in m.cur THEN BOOLEAN ELSE {m.guide} :
              Go("redo", [Anew(Rest(m), m.cur) EXCEPT !.changed = TRUE, !.guide = g])

(* A platform that the product no longer suits is forgotten, dropped or not.   *)
Again(f) == {p \in Platforms(f) \ f.dropped : f.changed \/ p \in f.noted \/ f.ver[p] = 0}
AllRedone ==
    /\ pc = "redo" /\ m.cur = {} /\ m.todo = {}
    /\ LET f == [m EXCEPT !.dropped = @ \cap Platforms(m),
                          !.ver = [p \in Piece |-> IF p \in Platform \ Platforms(m) THEN 0 ELSE @[p]]]
       IN  Go("package", [f EXCEPT !.todo = Again(f), !.noted = {}, !.changed = FALSE])

(* ---- the totals of all runs ------------------------------------------------------------------ *)
Record(t, run) ==
    IF run \in t.runs THEN t ELSE [runs |-> t.runs \cup {run}, cost |-> t.cost + 1]
Measure == pc = "measure" /\ Go("save", [m EXCEPT !.mine = m.totals])
Save    == pc = "save" /\ Go("saved", [m EXCEPT !.totals = Record(m.mine, 1)])
Saved   == pc = "saved" /\ Go("done", m)
(* The run dies before the save is recorded, and is resumed: it saves again.  *)
Crash   == pc = "saved" /\ ~m.crashed /\ Go("save", [m EXCEPT !.crashed = TRUE])
Answer == Pick \/ Approve \/ Recorded \/ \E j \in Job : Escalate(j)
Step == \/ Research \/ Draft \/ Take \/ Packaged \/ AllPackaged \/ Redone \/ AllRedone
        \/ Measure \/ Save \/ Saved
        \/ \E j \in Job : Round(j)
Next == Step \/ Answer \/ Crash
Spec == Init /\ [][Next]_vars /\ WF_vars(Step)

(* What a run ends with is what the human approved, piece by piece, and every *)
(* package in it was made from the scripts and the product that are in it,    *)
(* whatever was sent back, dropped or made again in between.                  *)
FinalIsApproved ==
    pc \in {"measure", "save", "saved", "done"} =>
        /\ m.approved = Applicable
        /\ \A p \in Applicable : m.ver[p] # 0 /\ m.seen[p] = m.ver[p]
        /\ \A p \in Applicable \cap Platform : m.from[p] = Sources(m)

(* No draft is made a fourth time before a human was asked.                   *)
RoundsAreAsked ==
    \A j \in Job : m.job[j].round > MaxRound => m.human > 0

(* The totals count the cost of each run they name once, crashes or not.      *)
TotalsAgree == m.totals.cost = Cardinality(m.totals.runs)

(* A run never goes on for ever without a human.                              *)
Waiting == pc \in {"pick", "record", "approve"} \/ \E j \in m.cur : m.job[j].is = "ask"
Rests == Waiting \/ pc \in {"done", "failed"}
===============================================================================
