--------------------------- MODULE CodeToWorkflow ---------------------------
(***************************************************************************)
(* The bundled workflow that recreates a codebase as a workflow             *)
(* (botpipe/workflows/code_to_workflow): the behaviors of the code are      *)
(* distilled, a workflow is designed and built, each reviewed and sent back *)
(* to itself or to the one before it, and the result is published when the  *)
(* design's coverage map handles every required behavior.                   *)
(*                                                                         *)
(* Nothing bounds the loops; the publication reads the files as they lie in *)
(* the run's folder, the turns read what was captured of them.              *)
(***************************************************************************)
EXTENDS Naturals

CONSTANTS Behavior,                \* behaviors of the code
          MaxTurn, MaxCrash        \* bounds: turns of the run, deaths of its process

VARIABLES pc, m
vars == <<pc, m>>

(* What a turn made is a version, never used twice; a review is of a version. *)
(* fresh: the captured design or build is still in the order it was made in;  *)
(* in a replay its names are sorted.  told: a recorded call went by the order *)
(* of making.                                                                 *)
None    == 0
NoDesign == [made |-> None, behavior |-> None, review |-> None, fresh |-> FALSE]
NoBuild  == [made |-> None, design |-> NoDesign, behavior |-> None, review |-> None, fresh |-> FALSE]
Init ==
    /\ pc = "bootstrap"
    /\ m = [behavior |-> None, design |-> NoDesign, build |-> NoBuild,
            behaviorReview |-> None, designReview |-> None, buildReview |-> None,
            feedback |-> None, pending |-> None,
            required |-> {}, handled |-> {}, receipt |-> {},
            told |-> FALSE, turns |-> 0, crashes |-> 0]

Go(l, f) == pc' = l /\ m' = f
Turn(f)  == [f EXCEPT !.turns = @ + 1]
May      == m.turns < MaxTurn
New      == m.turns + 1
Bootstrap == pc = "bootstrap" /\ Go("behavior", m)

(* ---- behaviors ------------------------------------------------------------------ *)
(* A required behavior may also be found later; an inventory lists some.           *)
Distill ==
    /\ pc = "behavior" /\ May
    /\ \E required \in SUBSET Behavior :
         Go("behavior review", Turn([m EXCEPT !.behavior = New, !.required = required]))
ReviewBehavior ==
    /\ pc = "behavior review" /\ May
    /\ LET f == Turn([m EXCEPT !.behaviorReview = m.behavior]) IN
       \/ Go("behavior", [f EXCEPT !.feedback = m.behavior])
       \/ Go("redesign", f)

(* ---- design ----------------------------------------------------------------------- *)
Redesign == pc = "redesign" /\ Go("design", [m EXCEPT !.feedback = m.pending, !.pending = None])
Design ==
    /\ pc = "design" /\ May
    /\ \E handled \in SUBSET Behavior :
         Go("design review",
            Turn([m EXCEPT !.design = [made |-> New, behavior |-> m.behavior,
                                       review |-> m.behaviorReview, fresh |-> TRUE],
                           !.handled = handled]))
ReviewDesign ==
    /\ pc = "design review" /\ May
    /\ LET f == Turn([m EXCEPT !.designReview = m.design.made, !.told = @ \/ m.design.fresh]) IN
       \/ Go("build", [f EXCEPT !.feedback = None])
       \/ Go("behavior", [f EXCEPT !.feedback = m.design.made])
       \/ Go("design", [f EXCEPT !.feedback = m.design.made])

(* ---- build -------------------------------------------------------------------------- *)
Build ==
    /\ pc = "build" /\ May
    /\ Go("build review",
          Turn([m EXCEPT !.build = [made |-> New, design |-> m.design, behavior |-> m.behavior,
                                    review |-> m.designReview, fresh |-> TRUE],
                         !.told = @ \/ m.design.fresh]))
ReviewBuild ==
    /\ pc = "build review" /\ May
    /\ LET f == Turn([m EXCEPT !.buildReview = m.build.made,
                               !.told = @ \/ m.design.fresh \/ m.build.fresh]) IN
       \/ Go("publish", f)
       \/ Go("redesign", [f EXCEPT !.pending = m.build.made])
       \/ Go("build", [f EXCEPT !.feedback = m.build.made])

(* ---- publication ---------------------------------------------------------------------- *)
(* Not every built workflow can be discovered and imported.                        *)
Unhandled == m.required \ m.handled
Publishable == m.required # {} /\ Unhandled = {}
Publish ==
    /\ pc = "publish"
    /\ \/ Publishable /\ Go("done", [m EXCEPT !.receipt = m.required])
       \/ Go("failed", m)

(* ---- death and resumption --------------------------------------------------------------- *)
(* A replay passes the names of what was designed and built in sorted order.       *)
(* The call that was under way may be on record already.                        *)
Goes == \/ pc \in {"design review", "build", "build review"} /\ m.design.fresh
        \/ pc = "build review" /\ m.build.fresh
Crash ==
    /\ pc \notin {"done", "failed", "mismatch"} /\ m.crashes < MaxCrash
    /\ \E begun \in BOOLEAN :
         LET told == m.told \/ (begun /\ Goes)
             f == [m EXCEPT !.crashes = @ + 1, !.design.fresh = FALSE, !.build.fresh = FALSE, !.told = told]
         IN  Go(IF told THEN "mismatch" ELSE pc, f)

Step == \/ Bootstrap \/ Distill \/ ReviewBehavior \/ Redesign \/ Design \/ ReviewDesign
        \/ Build \/ ReviewBuild \/ Publish
Next == Step \/ Crash

(* What is published was built from the accepted design, which was made from   *)
(* the accepted behaviors, each with the review that accepted it, and the      *)
(* coverage that was checked is that design's and handles those behaviors,     *)
(* whichever loops the run was thrown back over.                               *)
PublishedIsAccepted ==
    pc = "done" =>
        /\ m.receipt # {} /\ m.receipt \subseteq m.handled
        /\ m.build.design.made = m.design.made /\ m.build.behavior = m.behavior
        /\ m.design.behavior = m.behavior
        /\ m.design.review = m.behavior /\ m.behaviorReview = m.behavior
        /\ m.build.review = m.design.made /\ m.designReview = m.design.made
        /\ m.buildReview = m.build.made
===============================================================================
