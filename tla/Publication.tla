----------------------------- MODULE Publication -----------------------------
(***************************************************************************)
(* Publication of an optimization recommendation                            *)
(* (botpipe_optimizer/recommendations.py).  Every publication is one        *)
(* directory named by its contents; the receipt at the root selects one of  *)
(* them and is the only name that changes.  Publishers run side by side and *)
(* may die between any two steps, the machine may lose power, and somebody  *)
(* may edit an installed file while it is loaded.                           *)
(*                                                                         *)
(* A publication is what it was made of; its directory is named by it.      *)
(***************************************************************************)
EXTENDS Naturals, Sequences

CONSTANTS Publisher,                 \* processes that publish into one root
          MaxCall,                   \* bound: publications begun
          MaxFault                   \* bound: deaths, losses of power, edits

VARIABLES pc, m
vars == <<pc, m>>

Set      == {[ev |-> 1, ids |-> <<"a">>], [ev |-> 1, ids |-> <<>>], [ev |-> 2, ids |-> <<"a">>]}
NoSet    == [ev |-> 0, ids |-> <<>>]
Review   == [of : Set, accepted : BOOLEAN]
NoReview == [of |-> NoSet, accepted |-> FALSE]
Input    == [ev : 1 .. 2, set : Set, review : Review \cup {NoReview}]

(* validate_candidate_review, and what publish_recommendation asks for.       *)
Fits(review, set) == review.of = set
Valid(i) ==
    /\ i.set.ev = i.ev
    /\ i.set.ids # <<>> => i.review.accepted
    /\ i.review # NoReview => Fits(i.review, i.set)
Publishable == {i \in Input : Valid(i)}

(* The files of a publication.  A set, a review and an evidence snapshot      *)
(* carry an identity made of all they say; the handoff names the others.      *)
Files(i) == [evidence |-> i.ev, baseline |-> i.ev, set |-> i.set, review |-> i.review, handoff |-> i]

(* dirs: the directories, and synced those whose names are on the disk;       *)
(* receipt: what the root selects, kept what of it is on the disk; given: the *)
(* receipts that callers hold; edited: trusted, and edited afterwards; gap:   *)
(* acknowledged when found under a name that was not on the disk.            *)
None == [ev |-> 0, set |-> NoSet, review |-> NoReview]
Init ==
    /\ pc = [a \in Publisher \cup {"loader"} |-> "idle"]
    /\ m = [dirs |-> [i \in {} |-> 0], synced |-> {}, receipt |-> None, kept |-> None,
            given |-> {}, mine |-> [p \in Publisher |-> None],
            seen |-> Files(None), named |-> None,
            edited |-> {}, gap |-> {}, calls |-> 0, faults |-> 0]

Go(a, l, f) == pc' = [pc EXCEPT ![a] = l] /\ m' = f

(* ---- publish_recommendation ------------------------------------------------ *)
Publish(p) ==
    /\ pc[p] = "idle" /\ m.calls < MaxCall
    /\ \E i \in Publishable :
         Go(p, "rename", [m EXCEPT !.mine[p] = i, !.calls = @ + 1])

(* The directory is complete and synced before it is renamed into place.      *)
Installed(i) == i \in DOMAIN m.dirs
Rename(p) ==
    /\ pc[p] = "rename"
    /\ LET i == m.mine[p] IN
       IF Installed(i) THEN Go(p, "compare", m)
       ELSE Go(p, "sync", [m EXCEPT !.dirs = [j \in DOMAIN @ \cup {i} |->
                                               IF j = i THEN Files(i) ELSE @[j]]])
Sync(p) == pc[p] = "sync" /\ Go(p, "verify", [m EXCEPT !.synced = @ \cup {m.mine[p]}])

AsPublished(i) == Installed(i) /\ m.dirs[i] = Files(i)

(* _verify_generation, and _verified_receipt_artifacts before the selection.  *)
Compare(p) ==
    /\ pc[p] = "compare"
    /\ IF AsPublished(m.mine[p])
       THEN Go(p, "verify", [m EXCEPT !.gap = @ \cup ({m.mine[p]} \ m.synced)])
       ELSE Go(p, "idle", m)
Verify(p) ==
    /\ pc[p] = "verify"
    /\ Go(p, IF AsPublished(m.mine[p]) THEN "replace" ELSE "idle", m)

Replace(p) == pc[p] = "replace" /\ Go(p, "commit", [m EXCEPT !.receipt = m.mine[p]])
Commit(p)  ==
    /\ pc[p] = "commit"
    /\ Go(p, "idle", [m EXCEPT !.kept = m.receipt, !.given = @ \cup {m.mine[p]}])

(* ---- load_optimization_candidate -------------------------------------------- *)
Load ==
    /\ pc["loader"] = "idle" /\ m.receipt.review.accepted /\ m.receipt.set.ids # <<>>
    /\ Go("loader", "hash", [m EXCEPT !.named = m.receipt])
Refuse == Go("loader", "refused", m)
Hash ==
    /\ pc["loader"] = "hash"
    /\ IF AsPublished(m.named) THEN Go("loader", "set", m) ELSE Refuse

(* Every file is read again after its hash was checked, one by one.           *)
Named(f) == Installed(m.named) /\ m.dirs[m.named][f] = Files(m.named)[f]
Take(f, next) == Go("loader", next, [m EXCEPT !.seen[f] = m.dirs[m.named][f]])
Read(f, next) == pc["loader"] = f /\ IF Named(f) THEN Take(f, next) ELSE Refuse
ReadSet      == Read("set", "evidence")
ReadEvidence == Read("evidence", "baseline")
ReadBaseline == Read("baseline", "handoff")
ReadHandoff  == Read("handoff", "review")

TheReview(r) == Fits(r, m.seen.set) /\ r.accepted /\ r = m.named.review
ReadReview ==
    /\ pc["loader"] = "review"
    /\ IF Installed(m.named) /\ TheReview(m.dirs[m.named].review)
       THEN Take("review", "loaded") ELSE Refuse

(* ---- faults ------------------------------------------------------------------ *)
Fault(f) == m.faults < MaxFault /\ m' = [f EXCEPT !.faults = @ + 1]

(* Somebody may edit a file of it before it is trusted, or afterwards.        *)
Trusted(i) ==
    \/ i \in m.given \cup {m.receipt, m.kept}
    \/ \E p \in Publisher : pc[p] \in {"replace", "commit"} /\ m.mine[p] = i
Edit ==
    \E i \in DOMAIN m.dirs, j \in Input, f \in {"set", "review"} :
        /\ m.dirs[i][f] # Files(j)[f]
        /\ Fault([m EXCEPT !.dirs[i][f] = Files(j)[f],
                           !.edited = IF Trusted(i) THEN @ \cup {i} ELSE @])
        /\ UNCHANGED pc

Die(p) == pc[p] # "idle" /\ Fault(m) /\ pc' = [pc EXCEPT ![p] = "idle"]

(* What was not synced may be lost.                                           *)
PowerLoss ==
    /\ \E lost \in SUBSET (DOMAIN m.dirs \ m.synced), r \in {m.receipt, m.kept} :
         LET left == DOMAIN m.dirs \ lost IN
         Fault([m EXCEPT !.dirs = [i \in left |-> @[i]], !.synced = left,
                         !.receipt = r, !.kept = r])
    /\ pc' = [a \in DOMAIN pc |-> "idle"]

Step ==
    \/ \E p \in Publisher : Rename(p) \/ Sync(p) \/ Compare(p) \/ Verify(p) \/ Replace(p) \/ Commit(p)
    \/ Hash \/ ReadSet \/ ReadEvidence \/ ReadBaseline \/ ReadHandoff \/ ReadReview
Next == Step \/ Load \/ Edit \/ PowerLoss
        \/ \E p \in Publisher : Publish(p) \/ Die(p)
Spec == Init /\ [][Next]_vars /\ WF_vars(Step)

(* A receipt that was selected or given names a whole publication, whatever   *)
(* is published later and whoever dies or loses power, unless it was edited   *)
(* after it was verified.  One that a publisher found in place before its name *)
(* was on the disk is acknowledged without a sync (recommendations.py:819) and *)
(* may be lost with the power, but never in part.                             *)
ReceiptNamesAll ==
    \A i \in (m.given \cup {m.receipt, m.kept}) \ ({None} \cup m.edited) :
        AsPublished(i) \/ (i \in m.gap /\ ~Installed(i))

(* A candidate that is loaded is one that its review accepted, in the set the *)
(* receipt names, on the evidence it was found in, though the files may have  *)
(* been edited after their hashes were checked.                               *)
LoadedIsAccepted ==
    pc["loader"] = "loaded" => Valid([ev |-> m.seen.evidence, set |-> m.seen.set, review |-> m.seen.review])

(* Publishing and loading end.                                                *)
Rests == \A a \in DOMAIN pc : pc[a] \in {"idle", "loaded", "refused"}
===============================================================================
