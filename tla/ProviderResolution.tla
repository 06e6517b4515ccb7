-------------------------- MODULE ProviderResolution --------------------------
(***************************************************************************)
(* The operator's choice over an unfinished provider operation: retry it,   *)
(* accept an answer for it, or fail it (Botpipe.resolve in                  *)
(* botpipe/runtime.py).  The choice is recorded before it takes effect, and *)
(* a resume first finishes a recorded choice.                               *)
(*                                                                         *)
(* goal holds the choice while a resolve call runs; selected is the choice  *)
(* in the ledger; waived holds the attempts whose fate was unknown when the *)
(* operator overrode them; ruled says that the operator failed the row.     *)
(***************************************************************************)
EXTENDS ProviderOperation

CONSTANT MaxChoice           \* bound: resolve calls that make a new choice
ASSUME ChoiceAssumption == MaxChoice \in Nat

VARIABLES selected, waived, choices, ruled

allVars == <<vars, selected, waived, choices, ruled>>
Choice  == {"retry", "accept", "fail"}

RInit == /\ Init
         /\ selected = "none" /\ waived = {} /\ choices = 0 /\ ruled = FALSE

(* A failed operation may be failed again: by the operator who failed it, or *)
(* to retry its cleanup.  What an operator accepted is incomplete as well.   *)
NotClean(r) == r.cleanup \in {"pending", "incomplete", "accepted"}
Resolvable(c) ==
    \/ op = "open"
    \/ op = "failed" /\ c = "fail" /\ (ruled \/ NotClean(att[Tried]))

Resolve(c) ==
    /\ pc = "off" /\ Resolvable(c) /\ selected \in {"none", c}
    /\ ck.kind \notin {"refused", "overBudget"}
    /\ selected = "none" => ~OwnerInvalid /\ choices < MaxChoice
    /\ choices' = IF selected = "none" THEN choices + 1 ELSE choices
    /\ caller' = "resolve" /\ goal' = c /\ cur' = Tried
    /\ IF ck.kind \in Answered
       THEN pc' = "decide" /\ outcome' = "completed"
       ELSE pc' = "recover" /\ UNCHANGED outcome
    /\ UNCHANGED <<ledger, outside, allow, seen, need, adapter, faults,
                   selected, waived, ruled>>

Resolving(l) == pc = l /\ caller = "resolve"

(* Faulty: the answer is adopted again before its failure is cleaned up.     *)
NeverCleansUp == FALSE

(* What the attempt turned out to be overrules a retry or an acceptance, and  *)
(* goes to the row, unless a failure is only to be cleaned up.               *)
CleansUp == goal = "fail" /\ op = "failed" /\ NotClean(A)
Adopting == outcome = "completed" /\ ~CleansUp
(* Faulty: the recorded answer does not stop a retry.                       *)
RetryAnyway == goal = "retry"

Retrying == goal = "retry" /\ ~Adopting

(* Faulty: a turn known to be running can be overridden.                    *)
SelectRunning ==
    /\ Resolving("decide")
    /\ ck.kind = "empty" => goal # "accept"
    /\ selected' = goal
    /\ waived' = IF outcome = "unknown" THEN waived \cup {cur} ELSE waived
    /\ Goto("persist")
    /\ UNCHANGED <<ledger, outside, adapter, faults>>

Select ==
    /\ Resolving("decide") /\ outcome \in {"completed", "stopped", "unknown"}
    /\ ck.kind = "empty" => goal # "accept"
    /\ selected' = goal
    /\ waived' = IF outcome = "unknown" THEN waived \cup {cur} ELSE waived
    /\ Goto("persist")
    /\ UNCHANGED <<ledger, outside, adapter, faults>>

(* Running, a policy error, or a choice the checkpoint does not allow.      *)
Rejected ==
    /\ Resolving("decide") /\ Off
    /\ UNCHANGED <<ledger, outside, adapter, faults, selected, waived>>

(* The row of a failed operation takes no answer, not the one it has either: *)
(* UncertainOperation.                                                      *)
Persist ==
    /\ pc = "persist"
    /\ IF op = "failed" /\ Adopting THEN Off /\ UNCHANGED ck
       ELSE /\ Goto("settle")
            /\ ck' = IF (Adopting \/ goal = "accept") /\ ck.kind \notin Answered
                     THEN ck0("responded", cur - 1) ELSE ck
    /\ UNCHANGED <<op, att, held, outside, adapter, faults, selected, waived>>

(* settle_operation_owner: as finish_owner, but a server that cannot be     *)
(* shown to be gone is accepted as such instead of blocking the call.       *)
AbortOwner == outcome # "completed" \/ NotClean(A)
AcceptedOwner == A.cleanup = "accepted" \/ (~AbortOwner /\ A.disposal = "accepted")
SettledOwner ==
    \/ AcceptedOwner
    \/ A.disposal = "completed" /\ (AbortOwner => A.cleanup = "completed")
OwnerNote(e) == [A EXCEPT !.disposal = e,
                          !.cleanup = IF AbortOwner THEN e ELSE @]

Settle ==
    /\ pc = "settle"
    /\ IF A.status = "absent"
       THEN UNCHANGED <<att, need>> /\ pc' = "apply"
       ELSE /\ pc' = "let_go"
            /\ need' = (~SettledOwner /\ (A.disposal # "none" \/ A.authorized))
            /\ IF SettledOwner THEN UNCHANGED att ELSE Note(OwnerNote("pending"))
    /\ UNCHANGED <<op, ck, held, outside, cur, goal, outcome, allow, seen,
                   adapter, caller, faults, selected, waived>>

(* A confirmed exit is overwritten as well, if the owner does not go now.   *)
LetGo ==
    /\ pc = "let_go" /\ Goto("apply")
    /\ \/ /\ owner # "none" \/ ~need
          /\ IF owner = "none" THEN UNCHANGED <<server, turn>> ELSE Exit(proc)
          /\ owner' = "none" /\ proc' = 0
          /\ IF AcceptedOwner THEN UNCHANGED att ELSE Note(OwnerNote("completed"))
       \/ /\ owner # "none" \/ need
          /\ IF owner = "none" THEN UNCHANGED <<server, turn>> ELSE MaybeGone
          /\ IF AbortOwner /\ Retrying
             THEN owner' = "none" /\ proc' = 0
             ELSE /\ owner' = (IF owner = "none" THEN "none" ELSE "closed")
                  /\ UNCHANGED proc
          /\ IF AcceptedOwner THEN UNCHANGED att ELSE Note(OwnerNote("accepted"))
    /\ UNCHANGED <<op, ck, held, started, home, foul, faults, selected, waived>>

(* fail ends the operation; retry names the next attempt, which takes over  *)
(* the conversation; an accepted or adopted answer frees it.                *)
ApplyFail ==
    /\ pc = "apply" /\ goal = "fail"
    /\ op' = "failed" /\ Goto("free")
    /\ UNCHANGED <<ck, att, held, outside, adapter, faults, selected, waived>>

ApplyRetry ==
    /\ pc = "apply" /\ Retrying
    /\ \/ /\ ck.kind # "empty" /\ cur < MaxAttempt
          /\ ck' = [kind |-> "retry", gen |-> cur, origin |-> "operator"]
          /\ Goto("reclaim")
       \/ ck.kind = "empty" /\ Off /\ UNCHANGED ck     \* ProviderCheckpointError
    /\ UNCHANGED <<op, att, held, outside, adapter, faults, selected, waived>>

ApplyAnswer ==
    /\ pc = "apply" /\ goal # "fail" /\ ~Retrying
    /\ Goto("free")
    /\ UNCHANGED <<ledger, outside, adapter, faults, selected, waived>>

Reclaim ==
    /\ pc = "reclaim" /\ Goto("reconcile")
    /\ held' = cur + 1
    /\ UNCHANGED <<op, ck, att, outside, adapter, faults, selected, waived>>

Free ==
    /\ pc = "free" /\ Goto("reconcile")
    /\ held' = 0
    /\ UNCHANGED <<op, ck, att, outside, adapter, faults, selected, waived>>

Reconcile ==
    /\ pc = "reconcile" /\ Off
    /\ selected' = "none"
    /\ UNCHANGED <<ledger, outside, adapter, faults, waived>>

ResolveWork == \/ Select \/ Rejected \/ Persist \/ Settle \/ LetGo \/ ApplyFail
               \/ ApplyRetry \/ ApplyAnswer \/ Reclaim \/ Free \/ Reconcile

(* What a resolution writes to the row is the operator's failure.           *)
Carry == ResolveWork /\ UNCHANGED choices /\ ruled' = (ruled \/ op' # op)

(* A resume first finishes a recorded choice; then the program runs.        *)
EnterAnyway == Enter /\ UNCHANGED <<selected, waived>>
EnterResolved == selected = "none" /\ Enter /\ UNCHANGED <<selected, waived>>

RNext ==
    \/ \E c \in Choice : Resolve(c)
    \/ Carry
    \/ EnterResolved /\ UNCHANGED <<choices, ruled>>
    \/ (Work \/ World) /\ UNCHANGED <<selected, waived, choices, ruled>>

RSpec == RInit /\ [][RNext]_allVars

-----------------------------------------------------------------------------
(* Two turns act at once only if the operator overrode the older one, and an *)
(* operation that is not retry_safe sends one turn, whatever fails, and one   *)
(* more for each choice of the operator.                                     *)
SecondTurnWasWaived ==
    /\ \A a, b \in Attempts : Live(a) /\ Live(b) /\ a < b => a \in waived
    /\ ~RetrySafe => Cardinality({a \in Attempts : turn[a] # "none"}) <= 1 + choices

(* A clean answer in the ledger wins over every choice: it is never lost to  *)
(* a retry.                                                                 *)
AnswerOutlivesChoice ==
    \A a, b \in Attempts :
        att[a].answer /\ ~foul[a] /\ a < b => turn[b] = "none"

(* Numbers do not go back and a verdict stands, whoever acts; an answered   *)
(* operation stays answered.                                                *)
ChoicesOnlyAdvance ==
    [][ /\ Tried' >= Tried
        /\ ck.kind \in Answered => ck'.kind \in Answered /\ ck'.gen = ck.gen
        /\ \A a \in Attempts : att[a].status \in {"completed", "failed"}
                              => att'[a].status = att[a].status
        /\ op \in {"completed", "failed"} => op' = op ]_<<op, ck, att>>

(* The ledger takes no answer for a failed row, so a choice that wants to     *)
(* write one ends there.  That never happens to an operator who fails a row    *)
(* again for the sake of its cleanup; it does when only the conversation and   *)
(* the record of the choice are left, after a death behind the failed row, and *)
(* at every resume (runtime.py:1995, journal.py:1068): such a choice, unlike    *)
(* the one of tests/test_session_bindings.py:429, is never finished.          *)
CleanupIsNotRefused ==
    [][Persist /\ pc' = "off" => ruled /\ ~NotClean(A)]_allVars

(* While a choice is recorded and unfinished no turn is sent.               *)
NoTurnUnderAChoice == [][ turn' # turn /\ selected # "none" =>
    \A a \in Attempts : turn[a] = "none" => turn'[a] = "none" ]_<<turn>>
=============================================================================
