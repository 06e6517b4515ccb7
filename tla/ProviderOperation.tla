-------------------------- MODULE ProviderOperation --------------------------
(***************************************************************************)
(* One provider operation, from begin to verdict (botpipe/operations.py,   *)
(* provider_checkpoints.py, recovery.py, providers.py, codex_appserver.py).*)
(*                                                                         *)
(* Durable: the operation's row and checkpoint, its attempts, the owner of *)
(* its conversation.  Outside: app-servers and the model turns they run;   *)
(* they outlive the process that started them.  Volatile: where the        *)
(* executor is, and the adapter it keeps for the operation.                *)
(*                                                                         *)
(* The executor may die between any two writes.  A turn/start that was     *)
(* written to a server may be accepted after its writer died.  The         *)
(* operation has a session and no output repairs (output_retries = 0).     *)
(***************************************************************************)
EXTENDS Naturals, FiniteSets

CONSTANTS
    MaxAttempt,              \* bound: attempts of the operation
    MaxServer,               \* bound: app-server processes started
    MaxFaults,               \* bound: crashes and servers dying by themselves
    RetrySafe,               \* retry_safe as recorded with the operation
    ReadOnly                 \* preset query or generate, not run

ASSUME BoundAssumption == /\ MaxAttempt \in Nat \ {0}
                          /\ MaxServer \in Nat \ {0} /\ MaxFaults \in Nat
ASSUME FlagAssumption  == {RetrySafe, ReadOnly} \subseteq BOOLEAN

Attempts == 1..MaxAttempt
Server   == 1..MaxServer

VARIABLES
    op, ck, att, held,                       \* the ledger and the binding
    server, started, turn, home, foul,       \* outside
    pc, cur, goal, outcome, allow, seen,     \* the executor
    need, owner, proc, caller,
    faults

ledger  == <<op, ck, att, held>>
outside == <<server, started, turn, home, foul>>
adapter == <<owner, proc>>
vars == <<ledger, outside, pc, cur, goal, outcome, allow, seen, need, adapter,
          caller, faults>>

Empty == [kind |-> "empty", gen |-> 0, origin |-> "none"]
CkKind == {"empty", "intent", "retry", "refused", "overBudget",
           "responded", "validated", "invalid"}
Checkpoint == [kind : CkKind, gen : 0..MaxAttempt,
               origin : {"none", "automatic", "operator"}]
ck0(kind, g) == [kind |-> kind, gen |-> g, origin |-> "none"]

Evidence == {"none", "pending", "completed", "incomplete", "accepted"}
Status == {"absent", "prepared", "configured", "thread_bound", "turn_intent",
           "turn_acknowledged", "turn_terminal", "response_received",
           "completed", "failed"}
Record == [status : Status, authorized : BOOLEAN, named : BOOLEAN,
           answer : BOOLEAN, policy : BOOLEAN,
           disposal : Evidence, cleanup : Evidence]
NoAttempt == [status |-> "absent", authorized |-> FALSE, named |-> FALSE,
              answer |-> FALSE, policy |-> FALSE,
              disposal |-> "none", cleanup |-> "none"]

Answered == {"responded", "validated", "invalid"}

(* The attempt a checkpoint speaks about: a retry marker names the next    *)
(* generation, every other checkpoint its own.                             *)
Tried == IF ck.kind = "retry" THEN ck.gen ELSE ck.gen + 1

A == att[cur]
Running == turn[cur] \in {"wire", "running"}
OpenCleanup(r) == r.cleanup \in {"incomplete", "accepted"}

(* A server that exits takes the turns it runs and what it did not read.   *)
Exit(s) == /\ server' = server \ {s}
           /\ turn' = [a \in Attempts |->
                IF home[a] = s /\ turn[a] \in {"wire", "running"}
                THEN "stopped" ELSE turn[a]]

Note(r) == att' = [att EXCEPT ![cur] = r]

Init ==
    /\ op = "absent" /\ ck = Empty /\ held = 0
    /\ att = [a \in Attempts |-> NoAttempt]
    /\ server = {} /\ started = 0
    /\ turn = [a \in Attempts |-> "none"]
    /\ home = [a \in Attempts |-> 0]
    /\ foul = [a \in Attempts |-> FALSE]
    /\ pc = "off" /\ cur = 1 /\ goal = "none" /\ outcome = "none"
    /\ allow = FALSE /\ seen = {} /\ need = FALSE
    /\ owner = "none" /\ proc = 0 /\ caller = "execute"
    /\ faults = 0

(* UncertainOperation, BudgetExceeded and a cancellation leave the row as   *)
(* it is; the process and its adapter stay.                                *)
Off == /\ pc' = "off" /\ cur' = 1 /\ goal' = "none" /\ outcome' = "none"
       /\ allow' = FALSE /\ seen' = {} /\ need' = FALSE /\ caller' = "execute"
Volatile == <<cur, goal, outcome, allow, seen, need, caller>>

-----------------------------------------------------------------------------
(* Entering the operation: RunContext._operation and the head of execute.  *)

Begin ==
    /\ pc = "off" /\ op = "absent"
    /\ op' = "open"
    /\ pc' = "preflight" /\ cur' = 1 /\ allow' = RetrySafe
    /\ UNCHANGED <<ck, att, held, outside, goal, outcome, seen, need, adapter,
                   caller, faults>>

(* SessionBinding.check refuses an owner attempt that was neither prepared *)
(* nor named by the latest operator retry.                                 *)
OwnerInvalid ==
    /\ held # 0 /\ att[held].status = "absent"
    /\ ~ (ck.kind = "retry" /\ ck.origin = "operator" /\ ck.gen + 1 = held)

(* A retry needs retry_safe now and when the operation was recorded.        *)
AllowedRetries == {RetrySafe, FALSE}

(* Resume an unfinished operation; retry_safe may have been tightened.     *)
Resume ==
    /\ pc = "off" /\ op = "open" /\ ck.kind # "overBudget"
    /\ cur' = Tried
    /\ allow' \in AllowedRetries
    /\ \/ ck.kind = "refused" /\ pc' = "fail" /\ UNCHANGED goal
       \/ ck.kind = "invalid" /\ pc' = "dispose" /\ goal' = "fail"
       \/ /\ ck.kind \notin {"refused", "invalid"} /\ OwnerInvalid
          /\ pc' = "fail" /\ UNCHANGED goal
       \/ /\ ck.kind = "validated" \/ ~OwnerInvalid   \* captured: no check
          /\ UNCHANGED goal
          /\ \/ ck.kind = "empty" /\ pc' = "preflight"
             \/ ck.kind \in {"intent", "retry"} /\ pc' = "recover"
             \/ ck.kind \in {"responded", "validated"} /\ pc' = "validate"
    /\ UNCHANGED <<ledger, outside, outcome, seen, need, adapter, caller, faults>>

(* Replay of a settled row: only what follows the verdict may be missing.  *)
Replay ==
    /\ pc = "off" /\ op \in {"completed", "failed"}
    /\ op = "completed" => held # 0
    /\ cur' = Tried
    /\ \/ op = "completed" /\ pc' = "unbind" /\ UNCHANGED goal
       \/ /\ op = "failed" /\ ck.kind \in Answered \cup {"refused"}
          /\ \/ held # 0
             \/ att[Tried].disposal \in {"pending", "incomplete"}
          /\ pc' = "dispose" /\ goal' = "unbind"
    /\ UNCHANGED <<ledger, outside, outcome, allow, seen, need, adapter,
                   caller, faults>>

Enter == Begin \/ Resume \/ Replay

-----------------------------------------------------------------------------
(* Recovery: CodexProvider.recover decides from the attempt's record ...   *)

(* Faulty: an attempt without a turn id is taken for one that was not sent. *)
FromLedgerTrustsIntent(r) ==
    CASE r.status \in {"completed", "response_received"} -> "completed"
      [] ~r.named                                        -> "stopped"
      [] OTHER -> IF owner # "closed" THEN "native" ELSE "unknown"

(* Faulty: the answer in the record is overlooked.                          *)
FromLedgerIgnoresAnswer(r) ==
    IF r.status \in {"absent", "failed", "completed", "response_received"}
    THEN "stopped" ELSE "unknown"

FromLedger(r) ==
    CASE r.status = "absent"                       -> "stopped"
      [] r.policy -> IF r.cleanup = "completed" /\ ReadOnly THEN "policy"
                                                           ELSE "unknown"
      [] /\ ~r.policy /\ r.status \in {"completed", "response_received"}
         /\ r.answer                               -> "completed"
      [] ~r.policy /\ r.status = "failed" /\ ~OpenCleanup(r) -> "stopped"
      [] /\ ~r.policy /\ r.status \in {"configured", "thread_bound"}
         /\ ~r.authorized -> IF OpenCleanup(r) THEN "unknown" ELSE "stopped"
      [] OTHER -> IF r.named /\ owner # "closed" THEN "native" ELSE "unknown"

Recover ==
    /\ pc = "recover"
    /\ IF FromLedger(A) = "native"
       THEN /\ Note([A EXCEPT !.disposal = "pending"])
            /\ pc' = "relaunch" /\ UNCHANGED outcome
       ELSE outcome' = FromLedger(A) /\ pc' = "decide" /\ UNCHANGED att
    /\ UNCHANGED <<op, ck, held, outside, cur, goal, allow, seen, need, adapter,
                   caller, faults>>

(* _start: the adapter keeps a live server, or starts one.                 *)
StartServer ==
    /\ owner # "closed"
    /\ owner' = "open"
    /\ IF proc \in server
       THEN UNCHANGED <<server, started, proc>>
       ELSE /\ started < MaxServer
            /\ started' = started + 1
            /\ proc' = started + 1
            /\ server' = server \cup {started + 1}

Relaunch ==
    /\ pc = "relaunch" /\ StartServer /\ pc' = "read"
    /\ UNCHANGED <<ledger, turn, home, foul, Volatile, faults>>

(* ... or from the native thread history.                                  *)
Read ==
    /\ pc = "read" /\ proc \in server
    /\ \/ /\ turn[cur] = "running"
          /\ outcome' = "running" /\ pc' = "decide" /\ UNCHANGED <<att, turn>>
       \/ /\ turn[cur] = "running"         \* interrupted
          /\ turn' = [turn EXCEPT ![cur] = "stopped"]
          /\ UNCHANGED <<att, outcome, pc>>
       \/ /\ turn[cur] = "completed" /\ ~foul[cur]
          /\ UNCHANGED turn /\ pc' = "decide"
          /\ IF A.status = "failed"
             THEN outcome' = "unknown" /\ UNCHANGED att
             ELSE /\ Note([A EXCEPT !.status = "completed", !.answer = TRUE])
                  /\ outcome' = "completed"
       \/ /\ turn[cur] \in {"completed", "stopped"} /\ foul[cur]
          /\ UNCHANGED turn /\ pc' = "decide"
          /\ \E c \in {"completed", "incomplete"} :
               IF ReadOnly
               THEN Note([A EXCEPT !.cleanup = c, !.policy = TRUE,
                    !.status = IF @ = "completed" THEN @ ELSE "failed"])
               ELSE Note([A EXCEPT !.cleanup = c])
          /\ outcome' = IF ReadOnly /\ A.status # "completed" THEN "policy"
                        ELSE "unknown"
       \/ /\ turn[cur] = "stopped" /\ ~foul[cur]
          /\ UNCHANGED turn /\ pc' = "decide"
          /\ \E c \in {"completed", "incomplete"} :
               IF c = "completed" /\ ~OpenCleanup(A)
               THEN /\ Note([A EXCEPT !.cleanup = c, !.status = "failed"])
                    /\ outcome' = "stopped"
               ELSE /\ Note([A EXCEPT !.cleanup = c])
                    /\ outcome' = "unknown"
    /\ UNCHANGED <<op, ck, held, server, started, home, foul, cur, goal, allow,
                   seen, need, adapter, caller, faults>>

(* Any failure of the native inspection is normalised to Unknown.          *)
ReadFails ==
    /\ pc \in {"relaunch", "read"}
    /\ outcome' = "unknown" /\ pc' = "decide"
    /\ UNCHANGED <<ledger, outside, cur, goal, allow, seen, need, adapter,
                   caller, faults>>

(* ... and ProviderLifecycle.recovery_action turns the outcome into an act. *)
Decide ==
    /\ pc = "decide" /\ caller = "execute" /\ UNCHANGED op
    /\ \/ /\ outcome = "completed"
          /\ ck' = ck0("responded", cur - 1) /\ pc' = "validate"
          /\ UNCHANGED Volatile
       \/ /\ outcome = "stopped" /\ ck.kind = "intent" /\ allow
          /\ cur < MaxAttempt
          /\ ck' = [kind |-> "retry", gen |-> cur, origin |-> "automatic"]
          /\ UNCHANGED <<pc, Volatile>>
       \/ /\ ck.kind = "retry" /\ cur < MaxAttempt
          /\ \/ ck.origin = "automatic" /\ outcome = "stopped" /\ allow
             \/ ck.origin = "operator" /\ outcome \in {"stopped", "unknown"}
          /\ cur' = cur + 1 /\ pc' = "preflight" /\ outcome' = "none"
          /\ UNCHANGED <<ck, goal, allow, seen, need, caller>>
       \/ /\ outcome = "policy"
          /\ A.authorized /\ A.status = "failed" /\ A.cleanup = "completed"
          /\ pc' = "dispose" /\ goal' = "policy"
          /\ UNCHANGED <<ck, cur, outcome, allow, seen, need, caller>>
       \/ /\ outcome # "completed"      \* blocked, or cancelled
          /\ Off /\ UNCHANGED ck
    /\ UNCHANGED <<att, held, outside, adapter, faults>>

-----------------------------------------------------------------------------
(* Dispatch: each durable write, and each step outside, is its own action.  *)

Goto(l) == pc' = l /\ UNCHANGED Volatile

Preflight ==
    /\ pc = "preflight" /\ UNCHANGED op
    /\ \/ ck' = ck0("intent", cur - 1) /\ Goto("prepare")
       \/ ck' = ck0("refused", cur - 1) /\ Goto("fail")
       \/ ck' = ck0("overBudget", cur - 1) /\ Off
       \/ UNCHANGED ck /\ (Goto("fail") \/ Off)    \* another error, cancelled
    /\ UNCHANGED <<att, held, outside, adapter, faults>>

Prepare ==
    /\ pc = "prepare" /\ Goto("claim")
    /\ Note([A EXCEPT !.status = "prepared"])
    /\ UNCHANGED <<op, ck, held, outside, adapter, faults>>

(* Faulty: the conversation is not claimed.                                 *)
ClaimNothing ==
    /\ pc = "claim" /\ Goto("boot")
    /\ UNCHANGED <<ledger, outside, adapter, faults>>

Claim ==
    /\ pc = "claim" /\ Goto("boot")
    /\ held' = cur
    /\ UNCHANGED <<op, ck, att, outside, adapter, faults>>

(* The intent to run a server is durable before the server exists.         *)
Boot ==
    /\ pc = "boot" /\ owner # "closed"
    /\ Note([A EXCEPT !.disposal = "pending"])
    /\ owner' = "open" /\ Goto("launch")
    /\ UNCHANGED <<op, ck, held, outside, proc, faults>>

Launch ==
    /\ pc = "launch" /\ StartServer /\ Goto("configure")
    /\ UNCHANGED <<ledger, turn, home, foul, faults>>

(* A capability the request needs is missing: nothing was dispatched.      *)
Incapable ==
    /\ pc \in {"boot", "configure", "bind"}
    /\ Note([A EXCEPT !.status = "failed", !.policy = ReadOnly])
    /\ Goto("refuse")
    /\ UNCHANGED <<op, ck, held, outside, adapter, faults>>

Refuse ==
    /\ pc = "refuse" /\ ck' = ck0("refused", cur - 1) /\ Goto("fail")
    /\ UNCHANGED <<op, att, held, outside, adapter, faults>>

Configure ==
    /\ pc = "configure" /\ proc \in server /\ Goto("bind")
    /\ Note([A EXCEPT !.status = "configured"])
    /\ UNCHANGED <<op, ck, held, outside, adapter, faults>>

Bind ==
    /\ pc = "bind" /\ proc \in server /\ Goto("reserve")
    /\ Note([A EXCEPT !.status = "thread_bound"])
    /\ UNCHANGED <<op, ck, held, outside, adapter, faults>>

(* Any other failure before dispatch, a cancellation included, leaves the   *)
(* row unfinished and the server, if one started, to the adapter.          *)
NotDispatched ==
    /\ pc \in {"boot", "launch", "configure", "bind", "reserve"}
    /\ Off /\ UNCHANGED <<ledger, outside, adapter, faults>>

Reserve ==
    /\ pc = "reserve"
    /\ \/ Note([A EXCEPT !.authorized = TRUE]) /\ Goto("intent")
       \/ /\ pc' = "teardown" /\ goal' = "budget"
          /\ UNCHANGED <<att, cur, outcome, allow, seen, need, caller>>
    /\ UNCHANGED <<op, ck, held, outside, adapter, faults>>

Intent ==
    /\ pc = "intent" /\ Goto("send")
    /\ Note([A EXCEPT !.status = "turn_intent"])
    /\ UNCHANGED <<op, ck, held, outside, adapter, faults>>

Send ==
    /\ pc = "send" /\ proc \in server /\ Goto("ack")
    /\ turn' = [turn EXCEPT ![cur] = "wire"]
    /\ home' = [home EXCEPT ![cur] = proc]
    /\ UNCHANGED <<ledger, server, started, foul, adapter, faults>>

Ack ==
    /\ pc = "ack" /\ proc \in server
    /\ turn[cur] \in {"running", "completed", "stopped"}
    /\ Note([A EXCEPT !.status = "turn_acknowledged", !.named = TRUE])
    /\ Goto("wait")
    /\ UNCHANGED <<op, ck, held, outside, adapter, faults>>

(* The write, the reply or its record failed, or came too late.            *)
NoAck ==
    /\ pc \in {"intent", "send", "ack"} /\ Goto("teardown")
    /\ UNCHANGED <<ledger, outside, adapter, faults>>

Quiet(r) == [r EXCEPT !.cleanup = "completed", !.disposal = "completed"]

(* start_turn kills the server it wrote to.  Only a kill that found the     *)
(* server alive proves that the turn is over; what the server said before   *)
(* it died then decides what the attempt was.                              *)
TearDown ==
    /\ pc = "teardown" /\ proc \in server /\ Exit(proc)
    /\ \/ /\ turn[cur] = "completed" /\ ~foul[cur]
          /\ Note([Quiet(A) EXCEPT !.status = "response_received",
                                   !.named = TRUE, !.answer = TRUE])
          /\ Goto("answer") /\ UNCHANGED ck
       \/ /\ foul[cur]
          /\ Note([Quiet(A) EXCEPT !.status = "failed", !.policy = TRUE])
          /\ Goto("classify") /\ UNCHANGED ck
       \/ /\ Note([Quiet(A) EXCEPT !.status = "failed"])
          /\ IF goal = "budget" THEN Goto("overBudget") ELSE Off
          /\ UNCHANGED ck
    /\ UNCHANGED <<op, held, started, home, foul, adapter, faults>>

(* What an unverified kill leaves of the server.                           *)
MaybeGone == Exit(proc) \/ UNCHANGED <<server, turn>>

TearDownUnverified ==
    /\ pc = "teardown" /\ MaybeGone
    /\ Note([A EXCEPT !.cleanup = "incomplete"])
    /\ IF goal = "budget" THEN Goto("overBudget") ELSE Off
    /\ UNCHANGED <<op, ck, held, started, home, foul, adapter, faults>>

OverBudget ==
    /\ pc = "overBudget" /\ ck' = ck0("overBudget", cur - 1) /\ Off
    /\ UNCHANGED <<op, att, held, outside, adapter, faults>>

-----------------------------------------------------------------------------
(* The turn: the reader thread takes the server's events in order ...       *)

FoulEvent ==
    /\ pc \in {"wait", "stop"} /\ proc \in server
    /\ foul[cur] /\ seen = {}
    /\ seen' = {"foul"}
    /\ UNCHANGED <<ledger, outside, pc, cur, goal, outcome, allow, need,
                   adapter, caller, faults>>

TurnEvent ==
    /\ pc \in {"wait", "stop"} /\ proc \in server
    /\ turn[cur] = "completed" /\ "answer" \notin seen
    /\ foul[cur] => "foul" \in seen
    /\ Note([A EXCEPT !.status = "response_received", !.answer = TRUE])
    /\ seen' = seen \cup {"answer"}
    /\ UNCHANGED <<op, ck, held, outside, pc, cur, goal, outcome, allow, need,
                   adapter, caller, faults>>

(* ... and the executor waits for them.                                    *)
Answer ==
    /\ \/ pc = "wait" /\ seen = {"answer"}
       \/ pc = "answer"
    /\ Note([A EXCEPT !.status = "completed"])
    /\ Goto("save")
    /\ UNCHANGED <<op, ck, held, outside, adapter, faults>>

TurnFails ==
    /\ pc = "wait" /\ proc \in server /\ seen = {} /\ ~foul[cur]
    /\ turn[cur] = "stopped"
    /\ Note([A EXCEPT !.status = "turn_terminal"])
    /\ Off
    /\ UNCHANGED <<op, ck, held, outside, adapter, faults>>

(* The transport ended by itself: its cleanup cannot be verified.          *)
Affected == "answer" \notin seen \/ "foul" \in seen

TransportLost ==
    /\ pc = "wait" /\ proc \notin server /\ Affected
    /\ Note([A EXCEPT !.cleanup = "incomplete"])
    /\ Off
    /\ UNCHANGED <<op, ck, held, outside, adapter, faults>>

Stop ==
    /\ pc = "wait" /\ proc \in server
    /\ \/ goal' = "policy" /\ "foul" \in seen
       \/ goal' = "timeout" /\ seen = {}
    /\ pc' = "stop"
    /\ UNCHANGED <<ledger, outside, cur, outcome, allow, seen, need, adapter,
                   caller, faults>>

StopTurn ==
    /\ pc = "stop" /\ proc \in server /\ Exit(proc)
    /\ IF Affected THEN Note(Quiet(A)) ELSE UNCHANGED att
    /\ IF goal = "policy" THEN Goto("classify") ELSE Off
    /\ UNCHANGED <<op, ck, held, started, home, foul, adapter, faults>>

StopUnverified ==
    /\ pc = "stop" /\ MaybeGone
    /\ IF Affected THEN Note([A EXCEPT !.cleanup = "incomplete"])
                   ELSE UNCHANGED att
    /\ Off
    /\ UNCHANGED <<op, ck, held, started, home, foul, adapter, faults>>

(* A tool outside the allowlist was used: query and generate record a       *)
(* policy error, run records a plain failure; both end the operation.      *)
Classify ==
    /\ pc = "classify" /\ pc' = "dispose" /\ goal' = "policy"
    /\ Note([A EXCEPT !.status = "failed", !.policy = ReadOnly])
    /\ UNCHANGED <<op, ck, held, outside, cur, outcome, allow, seen, need,
                   adapter, caller, faults>>

Save ==
    /\ pc = "save" /\ ck' = ck0("responded", cur - 1) /\ Goto("validate")
    /\ UNCHANGED <<op, att, held, outside, adapter, faults>>

(* Parse the answer, record the value, capture the artifacts.               *)
Validate ==
    /\ pc = "validate"
    /\ \/ ck.kind = "responded" /\ ck' = [ck EXCEPT !.kind = "validated"]
          /\ UNCHANGED <<pc, Volatile>>
       \/ ck.kind = "validated" /\ UNCHANGED ck
          /\ pc' = "dispose" /\ goal' = "complete"
          /\ UNCHANGED <<cur, outcome, allow, seen, need, caller>>
       \/ ck' = [ck EXCEPT !.kind = "invalid"]
          /\ pc' = "dispose" /\ goal' = "fail"
          /\ UNCHANGED <<cur, outcome, allow, seen, need, caller>>
       \/ ck.kind = "validated" /\ UNCHANGED ck /\ Off       \* OSError
    /\ UNCHANGED <<op, att, held, outside, adapter, faults>>

-----------------------------------------------------------------------------
(* finish_owner: record that the server must go, let it go, record that it  *)
(* went.  A recorded exit or an operator's word stands in for the owner.    *)

Aborting == goal = "policy" \/ (goal = "unbind" /\ ck.kind = "refused")
Confirmed(r) == r.disposal = "completed"
                /\ (Aborting => r.cleanup = "completed")
Resolved(r) == r.cleanup = "accepted"
               \/ (~Aborting /\ r.disposal = "accepted")
Settled(r) == Confirmed(r) \/ Resolved(r)
Owned(r, e) == [r EXCEPT !.disposal = e,
                         !.cleanup = IF Aborting THEN e ELSE @]

Dispose ==
    /\ pc = "dispose" /\ pc' = "release"
    /\ IF A.status = "absent" \/ Settled(A)
       THEN need' = FALSE /\ UNCHANGED att
       ELSE /\ need' = (A.disposal # "none" \/ A.authorized)
            /\ Note(Owned(A, "pending"))
    /\ UNCHANGED <<op, ck, held, outside, cur, goal, outcome, allow, seen,
                   adapter, caller, faults>>

AfterOwner == CASE goal = "complete" -> "complete"
                [] goal = "fail"     -> "fail"
                [] OTHER             -> "unbind"

Release ==
    /\ pc = "release"
    /\ \/ owner # "none" /\ Exit(proc)
       \/ owner = "none" /\ ~need /\ UNCHANGED <<server, turn>>
    /\ owner' = "none" /\ proc' = 0
    /\ Goto(IF A.status = "absent" \/ Settled(A) THEN AfterOwner ELSE "receipt")
    /\ UNCHANGED <<ledger, started, home, foul, faults>>

(* Faulty: the exit is not recorded.                                        *)
ReceiptForgotten ==
    /\ pc = "receipt" /\ Goto(AfterOwner)
    /\ UNCHANGED <<ledger, outside, adapter, faults>>

Receipt ==
    /\ pc = "receipt" /\ Note(Owned(A, "completed")) /\ Goto(AfterOwner)
    /\ UNCHANGED <<op, ck, held, outside, adapter, faults>>

(* The owner is gone, or does not go.                                       *)
ReleaseFails ==
    /\ pc = "release"
    /\ \/ owner = "none" /\ need /\ UNCHANGED <<server, turn, owner>>
       \/ owner # "none" /\ MaybeGone /\ owner' = "closed"
    /\ IF Resolved(A)
       THEN Goto(AfterOwner) /\ UNCHANGED att
       ELSE /\ IF A.status = "absent" THEN UNCHANGED att
                                      ELSE Note(Owned(A, "incomplete"))
            /\ Off
    /\ UNCHANGED <<op, ck, held, started, home, foul, proc, faults>>

Complete ==
    /\ pc = "complete" /\ op' = "completed" /\ Goto("unbind")
    /\ UNCHANGED <<ck, att, held, outside, adapter, faults>>

Fail ==
    /\ pc = "fail" /\ op' = "failed"
    /\ IF ck.kind \in Answered \cup {"refused"}
       THEN /\ pc' = "dispose" /\ goal' = "unbind" /\ cur' = Tried
            /\ UNCHANGED <<outcome, allow, seen, need, caller>>
       ELSE Off
    /\ UNCHANGED <<ck, att, held, outside, adapter, faults>>

(* SessionBinding.finish frees the conversation only for its owner attempt. *)
Unbind ==
    /\ pc = "unbind"
    /\ held' = IF held = cur THEN 0 ELSE held
    /\ IF goal = "policy"
       THEN /\ pc' = "fail" /\ goal' = "none"
            /\ UNCHANGED <<cur, outcome, allow, seen, need, caller>>
       ELSE Off
    /\ UNCHANGED <<op, ck, att, outside, adapter, faults>>

-----------------------------------------------------------------------------
(* Outside.                                                                 *)

Deliver(a) ==
    /\ turn[a] = "wire" /\ home[a] \in server
    /\ turn' = [turn EXCEPT ![a] = "running"]
    /\ UNCHANGED <<ledger, server, started, home, foul, pc, Volatile, adapter,
                   faults>>

TurnEnds(a) ==
    /\ turn[a] = "running"
    /\ \E e \in {"completed", "stopped"} : turn' = [turn EXCEPT ![a] = e]
    /\ UNCHANGED <<ledger, server, started, home, foul, pc, Volatile, adapter,
                   faults>>

Violate(a) ==
    /\ turn[a] = "running" /\ ~foul[a]
    /\ foul' = [foul EXCEPT ![a] = TRUE]
    /\ UNCHANGED <<ledger, server, started, turn, home, pc, Volatile, adapter,
                   faults>>

(* An error notification ends the wait, not the turn.                      *)
TurnErrors ==
    /\ pc = "wait" /\ proc \in server /\ seen = {} /\ ~foul[cur]
    /\ turn[cur] = "running"
    /\ Off
    /\ UNCHANGED <<ledger, outside, adapter, faults>>

ServerDies(s) ==
    /\ s \in server /\ faults < MaxFaults /\ faults' = faults + 1
    /\ Exit(s)
    /\ UNCHANGED <<ledger, started, home, foul, pc, Volatile, adapter>>

(* The process dies; its servers have a session of their own and do not     *)
(* end with it.                                                             *)
Crash ==
    /\ pc # "off" \/ owner # "none"
    /\ faults < MaxFaults /\ faults' = faults + 1
    /\ Off /\ owner' = "none" /\ proc' = 0
    /\ UNCHANGED <<ledger, outside>>

(* The client is closed between two runs.                                  *)
Close ==
    /\ pc = "off" /\ owner # "none"
    /\ Exit(proc) /\ owner' = "none" /\ proc' = 0
    /\ UNCHANGED <<ledger, started, home, foul, pc, Volatile, faults>>

-----------------------------------------------------------------------------
Recovery == Recover \/ Relaunch \/ Read \/ ReadFails \/ Decide
Dispatch == \/ Preflight \/ Prepare \/ Claim \/ Boot \/ Launch \/ Incapable
            \/ Refuse \/ Configure \/ Bind \/ NotDispatched \/ Reserve
            \/ Intent \/ Send \/ Ack \/ NoAck \/ TearDown
            \/ TearDownUnverified \/ OverBudget
Waiting  == \/ FoulEvent \/ TurnEvent \/ Answer \/ TurnFails \/ TransportLost
            \/ Stop \/ StopTurn \/ StopUnverified \/ Classify
Settling == \/ Save \/ Validate \/ Dispose \/ Release \/ Receipt
            \/ ReleaseFails \/ Complete \/ Fail \/ Unbind
Work == Recovery \/ Dispatch \/ Waiting \/ Settling
World == \/ \E a \in Attempts : Deliver(a) \/ TurnEnds(a) \/ Violate(a)
         \/ \E s \in Server : ServerDies(s)
         \/ TurnErrors \/ Crash \/ Close

Next == Enter \/ Work \/ World

Spec == Init /\ [][Next]_vars /\ WF_vars(Work)

-----------------------------------------------------------------------------
Live(a) == turn[a] \in {"wire", "running"}

(* The operation keeps what ProviderTurns promises: turns are sent one      *)
(* after the other, none beside a live one or after a recorded answer, and  *)
(* no verdict falls while a turn may act.                                   *)
Turns == INSTANCE ProviderTurns WITH
    Attempt  <- Attempts,
    sent     <- {a \in Attempts : turn[a] # "none"},
    live     <- {a \in Attempts : Live(a)},
    answered <- IF ck.kind \in Answered THEN ck.gen + 1 ELSE 0,
    verdict  <- IF op \in {"completed", "failed"} THEN op ELSE "open"
RefinesTurns == Turns!Spec

(* A turn that may act has an unfinished operation and an authorized        *)
(* attempt behind it, and that attempt holds the conversation: no other run *)
(* can continue it (operations.py claims before it dispatches).             *)
LiveTurnIsOwned ==
    \A a \in Attempts :
        Live(a) => op = "open" /\ held = a /\ att[a].authorized

(* An attempt is on record as authorized before its turn leaves (the        *)
(* reservation and the turn_intent precede turn/start), so a turn is never   *)
(* sent for an attempt recovery would call stopped.                         *)
SentIsNotCalledStopped ==
    pc = "decide" /\ outcome = "stopped" => ~Live(cur)

(* A turn that completed cleanly and whose answer is in the ledger is never  *)
(* repeated: any later attempt was never sent.                              *)
RecordedAnswerEndsSending ==
    \A a, b \in Attempts :
        att[a].answer /\ ~foul[a] /\ a < b => turn[b] = "none"

(* The conversation is released only when the server of the attempt that    *)
(* held it was recorded as gone.                                            *)
ReleasedAfterShutdown ==
    [][ held # 0 /\ held' = 0 => att[held].disposal = "completed" ]_<<held>>
=============================================================================
