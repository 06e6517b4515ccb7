------------------------------ MODULE RunRecords ------------------------------
(***************************************************************************)
(* The records of a run (botpipe/journal.py).  A method of the journal      *)
(* looks at the state it has, publishes the files that a record refers to,  *)
(* and appends the record; the record is durable before it is applied, and  *)
(* every later reader applies it again.  A record that cannot be applied    *)
(* would make the ledger unreadable for good.                               *)
(*                                                                         *)
(* The state here is what the records add up to; Ledger models how they     *)
(* reach the disk.                                                          *)
(***************************************************************************)
EXTENDS Naturals, FiniteSets

CONSTANTS Value,                      \* results, answers and texts
          MaxOperation,               \* RunLimits.max_operations
          MaxAttempt, MaxTurn         \* bound: attempts of a call; a budget's turns

VARIABLES pc, m
vars == <<pc, m>>

Operation == {"call", "question"}
Attempt   == 1 .. MaxAttempt
Settled   == {"completed", "failed"}
Over      == {"completed", "stopped"}          \* of an attempt; "failed" is as "stopped"
Under     == {"turn_intent"}                   \* one of five, between which nothing is refused
Blank     == CHOOSE v \in {0} : v \notin Value
NoAttempt == [status |-> "none", request |-> Blank, response |-> Blank, paid |-> FALSE]

(* run, ops, value, attempts, turns: what the records add up to (turns = -1:  *)
(* no budget yet); refused: a record could not be applied; folder: the run    *)
(* directory; file: what is published for an attempt; flight: the record that *)
(* its files were published for.                                              *)
NoRecord == [e |-> "none"]
Init ==
    /\ pc = "idle"
    /\ m = [run |-> "none", ops |-> [o \in Operation |-> "none"],
            value |-> [o \in Operation |-> Blank],
            attempts |-> [n \in Attempt |-> NoAttempt], turns |-> MaxTurn + 1,
            refused |-> FALSE, folder |-> FALSE,
            file |-> [n \in Attempt |-> [request |-> Blank, response |-> Blank]],
            flight |-> NoRecord]

(* ---- _apply: what a reader asks of a record, and what it makes of it -------- *)
From(to) ==
    CASE to \in Settled   -> {"started", "response"}
      [] to = "response"  -> {"started", "waiting", "response"}
      [] to = "waiting"   -> {"started", "waiting"}
Same(r) == m.ops[r.op] = r.to /\ m.value[r.op] = r.value
StatusAllowed(n, to) == m.attempts[n].status \in Over => to = m.attempts[n].status
Prepared(n) == m.attempts[n].status # "none"

Accepts(r) ==
    CASE r.e = "run_created"        -> m.run = "none" /\ m.folder
      [] r.e = "run_updated"        -> m.run = "completed" => r.to = "completed"
      [] r.e = "operation_started"  -> m.run # "none" /\ m.ops[r.op] = "none"
      [] r.e = "operation"          -> m.ops[r.op] # "none" /\ (Same(r) \/ m.ops[r.op] \in From(r.to))
      [] r.e = "attempt_prepared"   -> /\ m.ops["call"] # "none"
                                       /\ Prepared(r.n) => m.attempts[r.n].request = r.value
                                       /\ m.file[r.n].request = r.value
      [] r.e = "attempt_checkpoint" -> Prepared(r.n) /\ StatusAllowed(r.n, r.to)
      [] r.e = "budget_created"     -> m.turns = MaxTurn + 1
      [] r.e = "reserved"           -> m.turns # MaxTurn + 1 /\ Prepared(r.n)

Apply(r) ==
    CASE r.e \in {"run_created", "run_updated"} -> [m EXCEPT !.run = r.to]
      [] r.e = "operation_started"  -> [m EXCEPT !.ops[r.op] = "started"]
      [] r.e = "operation"          -> [m EXCEPT !.ops[r.op] = r.to, !.value[r.op] = r.value]
      [] r.e = "attempt_prepared"   ->
           [m EXCEPT !.attempts[r.n] = [NoAttempt EXCEPT !.status = "configured", !.request = r.value]]
      [] r.e = "attempt_checkpoint" ->
           [m EXCEPT !.attempts[r.n].status = r.to,
                     !.attempts[r.n].response = IF r.value = Blank THEN @ ELSE r.value]
      [] r.e = "budget_created"     -> [m EXCEPT !.turns = 0]
      [] r.e = "reserved"           -> [m EXCEPT !.turns = @ + 1, !.attempts[r.n].paid = TRUE]

Append(r) ==
    /\ pc' = "idle"
    /\ m' = [(IF Accepts(r) THEN Apply(r) ELSE [m EXCEPT !.refused = TRUE]) EXCEPT !.flight = NoRecord]
Refuse == pc' = "idle" /\ UNCHANGED m                  \* an exception, or nothing to record

(* ---- files, published before the record that refers to them ------------------ *)
Fly(f, r) == pc' = "append" /\ m' = [f EXCEPT !.flight = r]
(* A file is written once, and again only with what it holds.                 *)
Takes(n, f, v) == m.file[n][f] \in {Blank, v}
PublishFile(n, f, r) ==
    IF Takes(n, f, r.value) THEN Fly([m EXCEPT !.file[n][f] = r.value], r) ELSE Refuse
Land == pc = "append" /\ Append(m.flight)

(* ---- the run ------------------------------------------------------------------- *)
(* A folder without a ledger is what is left of a creation that died.         *)
CreateRun ==
    /\ pc = "idle" /\ ~m.folder
    /\ Fly([m EXCEPT !.folder = TRUE], [e |-> "run_created", to |-> "running"])
UpdateRun ==
    /\ pc = "idle" /\ m.run # "none"
    /\ \E to \in {"running", "failed", "completed"} \ {m.run} :
         m.run # "completed" /\ Append([e |-> "run_updated", to |-> to])

(* ---- operations ------------------------------------------------------------------ *)
Begin ==
    /\ pc = "idle" /\ m.run # "none"
    /\ \E o \in Operation :
         /\ m.ops[o] = "none"
         /\ IF Cardinality({p \in Operation : m.ops[p] # "none"}) >= MaxOperation
            THEN Refuse ELSE Append([e |-> "operation_started", op |-> o])

(* finish, fail, response and wait_input name the statuses they expect.       *)
Expected(to) ==
    CASE to = "completed" -> {"started", "response"}
      [] to = "failed"    -> {"started", "response"}
      [] to = "response"  -> {"started", "waiting", "response"}
      [] to = "waiting"   -> {"started", "waiting"}

Last == {n \in Attempt : Prepared(n) /\ \A k \in Attempt : k > n => ~Prepared(k)}
Checkpoint(o, to, v) ==
    LET r == [e |-> "operation", op |-> o, to |-> to, value |-> v] IN
    /\ pc = "idle" /\ m.ops[o] # "none"
    /\ CASE Same(r) -> Refuse
         [] ~Same(r) /\ m.ops[o] \notin Expected(to) -> Refuse
         [] OTHER ->
              IF o = "call" /\ to = "response"
              THEN \E n \in Last : PublishFile(n, "response", [r EXCEPT !.value = v])
              ELSE Append(r)
Finish    == \E o \in Operation, v \in Value : Checkpoint(o, "completed", v)
Fail      == \E o \in Operation, v \in Value : Checkpoint(o, "failed", v)
Response  == \E o \in {"call", "question"}, v \in Value : Checkpoint(o, "response", v)
WaitInput == \E v \in Value : Checkpoint("question", "waiting", v)

(* ---- attempts ---------------------------------------------------------------------- *)
(* The request left by a call that died before its record is replaced, and the *)
(* process may die while it is; an attempt on record is not prepared again.   *)
Request(n, v) == [m EXCEPT !.file[n].request = v]
PrepareAttempt ==
    /\ pc = "idle" /\ m.ops["call"] # "none"
    /\ \E n \in Attempt, v \in Value :
         /\ \A k \in 1 .. n - 1 : Prepared(k)
         /\ IF Prepared(n) THEN Refuse
            ELSE \/ Fly(Request(n, v), [e |-> "attempt_prepared", n |-> n, value |-> v])
                 \/ ~Takes(n, "request", v) /\ pc' = "idle" /\ m' = Request(n, Blank)

Progress(n, to) == StatusAllowed(n, to)

AttemptCheckpoint ==
    /\ pc = "idle"
    /\ \E n \in Attempt, to \in Under \cup Over, v \in Value \cup {Blank} :
         LET r == [e |-> "attempt_checkpoint", n |-> n, to |-> to, value |-> v] IN
         /\ Prepared(n)
         /\ CASE ~Progress(n, to) -> Refuse
              [] Progress(n, to) /\ v = Blank -> Append(r)
              [] OTHER -> PublishFile(n, "response", r)

(* ---- budgets ------------------------------------------------------------------------- *)
CreateBudget == pc = "idle" /\ m.run # "none" /\ m.turns = MaxTurn + 1 /\ Append([e |-> "budget_created"])
(* The caller prepares an attempt before it pays for it.                      *)
ReserveBudget ==
    /\ pc = "idle" /\ m.turns # MaxTurn + 1
    /\ \E n \in Attempt :
         /\ Prepared(n) /\ ~m.attempts[n].paid
         /\ IF m.turns >= MaxTurn THEN Refuse ELSE Append([e |-> "reserved", n |-> n])

Crash ==
    /\ pc = "append"
    /\ pc' = "idle" /\ m' = [m EXCEPT !.flight = NoRecord]

Next ==
    \/ Land \/ CreateRun \/ UpdateRun \/ Begin \/ Finish \/ Fail \/ Response \/ WaitInput
    \/ PrepareAttempt \/ AttemptCheckpoint \/ CreateBudget \/ ReserveBudget \/ Crash
Spec == Init /\ [][Next]_vars

(* Whatever methods are called, in whatever order, no record is appended that *)
(* a reader refuses.                                                          *)
LedgerStaysReadable == ~m.refused

(* The files that the records refer to hold what the records say, whatever    *)
(* calls died before their record and however what they left is replaced.     *)
ReferencesHold ==
    /\ \A n \in Attempt :
        /\ Prepared(n) => m.file[n].request = m.attempts[n].request
        /\ m.attempts[n].response # Blank => m.file[n].response = m.attempts[n].response
    /\ m.ops["call"] = "response" => \E n \in Attempt : m.file[n].response = m.value["call"]

(* What is settled stays: a completed run, a result, an attempt that is over, *)
(* the response of an attempt.                                                *)
KeepsSettled ==
    /\ m.run = "completed" => m'.run = "completed"
    /\ \A o \in Operation : m.ops[o] \in Settled => m'.ops[o] = m.ops[o] /\ m'.value[o] = m.value[o]
    /\ \A n \in Attempt :
         /\ m.attempts[n].status \in Over => m'.attempts[n].status = m.attempts[n].status
         /\ m.attempts[n].response # Blank => m'.attempts[n].response = m.attempts[n].response
===============================================================================
