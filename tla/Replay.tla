-------------------------------- MODULE Replay --------------------------------
(***************************************************************************)
(* A run and its replay (botpipe/runtime.py): the workflow calls operations, *)
(* each at the next ordinal of its scope; a call whose position is recorded  *)
(* gets the record's outcome, another one is recorded and executed.  A       *)
(* parallel group runs each branch as a thread in a scope of its own.        *)
(*                                                                         *)
(* The workflow is any deterministic program: script holds what it was seen  *)
(* to do after a given history of outcomes, and whatever has not come up yet *)
(* (or comes up after a divergence) is open.  Edit replaces the program by   *)
(* another one.                                                              *)
(*                                                                         *)
(* ops, status, pending and selected are in the ledger.  frame (one for each *)
(* scope), live, diverged (the sticky replay error) and candidate (a         *)
(* submitted answer) die with the process.  seen, effects, granted and late  *)
(* record history: the outcomes given to the program, the executions of an   *)
(* activity, the operator's authorisations, and the operations a scope began *)
(* after the divergence.                                                     *)
(***************************************************************************)
EXTENDS Integers, Sequences, SequencesExt, FiniteSets, Functions

CONSTANTS
    RootCalls, SubCalls,   \* the calls a workflow, a child or a branch may make
    Value, Bad,            \* results and valid answers; an answer of a wrong type
    Keys,                  \* the keys of a value in its order, none if no mapping
    None,
    MaxRoot, MaxSub,       \* bounds: operations of the root and of a sub-scope
    Width, MaxGroup,       \* bounds: branches of a group, ordinals of groups
    Retries,               \* @activity(retries=...)
    Limit,                 \* max_operations
    MaxExec,               \* bound: executions of the run
    MaxFault               \* bound: crashes, writes that fail, edits of the
                           \* workflow and operator's choices, all together

ASSUME SizeAssumption ==
    {MaxRoot, MaxSub, Width, MaxGroup, Retries, Limit, MaxExec, MaxFault} \subseteq Nat

VARIABLES ops, status, pending, selected, frame, live, diverged, candidate,
          script, edited, seen, effects, granted, late, execs, faults

ledger  == <<ops, status, pending, selected>>
history == <<script, edited, seen, effects, granted, late>>
bounds  == <<execs, faults>>
vars    == <<ledger, frame, live, diverged, candidate, history, bounds>>

--------------------------------------------------------------------------------
Root  == <<>>
Sub   == (0 .. MaxGroup - 1) \X (0 .. Width)  \* <<o, 0>> a child, <<o, i>> a branch
Scope == {Root} \cup Sub
MaxOps(s) == IF s = Root THEN MaxRoot ELSE MaxSub
Position  == {p \in Scope \X (0 .. MaxRoot + Retries) : p[2] < MaxOps(p[1]) + Retries}

Kind     == {"activity", "input", "child", "all", "collect"}
Orchestrator == Kind \ {"activity"}          \* input, child and parallel
IsCall(c) ==
    /\ c = [kind |-> c.kind, name |-> c.name, safe |-> c.safe,
            attempt |-> c.attempt, fails |-> c.fails]
    /\ c.kind \in Kind /\ c.safe \in BOOLEAN
(* Branches and children do not open a group of their own.                   *)
ASSUME CallAssumption ==
    /\ \A c \in RootCalls \cup SubCalls : IsCall(c)
    /\ \A c \in SubCalls : c.kind \in {"activity", "input"}
ASSUME NoneAssumption == None \notin Scope \X Nat

Plain(k, v) == [t |-> k, v |-> v, at |-> None, parts |-> <<>>]
Result(v)   == Plain("value", v)
Error(v)    == Plain("error", v)
Mismatch    == Plain("mismatch", None)
Suspended(k) == Plain(k, None)
Asking(p)   == [Plain("input", None) EXCEPT !.at = p]
Joined(o)   == [Plain("value", None) EXCEPT !.parts = o]
(* An exception whose state cannot be recorded ("opaque") is raised as       *)
(* ActivityFailed, the first time as well as in every replay.                *)
Restored(o) == IF o = Error("opaque") THEN Error("ActivityFailed") ELSE o
Raised(o)   == Restored(o)

(* What a later execution reads back: the ledger writes the keys of every    *)
(* mapping in sorted order, and the codec restores them in the order read.   *)
Stored(v) ==
    LET k == SortSeq(Keys[v], <) IN
    IF k = Keys[v] THEN v ELSE CHOOSE w \in Value : Keys[w] = k
Record(o) == IF o.v \in Value THEN [o EXCEPT !.v = Stored(@)] ELSE o
(* What was read back is recorded again as it is.                            *)
ASSUME StoredAssumption ==
    \A v \in Value : Stored(v) \in Value /\ Stored(Stored(v)) = Stored(v)

Final     == {"value", "error"}
IsSuspension(o) == o.t \in {"input", "uncertain", "budget", "interrupt"}

Idle  == [pc |-> "idle", ord |-> 0, hist |-> <<>>, call |-> None, out |-> None]
Fresh == [Idle EXCEPT !.pc = "program"]

Init ==
    /\ ops = <<>> /\ status = "created" /\ pending = None /\ selected = None
    /\ frame = [s \in Scope |-> Idle]
    /\ live = FALSE /\ diverged = FALSE /\ candidate = None
    /\ script = <<>> /\ edited = FALSE
    /\ seen = [p \in Position |-> {}]
    /\ effects = [p \in Position |-> 0] /\ granted = [p \in Position |-> 0]
    /\ late = [s \in Scope |-> 0]
    /\ execs = 0 /\ faults = 0

Recorded(p) == p \in DOMAIN ops
Waiting(p)  == p # None /\ Recorded(p) /\ ops[p].status = "waiting"

(* The name under which a scope records its operations.                      *)
(* Faulty: the branches of a group record under one name.                    *)
NameOfGroup(s) == IF s \in Sub /\ s[2] > 0 THEN <<s[1], 1>> ELSE s
Name(s)        == s
Here(s)        == <<Name(s), frame[s].ord - 1>>

(* What the program is given is appended to its history; a failed attempt of *)
(* a retried activity is not given to the program while attempts are left.   *)
Retried(f, o) ==
    /\ f.call.kind = "activity" /\ f.call.safe /\ f.call.attempt < Retries
    /\ o.t = "error" /\ o.v \notin {"operator", "ActivityFailed"}
Given(f, o) ==
    IF Retried(f, o) THEN [f EXCEPT !.pc = "again"]
    ELSE [f EXCEPT !.pc = "program", !.hist = Append(@, o), !.call = None]
Give(s, o) ==
    /\ seen' = [seen EXCEPT ![Here(s)] = @ \cup {o}]
    /\ frame' = [frame EXCEPT ![s] = Given(@, o)]
End(s, o) == frame' = [frame EXCEPT ![s].pc = "ending", ![s].out = o]
At(s, l)  == live /\ frame[s].pc = l

--------------------------------------------------------------------------------
Fault == faults < MaxFault /\ faults' = faults + 1

(* run and resume.                                                           *)
Execute(a) ==
    /\ ~live /\ selected = None /\ status # "completed" /\ execs < MaxExec
    /\ execs' = execs + 1
    /\ status' = "running" /\ live' = TRUE /\ diverged' = FALSE
    /\ candidate' = a
    /\ frame' = [s \in Scope |-> IF s = Root THEN Fresh ELSE Idle]
    /\ late' = [s \in Scope |-> 0]
    /\ UNCHANGED <<ops, pending, selected, script, edited, seen, effects,
                   granted, faults>>

Run == Execute(None)

Answer ==
    /\ Waiting(pending)
    /\ \E v \in Value \cup {Bad} : Execute([to |-> pending, raw |-> v])

Crash ==
    /\ live /\ Fault
    /\ live' = FALSE /\ diverged' = FALSE /\ candidate' = None
    /\ frame' = [s \in Scope |-> Idle]
    /\ UNCHANGED <<ledger, history, execs>>

Edit ==
    /\ ~live /\ execs > 0 /\ Fault
    /\ script' = <<>> /\ edited' = TRUE
    /\ UNCHANGED <<ledger, frame, live, diverged, candidate, seen, effects,
                   granted, late, execs>>

--------------------------------------------------------------------------------
(* What the program does next.                                               *)
Decisions(s) ==
    {[do |-> "return"], [do |-> "raise"]} \cup
    IF frame[s].ord >= MaxOps(s) THEN {}
    ELSE {[do |-> "call", call |-> c] : c \in
            IF s # Root THEN SubCalls
            ELSE {c \in RootCalls : c.kind \in {"activity", "input"} \/ frame[s].ord < MaxGroup}}

(* Faulty: the sticky error is not looked at when an operation is called.    *)
CallableAlways == TRUE
Callable == ~diverged

Decide(s) ==
    /\ At(s, "program")
    /\ LET key == <<s, frame[s].hist>>
       IN  \E d \in IF key \in DOMAIN script THEN {script[key]} ELSE Decisions(s) :
             /\ script' = IF ~Callable THEN script
                          ELSE [k \in DOMAIN script \cup {key} |->
                                  IF k = key THEN d ELSE script[k]]
             /\ CASE d.do = "return" -> End(s, Result("done"))
                  [] d.do = "raise"  -> End(s, Error("raised"))
                  [] d.do = "call" /\ ~Callable -> End(s, Mismatch)
                  [] d.do = "call" /\ Callable ->
                       frame' = [frame EXCEPT ![s].pc = "entered", ![s].call = d.call]
    /\ UNCHANGED <<ledger, live, diverged, candidate, edited, seen, effects,
                   granted, late, bounds>>

Again(s) ==
    /\ At(s, "again")
    /\ IF ~Callable THEN End(s, Mismatch)
       ELSE frame' = [frame EXCEPT ![s].pc = "entered", ![s].call.attempt = @ + 1]
    /\ UNCHANGED <<ledger, live, diverged, candidate, history, bounds>>
--------------------------------------------------------------------------------
(* RunContext._operation: take the ordinal, find the record, and match it.   *)
Fingerprint(c) == <<c.kind, c.name, c.attempt>>
Advance(s)     == frame[s].ord + 1
Enter(s, l)    == frame' = [frame EXCEPT ![s].pc = l, ![s].ord = Advance(s)]
Leave(s, o)    == frame' = [frame EXCEPT ![s].pc = "ending", ![s].out = o,
                                         ![s].ord = Advance(s)]
Due(s)         == <<Name(s), frame[s].ord>>
(* ReplayMismatch is an ordinary exception: a workflow may catch it.         *)
Catch(s, o)    == frame' = [frame EXCEPT ![s].pc = "program", ![s].ord = o,
                               ![s].hist = Append(@, Mismatch), ![s].call = None]

Begin(s) ==
    /\ At(s, "entered") /\ ~Recorded(Due(s))
    /\ IF Cardinality(DOMAIN ops) >= Limit
       THEN Leave(s, Suspended("budget")) /\ UNCHANGED <<ops, late>>
       ELSE /\ ops' = [p \in DOMAIN ops \cup {Due(s)} |->
                          IF p = Due(s) THEN [call |-> frame[s].call, status |-> "started",
                                              out |-> None, auth |-> FALSE]
                          ELSE ops[p]]
            /\ late' = [late EXCEPT ![s] = IF diverged THEN @ + 1 ELSE @]
            /\ Enter(s, "execute")
    /\ UNCHANGED <<status, pending, selected, live, diverged, candidate, script,
                   edited, seen, effects, granted, bounds>>

Matches(s) == Fingerprint(ops[Due(s)].call) = Fingerprint(frame[s].call)

Diverge(s) ==
    /\ At(s, "entered") /\ Recorded(Due(s)) /\ ~Matches(s)
    /\ diverged' = TRUE
    /\ Leave(s, Mismatch) \/ Catch(s, frame[s].ord + 1)
    /\ UNCHANGED <<ledger, live, candidate, history, bounds>>

Reuse(s) ==
    /\ At(s, "entered") /\ Recorded(Due(s)) /\ Matches(s)
    /\ ops[Due(s)].status \in {"completed", "failed"}
    /\ LET o == Restored(ops[Due(s)].out) IN
       /\ seen' = [seen EXCEPT ![Due(s)] = @ \cup {o}]
       /\ frame' = [frame EXCEPT ![s] = Given([@ EXCEPT !.ord = Advance(s)], o)]
    /\ UNCHANGED <<ledger, live, diverged, candidate, script, edited, effects,
                   granted, late, bounds>>

(* Faulty: the flag of the current program alone permits the repetition.     *)
RepeatableNow(s) ==
    \/ frame[s].call.kind \in Orchestrator
    \/ frame[s].call.safe
    \/ ops[Due(s)].auth
Repeatable(s) ==
    \/ frame[s].call.kind \in Orchestrator
    \/ frame[s].call.safe /\ ops[Due(s)].call.safe
    \/ ops[Due(s)].auth

Spend(p) == ops' = [ops EXCEPT ![p].auth = FALSE]

Repeat(s) ==
    /\ At(s, "entered") /\ Recorded(Due(s)) /\ Matches(s)
    /\ ops[Due(s)].status \notin {"completed", "failed"}
    /\ IF Repeatable(s) THEN Spend(Due(s)) /\ Enter(s, "execute")
       ELSE Leave(s, Suspended("uncertain")) /\ UNCHANGED ops
    /\ UNCHANGED <<status, pending, selected, live, diverged, candidate, history,
                   bounds>>

--------------------------------------------------------------------------------
(* The effect of an activity, then the record of its outcome.                *)
Perform(s) ==
    /\ At(s, "execute") /\ frame[s].call.kind = "activity"
    /\ effects' = [effects EXCEPT ![Here(s)] = @ + 1]
    /\ \/ \E o \in {Result(v) : v \in Value} \cup
                   {Error(frame[s].call.fails)} :
             frame' = [frame EXCEPT ![s].pc = "commit", ![s].out = o]
       \/ s = Root /\ End(s, Suspended("interrupt"))        \* KeyboardInterrupt
    /\ UNCHANGED <<ledger, live, diverged, candidate, script, edited, seen,
                   granted, late, bounds>>

Commit(s) ==
    /\ At(s, "commit")
    /\ ops' = [ops EXCEPT ![Here(s)].out = Record(frame[s].out),
                ![Here(s)].status =
                    IF frame[s].out.t = "value" THEN "completed" ELSE "failed"]
    /\ Give(s, Raised(frame[s].out))
    /\ UNCHANGED <<status, pending, selected, live, diverged, candidate, script,
                   edited, effects, granted, late, bounds>>

(* Faulty: a result whose record was not confirmed is handed out anyway.     *)
HandOut(s) == Give(s, frame[s].out)
(* _commit_or_confirm: the write failed and the ledger does not have it.     *)
Unconfirmed(s) == End(s, Suspended("uncertain")) /\ UNCHANGED seen

Lose(s) ==
    /\ At(s, "commit") /\ Fault /\ Unconfirmed(s)
    /\ UNCHANGED <<ledger, live, diverged, candidate, script, edited, effects,
                   granted, late, execs>>
--------------------------------------------------------------------------------
(* ask_human.                                                                *)
Asks(s)    == At(s, "execute") /\ frame[s].call.kind = "input"
Offered(p) == candidate # None /\ candidate.to = p
(* Faulty: a question with a validated answer is asked again.               *)
UncheckedOrAnswered == {"started", "waiting", "response"}
Unchecked == {"started", "waiting"}

(* A validated answer survived a crash: it is the result.                    *)
UseAnswer(s) ==
    /\ Asks(s) /\ ops[Here(s)].status = "response"
    /\ frame' = [frame EXCEPT ![s].pc = "commit", ![s].out = ops[Here(s)].out]
    /\ UNCHANGED <<ledger, live, diverged, candidate, history, bounds>>

TakeAnswer(s) ==
    /\ Asks(s) /\ ops[Here(s)].status = "waiting" /\ Offered(Here(s))
    /\ candidate' = None
    /\ IF candidate.raw = Bad
       THEN End(s, Asking(Here(s))) /\ UNCHANGED <<ops, faults>>
       ELSE \/ /\ ops' = [ops EXCEPT ![Here(s)].status = "response",
                                     ![Here(s)].out = Record(Result(candidate.raw))]
               /\ frame' = [frame EXCEPT ![s].pc = "commit",
                                         ![s].out = Result(candidate.raw)]
               /\ UNCHANGED faults
            \/ /\ Fault
               /\ End(s, Suspended("uncertain")) /\ UNCHANGED ops
    /\ UNCHANGED <<status, pending, selected, live, diverged, history, execs>>

Ask(s) ==
    /\ Asks(s) /\ ops[Here(s)].status \in Unchecked
    /\ ops[Here(s)].status = "waiting" => ~Offered(Here(s))
    /\ \/ ops' = [ops EXCEPT ![Here(s)].status = "waiting"]
          /\ End(s, Asking(Here(s))) /\ UNCHANGED faults
       \/ ops[Here(s)].status = "started" /\ Fault
          /\ End(s, Suspended("uncertain")) /\ UNCHANGED ops
    /\ UNCHANGED <<status, pending, selected, live, diverged, candidate, history,
                   execs>>

--------------------------------------------------------------------------------
(* A child workflow, and the branches of a parallel group.                   *)
Members(s) ==
    LET o == frame[s].ord - 1 IN
    IF frame[s].call.kind = "child" THEN {<<o, 0>>}
    ELSE {<<o, i>> : i \in 1 .. Width}

Open(s) ==
    /\ s = Root /\ At(s, "execute") /\ frame[s].call.kind \in {"child", "all", "collect"}
    /\ Members(s) \subseteq Scope                            \* MaxGroup
    /\ frame' = [m \in Scope |->
          CASE m = s -> [frame[m] EXCEPT !.pc = "group"]
            [] m \in Members(s) -> Fresh
            [] OTHER -> frame[m]]
    /\ UNCHANGED <<ledger, live, diverged, candidate, history, bounds>>

Outs(s)      == [i \in 1 .. Width |-> frame[<<frame[s].ord - 1, i>>].out]
FirstOf(o, P(_)) == o[CHOOSE i \in DOMAIN o : P(o[i]) /\ \A j \in 1 .. i - 1 : ~P(o[j])]
IsError(o)   == o.t = "error"
Some(o, P(_)) == \E i \in DOMAIN o : P(o[i])

(* Faulty: a suspended branch hides the divergence of its sibling.           *)
GroupOutSuspendedFirst(o, kind) ==
    CASE Some(o, IsSuspension) -> FirstOf(o, IsSuspension)
      [] diverged -> Mismatch
      [] Some(o, IsError) /\ kind = "all" -> FirstOf(o, IsError)
      [] OTHER -> Joined(o)
GroupOut(o, kind) ==
    CASE diverged -> Mismatch
      [] ~diverged /\ Some(o, IsSuspension) -> FirstOf(o, IsSuspension)
      [] ~diverged /\ ~Some(o, IsSuspension) /\ Some(o, IsError) /\ kind = "all" ->
           FirstOf(o, IsError)
      [] OTHER -> Joined(o)

Settled(s) == \A m \in Members(s) : frame[m].pc = "done"

Close(s) ==
    /\ At(s, "group") /\ Settled(s)
    /\ LET kind == frame[s].call.kind
           o    == IF kind = "child" THEN frame[<<frame[s].ord - 1, 0>>].out
                   ELSE GroupOut(Outs(s), kind)
       IN  \/ frame' = [frame EXCEPT ![s].out = o,
                            ![s].pc = IF o.t \in Final THEN "commit" ELSE "ending"]
           \/ o = Mismatch /\ Catch(s, frame[s].ord)
    /\ UNCHANGED <<ledger, live, diverged, candidate, history, bounds>>

--------------------------------------------------------------------------------
(* The end of a body: assert_consumed, unless it was suspended.              *)
Leftovers(s) == \E p \in DOMAIN ops : p[1] = Name(s) /\ p[2] >= frame[s].ord
Asserts(s) == frame[s].out.t \in Final

Finish(s) ==
    /\ At(s, "ending")
    /\ LET wrong == Asserts(s) /\ (diverged \/ Leftovers(s)) IN
       /\ diverged' = (diverged \/ wrong)
       /\ frame' = [frame EXCEPT ![s].pc = "done",
                                 ![s].out = IF wrong THEN Mismatch ELSE @]
    /\ UNCHANGED <<ledger, live, candidate, history, bounds>>

(* The last write of _execute.                                               *)
RunStatus(o) == CASE o.t = "value"  -> "completed"
                  [] o.t = "input"  -> "awaiting_input"
                  [] o.t = "budget" -> "budget_exceeded"
                  [] o.t \in {"uncertain", "interrupt"} -> "interrupted"
                  [] OTHER -> "failed"

(* Faulty: an interrupted run keeps its question although it was answered.   *)
KeptQuestionAnyway == pending
KeptQuestion == IF Waiting(pending) THEN pending ELSE None

EndRun ==
    /\ At(Root, "done")
    /\ status' = RunStatus(frame[Root].out)
    /\ pending' = CASE status' = "awaiting_input" -> frame[Root].out.at
                     [] status' = "interrupted" -> KeptQuestion
                     [] OTHER -> None
    /\ live' = FALSE /\ diverged' = FALSE /\ candidate' = None
    /\ frame' = [s \in Scope |-> Idle]
    /\ UNCHANGED <<ops, selected, history, bounds>>

--------------------------------------------------------------------------------
(* Botpipe.resolve of an activity: the choice is recorded, then it takes     *)
(* effect; resume and resolve finish a recorded choice before anything else. *)
Select(p, c) ==
    /\ ~live /\ selected = None /\ Fault
    /\ Recorded(p) /\ ops[p].call.kind = "activity"
    /\ ops[p].status \in {"started", "response"}
    /\ selected' = [op |-> p, choice |-> c]
    /\ UNCHANGED <<ops, status, pending, frame, live, diverged, candidate, history,
                   execs>>

Settle ==
    /\ ~live /\ selected # None
    /\ LET p == selected.op IN
       CASE selected.choice = "retry" ->
              /\ ops' = [ops EXCEPT ![p].status = "response", ![p].auth = TRUE]
              /\ granted' = [granted EXCEPT ![p] = IF ops[p].auth THEN @ ELSE @ + 1]
              /\ UNCHANGED <<status, pending>>
         [] selected.choice = "accept" ->
              /\ \E v \in Value : ops' = [ops EXCEPT ![p].status = "completed",
                                                    ![p].out = Record(Result(v))]
              /\ UNCHANGED <<status, pending, granted>>
         [] selected.choice = "fail" ->
              /\ ops' = [ops EXCEPT ![p].status = "failed", ![p].out = Error("operator")]
              /\ status' = "failed" /\ pending' = None
              /\ UNCHANGED granted
    /\ selected' = None
    /\ UNCHANGED <<frame, live, diverged, candidate, script, edited, seen, effects,
                   late, bounds>>

Step(s) ==
    \/ Decide(s) \/ Again(s) \/ Begin(s) \/ Diverge(s) \/ Reuse(s) \/ Repeat(s)
    \/ Perform(s) \/ Commit(s) \/ Lose(s)
    \/ UseAnswer(s) \/ TakeAnswer(s) \/ Ask(s)
    \/ Open(s) \/ Close(s) \/ Finish(s)

Next ==
    \/ Run \/ Answer \/ Crash \/ Edit \/ EndRun \/ Settle
    \/ \E p \in Position, c \in {"retry", "accept", "fail"} : Select(p, c)
    \/ \E s \in Scope : Step(s)

Spec == Init /\ [][Next]_vars

--------------------------------------------------------------------------------
(* A workflow that nobody edited is never told that it changed, whatever was *)
(* lost, interrupted, answered, repeated or executed in another order.  It   *)
(* holds as long as no result is a mapping whose keys are out of order.      *)
DeterministicNeverDiverges == diverged => edited

(* What the program was given at a position is what the ledger records       *)
(* there, so every later execution gives it the same (_commit_or_confirm).   *)
(* It holds, as the above, as long as no result is a mapping whose keys are   *)
(* out of order: one is restored with its keys sorted (run replay_order).     *)
SeenIsRecorded ==
    \A p \in Position : \A o \in seen[p] :
        /\ Recorded(p) /\ ops[p].status \in {"completed", "failed"}
        /\ o = Restored(ops[p].out)

(* An activity that is not retry-safe executes once, and once more for each  *)
(* authorisation of the operator.                                            *)
EffectsAreAuthorised ==
    \A p \in Position :
        effects[p] > 1 + granted[p] => ops[p].call.safe

(* After the divergence a scope begins at most the operation whose call had  *)
(* already passed the check, and none once the program was told of it, even   *)
(* when the program caught the error.                                        *)
WasTold(s) == Mismatch \in Range(frame[s].hist)
DivergedRunStops == \A s \in Scope : late[s] <= IF WasTold(s) THEN 0 ELSE 1

(* A finished execution's question is open in the ledger, so that an answer  *)
(* submitted to the run is never refused or given to another question.       *)
QuestionIsOpen ==
    /\ status = "awaiting_input" => pending # None
    /\ status # "running" /\ pending # None => Waiting(pending)

(* An answer that passed validation is final: neither a crash nor another    *)
(* submitted answer changes it.                                              *)
AnswerIsFinal ==
    [][\A p \in DOMAIN ops :
         ops[p].call.kind = "input" /\ ops[p].status \in {"response", "completed"}
         => ops'[p].out = ops[p].out /\ ops'[p].status \in {"response", "completed"}]_vars

(* What an execution reports agrees with the ledger: a divergence is a        *)
(* failure unless the run was interrupted, and an execution that completes or *)
(* fails without one has consumed every record of the scopes it ran.         *)
OutcomeMatchesHistory ==
    [][EndRun =>
         /\ diverged => status' \in {"failed", "interrupted"}
         /\ status' \in {"completed", "failed"} /\ ~diverged =>
              \A s \in Scope : frame[s].pc = "done" =>
                  \A p \in DOMAIN ops : p[1] = s => p[2] < frame[s].ord]_vars
====
