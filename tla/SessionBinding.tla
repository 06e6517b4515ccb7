---------------------------- MODULE SessionBinding ----------------------------
(***************************************************************************)
(* One conversation shared by several runs (botpipe/session_bindings.py and *)
(* its use in botpipe/operations.py).                                       *)
(*                                                                         *)
(* A file outside the runs names the native thread and, while a call is not *)
(* settled, the call that owns it.  The file and the runs' ledgers are      *)
(* written one after the other and a process may die in between, so a call  *)
(* that finds a foreign owner compares the two.  Each run makes one call.   *)
(***************************************************************************)
EXTENDS Naturals

CONSTANTS
    Run,                     \* runs that use the conversation
    None,                    \* no run, no thread
    Open,                    \* an attempt that is not settled
    MaxThread,               \* bound: native threads started
    MaxAttempt,              \* bound: attempts of a call
    MaxCrash,                \* bound: executors that die
    RetrySafe                \* the calls may be retried automatically

ASSUME NoneAssumption == None \notin Run /\ {None, Open} \cap (1..MaxThread) = {}
ASSUME OpenAssumption == None # Open
ASSUME BoundAssumption == {MaxThread, MaxAttempt, MaxCrash} \subseteq Nat /\ MaxAttempt > 0
ASSUME SafeAssumption == RetrySafe \in BOOLEAN

Thread  == 1..MaxThread
Attempt == 1..MaxAttempt

VARIABLES
    binding,                 \* the file: thread, owner, attempt
    lock,                    \* the session lock's holder
    row,                     \* per run: what its ledger says of the call
    pc, base, tried,         \* per run: the executor, its thread, its attempt
    threads,                 \* native threads started
    settled,                 \* history: the thread of the latest settled call
    crashes

vars == <<binding, lock, row, pc, base, tried, threads, settled, crashes>>

(* What a ledger says of its call: `stage' is of the latest prepared attempt, *)
(* `startup' and `reserved' of any; finished[a] is the settlement of a, with *)
(* the thread it names.                                                      *)
NoRow == [status |-> "none", intent |-> FALSE, from |-> None,
          authorized |-> FALSE, prepared |-> 0, stage |-> "none",
          startup |-> FALSE, reserved |-> FALSE, answer |-> FALSE,
          thread |-> None, finished |-> [a \in Attempt |-> Open]]

Init ==
    /\ binding = [thread |-> None, owner |-> None, attempt |-> 0]
    /\ lock = None /\ threads = 0 /\ settled = None /\ crashes = 0
    /\ row = [r \in Run |-> NoRow]
    /\ pc = [r \in Run |-> "idle"]
    /\ base = [r \in Run |-> None] /\ tried = [r \in Run |-> 1]

At(r, l) == pc[r] = l
Goto(r, l) == pc' = [pc EXCEPT ![r] = l]
Note(r, rec) == row' = [row EXCEPT ![r] = rec]

Settled(q, a) == row[q].finished[a] # Open

(* execute_provider_operation waits for the lock, then begins the operation *)
(* or finds it; one that is over only settles its conversation again, and a *)
(* failure without an answer or a recorded refusal leaves it alone.         *)
Enter(r) ==
    /\ At(r, "idle") /\ lock = None /\ lock' = r
    /\ row[r].status # "broken"
    /\ IF row[r].status \in {"completed", "failed"}
       THEN Goto(r, "finish") /\ UNCHANGED row
       ELSE Goto(r, "check") /\ Note(r, [row[r] EXCEPT !.status = "open"])
    /\ UNCHANGED <<binding, base, tried, threads, settled, crashes>>

(* Faulty: a claim without a dispatch reservation is given up.              *)
TakeableBeforeDispatch(q, a) == Settled(q, a) \/ ~row[q].reserved

(* May another call take the conversation over from q?  Its attempt was      *)
(* settled, or nothing of it ever reached a server.                         *)
Takeable(q, a) == Settled(q, a) \/ ~(row[q].reserved \/ row[q].startup)

Foreign(r) == binding.owner \notin {None, r}

(* Faulty: the owner is believed without a look at its ledger.              *)
CheckedByFile(r) == binding

(* SessionBinding.check: a foreign owner that was settled, or never started, *)
(* is cleared; the thread its settlement names, if any, is taken over.      *)
Checked(r) ==
    IF Foreign(r) /\ Takeable(binding.owner, binding.attempt)
    THEN [binding EXCEPT !.owner = None, !.attempt = 0,
            !.thread = IF row[binding.owner].finished[binding.attempt] \in Thread
                       THEN row[binding.owner].finished[binding.attempt] ELSE @]
    ELSE binding

(* Faulty: a call that has no thread yet does not look at the file.          *)
StartFromCall(r) == IF row[r].thread # None THEN row[r].thread ELSE row[r].from

(* The native thread of the next attempt: the one the call already has, else *)
(* what its recorded request says, else what the file says.                 *)
StartFrom(r) ==
    CASE row[r].thread # None -> row[r].thread
      [] row[r].thread = None /\ row[r].intent -> row[r].from
      [] OTHER -> Checked(r).thread

Check(r) ==
    /\ At(r, "check")
    /\ Foreign(r) => Takeable(binding.owner, binding.attempt)
    /\ binding' = Checked(r)
    /\ base' = [base EXCEPT ![r] = StartFrom(r)]
    /\ Goto(r, IF row[r].answer THEN "validate"
               ELSE IF row[r].intent THEN "recover" ELSE "preflight")
    /\ UNCHANGED <<lock, row, tried, threads, settled, crashes>>

(* SessionError: the call fails for good.                                   *)
Refuse(r) ==
    /\ At(r, "check") /\ Foreign(r)
    /\ Checked(r).owner # None
    /\ Note(r, [row[r] EXCEPT !.status = "broken"])
    /\ Goto(r, "unlock")
    /\ UNCHANGED <<binding, lock, base, tried, threads, settled, crashes>>

(* What recovery concludes of the latest attempt: stopped (it was never      *)
(* prepared, never reserved, or its turn ended without an answer),           *)
(* completed, failed by policy, or nothing: then the call stays as it is.    *)
Recover(r) ==
    /\ At(r, "recover")
    /\ \/ /\ RetrySafe /\ tried[r] < MaxAttempt
          /\ row[r].prepared < tried[r] \/ row[r].stage \in {"configured", "reserved"}
          /\ Note(r, [row[r] EXCEPT !.authorized = TRUE])
          /\ Goto(r, "preflight")
       \/ /\ row[r].prepared = tried[r] /\ row[r].stage = "reserved"
          /\ Note(r, [row[r] EXCEPT !.answer = TRUE])
          /\ Goto(r, "validate")
       \/ row[r].stage = "violated" /\ Goto(r, "finish") /\ UNCHANGED row
       \/ Goto(r, "unlock") /\ UNCHANGED row
    /\ UNCHANGED <<binding, lock, base, tried, threads, settled, crashes>>

NextAttempt(r) == IF row[r].authorized THEN tried[r] + 1 ELSE tried[r]

Intent(r) ==
    /\ At(r, "preflight") /\ Goto(r, "prepare")
    /\ Note(r, [row[r] EXCEPT !.intent = TRUE, !.from = base[r], !.authorized = FALSE])
    /\ tried' = [tried EXCEPT ![r] = NextAttempt(r)]
    /\ UNCHANGED <<binding, lock, base, threads, settled, crashes>>

(* Preflight fails: a policy error is recorded as a refusal of the next      *)
(* attempt, any other error only fails the call.                             *)
Reject(r) ==
    /\ At(r, "preflight")
    /\ \/ /\ Note(r, [row[r] EXCEPT !.status = "failed", !.authorized = FALSE])
          /\ Goto(r, "finish") /\ tried' = [tried EXCEPT ![r] = NextAttempt(r)]
       \/ /\ Note(r, [row[r] EXCEPT !.status = "broken"])
          /\ Goto(r, "unlock") /\ UNCHANGED tried
    /\ UNCHANGED <<binding, lock, base, threads, settled, crashes>>

Prepare(r) ==
    /\ At(r, "prepare") /\ Goto(r, "claim")
    /\ Note(r, [row[r] EXCEPT !.prepared = tried[r], !.stage = "none"])
    /\ UNCHANGED <<binding, lock, base, tried, threads, settled, crashes>>

Claim(r) ==
    /\ At(r, "claim") /\ Goto(r, "startup")
    /\ binding' = [Checked(r) EXCEPT !.owner = r, !.attempt = tried[r]]
    /\ UNCHANGED <<lock, row, base, tried, threads, settled, crashes>>

(* The disposal checkpoint before an app-server is started, and its probe.  *)
Startup(r) ==
    /\ At(r, "startup") /\ Goto(r, "bind")
    /\ Note(r, [row[r] EXCEPT !.startup = TRUE, !.stage = "configured"])
    /\ UNCHANGED <<binding, lock, base, tried, threads, settled, crashes>>

(* thread/start or thread/resume; the thread is recorded, then the file.    *)
Bind(r) ==
    /\ At(r, "bind") /\ Goto(r, "advance")
    /\ \/ base[r] # None /\ UNCHANGED <<base, threads>>
          /\ Note(r, [row[r] EXCEPT !.thread = base[r]])
       \/ /\ base[r] = None /\ threads < MaxThread /\ threads' = threads + 1
          /\ base' = [base EXCEPT ![r] = threads + 1]
          /\ Note(r, [row[r] EXCEPT !.thread = threads + 1])
    /\ UNCHANGED <<binding, lock, tried, settled, crashes>>

Advance(r) ==
    /\ At(r, "advance") /\ Goto(r, "reserve")
    /\ binding' = [binding EXCEPT !.thread = base[r]]
    /\ UNCHANGED <<lock, row, base, tried, threads, settled, crashes>>

Reserve(r) ==
    /\ At(r, "reserve") /\ Goto(r, "turn")
    /\ Note(r, [row[r] EXCEPT !.reserved = TRUE, !.stage = "reserved"])
    /\ UNCHANGED <<binding, lock, base, tried, threads, settled, crashes>>

Respond(r) ==
    /\ At(r, "turn") /\ Goto(r, "validate")
    /\ Note(r, [row[r] EXCEPT !.answer = TRUE])
    /\ UNCHANGED <<binding, lock, base, tried, threads, settled, crashes>>

(* The turn broke the tool policy and is known to be stopped: the session is *)
(* settled first and then the call fails.                                    *)
Violated(r) ==
    /\ At(r, "turn") /\ Goto(r, "finish")
    /\ Note(r, [row[r] EXCEPT !.stage = "violated"])
    /\ UNCHANGED <<binding, lock, base, tried, threads, settled, crashes>>

(* UncertainOperation anywhere between claim and answer.                    *)
GiveUp(r) ==
    /\ pc[r] \in {"startup", "bind", "reserve", "turn"}
    /\ Goto(r, "unlock")
    /\ UNCHANGED <<binding, lock, row, base, tried, threads, settled, crashes>>

(* A policy error before the turn: the attempt is recorded as not dispatched. *)
Incapable(r) ==
    /\ pc[r] \in {"startup", "bind"} /\ Goto(r, "finish")
    /\ Note(r, [row[r] EXCEPT !.status = "failed"])
    /\ UNCHANGED <<binding, lock, base, tried, threads, settled, crashes>>

Validate(r) ==
    /\ At(r, "validate") /\ Goto(r, "finish")
    /\ \E v \in {"completed", "failed"} : Note(r, [row[r] EXCEPT !.status = v])
    /\ UNCHANGED <<binding, lock, base, tried, threads, settled, crashes>>

Owns(r) == binding.owner = r /\ binding.attempt = tried[r]

(* The thread a settlement names: the answer's, else the one in the file.    *)
SettledThread(r) ==
    IF row[r].answer THEN row[r].thread
    ELSE IF Owns(r) THEN binding.thread ELSE None

(* SessionBinding.finish: the settlement is recorded once, then the file.    *)
Settle(r) ==
    /\ At(r, "finish") /\ Goto(r, "release")
    /\ IF Settled(r, tried[r]) THEN UNCHANGED <<row, settled>>
       ELSE /\ Note(r, [row[r] EXCEPT !.finished[tried[r]] = SettledThread(r)])
            /\ settled' = IF SettledThread(r) = None THEN settled ELSE SettledThread(r)
    /\ UNCHANGED <<binding, lock, base, tried, threads, crashes>>

(* Faulty: whoever owns the file is removed from it.                        *)
ReleaseAny(r) ==
    /\ At(r, "release") /\ Goto(r, IF row[r].status = "open" THEN "fail" ELSE "unlock")
    /\ binding' = [binding EXCEPT !.owner = None, !.attempt = 0]
    /\ UNCHANGED <<lock, row, base, tried, threads, settled, crashes>>

Release(r) ==
    /\ At(r, "release") /\ Goto(r, IF row[r].status = "open" THEN "fail" ELSE "unlock")
    /\ binding' = IF ~Owns(r) THEN binding
                  ELSE [owner |-> None, attempt |-> 0, thread |->
                          IF row[r].finished[tried[r]] = None THEN binding.thread
                          ELSE row[r].finished[tried[r]]]
    /\ UNCHANGED <<lock, row, base, tried, threads, settled, crashes>>

Fail(r) ==
    /\ At(r, "fail") /\ Goto(r, "unlock")
    /\ Note(r, [row[r] EXCEPT !.status = "broken"])
    /\ UNCHANGED <<binding, lock, base, tried, threads, settled, crashes>>

Unlock(r) ==
    /\ At(r, "unlock") /\ Goto(r, "idle") /\ lock' = None
    /\ UNCHANGED <<binding, row, base, tried, threads, settled, crashes>>

(* The kernel frees the lock of a process that dies.                        *)
Crash(r) ==
    /\ ~At(r, "idle") /\ crashes < MaxCrash /\ crashes' = crashes + 1
    /\ Goto(r, "idle") /\ lock' = None
    /\ UNCHANGED <<binding, row, base, tried, threads, settled>>

Step(r) ==
    \/ Check(r) \/ Refuse(r) \/ Recover(r) \/ Intent(r) \/ Reject(r) \/ Prepare(r)
    \/ Claim(r) \/ Startup(r) \/ Bind(r) \/ Advance(r) \/ Reserve(r) \/ Respond(r)
    \/ Violated(r) \/ GiveUp(r) \/ Incapable(r) \/ Validate(r) \/ Settle(r)
    \/ Release(r) \/ Fail(r) \/ Unlock(r)

Next == \E r \in Run : Enter(r) \/ Step(r) \/ Crash(r)

Spec == Init /\ [][Next]_vars
-----------------------------------------------------------------------------
Binding == [thread : Thread \cup {None}, owner : Run \cup {None},
            attempt : 0..MaxAttempt]

Row == [status : {"none", "open", "completed", "failed", "broken"},
        intent : BOOLEAN, from : Thread \cup {None}, authorized : BOOLEAN,
        prepared : 0..MaxAttempt, stage : {"none", "configured", "reserved", "violated"},
        startup : BOOLEAN, reserved : BOOLEAN, answer : BOOLEAN,
        thread : Thread \cup {None},
        finished : [Attempt -> Thread \cup {None, Open}]]

Label == {"idle", "check", "recover", "preflight", "prepare", "claim", "startup",
          "bind", "advance", "reserve", "turn", "validate", "finish", "release",
          "fail", "unlock"}

TypeOK ==
    /\ binding \in Binding /\ lock \in Run \cup {None} /\ threads \in 0..MaxThread
    /\ row \in [Run -> Row] /\ pc \in [Run -> Label]
    /\ base \in [Run -> Thread \cup {None}] /\ tried \in [Run -> Attempt]
    /\ settled \in Thread \cup {None} /\ crashes \in 0..MaxCrash

Unsettled(r) == row[r].startup /\ \A a \in Attempt : ~Settled(r, a)

(* A call that may have a server or a turn, and is not settled, owns the     *)
(* conversation, through crashes and calls of other runs: so at most one     *)
(* run does.                                                                 *)
UnsettledOwns == \A r \in Run : Unsettled(r) => binding.owner = r

(* A retry that was rejected before it could claim the conversation; the     *)
(* claim of the attempt before it stays.                                     *)
Stranded(q) == binding.owner = q /\ binding.attempt < tried[q] /\ Settled(q, tried[q])

(* A settled call does not keep others out, even when its process died       *)
(* between the settlement record and the file: a call is refused only for    *)
(* the sake of unsettled work of another run, or of a rejected retry.        *)
RefusedForUnsettledWork ==
    [][ \A r \in Run :
          At(r, "check") /\ row'[r].status = "broken" =>
              \E q \in Run \ {r} : Unsettled(q) \/ Stranded(q) ]_<<row>>

(* SessionBinding.finish writes the ledger first and the file after it: once *)
(* nobody works on the conversation, the file names the thread that the      *)
(* latest settlement named, whoever died in between.                         *)
FileNamesLastSettled ==
    lock = None /\ binding.owner = None /\ settled # None =>
        binding.thread = settled

(* docs/architecture.md:125: a later operation resumes the recorded thread.   *)
(* What execute's use of the binding keeps of that: a call settled by its     *)
(* first attempt goes on with the thread settled before it.  A retry does not, *)
(* which repeats the thread of its recorded request (operations.py:519): if    *)
(* another run settled a newer one meanwhile, that one is lost to the session. *)
FirstAttemptsContinue ==
    [][ \A r \in Run :
          At(r, "finish") /\ settled # None /\ settled' # settled =>
              tried[r] > 1 ]_<<settled, pc>>
=============================================================================
