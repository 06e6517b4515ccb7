-------------------------------- MODULE Trial --------------------------------
(***************************************************************************)
(* One evaluation trial (botpipe_optimizer/trials.py with trial_worker.py   *)
(* and processes.py).  output_root is the durable identity of the trial:    *)
(* run_trial may be called again and again, after a crash too, and resumes  *)
(* the same botpipe run within the same deadline, until an outcome is       *)
(* recorded for good.  The worker is a process in a session of its own; it  *)
(* outlives a caller that dies.                                             *)
(*                                                                         *)
(* Files are versions: an edit of the code gives it a version it never had. *)
(***************************************************************************)
EXTENDS Integers

CONSTANTS MaxEdit, MaxCrash,     \* bounds: edits of the code, deaths of the caller
          MaxCall                \* bound: calls of run_trial

VARIABLES pc, m
vars == <<pc, m>>

None == [is |-> "none", outcome |-> "none", code |-> -1, by |-> "none"]

(* manifest, terminal, started: trial.json, terminal-result.json and         *)
(* execution-state.json (a period of time, over when late); result:          *)
(* worker-result.json; ledger: the run has one, created in period first;     *)
(* worker: the process, and orphan: one whose caller died; read: the code     *)
(* each of them imported; maker: the one that created the ledger; again: how  *)
(* often time was given to a run that had one.                               *)
Init ==
    /\ pc = "idle"
    /\ m = [code |-> 0, id |-> 0, manifest |-> -1, terminal |-> None, started |-> 0,
            first |-> 0, result |-> None, ledger |-> FALSE,
            worker |-> "none", orphan |-> "none", exit |-> "none",
            read |-> [w \in {"worker", "orphan"} |-> 0],
            maker |-> "none", again |-> 0, late |-> FALSE, period |-> 0,
            edits |-> 0, crashes |-> 0, calls |-> 0]

Go(l, f) == pc' = l /\ m' = f
Return(f) == Go("idle", f)
Result(e, o, c, w) == [is |-> e, outcome |-> o, code |-> c, by |-> w]

(* The identity of the trial is taken from the code as it is now.            *)
Call ==
    /\ pc = "idle" /\ m.calls < MaxCall
    /\ Go("open", [m EXCEPT !.id = m.code, !.exit = "none", !.calls = @ + 1])

(* A root is published with its manifest in one rename; one that belongs to  *)
(* other inputs is refused.                                                  *)
Open ==
    /\ pc = "open"
    /\ CASE m.manifest = -1 -> Go("cached", [m EXCEPT !.manifest = m.id])
         [] m.manifest = m.id -> Go("cached", m)
         [] OTHER -> Return(m)

Cached == pc = "cached" /\ IF m.terminal # None THEN Return(m) ELSE Go("budget", m)

(* execution-state.json: the time of a trial starts once, unless nothing was *)
(* dispatched in it.                                                         *)
Fresh == [m EXCEPT !.started = m.period + 1, !.period = @ + 1, !.late = FALSE,
                   !.again = IF m.ledger THEN @ + 1 ELSE @]
(* Faulty: the process is waited for without a deadline.                     *)
WithoutDeadline == FALSE
Overdue == m.started # 0 /\ m.late
Budget ==
    /\ pc = "budget"
    /\ CASE m.started = 0 -> Go("launch", [Fresh EXCEPT !.result = None])
         [] Overdue /\ m.ledger -> Return([m EXCEPT !.terminal = Result("complete", "timeout", m.id, "caller")])
         [] Overdue /\ ~m.ledger -> Go("launch", [Fresh EXCEPT !.result = None])
         [] OTHER -> Go("launch", [m EXCEPT !.result = None])

(* The time is returned when the run was never created.                      *)
Forgive(f) == IF m.ledger THEN f ELSE [f EXCEPT !.started = 0]

Launch ==
    /\ pc = "launch"
    /\ \/ Go("wait", [m EXCEPT !.worker = "boot"])
       \/ Return(Forgive(m))                              \* process_launch_failed

(* The worker: import the target, then run or resume it under the run lock.  *)
Works(w) == m[w] \in {"boot", "ready", "run"}
Import(w) ==
    /\ m[w] = "boot"
    /\ \/ m' = [m EXCEPT ![w] = "ready", !.read[w] = m.code]
       \/ m' = [m EXCEPT ![w] = "exited", !.result = Result("complete", "failed", m.code, w),
                         !.exit = IF w = "worker" THEN "zero" ELSE @]
    /\ UNCHANGED pc

Locked(w) == m[IF w = "worker" THEN "orphan" ELSE "worker"] = "run"
Enter(w) ==
    /\ m[w] = "ready"
    /\ m' = IF Locked(w)
            THEN [m EXCEPT ![w] = "exited", !.result = Result("infrastructure_error", "worker_exception", m.read[w], w),
                           !.exit = IF w = "worker" THEN "one" ELSE @]
            ELSE [m EXCEPT ![w] = "run", !.ledger = TRUE,
                           !.first = IF m.ledger THEN @ ELSE m.started,
                           !.maker = IF m.ledger THEN @ ELSE w]
    /\ UNCHANGED pc

(* The run ends; _execution_class says what its end means for the trial.     *)
Ends == {<<"complete", "completed">>, <<"complete", "budget_exceeded">>,
         <<"interrupted", "uncertain">>, <<"infrastructure_error", "failed">>}
Finish(w) ==
    /\ m[w] = "run"
    /\ \E r \in Ends :
         m' = [m EXCEPT ![w] = "exited", !.result = Result(r[1], r[2], m.read[w], w),
                        !.exit = IF w = "worker" THEN "zero" ELSE @]
    /\ UNCHANGED pc

(* The worker dies, or leaves no result.                                     *)
Die(w) ==
    /\ Works(w)
    /\ m' = [m EXCEPT ![w] = "exited", !.exit = IF w = "worker" THEN "one" ELSE @]
    /\ UNCHANGED pc

(* run_bounded_process returns when the process has exited, is late or is    *)
(* cancelled, and never before its tree is gone.                             *)
Exited == pc = "wait" /\ m.worker = "exited" /\ Go("check", m)
Late ==
    /\ pc = "wait" /\ Works("worker") /\ Overdue
    /\ Go("check", [m EXCEPT !.worker = "killed", !.exit = "late"])
Cancel ==
    /\ pc = "wait" /\ Works("worker")
    /\ Go("check", [m EXCEPT !.worker = "killed", !.exit = "cancelled"])

Unchanged == m.code = m.id

Check ==
    /\ pc = "check"
    /\ IF Unchanged THEN Go("judge", m) ELSE Return([m EXCEPT !.worker = "none"])

(* What the attempt was worth: only a complete one is recorded.              *)
Record(r) == Return([m EXCEPT !.worker = "none", !.terminal = r])
GiveUp    == Return(Forgive([m EXCEPT !.worker = "none"]))
Judge ==
    /\ pc = "judge"
    /\ CASE m.exit = "late" /\ m.ledger -> Record(Result("complete", "timeout", m.id, "caller"))
         [] m.exit = "late" /\ ~m.ledger -> GiveUp        \* bootstrap_timeout
         [] m.exit = "cancelled" -> GiveUp
         [] OTHER ->
              CASE m.result = None -> GiveUp              \* worker_crashed, worker_failed
                [] m.exit = "one" -> Return([m EXCEPT !.worker = "none"])
                [] m.exit = "zero" /\ m.result.is = "complete" -> Record(m.result)
                [] OTHER -> Return([m EXCEPT !.worker = "none"])

(* The environment.                                                          *)
Edit == m.edits < MaxEdit
        /\ m' = [m EXCEPT !.code = @ + 1, !.edits = @ + 1] /\ UNCHANGED pc
Time == ~m.late /\ m.started # 0 /\ m' = [m EXCEPT !.late = TRUE] /\ UNCHANGED pc

(* The caller dies; its worker goes on without a deadline.                   *)
Crash ==
    /\ pc # "idle" /\ m.crashes < MaxCrash
    /\ Go("idle", [m EXCEPT !.crashes = @ + 1, !.worker = "none", !.exit = "none",
                            !.orphan = IF Works("worker") THEN m.worker ELSE @,
                            !.read["orphan"] = IF Works("worker") THEN m.read["worker"] ELSE @])

Step == Open \/ Cached \/ Budget \/ Launch \/ Exited \/ Late \/ Check \/ Judge
Worker == \E w \in {"worker", "orphan"} : Import(w) \/ Enter(w) \/ Finish(w) \/ Die(w)
Next == Call \/ Step \/ Worker \/ Cancel \/ Edit \/ Time \/ Crash
Spec == Init /\ [][Next]_vars /\ WF_vars(Step) /\ WF_vars(Time)

(* A recorded outcome was obtained from the code that the trial names: code    *)
(* edited while a worker ran, or between two calls, is never credited to it,   *)
(* also when the worker of a caller that died is still there.  What such a     *)
(* worker itself leaves is not told apart: it may replace the result after     *)
(* the code was checked (trials.py:172, 243).                                 *)
OutcomeIsOfItsCode ==
    m.terminal # None /\ m.terminal.by # "orphan" => m.terminal.code = m.manifest

(* A trial whose run exists is not given time again, however its attempts     *)
(* fail; if its run was created by a worker whose caller died, at most once,   *)
(* because its time was given back before that.                              *)
TimeStartsOnce ==
    /\ m.ledger /\ m.maker # "orphan" => m.started = m.first
    /\ m.again <= IF m.maker = "orphan" THEN 1 ELSE 0

(* A recorded outcome is never replaced.                                      *)
KeepsOutcome == m.terminal # None => m'.terminal = m.terminal

(* Every call returns, whether the worker ends or not.                        *)
Rests == pc = "idle"
===============================================================================
