---------------------------- MODULE EvidenceIntake ----------------------------
(***************************************************************************)
(* The intake of declared evidence files (labs/workflows/_evidence.py): one *)
(* activity that may be run again after a crash.  It captures each declared *)
(* file once, within limits on the number of files, on a file and on all of *)
(* them, while the files may grow, shrink, vanish or appear.                *)
(*                                                                         *)
(* A file is its length; Absent stands for what cannot be read: missing, a  *)
(* link, a directory, outside of the workspace.                             *)
(***************************************************************************)
EXTENDS Integers, Sequences

CONSTANTS Declared,                            \* the number of declared paths
          MaxFiles, MaxFileBytes, MaxTotal,    \* the limits of the call
          MaxSize, MaxChange, MaxCrash         \* bounds: lengths, changes, crashes

VARIABLES pc, m
vars == <<pc, m>>

Absent == -1
Length == Absent .. MaxSize

(* file: the workspace; published: the artifacts of the run, which outlive a  *)
(* crash; records: what this attempt says of each path; total: its            *)
(* captured_bytes; seen: the length of the open file.                         *)
Init ==
    /\ pc = "next"
    /\ \E files \in [1 .. Declared -> {Absent, 1, MaxSize}] :
         m = [file |-> files, published |-> [i \in 1 .. Declared |-> Absent],
              records |-> <<>>, total |-> 0, seen |-> 0, changes |-> 0, crashes |-> 0]

Go(l, f) == pc' = l /\ m' = f
At == Len(m.records) + 1
Tell(is, size, l, f) ==
    Go(l, [f EXCEPT !.records = Append(@, [is |-> is, size |-> size, total |-> f.total])])
Unavailable == Tell("unavailable", 0, "next", m)
Capture(is, n, f) == Tell(is, n, "next", [f EXCEPT !.total = @ + n])

(* The rest of the declarations is one record.                                *)
Declaration ==
    /\ pc = "next"
    /\ CASE At > Declared -> Go("done", m)
         [] At > MaxFiles -> Tell("unavailable", 0, "done", m)
         [] OTHER -> Go("stat", m)

(* What an earlier attempt captured is not captured again.                    *)
Recovered ==
    /\ pc = "stat" /\ m.published[At] # Absent
    /\ Capture("recovered", m.published[At], m)

Fits(n) == n <= MaxFileBytes /\ m.total + n <= MaxTotal
Stat ==
    /\ pc = "stat" /\ m.published[At] = Absent
    /\ IF m.file[At] # Absent /\ Fits(m.file[At]) THEN Go("read", m) ELSE Unavailable

Read ==
    /\ pc = "read"
    /\ IF m.file[At] # Absent /\ Fits(m.file[At])
       THEN Go("publish", [m EXCEPT !.seen = m.file[At]]) ELSE Unavailable
Publish ==
    /\ pc = "publish"
    /\ \/ Unavailable                                     \* ArtifactError
       \/ Go("told", [m EXCEPT !.published[At] = m.seen])
Told == pc = "told" /\ Capture("captured", m.seen, [m EXCEPT !.seen = 0])

(* The environment, and the attempt that follows a crash.                     *)
Change ==
    /\ m.changes < MaxChange
    /\ \E i \in 1 .. Declared, n \in Length :
         m' = [m EXCEPT !.file[i] = n, !.changes = @ + 1]
    /\ UNCHANGED pc
Crash ==
    /\ pc # "done" /\ m.crashes < MaxCrash
    /\ Go("next", [m EXCEPT !.records = <<>>, !.total = 0, !.seen = 0, !.crashes = @ + 1])

Step == Declaration \/ Recovered \/ Stat \/ Read \/ Publish \/ Told
Next == Step \/ Change \/ Crash
Spec == Init /\ [][Next]_vars /\ WF_vars(Step)

(* A file captured by an attempt fitted the limits with all that the attempt  *)
(* had before it, however it changed after it was first looked at.  (What an  *)
(* earlier attempt captured is taken whatever the total is by then.)          *)
CapturesFit ==
    \A i \in DOMAIN m.records :
        m.records[i].is = "captured" =>
            m.records[i].size <= MaxFileBytes /\ m.records[i].total <= MaxTotal

(* The answer says of every path what is published for it, and no more paths  *)
(* than the limit: a file published by an attempt that died is not forgotten  *)
(* and not captured again (verify_evidence_intake accepts the answer).        *)
AnswerIsWhatIsKept ==
    pc = "done" =>
        /\ Len(m.records) = IF Declared > MaxFiles THEN MaxFiles + 1 ELSE Declared
        /\ \A i \in 1 .. Declared :
             IF i \in DOMAIN m.records /\ m.records[i].is # "unavailable"
             THEN m.records[i].size = m.published[i]
             ELSE m.published[i] = Absent

(* The intake ends.                                                           *)
Rests == pc = "done"
===============================================================================
