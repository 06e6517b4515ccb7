---------------------------- MODULE Replay_proofs ----------------------------
(***************************************************************************)
(* What Replay guarantees for any workflow, any number of operations,       *)
(* branches and executions, and every interleaving of the branches with     *)
(* crashes, lost writes, edits and the operator's choices.                  *)
(***************************************************************************)
EXTENDS Replay, WellFoundedInduction, TLAPS

Pcs      == {"idle", "program", "again", "entered", "execute", "commit", "group", "ending", "done"}
Statuses == {"started", "waiting", "response", "completed", "failed"}
Done     == {"completed", "failed"}
Ends     == Final \cup {"mismatch", "input", "uncertain", "budget", "interrupt"}
Groups   == {"child", "all", "collect"}

IsOutcome(o) == /\ o = [t |-> o.t, v |-> o.v, at |-> o.at, parts |-> o.parts]
                /\ o.t \in Ends
IsRecord(r)  == /\ r = [call |-> r.call, status |-> r.status, out |-> r.out, auth |-> r.auth]
                /\ IsCall(r.call) /\ r.status \in Statuses /\ r.auth \in BOOLEAN
IsFrame(f)   == /\ f = [pc |-> f.pc, ord |-> f.ord, hist |-> f.hist, call |-> f.call, out |-> f.out]
                /\ f.pc \in Pcs /\ f.ord \in Nat /\ f.hist \in Seq(Range(f.hist))
Calls(s, c)  == IsCall(c) /\ (s # Root => c.kind \in {"activity", "input"})
Decided(s, d) == d.do \in {"return", "raise"} \/ (d.do = "call" /\ Calls(s, d.call))

Others ==
    /\ live \in BOOLEAN /\ diverged \in BOOLEAN /\ edited \in BOOLEAN
    /\ script = [k \in DOMAIN script |-> script[k]]
    /\ \A k \in DOMAIN script : Decided(k[1], script[k])
    /\ seen = [p \in Position |-> seen[p]]
    /\ effects \in [Position -> Nat] /\ granted \in [Position -> Nat]
    /\ late \in [Scope -> Nat]
TypeOK ==
    /\ ops = [p \in DOMAIN ops |-> ops[p]] /\ DOMAIN ops \subseteq Scope \X Nat
    /\ \A p \in DOMAIN ops : IsRecord(ops[p])
    /\ frame = [s \in Scope |-> frame[s]] /\ \A s \in Scope : IsFrame(frame[s])
    /\ Others

(* What a record holds, and what the choice of the operator is about.        *)
Kept(r) ==
    /\ r.status = "waiting" => r.call.kind = "input"
    /\ r.status \in Done \/ (r.status = "response" /\ r.call.kind = "input") =>
         IsOutcome(r.out) /\ r.out.t \in Final
    /\ r.status = "response" /\ r.call.kind = "input" => r.out.t = "value"
Chosen ==
    selected # None =>
        /\ ~live /\ selected.op \in DOMAIN ops
        /\ selected.choice \in {"retry", "accept", "fail"}
        /\ ops[selected.op].call.kind = "activity"
        /\ ops[selected.op].status \in {"started", "response"}

(* Where a scope is: a branch runs inside the group that the root waits for,  *)
(* and what a scope executes is recorded and unfinished.                     *)
Working == {"execute", "commit", "group"}
Fits(o, s, f) ==
    LET p == <<s, f.ord - 1>> IN
    /\ f.pc \in {"again", "entered"} \cup Working => Calls(s, f.call)
    /\ f.pc \in Working =>
         /\ f.ord # 0 /\ p \in DOMAIN o /\ o[p].status \notin Done
         /\ Fingerprint(o[p].call) = Fingerprint(f.call)
    /\ f.pc = "commit" =>
         /\ IsOutcome(f.out) /\ f.out.t \in Final
         /\ f.call.kind = "input" => f.out.t = "value" /\ o[p].status = "response"
    /\ f.pc \in {"ending", "done"} => IsOutcome(f.out)
Control(s) ==
    /\ frame[s].pc # "idle" => live
    /\ s \in Sub /\ frame[s].pc \notin {"idle", "done"} =>
         frame[Root].pc = "group" /\ s \in Members(Root)
    /\ frame[s].pc = "group" => /\ s = Root /\ frame[s].call.kind \in Groups
                                /\ Members(s) \subseteq Sub
    /\ Fits(ops, s, frame[s])

Core ==
    /\ TypeOK /\ Chosen
    /\ \A p \in DOMAIN ops : Kept(ops[p])
    /\ \A s \in Scope : Control(s)

(* After a divergence: who may still act, and who has been told.             *)
Solo == {Root} \cup {m \in Sub : m[2] = 0}
Told(f) == Mismatch \in Range(f.hist)
Stops(s) ==
    /\ s \in Solo /\ diverged => frame[s].pc \in {"idle", "program", "group", "ending", "done"}
    /\ Told(frame[s]) => diverged /\ frame[s].pc \in {"program", "ending", "done"}
    /\ late[s] # 0 => /\ late[s] = 1 /\ (live => diverged) /\ s \notin Solo
                      /\ frame[s].pc # "entered" /\ ~Told(frame[s])
    /\ frame[s].pc \in {"ending", "done"} /\ frame[s].out.t = "mismatch" => diverged
(* The root, and the child that it waits for.                                *)
Alone(s) == s = Root \/ (frame[Root].pc = "group" /\ frame[Root].call.kind = "child" /\ s \in Members(Root))
Reports(s) ==
    diverged /\ Alone(s) =>
        /\ frame[s].pc = "ending" => frame[s].out.t \in Final \cup {"mismatch"}
        /\ frame[s].pc = "done" => frame[s].out.t = "mismatch"
(* Without one: what is consumed, and a suspension reaches the root.         *)
Consumes(s) ==
    ~diverged /\ frame[s].pc = "done" =>
        /\ frame[s].out.t \in Final => \A p \in DOMAIN ops : p[1] = s => p[2] < frame[s].ord
        /\ frame[s].out.t \notin Final /\ s # Root =>
             \/ frame[Root].pc = "group" /\ s \in Members(Root)
             \/ frame[Root].pc \in {"ending", "done"} /\ frame[Root].out.t \notin Final
DInv == /\ diverged => live
        /\ \A s \in Scope : Stops(s) /\ Reports(s) /\ Consumes(s)

(* An open question.                                                         *)
Question(s) ==
    frame[s].pc \in {"ending", "done"} /\ frame[s].out.t = "input" =>
        LET p == frame[s].out.at
        IN  p \in DOMAIN ops /\ ops[p].status = "waiting" /\ (s # Root => p[1] = s)
QInv == /\ live => status = "running"
        /\ QuestionIsOpen
        /\ \A s \in Scope : Question(s)

(* Executions of an activity against the authorisations for it.              *)
One(b) == IF b THEN 1 ELSE 0
Executing(p) == frame[p[1]].pc = "execute" /\ frame[p[1]].ord - 1 = p[2]
Bound(p) ==
    /\ effects[p] # 0 => p \in DOMAIN ops /\ ops[p].call.kind = "activity"
    /\ p \in DOMAIN ops /\ ops[p].call.kind = "activity" /\ ~ops[p].call.safe =>
         effects[p] + One(Executing(p)) + One(ops[p].auth) <= 1 + granted[p]
FInv == \A p \in Position : Bound(p)

(* Recorded answers.                                                         *)
AInv ==
    /\ \A p \in DOMAIN ops : ops[p].call.kind = "input" /\ ops[p].status = "response" =>
         Record(ops[p].out) = ops[p].out
    /\ \A s \in Scope : frame[s].pc = "commit" /\ frame[s].call.kind = "input" =>
         Record(frame[s].out) = ops[<<s, frame[s].ord - 1>>].out

(* The histories of a scope: e is what the program knows before an ordinal,  *)
(* with the call that failed and is to be tried again.                       *)
InOrder == \A v \in Value : Stored(v) = v
Called(s, e) == IF e.again THEN [e.call EXCEPT !.attempt = @ + 1]
                ELSE script[<<s, e.hist>>].call
After(e, r) ==
    LET o == Restored(r.out) IN
    IF Retried([call |-> r.call], o)
    THEN [hist |-> e.hist, again |-> TRUE, call |-> r.call]
    ELSE [hist |-> Append(e.hist, o), again |-> FALSE, call |-> None]
Known(s, e) == ~e.again => /\ <<s, e.hist>> \in DOMAIN script
                           /\ script[<<s, e.hist>>].do = "call"
Finished(s, n) == <<s, n>> \in DOMAIN ops /\ ops[<<s, n>>].status \in Done
Chain(s, c) ==
    /\ c = [n \in Nat |-> c[n]]
    /\ c[0] = [hist |-> <<>>, again |-> FALSE, call |-> None]
    /\ \A n \in Nat : <<s, n>> \in DOMAIN ops =>
         /\ \A m \in Nat : m < n => Finished(s, m)
         /\ Known(s, c[n]) /\ ops[<<s, n>>].call = Called(s, c[n])
         /\ Finished(s, n) => c[n + 1] = After(c[n], ops[<<s, n>>])
Along(s, c) ==
    LET f == frame[s] IN
    /\ f.pc \in {"program", "again", "entered"} => \A m \in Nat : m < f.ord => Finished(s, m)
    /\ f.pc = "program" => c[f.ord] = [hist |-> f.hist, again |-> FALSE, call |-> None]
    /\ f.pc = "again" => c[f.ord] = [hist |-> f.hist, again |-> TRUE, call |-> f.call]
    /\ f.pc = "entered" => /\ c[f.ord].hist = f.hist /\ Known(s, c[f.ord])
                           /\ f.call = Called(s, c[f.ord])
    /\ f.pc \in Working => c[f.ord - 1].hist = f.hist /\ f.call = ops[<<s, f.ord - 1>>].call
    /\ f.pc = "ending" /\ f.out.t \in Final =>
         \A n \in Nat : <<s, n>> \in DOMAIN ops => n < f.ord
KInv ==
    ~edited => /\ ~diverged
               /\ \A s \in Scope : \E c : Chain(s, c) /\ Along(s, c)
-----------------------------------------------------------------------------
(* Sequences and positions.                                                  *)
LEMMA Least ==
    ASSUME NEW S \in SUBSET Nat, S # {}
    PROVE  \E i \in S : \A j \in S : i <= j
  <1> DEFINE R == {p \in Nat \X Nat : p[1] < p[2]}
  <1>1. IsWellFoundedOn(R, Nat)
    BY NatLessThanWellFounded, Zenon DEF OpToRel
  <1> HIDE DEF R
  <1>2. PICK i \in S : \A j \in S : ~(<<j, i>> \in R)
    BY <1>1, WFMin, Zenon
  <1>3. ASSUME NEW j \in S
        PROVE  i <= j
    <2>1. i \in Nat /\ j \in Nat /\ ~(<<j, i>> \in R)
      BY <1>2
    <2>2. j < i => <<j, i>> \in R
      BY <2>1 DEF R
    <2> QED BY <2>1, <2>2
  <1> QED BY <1>3

LEMMA Appends ==
    ASSUME NEW h, h \in Seq(Range(h)), NEW o
    PROVE  /\ Append(h, o) \in Seq(Range(Append(h, o)))
           /\ Range(Append(h, o)) = Range(h) \cup {o}
  <1> DEFINE S == Range(h)
  <1> HIDE DEF S
  <1>0. h \in Seq(S)
    BY DEF S
  <1>1. h \in Seq(S \cup {o}) /\ o \in S \cup {o}
    BY <1>0
  <1>2. Append(h, o) \in Seq(S \cup {o}) /\ Len(Append(h, o)) = Len(h) + 1
    BY <1>1
  <1>3. DOMAIN Append(h, o) = 1 .. Len(h) + 1 /\ DOMAIN h = 1 .. Len(h) /\ Len(h) \in Nat
    BY <1>1, <1>2
  <1>4. \A i \in 1 .. Len(h) : Append(h, o)[i] = h[i]
    BY <1>1
  <1>5. Append(h, o)[Len(h) + 1] = o
    BY <1>1
  <1>6. Range(Append(h, o)) \subseteq Range(h) \cup {o}
    BY <1>3, <1>4, <1>5 DEF Range
  <1>7. Range(h) \subseteq Range(Append(h, o)) /\ o \in Range(Append(h, o))
    BY <1>3, <1>4, <1>5 DEF Range
  <1> USE DEF S
  <1> QED BY <1>2, <1>6, <1>7

LEMMA EmptyHistory == <<>> \in Seq(Range(<<>>)) /\ Range(<<>>) = {}
  BY DEF Range

LEMMA Scopes ==
    /\ Root \in Scope /\ Root \notin Sub /\ Scope = {Root} \cup Sub
    /\ \A m \in Sub : m = <<m[1], m[2]>> /\ m[1] \in 0 .. MaxGroup - 1 /\ m[2] \in 0 .. Width
    /\ Width \in Nat /\ MaxGroup \in Nat /\ Retries \in Nat
  BY SizeAssumption DEF Root, Sub, Scope

LEMMA Pairs ==
    /\ \A p \in Scope \X Nat : p = <<p[1], p[2]>> /\ p[1] \in Scope /\ p[2] \in Nat
    /\ \A s, t, m, n : <<s, m>> = <<t, n>> => s = t /\ m = n
    /\ \A s, n : <<s, n>>[1] = s /\ <<s, n>>[2] = n
  OBVIOUS

(* A record of the ledger is written: p gets r.                              *)
Writes(p, r) ==
    /\ DOMAIN ops' = DOMAIN ops \cup {p} /\ ops'[p] = r
    /\ \A q \in DOMAIN ops : q # p => ops'[q] = ops[q]
    /\ ops' = [q \in DOMAIN ops' |-> ops'[q]]
(* A scope goes on to the frame f.                                           *)
Goes(s, f) ==
    /\ frame' = [u \in Scope |-> frame'[u]] /\ frame'[s] = f
    /\ \A u \in Scope : u # s => frame'[u] = frame[u]
F(pc, ord, hist, call, out) == [pc |-> pc, ord |-> ord, hist |-> hist, call |-> call, out |-> out]
Op(call, st, out, auth) == [call |-> call, status |-> st, out |-> out, auth |-> auth]

-----------------------------------------------------------------------------
(* What each step of a scope does to its frame and to the ledger.            *)
LEMMA Frames ==
    ASSUME Core, NEW s \in Scope
    PROVE  /\ frame = [u \in Scope |-> frame[u]] /\ IsFrame(frame[s])
           /\ frame[s] = F(frame[s].pc, frame[s].ord, frame[s].hist, frame[s].call, frame[s].out)
           /\ DOMAIN ops \subseteq Scope \X Nat /\ ops = [p \in DOMAIN ops |-> ops[p]]
           /\ \A p \in DOMAIN ops : IsRecord(ops[p])
  BY DEF Core, TypeOK, IsFrame, F

LEMMA BeginDoes ==
    ASSUME Core, NEW s \in Scope, Begin(s)
    PROVE  LET f == frame[s] IN
           /\ f.pc = "entered" /\ live /\ <<s, f.ord>> \notin DOMAIN ops
           /\ \/ /\ Goes(s, F("ending", f.ord + 1, f.hist, f.call, Suspended("budget")))
                 /\ UNCHANGED <<ops, late>>
              \/ /\ Goes(s, F("execute", f.ord + 1, f.hist, f.call, f.out))
                 /\ Writes(<<s, f.ord>>, Op(f.call, "started", None, FALSE))
                 /\ late' = [late EXCEPT ![s] = IF diverged THEN @ + 1 ELSE @]
           /\ UNCHANGED <<status, pending, selected, live, diverged, candidate, script,
                          edited, seen, effects, granted, execs, faults>>
  <1> DEFINE f == frame[s]
  <1>1. /\ frame = [u \in Scope |-> frame[u]]
        /\ f = F(f.pc, f.ord, f.hist, f.call, f.out)
        /\ ops = [p \in DOMAIN ops |-> ops[p]]
    BY Frames
  <1>2. f.pc = "entered" /\ live /\ <<s, f.ord>> \notin DOMAIN ops
    BY DEF Begin, At, Recorded, Due, Name
  <1>3. CASE Cardinality(DOMAIN ops) >= Limit
    <2>1. frame' = [frame EXCEPT ![s].pc = "ending", ![s].out = Suspended("budget"), ![s].ord = f.ord + 1]
          /\ UNCHANGED <<ops, late>>
      BY <1>3 DEF Begin, Leave, Advance
    <2>2. Goes(s, F("ending", f.ord + 1, f.hist, f.call, Suspended("budget")))
      BY <1>1, <2>1 DEF Goes, F
    <2> QED BY <1>2, <2>1, <2>2 DEF Begin, bounds
  <1>4. CASE ~(Cardinality(DOMAIN ops) >= Limit)
    <2>1. /\ frame' = [frame EXCEPT ![s].pc = "execute", ![s].ord = f.ord + 1]
          /\ ops' = [p \in DOMAIN ops \cup {<<s, f.ord>>} |->
                       IF p = <<s, f.ord>> THEN Op(f.call, "started", None, FALSE) ELSE ops[p]]
          /\ late' = [late EXCEPT ![s] = IF diverged THEN @ + 1 ELSE @]
      BY <1>4 DEF Begin, Enter, Advance, Due, Name, Op
    <2>2. Goes(s, F("execute", f.ord + 1, f.hist, f.call, f.out))
      BY <1>1, <2>1 DEF Goes, F
    <2>3. Writes(<<s, f.ord>>, Op(f.call, "started", None, FALSE))
      BY <1>1, <2>1 DEF Writes
    <2> QED BY <1>2, <2>1, <2>2, <2>3 DEF Begin, bounds
  <1> QED BY <1>3, <1>4
LEMMA DecideDoes ==
    ASSUME Core, NEW s \in Scope, Decide(s)
    PROVE  LET f == frame[s]
               key == <<s, f.hist>> IN
           /\ f.pc = "program" /\ live
           /\ \E d :
                /\ Decided(s, d) /\ (key \in DOMAIN script => d = script[key])
                /\ IF diverged THEN script' = script
                   ELSE script' = [k \in DOMAIN script \cup {key} |-> IF k = key THEN d ELSE script[k]]
                /\ \/ d.do = "return" /\ Goes(s, F("ending", f.ord, f.hist, f.call, Result("done")))
                   \/ d.do = "raise" /\ Goes(s, F("ending", f.ord, f.hist, f.call, Error("raised")))
                   \/ /\ d.do = "call" /\ diverged
                      /\ Goes(s, F("ending", f.ord, f.hist, f.call, Mismatch))
                   \/ /\ d.do = "call" /\ ~diverged
                      /\ Goes(s, F("entered", f.ord, f.hist, d.call, f.out))
           /\ UNCHANGED <<ops, status, pending, selected, live, diverged, candidate, edited, seen,
                          effects, granted, late, execs, faults>>
  <1> DEFINE f == frame[s]
             key == <<s, f.hist>>
  <1>1. /\ frame = [u \in Scope |-> frame[u]]
        /\ f = F(f.pc, f.ord, f.hist, f.call, f.out)
    BY Frames
  <1>2. f.pc = "program" /\ live
    BY DEF Decide, At
  <1>3. PICK d \in IF key \in DOMAIN script THEN {script[key]} ELSE Decisions(s) :
          /\ script' = IF ~Callable THEN script
                       ELSE [k \in DOMAIN script \cup {key} |-> IF k = key THEN d ELSE script[k]]
          /\ CASE d.do = "return" -> End(s, Result("done"))
               [] d.do = "raise"  -> End(s, Error("raised"))
               [] d.do = "call" /\ ~Callable -> End(s, Mismatch)
               [] d.do = "call" /\ Callable ->
                    frame' = [frame EXCEPT ![s].pc = "entered", ![s].call = d.call]
    BY DEF Decide
  <1>4. Decided(s, d) /\ (key \in DOMAIN script => d = script[key])
    <2>1. CASE key \in DOMAIN script
      <3>1. Decided(key[1], script[key])
        BY <2>1 DEF Core, TypeOK, Others
      <3> QED BY <2>1, <3>1, <1>3
    <2>2. CASE key \notin DOMAIN script
      <3>1. d \in Decisions(s)
        BY <1>3, <2>2
      <3>2. d.do \in {"return", "raise"} \/ (d.do = "call" /\ d.call \in IF s # Root THEN SubCalls ELSE RootCalls)
        BY <3>1 DEF Decisions
      <3> QED BY <2>2, <3>2, CallAssumption DEF Decided, Calls
    <2> QED BY <2>1, <2>2
  <1>5. IF diverged THEN script' = script
        ELSE script' = [k \in DOMAIN script \cup {key} |-> IF k = key THEN d ELSE script[k]]
    BY <1>3 DEF Callable
  <1>6. \/ d.do = "return" /\ Goes(s, F("ending", f.ord, f.hist, f.call, Result("done")))
        \/ d.do = "raise" /\ Goes(s, F("ending", f.ord, f.hist, f.call, Error("raised")))
        \/ d.do = "call" /\ diverged /\ Goes(s, F("ending", f.ord, f.hist, f.call, Mismatch))
        \/ d.do = "call" /\ ~diverged /\ Goes(s, F("entered", f.ord, f.hist, d.call, f.out))
    <2>1. CASE d.do = "return"
      <3>1. frame' = [frame EXCEPT ![s].pc = "ending", ![s].out = Result("done")]
        BY <1>3, <2>1 DEF End
      <3> QED BY <1>1, <2>1, <3>1 DEF Goes, F
    <2>2. CASE d.do = "raise"
      <3>1. frame' = [frame EXCEPT ![s].pc = "ending", ![s].out = Error("raised")]
        BY <1>3, <2>2 DEF End
      <3> QED BY <1>1, <2>2, <3>1 DEF Goes, F
    <2>3. CASE d.do = "call" /\ diverged
      <3>1. frame' = [frame EXCEPT ![s].pc = "ending", ![s].out = Mismatch]
        BY <1>3, <2>3 DEF End, Callable
      <3> QED BY <1>1, <2>3, <3>1 DEF Goes, F
    <2>4. CASE d.do = "call" /\ ~diverged
      <3>1. frame' = [frame EXCEPT ![s].pc = "entered", ![s].call = d.call]
        BY <1>3, <2>4 DEF Callable
      <3> QED BY <1>1, <2>4, <3>1 DEF Goes, F
    <2> QED BY <1>4, <2>1, <2>2, <2>3, <2>4 DEF Decided
  <1> HIDE DEF key
  <1>7. UNCHANGED <<ops, status, pending, selected, live, diverged, candidate, edited, seen,
                    effects, granted, late, execs, faults>>
    BY DEF Decide, ledger, bounds
  <1> USE DEF key
  <1> QED BY <1>2, <1>4, <1>5, <1>6, <1>7

LEMMA AgainDoes ==
    ASSUME Core, NEW s \in Scope, Again(s)
    PROVE  LET f == frame[s] IN
           /\ f.pc = "again" /\ live
           /\ \/ diverged /\ Goes(s, F("ending", f.ord, f.hist, f.call, Mismatch))
              \/ ~diverged /\ Goes(s, F("entered", f.ord, f.hist,
                                        [f.call EXCEPT !.attempt = @ + 1], f.out))
           /\ UNCHANGED <<ops, status, pending, selected, live, diverged, candidate, script, edited,
                          seen, effects, granted, late, execs, faults>>
  <1> DEFINE f == frame[s]
  <1>1. /\ frame = [u \in Scope |-> frame[u]]
        /\ f = F(f.pc, f.ord, f.hist, f.call, f.out)
    BY Frames
  <1>2. CASE diverged
    <2>1. frame' = [frame EXCEPT ![s].pc = "ending", ![s].out = Mismatch]
      BY <1>2 DEF Again, Callable, End
    <2>2. Goes(s, F("ending", f.ord, f.hist, f.call, Mismatch))
      BY <1>1, <2>1 DEF Goes, F
    <2> QED BY <1>2, <2>2 DEF Again, At, ledger, history, bounds
  <1>3. CASE ~diverged
    <2>1. frame' = [frame EXCEPT ![s].pc = "entered", ![s].call.attempt = @ + 1]
      BY <1>3 DEF Again, Callable
    <2>2. Goes(s, F("entered", f.ord, f.hist, [f.call EXCEPT !.attempt = @ + 1], f.out))
      BY <1>1, <2>1 DEF Goes, F
    <2> QED BY <1>3, <2>2 DEF Again, At, ledger, history, bounds
  <1> QED BY <1>2, <1>3

LEMMA DivergeDoes ==
    ASSUME Core, NEW s \in Scope, Diverge(s)
    PROVE  LET f == frame[s] IN
           /\ f.pc = "entered" /\ live /\ <<s, f.ord>> \in DOMAIN ops
           /\ Fingerprint(ops[<<s, f.ord>>].call) # Fingerprint(f.call)
           /\ diverged' = TRUE
           /\ \/ Goes(s, F("ending", f.ord + 1, f.hist, f.call, Mismatch))
              \/ Goes(s, F("program", f.ord + 1, Append(f.hist, Mismatch), None, f.out))
           /\ UNCHANGED <<ops, status, pending, selected, live, candidate, script, edited,
                          seen, effects, granted, late, execs, faults>>
  <1> DEFINE f == frame[s]
  <1>1. /\ frame = [u \in Scope |-> frame[u]]
        /\ f = F(f.pc, f.ord, f.hist, f.call, f.out)
    BY Frames
  <1>2. /\ f.pc = "entered" /\ live /\ <<s, f.ord>> \in DOMAIN ops
        /\ Fingerprint(ops[<<s, f.ord>>].call) # Fingerprint(f.call)
        /\ diverged' = TRUE
    BY DEF Diverge, At, Recorded, Matches, Due, Name
  <1>3. CASE Leave(s, Mismatch)
    <2>1. frame' = [frame EXCEPT ![s].pc = "ending", ![s].out = Mismatch, ![s].ord = f.ord + 1]
      BY <1>3 DEF Leave, Advance
    <2>2. Goes(s, F("ending", f.ord + 1, f.hist, f.call, Mismatch))
      BY <1>1, <2>1 DEF Goes, F
    <2> QED BY <1>2, <2>2 DEF Diverge, ledger, history, bounds
  <1>4. CASE Catch(s, frame[s].ord + 1)
    <2>1. frame' = [frame EXCEPT ![s].pc = "program", ![s].ord = f.ord + 1,
                                 ![s].hist = Append(@, Mismatch), ![s].call = None]
      BY <1>4 DEF Catch
    <2>2. Goes(s, F("program", f.ord + 1, Append(f.hist, Mismatch), None, f.out))
      BY <1>1, <2>1 DEF Goes, F
    <2> QED BY <1>2, <2>2 DEF Diverge, ledger, history, bounds
  <1> QED BY <1>3, <1>4 DEF Diverge

(* The frame after an outcome o was given, at the ordinal n.                 *)
Handed(f, n, o) == IF Retried(f, o) THEN F("again", n, f.hist, f.call, f.out)
                   ELSE F("program", n, Append(f.hist, o), None, f.out)
LEMMA GivenIs ==
    ASSUME NEW f, NEW o, f = F(f.pc, f.ord, f.hist, f.call, f.out)
    PROVE  Given(f, o) = Handed(f, f.ord, o)
  <1>1. CASE Retried(f, o)
    <2>1. Given(f, o) = [f EXCEPT !.pc = "again"] /\ Handed(f, f.ord, o) = F("again", f.ord, f.hist, f.call, f.out)
      BY <1>1 DEF Given, Handed
    <2> QED BY <2>1 DEF F
  <1>2. CASE ~Retried(f, o)
    <2>1. /\ Given(f, o) = [f EXCEPT !.pc = "program", !.hist = Append(f.hist, o), !.call = None]
          /\ Handed(f, f.ord, o) = F("program", f.ord, Append(f.hist, o), None, f.out)
      BY <1>2 DEF Given, Handed
    <2> QED BY <2>1 DEF F
  <1> QED BY <1>1, <1>2
LEMMA GivenNext ==
    ASSUME NEW f, NEW n, NEW o, f = F(f.pc, f.ord, f.hist, f.call, f.out)
    PROVE  Given([f EXCEPT !.ord = n], o) = Handed(f, n, o)
  <1> DEFINE g == [f EXCEPT !.ord = n]
  <1>1. g = F(f.pc, n, f.hist, f.call, f.out)
    BY DEF F
  <1>2. /\ g = F(g.pc, g.ord, g.hist, g.call, g.out) /\ g.call = f.call /\ g.hist = f.hist
        /\ g.out = f.out /\ g.ord = n
    BY <1>1 DEF F
  <1> HIDE DEF g
  <1>3. Handed(g, n, o) = Handed(f, n, o)
    BY <1>2 DEF Handed, Retried
  <1>4. Given(g, o) = Handed(g, n, o)
    BY <1>2, GivenIs
  <1> QED BY <1>3, <1>4 DEF g

LEMMA ReuseDoes ==
    ASSUME Core, NEW s \in Scope, Reuse(s)
    PROVE  LET f == frame[s]
               p == <<s, f.ord>>
               o == Restored(ops[p].out) IN
           /\ f.pc = "entered" /\ live /\ p \in DOMAIN ops
           /\ Fingerprint(ops[p].call) = Fingerprint(f.call) /\ ops[p].status \in Done
           /\ Goes(s, Handed(f, f.ord + 1, o))
           /\ seen' = [seen EXCEPT ![p] = @ \cup {o}]
           /\ UNCHANGED <<ops, status, pending, selected, live, diverged, candidate, script, edited,
                          effects, granted, late, execs, faults>>
  <1> DEFINE f == frame[s]
             p == <<s, f.ord>>
             o == Restored(ops[p].out)
  <1>1. /\ frame = [u \in Scope |-> frame[u]]
        /\ f = F(f.pc, f.ord, f.hist, f.call, f.out)
    BY Frames
  <1> HIDE DEF o
  <1>2. /\ f.pc = "entered" /\ live /\ p \in DOMAIN ops
        /\ Fingerprint(ops[p].call) = Fingerprint(f.call) /\ ops[p].status \in Done
    BY DEF Reuse, At, Recorded, Matches, Due, Name, Done
  <1>3. /\ seen' = [seen EXCEPT ![p] = @ \cup {o}]
        /\ frame' = [frame EXCEPT ![s] = Given([f EXCEPT !.ord = f.ord + 1], o)]
    BY DEF Reuse, Due, Name, Advance, o
  <1>4. Goes(s, Handed(f, f.ord + 1, o))
    BY <1>1, <1>3, GivenNext DEF Goes
  <1>5. UNCHANGED <<ops, status, pending, selected, live, diverged, candidate, script, edited,
                    effects, granted, late, execs, faults>>
    BY DEF Reuse, ledger, bounds
  <1> USE DEF o
  <1> QED BY <1>2, <1>3, <1>4, <1>5
LEMMA RepeatDoes ==
    ASSUME Core, NEW s \in Scope, Repeat(s)
    PROVE  LET f == frame[s]
               p == <<s, f.ord>> IN
           /\ f.pc = "entered" /\ live /\ p \in DOMAIN ops
           /\ Fingerprint(ops[p].call) = Fingerprint(f.call) /\ ops[p].status \notin Done
           /\ \/ /\ Repeatable(s)
                 /\ Writes(p, Op(ops[p].call, ops[p].status, ops[p].out, FALSE))
                 /\ Goes(s, F("execute", f.ord + 1, f.hist, f.call, f.out))
              \/ /\ Goes(s, F("ending", f.ord + 1, f.hist, f.call, Suspended("uncertain")))
                 /\ UNCHANGED ops
           /\ UNCHANGED <<status, pending, selected, live, diverged, candidate, script, edited,
                          seen, effects, granted, late, execs, faults>>
  <1> DEFINE f == frame[s]
             p == <<s, f.ord>>
  <1>1. /\ frame = [u \in Scope |-> frame[u]]
        /\ f = F(f.pc, f.ord, f.hist, f.call, f.out)
        /\ ops = [q \in DOMAIN ops |-> ops[q]]
    BY Frames
  <1>2. /\ f.pc = "entered" /\ live /\ p \in DOMAIN ops
        /\ Fingerprint(ops[p].call) = Fingerprint(f.call) /\ ops[p].status \notin Done
    BY DEF Repeat, At, Recorded, Matches, Due, Name, Done
  <1>3. ops[p] = Op(ops[p].call, ops[p].status, ops[p].out, ops[p].auth)
    BY <1>2, Frames DEF IsRecord, Op
  <1>4. UNCHANGED <<status, pending, selected, live, diverged, candidate, script, edited,
                    seen, effects, granted, late, execs, faults>>
    BY DEF Repeat, history, bounds
  <1>5. CASE Repeatable(s)
    <2>1. /\ ops' = [ops EXCEPT ![p].auth = FALSE]
          /\ frame' = [frame EXCEPT ![s].pc = "execute", ![s].ord = f.ord + 1]
      BY <1>5 DEF Repeat, Spend, Enter, Advance, Due, Name
    <2>2. Goes(s, F("execute", f.ord + 1, f.hist, f.call, f.out))
      BY <1>1, <2>1 DEF Goes, F
    <2>3. Writes(p, Op(ops[p].call, ops[p].status, ops[p].out, FALSE))
      BY <1>1, <1>2, <1>3, <2>1 DEF Writes, Op
    <2> QED BY <1>2, <1>4, <1>5, <2>2, <2>3
  <1>6. CASE ~Repeatable(s)
    <2>1. /\ frame' = [frame EXCEPT ![s].pc = "ending", ![s].out = Suspended("uncertain"),
                                    ![s].ord = f.ord + 1]
          /\ UNCHANGED ops
      BY <1>6 DEF Repeat, Leave, Advance
    <2>2. Goes(s, F("ending", f.ord + 1, f.hist, f.call, Suspended("uncertain")))
      BY <1>1, <2>1 DEF Goes, F
    <2> QED BY <1>2, <1>4, <2>1, <2>2
  <1> QED BY <1>5, <1>6

LEMMA PerformDoes ==
    ASSUME Core, NEW s \in Scope, Perform(s)
    PROVE  LET f == frame[s] IN
           /\ f.pc = "execute" /\ live /\ f.call.kind = "activity"
           /\ effects' = [effects EXCEPT ![<<s, f.ord - 1>>] = @ + 1]
           /\ \/ \E o : /\ o \in {Result(v) : v \in Value} \cup {Error(f.call.fails)}
                        /\ Goes(s, F("commit", f.ord, f.hist, f.call, o))
              \/ s = Root /\ Goes(s, F("ending", f.ord, f.hist, f.call, Suspended("interrupt")))
           /\ UNCHANGED <<ops, status, pending, selected, live, diverged, candidate, script, edited,
                          seen, granted, late, execs, faults>>
  <1> DEFINE f == frame[s]
  <1>1. /\ frame = [u \in Scope |-> frame[u]]
        /\ f = F(f.pc, f.ord, f.hist, f.call, f.out)
    BY Frames
  <1>2. /\ f.pc = "execute" /\ live /\ f.call.kind = "activity"
        /\ effects' = [effects EXCEPT ![<<s, f.ord - 1>>] = @ + 1]
    BY DEF Perform, At, Here, Name
  <1>3. UNCHANGED <<ops, status, pending, selected, live, diverged, candidate, script, edited,
                    seen, granted, late, execs, faults>>
    BY DEF Perform, ledger, bounds
  <1>4. CASE s = Root /\ End(s, Suspended("interrupt"))
    <2>1. frame' = [frame EXCEPT ![s].pc = "ending", ![s].out = Suspended("interrupt")]
      BY <1>4 DEF End
    <2>2. Goes(s, F("ending", f.ord, f.hist, f.call, Suspended("interrupt")))
      BY <1>1, <2>1 DEF Goes, F
    <2> QED BY <1>2, <1>3, <1>4, <2>2
  <1>5. ASSUME NEW o \in {Result(v) : v \in Value} \cup {Error(f.call.fails)},
               frame' = [frame EXCEPT ![s].pc = "commit", ![s].out = o]
        PROVE  Goes(s, F("commit", f.ord, f.hist, f.call, o))
    BY <1>1, <1>5 DEF Goes, F
  <1> QED BY <1>2, <1>3, <1>4, <1>5 DEF Perform

LEMMA CommitDoes ==
    ASSUME Core, NEW s \in Scope, Commit(s)
    PROVE  LET f == frame[s]
               p == <<s, f.ord - 1>>
               o == Raised(f.out) IN
           /\ f.pc = "commit" /\ live /\ p \in DOMAIN ops
           /\ Writes(p, Op(ops[p].call, IF f.out.t = "value" THEN "completed" ELSE "failed",
                           Record(f.out), ops[p].auth))
           /\ Goes(s, Handed(f, f.ord, o))
           /\ seen' = [seen EXCEPT ![p] = @ \cup {o}]
           /\ UNCHANGED <<status, pending, selected, live, diverged, candidate, script, edited,
                          effects, granted, late, execs, faults>>
  <1> DEFINE f == frame[s]
             p == <<s, f.ord - 1>>
             o == Raised(f.out)
             st == IF f.out.t = "value" THEN "completed" ELSE "failed"
  <1> HIDE DEF o, st
  <1>1. /\ frame = [u \in Scope |-> frame[u]]
        /\ f = F(f.pc, f.ord, f.hist, f.call, f.out)
        /\ ops = [q \in DOMAIN ops |-> ops[q]]
    BY Frames
  <1>2. f.pc = "commit" /\ live
    BY DEF Commit, At
  <1>3. p \in DOMAIN ops
    BY <1>2 DEF Core, Control, Fits, Working
  <1>4. ops[p] = Op(ops[p].call, ops[p].status, ops[p].out, ops[p].auth)
    BY <1>3, Frames DEF IsRecord, Op
  <1>5. /\ ops' = [ops EXCEPT ![p].out = Record(f.out), ![p].status = st]
        /\ seen' = [seen EXCEPT ![p] = @ \cup {o}]
        /\ frame' = [frame EXCEPT ![s] = Given(f, o)]
    BY DEF Commit, Give, Here, Name, o, st
  <1>6. Goes(s, Handed(f, f.ord, o))
    BY <1>1, <1>5, GivenIs DEF Goes
  <1>7. Writes(p, Op(ops[p].call, st, Record(f.out), ops[p].auth))
    BY <1>1, <1>3, <1>4, <1>5 DEF Writes, Op
  <1>8. UNCHANGED <<status, pending, selected, live, diverged, candidate, script, edited,
                    effects, granted, late, execs, faults>>
    BY DEF Commit, bounds
  <1> USE DEF o, st
  <1> QED BY <1>2, <1>3, <1>5, <1>6, <1>7, <1>8

LEMMA LoseDoes ==
    ASSUME Core, NEW s \in Scope, Lose(s)
    PROVE  LET f == frame[s] IN
           /\ f.pc = "commit" /\ live
           /\ Goes(s, F("ending", f.ord, f.hist, f.call, Suspended("uncertain")))
           /\ UNCHANGED <<ops, status, pending, selected, live, diverged, candidate, script, edited,
                          seen, effects, granted, late, execs>>
  <1> DEFINE f == frame[s]
  <1>1. /\ frame = [u \in Scope |-> frame[u]]
        /\ f = F(f.pc, f.ord, f.hist, f.call, f.out)
    BY Frames
  <1>2. frame' = [frame EXCEPT ![s].pc = "ending", ![s].out = Suspended("uncertain")]
    BY DEF Lose, Unconfirmed, End
  <1>3. Goes(s, F("ending", f.ord, f.hist, f.call, Suspended("uncertain")))
    BY <1>1, <1>2 DEF Goes, F
  <1> QED BY <1>3 DEF Lose, Unconfirmed, At, ledger

LEMMA UseAnswerDoes ==
    ASSUME Core, NEW s \in Scope, UseAnswer(s)
    PROVE  LET f == frame[s]
               p == <<s, f.ord - 1>> IN
           /\ f.pc = "execute" /\ live /\ f.call.kind = "input"
           /\ p \in DOMAIN ops /\ ops[p].status = "response" /\ ops[p].call.kind = "input"
           /\ Goes(s, F("commit", f.ord, f.hist, f.call, ops[p].out))
           /\ UNCHANGED <<ops, status, pending, selected, live, diverged, candidate, script, edited,
                          seen, effects, granted, late, execs, faults>>
  <1> DEFINE f == frame[s]
             p == <<s, f.ord - 1>>
  <1>1. /\ frame = [u \in Scope |-> frame[u]]
        /\ f = F(f.pc, f.ord, f.hist, f.call, f.out)
    BY Frames
  <1>2. f.pc = "execute" /\ live /\ f.call.kind = "input" /\ ops[p].status = "response"
    BY DEF UseAnswer, Asks, At, Here, Name
  <1>3. p \in DOMAIN ops /\ Fingerprint(ops[p].call) = Fingerprint(f.call)
    BY <1>2 DEF Core, Control, Fits, Working
  <1>4. ops[p].call.kind = "input"
    BY <1>2, <1>3 DEF Fingerprint
  <1>5. frame' = [frame EXCEPT ![s].pc = "commit", ![s].out = ops[p].out]
    BY DEF UseAnswer, Here, Name
  <1>6. Goes(s, F("commit", f.ord, f.hist, f.call, ops[p].out))
    BY <1>1, <1>5 DEF Goes, F
  <1> QED BY <1>2, <1>3, <1>4, <1>6 DEF UseAnswer, ledger, history, bounds

LEMMA AskingIs ==
    ASSUME Core, NEW s \in Scope, Asks(s)
    PROVE  LET f == frame[s]
               p == <<s, f.ord - 1>> IN
           /\ f.pc = "execute" /\ live /\ f.call.kind = "input" /\ Here(s) = p
           /\ p \in DOMAIN ops /\ ops[p].call.kind = "input"
           /\ ops[p] = Op(ops[p].call, ops[p].status, ops[p].out, ops[p].auth)
  <1> DEFINE f == frame[s]
             p == <<s, f.ord - 1>>
  <1>1. f.pc = "execute" /\ live /\ f.call.kind = "input" /\ Here(s) = p
    BY DEF Asks, At, Here, Name
  <1>2. p \in DOMAIN ops /\ Fingerprint(ops[p].call) = Fingerprint(f.call)
    BY <1>1 DEF Core, Control, Fits, Working
  <1>3. ops[p].call.kind = "input"
    BY <1>1, <1>2 DEF Fingerprint
  <1>4. ops[p] = Op(ops[p].call, ops[p].status, ops[p].out, ops[p].auth)
    BY <1>2, Frames DEF IsRecord, Op
  <1> QED BY <1>1, <1>2, <1>3, <1>4

LEMMA TakeAnswerDoes ==
    ASSUME Core, NEW s \in Scope, TakeAnswer(s)
    PROVE  LET f == frame[s]
               p == <<s, f.ord - 1>> IN
           /\ f.pc = "execute" /\ live /\ f.call.kind = "input"
           /\ p \in DOMAIN ops /\ ops[p].status = "waiting" /\ ops[p].call.kind = "input"
           /\ \/ Goes(s, F("ending", f.ord, f.hist, f.call, Asking(p))) /\ UNCHANGED ops
              \/ \E v : /\ Writes(p, Op(ops[p].call, "response", Record(Result(v)), ops[p].auth))
                        /\ Goes(s, F("commit", f.ord, f.hist, f.call, Result(v)))
              \/ /\ Goes(s, F("ending", f.ord, f.hist, f.call, Suspended("uncertain")))
                 /\ UNCHANGED ops
           /\ UNCHANGED <<status, pending, selected, live, diverged, script, edited,
                          seen, effects, granted, late, execs>>
  <1> DEFINE f == frame[s]
             p == <<s, f.ord - 1>>
  <1>1. /\ frame = [u \in Scope |-> frame[u]]
        /\ f = F(f.pc, f.ord, f.hist, f.call, f.out)
        /\ ops = [q \in DOMAIN ops |-> ops[q]]
    BY Frames
  <1>2. /\ f.pc = "execute" /\ live /\ f.call.kind = "input" /\ Here(s) = p
        /\ p \in DOMAIN ops /\ ops[p].call.kind = "input"
        /\ ops[p] = Op(ops[p].call, ops[p].status, ops[p].out, ops[p].auth)
    BY AskingIs DEF TakeAnswer
  <1>3. ops[p].status = "waiting"
    BY <1>2 DEF TakeAnswer
  <1>4. UNCHANGED <<status, pending, selected, live, diverged, script, edited,
                    seen, effects, granted, late, execs>>
    BY DEF TakeAnswer, history
  <1>5. CASE End(s, Asking(p)) /\ UNCHANGED ops
    <2>1. frame' = [frame EXCEPT ![s].pc = "ending", ![s].out = Asking(p)]
      BY <1>5 DEF End
    <2>2. Goes(s, F("ending", f.ord, f.hist, f.call, Asking(p)))
      BY <1>1, <2>1 DEF Goes, F
    <2> QED BY <1>2, <1>3, <1>4, <1>5, <2>2
  <1>6. CASE End(s, Suspended("uncertain")) /\ UNCHANGED ops
    <2>1. frame' = [frame EXCEPT ![s].pc = "ending", ![s].out = Suspended("uncertain")]
      BY <1>6 DEF End
    <2>2. Goes(s, F("ending", f.ord, f.hist, f.call, Suspended("uncertain")))
      BY <1>1, <2>1 DEF Goes, F
    <2> QED BY <1>2, <1>3, <1>4, <1>6, <2>2
  <1>7. ASSUME NEW v,
               ops' = [ops EXCEPT ![p].status = "response", ![p].out = Record(Result(v))],
               frame' = [frame EXCEPT ![s].pc = "commit", ![s].out = Result(v)]
        PROVE  /\ Writes(p, Op(ops[p].call, "response", Record(Result(v)), ops[p].auth))
               /\ Goes(s, F("commit", f.ord, f.hist, f.call, Result(v)))
    <2>1. Goes(s, F("commit", f.ord, f.hist, f.call, Result(v)))
      BY <1>1, <1>7 DEF Goes, F
    <2>2. Writes(p, Op(ops[p].call, "response", Record(Result(v)), ops[p].auth))
      BY <1>1, <1>2, <1>7 DEF Writes, Op
    <2> QED BY <2>1, <2>2
  <1> QED BY <1>2, <1>3, <1>4, <1>5, <1>6, <1>7 DEF TakeAnswer

LEMMA AskDoes ==
    ASSUME Core, NEW s \in Scope, Ask(s)
    PROVE  LET f == frame[s]
               p == <<s, f.ord - 1>> IN
           /\ f.pc = "execute" /\ live /\ f.call.kind = "input"
           /\ p \in DOMAIN ops /\ ops[p].status \in {"started", "waiting"}
           /\ ops[p].call.kind = "input"
           /\ \/ /\ Goes(s, F("ending", f.ord, f.hist, f.call, Asking(p)))
                 /\ Writes(p, Op(ops[p].call, "waiting", ops[p].out, ops[p].auth))
              \/ /\ Goes(s, F("ending", f.ord, f.hist, f.call, Suspended("uncertain")))
                 /\ UNCHANGED ops
           /\ UNCHANGED <<status, pending, selected, live, diverged, candidate, script, edited,
                          seen, effects, granted, late, execs>>
  <1> DEFINE f == frame[s]
             p == <<s, f.ord - 1>>
  <1>1. /\ frame = [u \in Scope |-> frame[u]]
        /\ f = F(f.pc, f.ord, f.hist, f.call, f.out)
        /\ ops = [q \in DOMAIN ops |-> ops[q]]
    BY Frames
  <1>2. /\ f.pc = "execute" /\ live /\ f.call.kind = "input" /\ Here(s) = p
        /\ p \in DOMAIN ops /\ ops[p].call.kind = "input"
        /\ ops[p] = Op(ops[p].call, ops[p].status, ops[p].out, ops[p].auth)
    BY AskingIs DEF Ask
  <1>3. ops[p].status \in {"started", "waiting"}
    BY <1>2 DEF Ask, Unchecked
  <1>4. UNCHANGED <<status, pending, selected, live, diverged, candidate, script, edited,
                    seen, effects, granted, late, execs>>
    BY DEF Ask, history
  <1>5. CASE End(s, Asking(p)) /\ ops' = [ops EXCEPT ![p].status = "waiting"]
    <2>1. frame' = [frame EXCEPT ![s].pc = "ending", ![s].out = Asking(p)]
      BY <1>5 DEF End
    <2>2. Goes(s, F("ending", f.ord, f.hist, f.call, Asking(p)))
      BY <1>1, <2>1 DEF Goes, F
    <2>3. Writes(p, Op(ops[p].call, "waiting", ops[p].out, ops[p].auth))
      BY <1>1, <1>2, <1>5 DEF Writes, Op
    <2> QED BY <1>2, <1>3, <1>4, <2>2, <2>3
  <1>6. CASE End(s, Suspended("uncertain")) /\ UNCHANGED ops
    <2>1. frame' = [frame EXCEPT ![s].pc = "ending", ![s].out = Suspended("uncertain")]
      BY <1>6 DEF End
    <2>2. Goes(s, F("ending", f.ord, f.hist, f.call, Suspended("uncertain")))
      BY <1>1, <2>1 DEF Goes, F
    <2> QED BY <1>2, <1>3, <1>4, <1>6, <2>2
  <1> QED BY <1>2, <1>5, <1>6 DEF Ask
LEMMA FirstIs ==
    ASSUME NEW n \in Nat, NEW o, DOMAIN o = 1 .. n
    PROVE  /\ Some(o, IsSuspension) =>
                \E i \in 1 .. n : FirstOf(o, IsSuspension) = o[i] /\ IsSuspension(o[i])
           /\ Some(o, IsError) =>
                \E i \in 1 .. n : FirstOf(o, IsError) = o[i] /\ IsError(o[i])
  <1>1. ASSUME Some(o, IsSuspension)
        PROVE  \E i \in 1 .. n : FirstOf(o, IsSuspension) = o[i] /\ IsSuspension(o[i])
    <2> DEFINE S == {i \in 1 .. n : IsSuspension(o[i])}
    <2>1. S \subseteq Nat /\ S # {}
      BY <1>1 DEF Some
    <2>2. PICK i \in S : \A j \in S : i <= j
      BY <2>1, Least
    <2>3. \E k \in DOMAIN o : IsSuspension(o[k]) /\ \A j \in 1 .. k - 1 : ~IsSuspension(o[j])
      BY <2>2
    <2> DEFINE k == CHOOSE k \in DOMAIN o : IsSuspension(o[k]) /\ \A j \in 1 .. k - 1 : ~IsSuspension(o[j])
    <2>4. k \in DOMAIN o /\ IsSuspension(o[k])
      BY <2>3
    <2>5. FirstOf(o, IsSuspension) = o[k]
      BY DEF FirstOf
    <2> HIDE DEF k
    <2> QED BY <2>4, <2>5
  <1>2. ASSUME Some(o, IsError)
        PROVE  \E i \in 1 .. n : FirstOf(o, IsError) = o[i] /\ IsError(o[i])
    <2> DEFINE S == {i \in 1 .. n : IsError(o[i])}
    <2>1. S \subseteq Nat /\ S # {}
      BY <1>2 DEF Some
    <2>2. PICK i \in S : \A j \in S : i <= j
      BY <2>1, Least
    <2>3. \E k \in DOMAIN o : IsError(o[k]) /\ \A j \in 1 .. k - 1 : ~IsError(o[j])
      BY <2>2
    <2> DEFINE k == CHOOSE k \in DOMAIN o : IsError(o[k]) /\ \A j \in 1 .. k - 1 : ~IsError(o[j])
    <2>4. k \in DOMAIN o /\ IsError(o[k])
      BY <2>3
    <2>5. FirstOf(o, IsError) = o[k]
      BY DEF FirstOf
    <2> HIDE DEF k
    <2> QED BY <2>4, <2>5
  <1> QED BY <1>1, <1>2

LEMMA Outcomes ==
    /\ \A v : IsOutcome(Result(v)) /\ Result(v).t = "value"
    /\ \A v : IsOutcome(Error(v)) /\ Error(v).t = "error"
    /\ \A v : IsOutcome(Joined(v)) /\ Joined(v).t = "value"
    /\ \A p : IsOutcome(Asking(p)) /\ Asking(p).t = "input" /\ Asking(p).at = p
    /\ IsOutcome(Mismatch) /\ Mismatch.t = "mismatch"
    /\ \A k \in {"uncertain", "budget", "interrupt"} : IsOutcome(Suspended(k)) /\ Suspended(k).t = k
  BY DEF IsOutcome, Result, Error, Joined, Asking, Mismatch, Suspended, Plain, Ends, Final

(* What a group reports, from what its branches ended with.                  *)
Reported(s, o) ==
    \/ frame[s].call.kind = "child" /\ \E m \in Members(s) : Members(s) = {m} /\ o = frame[m].out
    \/ frame[s].call.kind # "child" /\ diverged /\ o = Mismatch
    \/ /\ frame[s].call.kind # "child" /\ ~diverged
       /\ \/ \E m \in Members(s) : o = frame[m].out /\ IsSuspension(o)
          \/ /\ \A m \in Members(s) : ~IsSuspension(frame[m].out)
             /\ \/ \E m \in Members(s) : o = frame[m].out /\ IsError(o)
                \/ IsOutcome(o) /\ o.t = "value"

LEMMA GroupReports ==
    ASSUME Core, NEW s \in Scope, frame[s].call.kind # "child",
           NEW o, o = GroupOut(Outs(s), frame[s].call.kind)
    PROVE  Reported(s, o)
  <1> DEFINE n == frame[s].ord - 1
             outs == Outs(s)
             kind == frame[s].call.kind
  <1>1. Members(s) = {<<n, i>> : i \in 1 .. Width}
    BY DEF Members
  <1>2. DOMAIN outs = 1 .. Width /\ \A i \in 1 .. Width : outs[i] = frame[<<n, i>>].out
    BY DEF Outs
  <1> HIDE DEF outs
  <1>3. CASE diverged
    BY <1>3 DEF GroupOut, Reported
  <1>4. CASE ~diverged /\ Some(outs, IsSuspension)
    <2>1. o = FirstOf(outs, IsSuspension)
      BY <1>4 DEF GroupOut, outs
    <2>2. PICK i \in 1 .. Width : o = outs[i] /\ IsSuspension(outs[i])
      BY <1>2, <1>4, <2>1, FirstIs, Scopes
    <2> QED BY <1>1, <1>2, <1>4, <2>2 DEF Reported
  <1>5. CASE ~diverged /\ ~Some(outs, IsSuspension) /\ Some(outs, IsError) /\ kind = "all"
    <2>1. o = FirstOf(outs, IsError)
      BY <1>5 DEF GroupOut, outs
    <2>2. PICK i \in 1 .. Width : o = outs[i] /\ IsError(outs[i])
      BY <1>2, <1>5, <2>1, FirstIs, Scopes
    <2>3. \A m \in Members(s) : ~IsSuspension(frame[m].out)
      BY <1>1, <1>2, <1>5 DEF Some
    <2> QED BY <1>1, <1>2, <1>5, <2>2, <2>3 DEF Reported
  <1>6. CASE ~diverged /\ ~Some(outs, IsSuspension) /\ ~(Some(outs, IsError) /\ kind = "all")
    <2>1. o = Joined(outs)
      BY <1>6 DEF GroupOut, outs
    <2>3. \A m \in Members(s) : ~IsSuspension(frame[m].out)
      BY <1>1, <1>2, <1>6 DEF Some
    <2> QED BY <1>6, <2>1, <2>3, Outcomes DEF Reported
  <1> QED BY <1>3, <1>4, <1>5, <1>6

LEMMA CloseDoes ==
    ASSUME Core, NEW s \in Scope, Close(s)
    PROVE  LET f == frame[s] IN
           /\ f.pc = "group" /\ live /\ s = Root /\ Members(s) \subseteq Sub
           /\ \A m \in Members(s) : frame[m].pc = "done" /\ IsOutcome(frame[m].out)
           /\ \E o : /\ Reported(s, o) /\ IsOutcome(o)
                     /\ \/ /\ o.t \in Final /\ Goes(s, F("commit", f.ord, f.hist, f.call, o))
                        \/ /\ o.t \notin Final /\ Goes(s, F("ending", f.ord, f.hist, f.call, o))
                        \/ /\ o = Mismatch
                           /\ Goes(s, F("program", f.ord, Append(f.hist, Mismatch), None, f.out))
           /\ UNCHANGED <<ops, status, pending, selected, live, diverged, candidate, script, edited,
                          seen, effects, granted, late, execs, faults>>
  <1> DEFINE f == frame[s]
             kind == f.call.kind
             o == IF kind = "child" THEN frame[<<f.ord - 1, 0>>].out ELSE GroupOut(Outs(s), kind)
  <1> HIDE DEF o
  <1>1. /\ frame = [u \in Scope |-> frame[u]]
        /\ f = F(f.pc, f.ord, f.hist, f.call, f.out)
    BY Frames
  <1>2. /\ f.pc = "group" /\ live
        /\ \A m \in Members(s) : frame[m].pc = "done"
    BY DEF Close, At, Settled
  <1>3. s = Root /\ Members(s) \subseteq Sub
    BY <1>2 DEF Core, Control
  <1>4. \A m \in Members(s) : IsOutcome(frame[m].out)
    BY <1>2, <1>3, Scopes DEF Core, Control, Fits
  <1>5. Reported(s, o)
    <2>1. CASE kind = "child"
      <3>1. Members(s) = {<<f.ord - 1, 0>>} /\ o = frame[<<f.ord - 1, 0>>].out
        BY <2>1 DEF Members, o
      <3> QED BY <2>1, <3>1 DEF Reported
    <2>2. CASE kind # "child"
      <3>1. o = GroupOut(Outs(s), kind)
        BY <2>2 DEF o
      <3> QED BY <2>2, <3>1, GroupReports
    <2> QED BY <2>1, <2>2
  <1>6. IsOutcome(o)
    BY <1>4, <1>5, Outcomes DEF Reported
  <1>7. \/ frame' = [frame EXCEPT ![s].out = o, ![s].pc = IF o.t \in Final THEN "commit" ELSE "ending"]
        \/ /\ o = Mismatch
           /\ frame' = [frame EXCEPT ![s].pc = "program", ![s].ord = f.ord,
                                     ![s].hist = Append(@, Mismatch), ![s].call = None]
    BY DEF Close, Catch, o
  <1>8. \/ /\ o.t \in Final /\ Goes(s, F("commit", f.ord, f.hist, f.call, o))
        \/ /\ o.t \notin Final /\ Goes(s, F("ending", f.ord, f.hist, f.call, o))
        \/ /\ o = Mismatch
           /\ Goes(s, F("program", f.ord, Append(f.hist, Mismatch), None, f.out))
    <2>1. CASE o.t \in Final /\ frame' = [frame EXCEPT ![s].out = o, ![s].pc = "commit"]
      <3>1. Goes(s, F("commit", f.ord, f.hist, f.call, o))
        BY <1>1, <2>1 DEF Goes, F
      <3> QED BY <2>1, <3>1
    <2>2. CASE o.t \notin Final /\ frame' = [frame EXCEPT ![s].out = o, ![s].pc = "ending"]
      <3>1. Goes(s, F("ending", f.ord, f.hist, f.call, o))
        BY <1>1, <2>2 DEF Goes, F
      <3> QED BY <2>2, <3>1
    <2>3. CASE /\ o = Mismatch
               /\ frame' = [frame EXCEPT ![s].pc = "program", ![s].ord = f.ord,
                                         ![s].hist = Append(@, Mismatch), ![s].call = None]
      <3>1. Goes(s, F("program", f.ord, Append(f.hist, Mismatch), None, f.out))
        BY <1>1, <2>3 DEF Goes, F
      <3> QED BY <2>3, <3>1
    <2> QED BY <1>7, <2>1, <2>2, <2>3
  <1>9. UNCHANGED <<ops, status, pending, selected, live, diverged, candidate, script, edited,
                    seen, effects, granted, late, execs, faults>>
    BY DEF Close, ledger, history, bounds
  <1> QED BY <1>2, <1>3, <1>4, <1>5, <1>6, <1>8, <1>9

LEMMA FinishDoes ==
    ASSUME Core, NEW s \in Scope, Finish(s)
    PROVE  LET f == frame[s]
               rest == \E p \in DOMAIN ops : p[1] = s /\ p[2] >= f.ord IN
           /\ f.pc = "ending" /\ live
           /\ \/ /\ f.out.t \in Final /\ (diverged \/ rest) /\ diverged' = TRUE
                 /\ Goes(s, F("done", f.ord, f.hist, f.call, Mismatch))
              \/ /\ f.out.t \in Final => ~diverged /\ ~rest
                 /\ diverged' = diverged
                 /\ Goes(s, F("done", f.ord, f.hist, f.call, f.out))
           /\ UNCHANGED <<ops, status, pending, selected, live, candidate, script, edited,
                          seen, effects, granted, late, execs, faults>>
  <1> DEFINE f == frame[s]
             rest == \E p \in DOMAIN ops : p[1] = s /\ p[2] >= f.ord
             wrong == f.out.t \in Final /\ (diverged \/ rest)
  <1> HIDE DEF rest
  <1>1. /\ frame = [u \in Scope |-> frame[u]]
        /\ f = F(f.pc, f.ord, f.hist, f.call, f.out)
    BY Frames
  <1>2. /\ f.pc = "ending" /\ live /\ diverged' = (diverged \/ wrong)
        /\ frame' = [frame EXCEPT ![s].pc = "done", ![s].out = IF wrong THEN Mismatch ELSE @]
    BY DEF Finish, At, Asserts, Leftovers, Name, rest
  <1>3. UNCHANGED <<ops, status, pending, selected, live, candidate, script, edited,
                    seen, effects, granted, late, execs, faults>>
    BY DEF Finish, ledger, history, bounds
  <1>4. diverged \in BOOLEAN
    BY DEF Core, TypeOK, Others
  <1>5. CASE wrong
    <2>1. frame' = [frame EXCEPT ![s].pc = "done", ![s].out = Mismatch]
      BY <1>2, <1>5
    <2>2. Goes(s, F("done", f.ord, f.hist, f.call, Mismatch))
      BY <1>1, <2>1 DEF Goes, F
    <2> QED BY <1>2, <1>3, <1>5, <2>2 DEF rest
  <1>6. CASE ~wrong
    <2>1. frame' = [frame EXCEPT ![s].pc = "done", ![s].out = @]
      BY <1>2, <1>6
    <2>2. Goes(s, F("done", f.ord, f.hist, f.call, f.out))
      BY <1>1, <2>1 DEF Goes, F
    <2> QED BY <1>2, <1>3, <1>4, <1>6, <2>2 DEF rest
  <1> QED BY <1>5, <1>6

(* A child or the branches of a group begin with a frame of their own.       *)
LEMMA OpenDoes ==
    ASSUME Core, NEW s \in Scope, Open(s)
    PROVE  LET f == frame[s] IN
           /\ f.pc = "execute" /\ live /\ s = Root /\ f.call.kind \in Groups
           /\ Members(s) \subseteq Sub
           /\ frame' = [u \in Scope |-> frame'[u]]
           /\ frame'[s] = F("group", f.ord, f.hist, f.call, f.out)
           /\ \A m \in Members(s) : frame'[m] = Fresh
           /\ \A u \in Scope : u # s /\ u \notin Members(s) => frame'[u] = frame[u]
           /\ UNCHANGED <<ops, status, pending, selected, live, diverged, candidate, script, edited,
                          seen, effects, granted, late, execs, faults>>
  <1> DEFINE f == frame[s]
  <1>1. f = F(f.pc, f.ord, f.hist, f.call, f.out)
    BY Frames
  <1>2. /\ f.pc = "execute" /\ live /\ s = Root /\ f.call.kind \in Groups
        /\ Members(s) \subseteq Scope
    BY DEF Open, At, Groups
  <1>3. Members(s) \subseteq Sub /\ s \notin Members(s)
    BY <1>2, Scopes DEF Members, Root
  <1>4. /\ frame' = [m \in Scope |->
              CASE m = s -> [frame[m] EXCEPT !.pc = "group"]
                [] m \in Members(s) -> Fresh
                [] OTHER -> frame[m]]
    BY DEF Open
  <1>5. frame'[s] = [f EXCEPT !.pc = "group"]
    BY <1>3, <1>4
  <1>6. frame'[s] = F("group", f.ord, f.hist, f.call, f.out)
    BY <1>1, <1>5 DEF F
  <1>7. /\ \A m \in Members(s) : frame'[m] = Fresh
        /\ \A u \in Scope : u # s /\ u \notin Members(s) => frame'[u] = frame[u]
        /\ frame' = [u \in Scope |-> frame'[u]]
    BY <1>2, <1>3, <1>4
  <1>8. UNCHANGED <<ops, status, pending, selected, live, diverged, candidate, script, edited,
                    seen, effects, granted, late, execs, faults>>
    BY DEF Open, ledger, history, bounds
  <1> QED BY <1>2, <1>3, <1>6, <1>7, <1>8
-----------------------------------------------------------------------------
(* Types and places.                                                         *)
LEMMA RootAlone ==
    ASSUME Core, frame[Root].pc # "group" \/ \A m \in Members(Root) : frame[m].pc = "done"
    PROVE  \A m \in Sub : frame[m].pc \in {"idle", "done"}
  BY Scopes DEF Core, Control

LEMMA ScopeKeeps ==
    ASSUME Core, NEW s \in Scope, NEW f, Goes(s, f), IsFrame(f), f.pc \notin {"idle", "group"},
           live, UNCHANGED <<live, selected>>, Others',
           \/ ops' = ops
           \/ \E n \in Nat : \E r : Writes(<<s, n>>, r) /\ IsRecord(r) /\ Kept(r),
           Fits(ops', s, f),
           IF s = Root THEN \A m \in Sub : frame[m].pc \in {"idle", "done"}
           ELSE frame[s].pc \notin {"idle", "done"}
    PROVE  Core'
  <1>1. /\ DOMAIN ops \subseteq DOMAIN ops' /\ DOMAIN ops' \subseteq Scope \X Nat
        /\ ops' = [p \in DOMAIN ops' |-> ops'[p]]
        /\ \A p \in DOMAIN ops' : IsRecord(ops'[p]) /\ Kept(ops'[p])
        /\ \A p \in DOMAIN ops' : p[1] # s => p \in DOMAIN ops /\ ops'[p] = ops[p]
    <2>1. CASE ops' = ops
      BY <2>1 DEF Core, TypeOK
    <2>2. ASSUME NEW n \in Nat, NEW r, Writes(<<s, n>>, r), IsRecord(r), Kept(r)
          PROVE  /\ DOMAIN ops \subseteq DOMAIN ops' /\ DOMAIN ops' \subseteq Scope \X Nat
                 /\ ops' = [p \in DOMAIN ops' |-> ops'[p]]
                 /\ \A p \in DOMAIN ops' : IsRecord(ops'[p]) /\ Kept(ops'[p])
                 /\ \A p \in DOMAIN ops' : p[1] # s => p \in DOMAIN ops /\ ops'[p] = ops[p]
      BY <2>2, Pairs DEF Writes, Core, TypeOK
    <2> QED BY <2>1, <2>2
  <1>2. TypeOK'
    <2>1. \A u \in Scope : IsFrame(frame'[u])
      BY DEF Core, TypeOK, Goes
    <2> QED BY <1>1, <2>1 DEF TypeOK, Goes
  <1>3. Chosen'
    BY DEF Core, Chosen
  <1>4. ASSUME NEW u \in Scope
        PROVE  Control(u)'
    <2>1. Fits(ops', u, frame'[u])
      <3>1. CASE u = s
        BY <3>1 DEF Goes
      <3>2. CASE u # s
        <4>1. frame'[u] = frame[u] /\ Fits(ops, u, frame[u])
          BY <3>2 DEF Goes, Core, Control
        <4>2. <<u, frame[u].ord - 1>> \in DOMAIN ops =>
                <<u, frame[u].ord - 1>> \in DOMAIN ops' /\ ops'[<<u, frame[u].ord - 1>>] = ops[<<u, frame[u].ord - 1>>]
          BY <1>1, <3>2, Pairs
        <4>3. frame[u].pc = "commit" => frame[u].pc \in Working
          BY DEF Working
        <4> QED BY <4>1, <4>2, <4>3 DEF Fits
      <3> QED BY <3>1, <3>2
    <2>2. frame'[u].pc # "idle" => live'
      BY DEF Core, Control, Goes
    <2>3. ~(frame'[u].pc = "group" /\ u = s)
      BY DEF Goes
    <2>4. Members(u)' = Members(u) \/ u = s
      BY DEF Members, Goes
    <2>5. frame'[u].pc = "group" => /\ u = Root /\ frame'[u].call.kind \in Groups
                                    /\ Members(u)' \subseteq Sub
      BY <2>3, <2>4 DEF Core, Control, Goes
    <2>6. u \in Sub /\ frame'[u].pc \notin {"idle", "done"} =>
            frame'[Root].pc = "group" /\ u \in Members(Root)'
      <3>1. CASE s = Root
        BY <3>1, Scopes DEF Goes
      <3>2. CASE s # Root
        <4>1. frame'[Root] = frame[Root] /\ Members(Root)' = Members(Root)
          <5>1. frame'[Root] = frame[Root]
            BY <3>2, Scopes DEF Goes
          <5> QED BY <5>1 DEF Members
        <4>2. u \in Sub /\ frame'[u].pc \notin {"idle", "done"} => frame[u].pc \notin {"idle", "done"}
          BY <3>2 DEF Goes
        <4> QED BY <4>1, <4>2 DEF Core, Control
      <3> QED BY <3>1, <3>2
    <2> QED BY <2>1, <2>2, <2>5, <2>6 DEF Control
  <1> QED BY <1>1, <1>2, <1>3, <1>4 DEF Core
LEMMA OthersKeep ==
    ASSUME Core
    PROVE  /\ Others
           /\ live' \in BOOLEAN /\ diverged' \in BOOLEAN /\ edited' = edited
              /\ UNCHANGED <<script, seen, effects, granted, late>> => Others'
  BY DEF Core, TypeOK, Others

LEMMA Acting ==
    ASSUME Core, NEW s \in Scope, frame[s].pc \notin {"idle", "done", "group"}
    PROVE  IF s = Root THEN \A m \in Sub : frame[m].pc \in {"idle", "done"}
           ELSE frame[s].pc \notin {"idle", "done"}
  <1>1. CASE s = Root
    BY <1>1, RootAlone
  <1> QED BY <1>1

LEMMA FrameIs ==
    ASSUME NEW pc \in Pcs, NEW n \in Nat, NEW h, h \in Seq(Range(h)), NEW c, NEW o,
           NEW f, f = F(pc, n, h, c, o)
    PROVE  /\ IsFrame(f) /\ f.pc = pc /\ f.ord = n /\ f.hist = h /\ f.call = c /\ f.out = o
  BY DEF F, IsFrame

LEMMA OpIs ==
    ASSUME NEW c, IsCall(c), NEW st \in Statuses, NEW o, NEW a \in BOOLEAN, NEW r, r = Op(c, st, o, a)
    PROVE  IsRecord(r) /\ r.call = c /\ r.status = st /\ r.out = o /\ r.auth = a
  BY DEF Op, IsRecord

LEMMA FieldsOf ==
    ASSUME Core, NEW s \in Scope
    PROVE  /\ frame[s].ord \in Nat /\ frame[s].ord + 1 \in Nat /\ frame[s].pc \in Pcs
           /\ frame[s].hist \in Seq(Range(frame[s].hist))
           /\ \A o : Append(frame[s].hist, o) \in Seq(Range(Append(frame[s].hist, o)))
           /\ frame[s].pc \in Working => frame[s].ord - 1 \in Nat
  <1>1. IsFrame(frame[s]) /\ Fits(ops, s, frame[s])
    BY DEF Core, TypeOK, Control
  <1>2. frame[s].ord \in Nat /\ frame[s].hist \in Seq(Range(frame[s].hist)) /\ frame[s].pc \in Pcs
    BY <1>1 DEF IsFrame
  <1>3. frame[s].pc \in Working => frame[s].ord # 0
    BY <1>1 DEF Fits
  <1> QED BY <1>2, <1>3, Appends

(* A scope that goes on without writing.                                     *)
LEMMA GoesOn ==
    ASSUME Core, NEW s \in Scope, NEW pc \in Pcs \ {"idle", "group"}, NEW n \in Nat,
           NEW h, h \in Seq(Range(h)), NEW c, NEW o, Goes(s, F(pc, n, h, c, o)),
           frame[s].pc \notin {"idle", "done", "group"},
           live, UNCHANGED <<live, selected, ops>>, Others',
           Fits(ops, s, F(pc, n, h, c, o))
    PROVE  Core'
  <1> DEFINE f == F(pc, n, h, c, o)
  <1>1. IsFrame(f) /\ f.pc = pc
    BY FrameIs
  <1>2. Fits(ops', s, f)
    BY DEF Fits
  <1> HIDE DEF f
  <1>3. Goes(s, f)
    BY DEF f
  <1> QED BY <1>1, <1>2, <1>3, Acting, ScopeKeeps

LEMMA FitsEnd ==
    ASSUME NEW s, NEW pc \in {"ending", "done"}, NEW n, NEW h, NEW c, NEW o, IsOutcome(o), NEW t
    PROVE  Fits(t, s, F(pc, n, h, c, o))
  BY DEF Fits, F, Working

LEMMA FitsProgram ==
    ASSUME NEW s, NEW n, NEW h, NEW c, NEW o, NEW t
    PROVE  Fits(t, s, F("program", n, h, c, o))
  BY DEF Fits, F, Working

LEMMA FitsCall ==
    ASSUME NEW s, NEW pc \in {"again", "entered"}, NEW n, NEW h, NEW c, NEW o, NEW t, Calls(s, c)
    PROVE  Fits(t, s, F(pc, n, h, c, o))
  BY DEF Fits, F, Working

LEMMA FitsWork ==
    ASSUME NEW s, NEW pc \in Working, NEW n \in Nat, n # 0, NEW h, NEW c, NEW o, NEW t, Calls(s, c),
           LET p == <<s, n - 1>> IN
           /\ p \in DOMAIN t /\ t[p].status \notin Done
           /\ Fingerprint(t[p].call) = Fingerprint(c)
           /\ pc = "commit" => /\ IsOutcome(o) /\ o.t \in Final
                               /\ c.kind = "input" => o.t = "value" /\ t[p].status = "response"
    PROVE  Fits(t, s, F(pc, n, h, c, o))
  BY DEF Fits, F, Working

LEMMA CallOf ==
    ASSUME Core, NEW s \in Scope, frame[s].pc \in {"again", "entered"} \cup Working
    PROVE  Calls(s, frame[s].call) /\ IsCall(frame[s].call)
  <1>1. Fits(ops, s, frame[s])
    BY DEF Core, Control
  <1> QED BY <1>1 DEF Fits, Calls

LEMMA WorkOf ==
    ASSUME Core, NEW s \in Scope, frame[s].pc \in Working
    PROVE  LET p == <<s, frame[s].ord - 1>> IN
           /\ frame[s].ord # 0 /\ p \in DOMAIN ops /\ ops[p].status \notin Done
           /\ Fingerprint(ops[p].call) = Fingerprint(frame[s].call)
           /\ ops[p].call.kind = frame[s].call.kind
           /\ IsRecord(ops[p]) /\ Kept(ops[p]) /\ Here(s) = p
           /\ frame[s].pc = "commit" =>
                /\ IsOutcome(frame[s].out) /\ frame[s].out.t \in Final
                /\ frame[s].call.kind = "input" =>
                     frame[s].out.t = "value" /\ ops[p].status = "response"
  <1>1. Fits(ops, s, frame[s])
    BY DEF Core, Control
  <1>2. <<s, frame[s].ord - 1>> \in DOMAIN ops
    BY <1>1 DEF Fits
  <1>3. IsRecord(ops[<<s, frame[s].ord - 1>>]) /\ Kept(ops[<<s, frame[s].ord - 1>>])
    BY <1>2 DEF Core, TypeOK
  <1> QED BY <1>1, <1>2, <1>3 DEF Fits, Fingerprint, Here, Name
LEMMA DecideCore ==
    ASSUME Core, NEW s \in Scope, Decide(s)
    PROVE  Core'
  <1> DEFINE f == frame[s]
             key == <<s, f.hist>>
  <1>1. /\ f.pc = "program" /\ live
        /\ UNCHANGED <<ops, selected, live, diverged, edited, seen, effects, granted, late>>
    BY DecideDoes
  <1>2. PICK d :
          /\ Decided(s, d)
          /\ IF diverged THEN script' = script
             ELSE script' = [k \in DOMAIN script \cup {key} |-> IF k = key THEN d ELSE script[k]]
          /\ \/ d.do = "return" /\ Goes(s, F("ending", f.ord, f.hist, f.call, Result("done")))
             \/ d.do = "raise" /\ Goes(s, F("ending", f.ord, f.hist, f.call, Error("raised")))
             \/ /\ d.do = "call" /\ diverged
                /\ Goes(s, F("ending", f.ord, f.hist, f.call, Mismatch))
             \/ /\ d.do = "call" /\ ~diverged
                /\ Goes(s, F("entered", f.ord, f.hist, d.call, f.out))
    BY DecideDoes
  <1>3. Others'
    <2>1. Others
      BY OthersKeep
    <2>2. CASE diverged
      BY <1>1, <1>2, <2>1, <2>2 DEF Others
    <2>3. CASE ~diverged
      <3>1. script' = [k \in DOMAIN script \cup {key} |-> IF k = key THEN d ELSE script[k]]
        BY <1>2, <2>3
      <3>2. key[1] = s
        OBVIOUS
      <3> HIDE DEF key
      <3>3. DOMAIN script' = DOMAIN script \cup {key}
        BY <3>1
      <3>4. \A k \in DOMAIN script' : Decided(k[1], script'[k])
        BY <1>2, <2>1, <3>1, <3>2, <3>3 DEF Others
      <3>5. script' = [k \in DOMAIN script' |-> script'[k]]
        BY <3>1
      <3> QED BY <1>1, <2>1, <3>4, <3>5 DEF Others
    <2> QED BY <2>2, <2>3
  <1>4. f.ord \in Nat /\ f.hist \in Seq(Range(f.hist))
    BY FieldsOf
  <1>5. ASSUME NEW o, IsOutcome(o), Goes(s, F("ending", f.ord, f.hist, f.call, o))
        PROVE  Core'
    <2>1. Fits(ops, s, F("ending", f.ord, f.hist, f.call, o))
      BY <1>5, FitsEnd
    <2> QED BY <1>1, <1>3, <1>4, <1>5, <2>1, GoesOn DEF Pcs
  <1>6. CASE d.do = "call" /\ Goes(s, F("entered", f.ord, f.hist, d.call, f.out))
    <2>1. Fits(ops, s, F("entered", f.ord, f.hist, d.call, f.out))
      BY <1>2, <1>6, FitsCall DEF Decided
    <2> QED BY <1>1, <1>3, <1>4, <1>6, <2>1, GoesOn DEF Pcs
  <1> QED BY <1>2, <1>5, <1>6, Outcomes

LEMMA AgainCore ==
    ASSUME Core, NEW s \in Scope, Again(s)
    PROVE  Core'
  <1> DEFINE f == frame[s]
  <1>1. /\ f.pc = "again" /\ live
        /\ UNCHANGED <<ops, selected, live, diverged, edited, script, seen, effects, granted, late>>
        /\ \/ Goes(s, F("ending", f.ord, f.hist, f.call, Mismatch))
           \/ Goes(s, F("entered", f.ord, f.hist, [f.call EXCEPT !.attempt = @ + 1], f.out))
    BY AgainDoes
  <1>2. Others'
    BY <1>1, OthersKeep DEF Others
  <1>3. f.ord \in Nat /\ f.hist \in Seq(Range(f.hist)) /\ Calls(s, f.call)
    BY <1>1, FieldsOf, CallOf
  <1>4. Calls(s, [f.call EXCEPT !.attempt = @ + 1])
    BY <1>3 DEF Calls, IsCall
  <1>5. /\ Fits(ops, s, F("ending", f.ord, f.hist, f.call, Mismatch))
        /\ Fits(ops, s, F("entered", f.ord, f.hist, [f.call EXCEPT !.attempt = @ + 1], f.out))
    BY <1>4, FitsEnd, FitsCall, Outcomes
  <1> QED BY <1>1, <1>2, <1>3, <1>5, GoesOn DEF Pcs

LEMMA BeginCore ==
    ASSUME Core, NEW s \in Scope, Begin(s)
    PROVE  Core'
  <1> DEFINE f == frame[s]
             p == <<s, f.ord>>
  <1>1. /\ f.pc = "entered" /\ live /\ p \notin DOMAIN ops
        /\ UNCHANGED <<selected, live, diverged, edited, script, seen, effects, granted>>
    BY BeginDoes
  <1>2. /\ f.ord \in Nat /\ f.ord + 1 \in Nat /\ f.ord + 1 # 0 /\ (f.ord + 1) - 1 = f.ord
        /\ f.hist \in Seq(Range(f.hist)) /\ Calls(s, f.call) /\ IsCall(f.call)
    BY <1>1, FieldsOf, CallOf
  <1>3. CASE /\ Goes(s, F("ending", f.ord + 1, f.hist, f.call, Suspended("budget")))
             /\ UNCHANGED <<ops, late>>
    <2>1. Fits(ops, s, F("ending", f.ord + 1, f.hist, f.call, Suspended("budget")))
      BY FitsEnd, Outcomes
    <2>2. Others'
      BY <1>1, <1>3, OthersKeep DEF Others
    <2> QED BY <1>1, <1>2, <1>3, <2>1, <2>2, GoesOn DEF Pcs
  <1>4. CASE /\ Goes(s, F("execute", f.ord + 1, f.hist, f.call, f.out))
             /\ Writes(p, Op(f.call, "started", None, FALSE))
             /\ late' = [late EXCEPT ![s] = IF diverged THEN @ + 1 ELSE @]
    <2> DEFINE r == Op(f.call, "started", None, FALSE)
               g == F("execute", f.ord + 1, f.hist, f.call, f.out)
    <2>1. IsRecord(r) /\ r.call = f.call /\ r.status = "started"
      BY <1>2 DEF Op, IsRecord, Statuses
    <2> HIDE DEF r
    <2>2. Kept(r)
      BY <2>1 DEF Kept, Done
    <2>3. p \in DOMAIN ops' /\ ops'[p] = r
      BY <1>4 DEF Writes, r
    <2>4. Fits(ops', s, g)
      BY <1>2, <2>1, <2>3, FitsWork DEF Working, Done
    <2>5. Others'
      <3>1. late' \in [Scope -> Nat]
        BY <1>4, OthersKeep DEF Others
      <3> QED BY <1>1, <3>1, OthersKeep DEF Others
    <2>6. IsFrame(g) /\ g.pc = "execute"
      BY <1>2, FrameIs DEF Pcs
    <2>7. Writes(<<s, f.ord>>, r)
      BY <1>4 DEF r
    <2> HIDE DEF g
    <2>8. Goes(s, g)
      BY <1>4 DEF g
    <2> QED BY <1>1, <1>2, <2>1, <2>2, <2>4, <2>5, <2>6, <2>7, <2>8, Acting, ScopeKeeps
  <1> QED BY <1>3, <1>4, BeginDoes

LEMMA DivergeCore ==
    ASSUME Core, NEW s \in Scope, Diverge(s)
    PROVE  Core'
  <1> DEFINE f == frame[s]
  <1>1. /\ f.pc = "entered" /\ live /\ diverged' = TRUE
        /\ UNCHANGED <<ops, selected, live, edited, script, seen, effects, granted, late>>
        /\ \/ Goes(s, F("ending", f.ord + 1, f.hist, f.call, Mismatch))
           \/ Goes(s, F("program", f.ord + 1, Append(f.hist, Mismatch), None, f.out))
    BY DivergeDoes
  <1>2. Others'
    BY <1>1, OthersKeep DEF Others
  <1>3. /\ f.ord + 1 \in Nat /\ f.hist \in Seq(Range(f.hist))
        /\ Append(f.hist, Mismatch) \in Seq(Range(Append(f.hist, Mismatch)))
    BY FieldsOf
  <1>4. /\ Fits(ops, s, F("ending", f.ord + 1, f.hist, f.call, Mismatch))
        /\ Fits(ops, s, F("program", f.ord + 1, Append(f.hist, Mismatch), None, f.out))
    BY FitsEnd, FitsProgram, Outcomes
  <1>5. CASE Goes(s, F("ending", f.ord + 1, f.hist, f.call, Mismatch))
    BY <1>1, <1>2, <1>3, <1>4, <1>5, GoesOn DEF Pcs
  <1>6. CASE Goes(s, F("program", f.ord + 1, Append(f.hist, Mismatch), None, f.out))
    BY <1>1, <1>2, <1>3, <1>4, <1>6, GoesOn DEF Pcs
  <1> QED BY <1>1, <1>5, <1>6

LEMMA FitsHanded ==
    ASSUME NEW s, NEW f, NEW n, NEW o, NEW t, Calls(s, f.call)
    PROVE  Fits(t, s, Handed(f, n, o))
  <1>1. CASE Retried(f, o)
    BY <1>1, FitsCall DEF Handed
  <1>2. CASE ~Retried(f, o)
    BY <1>2, FitsProgram DEF Handed
  <1> QED BY <1>1, <1>2

LEMMA HandedIs ==
    ASSUME Core, NEW s \in Scope, NEW n \in Nat, NEW o, NEW g, g = Handed(frame[s], n, o)
    PROVE  IsFrame(g) /\ g.pc \in {"again", "program"} /\ g.ord = n
  <1>1. CASE Retried(frame[s], o)
    <2>1. g = F("again", n, frame[s].hist, frame[s].call, frame[s].out)
      BY <1>1 DEF Handed
    <2> QED BY <2>1, FieldsOf, FrameIs DEF Pcs
  <1>2. CASE ~Retried(frame[s], o)
    <2>1. g = F("program", n, Append(frame[s].hist, o), None, frame[s].out)
      BY <1>2 DEF Handed
    <2>2. Append(frame[s].hist, o) \in Seq(Range(Append(frame[s].hist, o)))
      BY FieldsOf
    <2> DEFINE h == Append(frame[s].hist, o)
    <2> HIDE DEF h
    <2>3. h \in Seq(Range(h)) /\ g = F("program", n, h, None, frame[s].out)
      BY <2>1, <2>2 DEF h
    <2> QED BY <2>3, FrameIs DEF Pcs
  <1> QED BY <1>1, <1>2

LEMMA ReuseCore ==
    ASSUME Core, NEW s \in Scope, Reuse(s)
    PROVE  Core'
  <1> DEFINE f == frame[s]
             p == <<s, f.ord>>
             o == Restored(ops[p].out)
             g == Handed(f, f.ord + 1, o)
  <1> HIDE DEF o, g
  <1>1. /\ f.pc = "entered" /\ live /\ Goes(s, g)
        /\ seen' = [seen EXCEPT ![p] = @ \cup {o}]
        /\ UNCHANGED <<ops, selected, live, diverged, edited, script, effects, granted, late>>
    BY ReuseDoes DEF o, g
  <1>2. Others'
    <2>1. seen' = [q \in Position |-> seen'[q]]
      BY <1>1, OthersKeep DEF Others
    <2> QED BY <1>1, <2>1, OthersKeep DEF Others
  <1>3. f.ord + 1 \in Nat /\ Calls(s, f.call)
    BY <1>1, FieldsOf, CallOf
  <1>4. IsFrame(g) /\ g.pc \in {"again", "program"} /\ Fits(ops', s, g)
    BY <1>3, HandedIs, FitsHanded DEF g
  <1> QED BY <1>1, <1>2, <1>4, Acting, ScopeKeeps
LEMMA RepeatCore ==
    ASSUME Core, NEW s \in Scope, Repeat(s)
    PROVE  Core'
  <1> DEFINE f == frame[s]
             p == <<s, f.ord>>
  <1>1. /\ f.pc = "entered" /\ live /\ p \in DOMAIN ops
        /\ Fingerprint(ops[p].call) = Fingerprint(f.call) /\ ops[p].status \notin Done
        /\ UNCHANGED <<selected, live, diverged, edited, script, seen, effects, granted, late>>
    BY RepeatDoes
  <1>2. /\ f.ord \in Nat /\ f.ord + 1 \in Nat /\ f.ord + 1 # 0 /\ (f.ord + 1) - 1 = f.ord
        /\ f.hist \in Seq(Range(f.hist)) /\ Calls(s, f.call)
    BY <1>1, FieldsOf, CallOf
  <1>3. Others'
    BY <1>1, OthersKeep DEF Others
  <1>4. CASE /\ Goes(s, F("ending", f.ord + 1, f.hist, f.call, Suspended("uncertain")))
             /\ UNCHANGED ops
    <2>1. Fits(ops, s, F("ending", f.ord + 1, f.hist, f.call, Suspended("uncertain")))
      BY FitsEnd, Outcomes
    <2> QED BY <1>1, <1>2, <1>3, <1>4, <2>1, GoesOn DEF Pcs
  <1>5. CASE /\ Writes(p, Op(ops[p].call, ops[p].status, ops[p].out, FALSE))
             /\ Goes(s, F("execute", f.ord + 1, f.hist, f.call, f.out))
    <2> DEFINE r == Op(ops[p].call, ops[p].status, ops[p].out, FALSE)
               g == F("execute", f.ord + 1, f.hist, f.call, f.out)
    <2>0. IsRecord(ops[p]) /\ Kept(ops[p])
      BY <1>1 DEF Core, TypeOK
    <2>1. IsRecord(r) /\ r.call = ops[p].call /\ r.status = ops[p].status /\ r.out = ops[p].out
      BY <2>0 DEF Op, IsRecord
    <2> HIDE DEF r
    <2>2. Kept(r)
      BY <2>0, <2>1 DEF Kept
    <2>3. p \in DOMAIN ops' /\ ops'[p] = r
      BY <1>5 DEF Writes, r
    <2>4. Fits(ops', s, g)
      BY <1>1, <1>2, <2>1, <2>3, FitsWork DEF Working
    <2>5. IsFrame(g) /\ g.pc = "execute"
      BY <1>2, FrameIs DEF Pcs
    <2>6. Writes(<<s, f.ord>>, r)
      BY <1>5 DEF r
    <2> HIDE DEF g
    <2>7. Goes(s, g)
      BY <1>5 DEF g
    <2> QED BY <1>1, <1>2, <1>3, <2>1, <2>2, <2>4, <2>5, <2>6, <2>7, Acting, ScopeKeeps
  <1> QED BY <1>4, <1>5, RepeatDoes

LEMMA PerformCore ==
    ASSUME Core, NEW s \in Scope, Perform(s)
    PROVE  Core'
  <1> DEFINE f == frame[s]
  <1>1. /\ f.pc = "execute" /\ live /\ f.call.kind = "activity"
        /\ effects' = [effects EXCEPT ![<<s, f.ord - 1>>] = @ + 1]
        /\ UNCHANGED <<ops, selected, live, diverged, edited, script, seen, granted, late>>
    BY PerformDoes
  <1>2. f.ord \in Nat /\ f.hist \in Seq(Range(f.hist)) /\ Calls(s, f.call)
    BY <1>1, FieldsOf, CallOf DEF Working
  <1>3. Others'
    <2>1. effects' \in [Position -> Nat]
      BY <1>1, OthersKeep DEF Others
    <2> QED BY <1>1, <2>1, OthersKeep DEF Others
  <1>4. CASE Goes(s, F("ending", f.ord, f.hist, f.call, Suspended("interrupt")))
    <2>1. Fits(ops, s, F("ending", f.ord, f.hist, f.call, Suspended("interrupt")))
      BY FitsEnd, Outcomes
    <2> QED BY <1>1, <1>2, <1>3, <1>4, <2>1, GoesOn DEF Pcs
  <1>5. ASSUME NEW o \in {Result(v) : v \in Value} \cup {Error(f.call.fails)},
               Goes(s, F("commit", f.ord, f.hist, f.call, o))
        PROVE  Core'
    <2>1. IsOutcome(o) /\ o.t \in Final
      BY Outcomes DEF Final
    <2>2. Fits(ops, s, F("commit", f.ord, f.hist, f.call, o))
      BY <1>1, <1>2, <2>1, WorkOf, FitsWork DEF Working
    <2> QED BY <1>1, <1>2, <1>3, <1>5, <2>2, GoesOn DEF Pcs
  <1> QED BY <1>4, <1>5, PerformDoes

LEMMA RecordIs ==
    ASSUME NEW o, IsOutcome(o)
    PROVE  IsOutcome(Record(o)) /\ Record(o).t = o.t
  BY DEF IsOutcome, Record

LEMMA CommitCore ==
    ASSUME Core, NEW s \in Scope, Commit(s)
    PROVE  Core'
  <1> DEFINE f == frame[s]
             p == <<s, f.ord - 1>>
             o == Raised(f.out)
             st == IF f.out.t = "value" THEN "completed" ELSE "failed"
             r == Op(ops[p].call, st, Record(f.out), ops[p].auth)
             g == Handed(f, f.ord, o)
  <1> HIDE DEF o, r, g, st
  <1>1. /\ f.pc = "commit" /\ live /\ Writes(p, r) /\ Goes(s, g)
        /\ seen' = [seen EXCEPT ![p] = @ \cup {o}]
        /\ UNCHANGED <<selected, live, diverged, edited, script, effects, granted, late>>
    BY CommitDoes DEF o, r, g, st
  <1>2. f.ord \in Nat /\ f.ord - 1 \in Nat /\ Calls(s, f.call)
    BY <1>1, FieldsOf, CallOf DEF Working
  <1>3. Others'
    <2>1. seen' = [q \in Position |-> seen'[q]]
      BY <1>1, OthersKeep DEF Others
    <2> QED BY <1>1, <2>1, OthersKeep DEF Others
  <1>4. /\ IsRecord(ops[p]) /\ Kept(ops[p]) /\ IsOutcome(f.out) /\ f.out.t \in Final
    BY <1>1, WorkOf DEF Working
  <1>5. /\ IsRecord(r) /\ r.status \in Done /\ r.out = Record(f.out)
    BY <1>4 DEF r, st, Op, IsRecord, Statuses, Done
  <1>6. Kept(r)
    BY <1>4, <1>5, RecordIs DEF Kept, Done
  <1>7. IsFrame(g) /\ g.pc \in {"again", "program"}
    <2> DEFINE n == f.ord
    <2>1. n \in Nat /\ g = Handed(frame[s], n, o)
      BY <1>2 DEF g
    <2> HIDE DEF n
    <2> QED BY <2>1, HandedIs
  <1>8. Fits(ops', s, g)
    <2> DEFINE n == f.ord
    <2>1. g = Handed(f, n, o)
      BY DEF g
    <2> HIDE DEF n
    <2> QED BY <1>2, <2>1, FitsHanded
  <1> QED BY <1>1, <1>2, <1>3, <1>5, <1>6, <1>7, <1>8, Acting, ScopeKeeps

LEMMA LoseCore ==
    ASSUME Core, NEW s \in Scope, Lose(s)
    PROVE  Core'
  <1> DEFINE f == frame[s]
  <1>1. /\ f.pc = "commit" /\ live
        /\ Goes(s, F("ending", f.ord, f.hist, f.call, Suspended("uncertain")))
        /\ UNCHANGED <<ops, selected, live, diverged, edited, script, seen, effects, granted, late>>
    BY LoseDoes
  <1>2. f.ord \in Nat /\ f.hist \in Seq(Range(f.hist))
    BY FieldsOf
  <1>3. Fits(ops, s, F("ending", f.ord, f.hist, f.call, Suspended("uncertain")))
    BY FitsEnd, Outcomes
  <1>4. Others'
    BY <1>1, OthersKeep DEF Others
  <1> QED BY <1>1, <1>2, <1>3, <1>4, GoesOn DEF Pcs

LEMMA UseAnswerCore ==
    ASSUME Core, NEW s \in Scope, UseAnswer(s)
    PROVE  Core'
  <1> DEFINE f == frame[s]
             p == <<s, f.ord - 1>>
  <1>1. /\ f.pc = "execute" /\ live /\ p \in DOMAIN ops /\ ops[p].status = "response"
        /\ ops[p].call.kind = "input"
        /\ Goes(s, F("commit", f.ord, f.hist, f.call, ops[p].out))
        /\ UNCHANGED <<ops, selected, live, diverged, edited, script, seen, effects, granted, late>>
    BY UseAnswerDoes
  <1>2. f.ord \in Nat /\ f.hist \in Seq(Range(f.hist)) /\ Calls(s, f.call)
    BY <1>1, FieldsOf, CallOf DEF Working
  <1>3. IsOutcome(ops[p].out) /\ ops[p].out.t = "value"
    BY <1>1, WorkOf DEF Working, Kept
  <1>4. Fits(ops, s, F("commit", f.ord, f.hist, f.call, ops[p].out))
    BY <1>1, <1>2, <1>3, WorkOf, FitsWork DEF Working, Final
  <1>5. Others'
    BY <1>1, OthersKeep DEF Others
  <1> QED BY <1>1, <1>2, <1>4, <1>5, GoesOn DEF Pcs

LEMMA TakeAnswerCore ==
    ASSUME Core, NEW s \in Scope, TakeAnswer(s)
    PROVE  Core'
  <1> DEFINE f == frame[s]
             p == <<s, f.ord - 1>>
  <1>1. /\ f.pc = "execute" /\ live /\ p \in DOMAIN ops /\ ops[p].call.kind = "input"
        /\ UNCHANGED <<selected, live, diverged, edited, script, seen, effects, granted, late>>
    BY TakeAnswerDoes
  <1>2. /\ f.ord \in Nat /\ f.ord # 0 /\ f.ord - 1 \in Nat /\ f.hist \in Seq(Range(f.hist))
        /\ Calls(s, f.call)
    BY <1>1, FieldsOf, CallOf, WorkOf DEF Working
  <1>3. Others'
    BY <1>1, OthersKeep DEF Others
  <1>4. ASSUME NEW o, IsOutcome(o), Goes(s, F("ending", f.ord, f.hist, f.call, o)), UNCHANGED ops
        PROVE  Core'
    <2>1. Fits(ops, s, F("ending", f.ord, f.hist, f.call, o))
      BY <1>4, FitsEnd
    <2> QED BY <1>1, <1>2, <1>3, <1>4, <2>1, GoesOn DEF Pcs
  <1>5. ASSUME NEW v, Writes(p, Op(ops[p].call, "response", Record(Result(v)), ops[p].auth)),
               Goes(s, F("commit", f.ord, f.hist, f.call, Result(v)))
        PROVE  Core'
    <2> DEFINE r == Op(ops[p].call, "response", Record(Result(v)), ops[p].auth)
               g == F("commit", f.ord, f.hist, f.call, Result(v))
    <2>0. IsRecord(ops[p]) /\ Fingerprint(ops[p].call) = Fingerprint(f.call)
      BY <1>1, WorkOf DEF Working
    <2>1. IsRecord(r) /\ r.call = ops[p].call /\ r.status = "response" /\ r.out = Record(Result(v))
      BY <2>0 DEF Op, IsRecord, Statuses
    <2> HIDE DEF r
    <2>2. Kept(r)
      BY <2>1, RecordIs, Outcomes DEF Kept, Final, Done
    <2>3. p \in DOMAIN ops' /\ ops'[p] = r
      BY <1>5 DEF Writes, r
    <2>4. Fits(ops', s, g)
      BY <1>2, <2>0, <2>1, <2>3, FitsWork, Outcomes DEF Working, Done, Final
    <2>5. IsFrame(g) /\ g.pc = "commit"
      BY <1>2, FrameIs DEF Pcs
    <2>6. Writes(<<s, f.ord - 1>>, r)
      BY <1>5 DEF r
    <2> HIDE DEF g
    <2>7. Goes(s, g)
      BY <1>5 DEF g
    <2> QED BY <1>1, <1>2, <1>3, <2>1, <2>2, <2>4, <2>5, <2>6, <2>7, Acting, ScopeKeeps
  <1> QED BY <1>4, <1>5, TakeAnswerDoes, Outcomes

LEMMA AskCore ==
    ASSUME Core, NEW s \in Scope, Ask(s)
    PROVE  Core'
  <1> DEFINE f == frame[s]
             p == <<s, f.ord - 1>>
  <1>1. /\ f.pc = "execute" /\ live /\ p \in DOMAIN ops /\ ops[p].call.kind = "input"
        /\ UNCHANGED <<selected, live, diverged, edited, script, seen, effects, granted, late>>
    BY AskDoes
  <1>2. f.ord \in Nat /\ f.ord - 1 \in Nat /\ f.hist \in Seq(Range(f.hist))
    BY <1>1, FieldsOf DEF Working
  <1>3. Others'
    BY <1>1, OthersKeep DEF Others
  <1>4. CASE Goes(s, F("ending", f.ord, f.hist, f.call, Suspended("uncertain"))) /\ UNCHANGED ops
    <2>1. Fits(ops, s, F("ending", f.ord, f.hist, f.call, Suspended("uncertain")))
      BY FitsEnd, Outcomes
    <2> QED BY <1>1, <1>2, <1>3, <1>4, <2>1, GoesOn DEF Pcs
  <1>5. CASE /\ Goes(s, F("ending", f.ord, f.hist, f.call, Asking(p)))
             /\ Writes(p, Op(ops[p].call, "waiting", ops[p].out, ops[p].auth))
    <2> DEFINE r == Op(ops[p].call, "waiting", ops[p].out, ops[p].auth)
               g == F("ending", f.ord, f.hist, f.call, Asking(p))
    <2>0. IsRecord(ops[p])
      BY <1>1, WorkOf DEF Working
    <2>1. IsRecord(r) /\ r.call = ops[p].call /\ r.status = "waiting"
      BY <2>0 DEF Op, IsRecord, Statuses
    <2> HIDE DEF r
    <2>2. Kept(r)
      BY <1>1, <2>1 DEF Kept, Done
    <2>4. Fits(ops', s, g)
      BY FitsEnd, Outcomes
    <2>5. IsFrame(g) /\ g.pc = "ending"
      BY <1>2, FrameIs DEF Pcs
    <2>6. Writes(<<s, f.ord - 1>>, r)
      BY <1>5 DEF r
    <2> HIDE DEF g
    <2>7. Goes(s, g)
      BY <1>5 DEF g
    <2> QED BY <1>1, <1>2, <1>3, <2>1, <2>2, <2>4, <2>5, <2>6, <2>7, Acting, ScopeKeeps
  <1> QED BY <1>4, <1>5, AskDoes

LEMMA FinishCore ==
    ASSUME Core, NEW s \in Scope, Finish(s)
    PROVE  Core'
  <1> DEFINE f == frame[s]
  <1>1. /\ f.pc = "ending" /\ live /\ diverged' \in BOOLEAN
        /\ \/ Goes(s, F("done", f.ord, f.hist, f.call, Mismatch))
           \/ Goes(s, F("done", f.ord, f.hist, f.call, f.out))
        /\ UNCHANGED <<ops, selected, live, edited, script, seen, effects, granted, late>>
    BY FinishDoes, OthersKeep DEF Others
  <1>2. f.ord \in Nat /\ f.hist \in Seq(Range(f.hist))
    BY FieldsOf
  <1>3. IsOutcome(f.out)
    BY <1>1 DEF Core, Control, Fits
  <1>4. /\ Fits(ops, s, F("done", f.ord, f.hist, f.call, Mismatch))
        /\ Fits(ops, s, F("done", f.ord, f.hist, f.call, f.out))
    BY <1>3, FitsEnd, Outcomes
  <1>5. Others'
    BY <1>1, OthersKeep DEF Others
  <1>6. CASE Goes(s, F("done", f.ord, f.hist, f.call, Mismatch))
    BY <1>1, <1>2, <1>4, <1>5, <1>6, GoesOn DEF Pcs
  <1>7. CASE Goes(s, F("done", f.ord, f.hist, f.call, f.out))
    BY <1>1, <1>2, <1>4, <1>5, <1>7, GoesOn DEF Pcs
  <1> QED BY <1>1, <1>6, <1>7

LEMMA CloseCore ==
    ASSUME Core, NEW s \in Scope, Close(s)
    PROVE  Core'
  <1> DEFINE f == frame[s]
  <1>1. /\ f.pc = "group" /\ live /\ s = Root
        /\ \A m \in Members(s) : frame[m].pc = "done"
        /\ UNCHANGED <<ops, selected, live, diverged, edited, script, seen, effects, granted, late>>
    BY CloseDoes
  <1>2. PICK o : /\ IsOutcome(o)
                 /\ \/ o.t \in Final /\ Goes(s, F("commit", f.ord, f.hist, f.call, o))
                    \/ Goes(s, F("ending", f.ord, f.hist, f.call, o))
                    \/ Goes(s, F("program", f.ord, Append(f.hist, Mismatch), None, f.out))
    BY CloseDoes
  <1>3. /\ f.ord \in Nat /\ f.hist \in Seq(Range(f.hist)) /\ Calls(s, f.call)
        /\ Append(f.hist, Mismatch) \in Seq(Range(Append(f.hist, Mismatch)))
    BY <1>1, FieldsOf, CallOf DEF Working
  <1>4. \A m \in Sub : frame[m].pc \in {"idle", "done"}
    BY <1>1, RootAlone
  <1>5. Others'
    BY <1>1, OthersKeep DEF Others
  <1>6. ASSUME NEW g, Goes(s, g), IsFrame(g), g.pc \notin {"idle", "group"}, Fits(ops, s, g)
        PROVE  Core'
    <2>1. Fits(ops', s, g)
      BY <1>1, <1>6 DEF Fits
    <2> QED BY <1>1, <1>4, <1>5, <1>6, <2>1, ScopeKeeps
  <1>7. CASE o.t \in Final /\ Goes(s, F("commit", f.ord, f.hist, f.call, o))
    <2> DEFINE g == F("commit", f.ord, f.hist, f.call, o)
    <2>1. f.call.kind # "input"
      BY <1>1 DEF Core, Control, Groups
    <2>2. Fits(ops, s, g)
      BY <1>1, <1>2, <1>3, <1>7, <2>1, WorkOf, FitsWork DEF Working
    <2>3. IsFrame(g) /\ g.pc = "commit"
      BY <1>3, FrameIs DEF Pcs
    <2> HIDE DEF g
    <2>4. Goes(s, g)
      BY <1>7 DEF g
    <2> QED BY <1>6, <2>2, <2>3, <2>4
  <1>8. CASE Goes(s, F("ending", f.ord, f.hist, f.call, o))
    <2> DEFINE g == F("ending", f.ord, f.hist, f.call, o)
    <2>2. Fits(ops, s, g)
      BY <1>2, FitsEnd
    <2>3. IsFrame(g) /\ g.pc = "ending"
      BY <1>3, FrameIs DEF Pcs
    <2> HIDE DEF g
    <2>4. Goes(s, g)
      BY <1>8 DEF g
    <2> QED BY <1>6, <2>2, <2>3, <2>4
  <1>9. CASE Goes(s, F("program", f.ord, Append(f.hist, Mismatch), None, f.out))
    <2> DEFINE g == F("program", f.ord, Append(f.hist, Mismatch), None, f.out)
    <2>2. Fits(ops, s, g)
      BY FitsProgram
    <2>3. IsFrame(g) /\ g.pc = "program"
      <3> DEFINE h == Append(f.hist, Mismatch)
      <3>1. h \in Seq(Range(h)) /\ g = F("program", f.ord, h, None, f.out)
        BY <1>3
      <3> HIDE DEF h, g
      <3> QED BY <1>3, <3>1, FrameIs DEF Pcs
    <2> HIDE DEF g
    <2>4. Goes(s, g)
      BY <1>9 DEF g
    <2> QED BY <1>6, <2>2, <2>3, <2>4
  <1> QED BY <1>2, <1>7, <1>8, <1>9

LEMMA Starts ==
    /\ IsFrame(Idle) /\ IsFrame(Fresh) /\ Idle.pc = "idle" /\ Fresh.pc = "program"
    /\ Fresh.ord = 0 /\ Fresh.hist = <<>> /\ Idle.hist = <<>>
    /\ \A t, s : Fits(t, s, Idle) /\ Fits(t, s, Fresh)
  <1>1. Idle = F("idle", 0, <<>>, None, None) /\ Fresh = F("program", 0, <<>>, None, None)
    BY DEF Idle, Fresh, F
  <1>3. IsFrame(Idle) /\ IsFrame(Fresh)
    <2> DEFINE h == <<>>
               n == 0
    <2>1. h \in Seq(Range(h)) /\ n \in Nat /\ Idle = F("idle", n, h, None, None)
          /\ Fresh = F("program", n, h, None, None)
      BY <1>1, EmptyHistory
    <2> HIDE DEF h, n
    <2> QED BY <2>1, FrameIs DEF Pcs
  <1> QED BY <1>1, <1>3 DEF F, Fits, Working

LEMMA OpenCore ==
    ASSUME Core, NEW s \in Scope, Open(s)
    PROVE  Core'
  <1> DEFINE f == frame[s]
             g == F("group", f.ord, f.hist, f.call, f.out)
  <1>1. /\ f.pc = "execute" /\ live /\ s = Root /\ f.call.kind \in Groups
        /\ Members(s) \subseteq Sub
        /\ frame' = [u \in Scope |-> frame'[u]] /\ frame'[s] = g
        /\ \A m \in Members(s) : frame'[m] = Fresh
        /\ \A u \in Scope : u # s /\ u \notin Members(s) => frame'[u] = frame[u]
        /\ UNCHANGED <<ops, selected, live, diverged, edited, script, seen, effects, granted, late>>
    BY OpenDoes
  <1>2. f.ord \in Nat /\ f.hist \in Seq(Range(f.hist)) /\ Calls(s, f.call)
    BY <1>1, FieldsOf, CallOf DEF Working
  <1>3. IsFrame(g) /\ g.pc = "group" /\ g.ord = f.ord /\ g.call = f.call
    BY <1>2, FrameIs DEF Pcs
  <1>4. Fits(ops, s, g)
    BY <1>1, <1>2, WorkOf, FitsWork DEF Working
  <1> HIDE DEF g
  <1>5. Members(s)' = Members(s)
    BY <1>1, <1>3 DEF Members
  <1>6. \A m \in Sub : frame[m].pc \in {"idle", "done"}
    BY <1>1, RootAlone
  <1>7. Others'
    BY <1>1, OthersKeep DEF Others
  <1>8. ASSUME NEW u \in Scope
        PROVE  IsFrame(frame'[u]) /\ Control(u)'
    <2>1. CASE u = s
      <3>1. IsFrame(frame'[u]) /\ Fits(ops', u, frame'[u]) /\ frame'[u].pc = "group"
            /\ frame'[u].call.kind \in Groups
        BY <1>1, <1>3, <1>4, <2>1
      <3> QED BY <1>1, <1>5, <2>1, <3>1, Scopes DEF Control
    <2>2. CASE u \in Members(s)
      <3>1. frame'[u] = Fresh /\ u # Root
        BY <1>1, <2>2, Scopes
      <3> QED BY <1>1, <1>3, <1>5, <2>2, <3>1, Starts DEF Control
    <2>3. CASE u # s /\ u \notin Members(s)
      <3>1. frame'[u] = frame[u] /\ u \in Sub /\ frame[u].pc \in {"idle", "done"}
        BY <1>1, <1>6, <2>3, Scopes
      <3>2. IsFrame(frame[u]) /\ Fits(ops, u, frame[u])
        BY DEF Core, TypeOK, Control
      <3>3. frame'[u].pc # "group"
        BY <3>1
      <3> QED BY <1>1, <3>1, <3>2, <3>3 DEF Control
    <2> QED BY <2>1, <2>2, <2>3
  <1>9. TypeOK'
    BY <1>1, <1>7, <1>8 DEF Core, TypeOK
  <1>10. Chosen'
    BY <1>1 DEF Core, Chosen
  <1>11. \A p \in DOMAIN ops' : Kept(ops'[p])
    BY <1>1 DEF Core
  <1> QED BY <1>8, <1>9, <1>10, <1>11 DEF Core

(* An execution begins or ends: the root is at its start, or nothing runs.   *)
LEMMA ResetKeeps ==
    ASSUME frame' = [u \in Scope |-> frame'[u]],
           frame'[Root] = Idle \/ (frame'[Root] = Fresh /\ live'),
           \A u \in Sub : frame'[u] = Idle
    PROVE  \A u \in Scope : IsFrame(frame'[u]) /\ Control(u)'
  <1> SUFFICES ASSUME NEW u \in Scope
               PROVE  IsFrame(frame'[u]) /\ Control(u)'
    OBVIOUS
  <1>1. CASE u = Root
    BY <1>1, Scopes, Starts DEF Control
  <1>2. CASE u # Root
    <2>1. frame'[u] = Idle
      BY <1>2, Scopes
    <2> QED BY <2>1, Starts DEF Control
  <1> QED BY <1>1, <1>2

LEMMA Roots ==
    ASSUME NEW f, frame' = [s \in Scope |-> IF s = Root THEN f ELSE Idle]
    PROVE  /\ frame' = [u \in Scope |-> frame'[u]] /\ frame'[Root] = f
           /\ \A u \in Sub : frame'[u] = Idle
           /\ \A u \in Scope : frame'[u] \in {Idle, f}
  BY Scopes

LEMMA ExecuteDoes ==
    ASSUME Run \/ Answer
    PROVE  /\ ~live /\ live' = TRUE /\ selected = None /\ status # "completed"
           /\ status' = "running" /\ diverged' = FALSE
           /\ frame' = [s \in Scope |-> IF s = Root THEN Fresh ELSE Idle]
           /\ late' = [s \in Scope |-> 0]
           /\ UNCHANGED <<ops, pending, selected, script, edited, seen, effects, granted, faults>>
  BY DEF Run, Answer, Execute

LEMMA ExecuteCore ==
    ASSUME Core, Run \/ Answer
    PROVE  Core'
  <1>1. /\ live' = TRUE /\ selected' = None /\ diverged' = FALSE
        /\ frame' = [s \in Scope |-> IF s = Root THEN Fresh ELSE Idle]
        /\ late' = [s \in Scope |-> 0]
        /\ UNCHANGED <<ops, script, edited, seen, effects, granted>>
    BY ExecuteDoes
  <1>2. \A u \in Scope : IsFrame(frame'[u]) /\ Control(u)'
    BY <1>1, Roots, ResetKeeps
  <1>3. Others'
    <2>1. late' \in [Scope -> Nat]
      BY <1>1
    <2> QED BY <1>1, <2>1, OthersKeep DEF Others
  <1>4. TypeOK'
    BY <1>1, <1>2, <1>3, Roots DEF Core, TypeOK
  <1>5. Chosen' /\ \A p \in DOMAIN ops' : Kept(ops'[p])
    BY <1>1 DEF Core, Chosen
  <1> QED BY <1>2, <1>4, <1>5 DEF Core

LEMMA StopDoes ==
    ASSUME Crash \/ EndRun
    PROVE  /\ live /\ live' = FALSE /\ diverged' = FALSE /\ candidate' = None
           /\ frame' = [s \in Scope |-> Idle]
           /\ UNCHANGED <<ops, selected, script, edited, seen, effects, granted, late>>
           /\ \/ Crash /\ UNCHANGED <<status, pending>>
              \/ /\ EndRun /\ frame[Root].pc = "done" /\ status' = RunStatus(frame[Root].out)
                 /\ pending' = CASE status' = "awaiting_input" -> frame[Root].out.at
                                 [] status' = "interrupted" -> KeptQuestion
                                 [] OTHER -> None
  BY DEF Crash, EndRun, ledger, history, bounds, At

LEMMA StopCore ==
    ASSUME Core, Crash \/ EndRun
    PROVE  Core'
  <1>1. /\ live /\ live' = FALSE /\ diverged' = FALSE /\ frame' = [s \in Scope |-> Idle]
        /\ UNCHANGED <<ops, selected, script, edited, seen, effects, granted, late>>
    BY StopDoes
  <1>2. frame' = [s \in Scope |-> IF s = Root THEN Idle ELSE Idle]
    BY <1>1
  <1>3. \A u \in Scope : IsFrame(frame'[u]) /\ Control(u)'
    BY <1>2, Roots, ResetKeeps
  <1>4. Others'
    BY <1>1, OthersKeep
  <1>5. TypeOK'
    BY <1>1, <1>3, <1>4 DEF Core, TypeOK
  <1>6. Chosen' /\ \A p \in DOMAIN ops' : Kept(ops'[p])
    BY <1>1 DEF Core, Chosen
  <1> QED BY <1>3, <1>5, <1>6 DEF Core

LEMMA EditDoes ==
    ASSUME Edit
    PROVE  /\ ~live /\ script' = <<>> /\ edited' = TRUE
           /\ UNCHANGED <<ops, status, pending, selected, frame, live, diverged, candidate, seen,
                          effects, granted, late>>
  BY DEF Edit, ledger

LEMMA EditCore ==
    ASSUME Core, Edit
    PROVE  Core'
  <1>1. /\ script' = <<>> /\ edited' = TRUE
        /\ UNCHANGED <<ops, selected, frame, live, diverged, seen, effects, granted, late>>
    BY EditDoes
  <1>2. script' = [k \in DOMAIN script' |-> script'[k]] /\ DOMAIN script' = {}
    BY <1>1
  <1>3. Others'
    BY <1>1, <1>2, OthersKeep DEF Others
  <1>4. TypeOK' /\ Chosen' /\ \A p \in DOMAIN ops' : Kept(ops'[p])
    BY <1>1, <1>3 DEF Core, TypeOK, Chosen
  <1>5. ASSUME NEW u \in Scope
        PROVE  Control(u)'
    <2>1. Control(u) /\ Members(u)' = Members(u) /\ Members(Root)' = Members(Root)
      BY <1>1 DEF Core, Members
    <2>2. Fits(ops', u, frame'[u])
      BY <1>1, <2>1 DEF Control
    <2> QED BY <1>1, <2>1, <2>2 DEF Control
  <1> QED BY <1>4, <1>5 DEF Core

LEMMA SelectDoes ==
    ASSUME NEW p, NEW c, Select(p, c)
    PROVE  /\ ~live /\ p \in DOMAIN ops /\ ops[p].call.kind = "activity"
           /\ ops[p].status \in {"started", "response"}
           /\ selected' = [op |-> p, choice |-> c]
           /\ UNCHANGED <<ops, status, pending, frame, live, diverged, candidate, script, edited, seen,
                          effects, granted, late>>
  BY DEF Select, Recorded, history

LEMMA SelectCore ==
    ASSUME Core, NEW p, NEW c \in {"retry", "accept", "fail"}, Select(p, c)
    PROVE  Core'
  <1>1. /\ ~live /\ p \in DOMAIN ops /\ ops[p].call.kind = "activity"
        /\ ops[p].status \in {"started", "response"}
        /\ selected' = [op |-> p, choice |-> c]
        /\ UNCHANGED <<ops, frame, live, diverged, script, edited, seen, effects, granted, late>>
    BY SelectDoes
  <1>2. selected'.op = p /\ selected'.choice = c
    BY <1>1
  <1>3. Chosen'
    BY <1>1, <1>2 DEF Chosen
  <1>4. TypeOK' /\ \A q \in DOMAIN ops' : Kept(ops'[q])
    <2>1. Others'
      BY <1>1, OthersKeep DEF Others
    <2> QED BY <1>1, <2>1 DEF Core, TypeOK
  <1>5. ASSUME NEW u \in Scope
        PROVE  Control(u)'
    <2>1. Control(u) /\ Members(u)' = Members(u) /\ Members(Root)' = Members(Root)
      BY <1>1 DEF Core, Members
    <2>2. Fits(ops', u, frame'[u])
      BY <1>1, <2>1 DEF Control
    <2> QED BY <1>1, <2>1, <2>2 DEF Control
  <1> QED BY <1>3, <1>4, <1>5 DEF Core

(* A choice takes effect on an operation that nothing executes.              *)
LEMMA SettleDoes ==
    ASSUME Core, Settle
    PROVE  LET p == selected.op IN
           /\ ~live /\ selected # None /\ selected' = None /\ p \in DOMAIN ops
           /\ ops[p].call.kind = "activity" /\ ops[p].status \in {"started", "response"}
           /\ \/ /\ Writes(p, Op(ops[p].call, "response", ops[p].out, TRUE))
                 /\ granted' = [granted EXCEPT ![p] = IF ops[p].auth THEN @ ELSE @ + 1]
                 /\ UNCHANGED <<status, pending>>
              \/ /\ \E v \in Value :
                      Writes(p, Op(ops[p].call, "completed", Record(Result(v)), ops[p].auth))
                 /\ UNCHANGED <<status, pending, granted>>
              \/ /\ Writes(p, Op(ops[p].call, "failed", Error("operator"), ops[p].auth))
                 /\ status' = "failed" /\ pending' = None
                 /\ UNCHANGED granted
           /\ UNCHANGED <<frame, live, diverged, candidate, script, edited, seen, effects, late>>
  <1> DEFINE p == selected.op
  <1>1. /\ ~live /\ selected # None /\ selected' = None
        /\ UNCHANGED <<frame, live, diverged, candidate, script, edited, seen, effects, late>>
    BY DEF Settle
  <1>2. p \in DOMAIN ops /\ ops[p].call.kind = "activity" /\ ops[p].status \in {"started", "response"}
    BY <1>1 DEF Core, Chosen
  <1>3. /\ ops = [q \in DOMAIN ops |-> ops[q]]
        /\ ops[p] = Op(ops[p].call, ops[p].status, ops[p].out, ops[p].auth)
    BY <1>2 DEF Core, TypeOK, IsRecord, Op
  <1>4. \/ /\ ops' = [ops EXCEPT ![p].status = "response", ![p].auth = TRUE]
           /\ granted' = [granted EXCEPT ![p] = IF ops[p].auth THEN @ ELSE @ + 1]
           /\ UNCHANGED <<status, pending>>
        \/ /\ \E v \in Value : ops' = [ops EXCEPT ![p].status = "completed",
                                                  ![p].out = Record(Result(v))]
           /\ UNCHANGED <<status, pending, granted>>
        \/ /\ ops' = [ops EXCEPT ![p].status = "failed", ![p].out = Error("operator")]
           /\ status' = "failed" /\ pending' = None
           /\ UNCHANGED granted
        \/ selected.choice \notin {"retry", "accept", "fail"}
    BY DEF Settle
  <1>5. selected.choice \in {"retry", "accept", "fail"}
    BY <1>1 DEF Core, Chosen
  <1>6. ASSUME ops' = [ops EXCEPT ![p].status = "response", ![p].auth = TRUE]
        PROVE  Writes(p, Op(ops[p].call, "response", ops[p].out, TRUE))
    BY <1>2, <1>3, <1>6 DEF Writes, Op
  <1>7. ASSUME NEW o, NEW st, ops' = [ops EXCEPT ![p].status = st, ![p].out = o]
        PROVE  Writes(p, Op(ops[p].call, st, o, ops[p].auth))
    BY <1>2, <1>3, <1>7 DEF Writes, Op
  <1> HIDE DEF p
  <1>8. \/ /\ Writes(p, Op(ops[p].call, "response", ops[p].out, TRUE))
           /\ granted' = [granted EXCEPT ![p] = IF ops[p].auth THEN @ ELSE @ + 1]
           /\ UNCHANGED <<status, pending>>
        \/ /\ \E v \in Value :
                Writes(p, Op(ops[p].call, "completed", Record(Result(v)), ops[p].auth))
           /\ UNCHANGED <<status, pending, granted>>
        \/ /\ Writes(p, Op(ops[p].call, "failed", Error("operator"), ops[p].auth))
           /\ status' = "failed" /\ pending' = None
           /\ UNCHANGED granted
    BY <1>4, <1>5, <1>6, <1>7
  <1> USE DEF p
  <1> QED BY <1>1, <1>2, <1>8

LEMMA SettleCore ==
    ASSUME Core, Settle
    PROVE  Core'
  <1> DEFINE p == selected.op
  <1>1. /\ ~live /\ selected # None /\ selected' = None /\ p \in DOMAIN ops
        /\ ops[p].call.kind = "activity"
        /\ UNCHANGED <<frame, live, diverged, script, edited, seen, effects, late>>
    BY SettleDoes
  <1>2. IsRecord(ops[p]) /\ p \in Scope \X Nat /\ ops[p].call.kind # "input"
    BY <1>1 DEF Core, TypeOK
  <1> HIDE DEF p
  <1>3. \E r : Writes(p, r) /\ IsRecord(r) /\ Kept(r)
    <2>1. CASE Writes(p, Op(ops[p].call, "response", ops[p].out, TRUE))
      <3> DEFINE r == Op(ops[p].call, "response", ops[p].out, TRUE)
      <3>1. IsRecord(r) /\ r.call = ops[p].call /\ r.status = "response"
        BY <1>2 DEF Op, IsRecord, Statuses
      <3>2. Writes(p, r)
        BY <2>1
      <3> HIDE DEF r
      <3>3. Kept(r)
        BY <1>2, <3>1 DEF Kept, Done
      <3> QED BY <3>1, <3>2, <3>3
    <2>2. ASSUME NEW o, IsOutcome(o), o.t \in Final, NEW st \in Done,
                 Writes(p, Op(ops[p].call, st, o, ops[p].auth))
          PROVE  \E r : Writes(p, r) /\ IsRecord(r) /\ Kept(r)
      <3> DEFINE r == Op(ops[p].call, st, o, ops[p].auth)
      <3>1. IsRecord(r) /\ r.call = ops[p].call /\ r.status = st /\ r.out = o
        BY <1>2 DEF Op, IsRecord, Statuses, Done
      <3>2. Writes(p, r)
        BY <2>2
      <3> HIDE DEF r
      <3>3. Kept(r)
        BY <2>2, <3>1 DEF Kept, Done
      <3> QED BY <3>1, <3>2, <3>3
    <2>3. \A v : /\ IsOutcome(Record(Result(v))) /\ Record(Result(v)).t \in Final
                  /\ IsOutcome(Error(v)) /\ Error(v).t \in Final
      BY Outcomes, RecordIs DEF Final
    <2>4. \/ Writes(p, Op(ops[p].call, "response", ops[p].out, TRUE))
          \/ \E v : Writes(p, Op(ops[p].call, "completed", Record(Result(v)), ops[p].auth))
          \/ Writes(p, Op(ops[p].call, "failed", Error("operator"), ops[p].auth))
      BY SettleDoes DEF p
    <2>5. CASE \E v : Writes(p, Op(ops[p].call, "completed", Record(Result(v)), ops[p].auth))
      <3>1. PICK v : Writes(p, Op(ops[p].call, "completed", Record(Result(v)), ops[p].auth))
        BY <2>5
      <3> DEFINE o == Record(Result(v))
      <3>2. IsOutcome(o) /\ o.t \in Final /\ Writes(p, Op(ops[p].call, "completed", o, ops[p].auth))
        BY <2>3, <3>1
      <3> HIDE DEF o
      <3> QED BY <2>2, <3>2 DEF Done
    <2>6. CASE Writes(p, Op(ops[p].call, "failed", Error("operator"), ops[p].auth))
      BY <2>2, <2>3, <2>6 DEF Done
    <2> QED BY <2>1, <2>4, <2>5, <2>6
  <1>4. PICK r : Writes(p, r) /\ IsRecord(r) /\ Kept(r)
    BY <1>3
  <1>5. /\ ops' = [q \in DOMAIN ops' |-> ops'[q]] /\ DOMAIN ops' \subseteq Scope \X Nat
        /\ \A q \in DOMAIN ops' : IsRecord(ops'[q]) /\ Kept(ops'[q])
    BY <1>2, <1>4 DEF Writes, Core, TypeOK
  <1>6. Others'
    <2>1. Others /\ granted' \in [Position -> Nat]
      <3>1. granted \in [Position -> Nat]
        BY OthersKeep DEF Others
      <3>2. granted' = granted \/ granted' = [granted EXCEPT ![p] = IF ops[p].auth THEN @ ELSE @ + 1]
        BY SettleDoes DEF p
      <3> QED BY <3>1, <3>2, OthersKeep
    <2> QED BY <1>1, <2>1 DEF Others
  <1>7. TypeOK'
    BY <1>1, <1>5, <1>6 DEF Core, TypeOK
  <1>8. ASSUME NEW u \in Scope
        PROVE  Control(u)'
    <2>1. frame'[u] = frame[u] /\ frame[u].pc = "idle"
      BY <1>1 DEF Core, Control
    <2> QED BY <2>1 DEF Control, Fits, Working
  <1>9. Chosen'
    BY <1>1 DEF Chosen
  <1> QED BY <1>5, <1>7, <1>8, <1>9 DEF Core

-----------------------------------------------------------------------------
LEMMA InitCore ==
    ASSUME Init
    PROVE  Core
  <1>1. /\ ops = <<>> /\ selected = None /\ frame = [s \in Scope |-> Idle] /\ live = FALSE
        /\ diverged = FALSE /\ script = <<>> /\ edited = FALSE
        /\ seen = [p \in Position |-> {}]
        /\ effects = [p \in Position |-> 0] /\ granted = [p \in Position |-> 0]
        /\ late = [s \in Scope |-> 0]
    BY DEF Init
  <1>2. /\ ops = [p \in DOMAIN ops |-> ops[p]] /\ DOMAIN ops = {}
        /\ script = [k \in DOMAIN script |-> script[k]] /\ DOMAIN script = {}
    BY <1>1
  <1>3. Others
    BY <1>1, <1>2 DEF Others
  <1>4. \A s \in Scope : frame[s] = Idle
    BY <1>1
  <1>5. \A s \in Scope : IsFrame(frame[s]) /\ Control(s)
    BY <1>4, Starts DEF Control
  <1>6. TypeOK
    BY <1>1, <1>2, <1>3, <1>5 DEF TypeOK
  <1> QED BY <1>1, <1>2, <1>5, <1>6 DEF Core, Chosen

LEMMA StillCore ==
    ASSUME Core, UNCHANGED vars
    PROVE  Core'
  <1>1. UNCHANGED <<ops, status, pending, selected, frame, live, diverged, candidate, script, edited,
                    seen, effects, granted, late>>
    BY DEF vars, ledger, history, bounds
  <1>2. TypeOK'
    BY <1>1 DEF Core, TypeOK, Others
  <1>3. Chosen'
    BY <1>1 DEF Core, Chosen
  <1>4. \A s \in Scope : Control(s)'
    BY <1>1 DEF Core, Control, Members
  <1> QED BY <1>1, <1>2, <1>3, <1>4 DEF Core

LEMMA StepCases ==
    ASSUME Next
    PROVE  \/ Run \/ Answer \/ Crash \/ Edit \/ EndRun \/ Settle
           \/ \E p \in Position, c \in {"retry", "accept", "fail"} : Select(p, c)
           \/ \E s \in Scope :
                 \/ Decide(s) \/ Again(s) \/ Begin(s) \/ Diverge(s) \/ Reuse(s) \/ Repeat(s)
                 \/ Perform(s) \/ Commit(s) \/ Lose(s)
                 \/ UseAnswer(s) \/ TakeAnswer(s) \/ Ask(s)
                 \/ Open(s) \/ Close(s) \/ Finish(s)
  BY DEF Next, Step

LEMMA CoreKeeps ==
    ASSUME Core, [Next]_vars
    PROVE  Core'
  <1>1. CASE Run \/ Answer
    BY <1>1, ExecuteCore
  <1>2. CASE Crash \/ EndRun
    BY <1>2, StopCore
  <1>3. CASE Edit
    BY <1>3, EditCore
  <1>4. CASE Settle
    BY <1>4, SettleCore
  <1>5. CASE \E p \in Position, c \in {"retry", "accept", "fail"} : Select(p, c)
    BY <1>5, SelectCore
  <1>6. ASSUME NEW s \in Scope, Step(s)
        PROVE  Core'
    <2>1. CASE Decide(s) \/ Again(s) \/ Begin(s) \/ Diverge(s) \/ Reuse(s) \/ Repeat(s)
      BY <2>1, DecideCore, AgainCore, BeginCore, DivergeCore, ReuseCore, RepeatCore
    <2>2. CASE Perform(s) \/ Commit(s) \/ Lose(s) \/ UseAnswer(s) \/ TakeAnswer(s) \/ Ask(s)
      BY <2>2, PerformCore, CommitCore, LoseCore, UseAnswerCore, TakeAnswerCore, AskCore
    <2>3. CASE Open(s) \/ Close(s) \/ Finish(s)
      BY <2>3, OpenCore, CloseCore, FinishCore
    <2> QED BY <1>6, <2>1, <2>2, <2>3 DEF Step
  <1>7. CASE UNCHANGED vars
    BY <1>7, StillCore
  <1> QED BY <1>1, <1>2, <1>3, <1>4, <1>5, <1>6, <1>7 DEF Next

(* Every state is well formed: a scope executes only what it recorded and has *)
(* not finished, a branch runs only inside the group the root waits for, and  *)
(* a choice of the operator is about an activity that nothing executes.      *)
THEOREM WellFormed == Spec => []Core
  <1>1. Init => Core
    BY InitCore
  <1>2. Core /\ [Next]_vars => Core'
    BY CoreKeeps
  <1> QED BY <1>1, <1>2, PTL DEF Spec

-----------------------------------------------------------------------------
(* After a divergence.                                                       *)

(* While one of them acts, the root and a child wait for nobody else.        *)
LEMMA SoloWaits ==
    ASSUME Core, NEW s \in Scope, frame[s].pc \notin {"idle", "done"},
           frame[s].pc = "group" => \A m \in Members(Root) : frame[m].pc = "done"
    PROVE  \A u \in Solo : u # s => frame[u].pc \in {"idle", "group", "done"}
  <1> SUFFICES ASSUME NEW u \in Solo, u # s, frame[u].pc \notin {"idle", "group", "done"}
               PROVE  FALSE
    OBVIOUS
  <1>1. u \in Scope
    BY Scopes DEF Solo
  <1>2. CASE u = Root
    <2>1. s \in Sub
      BY <1>2, Scopes
    <2> QED BY <1>2, <2>1 DEF Core, Control
  <1>3. CASE u # Root
    <2>1. u \in Sub /\ u[2] = 0 /\ frame[Root].pc = "group" /\ u \in Members(Root)
      BY <1>1, <1>3 DEF Core, Control, Solo
    <2>2. s # Root
      BY <2>1
    <2>3. s \in Sub /\ s \in Members(Root)
      BY <2>2, Scopes DEF Core, Control
    <2> QED BY <2>1, <2>3, SizeAssumption DEF Members
  <1> QED BY <1>2, <1>3

(* What a scope's new frame g must be like, given d, whether the run has     *)
(* diverged, and l, the operations it began since.                           *)
Own(s, g, d, l) ==
    /\ s \in Solo /\ d => g.pc \in {"program", "ending", "done"}
    /\ Told(g) => d /\ g.pc \in {"program", "ending", "done"}
    /\ l # 0 => l = 1 /\ d /\ s \notin Solo /\ g.pc # "entered" /\ ~Told(g)
    /\ g.pc \in {"ending", "done"} /\ g.out.t = "mismatch" => d
    /\ d /\ Alone(s) => /\ g.pc = "ending" => g.out.t \in Final \cup {"mismatch"}
                        /\ g.pc = "done" => g.out.t = "mismatch"

LEMMA DivergenceKeeps ==
    ASSUME Core, DInv, NEW s \in Scope, NEW g, Goes(s, g), g.pc \notin {"idle", "group"},
           live, live' = live, frame[s].pc \notin {"idle", "done"},
           frame[s].pc = "group" => \A m \in Members(Root) : frame[m].pc = "done",
           diverged => diverged', diverged' \in BOOLEAN,
           \A u \in Scope : u # s => late'[u] = late[u],
           \A p \in DOMAIN ops' : p[1] # s => p \in DOMAIN ops,
           Own(s, g, diverged', late'[s]),
           g.pc = "done" => /\ frame[s].pc = "ending"
                            /\ ~diverged' /\ g.out.t \in Final =>
                                 \A p \in DOMAIN ops' : p[1] = s => p[2] < g.ord,
           s = Root /\ frame[s].pc \in {"group", "ending"} /\ ~diverged' =>
             \A u \in Sub : frame[u].pc = "done" /\ frame[u].out.t \notin Final =>
               g.pc \in {"ending", "done"} /\ g.out.t \notin Final
    PROVE  DInv'
  <1>1. ASSUME NEW u \in Scope, u # s
        PROVE  Stops(u)'
    <2>1. frame'[u] = frame[u] /\ late'[u] = late[u]
      BY <1>1 DEF Goes
    <2>2. u \in Solo => frame[u].pc \in {"idle", "group", "done"}
      BY <1>1, SoloWaits
    <2>3. Stops(u)
      BY DEF DInv
    <2> QED BY <2>1, <2>2, <2>3 DEF Stops
  <1>2. ASSUME s # Root
        PROVE  frame'[Root] = frame[Root] /\ Members(Root)' = Members(Root) /\ Alone(s)' = Alone(s)
    <2>1. frame'[Root] = frame[Root]
      BY <1>2, Scopes DEF Goes
    <2>2. Members(Root)' = Members(Root)
      BY <2>1 DEF Members
    <2> QED BY <2>1, <2>2 DEF Alone
  <1>3. frame'[s] = g
    BY DEF Goes
  <1>4. Alone(s)' => Alone(s)
    BY <1>2 DEF Alone
  <1>5. Stops(s)' /\ Reports(s)'
    BY <1>3, <1>4 DEF Stops, Reports, Own
  <1>6. ASSUME NEW u \in Scope, u # s
        PROVE  Reports(u)'
    <2>1. frame'[u] = frame[u]
      BY <1>6 DEF Goes
    <2>2. CASE u = Root
      <3>1. s \in Sub
        BY <2>2, <1>6, Scopes
      <3>2. frame[Root].pc = "group"
        BY <3>1 DEF Core, Control
      <3> QED BY <2>1, <2>2, <3>2 DEF Reports
    <2>3. CASE u # Root
      <3>1. SUFFICES ASSUME Alone(u)'
                     PROVE  FALSE
        BY DEF Reports
      <3>2. frame'[Root].pc = "group" /\ s # Root
        BY <1>3, <2>3, <3>1 DEF Alone
      <3>3. frame[Root].call.kind = "child" /\ u \in Members(Root)
        BY <1>2, <2>3, <3>1, <3>2 DEF Alone
      <3>4. s \in Sub /\ s \in Members(Root)
        BY <3>2, Scopes DEF Core, Control
      <3> QED BY <1>6, <3>3, <3>4 DEF Members
    <2> QED BY <2>2, <2>3
  <1>7. ASSUME NEW u \in Scope
        PROVE  Consumes(u)'
    <2> SUFFICES ASSUME ~diverged', frame'[u].pc = "done"
                 PROVE  /\ frame'[u].out.t \in Final => \A p \in DOMAIN ops' : p[1] = u => p[2] < frame'[u].ord
                        /\ frame'[u].out.t \notin Final /\ u # Root =>
                             \/ frame'[Root].pc = "group" /\ u \in Members(Root)'
                             \/ frame'[Root].pc \in {"ending", "done"} /\ frame'[Root].out.t \notin Final
      BY DEF Consumes
    <2>1. CASE u = s
      <3>1. u # Root => frame[Root].pc = "group" /\ u \in Members(Root)
        BY <1>3, <2>1, Scopes DEF Core, Control
      <3> QED BY <1>2, <1>3, <2>1, <3>1
    <2>2. CASE u # s
      <3>1. frame'[u] = frame[u] /\ Consumes(u) /\ ~diverged
        BY <2>2 DEF Goes, DInv
      <3>2. frame[u].out.t \in Final => \A p \in DOMAIN ops' : p[1] = u => p[2] < frame[u].ord
        BY <2>2, <3>1 DEF Consumes
      <3>3. CASE s # Root
        BY <1>2, <3>1, <3>2, <3>3 DEF Consumes
      <3>4. CASE s = Root
        <4>1. frame[u].out.t \notin Final => frame[s].pc \in {"group", "ending"}
          BY <2>2, <3>1, <3>4 DEF Consumes
        <4>2. u \in Sub
          BY <2>2, <3>4, Scopes
        <4> QED BY <1>3, <3>1, <3>2, <3>4, <4>1, <4>2
      <3> QED BY <3>3, <3>4
    <2> QED BY <2>1, <2>2
  <1>8. diverged' => live'
    OBVIOUS
  <1> QED BY <1>1, <1>5, <1>6, <1>7, <1>8 DEF DInv

(* A scope that was not told, and works on without meeting the divergence.   *)
LEMMA WorksOn ==
    ASSUME Core, DInv, NEW s \in Scope, NEW g, Goes(s, g),
           frame[s].pc \in {"again", "entered", "execute", "commit"},
           g.pc \in {"program", "again", "entered", "execute", "commit", "ending"}, ~Told(g),
           g.pc = "entered" => ~diverged, g.pc = "ending" => g.out.t # "mismatch",
           live, UNCHANGED <<live, diverged, late>>,
           \A p \in DOMAIN ops' : p[1] # s => p \in DOMAIN ops
    PROVE  DInv'
  <1>1. Stops(s)
    BY DEF DInv
  <1>2. s \in Solo => ~diverged
    BY <1>1 DEF Stops
  <1>3. Alone(s) => s \in Solo
    <2>1. CASE s = Root
      BY <2>1 DEF Solo
    <2>2. CASE s # Root
      BY <2>2, Scopes, Pairs DEF Alone, Solo, Members
    <2> QED BY <2>1, <2>2
  <1>4. Own(s, g, diverged', late'[s])
    BY <1>1, <1>2, <1>3 DEF Own, Stops
  <1>5. diverged \in BOOLEAN
    BY OthersKeep DEF Others
  <1>6. late' = late
    OBVIOUS
  <1> QED BY <1>4, <1>5, <1>6, DivergenceKeeps

LEMMA ToldBy ==
    ASSUME Core, NEW s \in Scope, NEW pc, NEW n, NEW c, NEW e
    PROVE  Told(F(pc, n, frame[s].hist, c, e)) <=> Told(frame[s])
  BY DEF F, Told

LEMMA ToldMore ==
    ASSUME Core, NEW s \in Scope, NEW pc, NEW n, NEW c, NEW e, NEW o, NEW h,
           h = Append(frame[s].hist, o)
    PROVE  Told(F(pc, n, h, c, e)) <=> Told(frame[s]) \/ o = Mismatch
  <1>1. frame[s].hist \in Seq(Range(frame[s].hist))
    BY FieldsOf
  <1>2. F(pc, n, h, c, e).hist = h
    BY DEF F
  <1>3. Range(h) = Range(frame[s].hist) \cup {o}
    BY <1>1, Appends
  <1> QED BY <1>2, <1>3 DEF Told

LEMMA ToldHanded ==
    ASSUME Core, NEW s \in Scope, NEW n, NEW o, o # Mismatch, ~Told(frame[s])
    PROVE  ~Told(Handed(frame[s], n, o))
  <1> DEFINE h == Append(frame[s].hist, o)
  <1>1. CASE Retried(frame[s], o)
    BY <1>1, ToldBy DEF Handed
  <1>2. CASE ~Retried(frame[s], o)
    <2>1. Handed(frame[s], n, o).hist = h
      BY <1>2 DEF Handed, F
    <2>2. Range(h) = Range(frame[s].hist) \cup {o}
      BY FieldsOf, Appends
    <2> HIDE DEF h
    <2> QED BY <2>1, <2>2 DEF Told
  <1> QED BY <1>1, <1>2

LEMMA Restoring ==
    ASSUME NEW o, IsOutcome(o)
    PROVE  IsOutcome(Restored(o)) /\ Restored(o).t = o.t
  BY Outcomes DEF Restored

LEMMA Untold ==
    ASSUME Core, DInv, NEW s \in Scope, frame[s].pc \in {"again", "entered", "execute", "commit"}
    PROVE  ~Told(frame[s]) /\ (s \in Solo => ~diverged) /\ (Alone(s) => s \in Solo)
  <1>1. Stops(s)
    BY DEF DInv
  <1>2. CASE s = Root
    BY <1>1, <1>2 DEF Stops, Solo
  <1>3. CASE s # Root
    <2>1. Alone(s) => s \in Solo
      BY <1>3, Scopes, Pairs DEF Alone, Solo, Members
    <2> QED BY <1>1, <2>1 DEF Stops
  <1> QED BY <1>2, <1>3

LEMMA DecideStops ==
    ASSUME Core, DInv, NEW s \in Scope, Decide(s)
    PROVE  DInv'
  <1> DEFINE f == frame[s]
  <1>1. /\ f.pc = "program" /\ live
        /\ UNCHANGED <<ops, live, diverged, late>>
    BY DecideDoes
  <1>2. ASSUME NEW pc, NEW c, NEW o, Goes(s, F(pc, f.ord, f.hist, c, o)),
               \/ pc = "ending" /\ o.t \in Final
               \/ pc = "ending" /\ diverged /\ o.t = "mismatch"
               \/ pc = "entered" /\ ~diverged
        PROVE  DInv'
    <2> DEFINE g == F(pc, f.ord, f.hist, c, o)
    <2>1. g.pc = pc /\ g.out = o /\ (Told(g) <=> Told(f))
      BY ToldBy DEF F
    <2> HIDE DEF g
    <2>2. Stops(s) /\ diverged \in BOOLEAN
      BY OthersKeep DEF DInv, Others
    <2>3. Goes(s, g) /\ late' = late /\ diverged' = diverged
      BY <1>1, <1>2 DEF g
    <2>4. Own(s, g, diverged', late'[s])
      BY <1>1, <1>2, <2>1, <2>2, <2>3 DEF Own, Stops, Final
    <2> QED BY <1>1, <1>2, <2>1, <2>2, <2>3, <2>4, DivergenceKeeps
  <1>3. \/ \E d : Goes(s, F("ending", f.ord, f.hist, f.call, Result("done")))
        \/ Goes(s, F("ending", f.ord, f.hist, f.call, Error("raised")))
        \/ diverged /\ Goes(s, F("ending", f.ord, f.hist, f.call, Mismatch))
        \/ ~diverged /\ \E d : Goes(s, F("entered", f.ord, f.hist, d.call, f.out))
    BY DecideDoes
  <1>4. CASE Goes(s, F("ending", f.ord, f.hist, f.call, Result("done")))
    BY <1>2, <1>4, Outcomes DEF Final
  <1>5. CASE Goes(s, F("ending", f.ord, f.hist, f.call, Error("raised")))
    BY <1>2, <1>5, Outcomes DEF Final
  <1>6. CASE diverged /\ Goes(s, F("ending", f.ord, f.hist, f.call, Mismatch))
    BY <1>2, <1>6, Outcomes
  <1>7. CASE ~diverged /\ \E d : Goes(s, F("entered", f.ord, f.hist, d.call, f.out))
    <2>1. PICK d : Goes(s, F("entered", f.ord, f.hist, d.call, f.out))
      BY <1>7
    <2> DEFINE c == d.call
    <2>2. Goes(s, F("entered", f.ord, f.hist, c, f.out))
      BY <2>1
    <2> HIDE DEF c
    <2> QED BY <1>2, <1>7, <2>2
  <1> QED BY <1>3, <1>4, <1>5, <1>6, <1>7

LEMMA AgainStops ==
    ASSUME Core, DInv, NEW s \in Scope, Again(s)
    PROVE  DInv'
  <1> DEFINE f == frame[s]
             c == [f.call EXCEPT !.attempt = @ + 1]
  <1> HIDE DEF c
  <1>1. /\ f.pc = "again" /\ live
        /\ UNCHANGED <<ops, live, diverged, late>>
        /\ \/ diverged /\ Goes(s, F("ending", f.ord, f.hist, f.call, Mismatch))
           \/ ~diverged /\ Goes(s, F("entered", f.ord, f.hist, c, f.out))
    BY AgainDoes DEF c
  <1>2. ~Told(f) /\ (s \in Solo => ~diverged) /\ (Alone(s) => s \in Solo)
    BY <1>1, Untold
  <1>3. CASE diverged /\ Goes(s, F("ending", f.ord, f.hist, f.call, Mismatch))
    <2> DEFINE g == F("ending", f.ord, f.hist, f.call, Mismatch)
    <2>1. g.pc = "ending" /\ g.out = Mismatch /\ ~Told(g)
      BY <1>2, ToldBy DEF F
    <2>2. Goes(s, g)
      BY <1>3
    <2> HIDE DEF g
    <2>3. Stops(s) /\ diverged \in BOOLEAN /\ late' = late /\ diverged' = diverged
      BY <1>1, OthersKeep DEF DInv, Others
    <2>4. Own(s, g, diverged', late'[s])
      BY <1>1, <1>2, <1>3, <2>1, <2>3 DEF Own, Stops
    <2> QED BY <1>1, <2>1, <2>2, <2>3, <2>4, DivergenceKeeps
  <1>4. CASE ~diverged /\ Goes(s, F("entered", f.ord, f.hist, c, f.out))
    <2> DEFINE g == F("entered", f.ord, f.hist, c, f.out)
    <2>1. g.pc = "entered" /\ ~Told(g)
      BY <1>2, ToldBy DEF F
    <2>2. Goes(s, g)
      BY <1>4
    <2> HIDE DEF g
    <2> QED BY <1>1, <1>4, <2>1, <2>2, WorksOn
  <1> QED BY <1>1, <1>3, <1>4

LEMMA BeginStops ==
    ASSUME Core, DInv, NEW s \in Scope, Begin(s)
    PROVE  DInv'
  <1> DEFINE f == frame[s]
  <1>1. /\ f.pc = "entered" /\ live /\ UNCHANGED <<live, diverged>> /\ f.ord \in Nat
    BY BeginDoes, FieldsOf
  <1>2. ~Told(f) /\ (s \in Solo => ~diverged) /\ (Alone(s) => s \in Solo)
    BY <1>1, Untold
  <1>3. CASE /\ Goes(s, F("ending", f.ord + 1, f.hist, f.call, Suspended("budget")))
             /\ UNCHANGED <<ops, late>>
    <2> DEFINE g == F("ending", f.ord + 1, f.hist, f.call, Suspended("budget"))
    <2>1. g.pc = "ending" /\ g.out.t = "budget" /\ ~Told(g)
      BY <1>2, ToldBy, Outcomes DEF F
    <2>2. Goes(s, g)
      BY <1>3
    <2> HIDE DEF g
    <2> QED BY <1>1, <1>3, <2>1, <2>2, WorksOn
  <1>4. CASE /\ Goes(s, F("execute", f.ord + 1, f.hist, f.call, f.out))
             /\ Writes(<<s, f.ord>>, Op(f.call, "started", None, FALSE))
             /\ late' = [late EXCEPT ![s] = IF diverged THEN @ + 1 ELSE @]
    <2> DEFINE g == F("execute", f.ord + 1, f.hist, f.call, f.out)
    <2>1. g.pc = "execute" /\ ~Told(g)
      BY <1>2, ToldBy DEF F
    <2>2. Goes(s, g)
      BY <1>4
    <2> HIDE DEF g
    <2>3. Stops(s) /\ diverged \in BOOLEAN /\ diverged' = diverged /\ late \in [Scope -> Nat]
      BY <1>1, OthersKeep DEF DInv, Others
    <2>4. late[s] = 0
      BY <1>1, <2>3 DEF Stops
    <2>5. late'[s] = IF diverged THEN 1 ELSE 0
      BY <1>4, <2>3, <2>4
    <2>6. Own(s, g, diverged', late'[s])
      BY <1>2, <2>1, <2>3, <2>5 DEF Own
    <2>7. \A p \in DOMAIN ops' : p[1] # s => p \in DOMAIN ops
      BY <1>4, Pairs DEF Writes
    <2>8. \A u \in Scope : u # s => late'[u] = late[u]
      BY <1>4, <2>3
    <2> QED BY <1>1, <2>1, <2>2, <2>3, <2>6, <2>7, <2>8, DivergenceKeeps
  <1> QED BY <1>3, <1>4, BeginDoes
LEMMA DivergeStops ==
    ASSUME Core, DInv, NEW s \in Scope, Diverge(s)
    PROVE  DInv'
  <1> DEFINE f == frame[s]
             h == Append(f.hist, Mismatch)
  <1>1. /\ f.pc = "entered" /\ live /\ diverged' = TRUE /\ UNCHANGED <<ops, live, late>>
    BY DivergeDoes
  <1>2. late[s] = 0 /\ diverged \in BOOLEAN
    BY <1>1, OthersKeep DEF DInv, Stops, Others
  <1>3. ASSUME NEW g, Goes(s, g), g.pc = "program" \/ (g.pc = "ending" /\ g.out = Mismatch)
        PROVE  DInv'
    <2>1. late' = late
      BY <1>1
    <2>2. Own(s, g, diverged', late'[s])
      BY <1>1, <1>2, <1>3, <2>1, Outcomes DEF Own
    <2> QED BY <1>1, <1>2, <1>3, <2>1, <2>2, DivergenceKeeps
  <1>4. CASE Goes(s, F("ending", f.ord + 1, f.hist, f.call, Mismatch))
    <2> DEFINE g == F("ending", f.ord + 1, f.hist, f.call, Mismatch)
    <2>1. Goes(s, g) /\ g.pc = "ending" /\ g.out = Mismatch
      BY <1>4 DEF F
    <2> HIDE DEF g
    <2> QED BY <1>3, <2>1
  <1>5. CASE Goes(s, F("program", f.ord + 1, h, None, f.out))
    <2> DEFINE g == F("program", f.ord + 1, h, None, f.out)
    <2>1. Goes(s, g) /\ g.pc = "program"
      BY <1>5 DEF F
    <2> HIDE DEF g
    <2> QED BY <1>3, <2>1
  <1> QED BY <1>4, <1>5, DivergeDoes

LEMMA ReuseStops ==
    ASSUME Core, DInv, NEW s \in Scope, Reuse(s)
    PROVE  DInv'
  <1> DEFINE f == frame[s]
             n == f.ord + 1
             o == Restored(ops[<<s, f.ord>>].out)
             g == Handed(f, n, o)
  <1> HIDE DEF n, o, g
  <1>1. /\ f.pc = "entered" /\ live /\ Goes(s, g) /\ UNCHANGED <<ops, live, diverged, late>>
    BY ReuseDoes DEF n, o, g
  <1>2. <<s, f.ord>> \in DOMAIN ops /\ ops[<<s, f.ord>>].status \in Done
    BY ReuseDoes
  <1>3. IsOutcome(ops[<<s, f.ord>>].out) /\ ops[<<s, f.ord>>].out.t \in Final
    BY <1>2 DEF Core, Kept
  <1>4. o # Mismatch
    BY <1>3, Restoring, Outcomes DEF o, Final
  <1>5. n \in Nat
    BY FieldsOf DEF n
  <1>6. g.pc \in {"again", "program"}
    BY <1>5, HandedIs DEF g
  <1>7. ~Told(g)
    BY <1>1, <1>4, Untold, ToldHanded DEF g
  <1> QED BY <1>1, <1>6, <1>7, WorksOn

LEMMA RepeatStops ==
    ASSUME Core, DInv, NEW s \in Scope, Repeat(s)
    PROVE  DInv'
  <1> DEFINE f == frame[s]
             p == <<s, f.ord>>
  <1>1. /\ f.pc = "entered" /\ live /\ UNCHANGED <<live, diverged, late>> /\ p \in DOMAIN ops
    BY RepeatDoes
  <1>2. ~Told(f)
    BY <1>1, Untold
  <1>3. CASE /\ Goes(s, F("ending", f.ord + 1, f.hist, f.call, Suspended("uncertain")))
             /\ UNCHANGED ops
    <2> DEFINE g == F("ending", f.ord + 1, f.hist, f.call, Suspended("uncertain"))
    <2>1. Goes(s, g) /\ g.pc = "ending" /\ g.out.t = "uncertain" /\ ~Told(g)
      BY <1>2, <1>3, ToldBy, Outcomes DEF F
    <2> HIDE DEF g
    <2> QED BY <1>1, <1>3, <2>1, WorksOn
  <1>4. CASE /\ Writes(p, Op(ops[p].call, ops[p].status, ops[p].out, FALSE))
             /\ Goes(s, F("execute", f.ord + 1, f.hist, f.call, f.out))
    <2> DEFINE g == F("execute", f.ord + 1, f.hist, f.call, f.out)
    <2>1. Goes(s, g) /\ g.pc = "execute" /\ ~Told(g)
      BY <1>2, <1>4, ToldBy DEF F
    <2> HIDE DEF g
    <2>2. \A q \in DOMAIN ops' : q[1] # s => q \in DOMAIN ops
      BY <1>1, <1>4 DEF Writes
    <2> QED BY <1>1, <2>1, <2>2, WorksOn
  <1> QED BY <1>3, <1>4, RepeatDoes

LEMMA CommitStops ==
    ASSUME Core, DInv, NEW s \in Scope, Commit(s)
    PROVE  DInv'
  <1> DEFINE f == frame[s]
             n == f.ord
             o == Raised(f.out)
             g == Handed(f, n, o)
  <1> HIDE DEF n, o, g
  <1>1. /\ f.pc = "commit" /\ live /\ Goes(s, g) /\ UNCHANGED <<live, diverged, late>>
    BY CommitDoes DEF n, o, g
  <1>2. \A q \in DOMAIN ops' : q \in DOMAIN ops
    BY CommitDoes DEF Writes
  <1>3. IsOutcome(f.out) /\ f.out.t \in Final
    BY <1>1, WorkOf DEF Working
  <1>4. o # Mismatch
    BY <1>3, Restoring, Outcomes DEF o, Raised, Final
  <1>5. n \in Nat
    BY FieldsOf DEF n
  <1>6. g.pc \in {"again", "program"}
    BY <1>5, HandedIs DEF g
  <1>7. ~Told(g)
    BY <1>1, <1>4, Untold, ToldHanded DEF g
  <1> QED BY <1>1, <1>2, <1>6, <1>7, WorksOn

(* The steps of an activity and of a question that end a scope's work, or     *)
(* bring a result.                                                           *)
LEMMA WorkStops ==
    ASSUME Core, DInv, NEW s \in Scope,
           Perform(s) \/ Lose(s) \/ UseAnswer(s) \/ TakeAnswer(s) \/ Ask(s)
    PROVE  DInv'
  <1> DEFINE f == frame[s]
  <1>1. /\ f.pc \in {"execute", "commit"} /\ live /\ UNCHANGED <<live, diverged, late>>
    BY PerformDoes, LoseDoes, UseAnswerDoes, TakeAnswerDoes, AskDoes
  <1>2. DOMAIN ops' = DOMAIN ops
    <2>1. CASE Perform(s)
      BY <2>1, PerformDoes
    <2>2. CASE Lose(s)
      BY <2>2, LoseDoes
    <2>3. CASE UseAnswer(s)
      BY <2>3, UseAnswerDoes
    <2>4. CASE TakeAnswer(s)
      BY <2>4, TakeAnswerDoes DEF Writes
    <2>5. CASE Ask(s)
      <3>1. <<s, f.ord - 1>> \in DOMAIN ops
        BY <1>1, WorkOf DEF Working
      <3> QED BY <2>5, <3>1, AskDoes DEF Writes
    <2> QED BY <2>1, <2>2, <2>3, <2>4, <2>5
  <1>3. ~Told(f)
    BY <1>1, Untold
  <1>4. ASSUME NEW pc \in {"commit", "ending"}, NEW o, pc = "ending" => o.t # "mismatch",
               Goes(s, F(pc, f.ord, f.hist, f.call, o))
        PROVE  DInv'
    <2> DEFINE g == F(pc, f.ord, f.hist, f.call, o)
    <2>1. Goes(s, g) /\ g.pc = pc /\ g.out = o /\ ~Told(g)
      BY <1>3, <1>4, ToldBy DEF F
    <2> HIDE DEF g
    <2> QED BY <1>1, <1>2, <1>4, <2>1, WorksOn
  <1>5. CASE Perform(s)
    BY <1>4, <1>5, PerformDoes, Outcomes
  <1>6. CASE Lose(s)
    BY <1>4, <1>6, LoseDoes, Outcomes
  <1>7. CASE UseAnswer(s)
    <2> DEFINE o == ops[<<s, f.ord - 1>>].out
    <2>1. Goes(s, F("commit", f.ord, f.hist, f.call, o))
      BY <1>7, UseAnswerDoes
    <2> HIDE DEF o
    <2> QED BY <1>4, <2>1
  <1>8. CASE TakeAnswer(s)
    BY <1>4, <1>8, TakeAnswerDoes, Outcomes
  <1>9. CASE Ask(s)
    BY <1>4, <1>9, AskDoes, Outcomes
  <1> QED BY <1>5, <1>6, <1>7, <1>8, <1>9

(* After a divergence a group reports it, and so does a child.               *)
LEMMA GroupTells ==
    ASSUME Core, DInv, frame[Root].pc = "group", Members(Root) \subseteq Sub,
           \A m \in Members(Root) : frame[m].pc = "done" /\ IsOutcome(frame[m].out),
           NEW o, Reported(Root, o), IsOutcome(o)
    PROVE  /\ o.t = "mismatch" <=> diverged
           /\ ~diverged => \A u \in Sub :
                frame[u].pc = "done" /\ frame[u].out.t \notin Final => o.t \notin Final
  <1>1. \A u \in Scope : Stops(u) /\ Reports(u) /\ Consumes(u)
    BY DEF DInv
  <1>2. \A u \in Sub : ~diverged /\ frame[u].pc = "done" /\ frame[u].out.t \notin Final =>
          u \in Members(Root)
    BY <1>1, Scopes DEF Consumes
  <1>3. \A m \in Members(Root) : frame[m].out.t = "mismatch" => diverged
    BY <1>1, Scopes DEF Stops
  <1>4. CASE frame[Root].call.kind = "child"
    <2>1. PICK m \in Members(Root) : Members(Root) = {m} /\ o = frame[m].out
      BY <1>4 DEF Reported
    <2>2. Alone(m) /\ m \in Scope
      BY <1>4, <2>1, Scopes DEF Alone
    <2>3. diverged => o.t = "mismatch"
      BY <1>1, <2>1, <2>2 DEF Reports
    <2> QED BY <1>2, <1>3, <2>1, <2>3
  <1>5. CASE frame[Root].call.kind # "child"
    <2>1. CASE diverged
      BY <1>5, <2>1, Outcomes DEF Reported
    <2>2. CASE ~diverged
      <3>1. \A m \in Members(Root) : frame[m].out.t # "mismatch"
        BY <1>3, <2>2
      <3>2. CASE IsSuspension(o)
        BY <2>2, <3>2 DEF IsSuspension, Final
      <3>3. CASE ~IsSuspension(o)
        <4>1. \A m \in Members(Root) : ~IsSuspension(frame[m].out)
          BY <1>5, <2>2, <3>3 DEF Reported
        <4>2. \A m \in Members(Root) : frame[m].out.t \in Final
          BY <3>1, <4>1 DEF IsOutcome, IsSuspension, Ends
        <4>3. o.t # "mismatch"
          BY <1>5, <2>2, <3>3 DEF Reported, IsError
        <4> QED BY <1>2, <2>2, <4>2, <4>3
      <3> QED BY <3>2, <3>3
    <2> QED BY <2>1, <2>2
  <1> QED BY <1>4, <1>5

LEMMA CloseStops ==
    ASSUME Core, DInv, NEW s \in Scope, Close(s)
    PROVE  DInv'
  <1> DEFINE f == frame[s]
             h == Append(f.hist, Mismatch)
  <1>1. /\ f.pc = "group" /\ live /\ s = Root /\ Members(s) \subseteq Sub
        /\ \A m \in Members(s) : frame[m].pc = "done" /\ IsOutcome(frame[m].out)
        /\ UNCHANGED <<ops, live, diverged, late>>
    BY CloseDoes
  <1>2. PICK o : /\ Reported(s, o) /\ IsOutcome(o)
                 /\ \/ /\ o.t \in Final /\ Goes(s, F("commit", f.ord, f.hist, f.call, o))
                    \/ /\ o.t \notin Final /\ Goes(s, F("ending", f.ord, f.hist, f.call, o))
                    \/ /\ o = Mismatch
                       /\ Goes(s, F("program", f.ord, h, None, f.out))
    BY CloseDoes
  <1>3. /\ o.t = "mismatch" <=> diverged
        /\ ~diverged => \A u \in Sub :
             frame[u].pc = "done" /\ frame[u].out.t \notin Final => o.t \notin Final
    BY <1>1, <1>2, GroupTells
  <1>4. Stops(s) /\ s \in Solo /\ diverged \in BOOLEAN /\ late' = late
    BY <1>1, OthersKeep DEF DInv, Others, Solo
  <1>5. late[s] = 0 /\ ~Told(f)
    BY <1>1, <1>4 DEF Stops
  <1>6. ASSUME NEW g, Goes(s, g),
               \/ g.pc = "commit" /\ o.t \in Final /\ ~Told(g)
               \/ g.pc = "ending" /\ o.t \notin Final /\ g.out = o /\ ~Told(g)
               \/ g.pc = "program" /\ o.t = "mismatch"
        PROVE  DInv'
    <2>1. Own(s, g, diverged', late'[s])
      BY <1>1, <1>3, <1>4, <1>5, <1>6 DEF Own, Final
    <2> QED BY <1>1, <1>3, <1>4, <1>6, <2>1, DivergenceKeeps DEF Final
  <1>7. CASE o.t \in Final /\ Goes(s, F("commit", f.ord, f.hist, f.call, o))
    <2> DEFINE g == F("commit", f.ord, f.hist, f.call, o)
    <2>1. Goes(s, g) /\ g.pc = "commit" /\ ~Told(g)
      BY <1>5, <1>7, ToldBy DEF F
    <2> HIDE DEF g
    <2> QED BY <1>6, <1>7, <2>1
  <1>8. CASE o.t \notin Final /\ Goes(s, F("ending", f.ord, f.hist, f.call, o))
    <2> DEFINE g == F("ending", f.ord, f.hist, f.call, o)
    <2>1. Goes(s, g) /\ g.pc = "ending" /\ g.out = o /\ ~Told(g)
      BY <1>5, <1>8, ToldBy DEF F
    <2> HIDE DEF g
    <2> QED BY <1>6, <1>8, <2>1
  <1>9. CASE o = Mismatch /\ Goes(s, F("program", f.ord, h, None, f.out))
    <2> DEFINE g == F("program", f.ord, h, None, f.out)
    <2>1. Goes(s, g) /\ g.pc = "program"
      BY <1>9 DEF F
    <2> HIDE DEF g
    <2> QED BY <1>6, <1>9, <2>1, Outcomes
  <1> QED BY <1>2, <1>7, <1>8, <1>9

LEMMA FinishStops ==
    ASSUME Core, DInv, NEW s \in Scope, Finish(s)
    PROVE  DInv'
  <1> DEFINE f == frame[s]
             rest == \E p \in DOMAIN ops : p[1] = s /\ p[2] >= f.ord
  <1>1. /\ f.pc = "ending" /\ live /\ UNCHANGED <<ops, live, late>>
    BY FinishDoes
  <1>2. Stops(s) /\ Reports(s) /\ diverged \in BOOLEAN /\ late' = late /\ IsOutcome(f.out)
    BY <1>1, OthersKeep DEF DInv, Others, Core, Control, Fits
  <1>3. CASE /\ diverged' = TRUE
             /\ Goes(s, F("done", f.ord, f.hist, f.call, Mismatch))
    <2> DEFINE g == F("done", f.ord, f.hist, f.call, Mismatch)
    <2>1. Goes(s, g) /\ g.pc = "done" /\ g.out = Mismatch /\ (Told(g) <=> Told(f))
      BY <1>3, ToldBy DEF F
    <2> HIDE DEF g
    <2>2. Own(s, g, diverged', late'[s])
      BY <1>1, <1>2, <1>3, <2>1, Outcomes DEF Own, Stops
    <2> QED BY <1>1, <1>2, <1>3, <2>1, <2>2, DivergenceKeeps
  <1>4. CASE /\ f.out.t \in Final => ~diverged /\ ~rest
             /\ diverged' = diverged
             /\ Goes(s, F("done", f.ord, f.hist, f.call, f.out))
    <2> DEFINE g == F("done", f.ord, f.hist, f.call, f.out)
    <2>1. Goes(s, g) /\ g.pc = "done" /\ g.out = f.out /\ g.ord = f.ord /\ (Told(g) <=> Told(f))
      BY <1>4, ToldBy DEF F
    <2> HIDE DEF g
    <2>2. Own(s, g, diverged', late'[s])
      BY <1>1, <1>2, <1>4, <2>1 DEF Own, Stops, Reports
    <2>3. f.out.t \in Final => \A p \in DOMAIN ops' : p[1] = s => p[2] < g.ord
      <3>1. \A p \in DOMAIN ops : p[2] \in Nat
        BY Pairs DEF Core, TypeOK
      <3>2. f.ord \in Nat
        BY FieldsOf
      <3>3. f.out.t \in Final => \A p \in DOMAIN ops : p[1] = s => ~(p[2] >= f.ord)
        BY <1>4
      <3> QED BY <1>1, <2>1, <3>1, <3>2, <3>3
    <2>4. s = Root /\ ~diverged' =>
             \A u \in Sub : frame[u].pc = "done" /\ frame[u].out.t \notin Final =>
               g.out.t \notin Final
      BY <1>1, <1>4, <2>1, Scopes DEF DInv, Consumes
    <2> QED BY <1>1, <1>2, <1>4, <2>1, <2>2, <2>3, <2>4, DivergenceKeeps
  <1> QED BY <1>3, <1>4, FinishDoes

LEMMA OpenStops ==
    ASSUME Core, DInv, NEW s \in Scope, Open(s)
    PROVE  DInv'
  <1> DEFINE f == frame[s]
             g == F("group", f.ord, f.hist, f.call, f.out)
  <1>1. /\ f.pc = "execute" /\ live /\ s = Root /\ Members(s) \subseteq Sub
        /\ frame'[s] = g
        /\ \A m \in Members(s) : frame'[m] = Fresh
        /\ \A u \in Scope : u # s /\ u \notin Members(s) => frame'[u] = frame[u]
        /\ UNCHANGED <<ops, live, diverged, late>>
    BY OpenDoes
  <1>2. g.pc = "group" /\ ~Told(g)
    BY <1>1, Untold, ToldBy DEF F
  <1> HIDE DEF g
  <1>3. Root \in Solo /\ ~diverged
    BY <1>1, Untold DEF Solo
  <1>4. \A u \in Scope : Stops(u) /\ Reports(u) /\ Consumes(u)
    BY DEF DInv
  <1>5. ~Told(Fresh) /\ Fresh.pc = "program"
    BY Starts, EmptyHistory DEF Told
  <1>6. ASSUME NEW u \in Scope
        PROVE  Stops(u)' /\ Reports(u)' /\ Consumes(u)'
    <2>1. late'[u] = late[u] /\ ~diverged' /\ live'
      BY <1>1, <1>3
    <2>2. late[u] = 0
      BY <1>1, <1>3, <1>4 DEF Stops
    <2>3. Reports(u)'
      BY <2>1 DEF Reports
    <2>4. CASE u = s
      BY <1>1, <1>2, <2>1, <2>2, <2>3, <2>4 DEF Stops, Consumes
    <2>5. CASE u \in Members(s)
      BY <1>1, <1>5, <2>1, <2>2, <2>3, <2>5 DEF Stops, Consumes
    <2>6. CASE u # s /\ u \notin Members(s)
      <3>1. frame'[u] = frame[u]
        BY <1>1, <2>6
      <3>2. Stops(u)'
        BY <1>1, <1>4, <2>1, <3>1 DEF Stops
      <3>3. frame[u].pc = "done" => frame[u].out.t \in Final
        BY <1>1, <1>3, <1>4, <2>6 DEF Consumes
      <3>4. Consumes(u)'
        BY <1>1, <1>3, <1>4, <3>1, <3>3 DEF Consumes
      <3> QED BY <2>3, <3>2, <3>4
    <2> QED BY <2>4, <2>5, <2>6
  <1>7. diverged' => live'
    BY <1>1
  <1> QED BY <1>6, <1>7 DEF DInv

(* Nothing of it is left when an execution begins, ends, or is none.         *)
LEMMA Resets ==
    ASSUME Core, ~diverged', \A u \in Scope : frame'[u] \in {Idle, Fresh},
           \A u \in Scope : late'[u] = 0 \/ (~live' /\ late'[u] = 1 /\ u \notin Solo)
    PROVE  DInv'
  <1>1. ~Told(Fresh) /\ Fresh.pc = "program" /\ ~Told(Idle) /\ Idle.pc = "idle"
    BY Starts, EmptyHistory DEF Told
  <1> QED BY <1>1 DEF DInv, Stops, Reports, Consumes

LEMMA RunStops ==
    ASSUME Core, DInv,
           \/ Run \/ Answer \/ Crash \/ Edit \/ EndRun \/ Settle \/ UNCHANGED vars
           \/ \E p \in Position, c \in {"retry", "accept", "fail"} : Select(p, c)
    PROVE  DInv'
  <1>1. \A u \in Scope : Stops(u)
    BY DEF DInv
  <1>2. late \in [Scope -> Nat]
    BY OthersKeep DEF Others
  <1>3. CASE Run \/ Answer
    <2>1. \A u \in Scope : frame'[u] \in {Idle, Fresh}
      BY <1>3, ExecuteDoes, Roots
    <2>2. ~diverged' /\ \A u \in Scope : late'[u] = 0
      BY <1>3, ExecuteDoes
    <2> QED BY <2>1, <2>2, Resets
  <1>4. CASE Crash \/ EndRun
    <2>1. \A u \in Scope : frame'[u] \in {Idle, Fresh}
      BY <1>4, StopDoes
    <2>2. ~diverged' /\ ~live' /\ late' = late
      BY <1>4, StopDoes
    <2> QED BY <1>1, <2>1, <2>2, Resets DEF Stops
  <1>5. CASE Edit \/ Settle \/ \E p \in Position, c \in {"retry", "accept", "fail"} : Select(p, c)
    <2>1. ~live /\ UNCHANGED <<frame, live, diverged, late>>
      BY <1>5, EditDoes, SettleDoes, SelectDoes
    <2>2. \A u \in Scope : frame[u].pc = "idle"
      BY <2>1 DEF Core, Control
    <2> QED BY <1>1, <2>1, <2>2 DEF DInv, Stops, Reports, Consumes
  <1>6. CASE UNCHANGED vars
    <2>1. UNCHANGED <<ops, frame, live, diverged, late>>
      BY <1>6 DEF vars, ledger, history
    <2> QED BY <2>1 DEF DInv, Stops, Reports, Consumes, Alone, Members
  <1> QED BY <1>3, <1>4, <1>5, <1>6

LEMMA DivergenceStops ==
    ASSUME Core, DInv, [Next]_vars
    PROVE  DInv'
  <1>1. ASSUME NEW s \in Scope, Step(s)
        PROVE  DInv'
    <2>1. CASE Decide(s) \/ Again(s) \/ Begin(s) \/ Diverge(s) \/ Reuse(s) \/ Repeat(s) \/ Commit(s)
      BY <2>1, DecideStops, AgainStops, BeginStops, DivergeStops, ReuseStops, RepeatStops, CommitStops
    <2>2. CASE Perform(s) \/ Lose(s) \/ UseAnswer(s) \/ TakeAnswer(s) \/ Ask(s)
      BY <2>2, WorkStops
    <2>3. CASE Open(s) \/ Close(s) \/ Finish(s)
      BY <2>3, OpenStops, CloseStops, FinishStops
    <2> QED BY <1>1, <2>1, <2>2, <2>3 DEF Step
  <1> QED BY <1>1, RunStops DEF Next

LEMMA InitDivergence ==
    ASSUME Init
    PROVE  DInv
  <1>1. /\ diverged = FALSE /\ late = [s \in Scope |-> 0] /\ frame = [s \in Scope |-> Idle]
    BY DEF Init
  <1>2. \A s \in Scope : frame[s] = Idle /\ late[s] = 0
    BY <1>1
  <1>3. ~Told(Idle) /\ Idle.pc = "idle"
    BY Starts, EmptyHistory DEF Told
  <1> QED BY <1>1, <1>2, <1>3 DEF DInv, Stops, Reports, Consumes

(* Once a replay has diverged, a scope begins at most the one operation whose *)
(* call had passed the check before, and none after the program was told.     *)
THEOREM DivergenceIsFinal == Spec => []DivergedRunStops
  <1>1. Init => Core /\ DInv
    BY InitCore, InitDivergence
  <1>2. Core /\ DInv /\ [Next]_vars => (Core /\ DInv)'
    BY CoreKeeps, DivergenceStops
  <1>3. Core /\ DInv => DivergedRunStops
    <2> SUFFICES ASSUME Core, DInv, NEW s \in Scope
                 PROVE  late[s] <= IF WasTold(s) THEN 0 ELSE 1
      BY DEF DivergedRunStops
    <2>1. Stops(s) /\ late[s] \in Nat
      BY OthersKeep DEF DInv, Others
    <2>2. WasTold(s) <=> Told(frame[s])
      BY DEF WasTold, Told
    <2> QED BY <2>1, <2>2 DEF Stops
  <1> QED BY <1>1, <1>2, <1>3, PTL DEF Spec

LEMMA Outcome ==
    ASSUME Core, DInv, EndRun
    PROVE  /\ diverged => status' \in {"failed", "interrupted"}
           /\ status' \in {"completed", "failed"} /\ ~diverged =>
                \A s \in Scope : frame[s].pc = "done" =>
                    \A p \in DOMAIN ops : p[1] = s => p[2] < frame[s].ord
  <1> DEFINE f == frame[Root]
  <1>1. f.pc = "done" /\ status' = RunStatus(f.out) /\ Root \in Scope
    BY Scopes DEF EndRun, At
  <1>2. IsOutcome(f.out) /\ Stops(Root) /\ Reports(Root) /\ \A s \in Scope : Consumes(s)
    BY <1>1 DEF Core, Control, Fits, DInv
  <1>3. f.out.t \in Ends
    BY <1>2 DEF IsOutcome
  <1>4. f.out.t = "mismatch" => status' = "failed"
    BY <1>1 DEF RunStatus
  <1>5. diverged => f.out.t = "mismatch"
    BY <1>1, <1>2 DEF Reports, Alone
  <1>6. status' \in {"completed", "failed"} /\ ~diverged => f.out.t \in Final
    <2>1. f.out.t # "mismatch" \/ diverged
      BY <1>1, <1>2 DEF Stops
    <2> QED BY <1>1, <1>3, <2>1 DEF RunStatus, Ends, Final
  <1>7. ASSUME status' \in {"completed", "failed"} /\ ~diverged, NEW s \in Scope, frame[s].pc = "done"
        PROVE  \A p \in DOMAIN ops : p[1] = s => p[2] < frame[s].ord
    <2>1. frame[s].out.t \in Final
      BY <1>1, <1>2, <1>6, <1>7 DEF Consumes
    <2> QED BY <1>2, <1>7, <2>1 DEF Consumes
  <1> QED BY <1>4, <1>5, <1>7

(* What an execution reports agrees with the ledger.                         *)
THEOREM ReportsAreTrue == Spec => OutcomeMatchesHistory
  <1>1. Init => Core /\ DInv
    BY InitCore, InitDivergence
  <1>2. Core /\ DInv /\ [Next]_vars => (Core /\ DInv)'
    BY CoreKeeps, DivergenceStops
  <1>3. Core /\ DInv =>
          (EndRun =>
             /\ diverged => status' \in {"failed", "interrupted"}
             /\ status' \in {"completed", "failed"} /\ ~diverged =>
                  \A s \in Scope : frame[s].pc = "done" =>
                      \A p \in DOMAIN ops : p[1] = s => p[2] < frame[s].ord)
    BY Outcome
  <1> QED BY <1>1, <1>2, <1>3, PTL DEF Spec, OutcomeMatchesHistory

-----------------------------------------------------------------------------
(* A step of a scope writes records of that scope only.                      *)
Elsewhere(s) ==
    /\ \A p \in DOMAIN ops : p \in DOMAIN ops' /\ (p[1] # s => ops'[p] = ops[p])
    /\ \A p \in DOMAIN ops' : p[1] # s => p \in DOMAIN ops

LEMMA WritesElsewhere ==
    ASSUME Core, NEW s \in Scope, NEW n, NEW r, Writes(<<s, n>>, r)
    PROVE  Elsewhere(s)
  BY Pairs DEF Writes, Elsewhere

LEMMA Acts ==
    ASSUME Core, NEW s \in Scope, Step(s)
    PROVE  /\ live /\ frame[s].pc \notin {"idle", "done"} /\ Elsewhere(s)
           /\ UNCHANGED <<live, status, pending, selected, edited, granted>>
           /\ ~Open(s) => Goes(s, frame'[s])
           /\ Open(s) \/ Close(s) \/ frame[s].pc # "group"
  <1>1. ASSUME UNCHANGED ops
        PROVE  Elsewhere(s)
    BY <1>1 DEF Elsewhere
  <1>2. ASSUME NEW g, Goes(s, g)
        PROVE  Goes(s, frame'[s])
    BY <1>2 DEF Goes
  <1>3. CASE Decide(s)
    <2>1. Goes(s, frame'[s])
      <3>1. \E g : Goes(s, g)
        BY <1>3, DecideDoes
      <3> QED BY <1>2, <3>1
    <2> QED BY <1>1, <1>3, <2>1, DecideDoes
  <1>4. CASE Again(s)
    BY <1>1, <1>2, <1>4, AgainDoes
  <1>5. CASE Begin(s)
    <2>1. Elsewhere(s)
      BY <1>1, <1>5, BeginDoes, WritesElsewhere
    <2> QED BY <1>2, <1>5, <2>1, BeginDoes
  <1>6. CASE Diverge(s)
    <2>1. Goes(s, frame'[s])
      <3>1. \E g : Goes(s, g)
        BY <1>6, DivergeDoes
      <3> QED BY <1>2, <3>1
    <2> QED BY <1>1, <1>6, <2>1, DivergeDoes
  <1>7. CASE Reuse(s)
    <2>1. Goes(s, frame'[s])
      <3>1. \E g : Goes(s, g)
        BY <1>7, ReuseDoes
      <3> QED BY <1>2, <3>1
    <2> QED BY <1>1, <1>7, <2>1, ReuseDoes
  <1>8. CASE Repeat(s)
    <2>1. Elsewhere(s)
      <3>1. UNCHANGED ops \/ \E r : Writes(<<s, frame[s].ord>>, r)
        BY <1>8, RepeatDoes
      <3> QED BY <1>1, <3>1, WritesElsewhere
    <2> QED BY <1>2, <1>8, <2>1, RepeatDoes
  <1>9. CASE Perform(s)
    BY <1>1, <1>2, <1>9, PerformDoes
  <1>10. CASE Commit(s)
    <2>1. Elsewhere(s)
      <3>1. \E r : Writes(<<s, frame[s].ord - 1>>, r)
        BY <1>10, CommitDoes
      <3> QED BY <3>1, WritesElsewhere
    <2>2. Goes(s, frame'[s])
      <3>1. \E g : Goes(s, g)
        BY <1>10, CommitDoes
      <3> QED BY <1>2, <3>1
    <2> QED BY <1>10, <2>1, <2>2, CommitDoes
  <1>11. CASE Lose(s)
    BY <1>1, <1>2, <1>11, LoseDoes
  <1>12. CASE UseAnswer(s)
    <2>1. Goes(s, frame'[s])
      <3>1. \E g : Goes(s, g)
        BY <1>12, UseAnswerDoes
      <3> QED BY <1>2, <3>1
    <2> QED BY <1>1, <1>12, <2>1, UseAnswerDoes
  <1>13. CASE TakeAnswer(s)
    <2>1. Elsewhere(s)
      <3>1. UNCHANGED ops \/ \E r : Writes(<<s, frame[s].ord - 1>>, r)
        BY <1>13, TakeAnswerDoes
      <3> QED BY <1>1, <3>1, WritesElsewhere
    <2> QED BY <1>2, <1>13, <2>1, TakeAnswerDoes
  <1>14. CASE Ask(s)
    <2>1. Elsewhere(s)
      <3>1. UNCHANGED ops \/ \E r : Writes(<<s, frame[s].ord - 1>>, r)
        BY <1>14, AskDoes
      <3> QED BY <1>1, <3>1, WritesElsewhere
    <2> QED BY <1>2, <1>14, <2>1, AskDoes
  <1>15. CASE Open(s)
    BY <1>1, <1>15, OpenDoes
  <1>16. CASE Close(s)
    <2>1. Goes(s, frame'[s])
      <3>1. \E g : Goes(s, g)
        BY <1>16, CloseDoes
      <3> QED BY <1>2, <3>1
    <2> QED BY <1>1, <1>16, <2>1, CloseDoes
  <1>17. CASE Finish(s)
    <2>1. Goes(s, frame'[s])
      <3>1. \E g : Goes(s, g)
        BY <1>17, FinishDoes
      <3> QED BY <1>2, <3>1
    <2> QED BY <1>1, <1>17, <2>1, FinishDoes
  <1> QED BY <1>3, <1>4, <1>5, <1>6, <1>7, <1>8, <1>9, <1>10, <1>11, <1>12, <1>13, <1>14,
             <1>15, <1>16, <1>17 DEF Step

-----------------------------------------------------------------------------
(* Questions.                                                                *)

(* A scope that ends with a question leaves it waiting, in its own record.   *)
LEMMA AsksOpen ==
    ASSUME Core, QInv, NEW s \in Scope, Step(s), ~Open(s),
           frame'[s].pc \in {"ending", "done"}, frame'[s].out.t = "input"
    PROVE  LET p == frame'[s].out.at
           IN  p \in DOMAIN ops' /\ ops'[p].status = "waiting" /\ (s # Root => p[1] = s)
  <1> DEFINE f == frame[s]
             w == <<s, f.ord - 1>>
             Asked(p, t) == p \in DOMAIN t /\ t[p].status = "waiting" /\ (s # Root => p[1] = s)
  <1>1. ASSUME NEW pc, NEW n, NEW h, NEW c, NEW o, Goes(s, F(pc, n, h, c, o))
        PROVE  frame'[s].pc = pc /\ frame'[s].out = o
    BY <1>1 DEF Goes, F
  <1>2. ASSUME NEW n, NEW o, Goes(s, Handed(f, n, o))
        PROVE  frame'[s].pc \in {"again", "program"}
    BY <1>2 DEF Goes, Handed, F
  <1>3. ASSUME NEW n, NEW h, NEW c, NEW o, Goes(s, F("ending", n, h, c, o)), o.t # "input"
        PROVE  FALSE
    BY <1>1, <1>3
  <1>10. ASSUME NEW pc \in {"entered", "program", "execute", "commit"}, NEW n, NEW h, NEW c, NEW o,
                Goes(s, F(pc, n, h, c, o))
         PROVE  FALSE
    BY <1>1, <1>10
  <1>11. ASSUME NEW n, NEW o, Goes(s, Handed(f, n, o))
         PROVE  FALSE
    BY <1>2, <1>11
  <1>4. /\ ~Decide(s) /\ ~Again(s) /\ ~Begin(s) /\ ~Repeat(s) /\ ~Perform(s) /\ ~Lose(s)
        /\ ~Diverge(s) /\ ~Reuse(s) /\ ~Commit(s) /\ ~UseAnswer(s)
    <2>3. ASSUME NEW d, Goes(s, F("entered", f.ord, f.hist, d.call, f.out))
          PROVE  FALSE
      <3> DEFINE c == d.call
      <3>1. Goes(s, F("entered", f.ord, f.hist, c, f.out))
        BY <2>3
      <3> HIDE DEF c
      <3> QED BY <1>10, <3>1
    <2>4. ASSUME NEW c, Goes(s, F("entered", f.ord, f.hist, [f.call EXCEPT !.attempt = @ + 1], f.out))
          PROVE  FALSE
      BY <2>4 DEF Goes, F
    <2>5. ~Decide(s)
      BY <1>3, <2>3, DecideDoes, Outcomes
    <2>6. ~Again(s)
      BY <1>3, <2>4, AgainDoes, Outcomes
    <2>7. ~Begin(s)
      BY <1>3, <1>10, BeginDoes, Outcomes
    <2>8. ~Repeat(s)
      BY <1>3, <1>10, RepeatDoes, Outcomes
    <2>9. ~Perform(s)
      BY <1>3, <1>10, PerformDoes, Outcomes
    <2>10. ~Lose(s)
      BY <1>3, LoseDoes, Outcomes
    <2>11. ~Diverge(s)
      <3> DEFINE h == Append(f.hist, Mismatch)
                 n == f.ord + 1
      <3>1. Diverge(s) => \/ Goes(s, F("ending", n, f.hist, f.call, Mismatch))
                          \/ Goes(s, F("program", n, h, None, f.out))
        BY DivergeDoes
      <3> HIDE DEF h, n
      <3> QED BY <1>3, <1>10, <3>1, Outcomes
    <2>12. ~Reuse(s)
      <3> DEFINE n == f.ord + 1
                 o == Restored(ops[<<s, f.ord>>].out)
      <3>1. Reuse(s) => Goes(s, Handed(f, n, o))
        BY ReuseDoes
      <3> HIDE DEF n, o
      <3> QED BY <1>11, <3>1
    <2>13. ~Commit(s)
      <3> DEFINE n == f.ord
                 o == Raised(f.out)
      <3>1. Commit(s) => Goes(s, Handed(f, n, o))
        BY CommitDoes
      <3> HIDE DEF n, o
      <3> QED BY <1>11, <3>1
    <2>14. ~UseAnswer(s)
      <3> DEFINE o == ops[w].out
      <3>1. UseAnswer(s) => Goes(s, F("commit", f.ord, f.hist, f.call, o))
        BY UseAnswerDoes
      <3> HIDE DEF o
      <3> QED BY <1>10, <3>1
    <2> QED BY <2>5, <2>6, <2>7, <2>8, <2>9, <2>10, <2>11, <2>12, <2>13, <2>14
  <1>5. \A u \in Scope : Question(u)
    BY DEF QInv
  <1>6. CASE TakeAnswer(s)
    <2>1. w \in DOMAIN ops /\ ops[w].status = "waiting"
      BY <1>6, TakeAnswerDoes
    <2>2. Goes(s, F("ending", f.ord, f.hist, f.call, Asking(w))) /\ ops' = ops
      BY <1>3, <1>10, <1>6, TakeAnswerDoes, Outcomes
    <2>3. frame'[s].out = Asking(w)
      BY <1>1, <2>2
    <2> QED BY <2>1, <2>2, <2>3, Outcomes, Pairs
  <1>7. CASE Ask(s)
    <2>1. /\ Goes(s, F("ending", f.ord, f.hist, f.call, Asking(w)))
          /\ Writes(w, Op(ops[w].call, "waiting", ops[w].out, ops[w].auth))
      BY <1>3, <1>7, AskDoes, Outcomes
    <2>2. frame'[s].out = Asking(w)
      BY <1>1, <2>1
    <2>3. w \in DOMAIN ops' /\ ops'[w].status = "waiting"
      BY <2>1 DEF Writes, Op
    <2> QED BY <2>2, <2>3, Outcomes, Pairs
  <1>8. CASE Close(s)
    <2>1. s = Root /\ Members(s) \subseteq Sub /\ UNCHANGED ops
          /\ \A m \in Members(s) : frame[m].pc = "done"
      BY <1>8, CloseDoes
    <2>2. PICK o : /\ Reported(s, o)
                   /\ \/ /\ o.t \in Final /\ Goes(s, F("commit", f.ord, f.hist, f.call, o))
                      \/ /\ o.t \notin Final /\ Goes(s, F("ending", f.ord, f.hist, f.call, o))
                      \/ Goes(s, F("program", f.ord, Append(f.hist, Mismatch), None, f.out))
      BY <1>8, CloseDoes
    <2>3. frame'[s].out = o
      <3> DEFINE h == Append(f.hist, Mismatch)
      <3>1. ~Goes(s, F("program", f.ord, h, None, f.out))
        <4> HIDE DEF h
        <4> QED BY <1>10
      <3> QED BY <1>1, <2>2, <3>1
    <2>4. PICK m \in Members(s) : o = frame[m].out
      BY <2>2, <2>3, Outcomes DEF Reported
    <2>5. Question(m) /\ m \in Sub
      BY <1>5, <2>1, Scopes
    <2> QED BY <2>1, <2>3, <2>4, <2>5 DEF Question
  <1>9. CASE Finish(s)
    <2>1. f.pc = "ending" /\ UNCHANGED ops
      BY <1>9, FinishDoes
    <2>2. frame'[s].out = f.out
      <3>1. \/ Goes(s, F("done", f.ord, f.hist, f.call, Mismatch))
            \/ Goes(s, F("done", f.ord, f.hist, f.call, f.out))
        BY <1>9, FinishDoes
      <3>2. ~Goes(s, F("done", f.ord, f.hist, f.call, Mismatch))
        BY <1>1, Outcomes
      <3> QED BY <1>1, <3>1, <3>2
    <2> QED BY <1>5, <2>1, <2>2 DEF Question
  <1> QED BY <1>4, <1>6, <1>7, <1>8, <1>9 DEF Step

LEMMA StepAsks ==
    ASSUME Core, QInv, NEW s \in Scope, Step(s)
    PROVE  QInv'
  <1>1. /\ live /\ frame[s].pc \notin {"idle", "done"} /\ Elsewhere(s)
        /\ UNCHANGED <<live, status, pending>>
        /\ ~Open(s) => Goes(s, frame'[s])
    BY Acts
  <1>2. status = "running" /\ status' = "running" /\ live'
    BY <1>1 DEF QInv
  <1>3. QuestionIsOpen'
    BY <1>2 DEF QuestionIsOpen
  <1>4. ASSUME NEW u \in Scope
        PROVE  Question(u)'
    <2>1. CASE Open(s)
      <3>1. ~(frame'[u].pc \in {"ending", "done"}) \/ frame'[u] = frame[u]
        <4>1. F("group", frame[s].ord, frame[s].hist, frame[s].call, frame[s].out).pc = "group"
          BY DEF F
        <4>2. u = s => frame'[u].pc = "group"
          BY <2>1, <4>1, OpenDoes
        <4>3. u \in Members(s) => frame'[u].pc = "program"
          BY <2>1, OpenDoes, Starts
        <4>4. u # s /\ u \notin Members(s) => frame'[u] = frame[u]
          BY <2>1, OpenDoes
        <4> QED BY <4>2, <4>3, <4>4
      <3>2. ops' = ops /\ Question(u)
        BY <2>1, OpenDoes DEF QInv
      <3> QED BY <3>1, <3>2 DEF Question
    <2>2. CASE ~Open(s) /\ u = s
      BY <2>2, AsksOpen DEF Question
    <2>3. CASE ~Open(s) /\ u # s
      <3>1. frame'[u] = frame[u] /\ Question(u)
        BY <1>1, <2>3 DEF Goes, QInv
      <3>2. CASE u = Root
        <4>1. s \in Sub
          BY <2>3, <3>2, Scopes
        <4>2. frame[Root].pc = "group"
          BY <1>1, <4>1 DEF Core, Control
        <4> QED BY <3>1, <3>2, <4>2 DEF Question
      <3>3. CASE u # Root
        BY <1>1, <2>3, <3>1, <3>3 DEF Question, Elsewhere
      <3> QED BY <3>2, <3>3
    <2> QED BY <2>1, <2>2, <2>3
  <1> QED BY <1>2, <1>3, <1>4 DEF QInv

LEMMA RunAsks ==
    ASSUME Core, QInv,
           \/ Run \/ Answer \/ Crash \/ Edit \/ EndRun \/ Settle \/ UNCHANGED vars
           \/ \E p \in Position, c \in {"retry", "accept", "fail"} : Select(p, c)
    PROVE  QInv'
  <1>1. ASSUME \A u \in Scope : frame'[u] \in {Idle, Fresh}
        PROVE  \A u \in Scope : Question(u)'
    BY <1>1, Starts DEF Question
  <1>2. CASE Run \/ Answer
    <2>1. \A u \in Scope : frame'[u] \in {Idle, Fresh}
      BY <1>2, ExecuteDoes, Roots
    <2>2. status' = "running"
      BY <1>2, ExecuteDoes
    <2> QED BY <1>1, <2>1, <2>2 DEF QInv, QuestionIsOpen
  <1>3. CASE Crash
    <2>1. \A u \in Scope : frame'[u] \in {Idle, Fresh}
      BY <1>3, StopDoes
    <2>2. live /\ ~live' /\ UNCHANGED <<status, pending>>
      BY <1>3 DEF Crash, ledger
    <2>3. status' = "running"
      BY <2>2 DEF QInv
    <2> QED BY <1>1, <2>1, <2>2, <2>3 DEF QInv, QuestionIsOpen
  <1>4. CASE EndRun
    <2> DEFINE o == frame[Root].out
    <2>1. \A u \in Scope : frame'[u] \in {Idle, Fresh}
      BY <1>4, StopDoes
    <2>2. /\ ~live' /\ frame[Root].pc = "done" /\ status' = RunStatus(o) /\ ops' = ops
          /\ pending' = CASE status' = "awaiting_input" -> o.at
                          [] status' = "interrupted" -> KeptQuestion
                          [] OTHER -> None
      BY <1>4 DEF EndRun, At
    <2>3. status' = "awaiting_input" => pending' # None /\ Waiting(pending)'
      <3>1. SUFFICES ASSUME status' = "awaiting_input"
                     PROVE  pending' # None /\ Waiting(pending)'
        OBVIOUS
      <3>2. pending' = o.at
        BY <2>2, <3>1
      <3>3. o.t = "input"
        BY <2>2, <3>1 DEF RunStatus
      <3>4. o.at \in DOMAIN ops /\ ops[o.at].status = "waiting"
        BY <2>2, <3>3, Scopes DEF QInv, Question
      <3>5. o.at # None
        BY <3>4, NoneAssumption DEF Core, TypeOK
      <3> QED BY <2>2, <3>2, <3>4, <3>5 DEF Waiting, Recorded
    <2>4. status' # "awaiting_input" /\ pending' # None => Waiting(pending)'
      <3>1. SUFFICES ASSUME status' # "awaiting_input", pending' # None
                     PROVE  Waiting(pending)'
        OBVIOUS
      <3>2. pending' = KeptQuestion
        BY <2>2, <3>1
      <3>3. Waiting(pending) /\ pending' = pending
        BY <3>1, <3>2 DEF KeptQuestion
      <3> QED BY <2>2, <3>3 DEF Waiting, Recorded
    <2> QED BY <1>1, <2>1, <2>2, <2>3, <2>4 DEF QInv, QuestionIsOpen
  <1>5. CASE Edit \/ \E p \in Position, c \in {"retry", "accept", "fail"} : Select(p, c)
    <2>1. ~live /\ UNCHANGED <<ops, frame, live, status, pending>>
      BY <1>5, EditDoes, SelectDoes
    <2> QED BY <2>1 DEF QInv, QuestionIsOpen, Waiting, Recorded, Question
  <1>6. CASE Settle
    <2> DEFINE p == selected.op
    <2>1. /\ ~live /\ UNCHANGED <<frame, live>> /\ p \in DOMAIN ops
          /\ ops[p].status \in {"started", "response"}
          /\ \/ UNCHANGED <<status, pending>> \/ (status' = "failed" /\ pending' = None)
      BY <1>6, SettleDoes
    <2>2. \A q \in DOMAIN ops : q # p => q \in DOMAIN ops' /\ ops'[q] = ops[q]
      BY <1>6, SettleDoes DEF Writes
    <2>3. \A u \in Scope : frame'[u].pc = "idle"
      BY <2>1 DEF Core, Control
    <2>5. Waiting(pending) /\ pending' = pending => Waiting(pending)'
      <3> SUFFICES ASSUME Waiting(pending), pending' = pending
                   PROVE  Waiting(pending)'
        OBVIOUS
      <3>1. pending # None /\ pending \in DOMAIN ops /\ ops[pending].status = "waiting"
        BY DEF Waiting, Recorded
      <3>2. pending # p
        BY <2>1, <3>1
      <3> QED BY <2>2, <3>1, <3>2 DEF Waiting, Recorded
    <2>6. QuestionIsOpen'
      BY <2>1, <2>5 DEF QInv, QuestionIsOpen
    <2> QED BY <2>1, <2>3, <2>6 DEF QInv, Question
  <1>7. CASE UNCHANGED vars
    <2>1. UNCHANGED <<ops, frame, live, status, pending>>
      BY <1>7 DEF vars, ledger
    <2> QED BY <2>1 DEF QInv, QuestionIsOpen, Waiting, Recorded, Question
  <1> QED BY <1>2, <1>3, <1>4, <1>5, <1>6, <1>7

(* A finished execution's question is open in the ledger.                    *)
THEOREM QuestionsStayOpen == Spec => []QuestionIsOpen
  <1>1. Init => Core /\ QInv
    <2> SUFFICES ASSUME Init
                 PROVE  QInv
      BY InitCore
    <2>1. live = FALSE /\ status = "created" /\ pending = None /\ frame = [s \in Scope |-> Idle]
      BY DEF Init
    <2>2. \A s \in Scope : Question(s)
      BY <2>1, Starts DEF Question
    <2> QED BY <2>1, <2>2 DEF QInv, QuestionIsOpen
  <1>2. Core /\ QInv /\ [Next]_vars => (Core /\ QInv)'
    <2> SUFFICES ASSUME Core, QInv, [Next]_vars
                 PROVE  QInv'
      BY CoreKeeps
    <2> QED BY StepAsks, RunAsks DEF Next
  <1>3. QInv => QuestionIsOpen
    BY DEF QInv
  <1> QED BY <1>1, <1>2, <1>3, PTL DEF Spec

-----------------------------------------------------------------------------
(* Executions of an activity.                                                *)
LEMMA Positions ==
    ASSUME Core, NEW p \in Position
    PROVE  /\ p = <<p[1], p[2]>> /\ p[1] \in Scope /\ p[2] \in Nat
           /\ effects[p] \in Nat /\ granted[p] \in Nat
  <1>1. p = <<p[1], p[2]>> /\ p[1] \in Scope /\ p[2] \in Nat
    BY SizeAssumption DEF Position
  <1>4. effects[p] \in Nat /\ granted[p] \in Nat
    BY OthersKeep DEF Others
  <1> QED BY <1>1, <1>4

(* A step that neither executes nor authorises anything.                     *)
Calm ==
    /\ DOMAIN ops' = DOMAIN ops
    /\ \A p \in DOMAIN ops : ops'[p].call = ops[p].call /\ ops'[p].auth = ops[p].auth
    /\ \A u \in Scope : frame'[u].pc = "execute" =>
                          frame[u].pc = "execute" /\ frame'[u].ord = frame[u].ord
    /\ UNCHANGED <<effects, granted>>

LEMMA CalmKeeps ==
    ASSUME Core, FInv, Calm
    PROVE  FInv'
  <1> SUFFICES ASSUME NEW p \in Position
               PROVE  Bound(p)'
    BY DEF FInv
  <1>1. Bound(p) /\ p[1] \in Scope /\ effects[p] \in Nat /\ granted[p] \in Nat
    BY Positions DEF FInv
  <1>2. Executing(p)' => Executing(p)
    BY <1>1 DEF Calm, Executing
  <1>3. UNCHANGED <<effects, granted>> /\ DOMAIN ops' = DOMAIN ops
        /\ (p \in DOMAIN ops => ops'[p].call = ops[p].call /\ ops'[p].auth = ops[p].auth)
    BY DEF Calm
  <1> QED BY <1>1, <1>2, <1>3 DEF Bound, One

LEMMA CalmWrites ==
    ASSUME Core, NEW p \in DOMAIN ops, NEW st, NEW o,
           Writes(p, Op(ops[p].call, st, o, ops[p].auth))
    PROVE  /\ DOMAIN ops' = DOMAIN ops
           /\ \A q \in DOMAIN ops : ops'[q].call = ops[q].call /\ ops'[q].auth = ops[q].auth
  BY DEF Writes, Op

LEMMA CalmGoes ==
    ASSUME Core, NEW s \in Scope, Goes(s, frame'[s]), frame'[s].pc # "execute"
    PROVE  \A u \in Scope : frame'[u].pc = "execute" =>
             frame[u].pc = "execute" /\ frame'[u].ord = frame[u].ord
  BY DEF Goes

LEMMA CalmSteps ==
    ASSUME Core, NEW s \in Scope, Step(s), ~Begin(s), ~Repeat(s), ~Perform(s)
    PROVE  Calm
  <1> DEFINE f == frame[s]
             w == <<s, f.ord - 1>>
  <1>1. ASSUME NEW pc, pc # "execute", NEW n, NEW h, NEW c, NEW o, Goes(s, F(pc, n, h, c, o))
        PROVE  Goes(s, frame'[s]) /\ frame'[s].pc # "execute"
    BY <1>1 DEF Goes, F
  <1>2. ASSUME NEW n, NEW o, Goes(s, Handed(f, n, o))
        PROVE  Goes(s, frame'[s]) /\ frame'[s].pc # "execute"
    BY <1>2 DEF Goes, Handed, F
  <1>3. ASSUME UNCHANGED <<ops, effects, granted>>, Goes(s, frame'[s]) /\ frame'[s].pc # "execute"
        PROVE  Calm
    BY <1>3, CalmGoes DEF Calm
  <1>4. CASE Decide(s)
    <2>1. ASSUME NEW d, Goes(s, F("entered", f.ord, f.hist, d.call, f.out))
          PROVE  Goes(s, frame'[s]) /\ frame'[s].pc # "execute"
      BY <2>1 DEF Goes, F
    <2>2. Goes(s, frame'[s]) /\ frame'[s].pc # "execute"
      BY <1>1, <1>4, <2>1, DecideDoes
    <2> QED BY <1>3, <1>4, <2>2, DecideDoes
  <1>5. CASE Again(s)
    <2> DEFINE c == [f.call EXCEPT !.attempt = @ + 1]
    <2>1. \/ Goes(s, F("ending", f.ord, f.hist, f.call, Mismatch))
          \/ Goes(s, F("entered", f.ord, f.hist, c, f.out))
      BY <1>5, AgainDoes
    <2> HIDE DEF c
    <2>2. Goes(s, frame'[s]) /\ frame'[s].pc # "execute"
      BY <1>1, <2>1
    <2> QED BY <1>3, <1>5, <2>2, AgainDoes
  <1>6. CASE Diverge(s)
    <2> DEFINE h == Append(f.hist, Mismatch)
               n == f.ord + 1
    <2>1. \/ Goes(s, F("ending", n, f.hist, f.call, Mismatch))
          \/ Goes(s, F("program", n, h, None, f.out))
      BY <1>6, DivergeDoes
    <2> HIDE DEF h, n
    <2>2. Goes(s, frame'[s]) /\ frame'[s].pc # "execute"
      BY <1>1, <2>1
    <2> QED BY <1>3, <1>6, <2>2, DivergeDoes
  <1>7. CASE Reuse(s)
    <2> DEFINE n == f.ord + 1
               o == Restored(ops[<<s, f.ord>>].out)
    <2>1. Goes(s, Handed(f, n, o))
      BY <1>7, ReuseDoes
    <2> HIDE DEF n, o
    <2> QED BY <1>2, <1>3, <1>7, <2>1, ReuseDoes
  <1>8. CASE Commit(s)
    <2> DEFINE n == f.ord
               o == Raised(f.out)
               st == IF f.out.t = "value" THEN "completed" ELSE "failed"
               e == Record(f.out)
    <2>1. /\ Goes(s, Handed(f, n, o)) /\ w \in DOMAIN ops
          /\ Writes(w, Op(ops[w].call, st, e, ops[w].auth))
          /\ UNCHANGED <<effects, granted>>
      BY <1>8, CommitDoes
    <2> HIDE DEF n, o, st, e, w
    <2> QED BY <1>2, <2>1, CalmWrites, CalmGoes DEF Calm
  <1>9. CASE Lose(s)
    BY <1>1, <1>3, <1>9, LoseDoes
  <1>10. CASE UseAnswer(s)
    <2> DEFINE o == ops[w].out
    <2>1. Goes(s, F("commit", f.ord, f.hist, f.call, o))
      BY <1>10, UseAnswerDoes
    <2> HIDE DEF o
    <2> QED BY <1>1, <1>3, <1>10, <2>1, UseAnswerDoes
  <1>11. CASE TakeAnswer(s)
    <2>1. /\ w \in DOMAIN ops
          /\ \/ UNCHANGED ops
             \/ \E v : Writes(w, Op(ops[w].call, "response", Record(Result(v)), ops[w].auth))
          /\ UNCHANGED <<effects, granted>>
      BY <1>11, TakeAnswerDoes
    <2>2. Goes(s, frame'[s]) /\ frame'[s].pc # "execute"
      BY <1>1, <1>11, TakeAnswerDoes
    <2> HIDE DEF w
    <2> QED BY <2>1, <2>2, CalmWrites, CalmGoes DEF Calm
  <1>12. CASE Ask(s)
    <2>1. /\ w \in DOMAIN ops
          /\ \/ UNCHANGED ops
             \/ Writes(w, Op(ops[w].call, "waiting", ops[w].out, ops[w].auth))
          /\ UNCHANGED <<effects, granted>>
      BY <1>12, AskDoes
    <2>2. Goes(s, frame'[s]) /\ frame'[s].pc # "execute"
      BY <1>1, <1>12, AskDoes
    <2> DEFINE o == ops[w].out
    <2>3. UNCHANGED ops \/ Writes(w, Op(ops[w].call, "waiting", o, ops[w].auth))
      BY <2>1
    <2> HIDE DEF w, o
    <2> QED BY <2>1, <2>2, <2>3, CalmWrites, CalmGoes DEF Calm
  <1>13. CASE Open(s)
    <2>1. F("group", f.ord, f.hist, f.call, f.out).pc = "group"
      BY DEF F
    <2>2. ASSUME NEW u \in Scope, frame'[u].pc = "execute"
          PROVE  frame[u].pc = "execute" /\ frame'[u].ord = frame[u].ord
      <3>1. u # s
        BY <1>13, <2>1, <2>2, OpenDoes
      <3>2. u \notin Members(s)
        BY <1>13, <2>2, OpenDoes, Starts
      <3> QED BY <1>13, <2>2, <3>1, <3>2, OpenDoes
    <2> QED BY <1>13, <2>2, OpenDoes DEF Calm
  <1>14. CASE Close(s)
    <2> DEFINE h == Append(f.hist, Mismatch)
    <2>1. \E o : \/ Goes(s, F("commit", f.ord, f.hist, f.call, o))
                 \/ Goes(s, F("ending", f.ord, f.hist, f.call, o))
                 \/ Goes(s, F("program", f.ord, h, None, f.out))
      BY <1>14, CloseDoes
    <2> HIDE DEF h
    <2> QED BY <1>1, <1>3, <1>14, <2>1, CloseDoes
  <1>15. CASE Finish(s)
    BY <1>1, <1>3, <1>15, FinishDoes
  <1> QED BY <1>4, <1>5, <1>6, <1>7, <1>8, <1>9, <1>10, <1>11, <1>12, <1>13, <1>14, <1>15 DEF Step

LEMMA CalmRuns ==
    ASSUME Core,
           \/ Run \/ Answer \/ Crash \/ Edit \/ EndRun \/ UNCHANGED vars
           \/ \E p \in Position, c \in {"retry", "accept", "fail"} : Select(p, c)
    PROVE  Calm
  <1>1. CASE Run \/ Answer
    <2>1. \A u \in Scope : frame'[u] \in {Idle, Fresh}
      BY <1>1, ExecuteDoes, Roots
    <2> QED BY <1>1, <2>1, ExecuteDoes, Starts DEF Calm
  <1>2. CASE Crash \/ EndRun
    <2>1. \A u \in Scope : frame'[u] \in {Idle, Fresh}
      BY <1>2, StopDoes
    <2> QED BY <1>2, <2>1, StopDoes, Starts DEF Calm
  <1>3. CASE Edit \/ \E p \in Position, c \in {"retry", "accept", "fail"} : Select(p, c)
    <2>1. UNCHANGED <<ops, frame, effects, granted>>
      BY <1>3, EditDoes, SelectDoes
    <2> QED BY <2>1 DEF Calm
  <1>4. CASE UNCHANGED vars
    BY <1>4 DEF Calm, vars, ledger, history
  <1> QED BY <1>1, <1>2, <1>3, <1>4

LEMMA BeginCounts ==
    ASSUME Core, FInv, NEW s \in Scope, Begin(s)
    PROVE  FInv'
  <1> DEFINE f == frame[s]
             w == <<s, f.ord>>
  <1> SUFFICES ASSUME NEW p \in Position
               PROVE  Bound(p)'
    BY DEF FInv
  <1>1. /\ Bound(p) /\ p = <<p[1], p[2]>> /\ p[1] \in Scope
        /\ effects[p] \in Nat /\ granted[p] \in Nat /\ f.ord \in Nat
    BY Positions, FieldsOf DEF FInv
  <1>2. /\ f.pc = "entered" /\ w \notin DOMAIN ops /\ UNCHANGED <<effects, granted>>
    BY BeginDoes
  <1>3. CASE /\ Goes(s, F("ending", f.ord + 1, f.hist, f.call, Suspended("budget")))
             /\ UNCHANGED ops
    <2>1. \A u \in Scope : frame'[u].pc = "execute" =>
            frame[u].pc = "execute" /\ frame'[u].ord = frame[u].ord
      BY <1>3 DEF Goes, F
    <2>2. Calm
      BY <1>2, <1>3, <2>1 DEF Calm
    <2> QED BY <2>2, CalmKeeps DEF FInv
  <1>4. CASE /\ Goes(s, F("execute", f.ord + 1, f.hist, f.call, f.out))
             /\ Writes(w, Op(f.call, "started", None, FALSE))
    <2>1. CASE p = w
      <3>1. effects[p] = 0
        BY <1>1, <1>2, <2>1 DEF Bound
      <3>2. ops'[p].auth = FALSE /\ p \in DOMAIN ops' /\ ops'[p].call = f.call
        BY <1>4, <2>1 DEF Writes, Op
      <3>3. effects'[p] + One(Executing(p)') + One(ops'[p].auth) <= 1 + granted'[p]
        BY <1>1, <1>2, <3>1, <3>2 DEF One
      <3> QED BY <1>2, <3>1, <3>3 DEF Bound
    <2>2. CASE p # w
      <3>1. (p \in DOMAIN ops' <=> p \in DOMAIN ops) /\ (p \in DOMAIN ops => ops'[p] = ops[p])
        BY <1>4, <2>2 DEF Writes
      <3>2. Executing(p)' => Executing(p)
        <4>1. CASE p[1] = s
          <5>1. frame'[s].ord = f.ord + 1
            BY <1>4 DEF Goes, F
          <5>2. p[2] # f.ord
            BY <1>1, <2>2, <4>1
          <5> QED BY <1>1, <4>1, <5>1, <5>2 DEF Executing
        <4>2. CASE p[1] # s
          BY <1>1, <1>4, <4>2 DEF Executing, Goes
        <4> QED BY <4>1, <4>2
      <3> QED BY <1>1, <1>2, <3>1, <3>2 DEF Bound, One
    <2> QED BY <2>1, <2>2
  <1> QED BY <1>3, <1>4, BeginDoes

LEMMA RepeatCounts ==
    ASSUME Core, FInv, NEW s \in Scope, Repeat(s)
    PROVE  FInv'
  <1> DEFINE f == frame[s]
             w == <<s, f.ord>>
  <1> SUFFICES ASSUME NEW p \in Position
               PROVE  Bound(p)'
    BY DEF FInv
  <1>1. /\ Bound(p) /\ p = <<p[1], p[2]>> /\ p[1] \in Scope
        /\ effects[p] \in Nat /\ granted[p] \in Nat /\ f.ord \in Nat
    BY Positions, FieldsOf DEF FInv
  <1>2. /\ f.pc = "entered" /\ w \in DOMAIN ops /\ UNCHANGED <<effects, granted>>
        /\ Fingerprint(ops[w].call) = Fingerprint(f.call)
    BY RepeatDoes
  <1>3. CASE /\ Goes(s, F("ending", f.ord + 1, f.hist, f.call, Suspended("uncertain")))
             /\ UNCHANGED ops
    <2>1. \A u \in Scope : frame'[u].pc = "execute" =>
            frame[u].pc = "execute" /\ frame'[u].ord = frame[u].ord
      BY <1>3 DEF Goes, F
    <2>2. Calm
      BY <1>2, <1>3, <2>1 DEF Calm
    <2> QED BY <2>2, CalmKeeps DEF FInv
  <1>4. CASE /\ Repeatable(s)
             /\ Goes(s, F("execute", f.ord + 1, f.hist, f.call, f.out))
             /\ Writes(w, Op(ops[w].call, ops[w].status, ops[w].out, FALSE))
    <2>1. CASE p = w
      <3>1. ops'[p].auth = FALSE /\ p \in DOMAIN ops' /\ ops'[p].call = ops[p].call
        BY <1>4, <2>1 DEF Writes, Op
      <3>2. ops[p].call.kind = f.call.kind
        BY <1>2, <2>1 DEF Fingerprint
      <3>3. ops[p].call.kind = "activity" /\ ~ops[p].call.safe => ops[p].auth
        BY <1>4, <2>1, <3>2 DEF Repeatable, Orchestrator, Due, Name
      <3>4. ~Executing(p)
        BY <1>1, <1>2, <2>1 DEF Executing
      <3> QED BY <1>1, <1>2, <2>1, <3>1, <3>3, <3>4 DEF Bound, One
    <2>2. CASE p # w
      <3>1. (p \in DOMAIN ops' <=> p \in DOMAIN ops) /\ (p \in DOMAIN ops => ops'[p] = ops[p])
        BY <1>2, <1>4, <2>2 DEF Writes
      <3>2. Executing(p)' => Executing(p)
        <4>1. CASE p[1] = s
          <5>1. frame'[s].ord = f.ord + 1
            BY <1>4 DEF Goes, F
          <5>2. p[2] # f.ord
            BY <1>1, <2>2, <4>1
          <5> QED BY <1>1, <4>1, <5>1, <5>2 DEF Executing
        <4>2. CASE p[1] # s
          BY <1>1, <1>4, <4>2 DEF Executing, Goes
        <4> QED BY <4>1, <4>2
      <3> QED BY <1>1, <1>2, <3>1, <3>2 DEF Bound, One
    <2> QED BY <2>1, <2>2
  <1> QED BY <1>3, <1>4, RepeatDoes

LEMMA PerformCounts ==
    ASSUME Core, FInv, NEW s \in Scope, Perform(s)
    PROVE  FInv'
  <1> DEFINE f == frame[s]
             w == <<s, f.ord - 1>>
  <1> SUFFICES ASSUME NEW p \in Position
               PROVE  Bound(p)'
    BY DEF FInv
  <1>1. /\ Bound(p) /\ p = <<p[1], p[2]>> /\ p[1] \in Scope
        /\ effects[p] \in Nat /\ granted[p] \in Nat /\ f.ord \in Nat
    BY Positions, FieldsOf DEF FInv
  <1>2. /\ f.pc = "execute" /\ f.call.kind = "activity" /\ UNCHANGED <<ops, granted>>
        /\ effects' = [effects EXCEPT ![w] = @ + 1]
    BY PerformDoes
  <1>3. effects \in [Position -> Nat]
    BY OthersKeep DEF Others
  <1>4. frame'[s].pc # "execute" /\ Goes(s, frame'[s])
    <2>1. \E pc, o : pc # "execute" /\ Goes(s, F(pc, f.ord, f.hist, f.call, o))
      BY PerformDoes
    <2>2. PICK pc, o : pc # "execute" /\ Goes(s, F(pc, f.ord, f.hist, f.call, o))
      BY <2>1
    <2> QED BY <2>2 DEF Goes, F
  <1>5. w \in DOMAIN ops /\ ops[w].call.kind = "activity"
    BY <1>2, WorkOf DEF Working
  <1>6. CASE p = w
    <2>1. Executing(p) /\ ~Executing(p)'
      BY <1>2, <1>4, <1>6 DEF Executing
    <2>2. effects'[p] = effects[p] + 1
      BY <1>2, <1>3, <1>6
    <2>3. p \in DOMAIN ops /\ ops[p].call.kind = "activity"
      BY <1>5, <1>6
    <2> HIDE DEF w
    <2> QED BY <1>1, <1>2, <2>1, <2>2, <2>3 DEF Bound, One
  <1>7. CASE p # w
    <2>1. effects'[p] = effects[p]
      BY <1>2, <1>3, <1>7
    <2>2. Executing(p)' => Executing(p)
      BY <1>1, <1>4 DEF Executing, Goes
    <2> HIDE DEF w
    <2> QED BY <1>1, <1>2, <2>1, <2>2 DEF Bound, One
  <1> QED BY <1>6, <1>7

LEMMA SettleCounts ==
    ASSUME Core, FInv, Settle
    PROVE  FInv'
  <1> DEFINE w == selected.op
  <1> SUFFICES ASSUME NEW p \in Position
               PROVE  Bound(p)'
    BY DEF FInv
  <1>1. /\ Bound(p) /\ p = <<p[1], p[2]>> /\ p[1] \in Scope
        /\ effects[p] \in Nat /\ granted[p] \in Nat
    BY Positions DEF FInv
  <1>2. UNCHANGED <<frame, effects>> /\ w \in DOMAIN ops /\ ops[w].call.kind = "activity"
    BY SettleDoes
  <1>3. IsRecord(ops[w]) /\ granted \in [Position -> Nat]
    BY <1>2, OthersKeep DEF Core, TypeOK, Others
  <1>4. Executing(p)' <=> Executing(p)
    BY <1>2 DEF Executing
  <1>5. ASSUME NEW r, Writes(w, r)
        PROVE  /\ p \in DOMAIN ops' <=> p \in DOMAIN ops
               /\ p \in DOMAIN ops /\ p # w => ops'[p] = ops[p]
               /\ ops'[w] = r
    BY <1>2, <1>5 DEF Writes
  <1>6. CASE /\ Writes(w, Op(ops[w].call, "response", ops[w].out, TRUE))
             /\ granted' = [granted EXCEPT ![w] = IF ops[w].auth THEN @ ELSE @ + 1]
    <2>1. CASE p = w
      <3>1. ops'[p].auth = TRUE /\ ops'[p].call = ops[p].call /\ p \in DOMAIN ops
        BY <1>2, <1>5, <1>6, <2>1 DEF Op
      <3>2. granted'[p] = IF ops[p].auth THEN granted[p] ELSE granted[p] + 1
        BY <1>3, <1>6, <2>1
      <3>3. ops[p].auth \in BOOLEAN /\ (ops[p].call.kind = "activity" => p \in DOMAIN ops)
        BY <1>3, <2>1, <3>1 DEF IsRecord
      <3>4. effects'[p] = effects[p] /\ (p \in DOMAIN ops' <=> p \in DOMAIN ops)
        BY <1>2, <1>5, <1>6
      <3> HIDE DEF w
      <3>5. CASE ops[p].auth
        BY <1>1, <1>4, <3>1, <3>2, <3>3, <3>4, <3>5 DEF Bound, One
      <3>6. CASE ~ops[p].auth
        BY <1>1, <1>4, <3>1, <3>2, <3>3, <3>4, <3>6 DEF Bound, One
      <3> QED BY <3>5, <3>6
    <2>2. CASE p # w
      <3>1. granted'[p] = granted[p]
        BY <1>3, <1>6, <2>2
      <3>2. (p \in DOMAIN ops' <=> p \in DOMAIN ops) /\ (p \in DOMAIN ops => ops'[p] = ops[p])
        BY <1>5, <1>6, <2>2
      <3> HIDE DEF w
      <3> QED BY <1>1, <1>2, <1>4, <3>1, <3>2 DEF Bound, One
    <2> QED BY <2>1, <2>2
  <1>7. ASSUME NEW st, NEW o, Writes(w, Op(ops[w].call, st, o, ops[w].auth)), granted' = granted
        PROVE  Bound(p)'
    <2>1. DOMAIN ops' = DOMAIN ops
          /\ \A q \in DOMAIN ops : ops'[q].call = ops[q].call /\ ops'[q].auth = ops[q].auth
      BY <1>2, <1>7, CalmWrites
    <2>2. Calm
      BY <1>2, <1>7, <2>1 DEF Calm
    <2> QED BY <2>2, CalmKeeps DEF FInv
  <1>8. \/ /\ Writes(w, Op(ops[w].call, "response", ops[w].out, TRUE))
           /\ granted' = [granted EXCEPT ![w] = IF ops[w].auth THEN @ ELSE @ + 1]
        \/ granted' = granted /\ \E v : Writes(w, Op(ops[w].call, "completed", Record(Result(v)), ops[w].auth))
        \/ granted' = granted /\ Writes(w, Op(ops[w].call, "failed", Error("operator"), ops[w].auth))
    BY SettleDoes
  <1> QED BY <1>6, <1>7, <1>8

(* An activity that is not retry-safe executes once, and once more for each   *)
(* authorisation of the operator.                                            *)
THEOREM EffectsStayAuthorised == Spec => []EffectsAreAuthorised
  <1>1. Init => Core /\ FInv
    <2> SUFFICES ASSUME Init
                 PROVE  FInv
      BY InitCore
    <2>1. effects = [p \in Position |-> 0] /\ ops = <<>>
      BY DEF Init
    <2>2. DOMAIN ops = {}
      BY <2>1
    <2> QED BY <2>1, <2>2 DEF FInv, Bound
  <1>2. Core /\ FInv /\ [Next]_vars => (Core /\ FInv)'
    <2> SUFFICES ASSUME Core, FInv, [Next]_vars
                 PROVE  FInv'
      BY CoreKeeps
    <2>2. ASSUME NEW s \in Scope, Step(s)
          PROVE  FInv'
      BY <2>2, CalmSteps, CalmKeeps, BeginCounts, RepeatCounts, PerformCounts
    <2>3. CASE Settle
      BY <2>3, SettleCounts
    <2>4. CASE \/ Run \/ Answer \/ Crash \/ Edit \/ EndRun \/ UNCHANGED vars
               \/ \E p \in Position, c \in {"retry", "accept", "fail"} : Select(p, c)
      BY <2>4, CalmRuns, CalmKeeps
    <2> QED BY <2>2, <2>3, <2>4 DEF Next
  <1>3. Core /\ FInv => EffectsAreAuthorised
    <2> SUFFICES ASSUME Core, FInv, NEW p \in Position, effects[p] > 1 + granted[p]
                 PROVE  ops[p].call.safe
      BY DEF EffectsAreAuthorised
    <2>1. Bound(p) /\ effects[p] \in Nat /\ granted[p] \in Nat
      BY Positions DEF FInv
    <2>2. p \in DOMAIN ops /\ ops[p].call.kind = "activity"
      BY <2>1 DEF Bound
    <2>3. ops[p].call.safe \in BOOLEAN
      BY <2>2 DEF Core, TypeOK, IsRecord, IsCall
    <2> QED BY <2>1, <2>2, <2>3 DEF Bound, One
  <1> QED BY <1>1, <1>2, <1>3, PTL DEF Spec

-----------------------------------------------------------------------------
(* Finished records, and answers.                                            *)

(* Nothing that happens changes the record of a finished operation.          *)
LEMMA FinishedStay ==
    ASSUME Core, [Next]_vars, NEW p \in DOMAIN ops
    PROVE  p \in DOMAIN ops' /\ (ops[p].status \in Done => ops'[p] = ops[p])
  <1>1. CASE UNCHANGED ops
    BY <1>1
  <1>2. ASSUME NEW q, NEW r, Writes(q, r), q \in DOMAIN ops => ops[q].status \notin Done
        PROVE  p \in DOMAIN ops' /\ (ops[p].status \in Done => ops'[p] = ops[p])
    BY <1>2 DEF Writes
  <1>3. CASE Run \/ Answer
    BY <1>1, <1>3, ExecuteDoes
  <1>4. CASE Crash \/ EndRun
    BY <1>1, <1>4, StopDoes
  <1>5. CASE Edit \/ \E q \in Position, c \in {"retry", "accept", "fail"} : Select(q, c)
    BY <1>1, <1>5, EditDoes, SelectDoes
  <1>6. CASE Settle
    <2> DEFINE q == selected.op
    <2>1. ops[q].status \notin Done
      BY <1>6, SettleDoes DEF Done
    <2>2. \E r : Writes(q, r)
      BY <1>6, SettleDoes
    <2> HIDE DEF q
    <2> QED BY <1>2, <2>1, <2>2
  <1>7. CASE UNCHANGED vars
    BY <1>1, <1>7 DEF vars, ledger
  <1>8. ASSUME NEW s \in Scope, Step(s)
        PROVE  p \in DOMAIN ops' /\ (ops[p].status \in Done => ops'[p] = ops[p])
    <2> DEFINE w == <<s, frame[s].ord - 1>>
               u == <<s, frame[s].ord>>
    <2>1. CASE Decide(s) \/ Again(s) \/ Diverge(s) \/ Reuse(s) \/ Perform(s) \/ Lose(s)
               \/ UseAnswer(s) \/ Open(s) \/ Close(s) \/ Finish(s)
      BY <1>1, <2>1, DecideDoes, AgainDoes, DivergeDoes, ReuseDoes, PerformDoes, LoseDoes,
         UseAnswerDoes, OpenDoes, CloseDoes, FinishDoes
    <2>2. CASE Begin(s)
      <3>1. UNCHANGED ops \/ (u \notin DOMAIN ops /\ \E r : Writes(u, r))
        BY <2>2, BeginDoes
      <3> HIDE DEF u
      <3> QED BY <1>1, <1>2, <3>1
    <2>3. CASE Repeat(s)
      <3>1. UNCHANGED ops \/ (ops[u].status \notin Done /\ \E r : Writes(u, r))
        BY <2>3, RepeatDoes
      <3> HIDE DEF u
      <3> QED BY <1>1, <1>2, <3>1
    <2>4. CASE Commit(s) \/ TakeAnswer(s) \/ Ask(s)
      <3>1. frame[s].pc \in Working
        BY <2>4, CommitDoes, TakeAnswerDoes, AskDoes DEF Working
      <3>2. ops[w].status \notin Done
        BY <3>1, WorkOf
      <3>3. UNCHANGED ops \/ \E r : Writes(w, r)
        <4>1. CASE Commit(s)
          BY <4>1, CommitDoes
        <4>2. CASE TakeAnswer(s)
          BY <4>2, TakeAnswerDoes
        <4>3. CASE Ask(s)
          BY <4>3, AskDoes
        <4> QED BY <2>4, <4>1, <4>2, <4>3
      <3> HIDE DEF w
      <3> QED BY <1>1, <1>2, <3>2, <3>3
    <2> QED BY <1>8, <2>1, <2>2, <2>3, <2>4 DEF Step
  <1> QED BY <1>3, <1>4, <1>5, <1>6, <1>7, <1>8 DEF Next

LEMMA RecordsInOrder ==
    ASSUME InOrder, NEW o, IsOutcome(o)
    PROVE  Record(o) = o
  BY DEF InOrder, Record, IsOutcome

LEMMA SeenStays ==
    ASSUME Core, InOrder, SeenIsRecorded, [Next]_vars
    PROVE  SeenIsRecorded'
  <1> SUFFICES ASSUME NEW p \in Position, NEW o \in seen'[p]
               PROVE  /\ p \in DOMAIN ops' /\ ops'[p].status \in Done
                      /\ o = Restored(ops'[p].out)
    BY DEF SeenIsRecorded, Recorded, Done
  <1>1. ASSUME o \in seen[p]
        PROVE  /\ p \in DOMAIN ops' /\ ops'[p].status \in Done
               /\ o = Restored(ops'[p].out)
    <2>1. p \in DOMAIN ops /\ ops[p].status \in Done /\ o = Restored(ops[p].out)
      BY <1>1 DEF SeenIsRecorded, Recorded, Done
    <2> QED BY <2>1, FinishedStay
  <1>2. seen = [q \in Position |-> seen[q]]
    BY OthersKeep DEF Others
  <1>3. ASSUME NEW s \in Scope, Reuse(s)
        PROVE  /\ p \in DOMAIN ops' /\ ops'[p].status \in Done
               /\ o = Restored(ops'[p].out)
    <2> DEFINE w == <<s, frame[s].ord>>
    <2>1. /\ w \in DOMAIN ops /\ ops[w].status \in Done /\ ops' = ops
          /\ seen' = [seen EXCEPT ![w] = @ \cup {Restored(ops[w].out)}]
      BY <1>3, ReuseDoes
    <2> HIDE DEF w
    <2>2. o \in seen[p] \/ (p = w /\ o = Restored(ops[w].out))
      BY <1>2, <2>1
    <2> QED BY <1>1, <2>1, <2>2
  <1>4. ASSUME NEW s \in Scope, Commit(s)
        PROVE  /\ p \in DOMAIN ops' /\ ops'[p].status \in Done
               /\ o = Restored(ops'[p].out)
    <2> DEFINE w == <<s, frame[s].ord - 1>>
               e == frame[s].out
               st == IF e.t = "value" THEN "completed" ELSE "failed"
    <2>1. /\ Writes(w, Op(ops[w].call, st, Record(e), ops[w].auth))
          /\ seen' = [seen EXCEPT ![w] = @ \cup {Raised(e)}]
      BY <1>4, CommitDoes
    <2>2. Record(e) = e
      <3>1. frame[s].pc \in Working /\ frame[s].pc = "commit"
        BY <1>4, CommitDoes DEF Working
      <3>2. IsOutcome(e)
        BY <3>1, WorkOf
      <3> QED BY <3>2, RecordsInOrder
    <2>3. st \in Done
      BY DEF Done
    <2> HIDE DEF w, e, st
    <2>4. w \in DOMAIN ops' /\ ops'[w].status = st /\ ops'[w].out = e
      BY <2>1, <2>2 DEF Writes, Op
    <2>5. o \in seen[p] \/ (p = w /\ o = Restored(e))
      BY <1>2, <2>1 DEF Raised
    <2> QED BY <1>1, <2>3, <2>4, <2>5
  <1>5. CASE UNCHANGED seen
    BY <1>1, <1>5
  <1>6. ASSUME NEW s \in Scope, Step(s), ~Reuse(s), ~Commit(s)
        PROVE  UNCHANGED seen
    BY <1>6, DecideDoes, AgainDoes, BeginDoes, DivergeDoes, RepeatDoes, PerformDoes, LoseDoes,
       UseAnswerDoes, TakeAnswerDoes, AskDoes, OpenDoes, CloseDoes, FinishDoes DEF Step
  <1>7. ASSUME \/ Run \/ Answer \/ Crash \/ Edit \/ EndRun \/ Settle \/ UNCHANGED vars
               \/ \E q \in Position, c \in {"retry", "accept", "fail"} : Select(q, c)
        PROVE  UNCHANGED seen
    BY <1>7, ExecuteDoes, StopDoes, EditDoes, SettleDoes, SelectDoes DEF vars, history
  <1> QED BY <1>3, <1>4, <1>5, <1>6, <1>7 DEF Next

(* As long as the ledger keeps the order of every result, what the program   *)
(* was given at a position is what every later execution is given there.      *)
THEOREM ReplayGivesTheSame == Spec => [](InOrder => SeenIsRecorded)
  <1>1. Init => Core /\ (InOrder => SeenIsRecorded)
    <2> SUFFICES ASSUME Init
                 PROVE  SeenIsRecorded
      BY InitCore
    <2>1. seen = [p \in Position |-> {}]
      BY DEF Init
    <2> QED BY <2>1 DEF SeenIsRecorded
  <1>2. Core /\ (InOrder => SeenIsRecorded) /\ [Next]_vars => (Core /\ (InOrder => SeenIsRecorded))'
    <2>1. ASSUME Core, [Next]_vars
          PROVE  Core'
      BY <2>1, CoreKeeps
    <2>2. ASSUME Core, InOrder => SeenIsRecorded, [Next]_vars, InOrder'
          PROVE  SeenIsRecorded'
      <3>1. InOrder
        BY <2>2 DEF InOrder
      <3> QED BY <2>2, <3>1, SeenStays
    <2> QED BY <2>1, <2>2
  <1> QED BY <1>1, <1>2, PTL DEF Spec


-----------------------------------------------------------------------------
(* Recorded answers.                                                         *)

(* What was read back from the ledger is recorded again as it is.            *)
LEMMA RecordedAgain ==
    ASSUME NEW o, IsOutcome(o)
    PROVE  Record(Record(o)) = Record(o)
  <1>1. CASE o.v \notin Value
    BY <1>1 DEF Record
  <1>2. CASE o.v \in Value
    <2> DEFINE e == [o EXCEPT !.v = Stored(o.v)]
    <2>1. Stored(o.v) \in Value /\ Stored(Stored(o.v)) = Stored(o.v)
      BY <1>2, StoredAssumption
    <2>2. Record(o) = e
      BY <1>2 DEF Record
    <2>3. e.v = Stored(o.v)
      BY DEF IsOutcome
    <2>4. e = [e EXCEPT !.v = Stored(o.v)]
      BY <2>3 DEF IsOutcome
    <2> HIDE DEF e
    <2>5. Record(e) = [e EXCEPT !.v = Stored(e.v)]
      BY <2>1, <2>3 DEF Record
    <2> QED BY <2>1, <2>2, <2>3, <2>4, <2>5
  <1> QED BY <1>1, <1>2

(* A write that keeps the validated answers.                                 *)
IsInput(r) == r.call.kind = "input"
Answered   == {"response", "completed"}
Keeps(p, r) ==
    /\ p \in DOMAIN ops /\ IsInput(ops[p]) /\ ops[p].status \in Answered =>
         r.out = ops[p].out /\ r.status \in Answered
    /\ IsInput(r) /\ r.status = "response" => Record(r.out) = r.out

LEMMA ScopeAnswers ==
    ASSUME Core, AInv, NEW s \in Scope, Step(s)
    PROVE  UNCHANGED ops \/ \E n, r : Writes(<<s, n>>, r) /\ Keeps(<<s, n>>, r)
  <1> DEFINE f == frame[s]
             u == <<s, f.ord>>
             w == <<s, f.ord - 1>>
  <1>1. CASE Decide(s) \/ Again(s) \/ Diverge(s) \/ Reuse(s) \/ Perform(s) \/ Lose(s)
             \/ UseAnswer(s) \/ Open(s) \/ Close(s) \/ Finish(s)
    BY <1>1, DecideDoes, AgainDoes, DivergeDoes, ReuseDoes, PerformDoes, LoseDoes,
       UseAnswerDoes, OpenDoes, CloseDoes, FinishDoes
  <1>2. CASE Begin(s)
    <2> DEFINE r == Op(f.call, "started", None, FALSE)
    <2>1. UNCHANGED ops \/ (u \notin DOMAIN ops /\ Writes(u, r))
      BY <1>2, BeginDoes
    <2>2. u \notin DOMAIN ops => Keeps(u, r)
      BY DEF Keeps, Op
    <2> HIDE DEF r
    <2> QED BY <2>1, <2>2
  <1>3. CASE Repeat(s)
    <2> DEFINE r == Op(ops[u].call, ops[u].status, ops[u].out, FALSE)
    <2>1. UNCHANGED ops \/ Writes(u, r)
      BY <1>3, RepeatDoes
    <2>2. u \in DOMAIN ops
      BY <1>3, RepeatDoes
    <2>3. r.call = ops[u].call /\ r.status = ops[u].status /\ r.out = ops[u].out
      BY DEF Op
    <2>4. Keeps(u, r)
      BY <2>2, <2>3 DEF Keeps, AInv, IsInput
    <2> HIDE DEF r
    <2> QED BY <2>1, <2>4
  <1>4. CASE Commit(s)
    <2> DEFINE st == IF f.out.t = "value" THEN "completed" ELSE "failed"
               r == Op(ops[w].call, st, Record(f.out), ops[w].auth)
    <2>1. Writes(w, r) /\ f.pc = "commit"
      BY <1>4, CommitDoes
    <2>2. /\ w \in DOMAIN ops /\ ops[w].call.kind = f.call.kind
          /\ f.call.kind = "input" => f.out.t = "value"
      BY <2>1, WorkOf DEF Working
    <2>3. r.status = st /\ r.out = Record(f.out) /\ st # "response"
      BY DEF Op
    <2>4. f.call.kind = "input" => st = "completed" /\ Record(f.out) = ops[w].out
      BY <2>1, <2>2 DEF AInv
    <2> HIDE DEF r, st, w
    <2>5. Keeps(w, r)
      BY <2>2, <2>3, <2>4 DEF Keeps, IsInput, Answered
    <2> USE DEF w
    <2> QED BY <2>1, <2>5
  <1>5. CASE TakeAnswer(s)
    <2>1. w \in DOMAIN ops /\ ops[w].status = "waiting"
      BY <1>5, TakeAnswerDoes
    <2>2. UNCHANGED ops \/ \E v : Writes(w, Op(ops[w].call, "response", Record(Result(v)), ops[w].auth))
      BY <1>5, TakeAnswerDoes
    <2>3. ASSUME NEW v, Writes(w, Op(ops[w].call, "response", Record(Result(v)), ops[w].auth))
          PROVE  \E n, r : Writes(<<s, n>>, r) /\ Keeps(<<s, n>>, r)
      <3> DEFINE r == Op(ops[w].call, "response", Record(Result(v)), ops[w].auth)
      <3>1. Record(Record(Result(v))) = Record(Result(v))
        BY Outcomes, RecordedAgain
      <3>2. r.out = Record(Result(v))
        BY DEF Op
      <3>3. Keeps(w, r)
        BY <2>1, <3>1, <3>2 DEF Keeps, Answered
      <3> HIDE DEF r
      <3> QED BY <2>3, <3>3 DEF r
    <2> QED BY <2>2, <2>3
  <1>6. CASE Ask(s)
    <2> DEFINE r == Op(ops[w].call, "waiting", ops[w].out, ops[w].auth)
    <2>1. w \in DOMAIN ops /\ ops[w].status \in {"started", "waiting"}
      BY <1>6, AskDoes
    <2>2. UNCHANGED ops \/ Writes(w, r)
      BY <1>6, AskDoes
    <2>3. r.status = "waiting"
      BY DEF Op
    <2>4. Keeps(w, r)
      BY <2>1, <2>3 DEF Keeps, Answered
    <2> HIDE DEF r
    <2> QED BY <2>2, <2>4
  <1> QED BY <1>1, <1>2, <1>3, <1>4, <1>5, <1>6 DEF Step

LEMMA LedgerAnswers ==
    ASSUME Core, AInv, [Next]_vars
    PROVE  UNCHANGED ops \/ \E p, r : Writes(p, r) /\ Keeps(p, r)
  <1>1. ASSUME NEW s \in Scope, Step(s)
        PROVE  UNCHANGED ops \/ \E p, r : Writes(p, r) /\ Keeps(p, r)
    BY <1>1, ScopeAnswers
  <1>2. CASE Settle
    <2> DEFINE w == selected.op
    <2>1. w \in DOMAIN ops /\ ops[w].call.kind = "activity"
      BY <1>2, SettleDoes
    <2>2. ASSUME NEW st, NEW o, NEW a
          PROVE  Keeps(w, Op(ops[w].call, st, o, a))
      <3> DEFINE r == Op(ops[w].call, st, o, a)
      <3>1. r.call = ops[w].call
        BY DEF Op
      <3> HIDE DEF r
      <3>2. Keeps(w, r)
        BY <2>1, <3>1 DEF Keeps, IsInput
      <3> QED BY <3>2 DEF r
    <2>3. \E st, o, a : Writes(w, Op(ops[w].call, st, o, a))
      BY <1>2, SettleDoes
    <2> QED BY <2>2, <2>3
  <1>3. CASE \/ Run \/ Answer \/ Crash \/ Edit \/ EndRun \/ UNCHANGED vars
             \/ \E p \in Position, c \in {"retry", "accept", "fail"} : Select(p, c)
    BY <1>3, ExecuteDoes, StopDoes, EditDoes, SelectDoes DEF vars, ledger
  <1> QED BY <1>1, <1>2, <1>3 DEF Next

LEMMA AnswersKept ==
    ASSUME Core, AInv, [Next]_vars
    PROVE  /\ \A p \in DOMAIN ops : IsInput(ops[p]) /\ ops[p].status \in Answered =>
                ops'[p].out = ops[p].out /\ ops'[p].status \in Answered
           /\ \A p \in DOMAIN ops' : IsInput(ops'[p]) /\ ops'[p].status = "response" =>
                Record(ops'[p].out) = ops'[p].out
  <1>1. CASE UNCHANGED ops
    BY <1>1 DEF AInv, IsInput
  <1>2. ASSUME NEW q, NEW r, Writes(q, r), Keeps(q, r)
        PROVE  /\ \A p \in DOMAIN ops : IsInput(ops[p]) /\ ops[p].status \in Answered =>
                    ops'[p].out = ops[p].out /\ ops'[p].status \in Answered
               /\ \A p \in DOMAIN ops' : IsInput(ops'[p]) /\ ops'[p].status = "response" =>
                    Record(ops'[p].out) = ops'[p].out
    <2>1. DOMAIN ops' = DOMAIN ops \cup {q} /\ ops'[q] = r
          /\ \A p \in DOMAIN ops : p # q => ops'[p] = ops[p]
      BY <1>2 DEF Writes
    <2>2. \A p \in DOMAIN ops : IsInput(ops[p]) /\ ops[p].status = "response" =>
            Record(ops[p].out) = ops[p].out
      BY DEF AInv, IsInput
    <2> QED BY <1>2, <2>1, <2>2 DEF Keeps, IsInput
  <1> QED BY <1>1, <1>2, LedgerAnswers

(* What a scope is about to record for a question is its recorded answer.    *)
LEMMA StepCommits ==
    ASSUME Core, AInv, NEW s \in Scope, Step(s), frame'[s].pc = "commit",
           frame'[s].call.kind = "input"
    PROVE  Record(frame'[s].out) = ops'[<<s, frame'[s].ord - 1>>].out
  <1> DEFINE f == frame[s]
             w == <<s, f.ord - 1>>
  <1>1. ASSUME NEW pc, NEW n, NEW h, NEW c, NEW o, Goes(s, F(pc, n, h, c, o))
        PROVE  /\ frame'[s].pc = pc /\ frame'[s].ord = n /\ frame'[s].call = c
               /\ frame'[s].out = o
    BY <1>1 DEF Goes, F
  <1>2. ASSUME NEW n, NEW o, Goes(s, Handed(f, n, o))
        PROVE  frame'[s].pc # "commit"
    BY <1>2 DEF Goes, Handed, F
  <1>3. CASE Decide(s)
    <2>1. \E pc, c, o : pc # "commit" /\ Goes(s, F(pc, f.ord, f.hist, c, o))
      BY <1>3, DecideDoes
    <2> QED BY <1>1, <2>1
  <1>4. CASE Again(s)
    <2>1. \E pc, c, o : pc # "commit" /\ Goes(s, F(pc, f.ord, f.hist, c, o))
      BY <1>4, AgainDoes
    <2> QED BY <1>1, <2>1
  <1>5. CASE Begin(s) \/ Repeat(s) \/ Diverge(s)
    <2>1. \E pc, n, h, c, o : pc # "commit" /\ Goes(s, F(pc, n, h, c, o))
      <3>1. CASE Begin(s)
        BY <3>1, BeginDoes
      <3>2. CASE Repeat(s)
        BY <3>2, RepeatDoes
      <3>3. CASE Diverge(s)
        BY <3>3, DivergeDoes
      <3> QED BY <1>5, <3>1, <3>2, <3>3
    <2> QED BY <1>1, <2>1
  <1>6. CASE Reuse(s) \/ Commit(s)
    <2>1. \E n, o : Goes(s, Handed(f, n, o))
      BY <1>6, ReuseDoes, CommitDoes
    <2> QED BY <1>2, <2>1
  <1>7. CASE Perform(s)
    <2>1. f.call.kind = "activity" /\ \E pc, o : Goes(s, F(pc, f.ord, f.hist, f.call, o))
      BY <1>7, PerformDoes
    <2>2. frame'[s].call = f.call
      BY <1>1, <2>1
    <2> QED BY <2>1, <2>2
  <1>8. CASE Lose(s) \/ Ask(s)
    <2>1. \E pc, o : pc # "commit" /\ Goes(s, F(pc, f.ord, f.hist, f.call, o))
      BY <1>8, LoseDoes, AskDoes
    <2> QED BY <1>1, <2>1
  <1>9. CASE UseAnswer(s)
    <2> DEFINE o == ops[w].out
    <2>1. /\ w \in DOMAIN ops /\ ops[w].status = "response" /\ ops[w].call.kind = "input"
          /\ Goes(s, F("commit", f.ord, f.hist, f.call, o)) /\ ops' = ops
      BY <1>9, UseAnswerDoes
    <2>2. Record(o) = o
      BY <2>1 DEF AInv
    <2>3. frame'[s].ord = f.ord /\ frame'[s].out = o
      <3> HIDE DEF o
      <3> QED BY <1>1, <2>1
    <2> QED BY <2>1, <2>2, <2>3
  <1>10. CASE TakeAnswer(s)
    <2>1. \/ \E o : Goes(s, F("ending", f.ord, f.hist, f.call, o))
          \/ \E v : /\ Writes(w, Op(ops[w].call, "response", Record(Result(v)), ops[w].auth))
                    /\ Goes(s, F("commit", f.ord, f.hist, f.call, Result(v)))
      BY <1>10, TakeAnswerDoes
    <2>2. PICK v : /\ Writes(w, Op(ops[w].call, "response", Record(Result(v)), ops[w].auth))
                   /\ Goes(s, F("commit", f.ord, f.hist, f.call, Result(v)))
      BY <1>1, <2>1
    <2>3. ops'[w].out = Record(Result(v))
      BY <2>2 DEF Writes, Op
    <2>4. frame'[s].ord = f.ord /\ frame'[s].out = Result(v)
      BY <2>2 DEF Goes, F
    <2> QED BY <2>3, <2>4
  <1>11. CASE Open(s)
    <2>1. frame'[s] = F("group", f.ord, f.hist, f.call, f.out)
      BY <1>11, OpenDoes
    <2> QED BY <2>1 DEF F
  <1>12. CASE Close(s)
    <2>1. /\ \E pc, h, c, o : /\ pc # "commit" \/ c = f.call
                              /\ Goes(s, F(pc, f.ord, h, c, o))
          /\ f.pc = "group"
      BY <1>12, CloseDoes
    <2>2. f.call.kind \in Groups
      BY <2>1 DEF Core, Control
    <2>3. frame'[s].call = f.call
      BY <1>1, <2>1
    <2> QED BY <2>2, <2>3 DEF Groups
  <1>13. CASE Finish(s)
    <2>1. \E o : Goes(s, F("done", f.ord, f.hist, f.call, o))
      BY <1>13, FinishDoes
    <2> QED BY <1>1, <2>1
  <1> QED BY <1>3, <1>4, <1>5, <1>6, <1>7, <1>8, <1>9, <1>10, <1>11, <1>12, <1>13 DEF Step

LEMMA AnswersInductive ==
    ASSUME Core, AInv, [Next]_vars
    PROVE  AInv'
  <1> SUFFICES ASSUME NEW s \in Scope, frame'[s].pc = "commit", frame'[s].call.kind = "input"
               PROVE  Record(frame'[s].out) = ops'[<<s, frame'[s].ord - 1>>].out
    BY AnswersKept DEF AInv, IsInput
  <1>1. ASSUME NEW u \in Scope, Step(u)
        PROVE  Record(frame'[s].out) = ops'[<<s, frame'[s].ord - 1>>].out
    <2>1. CASE u = s
      BY <1>1, <2>1, StepCommits
    <2>2. CASE u # s
      <3>1. frame'[s] = frame[s]
        <4>1. CASE Open(u)
          <5>1. s \notin Members(u)
            BY <4>1, OpenDoes, Starts
          <5> QED BY <2>2, <4>1, <5>1, OpenDoes
        <4>2. CASE ~Open(u)
          BY <1>1, <2>2, <4>2, Acts DEF Goes
        <4> QED BY <4>1, <4>2
      <3> DEFINE p == <<s, frame[s].ord - 1>>
      <3>2. p \in DOMAIN ops
        BY <3>1, WorkOf DEF Working
      <3>3. ops'[p] = ops[p]
        BY <1>1, <2>2, <3>2, Acts DEF Elsewhere
      <3> QED BY <3>1, <3>3 DEF AInv
    <2> QED BY <2>1, <2>2
  <1>2. CASE Run \/ Answer \/ Crash \/ EndRun
    <2>1. frame'[s] \in {Idle, Fresh}
      BY <1>2, ExecuteDoes, StopDoes
    <2> QED BY <2>1, Starts
  <1>3. CASE \/ Edit \/ UNCHANGED vars
             \/ \E p \in Position, c \in {"retry", "accept", "fail"} : Select(p, c)
    <2>1. UNCHANGED <<ops, frame>>
      BY <1>3, EditDoes, SelectDoes DEF vars, ledger
    <2> QED BY <2>1 DEF AInv
  <1>4. CASE Settle
    <2>1. ~live /\ UNCHANGED frame
      BY <1>4, SettleDoes DEF Core, Chosen
    <2> QED BY <2>1 DEF Core, Control
  <1> QED BY <1>1, <1>2, <1>3, <1>4 DEF Next

(* An answer that passed validation is final: neither a crash nor a repeated  *)
(* question nor another submitted answer changes it.                         *)
THEOREM AnswersAreFinal == Spec => AnswerIsFinal
  <1>1. Init => Core /\ AInv
    <2> SUFFICES ASSUME Init
                 PROVE  AInv
      BY InitCore
    <2>1. ops = <<>> /\ frame = [s \in Scope |-> Idle]
      BY DEF Init
    <2> QED BY <2>1, Starts DEF AInv
  <1>2. Core /\ AInv /\ [Next]_vars => (Core /\ AInv)'
    BY CoreKeeps, AnswersInductive
  <1>3. Core /\ AInv /\ [Next]_vars =>
          [\A p \in DOMAIN ops :
             ops[p].call.kind = "input" /\ ops[p].status \in {"response", "completed"}
             => ops'[p].out = ops[p].out /\ ops'[p].status \in {"response", "completed"}]_vars
    BY AnswersKept DEF IsInput, Answered
  <1> QED BY <1>1, <1>2, <1>3, PTL DEF Spec, AnswerIsFinal

-----------------------------------------------------------------------------
(* A workflow that nobody edits.                                             *)

(* The program comes to be known, and never changes.                         *)
Grows == \A k \in DOMAIN script : k \in DOMAIN script' /\ script'[k] = script[k]
(* A scope whose records stay as they are.                                   *)
SameRecords(s) ==
    \A n \in Nat : /\ <<s, n>> \in DOMAIN ops' <=> <<s, n>> \in DOMAIN ops
                   /\ <<s, n>> \in DOMAIN ops => ops'[<<s, n>>] = ops[<<s, n>>]
(* d is what c knew, and what comes after the record r at the ordinal n.     *)
Extends(d, c, n, r) ==
    /\ d = [m \in Nat |-> d[m]] /\ d[n + 1] = After(c[n], r)
    /\ \A m \in Nat : m <= n => d[m] = c[m]

LEMMA KnownStays ==
    ASSUME Grows, NEW s, NEW e, Known(s, e)
    PROVE  Known(s, e)' /\ Called(s, e)' = Called(s, e)
  BY DEF Grows, Known, Called

LEMMA ChainStays ==
    ASSUME Grows, NEW s \in Scope, SameRecords(s), NEW c, Chain(s, c)
    PROVE  Chain(s, c)'
  <1>1. c = [n \in Nat |-> c[n]] /\ c[0] = [hist |-> <<>>, again |-> FALSE, call |-> None]
    BY DEF Chain
  <1>2. ASSUME NEW n \in Nat, <<s, n>> \in DOMAIN ops'
        PROVE  /\ \A m \in Nat : m < n => Finished(s, m)'
               /\ Known(s, c[n])' /\ ops'[<<s, n>>].call = Called(s, c[n])'
               /\ Finished(s, n)' => c[n + 1] = After(c[n], ops'[<<s, n>>])
    <2>1. <<s, n>> \in DOMAIN ops /\ ops'[<<s, n>>] = ops[<<s, n>>]
      BY <1>2 DEF SameRecords
    <2>2. /\ \A m \in Nat : m < n => Finished(s, m)
          /\ Known(s, c[n]) /\ ops[<<s, n>>].call = Called(s, c[n])
          /\ Finished(s, n) => c[n + 1] = After(c[n], ops[<<s, n>>])
      BY <2>1 DEF Chain
    <2>3. \A m \in Nat : Finished(s, m)' <=> Finished(s, m)
      BY DEF SameRecords, Finished
    <2> DEFINE e == c[n]
    <2>4. Known(s, e)
      BY <2>2
    <2> HIDE DEF e
    <2>5. Known(s, e)' /\ Called(s, e)' = Called(s, e)
      BY <2>4, KnownStays
    <2> QED BY <2>1, <2>2, <2>3, <2>5 DEF e
  <1> QED BY <1>1, <1>2 DEF Chain

(* A record is written at the first ordinal that is not finished.            *)
LEMMA ChainWrites ==
    ASSUME Core, Grows, NEW s \in Scope, NEW n \in Nat, NEW r, Writes(<<s, n>>, r),
           NEW c, Chain(s, c), ~Finished(s, n),
           \A m \in Nat : m < n => Finished(s, m),
           Known(s, c[n]), r.call = Called(s, c[n])
    PROVE  \E d : Extends(d, c, n, r) /\ Chain(s, d)'
  <1>1. PICK d : Extends(d, c, n, r)
    <2> DEFINE e == [m \in Nat |-> IF m = n + 1 THEN After(c[n], r) ELSE c[m]]
    <2>1. Extends(e, c, n, r)
      BY DEF Extends
    <2> QED BY <2>1
  <1>2. /\ DOMAIN ops' = DOMAIN ops \cup {<<s, n>>} /\ ops'[<<s, n>>] = r
        /\ \A q \in DOMAIN ops : q # <<s, n>> => ops'[q] = ops[q]
    BY DEF Writes
  <1>3. ASSUME NEW k \in Nat, <<s, k>> \in DOMAIN ops'
        PROVE  k <= n
    <2>1. k # n => <<s, k>> \in DOMAIN ops
      BY <1>2, <1>3
    <2>2. <<s, k>> \in DOMAIN ops => ~(n < k)
      BY DEF Chain
    <2> QED BY <2>1, <2>2
  <1>4. \A m \in Nat : m < n =>
          /\ <<s, m>> \in DOMAIN ops /\ <<s, m>> \in DOMAIN ops'
          /\ ops'[<<s, m>>] = ops[<<s, m>>] /\ Finished(s, m) /\ Finished(s, m)'
    BY <1>2 DEF Finished
  <1>5. ASSUME NEW k \in Nat, k <= n, <<s, k>> \in DOMAIN ops'
        PROVE  /\ \A m \in Nat : m < k => Finished(s, m)'
               /\ Known(s, d[k])' /\ ops'[<<s, k>>].call = Called(s, d[k])'
               /\ Finished(s, k)' => d[k + 1] = After(d[k], ops'[<<s, k>>])
    <2>0. PICK e : e = c[k]
      OBVIOUS
    <2>1. d[k] = e
      BY <1>1, <1>5, <2>0 DEF Extends
    <2>2. Known(s, e) /\ ops'[<<s, k>>].call = Called(s, e)
      <3>1. CASE k = n
        BY <1>2, <2>0, <3>1
      <3>2. CASE k # n
        <4>1. k < n
          BY <1>5, <3>2
        <4>2. <<s, k>> \in DOMAIN ops /\ ops'[<<s, k>>] = ops[<<s, k>>]
          BY <1>4, <4>1
        <4> QED BY <2>0, <4>2 DEF Chain
      <3> QED BY <3>1, <3>2
    <2>3. Finished(s, k)' => d[k + 1] = After(e, ops'[<<s, k>>])
      <3>1. CASE k = n
        BY <1>1, <1>2, <2>0, <3>1 DEF Extends
      <3>2. CASE k # n
        <4>1. k < n /\ k + 1 <= n /\ k + 1 \in Nat
          BY <1>5, <3>2
        <4>2. <<s, k>> \in DOMAIN ops /\ ops'[<<s, k>>] = ops[<<s, k>>] /\ Finished(s, k)
          BY <1>4, <4>1
        <4>3. c[k + 1] = After(e, ops[<<s, k>>])
          BY <2>0, <4>2 DEF Chain
        <4>4. d[k + 1] = c[k + 1]
          BY <1>1, <4>1 DEF Extends
        <4> QED BY <4>2, <4>3, <4>4
      <3> QED BY <3>1, <3>2
    <2>4. Known(s, e)' /\ Called(s, e)' = Called(s, e)
      BY <2>2, KnownStays
    <2>5. Known(s, d[k])' /\ ops'[<<s, k>>].call = Called(s, d[k])'
      BY <2>1, <2>2, <2>4
    <2>6. \A m \in Nat : m < k => Finished(s, m)'
      BY <1>4, <1>5 DEF Finished
    <2>7. Finished(s, k)' => d[k + 1] = After(d[k], ops'[<<s, k>>])
      BY <2>1, <2>3
    <2> QED BY <2>5, <2>6, <2>7
  <1>6. d[0] = [hist |-> <<>>, again |-> FALSE, call |-> None]
    <2>1. d[0] = c[0]
      BY <1>1 DEF Extends
    <2> QED BY <2>1 DEF Chain
  <1>7. Chain(s, d)'
    BY <1>1, <1>3, <1>5, <1>6 DEF Chain, Extends
  <1> QED BY <1>1, <1>7

(* Where a scope is, when it goes on to a known frame.                       *)
LEMMA AlongEnds ==
    ASSUME NEW s \in Scope, NEW c, frame'[s].pc \in {"idle", "ending", "done"},
           frame'[s].pc = "ending" => frame'[s].out.t \notin Final
    PROVE  Along(s, c)'
  BY DEF Along, Working

LEMMA AlongWork ==
    ASSUME NEW s \in Scope, NEW c, frame'[s].pc \in Working,
           c[frame'[s].ord - 1].hist = frame'[s].hist,
           frame'[s].call = ops'[<<s, frame'[s].ord - 1>>].call
    PROVE  Along(s, c)'
  BY DEF Along, Working

(* What the program is given next is what is known after the record.         *)
LEMMA AlongHanded ==
    ASSUME NEW s \in Scope, NEW c, NEW f, NEW n \in Nat, NEW k \in Nat, n = k + 1,
           NEW r, Goes(s, Handed(f, n, Restored(r.out))),
           r.call = f.call, c[k].hist = f.hist, c[n] = After(c[k], r),
           \A m \in Nat : m < n => Finished(s, m)'
    PROVE  Along(s, c)'
  <1> DEFINE o == Restored(r.out)
             g == Handed(f, n, o)
  <1>1. Retried([call |-> r.call], o) <=> Retried(f, o)
    BY DEF Retried
  <1>2. c[n] = IF Retried(f, o) THEN [hist |-> f.hist, again |-> TRUE, call |-> f.call]
               ELSE [hist |-> Append(f.hist, o), again |-> FALSE, call |-> None]
    BY <1>1 DEF After
  <1>3. frame'[s] = g
    BY DEF Goes
  <1>4. CASE Retried(f, o)
    <2>1. g.pc = "again" /\ g.ord = n /\ g.hist = f.hist /\ g.call = f.call
      BY <1>4 DEF Handed, F
    <2> HIDE DEF g, o
    <2> QED BY <1>2, <1>3, <1>4, <2>1 DEF Along, Working
  <1>5. CASE ~Retried(f, o)
    <2>1. g.pc = "program" /\ g.ord = n /\ g.hist = Append(f.hist, o)
      BY <1>5 DEF Handed, F
    <2> HIDE DEF g, o
    <2> QED BY <1>2, <1>3, <1>5, <2>1 DEF Along, Working
  <1> QED BY <1>4, <1>5

LEMMA StepGrows ==
    ASSUME Core, NEW s \in Scope, Step(s)
    PROVE  Grows
  <1>1. CASE Decide(s)
    <2>1. PICK d : /\ <<s, frame[s].hist>> \in DOMAIN script => d = script[<<s, frame[s].hist>>]
                   /\ IF diverged THEN script' = script
                      ELSE script' = [k \in DOMAIN script \cup {<<s, frame[s].hist>>} |->
                                        IF k = <<s, frame[s].hist>> THEN d ELSE script[k]]
      BY <1>1, DecideDoes
    <2> QED BY <2>1 DEF Grows
  <1>2. CASE UNCHANGED script
    BY <1>2 DEF Grows
  <1> QED BY <1>1, <1>2, AgainDoes, BeginDoes, DivergeDoes, ReuseDoes, RepeatDoes, PerformDoes, CommitDoes,
             LoseDoes, UseAnswerDoes, TakeAnswerDoes, AskDoes, OpenDoes, CloseDoes, FinishDoes DEF Step

LEMMA SameOps == ASSUME UNCHANGED ops PROVE \A s : SameRecords(s)
  BY DEF SameRecords

(* The program does what it did.                                             *)
LEMMA DecideKnows ==
    ASSUME Core, ~diverged, NEW s \in Scope, Decide(s), NEW c, Chain(s, c), Along(s, c)
    PROVE  Chain(s, c)' /\ Along(s, c)' /\ ~diverged'
  <1>0. PICK n, h : n = frame[s].ord /\ h = frame[s].hist
    OBVIOUS
  <1> DEFINE f == frame[s]
             key == <<s, h>>
  <1>1. f.pc = "program" /\ UNCHANGED <<ops, diverged>> /\ n \in Nat
    BY <1>0, DecideDoes, FieldsOf
  <1>2. Chain(s, c)'
    BY <1>1, SameOps, StepGrows, ChainStays DEF Step
  <1>3. PICK d : /\ key \in DOMAIN script => d = script[key]
                 /\ script' = [k \in DOMAIN script \cup {key} |-> IF k = key THEN d ELSE script[k]]
                 /\ \/ d.do = "return" /\ Goes(s, F("ending", n, h, f.call, Result("done")))
                    \/ d.do = "raise" /\ Goes(s, F("ending", n, h, f.call, Error("raised")))
                    \/ d.do = "call" /\ Goes(s, F("entered", n, h, d.call, f.out))
    BY <1>0, DecideDoes
  <1>4. /\ \A m \in Nat : m < n => Finished(s, m)
        /\ c[n] = [hist |-> h, again |-> FALSE, call |-> None]
    BY <1>0, <1>1 DEF Along
  <1>5. ASSUME d.do # "call", NEW m \in Nat, <<s, m>> \in DOMAIN ops, n <= m
        PROVE  FALSE
    <2>1. <<s, n>> \in DOMAIN ops
      <3>1. CASE m = n
        BY <1>5, <3>1
      <3>2. CASE n < m
        BY <1>1, <1>5, <3>2 DEF Chain, Finished
      <3> QED BY <1>1, <1>5, <3>1, <3>2
    <2>2. Known(s, c[n])
      BY <1>1, <2>1 DEF Chain
    <2>3. key \in DOMAIN script /\ script[key].do = "call"
      BY <1>4, <2>2 DEF Known
    <2> QED BY <1>3, <1>5, <2>3
  <1>6. CASE d.do # "call"
    <2>1. frame'[s].pc = "ending" /\ frame'[s].ord = n
      BY <1>3, <1>6 DEF Goes, F
    <2>2. \A m \in Nat : <<s, m>> \in DOMAIN ops' => m < n
      BY <1>1, <1>5, <1>6
    <2>3. Along(s, c)'
      BY <2>1, <2>2 DEF Along, Working
    <2> QED BY <1>1, <1>2, <2>3
  <1>7. CASE d.do = "call"
    <2>1. /\ frame'[s].pc = "entered" /\ frame'[s].ord = n /\ frame'[s].hist = h
          /\ frame'[s].call = d.call
      BY <1>3, <1>7 DEF Goes, F
    <2>2. key \in DOMAIN script' /\ script'[key] = d
      BY <1>3
    <2>3. \A m \in Nat : m < n => Finished(s, m)'
      BY <1>1, <1>4 DEF Finished
    <2>4. c[n].again = FALSE /\ c[n].hist = h
      BY <1>4
    <2>5. Known(s, c[n])' /\ Called(s, c[n])' = d.call
      BY <1>7, <2>2, <2>4 DEF Known, Called
    <2>6. Along(s, c)'
      BY <2>1, <2>3, <2>4, <2>5 DEF Along, Working
    <2> QED BY <1>1, <1>2, <2>6
  <1> QED BY <1>6, <1>7

LEMMA AgainKnows ==
    ASSUME Core, ~diverged, NEW s \in Scope, Again(s), NEW c, Chain(s, c), Along(s, c)
    PROVE  Chain(s, c)' /\ Along(s, c)' /\ ~diverged'
  <1> DEFINE f == frame[s]
  <1>0. PICK n, h, a : n = f.ord /\ h = f.hist /\ a = [f.call EXCEPT !.attempt = @ + 1]
    OBVIOUS
  <1>1. /\ f.pc = "again" /\ UNCHANGED <<ops, script, diverged>>
        /\ Goes(s, F("entered", n, h, a, f.out))
    BY <1>0, AgainDoes
  <1>2. Chain(s, c)'
    BY <1>1, SameOps, StepGrows, ChainStays DEF Step
  <1>3. /\ \A m \in Nat : m < n => Finished(s, m)
        /\ c[n] = [hist |-> h, again |-> TRUE, call |-> f.call]
    BY <1>0, <1>1 DEF Along
  <1>4. c[n].hist = h /\ c[n].again = TRUE /\ a = [c[n].call EXCEPT !.attempt = @ + 1]
    BY <1>0, <1>3
  <1>5. Along(s, c)'
    <2>1. /\ frame'[s].pc = "entered" /\ frame'[s].ord = n /\ frame'[s].hist = h
          /\ frame'[s].call = a
      BY <1>1 DEF Goes, F
    <2>2. \A m \in Nat : m < n => Finished(s, m)'
      BY <1>1, <1>3 DEF Finished
    <2>3. Known(s, c[n])' /\ a = Called(s, c[n])'
      BY <1>4 DEF Known, Called
    <2> QED BY <1>4, <2>1, <2>2, <2>3 DEF Along, Working
  <1> QED BY <1>1, <1>2, <1>5

(* A scope that is about to call an operation: the record that is due there, *)
(* if there is one, is of that call.                                         *)
LEMMA DueIsKnown ==
    ASSUME Core, NEW s \in Scope, NEW c, Chain(s, c), Along(s, c), frame[s].pc = "entered"
    PROVE  LET f == frame[s]
               p == <<s, f.ord>> IN
           /\ f.ord \in Nat /\ f.ord + 1 \in Nat
           /\ \A m \in Nat : m < f.ord => Finished(s, m)
           /\ c[f.ord].hist = f.hist /\ Known(s, c[f.ord]) /\ f.call = Called(s, c[f.ord])
           /\ p \in DOMAIN ops => ops[p].call = f.call
           /\ p \in DOMAIN ops /\ ops[p].status \in Done => c[f.ord + 1] = After(c[f.ord], ops[p])
  <1> DEFINE f == frame[s]
  <1>1. f.ord \in Nat /\ f.ord + 1 \in Nat
    BY FieldsOf
  <1>2. /\ \A m \in Nat : m < f.ord => Finished(s, m)
        /\ c[f.ord].hist = f.hist /\ Known(s, c[f.ord]) /\ f.call = Called(s, c[f.ord])
    BY DEF Along
  <1>3. <<s, f.ord>> \in DOMAIN ops =>
          /\ ops[<<s, f.ord>>].call = Called(s, c[f.ord])
          /\ Finished(s, f.ord) => c[f.ord + 1] = After(c[f.ord], ops[<<s, f.ord>>])
    BY <1>1 DEF Chain
  <1> QED BY <1>1, <1>2, <1>3 DEF Finished

LEMMA BeginKnows ==
    ASSUME Core, ~diverged, NEW s \in Scope, Begin(s), NEW c, Chain(s, c), Along(s, c)
    PROVE  ~diverged' /\ \E d : Chain(s, d)' /\ Along(s, d)'
  <1> DEFINE f == frame[s]
             p == <<s, f.ord>>
             r == Op(f.call, "started", None, FALSE)
  <1>1. f.pc = "entered" /\ p \notin DOMAIN ops /\ ~diverged'
    BY BeginDoes
  <1>2. /\ f.ord \in Nat /\ f.ord + 1 \in Nat
        /\ \A m \in Nat : m < f.ord => Finished(s, m)
        /\ c[f.ord].hist = f.hist /\ Known(s, c[f.ord]) /\ f.call = Called(s, c[f.ord])
    BY <1>1, DueIsKnown
  <1>3. CASE /\ Goes(s, F("ending", f.ord + 1, f.hist, f.call, Suspended("budget")))
             /\ UNCHANGED ops
    <2>1. Chain(s, c)'
      BY <1>3, SameOps, StepGrows, ChainStays DEF Step
    <2>2. frame'[s].pc = "ending" /\ frame'[s].out.t = "budget"
      BY <1>3, Outcomes DEF Goes, F
    <2>3. Along(s, c)'
      BY <2>2, AlongEnds DEF Final
    <2> QED BY <1>1, <2>1, <2>3
  <1>4. CASE /\ Goes(s, F("execute", f.ord + 1, f.hist, f.call, f.out)) /\ Writes(p, r)
    <2> DEFINE n == f.ord
    <2>1. r.call = Called(s, c[n]) /\ r.call = f.call
      BY <1>2 DEF Op
    <2>2. ~Finished(s, n) /\ Grows
      BY <1>1, StepGrows DEF Finished, Step
    <2>3. frame'[s] = F("execute", n + 1, f.hist, f.call, f.out)
      BY <1>4 DEF Goes
    <2> HIDE DEF r
    <2>4. n \in Nat /\ Writes(<<s, n>>, r) /\ Known(s, c[n]) /\ c[n].hist = f.hist
          /\ \A m \in Nat : m < n => Finished(s, m)
      BY <1>2, <1>4
    <2>5. /\ frame'[s].pc = "execute" /\ frame'[s].ord = n + 1 /\ frame'[s].hist = f.hist
          /\ frame'[s].call = f.call
      BY <2>3 DEF F
    <2> HIDE DEF n
    <2>6. PICK d : Extends(d, c, n, r) /\ Chain(s, d)'
      BY <2>1, <2>2, <2>4, ChainWrites
    <2>7. d[n].hist = f.hist /\ frame'[s].ord - 1 = n /\ ops'[<<s, n>>].call = f.call
      BY <2>1, <2>4, <2>5, <2>6 DEF Extends, Writes
    <2>8. Along(s, d)'
      BY <2>5, <2>7, AlongWork DEF Working
    <2> QED BY <1>1, <2>6, <2>8
  <1> QED BY <1>3, <1>4, BeginDoes

LEMMA DivergeKnows ==
    ASSUME Core, NEW s \in Scope, Diverge(s), NEW c, Chain(s, c), Along(s, c)
    PROVE  FALSE
  <1> DEFINE p == <<s, frame[s].ord>>
  <1>1. /\ frame[s].pc = "entered" /\ p \in DOMAIN ops
        /\ Fingerprint(ops[p].call) # Fingerprint(frame[s].call)
    BY DivergeDoes
  <1>2. ops[p].call = frame[s].call
    BY <1>1, DueIsKnown
  <1> QED BY <1>1, <1>2

LEMMA ReuseKnows ==
    ASSUME Core, ~diverged, NEW s \in Scope, Reuse(s), NEW c, Chain(s, c), Along(s, c)
    PROVE  Chain(s, c)' /\ Along(s, c)' /\ ~diverged'
  <1> DEFINE f == frame[s]
  <1>0. PICK k, n, r : k = f.ord /\ n = f.ord + 1 /\ r = ops[<<s, f.ord>>]
    OBVIOUS
  <1>1. /\ f.pc = "entered" /\ <<s, k>> \in DOMAIN ops /\ r.status \in Done
        /\ Goes(s, Handed(f, n, Restored(r.out))) /\ UNCHANGED <<ops, diverged>>
    BY <1>0, ReuseDoes
  <1>2. Chain(s, c)'
    BY <1>1, SameOps, StepGrows, ChainStays DEF Step
  <1>3. /\ k \in Nat /\ n \in Nat /\ n = k + 1
        /\ \A m \in Nat : m < k => Finished(s, m)
        /\ c[k].hist = f.hist /\ r.call = f.call /\ c[n] = After(c[k], r)
    BY <1>0, <1>1, DueIsKnown
  <1>4. \A m \in Nat : m < n => Finished(s, m)'
    <2>1. Finished(s, k)'
      BY <1>0, <1>1 DEF Finished
    <2>2. \A m \in Nat : m < k => Finished(s, m)'
      BY <1>1, <1>3 DEF Finished
    <2>3. \A m \in Nat : m < n => m < k \/ m = k
      BY <1>3
    <2> QED BY <2>1, <2>2, <2>3 DEF Finished
  <1> HIDE DEF f
  <1>5. Along(s, c)'
    BY <1>1, <1>3, <1>4, AlongHanded
  <1> QED BY <1>1, <1>2, <1>5

(* A scope at work: its record is of the call that the program makes.        *)
LEMMA WorkIsKnown ==
    ASSUME Core, NEW s \in Scope, NEW c, Chain(s, c), Along(s, c), frame[s].pc \in Working,
           NEW n, n = frame[s].ord - 1
    PROVE  /\ n \in Nat /\ frame[s].ord = n + 1 /\ <<s, n>> \in DOMAIN ops /\ ~Finished(s, n)
           /\ \A m \in Nat : m < n => Finished(s, m)
           /\ c[n].hist = frame[s].hist /\ Known(s, c[n])
           /\ ops[<<s, n>>].call = Called(s, c[n]) /\ frame[s].call = ops[<<s, n>>].call
  <1>1. /\ n \in Nat /\ frame[s].ord = n + 1 /\ <<s, n>> \in DOMAIN ops
        /\ ops[<<s, n>>].status \notin Done
    BY WorkOf, FieldsOf
  <1>2. c[n].hist = frame[s].hist /\ frame[s].call = ops[<<s, n>>].call
    BY DEF Along
  <1>3. /\ \A m \in Nat : m < n => Finished(s, m)
        /\ Known(s, c[n]) /\ ops[<<s, n>>].call = Called(s, c[n])
    BY <1>1 DEF Chain
  <1> QED BY <1>1, <1>2, <1>3 DEF Finished

LEMMA WorkWrites ==
    ASSUME Core, Grows, NEW s \in Scope, NEW c, Chain(s, c), Along(s, c), frame[s].pc \in Working,
           NEW n, n = frame[s].ord - 1, NEW r, r.call = ops[<<s, n>>].call, Writes(<<s, n>>, r)
    PROVE  \E d : Extends(d, c, n, r) /\ Chain(s, d)'
  BY WorkIsKnown, ChainWrites

(* A scope goes on with its work, or stops without a result.                 *)
Onward(s) ==
    \/ \E pc \in Working : \E o : Goes(s, F(pc, frame[s].ord, frame[s].hist, frame[s].call, o))
    \/ \E h, a, o : /\ o.t \notin Final
                    /\ Goes(s, F("ending", frame[s].ord, h, a, o))

LEMMA OnwardAlong ==
    ASSUME Core, NEW s \in Scope, NEW c, frame[s].pc \in Working, Onward(s), NEW n, n = frame[s].ord - 1,
           c[n].hist = frame[s].hist, ops'[<<s, n>>].call = frame[s].call
    PROVE  Along(s, c)'
  <1>1. CASE \E pc \in Working : \E o : Goes(s, F(pc, frame[s].ord, frame[s].hist, frame[s].call, o))
    <2>1. /\ frame'[s].pc \in Working /\ frame'[s].ord = frame[s].ord
          /\ frame'[s].hist = frame[s].hist /\ frame'[s].call = frame[s].call
      BY <1>1 DEF Goes, F
    <2>2. frame'[s].ord - 1 = n
      BY <2>1
    <2> QED BY <2>1, <2>2, AlongWork
  <1>2. CASE \E h, a, o : o.t \notin Final /\ Goes(s, F("ending", frame[s].ord, h, a, o))
    <2>1. frame'[s].pc = "ending" /\ frame'[s].out.t \notin Final
      BY <1>2 DEF Goes, F
    <2> QED BY <2>1, AlongEnds
  <1> QED BY <1>1, <1>2 DEF Onward

(* The steps of a scope at work that leave its record unfinished.            *)
LEMMA WorkKnows ==
    ASSUME Core, ~diverged, NEW s \in Scope,
           Perform(s) \/ Lose(s) \/ UseAnswer(s) \/ TakeAnswer(s) \/ Ask(s),
           NEW c, Chain(s, c), Along(s, c)
    PROVE  ~diverged' /\ \E d : Chain(s, d)' /\ Along(s, d)'
  <1> DEFINE f == frame[s]
  <1>0. PICK n, p : n = f.ord - 1 /\ p = <<s, n>>
    OBVIOUS
  <1>1. /\ f.pc \in Working /\ UNCHANGED diverged /\ Grows
    <2>1. Step(s)
      BY DEF Step
    <2> QED BY <2>1, StepGrows, PerformDoes, LoseDoes, UseAnswerDoes, TakeAnswerDoes, AskDoes DEF Working
  <1>2. Onward(s)
    <2>1. \A v : Suspended("interrupt").t \notin Final /\ Suspended("uncertain").t \notin Final
                 /\ Asking(v).t \notin Final
      BY Outcomes DEF Final
    <2>2. CASE Perform(s)
      BY <2>1, <2>2, PerformDoes DEF Onward, Working
    <2>3. CASE Lose(s)
      BY <2>1, <2>3, LoseDoes DEF Onward
    <2>4. CASE UseAnswer(s)
      BY <2>4, UseAnswerDoes DEF Onward, Working
    <2>5. CASE TakeAnswer(s)
      BY <2>1, <2>5, TakeAnswerDoes DEF Onward, Working
    <2>6. CASE Ask(s)
      BY <2>1, <2>6, AskDoes DEF Onward
    <2> QED BY <2>2, <2>3, <2>4, <2>5, <2>6
  <1>3. /\ n \in Nat /\ p \in DOMAIN ops /\ c[n].hist = f.hist /\ f.call = ops[p].call
    BY <1>0, <1>1, WorkIsKnown
  <1>4. UNCHANGED ops \/ \E r : Writes(p, r) /\ r.call = ops[p].call
    <2>1. \A st, o, a : Op(ops[p].call, st, o, a).call = ops[p].call
      BY DEF Op
    <2>2. CASE Perform(s) \/ Lose(s) \/ UseAnswer(s)
      BY <2>2, PerformDoes, LoseDoes, UseAnswerDoes
    <2>3. CASE TakeAnswer(s)
      BY <1>0, <2>1, <2>3, TakeAnswerDoes
    <2>4. CASE Ask(s)
      BY <1>0, <2>1, <2>4, AskDoes
    <2> QED BY <2>2, <2>3, <2>4
  <1>5. CASE UNCHANGED ops
    <2>1. Chain(s, c)'
      BY <1>1, <1>5, SameOps, ChainStays
    <2>2. Along(s, c)'
      BY <1>0, <1>1, <1>2, <1>3, <1>5, OnwardAlong
    <2> QED BY <1>1, <2>1, <2>2
  <1>6. CASE \E r : Writes(p, r) /\ r.call = ops[p].call
    <2>1. PICK r : Writes(p, r) /\ r.call = ops[p].call
      BY <1>6
    <2>2. PICK d : Extends(d, c, n, r) /\ Chain(s, d)'
      BY <1>0, <1>1, <2>1, WorkWrites
    <2>3. d[n].hist = f.hist /\ ops'[p].call = f.call
      BY <1>3, <2>1, <2>2 DEF Extends, Writes
    <2>4. Along(s, d)'
      BY <1>0, <1>1, <1>2, <2>3, OnwardAlong
    <2> QED BY <1>1, <2>2, <2>4
  <1> QED BY <1>4, <1>5, <1>6

LEMMA RepeatKnows ==
    ASSUME Core, ~diverged, NEW s \in Scope, Repeat(s), NEW c, Chain(s, c), Along(s, c)
    PROVE  ~diverged' /\ \E d : Chain(s, d)' /\ Along(s, d)'
  <1> DEFINE f == frame[s]
  <1>0. PICK n, p : n = f.ord /\ p = <<s, n>>
    OBVIOUS
  <1>1. /\ f.pc = "entered" /\ p \in DOMAIN ops /\ ops[p].status \notin Done /\ ~diverged'
        /\ \/ /\ Writes(p, Op(ops[p].call, ops[p].status, ops[p].out, FALSE))
              /\ Goes(s, F("execute", n + 1, f.hist, f.call, f.out))
           \/ /\ Goes(s, F("ending", n + 1, f.hist, f.call, Suspended("uncertain")))
              /\ UNCHANGED ops
    BY <1>0, RepeatDoes
  <1>2. /\ n \in Nat /\ n + 1 \in Nat
        /\ \A m \in Nat : m < n => Finished(s, m)
        /\ c[n].hist = f.hist /\ Known(s, c[n]) /\ f.call = Called(s, c[n]) /\ ops[p].call = f.call
    BY <1>0, <1>1, DueIsKnown
  <1>3. CASE /\ Goes(s, F("ending", n + 1, f.hist, f.call, Suspended("uncertain")))
             /\ UNCHANGED ops
    <2>1. Chain(s, c)'
      BY <1>3, SameOps, StepGrows, ChainStays DEF Step
    <2>2. frame'[s].pc = "ending" /\ frame'[s].out.t = "uncertain"
      BY <1>3, Outcomes DEF Goes, F
    <2>3. Along(s, c)'
      BY <2>2, AlongEnds DEF Final
    <2> QED BY <1>1, <2>1, <2>3
  <1>4. CASE /\ Goes(s, F("execute", n + 1, f.hist, f.call, f.out))
             /\ Writes(p, Op(ops[p].call, ops[p].status, ops[p].out, FALSE))
    <2>1. PICK r : r = Op(ops[p].call, ops[p].status, ops[p].out, FALSE)
      OBVIOUS
    <2>2. r.call = f.call
      BY <1>2, <2>1 DEF Op
    <2>3. ~Finished(s, n) /\ Grows /\ Writes(<<s, n>>, r) /\ r.call = Called(s, c[n])
      BY <1>0, <1>1, <1>2, <1>4, <2>1, <2>2, StepGrows DEF Finished, Step
    <2>4. PICK d : Extends(d, c, n, r) /\ Chain(s, d)'
      BY <1>2, <2>3, ChainWrites
    <2>5. /\ frame'[s].pc = "execute" /\ frame'[s].ord = n + 1 /\ frame'[s].hist = f.hist
          /\ frame'[s].call = f.call
      BY <1>4 DEF Goes, F
    <2>6. frame'[s].ord - 1 = n /\ d[n].hist = f.hist /\ ops'[<<s, n>>].call = f.call
      BY <1>2, <2>2, <2>3, <2>4, <2>5 DEF Extends, Writes
    <2>7. Along(s, d)'
      BY <2>5, <2>6, AlongWork DEF Working
    <2> QED BY <1>1, <2>4, <2>7
  <1> QED BY <1>1, <1>3, <1>4

(* The result is recorded, and the program goes on with what was recorded.   *)
LEMMA CommitKnows ==
    ASSUME InOrder, Core, ~diverged, NEW s \in Scope, Commit(s), NEW c, Chain(s, c), Along(s, c)
    PROVE  ~diverged' /\ \E d : Chain(s, d)' /\ Along(s, d)'
  <1> DEFINE f == frame[s]
             st == IF f.out.t = "value" THEN "completed" ELSE "failed"
  <1>0. PICK n, k, r : /\ n = f.ord /\ k = f.ord - 1
                       /\ r = Op(ops[<<s, k>>].call, st, Record(f.out), ops[<<s, k>>].auth)
    OBVIOUS
  <1>1. /\ f.pc = "commit" /\ f.pc \in Working /\ Writes(<<s, k>>, r) /\ ~diverged'
        /\ Goes(s, Handed(f, n, Restored(f.out)))
    BY <1>0, CommitDoes DEF Raised, Working
  <1>2. /\ k \in Nat /\ n = k + 1 /\ \A m \in Nat : m < k => Finished(s, m)
        /\ c[k].hist = f.hist /\ ops[<<s, k>>].call = f.call
    BY <1>0, <1>1, WorkIsKnown
  <1>3. r.call = f.call /\ r.call = ops[<<s, k>>].call /\ r.status \in Done /\ r.out = f.out
    <2>1. Record(f.out) = f.out
      BY <1>1, WorkOf, RecordsInOrder
    <2> QED BY <1>0, <1>2, <2>1 DEF Op, Done
  <1>4. Grows
    BY StepGrows DEF Step
  <1>5. PICK d : Extends(d, c, k, r) /\ Chain(s, d)'
    BY <1>0, <1>1, <1>3, <1>4, WorkWrites
  <1>6. d[k].hist = f.hist /\ d[n] = After(d[k], r)
    <2>1. d[k] = c[k] /\ d[n] = After(c[k], r)
      BY <1>2, <1>5 DEF Extends
    <2> QED BY <1>2, <2>1
  <1>7. \A m \in Nat : m < n => Finished(s, m)'
    <2>1. <<s, k>> \in DOMAIN ops' /\ ops'[<<s, k>>].status \in Done
      BY <1>1, <1>3 DEF Writes
    <2>2. \A m \in Nat : m < k => Finished(s, m)'
      BY <1>1, <1>2 DEF Finished, Writes
    <2>3. \A m \in Nat : m < n => m < k \/ m = k
      BY <1>2
    <2> QED BY <2>1, <2>2, <2>3 DEF Finished
  <1>8. n \in Nat /\ Goes(s, Handed(f, n, Restored(r.out)))
    BY <1>1, <1>2, <1>3
  <1> HIDE DEF f
  <1>9. k \in Nat /\ n = k + 1 /\ r.call = f.call
    BY <1>2, <1>3
  <1>10. Along(s, d)'
    BY <1>6, <1>7, <1>8, <1>9, AlongHanded, SMTT(20)
  <1> QED BY <1>1, <1>5, <1>10

(* A group.                                                                  *)
LEMMA FreshAlong ==
    ASSUME NEW s \in Scope, NEW c, Chain(s, c), frame'[s] = Fresh
    PROVE  Along(s, c)'
  <1>1. frame'[s].pc = "program" /\ frame'[s].ord = 0 /\ frame'[s].hist = <<>>
    BY Starts
  <1>2. c[0] = [hist |-> <<>>, again |-> FALSE, call |-> None]
    BY DEF Chain
  <1>3. \A m \in Nat : ~(m < 0)
    OBVIOUS
  <1> QED BY <1>1, <1>2, <1>3 DEF Along, Working

LEMMA OpenKnows ==
    ASSUME Core, ~diverged, NEW s \in Scope, Open(s), NEW c, Chain(s, c), Along(s, c)
    PROVE  Chain(s, c)' /\ Along(s, c)' /\ ~diverged'
  <1>0. PICK n : n = frame[s].ord - 1
    OBVIOUS
  <1>1. /\ frame[s].pc \in Working /\ UNCHANGED <<ops, diverged>> /\ Grows
        /\ frame'[s] = F("group", frame[s].ord, frame[s].hist, frame[s].call, frame[s].out)
    BY OpenDoes, StepGrows DEF Working, Step
  <1>2. Chain(s, c)'
    BY <1>1, SameOps, ChainStays
  <1>3. c[n].hist = frame[s].hist /\ frame[s].call = ops[<<s, n>>].call
    BY <1>0, <1>1, WorkIsKnown
  <1>4. /\ frame'[s].pc = "group" /\ frame'[s].ord - 1 = n /\ frame'[s].hist = frame[s].hist
        /\ frame'[s].call = frame[s].call
    BY <1>0, <1>1 DEF F
  <1>5. Along(s, c)'
    BY <1>1, <1>3, <1>4, AlongWork DEF Working
  <1> QED BY <1>1, <1>2, <1>5

LEMMA CloseKnows ==
    ASSUME Core, DInv, ~diverged, NEW s \in Scope, Close(s), NEW c, Chain(s, c), Along(s, c)
    PROVE  Chain(s, c)' /\ Along(s, c)' /\ ~diverged'
  <1> DEFINE f == frame[s]
  <1>0. PICK n : n = f.ord - 1
    OBVIOUS
  <1>1. /\ f.pc \in Working /\ UNCHANGED <<ops, diverged>> /\ Grows
        /\ Members(s) \subseteq Sub /\ \A m \in Members(s) : frame[m].pc = "done"
    BY CloseDoes, StepGrows DEF Working, Step
  <1>2. Chain(s, c)'
    BY <1>1, SameOps, ChainStays
  <1>3. c[n].hist = f.hist /\ f.call = ops[<<s, n>>].call
    BY <1>0, <1>1, WorkIsKnown
  <1>4. PICK o : /\ Reported(s, o)
                 /\ \/ o.t \in Final /\ Goes(s, F("commit", f.ord, f.hist, f.call, o))
                    \/ o.t \notin Final /\ Goes(s, F("ending", f.ord, f.hist, f.call, o))
                    \/ o = Mismatch
    BY CloseDoes
  <1>5. o # Mismatch
    <2>1. \A m \in Members(s) : frame[m].out.t # "mismatch"
      BY <1>1, Scopes DEF DInv, Stops
    <2>2. Mismatch.t = "mismatch"
      BY Outcomes
    <2>3. \/ \E m \in Members(s) : o = frame[m].out
          \/ IsSuspension(o) \/ IsError(o) \/ o.t = "value"
      BY <1>4 DEF Reported
    <2>4. o.t # "mismatch"
      BY <2>1, <2>3 DEF IsSuspension, IsError
    <2> QED BY <2>2, <2>4
  <1>6. Onward(s)
    BY <1>4, <1>5 DEF Onward, Working
  <1>7. Along(s, c)'
    BY <1>0, <1>1, <1>3, <1>6, OnwardAlong
  <1> QED BY <1>1, <1>2, <1>7

(* The end of a body leaves no record behind.                                *)
LEMMA FinishKnows ==
    ASSUME Core, ~diverged, NEW s \in Scope, Finish(s), NEW c, Chain(s, c), Along(s, c)
    PROVE  Chain(s, c)' /\ Along(s, c)' /\ ~diverged'
  <1> DEFINE f == frame[s]
             rest == \E p \in DOMAIN ops : p[1] = s /\ p[2] >= f.ord
  <1>1. f.pc = "ending" /\ UNCHANGED ops /\ frame'[s].pc = "done" /\ Grows
    <2>1. PICK o : Goes(s, F("done", f.ord, f.hist, f.call, o))
      BY FinishDoes
    <2>2. frame'[s].pc = "done"
      BY <2>1 DEF Goes, F
    <2> QED BY <2>2, FinishDoes, StepGrows DEF Step
  <1>2. f.out.t \in Final => ~rest
    <2> SUFFICES ASSUME f.out.t \in Final, NEW p \in DOMAIN ops, p[1] = s, p[2] >= f.ord
                 PROVE  FALSE
      OBVIOUS
    <2>1. p = <<s, p[2]>> /\ p[2] \in Nat /\ f.ord \in Nat
      BY Pairs, Frames, FieldsOf
    <2>2. p[2] < f.ord
      BY <1>1, <2>1 DEF Along
    <2> QED BY <2>1, <2>2
  <1>3. ~diverged'
    BY <1>2, FinishDoes
  <1>4. Chain(s, c)'
    BY <1>1, SameOps, ChainStays
  <1>5. Along(s, c)'
    BY <1>1, AlongEnds
  <1> QED BY <1>3, <1>4, <1>5

LEMMA StepKnows ==
    ASSUME InOrder, Core, DInv, ~diverged, NEW s \in Scope, Step(s), NEW c, Chain(s, c), Along(s, c)
    PROVE  ~diverged' /\ \E d : Chain(s, d)' /\ Along(s, d)'
  <1>1. CASE Decide(s) \/ Again(s) \/ Reuse(s) \/ Open(s) \/ Close(s) \/ Finish(s)
    BY <1>1, DecideKnows, AgainKnows, ReuseKnows, OpenKnows, CloseKnows, FinishKnows
  <1>2. CASE Begin(s) \/ Repeat(s) \/ Commit(s)
    BY <1>2, BeginKnows, RepeatKnows, CommitKnows
  <1>3. CASE Perform(s) \/ Lose(s) \/ UseAnswer(s) \/ TakeAnswer(s) \/ Ask(s)
    BY <1>3, WorkKnows
  <1>4. ~Diverge(s)
    BY DivergeKnows
  <1> QED BY <1>1, <1>2, <1>3, <1>4 DEF Step

LEMMA AlongStays ==
    ASSUME Core, Grows, NEW u \in Scope, SameRecords(u), frame'[u] = frame[u], NEW c, Along(u, c)
    PROVE  Along(u, c)'
  <1>0. PICK f, n : f = frame[u] /\ n = f.ord
    OBVIOUS
  <1>1. f = frame[u] /\ frame'[u] = f /\ n = f.ord /\ n \in Nat
    BY <1>0, FieldsOf
  <1>2. CASE f.pc \in {"program", "again", "entered"}
    <2>1. \A m \in Nat : m < n => Finished(u, m)'
      <3>1. \A m \in Nat : m < n => Finished(u, m)
        BY <1>1, <1>2 DEF Along
      <3> QED BY <3>1 DEF Finished, SameRecords
    <2>2. CASE f.pc = "program"
      BY <1>1, <2>1, <2>2 DEF Along, Working
    <2>3. CASE f.pc = "again"
      BY <1>1, <2>1, <2>3 DEF Along, Working
    <2>4. CASE f.pc = "entered"
      <3>1. c[n].hist = f.hist /\ Known(u, c[n]) /\ f.call = Called(u, c[n])
        BY <1>1, <2>4 DEF Along
      <3>2. Known(u, c[n])' /\ Called(u, c[n])' = Called(u, c[n])
        BY <3>1, KnownStays
      <3> QED BY <1>1, <2>1, <2>4, <3>1, <3>2 DEF Along, Working
    <2> QED BY <1>2, <2>2, <2>3, <2>4
  <1>3. CASE f.pc \in Working
    <2>1. n - 1 \in Nat /\ <<u, n - 1>> \in DOMAIN ops
      BY <1>1, <1>3, WorkOf, FieldsOf
    <2>2. ops'[<<u, n - 1>>] = ops[<<u, n - 1>>]
      BY <2>1 DEF SameRecords
    <2>3. c[n - 1].hist = f.hist /\ f.call = ops[<<u, n - 1>>].call
      BY <1>1, <1>3 DEF Along
    <2> QED BY <1>1, <1>3, <2>2, <2>3, AlongWork
  <1>4. CASE f.pc = "ending"
    <2>1. f.out.t \in Final => \A m \in Nat : <<u, m>> \in DOMAIN ops' => m < n
      BY <1>1, <1>4 DEF Along, SameRecords
    <2> QED BY <1>1, <1>4, <2>1 DEF Along, Working
  <1>5. CASE f.pc \notin {"program", "again", "entered", "ending"} \cup Working
    BY <1>1, <1>5 DEF Along
  <1> QED BY <1>2, <1>3, <1>4, <1>5

LEMMA ScopesKnow ==
    ASSUME InOrder, Core, DInv, ~diverged, NEW s \in Scope, Step(s),
           \A u \in Scope : \E c : Chain(u, c) /\ Along(u, c)
    PROVE  ~diverged' /\ \A u \in Scope : \E d : Chain(u, d)' /\ Along(u, d)'
  <1>1. ~diverged' /\ \E d : Chain(s, d)' /\ Along(s, d)'
    BY StepKnows
  <1>2. Grows /\ Elsewhere(s)
    BY StepGrows, Acts
  <1>3. ASSUME NEW u \in Scope, u # s
        PROVE  \E d : Chain(u, d)' /\ Along(u, d)'
    <2>1. PICK c : Chain(u, c) /\ Along(u, c)
      OBVIOUS
    <2>2. SameRecords(u)
      BY <1>2, <1>3, Pairs DEF Elsewhere, SameRecords
    <2>3. Chain(u, c)'
      BY <1>2, <2>1, <2>2, ChainStays
    <2>4. CASE Open(s) /\ u \in Members(s)
      BY <2>1, <2>3, <2>4, OpenDoes, FreshAlong
    <2>5. CASE ~(Open(s) /\ u \in Members(s))
      <3>1. frame'[u] = frame[u]
        BY <1>3, <2>5, OpenDoes, Acts DEF Goes
      <3> QED BY <1>2, <2>1, <2>2, <2>3, <3>1, AlongStays
    <2> QED BY <2>4, <2>5
  <1> QED BY <1>1, <1>3

(* The operator's choice about an activity.                                  *)
LEMMA SettleKnows ==
    ASSUME Core, Settle, NEW u \in Scope, NEW c, Chain(u, c)
    PROVE  \E d : Chain(u, d)' /\ Along(u, d)'
  <1>0. PICK w : w = selected.op
    OBVIOUS
  <1>1. /\ w \in DOMAIN ops /\ ops[w].status \notin Done /\ ~live /\ UNCHANGED <<frame, script>>
        /\ \E r : Writes(w, r) /\ r.call = ops[w].call
    <2>1. \A st, o, a : Op(ops[w].call, st, o, a).call = ops[w].call
      BY DEF Op
    <2>2. /\ w \in DOMAIN ops /\ ops[w].status \notin Done /\ ~live /\ UNCHANGED <<frame, script>>
      BY <1>0, SettleDoes DEF Done
    <2>3. \E st, o, a : Writes(w, Op(ops[w].call, st, o, a))
      BY <1>0, SettleDoes
    <2> QED BY <2>1, <2>2, <2>3
  <1>2. PICK r : Writes(w, r) /\ r.call = ops[w].call
    BY <1>1
  <1>3. Grows /\ \A d : Along(u, d)'
    <2>1. frame'[u].pc = "idle"
      BY <1>1 DEF Core, Control
    <2> QED BY <1>1, <2>1, AlongEnds DEF Grows
  <1>4. PICK t, n : w = <<t, n>> /\ t \in Scope /\ n \in Nat
    BY <1>1, Pairs, Frames
  <1>5. CASE t = u
    <2>1. /\ ~Finished(u, n) /\ Writes(<<u, n>>, r)
          /\ \A m \in Nat : m < n => Finished(u, m)
          /\ Known(u, c[n]) /\ r.call = Called(u, c[n])
      BY <1>1, <1>2, <1>4, <1>5 DEF Chain, Finished
    <2> QED BY <1>3, <1>4, <2>1, ChainWrites
  <1>6. CASE t # u
    <2>1. SameRecords(u)
      BY <1>2, <1>4, <1>6, Pairs DEF SameRecords, Writes
    <2> QED BY <1>3, <2>1, ChainStays
  <1> QED BY <1>5, <1>6

LEMMA KnownKeeps ==
    ASSUME InOrder, Core, DInv, KInv, [Next]_vars
    PROVE  KInv'
  <1> SUFFICES ASSUME ~edited'
               PROVE  ~diverged' /\ \A u \in Scope : \E d : Chain(u, d)' /\ Along(u, d)'
    BY DEF KInv
  <1>1. ASSUME ~edited
        PROVE  ~diverged /\ \A u \in Scope : \E c : Chain(u, c) /\ Along(u, c)
    BY <1>1 DEF KInv
  <1>2. ASSUME NEW s \in Scope, Step(s)
        PROVE  ~diverged' /\ \A u \in Scope : \E d : Chain(u, d)' /\ Along(u, d)'
    <2>1. ~edited
      BY <1>2, Acts
    <2> QED BY <1>1, <1>2, <2>1, ScopesKnow
  <1>3. CASE Settle
    <2>1. ~edited /\ UNCHANGED diverged
      BY <1>3, SettleDoes
    <2> QED BY <1>1, <1>3, <2>1, SettleKnows
  <1>4. CASE Run \/ Answer \/ Crash \/ EndRun
    <2>1. ~edited /\ UNCHANGED <<ops, script>> /\ ~diverged'
      <3>1. UNCHANGED <<ops, script, edited>> /\ diverged' = FALSE
        BY <1>4, ExecuteDoes, StopDoes
      <3> QED BY <3>1
    <2>2. ASSUME NEW u \in Scope
          PROVE  frame'[u] = Idle \/ frame'[u] = Fresh
      BY <1>4, ExecuteDoes, StopDoes
    <2>3. ASSUME NEW u \in Scope
          PROVE  \E d : Chain(u, d)' /\ Along(u, d)'
      <3>1. PICK c : Chain(u, c)
        BY <1>1, <2>1
      <3>2. Chain(u, c)'
        BY <2>1, <3>1, SameOps, ChainStays DEF Grows
      <3>3. Along(u, c)'
        BY <2>2, <3>1, Starts, FreshAlong, AlongEnds
      <3> QED BY <3>2, <3>3
    <2> QED BY <2>1, <2>3
  <1>5. ~Edit
    BY EditDoes
  <1>6. CASE UNCHANGED vars \/ \E p \in Position, c \in {"retry", "accept", "fail"} : Select(p, c)
    <2>1. ~edited /\ UNCHANGED <<ops, script, frame, diverged>>
      BY <1>6, SelectDoes DEF vars, ledger, history
    <2>2. ASSUME NEW u \in Scope
          PROVE  \E d : Chain(u, d)' /\ Along(u, d)'
      <3>1. PICK c : Chain(u, c) /\ Along(u, c)
        BY <1>1, <2>1
      <3>2. Grows /\ SameRecords(u)
        BY <2>1, SameOps DEF Grows
      <3> QED BY <2>1, <3>1, <3>2, ChainStays, AlongStays
    <2> QED BY <1>1, <2>1, <2>2
  <1> QED BY <1>2, <1>3, <1>4, <1>5, <1>6 DEF Next

LEMMA InitKnows ==
    ASSUME Init
    PROVE  KInv
  <1>1. ops = <<>> /\ frame = [s \in Scope |-> Idle] /\ diverged = FALSE
    BY DEF Init
  <1>2. ASSUME NEW s \in Scope
        PROVE  \E c : Chain(s, c) /\ Along(s, c)
    <2>1. PICK c : c = [n \in Nat |-> [hist |-> <<>>, again |-> FALSE, call |-> None]]
      OBVIOUS
    <2>2. DOMAIN ops = {} /\ c[0] = [hist |-> <<>>, again |-> FALSE, call |-> None]
      BY <1>1, <2>1
    <2>3. c = [n \in Nat |-> c[n]]
      BY <2>1
    <2>4. Chain(s, c)
      BY <2>2, <2>3 DEF Chain
    <2>5. Along(s, c)
      BY <1>1, Starts DEF Along, Working
    <2> QED BY <2>4, <2>5
  <1> QED BY <1>1, <1>2 DEF KInv

(* As long as the ledger keeps the order of every result, a workflow that     *)
(* nobody edited is never told that it changed.                              *)
THEOREM UneditedRunsNeverDiverge == Spec => [](InOrder => DeterministicNeverDiverges)
  <1>1. Init => Core /\ DInv /\ (InOrder => KInv)
    BY InitCore, InitDivergence, InitKnows
  <1>2. Core /\ DInv /\ (InOrder => KInv) /\ [Next]_vars => (Core /\ DInv /\ (InOrder => KInv))'
    <2>1. ASSUME Core, DInv, [Next]_vars
          PROVE  Core' /\ DInv'
      BY <2>1, CoreKeeps, DivergenceStops
    <2>2. ASSUME Core, DInv, InOrder => KInv, [Next]_vars, InOrder'
          PROVE  KInv'
      <3>1. InOrder
        BY <2>2 DEF InOrder
      <3> QED BY <2>2, <3>1, KnownKeeps
    <2> QED BY <2>1, <2>2
  <1>3. KInv => DeterministicNeverDiverges
    BY DEF KInv, DeterministicNeverDiverges
  <1> QED BY <1>1, <1>2, <1>3, PTL DEF Spec
=============================================================================
