--------------------------- MODULE AppServer_proofs ---------------------------
(***************************************************************************)
(* What AppServer guarantees for any set of operations, with their workers, *)
(* readers and the closing thread in any order: nothing runs behind a close *)
(* that succeeded, an operation has one live server, a stopped call has a   *)
(* teardown on record, and a turn is lost only with its own server.         *)
(***************************************************************************)
EXTENDS AppServerSends, FiniteSetTheorems, TLAPS

Killing == {"kill", "reap", "reapLate", "wake"}
WorkerPc == {"idle", "call", "forget", "start", "launch", "init", "unstart", "ready", "rpc", "join",
             "turn", "stopped", "release", "dispose", "leaving", "close", "closed"} \cup Killing
WorkerRet == {"forget", "launch", "unstart", "join", "stopped", "closed"}
ReaderPc == {"none", "reading", "read", "over"} \cup Killing
CloserPc == {"idle", "next", "close", "closed"} \cup Killing
ServerRecord == [life : {"none", "up", "down"}, tree : BOOLEAN, seen : BOOLEAN,
                 of : {0} \cup Adapter, key : Key \cup {None},
                 result : {"none", "ok", "bad", "unsaved"}]
AdapterRecord == [made : BOOLEAN, cur : {0} \cup Proc, closed : BOOLEAN, complete : BOOLEAN,
                  leaving : {0} \cup Proc, tearing : {0} \cup Proc, lock : Thread \cup {None},
                  given : BOOLEAN]
Pcs   == WorkerPc \cup ReaderPc \cup CloserPc
Rets  == WorkerRet \cup {"none", "read"}
Gots  == {"none", "ok", "fail"}
Turns == {"none", "open", "policy", "done", "error", "lost"}
Ress  == {"none", "ok", "failed", "refused", "timedOut", "stopped", "unverified"}
ThreadRecord == [pc : Pcs, x : {0} \cup Adapter, p : {0} \cup Proc, ret : Rets, nest : BOOLEAN,
                 raised : BOOLEAN, got : Gots, turn : Turns, res : Ress]
TypeOK ==
    /\ srv \in [Proc -> ServerRecord] /\ ad \in [Adapter -> AdapterRecord]
    /\ owner \in [Key -> {0} \cup Adapter] /\ shut \in BOOLEAN /\ olock \in Thread \cup {None}
    /\ th \in [Thread -> ThreadRecord] /\ left \subseteq Key /\ clean \in BOOLEAN
    /\ bound \in Bounds

(* Which thread holds which lock.                                            *)
Holds(t)  == \/ th[t].pc \in {"launch", "init", "unstart", "leaving", "reap", "reapLate", "wake"}
             \/ th[t].pc = "kill" /\ th[t].nest
Owning(t) == IF t = Closer THEN th[t].pc # "idle"
             ELSE t \in Key /\ (th[t].pc \in {"dispose", "leaving", "close", "closed"} \/ th[t].ret = "closed")
Gone(p)   == p = 0 \/ srv[p].result = "ok"

(* A process, and a server that lives.                                       *)
Process(p) ==
    /\ srv[p].life = "none" => /\ srv[p].of = 0 /\ srv[p].result = "none" /\ th[p].pc = "none"
                               /\ \A q \in Proc : q > p => srv[q].life = "none"
    /\ srv[p].life # "none" => srv[p].of # 0 /\ srv[p].key # None /\ ad[srv[p].of].made
    /\ srv[p].result = "ok" => srv[p].life = "down" /\ ~srv[p].tree
    /\ Up(p) => \/ Bad(p) \/ ad[srv[p].of].given
                \/ ad[srv[p].of].cur = p /\ owner[srv[p].key] = srv[p].of

Adapted(x) ==
    /\ ~ad[x].made => ad[x] = NoAdapter /\ \A y \in Adapter : y > x => ~ad[y].made
    /\ ad[x].cur # 0 => srv[ad[x].cur].life # "none" /\ srv[ad[x].cur].of = x
    /\ ad[x].complete => ad[x].closed /\ ad[x].lock = None /\ Gone(ad[x].cur)
    /\ ad[x].lock # None => LET t == ad[x].lock IN X(t) = x /\ (Holds(t) \/ th[t].pc = "closed")
    /\ ad[x].leaving # 0 => ad[x].closed

(* A thread: its teardown, the locks it holds and what it has been told.     *)
Control(t) ==
    /\ t \in Key    => th[t].pc \in WorkerPc /\ th[t].ret \in WorkerRet \cup {"none"}
    /\ t \in Proc   => th[t].pc \in ReaderPc /\ th[t].ret \in {"read", "none"}
    /\ t = Closer   => th[t].pc \in CloserPc /\ th[t].ret \in {"closed", "none"}
    /\ th[t].pc \in Killing <=> th[t].ret # "none"
    /\ th[t].nest <=> th[t].ret \in {"launch", "unstart", "closed"}
    /\ X(t) # 0 => ad[X(t)].made
Locked(t) ==
    /\ Holds(t) => X(t) # 0 /\ ad[X(t)].lock = t
    /\ th[t].pc = "closed" => ad[X(t)].lock = t \/ (ad[X(t)].complete /\ ~th[t].raised)
    /\ th[t].pc \in {"launch", "init", "unstart"} \/ th[t].ret \in {"launch", "unstart"}
         => ~ad[X(t)].closed
    /\ olock = t <=> Owning(t)
Teardown(t) ==
    /\ th[t].pc \in Killing \cup {"close", "closed", "forget", "launch"} => X(t) # 0
    /\ th[t].ret \in {"forget", "closed", "unstart"} => th[t].p = 0
    /\ th[t].ret = "launch" => th[t].p = Cur(t)
    /\ th[t].pc \in {"reap", "reapLate", "wake"} =>
         Cur(t) # 0 /\ srv[Cur(t)].result # "ok" /\ th[t].p \in {0, Cur(t)}
    /\ th[t].pc = "wake" /\ ~th[t].raised => srv[Cur(t)].life = "down" /\ ~srv[Cur(t)].tree
    /\ th[t].pc \in {"forget", "launch", "closed"} /\ ~th[t].raised => Gone(Cur(t))
    /\ th[t].pc \in {"leaving", "closed"} \/ th[t].ret = "closed" => ad[X(t)].closed

(* A worker and its turn.                                                    *)
Work(k) ==
    /\ X(k) = 0 <=> th[k].pc = "idle"
    /\ X(k) # 0 => owner[k] = X(k) \/ ad[X(k)].complete
    /\ Owning(k) => owner[k] = X(k)
    /\ owner[k] # 0 => ad[owner[k]].made
InTurn(k) == th[k].pc \in {"init", "rpc", "turn", "join", "stopped"} \/ th[k].ret \in {"join", "stopped"}
Turn(k) ==
    /\ InTurn(k) => th[k].p = Cur(k)
    /\ InTurn(k) \/ th[k].pc = "ready" \/ th[k].ret = "unstart" => Cur(k) # 0
    /\ th[k].turn # "none" => th[k].pc \in {"turn", "stopped"} \/ th[k].ret = "stopped"
    /\ th[k].pc = "turn" => th[k].turn # "none"
    /\ th[k].turn = "lost" => srv[th[k].p].result # "none"
    /\ th[k].pc \in {"init", "rpc"} /\ th[k].got = "fail" =>
         LET p == th[k].p IN ~Up(p) \/ srv[p].result # "none" \/ th[p].pc # "reading"
    /\ X(k) # 0 /\ ad[X(k)].leaving # 0 =>
         th[k].pc \in {"call", "release", "dispose", "leaving", "close", "closed"} \/ th[k].ret = "closed"
    /\ th[k].pc \in {"join", "stopped"} /\ ~th[k].raised => srv[th[k].p].result # "none"
    /\ th[k].pc = "release" /\ th[k].res = "stopped" => th[k].p # 0 /\ srv[th[k].p].result # "none"

Reading(p) ==
    th[p].pc \notin {"none", "over"} =>
        /\ srv[p].life # "none" /\ X(p) = srv[p].of /\ th[p].p = p
        /\ th[p].pc = "read" /\ th[p].raised => srv[p].result # "none" \/ ad[X(p)].cur # p

(* One operation for an adapter.                                             *)
Of(x, k) == owner[k] = x \/ X(k) = x \/ \E p \in Proc : srv[p].of = x /\ srv[p].key = k
Single == \A x \in Adapter : \A k, l \in Key : Of(x, k) /\ Of(x, l) => k = l

(* The close of the provider.                                                *)
Closing ==
    /\ th[Closer].pc = "idle" => left = {}
    /\ \A k \in left : owner[k] # 0
    /\ th[Closer].pc \in {"close", "closed"} \cup Killing => \E k \in left : owner[k] = X(Closer)
    /\ shut /\ clean => \A k \in Key : owner[k] # 0 => k \in left

IInv ==
    /\ TypeOK
    /\ \A p \in Proc : Process(p) /\ Reading(p)
    /\ \A x \in Adapter : Adapted(x)
    /\ \A t \in Thread : Control(t) /\ Locked(t) /\ Teardown(t)
    /\ \A k \in Key : Work(k) /\ Turn(k)
    /\ Single /\ Closing
-----------------------------------------------------------------------------
LEMMA Sets ==
    /\ 0 \notin Proc /\ 0 \notin Adapter /\ Proc \subseteq Nat /\ Adapter \subseteq Nat
    /\ MaxServer \in Nat /\ MaxAdapter \in Nat
    /\ Key \subseteq Thread /\ Proc \subseteq Thread /\ Closer \in Thread /\ None \notin Thread
    /\ \A k \in Key : k \notin Proc /\ k # Closer
    /\ Closer \notin Proc
  BY SizeAssumption, ThreadAssumption DEF Proc, Adapter, Thread

LEMMA Fields ==
    ASSUME TypeOK, NEW t \in Thread
    PROVE  /\ th[t] \in ThreadRecord
           /\ th[t].pc \in Pcs /\ th[t].x \in {0} \cup Adapter
           /\ th[t].p \in {0} \cup Proc /\ th[t].ret \in Rets
           /\ th[t].nest \in BOOLEAN /\ th[t].raised \in BOOLEAN /\ th[t].got \in Gots
           /\ th[t].turn \in Turns /\ th[t].res \in Ress
  <1>1. th[t] \in ThreadRecord
    BY DEF TypeOK
  <1> QED BY <1>1 DEF ThreadRecord

(* Waking tells a worker only that its answer or its turn is lost.           *)
LEMMA Waking ==
    ASSUME TypeOK, NEW x, NEW p
    PROVE  /\ Failed(th, x, p) \in [Thread -> ThreadRecord]
           /\ \A u \in Thread : LET r == Failed(th, x, p)[u] IN
                /\ r.pc = th[u].pc /\ r.x = th[u].x /\ r.p = th[u].p /\ r.ret = th[u].ret
                /\ r.nest = th[u].nest /\ r.raised = th[u].raised /\ r.res = th[u].res
                /\ \/ r.turn = th[u].turn
                   \/ r.turn = "lost" /\ th[u].turn = "open" /\ u \in Woken(x, p)
                /\ \/ r.got = th[u].got
                   \/ r.got = "fail" /\ th[u].pc \in {"init", "rpc"} /\ u \in Woken(x, p)
  <1>1. \A u \in Thread :
          Failed(th, x, p)[u] =
            IF u \notin Woken(x, p) THEN th[u]
            ELSE [th[u] EXCEPT
                   !.got  = IF th[u].pc \in {"init", "rpc"} /\ @ = "none" THEN "fail" ELSE @,
                   !.turn = IF @ = "open" THEN "lost" ELSE @]
    BY DEF Failed
  <1>2. ASSUME NEW u \in Thread
        PROVE  LET r == Failed(th, x, p)[u] IN
                /\ r \in ThreadRecord
                /\ r.pc = th[u].pc /\ r.x = th[u].x /\ r.p = th[u].p /\ r.ret = th[u].ret
                /\ r.nest = th[u].nest /\ r.raised = th[u].raised /\ r.res = th[u].res
                /\ \/ r.turn = th[u].turn
                   \/ r.turn = "lost" /\ th[u].turn = "open" /\ u \in Woken(x, p)
                /\ \/ r.got = th[u].got
                   \/ r.got = "fail" /\ th[u].pc \in {"init", "rpc"} /\ u \in Woken(x, p)
    <2> DEFINE g == IF th[u].pc \in {"init", "rpc"} /\ th[u].got = "none" THEN "fail" ELSE th[u].got
               w == IF th[u].turn = "open" THEN "lost" ELSE th[u].turn
    <2>1. th[u] \in ThreadRecord
      BY Fields
    <2>2. /\ g \in Gots /\ (g = th[u].got \/ (g = "fail" /\ th[u].pc \in {"init", "rpc"}))
          /\ w \in Turns
          /\ (w = th[u].turn \/ (w = "lost" /\ th[u].turn = "open"))
      BY Fields DEF Gots, Turns
    <2>3. CASE u \notin Woken(x, p)
      BY <1>1, <2>1, <2>3
    <2>4. CASE u \in Woken(x, p)
      <3> DEFINE r == Failed(th, x, p)[u]
      <3>1. r = [th[u] EXCEPT !.got = g, !.turn = w]
        BY <1>1, <2>4
      <3> HIDE DEF g, w, r
      <3>2. r \in ThreadRecord
        BY <2>1, <2>2, <3>1 DEF ThreadRecord
      <3>3. r.got = g /\ r.turn = w
        BY <2>1, <3>1 DEF ThreadRecord
      <3>4. /\ r.pc = th[u].pc /\ r.x = th[u].x /\ r.p = th[u].p /\ r.ret = th[u].ret
            /\ r.nest = th[u].nest /\ r.raised = th[u].raised /\ r.res = th[u].res
        BY <2>1, <3>1 DEF ThreadRecord
      <3>5. QED
        BY <2>2, <2>4, <3>2, <3>3, <3>4 DEF r
    <2> QED BY <2>3, <2>4
  <1>3. Failed(th, x, p) \in [Thread -> ThreadRecord]
    BY <1>2 DEF Failed
  <1> QED BY <1>2, <1>3

(* What a call of t that comes back leaves.                                  *)
LEMMA Returning ==
    ASSUME NEW f \in [Thread -> ThreadRecord], NEW t \in Thread, NEW bad \in BOOLEAN,
           f[t].ret \in Pcs
    PROVE  /\ Back(f, t, bad) \in [Thread -> ThreadRecord]
           /\ \A u \in Thread \ {t} : Back(f, t, bad)[u] = f[u]
           /\ LET r == Back(f, t, bad)[t] IN
                /\ r.pc = f[t].ret /\ r.raised = bad /\ r.ret = "none" /\ ~r.nest
                /\ r.x = f[t].x /\ r.p = f[t].p /\ r.got = f[t].got /\ r.turn = f[t].turn
                /\ r.res = f[t].res
  <1> DEFINE g == Back(f, t, bad)
  <1>1. g = [f EXCEPT ![t].pc = f[t].ret, ![t].raised = bad, ![t].ret = "none", ![t].nest = FALSE]
    BY DEF Back
  <1> HIDE DEF g
  <1>2. g = [u \in Thread |-> g[u]] /\ \A u \in Thread \ {t} : g[u] = f[u]
    BY <1>1
  <1>3. "none" \in Rets
    BY DEF Rets
  <1>4. g[t] \in ThreadRecord
    <2> DEFINE l == f[t].ret
    <2>1. l \in Pcs /\ f[t] \in ThreadRecord
      OBVIOUS
    <2>2. g[t] = [f[t] EXCEPT !.pc = l, !.raised = bad, !.ret = "none", !.nest = FALSE]
      BY <1>1, <2>1 DEF ThreadRecord
    <2> HIDE DEF l
    <2> QED BY <2>1, <2>2, <1>3 DEF ThreadRecord
  <1>5. LET r == g[t] IN
                /\ r.pc = f[t].ret /\ r.raised = bad /\ r.ret = "none" /\ ~r.nest
                /\ r.x = f[t].x /\ r.p = f[t].p /\ r.got = f[t].got /\ r.turn = f[t].turn
                /\ r.res = f[t].res
    BY <1>1 DEF ThreadRecord
  <1>6. g \in [Thread -> ThreadRecord]
    BY <1>2, <1>4
  <1> QED BY <1>2, <1>5, <1>6 DEF g

(* The steps of one thread.                                                  *)
Moves(t) ==
    \/ KillSteps(t) \/ CloseAdapter(t) \/ Closed(t)
    \/ t \in Key /\ (Worker(t) \/ Obtain(t) \/ Abandon(t))
    \/ t \in Proc /\ (EndOfStream(t) \/ ReaderEnds(t))
    \/ t = Closer /\ (CloseProvider \/ NextOwner)

LEMMA WhoMoves ==
    ASSUME Next
    PROVE  \/ \E t \in Thread : Moves(t)
           \/ \E p \in Proc : Answers(p) \/ Dies(p)
  BY Sets DEF Next, Step, Moves, Worker, Reader, ClosingThread

Same(u) ==
    /\ th'[u].pc = th[u].pc /\ th'[u].x = th[u].x /\ th'[u].p = th[u].p /\ th'[u].ret = th[u].ret
    /\ th'[u].nest = th[u].nest /\ th'[u].raised = th[u].raised /\ th'[u].res = th[u].res
Woke(t, u) ==
    /\ u \in Key /\ X(u) = X(t)
    /\ \/ KillNothing(t) /\ Cur(t) = 0
       \/ Wake(t)
       \/ t \in Proc /\ Cur(t) = t /\ EndOfStream(t) /\ ad[X(t)].leaving = t
       \/ t \in Proc /\ Cur(t) = t /\ ReaderEnds(t) /\ th[t].raised
Told(t, u) ==
    /\ \/ th'[u].turn = th[u].turn
       \/ th'[u].turn = "lost" /\ th[u].turn = "open" /\ Woke(t, u)
    /\ \/ th'[u].got = th[u].got
       \/ th'[u].got = "fail" /\ th[u].pc \in {"init", "rpc"} /\ Woke(t, u)
-----------------------------------------------------------------------------
(* The next number of a set that starts at 1 without gaps.                   *)
LEMMA Count ==
    ASSUME NEW n \in Nat, NEW S \in SUBSET (1..n),
           \A i \in S : \A j \in 1..n : j < i => j \in S,
           NEW p \in 1..n, p = Cardinality(S) + 1
    PROVE  p \notin S /\ \A q \in 1..n : (q < p => q \in S) /\ (q > p => q \notin S)
  <1>1. IsFiniteSet(S) /\ Cardinality(S) \in Nat
    <2>1. IsFiniteSet(1..n)
      BY FS_Interval, 1 \in Int, n \in Int
    <2> QED BY <2>1, FS_Subset, FS_CardinalityType
  <1>2. ASSUME p \in S PROVE FALSE
    <2>1. 1..p \subseteq S
      BY <1>2
    <2>2. Cardinality(1..p) <= Cardinality(S)
      BY <2>1, <1>1, FS_Subset
    <2>3. Cardinality(1..p) = p
      BY FS_Interval
    <2> QED BY <1>1, <2>2, <2>3
  <1>3. ASSUME NEW q \in 1..n, q < p, q \notin S PROVE FALSE
    <2>1. S \subseteq 1..(q-1)
      <3>1. ASSUME NEW i \in S, i >= q PROVE FALSE
        BY <1>3, <3>1
      <3> QED BY <3>1
    <2>2. Cardinality(S) <= Cardinality(1..(q-1))
      <3>1. IsFiniteSet(1..(q-1))
        BY FS_Interval, 1 \in Int, q - 1 \in Int
      <3> QED BY <2>1, <3>1, FS_Subset
    <2>3. Cardinality(1..(q-1)) = q - 1
      BY FS_Interval, 1 \in Int, q - 1 \in Int
    <2> QED BY <1>1, <1>3, <2>2, <2>3
  <1> QED BY <1>2, <1>3

LEMMA FreshServer ==
    ASSUME IInv, NEW p \in Proc, p = Cardinality({q \in Proc : srv[q].life # "none"}) + 1
    PROVE  srv[p].life = "none" /\ \A q \in Proc : q < p => srv[q].life # "none"
  <1> DEFINE S == {q \in Proc : srv[q].life # "none"}
  <1>1. \A i \in S : \A j \in 1..MaxServer : j < i => j \in S
    <2> SUFFICES ASSUME NEW i \in Proc, NEW j \in Proc, j < i, srv[j].life = "none"
                 PROVE  srv[i].life = "none"
      BY DEF Proc
    <2> QED BY DEF IInv, Process
  <1>2. S \in SUBSET (1..MaxServer) /\ p = Cardinality(S) + 1 /\ p \in 1..MaxServer /\ MaxServer \in Nat
    BY Sets DEF Proc
  <1> HIDE DEF S
  <1>3. p \notin S /\ \A q \in 1..MaxServer : q < p => q \in S
    BY <1>1, <1>2, Count
  <1> QED BY <1>3 DEF S, Proc

LEMMA FreshAdapter ==
    ASSUME IInv, NEW p \in Adapter, p = Cardinality({q \in Adapter : ad[q].made}) + 1
    PROVE  ~ad[p].made /\ \A q \in Adapter : (q < p => ad[q].made) /\ (q > p => ~ad[q].made)
  <1> DEFINE S == {q \in Adapter : ad[q].made}
  <1>1. \A i \in S : \A j \in 1..MaxAdapter : j < i => j \in S
    <2> SUFFICES ASSUME NEW i \in Adapter, NEW j \in Adapter, j < i, ~ad[j].made
                 PROVE  ~ad[i].made
      BY DEF Adapter
    <2> QED BY DEF IInv, Adapted
  <1>2. S \in SUBSET (1..MaxAdapter) /\ p = Cardinality(S) + 1 /\ p \in 1..MaxAdapter /\ MaxAdapter \in Nat
    BY Sets DEF Adapter
  <1> HIDE DEF S
  <1>3. p \notin S /\ \A q \in 1..MaxAdapter : (q < p => q \in S) /\ (q > p => q \notin S)
    BY <1>1, <1>2, Count
  <1> QED BY <1>3 DEF S, Adapter

-----------------------------------------------------------------------------
(* What a step of t does to the other threads.                               *)
LEMMA Others ==
    ASSUME IInv, NEW t \in Thread, Moves(t), NEW u \in Thread, u # t
    PROVE  /\ th'[u] \in ThreadRecord
           /\ \/ Same(u) /\ Told(t, u)
              \/ Launch(t) /\ t \in Key /\ u \in Proc /\ srv'[u].life = "up"
                 /\ u = Cardinality({q \in Proc : srv[q].life # "none"}) + 1
                 /\ th'[u] = [Idle("reading") EXCEPT !.x = X(t), !.p = u]
  <1> USE DEF IInv
  <1>t. th \in [Thread -> ThreadRecord]
    BY DEF TypeOK
  <1>1. CASE th'[u] = th[u]
    BY <1>1, <1>t DEF Same, Told
  <1>2. ASSUME NEW x, NEW p, u \in Woken(x, p) => Woke(t, u), th'[u] = Failed(th, x, p)[u]
        PROVE  Same(u) /\ Told(t, u) /\ th'[u] \in ThreadRecord
    BY <1>2, Waking DEF Same, Told
  <1>3. CASE KillNothing(t)
    <2>1. \/ th' = Back(th, t, th[t].raised) \/ \E b : th' = Back(th, t, b)
          \/ Cur(t) = 0 /\ \E b : th' = Back(Failed(th, X(t), 0), t, b)
      BY <1>3 DEF KillNothing, Target
    <2>2. \A f, b : Back(f, t, b)[u] = f[u] \/ u \notin DOMAIN f
      BY DEF Back
    <2>3. CASE \E b : th' = Back(th, t, b)
      BY <2>2, <2>3, <1>1, <1>t
    <2>4. CASE Cur(t) = 0 /\ \E b : th' = Back(Failed(th, X(t), 0), t, b)
      <3>1. th'[u] = Failed(th, X(t), 0)[u]
        BY <2>2, <2>4, Waking
      <3>2. u \in Woken(X(t), 0) => Woke(t, u)
        BY <2>4, <1>3 DEF Woken, Woke, X, Cur
      <3> QED BY <3>1, <3>2, <1>2
    <2> QED BY <2>1, <2>3, <2>4
  <1>4. CASE Wake(t)
    <2>1. \E b : th' = Back(Failed(th, X(t), Cur(t)), t, b)
      BY <1>4 DEF Wake
    <2>2. th'[u] = Failed(th, X(t), Cur(t))[u]
      BY <2>1, Waking DEF Back
    <2>3. u \in Woken(X(t), Cur(t)) => Woke(t, u)
      BY <1>4 DEF Woken, Woke, X, Cur
    <2> QED BY <2>2, <2>3, <1>2
  <1>5. CASE t \in Proc /\ EndOfStream(t)
    <2>1. CASE ad[X(t)].leaving = t
      <3>1. th'[u] = Failed(th, X(t), t)[u]
        BY <1>5, <2>1, Waking DEF EndOfStream
      <3>2. u \in Woken(X(t), t) => Woke(t, u)
        BY <1>5, <2>1, Sets DEF Woken, Woke, X, Cur
      <3> QED BY <3>1, <3>2, <1>2
    <2>2. CASE ad[X(t)].leaving # t
      BY <1>5, <2>2, <1>1, <1>t DEF EndOfStream, WakeAfter
    <2> QED BY <2>1, <2>2
  <1>6. CASE t \in Proc /\ ReaderEnds(t)
    <2>1. CASE th[t].raised
      <3>1. th'[u] = Failed(th, X(t), t)[u]
        BY <1>6, <2>1, Waking DEF ReaderEnds
      <3>2. u \in Woken(X(t), t) => Woke(t, u)
        BY <1>6, <2>1, Sets DEF Woken, Woke, X, Cur
      <3> QED BY <3>1, <3>2, <1>2
    <2>2. CASE ~th[t].raised
      BY <1>6, <2>2, <1>1, <1>t DEF ReaderEnds
    <2> QED BY <2>1, <2>2
  <1>7. CASE t \in Key /\ Launch(t)
    <2>1. CASE End(t, "failed")
      BY <2>1, <1>1, <1>t DEF End
    <2>2. CASE \E p \in Proc :
                /\ p = Cardinality({q \in Proc : srv[q].life # "none"}) + 1
                /\ srv' = [srv EXCEPT ![p] = [NoServer EXCEPT !.life = "up", !.tree = TRUE,
                                                             !.of = X(t), !.key = t]]
                /\ th' = [th EXCEPT ![t].pc = "init", ![t].got = "none", ![t].p = p,
                                    ![p] = [Idle("reading") EXCEPT !.x = X(t), !.p = p]]
      <3>1. PICK p \in Proc :
                /\ p = Cardinality({q \in Proc : srv[q].life # "none"}) + 1
                /\ srv' = [srv EXCEPT ![p] = [NoServer EXCEPT !.life = "up", !.tree = TRUE,
                                                             !.of = X(t), !.key = t]]
                /\ th' = [th EXCEPT ![t].pc = "init", ![t].got = "none", ![t].p = p,
                                    ![p] = [Idle("reading") EXCEPT !.x = X(t), !.p = p]]
        BY <2>2
      <3>2. CASE u = p
        <4>1. th'[p] = [Idle("reading") EXCEPT !.x = X(t), !.p = p]
          BY <3>1, <1>t, Sets, <1>7
        <4>2. srv'[p].life = "up"
          BY <3>1 DEF TypeOK, NoServer
        <4>3. th'[p] \in ThreadRecord
          <5>1. /\ "reading" \in Pcs /\ "none" \in Rets /\ "none" \in Gots /\ "none" \in Turns
                /\ "none" \in Ress /\ X(t) \in {0} \cup Adapter
            BY Fields DEF Pcs, ReaderPc, Rets, Gots, Turns, Ress, X
          <5>2. Idle("reading") \in ThreadRecord
            BY <5>1 DEF Idle, ThreadRecord
          <5> QED BY <4>1, <5>1, <5>2 DEF ThreadRecord
        <4> QED BY <3>1, <3>2, <4>1, <4>2, <4>3, <1>7
      <3>3. CASE u # p
        BY <3>1, <3>3, <1>1, <1>t
      <3> QED BY <3>2, <3>3
    <2> QED BY <1>7, <2>1, <2>2 DEF Launch
  <1>KillEnter. CASE KillEnter(t)
    BY <1>KillEnter, <1>1, <1>t DEF KillEnter
  <1>Reap. CASE Reap(t)
    BY <1>Reap, <1>1, <1>t DEF Reap
  <1>CloseAdapter. CASE CloseAdapter(t)
    BY <1>CloseAdapter, <1>1, <1>t DEF CloseAdapter
  <1>Closed. CASE Closed(t)
    BY <1>Closed, <1>1, <1>t DEF Closed, Released
  <1>Provider. CASE t = Closer /\ (CloseProvider \/ NextOwner)
    BY <1>Provider, <1>1, <1>t DEF CloseProvider, NextOwner, Go
  <1>Obtain. CASE t \in Key /\ Obtain(t)
    BY <1>Obtain, <1>1, <1>t DEF Obtain
  <1>Abandon. CASE t \in Key /\ Abandon(t)
    BY <1>Abandon, <1>1, <1>t DEF Abandon
  <1>Call. CASE t \in Key /\ Call(t)
    BY <1>Call, <1>1, <1>t DEF Call, Go, End, Kill
  <1>Forget. CASE t \in Key /\ Forget(t)
    BY <1>Forget, <1>1, <1>t DEF Forget, End
  <1>Start. CASE t \in Key /\ Start(t)
    BY <1>Start, <1>1, <1>t DEF Start, End, Ready
  <1>StartTimesOut. CASE t \in Key /\ StartTimesOut(t)
    BY <1>StartTimesOut, <1>1, <1>t DEF StartTimesOut, End
  <1>Initialize. CASE t \in Key /\ Initialize(t)
    BY <1>Initialize, <1>1, <1>t DEF Initialize, Ready, Kill
  <1>Unstart. CASE t \in Key /\ Unstart(t)
    BY <1>Unstart, <1>1, <1>t DEF Unstart, End
  <1>Dispatch. CASE t \in Key /\ Dispatch(t)
    BY <1>Dispatch, <1>1, <1>t DEF Dispatch, End
  <1>Acknowledged. CASE t \in Key /\ Acknowledged(t)
    BY <1>Acknowledged, <1>1, <1>t DEF Acknowledged, Kill
  <1>Join. CASE t \in Key /\ Join(t)
    BY <1>Join, <1>1, <1>t DEF Join, End
  <1>Waiting. CASE t \in Key /\ Waiting(t)
    <2>1. th[t].turn \in {"none", "open", "policy", "done", "error", "lost"}
      BY Fields DEF Turns
    <2>2. ~(th[t].turn = "none") \/ th'[u] = th[u]
      BY <1>Waiting DEF Waiting, At, Turn
    <2> QED BY <1>Waiting, <1>1, <1>t, <2>1, <2>2 DEF Waiting, End, Kill
  <1>Stopped. CASE t \in Key /\ Stopped(t)
    BY <1>Stopped, <1>1, <1>t DEF Stopped, End
  <1>Continue. CASE t \in Key /\ Continue(t)
    BY <1>Continue, <1>1, <1>t DEF Continue
  <1>Release. CASE t \in Key /\ Release(t)
    BY <1>Release, <1>1, <1>t DEF Release
  <1>Dispose. CASE t \in Key /\ Dispose(t)
    BY <1>Dispose, <1>1, <1>t DEF Dispose, Released, Go
  <1>Leaving. CASE t \in Key /\ Leaving(t)
    BY <1>Leaving, <1>1, <1>t DEF Leaving, Released
  <1> QED BY <1>3, <1>4, <1>5, <1>6, <1>7, <1>KillEnter, <1>Reap, <1>CloseAdapter, <1>Closed,
     <1>Provider, <1>Obtain, <1>Abandon, <1>Call, <1>Forget, <1>Start, <1>StartTimesOut,
     <1>Initialize, <1>Unstart, <1>Dispatch, <1>Acknowledged, <1>Join, <1>Waiting, <1>Stopped,
     <1>Continue, <1>Release, <1>Dispose, <1>Leaving DEF Moves, Worker, KillSteps
-----------------------------------------------------------------------------
(* The fields of a thread's record after a step.                             *)
Is(r, pc, x, p, ret, nest, raised, got, turn, res) ==
    /\ r.pc = pc /\ r.x = x /\ r.p = p /\ r.ret = ret /\ r.nest = nest /\ r.raised = raised
    /\ r.got = got /\ r.turn = turn /\ r.res = res

LEMMA ToPc ==
    ASSUME NEW f \in [Thread -> ThreadRecord], NEW g, NEW t \in Thread, NEW l \in Pcs,
           g = [f EXCEPT ![t].pc = l]
    PROVE  /\ Is(g[t], l, f[t].x, f[t].p, f[t].ret, f[t].nest, f[t].raised, f[t].got, f[t].turn, f[t].res)
           /\ g[t] \in ThreadRecord
  <1>1. Is(g[t], l, f[t].x, f[t].p, f[t].ret, f[t].nest, f[t].raised, f[t].got, f[t].turn, f[t].res)
    BY DEF ThreadRecord, Is
  <1>2. g[t] = [f[t] EXCEPT !.pc = l] /\ f[t] \in ThreadRecord
    BY DEF ThreadRecord
  <1>3. g[t] \in ThreadRecord
    BY <1>2 DEF ThreadRecord
  <1> QED BY <1>1, <1>3

LEMMA ToPcRaised ==
    ASSUME NEW f \in [Thread -> ThreadRecord], NEW g, NEW t \in Thread, NEW l \in Pcs, NEW b \in BOOLEAN,
           g = [f EXCEPT ![t].pc = l, ![t].raised = b]
    PROVE  /\ Is(g[t], l, f[t].x, f[t].p, f[t].ret, f[t].nest, b, f[t].got, f[t].turn, f[t].res)
           /\ g[t] \in ThreadRecord
  <1>1. Is(g[t], l, f[t].x, f[t].p, f[t].ret, f[t].nest, b, f[t].got, f[t].turn, f[t].res)
    BY DEF ThreadRecord, Is
  <1>2. g[t] = [f[t] EXCEPT !.pc = l, !.raised = b] /\ f[t] \in ThreadRecord
    BY DEF ThreadRecord
  <1>3. g[t] \in ThreadRecord
    BY <1>2 DEF ThreadRecord
  <1> QED BY <1>1, <1>3

LEMMA ToAnswered ==
    ASSUME NEW f \in [Thread -> ThreadRecord], NEW g, NEW t \in Thread, NEW l \in Pcs,
           NEW a \in Gots, NEW p \in {0} \cup Proc,
           g = [f EXCEPT ![t].pc = l, ![t].p = p, ![t].got = a]
    PROVE  /\ Is(g[t], l, f[t].x, p, f[t].ret, f[t].nest, f[t].raised, a, f[t].turn, f[t].res)
           /\ g[t] \in ThreadRecord
  <1>1. Is(g[t], l, f[t].x, p, f[t].ret, f[t].nest, f[t].raised, a, f[t].turn, f[t].res)
    BY DEF ThreadRecord, Is
  <1>2. g[t] = [f[t] EXCEPT !.pc = l, !.p = p, !.got = a] /\ f[t] \in ThreadRecord
    BY DEF ThreadRecord
  <1>3. g[t] \in ThreadRecord
    BY <1>2 DEF ThreadRecord
  <1> QED BY <1>1, <1>3

LEMMA ToTurn ==
    ASSUME NEW f \in [Thread -> ThreadRecord], NEW g, NEW t \in Thread, NEW l \in Pcs,
           NEW w \in Turns, NEW a \in Gots,
           g = [f EXCEPT ![t].pc = l, ![t].turn = w, ![t].got = a]
    PROVE  /\ Is(g[t], l, f[t].x, f[t].p, f[t].ret, f[t].nest, f[t].raised, a, w, f[t].res)
           /\ g[t] \in ThreadRecord
  <1>1. Is(g[t], l, f[t].x, f[t].p, f[t].ret, f[t].nest, f[t].raised, a, w, f[t].res)
    BY DEF ThreadRecord, Is
  <1>2. g[t] = [f[t] EXCEPT !.pc = l, !.turn = w, !.got = a] /\ f[t] \in ThreadRecord
    BY DEF ThreadRecord
  <1>3. g[t] \in ThreadRecord
    BY <1>2 DEF ThreadRecord
  <1> QED BY <1>1, <1>3

LEMMA ToIdle ==
    ASSUME NEW f \in [Thread -> ThreadRecord], NEW g, NEW t \in Thread, NEW l \in Pcs,
           NEW x \in {0} \cup Adapter, NEW p \in {0} \cup Proc,
           NEW r \in Ress,
           g = [f EXCEPT ![t] = [Idle(l) EXCEPT !.x = x, !.p = p, !.res = r]]
    PROVE  /\ Is(g[t], l, x, p, "none", FALSE, FALSE, "none", "none", r)
           /\ g[t] \in ThreadRecord
  <1>1. g[t] = [Idle(l) EXCEPT !.x = x, !.p = p, !.res = r]
    OBVIOUS
  <1>2. Is(g[t], l, x, p, "none", FALSE, FALSE, "none", "none", r)
    BY <1>1 DEF Is, Idle
  <1>3. Idle(l) \in ThreadRecord
    BY DEF Idle, ThreadRecord, Rets, Gots, Turns, Ress
  <1>4. g[t] \in ThreadRecord
    BY <1>1, <1>3 DEF ThreadRecord
  <1> QED BY <1>2, <1>4
-----------------------------------------------------------------------------
(* What a step of t makes of its own record, its adapter and the locks.      *)
Released_(t, r) == Is(th'[t], "release", X(t), IF r = "stopped" THEN th[t].p ELSE 0, "none", FALSE,
                      FALSE, "none", "none", r)
Starts(t, l, x) == Is(th'[t], l, x, 0, "none", FALSE, FALSE, "none", "none", "none")
Tears(t, p, ret) == /\ Is(th'[t], "kill", X(t), p, ret, th'[t].nest, FALSE, th[t].got, th[t].turn,
                          th[t].res)
                    /\ th'[t].nest <=> ad[X(t)].lock = t
Goes(t, l, b) == Is(th'[t], l, X(t), th[t].p, th[t].ret, th[t].nest, b, th[t].got, th[t].turn, th[t].res)
Typed(t) == th'[t] \in ThreadRecord /\ th' = [u \in Thread |-> th'[u]]
Quiet == UNCHANGED <<srv, ad, owner, olock, left, shut, clean>>
(* An adapter's record, but for what is kept in every step of a thread.      *)
Ad(x, cur, closed, complete, leaving, lock) ==
    /\ x \in Adapter => /\ ad'[x].made = ad[x].made /\ ad'[x].given = ad[x].given /\ ad'[x].cur = cur
                        /\ ad'[x].closed = closed /\ ad'[x].complete = complete
                        /\ ad'[x].leaving = leaving /\ ad'[x].lock = lock
    /\ \A y \in Adapter : y # x => ad'[y] = ad[y]

LEMMA EndDoes ==
    ASSUME TypeOK, NEW t \in Thread, NEW r \in Ress, End(t, r)
    PROVE  Typed(t) /\ Released_(t, r)
  <1> DEFINE p == IF r = "stopped" THEN th[t].p ELSE 0
             g == th'
  <1>1. /\ p \in {0} \cup Proc /\ "release" \in Pcs /\ X(t) \in {0} \cup Adapter
        /\ th \in [Thread -> ThreadRecord]
    BY Fields DEF Pcs, WorkerPc, X, TypeOK
  <1>2. th' = [th EXCEPT ![t] = [Idle("release") EXCEPT !.x = X(t), !.p = p, !.res = r]]
    BY DEF End, Idle
  <1>3. Is(th'[t], "release", X(t), p, "none", FALSE, FALSE, "none", "none", r) /\ th'[t] \in ThreadRecord
    BY <1>1, <1>2, ToIdle
  <1>4. th' = [u \in Thread |-> th'[u]]
    BY <1>1, <1>2
  <1> QED BY <1>3, <1>4 DEF Typed, Released_

LEMMA IdleDoes ==
    ASSUME TypeOK, NEW t \in Thread, NEW l \in Pcs, NEW x \in {0} \cup Adapter,
           th' = [th EXCEPT ![t] = [Idle(l) EXCEPT !.x = x]]
    PROVE  Typed(t) /\ Starts(t, l, x)
  <1>1. th \in [Thread -> ThreadRecord] /\ "none" \in Rets /\ "none" \in Gots /\ "none" \in Turns
        /\ "none" \in Ress
    BY DEF TypeOK, Rets, Gots, Turns, Ress
  <1>2. th'[t] = [Idle(l) EXCEPT !.x = x]
    BY <1>1
  <1>3. Idle(l) \in ThreadRecord
    BY <1>1 DEF Idle, ThreadRecord
  <1>4. th'[t] \in ThreadRecord
    BY <1>2, <1>3 DEF ThreadRecord
  <1>5. Is(th'[t], l, x, 0, "none", FALSE, FALSE, "none", "none", "none")
    BY <1>2 DEF Is, Idle
  <1>6. th' = [u \in Thread |-> th'[u]]
    BY <1>1
  <1> QED BY <1>4, <1>5, <1>6 DEF Typed, Starts

LEMMA GoDoes ==
    ASSUME TypeOK, NEW t \in Thread, NEW l \in Pcs, Go(t, l)
    PROVE  Typed(t) /\ Goes(t, l, th[t].raised)
  <1>1. th \in [Thread -> ThreadRecord] /\ th' = [th EXCEPT ![t].pc = l]
    BY DEF TypeOK, Go
  <1>2. /\ Is(th'[t], l, th[t].x, th[t].p, th[t].ret, th[t].nest, th[t].raised, th[t].got, th[t].turn, th[t].res)
        /\ th'[t] \in ThreadRecord
    BY <1>1, ToPc
  <1>3. th' = [u \in Thread |-> th'[u]]
    BY <1>1
  <1> QED BY <1>2, <1>3 DEF Typed, Goes, X

LEMMA GoRaised ==
    ASSUME TypeOK, NEW t \in Thread, NEW l \in Pcs, NEW b \in BOOLEAN,
           th' = [th EXCEPT ![t].pc = l, ![t].raised = b]
    PROVE  Typed(t) /\ Goes(t, l, b)
  <1>1. th \in [Thread -> ThreadRecord]
    BY DEF TypeOK
  <1>2. /\ Is(th'[t], l, th[t].x, th[t].p, th[t].ret, th[t].nest, b, th[t].got, th[t].turn, th[t].res)
        /\ th'[t] \in ThreadRecord
    BY <1>1, ToPcRaised
  <1>3. th' = [u \in Thread |-> th'[u]]
    BY <1>1
  <1> QED BY <1>2, <1>3 DEF Typed, Goes, X

LEMMA KillsAt ==
    ASSUME TypeOK, NEW t \in Thread, NEW p \in {0} \cup Proc, NEW ret \in Rets,
           NEW n \in BOOLEAN,
           th' = [th EXCEPT ![t].pc = "kill", ![t].p = p, ![t].ret = ret, ![t].nest = n,
                            ![t].raised = FALSE]
    PROVE  /\ Typed(t)
           /\ Is(th'[t], "kill", X(t), p, ret, n, FALSE, th[t].got, th[t].turn, th[t].res)
  <1>1. th \in [Thread -> ThreadRecord] /\ "kill" \in Pcs
    BY DEF TypeOK, Pcs, WorkerPc, Killing
  <1>2. Is(th'[t], "kill", X(t), p, ret, n, FALSE, th[t].got, th[t].turn, th[t].res)
    BY <1>1 DEF ThreadRecord, Is, X
  <1>3. th'[t] = [th[t] EXCEPT !.pc = "kill", !.p = p, !.ret = ret, !.nest = n, !.raised = FALSE]
    BY <1>1 DEF ThreadRecord
  <1>4. th[t] \in ThreadRecord
    BY <1>1
  <1>5. th'[t] \in ThreadRecord
    BY <1>1, <1>3, <1>4, ZenonT(40) DEF ThreadRecord
  <1>6. th' = [u \in Thread |-> th'[u]]
    BY <1>1
  <1> QED BY <1>2, <1>5, <1>6 DEF Typed

LEMMA KillDoes ==
    ASSUME TypeOK, NEW t \in Thread, NEW p \in {0} \cup Proc, NEW ret \in Rets, Kill(t, p, ret)
    PROVE  Typed(t) /\ Tears(t, p, ret)
  <1>1. th' = [th EXCEPT ![t].pc = "kill", ![t].p = p, ![t].ret = ret,
                     ![t].nest = (ad[X(t)].lock = t), ![t].raised = FALSE]
    BY DEF Kill
  <1>2. CASE ad[X(t)].lock = t
    <2>1. th' = [th EXCEPT ![t].pc = "kill", ![t].p = p, ![t].ret = ret, ![t].nest = TRUE,
                           ![t].raised = FALSE]
      BY <1>1, <1>2
    <2>2. TRUE \in BOOLEAN
      OBVIOUS
    <2>3. Typed(t) /\ Is(th'[t], "kill", X(t), p, ret, TRUE, FALSE, th[t].got, th[t].turn, th[t].res)
      BY <2>1, <2>2, KillsAt
    <2> QED BY <1>2, <2>3 DEF Tears, Is
  <1>3. CASE ad[X(t)].lock # t
    <2>1. th' = [th EXCEPT ![t].pc = "kill", ![t].p = p, ![t].ret = ret, ![t].nest = FALSE,
                           ![t].raised = FALSE]
      BY <1>1, <1>3
    <2>2. FALSE \in BOOLEAN
      OBVIOUS
    <2>3. Typed(t) /\ Is(th'[t], "kill", X(t), p, ret, FALSE, FALSE, th[t].got, th[t].turn, th[t].res)
      BY <2>1, <2>2, KillsAt
    <2> QED BY <1>3, <2>3 DEF Tears, Is
  <1> QED BY <1>2, <1>3

-----------------------------------------------------------------------------
(* The four steps of a teardown.                                             *)
Stays(t, l) == /\ Is(th'[t], l, X(t), th[t].p, "none", FALSE, th'[t].raised, th[t].got, th'[t].turn,
                     th[t].res)
               /\ th'[t].raised \in BOOLEAN
Srv(p, life, tree, result) ==
    /\ p \in Proc => /\ srv'[p].of = srv[p].of /\ srv'[p].key = srv[p].key /\ srv'[p].life = life
                     /\ srv'[p].tree = tree /\ srv'[p].result = result
    /\ \A q \in Proc : q # p => srv'[q] = srv[q]

LEMMA KillNothingDoes ==
    ASSUME IInv, NEW t \in Thread, KillNothing(t)
    PROVE  /\ Typed(t) /\ Quiet /\ Stays(t, th[t].ret)
           /\ th'[t].turn = th[t].turn \/ (th'[t].turn = "lost" /\ th[t].turn = "open" /\ Target(t) = 0)
           /\ ~th'[t].raised => Target(t) = 0 \/ srv[Target(t)].result = "ok"
           /\ Replaced(t) \/ Made(t) \/ Target(t) = 0
  <1> DEFINE bad == Target(t) # 0 /\ (srv[Target(t)].result = "none" \/ Bad(Target(t)))
             f == IF Target(t) = 0 THEN Failed(th, X(t), 0) ELSE th
  <1>1. th' = Back(f, t, bad) /\ bad \in BOOLEAN
    BY DEF KillNothing
  <1>2. TypeOK /\ th \in [Thread -> ThreadRecord]
    BY DEF IInv, TypeOK
  <1>3. /\ f \in [Thread -> ThreadRecord] /\ f[t].ret = th[t].ret /\ f[t].x = th[t].x /\ f[t].p = th[t].p
        /\ f[t].res = th[t].res
        /\ f[t].turn = th[t].turn \/ (f[t].turn = "lost" /\ th[t].turn = "open" /\ Target(t) = 0)
    BY <1>2, Waking
  <1>4. f[t].got = th[t].got
    BY <1>2, Waking DEF KillNothing, At
  <1>5. th[t].ret \in Pcs
    <2>1. th[t].ret \in Rets /\ th[t].ret # "none"
      BY <1>2, Fields DEF IInv, Control, KillNothing, At, Killing
    <2> QED BY <2>1 DEF Rets, WorkerRet, Pcs, WorkerPc, ReaderPc
  <1>6. ~bad => Target(t) = 0 \/ srv[Target(t)].result = "ok"
    <2>1. Target(t) \in {0} \cup Proc
      <3>1. th[t].p \in {0} \cup Proc /\ X(t) \in {0} \cup Adapter
        BY <1>2, Fields DEF X
      <3>2. th[t].p = 0 => Cur(t) \in {0} \cup Proc
        BY <1>2, <3>1, Sets DEF IInv, Teardown, Cur, TypeOK, AdapterRecord, KillNothing, At,
           X, Killing
      <3> QED BY <3>1, <3>2 DEF Target
    <2>2. Target(t) # 0 => srv[Target(t)].result \in {"none", "ok", "bad", "unsaved"}
      BY <1>2, <2>1 DEF TypeOK, ServerRecord
    <2> QED BY <2>2 DEF Bad
  <1> HIDE DEF f, bad
  <1>7. /\ Back(f, t, bad) \in [Thread -> ThreadRecord]
        /\ LET r == Back(f, t, bad)[t] IN
                /\ r.pc = f[t].ret /\ r.raised = bad /\ r.ret = "none" /\ ~r.nest
                /\ r.x = f[t].x /\ r.p = f[t].p /\ r.got = f[t].got /\ r.turn = f[t].turn
                /\ r.res = f[t].res
    BY <1>1, <1>3, <1>5, Returning
  <1>8. Typed(t) /\ Stays(t, th[t].ret) /\ (th'[t].raised <=> bad) /\ th'[t].turn = f[t].turn
    BY <1>1, <1>3, <1>4, <1>7 DEF Typed, Stays, Is, X
  <1>9. Quiet /\ (Replaced(t) \/ Made(t) \/ Target(t) = 0)
    BY DEF KillNothing, Quiet, Owners, Close0
  <1> QED BY <1>3, <1>6, <1>8, <1>9

LEMMA KillEnterDoes ==
    ASSUME IInv, NEW t \in Thread, KillEnter(t)
    PROVE  /\ Typed(t) /\ UNCHANGED <<owner, olock, left, shut, clean>>
           /\ ~Replaced(t) /\ ~Made(t) /\ Cur(t) # 0 /\ X(t) \in Adapter /\ Cur(t) \in Proc
           /\ th'[t].pc \in {"reap", "reapLate"} /\ Goes(t, th'[t].pc, th[t].raised)
           /\ Ad(X(t), Cur(t), ad[X(t)].closed, ad[X(t)].complete, ad[X(t)].leaving, t)
           /\ Srv(Cur(t), srv[Cur(t)].life, srv[Cur(t)].tree, srv[Cur(t)].result)
  <1>1. TypeOK /\ X(t) \in Adapter /\ Cur(t) \in Proc
    <2>1. X(t) \in Adapter
      BY Fields, Sets DEF IInv, Teardown, KillEnter, At, X, Killing
    <2> QED BY <2>1 DEF IInv, TypeOK, Cur, KillEnter, AdapterRecord
  <1>2. "reap" \in Pcs /\ "reapLate" \in Pcs
    BY DEF Pcs, WorkerPc, Killing
  <1> DEFINE l == IF Up(Cur(t)) \/ srv[Cur(t)].seen THEN "reap" ELSE "reapLate"
  <1>3. l \in Pcs /\ Go(t, l) /\ l \in {"reap", "reapLate"}
    BY <1>2 DEF KillEnter, Go
  <1> HIDE DEF l
  <1>4. Typed(t) /\ Goes(t, l, th[t].raised) /\ th'[t].pc = l
    BY <1>1, <1>3, GoDoes DEF Goes, Is
  <1>5. Ad(X(t), Cur(t), ad[X(t)].closed, ad[X(t)].complete, ad[X(t)].leaving, t)
    BY <1>1 DEF KillEnter, Ad, TypeOK, AdapterRecord, Cur
  <1>6. Srv(Cur(t), srv[Cur(t)].life, srv[Cur(t)].tree, srv[Cur(t)].result)
    BY <1>1 DEF KillEnter, Srv, TypeOK, ServerRecord
  <1> QED BY <1>1, <1>3, <1>4, <1>5, <1>6 DEF KillEnter, Owners, Close0

LEMMA ReapDoes ==
    ASSUME IInv, NEW t \in Thread, Reap(t)
    PROVE  /\ Typed(t) /\ UNCHANGED <<ad, owner, olock, left, shut, clean>> /\ Cur(t) \in Proc
           /\ th[t].pc \in {"reap", "reapLate"} /\ Goes(t, "wake", th'[t].raised) /\ X(t) \in Adapter
           /\ \/ Srv(Cur(t), "down", FALSE, srv[Cur(t)].result)
              \/ th'[t].raised /\ Srv(Cur(t), srv[Cur(t)].life, srv[Cur(t)].tree, srv[Cur(t)].result)
              \/ th'[t].raised /\ Srv(Cur(t), "down", srv[Cur(t)].tree, srv[Cur(t)].result)
  <1>1. TypeOK /\ X(t) \in Adapter /\ Cur(t) \in Proc
    <2>1. X(t) \in Adapter /\ Cur(t) # 0
      BY Fields, Sets DEF IInv, Teardown, Reap, At, X, Killing
    <2> QED BY <2>1 DEF IInv, TypeOK, Cur, AdapterRecord
  <1>2. "wake" \in Pcs /\ th[t].pc \in {"reap", "reapLate"}
    BY DEF Pcs, WorkerPc, Killing, Reap, At
  <1>3. \E b \in BOOLEAN : th' = [th EXCEPT ![t].pc = "wake", ![t].raised = b]
    <2>1. CASE At(t, "reapLate")
      <3>1. th' = [th EXCEPT ![t].pc = "wake", ![t].raised = TRUE]
        BY <2>1 DEF Reap
      <3> QED BY <3>1
    <2>2. CASE ~At(t, "reapLate")
      <3>1. \/ th' = [th EXCEPT ![t].pc = "wake", ![t].raised = FALSE]
            \/ th' = [th EXCEPT ![t].pc = "wake", ![t].raised = TRUE]
        BY <2>2 DEF Reap
      <3> QED BY <3>1
    <2> QED BY <2>1, <2>2
  <1>4. Typed(t) /\ Goes(t, "wake", th'[t].raised)
    <2>1. PICK b \in BOOLEAN : th' = [th EXCEPT ![t].pc = "wake", ![t].raised = b]
      BY <1>3
    <2>2. Typed(t) /\ Goes(t, "wake", b)
      BY <1>1, <1>2, <2>1, GoRaised
    <2> QED BY <2>2 DEF Goes, Is
  <1>t. th \in [Thread -> ThreadRecord] /\ srv \in [Proc -> ServerRecord]
    BY <1>1 DEF TypeOK
  <1>8. \/ Srv(Cur(t), "down", FALSE, srv[Cur(t)].result)
        \/ th'[t].raised /\ Srv(Cur(t), srv[Cur(t)].life, srv[Cur(t)].tree, srv[Cur(t)].result)
        \/ th'[t].raised /\ Srv(Cur(t), "down", srv[Cur(t)].tree, srv[Cur(t)].result)
    <2>5. CASE TreeExited(Cur(t))
      BY <1>1, <1>t, <2>5, ZenonT(40) DEF TreeExited, Srv, ServerRecord
    <2>6. CASE UNCHANGED srv /\ th' = [th EXCEPT ![t].pc = "wake", ![t].raised = TRUE]
      BY <1>1, <1>t, <2>6 DEF Srv, ThreadRecord
    <2>7. CASE Unverified(Cur(t)) /\ th' = [th EXCEPT ![t].pc = "wake", ![t].raised = TRUE]
      <3>1. th'[t].raised
        BY <2>7, <1>t DEF ThreadRecord
      <3>2. CASE srv' = [srv EXCEPT ![Cur(t)].life = srv[Cur(t)].life]
        BY <1>1, <1>t, <3>1, <3>2 DEF Srv, ServerRecord
      <3>3. CASE srv' = [srv EXCEPT ![Cur(t)].life = "down"]
        BY <1>1, <1>t, <3>1, <3>3 DEF Srv, ServerRecord
      <3> QED BY <2>7, <3>2, <3>3 DEF Unverified
    <2> QED BY <2>5, <2>6, <2>7 DEF Reap
  <1> QED BY <1>1, <1>2, <1>4, <1>8 DEF Reap, Owners, Close0

LEMMA WakeDoes ==
    ASSUME IInv, NEW t \in Thread, Wake(t)
    PROVE  /\ Typed(t) /\ UNCHANGED <<owner, olock, left, shut, clean>> /\ Cur(t) \in Proc
           /\ th[t].pc = "wake" /\ Stays(t, th[t].ret) /\ X(t) \in Adapter
           /\ th'[t].turn = th[t].turn \/ (th'[t].turn = "lost" /\ th[t].turn = "open")
           /\ \E r \in {"ok", "bad", "unsaved"} :
                /\ Srv(Cur(t), srv[Cur(t)].life, srv[Cur(t)].tree, r)
                /\ r = "ok" <=> ~th'[t].raised
                /\ r = "ok" => ~th[t].raised
           /\ Ad(X(t), Cur(t), ad[X(t)].closed, ad[X(t)].complete, ad[X(t)].leaving,
                 IF th[t].nest THEN t ELSE None)
  <1>1. TypeOK /\ X(t) \in Adapter /\ Cur(t) \in Proc /\ ad[X(t)].lock = t
    <2>1. X(t) \in Adapter /\ Cur(t) # 0 /\ ad[X(t)].lock = t
      BY Fields, Sets DEF IInv, Teardown, Wake, At, X, Killing, Locked, Holds
    <2> QED BY <2>1 DEF IInv, TypeOK, Cur, AdapterRecord
  <1> DEFINE f == Failed(th, X(t), Cur(t))
  <1>t. th \in [Thread -> ThreadRecord] /\ srv \in [Proc -> ServerRecord] /\ th[t].pc = "wake"
    BY <1>1 DEF TypeOK, Wake, At
  <1>2. \E b \in BOOLEAN : \E r \in {"ok", "bad", "unsaved"} :
          /\ th' = Back(f, t, b) /\ srv' = [srv EXCEPT ![Cur(t)].result = r]
          /\ r = "ok" <=> ~b
          /\ r = "ok" => ~th[t].raised
    <2>1. th[t].raised \in BOOLEAN
      BY <1>1, Fields
    <2> QED BY <2>1 DEF Wake
  <1>3. PICK b \in BOOLEAN, r \in {"ok", "bad", "unsaved"} :
          /\ th' = Back(f, t, b) /\ srv' = [srv EXCEPT ![Cur(t)].result = r]
          /\ r = "ok" <=> ~b
          /\ r = "ok" => ~th[t].raised
    BY <1>2
  <1>4. /\ f \in [Thread -> ThreadRecord] /\ f[t].ret = th[t].ret /\ f[t].x = th[t].x /\ f[t].p = th[t].p
        /\ f[t].res = th[t].res /\ f[t].got = th[t].got
        /\ f[t].turn = th[t].turn \/ (f[t].turn = "lost" /\ th[t].turn = "open")
    BY <1>1, <1>t, Waking
  <1>5. th[t].ret \in Pcs
    <2>1. th[t].ret \in Rets /\ th[t].ret # "none"
      BY <1>1, <1>t, Fields DEF IInv, Control, Killing
    <2> QED BY <2>1 DEF Rets, WorkerRet, Pcs, WorkerPc, ReaderPc
  <1> HIDE DEF f
  <1>6. /\ Back(f, t, b) \in [Thread -> ThreadRecord]
        /\ LET r0 == Back(f, t, b)[t] IN
                /\ r0.pc = f[t].ret /\ r0.raised = b /\ r0.ret = "none" /\ ~r0.nest
                /\ r0.x = f[t].x /\ r0.p = f[t].p /\ r0.got = f[t].got /\ r0.turn = f[t].turn
                /\ r0.res = f[t].res
    BY <1>4, <1>5, Returning
  <1>7. Typed(t) /\ Stays(t, th[t].ret) /\ (th'[t].raised <=> b) /\ th'[t].turn = f[t].turn
    BY <1>3, <1>4, <1>6 DEF Typed, Stays, Is, X
  <1>8. Srv(Cur(t), srv[Cur(t)].life, srv[Cur(t)].tree, r)
    BY <1>1, <1>t, <1>3 DEF Srv, ServerRecord
  <1>9. Ad(X(t), Cur(t), ad[X(t)].closed, ad[X(t)].complete, ad[X(t)].leaving,
           IF th[t].nest THEN t ELSE None)
    BY <1>1 DEF Wake, Ad, TypeOK, AdapterRecord, Cur, Unlocked
  <1> QED BY <1>1, <1>t, <1>3, <1>4, <1>7, <1>8, <1>9 DEF Wake, Owners, Close0
-----------------------------------------------------------------------------
(* The steps of a worker, up to the turn.                                    *)
LEMMA Pc ==
    /\ WorkerPc \subseteq Pcs /\ ReaderPc \subseteq Pcs /\ CloserPc \subseteq Pcs
    /\ WorkerRet \subseteq Rets /\ {"none", "read"} \subseteq Rets
  BY DEF Pcs, Rets

LEMMA Places ==
    ASSUME IInv, NEW t \in Thread
    PROVE  /\ TypeOK /\ th \in [Thread -> ThreadRecord] /\ ad \in [Adapter -> AdapterRecord]
           /\ srv \in [Proc -> ServerRecord] /\ owner \in [Key -> {0} \cup Adapter]
           /\ X(t) \in {0} \cup Adapter /\ (X(t) # 0 => X(t) \in Adapter /\ Cur(t) \in {0} \cup Proc)
           /\ (Cur(t) # 0 /\ X(t) # 0 => Cur(t) \in Proc)
  <1>1. TypeOK /\ X(t) \in {0} \cup Adapter
    BY Fields DEF X, IInv
  <1>2. ad \in [Adapter -> AdapterRecord]
    BY <1>1 DEF TypeOK
  <1>3. X(t) # 0 => X(t) \in Adapter /\ Cur(t) \in {0} \cup Proc
    BY <1>1, <1>2 DEF Cur, AdapterRecord
  <1> QED BY <1>1, <1>2, <1>3 DEF TypeOK

LEMMA ObtainDoes ==
    ASSUME IInv, NEW t \in Key, Obtain(t)
    PROVE  /\ Typed(t) /\ UNCHANGED <<srv, olock, left, shut, clean>>
           /\ th[t].pc = "idle" /\ olock = None /\ ~shut
           /\ \E x \in Adapter :
                /\ Starts(t, "call", x) /\ owner' = [owner EXCEPT ![t] = x]
                /\ \/ owner[t] = x /\ ad' = ad
                   \/ /\ owner[t] = 0 /\ ad' = [ad EXCEPT ![x].made = TRUE] /\ ~ad[x].made
                      /\ \A y \in Adapter : (y < x => ad[y].made) /\ (y > x => ~ad[y].made)
  <1>1. t \in Thread /\ "call" \in Pcs /\ TypeOK /\ owner \in [Key -> {0} \cup Adapter]
    BY Pc, Sets, Places DEF WorkerPc
  <1>2. CASE owner[t] # 0 /\ UNCHANGED <<ad, owner>> /\ th' = [th EXCEPT ![t] = [Idle("call") EXCEPT !.x = owner[t]]]
    <2>1. Typed(t) /\ Starts(t, "call", owner[t]) /\ owner[t] \in Adapter /\ owner' = [owner EXCEPT ![t] = owner[t]]
      BY <1>1, <1>2, IdleDoes
    <2> QED BY <1>2, <2>1 DEF Obtain, At
  <1>3. CASE /\ owner[t] = 0
             /\ \E x \in Adapter :
                /\ x = Cardinality({y \in Adapter : ad[y].made}) + 1
                /\ ad' = [ad EXCEPT ![x].made = TRUE]
                /\ owner' = [owner EXCEPT ![t] = x]
                /\ th' = [th EXCEPT ![t] = [Idle("call") EXCEPT !.x = x]]
    <2>1. PICK x \in Adapter :
                /\ x = Cardinality({y \in Adapter : ad[y].made}) + 1
                /\ ad' = [ad EXCEPT ![x].made = TRUE]
                /\ owner' = [owner EXCEPT ![t] = x]
                /\ th' = [th EXCEPT ![t] = [Idle("call") EXCEPT !.x = x]]
      BY <1>3
    <2>2. Typed(t) /\ Starts(t, "call", x)
      BY <1>1, <2>1, IdleDoes
    <2>3. ~ad[x].made /\ \A y \in Adapter : (y < x => ad[y].made) /\ (y > x => ~ad[y].made)
      BY <2>1, FreshAdapter
    <2> QED BY <1>3, <2>1, <2>2, <2>3 DEF Obtain, At
  <1> QED BY <1>2, <1>3 DEF Obtain

LEMMA CallDoes ==
    ASSUME IInv, NEW t \in Key, Call(t)
    PROVE  /\ Typed(t) /\ Quiet /\ th[t].pc = "call"
           /\ \/ ad[X(t)].closed /\ Released_(t, "refused")
              \/ ~ad[X(t)].closed /\ Goes(t, "start", th[t].raised)
              \/ ~ad[X(t)].closed /\ Up(Cur(t)) /\ Tears(t, 0, "forget")
  <1>1. /\ t \in Thread /\ "start" \in Pcs /\ TypeOK /\ "refused" \in Ress /\ "forget" \in Rets
        /\ 0 \in {0} \cup Proc
    BY Pc, Sets, Places DEF WorkerPc, WorkerRet, Ress
  <1>2. Quiet /\ th[t].pc = "call"
    BY DEF Call, Quiet, Owners, Close0, At
  <1>3. CASE ad[X(t)].closed /\ End(t, "refused")
    BY <1>1, <1>2, <1>3, EndDoes
  <1>4. CASE ~ad[X(t)].closed /\ Go(t, "start")
    BY <1>1, <1>2, <1>4, GoDoes
  <1>5. CASE ~ad[X(t)].closed /\ Up(Cur(t)) /\ Kill(t, 0, "forget")
    BY <1>1, <1>2, <1>5, KillDoes
  <1> QED BY <1>3, <1>4, <1>5 DEF Call

LEMMA ForgetDoes ==
    ASSUME IInv, NEW t \in Key, Forget(t)
    PROVE  /\ Typed(t) /\ UNCHANGED <<srv, owner, olock, left, shut, clean>> /\ th[t].pc = "forget"
           /\ X(t) \in Adapter
           /\ \/ th[t].raised /\ Released_(t, "failed") /\ ad' = ad
              \/ /\ ~th[t].raised /\ Starts(t, "start", X(t))
                 /\ Ad(X(t), 0, ad[X(t)].closed, ad[X(t)].complete, ad[X(t)].leaving, ad[X(t)].lock)
  <1>1. /\ t \in Thread /\ "start" \in Pcs /\ TypeOK /\ "failed" \in Ress /\ X(t) \in {0} \cup Adapter
    BY Pc, Sets, Places DEF WorkerPc, WorkerRet, Ress
  <1>2. UNCHANGED <<srv, owner, olock, left, shut, clean>> /\ th[t].pc = "forget" /\ X(t) \in Adapter
    BY <1>1 DEF Forget, Owners, Close0, At, IInv, Teardown
  <1>3. CASE th[t].raised
    BY <1>1, <1>2, <1>3, EndDoes DEF Forget
  <1>4. CASE ~th[t].raised
    <2>1. Typed(t) /\ Starts(t, "start", X(t))
      BY <1>1, <1>4, IdleDoes DEF Forget
    <2>2. Ad(X(t), 0, ad[X(t)].closed, ad[X(t)].complete, ad[X(t)].leaving, ad[X(t)].lock)
      BY <1>1, <1>4 DEF Forget, Ad, TypeOK, AdapterRecord
    <2> QED BY <1>2, <1>4, <2>1, <2>2
  <1> QED BY <1>3, <1>4

LEMMA StartDoes ==
    ASSUME IInv, NEW t \in Key, Start(t)
    PROVE  /\ Typed(t) /\ UNCHANGED <<srv, owner, olock, left, shut, clean>> /\ th[t].pc = "start"
           /\ Free(t) /\ X(t) \in Adapter
           /\ \/ ad[X(t)].closed /\ Released_(t, "refused") /\ ad' = ad
              \/ ~ad[X(t)].closed /\ Up(Cur(t)) /\ Starts(t, "ready", X(t)) /\ ad' = ad
              \/ /\ ~ad[X(t)].closed /\ ~Up(Cur(t))
                 /\ Ad(X(t), Cur(t), ad[X(t)].closed, ad[X(t)].complete, ad[X(t)].leaving, t)
                 /\ \/ Cur(t) = 0 /\ Goes(t, "launch", FALSE)
                    \/ /\ Cur(t) # 0
                       /\ Is(th'[t], "kill", X(t), Cur(t), "launch", TRUE, FALSE, th[t].got, th[t].turn,
                             th[t].res)
  <1>1. /\ t \in Thread /\ TypeOK /\ "refused" \in Ress /\ X(t) \in {0} \cup Adapter
        /\ "launch" \in Pcs /\ "ready" \in Pcs /\ "launch" \in Rets
    BY Pc, Sets, Places DEF WorkerPc, WorkerRet, Ress
  <1>2. UNCHANGED <<srv, owner, olock, left, shut, clean>> /\ th[t].pc = "start" /\ Free(t) /\ X(t) \in Adapter
    BY <1>1 DEF Start, Owners, Close0, At, IInv, Work
  <1>3. CASE ad[X(t)].closed
    BY <1>1, <1>2, <1>3, EndDoes DEF Start, MayStart
  <1>4. CASE ~ad[X(t)].closed /\ Up(Cur(t))
    BY <1>1, <1>2, <1>4, IdleDoes DEF Start, MayStart, Ready
  <1>5. CASE ~ad[X(t)].closed /\ ~Up(Cur(t))
    <2>0. /\ ad' = [ad EXCEPT ![X(t)].lock = t]
          /\ IF Cur(t) = 0
             THEN th' = [th EXCEPT ![t].pc = "launch", ![t].raised = FALSE]
             ELSE th' = [th EXCEPT ![t].pc = "kill", ![t].p = Cur(t), ![t].nest = TRUE,
                                   ![t].ret = "launch", ![t].raised = FALSE]
      BY <1>5 DEF Start, MayStart
    <2>1. Ad(X(t), Cur(t), ad[X(t)].closed, ad[X(t)].complete, ad[X(t)].leaving, t)
      BY <1>1, <2>0 DEF Ad, TypeOK, AdapterRecord, Cur
    <2>2. CASE Cur(t) = 0
      <3>1. th' = [th EXCEPT ![t].pc = "launch", ![t].raised = FALSE]
        BY <2>0, <2>2
      <3>2. Typed(t) /\ Goes(t, "launch", FALSE)
        BY <1>1, <3>1, GoRaised
      <3> QED BY <1>2, <1>5, <2>1, <2>2, <3>2
    <2>3. CASE Cur(t) # 0
      <3>1. th' = [th EXCEPT ![t].pc = "kill", ![t].p = Cur(t), ![t].ret = "launch", ![t].nest = TRUE,
                             ![t].raised = FALSE]
        <4> DEFINE g == th'
        <4>1. g = [th EXCEPT ![t].pc = "kill", ![t].p = Cur(t), ![t].nest = TRUE,
                             ![t].ret = "launch", ![t].raised = FALSE]
          BY <2>0, <2>3
        <4>2. [th EXCEPT ![t].pc = "kill", ![t].p = Cur(t), ![t].nest = TRUE,
                         ![t].ret = "launch", ![t].raised = FALSE]
              = [th EXCEPT ![t].pc = "kill", ![t].p = Cur(t), ![t].ret = "launch", ![t].nest = TRUE,
                           ![t].raised = FALSE]
          BY ZenonT(40)
        <4> QED BY <4>1, <4>2
      <3>2. Cur(t) \in {0} \cup Proc /\ TRUE \in BOOLEAN
        BY <1>2, Places, <1>1, Sets
      <3>3. /\ Typed(t)
            /\ Is(th'[t], "kill", X(t), Cur(t), "launch", TRUE, FALSE, th[t].got, th[t].turn, th[t].res)
        BY <1>1, <3>1, <3>2, KillsAt
      <3> QED BY <1>2, <1>5, <2>1, <2>3, <3>3
    <2> QED BY <2>2, <2>3
  <1> QED BY <1>3, <1>4, <1>5

LEMMA StartTimesOutDoes ==
    ASSUME IInv, NEW t \in Key, StartTimesOut(t)
    PROVE  Typed(t) /\ Quiet /\ th[t].pc = "start" /\ Released_(t, "timedOut")
  <1>1. t \in Thread /\ TypeOK /\ "timedOut" \in Ress
    BY Sets, Places DEF Ress
  <1> QED BY <1>1, EndDoes DEF StartTimesOut, Quiet, Owners, Close0, At

Launched(t, p) ==
    /\ srv[p].life = "none" /\ \A q \in Proc : q < p => srv[q].life # "none"
    /\ srv'[p] = [NoServer EXCEPT !.life = "up", !.tree = TRUE, !.of = X(t), !.key = t]
    /\ \A q \in Proc : q # p => srv'[q] = srv[q]
    /\ Ad(X(t), p, ad[X(t)].closed, ad[X(t)].complete, ad[X(t)].leaving, ad[X(t)].lock)
    /\ Is(th'[t], "init", X(t), p, th[t].ret, th[t].nest, th[t].raised, "none", th[t].turn, th[t].res)
    /\ Is(th'[p], "reading", X(t), p, "none", FALSE, FALSE, "none", "none", "none")
LEMMA LaunchDoes ==
    ASSUME IInv, NEW t \in Key, Launch(t)
    PROVE  /\ Typed(t) /\ UNCHANGED <<owner, olock, left, shut, clean>> /\ th[t].pc = "launch"
           /\ X(t) \in Adapter
           /\ \/ /\ Released_(t, "failed") /\ srv' = srv
                 /\ Ad(X(t), Cur(t), ad[X(t)].closed, ad[X(t)].complete, ad[X(t)].leaving, None)
              \/ /\ th[t].raised => srv[Cur(t)].result = "bad"
                 /\ \E p \in Proc : Launched(t, p)
  <1>1. /\ t \in Thread /\ TypeOK /\ "failed" \in Ress /\ X(t) \in {0} \cup Adapter /\ "init" \in Pcs
        /\ "none" \in Gots /\ th \in [Thread -> ThreadRecord] /\ srv \in [Proc -> ServerRecord]
    BY Pc, Sets, Places DEF WorkerPc, Ress, Gots
  <1>2. UNCHANGED <<owner, olock, left, shut, clean>> /\ th[t].pc = "launch" /\ X(t) \in Adapter
    BY <1>1 DEF Launch, Owners, Close0, At, IInv, Teardown
  <1>3. CASE End(t, "failed") /\ UNCHANGED srv /\ ad' = [ad EXCEPT ![X(t)].lock = None]
    <2>1. Ad(X(t), Cur(t), ad[X(t)].closed, ad[X(t)].complete, ad[X(t)].leaving, None)
      BY <1>1, <1>3 DEF Ad, TypeOK, AdapterRecord, Cur
    <2> QED BY <1>1, <1>2, <1>3, <2>1, EndDoes
  <1>4. CASE /\ th[t].raised => srv[Cur(t)].result = "bad"
             /\ \E p \in Proc :
                /\ p = Cardinality({q \in Proc : srv[q].life # "none"}) + 1
                /\ srv' = [srv EXCEPT ![p] = [NoServer EXCEPT !.life = "up", !.tree = TRUE,
                                                             !.of = X(t), !.key = t]]
                /\ ad' = [ad EXCEPT ![X(t)].cur = p, ![X(t)].tearing = 0]
                /\ th' = [th EXCEPT ![t].pc = "init", ![t].got = "none", ![t].p = p,
                                    ![p] = [Idle("reading") EXCEPT !.x = X(t), !.p = p]]
    <2>1. PICK p \in Proc :
                /\ p = Cardinality({q \in Proc : srv[q].life # "none"}) + 1
                /\ srv' = [srv EXCEPT ![p] = [NoServer EXCEPT !.life = "up", !.tree = TRUE,
                                                             !.of = X(t), !.key = t]]
                /\ ad' = [ad EXCEPT ![X(t)].cur = p, ![X(t)].tearing = 0]
                /\ th' = [th EXCEPT ![t].pc = "init", ![t].got = "none", ![t].p = p,
                                    ![p] = [Idle("reading") EXCEPT !.x = X(t), !.p = p]]
      BY <1>4
    <2>2. srv[p].life = "none" /\ \A q \in Proc : q < p => srv[q].life # "none"
      BY <2>1, FreshServer
    <2>3. /\ srv'[p] = [NoServer EXCEPT !.life = "up", !.tree = TRUE, !.of = X(t), !.key = t]
          /\ \A q \in Proc : q # p => srv'[q] = srv[q]
      BY <1>1, <2>1
    <2>4. Ad(X(t), p, ad[X(t)].closed, ad[X(t)].complete, ad[X(t)].leaving, ad[X(t)].lock)
      BY <1>1, <2>1 DEF Ad, TypeOK, AdapterRecord
    <2>5. p # t /\ p \in Thread
      BY Sets
    <2>6. Is(th'[t], "init", X(t), p, th[t].ret, th[t].nest, th[t].raised, "none", th[t].turn, th[t].res)
      BY <1>1, <2>1, <2>5 DEF Is, ThreadRecord, X
    <2>7. th'[p] = [Idle("reading") EXCEPT !.x = X(t), !.p = p]
      BY <1>1, <2>1, <2>5
    <2>8. Is(th'[p], "reading", X(t), p, "none", FALSE, FALSE, "none", "none", "none")
      BY <2>7 DEF Is, Idle
    <2>9. Typed(t)
      <3>1. th'[t] = [th[t] EXCEPT !.pc = "init", !.got = "none", !.p = p] /\ th[t] \in ThreadRecord
        BY <1>1, <2>1, <2>5 DEF ThreadRecord
      <3>2. th'[t] \in ThreadRecord
        BY <1>1, <3>1 DEF ThreadRecord
      <3>3. th' = [u \in Thread |-> th'[u]]
        BY <1>1, <2>1
      <3> QED BY <3>2, <3>3 DEF Typed
    <2>10. Launched(t, p)
      BY <2>2, <2>3, <2>4, <2>6, <2>8 DEF Launched
    <2> QED BY <1>2, <1>4, <2>9, <2>10
  <1> QED BY <1>3, <1>4 DEF Launch

LEMMA InitializeDoes ==
    ASSUME IInv, NEW t \in Key, Initialize(t)
    PROVE  /\ Typed(t) /\ UNCHANGED <<srv, owner, olock, left, shut, clean>> /\ th[t].pc = "init"
           /\ X(t) \in Adapter
           /\ \/ /\ Starts(t, "ready", X(t))
                 /\ Ad(X(t), Cur(t), ad[X(t)].closed, ad[X(t)].complete, ad[X(t)].leaving, None)
              \/ Tears(t, 0, "unstart") /\ ad' = ad
  <1>1. /\ t \in Thread /\ TypeOK /\ X(t) \in {0} \cup Adapter /\ "ready" \in Pcs /\ "unstart" \in Rets
        /\ 0 \in {0} \cup Proc
    BY Pc, Sets, Places DEF WorkerPc, WorkerRet
  <1>2. UNCHANGED <<srv, owner, olock, left, shut, clean>> /\ th[t].pc = "init" /\ X(t) \in Adapter
    BY <1>1 DEF Initialize, Owners, Close0, At, IInv, Locked, Holds
  <1>3. CASE Ready(t) /\ ad' = [ad EXCEPT ![X(t)].lock = None]
    <2>1. Ad(X(t), Cur(t), ad[X(t)].closed, ad[X(t)].complete, ad[X(t)].leaving, None)
      BY <1>1, <1>3 DEF Ad, TypeOK, AdapterRecord, Cur
    <2> QED BY <1>1, <1>2, <1>3, <2>1, IdleDoes DEF Ready
  <1>4. CASE Kill(t, 0, "unstart") /\ UNCHANGED ad
    BY <1>1, <1>2, <1>4, KillDoes
  <1> QED BY <1>3, <1>4 DEF Initialize

LEMMA UnstartDoes ==
    ASSUME IInv, NEW t \in Key, Unstart(t)
    PROVE  /\ Typed(t) /\ UNCHANGED <<srv, owner, olock, left, shut, clean>> /\ th[t].pc = "unstart"
           /\ X(t) \in Adapter /\ Released_(t, "failed")
           /\ Ad(X(t), Cur(t), ad[X(t)].closed, ad[X(t)].complete, ad[X(t)].leaving, None)
  <1>1. t \in Thread /\ TypeOK /\ X(t) \in {0} \cup Adapter /\ "failed" \in Ress
    BY Sets, Places DEF Ress
  <1>2. X(t) \in Adapter
    BY <1>1 DEF Unstart, At, IInv, Locked, Holds
  <1>3. Ad(X(t), Cur(t), ad[X(t)].closed, ad[X(t)].complete, ad[X(t)].leaving, None)
    BY <1>1 DEF Unstart, Ad, TypeOK, AdapterRecord, Cur
  <1> QED BY <1>1, <1>2, <1>3, EndDoes DEF Unstart, Owners, Close0, At

LEMMA DispatchDoes ==
    ASSUME IInv, NEW t \in Key, Dispatch(t)
    PROVE  /\ Typed(t) /\ Quiet /\ th[t].pc = "ready"
           /\ \/ Released_(t, "timedOut")
              \/ /\ Is(th'[t], "rpc", X(t), Cur(t), th[t].ret, th[t].nest, th[t].raised, th'[t].got,
                       th[t].turn, th[t].res)
                 /\ th'[t].got = "fail" => ~Up(Cur(t))
  <1>1. /\ t \in Thread /\ TypeOK /\ X(t) \in {0} \cup Adapter /\ "timedOut" \in Ress /\ "rpc" \in Pcs
        /\ "none" \in Gots /\ "fail" \in Gots /\ th \in [Thread -> ThreadRecord]
    BY Pc, Sets, Places DEF Ress, WorkerPc, Gots
  <1>2. Quiet /\ th[t].pc = "ready" /\ Cur(t) \in {0} \cup Proc
    <2>1. X(t) # 0 /\ th[t].pc = "ready"
      BY DEF Dispatch, At, IInv, Work
    <2> QED BY <2>1, <1>1, Places DEF Dispatch, Quiet, Owners, Close0
  <1>3. CASE End(t, "timedOut")
    BY <1>1, <1>2, <1>3, EndDoes
  <1>4. ASSUME NEW a \in Gots, a = "fail" => ~Up(Cur(t)),
               th' = [th EXCEPT ![t].pc = "rpc", ![t].p = Cur(t), ![t].got = a]
        PROVE  /\ Typed(t)
               /\ Is(th'[t], "rpc", X(t), Cur(t), th[t].ret, th[t].nest, th[t].raised, th'[t].got,
                       th[t].turn, th[t].res)
               /\ th'[t].got = "fail" => ~Up(Cur(t))
    <2>1. /\ Is(th'[t], "rpc", th[t].x, Cur(t), th[t].ret, th[t].nest, th[t].raised, a, th[t].turn, th[t].res)
          /\ th'[t] \in ThreadRecord
      BY <1>1, <1>2, <1>4, ToAnswered
    <2>2. th' = [u \in Thread |-> th'[u]]
      BY <1>1, <1>4
    <2> QED BY <1>4, <2>1, <2>2 DEF Typed, Is, X
  <1>5. CASE th' = [th EXCEPT ![t].pc = "rpc", ![t].p = Cur(t), ![t].got = IF Up(Cur(t)) THEN "none" ELSE "fail"]
    <2>1. CASE Up(Cur(t))
      <3>1. th' = [th EXCEPT ![t].pc = "rpc", ![t].p = Cur(t), ![t].got = "none"]
        BY <1>5, <2>1
      <3> QED BY <1>1, <1>2, <1>4, <3>1
    <2>2. CASE ~Up(Cur(t))
      <3>1. th' = [th EXCEPT ![t].pc = "rpc", ![t].p = Cur(t), ![t].got = "fail"]
        BY <1>5, <2>2
      <3> QED BY <1>1, <1>2, <1>4, <2>2, <3>1
    <2> QED BY <2>1, <2>2
  <1> QED BY <1>3, <1>5 DEF Dispatch
-----------------------------------------------------------------------------
(* The turn, the release of an operation, the close and the readers.         *)
LEMMA AcknowledgedDoes ==
    ASSUME IInv, NEW t \in Key, Acknowledged(t)
    PROVE  /\ Typed(t) /\ Quiet /\ th[t].pc = "rpc"
           /\ \/ Is(th'[t], "turn", X(t), th[t].p, th[t].ret, th[t].nest, th[t].raised, "none", "open", th[t].res)
              \/ Tears(t, th[t].p, "join")
  <1>1. /\ t \in Thread /\ TypeOK /\ X(t) \in {0} \cup Adapter /\ "join" \in Rets /\ th[t].p \in {0} \cup Proc
        /\ "turn" \in Pcs /\ "none" \in Gots /\ "open" \in Turns /\ th \in [Thread -> ThreadRecord]
    BY Pc, Sets, Places, Fields DEF WorkerPc, WorkerRet, Gots, Turns
  <1>2. Quiet /\ th[t].pc = "rpc"
    BY DEF Acknowledged, Quiet, Owners, Close0, At
  <1>3. CASE th' = [th EXCEPT ![t].pc = "turn", ![t].turn = "open", ![t].got = "none"]
    <2>1. /\ Is(th'[t], "turn", th[t].x, th[t].p, th[t].ret, th[t].nest, th[t].raised, "none", "open", th[t].res)
          /\ th'[t] \in ThreadRecord
      BY <1>1, <1>3, ToTurn
    <2>2. th' = [u \in Thread |-> th'[u]]
      BY <1>1, <1>3
    <2> QED BY <1>2, <2>1, <2>2 DEF Typed, X
  <1>4. CASE Kill(t, th[t].p, "join")
    BY <1>1, <1>2, <1>4, KillDoes
  <1> QED BY <1>3, <1>4 DEF Acknowledged

LEMMA JoinDoes ==
    ASSUME IInv, NEW t \in Key, Join(t)
    PROVE  /\ Typed(t) /\ Quiet /\ th[t].pc = "join"
           /\ \/ th[t].raised /\ Released_(t, "unverified")
              \/ ~th[t].raised /\ Released_(t, "stopped")
  <1>1. t \in Thread /\ TypeOK /\ "unverified" \in Ress /\ "stopped" \in Ress
    BY Sets, Places DEF Ress
  <1>2. Quiet /\ th[t].pc = "join"
    BY DEF Join, Quiet, Owners, Close0, At
  <1>3. CASE th[t].raised
    <2>1. End(t, "unverified")
      BY <1>3 DEF Join
    <2> QED BY <1>1, <1>2, <1>3, <2>1, EndDoes
  <1>4. CASE ~th[t].raised
    <2>1. End(t, "stopped")
      BY <1>4 DEF Join
    <2> QED BY <1>1, <1>2, <1>4, <2>1, EndDoes
  <1> QED BY <1>3, <1>4

LEMMA WaitingDoes ==
    ASSUME IInv, NEW t \in Key, Waiting(t)
    PROVE  /\ Typed(t) /\ Quiet /\ th[t].pc = "turn"
           /\ \/ Released_(t, "ok") \/ Released_(t, "failed")
              \/ th[t].turn = "lost" /\ Released_(t, "stopped")
              \/ th[t].turn \in {"open", "policy"} /\ Tears(t, th[t].p, "stopped")
  <1>1. /\ t \in Thread /\ TypeOK /\ "ok" \in Ress /\ "failed" \in Ress /\ "stopped" \in Ress
        /\ "stopped" \in Rets /\ th[t].p \in {0} \cup Proc
    BY Pc, Sets, Places, Fields DEF Ress, WorkerRet
  <1>2. Quiet /\ th[t].pc = "turn"
    BY DEF Waiting, Quiet, Owners, Close0, At
  <1>3. th[t].turn \in {"open", "policy", "done", "error", "lost"}
    <2>1. th[t].turn \in Turns /\ th[t].turn # "none"
      BY <1>1, <1>2, Fields DEF IInv, Turn
    <2> QED BY <2>1 DEF Turns
  <1>4. CASE th[t].turn = "done"
    BY <1>1, <1>2, <1>4, EndDoes DEF Waiting
  <1>5. CASE th[t].turn = "error"
    BY <1>1, <1>2, <1>5, EndDoes DEF Waiting
  <1>6. CASE th[t].turn = "lost"
    BY <1>1, <1>2, <1>6, EndDoes DEF Waiting
  <1>7. CASE th[t].turn \in {"open", "policy"}
    <2>1. Kill(t, th[t].p, "stopped")
      BY <1>7 DEF Waiting
    <2> QED BY <1>1, <1>2, <1>7, <2>1, KillDoes
  <1> QED BY <1>3, <1>4, <1>5, <1>6, <1>7

LEMMA StoppedDoes ==
    ASSUME IInv, NEW t \in Key, Stopped(t)
    PROVE  /\ Typed(t) /\ Quiet /\ th[t].pc = "stopped"
           /\ \/ th[t].raised /\ Released_(t, "unverified")
              \/ ~th[t].raised /\ Released_(t, "stopped")
  <1>1. t \in Thread /\ TypeOK /\ "unverified" \in Ress /\ "stopped" \in Ress
    BY Sets, Places DEF Ress
  <1>2. Quiet /\ th[t].pc = "stopped"
    BY DEF Stopped, Quiet, Owners, Close0, At
  <1>3. CASE th[t].raised
    <2>1. End(t, "unverified")
      BY <1>3 DEF Stopped
    <2> QED BY <1>1, <1>2, <1>3, <2>1, EndDoes
  <1>4. CASE ~th[t].raised
    <2>1. End(t, "stopped")
      BY <1>4 DEF Stopped
    <2> QED BY <1>1, <1>2, <1>4, <2>1, EndDoes
  <1> QED BY <1>3, <1>4

LEMMA IdleAgain ==
    ASSUME TypeOK, NEW t \in Thread, NEW l \in Pcs, th' = [th EXCEPT ![t] = Idle(l)]
    PROVE  Typed(t) /\ Starts(t, l, 0)
  <1>1. th \in [Thread -> ThreadRecord] /\ "none" \in Rets /\ "none" \in Gots /\ "none" \in Turns
        /\ "none" \in Ress
    BY DEF TypeOK, Rets, Gots, Turns, Ress
  <1>2. th'[t] = Idle(l)
    BY <1>1
  <1>3. th'[t] \in ThreadRecord
    BY <1>1, <1>2 DEF Idle, ThreadRecord
  <1>4. Is(th'[t], l, 0, 0, "none", FALSE, FALSE, "none", "none", "none")
    BY <1>2 DEF Is, Idle
  <1>5. th' = [u \in Thread |-> th'[u]]
    BY <1>1
  <1> QED BY <1>3, <1>4, <1>5 DEF Typed, Starts

LEMMA ContinueDoes ==
    ASSUME IInv, NEW t \in Key, Continue(t)
    PROVE  Typed(t) /\ Quiet /\ th[t].pc = "release" /\ Starts(t, "idle", 0)
  <1>1. t \in Thread /\ TypeOK /\ "idle" \in Pcs
    BY Sets, Places, Pc DEF WorkerPc
  <1> QED BY <1>1, IdleAgain DEF Continue, Quiet, Owners, Close0, At

LEMMA ReleaseDoes ==
    ASSUME IInv, NEW t \in Key, Release(t)
    PROVE  /\ Typed(t) /\ UNCHANGED <<srv, ad, owner, left, shut, clean>> /\ th[t].pc = "release"
           /\ olock = None
           /\ \/ owner[t] = 0 /\ Starts(t, "idle", 0) /\ olock' = olock
              \/ /\ owner[t] # 0 /\ owner[t] \in Adapter /\ olock' = t
                 /\ Starts(t, "dispose", owner[t]) \/ Starts(t, "close", owner[t])
  <1>1. /\ t \in Thread /\ TypeOK /\ "idle" \in Pcs /\ "dispose" \in Pcs /\ "close" \in Pcs
        /\ owner[t] \in {0} \cup Adapter
    BY Sets, Places, Pc DEF WorkerPc
  <1>2. UNCHANGED <<srv, ad, left, shut, clean>> /\ th[t].pc = "release" /\ olock = None
    BY DEF Release, At, Close0
  <1>3. CASE owner[t] = 0
    BY <1>1, <1>2, <1>3, IdleAgain DEF Release
  <1>4. CASE owner[t] # 0
    <2>1. PICK l \in {"dispose", "close"} : th' = [th EXCEPT ![t] = [Idle(l) EXCEPT !.x = owner[t]]]
      BY <1>4 DEF Release
    <2>2. Typed(t) /\ Starts(t, l, owner[t])
      BY <1>1, <2>1, IdleDoes
    <2>3. Starts(t, "dispose", owner[t]) \/ Starts(t, "close", owner[t])
      BY <2>2
    <2>4. olock' = t /\ owner' = owner /\ owner[t] \in Adapter
      BY <1>1, <1>4 DEF Release, Reserved
    <2> QED BY <1>2, <1>4, <2>2, <2>3, <2>4
  <1> QED BY <1>3, <1>4

LEMMA RelinquishDoes ==
    ASSUME NEW p \in Proc, srv \in [Proc -> ServerRecord], Relinquish(p)
    PROVE  \E l \in {srv[p].life, "down"} :
             Srv(p, l, srv[p].tree, srv[p].result) /\ (l # srv[p].life => Up(p))
  <1>1. PICK l \in {"up", "down"} : srv' = IF Up(p) THEN [srv EXCEPT ![p].life = l] ELSE srv
    BY DEF Relinquish
  <1>2. CASE Up(p)
    <2>1. l \in {srv[p].life, "down"}
      BY <1>2 DEF Up
    <2>2. Srv(p, l, srv[p].tree, srv[p].result)
      BY <1>1, <1>2 DEF Srv, ServerRecord
    <2> QED BY <1>2, <2>1, <2>2
  <1>3. CASE ~Up(p)
    <2>1. Srv(p, srv[p].life, srv[p].tree, srv[p].result)
      BY <1>1, <1>3 DEF Srv
    <2> QED BY <2>1
  <1> QED BY <1>2, <1>3

Dropped(t, b) == owner' = IF b THEN [owner EXCEPT ![t] = 0] ELSE owner
LEMMA DisposeDoes ==
    ASSUME IInv, NEW t \in Key, Dispose(t)
    PROVE  /\ Typed(t) /\ UNCHANGED <<left, shut, clean>> /\ th[t].pc = "dispose" /\ X(t) \in Adapter
           /\ Free(t) /\ olock = t
           /\ \/ /\ ad[X(t)].complete \/ Cur(t) = 0
                 /\ Ad(X(t), Cur(t), TRUE, TRUE, ad[X(t)].leaving, ad[X(t)].lock)
                 /\ Dropped(t, TRUE) /\ olock' = None /\ Starts(t, "idle", 0) /\ srv' = srv
              \/ /\ ~ad[X(t)].complete /\ Cur(t) # 0 /\ Cur(t) \in Proc
                 /\ Ad(X(t), Cur(t), TRUE, ad[X(t)].complete, Cur(t), t)
                 /\ \E l \in {srv[Cur(t)].life, "down"} :
                      Srv(Cur(t), l, srv[Cur(t)].tree, srv[Cur(t)].result) /\ (l # srv[Cur(t)].life => Up(Cur(t)))
                 /\ Goes(t, "leaving", th[t].raised) /\ UNCHANGED <<owner, olock>>
  <1>1. /\ t \in Thread /\ TypeOK /\ "idle" \in Pcs /\ "leaving" \in Pcs /\ srv \in [Proc -> ServerRecord]
        /\ X(t) \in {0} \cup Adapter
    BY Sets, Places, Pc DEF WorkerPc
  <1>2. UNCHANGED <<left, shut, clean>> /\ th[t].pc = "dispose" /\ X(t) \in Adapter /\ Free(t) /\ olock = t
    BY <1>1, Sets DEF Dispose, At, Close0, IInv, Work, Locked, Owning
  <1>3. CASE ad[X(t)].complete \/ Cur(t) = 0
    <2>1. Ad(X(t), Cur(t), TRUE, TRUE, ad[X(t)].leaving, ad[X(t)].lock)
      <3>1. ad' = [ad EXCEPT ![X(t)].complete = TRUE, ![X(t)].closed = TRUE]
        BY <1>3 DEF Dispose
      <3> QED BY <1>1, <3>1 DEF Ad, TypeOK, AdapterRecord, Cur
    <2>2. Typed(t) /\ Starts(t, "idle", 0)
      BY <1>1, <1>3, IdleAgain DEF Dispose, Released
    <2> QED BY <1>2, <1>3, <2>1, <2>2 DEF Dispose, Released, Dropped
  <1>4. CASE ~(ad[X(t)].complete \/ Cur(t) = 0)
    <2>0. ad' = [ad EXCEPT ![X(t)].closed = TRUE, ![X(t)].leaving = Cur(t), ![X(t)].lock = t]
      BY <1>4 DEF Dispose
    <2>1. Ad(X(t), Cur(t), TRUE, ad[X(t)].complete, Cur(t), t)
      BY <1>1, <2>0 DEF Ad, TypeOK, AdapterRecord, Cur
    <2>2. Typed(t) /\ Goes(t, "leaving", th[t].raised)
      BY <1>1, <1>4, GoDoes DEF Dispose
    <2>3. Cur(t) \in Proc /\ Relinquish(Cur(t))
      BY <1>2, <1>4, Places, Sets, <1>1 DEF Dispose
    <2>4. \E l \in {srv[Cur(t)].life, "down"} :
             Srv(Cur(t), l, srv[Cur(t)].tree, srv[Cur(t)].result) /\ (l # srv[Cur(t)].life => Up(Cur(t)))
      BY <1>1, <2>3, RelinquishDoes
    <2> QED BY <1>2, <1>4, <2>1, <2>2, <2>3, <2>4 DEF Dispose
  <1> QED BY <1>3, <1>4

LEMMA LeavingDoes ==
    ASSUME IInv, NEW t \in Key, Leaving(t)
    PROVE  /\ Typed(t) /\ UNCHANGED <<srv, left, shut, clean>> /\ th[t].pc = "leaving" /\ X(t) \in Adapter
           /\ olock' = None /\ Starts(t, "idle", 0)
           /\ \/ /\ Up(Cur(t)) /\ Dropped(t, FALSE)
                 /\ Ad(X(t), Cur(t), ad[X(t)].closed, ad[X(t)].complete, ad[X(t)].leaving, None)
              \/ /\ ~Up(Cur(t)) /\ Dropped(t, TRUE)
                 /\ Ad(X(t), 0, ad[X(t)].closed, TRUE, ad[X(t)].leaving, None)
  <1>1. /\ t \in Thread /\ TypeOK /\ "idle" \in Pcs /\ X(t) \in {0} \cup Adapter
    BY Sets, Places, Pc DEF WorkerPc
  <1>2. UNCHANGED <<srv, left, shut, clean>> /\ th[t].pc = "leaving" /\ X(t) \in Adapter
    BY <1>1, Sets DEF Leaving, At, Close0, IInv, Locked, Holds
  <1>3. olock' = None /\ th' = [th EXCEPT ![t] = Idle("idle")]
    BY DEF Leaving, Released
  <1>4. Typed(t) /\ Starts(t, "idle", 0)
    BY <1>1, <1>3, IdleAgain
  <1>5. CASE Up(Cur(t))
    <2>1. Ad(X(t), Cur(t), ad[X(t)].closed, ad[X(t)].complete, ad[X(t)].leaving, None)
      BY <1>1, <1>5 DEF Leaving, Ad, TypeOK, AdapterRecord, Cur
    <2> QED BY <1>2, <1>3, <1>4, <1>5, <2>1 DEF Leaving, Released, Dropped
  <1>6. CASE ~Up(Cur(t))
    <2>0. ad' = [ad EXCEPT ![X(t)].lock = None, ![X(t)].cur = 0, ![X(t)].complete = TRUE]
      BY <1>6 DEF Leaving
    <2>1. Ad(X(t), 0, ad[X(t)].closed, TRUE, ad[X(t)].leaving, None)
      BY <1>1, <2>0 DEF Ad, TypeOK, AdapterRecord
    <2> QED BY <1>2, <1>3, <1>4, <1>6, <2>1 DEF Leaving, Released, Dropped
  <1> QED BY <1>5, <1>6
LEMMA CloseAdapterDoes ==
    ASSUME IInv, NEW t \in Thread, CloseAdapter(t)
    PROVE  /\ Typed(t) /\ UNCHANGED <<srv, owner, olock, left, shut, clean>> /\ th[t].pc = "close"
           /\ Free(t)
           /\ \/ ad[X(t)].complete /\ Goes(t, "closed", FALSE) /\ ad' = ad
              \/ /\ ~ad[X(t)].complete
                 /\ Ad(X(t), Cur(t), TRUE, ad[X(t)].complete, ad[X(t)].leaving, t)
                 /\ Is(th'[t], "kill", X(t), 0, "closed", TRUE, FALSE, th[t].got, th[t].turn, th[t].res)
  <1>1. /\ TypeOK /\ "closed" \in Pcs /\ "closed" \in Rets /\ 0 \in {0} \cup Proc /\ TRUE \in BOOLEAN
    BY Places, Pc DEF WorkerPc, WorkerRet
  <1>2. UNCHANGED <<srv, owner, olock, left, shut, clean>> /\ th[t].pc = "close" /\ Free(t)
    BY DEF CloseAdapter, Owners, Close0, At
  <1>3. CASE ad[X(t)].complete
    BY <1>1, <1>2, <1>3, GoRaised DEF CloseAdapter
  <1>4. CASE ~ad[X(t)].complete
    <2>0. /\ ad' = [ad EXCEPT ![X(t)].closed = TRUE, ![X(t)].lock = t]
          /\ th' = [th EXCEPT ![t].pc = "kill", ![t].p = 0, ![t].ret = "closed",
                              ![t].nest = TRUE, ![t].raised = FALSE]
      BY <1>4 DEF CloseAdapter
    <2>1. Ad(X(t), Cur(t), TRUE, ad[X(t)].complete, ad[X(t)].leaving, t)
      BY <1>1, <2>0 DEF Ad, TypeOK, AdapterRecord, Cur
    <2>2. Typed(t) /\ Is(th'[t], "kill", X(t), 0, "closed", TRUE, FALSE, th[t].got, th[t].turn, th[t].res)
      BY <1>1, <2>0, KillsAt
    <2> QED BY <1>2, <1>4, <2>1, <2>2
  <1> QED BY <1>3, <1>4

LEMMA ClosedDoes ==
    ASSUME IInv, NEW t \in Thread, Closed(t)
    PROVE  /\ Typed(t) /\ shut' = shut /\ th[t].pc = "closed" /\ X(t) \in Adapter
           /\ Ad(X(t), Cur(t), ad[X(t)].closed, ad'[X(t)].complete, ad[X(t)].leaving, None)
           /\ ad'[X(t)].complete <=> ad[X(t)].complete \/ ~th[t].raised
           /\ \/ srv' = srv
              \/ /\ Cur(t) \in Proc
                 /\ \E l \in {srv[Cur(t)].life, "down"} :
                      Srv(Cur(t), l, srv[Cur(t)].tree, srv[Cur(t)].result) /\ (l # srv[Cur(t)].life => Up(Cur(t)))
           /\ \/ /\ t \in Key /\ Starts(t, "idle", 0) /\ olock' = None /\ Dropped(t, ~th[t].raised)
                 /\ UNCHANGED <<left, clean>>
              \/ /\ t \notin Key /\ Starts(t, "next", 0) /\ olock' = olock
                 /\ clean' = (clean /\ ~th[t].raised)
                 /\ \E k \in left : /\ owner[k] = X(t) /\ left' = left \ {k}
                                    /\ Dropped(k, ~th[t].raised)
  <1>1. /\ TypeOK /\ "idle" \in Pcs /\ "next" \in Pcs /\ srv \in [Proc -> ServerRecord]
        /\ X(t) \in {0} \cup Adapter
    BY Places, Pc DEF WorkerPc, CloserPc
  <1>2. shut' = shut /\ th[t].pc = "closed" /\ X(t) \in Adapter
    BY <1>1, Sets DEF Closed, At, IInv, Teardown
  <1>3. /\ Ad(X(t), Cur(t), ad[X(t)].closed, ad'[X(t)].complete, ad[X(t)].leaving, None)
        /\ ad'[X(t)].complete <=> ad[X(t)].complete \/ ~th[t].raised
    <2>1. ad' = [ad EXCEPT ![X(t)].lock = None, ![X(t)].complete = @ \/ ~th[t].raised]
      BY DEF Closed
    <2>2. Ad(X(t), Cur(t), ad[X(t)].closed, ad'[X(t)].complete, ad[X(t)].leaving, None)
      BY <1>1, <1>2, <2>1 DEF Ad, TypeOK, AdapterRecord, Cur
    <2>3. ad'[X(t)].complete = (ad[X(t)].complete \/ ~th[t].raised)
      BY <1>1, <1>2, <2>1 DEF TypeOK, AdapterRecord
    <2> QED BY <2>2, <2>3
  <1>4. \/ srv' = srv
        \/ /\ Cur(t) \in Proc
           /\ \E l \in {srv[Cur(t)].life, "down"} :
                Srv(Cur(t), l, srv[Cur(t)].tree, srv[Cur(t)].result) /\ (l # srv[Cur(t)].life => Up(Cur(t)))
    <2>1. Relinquish(Cur(t)) /\ Cur(t) \in {0} \cup Proc
      BY <1>1, <1>2, Places, Sets DEF Closed
    <2>2. CASE Cur(t) = 0
      BY <2>1, <2>2 DEF Relinquish, Up
    <2>3. CASE Cur(t) # 0
      BY <1>1, <2>1, <2>3, RelinquishDoes
    <2> QED BY <2>2, <2>3
  <1>5. CASE t \in Key
    <2>1. Released(t, ~th[t].raised) /\ UNCHANGED <<left, clean>>
      BY <1>5 DEF Closed
    <2>2. Typed(t) /\ Starts(t, "idle", 0)
      BY <1>1, <2>1, IdleAgain DEF Released
    <2> QED BY <1>2, <1>3, <1>4, <1>5, <2>1, <2>2 DEF Released, Dropped
  <1>6. CASE t \notin Key
    <2> DEFINE k == CHOOSE i \in left : owner[i] = X(t)
    <2>1. /\ left' = left \ {k} /\ clean' = (clean /\ ~th[t].raised)
          /\ owner' = IF th[t].raised THEN owner ELSE [owner EXCEPT ![k] = 0]
          /\ th' = [th EXCEPT ![t] = Idle("next")] /\ UNCHANGED olock
      BY <1>6 DEF Closed
    <2>2. Typed(t) /\ Starts(t, "next", 0)
      BY <1>1, <2>1, IdleAgain
    <2>3. t = Closer
      BY <1>2, <1>6 DEF Thread, IInv, Control, ReaderPc, Killing
    <2>4. \E i \in left : owner[i] = X(t)
      BY <1>2, <2>3 DEF IInv, Closing, X
    <2>5. k \in left /\ owner[k] = X(t)
      BY <2>4
    <2>6. Dropped(k, ~th[t].raised)
      BY <2>1 DEF Dropped
    <2> HIDE DEF k
    <2> QED BY <1>2, <1>3, <1>4, <1>6, <2>1, <2>2, <2>5, <2>6
  <1> QED BY <1>5, <1>6

LEMMA CloseProviderDoes ==
    ASSUME IInv, CloseProvider
    PROVE  /\ Typed(Closer) /\ UNCHANGED <<srv, ad, owner>> /\ th[Closer].pc = "idle" /\ olock = None
           /\ olock' = Closer /\ shut' = TRUE /\ clean' = TRUE /\ left' = {k \in Key : owner[k] # 0}
           /\ Goes(Closer, "next", th[Closer].raised)
  <1>1. TypeOK /\ "next" \in Pcs /\ Closer \in Thread
    BY Places, Pc, Sets DEF CloserPc
  <1> QED BY <1>1, GoDoes DEF CloseProvider, At

LEMMA NextOwnerDoes ==
    ASSUME IInv, NextOwner
    PROVE  /\ Typed(Closer) /\ UNCHANGED <<srv, ad, owner, left, shut, clean>> /\ th[Closer].pc = "next"
           /\ \/ \E k \in left : Starts(Closer, "close", owner[k]) /\ olock' = olock
              \/ left = {} /\ olock' = None /\ Goes(Closer, "idle", th[Closer].raised)
  <1>1. TypeOK /\ "close" \in Pcs /\ "idle" \in Pcs /\ Closer \in Thread
    BY Places, Pc, Sets DEF CloserPc
  <1>2. UNCHANGED <<srv, ad, owner, left, shut, clean>> /\ th[Closer].pc = "next"
    BY DEF NextOwner, Close0, At
  <1>3. CASE left = {} /\ olock' = None /\ Go(Closer, "idle")
    BY <1>1, <1>2, <1>3, GoDoes
  <1>4. ASSUME NEW k \in left, olock' = olock, th' = [th EXCEPT ![Closer] = [Idle("close") EXCEPT !.x = owner[k]]]
        PROVE  Typed(Closer) /\ Starts(Closer, "close", owner[k])
    <2>1. owner[k] \in {0} \cup Adapter
      BY <1>1 DEF TypeOK
    <2> QED BY <1>1, <1>4, <2>1, IdleDoes
  <1> QED BY <1>2, <1>3, <1>4 DEF NextOwner

LEMMA AbandonDoes ==
    ASSUME IInv, NEW t \in Key, Abandon(t)
    PROVE  /\ th' = th /\ UNCHANGED <<srv, olock, left, shut, clean>> /\ th[t].pc = "idle" /\ olock = None
           /\ owner[t] \in Adapter /\ Dropped(t, TRUE)
           /\ \A x \in Adapter : /\ ad'[x].made = ad[x].made /\ ad'[x].cur = ad[x].cur
                                 /\ ad'[x].closed = ad[x].closed /\ ad'[x].complete = ad[x].complete
                                 /\ ad'[x].leaving = ad[x].leaving /\ ad'[x].lock = ad[x].lock
                                 /\ ad'[x].given <=> ad[x].given \/ x = owner[t]
  <1>1. owner[t] \in Adapter /\ ad \in [Adapter -> AdapterRecord]
    BY DEF IInv, TypeOK, Abandon
  <1>2. ad' = [ad EXCEPT ![owner[t]].given = TRUE]
    BY DEF Abandon
  <1> QED BY <1>1, <1>2 DEF Abandon, Dropped, Close0, At, AdapterRecord

LEMMA EndOfStreamDoes ==
    ASSUME IInv, NEW t \in Proc, EndOfStream(t)
    PROVE  /\ Typed(t) /\ Quiet /\ th[t].pc = "reading"
           /\ \/ ad[X(t)].leaving = t /\ Starts(t, "over", 0)
              \/ Is(th'[t], "kill", X(t), th[t].p, "read", th[t].nest, th[t].raised, th[t].got, th[t].turn,
                    th[t].res)
  <1>1. /\ t \in Thread /\ TypeOK /\ "over" \in Pcs /\ "kill" \in Pcs /\ "read" \in Rets
        /\ th \in [Thread -> ThreadRecord] /\ "none" \in Rets /\ "none" \in Gots /\ "none" \in Turns
        /\ "none" \in Ress
    BY Places, Pc, Sets DEF ReaderPc, Killing, Gots, Turns, Ress
  <1>2. Quiet /\ th[t].pc = "reading"
    BY DEF EndOfStream, Quiet, Owners, Close0, At
  <1>3. CASE ad[X(t)].leaving = t
    <2> DEFINE f == Failed(th, X(t), t)
    <2>1. f \in [Thread -> ThreadRecord]
      BY <1>1, Waking
    <2>2. th' = [f EXCEPT ![t] = Idle("over")]
      BY <1>3 DEF EndOfStream
    <2> HIDE DEF f
    <2>3. th'[t] = Idle("over")
      BY <1>1, <2>1, <2>2
    <2>4. th'[t] \in ThreadRecord
      BY <1>1, <2>3 DEF Idle, ThreadRecord
    <2>5. Is(th'[t], "over", 0, 0, "none", FALSE, FALSE, "none", "none", "none")
      BY <2>3 DEF Is, Idle
    <2>6. th' = [u \in Thread |-> th'[u]]
      BY <2>1, <2>2
    <2> QED BY <1>2, <1>3, <2>4, <2>5, <2>6 DEF Typed, Starts
  <1>4. CASE ad[X(t)].leaving # t
    <2>1. th' = [th EXCEPT ![t].pc = "kill", ![t].ret = "read"]
      BY <1>4 DEF EndOfStream, WakeAfter
    <2>2. Is(th'[t], "kill", X(t), th[t].p, "read", th[t].nest, th[t].raised, th[t].got, th[t].turn, th[t].res)
      BY <1>1, <2>1 DEF Is, ThreadRecord, X
    <2>3. th'[t] = [th[t] EXCEPT !.pc = "kill", !.ret = "read"] /\ th[t] \in ThreadRecord
      BY <1>1, <2>1 DEF ThreadRecord
    <2>4. th'[t] \in ThreadRecord
      BY <1>1, <2>3 DEF ThreadRecord
    <2>5. th' = [u \in Thread |-> th'[u]]
      BY <1>1, <2>1
    <2> QED BY <1>2, <2>2, <2>4, <2>5 DEF Typed
  <1> QED BY <1>3, <1>4

LEMMA ReaderEndsDoes ==
    ASSUME IInv, NEW t \in Proc, ReaderEnds(t)
    PROVE  Typed(t) /\ Quiet /\ th[t].pc = "read" /\ Starts(t, "over", 0)
  <1>1. /\ t \in Thread /\ TypeOK /\ "over" \in Pcs
        /\ th \in [Thread -> ThreadRecord] /\ "none" \in Rets /\ "none" \in Gots /\ "none" \in Turns
        /\ "none" \in Ress
    BY Places, Pc, Sets DEF ReaderPc, Killing, Gots, Turns, Ress
  <1>2. Quiet /\ th[t].pc = "read"
    BY DEF ReaderEnds, Quiet, Owners, Close0, At
  <1> DEFINE f == IF th[t].raised THEN Failed(th, X(t), t) ELSE th
  <1>3. f \in [Thread -> ThreadRecord]
    BY <1>1, Waking
  <1>4. th' = [f EXCEPT ![t] = Idle("over")]
    BY DEF ReaderEnds
  <1> HIDE DEF f
  <1>5. th'[t] = Idle("over")
    BY <1>1, <1>3, <1>4
  <1>6. th'[t] \in ThreadRecord
    BY <1>1, <1>5 DEF Idle, ThreadRecord
  <1>7. Is(th'[t], "over", 0, 0, "none", FALSE, FALSE, "none", "none", "none")
    BY <1>5 DEF Is, Idle
  <1>8. th' = [u \in Thread |-> th'[u]]
    BY <1>3, <1>4
  <1> QED BY <1>2, <1>6, <1>7, <1>8 DEF Typed, Starts
-----------------------------------------------------------------------------
(* The types.                                                                *)
LEMMA ThTyped ==
    ASSUME IInv, NEW t \in Thread, Moves(t)
    PROVE  th' \in [Thread -> ThreadRecord]
  <1>1. Typed(t) \/ th' = th
    BY KillNothingDoes, KillEnterDoes, ReapDoes, WakeDoes, ObtainDoes, CallDoes, ForgetDoes,
       StartDoes,
       StartTimesOutDoes, LaunchDoes, InitializeDoes, UnstartDoes, DispatchDoes, AcknowledgedDoes, JoinDoes,
       WaitingDoes, StoppedDoes, ContinueDoes, ReleaseDoes, DisposeDoes, LeavingDoes, CloseAdapterDoes,
       ClosedDoes, CloseProviderDoes, NextOwnerDoes, AbandonDoes, EndOfStreamDoes, ReaderEndsDoes
       DEF Moves, Worker, KillSteps
  <1>2. CASE Typed(t)
    <2>1. \A u \in Thread : th'[u] \in ThreadRecord
      BY <1>2, Others DEF Typed
    <2> QED BY <1>2, <2>1 DEF Typed
  <1>3. CASE th' = th
    BY <1>3, Places
  <1> QED BY <1>1, <1>2, <1>3

LEMMA AdPut ==
    ASSUME NEW f \in [Adapter -> AdapterRecord], NEW x \in Adapter
    PROVE  /\ [f EXCEPT ![x].made = TRUE] \in [Adapter -> AdapterRecord]
           /\ [f EXCEPT ![x].given = TRUE] \in [Adapter -> AdapterRecord]
           /\ [f EXCEPT ![x].complete = TRUE, ![x].closed = TRUE] \in [Adapter -> AdapterRecord]
           /\ \A c \in {0} \cup Proc :
                /\ [f EXCEPT ![x].cur = c] \in [Adapter -> AdapterRecord]
                /\ [f EXCEPT ![x].cur = c, ![x].tearing = 0] \in [Adapter -> AdapterRecord]
           /\ \A l \in Thread \cup {None} :
                /\ [f EXCEPT ![x].lock = l] \in [Adapter -> AdapterRecord]
                /\ [f EXCEPT ![x].closed = TRUE, ![x].lock = l] \in [Adapter -> AdapterRecord]
                /\ \A c \in {0} \cup Proc :
                     /\ [f EXCEPT ![x].lock = l, ![x].tearing = c] \in [Adapter -> AdapterRecord]
                     /\ [f EXCEPT ![x].closed = TRUE, ![x].leaving = c, ![x].lock = l]
                          \in [Adapter -> AdapterRecord]
                     /\ [f EXCEPT ![x].lock = l, ![x].cur = c, ![x].complete = TRUE]
                          \in [Adapter -> AdapterRecord]
                /\ [f EXCEPT ![x].lock = l, ![x].complete = TRUE] \in [Adapter -> AdapterRecord]
                /\ [f EXCEPT ![x].lock = l, ![x].complete = FALSE] \in [Adapter -> AdapterRecord]
  <1>1. f[x] \in AdapterRecord /\ \A r \in AdapterRecord : [f EXCEPT ![x] = r] \in [Adapter -> AdapterRecord]
    OBVIOUS
  <1>2. /\ [f EXCEPT ![x].made = TRUE] \in [Adapter -> AdapterRecord]
        /\ [f EXCEPT ![x].given = TRUE] \in [Adapter -> AdapterRecord]
    <2>1. [f[x] EXCEPT !.made = TRUE] \in AdapterRecord /\ [f[x] EXCEPT !.given = TRUE] \in AdapterRecord
      BY <1>1 DEF AdapterRecord
    <2> QED BY <1>1, <2>1
  <1>3. [f EXCEPT ![x].complete = TRUE, ![x].closed = TRUE] \in [Adapter -> AdapterRecord]
    <2>1. [f[x] EXCEPT !.complete = TRUE, !.closed = TRUE] \in AdapterRecord
      BY <1>1 DEF AdapterRecord
    <2> QED BY <1>1, <2>1
  <1>4. ASSUME NEW c \in {0} \cup Proc
        PROVE  /\ [f EXCEPT ![x].cur = c] \in [Adapter -> AdapterRecord]
               /\ [f EXCEPT ![x].cur = c, ![x].tearing = 0] \in [Adapter -> AdapterRecord]
    <2>1. [f[x] EXCEPT !.cur = c] \in AdapterRecord
      BY <1>1 DEF AdapterRecord
    <2>2. [f[x] EXCEPT !.cur = c, !.tearing = 0] \in AdapterRecord
      BY <1>1 DEF AdapterRecord
    <2> QED BY <1>1, <2>1, <2>2
  <1>5. ASSUME NEW l \in Thread \cup {None}
        PROVE  /\ [f EXCEPT ![x].lock = l] \in [Adapter -> AdapterRecord]
               /\ [f EXCEPT ![x].closed = TRUE, ![x].lock = l] \in [Adapter -> AdapterRecord]
    <2>1. [f[x] EXCEPT !.lock = l] \in AdapterRecord
      BY <1>1 DEF AdapterRecord
    <2>2. [f[x] EXCEPT !.closed = TRUE, !.lock = l] \in AdapterRecord
      BY <1>1 DEF AdapterRecord
    <2> QED BY <1>1, <2>1, <2>2
  <1>6. ASSUME NEW l \in Thread \cup {None}, NEW c \in {0} \cup Proc
        PROVE  /\ [f EXCEPT ![x].lock = l, ![x].tearing = c] \in [Adapter -> AdapterRecord]
               /\ [f EXCEPT ![x].closed = TRUE, ![x].leaving = c, ![x].lock = l]
                          \in [Adapter -> AdapterRecord]
               /\ [f EXCEPT ![x].lock = l, ![x].cur = c, ![x].complete = TRUE]
                          \in [Adapter -> AdapterRecord]
    <2>1. [f[x] EXCEPT !.lock = l, !.tearing = c] \in AdapterRecord
      BY <1>1 DEF AdapterRecord
    <2>2. [f[x] EXCEPT !.closed = TRUE, !.leaving = c, !.lock = l] \in AdapterRecord
      BY <1>1 DEF AdapterRecord
    <2>3. [f[x] EXCEPT !.lock = l, !.cur = c, !.complete = TRUE] \in AdapterRecord
      BY <1>1 DEF AdapterRecord
    <2> QED BY <1>1, <2>1, <2>2, <2>3
  <1>7. ASSUME NEW l \in Thread \cup {None}
        PROVE  /\ [f EXCEPT ![x].lock = l, ![x].complete = TRUE] \in [Adapter -> AdapterRecord]
               /\ [f EXCEPT ![x].lock = l, ![x].complete = FALSE] \in [Adapter -> AdapterRecord]
    <2>1. [f[x] EXCEPT !.lock = l, !.complete = TRUE] \in AdapterRecord
      BY <1>1 DEF AdapterRecord
    <2>2. [f[x] EXCEPT !.lock = l, !.complete = FALSE] \in AdapterRecord
      BY <1>1 DEF AdapterRecord
    <2> QED BY <1>1, <2>1, <2>2
  <1> QED BY <1>2, <1>3, <1>4, <1>5, <1>6, <1>7
(* Which steps write what.                                                   *)
LEMMA Writers ==
    ASSUME IInv, NEW t \in Thread, Moves(t)
    PROVE  /\ \/ ad' = ad \/ KillEnter(t) \/ Wake(t) \/ CloseAdapter(t) \/ Closed(t)
              \/ t \in Key /\ (Obtain(t) \/ Forget(t) \/ Start(t) \/ Launch(t) \/ Initialize(t) \/ Unstart(t)
                               \/ Dispose(t) \/ Leaving(t) \/ Abandon(t))
           /\ \/ srv' = srv \/ KillEnter(t) \/ Reap(t) \/ Wake(t) \/ Closed(t)
              \/ t \in Key /\ (Launch(t) \/ Dispose(t))
           /\ \/ UNCHANGED <<owner, shut, olock, left, clean>>
              \/ Closed(t) \/ (t = Closer /\ (CloseProvider \/ NextOwner))
              \/ t \in Key /\ (Obtain(t) \/ Release(t) \/ Dispose(t) \/ Leaving(t) \/ Abandon(t))
  <1>1. CASE KillSteps(t) \/ CloseAdapter(t) \/ Closed(t)
    <2>1. CASE KillNothing(t)
      BY <2>1 DEF KillNothing, Owners, Close0
    <2>2. CASE KillEnter(t)
      BY <2>2 DEF KillEnter, Owners, Close0
    <2>3. CASE Reap(t)
      BY <2>3 DEF Reap, Owners, Close0
    <2>4. CASE Wake(t)
      BY <2>4 DEF Wake, Owners, Close0
    <2>5. CASE CloseAdapter(t)
      BY <2>5 DEF CloseAdapter, Owners, Close0
    <2>6. CASE Closed(t)
      BY <2>6
    <2> QED BY <1>1, <2>1, <2>2, <2>3, <2>4, <2>5, <2>6 DEF KillSteps
  <1>2. CASE t \in Key /\ (Obtain(t) \/ Abandon(t) \/ Forget(t) \/ Launch(t) \/ Dispose(t) \/ Leaving(t)
                          \/ Start(t) \/ Initialize(t) \/ Unstart(t))
    BY <1>2 DEF Obtain, Abandon, Forget, Launch, Start, Initialize, Unstart, Leaving, Owners,
       Close0
  <1>3. CASE t \in Key /\ (Call(t) \/ StartTimesOut(t) \/ Dispatch(t) \/ Acknowledged(t) \/ Join(t)
                          \/ Waiting(t) \/ Stopped(t) \/ Continue(t) \/ Release(t))
    BY <1>3 DEF Call, StartTimesOut, Dispatch, Acknowledged, Join, Waiting, Stopped, Continue,
       Release,
       Owners, Close0
  <1>4. CASE t \in Proc /\ (EndOfStream(t) \/ ReaderEnds(t))
    BY <1>4 DEF EndOfStream, ReaderEnds, Owners, Close0
  <1>5. CASE t = Closer /\ (CloseProvider \/ NextOwner)
    BY <1>5 DEF CloseProvider, NextOwner
  <1> QED BY <1>1, <1>2, <1>3, <1>4, <1>5 DEF Moves, Worker

LEMMA AdTyped ==
    ASSUME IInv, NEW t \in Thread, Moves(t)
    PROVE  ad' \in [Adapter -> AdapterRecord]
  <1>t. /\ ad \in [Adapter -> AdapterRecord] /\ t \in Thread \cup {None} /\ None \in Thread \cup {None}
        /\ 0 \in {0} \cup Proc /\ Key \subseteq Thread
    BY Places, Sets
  <1>1. CASE ad' = ad
    BY <1>1, <1>t
  <1>2. ASSUME NEW l \in Thread \cup {None}, ad' = [ad EXCEPT ![X(t)].lock = l], X(t) \in Adapter
        PROVE  ad' \in [Adapter -> AdapterRecord]
    BY <1>2, <1>t, AdPut
  <1>KillEnter. CASE KillEnter(t)
    <2>1. ad' = [ad EXCEPT ![X(t)].lock = t, ![X(t)].tearing = Cur(t)]
      BY <1>KillEnter DEF KillEnter
    <2> QED BY <1>KillEnter, <1>t, <2>1, AdPut, KillEnterDoes
  <1>Wake. CASE Wake(t)
    <2>1. ad' = [ad EXCEPT ![X(t)].lock = Unlocked(t)]
      BY <1>Wake DEF Wake
    <2>2. X(t) \in Adapter /\ Unlocked(t) \in Thread \cup {None}
      BY <1>Wake, <1>t, WakeDoes DEF Unlocked, AdapterRecord
    <2> QED BY <1>2, <2>1, <2>2
  <1>Obtain. CASE t \in Key /\ Obtain(t)
    <2>1. ad' = ad \/ \E x \in Adapter : ad' = [ad EXCEPT ![x].made = TRUE]
      BY <1>Obtain, ObtainDoes
    <2>2. ASSUME NEW x \in Adapter, ad' = [ad EXCEPT ![x].made = TRUE]
          PROVE  ad' \in [Adapter -> AdapterRecord]
      BY <1>t, <2>2, AdPut
    <2> QED BY <1>1, <2>1, <2>2
  <1>Forget. CASE t \in Key /\ Forget(t)
    <2>1. ad' = ad \/ ad' = [ad EXCEPT ![X(t)].cur = 0]
      BY <1>Forget DEF Forget
    <2>2. X(t) \in Adapter
      BY <1>Forget, ForgetDoes
    <2>3. ASSUME ad' = [ad EXCEPT ![X(t)].cur = 0]
          PROVE  ad' \in [Adapter -> AdapterRecord]
      <3>1. [ad EXCEPT ![X(t)].cur = 0] \in [Adapter -> AdapterRecord]
        BY <1>t, <2>2, AdPut
      <3> QED BY <2>3, <3>1
    <2> QED BY <1>1, <2>1, <2>3
  <1>Start. CASE t \in Key /\ Start(t)
    <2>1. ad' = ad \/ ad' = [ad EXCEPT ![X(t)].lock = t]
      BY <1>Start DEF Start, MayStart
    <2> QED BY <1>Start, <1>1, <1>2, <1>t, <2>1, StartDoes
  <1>Launch. CASE t \in Key /\ Launch(t)
    <2>1. \/ ad' = [ad EXCEPT ![X(t)].lock = None]
          \/ \E p \in Proc : ad' = [ad EXCEPT ![X(t)].cur = p, ![X(t)].tearing = 0]
      BY <1>Launch DEF Launch
    <2>2. CASE \E p \in Proc : ad' = [ad EXCEPT ![X(t)].cur = p, ![X(t)].tearing = 0]
      <3>1. PICK p \in Proc : ad' = [ad EXCEPT ![X(t)].cur = p, ![X(t)].tearing = 0]
        BY <2>2
      <3>2. X(t) \in Adapter /\ p \in {0} \cup Proc
        BY <1>Launch, LaunchDoes
      <3> QED BY <1>t, <3>1, <3>2, AdPut
    <2> QED BY <1>Launch, <1>2, <1>t, <2>1, <2>2, LaunchDoes
  <1>Initialize. CASE t \in Key /\ Initialize(t)
    <2>1. ad' = ad \/ ad' = [ad EXCEPT ![X(t)].lock = None]
      BY <1>Initialize DEF Initialize
    <2> QED BY <1>Initialize, <1>1, <1>2, <1>t, <2>1, InitializeDoes
  <1>Unstart. CASE t \in Key /\ Unstart(t)
    <2>1. ad' = [ad EXCEPT ![X(t)].lock = None]
      BY <1>Unstart DEF Unstart
    <2> QED BY <1>Unstart, <1>2, <1>t, <2>1, UnstartDoes
  <1>Dispose. CASE t \in Key /\ Dispose(t)
    <2>1. \/ ad' = [ad EXCEPT ![X(t)].complete = TRUE, ![X(t)].closed = TRUE]
          \/ ad' = [ad EXCEPT ![X(t)].closed = TRUE, ![X(t)].leaving = Cur(t), ![X(t)].lock = t]
      BY <1>Dispose DEF Dispose
    <2>2. X(t) \in Adapter /\ Cur(t) \in {0} \cup Proc
      BY <1>Dispose, <1>t, DisposeDoes, Places, Sets
    <2>3. CASE ad' = [ad EXCEPT ![X(t)].closed = TRUE, ![X(t)].leaving = Cur(t), ![X(t)].lock = t]
      BY <1>t, <2>2, <2>3, AdPut
    <2>4. CASE ad' = [ad EXCEPT ![X(t)].complete = TRUE, ![X(t)].closed = TRUE]
      BY <1>t, <2>2, <2>4, AdPut
    <2> QED BY <2>1, <2>3, <2>4
  <1>Leaving. CASE t \in Key /\ Leaving(t)
    <2>1. \/ ad' = [ad EXCEPT ![X(t)].lock = None]
          \/ ad' = [ad EXCEPT ![X(t)].lock = None, ![X(t)].cur = 0, ![X(t)].complete = TRUE]
      BY <1>Leaving DEF Leaving
    <2>2. X(t) \in Adapter
      BY <1>Leaving, LeavingDoes
    <2>3. CASE ad' = [ad EXCEPT ![X(t)].lock = None, ![X(t)].cur = 0, ![X(t)].complete = TRUE]
      BY <1>t, <2>2, <2>3, AdPut
    <2> QED BY <1>2, <1>t, <2>1, <2>2, <2>3
  <1>CloseAdapter. CASE CloseAdapter(t)
    <2>1. ad' = ad \/ ad' = [ad EXCEPT ![X(t)].closed = TRUE, ![X(t)].lock = t]
      BY <1>CloseAdapter DEF CloseAdapter
    <2>2. X(t) \in Adapter
      <3>1. X(t) # 0
        BY <1>CloseAdapter, CloseAdapterDoes DEF IInv, Teardown, Killing
      <3> QED BY <3>1, Places
    <2>3. CASE ad' = [ad EXCEPT ![X(t)].closed = TRUE, ![X(t)].lock = t]
      BY <1>t, <2>2, <2>3, AdPut
    <2> QED BY <1>1, <2>1, <2>3
  <1>Closed. CASE Closed(t)
    <2> DEFINE b == ad[X(t)].complete \/ ~th[t].raised
    <2>1. ad' = [ad EXCEPT ![X(t)].lock = None, ![X(t)].complete = @ \/ ~th[t].raised] /\ X(t) \in Adapter
      BY <1>Closed, ClosedDoes DEF Closed
    <2>2. CASE b
      <3>1. ad' = [ad EXCEPT ![X(t)].lock = None, ![X(t)].complete = TRUE]
        BY <1>t, <2>1, <2>2 DEF AdapterRecord
      <3>2. [ad EXCEPT ![X(t)].lock = None, ![X(t)].complete = TRUE] \in [Adapter -> AdapterRecord]
        BY <1>t, <2>1, AdPut
      <3> QED BY <3>1, <3>2
    <2>3. CASE ~b
      <3>1. ad' = [ad EXCEPT ![X(t)].lock = None, ![X(t)].complete = FALSE]
        BY <1>t, <2>1, <2>3 DEF AdapterRecord
      <3>2. [ad EXCEPT ![X(t)].lock = None, ![X(t)].complete = FALSE] \in [Adapter -> AdapterRecord]
        BY <1>t, <2>1, AdPut
      <3> QED BY <3>1, <3>2
    <2> QED BY <2>2, <2>3
  <1>Abandon. CASE t \in Key /\ Abandon(t)
    <2>1. ad' = [ad EXCEPT ![owner[t]].given = TRUE] /\ owner[t] \in Adapter
      BY <1>Abandon, AbandonDoes DEF Abandon
    <2>2. [ad EXCEPT ![owner[t]].given = TRUE] \in [Adapter -> AdapterRecord]
      BY <1>t, <2>1, AdPut
    <2> QED BY <2>1, <2>2
  <1> QED BY Writers, <1>1, <1>KillEnter, <1>Wake, <1>Obtain, <1>Forget, <1>Start, <1>Launch,
     <1>Initialize,
       <1>Unstart, <1>Dispose, <1>Leaving, <1>CloseAdapter, <1>Closed, <1>Abandon

LEMMA SrvTyped ==
    ASSUME IInv, NEW t \in Thread, Moves(t)
    PROVE  srv' \in [Proc -> ServerRecord]
  <1>t. srv \in [Proc -> ServerRecord] /\ Key \subseteq Thread /\ Closer \in Thread
    BY Places, Sets
  <1>1. CASE srv' = srv
    BY <1>1, <1>t
  <1>2. ASSUME NEW p \in Proc
        PROVE  /\ \A l \in {"none", "up", "down"} : [srv EXCEPT ![p].life = l] \in [Proc -> ServerRecord]
               /\ \A b \in BOOLEAN : [srv EXCEPT ![p].seen = b] \in [Proc -> ServerRecord]
               /\ \A r \in {"none", "ok", "bad", "unsaved"} :
                    [srv EXCEPT ![p].result = r] \in [Proc -> ServerRecord]
               /\ [srv EXCEPT ![p].life = "down", ![p].tree = FALSE] \in [Proc -> ServerRecord]
    <2>1. srv[p] \in ServerRecord /\ \A s \in ServerRecord : [srv EXCEPT ![p] = s] \in [Proc -> ServerRecord]
      BY <1>t
    <2>2. ASSUME NEW l \in {"none", "up", "down"}
          PROVE  [srv EXCEPT ![p].life = l] \in [Proc -> ServerRecord]
      BY <2>1, [srv[p] EXCEPT !.life = l] \in ServerRecord DEF ServerRecord
    <2>3. ASSUME NEW b \in BOOLEAN
          PROVE  [srv EXCEPT ![p].seen = b] \in [Proc -> ServerRecord]
      BY <2>1, [srv[p] EXCEPT !.seen = b] \in ServerRecord DEF ServerRecord
    <2>4. ASSUME NEW r \in {"none", "ok", "bad", "unsaved"}
          PROVE  [srv EXCEPT ![p].result = r] \in [Proc -> ServerRecord]
      BY <2>1, [srv[p] EXCEPT !.result = r] \in ServerRecord DEF ServerRecord
    <2>5. [srv EXCEPT ![p].life = "down", ![p].tree = FALSE] \in [Proc -> ServerRecord]
      BY <2>1, [srv[p] EXCEPT !.life = "down", !.tree = FALSE] \in ServerRecord DEF ServerRecord
    <2> QED BY <2>2, <2>3, <2>4, <2>5
  <1>3. ASSUME NEW p \in Proc, Relinquish(p)
        PROVE  srv' \in [Proc -> ServerRecord]
    <2>1. \E l \in {"up", "down"} : srv' = srv \/ srv' = [srv EXCEPT ![p].life = l]
      BY <1>3 DEF Relinquish
    <2>2. ASSUME NEW l \in {"up", "down"}, srv' = [srv EXCEPT ![p].life = l]
          PROVE  srv' \in [Proc -> ServerRecord]
      BY <1>2, <2>2
    <2> QED BY <1>1, <2>1, <2>2
  <1>KillEnter. CASE KillEnter(t)
    <2>1. /\ srv' = [srv EXCEPT ![Cur(t)].seen = srv[Cur(t)].seen \/ Up(Cur(t))] /\ Cur(t) \in Proc
      BY <1>KillEnter, <1>t, KillEnterDoes DEF KillEnter
    <2>2. \E b \in BOOLEAN : srv' = [srv EXCEPT ![Cur(t)].seen = b]
      <3>1. CASE srv[Cur(t)].seen \/ Up(Cur(t))
        BY <2>1, <3>1, srv' = [srv EXCEPT ![Cur(t)].seen = TRUE]
      <3>2. CASE ~(srv[Cur(t)].seen \/ Up(Cur(t)))
        BY <2>1, <3>2, srv' = [srv EXCEPT ![Cur(t)].seen = FALSE]
      <3> QED BY <3>1, <3>2
    <2> QED BY <1>2, <2>1, <2>2
  <1>Reap. CASE Reap(t)
    <2>1. Cur(t) \in Proc
      BY <1>Reap, ReapDoes
    <2>2. \/ srv' = srv \/ srv' = [srv EXCEPT ![Cur(t)].life = "down", ![Cur(t)].tree = FALSE]
          \/ \E l \in {srv[Cur(t)].life, "down"} : srv' = [srv EXCEPT ![Cur(t)].life = l]
      BY <1>Reap DEF Reap, TreeExited, Unverified
    <2>3. srv[Cur(t)].life \in {"none", "up", "down"}
      BY <1>t, <2>1 DEF ServerRecord
    <2>4. ASSUME NEW l \in {"none", "up", "down"}, srv' = [srv EXCEPT ![Cur(t)].life = l]
          PROVE  srv' \in [Proc -> ServerRecord]
      BY <1>2, <2>1, <2>4
    <2>5. [srv EXCEPT ![Cur(t)].life = "down", ![Cur(t)].tree = FALSE] \in [Proc -> ServerRecord]
      BY <1>2, <2>1
    <2> QED BY <1>1, <2>2, <2>3, <2>4, <2>5
  <1>Wake. CASE Wake(t)
    <2>1. Cur(t) \in Proc
      BY <1>Wake, WakeDoes
    <2>2. \E r \in {"ok", "bad", "unsaved"} : srv' = [srv EXCEPT ![Cur(t)].result = r]
      BY <1>Wake DEF Wake
    <2>3. ASSUME NEW r \in {"ok", "bad", "unsaved"}, srv' = [srv EXCEPT ![Cur(t)].result = r]
          PROVE  srv' \in [Proc -> ServerRecord]
      BY <1>2, <2>1, <2>3
    <2> QED BY <2>2, <2>3
  <1>Launch. CASE t \in Key /\ Launch(t)
    <2>1. CASE srv' = srv
      BY <2>1, <1>1
    <2>2. CASE \E p \in Proc : srv' = [srv EXCEPT ![p] = [NoServer EXCEPT !.life = "up", !.tree = TRUE,
                                                             !.of = X(t), !.key = t]]
      <3>1. X(t) \in Adapter
        BY <1>Launch, LaunchDoes
      <3>2. [NoServer EXCEPT !.life = "up", !.tree = TRUE, !.of = X(t), !.key = t] \in ServerRecord
        BY <1>Launch, <3>1 DEF NoServer, ServerRecord
      <3> QED BY <1>t, <2>2, <3>2
    <2> QED BY <1>Launch, <2>1, <2>2 DEF Launch
  <1>Dispose. CASE t \in Key /\ Dispose(t)
    <2>1. srv' = srv \/ (Cur(t) \in Proc /\ Relinquish(Cur(t)))
      BY <1>Dispose, DisposeDoes DEF Dispose
    <2> QED BY <1>1, <1>3, <2>1
  <1>Closed. CASE Closed(t)
    <2>1. srv' = srv \/ (Cur(t) \in Proc /\ Relinquish(Cur(t)))
      BY <1>Closed, ClosedDoes DEF Closed
    <2> QED BY <1>1, <1>3, <2>1
  <1> QED BY Writers, <1>1, <1>KillEnter, <1>Reap, <1>Wake, <1>Launch, <1>Dispose, <1>Closed

LEMMA RestTyped ==
    ASSUME IInv, NEW t \in Thread, Moves(t)
    PROVE  /\ owner' \in [Key -> {0} \cup Adapter] /\ shut' \in BOOLEAN /\ olock' \in {olock, None, t}
           /\ olock' \in Thread \cup {None} /\ left' \subseteq Key /\ clean' \in BOOLEAN
  <1>t. /\ owner \in [Key -> {0} \cup Adapter] /\ shut \in BOOLEAN /\ olock \in Thread \cup {None}
        /\ left \subseteq Key /\ clean \in BOOLEAN /\ Key \subseteq Thread /\ Closer \in Thread
        /\ \A k \in Key, b \in BOOLEAN : Dropped(k, b) => owner' \in [Key -> {0} \cup Adapter]
    <2>1. owner \in [Key -> {0} \cup Adapter]
      BY Places
    <2>2. \A k \in Key, b \in BOOLEAN : Dropped(k, b) => owner' \in [Key -> {0} \cup Adapter]
      BY <2>1 DEF Dropped
    <2> QED BY <2>1, <2>2, Sets DEF IInv, TypeOK
  <1>Obtain. CASE t \in Key /\ Obtain(t)
    <2>1. \E x \in Adapter : owner' = [owner EXCEPT ![t] = x]
      BY <1>Obtain, ObtainDoes
    <2>2. owner' \in [Key -> {0} \cup Adapter]
      BY <1>t, <2>1
    <2> QED BY <1>t, <1>Obtain, <2>2, ObtainDoes
  <1>Release. CASE t \in Key /\ Release(t)
    BY <1>t, <1>Release, ReleaseDoes
  <1>Dispose. CASE t \in Key /\ Dispose(t)
    BY <1>t, <1>Dispose, DisposeDoes
  <1>Leaving. CASE t \in Key /\ Leaving(t)
    BY <1>t, <1>Leaving, LeavingDoes
  <1>Abandon. CASE t \in Key /\ Abandon(t)
    BY <1>t, <1>Abandon, AbandonDoes
  <1>Closed. CASE Closed(t)
    <2>1. \E k \in Key, b \in BOOLEAN : Dropped(k, b)
      <3>1. th[t].raised \in BOOLEAN
        BY Fields DEF IInv
      <3> QED BY <1>t, <1>Closed, <3>1, ClosedDoes
    <2>2. clean' \in BOOLEAN /\ left' \subseteq Key /\ olock' \in {olock, None} /\ shut' = shut
      BY <1>t, <1>Closed, ClosedDoes
    <2> QED BY <1>t, <2>1, <2>2
  <1>Provider. CASE t = Closer /\ (CloseProvider \/ NextOwner)
    <2>1. CASE CloseProvider
      BY <1>t, <1>Provider, <2>1, CloseProviderDoes
    <2>2. CASE NextOwner
      BY <1>t, <1>Provider, <2>2, NextOwnerDoes
    <2> QED BY <1>Provider, <2>1, <2>2
  <1> QED BY <1>t, Writers, <1>Obtain, <1>Release, <1>Dispose, <1>Leaving, <1>Abandon,
     <1>Closed, <1>Provider
-----------------------------------------------------------------------------
LEMMA Parts ==
    ASSUME IInv
    PROVE  /\ \A t \in Thread : Control(t) /\ Locked(t) /\ Teardown(t)
           /\ \A k \in Key : Work(k) /\ Turn(k)
           /\ \A p \in Proc : Process(p) /\ Reading(p)
           /\ \A x \in Adapter : Adapted(x)
  BY DEF IInv
(* What a step of t may change: an adapter, a process, an owner, the locks.  *)
LEMMA Locks ==
    ASSUME IInv, NEW t \in Thread, NEW x \in Adapter, ad[x].lock # None
    PROVE  LET u == ad[x].lock IN
             /\ u \in Thread /\ X(u) = x /\ (Holds(u) \/ th[u].pc = "closed")
             /\ u = t => X(t) = x /\ (Holds(t) \/ th[t].pc = "closed")
  BY Places DEF IInv, Adapted, AdapterRecord

AdKept(t, x) ==
    /\ ad[x].made => ad'[x].made
    /\ ad[x].closed => ad'[x].closed
    /\ ad[x].complete => ad'[x].complete
    /\ ad[x].given => ad'[x].given
    /\ ad'[x].lock # ad[x].lock => x = X(t) /\ ad[x].lock \in {None, t} /\ ad'[x].lock \in {None, t}
    /\ ad'[x].closed # ad[x].closed => x = X(t) /\ ad[x].lock \in {None, t}
    /\ ad'[x].complete # ad[x].complete => x = X(t)
    /\ \/ ad'[x].cur = ad[x].cur
       \/ x = X(t) /\ t \in Key /\ ad'[x].cur = 0 /\ Forget(t) /\ ~th[t].raised
       \/ x = X(t) /\ t \in Key /\ ad'[x].cur = 0 /\ Leaving(t) /\ ~Up(ad[x].cur) /\ ad'[x].complete
       \/ x = X(t) /\ t \in Key /\ Launch(t)
    /\ \/ ad'[x].leaving = ad[x].leaving
       \/ x = X(t) /\ t \in Key /\ Dispose(t)

LEMMA AdFrame ==
    ASSUME IInv, NEW t \in Thread, Moves(t), NEW x \in Adapter
    PROVE  AdKept(t, x)
  <1>t. ad \in [Adapter -> AdapterRecord]
    BY Places
  <1>1. CASE ad' = ad
    BY <1>1 DEF AdKept
  <1>2. CASE KillEnter(t)
    <2>1. Free(t) /\ th[t].pc = "kill"
      BY <1>2 DEF KillEnter, At
    <2> QED BY <1>2, <1>t, <2>1, KillEnterDoes DEF AdKept, Ad, Free, Cur
  <1>3. CASE Wake(t)
    <2>1. ad[X(t)].lock = t
      BY <1>3, Parts, WakeDoes DEF Locked, Holds
    <2> QED BY <1>3, <1>t, <2>1, WakeDoes DEF AdKept, Ad, Cur
  <1>4. CASE CloseAdapter(t)
    BY <1>4, <1>t, CloseAdapterDoes, ZenonT(40) DEF AdKept, Ad, Free, Cur
  <1>5. CASE Closed(t)
    <2>1. ad[X(t)].lock \in {None, t}
      BY <1>5, Parts, ClosedDoes DEF Locked, Adapted
    <2> QED BY <1>5, <1>t, <2>1, ClosedDoes DEF AdKept, Ad, Cur
  <1>6. CASE t \in Key /\ Obtain(t)
    <2>1. PICK y \in Adapter : ad' = ad \/ ad' = [ad EXCEPT ![y].made = TRUE]
      BY <1>6, ObtainDoes
    <2> QED BY <1>t, <1>1, <2>1 DEF AdKept, AdapterRecord
  <1>7. CASE t \in Key /\ Forget(t)
    <2>1. CASE th[t].raised
      BY <1>7, <1>1, <2>1, ForgetDoes
    <2>2. CASE ~th[t].raised
      BY <1>7, <1>t, <2>2, ForgetDoes DEF AdKept, Ad
    <2> QED BY <2>1, <2>2
  <1>8. CASE t \in Key /\ Start(t)
    BY <1>8, <1>t, <1>1, StartDoes DEF AdKept, Ad, Free, Cur
  <1>9. CASE t \in Key /\ Launch(t)
    <2>1. ad[X(t)].lock = t
      BY <1>9, LaunchDoes, Sets DEF IInv, Locked, Holds
    <2> QED BY <1>9, <1>t, <2>1, LaunchDoes, ZenonT(40) DEF AdKept, Ad, Launched, Cur
  <1>10. CASE t \in Key /\ Initialize(t)
    <2>1. ad[X(t)].lock = t
      BY <1>10, InitializeDoes, Sets DEF IInv, Locked, Holds
    <2> QED BY <1>10, <1>t, <1>1, <2>1, InitializeDoes DEF AdKept, Ad, Cur
  <1>11. CASE t \in Key /\ Unstart(t)
    <2>1. ad[X(t)].lock = t
      BY <1>11, UnstartDoes, Sets DEF IInv, Locked, Holds
    <2> QED BY <1>11, <1>t, <2>1, UnstartDoes DEF AdKept, Ad, Cur
  <1>12. CASE t \in Key /\ Dispose(t)
    BY <1>12, <1>t, DisposeDoes, ZenonT(40) DEF AdKept, Ad, Free, Cur
  <1>13. CASE t \in Key /\ Leaving(t)
    <2>1. ad[X(t)].lock = t
      BY <1>13, LeavingDoes, Sets DEF IInv, Locked, Holds
    <2> QED BY <1>13, <1>t, <2>1, LeavingDoes DEF AdKept, Ad, Cur
  <1>14. CASE t \in Key /\ Abandon(t)
    BY <1>14, <1>t, AbandonDoes DEF AdKept
  <1> QED BY Writers, <1>1, <1>2, <1>3, <1>4, <1>5, <1>6, <1>7, <1>8, <1>9, <1>10, <1>11,
     <1>12, <1>13, <1>14

SrvKept(t, p) ==
    /\ srv'[p].of = srv[p].of /\ srv'[p].key = srv[p].key
    /\ srv'[p].life = srv[p].life \/ (srv'[p].life = "down" /\ srv[p].life # "none")
    /\ srv'[p].tree => srv[p].tree
    /\ \/ srv'[p].result = srv[p].result
       \/ /\ Wake(t) /\ p = Cur(t) /\ srv[p].result # "ok" /\ srv'[p].result \in {"ok", "bad", "unsaved"}
          /\ srv'[p].result = "ok" => srv[p].life = "down" /\ ~srv[p].tree /\ ~th'[t].raised
          /\ th'[t].raised \/ srv'[p].result = "ok"

LEMMA SrvFrame ==
    ASSUME IInv, NEW t \in Thread, Moves(t), NEW p \in Proc
    PROVE  SrvKept(t, p) \/ (t \in Key /\ Launch(t) /\ Launched(t, p))
  <1>t. srv \in [Proc -> ServerRecord]
    BY Places
  <1>1. CASE srv'[p] = srv[p]
    BY <1>1 DEF SrvKept
  <1>3. ASSUME X(t) \in Adapter, Cur(t) \in Proc
        PROVE  srv[Cur(t)].life # "none"
    BY <1>3, Sets DEF IInv, Adapted, Cur
  <1>4. CASE KillEnter(t)
    BY <1>4, <1>1, KillEnterDoes DEF SrvKept, Srv
  <1>5. CASE Reap(t)
    BY <1>5, <1>3, <1>1, ReapDoes DEF SrvKept, Srv
  <1>6. CASE Wake(t)
    <2>1. PICK r \in {"ok", "bad", "unsaved"} :
                /\ Srv(Cur(t), srv[Cur(t)].life, srv[Cur(t)].tree, r)
                /\ r = "ok" <=> ~th'[t].raised
                /\ r = "ok" => ~th[t].raised
      BY <1>6, WakeDoes
    <2>2. /\ srv[Cur(t)].result # "ok"
          /\ ~th[t].raised => srv[Cur(t)].life = "down" /\ ~srv[Cur(t)].tree
      BY <1>6, WakeDoes DEF IInv, Teardown
    <2>3. CASE p # Cur(t)
      BY <1>1, <2>1, <2>3 DEF Srv
    <2>4. CASE p = Cur(t)
      BY <1>6, <2>1, <2>2, <2>4 DEF Srv, SrvKept
    <2> QED BY <2>3, <2>4
  <1>7. CASE t \in Key /\ Launch(t)
    <2>1. CASE srv' = srv
      BY <1>1, <2>1
    <2>2. CASE \E q \in Proc : Launched(t, q)
      BY <1>1, <1>7, <2>2 DEF Launched
    <2> QED BY <1>7, <2>1, <2>2, LaunchDoes
  <1>8. CASE t \in Key /\ Dispose(t)
    <2>1. CASE srv' = srv
      BY <1>1, <2>1
    <2>2. CASE srv' # srv
      <3>1. PICK l \in {srv[Cur(t)].life, "down"} : Srv(Cur(t), l, srv[Cur(t)].tree, srv[Cur(t)].result)
        BY <1>8, <2>2, DisposeDoes
      <3>2. X(t) \in Adapter /\ Cur(t) \in Proc
        BY <1>8, <2>2, DisposeDoes
      <3> QED BY <1>1, <1>3, <3>1, <3>2 DEF SrvKept, Srv
    <2> QED BY <2>1, <2>2
  <1>9. CASE Closed(t)
    <2>1. CASE srv' = srv
      BY <1>1, <2>1
    <2>2. CASE srv' # srv
      <3>1. PICK l \in {srv[Cur(t)].life, "down"} : Srv(Cur(t), l, srv[Cur(t)].tree, srv[Cur(t)].result)
        BY <1>9, <2>2, ClosedDoes
      <3>2. X(t) \in Adapter /\ Cur(t) \in Proc
        BY <1>9, <2>2, ClosedDoes
      <3> QED BY <1>1, <1>3, <3>1, <3>2 DEF SrvKept, Srv
    <2> QED BY <2>1, <2>2
  <1> QED BY Writers, <1>1, <1>4, <1>5, <1>6, <1>7, <1>8, <1>9

OwnerKept(t, k) ==
    \/ owner'[k] = owner[k]
    \/ k = t
    \/ /\ t = Closer /\ Closed(t) /\ ~th[t].raised /\ k \in left /\ owner[k] = X(t) /\ owner'[k] = 0
OlockKept(t) == \/ olock' = olock
                \/ olock = None /\ olock' = t
                \/ olock = t /\ olock' = None

LEMMA OwnerFrame ==
    ASSUME IInv, NEW t \in Thread, Moves(t), NEW k \in Key
    PROVE  OwnerKept(t, k)
  <1>t. owner \in [Key -> {0} \cup Adapter]
    BY Places
  <1>1. CASE owner' = owner
    BY <1>1 DEF OwnerKept
  <1>2. CASE t \in Key /\ (Obtain(t) \/ Dispose(t) \/ Leaving(t) \/ Abandon(t) \/ Release(t))
    <2>1. owner' = owner \/ \E y : owner' = [owner EXCEPT ![t] = y]
      <3>1. CASE Obtain(t)
        BY <1>2, <3>1, ObtainDoes
      <3> QED BY <1>2, <3>1, DisposeDoes, LeavingDoes, AbandonDoes, ReleaseDoes DEF Dropped
    <2> QED BY <1>t, <1>1, <2>1 DEF OwnerKept
  <1>3. CASE Closed(t)
    <2>1. CASE t \in Key
      BY <1>3, <1>t, <2>1, ClosedDoes DEF OwnerKept, Dropped
    <2>2. CASE t \notin Key
      <3>1. t = Closer
        BY <1>3, <2>2, ClosedDoes DEF Thread, IInv, Control, ReaderPc, Killing
      <3>2. PICK i \in left : owner[i] = X(t) /\ Dropped(i, ~th[t].raised)
        BY <1>3, <2>2, ClosedDoes
      <3>3. i \in Key
        BY <3>2 DEF IInv, TypeOK
      <3> QED BY <1>3, <1>t, <3>1, <3>2, <3>3 DEF OwnerKept, Dropped
    <2> QED BY <2>1, <2>2
  <1>4. CASE t = Closer /\ (CloseProvider \/ NextOwner)
    BY <1>4, <1>1, CloseProviderDoes, NextOwnerDoes
  <1> QED BY Writers, <1>1, <1>2, <1>3, <1>4

LEMMA OlockFrame ==
    ASSUME IInv, NEW t \in Thread, Moves(t)
    PROVE  OlockKept(t)
  <1>t. (Owning(t) => olock = t) /\ Key \subseteq Thread /\ Closer \in Thread /\ \A k \in Key : k # Closer
    BY Sets DEF IInv, Locked
  <1>1. CASE olock' = olock
    BY <1>1 DEF OlockKept
  <1>2. CASE t \in Key /\ Release(t)
    BY <1>2, ReleaseDoes DEF OlockKept
  <1>3. CASE t \in Key /\ Dispose(t)
    BY <1>3, <1>1, DisposeDoes DEF OlockKept
  <1>4. CASE t \in Key /\ Leaving(t)
    BY <1>4, <1>t, LeavingDoes DEF OlockKept, Owning
  <1>5. CASE Closed(t)
    BY <1>5, <1>1, <1>t, ClosedDoes DEF OlockKept, Owning
  <1>6. CASE t = Closer /\ CloseProvider
    BY <1>6, CloseProviderDoes DEF OlockKept
  <1>7. CASE t = Closer /\ NextOwner
    BY <1>7, <1>1, <1>t, NextOwnerDoes DEF OlockKept, Owning
  <1>8. CASE t \in Key /\ (Obtain(t) \/ Abandon(t))
    BY <1>8, <1>1, ObtainDoes, AbandonDoes
  <1> QED BY Writers, <1>1, <1>2, <1>3, <1>4, <1>5, <1>6, <1>7, <1>8
-----------------------------------------------------------------------------
(* What the steps of t leave to another thread u.                            *)
LEMMA ProcKept ==
    ASSUME IInv, NEW t \in Thread, Moves(t), NEW p \in Proc, srv[p].life # "none"
    PROVE  SrvKept(t, p)
  BY SrvFrame DEF Launched

LEMMA ResultKept ==
    ASSUME IInv, NEW t \in Thread, Moves(t), NEW p \in Proc
    PROVE  /\ srv[p].result # "none" => srv'[p].result # "none"
           /\ srv[p].result = "ok" => srv'[p].result = "ok"
           /\ srv[p].result # "none" => srv[p].life # "none"
           /\ srv[p].life # "none" /\ ~Up(p) => ~(p # 0 /\ srv'[p].life = "up")
  <1>1. srv[p].result # "none" => srv[p].life # "none"
    BY Parts DEF Process
  <1>2. CASE srv[p].life = "none"
    BY <1>1, <1>2
  <1>3. CASE srv[p].life # "none"
    BY <1>1, <1>3, ProcKept, Sets DEF SrvKept, Up
  <1> QED BY <1>2, <1>3

LEMMA GoneKept ==
    ASSUME IInv, NEW t \in Thread, Moves(t), NEW p \in {0} \cup Proc, Gone(p)
    PROVE  p = 0 \/ srv'[p].result = "ok"
  BY ResultKept DEF Gone

LEMMA OneWorker ==
    ASSUME IInv, NEW t \in Key, NEW k \in Key, X(t) = X(k), X(k) \in Adapter
    PROVE  t = k
  BY DEF IInv, Single, Of

LEMMA Own ==
    ASSUME IInv, NEW t \in Thread, X(t) \in Adapter, Cur(t) # 0
    PROVE  Cur(t) \in Proc /\ srv[Cur(t)].life # "none" /\ srv[Cur(t)].of = X(t)
  <1>1. Cur(t) \in Proc
    BY Places, Sets
  <1>2. Adapted(X(t))
    BY Parts
  <1> QED BY <1>1, <1>2 DEF Adapted, Cur

LEMMA CurKept ==
    ASSUME IInv, NEW t \in Thread, Moves(t), NEW k \in Key, k # t, X(k) # 0
    PROVE  ad'[X(k)].cur = ad[X(k)].cur /\ ad'[X(k)].leaving = ad[X(k)].leaving
  <1>1. X(k) \in Adapter
    BY Places, Sets
  <1> QED BY <1>1, AdFrame, OneWorker DEF AdKept

LEMMA Held ==
    ASSUME IInv, NEW t \in Thread, NEW u \in Thread, u # t, Holds(t), Holds(u)
    PROVE  X(t) # X(u)
  BY Parts DEF Locked

LEMMA CurHeld ==
    ASSUME IInv, NEW t \in Thread, Moves(t), NEW u \in Thread, u # t,
           th[u].pc \in {"reap", "reapLate", "wake"}
    PROVE  /\ ad'[X(u)].cur = ad[X(u)].cur /\ Cur(u) \in Proc /\ SrvKept(t, Cur(u))
           /\ srv'[Cur(u)].result # "ok"
  <1>1. X(u) \in Adapter /\ Cur(u) # 0 /\ srv[Cur(u)].result # "ok" /\ Holds(u)
    BY Parts, Places DEF Teardown, Killing, Holds
  <1>2. Cur(u) \in Proc /\ srv[Cur(u)].life # "none" /\ srv[Cur(u)].of = X(u)
    BY <1>1, Own
  <1>3. ASSUME ad'[X(u)].cur # ad[X(u)].cur
        PROVE  FALSE
    <2>1. X(u) = X(t) /\ t \in Key /\ ((Forget(t) /\ ~th[t].raised) \/ Leaving(t) \/ Launch(t))
      BY <1>1, <1>3, AdFrame DEF AdKept
    <2>2. CASE Forget(t) /\ ~th[t].raised
      <3>1. Gone(Cur(t)) /\ Cur(t) = Cur(u)
        BY <2>1, <2>2, Parts, ForgetDoes DEF Teardown, Cur
      <3> QED BY <1>1, <3>1 DEF Gone
    <2>3. CASE Leaving(t) \/ Launch(t)
      BY <1>1, <2>1, <2>3, Held, LeavingDoes, LaunchDoes DEF Holds
    <2> QED BY <2>1, <2>2, <2>3
  <1>4. SrvKept(t, Cur(u))
    BY <1>2, ProcKept
  <1>5. ASSUME srv'[Cur(u)].result = "ok"
        PROVE  FALSE
    <2>1. Wake(t) /\ Cur(u) = Cur(t)
      BY <1>1, <1>4, <1>5 DEF SrvKept
    <2>2. Holds(t) /\ X(t) \in Adapter /\ Cur(t) \in Proc
      BY <2>1, WakeDoes DEF Holds
    <2>3. srv[Cur(t)].of = X(t)
      BY <2>2, Own, Sets
    <2> QED BY <1>1, <1>2, <2>1, <2>2, <2>3, Held
  <1> QED BY <1>2, <1>3, <1>4, <1>5

LEMMA LaunchedIs ==
    ASSUME IInv, NEW t \in Key, Launch(t), NEW u \in Proc, srv'[u].life = "up",
           u = Cardinality({q \in Proc : srv[q].life # "none"}) + 1
    PROVE  Launched(t, u) /\ X(t) \in Adapter
  <1>1. srv[u].life = "none" /\ \A q \in Proc : q < u => srv[q].life # "none"
    BY FreshServer
  <1>2. PICK p \in Proc : Launched(t, p)
    BY <1>1, LaunchDoes
  <1>3. ~(p < u) /\ ~(u < p)
    BY <1>1, <1>2 DEF Launched
  <1>4. p \in Nat /\ u \in Nat
    BY Sets
  <1>5. p = u
    BY <1>3, <1>4
  <1> QED BY <1>2, <1>5, LaunchDoes

LEMMA ControlByOthers ==
    ASSUME IInv, NEW t \in Thread, Moves(t), NEW u \in Thread, u # t
    PROVE  Control(u)'
  <1>1. CASE Same(u)
    <2>1. X(u) # 0 => ad'[X(u)].made
      <3>1. X(u) # 0 => X(u) \in Adapter /\ ad[X(u)].made
        BY Parts, Places DEF Control
      <3> QED BY <3>1, AdFrame DEF AdKept
    <2>2. Control(u)
      BY Parts
    <2> QED BY <1>1, <2>1, <2>2 DEF Control, Same, X
  <1>2. CASE t \in Key /\ u \in Proc /\ Launched(t, u) /\ X(t) \in Adapter
    <2>1. Is(th'[u], "reading", X(t), u, "none", FALSE, FALSE, "none", "none", "none")
      BY <1>2 DEF Launched
    <2>2. ad'[X(t)].made
      BY <1>2, Parts, AdFrame, Sets DEF Control, AdKept
    <2> QED BY <1>2, <2>1, <2>2, Sets DEF Control, Is, X, ReaderPc, Killing
  <1> QED BY <1>1, <1>2, Others, LaunchedIs

LEMMA LockedByOthers ==
    ASSUME IInv, NEW t \in Thread, Moves(t), NEW u \in Thread, u # t
    PROVE  Locked(u)'
  <1>0. Locked(u) /\ Control(u) /\ OlockKept(t) /\ u # None
    BY Parts, OlockFrame, Sets
  <1>1. CASE Same(u)
    <2>1. (Holds(u))' <=> Holds(u)
      BY <1>1 DEF Same, Holds
    <2>2. (Owning(u))' <=> Owning(u)
      BY <1>1 DEF Same, Owning
    <2>3. X(u)' = X(u)
      BY <1>1 DEF Same, X
    <2>4. Holds(u) => X(u) # 0 /\ ad'[X(u)].lock = u
      <3>1. Holds(u) => X(u) \in Adapter /\ ad[X(u)].lock = u
        BY <1>0, Places DEF Locked
      <3> QED BY <1>0, <3>1, AdFrame, Sets DEF AdKept
    <2>5. th[u].pc = "closed" => ad'[X(u)].lock = u \/ (ad'[X(u)].complete /\ ~th[u].raised)
      <3>1. th[u].pc = "closed" => X(u) \in Adapter
        BY Parts, Places DEF Teardown
      <3> QED BY <1>0, <3>1, AdFrame DEF AdKept, Locked
    <2>6. th[u].pc \in {"launch", "init", "unstart"} \/ th[u].ret \in {"launch", "unstart"} => ~ad'[X(u)].closed
      <3>1. th[u].pc \in {"launch", "init", "unstart"} \/ th[u].ret \in {"launch", "unstart"} => Holds(u)
        BY <1>0 DEF Control, Holds, Killing
      <3>2. Holds(u) => X(u) \in Adapter /\ ad[X(u)].lock = u
        BY <1>0, Places DEF Locked
      <3> QED BY <1>0, <3>1, <3>2, AdFrame DEF AdKept, Locked
    <2>7. olock' = u <=> Owning(u)
      BY <1>0 DEF OlockKept, Locked
    <2> QED BY <1>1, <2>1, <2>2, <2>3, <2>4, <2>5, <2>6, <2>7 DEF Locked, Same
  <1>2. CASE t \in Key /\ u \in Proc /\ Launched(t, u)
    <2>1. Is(th'[u], "reading", X(t), u, "none", FALSE, FALSE, "none", "none", "none")
      BY <1>2 DEF Launched
    <2>2. ~(Owning(u))' /\ ~Owning(u) /\ ~(Holds(u))'
      BY <1>2, <2>1, Sets DEF Owning, Is, Holds
    <2> QED BY <1>0, <2>1, <2>2 DEF Locked, OlockKept, Is
  <1> QED BY <1>1, <1>2, Others, LaunchedIs

LEMMA TeardownByOthers ==
    ASSUME IInv, NEW t \in Thread, Moves(t), NEW u \in Thread, u # t
    PROVE  Teardown(u)'
  <1>0. Teardown(u) /\ Control(u) /\ Locked(u)
    BY Parts
  <1>1. CASE Same(u)
    <2>1. X(u)' = X(u) /\ Cur(u)' = ad'[X(u)].cur
      BY <1>1 DEF Same, X, Cur
    <2>2. th[u].ret = "launch" => th[u].p = ad'[X(u)].cur
      <3>1. th[u].ret = "launch" => u \in Key /\ X(u) # 0
        BY <1>0 DEF Control, Teardown, Thread, Killing
      <3> QED BY <1>0, <3>1, CurKept DEF Teardown, Cur
    <2>3. th[u].pc \in {"reap", "reapLate", "wake"} =>
            /\ ad'[X(u)].cur = Cur(u) /\ Cur(u) # 0 /\ srv'[Cur(u)].result # "ok"
            /\ th[u].pc = "wake" /\ ~th[u].raised => srv'[Cur(u)].life = "down" /\ ~srv'[Cur(u)].tree
      BY <1>0, CurHeld, Sets DEF Teardown, Cur, SrvKept
    <2>4. th[u].pc \in {"forget", "launch", "closed"} /\ ~th[u].raised =>
            ad'[X(u)].cur = 0 \/ srv'[ad'[X(u)].cur].result = "ok"
      <3> SUFFICES ASSUME th[u].pc \in {"forget", "launch", "closed"}, ~th[u].raised
                   PROVE  ad'[X(u)].cur = 0 \/ srv'[ad'[X(u)].cur].result = "ok"
        OBVIOUS
      <3>1. X(u) \in Adapter /\ Gone(Cur(u)) /\ Cur(u) \in {0} \cup Proc
        BY <1>0, Places DEF Teardown
      <3>2. CASE ad'[X(u)].cur = ad[X(u)].cur
        BY <3>1, <3>2, GoneKept DEF Cur
      <3>3. CASE ad'[X(u)].cur = 0
        BY <3>3
      <3>4. CASE X(u) = X(t) /\ t \in Key /\ Launch(t)
        <4>1. u \notin Key
          BY <3>1, <3>4, OneWorker
        <4>2. th[u].pc = "closed"
          BY <1>0, <4>1 DEF Control, Thread, ReaderPc, CloserPc, Killing
        <4>3. Holds(t) /\ ~ad[X(t)].closed /\ ad[X(t)].lock = t
          BY <3>4, LaunchDoes, Parts, Sets DEF Holds, Locked
        <4> QED BY <1>0, <3>1, <3>4, <4>2, <4>3, Parts DEF Locked, Adapted
      <3> QED BY <3>1, <3>2, <3>3, <3>4, AdFrame DEF AdKept
    <2>5. th[u].pc \in {"leaving", "closed"} \/ th[u].ret = "closed" => ad'[X(u)].closed
      <3>1. th[u].pc \in {"leaving", "closed"} \/ th[u].ret = "closed" => X(u) \in Adapter
        BY <1>0, Places DEF Teardown, Locked, Holds, Control
      <3> QED BY <1>0, <3>1, AdFrame DEF Teardown, AdKept
    <2> QED BY <1>0, <1>1, <2>1, <2>2, <2>3, <2>4, <2>5 DEF Teardown, Same, Gone
  <1>2. CASE t \in Key /\ u \in Proc /\ Launched(t, u)
    <2>1. Is(th'[u], "reading", X(t), u, "none", FALSE, FALSE, "none", "none", "none")
      BY <1>2 DEF Launched
    <2> QED BY <2>1 DEF Teardown, Is, Killing
  <1> QED BY <1>1, <1>2, Others, LaunchedIs
LEMMA ReadingOn ==
    ASSUME IInv, NEW t \in Thread, Moves(t), t \in Proc
    PROVE  th'[t].pc # "reading"
  <1>1. Control(t) /\ t \notin Key /\ t # Closer
    BY Parts, Sets
  <1>2. CASE KillNothing(t)
    BY <1>1, <1>2, KillNothingDoes DEF Control, Stays, Is
  <1>3. CASE KillEnter(t)
    BY <1>3, KillEnterDoes DEF Goes, Is
  <1>4. CASE Reap(t)
    BY <1>4, ReapDoes DEF Goes, Is
  <1>5. CASE Wake(t)
    BY <1>1, <1>5, WakeDoes DEF Control, Stays, Is
  <1>6. CASE EndOfStream(t) \/ ReaderEnds(t)
    BY <1>6, EndOfStreamDoes, ReaderEndsDoes DEF Is, Starts
  <1>7. CASE CloseAdapter(t) \/ Closed(t)
    BY <1>1, <1>7, CloseAdapterDoes, ClosedDoes DEF Control, ReaderPc, Killing
  <1> QED BY <1>1, <1>2, <1>3, <1>4, <1>5, <1>6, <1>7 DEF Moves, KillSteps

LEMMA ReadingByOthers ==
    ASSUME IInv, NEW t \in Thread, Moves(t), NEW p \in Proc, p # t
    PROVE  Reading(p)'
  <1>0. Reading(p) /\ Control(p) /\ p \in Thread
    BY Parts, Sets
  <1>1. CASE Same(p)
    <2> SUFFICES ASSUME th[p].pc \notin {"none", "over"}
                 PROVE  /\ srv'[p].life # "none" /\ X(p) = srv'[p].of /\ th[p].p = p
                        /\ th[p].pc = "read" /\ th[p].raised => srv'[p].result # "none" \/ ad'[X(p)].cur # p
      BY <1>1 DEF Reading, Same, X
    <2>1. srv[p].life # "none" /\ X(p) = srv[p].of /\ th[p].p = p
      BY <1>0 DEF Reading
    <2>2. SrvKept(t, p)
      BY <2>1, ProcKept
    <2>3. X(p) \in Adapter
      BY <2>1, Parts, Places, <1>0 DEF Process
    <2>4. ad[X(p)].cur # p => ad'[X(p)].cur # p
      <3>1. CASE t \in Key /\ Launch(t) /\ X(t) = X(p)
        <4>1. \A q \in Proc : Launched(t, q) => ad'[X(t)].cur = q /\ q # p
          BY <2>1, <2>3, <3>1 DEF Launched, Ad
        <4>2. (\E q \in Proc : Launched(t, q)) \/ ad'[X(t)].cur = Cur(t)
          BY <2>3, <3>1, LaunchDoes DEF Ad
        <4> QED BY <3>1, <4>1, <4>2 DEF Cur
      <3>2. CASE ad'[X(p)].cur = ad[X(p)].cur \/ ad'[X(p)].cur = 0
        BY <3>2, Sets
      <3>3. AdKept(t, X(p))
        BY <2>3, AdFrame
      <3> QED BY <3>1, <3>2, <3>3 DEF AdKept
    <2>5. srv[p].result # "none" => srv'[p].result # "none"
      BY ResultKept
    <2> QED BY <1>0, <2>1, <2>2, <2>4, <2>5 DEF Reading, SrvKept
  <1>2. CASE t \in Key /\ Launched(t, p) /\ X(t) \in Adapter
    <2>1. Is(th'[p], "reading", X(t), p, "none", FALSE, FALSE, "none", "none", "none")
      BY <1>2 DEF Launched
    <2>2. srv'[p].life = "up" /\ srv'[p].of = X(t)
      BY <1>2 DEF Launched, NoServer
    <2> QED BY <2>1, <2>2 DEF Reading, Is, X
  <1> QED BY <1>0, <1>1, <1>2, Others, LaunchedIs

LEMMA WorkByOthers ==
    ASSUME IInv, NEW t \in Thread, Moves(t), NEW k \in Key, k # t
    PROVE  Work(k)'
  <1>0. /\ Work(k) /\ Control(k) /\ Locked(k) /\ OwnerKept(t, k) /\ k \in Thread /\ k \notin Proc
        /\ k # Closer /\ owner[k] \in {0} \cup Adapter
    BY Parts, Sets, OwnerFrame, Places
  <1>1. Same(k)
    BY <1>0, Others
  <1>2. X(k)' = X(k) /\ ((Owning(k))' <=> Owning(k)) /\ th'[k].pc = th[k].pc
    BY <1>1 DEF Same, X, Owning
  <1>3. X(k) # 0 => owner'[k] = X(k) \/ ad'[X(k)].complete
    <2>1. X(k) # 0 => X(k) \in Adapter /\ (ad[X(k)].complete => ad'[X(k)].complete)
      BY <1>0, Places, AdFrame DEF AdKept
    <2>2. CASE owner'[k] = owner[k]
      BY <1>0, <2>1, <2>2 DEF Work
    <2>3. CASE Closed(t) /\ ~th[t].raised /\ owner[k] = X(t)
      <3>1. ad'[X(t)].complete
        BY <2>3, ClosedDoes
      <3> QED BY <1>0, <2>1, <2>3, <3>1 DEF Work
    <2> QED BY <1>0, <2>2, <2>3 DEF OwnerKept
  <1>4. Owning(k) => owner'[k] = X(k)
    <2>1. Owning(k) => ~(t = Closer /\ Closed(t))
      <3>1. t = Closer /\ Closed(t) => Owning(t)
        BY ClosedDoes DEF Owning
      <3> QED BY <1>0, <3>1, Parts DEF Locked
    <2> QED BY <1>0, <2>1 DEF OwnerKept, Work
  <1>5. owner'[k] # 0 => ad'[owner'[k]].made
    <2>1. owner'[k] # 0 => owner'[k] = owner[k] /\ owner[k] \in Adapter
      BY <1>0 DEF OwnerKept
    <2> QED BY <1>0, <2>1, AdFrame DEF Work, AdKept
  <1> QED BY <1>0, <1>2, <1>3, <1>4, <1>5 DEF Work

(* Who is woken loses what the teardown has settled.                         *)
LEMMA WokenLost ==
    ASSUME IInv, NEW t \in Thread, Moves(t), NEW k \in Key, Woke(t, k),
           th[k].turn = "open" \/ th[k].pc \in {"init", "rpc"}
    PROVE  Cur(k) \in Proc /\ th[k].p = Cur(k) /\ srv'[Cur(k)].result # "none"
  <1>1. Turn(k) /\ Work(k) /\ k \in Thread
    BY Parts, Sets
  <1>2. InTurn(k)
    BY <1>1 DEF Turn, InTurn
  <1>3. th[k].p = Cur(k) /\ Cur(k) # 0
    BY <1>1, <1>2 DEF Turn
  <1>4. X(k) \in Adapter
    <2>1. th[k].pc # "idle"
      BY <1>1, <1>2, Parts DEF InTurn, Control, Killing
    <2> QED BY <1>1, <2>1, Places DEF Work
  <1>5. Cur(k) \in Proc
    BY <1>1, <1>3, <1>4, Own
  <1>6. X(t) = X(k) /\ Cur(t) = Cur(k)
    BY DEF Woke, Cur
  <1>7. ~(KillNothing(t) /\ Cur(t) = 0)
    BY <1>3, <1>6
  <1>8. CASE Wake(t)
    <2>1. PICK r \in {"ok", "bad", "unsaved"} : Srv(Cur(t), srv[Cur(t)].life, srv[Cur(t)].tree, r)
      BY <1>8, WakeDoes
    <2> QED BY <1>3, <1>5, <1>6, <2>1 DEF Srv
  <1>9. ~(t \in Proc /\ ad[X(t)].leaving = t)
    <2>1. CASE th[k].turn = "open"
      <3>1. th[k].pc \in {"turn", "stopped"} \/ th[k].ret = "stopped"
        BY <1>1, <2>1 DEF Turn
      <3>2. /\ th[k].ret # "closed"
            /\ th[k].pc \notin {"call", "release", "dispose", "leaving", "close", "closed"}
        BY <1>1, <3>1, Parts DEF Control, Killing
      <3> QED BY <1>1, <1>4, <1>6, <3>2, Sets DEF Turn
    <2>2. CASE th[k].pc \in {"init", "rpc"}
      <3>1. th[k].ret # "closed"
        BY <2>2, <1>1, Parts DEF Control, Killing
      <3> QED BY <1>1, <1>4, <1>6, <2>2, <3>1, Sets DEF Turn
    <2> QED BY <2>1, <2>2
  <1>10. CASE t \in Proc /\ Cur(t) = t /\ ReaderEnds(t) /\ th[t].raised
    <2>1. th[t].pc = "read"
      BY <1>10, ReaderEndsDoes
    <2>2. srv[t].result # "none" \/ ad[X(t)].cur # t
      BY <1>10, <2>1, Parts DEF Reading
    <2>3. srv'[t].result # "none"
      BY <1>10, <2>2, ResultKept DEF Cur
    <2> QED BY <1>3, <1>5, <1>6, <1>10, <2>3
  <1> QED BY <1>7, <1>8, <1>9, <1>10 DEF Woke

LEMMA TurnByOthers ==
    ASSUME IInv, NEW t \in Thread, Moves(t), NEW k \in Key, k # t
    PROVE  Turn(k)'
  <1>0. /\ Turn(k) /\ Work(k) /\ Control(k) /\ k \in Thread /\ k \notin Proc
    BY Parts, Sets
  <1>1. Same(k) /\ Told(t, k)
    BY <1>0, Others
  <1>2. /\ X(k)' = X(k) /\ th'[k].p = th[k].p /\ ((InTurn(k))' <=> InTurn(k))
        /\ th'[k].pc = th[k].pc /\ th'[k].ret = th[k].ret /\ th'[k].raised = th[k].raised
        /\ th'[k].res = th[k].res
    BY <1>1 DEF Same, X, InTurn
  <1>3. X(k) # 0 => X(k) \in Adapter /\ Cur(k)' = Cur(k) /\ ad'[X(k)].leaving = ad[X(k)].leaving
    BY <1>0, <1>2, CurKept, Places DEF Cur
  <1>4. InTurn(k) \/ th[k].pc = "ready" \/ th[k].ret = "unstart" => X(k) # 0
    BY <1>0 DEF InTurn, Work, Control, Killing
  <1>5. InTurn(k) => th[k].p \in Proc /\ srv[th[k].p].life # "none"
    BY <1>0, <1>3, <1>4, Own DEF Turn
  <1>6. th'[k].turn = "lost" => srv'[th[k].p].result # "none"
    <2>1. CASE th[k].turn = "lost"
      <3>1. InTurn(k) /\ srv[th[k].p].result # "none"
        BY <1>0, <2>1 DEF Turn, InTurn
      <3> QED BY <1>5, <3>1, ResultKept
    <2>2. CASE th'[k].turn = "lost" /\ th[k].turn # "lost"
      BY <1>1, <2>2, WokenLost DEF Told
    <2> QED BY <2>1, <2>2
  <1>7. ASSUME th[k].pc \in {"init", "rpc"}, th'[k].got = "fail"
        PROVE  LET p == th[k].p IN
                 ~(p # 0 /\ srv'[p].life = "up") \/ srv'[p].result # "none" \/ th'[p].pc # "reading"
    <2> DEFINE p == th[k].p
    <2>1. InTurn(k)
      BY <1>7 DEF InTurn
    <2>2. p \in Proc /\ srv[p].life # "none" /\ p \in Thread
      BY <1>5, <2>1, Sets
    <2>3. CASE th[k].got = "fail"
      <3>1. ~Up(p) \/ srv[p].result # "none" \/ th[p].pc # "reading"
        BY <1>0, <1>7, <2>3 DEF Turn
      <3>2. CASE ~Up(p) \/ srv[p].result # "none"
        BY <2>2, <3>2, ResultKept
      <3>3. CASE th[p].pc # "reading"
        <4>1. CASE p = t
          BY <2>2, <4>1, ReadingOn
        <4>2. CASE p # t
          <5>1. Same(p)
            <6>1. ~(t \in Key /\ Launched(t, p))
              BY <2>2 DEF Launched
            <6> QED BY <2>2, <4>2, <6>1, Others, LaunchedIs
          <5> QED BY <3>3, <5>1 DEF Same
        <4> QED BY <4>1, <4>2
      <3> QED BY <3>1, <3>2, <3>3
    <2>4. CASE th[k].got # "fail"
      <3>1. Woke(t, k)
        BY <1>1, <1>7, <2>4 DEF Told
      <3> QED BY <1>7, <3>1, WokenLost
    <2> QED BY <2>3, <2>4
  <1>8. th[k].pc \in {"join", "stopped"} /\ ~th[k].raised => srv'[th[k].p].result # "none"
    <2>1. th[k].pc \in {"join", "stopped"} => InTurn(k)
      BY DEF InTurn
    <2> QED BY <1>0, <1>5, <2>1, ResultKept DEF Turn
  <1>9. th[k].pc = "release" /\ th[k].res = "stopped" => th[k].p # 0 /\ srv'[th[k].p].result # "none"
    <2>1. th[k].p \in {0} \cup Proc
      BY <1>0, Places, Fields
    <2> QED BY <1>0, <2>1, ResultKept DEF Turn
  <1>10. /\ InTurn(k) => th[k].p = Cur(k)'
         /\ InTurn(k) \/ th[k].pc = "ready" \/ th[k].ret = "unstart" => Cur(k)' # 0
    BY <1>0, <1>3, <1>4 DEF Turn
  <1>11. /\ th'[k].turn # "none" => th[k].pc \in {"turn", "stopped"} \/ th[k].ret = "stopped"
         /\ th[k].pc = "turn" => th'[k].turn # "none"
    BY <1>0, <1>1 DEF Turn, Told
  <1>12. X(k) # 0 /\ ad'[X(k)].leaving # 0 =>
         th[k].pc \in {"call", "release", "dispose", "leaving", "close", "closed"} \/ th[k].ret = "closed"
    BY <1>0, <1>3 DEF Turn
  <1> QED BY <1>2, <1>6, <1>7, <1>8, <1>9, <1>10, <1>11, <1>12 DEF Turn, Up
-----------------------------------------------------------------------------
(* What the steps of t leave to t, by the shape of its next record.          *)
Kept(t) ==
    /\ Control(t) /\ Locked(t) /\ Teardown(t)
    /\ t \in Key => Work(t) /\ Turn(t)
    /\ t \in Proc => Reading(t)

LEMMA Roles ==
    ASSUME NEW t \in Thread
    PROVE  /\ t # None
           /\ t \in Key => t \notin Proc /\ t # Closer
           /\ t \in Proc => t \notin Key /\ t # Closer /\ t \in Nat /\ t # 0
           /\ t = Closer => t \notin Key /\ t \notin Proc
           /\ t \in Key \/ t \in Proc \/ t = Closer
  BY Sets DEF Thread

LEMMA Plain ==
    ASSUME IInv, NEW t \in Thread, th[t].pc \notin Killing
    PROVE  /\ th[t].ret = "none" /\ th[t].nest = FALSE
           /\ t \in Key => /\ th[t].pc \notin {"turn", "stopped"} => th[t].turn = "none"
                           /\ olock = t <=> th[t].pc \in {"dispose", "leaving", "close", "closed"}
  <1>1. Control(t) /\ Locked(t) /\ (t \in Key => Turn(t)) /\ th[t].nest \in BOOLEAN
    BY Parts, Places, Fields
  <1>2. th[t].ret = "none" /\ th[t].nest = FALSE
    BY <1>1 DEF Control
  <1>3. ASSUME t \in Key
        PROVE  /\ th[t].pc \notin {"turn", "stopped"} => th[t].turn = "none"
               /\ olock = t <=> th[t].pc \in {"dispose", "leaving", "close", "closed"}
    BY <1>1, <1>2, <1>3, Roles DEF Turn, Locked, Owning
  <1> QED BY <1>2, <1>3

LEMMA OwnAdapter ==
    ASSUME IInv, NEW t \in Thread, Moves(t), X(t) # 0
    PROVE  /\ X(t) \in Adapter /\ ad[X(t)].made /\ ad'[X(t)].made
           /\ ad[X(t)].complete => ad'[X(t)].complete
           /\ ad[X(t)].closed => ad'[X(t)].closed
           /\ ad[X(t)].leaving # 0 => ad[X(t)].closed
  <1>1. X(t) \in Adapter /\ ad[X(t)].made
    BY Parts, Places DEF Control
  <1> QED BY <1>1, AdFrame, Parts DEF AdKept, Adapted

LEMMA Mine ==
    ASSUME IInv, NEW t \in Key, Moves(t), owner' = owner
    PROVE  /\ X(t) # 0 => owner'[t] = X(t) \/ ad'[X(t)].complete
           /\ owner'[t] # 0 => ad'[owner'[t]].made
           /\ th[t].pc # "idle" <=> X(t) # 0
           /\ olock = t => owner'[t] = X(t)
  <1>1. Work(t) /\ t \in Thread /\ Locked(t) /\ owner[t] \in {0} \cup Adapter
    BY Parts, Sets, Places
  <1>2. owner[t] # 0 => ad'[owner[t]].made
    BY <1>1, AdFrame DEF Work, AdKept
  <1>3. X(t) # 0 => owner[t] = X(t) \/ ad'[X(t)].complete
    BY <1>1, OwnAdapter DEF Work
  <1> QED BY <1>1, <1>2, <1>3 DEF Work, Locked

(* A worker that has a new record.                                           *)
LEMMA Fresh ==
    ASSUME NEW t \in Key, th'[t].ret = "none", th'[t].nest = FALSE, th'[t].turn = "none",
           th'[t].pc \in {"idle", "call", "start", "ready", "release", "dispose", "close"},
           th'[t].x = 0 <=> th'[t].pc = "idle",
           th'[t].x # 0 => ad'[th'[t].x].made /\ (owner'[t] = th'[t].x \/ ad'[th'[t].x].complete),
           olock' = t <=> th'[t].pc \in {"dispose", "close"},
           olock' = t => owner'[t] = th'[t].x,
           owner'[t] # 0 => ad'[owner'[t]].made,
           th'[t].pc = "ready" => ad'[th'[t].x].cur # 0,
           th'[t].pc \in {"start", "ready"} => ad'[th'[t].x].leaving = 0,
           th'[t].pc = "release" /\ th'[t].res = "stopped" =>
             th'[t].p # 0 /\ srv'[th'[t].p].result # "none"
    PROVE  Kept(t)'
  <1>0. t \notin Proc /\ t # Closer /\ t \in Thread
    BY Sets
  <1>1. th'[t].pc \in WorkerPc /\ th'[t].pc \notin Killing
    BY DEF WorkerPc, Killing
  <1>2. Control(t)'
    BY <1>0, <1>1 DEF Control, X
  <1>3. Locked(t)'
    <2>1. ~(Holds(t))' /\ th'[t].pc # "closed"
      BY DEF Holds
    <2>2. (Owning(t))' <=> olock' = t
      BY <1>0 DEF Owning
    <2> QED BY <2>1, <2>2 DEF Locked
  <1>4. Teardown(t)'
    BY <1>1 DEF Teardown, X, Killing
  <1>5. Work(t)'
    <2>1. (Owning(t))' <=> olock' = t
      BY <1>0 DEF Owning
    <2> QED BY <2>1 DEF Work, X
  <1>6. Turn(t)'
    <2>1. ~(InTurn(t))'
      BY DEF InTurn
    <2> QED BY <2>1 DEF Turn, X, Cur
  <1> QED BY <1>0, <1>2, <1>3, <1>4, <1>5, <1>6 DEF Kept

LEMMA Releases ==
    ASSUME IInv, NEW t \in Key, Moves(t), owner' = owner, X(t) # 0, olock # t, olock' = olock,
           NEW r \in Ress, Released_(t, r),
           r = "stopped" => th[t].p # 0 /\ srv'[th[t].p].result # "none"
    PROVE  Kept(t)'
  <1>1. /\ th'[t].pc = "release" /\ th'[t].x = X(t) /\ th'[t].ret = "none" /\ th'[t].nest = FALSE
        /\ th'[t].turn = "none" /\ th'[t].res = r /\ (r = "stopped" => th'[t].p = th[t].p)
    BY DEF Released_, Is
  <1>2. /\ ad'[X(t)].made /\ (owner'[t] = X(t) \/ ad'[X(t)].complete)
        /\ owner'[t] # 0 => ad'[owner'[t]].made
    BY OwnAdapter, Mine, Sets
  <1> QED BY <1>1, <1>2, Fresh

LEMMA Begins ==
    ASSUME IInv, NEW t \in Key, Moves(t), NEW l \in {"call", "start", "ready"}, X(t) # 0,
           owner' = owner, olock # t, olock' = olock, Starts(t, l, X(t)),
           l = "ready" => ad'[X(t)].cur # 0,
           l # "call" => ad'[X(t)].leaving = 0
    PROVE  Kept(t)'
  <1>1. /\ th'[t].pc = l /\ th'[t].x = X(t) /\ th'[t].ret = "none" /\ th'[t].nest = FALSE
        /\ th'[t].turn = "none"
    BY DEF Starts, Is
  <1>2. /\ ad'[X(t)].made /\ (owner'[t] = X(t) \/ ad'[X(t)].complete)
        /\ owner'[t] # 0 => ad'[owner'[t]].made
    BY OwnAdapter, Mine, Sets
  <1> QED BY <1>1, <1>2, Fresh

LEMMA Idles ==
    ASSUME IInv, NEW t \in Key, Starts(t, "idle", 0), olock' # t,
           owner'[t] # 0 => ad'[owner'[t]].made
    PROVE  Kept(t)'
  <1>1. /\ th'[t].pc = "idle" /\ th'[t].x = 0 /\ th'[t].ret = "none" /\ th'[t].nest = FALSE
        /\ th'[t].turn = "none"
    BY DEF Starts, Is
  <1> QED BY <1>1, Fresh

(* A thread that enters a teardown.                                          *)
LEMMA Enters ==
    ASSUME IInv, NEW t \in Thread, Moves(t), X(t) # 0, owner' = owner, olock' = olock,
           th'[t].pc = "kill", th'[t].x = X(t),
           t \in Key => th'[t].ret \in WorkerRet,
           t \in Proc => th'[t].ret = "read",
           t = Closer => th'[t].ret = "closed",
           th'[t].nest <=> th'[t].ret \in {"launch", "unstart", "closed"},
           th'[t].nest => ad'[X(t)].lock = t,
           th'[t].ret \in {"launch", "unstart"} => ~ad'[X(t)].closed,
           olock' = t <=> t = Closer \/ (t \in Key /\ th'[t].ret = "closed"),
           th'[t].ret = "closed" => ad'[X(t)].closed,
           th'[t].ret \in {"forget", "closed", "unstart"} => th'[t].p = 0,
           th'[t].ret \in {"launch", "join", "stopped"} => th'[t].p = ad'[X(t)].cur,
           t \in Key => /\ th'[t].ret \in {"join", "stopped", "unstart"} => ad'[X(t)].cur # 0
                        /\ th'[t].turn # "none" => th'[t].ret = "stopped"
                        /\ th'[t].turn # "lost"
                        /\ ad'[X(t)].leaving # 0 => th'[t].ret = "closed",
           t \in Proc => th'[t].p = t /\ srv'[t].life # "none" /\ X(t) = srv'[t].of
    PROVE  Kept(t)'
  <1>0. /\ t \in Key => t \notin Proc /\ t # Closer
        /\ t \in Proc => t \notin Key /\ t # Closer
        /\ t = Closer => t \notin Key /\ t \notin Proc
        /\ t \in Key \/ t \in Proc \/ t = Closer
        /\ ad'[X(t)].made
    BY Roles, OwnAdapter
  <1>1. /\ "kill" \in WorkerPc /\ "kill" \in ReaderPc /\ "kill" \in CloserPc /\ "kill" \in Killing
        /\ "none" \notin WorkerRet
    BY DEF WorkerPc, ReaderPc, CloserPc, Killing, WorkerRet
  <1>2. Control(t)'
    <2>1. th'[t].ret # "none"
      BY <1>0, <1>1
    <2> QED BY <1>0, <1>1, <2>1 DEF Control, X
  <1>3. Locked(t)'
    <2>1. (Holds(t))' <=> th'[t].nest
      BY DEF Holds
    <2>2. (Owning(t))' <=> olock' = t
      BY <1>0 DEF Owning
    <2> QED BY <2>1, <2>2 DEF Locked, X
  <1>4. Teardown(t)'
    BY DEF Teardown, X, Cur
  <1>5. ASSUME t \in Key
        PROVE  Work(t)'
    <2>1. /\ X(t) # 0 => owner'[t] = X(t) \/ ad'[X(t)].complete
          /\ owner'[t] # 0 => ad'[owner'[t]].made
          /\ olock = t => owner'[t] = X(t)
      BY <1>5, Mine
    <2>2. (Owning(t))' => olock' = t
      BY <1>0 DEF Owning
    <2> QED BY <2>1, <2>2 DEF Work, X
  <1>6. ASSUME t \in Key
        PROVE  Turn(t)'
    BY <1>6 DEF Turn, X, Cur, InTurn
  <1>7. ASSUME t \in Proc
        PROVE  Reading(t)'
    BY <1>7 DEF Reading, X
  <1> QED BY <1>2, <1>3, <1>4, <1>5, <1>6, <1>7 DEF Kept

(* A thread that goes on in its teardown.                                    *)
LEMMA GoesOn ==
    ASSUME IInv, NEW t \in Thread, Moves(t), X(t) # 0, owner' = owner, olock' = olock,
           th[t].pc \in {"kill", "reap", "reapLate"}, NEW l \in {"reap", "reapLate", "wake"},
           Goes(t, l, th'[t].raised), Cur(t) \in Proc,
           ad'[X(t)].lock = t, ad'[X(t)].cur = Cur(t), ad'[X(t)].closed = ad[X(t)].closed,
           ad'[X(t)].leaving = ad[X(t)].leaving,
           th[t].p \in {0, Cur(t)}, srv'[Cur(t)].result # "ok",
           l = "wake" /\ ~th'[t].raised => srv'[Cur(t)].life = "down" /\ ~srv'[Cur(t)].tree
    PROVE  Kept(t)'
  <1>0. /\ t \in Key => t \notin Proc /\ t # Closer
        /\ t \in Proc => t \notin Key /\ t # Closer /\ t \in Nat /\ t # 0
        /\ t = Closer => t \notin Key /\ t \notin Proc
        /\ ad'[X(t)].made
    BY Roles, OwnAdapter
  <1>1. /\ l \in WorkerPc /\ l \in ReaderPc /\ l \in CloserPc /\ l \in Killing
        /\ th[t].pc \in Killing
    BY DEF WorkerPc, ReaderPc, CloserPc, Killing
  <1>2. /\ th'[t].pc = l /\ th'[t].x = X(t) /\ th'[t].p = th[t].p /\ th'[t].ret = th[t].ret
        /\ th'[t].nest = th[t].nest /\ th'[t].turn = th[t].turn /\ th'[t].got = th[t].got
    BY DEF Goes, Is
  <1>c. Control(t) /\ Locked(t) /\ Teardown(t)
    BY Parts
  <1>3. Control(t)'
    BY <1>0, <1>1, <1>2, <1>c DEF Control, X
  <1>4. Locked(t)'
    <2>1. (Owning(t))' <=> Owning(t)
      BY <1>0, <1>2 DEF Owning
    <2> QED BY <1>2, <1>c, <2>1 DEF Locked, X
  <1>5. Teardown(t)'
    BY <1>1, <1>2, <1>c, Sets DEF Teardown, X, Cur
  <1>6. ASSUME t \in Key
        PROVE  Work(t)'
    <2>1. (Owning(t))' <=> Owning(t)
      BY <1>0, <1>2 DEF Owning
    <2>2. Work(t) /\ (owner[t] = X(t) \/ ad'[X(t)].complete) /\ (owner[t] # 0 => ad'[owner[t]].made)
      BY <1>6, Parts, Mine
    <2> QED BY <1>2, <2>1, <2>2 DEF Work, X
  <1>7. ASSUME t \in Key
        PROVE  Turn(t)'
    <2>1. Turn(t)
      BY <1>7, Parts
    <2>2. (InTurn(t) <=> th[t].ret \in {"join", "stopped"}) /\ ((InTurn(t))' <=> InTurn(t))
      BY <1>2 DEF InTurn
    <2>3. th[t].turn = "lost" => srv'[th[t].p].result # "none"
      <3>1. th[t].turn = "lost" => th[t].ret = "stopped" /\ srv[th[t].p].result # "none"
        BY <2>1 DEF Turn
      <3>2. th[t].ret = "stopped" => th[t].p = Cur(t)
        BY <2>1 DEF Turn, InTurn
      <3> QED BY <3>1, <3>2, ResultKept
    <2> QED BY <1>2, <2>1, <2>2, <2>3 DEF Turn, X, Cur, InTurn
  <1>8. ASSUME t \in Proc
        PROVE  Reading(t)'
    <2>1. srv[t].life # "none" /\ X(t) = srv[t].of /\ th[t].p = t
      BY <1>8, Parts DEF Reading
    <2>2. srv'[t].life # "none" /\ srv'[t].of = srv[t].of
      BY <1>8, <2>1, ProcKept DEF SrvKept
    <2> QED BY <1>2, <2>1, <2>2 DEF Reading, X
  <1> QED BY <1>3, <1>4, <1>5, <1>6, <1>7, <1>8 DEF Kept

(* A thread that comes back from its teardown.                               *)
LEMMA Returns ==
    ASSUME IInv, NEW t \in Thread, Moves(t), X(t) # 0, owner' = owner, olock' = olock,
           th[t].pc \in {"kill", "wake"}, Stays(t, th[t].ret),
           th[t].nest => ad'[X(t)].lock = t,
           ad'[X(t)].cur = Cur(t), ad'[X(t)].closed = ad[X(t)].closed,
           ad'[X(t)].leaving = ad[X(t)].leaving,
           th[t].ret \in {"forget", "launch", "closed"} /\ ~th'[t].raised =>
             Cur(t) = 0 \/ srv'[Cur(t)].result = "ok",
           th[t].ret \in {"join", "stopped"} /\ ~th'[t].raised => srv'[th[t].p].result # "none",
           th[t].ret = "read" /\ th'[t].raised => srv'[t].result # "none" \/ Cur(t) # t,
           t \in Key => /\ th'[t].turn = "lost" => srv'[th[t].p].result # "none"
                        /\ th'[t].turn # "none" <=> th[t].turn # "none"
    PROVE  Kept(t)'
  <1>0. /\ t \in Key => t \notin Proc /\ t # Closer
        /\ t \in Proc => t \notin Key /\ t # Closer /\ t \in Nat /\ t # 0
        /\ t = Closer => t \notin Key /\ t \notin Proc
        /\ t \in Key \/ t \in Proc \/ t = Closer
        /\ ad'[X(t)].made
    BY Roles, OwnAdapter
  <1>c. Control(t) /\ Locked(t) /\ Teardown(t)
    BY Parts
  <1>1. /\ th[t].ret # "none" /\ th[t].pc # "idle"
        /\ t \in Key => th[t].ret \in WorkerRet
        /\ t \in Proc => th[t].ret = "read"
        /\ t = Closer => th[t].ret = "closed"
    BY <1>0, <1>c DEF Control, Killing
  <1>2. /\ th[t].ret \in {"forget", "launch", "unstart", "join", "stopped", "closed", "read"}
        /\ th[t].ret \notin Killing /\ th[t].ret # "idle"
        /\ t \in Key => th[t].ret \in WorkerPc
        /\ t \in Proc => th[t].ret \in ReaderPc
        /\ t = Closer => th[t].ret \in CloserPc
    BY <1>0, <1>1 DEF WorkerPc, ReaderPc, CloserPc, Killing, WorkerRet
  <1>3. /\ th'[t].pc = th[t].ret /\ th'[t].x = X(t) /\ th'[t].p = th[t].p /\ th'[t].ret = "none"
        /\ th'[t].nest = FALSE
    BY DEF Stays, Is
  <1>4. Control(t)'
    BY <1>0, <1>2, <1>3, <1>c DEF Control, X
  <1>o. (Owning(t))' <=> Owning(t)
    BY <1>0, <1>1, <1>2, <1>3 DEF Owning
  <1>5. Locked(t)'
    <2>1. (Holds(t))' <=> th[t].ret \in {"launch", "unstart"}
      BY <1>2, <1>3 DEF Holds
    <2>2. th[t].ret \in {"launch", "unstart", "closed"} => ad'[X(t)].lock = t
      BY <1>c DEF Control
    <2>3. th[t].ret \in {"launch", "unstart"} => ~ad'[X(t)].closed
      BY <1>c DEF Locked
    <2> QED BY <1>2, <1>3, <1>c, <1>o, <2>1, <2>2, <2>3 DEF Locked, X
  <1>6. Teardown(t)'
    BY <1>2, <1>3, <1>c, SMTT(20) DEF Teardown, X, Cur, Gone
  <1>7. ASSUME t \in Key
        PROVE  Work(t)'
    <2>1. Work(t) /\ (owner[t] = X(t) \/ ad'[X(t)].complete) /\ (owner[t] # 0 => ad'[owner[t]].made)
      BY <1>7, Parts, Mine
    <2> QED BY <1>2, <1>3, <1>o, <2>1 DEF Work, X
  <1>8. ASSUME t \in Key
        PROVE  Turn(t)'
    <2>1. Turn(t)
      BY <1>7, <1>8, Parts
    <2>2. InTurn(t) <=> th[t].ret \in {"join", "stopped"}
      BY DEF InTurn
    <2>3. (InTurn(t))' <=> InTurn(t)
      BY <1>2, <1>3, <2>2 DEF InTurn
    <2>4. th[t].turn # "none" => th[t].ret = "stopped"
      BY <2>1 DEF Turn
    <2>5. ad[X(t)].leaving # 0 => th[t].ret = "closed"
      BY <2>1 DEF Turn
    <2> QED BY <1>2, <1>3, <1>8, <2>1, <2>2, <2>3, <2>4, <2>5 DEF Turn, X, Cur
  <1>9. ASSUME t \in Proc
        PROVE  Reading(t)'
    <2>1. srv[t].life # "none" /\ X(t) = srv[t].of /\ th[t].p = t
      BY <1>9, Parts DEF Reading
    <2>2. srv'[t].life # "none" /\ srv'[t].of = srv[t].of
      BY <1>9, <2>1, ProcKept DEF SrvKept
    <2>3. th[t].ret = "read"
      BY <1>1, <1>9
    <2> QED BY <1>3, <2>1, <2>2, <2>3 DEF Reading, X, Cur
  <1> QED BY <1>4, <1>5, <1>6, <1>7, <1>8, <1>9 DEF Kept

LEMMA InTeardown ==
    ASSUME IInv, NEW t \in Thread, th[t].pc \in Killing
    PROVE  /\ X(t) # 0 /\ X(t) \in Adapter
           /\ t \in Key /\ th[t].ret \in {"join", "stopped"} => th[t].p = Cur(t) /\ Cur(t) # 0
           /\ t \in Key /\ th[t].turn # "none" => th[t].ret = "stopped"
           /\ t \in Key /\ th[t].turn = "lost" => srv[th[t].p].result # "none"
           /\ th[t].ret = "read" => t \in Proc /\ th[t].p = t
           /\ th[t].ret \in {"forget", "closed", "unstart"} => th[t].p = 0
           /\ th[t].ret = "launch" => th[t].p = Cur(t)
           /\ th[t].ret \in {"join", "stopped", "forget", "launch", "unstart"} => t \in Key
           /\ t \notin Key => th[t].ret \in {"read", "closed"}
           /\ th[t].p \in {0} \cup Proc
           /\ t \notin Key => th[t].turn \in Turns
  <1>1. X(t) # 0 /\ X(t) \in Adapter /\ th[t].p \in {0} \cup Proc /\ th[t].turn \in Turns
    BY Parts, Places, Fields DEF Teardown
  <1>2. Control(t) /\ Teardown(t) /\ (t \in Key => Turn(t)) /\ (t \in Proc => Reading(t))
    BY Parts
  <1>3. th[t].ret # "none"
    BY <1>2 DEF Control
  <1>4. t \notin Key => th[t].ret \in {"read", "closed"}
    BY <1>2, <1>3, Roles DEF Control
  <1>5. th[t].ret = "read" => t \in Proc
    BY <1>2, <1>3, Roles DEF Control, WorkerRet
  <1>6. th[t].ret = "read" => th[t].p = t
    BY <1>2, <1>5 DEF Reading, Killing
  <1>7. t \in Key /\ th[t].ret \in {"join", "stopped"} => th[t].p = Cur(t) /\ Cur(t) # 0
    BY <1>2 DEF Turn, InTurn
  <1>8. /\ t \in Key /\ th[t].turn # "none" => th[t].ret = "stopped"
        /\ t \in Key /\ th[t].turn = "lost" => srv[th[t].p].result # "none"
    BY <1>2 DEF Turn, Killing
  <1>9. /\ th[t].ret \in {"forget", "closed", "unstart"} => th[t].p = 0
        /\ th[t].ret = "launch" => th[t].p = Cur(t)
    BY <1>2 DEF Teardown
  <1> QED BY <1>1, <1>4, <1>5, <1>6, <1>7, <1>8, <1>9

LEMMA KillNothingKeeps ==
    ASSUME IInv, NEW t \in Thread, Moves(t), KillNothing(t)
    PROVE  Kept(t)'
  <1>1. th[t].pc = "kill" /\ th[t].pc \in Killing
    BY DEF KillNothing, At, Killing
  <1>2. /\ Stays(t, th[t].ret) /\ owner' = owner /\ olock' = olock /\ ad' = ad /\ srv' = srv
        /\ th'[t].turn = th[t].turn \/ (th'[t].turn = "lost" /\ th[t].turn = "open" /\ Target(t) = 0)
        /\ ~th'[t].raised => Target(t) = 0 \/ srv[Target(t)].result = "ok"
        /\ Replaced(t) \/ Made(t) \/ Target(t) = 0
    BY KillNothingDoes DEF Quiet
  <1>3. th[t].nest => ad[X(t)].lock = t
    BY <1>1, Parts DEF Locked, Holds
  <1>4. Target(t) = IF th[t].p # 0 THEN th[t].p ELSE Cur(t)
    BY DEF Target
  <1>5. th[t].ret \in {"forget", "launch", "closed"} /\ ~th'[t].raised =>
             Cur(t) = 0 \/ srv[Cur(t)].result = "ok"
    BY <1>1, <1>2, <1>4, InTeardown
  <1>6. th[t].ret \in {"join", "stopped"} => srv[th[t].p].result # "none"
    <2>1. th[t].ret \in {"join", "stopped"} => th[t].p = Cur(t) /\ Cur(t) # 0
      BY <1>1, InTeardown
    <2> QED BY <1>2, <1>4, <2>1 DEF Replaced, Made
  <1>7. th[t].ret = "read" => srv[t].result # "none" \/ Cur(t) # t
    <2>1. th[t].ret = "read" => th[t].p = t /\ t # 0
      BY <1>1, InTeardown, Roles
    <2> QED BY <1>2, <1>4, <2>1 DEF Replaced, Made
  <1>8. t \in Key => /\ th'[t].turn = "lost" => srv[th[t].p].result # "none"
                      /\ th'[t].turn # "none" <=> th[t].turn # "none"
    BY <1>1, <1>2, <1>6, InTeardown
  <1>9. X(t) # 0 /\ ad[X(t)].cur = Cur(t)
    BY <1>1, InTeardown DEF Cur
  <1> QED BY <1>1, <1>2, <1>3, <1>5, <1>6, <1>7, <1>8, <1>9, Returns

LEMMA KillEnterKeeps ==
    ASSUME IInv, NEW t \in Thread, Moves(t), KillEnter(t)
    PROVE  Kept(t)'
  <1>1. th[t].pc = "kill" /\ th[t].pc \in Killing
    BY DEF KillEnter, At, Killing
  <1>2. /\ owner' = owner /\ olock' = olock /\ X(t) \in Adapter /\ X(t) # 0 /\ Cur(t) \in Proc
        /\ th'[t].pc \in {"reap", "reapLate"} /\ Goes(t, th'[t].pc, th[t].raised)
        /\ Ad(X(t), Cur(t), ad[X(t)].closed, ad[X(t)].complete, ad[X(t)].leaving, t)
        /\ Srv(Cur(t), srv[Cur(t)].life, srv[Cur(t)].tree, srv[Cur(t)].result)
        /\ ~Replaced(t) /\ ~Made(t) /\ Cur(t) # 0
    BY KillEnterDoes, Sets
  <1>3. /\ ad'[X(t)].lock = t /\ ad'[X(t)].cur = Cur(t) /\ ad'[X(t)].closed = ad[X(t)].closed
        /\ ad'[X(t)].leaving = ad[X(t)].leaving /\ srv'[Cur(t)].result = srv[Cur(t)].result
    BY <1>2 DEF Ad, Srv
  <1>4. th[t].p \in {0, Cur(t)}
    BY <1>2 DEF Replaced
  <1>5. srv[Cur(t)].result # "ok"
    <2>1. Target(t) = Cur(t)
      BY <1>4 DEF Target
    <2> QED BY <1>2, <2>1 DEF Made, Bad
  <1>6. Goes(t, th'[t].pc, th'[t].raised)
    BY <1>2 DEF Goes, Is
  <1>7. th'[t].pc # "wake" /\ th'[t].pc \in {"reap", "reapLate", "wake"}
    BY <1>2
  <1> QED BY <1>1, <1>2, <1>3, <1>4, <1>5, <1>6, <1>7, GoesOn

LEMMA ReapKeeps ==
    ASSUME IInv, NEW t \in Thread, Moves(t), Reap(t)
    PROVE  Kept(t)'
  <1>1. /\ owner' = owner /\ olock' = olock /\ ad' = ad /\ Cur(t) \in Proc /\ X(t) \in Adapter
        /\ X(t) # 0
        /\ th[t].pc \in {"reap", "reapLate"} /\ Goes(t, "wake", th'[t].raised)
        /\ \/ Srv(Cur(t), "down", FALSE, srv[Cur(t)].result)
           \/ th'[t].raised /\ Srv(Cur(t), srv[Cur(t)].life, srv[Cur(t)].tree, srv[Cur(t)].result)
           \/ th'[t].raised /\ Srv(Cur(t), "down", srv[Cur(t)].tree, srv[Cur(t)].result)
    BY ReapDoes, Sets
  <1>2. srv[Cur(t)].result # "ok" /\ th[t].p \in {0, Cur(t)}
    BY <1>1, Parts DEF Teardown
  <1>3. ad[X(t)].lock = t /\ ad[X(t)].cur = Cur(t)
    BY <1>1, Parts DEF Locked, Holds, Cur
  <1>4. /\ srv'[Cur(t)].result = srv[Cur(t)].result
        /\ ~th'[t].raised => srv'[Cur(t)].life = "down" /\ ~srv'[Cur(t)].tree
    BY <1>1 DEF Srv
  <1> QED BY <1>1, <1>2, <1>3, <1>4, GoesOn

LEMMA WakeKeeps ==
    ASSUME IInv, NEW t \in Thread, Moves(t), Wake(t)
    PROVE  Kept(t)'
  <1>1. /\ owner' = owner /\ olock' = olock /\ Cur(t) \in Proc /\ X(t) \in Adapter /\ X(t) # 0
        /\ th[t].pc = "wake" /\ Stays(t, th[t].ret)
        /\ th'[t].turn = th[t].turn \/ (th'[t].turn = "lost" /\ th[t].turn = "open")
        /\ Ad(X(t), Cur(t), ad[X(t)].closed, ad[X(t)].complete, ad[X(t)].leaving,
              IF th[t].nest THEN t ELSE None)
    BY WakeDoes, Sets
  <1>2. PICK r \in {"ok", "bad", "unsaved"} :
             /\ Srv(Cur(t), srv[Cur(t)].life, srv[Cur(t)].tree, r)
             /\ r = "ok" <=> ~th'[t].raised
    BY WakeDoes
  <1>3. srv'[Cur(t)].result = r
    BY <1>1, <1>2 DEF Srv
  <1>4. /\ th[t].nest => ad'[X(t)].lock = t
        /\ ad'[X(t)].cur = Cur(t) /\ ad'[X(t)].closed = ad[X(t)].closed
        /\ ad'[X(t)].leaving = ad[X(t)].leaving
    BY <1>1 DEF Ad
  <1>5. th[t].pc \in Killing
    BY <1>1 DEF Killing
  <1>6. th[t].p \in {0, Cur(t)}
    BY <1>1, Parts DEF Teardown
  <1>7. ~th'[t].raised => srv'[Cur(t)].result = "ok"
    BY <1>2, <1>3
  <1>8. th[t].ret \in {"join", "stopped"} => srv'[th[t].p].result # "none"
    BY <1>2, <1>3, <1>5, InTeardown
  <1>9. th[t].ret = "read" => srv'[t].result # "none" \/ Cur(t) # t
    BY <1>2, <1>3
  <1>10. t \in Key => /\ th'[t].turn = "lost" => srv'[th[t].p].result # "none"
                      /\ th'[t].turn # "none" <=> th[t].turn # "none"
    BY <1>1, <1>5, <1>8, InTeardown
  <1> QED BY <1>1, <1>4, <1>7, <1>8, <1>9, <1>10, Returns

(* A worker that goes on outside a teardown.                                 *)
LEMMA Proceeds ==
    ASSUME IInv, NEW t \in Key, Moves(t), X(t) # 0, owner' = owner, olock' = olock,
           NEW l \in {"start", "launch", "init", "rpc", "turn", "leaving", "closed"},
           th'[t].pc = l, th'[t].x = X(t), th'[t].ret = "none", th'[t].nest = FALSE,
           olock = t <=> l \in {"leaving", "closed"},
           l \in {"launch", "init", "leaving"} => ad'[X(t)].lock = t,
           l = "closed" => ad'[X(t)].lock = t \/ (ad'[X(t)].complete /\ ~th'[t].raised),
           l \in {"launch", "init"} => ~ad'[X(t)].closed,
           l \in {"leaving", "closed"} => ad'[X(t)].closed,
           l \in {"launch", "closed"} /\ ~th'[t].raised =>
             ad'[X(t)].cur = 0 \/ srv'[ad'[X(t)].cur].result = "ok",
           l \in {"init", "rpc", "turn"} => th'[t].p = ad'[X(t)].cur /\ ad'[X(t)].cur # 0,
           th'[t].turn # "none" <=> l = "turn", th'[t].turn # "lost",
           l \in {"init", "rpc"} /\ th'[t].got = "fail" => ~(srv'[th'[t].p].life = "up"),
           ad'[X(t)].leaving # 0 => l \in {"leaving", "closed"}
    PROVE  Kept(t)'
  <1>0. t \notin Proc /\ t # Closer /\ t \in Thread /\ ad'[X(t)].made
    BY Roles, OwnAdapter, Sets
  <1>1. l \in WorkerPc /\ l \notin Killing /\ l # "idle"
    BY DEF WorkerPc, Killing
  <1>2. Control(t)'
    BY <1>0, <1>1 DEF Control, X
  <1>o. (Owning(t))' <=> olock' = t
    BY <1>0 DEF Owning
  <1>3. Locked(t)'
    <2>1. (Holds(t))' <=> l \in {"launch", "init", "leaving"}
      BY DEF Holds
    <2> QED BY <1>o, <2>1 DEF Locked, X
  <1>4. Teardown(t)'
    BY DEF Teardown, X, Cur, Gone
  <1>5. Work(t)'
    <2>1. Work(t) /\ (owner[t] = X(t) \/ ad'[X(t)].complete) /\ (owner[t] # 0 => ad'[owner[t]].made)
          /\ (olock = t => owner[t] = X(t))
      BY <1>0, Parts, Mine
    <2> QED BY <1>1, <1>o, <2>1 DEF Work, X
  <1>6. Turn(t)'
    <2>1. (InTurn(t))' <=> l \in {"init", "rpc", "turn"}
      BY DEF InTurn
    <2> QED BY <2>1 DEF Turn, X, Cur, Up
  <1> QED BY <1>0, <1>2, <1>3, <1>4, <1>5, <1>6 DEF Kept

LEMMA Outside ==
    ASSUME IInv, NEW t \in Key, Moves(t), th[t].pc \notin Killing, th[t].pc # "idle"
    PROVE  /\ X(t) # 0 /\ X(t) \in Adapter /\ th[t].ret = "none" /\ th[t].nest = FALSE
           /\ th[t].pc \notin {"turn", "stopped"} => th[t].turn = "none"
           /\ olock = t <=> th[t].pc \in {"dispose", "leaving", "close", "closed"}
           /\ ~ad[X(t)].closed => ad[X(t)].leaving = 0
           /\ th[t].pc \notin {"call", "release", "dispose", "leaving", "close", "closed"} =>
                ad[X(t)].leaving = 0
           /\ th[t].pc \in {"init", "rpc", "turn", "join", "stopped"} => th[t].p = Cur(t)
           /\ th[t].pc \in {"init", "rpc", "turn", "join", "stopped", "ready"} => Cur(t) # 0
           /\ Cur(t) = ad[X(t)].cur /\ t \in Thread /\ t \notin Proc /\ t # Closer
           /\ th[t].pc \in {"launch", "init", "unstart", "leaving"} => ad[X(t)].lock = t
           /\ th[t].pc \in {"launch", "init", "unstart"} => ~ad[X(t)].closed
           /\ (ad[X(t)].lock = t => th[t].pc \in {"launch", "init", "unstart", "leaving", "closed"})
  <1>1. t \in Thread /\ t \notin Proc /\ t # Closer /\ Turn(t) /\ Work(t) /\ Locked(t)
    BY Sets, Parts
  <1>2. X(t) # 0 /\ X(t) \in Adapter /\ th[t].ret = "none" /\ th[t].nest = FALSE
    BY <1>1, Plain, Places DEF Work
  <1>3. /\ th[t].pc \notin {"turn", "stopped"} => th[t].turn = "none"
        /\ olock = t <=> th[t].pc \in {"dispose", "leaving", "close", "closed"}
    BY <1>1, Plain
  <1>4. /\ ~ad[X(t)].closed => ad[X(t)].leaving = 0
    BY <1>1, <1>2, OwnAdapter
  <1>5. th[t].pc \notin {"call", "release", "dispose", "leaving", "close", "closed"} =>
                ad[X(t)].leaving = 0
    BY <1>1, <1>2 DEF Turn
  <1>6. /\ th[t].pc \in {"init", "rpc", "turn", "join", "stopped"} => th[t].p = Cur(t)
        /\ th[t].pc \in {"init", "rpc", "turn", "join", "stopped", "ready"} => Cur(t) # 0
    BY <1>1 DEF Turn, InTurn
  <1>7. /\ th[t].pc \in {"launch", "init", "unstart", "leaving"} => ad[X(t)].lock = t
        /\ th[t].pc \in {"launch", "init", "unstart"} => ~ad[X(t)].closed
    BY <1>1 DEF Locked, Holds
  <1>8. (ad[X(t)].lock = t => th[t].pc \in {"launch", "init", "unstart", "leaving", "closed"})
    <2>1. ad[X(t)].lock = t => Holds(t) \/ th[t].pc = "closed"
      BY <1>1, <1>2, Locks, Sets
    <2>2. th[t].pc \notin {"kill", "reap", "reapLate", "wake"}
      BY DEF Killing
    <2> QED BY <2>1, <2>2 DEF Holds
  <1> QED BY <1>1, <1>2, <1>3, <1>4, <1>5, <1>6, <1>7, <1>8 DEF Cur

LEMMA CallKeeps ==
    ASSUME IInv, NEW t \in Key, Moves(t), Call(t)
    PROVE  Kept(t)'
  <1>1. /\ th[t].pc = "call" /\ th[t].pc \notin Killing /\ owner' = owner /\ olock' = olock /\ ad' = ad
        /\ \/ ad[X(t)].closed /\ Released_(t, "refused")
           \/ ~ad[X(t)].closed /\ Goes(t, "start", th[t].raised)
           \/ ~ad[X(t)].closed /\ Up(Cur(t)) /\ Tears(t, 0, "forget")
    BY CallDoes DEF Quiet, Killing
  <1>2. /\ X(t) # 0 /\ th[t].ret = "none" /\ th[t].nest = FALSE /\ th[t].turn = "none" /\ olock # t
        /\ ~ad[X(t)].closed => ad[X(t)].leaving = 0
        /\ ad[X(t)].lock # t /\ t \in Thread /\ t \notin Proc /\ t # Closer
    BY <1>1, Outside
  <1>3. CASE Released_(t, "refused")
    BY <1>1, <1>2, <1>3, Releases DEF Ress
  <1>4. CASE ~ad[X(t)].closed /\ Goes(t, "start", th[t].raised)
    <2>1. /\ th'[t].pc = "start" /\ th'[t].x = X(t) /\ th'[t].ret = "none" /\ th'[t].nest = FALSE
          /\ th'[t].turn = "none"
      BY <1>2, <1>4 DEF Goes, Is
    <2> QED BY <1>1, <1>2, <1>4, <2>1, Proceeds
  <1>5. CASE ~ad[X(t)].closed /\ Tears(t, 0, "forget")
    <2>1. /\ th'[t].pc = "kill" /\ th'[t].x = X(t) /\ th'[t].ret = "forget" /\ ~th'[t].nest
          /\ th'[t].turn = "none" /\ th'[t].p = 0
      BY <1>2, <1>5 DEF Tears, Is
    <2> QED BY <1>1, <1>2, <1>5, <2>1, Enters DEF WorkerRet
  <1> QED BY <1>1, <1>3, <1>4, <1>5

LEMMA ForgetKeeps ==
    ASSUME IInv, NEW t \in Key, Moves(t), Forget(t)
    PROVE  Kept(t)'
  <1>1. /\ th[t].pc = "forget" /\ th[t].pc \notin Killing /\ owner' = owner /\ olock' = olock
        /\ X(t) \in Adapter
        /\ \/ th[t].raised /\ Released_(t, "failed") /\ ad' = ad
           \/ /\ ~th[t].raised /\ Starts(t, "start", X(t))
              /\ Ad(X(t), 0, ad[X(t)].closed, ad[X(t)].complete, ad[X(t)].leaving, ad[X(t)].lock)
    BY ForgetDoes DEF Killing
  <1>2. X(t) # 0 /\ olock # t /\ ad[X(t)].leaving = 0
    BY <1>1, Outside
  <1>3. CASE Released_(t, "failed")
    BY <1>1, <1>2, <1>3, Releases DEF Ress
  <1>4. CASE /\ Starts(t, "start", X(t))
             /\ Ad(X(t), 0, ad[X(t)].closed, ad[X(t)].complete, ad[X(t)].leaving, ad[X(t)].lock)
    <2>1. ad'[X(t)].leaving = 0
      BY <1>1, <1>2, <1>4 DEF Ad
    <2> QED BY <1>1, <1>2, <1>4, <2>1, Begins
  <1> QED BY <1>1, <1>3, <1>4

LEMMA StartKeeps ==
    ASSUME IInv, NEW t \in Key, Moves(t), Start(t)
    PROVE  Kept(t)'
  <1>1. /\ th[t].pc = "start" /\ th[t].pc \notin Killing /\ owner' = owner /\ olock' = olock
        /\ X(t) \in Adapter
        /\ \/ ad[X(t)].closed /\ Released_(t, "refused") /\ ad' = ad
           \/ ~ad[X(t)].closed /\ Up(Cur(t)) /\ Starts(t, "ready", X(t)) /\ ad' = ad
           \/ /\ ~ad[X(t)].closed
              /\ Ad(X(t), Cur(t), ad[X(t)].closed, ad[X(t)].complete, ad[X(t)].leaving, t)
              /\ \/ Cur(t) = 0 /\ Goes(t, "launch", FALSE)
                 \/ /\ Cur(t) # 0
                    /\ Is(th'[t], "kill", X(t), Cur(t), "launch", TRUE, FALSE, th[t].got, th[t].turn,
                          th[t].res)
    BY StartDoes DEF Killing
  <1>2. /\ X(t) # 0 /\ olock # t /\ ad[X(t)].leaving = 0 /\ th[t].ret = "none" /\ th[t].nest = FALSE
        /\ th[t].turn = "none" /\ Cur(t) = ad[X(t)].cur /\ t \in Thread /\ t \notin Proc /\ t # Closer
    BY <1>1, Outside
  <1>3. CASE Released_(t, "refused")
    BY <1>1, <1>2, <1>3, Releases DEF Ress
  <1>4. CASE Up(Cur(t)) /\ Starts(t, "ready", X(t)) /\ ad' = ad
    <2>1. Cur(t) # 0
      BY <1>4 DEF Up
    <2> QED BY <1>1, <1>2, <1>4, <2>1, Begins
  <1>5. ASSUME ~ad[X(t)].closed,
               Ad(X(t), Cur(t), ad[X(t)].closed, ad[X(t)].complete, ad[X(t)].leaving, t)
        PROVE  /\ ad'[X(t)].cur = Cur(t) /\ ad'[X(t)].lock = t /\ ~ad'[X(t)].closed
               /\ ad'[X(t)].leaving = 0
    BY <1>1, <1>2, <1>5 DEF Ad
  <1>6. CASE /\ ~ad[X(t)].closed
             /\ Ad(X(t), Cur(t), ad[X(t)].closed, ad[X(t)].complete, ad[X(t)].leaving, t)
             /\ Cur(t) = 0 /\ Goes(t, "launch", FALSE)
    <2>1. /\ th'[t].pc = "launch" /\ th'[t].x = X(t) /\ th'[t].ret = "none" /\ th'[t].nest = FALSE
          /\ th'[t].turn = "none"
      BY <1>2, <1>6 DEF Goes, Is
    <2> QED BY <1>1, <1>2, <1>5, <1>6, <2>1, Proceeds
  <1>7. CASE /\ ~ad[X(t)].closed
             /\ Ad(X(t), Cur(t), ad[X(t)].closed, ad[X(t)].complete, ad[X(t)].leaving, t)
             /\ Is(th'[t], "kill", X(t), Cur(t), "launch", TRUE, FALSE, th[t].got, th[t].turn,
                   th[t].res)
    <2>1. /\ th'[t].pc = "kill" /\ th'[t].x = X(t) /\ th'[t].ret = "launch" /\ th'[t].nest
          /\ th'[t].turn = "none" /\ th'[t].p = Cur(t)
      BY <1>2, <1>7 DEF Is
    <2> QED BY <1>1, <1>2, <1>5, <1>7, <2>1, Enters DEF WorkerRet
  <1> QED BY <1>1, <1>3, <1>4, <1>6, <1>7

LEMMA StartTimesOutKeeps ==
    ASSUME IInv, NEW t \in Key, Moves(t), StartTimesOut(t)
    PROVE  Kept(t)'
  <1>1. /\ th[t].pc = "start" /\ th[t].pc \notin Killing /\ owner' = owner /\ olock' = olock
        /\ Released_(t, "timedOut")
    BY StartTimesOutDoes DEF Killing, Quiet
  <1>2. X(t) # 0 /\ olock # t
    BY <1>1, Outside
  <1> QED BY <1>1, <1>2, Releases DEF Ress

LEMMA LaunchKeeps ==
    ASSUME IInv, NEW t \in Key, Moves(t), Launch(t)
    PROVE  Kept(t)'
  <1>1. /\ th[t].pc = "launch" /\ th[t].pc \notin Killing /\ owner' = owner /\ olock' = olock
        /\ X(t) \in Adapter
    BY LaunchDoes DEF Killing
  <1>2. /\ X(t) # 0 /\ olock # t /\ ad[X(t)].leaving = 0 /\ th[t].ret = "none" /\ th[t].nest = FALSE
        /\ th[t].turn = "none" /\ ad[X(t)].lock = t /\ ~ad[X(t)].closed
    BY <1>1, Outside
  <1>3. CASE Released_(t, "failed")
    BY <1>1, <1>2, <1>3, Releases DEF Ress
  <1>4. ASSUME NEW p \in Proc, Launched(t, p)
        PROVE  Kept(t)'
    <2>1. /\ th'[t].pc = "init" /\ th'[t].x = X(t) /\ th'[t].p = p /\ th'[t].ret = "none"
          /\ th'[t].nest = FALSE /\ th'[t].turn = "none" /\ th'[t].got = "none"
      BY <1>2, <1>4 DEF Launched, Is
    <2>2. /\ ad'[X(t)].cur = p /\ ad'[X(t)].lock = t /\ ~ad'[X(t)].closed
          /\ ad'[X(t)].leaving = 0
      BY <1>1, <1>2, <1>4 DEF Launched, Ad
    <2> QED BY <1>1, <1>2, <2>1, <2>2, Sets, Proceeds
  <1> QED BY <1>3, <1>4, LaunchDoes

LEMMA InitializeKeeps ==
    ASSUME IInv, NEW t \in Key, Moves(t), Initialize(t)
    PROVE  Kept(t)'
  <1>1. /\ th[t].pc = "init" /\ th[t].pc \notin Killing /\ owner' = owner /\ olock' = olock
        /\ X(t) \in Adapter
        /\ \/ /\ Starts(t, "ready", X(t))
              /\ Ad(X(t), Cur(t), ad[X(t)].closed, ad[X(t)].complete, ad[X(t)].leaving, None)
           \/ Tears(t, 0, "unstart") /\ ad' = ad
    BY InitializeDoes DEF Killing
  <1>2. /\ X(t) # 0 /\ olock # t /\ ad[X(t)].leaving = 0 /\ th[t].ret = "none" /\ th[t].nest = FALSE
        /\ th[t].turn = "none" /\ Cur(t) = ad[X(t)].cur /\ t \in Thread /\ t \notin Proc /\ t # Closer
        /\ ad[X(t)].lock = t /\ ~ad[X(t)].closed /\ Cur(t) # 0
    BY <1>1, Outside
  <1>3. CASE /\ Starts(t, "ready", X(t))
             /\ Ad(X(t), Cur(t), ad[X(t)].closed, ad[X(t)].complete, ad[X(t)].leaving, None)
    <2>1. ad'[X(t)].cur # 0 /\ ad'[X(t)].leaving = 0
      BY <1>1, <1>2, <1>3 DEF Ad
    <2> QED BY <1>1, <1>2, <1>3, <2>1, Begins
  <1>4. CASE Tears(t, 0, "unstart") /\ ad' = ad
    <2>1. /\ th'[t].pc = "kill" /\ th'[t].x = X(t) /\ th'[t].ret = "unstart" /\ th'[t].nest
          /\ th'[t].turn = "none" /\ th'[t].p = 0
      BY <1>2, <1>4 DEF Tears, Is
    <2> QED BY <1>1, <1>2, <1>4, <2>1, Enters DEF WorkerRet
  <1> QED BY <1>1, <1>3, <1>4

LEMMA UnstartKeeps ==
    ASSUME IInv, NEW t \in Key, Moves(t), Unstart(t)
    PROVE  Kept(t)'
  <1>1. /\ th[t].pc = "unstart" /\ th[t].pc \notin Killing /\ owner' = owner /\ olock' = olock
        /\ Released_(t, "failed")
    BY UnstartDoes DEF Killing
  <1>2. X(t) # 0 /\ olock # t
    BY <1>1, Outside
  <1> QED BY <1>1, <1>2, Releases DEF Ress

LEMMA DispatchKeeps ==
    ASSUME IInv, NEW t \in Key, Moves(t), Dispatch(t)
    PROVE  Kept(t)'
  <1>1. /\ th[t].pc = "ready" /\ th[t].pc \notin Killing /\ Quiet
        /\ \/ Released_(t, "timedOut")
           \/ /\ Is(th'[t], "rpc", X(t), Cur(t), th[t].ret, th[t].nest, th[t].raised, th'[t].got,
                    th[t].turn, th[t].res)
              /\ th'[t].got = "fail" => ~Up(Cur(t))
    BY DispatchDoes DEF Killing
  <1>2. /\ X(t) # 0 /\ olock # t /\ ad[X(t)].leaving = 0 /\ th[t].ret = "none" /\ th[t].nest = FALSE
        /\ th[t].turn = "none" /\ Cur(t) = ad[X(t)].cur /\ Cur(t) # 0
    BY <1>1, Outside
  <1>q. owner' = owner /\ olock' = olock /\ ad' = ad /\ srv' = srv
    BY <1>1 DEF Quiet
  <1>3. CASE Released_(t, "timedOut")
    BY <1>2, <1>3, <1>q, Releases DEF Ress
  <1>4. CASE /\ Is(th'[t], "rpc", X(t), Cur(t), th[t].ret, th[t].nest, th[t].raised, th'[t].got,
                    th[t].turn, th[t].res)
             /\ th'[t].got = "fail" => ~Up(Cur(t))
    <2>1. /\ th'[t].pc = "rpc" /\ th'[t].x = X(t) /\ th'[t].p = Cur(t) /\ th'[t].ret = "none"
          /\ th'[t].nest = FALSE /\ th'[t].turn = "none"
      BY <1>2, <1>4 DEF Is
    <2>2. th'[t].got = "fail" => ~(srv[Cur(t)].life = "up")
      BY <1>2, <1>4 DEF Up
    <2> QED BY <1>2, <1>q, <2>1, <2>2, Proceeds
  <1> QED BY <1>1, <1>3, <1>4

LEMMA AcknowledgedKeeps ==
    ASSUME IInv, NEW t \in Key, Moves(t), Acknowledged(t)
    PROVE  Kept(t)'
  <1>1. /\ th[t].pc = "rpc" /\ th[t].pc \notin Killing /\ Quiet
        /\ \/ Is(th'[t], "turn", X(t), th[t].p, th[t].ret, th[t].nest, th[t].raised, "none", "open", th[t].res)
           \/ Tears(t, th[t].p, "join")
    BY AcknowledgedDoes DEF Killing
  <1>2. /\ X(t) # 0 /\ olock # t /\ ad[X(t)].leaving = 0 /\ th[t].ret = "none" /\ th[t].nest = FALSE
        /\ th[t].turn = "none" /\ Cur(t) = ad[X(t)].cur /\ Cur(t) # 0 /\ th[t].p = Cur(t)
        /\ ad[X(t)].lock # t /\ t \in Thread /\ t \notin Proc /\ t # Closer
    BY <1>1, Outside
  <1>q. owner' = owner /\ olock' = olock /\ ad' = ad /\ srv' = srv
    BY <1>1 DEF Quiet
  <1>3. CASE Is(th'[t], "turn", X(t), th[t].p, th[t].ret, th[t].nest, th[t].raised, "none", "open", th[t].res)
    <2>1. /\ th'[t].pc = "turn" /\ th'[t].x = X(t) /\ th'[t].p = Cur(t) /\ th'[t].ret = "none"
          /\ th'[t].nest = FALSE /\ th'[t].turn = "open"
      BY <1>2, <1>3 DEF Is
    <2> QED BY <1>2, <1>q, <2>1, Proceeds
  <1>4. CASE Tears(t, th[t].p, "join")
    <2>1. /\ th'[t].pc = "kill" /\ th'[t].x = X(t) /\ th'[t].ret = "join" /\ ~th'[t].nest
          /\ th'[t].turn = "none" /\ th'[t].p = Cur(t)
      BY <1>2, <1>4 DEF Tears, Is
    <2> QED BY <1>2, <1>q, <2>1, Enters DEF WorkerRet
  <1> QED BY <1>1, <1>3, <1>4

LEMMA JoinKeeps ==
    ASSUME IInv, NEW t \in Key, Moves(t), Join(t) \/ Stopped(t)
    PROVE  Kept(t)'
  <1>1. /\ th[t].pc \in {"join", "stopped"} /\ th[t].pc \notin Killing /\ Quiet
        /\ \/ th[t].raised /\ Released_(t, "unverified")
           \/ ~th[t].raised /\ Released_(t, "stopped")
    BY JoinDoes, StoppedDoes DEF Killing
  <1>2. X(t) # 0 /\ olock # t /\ Cur(t) # 0 /\ th[t].p = Cur(t)
    BY <1>1, Outside
  <1>3. ~th[t].raised => srv[th[t].p].result # "none"
    BY <1>1, Parts DEF Turn
  <1>q. owner' = owner /\ olock' = olock /\ ad' = ad /\ srv' = srv
    BY <1>1 DEF Quiet
  <1>4. CASE Released_(t, "unverified")
    BY <1>2, <1>4, <1>q, Releases DEF Ress
  <1>5. CASE ~th[t].raised /\ Released_(t, "stopped")
    BY <1>2, <1>3, <1>5, <1>q, Releases DEF Ress
  <1> QED BY <1>1, <1>4, <1>5

LEMMA WaitingKeeps ==
    ASSUME IInv, NEW t \in Key, Moves(t), Waiting(t)
    PROVE  Kept(t)'
  <1>1. /\ th[t].pc = "turn" /\ th[t].pc \notin Killing /\ Quiet
        /\ \/ Released_(t, "ok") \/ Released_(t, "failed")
           \/ th[t].turn = "lost" /\ Released_(t, "stopped")
           \/ th[t].turn \in {"open", "policy"} /\ Tears(t, th[t].p, "stopped")
    BY WaitingDoes DEF Killing
  <1>2. /\ X(t) # 0 /\ olock # t /\ ad[X(t)].leaving = 0 /\ th[t].ret = "none" /\ th[t].nest = FALSE
        /\ Cur(t) = ad[X(t)].cur /\ Cur(t) # 0 /\ th[t].p = Cur(t)
        /\ ad[X(t)].lock # t /\ t \in Thread /\ t \notin Proc /\ t # Closer
    BY <1>1, Outside
  <1>q. owner' = owner /\ olock' = olock /\ ad' = ad /\ srv' = srv
    BY <1>1 DEF Quiet
  <1>3. CASE Released_(t, "ok")
    BY <1>2, <1>3, <1>q, Releases DEF Ress
  <1>4. CASE Released_(t, "failed")
    BY <1>2, <1>4, <1>q, Releases DEF Ress
  <1>5. CASE th[t].turn = "lost" /\ Released_(t, "stopped")
    <2>1. srv[th[t].p].result # "none"
      BY <1>5, Parts DEF Turn
    <2> QED BY <1>2, <1>5, <1>q, <2>1, Releases DEF Ress
  <1>6. CASE th[t].turn \in {"open", "policy"} /\ Tears(t, th[t].p, "stopped")
    <2>1. /\ th'[t].pc = "kill" /\ th'[t].x = X(t) /\ th'[t].ret = "stopped" /\ ~th'[t].nest
          /\ th'[t].turn # "lost" /\ th'[t].p = Cur(t)
      BY <1>2, <1>6 DEF Tears, Is
    <2> QED BY <1>2, <1>q, <2>1, Enters DEF WorkerRet
  <1> QED BY <1>1, <1>3, <1>4, <1>5, <1>6

LEMMA ContinueKeeps ==
    ASSUME IInv, NEW t \in Key, Moves(t), Continue(t)
    PROVE  Kept(t)'
  <1>1. /\ th[t].pc = "release" /\ th[t].pc \notin Killing /\ owner' = owner /\ olock' = olock
        /\ Starts(t, "idle", 0)
    BY ContinueDoes DEF Killing, Quiet
  <1>2. olock # t
    BY <1>1, Outside
  <1>3. owner'[t] # 0 => ad'[owner'[t]].made
    BY <1>1, Mine
  <1> QED BY <1>1, <1>2, <1>3, Idles

LEMMA ReleaseKeeps ==
    ASSUME IInv, NEW t \in Key, Moves(t), Release(t)
    PROVE  Kept(t)'
  <1>1. /\ th[t].pc = "release" /\ th[t].pc \notin Killing /\ owner' = owner /\ olock = None
        /\ \/ owner[t] = 0 /\ Starts(t, "idle", 0) /\ olock' = olock
           \/ /\ owner[t] # 0 /\ owner[t] \in Adapter /\ olock' = t
              /\ Starts(t, "dispose", owner[t]) \/ Starts(t, "close", owner[t])
    BY ReleaseDoes DEF Killing
  <1>2. olock # t
    BY <1>1, Outside
  <1>3. owner'[t] # 0 => ad'[owner'[t]].made
    BY <1>1, Mine
  <1>4. CASE Starts(t, "idle", 0) /\ olock' = olock
    BY <1>1, <1>2, <1>3, <1>4, Idles
  <1>5. ASSUME owner[t] # 0, olock' = t, NEW l \in {"dispose", "close"}, Starts(t, l, owner[t])
        PROVE  Kept(t)'
    <2>1. /\ th'[t].pc = l /\ th'[t].x = owner[t] /\ th'[t].ret = "none" /\ th'[t].nest = FALSE
          /\ th'[t].turn = "none"
      BY <1>5 DEF Starts, Is
    <2> QED BY <1>1, <1>3, <1>5, <2>1, Fresh
  <1> QED BY <1>1, <1>4, <1>5

LEMMA ObtainKeeps ==
    ASSUME IInv, NEW t \in Key, Moves(t), Obtain(t)
    PROVE  Kept(t)'
  <1>1. olock = None /\ olock' = olock /\ t # None
    BY ObtainDoes, Sets
  <1>2. PICK x \in Adapter :
            /\ Starts(t, "call", x) /\ owner' = [owner EXCEPT ![t] = x]
            /\ \/ owner[t] = x /\ ad' = ad
               \/ ad' = [ad EXCEPT ![x].made = TRUE]
    BY ObtainDoes
  <1>3. owner \in [Key -> {0} \cup Adapter] /\ ad \in [Adapter -> AdapterRecord] /\ x # 0
    BY Places, Sets
  <1>4. owner'[t] = x
    BY <1>2, <1>3
  <1>5. ad'[x].made
    <2>1. CASE owner[t] = x /\ ad' = ad
      BY <1>3, <2>1, Parts DEF Work
    <2>2. CASE ad' = [ad EXCEPT ![x].made = TRUE]
      BY <1>3, <2>2 DEF AdapterRecord
    <2> QED BY <1>2, <2>1, <2>2
  <1>6. /\ th'[t].pc = "call" /\ th'[t].x = x /\ th'[t].ret = "none" /\ th'[t].nest = FALSE
        /\ th'[t].turn = "none"
    BY <1>2 DEF Starts, Is
  <1> QED BY <1>1, <1>3, <1>4, <1>5, <1>6, Fresh

LEMMA DropKeeps ==
    ASSUME IInv, NEW t \in Key, NEW gone \in BOOLEAN, Dropped(t, gone), Moves(t),
           olock' = None, Starts(t, "idle", 0)
    PROVE  Kept(t)'
  <1>1. owner[t] # 0 => owner[t] \in Adapter /\ ad'[owner[t]].made
    <2>1. owner[t] \in {0} \cup Adapter /\ (owner[t] # 0 => ad[owner[t]].made) /\ t \in Thread
      BY Sets, Parts, Places DEF Work
    <2> QED BY <2>1, AdFrame DEF AdKept
  <1>2. owner'[t] \in {0, owner[t]}
    BY Places, Sets DEF Dropped
  <1> QED BY <1>1, <1>2, Idles, Sets

LEMMA DisposeKeeps ==
    ASSUME IInv, NEW t \in Key, Moves(t), Dispose(t)
    PROVE  Kept(t)'
  <1>1. /\ th[t].pc = "dispose" /\ th[t].pc \notin Killing /\ X(t) \in Adapter /\ olock = t
        /\ \/ Dropped(t, TRUE) /\ olock' = None /\ Starts(t, "idle", 0)
           \/ /\ Ad(X(t), Cur(t), TRUE, ad[X(t)].complete, Cur(t), t)
              /\ Goes(t, "leaving", th[t].raised) /\ UNCHANGED <<owner, olock>>
    BY DisposeDoes DEF Killing
  <1>2. /\ X(t) # 0 /\ th[t].ret = "none" /\ th[t].nest = FALSE /\ th[t].turn = "none"
    BY <1>1, Outside
  <1>3. CASE Dropped(t, TRUE) /\ olock' = None /\ Starts(t, "idle", 0)
    BY <1>3, DropKeeps
  <1>4. CASE /\ Ad(X(t), Cur(t), TRUE, ad[X(t)].complete, Cur(t), t)
             /\ Goes(t, "leaving", th[t].raised) /\ UNCHANGED <<owner, olock>>
    <2>1. /\ th'[t].pc = "leaving" /\ th'[t].x = X(t) /\ th'[t].ret = "none" /\ th'[t].nest = FALSE
          /\ th'[t].turn = "none"
      BY <1>2, <1>4 DEF Goes, Is
    <2>2. ad'[X(t)].lock = t /\ ad'[X(t)].closed
      BY <1>1, <1>4 DEF Ad
    <2> QED BY <1>1, <1>2, <1>4, <2>1, <2>2, Proceeds
  <1> QED BY <1>1, <1>3, <1>4

LEMMA LeavingKeeps ==
    ASSUME IInv, NEW t \in Key, Moves(t), Leaving(t)
    PROVE  Kept(t)'
  <1>1. (Dropped(t, TRUE) \/ Dropped(t, FALSE)) /\ olock' = None /\ Starts(t, "idle", 0)
    BY LeavingDoes
  <1> QED BY <1>1, DropKeeps

LEMMA AbandonKeeps ==
    ASSUME IInv, NEW t \in Key, Moves(t), Abandon(t)
    PROVE  Kept(t)'
  <1>1. /\ th' = th /\ srv' = srv /\ olock' = olock /\ th[t].pc = "idle" /\ Dropped(t, TRUE)
    BY AbandonDoes
  <1>2. th[t].ret = "none" /\ th[t].nest = FALSE /\ th[t].turn = "none" /\ olock # t /\ th[t].x = 0
    BY <1>1, Plain, Parts, Sets DEF Killing, Work, X
  <1>3. owner'[t] = 0
    BY <1>1, Places, Sets DEF Dropped
  <1> QED BY <1>1, <1>2, <1>3, Fresh

LEMMA CloserKept ==
    ASSUME th'[Closer].ret = "none", th'[Closer].nest = FALSE,
           th'[Closer].pc \in {"idle", "next", "close"},
           th'[Closer].x # 0 => ad'[th'[Closer].x].made,
           th'[Closer].pc = "close" => th'[Closer].x # 0,
           olock' = Closer <=> th'[Closer].pc # "idle"
    PROVE  Kept(Closer)'
  <1>0. Closer \notin Key /\ Closer \notin Proc
    BY Sets
  <1>1. th'[Closer].pc \in CloserPc /\ th'[Closer].pc \notin Killing
    BY DEF CloserPc, Killing
  <1>2. Control(Closer)'
    BY <1>0, <1>1 DEF Control, X
  <1>3. Locked(Closer)'
    BY DEF Locked, Holds, Owning
  <1>4. Teardown(Closer)'
    BY <1>1 DEF Teardown, X
  <1> QED BY <1>0, <1>2, <1>3, <1>4 DEF Kept

LEMMA CloserIs ==
    ASSUME IInv
    PROVE  /\ Closer \in Thread /\ Closer \notin Key /\ Closer \notin Proc
           /\ olock = Closer <=> th[Closer].pc # "idle"
           /\ th[Closer].pc \notin Killing => th[Closer].ret = "none" /\ th[Closer].nest = FALSE
           /\ X(Closer) # 0 => ad[X(Closer)].made
  <1>1. Closer \in Thread /\ Closer \notin Key /\ Closer \notin Proc
    BY Sets
  <1>2. olock = Closer <=> th[Closer].pc # "idle"
    BY <1>1, Parts DEF Locked, Owning
  <1>3. th[Closer].pc \notin Killing => th[Closer].ret = "none" /\ th[Closer].nest = FALSE
    BY <1>1, Plain
  <1> QED BY <1>1, <1>2, <1>3, Parts DEF Control

LEMMA CloseAdapterKeeps ==
    ASSUME IInv, NEW t \in Thread, Moves(t), CloseAdapter(t)
    PROVE  Kept(t)'
  <1>1. /\ th[t].pc = "close" /\ th[t].pc \notin Killing /\ owner' = owner /\ olock' = olock
        /\ srv' = srv
        /\ \/ ad[X(t)].complete /\ Goes(t, "closed", FALSE) /\ ad' = ad
           \/ /\ Ad(X(t), Cur(t), TRUE, ad[X(t)].complete, ad[X(t)].leaving, t)
              /\ Is(th'[t], "kill", X(t), 0, "closed", TRUE, FALSE, th[t].got, th[t].turn, th[t].res)
    BY CloseAdapterDoes DEF Killing
  <1>2. /\ X(t) # 0 /\ X(t) \in Adapter /\ th[t].ret = "none" /\ th[t].nest = FALSE
    BY <1>1, Plain, Places, Parts DEF Teardown
  <1>3. t \in Key => th[t].turn = "none" /\ olock = t
    BY <1>1, Plain
  <1>4. t \notin Proc
    BY <1>1, Parts DEF Control, ReaderPc, Killing
  <1>5. t \notin Key => t = Closer /\ olock = t
    BY <1>1, <1>4, Roles, CloserIs
  <1>6. CASE ad[X(t)].complete /\ Goes(t, "closed", FALSE) /\ ad' = ad
    <2>1. (ad[X(t)].cur = 0 \/ srv[ad[X(t)].cur].result = "ok") /\ ad[X(t)].closed
      BY <1>2, <1>6, Parts DEF Adapted, Gone
    <2>2. /\ th'[t].pc = "closed" /\ th'[t].x = X(t) /\ th'[t].ret = "none" /\ th'[t].nest = FALSE
          /\ th'[t].turn = th[t].turn /\ th'[t].raised = FALSE
      BY <1>2, <1>6 DEF Goes, Is
    <2>3. CASE t \in Key
      BY <1>1, <1>2, <1>3, <1>6, <2>1, <2>2, <2>3, Proceeds
    <2>4. CASE t \notin Key
      <3>0. /\ t \notin Key /\ t \notin Proc /\ t = Closer /\ "closed" \in CloserPc
            /\ "closed" \notin Killing /\ ad[X(t)].made
        BY <1>2, <1>4, <1>5, <2>4, Parts DEF CloserPc, Killing, Control
      <3>1. Control(t)'
        BY <1>6, <2>2, <3>0 DEF Control, X
      <3>2. Locked(t)'
        BY <1>1, <1>5, <1>6, <2>2, <2>4 DEF Locked, Holds, Owning, X
      <3>3. Teardown(t)'
        BY <1>1, <1>2, <1>6, <2>1, <2>2 DEF Teardown, X, Cur, Gone
      <3> QED BY <1>4, <2>4, <3>1, <3>2, <3>3 DEF Kept
    <2> QED BY <2>3, <2>4
  <1>7. CASE /\ Ad(X(t), Cur(t), TRUE, ad[X(t)].complete, ad[X(t)].leaving, t)
             /\ Is(th'[t], "kill", X(t), 0, "closed", TRUE, FALSE, th[t].got, th[t].turn, th[t].res)
    <2>1. /\ th'[t].pc = "kill" /\ th'[t].x = X(t) /\ th'[t].p = 0 /\ th'[t].ret = "closed"
          /\ th'[t].nest /\ th'[t].turn = th[t].turn
      BY <1>7 DEF Is
    <2>2. ad'[X(t)].lock = t /\ ad'[X(t)].closed
      BY <1>2, <1>7 DEF Ad
    <2>3. t \in Key => "closed" \in WorkerRet /\ t # Closer
      BY Roles DEF WorkerRet
    <2> QED BY <1>1, <1>2, <1>3, <1>4, <1>5, <2>1, <2>2, <2>3, Enters
  <1> QED BY <1>1, <1>6, <1>7

LEMMA ClosedKeeps ==
    ASSUME IInv, NEW t \in Thread, Moves(t), Closed(t)
    PROVE  Kept(t)'
  <1>1. th[t].pc = "closed"
    BY ClosedDoes
  <1>2. CASE t \in Key
    <2>1. Starts(t, "idle", 0) /\ olock' = None /\ Dropped(t, ~th[t].raised)
      BY <1>2, ClosedDoes
    <2>2. Dropped(t, TRUE) \/ Dropped(t, FALSE)
      BY <2>1 DEF Dropped
    <2> QED BY <1>2, <2>1, <2>2, DropKeeps
  <1>3. CASE t \notin Key
    <2>1. t = Closer
      BY <1>1, <1>3, Parts, Roles DEF Control, ReaderPc, Killing
    <2>2. Starts(t, "next", 0) /\ olock' = olock
      BY <1>3, ClosedDoes
    <2>3. th'[t].pc = "next" /\ th'[t].x = 0 /\ th'[t].ret = "none" /\ th'[t].nest = FALSE
      BY <2>2 DEF Starts, Is
    <2>4. olock = Closer
      BY <1>1, <2>1, CloserIs
    <2> QED BY <2>1, <2>2, <2>3, <2>4, CloserKept
  <1> QED BY <1>2, <1>3

LEMMA CloseProviderKeeps ==
    ASSUME IInv, CloseProvider
    PROVE  Kept(Closer)'
  <1>1. /\ ad' = ad /\ th[Closer].pc = "idle" /\ olock' = Closer
        /\ Goes(Closer, "next", th[Closer].raised)
    BY CloseProviderDoes
  <1>2. th[Closer].ret = "none" /\ th[Closer].nest = FALSE /\ (X(Closer) # 0 => ad[X(Closer)].made)
    BY <1>1, CloserIs DEF Killing
  <1>3. th'[Closer].pc = "next" /\ th'[Closer].x = X(Closer) /\ th'[Closer].ret = "none"
        /\ th'[Closer].nest = FALSE
    BY <1>1, <1>2 DEF Goes, Is
  <1> QED BY <1>1, <1>2, <1>3, CloserKept

LEMMA NextOwnerKeeps ==
    ASSUME IInv, NextOwner
    PROVE  Kept(Closer)'
  <1>1. /\ ad' = ad /\ th[Closer].pc = "next"
        /\ \/ \E k \in left : Starts(Closer, "close", owner[k]) /\ olock' = olock
           \/ left = {} /\ olock' = None /\ Goes(Closer, "idle", th[Closer].raised)
    BY NextOwnerDoes
  <1>2. /\ th[Closer].ret = "none" /\ th[Closer].nest = FALSE /\ (X(Closer) # 0 => ad[X(Closer)].made)
        /\ olock = Closer
    BY <1>1, CloserIs DEF Killing
  <1>3. ASSUME NEW k \in left, Starts(Closer, "close", owner[k]), olock' = olock
        PROVE  Kept(Closer)'
    <2>1. owner[k] # 0 /\ ad[owner[k]].made
      <3>1. k \in Key /\ owner[k] # 0
        BY DEF IInv, TypeOK, Closing
      <3> QED BY <3>1, Parts DEF Work
    <2>2. th'[Closer].pc = "close" /\ th'[Closer].x = owner[k] /\ th'[Closer].ret = "none"
          /\ th'[Closer].nest = FALSE
      BY <1>3 DEF Starts, Is
    <2> QED BY <1>1, <1>2, <1>3, <2>1, <2>2, CloserKept
  <1>4. CASE olock' = None /\ Goes(Closer, "idle", th[Closer].raised)
    <2>1. th'[Closer].pc = "idle" /\ th'[Closer].x = X(Closer) /\ th'[Closer].ret = "none"
          /\ th'[Closer].nest = FALSE
      BY <1>2, <1>4 DEF Goes, Is
    <2>2. olock' # Closer
      BY <1>4, Roles, Sets
    <2> QED BY <1>1, <1>2, <2>1, <2>2, CloserKept
  <1> QED BY <1>1, <1>3, <1>4

LEMMA OverKeeps ==
    ASSUME IInv, NEW t \in Proc, Starts(t, "over", 0), olock' = olock
    PROVE  Kept(t)'
  <1>0. t \in Thread /\ t \notin Key /\ t # Closer
    BY Sets
  <1>1. th'[t].pc = "over" /\ th'[t].x = 0 /\ th'[t].ret = "none" /\ th'[t].nest = FALSE
    BY DEF Starts, Is
  <1>2. Control(t)'
    BY <1>0, <1>1 DEF Control, X, ReaderPc, Killing
  <1>3. Locked(t)'
    <2>1. olock # t
      BY <1>0, Parts DEF Locked, Owning
    <2> QED BY <1>0, <1>1, <2>1 DEF Locked, Holds, Owning
  <1>4. Teardown(t)'
    BY <1>1 DEF Teardown, Killing
  <1>5. Reading(t)'
    BY <1>1 DEF Reading
  <1> QED BY <1>0, <1>2, <1>3, <1>4, <1>5 DEF Kept

LEMMA ReaderKeeps ==
    ASSUME IInv, NEW t \in Proc, Moves(t), EndOfStream(t) \/ ReaderEnds(t)
    PROVE  Kept(t)'
  <1>0. t \in Thread /\ t \notin Key /\ t # Closer /\ t # 0
    BY Sets
  <1>1. CASE Starts(t, "over", 0)
    BY <1>1, OverKeeps, EndOfStreamDoes, ReaderEndsDoes DEF Quiet
  <1>2. CASE /\ EndOfStream(t)
             /\ Is(th'[t], "kill", X(t), th[t].p, "read", th[t].nest, th[t].raised, th[t].got, th[t].turn,
                   th[t].res)
    <2>1. th[t].pc = "reading" /\ th[t].pc \notin Killing /\ owner' = owner /\ olock' = olock /\ srv' = srv
      BY <1>2, EndOfStreamDoes DEF Killing, Quiet
    <2>2. th[t].nest = FALSE /\ srv[t].life # "none" /\ X(t) = srv[t].of /\ th[t].p = t
      BY <1>0, <2>1, Plain, Parts DEF Reading
    <2>3. X(t) # 0 /\ olock # t
      BY <1>0, <2>2, Parts DEF Process, Locked, Owning
    <2>4. th'[t].pc = "kill" /\ th'[t].x = X(t) /\ th'[t].p = t /\ th'[t].ret = "read" /\ ~th'[t].nest
      BY <1>2, <2>2 DEF Is
    <2> QED BY <1>0, <2>1, <2>2, <2>3, <2>4, Enters
  <1> QED BY <1>1, <1>2, EndOfStreamDoes, ReaderEndsDoes

(* Every step of a thread keeps what the invariant says of it.               *)
LEMMA OwnKept ==
    ASSUME IInv, NEW t \in Thread, Moves(t)
    PROVE  Kept(t)'
  <1>1. CASE KillSteps(t)
    BY <1>1, KillNothingKeeps, KillEnterKeeps, ReapKeeps, WakeKeeps DEF KillSteps
  <1>2. CASE t \in Key /\ (Worker(t) \/ Obtain(t) \/ Abandon(t))
    BY <1>1, <1>2, CallKeeps, ForgetKeeps, StartKeeps, StartTimesOutKeeps, LaunchKeeps,
       InitializeKeeps,
       UnstartKeeps, DispatchKeeps, AcknowledgedKeeps, JoinKeeps, WaitingKeeps, ContinueKeeps,
       ReleaseKeeps, DisposeKeeps, LeavingKeeps, CloseAdapterKeeps, ClosedKeeps, ObtainKeeps,
       AbandonKeeps DEF Worker
  <1>3. CASE CloseAdapter(t) \/ Closed(t)
    BY <1>3, CloseAdapterKeeps, ClosedKeeps
  <1>4. CASE t \in Proc /\ (EndOfStream(t) \/ ReaderEnds(t))
    BY <1>4, ReaderKeeps
  <1>5. CASE t = Closer /\ (CloseProvider \/ NextOwner)
    BY <1>5, CloseProviderKeeps, NextOwnerKeeps
  <1> QED BY <1>1, <1>2, <1>3, <1>4, <1>5 DEF Moves
-----------------------------------------------------------------------------
(* What the steps of a thread leave to the processes.                        *)
LEMMA OwnerLost ==
    ASSUME IInv, NEW t \in Thread, Moves(t), NEW k \in Key, owner[k] # 0, owner'[k] # owner[k]
    PROVE  /\ owner'[k] = 0 /\ owner[k] \in Adapter
           /\ \/ ad'[owner[k]].given
              \/ ad[owner[k]].cur = 0 \/ ~Up(ad[owner[k]].cur)
  <1>0. /\ owner \in [Key -> {0} \cup Adapter] /\ owner[k] \in Adapter /\ ad[owner[k]].made
        /\ k \in Thread
    BY Places, Parts, Sets DEF Work
  <1>1. ASSUME NEW x \in Adapter, Gone(ad[x].cur)
        PROVE  ad[x].cur = 0 \/ ~Up(ad[x].cur)
    <2>1. ad[x].cur \in {0} \cup Proc
      BY Places DEF AdapterRecord
    <2> QED BY <1>1, <2>1, Parts DEF Process, Gone, Up
  <1>2. CASE t = Closer /\ Closed(t) /\ ~th[t].raised /\ owner[k] = X(t) /\ owner'[k] = 0
    <2>1. Gone(Cur(t))
      BY <1>2, ClosedDoes, Parts DEF Teardown
    <2> QED BY <1>0, <1>1, <1>2, <2>1 DEF Cur
  <1>3. CASE k = t
    <2>1. owner'[k] # owner[k] => ~UNCHANGED <<owner, shut, olock, left, clean>>
      OBVIOUS
    <2>2. \/ Closed(t) \/ Obtain(t) \/ Release(t) \/ Dispose(t) \/ Leaving(t) \/ Abandon(t)
      BY <1>3, <2>1, Writers, Roles
    <2>3. ~Release(t)
      BY <1>3, ReleaseDoes
    <2>4. ~Obtain(t)
      <3> SUFFICES ASSUME Obtain(t) PROVE FALSE
        OBVIOUS
      <3>1. PICK x \in Adapter : owner' = [owner EXCEPT ![t] = x] /\ (owner[t] = x \/ owner[t] = 0)
        BY <1>3, ObtainDoes
      <3> QED BY <1>0, <1>3, <3>1
    <2>5. owner' = [owner EXCEPT ![t] = 0]
      BY <1>3, <2>2, <2>3, <2>4, ClosedDoes, DisposeDoes, LeavingDoes, AbandonDoes DEF Dropped
    <2>6. owner'[k] = 0
      BY <1>0, <1>3, <2>5
    <2>7. CASE Abandon(t)
      BY <1>0, <1>3, <2>6, <2>7, AbandonDoes
    <2>8. CASE Closed(t) \/ Dispose(t) \/ Leaving(t)
      <3>1. th[t].pc \in {"closed", "dispose", "leaving"}
        BY <1>3, <2>8, ClosedDoes, DisposeDoes, LeavingDoes
      <3>2. X(t) = owner[k]
        BY <1>3, <3>1, Parts, Roles DEF Work, Owning
      <3>3. CASE Closed(t)
        <4>1. ~th[t].raised
          BY <1>3, <3>3, ClosedDoes DEF Dropped
        <4>2. Gone(Cur(t))
          BY <3>3, <4>1, ClosedDoes, Parts DEF Teardown
        <4> QED BY <1>0, <1>1, <2>6, <3>2, <4>2 DEF Cur
      <3>4. CASE Dispose(t)
        <4>1. ad[X(t)].complete \/ Cur(t) = 0
          BY <1>3, <3>4, DisposeDoes
        <4>2. Gone(Cur(t))
          BY <1>0, <3>2, <4>1, Parts DEF Adapted, Gone, Cur
        <4> QED BY <1>0, <1>1, <2>6, <3>2, <4>2 DEF Cur
      <3>5. CASE Leaving(t)
        <4>1. ~Up(Cur(t))
          BY <1>3, <3>5, LeavingDoes DEF Dropped
        <4> QED BY <1>0, <2>6, <3>2, <4>1 DEF Cur
      <3> QED BY <2>8, <3>3, <3>4, <3>5
    <2> QED BY <2>2, <2>3, <2>4, <2>7, <2>8
  <1> QED BY <1>2, <1>3, OwnerFrame DEF OwnerKept

LEMMA CurLost ==
    ASSUME IInv, NEW t \in Thread, Moves(t), NEW x \in Adapter, ad[x].cur # 0, ad'[x].cur # ad[x].cur
    PROVE  ~Up(ad[x].cur) \/ (Bad(ad[x].cur) /\ srv'[ad[x].cur] = srv[ad[x].cur])
  <1>0. ad[x].cur \in Proc /\ srv[ad[x].cur].life # "none"
    BY Places, Parts DEF AdapterRecord, Adapted
  <1>1. ASSUME Gone(ad[x].cur)
        PROVE  ~Up(ad[x].cur)
    BY <1>0, <1>1, Parts, Sets DEF Process, Gone, Up
  <1>2. CASE t \in Key /\ x = X(t) /\ Forget(t) /\ ~th[t].raised
    BY <1>1, <1>2, ForgetDoes, Parts DEF Teardown, Cur
  <1>3. CASE ~Up(ad[x].cur)
    BY <1>3
  <1>4. CASE t \in Key /\ x = X(t) /\ Launch(t)
    <2>1. CASE ~th[t].raised
      BY <1>1, <1>4, <2>1, LaunchDoes, Parts DEF Teardown, Cur
    <2>2. CASE th[t].raised
      <3>1. (\E p \in Proc : Launched(t, p)) \/ ad'[x].cur = ad[x].cur
        BY <1>4, LaunchDoes DEF Ad, Cur
      <3>2. PICK p \in Proc : Launched(t, p)
        BY <3>1
      <3>3. srv[ad[x].cur].result = "bad"
        <4>1. \/ Released_(t, "failed")
              \/ srv[Cur(t)].result = "bad"
          BY <1>4, <2>2, LaunchDoes
        <4>2. ~Released_(t, "failed")
          BY <3>2 DEF Launched, Is, Released_
        <4> QED BY <1>4, <4>1, <4>2 DEF Cur
      <3>4. srv'[ad[x].cur] = srv[ad[x].cur]
        BY <1>0, <3>2 DEF Launched
      <3> QED BY <3>3, <3>4 DEF Bad
    <2> QED BY <2>1, <2>2
  <1> QED BY <1>2, <1>3, <1>4, AdFrame DEF AdKept

LEMMA ResultIs ==
    ASSUME IInv, NEW t \in Thread, Moves(t), NEW p \in Proc, srv'[p].result # srv[p].result
    PROVE  \/ srv[p].life # "none"
           \/ t \in Key /\ Launch(t) /\ Launched(t, p)
  <1>1. CASE SrvKept(t, p)
    <2>1. Wake(t) /\ p = Cur(t)
      BY <1>1 DEF SrvKept
    <2> QED BY <2>1, WakeDoes, Own, Sets
  <1> QED BY <1>1, SrvFrame

LEMMA NotStarted ==
    ASSUME IInv, NEW t \in Thread, Moves(t), NEW p \in Proc, srv'[p].life = "none"
    PROVE  srv[p].life = "none" /\ srv'[p].of = srv[p].of /\ srv'[p].result = srv[p].result
  <1>1. ~(t \in Key /\ Launch(t) /\ Launched(t, p))
    BY DEF Launched, NoServer
  <1>2. SrvKept(t, p)
    BY <1>1, SrvFrame
  <1>3. srv[p].life = "none" /\ srv'[p].of = srv[p].of
    BY <1>2 DEF SrvKept
  <1> QED BY <1>1, <1>3, ResultIs

LEMMA Awake ==
    ASSUME IInv, NEW t \in Thread, Moves(t)
    PROVE  th[t].pc # "none"
  <1>1. CASE t \in Proc
    <2>1. CASE KillSteps(t) \/ CloseAdapter(t) \/ Closed(t)
      BY <2>1 DEF KillSteps, KillNothing, KillEnter, Reap, Wake, CloseAdapter, Closed, At
    <2>2. CASE EndOfStream(t) \/ ReaderEnds(t)
      BY <2>2 DEF EndOfStream, ReaderEnds, At
    <2> QED BY <1>1, <2>1, <2>2, Roles DEF Moves
  <1>2. CASE t \notin Proc
    BY <1>2, Parts, Roles DEF Control, WorkerPc, CloserPc, Killing
  <1> QED BY <1>1, <1>2

LEMMA ProcessKept ==
    ASSUME IInv, NEW t \in Thread, Moves(t), NEW p \in Proc
    PROVE  Process(p)'
  <1>0. Process(p) /\ p \in Thread /\ p # 0 /\ Proc \subseteq Nat
    BY Parts, Sets
  <1>1. ASSUME srv'[p].life = "none"
        PROVE  /\ srv'[p].of = 0 /\ srv'[p].result = "none" /\ th'[p].pc = "none"
               /\ \A q \in Proc : q > p => srv'[q].life = "none"
    <2>1. /\ srv[p].life = "none" /\ srv'[p].of = 0 /\ srv'[p].result = "none" /\ th[p].pc = "none"
          /\ \A q \in Proc : q > p => srv[q].life = "none"
      BY <1>0, <1>1, NotStarted DEF Process
    <2>2. th'[p].pc = "none"
      <3>1. p # t
        BY <2>1, Awake
      <3>2. Same(p)
        BY <1>0, <1>1, <3>1, Others
      <3> QED BY <2>1, <3>2 DEF Same
    <2>3. ASSUME NEW q \in Proc, q > p
          PROVE  srv'[q].life = "none"
      <3>1. ~Launched(t, q)
        BY <1>0, <2>1, <2>3 DEF Launched
      <3>2. SrvKept(t, q)
        BY <3>1, SrvFrame
      <3> QED BY <2>1, <2>3, <3>2 DEF SrvKept
    <2> QED BY <2>1, <2>2, <2>3
  <1>2. ASSUME t \in Key, Launch(t), Launched(t, p)
        PROVE  Process(p)'
    <2>1. /\ srv'[p].life = "up" /\ srv'[p].of = X(t) /\ srv'[p].key = t /\ srv'[p].result = "none"
      BY <1>2 DEF Launched, NoServer
    <2>2. X(t) \in Adapter /\ owner' = owner /\ th[t].pc = "launch" /\ t # None
      BY <1>2, LaunchDoes, Sets
    <2>3. ad'[X(t)].made /\ ad'[X(t)].cur = p
      BY <1>2, <2>2, OwnAdapter, Sets DEF Launched, Ad
    <2>4. owner[t] = X(t)
      <3>1. ~ad[X(t)].closed /\ X(t) # 0
        BY <2>2, Parts, Sets DEF Locked
      <3> QED BY <1>2, <2>2, <3>1, Parts DEF Work, Adapted
    <2> QED BY <2>1, <2>2, <2>3, <2>4, Sets DEF Process
  <1>3. ASSUME srv'[p].life # "none", SrvKept(t, p)
        PROVE  Process(p)'
    <2>1. /\ srv[p].life # "none" /\ srv'[p].of = srv[p].of /\ srv'[p].key = srv[p].key
          /\ srv[p].of # 0 /\ srv[p].key # None /\ ad[srv[p].of].made
          /\ srv[p].of \in Adapter /\ srv[p].key \in Key
      BY <1>0, <1>3, Places DEF SrvKept, Process, ServerRecord
    <2>2. ad'[srv[p].of].made /\ (ad[srv[p].of].given => ad'[srv[p].of].given)
      BY <2>1, AdFrame DEF AdKept
    <2>3. srv'[p].result = "ok" => srv'[p].life = "down" /\ ~srv'[p].tree
      BY <1>0, <1>3 DEF SrvKept, Process
    <2>4. ASSUME srv'[p].life = "up"
          PROVE  \/ srv'[p].result \in {"bad", "unsaved"} \/ ad'[srv[p].of].given
                 \/ ad'[srv[p].of].cur = p /\ owner'[srv[p].key] = srv[p].of
      <3>1. Up(p)
        BY <1>0, <1>3, <2>4 DEF SrvKept, Up
      <3>2. srv'[p].result # "ok"
        BY <2>3, <2>4
      <3>3. CASE Bad(p)
        BY <1>3, <3>2, <3>3 DEF SrvKept, Bad
      <3>4. CASE ad[srv[p].of].given
        BY <2>2, <3>4
      <3>5. CASE ad[srv[p].of].cur = p /\ owner[srv[p].key] = srv[p].of
        <4>1. CASE ad'[srv[p].of].cur # p
          BY <1>0, <2>1, <3>1, <3>3, <3>5, <4>1, CurLost
        <4>2. CASE owner'[srv[p].key] # srv[p].of
          BY <1>0, <2>1, <3>1, <3>5, <4>2, OwnerLost
        <4> QED BY <3>5, <4>1, <4>2
      <3> QED BY <1>0, <3>1, <3>3, <3>4, <3>5 DEF Process
    <2> QED BY <1>3, <2>1, <2>2, <2>3, <2>4 DEF Process, Up, Bad
  <1>4. CASE srv'[p].life = "none"
    BY <1>1, <1>4, <1>0 DEF Process, Up
  <1> QED BY <1>2, <1>3, <1>4, SrvFrame
-----------------------------------------------------------------------------
(* What they leave to the adapters.                                          *)
LEMMA Unmade ==
    ASSUME IInv, NEW t \in Thread, Moves(t), NEW x \in Adapter, ~ad[x].made
    PROVE  ad'[x] = ad[x] \/ (t \in Key /\ Obtain(t) /\ ad'[x].made)
  <1>0. ad \in [Adapter -> AdapterRecord] /\ X(t) # x
    BY Parts, Places, Sets DEF Control
  <1>1. CASE ad' = ad
    BY <1>1
  <1>2. CASE KillEnter(t) \/ Wake(t) \/ CloseAdapter(t) \/ Closed(t)
    <2>1. ad' # ad => \E a, b, c, d, e : Ad(X(t), a, b, c, d, e)
      BY <1>2, KillEnterDoes, WakeDoes, CloseAdapterDoes, ClosedDoes
    <2> QED BY <1>0, <1>1, <2>1 DEF Ad
  <1>3. CASE t \in Key /\ (Forget(t) \/ Start(t) \/ Launch(t) \/ Initialize(t) \/ Unstart(t))
    <2>1. ad' # ad => \E a, b, c, d, e : Ad(X(t), a, b, c, d, e)
      BY <1>3, ForgetDoes, StartDoes, LaunchDoes, InitializeDoes, UnstartDoes DEF Launched
    <2> QED BY <1>0, <1>1, <2>1 DEF Ad
  <1>4. CASE t \in Key /\ (Dispose(t) \/ Leaving(t))
    <2>1. \E a, b, c, d, e : Ad(X(t), a, b, c, d, e)
      BY <1>4, DisposeDoes, LeavingDoes
    <2> QED BY <1>0, <2>1 DEF Ad
  <1>5. CASE t \in Key /\ Abandon(t)
    <2>1. ad' = [ad EXCEPT ![owner[t]].given = TRUE] /\ owner[t] # 0
      BY <1>5 DEF Abandon
    <2>2. owner[t] # x
      BY <1>5, <2>1, Parts DEF Work
    <2> QED BY <1>0, <2>1, <2>2
  <1>6. CASE t \in Key /\ Obtain(t)
    <2>1. PICK y \in Adapter : ad' = ad \/ ad' = [ad EXCEPT ![y].made = TRUE]
      BY <1>6, ObtainDoes
    <2>2. CASE y = x /\ ad' # ad
      BY <1>0, <1>6, <2>1, <2>2 DEF AdapterRecord
    <2>3. CASE y # x
      BY <1>0, <2>1, <2>3
    <2> QED BY <1>1, <2>2, <2>3
  <1> QED BY Writers, <1>1, <1>2, <1>3, <1>4, <1>5, <1>6

LEMMA LastMade ==
    ASSUME IInv, NEW t \in Key, Obtain(t), NEW x \in Adapter, ~ad[x].made,
           NEW y \in Adapter, y > x
    PROVE  ~ad'[y].made \/ ad'[x].made
  <1>1. ad \in [Adapter -> AdapterRecord] /\ Adapter \subseteq Nat /\ t \in Thread
    BY Places, Sets
  <1>2. ~ad[y].made
    BY Parts DEF Adapted
  <1>3. CASE ad' = ad
    BY <1>2, <1>3
  <1>4. ASSUME NEW z \in Adapter, ad' = [ad EXCEPT ![z].made = TRUE], \A w \in Adapter : w < z => ad[w].made
        PROVE  ~ad'[y].made \/ ad'[x].made
    <2>1. ~(x < z)
      BY <1>4
    <2>2. z # y
      BY <1>1, <2>1
    <2>3. ad'[y] = ad[y]
      BY <1>1, <1>4, <2>2
    <2> QED BY <1>2, <2>3
  <1> QED BY <1>3, <1>4, ObtainDoes

LEMMA LockAfter ==
    ASSUME IInv, NEW t \in Thread, Moves(t), NEW x \in Adapter, ad'[x].lock = t
    PROVE  th'[t].x = x /\ ((Holds(t))' \/ th'[t].pc = "closed")
  <1>0. t # None /\ ad \in [Adapter -> AdapterRecord] /\ AdKept(t, x)
    BY Roles, Places, AdFrame
  <1>1. X(t) = x /\ X(t) \in Adapter /\ X(t) # 0
    <2>1. CASE ad'[x].lock # ad[x].lock
      BY <1>0, <2>1, Sets DEF AdKept
    <2>2. CASE ad[x].lock = t
      BY <1>0, <2>2, Locks, Sets
    <2> QED BY <2>1, <2>2
  <1>k. Control(t)
    BY Parts
  <1>2. CASE KillNothing(t)
    <2>1. th[t].pc = "kill" /\ ad' = ad /\ Stays(t, th[t].ret)
      BY <1>2, KillNothingDoes DEF Quiet, KillNothing, At
    <2>2. Holds(t) /\ th[t].nest
      BY <1>0, <1>1, <2>1, Locks DEF Holds
    <2>3. th[t].ret \in {"launch", "unstart", "closed"}
      BY <1>k, <2>2 DEF Control
    <2>4. th'[t].x = X(t) /\ th'[t].pc = th[t].ret
      BY <2>1 DEF Stays, Is
    <2> QED BY <1>1, <2>3, <2>4 DEF Holds
  <1>3. CASE KillEnter(t)
    BY <1>1, <1>3, KillEnterDoes DEF Goes, Is, Holds
  <1>4. CASE Reap(t)
    BY <1>1, <1>4, ReapDoes DEF Goes, Is, Holds
  <1>5. CASE Wake(t)
    <2>1. Stays(t, th[t].ret) /\ (ad'[X(t)].lock = IF th[t].nest THEN t ELSE None)
      BY <1>1, <1>5, WakeDoes DEF Ad
    <2>2. th[t].ret \in {"launch", "unstart", "closed"}
      BY <1>0, <1>1, <1>k, <2>1 DEF Control
    <2>4. th'[t].x = X(t) /\ th'[t].pc = th[t].ret
      BY <2>1 DEF Stays, Is
    <2> QED BY <1>1, <2>2, <2>4 DEF Holds
  <1>6. CASE CloseAdapter(t)
    BY <1>1, <1>6, CloseAdapterDoes DEF Goes, Is, Holds
  <1>7. CASE Closed(t)
    BY <1>0, <1>1, <1>7, ClosedDoes DEF Ad
  <1>8. ASSUME ad' = ad, th[t].pc \notin {"launch", "init", "unstart", "leaving", "closed"} \cup Killing
        PROVE  FALSE
    BY <1>0, <1>1, <1>8, Locks DEF Holds, Killing
  <1>9. CASE t \in Key /\ (Call(t) \/ StartTimesOut(t) \/ Dispatch(t) \/ Acknowledged(t) \/ Join(t)
                          \/ Waiting(t) \/ Stopped(t) \/ Continue(t) \/ Release(t))
    BY <1>8, <1>9, CallDoes, StartTimesOutDoes, DispatchDoes, AcknowledgedDoes, JoinDoes,
       WaitingDoes,
       StoppedDoes, ContinueDoes, ReleaseDoes DEF Quiet, Killing
  <1>10. CASE t \in Key /\ (Obtain(t) \/ Abandon(t) \/ Forget(t))
    <2>1. th[t].pc \in {"idle", "forget"}
      BY <1>10, ObtainDoes, AbandonDoes, ForgetDoes
    <2>2. ad'[x].lock = ad[x].lock
      <3>1. CASE Obtain(t)
        <4>1. PICK y \in Adapter : ad' = ad \/ ad' = [ad EXCEPT ![y].made = TRUE]
          BY <1>10, <3>1, ObtainDoes
        <4> QED BY <1>0, <4>1 DEF AdapterRecord
      <3>2. CASE Abandon(t)
        BY <1>10, <3>2, AbandonDoes
      <3>3. CASE Forget(t)
        BY <1>1, <1>10, <3>3, ForgetDoes DEF Ad
      <3> QED BY <1>10, <3>1, <3>2, <3>3
    <2> QED BY <1>0, <2>1, <2>2, Locks DEF Holds
  <1>11. CASE t \in Key /\ Start(t)
    <2>1. th[t].pc = "start"
      BY <1>11, StartDoes
    <2>2. ad' # ad
      BY <1>8, <2>1 DEF Killing
    <2>3. \/ Goes(t, "launch", FALSE)
          \/ Is(th'[t], "kill", X(t), Cur(t), "launch", TRUE, FALSE, th[t].got, th[t].turn, th[t].res)
      BY <1>11, <2>2, StartDoes
    <2> QED BY <1>1, <2>3 DEF Goes, Is, Holds
  <1>12. CASE t \in Key /\ (Launch(t) \/ Initialize(t) \/ Unstart(t) \/ Leaving(t))
    <2>1. \/ \E a, b, c, d : Ad(X(t), a, b, c, d, None)
          \/ \E p \in Proc : Launched(t, p)
          \/ Tears(t, 0, "unstart") /\ Initialize(t)
      BY <1>12, LaunchDoes, InitializeDoes, UnstartDoes, LeavingDoes
    <2>2. ~\E a, b, c, d : Ad(X(t), a, b, c, d, None)
      BY <1>0, <1>1 DEF Ad
    <2>3. CASE \E p \in Proc : Launched(t, p)
      BY <1>1, <2>3 DEF Launched, Is, Holds
    <2>4. CASE Tears(t, 0, "unstart") /\ Initialize(t)
      <3>1. ad[X(t)].lock = t
        BY <1>12, <2>4, InitializeDoes, Parts, Sets DEF Locked, Holds
      <3> QED BY <1>1, <2>4, <3>1 DEF Tears, Is, Holds
    <2> QED BY <2>1, <2>2, <2>3, <2>4
  <1>13. CASE t \in Key /\ Dispose(t)
    <2>1. CASE Ad(X(t), Cur(t), TRUE, TRUE, ad[X(t)].leaving, ad[X(t)].lock)
      <3>1. ad[x].lock = t
        BY <1>1, <2>1 DEF Ad
      <3> QED BY <1>0, <1>13, <3>1, Locks, DisposeDoes DEF Holds
    <2>2. CASE Goes(t, "leaving", th[t].raised)
      BY <1>1, <2>2 DEF Goes, Is, Holds
    <2> QED BY <1>13, <2>1, <2>2, DisposeDoes
  <1>14. CASE t \in Proc /\ (EndOfStream(t) \/ ReaderEnds(t))
    BY <1>8, <1>14, EndOfStreamDoes, ReaderEndsDoes DEF Quiet, Killing
  <1>15. CASE t = Closer /\ (CloseProvider \/ NextOwner)
    BY <1>8, <1>15, CloseProviderDoes, NextOwnerDoes DEF Killing
  <1> QED BY <1>2, <1>3, <1>4, <1>5, <1>6, <1>7, <1>9, <1>10, <1>11, <1>12, <1>13, <1>14, <1>15
      DEF Moves, Worker, KillSteps

LEMMA CompleteBefore ==
    ASSUME IInv, NEW t \in Thread, Moves(t), NEW x \in Adapter, ad[x].complete
    PROVE  ad'[x].closed /\ ad'[x].lock = None /\ ad'[x].complete
           /\ (ad'[x].cur = 0 \/ srv'[ad'[x].cur].result = "ok")
  <1>1. /\ ad[x].closed /\ ad[x].lock = None /\ Gone(ad[x].cur) /\ AdKept(t, x) /\ t # None
        /\ ad[x].cur \in {0} \cup Proc
    BY Parts, AdFrame, Roles, Places DEF Adapted, AdapterRecord
  <1>2. ad'[x].cur = ad[x].cur \/ ad'[x].cur = 0
    <2>1. ~(t \in Key /\ x = X(t) /\ Launch(t))
      BY <1>1, LaunchDoes, Parts DEF Locked, Holds
    <2> QED BY <1>1, <2>1 DEF AdKept
  <1>3. ad'[x].cur = 0 \/ srv'[ad'[x].cur].result = "ok"
    BY <1>1, <1>2, GoneKept
  <1>4. ASSUME ad'[x].lock # None
        PROVE  FALSE
    <2>1. x = X(t) /\ ad'[x].lock = t
      BY <1>1, <1>4 DEF AdKept
    <2>2. ad' # ad
      BY <1>1, <1>4
    <2>3. ~Holds(t)
      BY <1>1, <2>1, Parts DEF Locked
    <2>4. ~KillEnter(t)
      <3> SUFFICES ASSUME KillEnter(t) PROVE FALSE
        OBVIOUS
      <3>1. ~Replaced(t) /\ ~Made(t) /\ Cur(t) # 0
        BY KillEnterDoes
      <3>2. Target(t) = Cur(t)
        BY <3>1 DEF Replaced, Target
      <3>3. srv[Cur(t)].result = "ok"
        BY <1>1, <2>1, <3>1 DEF Gone, Cur
      <3> QED BY <3>1, <3>2, <3>3 DEF Made, Bad
    <2>5. ~CloseAdapter(t)
      BY <1>1, <2>1, <2>2, CloseAdapterDoes
    <2>6. ~Closed(t) /\ ~Wake(t)
      BY <1>4, <2>1, <2>3, ClosedDoes, WakeDoes DEF Ad, Holds
    <2>7. t \in Key => ~Obtain(t) /\ ~Abandon(t)
      <3>1. t \in Key /\ Obtain(t) => ad'[x].lock = ad[x].lock
        <4> SUFFICES ASSUME t \in Key, Obtain(t) PROVE ad'[x].lock = ad[x].lock
          OBVIOUS
        <4>1. PICK y \in Adapter : ad' = ad \/ ad' = [ad EXCEPT ![y].made = TRUE]
          BY ObtainDoes
        <4> QED BY <4>1, Places DEF AdapterRecord
      <3> QED BY <1>1, <1>4, <3>1, AbandonDoes
    <2>8. t \in Key => ~Forget(t)
      BY <1>1, <1>4, <2>1, <2>2, ForgetDoes DEF Ad
    <2>9. t \in Key => ~Start(t)
      BY <1>1, <2>1, <2>2, StartDoes
    <2>10. t \in Key => ~Launch(t) /\ ~Initialize(t) /\ ~Unstart(t) /\ ~Leaving(t)
      BY <2>3, LaunchDoes, InitializeDoes, UnstartDoes, LeavingDoes DEF Holds
    <2>11. t \in Key => ~Dispose(t)
      BY <1>1, <1>4, <2>1, DisposeDoes DEF Ad
    <2> QED BY <2>2, <2>4, <2>5, <2>6, <2>7, <2>8, <2>9, <2>10, <2>11, Writers
  <1> QED BY <1>1, <1>3, <1>4 DEF AdKept

LEMMA CompleteAfter ==
    ASSUME IInv, NEW t \in Thread, Moves(t), NEW x \in Adapter, ~ad[x].complete, ad'[x].complete
    PROVE  ad'[x].closed /\ ad'[x].lock = None
           /\ (ad'[x].cur = 0 \/ srv'[ad'[x].cur].result = "ok")
  <1>1. x = X(t) /\ ad' # ad /\ Cur(t) = ad[x].cur /\ Cur(t) \in {0} \cup Proc
    BY AdFrame, Places DEF AdKept, Cur, AdapterRecord
  <1>2. CASE Closed(t)
    <2>1. ~th[t].raised /\ th[t].pc = "closed"
      BY <1>1, <1>2, ClosedDoes
    <2>2. ad[x].closed /\ Gone(Cur(t))
      BY <1>1, <2>1, Parts DEF Teardown
    <2>3. ad'[x].closed = ad[x].closed /\ ad'[x].lock = None /\ ad'[x].cur = Cur(t)
      BY <1>1, <1>2, ClosedDoes DEF Ad
    <2> QED BY <1>1, <2>2, <2>3, GoneKept
  <1>3. CASE t \in Key /\ Dispose(t)
    <2>1. /\ Cur(t) = 0
          /\ Ad(X(t), Cur(t), TRUE, TRUE, ad[X(t)].leaving, ad[X(t)].lock)
      BY <1>1, <1>3, DisposeDoes DEF Ad
    <2>2. ad[x].lock = None
      BY <1>1, <1>3, DisposeDoes, Locks, ZenonT(40) DEF Free, Holds
    <2> QED BY <1>1, <2>1, <2>2 DEF Ad
  <1>4. CASE t \in Key /\ Leaving(t)
    <2>1. Ad(X(t), 0, ad[X(t)].closed, TRUE, ad[X(t)].leaving, None) /\ th[t].pc = "leaving"
      BY <1>1, <1>4, LeavingDoes DEF Ad
    <2>2. ad[x].closed
      BY <1>1, <2>1, Parts DEF Teardown
    <2> QED BY <1>1, <2>1, <2>2 DEF Ad
  <1>5. CASE KillEnter(t) \/ Wake(t) \/ CloseAdapter(t)
    <2>1. \E a, b, c, d : Ad(X(t), a, b, ad[X(t)].complete, c, d)
      BY <1>1, <1>5, KillEnterDoes, WakeDoes, CloseAdapterDoes
    <2> QED BY <1>1, <2>1 DEF Ad
  <1>6. CASE t \in Key /\ (Forget(t) \/ Start(t) \/ Launch(t) \/ Initialize(t) \/ Unstart(t))
    <2>1. \E a, b, c, d : Ad(X(t), a, b, ad[X(t)].complete, c, d)
      BY <1>1, <1>6, ForgetDoes, StartDoes, LaunchDoes, InitializeDoes, UnstartDoes DEF Launched
    <2> QED BY <1>1, <2>1 DEF Ad
  <1>7. CASE t \in Key /\ (Obtain(t) \/ Abandon(t))
    <2>1. CASE Obtain(t)
      <3>1. PICK y \in Adapter : ad' = ad \/ ad' = [ad EXCEPT ![y].made = TRUE]
        BY <1>7, <2>1, ObtainDoes
      <3> QED BY <3>1, Places DEF AdapterRecord
    <2>2. CASE Abandon(t)
      BY <1>7, <2>2, AbandonDoes
    <2> QED BY <1>7, <2>1, <2>2
  <1> QED BY <1>1, <1>2, <1>3, <1>4, <1>5, <1>6, <1>7, Writers

LEMMA AdaptedKept ==
    ASSUME IInv, NEW t \in Thread, Moves(t), NEW x \in Adapter
    PROVE  Adapted(x)'
  <1>0. /\ Adapted(x) /\ AdKept(t, x) /\ ad \in [Adapter -> AdapterRecord] /\ ad[x].cur \in {0} \cup Proc
        /\ Adapter \subseteq Nat
    BY Parts, AdFrame, Places, Sets DEF AdapterRecord
  <1>1. ASSUME ~ad'[x].made
        PROVE  ad'[x] = NoAdapter /\ \A y \in Adapter : y > x => ~ad'[y].made
    <2>1. ~ad[x].made
      BY <1>0, <1>1 DEF AdKept
    <2>2. ad'[x] = NoAdapter
      BY <1>0, <1>1, <2>1, Unmade DEF Adapted
    <2>3. ASSUME NEW y \in Adapter, y > x
          PROVE  ~ad'[y].made
      <3>1. ~ad[y].made
        BY <1>0, <2>1, <2>3 DEF Adapted
      <3> QED BY <1>1, <2>1, <2>3, <3>1, Unmade, LastMade
    <2> QED BY <2>2, <2>3
  <1>2. ASSUME ad'[x].cur # 0
        PROVE  srv'[ad'[x].cur].life # "none" /\ srv'[ad'[x].cur].of = x
    <2>1. CASE ad'[x].cur = ad[x].cur
      <3>1. ad[x].cur \in Proc /\ srv[ad[x].cur].life # "none" /\ srv[ad[x].cur].of = x
        BY <1>0, <1>2, <2>1 DEF Adapted
      <3> QED BY <2>1, <3>1, ProcKept DEF SrvKept
    <2>2. CASE x = X(t) /\ t \in Key /\ Launch(t) /\ ad'[x].cur # ad[x].cur
      <3>1. PICK p \in Proc : Launched(t, p)
        BY <2>2, LaunchDoes DEF Ad, Cur
      <3>2. ad'[x].cur = p /\ srv'[p].life = "up" /\ srv'[p].of = X(t)
        BY <2>2, <3>1 DEF Launched, Ad, NoServer
      <3> QED BY <2>2, <3>2
    <2> QED BY <1>0, <1>2, <2>1, <2>2 DEF AdKept
  <1>3. ad'[x].complete => /\ ad'[x].closed /\ ad'[x].lock = None
                           /\ ad'[x].cur = 0 \/ srv'[ad'[x].cur].result = "ok"
    BY CompleteBefore, CompleteAfter
  <1>4. ASSUME NEW u \in Thread, ad'[x].lock = u
        PROVE  th'[u].x = x /\ ((Holds(u))' \/ th'[u].pc = "closed")
    <2>1. CASE u = t
      BY <1>4, <2>1, LockAfter
    <2>2. CASE u # t
      <3>1. ad[x].lock = u /\ u # None
        BY <1>0, <1>4, <2>2, Roles DEF AdKept
      <3>2. X(u) = x /\ (Holds(u) \/ th[u].pc = "closed")
        BY <3>1, Locks
      <3>3. Same(u)
        <4>1. ~(u \in Proc /\ t \in Key /\ Launched(t, u))
          BY <3>2, Parts DEF Launched, Process, Holds
        <4> QED BY <2>2, <4>1, Others, LaunchedIs
      <3> QED BY <3>2, <3>3 DEF Same, Holds, X
    <2> QED BY <2>1, <2>2
  <1>6. ad'[x].lock \in Thread \cup {None}
    BY AdTyped DEF AdapterRecord
  <1>7. ad'[x].lock # None =>
          th'[ad'[x].lock].x = x /\ (\/ th'[ad'[x].lock].pc \in {"launch", "init", "unstart", "leaving", "reap", "reapLate", "wake"}
                                     \/ th'[ad'[x].lock].pc = "kill" /\ th'[ad'[x].lock].nest
                                     \/ th'[ad'[x].lock].pc = "closed")
    BY <1>4, <1>6 DEF Holds
  <1>5. ad'[x].leaving # 0 => ad'[x].closed
    <2>1. CASE ad'[x].leaving = ad[x].leaving
      BY <1>0, <2>1 DEF Adapted, AdKept
    <2>2. CASE x = X(t) /\ t \in Key /\ Dispose(t)
      BY <2>2, DisposeDoes DEF Ad
    <2> QED BY <1>0, <2>1, <2>2 DEF AdKept
  <1> QED BY <1>1, <1>2, <1>3, <1>5, <1>7 DEF Adapted, Gone, X, Holds
-----------------------------------------------------------------------------
(* An adapter stays with its operation.                                      *)
LEMMA NextAdapter ==
    ASSUME IInv, NEW t \in Key, Moves(t), NEW x \in Adapter, th'[t].x = x
    PROVE  X(t) = x \/ owner[t] = x \/ (Obtain(t) /\ ~ad[x].made)
  <1>0. t \in Thread /\ x # 0 /\ t # Closer /\ t \notin Proc
    BY Sets
  <1>1. CASE KillSteps(t) \/ CloseAdapter(t) \/ Closed(t)
    BY <1>0, <1>1, KillNothingDoes, KillEnterDoes, ReapDoes, WakeDoes, CloseAdapterDoes,
       ClosedDoes
       DEF KillSteps, Stays, Goes, Is, Starts
  <1>2. CASE Call(t) \/ Forget(t) \/ StartTimesOut(t) \/ Initialize(t) \/ Unstart(t)
    BY <1>0, <1>2, CallDoes, ForgetDoes, StartTimesOutDoes, InitializeDoes, UnstartDoes
       DEF Released_, Goes, Is, Starts, Tears
  <1>3. CASE Start(t)
    BY <1>0, <1>3, StartDoes DEF Released_, Goes, Is, Starts
  <1>4. CASE Launch(t)
    BY <1>0, <1>4, LaunchDoes DEF Released_, Is, Launched
  <1>5. CASE Dispatch(t) \/ Acknowledged(t) \/ Join(t) \/ Stopped(t)
    BY <1>0, <1>5, DispatchDoes, AcknowledgedDoes, JoinDoes, StoppedDoes DEF Released_, Is,
       Tears
  <1>6. CASE Waiting(t) \/ Continue(t)
    BY <1>0, <1>6, WaitingDoes, ContinueDoes DEF Released_, Is, Tears, Starts
  <1>7. CASE Release(t) \/ Dispose(t) \/ Leaving(t)
    BY <1>0, <1>7, ReleaseDoes, DisposeDoes, LeavingDoes DEF Starts, Is, Goes
  <1>8. CASE Obtain(t)
    <2>1. PICK y \in Adapter : Starts(t, "call", y) /\ (owner[t] = y \/ ~ad[y].made)
      BY <1>8, ObtainDoes
    <2>2. y = x
      BY <2>1 DEF Starts, Is
    <2> QED BY <1>8, <2>1, <2>2
  <1>9. CASE Abandon(t)
    BY <1>9, AbandonDoes DEF X
  <1> QED BY <1>0, <1>1, <1>2, <1>3, <1>4, <1>5, <1>6, <1>7, <1>8, <1>9 DEF Moves, Worker

LEMMA NextOwnerOf ==
    ASSUME IInv, NEW t \in Thread, Moves(t), NEW k \in Key, NEW x \in Adapter, owner'[k] = x
    PROVE  owner[k] = x \/ (k = t /\ Obtain(t) /\ ~ad[x].made)
  <1>1. CASE owner[k] # 0
    BY <1>1, OwnerLost, Sets
  <1>2. CASE owner[k] = 0 /\ k # t
    BY <1>2, OwnerFrame, Sets DEF OwnerKept
  <1>3. CASE owner[k] = 0 /\ k = t
    <2>1. \/ Closed(t) \/ Obtain(t) \/ Release(t) \/ Dispose(t) \/ Leaving(t) \/ Abandon(t)
      BY <1>3, Writers, Roles, Sets
    <2>2. ~Release(t)
      BY <1>3, ReleaseDoes, Sets
    <2>3. ~Closed(t) /\ ~Dispose(t) /\ ~Leaving(t) /\ ~Abandon(t)
      BY <1>3, Places, ClosedDoes, DisposeDoes, LeavingDoes, AbandonDoes, Sets DEF Dropped
    <2>4. Obtain(t)
      BY <2>1, <2>2, <2>3
    <2>5. PICK y \in Adapter : owner' = [owner EXCEPT ![t] = y] /\ (owner[t] = y \/ ~ad[y].made)
      BY <1>3, <2>4, ObtainDoes
    <2> QED BY <1>3, <2>4, <2>5, Places
  <1> QED BY <1>1, <1>2, <1>3

LEMMA OfKept ==
    ASSUME IInv, NEW t \in Thread, Moves(t), NEW x \in Adapter, NEW k \in Key, Of(x, k)'
    PROVE  Of(x, k) \/ (k = t /\ t \in Key /\ Obtain(t) /\ ~ad[x].made)
  <1>0. k \in Thread /\ k \notin Proc
    BY Sets
  <1>1. CASE owner'[k] = x
    BY <1>1, NextOwnerOf DEF Of
  <1>2. CASE th'[k].x = x
    <2>1. CASE k = t
      BY <1>2, <2>1, NextAdapter DEF Of
    <2>2. CASE k # t
      <3>1. Same(k)
        BY <1>0, <2>2, Others
      <3> QED BY <1>2, <3>1 DEF Same, Of, X
    <2> QED BY <2>1, <2>2
  <1>3. ASSUME NEW p \in Proc, srv'[p].of = x, srv'[p].key = k
        PROVE  Of(x, k)
    <2>1. CASE SrvKept(t, p)
      BY <1>3, <2>1 DEF SrvKept, Of
    <2>2. CASE Launched(t, p)
      BY <1>3, <2>2 DEF Launched, NoServer, Of
    <2> QED BY <2>1, <2>2, SrvFrame
  <1> QED BY <1>1, <1>2, <1>3 DEF Of, X

LEMMA OfMade ==
    ASSUME IInv, NEW x \in Adapter, NEW k \in Key, Of(x, k)
    PROVE  ad[x].made
  <1>0. k \in Thread /\ x # 0 /\ Work(k) /\ Control(k)
    BY Sets, Parts
  <1>1. ASSUME NEW p \in Proc, srv[p].of = x
        PROVE  ad[x].made
    BY <1>0, <1>1, Parts DEF Process
  <1> QED BY <1>0, <1>1 DEF Of, Work, Control

LEMMA SingleKept ==
    ASSUME IInv, NEW t \in Thread, Moves(t)
    PROVE  Single'
  <1>1. ASSUME NEW x \in Adapter, NEW k \in Key, NEW l \in Key, Of(x, k)', Of(x, l)'
        PROVE  k = l
    <2>1. /\ Of(x, k) \/ (k = t /\ ~ad[x].made)
          /\ Of(x, l) \/ (l = t /\ ~ad[x].made)
      BY <1>1, OfKept
    <2>2. (Of(x, k) => ad[x].made) /\ (Of(x, l) => ad[x].made)
      BY OfMade
    <2>3. Of(x, k) /\ Of(x, l) => k = l
      BY DEF IInv, Single
    <2> QED BY <2>1, <2>2, <2>3
  <1> QED BY <1>1 DEF Single

-----------------------------------------------------------------------------
(* The close of the provider.                                                *)
LEMMA ClosingByOthers ==
    ASSUME IInv, NEW t \in Thread, Moves(t), t # Closer
    PROVE  Closing'
  <1>1. Closing /\ left \subseteq Key /\ Closer \in Thread /\ Closer \notin Proc
    BY Sets DEF IInv, TypeOK
  <1>2. Same(Closer)
    BY <1>1, Others
  <1>3. left' = left /\ shut' = shut /\ clean' = clean
    <2>1. Closed(t) => t \in Key
      BY Roles, ClosedDoes, Parts DEF Control, ReaderPc, Killing
    <2> QED BY <1>1, <2>1, Writers, ClosedDoes, ObtainDoes, ReleaseDoes, DisposeDoes,
       LeavingDoes, AbandonDoes
  <1>4. CASE owner' = owner
    BY <1>1, <1>2, <1>3, <1>4 DEF Closing, Same, X
  <1>5. CASE owner' # owner
    <2>1. t \in Key /\ (Closed(t) \/ Obtain(t) \/ Release(t) \/ Dispose(t) \/ Leaving(t) \/ Abandon(t))
      BY <1>5, Writers, Roles, ClosedDoes, Parts DEF Control, ReaderPc, Killing
    <2>2. ~Release(t)
      BY <1>5, <2>1, ReleaseDoes
    <2>3. olock # Closer
      <3>1. CASE Obtain(t) \/ Abandon(t)
        BY <1>1, <2>1, <3>1, ObtainDoes, AbandonDoes, Roles
      <3>2. CASE Closed(t) \/ Dispose(t) \/ Leaving(t)
        <4>1. th[t].pc \in {"closed", "dispose", "leaving"}
          BY <2>1, <3>2, ClosedDoes, DisposeDoes, LeavingDoes
        <4> QED BY <2>1, <4>1, Parts, Roles DEF Locked, Owning
      <3> QED BY <2>1, <2>2, <3>1, <3>2
    <2>4. th[Closer].pc = "idle"
      BY <2>3, CloserIs
    <2>5. left = {}
      BY <1>1, <2>4 DEF Closing
    <2>6. ASSUME shut', clean', NEW k \in Key, owner'[k] # 0
          PROVE  k \in left'
      <3>1. ~Obtain(t)
        BY <1>3, <2>1, <2>6, ObtainDoes
      <3>2. owner'[k] \in {0} \cup Adapter
        BY RestTyped
      <3>3. owner[k] # 0
        BY <2>6, <3>1, <3>2, NextOwnerOf, Sets
      <3> QED BY <1>1, <1>3, <2>6, <3>3 DEF Closing
    <2>7. th'[Closer].pc = "idle"
      BY <1>2, <2>4 DEF Same
    <2> QED BY <1>3, <2>5, <2>6, <2>7 DEF Closing, Killing
  <1> QED BY <1>4, <1>5

LEMMA ClosingByCloser ==
    ASSUME IInv, Moves(Closer)
    PROVE  Closing'
  <1>0. /\ Closing /\ left \subseteq Key /\ Closer \in Thread /\ Closer \notin Proc /\ Closer \notin Key
        /\ owner \in [Key -> {0} \cup Adapter] /\ Control(Closer)
    BY Sets, Places, Parts DEF IInv, TypeOK
  <1>1. ASSUME UNCHANGED <<owner, left, shut, clean>>, th[Closer].pc \in {"close"} \cup Killing,
               th'[Closer].pc \in {"closed"} \cup Killing, th'[Closer].x = X(Closer)
        PROVE  Closing'
    BY <1>0, <1>1 DEF Closing, X, Killing
  <1>2. CASE KillNothing(Closer) \/ Wake(Closer)
    <2>1. /\ UNCHANGED <<owner, left, shut, clean>> /\ th[Closer].pc \in Killing
          /\ Stays(Closer, th[Closer].ret)
      BY <1>0, <1>2, KillNothingDoes, WakeDoes DEF Quiet, Killing, KillNothing, At
    <2>2. th[Closer].ret = "closed"
      BY <1>0, <2>1 DEF Control
    <2>3. th'[Closer].pc = "closed" /\ th'[Closer].x = X(Closer)
      BY <2>1, <2>2 DEF Stays, Is
    <2>4. shut' = shut
      BY <2>1
    <2> QED BY <1>1, <2>1, <2>3
  <1>3. CASE KillEnter(Closer) \/ Reap(Closer)
    <2>1. /\ UNCHANGED <<owner, left, shut, clean>> /\ th[Closer].pc \in Killing
          /\ th'[Closer].pc \in Killing /\ th'[Closer].x = X(Closer)
      BY <1>0, <1>3, KillEnterDoes, ReapDoes DEF Killing, KillEnter, At, Goes, Is
    <2> QED BY <1>1, <2>1
  <1>4. CASE CloseAdapter(Closer)
    <2>1. /\ UNCHANGED <<owner, left, shut, clean>> /\ th[Closer].pc = "close"
          /\ th'[Closer].pc \in {"closed", "kill"} /\ th'[Closer].x = X(Closer)
      BY <1>0, <1>4, CloseAdapterDoes DEF Goes, Is
    <2> QED BY <1>1, <2>1 DEF Killing
  <1>5. CASE Closed(Closer)
    <2>1. /\ Starts(Closer, "next", 0) /\ shut' = shut /\ clean' = (clean /\ ~th[Closer].raised)
      BY <1>0, <1>5, ClosedDoes
    <2>2. PICK i \in left : left' = left \ {i} /\ Dropped(i, ~th[Closer].raised)
      BY <1>0, <1>5, ClosedDoes
    <2>3. \A k \in Key : (k # i => owner'[k] = owner[k]) /\ (~th[Closer].raised => owner'[i] = 0)
      BY <1>0, <2>2 DEF Dropped
    <2>4. th'[Closer].pc = "next"
      BY <2>1 DEF Starts, Is
    <2> QED BY <1>0, <2>1, <2>2, <2>3, <2>4 DEF Closing, Killing
  <1>6. CASE CloseProvider
    <2>1. owner' = owner /\ left' = {k \in Key : owner[k] # 0} /\ th'[Closer].pc = "next"
      BY <1>6, CloseProviderDoes DEF Goes, Is
    <2> QED BY <2>1 DEF Closing, Killing
  <1>7. CASE NextOwner
    <2>1. UNCHANGED <<owner, left, shut, clean>>
      BY <1>7, NextOwnerDoes
    <2>2. ASSUME NEW k \in left, Starts(Closer, "close", owner[k])
          PROVE  Closing'
      <3>1. th'[Closer].pc = "close" /\ th'[Closer].x = owner[k]
        BY <2>2 DEF Starts, Is
      <3> QED BY <1>0, <2>1, <2>2, <3>1 DEF Closing, X
    <2>3. ASSUME left = {}, Goes(Closer, "idle", th[Closer].raised)
          PROVE  Closing'
      <3>1. th'[Closer].pc = "idle"
        BY <2>3 DEF Goes, Is
      <3> QED BY <1>0, <2>1, <2>3, <3>1 DEF Closing, Killing
    <2> QED BY <1>7, <2>2, <2>3, NextOwnerDoes
  <1> QED BY <1>0, <1>2, <1>3, <1>4, <1>5, <1>6, <1>7 DEF Moves, KillSteps

LEMMA ThreadsKeep ==
    ASSUME IInv, NEW t \in Thread, Moves(t), bound' = bound
    PROVE  IInv'
  <1>1. TypeOK'
    <2>1. bound' \in Bounds
      BY DEF IInv, TypeOK
    <2> QED BY <2>1, ThTyped, AdTyped, SrvTyped, RestTyped DEF TypeOK
  <1>2. ASSUME NEW p \in Proc
        PROVE  Process(p)' /\ Reading(p)'
    <2>1. p \in Thread /\ Proc \subseteq Thread
      BY Sets
    <2>2. Reading(p)'
      BY OwnKept, ReadingByOthers, <2>1 DEF Kept
    <2> QED BY <2>2, ProcessKept
  <1>3. \A x \in Adapter : Adapted(x)'
    BY AdaptedKept
  <1>4. ASSUME NEW u \in Thread
        PROVE  Control(u)' /\ Locked(u)' /\ Teardown(u)'
    <2>1. CASE u = t
      BY <2>1, OwnKept DEF Kept
    <2>2. CASE u # t
      BY <2>2, ControlByOthers, LockedByOthers, TeardownByOthers
    <2> QED BY <2>1, <2>2
  <1>5. ASSUME NEW k \in Key
        PROVE  Work(k)' /\ Turn(k)'
    <2>1. CASE k = t
      BY <2>1, OwnKept DEF Kept
    <2>2. CASE k # t
      BY <2>2, WorkByOthers, TurnByOthers
    <2> QED BY <2>1, <2>2
  <1>6. Single'
    BY SingleKept
  <1>7. Closing'
    BY ClosingByOthers, ClosingByCloser
  <1> QED BY <1>1, <1>2, <1>3, <1>4, <1>5, <1>6, <1>7 DEF IInv

-----------------------------------------------------------------------------
(* What a server does, and that it dies, disturbs nobody else.               *)
LEMMA ServersKeep ==
    ASSUME IInv, UNCHANGED <<ad, owner, shut, olock, left, clean, bound>>,
           th' \in [Thread -> ThreadRecord], srv' \in [Proc -> ServerRecord],
           \A u \in Thread : Same(u),
           \A k \in Key :
             /\ th'[k].got \in {th[k].got, "ok"}
             /\ \/ th'[k].turn = th[k].turn
                \/ th[k].turn = "open" /\ th'[k].turn \in {"done", "error", "policy"},
           \A p \in Proc :
             /\ srv'[p].of = srv[p].of /\ srv'[p].key = srv[p].key /\ srv'[p].result = srv[p].result
             /\ srv'[p].tree = srv[p].tree
             /\ srv'[p].life = srv[p].life \/ (srv[p].life = "up" /\ srv'[p].life = "down")
    PROVE  IInv'
  <1>0. Key \subseteq Thread /\ Proc \subseteq Thread /\ Closer \in Thread /\ 0 \notin Proc
    BY Sets
  <1>p. ad \in [Adapter -> AdapterRecord] /\ \A u \in Thread : X(u) # 0 => X(u) \in Adapter /\ Cur(u) \in {0} \cup Proc
    BY Places, <1>0
  <1>1. TypeOK'
    BY DEF IInv, TypeOK
  <1>2. ASSUME NEW p \in Proc
        PROVE  Process(p)'
    <2>1. Process(p) /\ th'[p].pc = th[p].pc
      BY <1>0, Parts DEF Same
    <2> QED BY <2>1 DEF Process, Up, Bad
  <1>3. ASSUME NEW p \in Proc
        PROVE  Reading(p)'
    BY <1>0, <1>3, Parts DEF Reading, Same, X
  <1>4. ASSUME NEW x \in Adapter
        PROVE  Adapted(x)'
    <2>1. Adapted(x) /\ ad[x].cur \in {0} \cup Proc /\ ad[x].lock \in Thread \cup {None}
      BY <1>p, Parts DEF AdapterRecord
    <2>2. \A u \in Thread : (Holds(u))' <=> Holds(u)
      BY DEF Holds, Same
    <2>3. ad[x].lock # None =>
             th'[ad[x].lock].x = x /\ (\/ th'[ad[x].lock].pc \in {"launch", "init", "unstart", "leaving", "reap", "reapLate", "wake"}
                                       \/ th'[ad[x].lock].pc = "kill" /\ th'[ad[x].lock].nest
                                       \/ th'[ad[x].lock].pc = "closed")
      BY <2>1 DEF Adapted, Holds, Same, X
    <2> QED BY <2>1, <2>3 DEF Adapted, Gone, X, Holds
  <1>5. ASSUME NEW u \in Thread
        PROVE  Control(u)' /\ Locked(u)'
    <2>1. Control(u) /\ Locked(u) /\ Same(u) /\ X(u)' = X(u)
      BY Parts DEF Same, X
    <2>2. Control(u)'
      BY <2>1 DEF Control, Same
    <2>3. ((Holds(u))' <=> Holds(u)) /\ ((Owning(u))' <=> Owning(u))
      BY <2>1 DEF Holds, Owning, Same
    <2> QED BY <2>1, <2>2, <2>3 DEF Locked, Same
  <1>6. ASSUME NEW u \in Thread
        PROVE  Teardown(u)'
    <2>1. Teardown(u) /\ Same(u) /\ X(u)' = X(u) /\ Cur(u)' = Cur(u)
      BY Parts DEF Same, X, Cur
    <2>2. th[u].pc \in Killing \cup {"close", "closed", "forget", "launch"} => Cur(u) \in {0} \cup Proc
      BY <1>p, <2>1 DEF Teardown
    <2>3. th[u].pc \in {"reap", "reapLate", "wake", "forget", "launch", "closed"} => Cur(u) \in {0} \cup Proc
      BY <2>2 DEF Killing
    <2> QED BY <2>1, <2>3 DEF Teardown, Same, Gone
  <1>7. ASSUME NEW k \in Key
        PROVE  Work(k)'
    <2>1. Work(k) /\ Same(k) /\ X(k)' = X(k) /\ k \in Thread
      BY <1>0, Parts DEF Same, X
    <2>2. (Owning(k))' <=> Owning(k)
      BY <2>1 DEF Owning, Same
    <2> QED BY <2>1, <2>2 DEF Work, Same
  <1>8. ASSUME NEW k \in Key
        PROVE  Turn(k)'
    <2>1. Turn(k) /\ Work(k) /\ Same(k) /\ X(k)' = X(k) /\ Cur(k)' = Cur(k) /\ k \in Thread
          /\ th[k].p \in {0} \cup Proc
      BY <1>0, Parts, Places, Fields DEF Same, X, Cur
    <2>2. (InTurn(k))' <=> InTurn(k)
      BY <2>1 DEF InTurn, Same
    <2>3. InTurn(k) => th[k].p # 0
      BY <2>1 DEF Turn
    <2>4. th'[k].turn = "lost" => srv'[th[k].p].result # "none"
      <3>1. th'[k].turn = "lost" => th[k].turn = "lost" /\ InTurn(k)
        BY <2>1, <2>2 DEF Turn, InTurn
      <3> QED BY <2>1, <2>3, <3>1 DEF Turn
    <2>5. ASSUME th[k].pc \in {"init", "rpc"}, th'[k].got = "fail"
          PROVE  LET p == th[k].p IN
                   ~(p # 0 /\ srv'[p].life = "up") \/ srv'[p].result # "none" \/ th'[p].pc # "reading"
      <3>1. th[k].got = "fail" /\ th[k].p \in Proc /\ InTurn(k) /\ Same(th[k].p)
        BY <1>0, <2>1, <2>3, <2>5 DEF InTurn
      <3> QED BY <2>1, <2>5, <3>1 DEF Turn, Up, Same
    <2>6. th[k].pc \in {"join", "stopped"} /\ ~th[k].raised => srv'[th[k].p].result # "none"
      BY <2>1, <2>3 DEF Turn, InTurn
    <2>7. th[k].pc = "release" /\ th[k].res = "stopped" => th[k].p # 0 /\ srv'[th[k].p].result # "none"
      BY <2>1 DEF Turn
    <2>8. (th'[k].turn # "none") <=> (th[k].turn # "none")
      OBVIOUS
    <2> QED BY <2>1, <2>2, <2>4, <2>5, <2>6, <2>7, <2>8 DEF Turn, Same, Up
  <1>9. Single'
    <2>1. \A x \in Adapter, k \in Key : Of(x, k)' <=> Of(x, k)
      BY <1>0 DEF Of, Same, X
    <2> QED BY <2>1 DEF IInv, Single
  <1>10. Closing'
    BY <1>0 DEF IInv, Closing, Same, X
  <1> QED BY <1>1, <1>2, <1>3, <1>4, <1>5, <1>6, <1>7, <1>8, <1>9, <1>10 DEF IInv

LEMMA AnswersKeeps ==
    ASSUME IInv, NEW p \in Proc, Answers(p), bound' = bound
    PROVE  IInv'
  <1>1. th \in [Thread -> ThreadRecord] /\ srv \in [Proc -> ServerRecord] /\ Key \subseteq Thread
    BY Sets DEF IInv, TypeOK
  <1>2. UNCHANGED <<srv, ad, owner, shut, olock, left, clean>>
    BY DEF Answers, Owners, Close0
  <1>3. PICK k \in Key :
          \/ th' = [th EXCEPT ![k].got = "ok"]
          \/ /\ th[k].turn = "open"
             /\ \E e \in {"done", "error", "policy"} : th' = [th EXCEPT ![k].turn = e]
    BY DEF Answers
  <1>4. th[k] \in ThreadRecord /\ "ok" \in Gots /\ {"done", "error", "policy"} \subseteq Turns
    BY <1>1 DEF Gots, Turns
  <1>5. CASE th' = [th EXCEPT ![k].got = "ok"]
    <2>1. th'[k] = [th[k] EXCEPT !.got = "ok"] /\ \A u \in Thread : u # k => th'[u] = th[u]
      BY <1>1, <1>5
    <2>2. th'[k] \in ThreadRecord /\ th'[k].got = "ok" /\ th'[k].turn = th[k].turn
      BY <1>4, <2>1 DEF ThreadRecord
    <2>3. th' \in [Thread -> ThreadRecord]
      BY <1>1, <1>5, <2>1, <2>2
    <2>4. Same(k)
      BY <1>4, <2>1 DEF Same, ThreadRecord
    <2>5. \A u \in Thread : Same(u)
      BY <2>1, <2>4 DEF Same
    <2> QED BY <1>1, <1>2, <2>1, <2>2, <2>3, <2>5, ServersKeep
  <1>6. ASSUME th[k].turn = "open", NEW e \in {"done", "error", "policy"}, th' = [th EXCEPT ![k].turn = e]
        PROVE  IInv'
    <2>1. th'[k] = [th[k] EXCEPT !.turn = e] /\ \A u \in Thread : u # k => th'[u] = th[u]
      BY <1>1, <1>6
    <2>2. th'[k] \in ThreadRecord /\ th'[k].turn = e /\ th'[k].got = th[k].got
      BY <1>4, <2>1 DEF ThreadRecord
    <2>3. th' \in [Thread -> ThreadRecord]
      BY <1>1, <1>6, <2>1, <2>2
    <2>4. Same(k)
      BY <1>4, <2>1 DEF Same, ThreadRecord
    <2>5. \A u \in Thread : Same(u)
      BY <2>1, <2>4 DEF Same
    <2> QED BY <1>1, <1>2, <1>6, <2>1, <2>2, <2>3, <2>5, ServersKeep
  <1> QED BY <1>3, <1>5, <1>6

LEMMA DiesKeeps ==
    ASSUME IInv, NEW p \in Proc, Dies(p), bound' = bound
    PROVE  IInv'
  <1>1. /\ th \in [Thread -> ThreadRecord] /\ srv \in [Proc -> ServerRecord]
        /\ srv' = [srv EXCEPT ![p].life = "down"] /\ srv[p].life = "up"
        /\ UNCHANGED <<ad, owner, shut, olock, th, left, clean>>
    BY DEF IInv, TypeOK, Dies, Up, Owners, Close0
  <1>2. srv'[p] = [srv[p] EXCEPT !.life = "down"] /\ \A q \in Proc : q # p => srv'[q] = srv[q]
    BY <1>1
  <1>3. srv[p] \in ServerRecord
    BY <1>1
  <1>4. srv'[p] \in ServerRecord
    BY <1>2, <1>3 DEF ServerRecord
  <1>5. srv' \in [Proc -> ServerRecord]
    BY <1>1, <1>2, <1>4
  <1>6. \A q \in Proc :
          /\ srv'[q].of = srv[q].of /\ srv'[q].key = srv[q].key /\ srv'[q].result = srv[q].result
          /\ srv'[q].tree = srv[q].tree
          /\ srv'[q].life = srv[q].life \/ (srv[q].life = "up" /\ srv'[q].life = "down")
    BY <1>1, <1>2, <1>3 DEF ServerRecord
  <1> QED BY <1>1, <1>5, <1>6, ServersKeep DEF Same

LEMMA InitHolds ==
    ASSUME Init
    PROVE  IInv
  <1>0. /\ 0 \notin Proc /\ 0 \notin Adapter /\ Closer \notin Proc /\ Key \subseteq Thread
        /\ Closer \in Thread /\ None \notin Thread /\ Proc \subseteq Thread
        /\ \A k \in Key : k \notin Proc /\ k # Closer
    BY Sets
  <1>1. /\ \A p \in Proc : srv[p] = NoServer /\ th[p] = Idle("none")
        /\ \A x \in Adapter : ad[x] = NoAdapter
        /\ \A k \in Key : owner[k] = 0 /\ th[k] = Idle("idle")
        /\ th[Closer] = Idle("idle") /\ olock = None /\ left = {} /\ ~shut /\ ~clean
    BY <1>0 DEF Init
  <1>2. \A t \in Thread : /\ t \in Proc => th[t].pc = "none"
                          /\ t \notin Proc => th[t].pc = "idle"
                          /\ th[t].x = 0 /\ th[t].p = 0 /\ th[t].ret = "none" /\ th[t].nest = FALSE
                          /\ th[t].raised = FALSE /\ th[t].got = "none" /\ th[t].turn = "none"
                          /\ th[t].res = "none"
    BY DEF Init, Idle
  <1>3. TypeOK
    <2>1. NoServer \in ServerRecord /\ NoAdapter \in AdapterRecord
      BY DEF NoServer, NoAdapter, ServerRecord, AdapterRecord
    <2>2. \A l \in {"none", "idle"} : Idle(l) \in ThreadRecord
      BY DEF Idle, ThreadRecord, Pcs, WorkerPc, ReaderPc, Rets, Gots, Turns, Ress
    <2>3. th \in [Thread -> ThreadRecord]
      BY <2>2 DEF Init
    <2> QED BY <2>1, <2>3 DEF Init, TypeOK
  <1>4. ASSUME NEW p \in Proc
        PROVE  Process(p) /\ Reading(p)
    <2>1. th[p].pc = "none"
      BY <1>0, <1>2
    <2>2. /\ srv[p].life = "none" /\ srv[p].of = 0 /\ srv[p].result = "none"
          /\ \A q \in Proc : srv[q].life = "none"
      BY <1>1 DEF NoServer
    <2>3. Process(p)
      BY <2>1, <2>2 DEF Process, Up
    <2>4. Reading(p)
      BY <2>1 DEF Reading
    <2> QED BY <2>3, <2>4
  <1>5. ASSUME NEW x \in Adapter
        PROVE  Adapted(x)
    <2>0. ad[x] = NoAdapter
      BY <1>1
    <2>1. \A y \in Adapter : ~ad[y].made
      BY <1>1 DEF NoAdapter
    <2>2. /\ ad[x].cur = 0 /\ ~ad[x].complete /\ ad[x].lock = None /\ ad[x].leaving = 0
      BY <2>0 DEF NoAdapter
    <2> QED BY <2>0, <2>1, <2>2 DEF Adapted
  <1>6. ASSUME NEW t \in Thread
        PROVE  Control(t) /\ Locked(t) /\ Teardown(t)
    <2>1. t \in Key \/ t \in Proc \/ t = Closer
      BY Roles
    <2>2. Control(t)
      BY <1>0, <1>2, <2>1 DEF Control, X, WorkerPc, ReaderPc, CloserPc, Killing
    <2>3. Locked(t)
      BY <1>0, <1>1, <1>2, <2>1 DEF Locked, Holds, Owning
    <2>4. Teardown(t)
      BY <1>2 DEF Teardown, Killing
    <2> QED BY <2>2, <2>3, <2>4
  <1>7. ASSUME NEW k \in Key
        PROVE  Work(k) /\ Turn(k)
    BY <1>0, <1>1, <1>2 DEF Work, Turn, InTurn, Owning, X
  <1>8. Single
    BY <1>0, <1>1, <1>2 DEF Single, Of, X, NoServer
  <1>9. Closing
    BY <1>0, <1>1, <1>2 DEF Closing, Killing
  <1> QED BY <1>3, <1>4, <1>5, <1>6, <1>7, <1>8, <1>9 DEF IInv

-----------------------------------------------------------------------------
(* IInv is inductive: it holds of the empty provider, and every step of a    *)
(* worker, of the closer, of a reader, of a server that answers and of a     *)
(* process that dies keeps it.                                               *)
THEOREM Inductive == Spec => []IInv
  <1>1. Init => IInv
    BY InitHolds
  <1>2. IInv /\ [Next]_vars => IInv'
    <2> SUFFICES ASSUME IInv, [Next]_vars
                 PROVE  IInv'
      OBVIOUS
    <2>1. CASE Next
      <3>1. bound' = bound
        BY <2>1 DEF Next
      <3>2. ASSUME NEW t \in Thread, Moves(t)
            PROVE  IInv'
        BY <3>1, <3>2, ThreadsKeep
      <3> QED BY <2>1, <3>1, <3>2, WhoMoves, AnswersKeeps, DiesKeeps
    <2>2. CASE UNCHANGED vars
      <3>1. UNCHANGED <<srv, ad, owner, shut, olock, th, left, clean, bound>>
        BY <2>2 DEF vars
      <3>2. th \in [Thread -> ThreadRecord] /\ srv \in [Proc -> ServerRecord]
        BY DEF IInv, TypeOK
      <3> QED BY <3>1, <3>2, ServersKeep DEF Same
    <2> QED BY <2>1, <2>2
  <1> QED BY <1>1, <1>2, PTL DEF Spec

(* The types of the model, and with them who can be where.                   *)
THEOREM TypesHold == Spec => [](TypeOK /\ \A t \in Thread : Control(t))
  <1>1. IInv => TypeOK /\ \A t \in Thread : Control(t)
    BY DEF IInv
  <1> QED BY <1>1, Inductive, PTL

(* Behind a close of the provider that returned without an error nothing     *)
(* runs and nothing starts, but for what an operator gave up and what was    *)
(* recorded as unverified (CodexProvider.close), whatever the workers and     *)
(* the readers were doing when it began.                                     *)
THEOREM CloseIsFinal == Spec => []NothingBehindClose
  <1>1. IInv => NothingBehindClose
    <2> SUFFICES ASSUME IInv, shut, clean, olock = None, NEW p \in Proc, Up(p)
                 PROVE  Bad(p) \/ ad[srv[p].of].given
      BY DEF NothingBehindClose
    <2>1. th[Closer].pc = "idle"
      BY CloserIs, Roles, Sets
    <2>2. \A k \in Key : owner[k] = 0
      BY <2>1 DEF IInv, Closing
    <2>3. srv[p].life # "none" /\ Process(p) /\ srv[p] \in ServerRecord
      BY Parts DEF Up, IInv, TypeOK
    <2>4. srv[p].of # 0 /\ srv[p].key \in Key
      BY <2>3 DEF Process, ServerRecord
    <2> QED BY <2>2, <2>3, <2>4 DEF Process
  <1> QED BY <1>1, Inductive, PTL

(* An operation has one live server: another one is running only behind a    *)
(* cleanup recorded as unverified, or one the operator gave up               *)
(* (release_operation, _start, _abandon_operation).                          *)
THEOREM OneLiveServer == Spec => []OneServerPerOperation
  <1>1. IInv => OneServerPerOperation
    <2> SUFFICES ASSUME IInv, NEW p \in Proc, NEW q \in Proc, p # q, Up(p), Up(q),
                        srv[p].key = srv[q].key
                 PROVE  \E r \in {p, q} : Bad(r) \/ ad[srv[r].of].given
      BY DEF OneServerPerOperation
    <2>1. Process(p) /\ Process(q)
      BY Parts
    <2> QED BY <2>1 DEF Process
  <1> QED BY <1>1, Inductive, PTL

(* A call that was stopped comes back when the tree of its server is gone or  *)
(* when it is on record that this could not be verified (_kill_transport).   *)
THEOREM StoppedIsQuiet == Spec => []QuietWhenStopped
  <1>1. IInv => QuietWhenStopped
    <2> SUFFICES ASSUME IInv, NEW k \in Key, th[k].pc = "release", th[k].res = "stopped"
                 PROVE  /\ srv[th[k].p].result # "none"
                        /\ srv[th[k].p].result = "ok" => ~Up(th[k].p) /\ ~srv[th[k].p].tree
      BY DEF QuietWhenStopped
    <2>1. th[k].p # 0 /\ srv[th[k].p].result # "none" /\ k \in Thread
      BY Parts, Sets DEF Turn
    <2>2. th[k].p \in Proc
      BY <2>1, Places, Fields
    <2> QED BY <2>1, <2>2, Parts DEF Process, Up
  <1> QED BY <1>1, Inductive, PTL

(* A turn, or an answer that is waited for, is failed by the end of its own   *)
(* server only (_fail_transport for a process that was replaced).            *)
THEOREM LossIsOwn == Spec => []LostWithItsServer
  <1>1. IInv => LostWithItsServer
    <2> SUFFICES ASSUME IInv, NEW k \in Key,
                        th[k].turn = "lost" \/ (th[k].pc \in {"init", "rpc"} /\ th[k].got = "fail")
                 PROVE  ~Up(th[k].p) \/ srv[th[k].p].result # "none" \/ th[th[k].p].pc # "reading"
      BY DEF LostWithItsServer
    <2> QED BY Parts DEF Turn
  <1> QED BY <1>1, Inductive, PTL

(* A message that is written slowly, or never, only delays: what is written   *)
(* to whom and who holds _write_lock meanwhile adds no step to AppServer, so  *)
(* that its safety holds behind every blocked send (_send has no deadline).   *)
THEOREM SendsOnlyDelay == SendSpec => Spec
  <1>1. SendInit => Init
    BY DEF SendInit
  <1>2. [SendNext]_sendVars => [Next]_vars
    <2> SUFFICES ASSUME [SendNext]_sendVars PROVE [Next]_vars
      OBVIOUS
    <2>1. CASE \E t \in Thread : Send(t) \/ Block(t)
      BY <2>1 DEF Send, Block
    <2>2. ASSUME NEW k \in Key, Acts(k, Worker(k) \/ Obtain(k) \/ Abandon(k))
          PROVE  Next
      BY <2>2 DEF Acts, Next, Step
    <2>3. ASSUME NEW p \in Proc, Acts(p, Reader(p) \/ EndOfStream(p))
          PROVE  Next
      BY <2>3 DEF Acts, Next, Step
    <2>4. ASSUME NEW p \in Proc, Asks(p) \/ StopsReading(p) \/ ReadsAgain(p)
          PROVE  UNCHANGED vars
      BY <2>4 DEF Asks, StopsReading, ReadsAgain
    <2>5. ASSUME NEW p \in Proc, Hears(p) \/ (Dies(p) /\ UNCHANGED bound)
          PROVE  Next
      BY <2>5 DEF Hears, Next, Step
    <2>6. CASE Acts(Closer, CloseProvider \/ ClosingThread)
      BY <2>6 DEF Acts, Next, Step
    <2>7. CASE UNCHANGED sendVars
      BY <2>7 DEF sendVars
    <2> QED BY <2>1, <2>2, <2>3, <2>4, <2>5, <2>6, <2>7 DEF SendNext
  <1> QED BY <1>1, <1>2, PTL DEF SendSpec, Spec
=============================================================================
