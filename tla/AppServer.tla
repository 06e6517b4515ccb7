------------------------------ MODULE AppServer ------------------------------
(***************************************************************************)
(* The app-server transports of one provider (botpipe/providers.py,        *)
(* codex_appserver.py, processes.py).  Every operation key owns an adapter; *)
(* an adapter has at most one current server process, a reader thread for  *)
(* each process it started and a reentrant lock that serializes the start   *)
(* and every teardown (_transport_cleanup_lock).  The map of owners has a   *)
(* lock of its own (_owner_lock), held while an owner is disposed of.       *)
(*                                                                         *)
(* Threads: one worker for each key, which repeats obtain, start_turn and   *)
(* release_operation; one reader for each process; and one that closes the  *)
(* provider.  A wait for an answer ends with the answer, with the failure   *)
(* that a teardown puts in its place, or at its time limit.  What a server  *)
(* does, and that it dies, is its own.  How long a message takes to be      *)
(* written, and what a thread holds meanwhile, is in AppServerSends.        *)
(***************************************************************************)
EXTENDS Naturals, FiniteSets

CONSTANTS
    Key,               \* operation keys, and with them the workers
    Closer,            \* the thread that closes the provider
    None,
    MaxServer,         \* processes that may ever be started
    MaxAdapter,        \* adapters that may ever be created
    Bounds             \* the bounds, one of which is chosen for a behaviour:
                       \*   team: the workers that run;  procs, adapters:
                       \*   servers started, adapters created;
                       \*   calls: start_turn or recover_turn; closes: close;  faults: servers that die
                       \*   or break their stream, inspections that fail,
                       \*   records refused, executables replaced, together

Proc    == 1 .. MaxServer
Adapter == 1 .. MaxAdapter
ASSUME SizeAssumption == {MaxServer, MaxAdapter} \subseteq Nat
ASSUME BoundsAssumption ==
    Bounds \subseteq [team : SUBSET Key, procs : Proc, adapters : Adapter,
                     calls : Nat, closes : Nat, faults : Nat]
Thread  == Key \cup Proc \cup {Closer}      \* a reader is named by its process
ASSUME ThreadAssumption == /\ Key \cap Proc = {} /\ Closer \notin Key \cup Proc
                           /\ None \notin Thread

VARIABLES
    srv,      \* the processes and what was recorded of their teardown
    ad,       \* the adapters
    owner,    \* CodexProvider._owners
    shut,     \* CodexProvider._closed
    olock,    \* _owner_lock
    th,       \* the threads
    left,     \* the keys that close() still has to visit
    clean,    \* the last close() returned without an error
    calls, closes, faults,
    bound     \* the bounds of this behaviour

vars == <<srv, ad, owner, shut, olock, th, left, clean, calls, closes, faults,
          bound>>

--------------------------------------------------------------------------------
NoServer  == [life |-> "none", tree |-> FALSE, seen |-> FALSE, of |-> 0, key |-> None,
              result |-> "none"]
NoAdapter == [made |-> FALSE, cur |-> 0, closed |-> FALSE, complete |-> FALSE,
              leaving |-> 0, tearing |-> 0, lock |-> None, given |-> FALSE]
Idle(l)   == [pc |-> l, x |-> 0, p |-> 0, ret |-> "none", nest |-> FALSE,
              raised |-> FALSE, got |-> "none", turn |-> "none", res |-> "none"]

Init ==
    /\ srv = [p \in Proc |-> NoServer]
    /\ ad = [x \in Adapter |-> NoAdapter]
    /\ owner = [k \in Key |-> 0] /\ shut = FALSE /\ olock = None
    /\ th = [t \in Thread |-> Idle(IF t \in Proc THEN "none" ELSE "idle")]
    /\ left = {} /\ clean = FALSE /\ calls = 0 /\ closes = 0 /\ faults = 0
    /\ bound \in Bounds

Fault == faults < bound.faults /\ faults' = faults + 1
Calm  == UNCHANGED faults

Up(p)    == p # 0 /\ srv[p].life = "up"
At(t, l) == th[t].pc = l
X(t)     == th[t].x
Cur(t)   == ad[X(t)].cur
Free(t)  == ad[X(t)].lock \in {None, t}     \* an RLock
Go(t, l) == th' = [th EXCEPT ![t].pc = l]

(* What a failed or finished call hands to release_operation.               *)
End(t, r) == th' = [th EXCEPT ![t] = [Idle("release") EXCEPT !.x = X(t), !.res = r,
                                       !.p = IF r = "stopped" THEN th[t].p ELSE 0]]
Ready(t)  == th' = [th EXCEPT ![t] = [Idle("ready") EXCEPT !.x = X(t)]]
Owners    == <<owner, shut, olock>>
Close0    == <<left, clean, calls, closes>>

--------------------------------------------------------------------------------
(* _fail_transport: everybody who waits for the adapter is woken, unless the *)
(* process that failed is not the current one any more.                      *)
(* Faulty: whoever waits is failed, for whatever process.                    *)
WokenAnyway(x, p) == {k \in Key : th[k].x = x}
Woken(x, p) == IF p # 0 /\ ad[x].cur # p THEN {} ELSE {k \in Key : th[k].x = x}

Failed(f, x, p) ==
    [t \in Thread |->
       IF t \notin Woken(x, p) THEN f[t]
       ELSE [f[t] EXCEPT
               !.got  = IF f[t].pc \in {"init", "rpc"} /\ @ = "none" THEN "fail" ELSE @,
               !.turn = IF @ = "open" THEN "lost" ELSE @]]

(* The turns whose owners a teardown informs (affected_turns).               *)
Affected(x) == {k \in Key : th[k].x = x /\ th[k].turn \in {"open", "policy"}}

--------------------------------------------------------------------------------
(* _kill_transport, called by t for expected process p (0: the current one). *)
Kill(t, p, ret) ==
    th' = [th EXCEPT ![t].pc = "kill", ![t].p = p, ![t].ret = ret,
                     ![t].nest = (ad[X(t)].lock = t), ![t].raised = FALSE]
Back(f, t, bad) == [f EXCEPT ![t].pc = f[t].ret, ![t].raised = bad,
                             ![t].ret = "none", ![t].nest = FALSE]
Unlocked(t) == IF th[t].nest THEN ad[X(t)].lock ELSE None

Bad(p)     == srv[p].result \in {"bad", "unsaved"}
Replaced(t) == th[t].p # 0 /\ th[t].p # Cur(t)
Target(t)  == IF th[t].p # 0 THEN th[t].p ELSE Cur(t)
(* The cleanup was made before, and close() does not ask to repeat a failed one. *)
Made(t) == LET p == Target(t) IN
    p # 0 /\ srv[p].result # "none" /\ ~(th[t].ret = "closed" /\ Bad(p))

(* Replaced, made before, or no process at all: nothing to tear down.        *)
KillNothing(t) ==
    /\ At(t, "kill") /\ Free(t)
    /\ Replaced(t) \/ Made(t) \/ Target(t) = 0
    /\ LET p == Target(t) IN
       th' = Back(IF p = 0 THEN Failed(th, X(t), 0) ELSE th, t,
                  p # 0 /\ (srv[p].result = "none" \/ Bad(p)))
    /\ UNCHANGED <<srv, ad, Owners, Close0>> /\ Calm

KillEnter(t) ==
    /\ At(t, "kill") /\ Free(t)
    /\ ~Replaced(t) /\ ~Made(t) /\ Cur(t) # 0
    /\ ad' = [ad EXCEPT ![X(t)].lock = t, ![X(t)].tearing = Cur(t)]
    /\ srv' = [srv EXCEPT ![Cur(t)].seen = @ \/ Up(Cur(t))]
    /\ th' = [th EXCEPT ![t].pc = IF Up(Cur(t)) \/ srv[Cur(t)].seen THEN "reap"
                                  ELSE "reapLate"]
    /\ UNCHANGED <<Owners, Close0>> /\ Calm

(* Native cleanup, terminate and ensure_tree_exited: the tree is gone, or its *)
(* end could not be verified.                                                *)
TreeExited(p)  == srv' = [srv EXCEPT ![p].life = "down", ![p].tree = FALSE]
Unverified(p)  == \E l \in {srv[p].life, "down"} : srv' = [srv EXCEPT ![p].life = l]
Relinquish(p)  == \E l \in {"up", "down"} :
                    srv' = IF Up(p) THEN [srv EXCEPT ![p].life = l] ELSE srv

Reap(t) ==
    /\ At(t, "reap") \/ At(t, "reapLate")
    /\ \/ TreeExited(Cur(t))
          /\ th' = [th EXCEPT ![t].pc = "wake", ![t].raised = At(t, "reapLate")]
          /\ Calm
       \/ At(t, "reapLate")                     \* detached descendants stay
          /\ th' = [th EXCEPT ![t].pc = "wake", ![t].raised = TRUE]
          /\ UNCHANGED srv /\ Calm
       \/ Fault /\ Unverified(Cur(t))
          /\ th' = [th EXCEPT ![t].pc = "wake", ![t].raised = TRUE]
    /\ UNCHANGED <<ad, Owners, Close0>>

(* The result, the records of the affected operations, then the wake-up.     *)
Wake(t) ==
    /\ At(t, "wake")
    /\ \/ /\ srv' = [srv EXCEPT ![Cur(t)].result = IF th[t].raised THEN "bad" ELSE "ok"]
          /\ th' = Back(Failed(th, X(t), Cur(t)), t, th[t].raised) /\ Calm
       \/ /\ Affected(X(t)) # {} /\ Fault
          /\ srv' = [srv EXCEPT ![Cur(t)].result = "unsaved"]
          /\ th' = Back(Failed(th, X(t), Cur(t)), t, TRUE)
    /\ ad' = [ad EXCEPT ![X(t)].lock = Unlocked(t)]
    /\ UNCHANGED <<Owners, Close0>>

KillSteps(t) == KillNothing(t) \/ KillEnter(t) \/ Reap(t) \/ Wake(t)
--------------------------------------------------------------------------------
(* A worker: obtain the owner (_adapter_for), then start_turn.               *)
Obtain(k) ==
    /\ At(k, "idle") /\ olock = None /\ ~shut /\ k \in bound.team
    /\ calls < bound.calls /\ calls' = calls + 1
    /\ \/ /\ owner[k] # 0 /\ UNCHANGED <<ad, owner>>
          /\ th' = [th EXCEPT ![k] = [Idle("call") EXCEPT !.x = owner[k]]]
       \/ /\ owner[k] = 0
          /\ \E x \in Adapter :
                /\ x = Cardinality({y \in Adapter : ad[y].made}) + 1 /\ x <= bound.adapters
                /\ ad' = [ad EXCEPT ![x].made = TRUE]
                /\ owner' = [owner EXCEPT ![k] = x]
                /\ th' = [th EXCEPT ![k] = [Idle("call") EXCEPT !.x = x]]
    /\ UNCHANGED <<srv, shut, olock, left, clean, closes>> /\ Calm

(* start_turn looks whether the adapter is closed; then probe, which tears   *)
(* the transport down when the executable was replaced.                      *)
Call(k) ==
    /\ At(k, "call")
    /\ \/ ad[X(k)].closed /\ End(k, "refused") /\ Calm
       \/ ~ad[X(k)].closed /\ Go(k, "start") /\ Calm
       \/ ~ad[X(k)].closed /\ Up(Cur(k)) /\ Fault /\ Kill(k, 0, "forget")
    /\ UNCHANGED <<srv, ad, Owners, Close0>>

Forget(k) ==
    /\ At(k, "forget")
    /\ IF th[k].raised THEN End(k, "failed") /\ UNCHANGED ad
       ELSE /\ th' = [th EXCEPT ![k] = [Idle("start") EXCEPT !.x = X(k)]]
            /\ ad' = [ad EXCEPT ![X(k)].cur = 0]
    /\ UNCHANGED <<srv, Owners, Close0>> /\ Calm

(* Faulty: _start does not look whether the adapter was closed.              *)
StartsAnyway(k) == TRUE
MayStart(k) == ~ad[X(k)].closed

(* _start, up to the point where it knows whether a process has to be started. *)
Start(k) ==
    /\ At(k, "start") /\ Free(k)
    /\ CASE ~MayStart(k) -> End(k, "refused") /\ UNCHANGED ad
         [] MayStart(k) /\ Up(Cur(k)) -> Ready(k) /\ UNCHANGED ad
         [] MayStart(k) /\ ~Up(Cur(k)) ->
              /\ ad' = [ad EXCEPT ![X(k)].lock = k]
              /\ IF Cur(k) = 0
                 THEN th' = [th EXCEPT ![k].pc = "launch", ![k].raised = FALSE]
                 ELSE th' = [th EXCEPT ![k].pc = "kill", ![k].p = Cur(k), ![k].nest = TRUE,
                                       ![k].ret = "launch", ![k].raised = FALSE]
    /\ UNCHANGED <<srv, Owners, Close0>> /\ Calm

StartTimesOut(k) ==
    /\ At(k, "start") /\ ~Free(k)
    /\ End(k, "timedOut")
    /\ UNCHANGED <<srv, ad, Owners, Close0>> /\ Calm

(* A failed cleanup of the process that was there is passed over when the    *)
(* ledger has it; the new process replaces the old one.                      *)
Launch(k) ==
    /\ At(k, "launch")
    /\ \/ \* it cannot be started, or the cleanup is not recorded
          /\ End(k, "failed") /\ UNCHANGED srv
          /\ ad' = [ad EXCEPT ![X(k)].lock = None]
       \/ /\ th[k].raised => srv[Cur(k)].result = "bad"
          /\ \E p \in Proc :
                /\ p = Cardinality({q \in Proc : srv[q].life # "none"}) + 1
                /\ p <= bound.procs
                /\ srv' = [srv EXCEPT ![p] = [NoServer EXCEPT !.life = "up", !.tree = TRUE,
                                                             !.of = X(k), !.key = k]]
                /\ ad' = [ad EXCEPT ![X(k)].cur = p, ![X(k)].tearing = 0]
                /\ th' = [th EXCEPT ![k].pc = "init", ![k].got = "none", ![k].p = p,
                                    ![p] = [Idle("reading") EXCEPT !.x = X(k), !.p = p]]
    /\ UNCHANGED <<Owners, Close0>> /\ Calm

(* Faulty: the answer is waited for without a limit.                         *)
WaitsForever == FALSE
TimeLimit    == TRUE

(* The handshake: the lock is held while the answer is waited for.           *)
Initialize(k) ==
    /\ At(k, "init")
    /\ \/ /\ th[k].got = "ok" /\ Ready(k)
          /\ ad' = [ad EXCEPT ![X(k)].lock = None]
       \/ /\ \/ th[k].got = "fail"
             \/ th[k].got = "none" /\ TimeLimit
          /\ Kill(k, 0, "unstart") /\ UNCHANGED ad
    /\ UNCHANGED <<srv, Owners, Close0>> /\ Calm

Unstart(k) ==
    /\ At(k, "unstart") /\ End(k, "failed")
    /\ ad' = [ad EXCEPT ![X(k)].lock = None]
    /\ UNCHANGED <<srv, Owners, Close0>> /\ Calm

--------------------------------------------------------------------------------
(* The turn.  It is bound to the process that is current before the intent.  *)
Dispatch(k) ==
    /\ At(k, "ready")
    /\ \/ End(k, "timedOut")
       \/ th' = [th EXCEPT ![k].pc = "rpc", ![k].p = Cur(k),
                           ![k].got = IF Up(Cur(k)) THEN "none" ELSE "fail"]
    /\ UNCHANGED <<srv, ad, Owners, Close0>> /\ Calm

Acknowledged(k) ==
    /\ At(k, "rpc")
    /\ IF /\ th[k].got = "ok" /\ Cur(k) = th[k].p
          /\ ad[X(k)].tearing # th[k].p /\ Up(th[k].p)
       THEN th' = [th EXCEPT ![k].pc = "turn", ![k].turn = "open", ![k].got = "none"]
       ELSE /\ th[k].got # "none" \/ TimeLimit
            /\ Kill(k, th[k].p, "join")
    /\ UNCHANGED <<srv, ad, Owners, Close0>> /\ Calm

(* After the teardown of an unacknowledged dispatch the reader is joined, for *)
(* a limited time.                                                           *)
Join(k) ==
    /\ At(k, "join") /\ End(k, IF th[k].raised THEN "unverified" ELSE "stopped")
    /\ UNCHANGED <<srv, ad, Owners, Close0>> /\ Calm

Waiting(k) ==
    /\ At(k, "turn")
    /\ CASE th[k].turn = "done"  -> End(k, "ok")
         [] th[k].turn = "error" -> End(k, "failed")
         [] th[k].turn = "lost"  -> End(k, "stopped")
         [] th[k].turn \in {"open", "policy"} -> Kill(k, th[k].p, "stopped")
    /\ UNCHANGED <<srv, ad, Owners, Close0>> /\ Calm

Stopped(k) ==
    /\ At(k, "stopped") /\ End(k, IF th[k].raised THEN "unverified" ELSE "stopped")
    /\ UNCHANGED <<srv, ad, Owners, Close0>> /\ Calm

--------------------------------------------------------------------------------
(* The operation goes on with its owner: a repair of the output, a recovery    *)
(* of the attempt, or the next attempt.                                      *)
Continue(k) ==
    /\ At(k, "release") /\ th' = [th EXCEPT ![k] = Idle("idle")]
    /\ UNCHANGED <<srv, ad, Owners, Close0>> /\ Calm

(* release_operation: a successful operation disposes of its server, another *)
(* one closes it or, when nothing was sent, disposes of it.                  *)
(* Faulty: the key is given up before the server is stopped.                 *)
GivenUpFirst(k) == owner' = [owner EXCEPT ![k] = 0]
Reserved(k)     == UNCHANGED owner

Release(k) ==
    /\ At(k, "release") /\ olock = None
    /\ IF owner[k] = 0
       THEN th' = [th EXCEPT ![k] = Idle("idle")] /\ UNCHANGED <<olock, owner>>
       ELSE /\ olock' = k /\ Reserved(k)
            /\ \E l \in {"dispose", "close"} :
                 /\ l = "dispose" => th[k].res \notin {"stopped", "unverified"}
                 /\ l = "close"   => th[k].res # "ok"
                 /\ th' = [th EXCEPT ![k] = [Idle(l) EXCEPT !.x = owner[k]]]
    /\ UNCHANGED <<srv, ad, shut, Close0>> /\ Calm

Released(k, gone) ==
    /\ olock' = None
    /\ owner' = IF gone THEN [owner EXCEPT ![k] = 0] ELSE owner
    /\ th' = [th EXCEPT ![k] = Idle("idle")]

(* dispose: signal the idle parent, wait for its exit, leave its descendants. *)
Dispose(k) ==
    /\ At(k, "dispose") /\ Free(k)
    /\ IF ad[X(k)].complete \/ Cur(k) = 0
       THEN /\ ad' = [ad EXCEPT ![X(k)].complete = TRUE, ![X(k)].closed = TRUE]
            /\ Released(k, TRUE) /\ UNCHANGED srv
       ELSE /\ ad' = [ad EXCEPT ![X(k)].closed = TRUE, ![X(k)].leaving = Cur(k),
                                ![X(k)].lock = k]
            /\ Relinquish(Cur(k))
            /\ Go(k, "leaving") /\ UNCHANGED <<owner, olock>>
    /\ UNCHANGED <<shut, Close0>> /\ Calm

Leaving(k) ==
    /\ At(k, "leaving")
    /\ IF Up(Cur(k)) THEN Released(k, FALSE) /\ ad' = [ad EXCEPT ![X(k)].lock = None]
       ELSE /\ Released(k, TRUE)
            /\ ad' = [ad EXCEPT ![X(k)].lock = None, ![X(k)].cur = 0,
                                ![X(k)].complete = TRUE]
    /\ UNCHANGED <<srv, shut, Close0>> /\ Calm

(* close of an adapter, by a worker or by the close of the provider.         *)
CloseAdapter(t) ==
    /\ At(t, "close") /\ Free(t)
    /\ IF ad[X(t)].complete
       THEN th' = [th EXCEPT ![t].pc = "closed", ![t].raised = FALSE] /\ UNCHANGED ad
       ELSE /\ ad' = [ad EXCEPT ![X(t)].closed = TRUE, ![X(t)].lock = t]
            /\ th' = [th EXCEPT ![t].pc = "kill", ![t].p = 0, ![t].ret = "closed",
                                ![t].nest = TRUE, ![t].raised = FALSE]
    /\ UNCHANGED <<srv, Owners, Close0>> /\ Calm

(* A process that is left is terminated once more.                           *)
Closed(t) ==
    /\ At(t, "closed")
    /\ ad' = [ad EXCEPT ![X(t)].lock = None, ![X(t)].complete = @ \/ ~th[t].raised]
    /\ Relinquish(Cur(t))
    /\ IF t \in Key
       THEN Released(t, ~th[t].raised) /\ UNCHANGED <<left, clean>>
       ELSE LET k == CHOOSE k \in left : owner[k] = X(t) IN
            /\ left' = left \ {k}
            /\ clean' = (clean /\ ~th[t].raised)
            /\ owner' = IF th[t].raised THEN owner ELSE [owner EXCEPT ![k] = 0]
            /\ th' = [th EXCEPT ![t] = Idle("next")] /\ UNCHANGED olock
    /\ UNCHANGED <<shut, calls, closes>> /\ Calm

(* CodexProvider.close.                                                      *)
CloseProvider ==
    /\ At(Closer, "idle") /\ olock = None /\ closes < bound.closes
    /\ olock' = Closer /\ shut' = TRUE /\ closes' = closes + 1
    /\ left' = {k \in Key : owner[k] # 0} /\ clean' = TRUE
    /\ Go(Closer, "next")
    /\ UNCHANGED <<srv, ad, owner, calls>> /\ Calm

NextOwner ==
    /\ At(Closer, "next")
    /\ \/ \E k \in left : th' = [th EXCEPT ![Closer] = [Idle("close") EXCEPT !.x = owner[k]]]
          /\ UNCHANGED olock
       \/ left = {} /\ olock' = None /\ Go(Closer, "idle")
    /\ UNCHANGED <<srv, ad, owner, shut, Close0>> /\ Calm

(* _abandon_operation, for an operator's retry of an idle operation.         *)
Abandon(k) ==
    /\ At(k, "idle") /\ owner[k] # 0 /\ olock = None /\ Fault
    /\ owner' = [owner EXCEPT ![k] = 0]
    /\ ad' = [ad EXCEPT ![owner[k]].given = TRUE]
    /\ UNCHANGED <<srv, shut, olock, th, Close0>>

--------------------------------------------------------------------------------
(* A reader: the stream ends, or breaks; then it tears the transport down,    *)
(* unless the server is being disposed of.                                   *)
(* Faulty: the waiters are woken first.                                      *)
WakeFirst(p) == Failed(th, X(p), p)
WakeAfter(p) == th
EndOfStream(p) ==
    /\ At(p, "reading")
    /\ \/ ~Up(p) /\ Calm
       \/ Up(p) /\ Fault                         \* a message it cannot read
    /\ IF ad[X(p)].leaving = p
       THEN th' = [Failed(th, X(p), p) EXCEPT ![p] = Idle("over")]
       ELSE th' = [WakeAfter(p) EXCEPT ![p].pc = "kill", ![p].ret = "read"]
    /\ UNCHANGED <<srv, ad, Owners, Close0>>

ReaderEnds(p) ==
    /\ At(p, "read")
    /\ th' = [(IF th[p].raised THEN Failed(th, X(p), p) ELSE th)
                 EXCEPT ![p] = Idle("over")]
    /\ UNCHANGED <<srv, ad, Owners, Close0>> /\ Calm

--------------------------------------------------------------------------------
(* What a server does; its reader passes it on while it is the current one.   *)
Answers(p) ==
    /\ Up(p) /\ At(p, "reading") /\ ad[srv[p].of].cur = p
    /\ \E k \in Key :
         /\ th[k].x = srv[p].of /\ th[k].p = p
         /\ \/ /\ th[k].pc \in {"init", "rpc"} /\ th[k].got = "none"
               /\ th' = [th EXCEPT ![k].got = "ok"]
            \/ /\ th[k].turn = "open"
               /\ \E e \in {"done", "error", "policy"} : th' = [th EXCEPT ![k].turn = e]
    /\ UNCHANGED <<srv, ad, Owners, Close0>> /\ Calm

Dies(p) ==
    /\ Up(p) /\ Fault
    /\ srv' = [srv EXCEPT ![p].life = "down"]
    /\ UNCHANGED <<ad, Owners, th, Close0>>

--------------------------------------------------------------------------------
Worker(k) ==
    \/ Call(k) \/ Forget(k) \/ Start(k) \/ StartTimesOut(k) \/ Launch(k)
    \/ Initialize(k) \/ Unstart(k) \/ Dispatch(k) \/ Acknowledged(k) \/ Join(k)
    \/ Waiting(k) \/ Stopped(k) \/ Continue(k) \/ Release(k) \/ Dispose(k) \/ Leaving(k)
    \/ CloseAdapter(k) \/ Closed(k) \/ KillSteps(k)
Reader(p) ==
    \/ ~Up(p) /\ EndOfStream(p)
    \/ ReaderEnds(p) \/ KillSteps(p)
ClosingThread == NextOwner \/ CloseAdapter(Closer) \/ Closed(Closer) \/ KillSteps(Closer)

Step ==
    \/ \E k \in Key : Worker(k) \/ Obtain(k) \/ Abandon(k)
    \/ \E p \in Proc : Reader(p) \/ EndOfStream(p) \/ Answers(p) \/ Dies(p)
    \/ CloseProvider \/ ClosingThread

Next == Step /\ UNCHANGED bound

Spec == Init /\ [][Next]_vars

--------------------------------------------------------------------------------
(* Behind a close of the provider that returned without an error no server   *)
(* is running and none is started later, but for those an operator gave up   *)
(* and those whose end was recorded as unverified (providers.py:513).        *)
NothingBehindClose ==
    shut /\ clean /\ olock = None =>
        \A p \in Proc : Up(p) => Bad(p) \/ ad[srv[p].of].given

(* An operation never has two live servers, unless the end of one was        *)
(* recorded as unverified or given up by the operator (release_operation     *)
(* keeps the key until the cleanup succeeded).                               *)
OneServerPerOperation ==
    \A p, q \in Proc :
        p # q /\ Up(p) /\ Up(q) /\ srv[p].key = srv[q].key =>
            \E r \in {p, q} : Bad(r) \/ ad[srv[r].of].given

(* A call that was stopped returns when the tree of its server is gone, or   *)
(* when it is on record that this could not be verified (_kill_transport:    *)
(* returning is the quiescence boundary).                                    *)
QuietWhenStopped ==
    \A k \in Key :
        th[k].pc = "release" /\ th[k].res = "stopped" =>
            LET p == th[k].p IN
            /\ srv[p].result # "none"
            /\ srv[p].result = "ok" => ~Up(p) /\ ~srv[p].tree

(* A turn is failed by the loss of its own server only, never by the reader   *)
(* or the teardown of one that was replaced.                                 *)
LostWithItsServer ==
    \A k \in Key :
        \/ th[k].turn = "lost"
        \/ th[k].pc \in {"init", "rpc"} /\ th[k].got = "fail"
        =>
            LET p == th[k].p IN
            ~Up(p) \/ srv[p].result # "none" \/ th[p].pc # "reading"
====
