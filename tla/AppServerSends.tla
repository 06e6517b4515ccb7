--------------------------- MODULE AppServerSends ---------------------------
(***************************************************************************)
(* The messages of AppServer on their way (codex_appserver.py, _send).  A   *)
(* message is written to the pipe of the server under _write_lock, without  *)
(* a time limit: the deadline of a call is looked at before and after it.   *)
(* A server that stops reading fills its pipe, and whoever sends to it       *)
(* waits, with the locks it holds, until the server reads again or is gone.  *)
(* Nothing else changes, so that whatever a step of AppServer may never do   *)
(* it does not do here either (AppServer_proofs, SendsOnlyDelay).            *)
(***************************************************************************)
EXTENDS AppServer

VARIABLES
    sending,     \* the threads whose message is not written yet
    writer,      \* the thread that holds the _write_lock of an adapter
    deaf         \* the servers that have stopped to read

sendVars == <<vars, sending, writer, deaf>>

SendInit == Init /\ sending = {} /\ writer = [x \in Adapter |-> None] /\ deaf = {}

--------------------------------------------------------------------------------
(* The process a message is for; for a process that was replaced or is gone   *)
(* it is refused, and the write to one that goes away fails.  The messages of *)
(* the handshake are short and fit into the empty pipe.                      *)
To(t)    == CASE t \in Proc     -> t
              [] At(t, "rpc")   -> th[t].p
              [] OTHER          -> Cur(t)
Full(t)  == ~At(t, "init") /\ To(t) = Cur(t) /\ Up(To(t)) /\ To(t) \in deaf

Send(t) ==
    /\ t \in sending /\ writer[X(t)] \in {None, t} /\ ~Full(t)
    /\ sending' = sending \ {t} /\ writer' = [writer EXCEPT ![X(t)] = None]
    /\ UNCHANGED <<vars, deaf>>

Block(t) ==
    /\ t \in sending /\ writer[X(t)] = None /\ Full(t)
    /\ writer' = [writer EXCEPT ![X(t)] = t]
    /\ UNCHANGED <<vars, sending, deaf>>

--------------------------------------------------------------------------------
(* A step of a thread that has nothing to send; the next request it makes, of *)
(* the handshake, the dispatch or, once a thread may have been registered, of  *)
(* the cleanup, is on its way before its answer is waited for.               *)
Requests(t, pc) == \/ pc = "init" /\ th[t].pc # "init"
                   \/ pc = "rpc"  /\ th[t].pc # "rpc"
Cleans(t, pc)   == pc = "reap" /\ th[t].pc = "kill" /\ Up(Cur(t)) /\ th[t].ret # "unstart"

Sending(t) ==
    LET pc == th'[t].pc IN
    \/ Requests(t, pc) /\ sending' = sending \cup {t}
    \/ Cleans(t, pc)   /\ sending' = sending \cup {t}
    \/ ~Requests(t, pc) /\ sending' = sending

Acts(t, A) == /\ t \notin sending /\ A /\ UNCHANGED bound
              /\ Sending(t) /\ UNCHANGED <<writer, deaf>>

NothingSent == sending' = sending /\ UNCHANGED <<writer, deaf>>

(* The server asks, and its reader replies (_answer_server_request).          *)
Asks(p) ==
    /\ Up(p) /\ At(p, "reading") /\ p \notin sending
    /\ sending' = sending \cup {p}
    /\ UNCHANGED <<vars, writer, deaf>>

(* An answer goes through the reader, to a request that was written.         *)
Hears(p) ==
    /\ p \notin sending /\ Answers(p) /\ UNCHANGED bound
    /\ \A k \in sending : th'[k] = th[k]
    /\ NothingSent

StopsReading(p) == Up(p) /\ p \notin deaf /\ deaf' = deaf \cup {p}
                   /\ UNCHANGED <<vars, sending, writer>>
ReadsAgain(p)   == Up(p) /\ p \in deaf /\ deaf' = deaf \ {p}
                   /\ UNCHANGED <<vars, sending, writer>>

SendNext ==
    \/ \E t \in Thread : Send(t) \/ Block(t)
    \/ \E k \in Key : Acts(k, Worker(k) \/ Obtain(k) \/ Abandon(k))
    \/ \E p \in Proc : \/ Acts(p, Reader(p) \/ EndOfStream(p))
                       \/ Asks(p) \/ Hears(p) \/ StopsReading(p) \/ ReadsAgain(p)
                       \/ Dies(p) /\ UNCHANGED bound /\ NothingSent
    \/ Acts(Closer, CloseProvider \/ ClosingThread)

(* The threads go on, and a message gets through a pipe that is emptied again *)
(* and again; nobody has to call, close or abandon anything, and a server may *)
(* be silent for ever.                                                       *)
Fairness ==
    /\ \A t \in Thread : SF_sendVars(Send(t))
    /\ \A k \in Key : WF_sendVars(Acts(k, Worker(k)))
    /\ \A p \in Proc : WF_sendVars(Acts(p, Reader(p)))
    /\ WF_sendVars(Acts(Closer, ClosingThread))

SendSpec == SendInit /\ [][SendNext]_sendVars /\ Fairness

--------------------------------------------------------------------------------
(* Every call returns and the close ends, whatever the servers answer, ask    *)
(* and die of, with the calls of a behaviour bounded: all the callers are idle *)
(* in the end.  No deadline covers a write, so a server that lives on must not *)
(* stop reading for good; then nobody returns who holds its locks or needs    *)
(* them, though docs/sdk.md:172 has the timeout cover the whole call.         *)
(* _start holds the cleanup lock while it waits for initialize, a release     *)
(* the lock of the owners while it disposes of a server.                     *)
AllIdle == \A t \in Key \cup {Closer} : th[t].pc = "idle"
EveryCallReturns == (\A p \in Proc : []<>(Up(p) => p \notin deaf)) => <>[]AllIdle
====
