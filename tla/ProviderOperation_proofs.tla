------------------------ MODULE ProviderOperation_proofs -----------------------
(***************************************************************************)
(* What ProviderOperation guarantees for any number of attempts, servers    *)
(* and faults, with and without retries: a turn that may act is owned by    *)
(* its operation, recovery never calls it stopped, a recorded answer ends   *)
(* sending, the conversation is given back after a recorded shutdown, and   *)
(* the operation implements ProviderTurns.                                  *)
(***************************************************************************)
EXTENDS ProviderOperation, TLAPS

Label == {"off", "recover", "relaunch", "read", "decide", "preflight", "prepare", "claim",
          "boot", "launch", "configure", "bind", "refuse", "reserve", "intent", "send", "ack",
          "teardown", "overBudget", "wait", "stop", "answer", "classify", "save", "validate",
          "dispose", "release", "receipt", "complete", "fail", "unbind"}
Outcome == {"none", "completed", "stopped", "policy", "unknown", "running", "native"}
Goal == {"none", "budget", "policy", "timeout", "complete", "fail", "unbind"}
Types ==
    /\ op \in {"absent", "open", "completed", "failed"} /\ ck \in Checkpoint
    /\ att \in [Attempts -> Record] /\ held \in 0..MaxAttempt
    /\ server \subseteq Server /\ started \in 0..MaxServer
    /\ turn \in [Attempts -> {"none", "wire", "running", "completed", "stopped"}]
    /\ home \in [Attempts -> 0..MaxServer] /\ foul \in [Attempts -> BOOLEAN]
    /\ cur \in Attempts /\ seen \subseteq {"foul", "answer"}
    /\ owner \in {"none", "open", "closed"} /\ proc \in 0..MaxServer
    /\ caller \in {"execute", "resolve"}
TypeOK ==
    /\ Types /\ pc \in Label /\ goal \in Goal /\ outcome \in Outcome \ {"native"}
    /\ allow \in BOOLEAN /\ need \in BOOLEAN /\ caller = "execute" /\ faults \in 0..MaxFaults

Clean(a) == att[a].answer /\ ~foul[a]
StoppedRecord(r) ==
    \/ r.status = "absent"
    \/ /\ ~r.policy /\ ~OpenCleanup(r)
       /\ r.status = "failed" \/ (r.status \in {"configured", "thread_bound"} /\ ~r.authorized)

(* what a record says of its turn *)
Truth(a) ==
    /\ turn[a] # "none" => att[a].authorized
    /\ att[a].status = "absent" => ~att[a].authorized /\ ~att[a].policy
    /\ att[a].answer => turn[a] = "completed"
    /\ att[a].status = "completed" => att[a].answer
    /\ att[a].status = "failed" => ~Live(a)
    /\ Clean(a) => att[a].status \in {"response_received", "completed"} /\ ~att[a].policy
    /\ att[a].policy => foul[a] \/ turn[a] = "none"

(* an attempt the checkpoint has not come to has no record *)
Blank(a) ==
    /\ a > ck.gen + 1 => att[a].status = "absent"
    /\ a = ck.gen + 1 /\ ck.kind \in {"empty", "retry"} => att[a].status = "absent"

Checked ==
    /\ ck.gen < MaxAttempt
    /\ ck.kind = "empty" => ck.gen = 0
    /\ ck.kind = "retry" => ck.gen > 0
    /\ op = "absent" => pc = "off" /\ ck.kind = "empty"

Dispatching == {"prepare", "claim", "boot", "launch", "configure", "bind", "refuse", "reserve", "intent", "send", "ack",
          "teardown", "overBudget", "wait", "stop", "answer", "classify", "save"}
Unsent == {"prepare", "claim", "boot", "launch", "configure", "bind", "refuse", "reserve",
           "intent", "send", "overBudget"}
Recovering == {"recover", "relaunch", "read", "decide"}
Disposing == {"dispose", "release", "receipt"}
Early == {"off", "preflight", "ack"} \cup Recovering \cup (Unsent \ {"overBudget"})
Sending == {"ack", "teardown", "wait", "stop"}

(* where the executor is, and the attempt it is busy with *)
Place ==
    /\ pc \in Label \ Recovering => caller = "execute"
    /\ pc \in Dispatching => op = "open" /\ ck.kind = "intent" /\ cur = ck.gen + 1
    /\ pc \in (Dispatching \ {"prepare"}) \cup {"relaunch", "read"} => A.status # "absent"
    /\ pc \in Recovering => cur = Tried
    /\ pc \in Recovering /\ caller = "execute" => op = "open" /\ ck.kind \in {"intent", "retry"}
    /\ pc = "preflight" => op = "open" /\ cur = ck.gen + 1 /\ ck.kind \in {"empty", "retry"}
    /\ pc = "fail" => op = "open"
    /\ pc = "validate" => op = "open" /\ cur = ck.gen + 1 /\ ck.kind \in {"responded", "validated"}
    /\ pc \in Disposing => /\ cur = Tried
         /\ \/ goal = "complete" /\ op = "open" /\ ck.kind = "validated"
            \/ goal = "fail" /\ op = "open" /\ ck.kind = "invalid"
            \/ goal = "unbind" /\ op = "failed" /\ ck.kind \in Answered \cup {"refused"}
            \/ goal = "policy" /\ op = "open" /\ ck.kind \in {"intent", "retry"}
    /\ pc = "complete" => /\ op = "open" /\ ck.kind = "validated" /\ cur = ck.gen + 1
                          /\ goal = "complete"
    /\ pc = "unbind" => cur = Tried /\ IF goal = "policy" THEN op = "open" ELSE op # "open"

(* what the executor knows of the turn *)
Turn ==
    /\ pc \in Unsent => turn[cur] = "none"
    /\ pc \in Unsent \ {"refuse", "overBudget"} => ~A.policy
    /\ pc \in {"ack", "teardown"} => ~A.answer
    /\ pc \in {"boot", "launch", "configure", "bind", "reserve", "intent", "send"} => held = cur
    /\ pc \in {"intent", "send"} => A.authorized
    /\ pc = "send" => A.status = "turn_intent"
    /\ pc \in Sending /\ turn[cur] # "none" => home[cur] = proc
    /\ pc \in {"answer", "save"} => A.answer
    /\ pc = "classify" => foul[cur] /\ ~Live(cur)
    /\ pc \in {"wait", "stop"} /\ "foul" \in seen => foul[cur]
    /\ pc \in {"wait", "stop"} /\ "answer" \in seen => A.answer
    /\ pc \in {"ack", "wait", "stop"} => turn[cur] # "none"
    /\ pc = "stop" /\ goal = "policy" => foul[cur]
    /\ goal = "budget" /\ pc = "teardown" => turn[cur] = "none"
    /\ pc \in Early /\ caller = "execute" => goal = "none" /\ seen = {}

(* how far its record is *)
Final == {"completed", "failed"}
Stage ==
    /\ pc = "prepare" => A.status = "absent"
    /\ pc \in Dispatching \ {"prepare", "refuse", "overBudget", "classify", "save"} => A.status \notin Final
    /\ pc = "classify" => A.status # "completed"

(* This much holds however retries come about, an operator's included.       *)
Core == Types /\ (\A a \in Attempts : Truth(a) /\ Blank(a)) /\ Checked /\ Place /\ Turn /\ Stage

(* Without an operator an earlier attempt neither acts nor has answered.     *)
Order(a) ==
    /\ a <= ck.gen => ~Live(a) /\ ~Clean(a)
    /\ Live(a) => op = "open" /\ held = a /\ ck.kind = "intent"
    /\ "accepted" \notin {att[a].disposal, att[a].cleanup}

Kept ==
    /\ ck.origin # "operator"
    /\ ck.kind = "retry" => StoppedRecord(att[ck.gen])
    /\ held # 0 => att[held].status # "absent"

Reached ==
    /\ ck.kind = "retry" => pc \notin {"relaunch", "read"}
    /\ pc = "decide" => /\ outcome = "completed" => A.answer /\ ck.kind = "intent"
                        /\ outcome = "stopped" => StoppedRecord(A)
                        /\ ck.kind = "retry" => outcome = "stopped"
    /\ pc \in Disposing \cup {"unbind"} /\ goal = "policy" => ck.kind = "intent" /\ ~Live(cur)
    /\ pc = "fail" => \A a \in Attempts : ~Live(a)

Shut ==
    /\ pc \in {"complete", "unbind"} /\ held = cur => A.disposal = "completed"
    /\ op = "completed" => /\ ck.kind = "validated" /\ pc \in {"off", "unbind"}
                           /\ held = ck.gen + 1 => att[held].disposal = "completed"
    /\ op = "failed" => pc \in {"off", "unbind"} \cup Disposing
IInv == TypeOK /\ Core /\ (\A a \in Attempts : Order(a)) /\ Kept /\ Reached /\ Shut
-----------------------------------------------------------------------------
LEMMA Bounds ==
    /\ MaxAttempt \in Nat /\ MaxAttempt > 0 /\ MaxServer \in Nat /\ MaxFaults \in Nat
    /\ RetrySafe \in BOOLEAN /\ ReadOnly \in BOOLEAN
    /\ 1 \in Attempts /\ Attempts \subseteq Nat
  BY BoundAssumption, FlagAssumption DEF Attempts

LEMMA InitHolds == Init => IInv
  <1> SUFFICES ASSUME Init PROVE IInv
    OBVIOUS
  <1>1. NoAttempt \in Record /\ Empty \in Checkpoint
    BY Bounds DEF NoAttempt, Record, Empty, Checkpoint, Status, Evidence, CkKind
  <1>2. Types
    <2>1. /\ att \in [Attempts -> Record] /\ ck \in Checkpoint
      BY <1>1 DEF Init
    <2>2. /\ home \in [Attempts -> 0..MaxServer] /\ foul \in [Attempts -> BOOLEAN]
          /\ turn \in [Attempts -> {"none", "wire", "running", "completed", "stopped"}]
          /\ held \in 0..MaxAttempt /\ started \in 0..MaxServer /\ proc \in 0..MaxServer
          /\ faults \in 0..MaxFaults /\ cur \in Attempts
      BY Bounds DEF Init
    <2> QED BY <2>1, <2>2 DEF Init, Types
  <1>n. 0 \in 0..MaxFaults
    BY Bounds
  <1>t. TypeOK
    BY <1>2, <1>n DEF Init, TypeOK, Label, Goal, Outcome
  <1>3. \A a \in Attempts : att[a] = NoAttempt /\ turn[a] = "none"
    BY DEF Init
  <1>4. \A a \in Attempts : Truth(a) /\ Blank(a) /\ Order(a)
    BY <1>3 DEF Truth, Blank, Order, Clean, Live, NoAttempt
  <1>5. Checked /\ Kept
    BY Bounds DEF Init, Checked, Kept, Empty
  <1>6. Place /\ Turn /\ Stage /\ Reached /\ Shut
    BY DEF Init, Place, Turn, Stage, Reached, Shut, Empty, Dispatching, Unsent, Recovering, Disposing, Sending
  <1> QED BY <1>2, <1>t, <1>4, <1>5, <1>6 DEF IInv, Core
-----------------------------------------------------------------------------
(* Which steps change which variable.                                        *)
LEMMA OpMoves == ASSUME Next PROVE op' = op \/ Begin \/ Complete \/ Fail
  BY DEF Next, Enter, Work, World, Recovery, Dispatch, Waiting, Settling, Resume, Replay,
     Recover,
     Relaunch, Read, ReadFails, Decide, Preflight, Prepare, Claim, Boot, Launch, Incapable, Refuse,
     Configure, Bind, NotDispatched, Reserve, Intent, Send, Ack, NoAck, TearDown,
     TearDownUnverified, OverBudget, FoulEvent, TurnEvent, Answer, TurnFails, TransportLost, Stop,
     StopTurn, StopUnverified, Classify, Save, Validate, Dispose, Release, Receipt, ReleaseFails,
     Unbind, Deliver, TurnEnds, Violate, TurnErrors, ServerDies, Crash, Close, ledger

LEMMA CkMoves ==
    ASSUME Next
    PROVE  ck' = ck \/ Decide \/ Preflight \/ Refuse \/ OverBudget \/ Save \/ Validate
  BY DEF Next, Enter, Work, World, Recovery, Dispatch, Waiting, Settling, Begin, Resume, Replay,
     Recover, Relaunch, Read, ReadFails, Prepare, Claim, Boot, Launch, Incapable,
     Configure, Bind, NotDispatched, Reserve, Intent, Send, Ack, NoAck, TearDown,
     TearDownUnverified, FoulEvent, TurnEvent, Answer, TurnFails, TransportLost, Stop,
     StopTurn, StopUnverified, Classify, Dispose, Release, Receipt, ReleaseFails, Complete, Fail,
     Unbind, Deliver, TurnEnds, Violate, TurnErrors, ServerDies, Crash, Close, ledger

LEMMA HeldMoves == ASSUME Next PROVE held' = held \/ Claim \/ Unbind
  BY DEF Next, Enter, Work, World, Recovery, Dispatch, Waiting, Settling, Begin, Resume, Replay,
     Recover, Relaunch, Read, ReadFails, Decide, Preflight, Prepare, Boot, Launch, Incapable,
     Refuse, Configure, Bind, NotDispatched, Reserve, Intent, Send, Ack, NoAck, TearDown,
     TearDownUnverified, OverBudget, FoulEvent, TurnEvent, Answer, TurnFails, TransportLost, Stop,
     StopTurn, StopUnverified, Classify, Save, Validate, Dispose, Release, Receipt, ReleaseFails,
     Complete, Fail, Deliver, TurnEnds, Violate, TurnErrors, ServerDies, Crash, Close, ledger

Noting == \/ Recover \/ Read \/ Prepare \/ Boot \/ Incapable \/ Configure \/ Bind \/ Reserve
          \/ Intent \/ Ack \/ TearDown \/ TearDownUnverified \/ TurnEvent \/ Answer \/ TurnFails
          \/ TransportLost \/ StopTurn \/ StopUnverified \/ Classify \/ Dispose \/ Receipt
          \/ ReleaseFails

LEMMA AttMoves == ASSUME Next PROVE att' = att \/ Noting
  BY DEF Noting, Next, Enter, Work, World, Recovery, Dispatch, Waiting, Settling, Begin, Resume,
     Replay, Relaunch, ReadFails, Decide, Preflight, Claim, Launch, Refuse, NotDispatched, Send,
     NoAck, OverBudget, FoulEvent, Stop, Save, Validate, Release, Complete, Fail, Unbind,
     Deliver, TurnEnds, Violate, TurnErrors, ServerDies, Crash, Close, ledger

(* A record that changes is the current attempt's.                           *)
LEMMA NotesOne ==
    ASSUME Next
    PROVE  att' = att \/ \E r : Note(r)
  BY AttMoves DEF Noting, Recover, Read, Prepare, Boot, Incapable, Configure, Bind, Reserve,
     Intent, Ack, TearDown, TearDownUnverified, TurnEvent, Answer, TurnFails, TransportLost,
     StopTurn, StopUnverified, Classify, Dispose, Receipt, ReleaseFails

(* A turn is sent by Send; what may act may end, and may break the policy.   *)
LEMMA TurnMoves ==
    ASSUME Types, Next, NEW a \in Attempts
    PROVE  /\ \/ Send /\ a = cur
              \/ turn'[a] = turn[a] /\ foul'[a] = foul[a]
              \/ Live(a) /\ turn'[a] \notin {"none", "wire"} /\ foul'[a] = foul[a]
              \/ turn[a] = "running" /\ turn'[a] = "running" /\ foul'[a]
           /\ Send \/ home' = home
  <1>t. turn \in [Attempts -> {"none", "wire", "running", "completed", "stopped"}]
        /\ foul \in [Attempts -> BOOLEAN] /\ home \in [Attempts -> 0..MaxServer] /\ cur \in Attempts
    BY DEF Types
  <1>1. \A s : Exit(s) => \/ turn'[a] = turn[a]
                          \/ Live(a) /\ turn'[a] = "stopped"
    BY <1>t DEF Exit, Live
  <1>2. Send \/ home' = home
    BY DEF Next, Enter, Work, World, Recovery, Dispatch, Waiting, Settling, Begin, Resume,
       Replay,
     Recover, Relaunch, Read, ReadFails, Decide, Preflight, Prepare, Claim, Boot, Launch, Incapable,
     Refuse, Configure, Bind, NotDispatched, Reserve, Intent, Ack, NoAck, TearDown,
     TearDownUnverified, OverBudget, FoulEvent, TurnEvent, Answer, TurnFails, TransportLost, Stop,
     StopTurn, StopUnverified, Classify, Save, Validate, Dispose, Release, Receipt, ReleaseFails,
     Complete, Fail, Unbind, Deliver, TurnEnds, Violate, TurnErrors, ServerDies, Crash, Close,
     outside
  <1>3. CASE \E b \in Attempts : Deliver(b) \/ TurnEnds(b) \/ Violate(b)
    BY <1>2, <1>3, <1>t DEF Deliver, TurnEnds, Violate, Live, Send
  <1>4. CASE Send
    BY <1>4, <1>t DEF Send
  <1>5. CASE Read
    BY <1>5, <1>t, <1>2 DEF Read, Live
  <1>6. CASE \/ TearDown \/ TearDownUnverified \/ StopTurn \/ StopUnverified \/ Release
             \/ ReleaseFails \/ Close \/ \E s \in Server : ServerDies(s)
    <2>1. foul' = foul /\ (UNCHANGED turn \/ \E s : Exit(s))
      BY <1>6 DEF TearDown, TearDownUnverified, StopTurn, StopUnverified, Release,
         ReleaseFails, Close, ServerDies, MaybeGone
    <2> QED BY <2>1, <1>1, <1>2
  <1>7. CASE UNCHANGED <<turn, foul>>
    BY <1>7, <1>2
  <1>8. UNCHANGED <<turn, foul>> \/ Read \/ Send
        \/ (\E b \in Attempts : Deliver(b) \/ TurnEnds(b) \/ Violate(b))
        \/ TearDown \/ TearDownUnverified \/ StopTurn \/ StopUnverified \/ Release
             \/ ReleaseFails \/ Close \/ \E s \in Server : ServerDies(s)
    BY DEF Next, Enter, Work, World, Recovery, Dispatch, Waiting, Settling, Begin, Resume,
       Replay,
     Recover, Relaunch, ReadFails, Decide, Preflight, Prepare, Claim, Boot, Launch, Incapable,
     Refuse, Configure, Bind, NotDispatched, Reserve, Intent, Ack, NoAck,
     OverBudget, FoulEvent, TurnEvent, Answer, TurnFails, TransportLost, Stop,
     Classify, Save, Validate, Dispose, Receipt,
     Complete, Fail, Unbind, TurnErrors, Crash, outside
  <1> QED BY <1>3, <1>4, <1>5, <1>6, <1>7, <1>8
-----------------------------------------------------------------------------
(* Types.                                                                    *)
LEMMA CkType == ASSUME Types, Next PROVE ck' \in Checkpoint
  <1>t. /\ ck \in Checkpoint /\ cur \in Attempts /\ cur - 1 \in 0..MaxAttempt /\ cur \in 0..MaxAttempt
        /\ 0 \in 0..MaxAttempt
    BY Bounds DEF Types, Attempts
  <1>1. \A k \in CkKind : ck0(k, cur - 1) \in Checkpoint /\ [ck EXCEPT !.kind = k] \in Checkpoint
    BY <1>t DEF ck0, Checkpoint
  <1>2. [kind |-> "retry", gen |-> cur, origin |-> "automatic"] \in Checkpoint
    BY <1>t DEF Checkpoint, CkKind
  <1>3. CASE Decide \/ Preflight \/ Refuse \/ OverBudget \/ Save \/ Validate
    BY <1>t, <1>1, <1>2, <1>3 DEF Decide, Preflight, Refuse, OverBudget, Save, Validate, CkKind
  <1> QED BY <1>t, <1>3, CkMoves

LEMMA AttType == ASSUME Types, Next PROVE att' \in [Attempts -> Record]
  <1>t. att \in [Attempts -> Record] /\ A \in Record /\ cur \in Attempts
    BY DEF Types, A
  <1>1. ASSUME NEW r \in Record, Note(r) PROVE att' \in [Attempts -> Record]
    BY <1>1, <1>t DEF Note
  <1>2. \A e \in Evidence : Owned(A, e) \in Record /\ [A EXCEPT !.disposal = e] \in Record
    BY <1>t DEF Record, Owned
  <1>3. \A x \in Status : [A EXCEPT !.status = x] \in Record
    BY <1>t DEF Record
  <1>4. \A c \in Evidence, x \in Status, p \in BOOLEAN :
           /\ [A EXCEPT !.cleanup = c] \in Record
           /\ [A EXCEPT !.cleanup = c, !.policy = p, !.status = x] \in Record
           /\ [A EXCEPT !.cleanup = c, !.status = x] \in Record
           /\ [A EXCEPT !.status = x, !.policy = p] \in Record
           /\ [A EXCEPT !.status = x, !.answer = p] \in Record
           /\ [A EXCEPT !.status = x, !.named = p] \in Record
           /\ [A EXCEPT !.authorized = p] \in Record
    BY <1>t, ZenonT(40) DEF Record
  <1>5. Quiet(A) \in Record /\ A.status \in Status
    BY <1>t DEF Record, Quiet, Evidence
  <1>6. \A x \in Status, p \in BOOLEAN :
           /\ [Quiet(A) EXCEPT !.status = x] \in Record
           /\ [Quiet(A) EXCEPT !.status = x, !.policy = p] \in Record
           /\ [Quiet(A) EXCEPT !.status = x, !.named = p, !.answer = p] \in Record
    BY <1>5 DEF Record
  <1>7. /\ {"pending", "completed", "incomplete"} \subseteq Evidence /\ {TRUE, ReadOnly} \subseteq BOOLEAN
        /\ {"prepared", "configured", "thread_bound", "turn_intent", "turn_acknowledged", "turn_terminal",
            "response_received", "completed", "failed"} \subseteq Status
    BY Bounds DEF Evidence, Status
  <1>8. CASE Recover \/ Prepare \/ Boot \/ Incapable \/ Configure \/ Bind \/ Reserve \/ Intent \/ Ack
    BY <1>8, <1>t, <1>1, <1>2, <1>3, <1>4, <1>7 DEF Recover, Prepare, Boot, Incapable,
       Configure, Bind,
       Reserve, Intent, Ack
  <1>9. CASE TurnEvent \/ Answer \/ TurnFails \/ TransportLost \/ Classify
    BY <1>9, <1>t, <1>1, <1>3, <1>4, <1>7 DEF TurnEvent, Answer, TurnFails, TransportLost,
       Classify
  <1>10. CASE TearDown \/ TearDownUnverified \/ StopTurn \/ StopUnverified
    BY <1>10, <1>t, <1>1, <1>4, <1>5, <1>6, <1>7 DEF TearDown, TearDownUnverified, StopTurn,
       StopUnverified
  <1>11. CASE Dispose \/ Receipt \/ ReleaseFails
    BY <1>11, <1>t, <1>1, <1>2, <1>7 DEF Dispose, Receipt, ReleaseFails
  <1>12. CASE Read
    <2>1. /\ [A EXCEPT !.status = "completed", !.answer = TRUE] \in Record
          /\ \A c \in {"completed", "incomplete"} :
               /\ [A EXCEPT !.cleanup = c, !.policy = TRUE,
                     !.status = IF @ = "completed" THEN @ ELSE "failed"] \in Record
               /\ [A EXCEPT !.cleanup = c] \in Record
               /\ [A EXCEPT !.cleanup = c, !.status = "failed"] \in Record
      <3> DEFINE s == IF A.status = "completed" THEN A.status ELSE "failed"
      <3>1. s \in Status
        BY <1>5, <1>7
      <3>2. \A c \in Evidence : [A EXCEPT !.cleanup = c, !.policy = TRUE, !.status = s] \in Record
        BY <1>4, <3>1
      <3>3. \A c : [A EXCEPT !.cleanup = c, !.policy = TRUE,
                       !.status = IF @ = "completed" THEN @ ELSE "failed"]
                  = [A EXCEPT !.cleanup = c, !.policy = TRUE, !.status = s]
        OBVIOUS
      <3> QED BY <1>4, <1>7, <3>2, <3>3
    <2>2. att' = att \/ \E r \in Record : Note(r)
      BY <1>12, <2>1 DEF Read
    <2> QED BY <2>2, <1>1, <1>t
  <1> QED BY <1>t, <1>8, <1>9, <1>10, <1>11, <1>12, AttMoves DEF Noting

LEMMA OutsideType ==
    ASSUME Types, Next
    PROVE  /\ server' \subseteq Server /\ started' \in 0..MaxServer /\ proc' \in 0..MaxServer
           /\ turn' \in [Attempts -> {"none", "wire", "running", "completed", "stopped"}]
           /\ home' \in [Attempts -> 0..MaxServer] /\ foul' \in [Attempts -> BOOLEAN]
           /\ owner' \in {"none", "open", "closed"}
  <1>t. /\ server \subseteq Server /\ started \in 0..MaxServer /\ proc \in 0..MaxServer
        /\ turn \in [Attempts -> {"none", "wire", "running", "completed", "stopped"}]
        /\ home \in [Attempts -> 0..MaxServer] /\ foul \in [Attempts -> BOOLEAN]
        /\ owner \in {"none", "open", "closed"} /\ cur \in Attempts
    BY DEF Types
  <1>1. \A s : Exit(s) => /\ server' \subseteq Server
            /\ turn' \in [Attempts -> {"none", "wire", "running", "completed", "stopped"}]
    BY <1>t DEF Exit
  <1>2. StartServer => /\ server' \subseteq Server /\ started' \in 0..MaxServer
                       /\ proc' \in 0..MaxServer /\ owner' = "open"
    <2>1. started < MaxServer => started + 1 \in Server /\ started + 1 \in 0..MaxServer
      BY <1>t, Bounds DEF Server
    <2> QED BY <1>t, <2>1 DEF StartServer
  <1>3. CASE Relaunch \/ Launch
    BY <1>3, <1>2, <1>t DEF Relaunch, Launch
  <1>4. CASE \E b \in Attempts : Deliver(b) \/ TurnEnds(b) \/ Violate(b)
    BY <1>4, <1>t DEF Deliver, TurnEnds, Violate, adapter
  <1>5. CASE Read \/ Send
    BY <1>5, <1>t DEF Read, Send, adapter
  <1>6. CASE \/ TearDown \/ TearDownUnverified \/ StopTurn \/ StopUnverified \/ Release
             \/ ReleaseFails \/ Close \/ \E s \in Server : ServerDies(s)
    <2>1. /\ UNCHANGED <<started, home, foul>> /\ (UNCHANGED <<server, turn>> \/ \E s : Exit(s))
          /\ proc' \in {0, proc} /\ owner' \in {"none", "closed", owner}
      BY <1>6 DEF TearDown, TearDownUnverified, StopTurn, StopUnverified, Release,
         ReleaseFails, Close, ServerDies, MaybeGone, adapter
    <2> QED BY <2>1, <1>1, <1>t, Bounds
  <1>7. CASE UNCHANGED outside /\ proc' \in {0, proc} /\ owner' \in {"none", "open", owner}
    BY <1>7, <1>t, Bounds DEF outside
  <1>8. \/ UNCHANGED outside /\ proc' \in {0, proc} /\ owner' \in {"none", "open", owner}
        \/ Relaunch \/ Launch \/ Read \/ Send
        \/ (\E b \in Attempts : Deliver(b) \/ TurnEnds(b) \/ Violate(b))
        \/ TearDown \/ TearDownUnverified \/ StopTurn \/ StopUnverified \/ Release
             \/ ReleaseFails \/ Close \/ \E s \in Server : ServerDies(s)
    BY DEF Next, Enter, Work, World, Recovery, Dispatch, Waiting, Settling, Begin, Resume,
       Replay,
     Recover, ReadFails, Decide, Preflight, Prepare, Claim, Boot, Incapable,
     Refuse, Configure, Bind, NotDispatched, Reserve, Intent, Ack, NoAck,
     OverBudget, FoulEvent, TurnEvent, Answer, TurnFails, TransportLost, Stop,
     Classify, Save, Validate, Dispose, Receipt,
     Complete, Fail, Unbind, TurnErrors, Crash, adapter
  <1> QED BY <1>3, <1>4, <1>5, <1>6, <1>7, <1>8

LEMMA CallerType ==
    ASSUME Types, Next
    PROVE  /\ seen' \subseteq {"foul", "answer"} /\ caller' \in {caller, "execute"}
  <1>t. seen \subseteq {"foul", "answer"}
    BY DEF Types
  <1>5. seen' \subseteq {"foul", "answer"}
    <2>1. seen' \in {seen, {}, {"foul"}, seen \cup {"answer"}}
      BY DEF Next, Enter, Work, World, Recovery, Dispatch, Waiting, Settling, Begin, Resume,
         Replay, Recover, Relaunch, Read, ReadFails, Decide, Preflight, Prepare, Claim, Boot,
         Launch, Incapable, Refuse, Configure, Bind, NotDispatched, Reserve, Intent, Send,
         Ack, NoAck, TearDown, TearDownUnverified, OverBudget, FoulEvent, TurnEvent, Answer,
         TurnFails, TransportLost, Stop, StopTurn, StopUnverified, Classify, Save, Validate,
         Dispose, Release, Receipt, ReleaseFails, Complete, Fail, Unbind, Deliver, TurnEnds,
         Violate, TurnErrors, ServerDies, Crash, Close, Goto, Volatile, Off
    <2> QED BY <2>1, <1>t
  <1>7. caller' \in {caller, "execute"}
    BY DEF Next, Enter, Work, World, Recovery, Dispatch, Waiting, Settling, Begin,
       Resume, Replay, Recover, Relaunch, Read, ReadFails, Decide, Preflight, Prepare, Claim,
       Boot, Launch, Incapable, Refuse, Configure, Bind, NotDispatched, Reserve, Intent, Send,
       Ack, NoAck, TearDown, TearDownUnverified, OverBudget, FoulEvent, TurnEvent, Answer,
       TurnFails, TransportLost, Stop, StopTurn, StopUnverified, Classify, Save, Validate,
       Dispose, Release, Receipt, ReleaseFails, Complete, Fail, Unbind, Deliver, TurnEnds,
       Violate, TurnErrors, ServerDies, Crash, Close, Goto, Volatile, Off
  <1> QED BY <1>5, <1>7

LEMMA PlaceType ==
    ASSUME TypeOK, Next
    PROVE  /\ pc' \in Label /\ goal' \in Goal /\ outcome' \in Outcome \ {"native"}
           /\ allow' \in BOOLEAN /\ need' \in BOOLEAN /\ faults' \in 0..MaxFaults
  <1>t. /\ pc \in Label /\ goal \in Goal /\ outcome \in Outcome \ {"native"}
        /\ allow \in BOOLEAN /\ need \in BOOLEAN /\ faults \in 0..MaxFaults
    BY DEF TypeOK
  <1>1. pc' \in Label
    <2>1. pc' \in Label \cup {pc, AfterOwner, "receipt"}
      BY DEF Label, Next, Enter, Work, World, Recovery, Dispatch, Waiting, Settling, Begin,
         Resume, Replay, Recover, Relaunch, Read, ReadFails, Decide, Preflight, Prepare,
         Claim, Boot, Launch, Incapable, Refuse, Configure, Bind, NotDispatched, Reserve,
         Intent, Send, Ack, NoAck, TearDown, TearDownUnverified, OverBudget, FoulEvent,
         TurnEvent, Answer, TurnFails, TransportLost, Stop, StopTurn, StopUnverified,
         Classify, Save, Validate, Dispose, Release, Receipt, ReleaseFails, Complete, Fail,
         Unbind, Deliver, TurnEnds, Violate, TurnErrors, ServerDies, Crash, Close, Goto,
         Volatile, Off
    <2>2. AfterOwner \in Label /\ "receipt" \in Label
      BY DEF AfterOwner, Label
    <2> QED BY <2>1, <2>2, <1>t
  <1>2. goal' \in Goal
    <2>1. goal' = goal \/ goal' \in Goal
      BY DEF Goal, Next, Enter, Work, World, Recovery, Dispatch, Waiting, Settling, Begin,
         Resume, Replay, Recover, Relaunch, Read, ReadFails, Decide, Preflight, Prepare,
         Claim, Boot, Launch, Incapable, Refuse, Configure, Bind, NotDispatched, Reserve,
         Intent, Send, Ack, NoAck, TearDown, TearDownUnverified, OverBudget, FoulEvent,
         TurnEvent, Answer, TurnFails, TransportLost, Stop, StopTurn, StopUnverified,
         Classify, Save, Validate, Dispose, Release, Receipt, ReleaseFails, Complete, Fail,
         Unbind, Deliver, TurnEnds, Violate, TurnErrors, ServerDies, Crash, Close, Goto,
         Volatile, Off
    <2> QED BY <2>1, <1>t
  <1>3. outcome' \in Outcome \ {"native"}
    <2>1. FromLedger(A) \in Outcome
      BY DEF FromLedger, Outcome
    <2>2. outcome' = outcome \/ outcome' \in Outcome \ {"native"}
      BY <2>1 DEF Outcome, Next, Enter, Work, World, Recovery, Dispatch, Waiting, Settling,
         Begin, Resume, Replay, Recover, Relaunch, Read, ReadFails, Decide, Preflight,
         Prepare, Claim, Boot, Launch, Incapable, Refuse, Configure, Bind, NotDispatched,
         Reserve, Intent, Send, Ack, NoAck, TearDown, TearDownUnverified, OverBudget,
         FoulEvent, TurnEvent, Answer, TurnFails, TransportLost, Stop, StopTurn,
         StopUnverified, Classify, Save, Validate, Dispose, Release, Receipt, ReleaseFails,
         Complete, Fail, Unbind, Deliver, TurnEnds, Violate, TurnErrors, ServerDies, Crash,
         Close, Goto, Volatile, Off
    <2> QED BY <2>2, <1>t
  <1>4. allow' \in BOOLEAN
    <2>1. allow' \in {allow, RetrySafe, FALSE}
      BY DEF AllowedRetries, Next, Enter, Work, World, Recovery, Dispatch, Waiting, Settling,
         Begin, Resume, Replay, Recover, Relaunch, Read, ReadFails, Decide, Preflight,
         Prepare, Claim, Boot, Launch, Incapable, Refuse, Configure, Bind, NotDispatched,
         Reserve, Intent, Send, Ack, NoAck, TearDown, TearDownUnverified, OverBudget,
         FoulEvent, TurnEvent, Answer, TurnFails, TransportLost, Stop, StopTurn,
         StopUnverified, Classify, Save, Validate, Dispose, Release, Receipt, ReleaseFails,
         Complete, Fail, Unbind, Deliver, TurnEnds, Violate, TurnErrors, ServerDies, Crash,
         Close, Goto, Volatile, Off
    <2> QED BY <2>1, <1>t, Bounds
  <1>6. need' \in BOOLEAN
    <2>1. CASE Dispose
      BY <2>1, <1>t DEF Dispose
    <2>2. need' \in {need, FALSE} \/ Dispose
      BY DEF Next, Enter, Work, World, Recovery, Dispatch, Waiting, Settling, Begin, Resume,
         Replay, Recover, Relaunch, Read, ReadFails, Decide, Preflight, Prepare, Claim, Boot,
         Launch, Incapable, Refuse, Configure, Bind, NotDispatched, Reserve, Intent, Send,
         Ack, NoAck, TearDown, TearDownUnverified, OverBudget, FoulEvent, TurnEvent, Answer,
         TurnFails, TransportLost, Stop, StopTurn, StopUnverified, Classify, Save, Validate,
         Release, Receipt, ReleaseFails, Complete, Fail, Unbind, Deliver, TurnEnds, Violate,
         TurnErrors, ServerDies, Crash, Close, Goto, Volatile, Off
    <2> QED BY <2>1, <2>2, <1>t
  <1>8. faults' \in 0..MaxFaults
    <2>1. faults' = faults \/ (faults < MaxFaults /\ faults' = faults + 1)
      BY DEF Next, Enter, Work, World, Recovery, Dispatch, Waiting, Settling, Begin, Resume,
         Replay, Recover, Relaunch, Read, ReadFails, Decide, Preflight, Prepare, Claim, Boot,
         Launch, Incapable, Refuse, Configure, Bind, NotDispatched, Reserve, Intent, Send,
         Ack, NoAck, TearDown, TearDownUnverified, OverBudget, FoulEvent, TurnEvent, Answer,
         TurnFails, TransportLost, Stop, StopTurn, StopUnverified, Classify, Save, Validate,
         Dispose, Release, Receipt, ReleaseFails, Complete, Fail, Unbind, Deliver, TurnEnds,
         Violate, TurnErrors, ServerDies, Crash, Close, Goto, Volatile, Off
    <2> QED BY <2>1, <1>t, Bounds
  <1> QED BY <1>1, <1>2, <1>3, <1>4, <1>6, <1>8

LEMMA CurType == ASSUME Types, Checked, Next PROVE cur' \in Attempts /\ Tried \in Attempts
  <1>t. cur \in Attempts /\ cur \in Nat /\ ck \in Checkpoint /\ ck.gen \in Nat /\ MaxAttempt \in Nat
    BY Bounds DEF Types, Attempts, Checkpoint
  <1>1. Tried \in Attempts
    BY <1>t, Bounds DEF Tried, Checked, Attempts
  <1>2. cur' = cur \/ cur' \in {1, Tried} \/ (cur < MaxAttempt /\ cur' = cur + 1)
    BY DEF Next, Enter, Work, World, Recovery, Dispatch, Waiting, Settling, Begin, Resume,
       Replay, Recover, Relaunch, Read, ReadFails, Decide, Preflight, Prepare, Claim, Boot,
       Launch, Incapable, Refuse, Configure, Bind, NotDispatched, Reserve, Intent, Send, Ack,
       NoAck, TearDown, TearDownUnverified, OverBudget, FoulEvent, TurnEvent, Answer,
       TurnFails, TransportLost, Stop, StopTurn, StopUnverified, Classify, Save, Validate,
       Dispose, Release, Receipt, ReleaseFails, Complete, Fail, Unbind, Deliver, TurnEnds,
       Violate, TurnErrors, ServerDies, Crash, Close, Goto, Volatile, Off
  <1> QED BY <1>t, <1>1, <1>2, Bounds DEF Attempts

LEMMA TypesPart == ASSUME Types, Checked, Next PROVE Types'
  <1>1. op' \in {"absent", "open", "completed", "failed"}
    BY OpMoves DEF Types, Begin, Complete, Fail
  <1>2. held' \in 0..MaxAttempt
    BY HeldMoves, Bounds DEF Types, Attempts, Claim, Unbind
  <1> QED BY <1>1, <1>2, CkType, AttType, OutsideType, CallerType, CurType DEF Types

LEMMA TypePart == ASSUME TypeOK, Checked, Next PROVE TypeOK'
  <1>1. Types /\ caller = "execute"
    BY DEF TypeOK
  <1>2. Types' /\ caller' = "execute"
    BY <1>1, TypesPart, CallerType
  <1> QED BY <1>2, PlaceType DEF TypeOK
-----------------------------------------------------------------------------
(* Records and turns.                                                        *)
LEMMA OthersKeep ==
    ASSUME Types, Next, NEW a \in Attempts, a # cur
    PROVE  att'[a] = att[a]
  BY NotesOne DEF Types, Note

(* A record that is not written stays true, whatever happens to its turn.    *)
LEMMA TruthStays ==
    ASSUME Types, Next, NEW a \in Attempts, Truth(a), att'[a] = att[a], ~(Send /\ a = cur)
    PROVE  Truth(a)'
  <1>1. /\ turn[a] \in {"none", "wire", "running", "completed", "stopped"}
        /\ foul[a] \in BOOLEAN
    BY DEF Types
  <1>2. \/ turn'[a] = turn[a] /\ foul'[a] = foul[a]
        \/ Live(a) /\ turn'[a] \notin {"none", "wire"} /\ foul'[a] = foul[a]
        \/ turn[a] = "running" /\ turn'[a] = "running" /\ foul'[a]
    BY TurnMoves
  <1>3. Live(a)' => Live(a)
    BY <1>2 DEF Live
  <1> QED BY <1>1, <1>2, <1>3 DEF Truth, Clean, Live

(* What a step writes into the current attempt's record.                     *)
LEMMA TruthOfOne ==
    ASSUME Core, Next, NEW a \in Attempts, a = cur PROVE Truth(a)'
  <1>t. /\ att \in [Attempts -> Record] /\ cur \in Attempts /\ A \in Record /\ Types
        /\ turn[a] \in {"none", "wire", "running", "completed", "stopped"}
        /\ foul[a] \in BOOLEAN /\ A = att[a] /\ ReadOnly \in BOOLEAN
    BY Bounds DEF Core, Types, A
  <1>p. Truth(a) /\ Place /\ Turn
    BY <1>t DEF Core
  <1>k. \A r : Note(r) => att'[a] = r
    BY <1>t DEF Note
  <1>m. \/ Send
        \/ turn'[a] = turn[a] /\ foul'[a] = foul[a]
        \/ Live(a) /\ turn'[a] \notin {"none", "wire"} /\ foul'[a] = foul[a]
        \/ turn[a] = "running" /\ turn'[a] = "running" /\ foul'[a]
    BY <1>t, TurnMoves
  <1>l. Live(a)' => Live(a) \/ Send
    BY <1>m DEF Live
  <1>e. Exit(proc) /\ pc \in Sending => ~Live(a)'
    BY <1>t, <1>p DEF Exit, Live, Turn, Core, Types
  (* Steps that write neither the status nor what the status must agree with. *)
  <1>1. ASSUME NEW r, Note(r), ~Send, r.status = A.status, r.answer = A.answer,
               r.authorized = A.authorized, r.policy = A.policy
        PROVE  Truth(a)'
    BY <1>1, <1>k, <1>m, <1>l, <1>t, <1>p DEF Truth, Clean, Live
  <1>2. CASE Send
    <2>1. att'[a] = A
      BY <1>2, <1>t DEF Send, ledger
    <2>2. turn'[a] = "wire" /\ foul'[a] = foul[a]
      BY <1>2, <1>t DEF Send, Core, Types
    <2> QED BY <1>2, <2>1, <2>2, <1>t, <1>p DEF Truth, Clean, Live, Turn, Send, Unsent
  <1>3. CASE att' = att /\ ~Send
    <2>1. att'[a] = att[a]
      BY <1>3
    <2> QED BY <1>3, <2>1, <1>t, <1>p, TruthStays
  <1>f. /\ A \in Record /\ (A.status = "absent" => ~A.authorized /\ ~A.policy)
        /\ (turn[a] # "none" => A.authorized) /\ (A.answer => turn[a] = "completed")
        /\ (A.answer /\ ~foul[a] => A.status \in {"response_received", "completed"} /\ ~A.policy)
        /\ (A.policy => foul[a] \/ turn[a] = "none")
        /\ (A.status = "failed" => ~Live(a)) /\ (A.status = "completed" => A.answer)
    BY <1>t, <1>p DEF Truth, Clean
  (* Steps that change the status; those that change the answer or the policy. *)
  <1>g. ASSUME NEW r, Note(r), ~Send, r.status # "absent", r.answer = A.answer,
               r.authorized \in {A.authorized, TRUE}, r.policy = A.policy,
               r.status = "failed" => ~Live(a)', r.status = "completed" => r.answer,
               A.answer /\ ~foul[a] => r.status \in {"response_received", "completed"}
        PROVE  Truth(a)'
    BY <1>g, <1>k, <1>m, <1>f, <1>t DEF Truth, Clean, Live
  <1>h. ASSUME NEW r, Note(r), ~Send, r.status # "absent", r.authorized = A.authorized,
               r.status = "failed" => ~Live(a)', r.status = "completed" => r.answer,
               r.answer => turn'[a] = "completed", r.policy => foul'[a] \/ turn'[a] = "none",
               r.answer /\ ~foul'[a] => r.status \in {"response_received", "completed"} /\ ~r.policy
        PROVE  Truth(a)'
    BY <1>h, <1>k, <1>m, <1>f, <1>t DEF Truth, Clean, Live
  <1>4. CASE Recover \/ Boot
    <2>1. att' = att \/ Note([A EXCEPT !.disposal = "pending"])
      BY <1>4 DEF Recover, Boot
    <2>2. ~Send
      BY <1>4 DEF Recover, Boot, Send
    <2>3. CASE Note([A EXCEPT !.disposal = "pending"])
      BY <2>2, <2>3, <1>1, <1>f DEF Record
    <2> QED BY <2>1, <2>2, <2>3, <1>3
  <1>5. CASE TearDownUnverified \/ TransportLost \/ StopTurn \/ StopUnverified
    <2>1. att' = att \/ Note(Quiet(A)) \/ Note([A EXCEPT !.cleanup = "incomplete"])
      BY <1>5 DEF TearDownUnverified, TransportLost, StopTurn, StopUnverified
    <2>2. ~Send
      BY <1>5 DEF TearDownUnverified, TransportLost, StopTurn, StopUnverified, Send
    <2>3. CASE Note(Quiet(A)) \/ Note([A EXCEPT !.cleanup = "incomplete"])
      BY <2>2, <2>3, <1>1, <1>f DEF Record, Quiet
    <2> QED BY <2>1, <2>2, <2>3, <1>3
  <1>6. CASE Dispose \/ Receipt \/ ReleaseFails
    <2>1. att' = att \/ \E e \in {"pending", "completed", "incomplete"} : Note(Owned(A, e))
      BY <1>6 DEF Dispose, Receipt, ReleaseFails
    <2>2. ~Send
      BY <1>6 DEF Dispose, Receipt, ReleaseFails, Send
    <2>3. ASSUME NEW e \in {"pending", "completed", "incomplete"}, Note(Owned(A, e))
          PROVE  Truth(a)'
      BY <2>2, <2>3, <1>1, <1>f DEF Record, Owned
    <2> QED BY <2>1, <2>2, <2>3, <1>3
  <1>u. CASE Prepare \/ Configure \/ Bind \/ Intent \/ Reserve \/ Ack
    <2>1. ~Send /\ ~A.answer
      BY <1>u, <1>p, <1>f, <1>t DEF Prepare, Configure, Bind, Intent, Reserve, Ack, Turn,
         Unsent, Send
    <2>2. CASE \E x \in {"prepared", "configured", "thread_bound", "turn_intent"} :
                  Note([A EXCEPT !.status = x])
      BY <2>1, <2>2, <1>g, <1>f DEF Record
    <2>3. CASE Note([A EXCEPT !.status = "turn_acknowledged", !.named = TRUE])
      BY <2>1, <2>3, <1>g, <1>f DEF Record
    <2>4. CASE Reserve /\ Note([A EXCEPT !.authorized = TRUE])
      <3>1. A.status # "absent"
        BY <2>4, <1>p DEF Reserve, Place, Dispatching
      <3>2. ~Live(a)'
        BY <2>1, <2>4, <1>l, <1>p, <1>t DEF Reserve, Turn, Unsent, Live
      <3> QED BY <2>1, <2>4, <3>1, <3>2, <1>g, <1>f DEF Record
    <2> QED BY <1>u, <1>3, <2>1, <2>2, <2>3, <2>4 DEF Prepare, Configure, Bind, Intent,
       Reserve, Ack
  <1>8. CASE Incapable
    <2>1. ~Send /\ turn[a] = "none" /\ ~A.answer
      BY <1>8, <1>p, <1>f, <1>t DEF Incapable, Turn, Unsent, Send
    <2>2. turn'[a] = "none" /\ ~Live(a)'
      BY <2>1, <1>m DEF Live
    <2>3. Note([A EXCEPT !.status = "failed", !.policy = ReadOnly])
      BY <1>8 DEF Incapable
    <2> QED BY <2>1, <2>2, <2>3, <1>h, <1>f DEF Record
  <1>9. CASE TurnFails
    <2>1. ~Send /\ turn[a] = "stopped" /\ Note([A EXCEPT !.status = "turn_terminal"])
      BY <1>9, <1>t DEF TurnFails, Send
    <2> QED BY <2>1, <1>g, <1>f DEF Record
  <1>10. CASE Answer
    <2>1. ~Send /\ Note([A EXCEPT !.status = "completed"]) /\ A.answer
      BY <1>10, <1>p DEF Answer, Send, Turn
    <2> QED BY <2>1, <1>g, <1>f DEF Record
  <1>11. CASE TurnEvent
    <2>1. /\ ~Send /\ Note([A EXCEPT !.status = "response_received", !.answer = TRUE])
          /\ turn'[a] = "completed" /\ turn[a] = "completed" /\ foul'[a] = foul[a]
      BY <1>11, <1>t DEF TurnEvent, Send, outside
    <2> QED BY <2>1, <1>h, <1>f DEF Record
  <1>12. CASE Classify
    <2>1. /\ ~Send /\ Note([A EXCEPT !.status = "failed", !.policy = ReadOnly])
          /\ turn'[a] = turn[a] /\ foul'[a] = foul[a]
      BY <1>12, <1>t DEF Classify, Send, outside
    <2>2. foul[a] /\ ~Live(a) /\ ~Live(a)'
      BY <1>12, <1>p, <1>t, <2>1 DEF Classify, Turn, Live
    <2> QED BY <2>1, <2>2, <1>h, <1>f DEF Record
  <1>13. CASE TearDown
    <2>1. ~Send /\ ~A.answer /\ ~Live(a)' /\ foul'[a] = foul[a]
      BY <1>13, <1>e, <1>p, <1>t DEF TearDown, Send, Sending, Turn
    <2>2. turn[a] = "completed" => turn'[a] = "completed"
      BY <2>1, <1>m DEF Live
    <2>3. A.policy => foul'[a] \/ turn'[a] = "none"
      BY <2>1, <1>m, <1>f DEF Live
    <2>4. CASE turn[a] = "completed" /\ ~foul[a]
               /\ Note([Quiet(A) EXCEPT !.status = "response_received", !.named = TRUE, !.answer = TRUE])
      BY <2>1, <2>2, <2>4, <1>h, <1>f DEF Record, Quiet
    <2>5. CASE foul[a] /\ Note([Quiet(A) EXCEPT !.status = "failed", !.policy = TRUE])
      BY <2>1, <2>5, <1>h, <1>f DEF Record, Quiet
    <2>6. CASE Note([Quiet(A) EXCEPT !.status = "failed"])
      BY <2>1, <2>3, <2>6, <1>h, <1>f DEF Record, Quiet
    <2> QED BY <1>13, <1>t, <2>4, <2>5, <2>6 DEF TearDown
  <1>14. CASE Read
    <2>1. ~Send /\ foul'[a] = foul[a]
      BY <1>14 DEF Read, Send
    <2>2. CASE turn[a] = "completed" /\ ~foul[a] /\ turn' = turn
               /\ Note([A EXCEPT !.status = "completed", !.answer = TRUE])
      BY <2>1, <2>2, <1>h, <1>f DEF Record
    <2>3. CASE /\ turn[a] \in {"completed", "stopped"} /\ foul[a] /\ turn' = turn
               /\ \E c \in {"completed", "incomplete"} :
                    Note([A EXCEPT !.cleanup = c, !.policy = TRUE,
                       !.status = IF @ = "completed" THEN @ ELSE "failed"])
      BY <2>1, <2>3, <1>h, <1>f DEF Record, Live
    <2>4. CASE \E c \in {"completed", "incomplete"} : Note([A EXCEPT !.cleanup = c])
      BY <2>1, <2>4, <1>1, <1>f DEF Record
    <2>5. CASE /\ turn[a] = "stopped" /\ turn' = turn
               /\ \E c \in {"completed", "incomplete"} : Note([A EXCEPT !.cleanup = c, !.status = "failed"])
      BY <2>1, <2>5, <1>g, <1>f DEF Record, Live
    <2> QED BY <1>14, <2>1, <1>3, <1>t, <2>2, <2>3, <2>4, <2>5 DEF Read
  <1> QED BY <1>2, <1>3, <1>4, <1>5, <1>6, <1>u, <1>8, <1>9, <1>10, <1>11, <1>12, <1>13, <1>14,
      AttMoves DEF Noting, Send, ledger

LEMMA TruthPart == ASSUME Core, Next, NEW a \in Attempts PROVE Truth(a)'
  <1>1. Types /\ Truth(a)
    BY DEF Core
  <1>2. CASE a = cur
    BY <1>2, TruthOfOne
  <1>3. CASE a # cur
    BY <1>1, <1>3, OthersKeep, TruthStays
  <1> QED BY <1>2, <1>3
-----------------------------------------------------------------------------
(* A record is written for the attempt the checkpoint speaks about, or keeps  *)
(* what matters.                                                             *)
LEMMA NotesTried ==
    ASSUME Core, Next, NEW a \in Attempts, att'[a] # att[a]
    PROVE  /\ a = cur
           /\ \/ a = Tried /\ ck.kind # "empty"
              \/ att'[a].status = att[a].status /\ att'[a].answer = att[a].answer
  <1>t. /\ Types /\ Place /\ att \in [Attempts -> Record] /\ cur \in Attempts /\ A = att[cur]
        /\ Blank(cur) /\ ck.gen \in Nat /\ cur \in Nat
    BY Bounds DEF Core, Types, A, Checkpoint
  <1>1. a = cur /\ att' # att
    BY <1>t, OthersKeep
  <1>2. Noting
    BY <1>1, AttMoves
  <1>3. CASE Recover
    <2>1. Note([A EXCEPT !.disposal = "pending"])
      BY <1>3, <1>1 DEF Recover
    <2> QED BY <2>1, <1>1, <1>t DEF Note, Record
  <1>4. CASE Dispose \/ Receipt \/ ReleaseFails
    <2>1. \E e : Note(Owned(A, e))
      BY <1>1, <1>4 DEF Dispose, Receipt, ReleaseFails
    <2> QED BY <2>1, <1>1, <1>t DEF Note, Owned, Record
  <1>5. CASE ~Recover /\ ~Dispose /\ ~Receipt /\ ~ReleaseFails
    <2>1. pc \in Dispatching \cup {"read"}
      BY <1>2, <1>5 DEF Noting, Read, Prepare, Boot, Incapable, Configure, Bind, Reserve,
        Intent, Ack, TearDown, TearDownUnverified, TurnEvent, Answer, TurnFails, TransportLost,
        StopTurn, StopUnverified, Classify, Dispatching
    <2>2. CASE pc = "read"
      <3>1. cur = Tried /\ A.status # "absent"
        BY <2>2, <1>t DEF Place, Recovering
      <3> QED BY <3>1, <1>1, <1>t DEF Tried, Blank
    <2>3. CASE pc \in Dispatching
      BY <2>3, <1>1, <1>t DEF Place, Tried
    <2> QED BY <2>1, <2>2, <2>3
  <1> QED BY <1>3, <1>4, <1>5

(* What becomes of the checkpoint.                                           *)
LEMMA CkSteps ==
    ASSUME Core, Next, ck' # ck
    PROVE  /\ UNCHANGED <<op, att, held, turn, foul>>
           /\ \/ Decide /\ outcome = "completed" /\ ck' = ck0("responded", Tried - 1) /\ cur = Tried
              \/ /\ Decide /\ outcome = "stopped" /\ ck.kind = "intent" /\ allow /\ cur < MaxAttempt
                 /\ cur = ck.gen + 1
                 /\ ck' = [kind |-> "retry", gen |-> ck.gen + 1, origin |-> "automatic"]
              \/ /\ ck.kind \in {"empty", "retry", "intent"} /\ cur = ck.gen + 1
                 /\ \E kind \in {"intent", "refused", "overBudget", "responded"} :
                        /\ ck' = ck0(kind, ck.gen)
                        /\ kind = "intent" => Preflight
                        /\ kind = "responded" => Save
                        /\ kind \in {"refused", "overBudget"} => Preflight \/ Refuse \/ OverBudget
              \/ /\ Validate /\ ck.kind \in {"responded", "validated"}
                 /\ \E kind \in {"validated", "invalid"} : ck' = [ck EXCEPT !.kind = kind]
  <1>t. /\ Place /\ ck.gen \in Nat /\ cur \in Nat
    BY Bounds DEF Core, Types, Checkpoint
  <1>m. Decide \/ Preflight \/ Refuse \/ OverBudget \/ Save \/ Validate
    BY CkMoves
  <1>1. UNCHANGED <<op, att, held, turn, foul>>
    BY <1>m DEF Decide, Preflight, Refuse, OverBudget, Save, Validate, outside
  <1>2. CASE Decide
    <2>1. cur = Tried
      BY <1>2, <1>t DEF Decide, Place, Recovering
    <2>2. ck.kind = "intent" => cur = ck.gen + 1
      BY <2>1, <1>t DEF Tried
    <2>3. \/ outcome = "completed" /\ ck' = ck0("responded", cur - 1)
          \/ /\ outcome = "stopped" /\ ck.kind = "intent" /\ allow /\ cur < MaxAttempt
             /\ ck' = [kind |-> "retry", gen |-> cur, origin |-> "automatic"]
      BY <1>2 DEF Decide
    <2> QED BY <1>1, <1>2, <2>1, <2>2, <2>3
  <1>3. CASE Preflight
    <2>1. cur = ck.gen + 1 /\ cur - 1 = ck.gen /\ ck.kind \in {"empty", "retry"}
      BY <1>3, <1>t DEF Preflight, Place
    <2>2. \E kind \in {"intent", "refused", "overBudget"} : ck' = ck0(kind, ck.gen)
      BY <1>3, <2>1 DEF Preflight
    <2> QED BY <1>1, <1>3, <2>1, <2>2
  <1>4. CASE Refuse \/ OverBudget
    <2>1. cur = ck.gen + 1 /\ cur - 1 = ck.gen /\ ck.kind = "intent"
      BY <1>4, <1>t DEF Refuse, OverBudget, Place, Dispatching
    <2>2. \E kind \in {"refused", "overBudget"} : ck' = ck0(kind, ck.gen)
      BY <1>4, <2>1 DEF Refuse, OverBudget
    <2> QED BY <1>1, <1>4, <2>1, <2>2
  <1>5. CASE Save
    <2>1. cur = ck.gen + 1 /\ cur - 1 = ck.gen /\ ck.kind = "intent"
      BY <1>5, <1>t DEF Save, Place, Dispatching
    <2>2. ck' = ck0("responded", ck.gen)
      BY <1>5, <2>1 DEF Save
    <2> QED BY <1>1, <1>5, <2>1, <2>2
  <1>6. CASE Validate
    <2>1. ck.kind \in {"responded", "validated"}
      BY <1>6, <1>t DEF Validate, Place
    <2>2. \E kind \in {"validated", "invalid"} : ck' = [ck EXCEPT !.kind = kind]
      BY <1>6 DEF Validate
    <2> QED BY <1>1, <1>6, <2>1, <2>2
  <1> QED BY <1>m, <1>2, <1>3, <1>4, <1>5, <1>6

LEMMA BlankPart == ASSUME Core, Next, NEW a \in Attempts PROVE Blank(a)'
  <1>t. /\ ck.gen \in Nat /\ a \in Nat /\ Blank(a) /\ Checked /\ ck \in Checkpoint
    BY Bounds DEF Core, Types, Checkpoint
  <1>1. CASE ck' = ck
    <2>1. CASE att'[a] = att[a]
      BY <1>1, <2>1, <1>t DEF Blank
    <2>2. CASE att'[a] # att[a] /\ att'[a].status = att[a].status
      BY <1>1, <2>2, <1>t DEF Blank
    <2>3. CASE att'[a] # att[a] /\ a = Tried /\ ck.kind # "empty"
      BY <1>1, <2>3, <1>t DEF Blank, Tried
    <2> QED BY <2>1, <2>2, <2>3, NotesTried
  <1>2. CASE ck' # ck
    <2>1. att' = att
      BY <1>2, CkSteps
    <2>2. CASE ck' = ck0("responded", Tried - 1)
      BY <2>1, <2>2, <1>t DEF Blank, Tried, ck0, Checked
    <2>3. CASE /\ ck' = [kind |-> "retry", gen |-> ck.gen + 1, origin |-> "automatic"]
      BY <2>1, <2>3, <1>t DEF Blank
    <2>4. CASE \E kind \in {"intent", "refused", "overBudget", "responded"} : ck' = ck0(kind, ck.gen)
      BY <2>1, <2>4, <1>t DEF Blank, ck0
    <2>5. CASE \E kind \in {"validated", "invalid"} : ck' = [ck EXCEPT !.kind = kind]
      <3>1. ck'.gen = ck.gen /\ ck'.kind \in {"validated", "invalid"}
        BY <2>5, <1>t DEF Checkpoint
      <3> QED BY <2>1, <3>1, <1>t DEF Blank
    <2> QED BY <1>2, <2>2, <2>3, <2>4, <2>5, CkSteps
  <1> QED BY <1>1, <1>2

LEMMA CheckedPart == ASSUME Core, Next PROVE Checked'
  <1>t. /\ ck.gen \in Nat /\ Checked /\ ck \in Checkpoint /\ Types /\ MaxAttempt \in Nat
    BY Bounds DEF Core, Types, Checkpoint
  <1>a. op' = "absent" => pc' = "off" /\ ck' = ck /\ op = "absent"
    <2> SUFFICES ASSUME op' = "absent" PROVE pc' = "off" /\ ck' = ck /\ op = "absent"
      OBVIOUS
    <2>1. op = "absent" /\ pc = "off"
      BY OpMoves, <1>t DEF Begin, Complete, Fail, Checked
    <2>2. World
      BY <2>1 DEF Next, Enter, Work, Recovery, Dispatch, Waiting, Settling, Begin, Resume,
         Replay, Recover, Relaunch, Read, ReadFails, Decide, Preflight, Prepare, Claim, Boot,
         Launch, Incapable, Refuse, Configure, Bind, NotDispatched, Reserve, Intent, Send,
         Ack, NoAck, TearDown, TearDownUnverified, OverBudget, FoulEvent, TurnEvent, Answer,
         TurnFails, TransportLost, Stop, StopTurn, StopUnverified, Classify, Save, Validate,
         Dispose, Release, Receipt, ReleaseFails, Complete, Fail, Unbind
    <2> QED BY <2>1, <2>2 DEF World, Deliver, TurnEnds, Violate, ServerDies, TurnErrors, Crash,
        Close, Off, Volatile, ledger
  <1>1. CASE ck' = ck
    BY <1>1, <1>a, <1>t DEF Checked
  <1>2. CASE ck' # ck
    <2>2. CASE ck' = ck0("responded", Tried - 1)
      BY <1>a, <1>2, <2>2, <1>t DEF Checked, Tried, ck0
    <2>3. CASE cur < MaxAttempt /\ cur = ck.gen + 1
               /\ ck' = [kind |-> "retry", gen |-> ck.gen + 1, origin |-> "automatic"]
      BY <1>a, <1>2, <2>3, <1>t DEF Checked
    <2>4. CASE \E kind \in {"intent", "refused", "overBudget", "responded"} : ck' = ck0(kind, ck.gen)
      BY <1>a, <1>2, <2>4, <1>t DEF Checked, ck0
    <2>5. CASE \E kind \in {"validated", "invalid"} : ck' = [ck EXCEPT !.kind = kind]
      <3>1. ck'.gen = ck.gen /\ ck'.kind \in {"validated", "invalid"}
        BY <2>5, <1>t DEF Checkpoint
      <3> QED BY <1>a, <1>2, <3>1, <1>t DEF Checked
    <2> QED BY <1>2, <2>2, <2>3, <2>4, <2>5, CkSteps
  <1> QED BY <1>1, <1>2
-----------------------------------------------------------------------------
(* A record once written is never absent again.                              *)
LEMMA RecordStays ==
    ASSUME Core, Next, NEW a \in Attempts, att[a].status # "absent"
    PROVE  att'[a].status # "absent"
  <1>t. /\ Types /\ att \in [Attempts -> Record] /\ cur \in Attempts /\ A = att[cur]
        /\ A \in Record
    BY DEF Core, Types, A
  <1>k. ASSUME NEW r, Note(r), r.status # "absent" \/ r.status = A.status
        PROVE  att'[a].status # "absent"
    BY <1>k, <1>t DEF Note
  <1>1. CASE att' = att
    BY <1>1
  <1>2. CASE \/ \E e \in Evidence : Note([A EXCEPT !.disposal = e]) \/ Note([A EXCEPT !.cleanup = e])
             \/ \E e \in Evidence : Note(Owned(A, e))
             \/ Note(Quiet(A))
    BY <1>2, <1>k, <1>t DEF Owned, Quiet, Record
  <1>3. CASE \E x \in {"prepared", "configured", "thread_bound", "turn_intent", "turn_terminal",
                       "completed"} : Note([A EXCEPT !.status = x])
    BY <1>3, <1>k, <1>t DEF Record
  <1>4. CASE \/ Note([A EXCEPT !.status = "failed", !.policy = ReadOnly])
             \/ Note([A EXCEPT !.authorized = TRUE])
             \/ Note([A EXCEPT !.status = "turn_acknowledged", !.named = TRUE])
             \/ Note([A EXCEPT !.status = "response_received", !.answer = TRUE])
    BY <1>4, <1>k, <1>t DEF Record
  <1>5. CASE \/ Note([Quiet(A) EXCEPT !.status = "response_received",
                                   !.named = TRUE, !.answer = TRUE])
             \/ Note([Quiet(A) EXCEPT !.status = "failed", !.policy = TRUE])
             \/ Note([Quiet(A) EXCEPT !.status = "failed"])
    BY <1>5, <1>k, <1>t DEF Record, Quiet
  <1>6. CASE Read
    <2>1. CASE \E c \in Evidence : Note([A EXCEPT !.cleanup = c, !.policy = TRUE,
                    !.status = IF @ = "completed" THEN @ ELSE "failed"])
      BY <2>1, <1>k, <1>t DEF Record
    <2>2. CASE \/ Note([A EXCEPT !.status = "completed", !.answer = TRUE])
               \/ \E c \in Evidence : Note([A EXCEPT !.cleanup = c, !.status = "failed"])
      BY <2>2, <1>k, <1>t DEF Record
    <2> QED BY <1>6, <1>1, <1>2, <2>1, <2>2 DEF Read, Evidence
  <1>7. CASE Recover \/ Boot \/ TearDownUnverified \/ TransportLost \/ StopTurn \/ StopUnverified
             \/ Dispose \/ Receipt \/ ReleaseFails
    BY <1>7, <1>1, <1>2 DEF Recover, Boot, TearDownUnverified, TransportLost, StopTurn,
       StopUnverified, Dispose, Receipt, ReleaseFails, Evidence
  <1>8. CASE \/ Prepare \/ Incapable \/ Configure \/ Bind \/ Reserve
          \/ Intent \/ Ack \/ TurnEvent \/ Answer \/ TurnFails \/ Classify
    BY <1>8, <1>1, <1>3, <1>4 DEF Prepare, Incapable, Configure, Bind, Reserve,
       Intent, Ack, TurnEvent, Answer, TurnFails, Classify
  <1>9. CASE TearDown
    BY <1>9, <1>5 DEF TearDown
  <1> QED BY <1>1, <1>6, <1>7, <1>8, <1>9, AttMoves DEF Noting

-----------------------------------------------------------------------------
(* Where the executor is.                                                    *)
LEMMA QuietStays ==
    ASSUME Types, Next, NEW a \in Attempts, ~Live(a), ~(Send /\ a = cur) PROVE ~Live(a)'
  BY TurnMoves DEF Live

(* Nothing but the recovery is ever called by a resolution.                  *)
LEMMA CallerPart == ASSUME Core, Next PROVE pc' \in Label \ Recovering => caller' = "execute"
  <1>t. Types /\ (pc \in Label \ Recovering => caller = "execute")
    BY DEF Core, Place
  <1>1. CASE caller = "execute"
    BY <1>1, <1>t, CallerType
  <1>2. CASE caller # "execute"
    <2>1. pc \in Recovering \/ pc \notin Label
      BY <1>2, <1>t
    <2>2. pc' \in Recovering \/ pc' = pc \/ caller' = "execute"
      BY <2>1, <1>2 DEF Recovering, Label, Next, Enter, Work, World, Recovery, Dispatch, Waiting,
       Settling, Begin, Resume, Replay, Recover, Relaunch, Read, ReadFails, Decide, Preflight,
       Prepare, Claim, Boot, Launch, Incapable, Refuse, Configure, Bind, NotDispatched, Reserve,
       Intent, Send, Ack, NoAck, TearDown, TearDownUnverified, OverBudget, FoulEvent, TurnEvent,
       Answer, TurnFails, TransportLost, Stop, StopTurn, StopUnverified, Classify, Save, Validate,
       Dispose, Release, Receipt, ReleaseFails, Complete, Fail, Unbind, Deliver, TurnEnds,
       Violate, TurnErrors, ServerDies, Crash, Close, Goto, Volatile, Off
    <2> QED BY <2>1, <2>2
  <1> QED BY <1>1, <1>2

LEMMA PlacePart == ASSUME Core, Next PROVE Place'
  <1>t. /\ ck \in Checkpoint /\ ck.gen \in Nat /\ cur \in Attempts /\ cur \in Nat /\ Types
        /\ MaxAttempt \in Nat /\ Place /\ Checked /\ Turn /\ A = att[cur]
    BY Bounds DEF Core, Types, Checkpoint, A
  <1>c. pc' \in Label \ Recovering => caller' = "execute"
    BY CallerPart
  <1>r. A.status # "absent" => att'[cur].status # "absent"
    BY <1>t, RecordStays
  <1>o. pc' = "off" => Place'
    BY <1>c DEF Place, Dispatching, Recovering, Disposing
  (* A step that leaves the place, and one from the dispatch to the dispatch. *)
  <1>s. ASSUME UNCHANGED <<op, ck, pc, cur, goal>>, caller' \in {caller, "execute"},
               pc \in Recovering => caller' = caller
        PROVE  Place'
    <2>1. Tried' = Tried
      BY <1>s DEF Tried
    <2>2. A.status # "absent" => A'.status # "absent"
      BY <1>s, <1>r, <1>t DEF A
    <2> QED BY <1>s, <1>c, <1>t, <2>1, <2>2 DEF Place
  <1>d. ASSUME UNCHANGED <<op, ck, cur>>, pc \in Dispatching \ {"prepare"}, pc' \in Dispatching
        PROVE  Place'
    <2>1. A'.status # "absent"
      BY <1>d, <1>r, <1>t DEF A, Place
    <2> QED BY <1>d, <1>c, <1>t, <2>1 DEF Place, Dispatching, Recovering, Disposing
  <1>p. ASSUME pc \in Disposing, UNCHANGED <<op, ck, cur, goal>>,
               pc' \in Disposing \cup {AfterOwner}
        PROVE  Place'
    <2>1. Tried' = Tried
      BY <1>p DEF Tried
    <2>3. CASE pc' \in Disposing
      BY <1>p, <1>c, <1>t, <2>1, <2>3 DEF Place, Dispatching, Recovering, Disposing, Answered
    <2>4. CASE pc' = AfterOwner
      BY <1>p, <1>c, <1>t, <2>1, <2>4 DEF Place, Dispatching, Recovering, Disposing, Answered,
         AfterOwner, Tried
    <2> QED BY <1>p, <2>3, <2>4
  <1>f. ASSUME op' = "open", pc' = "fail" PROVE Place'
    BY <1>f, <1>c DEF Place, Dispatching, Recovering, Disposing
  <1>1. CASE Begin
    BY <1>1, <1>c, <1>t, Bounds DEF Begin, Place, Dispatching, Recovering, Disposing, Checked
  <1>2. CASE Resume
    <2>2. op' = "open" /\ ck' = ck /\ cur' = Tried
      BY <1>2 DEF Resume, ledger
    <2>3. \/ pc' = "fail"
          \/ ck.kind = "invalid" /\ pc' = "dispose" /\ goal' = "fail"
          \/ ck.kind = "empty" /\ pc' = "preflight"
          \/ ck.kind \in {"intent", "retry"} /\ pc' = "recover"
          \/ ck.kind \in {"responded", "validated"} /\ pc' = "validate"
      BY <1>2 DEF Resume
    <2>4. CASE pc' = "fail"
      BY <2>2, <2>4, <1>f
    <2>5. CASE pc' # "fail"
      BY <2>2, <2>3, <2>5, <1>c, <1>t DEF Place, Dispatching, Recovering, Disposing, Tried
    <2> QED BY <2>4, <2>5
  <1>3. CASE Replay
    <2>1. op' = op /\ ck' = ck /\ cur' = Tried /\ op \in {"completed", "failed"} /\ pc = "off"
      BY <1>3, <1>t DEF Replay, ledger
    <2>2. goal = "none"
      BY <2>1, <1>t DEF Place, Turn, Early, Label, Recovering
    <2>3. \/ op = "completed" /\ pc' = "unbind" /\ goal' = goal
          \/ op = "failed" /\ ck.kind \in Answered \cup {"refused"} /\ pc' = "dispose" /\ goal' = "unbind"
      BY <1>3 DEF Replay
    <2> QED BY <2>1, <2>2, <2>3, <1>c, <1>t DEF Place, Dispatching, Recovering, Disposing, Tried,
       Answered
  <1>4. CASE Recover \/ Relaunch \/ Read \/ ReadFails
    <2>1. UNCHANGED <<op, ck, cur, caller>>
      BY <1>4 DEF Recover, Relaunch, Read, ReadFails, Volatile, ledger
    <2>2. pc \in Recovering /\ pc' \in Recovering
      BY <1>4 DEF Recover, Relaunch, Read, ReadFails, Recovering
    <2>3. pc' \in {"relaunch", "read"} => A.status # "absent"
      <3>1. A.status = "absent" => FromLedger(A) = "stopped"
        BY <1>t DEF FromLedger, Core, Truth
      <3>2. CASE Recover
        BY <3>1, <3>2 DEF Recover
      <3>3. CASE ~Recover
        BY <1>4, <3>3, <1>t DEF Relaunch, Read, ReadFails, Place
      <3> QED BY <3>2, <3>3
    <2>4. pc' \in {"relaunch", "read"} => A'.status # "absent"
      BY <2>1, <2>3, <1>r, <1>t DEF A
    <2> QED BY <2>1, <2>2, <2>4, <1>t DEF Place, Dispatching, Recovering, Disposing, Tried
  <1>5. CASE Decide
    <2>t. /\ op' = op /\ op = "open" /\ cur = Tried /\ ck.kind \in {"intent", "retry"}
          /\ caller = "execute"
      BY <1>5, <1>t DEF Decide, Place, Recovering
    <2>k. caller' = "execute"
      BY <2>t, <1>t, CallerType
    <2>1. CASE outcome = "completed" /\ ck' = ck0("responded", cur - 1) /\ pc' = "validate" /\ cur' = cur
      BY <2>1, <2>t, <1>c, <1>t DEF Place, Dispatching, Recovering, Disposing, ck0
    <2>2. CASE /\ ck' = [kind |-> "retry", gen |-> cur, origin |-> "automatic"]
               /\ pc' = pc /\ cur' = cur
      BY <1>5, <2>2, <2>t, <2>k, <1>t DEF Decide, Place, Dispatching, Recovering, Disposing, Tried
    <2>3. CASE ck.kind = "retry" /\ cur' = cur + 1 /\ pc' = "preflight" /\ ck' = ck
      BY <2>3, <2>t, <1>c, <1>t DEF Place, Dispatching, Recovering, Disposing, Tried
    <2>4. CASE outcome = "policy" /\ A.status = "failed" /\ pc' = "dispose" /\ goal' = "policy"
               /\ ck' = ck /\ cur' = cur
      BY <2>4, <2>t, <1>c DEF Place, Dispatching, Recovering, Disposing, Tried
    <2>5. \/ outcome = "completed" /\ ck' = ck0("responded", cur - 1) /\ pc' = "validate" /\ cur' = cur
          \/ ck' = [kind |-> "retry", gen |-> cur, origin |-> "automatic"] /\ pc' = pc /\ cur' = cur
          \/ ck.kind = "retry" /\ cur' = cur + 1 /\ pc' = "preflight" /\ ck' = ck
          \/ outcome = "policy" /\ A.status = "failed" /\ pc' = "dispose" /\ goal' = "policy"
             /\ ck' = ck /\ cur' = cur
          \/ pc' = "off"
      BY <1>5 DEF Decide, Volatile, Off
    <2> QED BY <2>1, <2>2, <2>3, <2>4, <2>5, <1>o
  <1>6. CASE Preflight
    <2>1. cur = ck.gen + 1 /\ ck.kind \in {"empty", "retry"} /\ op = "open" /\ op' = op
      BY <1>6, <1>t DEF Preflight, Place
    <2>2. \/ pc' \in {"off", "fail"}
          \/ ck' = ck0("intent", cur - 1) /\ pc' = "prepare" /\ cur' = cur
      BY <1>6 DEF Preflight, Goto, Off, Volatile
    <2>3. CASE ck' = ck0("intent", cur - 1) /\ pc' = "prepare" /\ cur' = cur
      BY <2>1, <2>3, <1>c, <1>t DEF Place, Dispatching, Recovering, Disposing, ck0
    <2> QED BY <2>1, <2>2, <2>3, <1>o, <1>f
  <1>7. CASE Prepare
    <2>1. att'[cur].status = "prepared"
      BY <1>7, <1>t DEF Prepare, Note, Types, A, Record
    <2> QED BY <1>7, <2>1, <1>c, <1>t DEF Prepare, Goto, Volatile, A, Place, Dispatching,
       Recovering, Disposing
  <1>8. CASE \/ Claim \/ Boot \/ Launch \/ Incapable \/ Configure \/ Bind \/ Reserve \/ Intent
             \/ Send \/ Ack \/ NoAck \/ TearDown \/ TearDownUnverified \/ Answer \/ Stop
             \/ StopTurn \/ StopUnverified
    <2>1. pc \in Dispatching \ {"prepare"}
      BY <1>8 DEF Claim, Boot, Launch, Incapable, Configure, Bind, Reserve, Intent, Send, Ack,
         NoAck, TearDown, TearDownUnverified, Answer, Stop, StopTurn, StopUnverified, Dispatching
    <2>2. pc' = "off" \/ (pc' \in Dispatching /\ UNCHANGED <<op, ck, cur>>)
      BY <1>8 DEF Claim, Boot, Launch, Incapable, Configure, Bind, Reserve, Intent, Send, Ack,
         NoAck, TearDown, TearDownUnverified, Answer, Stop, StopTurn, StopUnverified, Dispatching,
         Goto, Volatile, Off, ledger
    <2> QED BY <2>1, <2>2, <1>o, <1>d
  <1>9. CASE Refuse
    <2>1. op' = "open" /\ pc' = "fail"
      BY <1>9, <1>t DEF Refuse, Place, Dispatching, Goto
    <2> QED BY <2>1, <1>f
  <1>10. CASE Classify
    <2>1. /\ pc' = "dispose" /\ goal' = "policy" /\ UNCHANGED <<op, ck, cur>>
          /\ op = "open" /\ ck.kind = "intent" /\ cur = ck.gen + 1
      BY <1>10, <1>t DEF Classify, Place, Dispatching
    <2> QED BY <2>1, <1>c DEF Place, Dispatching, Recovering, Disposing, Tried
  <1>11. CASE Save
    BY <1>11, <1>c, <1>t DEF Save, Goto, Volatile, ck0, Place, Dispatching, Recovering, Disposing
  <1>12. CASE Validate
    <2>1. op' = op /\ op = "open" /\ cur = ck.gen + 1
      BY <1>12, <1>t DEF Validate, Place
    <2>2. \/ pc' = "off"
          \/ ck' = [ck EXCEPT !.kind = "validated"] /\ pc' = "validate" /\ cur' = cur
          \/ ck.kind = "validated" /\ ck' = ck /\ pc' = "dispose" /\ goal' = "complete" /\ cur' = cur
          \/ ck' = [ck EXCEPT !.kind = "invalid"] /\ pc' = "dispose" /\ goal' = "fail" /\ cur' = cur
      BY <1>12 DEF Validate, Volatile, Off
    <2> QED BY <2>1, <2>2, <1>c, <1>t DEF Place, Dispatching, Recovering, Disposing, Checkpoint, Tried
  <1>13. CASE Dispose \/ Release \/ Receipt \/ ReleaseFails
    <2>1. pc \in Disposing
      BY <1>13 DEF Dispose, Release, Receipt, ReleaseFails, Disposing
    <2>2. pc' = "off" \/ (pc' \in Disposing \cup {AfterOwner} /\ UNCHANGED <<op, ck, cur, goal>>)
      BY <1>13 DEF Dispose, Release, Receipt, ReleaseFails, Disposing, Goto, Volatile, Off,
         ledger
    <2> QED BY <2>1, <2>2, <1>o, <1>p
  <1>14. CASE Complete
    BY <1>14, <1>c, <1>t DEF Complete, Goto, Volatile, Place, Dispatching, Recovering, Disposing, Tried
  <1>15. CASE Fail
    BY <1>15, <1>c, <1>t DEF Fail, Off, Tried, Place, Dispatching, Recovering, Disposing, Answered
  <1>16. CASE Unbind
    <2>1. pc' = "off" \/ (goal = "policy" /\ pc' = "fail")
      BY <1>16 DEF Unbind, Off
    <2>2. CASE goal = "policy" /\ pc' = "fail"
      <3>1. op' = "open"
        BY <1>16, <2>2, <1>t DEF Unbind, Place
      <3> QED BY <2>2, <3>1, <1>f
    <2> QED BY <2>1, <2>2, <1>o
  <1>17. CASE NotDispatched \/ OverBudget \/ TurnFails \/ TransportLost \/ TurnErrors \/ Crash
    BY <1>17, <1>o DEF NotDispatched, OverBudget, TurnFails, TransportLost, TurnErrors, Crash,
       Off
  <1>18. CASE \/ FoulEvent \/ TurnEvent \/ Close \/ (\E s \in Server : ServerDies(s))
              \/ \E b \in Attempts : Deliver(b) \/ TurnEnds(b) \/ Violate(b)
    <2>1. UNCHANGED <<op, ck, pc, cur, goal>>
      BY <1>18 DEF FoulEvent, TurnEvent, Close, ServerDies, Deliver, TurnEnds, Violate,
         ledger, Volatile
    <2>2. caller' = caller
      BY <1>18 DEF FoulEvent, TurnEvent, Close, ServerDies, Deliver, TurnEnds, Violate, Volatile
    <2> QED BY <2>1, <2>2, <1>s
  <1> QED BY <1>1, <1>2, <1>3, <1>4, <1>5, <1>6, <1>7, <1>8, <1>9, <1>10, <1>11, <1>12, <1>13,
     <1>14,
      <1>15, <1>16, <1>17, <1>18 DEF Next, Enter, Work, World, Recovery, Dispatch, Waiting, Settling
-----------------------------------------------------------------------------
(* What the executor knows of the turn where it is.                          *)
LEMMA TurnPart == ASSUME Core, Next PROVE Turn'
  <1>t. /\ cur \in Attempts /\ Types /\ Place /\ Checked /\ Turn /\ A = att[cur] /\ A \in Record
        /\ turn[cur] \in {"none", "wire", "running", "completed", "stopped"} /\ foul[cur] \in BOOLEAN
        /\ att \in [Attempts -> Record] /\ home \in [Attempts -> 0..MaxServer]
        /\ turn \in [Attempts -> {"none", "wire", "running", "completed", "stopped"}]
        /\ ck \in Checkpoint /\ Truth(cur)
    BY DEF Core, Types, A
  <1>z. /\ pc \in Early \ Recovering => goal = "none" /\ seen = {}
        /\ pc \in Recovering /\ caller = "execute" => goal = "none" /\ seen = {}
    BY <1>t DEF Place, Turn, Early, Label, Recovering, Unsent
  <1>k. \A r : Note(r) => att'[cur] = r
    BY <1>t DEF Note
  <1>m. \/ Send
        \/ turn'[cur] = turn[cur] /\ foul'[cur] = foul[cur]
        \/ Live(cur) /\ turn'[cur] \notin {"none", "wire"} /\ foul'[cur] = foul[cur]
        \/ turn[cur] = "running" /\ turn'[cur] = "running" /\ foul'[cur]
    BY <1>t, TurnMoves
  <1>f. ~Send => /\ turn[cur] = "none" <=> turn'[cur] = "none"
                 /\ foul[cur] => foul'[cur]
                 /\ home' = home
                 /\ turn[cur] \notin {"wire", "running"} => turn'[cur] \notin {"wire", "running"}
    BY <1>m, <1>t, TurnMoves DEF Live
  <1>e. Exit(proc) /\ pc \in Sending => turn'[cur] \notin {"wire", "running"}
    BY <1>t DEF Exit, Turn
  <1>a. turn[cur] = "none" => ~A.answer
    BY <1>t DEF Truth
  <1>o. Off => Turn'
    BY DEF Off, Turn, Unsent, Sending
  (* Places of which nothing is claimed, and those before a turn is sent.     *)
  <1>x. pc' \in Disposing \cup {"validate", "complete", "fail", "unbind"} => Turn'
    BY DEF Turn, Unsent, Sending, Disposing, Early, Recovering
  <1>y. ASSUME pc' \in {"preflight", "recover", "relaunch", "read", "decide"},
               caller' = "execute" => goal' = "none" /\ seen' = {}
        PROVE  Turn'
    BY <1>y DEF Turn, Unsent, Sending
  <1>u. ASSUME cur' = cur, goal' = "none", seen' = {}, ~Send, turn[cur] = "none", ~att'[cur].policy,
               pc' \in Unsent \ {"refuse", "overBudget"},
               pc' \in {"boot", "launch", "configure", "bind", "reserve", "intent", "send"} => held' = cur,
               pc' \in {"intent", "send"} => att'[cur].authorized,
               pc' = "send" => att'[cur].status = "turn_intent"
        PROVE  Turn'
    BY <1>u, <1>f DEF Turn, Unsent, Sending, A
  <1>v. ASSUME cur' = cur, goal' = goal, seen' = seen, ~Send, att'[cur].policy = A.policy,
               pc \in Unsent \ {"refuse", "overBudget"}, pc' \in Unsent \ {"refuse", "overBudget"},
               pc' \in {"boot", "launch", "configure", "bind", "reserve", "intent", "send"} => held' = cur,
               pc' \in {"intent", "send"} => att'[cur].authorized,
               pc' = "send" => att'[cur].status = "turn_intent"
        PROVE  Turn'
    <2>1. goal = "none" /\ seen = {} /\ turn[cur] = "none" /\ ~A.policy
      BY <1>v, <1>t, <1>z DEF Turn, Early, Recovering, Unsent
    <2> QED BY <1>v, <2>1, <1>u
  <1>s. ASSUME ~Send, UNCHANGED <<ck, att, held, pc, cur, goal, outcome, seen, caller>>,
               pc \in Sending => proc' = proc
        PROVE  Turn'
    <2>1. A' = A
      BY <1>s DEF A
    <2>3. ~Live(cur) => ~Live(cur)'
      BY <1>s, <1>f DEF Live
    <2> QED BY <1>s, <1>f, <2>1, <2>3, <1>t DEF Turn
  <1>1. CASE Begin
    BY <1>1, <1>y, <1>z, <1>t DEF Begin, Early, Recovering
  <1>2. CASE Resume
    <2>1. /\ pc' \in Disposing \cup {"preflight", "recover", "validate", "fail"} /\ seen' = {}
          /\ pc' \notin Disposing => goal' = "none"
      BY <1>2, <1>z, <1>t DEF Resume, Early, Recovering, Disposing
    <2> QED BY <2>1, <1>x, <1>y
  <1>3. CASE Replay
    BY <1>3, <1>x DEF Replay, Disposing
  <1>4. CASE Recover \/ Relaunch \/ Read \/ ReadFails
    <2>1. /\ pc \in Recovering /\ UNCHANGED <<goal, seen, caller>>
          /\ pc' \in {"relaunch", "read", "decide"}
      BY <1>4 DEF Recover, Relaunch, Read, ReadFails, Recovering, Volatile
    <2> QED BY <2>1, <1>y, <1>z
  <1>7. CASE Decide
    <2>1. goal = "none" /\ seen = {} /\ pc = "decide"
      BY <1>7, <1>z DEF Decide, Recovering
    <2>2. CASE UNCHANGED <<pc, Volatile>>
      BY <2>1, <2>2, <1>y DEF Volatile
    <2>3. CASE pc' = "preflight" /\ UNCHANGED <<goal, seen>>
      BY <2>1, <2>3, <1>y
    <2> QED BY <1>7, <2>2, <2>3, <1>o, <1>x DEF Decide, Disposing
  <1>8. CASE Preflight
    <2>1. CASE pc' = "prepare" /\ UNCHANGED Volatile
      <3>1. A.status = "absent"
        BY <1>8, <1>t DEF Preflight, Place, Core, Blank
      <3>2. turn[cur] = "none" /\ ~A.policy /\ att' = att /\ goal = "none" /\ seen = {} /\ ~Send
        BY <1>8, <3>1, <1>t, <1>z DEF Preflight, Truth, Early, Recovering, Send
      <3> QED BY <2>1, <3>2, <1>u, <1>t DEF Volatile, Unsent
    <2> QED BY <1>8, <2>1, <1>o, <1>x DEF Preflight, Goto
  <1>9. CASE Prepare \/ Claim \/ Boot \/ Launch \/ Configure \/ Bind \/ Intent
    <2>1. /\ pc \in {"prepare", "claim", "boot", "launch", "configure", "bind", "intent"}
          /\ pc' \in {"claim", "boot", "launch", "configure", "bind", "reserve", "send"}
          /\ UNCHANGED Volatile
          /\ pc \notin {"prepare", "claim"} => held' = held
          /\ pc = "prepare" => pc' = "claim"
          /\ pc = "claim" => held' = cur
          /\ pc' = "send" => pc = "intent" /\ Intent
      BY <1>9 DEF Prepare, Claim, Boot, Launch, Configure, Bind, Intent, Goto, ledger
    <2>2. ~Send
      BY <1>9 DEF Prepare, Claim, Boot, Launch, Configure, Bind, Intent, Send
    <2>3. \/ att' = att \/ Note([A EXCEPT !.disposal = "pending"])
          \/ \E x \in {"prepared", "configured", "thread_bound", "turn_intent"} :
               Note([A EXCEPT !.status = x])
      BY <1>9 DEF Prepare, Claim, Boot, Launch, Configure, Bind, Intent, ledger
    <2>4. att'[cur].policy = A.policy /\ att'[cur].authorized = A.authorized
      BY <2>3, <1>k, <1>t DEF Record
    <2>5. Intent => att'[cur].status = "turn_intent"
      BY <1>k, <1>t DEF Intent, Record
    <2>6. pc' \in {"boot", "launch", "configure", "bind", "reserve", "send"} => held' = cur
      BY <2>1, <1>t DEF Turn
    <2>7. pc' = "send" => A.authorized
      BY <2>1, <1>t DEF Turn
    <2>8. pc \in Unsent \ {"refuse", "overBudget"} /\ pc' \in Unsent \ {"refuse", "overBudget"}
      BY <2>1 DEF Unsent
    <2>9. UNCHANGED <<cur, goal, seen>> /\ pc' # "intent"
      BY <2>1 DEF Volatile
    <2> QED BY <2>1, <2>2, <2>4, <2>5, <2>6, <2>7, <2>8, <2>9, <1>v
  <1>10. CASE Reserve
    <2>1. turn[cur] = "none" /\ ~A.policy /\ held = cur /\ goal = "none" /\ seen = {} /\ held' = held /\ ~Send
      BY <1>10, <1>t, <1>z DEF Reserve, Turn, Unsent, Early, Recovering, Send
    <2>2. CASE Note([A EXCEPT !.authorized = TRUE]) /\ Goto("intent")
      <3>1. att'[cur].authorized /\ att'[cur].policy = A.policy
        BY <2>2, <1>k, <1>t DEF Record
      <3> QED BY <2>1, <2>2, <3>1, <1>u DEF Goto, Volatile, Unsent
    <2>3. CASE pc' = "teardown" /\ goal' = "budget" /\ UNCHANGED <<att, cur>>
      BY <2>1, <2>3, <1>f, <1>a, <1>t DEF Turn, Unsent, Sending, Early, Recovering, A
    <2> QED BY <1>10, <2>2, <2>3 DEF Reserve
  <1>11. CASE Incapable
    <2>1. turn[cur] = "none" /\ goal = "none" /\ seen = {} /\ ~Send
      BY <1>11, <1>t, <1>z DEF Incapable, Turn, Unsent, Early, Recovering, Send
    <2> QED BY <1>11, <2>1, <1>f DEF Incapable, Goto, Volatile, Turn, Unsent, Sending
  <1>12. CASE Send
    <2>1. turn[cur] = "none" /\ goal = "none" /\ seen = {} /\ ~A.answer
      BY <1>12, <1>t, <1>a, <1>z DEF Send, Turn, Unsent, Early, Recovering
    <2>2. turn'[cur] = "wire" /\ home'[cur] = proc /\ A' = A /\ proc' = proc
      BY <1>12, <1>t DEF Send, Goto, Volatile, A, ledger, adapter
    <2> QED BY <1>12, <2>1, <2>2 DEF Send, Goto, Volatile, Turn, Unsent, Sending
  <1>13. CASE Ack
    <2>1. turn[cur] # "none" /\ home[cur] = proc /\ seen = {} /\ ~Send /\ proc' = proc /\ goal = "none"
      BY <1>13, <1>t, <1>z DEF Ack, Turn, Early, Recovering, Sending, Send, adapter
    <2> QED BY <1>13, <2>1, <1>f DEF Ack, Goto, Volatile, Turn, Unsent, Sending, Early,
       Recovering
  <1>14. CASE NoAck
    <2>1. ~A.answer /\ ~Send /\ proc' = proc /\ goal = "none" /\ att' = att
      BY <1>14, <1>t, <1>a, <1>z DEF NoAck, Turn, Unsent, Early, Recovering, Send, adapter, ledger, Goto
    <2>2. turn[cur] # "none" => home[cur] = proc
      BY <1>14, <1>t DEF NoAck, Turn, Unsent, Sending
    <2> QED BY <1>14, <2>1, <2>2, <1>f DEF NoAck, Goto, Volatile, Turn, Unsent, Sending,
       Early, Recovering, A
  <1>15. CASE TearDown \/ TearDownUnverified
    <2>1. (~Send /\ cur' = cur) \/ Off
      BY <1>15 DEF TearDown, TearDownUnverified, Send, Goto, Volatile
    <2>2. CASE pc' = "overBudget" /\ goal = "budget" /\ cur' = cur /\ ~Send
      <3>1. turn'[cur] = "none"
        BY <1>15, <2>2, <1>f, <1>t DEF TearDown, TearDownUnverified, Turn
      <3> QED BY <2>2, <3>1 DEF Turn, Unsent, Sending, Early, Recovering
    <2>3. CASE pc' = "answer" /\ TearDown /\ cur' = cur
      <3>1. Note([Quiet(A) EXCEPT !.status = "response_received", !.named = TRUE, !.answer = TRUE])
        BY <2>3 DEF TearDown, Goto, Off
      <3>2. att'[cur].answer
        BY <3>1, <1>k, <1>t DEF Quiet, Record
      <3> QED BY <2>3, <3>2 DEF Turn, Unsent, Sending, Early, Recovering, A
    <2>4. CASE pc' = "classify" /\ TearDown /\ cur' = cur
      <3>1. foul[cur] /\ turn'[cur] \notin {"wire", "running"} /\ ~Send
        BY <2>4, <1>e DEF TearDown, Goto, Off, Sending, Send
      <3> QED BY <2>4, <3>1, <1>f DEF Turn, Unsent, Sending, Early, Recovering, Live
    <2> QED BY <1>15, <2>1, <2>2, <2>3, <2>4, <1>o DEF TearDown, TearDownUnverified, Goto, Off
  <1>16. CASE FoulEvent \/ TurnEvent
    <2>1. /\ ~Send /\ UNCHANGED <<pc, cur, goal, proc>> /\ pc \in {"wait", "stop"}
          /\ turn[cur] # "none" /\ home[cur] = proc
      BY <1>16, <1>t DEF FoulEvent, TurnEvent, Send, adapter, Turn, Sending
    <2>2. "foul" \in seen' => foul[cur]
      BY <1>16, <1>t DEF FoulEvent, TurnEvent, Turn
    <2>3. "answer" \in seen' => att'[cur].answer
      BY <1>16, <1>t, <1>k DEF FoulEvent, TurnEvent, Turn, Record
    <2>4. pc = "stop" /\ goal = "policy" => foul[cur]
      BY <1>t DEF Turn
    <2> QED BY <2>1, <2>2, <2>3, <2>4, <1>f DEF Turn, Unsent, Sending, Early, Recovering, A
  <1>17. CASE Answer
    <2>1. A.answer
      BY <1>17, <1>t DEF Answer, Turn
    <2>2. att'[cur].answer
      BY <1>17, <2>1, <1>k, <1>t DEF Answer, Record
    <2> QED BY <1>17, <2>2 DEF Answer, Goto, Volatile, Turn, Unsent, Sending, Early,
       Recovering, A
  <1>18. CASE Stop
    <2>1. /\ ~Send /\ UNCHANGED <<cur, seen, att, proc>> /\ pc' = "stop" /\ pc = "wait"
          /\ turn[cur] # "none" /\ home[cur] = proc
      BY <1>18, <1>t DEF Stop, Send, adapter, ledger, Turn, Sending
    <2>2. goal' = "policy" => foul[cur]
      BY <1>18, <1>t DEF Stop, Turn
    <2> QED BY <2>1, <2>2, <1>f, <1>t DEF Turn, Unsent, Sending, Early, Recovering, A
  <1>19. CASE StopTurn
    <2>1. CASE goal = "policy" /\ Goto("classify")
      <3>1. foul[cur] /\ turn'[cur] \notin {"wire", "running"} /\ ~Send
        BY <1>19, <2>1, <1>e, <1>t DEF StopTurn, Turn, Sending, Send
      <3> QED BY <2>1, <3>1, <1>f DEF Goto, Volatile, Turn, Unsent, Sending, Early,
         Recovering, Live
    <2> QED BY <1>19, <2>1, <1>o DEF StopTurn
  <1>20. CASE Refuse \/ Classify \/ Save \/ Validate \/ Dispose \/ Release \/ Receipt \/ Complete \/ Fail
              \/ ReleaseFails \/ Unbind
    <2>1. Off \/ pc' \in Disposing \cup {"validate", "complete", "fail", "unbind"}
      BY <1>20 DEF Refuse, Classify, Save, Validate, Dispose, Release, Receipt, Complete, Fail,
         ReleaseFails, Unbind, Goto, AfterOwner, Disposing
    <2> QED BY <2>1, <1>o, <1>x
  <1>21. CASE NotDispatched \/ OverBudget \/ TurnFails \/ TransportLost \/ TurnErrors \/ Crash
              \/ StopUnverified
    BY <1>21, <1>o DEF NotDispatched, OverBudget, TurnFails, TransportLost, TurnErrors, Crash,
       StopUnverified
  <1>22. CASE \/ Close \/ (\E s \in Server : ServerDies(s))
              \/ \E b \in Attempts : Deliver(b) \/ TurnEnds(b) \/ Violate(b)
    <2>1. UNCHANGED <<ck, att, held, pc, cur, goal, outcome, seen, caller>> /\ (pc \in Sending => proc' = proc)
      BY <1>22 DEF Close, ServerDies, Deliver, TurnEnds, Violate, ledger, Volatile, adapter,
         Sending
    <2>2. ~Send
      BY <2>1 DEF Send, Goto
    <2> QED BY <2>1, <2>2, <1>s
  <1> QED BY <1>1, <1>2, <1>3, <1>4, <1>7, <1>8, <1>9, <1>10, <1>11, <1>12, <1>13,
     <1>14,
      <1>15, <1>16, <1>17, <1>18, <1>19, <1>20, <1>21, <1>22
      DEF Next, Enter, Work, World, Recovery, Dispatch, Waiting, Settling
-----------------------------------------------------------------------------
(* How far the record is.                                                    *)
LEMMA StagePart == ASSUME Core, Next PROVE Stage'
  <1>t. /\ cur \in Attempts /\ Place /\ Turn /\ Stage /\ A = att[cur] /\ A \in Record
        /\ att \in [Attempts -> Record] /\ Truth(cur) /\ Blank(cur)
    BY DEF Core, Types, A
  <1>k. \A r : Note(r) => att'[cur] = r
    BY <1>t DEF Note
  <1>o. pc' \notin Dispatching => Stage'
    BY DEF Stage, Dispatching
  <1>w. ASSUME cur' = cur, pc' \in Dispatching \ {"prepare"}, att'[cur].status \notin Final
        PROVE  Stage'
    BY <1>w DEF Stage, A, Final
  <1>n. ASSUME cur' = cur, pc' \in Dispatching \ {"prepare"}, att'[cur].status = A.status,
               pc \in Dispatching \ {"refuse", "overBudget", "classify", "save"}
        PROVE  Stage'
    <2>1. A.status \notin Final
      BY <1>n, <1>t DEF Stage, Final
    <2> QED BY <1>n, <2>1, <1>w
  <1>1. CASE Preflight
    <2>1. A.status = "absent" /\ att'[cur] = A
      BY <1>1, <1>t DEF Preflight, Place, Blank
    <2>2. (pc' = "prepare" /\ cur' = cur) \/ pc' \notin Dispatching
      BY <1>1 DEF Preflight, Goto, Off, Volatile, Dispatching
    <2> QED BY <2>1, <2>2, <1>o DEF Stage, A, Dispatching
  <1>2. CASE Prepare \/ Configure \/ Bind \/ Intent \/ Ack
    <2>1. /\ cur' = cur /\ pc' \in Dispatching \ {"prepare"}
          /\ \/ \E x \in {"prepared", "configured", "thread_bound", "turn_intent"} : Note([A EXCEPT !.status = x])
             \/ Note([A EXCEPT !.status = "turn_acknowledged", !.named = TRUE])
      BY <1>2 DEF Prepare, Configure, Bind, Intent, Ack, Goto, Volatile, Dispatching
    <2>2. att'[cur].status \notin Final
      BY <2>1, <1>k, <1>t DEF Record, Final
    <2> QED BY <2>1, <2>2, <1>w
  <1>3. CASE Claim \/ Launch \/ Send \/ NoAck \/ Stop \/ FoulEvent
    <2>1. /\ cur' = cur /\ pc' \in Dispatching \ {"prepare"} /\ att' = att
          /\ pc \in Dispatching \ {"refuse", "overBudget", "classify", "save"}
      BY <1>3 DEF Claim, Launch, Send, NoAck, Stop, FoulEvent, Goto, Volatile, Dispatching, ledger
    <2> QED BY <2>1, <1>n, <1>t
  <1>4. CASE Boot \/ Reserve
    <2>1. /\ cur' = cur /\ pc' \in Dispatching \ {"prepare"}
          /\ pc \in Dispatching \ {"refuse", "overBudget", "classify", "save"}
          /\ att' = att \/ Note([A EXCEPT !.disposal = "pending"]) \/ Note([A EXCEPT !.authorized = TRUE])
      BY <1>4 DEF Boot, Reserve, Goto, Volatile, Dispatching
    <2>2. att'[cur].status = A.status
      BY <2>1, <1>k, <1>t DEF Record
    <2> QED BY <2>1, <2>2, <1>n
  <1>5. CASE Incapable \/ Answer
    BY <1>5 DEF Incapable, Answer, Goto, Volatile, Stage
  <1>6. CASE TearDown \/ TearDownUnverified
    <2>1. \/ pc' \notin Dispatching \/ pc' = "overBudget"
          \/ /\ pc' = "answer" /\ cur' = cur
             /\ Note([Quiet(A) EXCEPT !.status = "response_received", !.named = TRUE, !.answer = TRUE])
          \/ /\ pc' = "classify" /\ cur' = cur
             /\ Note([Quiet(A) EXCEPT !.status = "failed", !.policy = TRUE])
      BY <1>6 DEF TearDown, TearDownUnverified, Goto, Volatile, Off, Dispatching
    <2>2. CASE /\ pc' = "answer" /\ cur' = cur
               /\ Note([Quiet(A) EXCEPT !.status = "response_received", !.named = TRUE, !.answer = TRUE])
      <3>1. att'[cur].status = "response_received"
        BY <2>2, <1>k, <1>t DEF Record, Quiet
      <3> QED BY <2>2, <3>1, <1>w DEF Final, Dispatching
    <2>3. CASE /\ pc' = "classify" /\ cur' = cur
               /\ Note([Quiet(A) EXCEPT !.status = "failed", !.policy = TRUE])
      <3>1. att'[cur].status = "failed"
        BY <2>3, <1>k, <1>t DEF Record, Quiet
      <3> QED BY <2>3, <3>1 DEF Stage, A
    <2>4. CASE pc' = "overBudget"
      BY <2>4 DEF Stage
    <2> QED BY <2>1, <2>2, <2>3, <2>4, <1>o
  <1>7. CASE TurnEvent
    <2>1. /\ cur' = cur /\ pc' = pc /\ pc \in {"wait", "stop"}
          /\ Note([A EXCEPT !.status = "response_received", !.answer = TRUE])
      BY <1>7 DEF TurnEvent
    <2>2. att'[cur].status = "response_received"
      BY <2>1, <1>k, <1>t DEF Record
    <2> QED BY <2>1, <2>2, <1>w DEF Final, Dispatching
  <1>8. CASE StopTurn
    <2>1. /\ pc = "stop" /\ (pc' \notin Dispatching \/ (pc' = "classify" /\ cur' = cur))
          /\ att' = att \/ Note(Quiet(A))
      BY <1>8 DEF StopTurn, Goto, Volatile, Off, Dispatching
    <2>2. att'[cur].status = A.status
      BY <2>1, <1>k, <1>t DEF Record, Quiet
    <2> QED BY <2>1, <2>2, <1>n, <1>o DEF Dispatching
  <1>9. CASE Close \/ (\E s \in Server : ServerDies(s)) \/ \E b \in Attempts : Deliver(b) \/ TurnEnds(b) \/ Violate(b)
    <2>1. UNCHANGED <<att, pc, cur>>
      BY <1>9 DEF Close, ServerDies, Deliver, TurnEnds, Violate, ledger, Volatile
    <2> QED BY <2>1, <1>t DEF Stage, A
  <1>10. CASE pc' \notin Dispatching
    BY <1>10, <1>o
  <1>11. \/ pc' \notin Dispatching
         \/ Preflight \/ (Prepare \/ Configure \/ Bind \/ Intent \/ Ack)
         \/ (Claim \/ Launch \/ Send \/ NoAck \/ Stop \/ FoulEvent) \/ (Boot \/ Reserve)
         \/ (Incapable \/ Answer) \/ (TearDown \/ TearDownUnverified) \/ TurnEvent \/ StopTurn
         \/ Close \/ (\E s \in Server : ServerDies(s)) \/ \E b \in Attempts : Deliver(b) \/ TurnEnds(b) \/ Violate(b)
    BY DEF Dispatching, Next, Enter, Work, World, Recovery, Dispatch, Waiting,
       Settling, Begin, Resume, Replay, Recover, Relaunch, Read, ReadFails, Decide,
       Refuse, NotDispatched, OverBudget, TurnFails, TransportLost, StopUnverified, Classify, Save, Validate,
       Dispose, Release, Receipt, ReleaseFails, Complete, Fail, Unbind, TurnErrors, Crash,
       Goto, Volatile, Off, AfterOwner
  <1> QED BY <1>1, <1>2, <1>3, <1>4, <1>5, <1>6, <1>7, <1>8, <1>9, <1>10, <1>11

LEMMA CoreStep == ASSUME Core, Next PROVE Core'
  <1>1. Types'
    BY TypesPart DEF Core
  <1>2. \A a \in Attempts : Truth(a)' /\ Blank(a)'
    BY TruthPart, BlankPart
  <1> QED BY <1>1, <1>2, CheckedPart, PlacePart, TurnPart, StagePart DEF Core
LEMMA CoreKept ==
    ASSUME Core, UNCHANGED <<op, ck, att, held, server, started, turn, home, foul, pc, cur, goal,
                             seen, owner, proc, caller>>
    PROVE  Core'
  <1>1. Types' /\ Checked'
    BY DEF Core, Types, Checked
  <1>2. \A a \in Attempts : Truth(a)' /\ Blank(a)'
    BY DEF Core, Truth, Blank, Clean, Live
  <1>3. Place' /\ Stage'
    BY DEF Core, Place, Stage, A, Tried
  <1>4. Turn'
    BY DEF Core, Turn, A, Live
  <1> QED BY <1>1, <1>2, <1>3, <1>4 DEF Core
-----------------------------------------------------------------------------
(* Without an operator: only the checkpoint's attempt may have a live turn.  *)
LEMMA LiveIsCurrent ==
    ASSUME IInv, NEW a \in Attempts, Live(a)
    PROVE  a = ck.gen + 1 /\ ck.kind = "intent" /\ op = "open" /\ held = a /\ att[a].authorized
  <1>1. /\ Truth(a) /\ Blank(a) /\ Order(a) /\ turn[a] # "none" /\ ck.gen \in Nat /\ a \in Nat
    BY Bounds DEF IInv, Core, Live, Types, Checkpoint
  <1>2. att[a].authorized /\ att[a].status # "absent"
    BY <1>1 DEF Truth
  <1> QED BY <1>1, <1>2 DEF Order, Blank

(* A turn whose record reads as stopped may not act, and has no answer.       *)
LEMMA StoppedIsStopped ==
    ASSUME Core, NEW a \in Attempts, StoppedRecord(att[a])
    PROVE  ~Live(a) /\ ~Clean(a)
  <1>1. Truth(a)
    BY DEF Core
  <1> QED BY <1>1 DEF Truth, StoppedRecord, Clean, Live

(* Recovery reads a stopped record as stopped, and only such a one.          *)
LEMMA StoppedRead ==
    ASSUME Core
    PROVE  /\ FromLedger(A) = "stopped" <=> StoppedRecord(A)
           /\ FromLedger(A) = "completed" => A.answer
           /\ FromLedger(A) # "completed" => ~Clean(cur)
  <1>1. Truth(cur) /\ A \in Record /\ A = att[cur]
    BY DEF Core, Types, A
  <1> QED BY <1>1 DEF FromLedger, StoppedRecord, Truth, Clean, OpenCleanup

(* Only a step of the dispatch or of a native inspection writes an answer.     *)
LEMMA AnswerMoves ==
    ASSUME Core, Next, NEW a \in Attempts, pc \notin Dispatching \cup {"relaunch", "read"}
    PROVE  att'[a].answer = att[a].answer /\ att'[a].status = att[a].status
  <1>t. /\ Types /\ att \in [Attempts -> Record] /\ cur \in Attempts /\ A = att[cur] /\ A \in Record
    BY DEF Core, Types, A
  <1>1. CASE att' = att
    BY <1>1
  <1>2. CASE Recover \/ Dispose \/ Receipt \/ ReleaseFails
    <2>1. att' = att \/ Note([A EXCEPT !.disposal = "pending"]) \/ \E e : Note(Owned(A, e))
      BY <1>2 DEF Recover, Dispose, Receipt, ReleaseFails
    <2>2. ASSUME NEW r, Note(r), r.answer = A.answer, r.status = A.status
          PROVE  att'[a].answer = att[a].answer /\ att'[a].status = att[a].status
      BY <2>2, <1>t DEF Note
    <2> QED BY <2>1, <2>2, <1>1, <1>t DEF Owned, Record
  <1>3. att' = att \/ Recover \/ Dispose \/ Receipt \/ ReleaseFails
    BY AttMoves DEF Noting, Read, Prepare, Boot, Incapable, Configure, Bind, Reserve,
        Intent, Ack, TearDown, TearDownUnverified, TurnEvent, Answer, TurnFails, TransportLost,
        StopTurn, StopUnverified, Classify, Dispatching
  <1> QED BY <1>1, <1>2, <1>3

(* Only the operator's word is an acceptance.                                *)
LEMMA UnwaivedStays ==
    ASSUME Types, Next, NEW a \in Attempts, "accepted" \notin {att[a].disposal, att[a].cleanup}
    PROVE  "accepted" \notin {att'[a].disposal, att'[a].cleanup}
  <1>t. /\ att \in [Attempts -> Record] /\ cur \in Attempts /\ A = att[cur] /\ A \in Record
    BY DEF Types, A
  <1>k. ASSUME NEW r, Note(r), r.disposal \in {A.disposal, "pending", "completed", "incomplete"},
               r.cleanup \in {A.cleanup, "pending", "completed", "incomplete"}
        PROVE  "accepted" \notin {att'[a].disposal, att'[a].cleanup}
    BY <1>k, <1>t DEF Note
  <1>0. CASE att' = att
    BY <1>0
  <1>1. CASE Recover \/ Boot
    <2>1. att' = att \/ Note([A EXCEPT !.disposal = "pending"])
      BY <1>1 DEF Recover, Boot
    <2> QED BY <2>1, <1>k, <1>0, <1>t DEF Record
  <1>2. CASE TearDownUnverified \/ TransportLost \/ StopTurn \/ StopUnverified
    <2>1. att' = att \/ Note(Quiet(A)) \/ Note([A EXCEPT !.cleanup = "incomplete"])
      BY <1>2 DEF TearDownUnverified, TransportLost, StopTurn, StopUnverified
    <2> QED BY <2>1, <1>k, <1>0, <1>t DEF Record, Quiet
  <1>3. CASE Dispose \/ Receipt \/ ReleaseFails
    <2>1. att' = att \/ \E e \in {"pending", "completed", "incomplete"} : Note(Owned(A, e))
      BY <1>3 DEF Dispose, Receipt, ReleaseFails
    <2>2. ASSUME NEW e \in {"pending", "completed", "incomplete"}, Note(Owned(A, e))
          PROVE  "accepted" \notin {att'[a].disposal, att'[a].cleanup}
      BY <2>2, <1>k, <1>t DEF Record, Owned
    <2> QED BY <2>1, <2>2, <1>0
  <1>4. CASE Prepare \/ Configure \/ Bind \/ Intent \/ Reserve \/ Ack \/ Incapable \/ TurnFails
             \/ Answer \/ TurnEvent \/ Classify
    <2>1. \/ att' = att \/ \E x : Note([A EXCEPT !.status = x]) \/ Note([A EXCEPT !.authorized = TRUE])
          \/ Note([A EXCEPT !.status = "turn_acknowledged", !.named = TRUE])
          \/ Note([A EXCEPT !.status = "failed", !.policy = ReadOnly])
          \/ Note([A EXCEPT !.status = "response_received", !.answer = TRUE])
      BY <1>4 DEF Prepare, Configure, Bind, Intent, Reserve, Ack, Incapable, TurnFails, Answer,
         TurnEvent, Classify
    <2> QED BY <2>1, <1>k, <1>0, <1>t DEF Record
  <1>5. CASE TearDown
    <2>1. \/ Note([Quiet(A) EXCEPT !.status = "response_received", !.named = TRUE, !.answer = TRUE])
          \/ Note([Quiet(A) EXCEPT !.status = "failed", !.policy = TRUE])
          \/ Note([Quiet(A) EXCEPT !.status = "failed"])
      BY <1>5 DEF TearDown
    <2> QED BY <2>1, <1>k, <1>t DEF Record, Quiet
  <1>6. CASE Read
    <2>1. \/ att' = att \/ Note([A EXCEPT !.status = "completed", !.answer = TRUE])
          \/ \E c \in {"completed", "incomplete"} :
               \/ Note([A EXCEPT !.cleanup = c, !.policy = TRUE,
                       !.status = IF @ = "completed" THEN @ ELSE "failed"])
               \/ Note([A EXCEPT !.cleanup = c])
               \/ Note([A EXCEPT !.cleanup = c, !.status = "failed"])
      BY <1>6 DEF Read
    <2> QED BY <2>1, <1>k, <1>0, <1>t DEF Record
  <1> QED BY <1>0, <1>1, <1>2, <1>3, <1>4, <1>5, <1>6, AttMoves DEF Noting

LEMMA OrderPart == ASSUME IInv, Next, NEW a \in Attempts PROVE Order(a)'
  <1>t. /\ ck.gen \in Nat /\ a \in Nat /\ cur \in Attempts /\ Order(a) /\ Truth(a) /\ Place
        /\ Turn /\ Checked /\ Types /\ Reached /\ Core /\ Kept /\ ck \in Checkpoint
    BY Bounds DEF IInv, Core, Types, Checkpoint
  <1>m. /\ \/ Send /\ a = cur
           \/ turn'[a] = turn[a] /\ foul'[a] = foul[a]
           \/ Live(a) /\ turn'[a] \notin {"none", "wire"} /\ foul'[a] = foul[a]
           \/ turn[a] = "running" /\ turn'[a] = "running" /\ foul'[a]
    BY <1>t, TurnMoves
  <1>l. Live(a)' => Live(a) \/ (Send /\ a = cur)
    BY <1>m DEF Live
  <1>w. "accepted" \notin {att'[a].disposal, att'[a].cleanup}
    BY <1>t, UnwaivedStays DEF Order
  <1>1. CASE ck' # ck
    <2>1. op' = op /\ att'[a] = att[a] /\ held' = held /\ Live(a)' = Live(a) /\ Clean(a)' = Clean(a)
      BY <1>1, <1>t, CkSteps DEF Live, Clean
    <2>2. CASE Decide /\ outcome = "completed" /\ ck' = ck0("responded", Tried - 1) /\ cur = Tried
      <3>1. A.answer /\ ck.kind = "intent" /\ cur = ck.gen + 1
        BY <2>2, <1>t DEF Decide, Reached, Tried
      <3>2. ~Live(a)
        BY <3>1, <1>t, LiveIsCurrent DEF Truth, Core, Live, A
      <3> QED BY <2>1, <2>2, <3>1, <3>2, <1>t, <1>w DEF Order, ck0
    <2>3. CASE /\ Decide /\ outcome = "stopped" /\ ck.kind = "intent" /\ cur = ck.gen + 1
               /\ ck' = [kind |-> "retry", gen |-> ck.gen + 1, origin |-> "automatic"]
      <3>1. StoppedRecord(att[cur])
        BY <2>3, <1>t DEF Decide, Reached, A
      <3>2. ~Live(cur) /\ ~Clean(cur)
        BY <3>1, StoppedIsStopped, <1>t
      <3>3. ~Live(a)
        BY <2>3, <3>2, LiveIsCurrent
      <3> QED BY <2>1, <2>3, <3>2, <3>3, <1>t, <1>w DEF Order
    <2>4. CASE /\ ck.kind \in {"empty", "retry", "intent"} /\ cur = ck.gen + 1
               /\ \E kind \in {"intent", "refused", "overBudget", "responded"} :
                        /\ ck' = ck0(kind, ck.gen)
                        /\ kind = "intent" => Preflight
                        /\ kind = "responded" => Save
                        /\ kind \in {"refused", "overBudget"} => Preflight \/ Refuse \/ OverBudget
      <3>1. CASE Preflight
        <4>1. ~Live(a)
          BY <3>1, <1>t, LiveIsCurrent DEF Preflight, Place
        <4> QED BY <2>1, <2>4, <4>1, <1>t, <1>w DEF Order, ck0
      <3>2. CASE Save
        <4>1. A.answer /\ cur = ck.gen + 1
          BY <3>2, <1>t DEF Save, Place, Dispatching, Turn
        <4>2. ~Live(a)
          BY <4>1, <1>t, LiveIsCurrent DEF Truth, Core, Live, A
        <4> QED BY <2>1, <2>4, <4>2, <1>t, <1>w DEF Order, ck0
      <3>3. CASE Refuse \/ OverBudget
        <4>1. turn[cur] = "none" /\ cur = ck.gen + 1
          BY <3>3, <1>t DEF Refuse, OverBudget, Place, Dispatching, Turn, Unsent
        <4>2. ~Live(a)
          BY <4>1, LiveIsCurrent DEF Live
        <4> QED BY <2>1, <2>4, <4>2, <1>t, <1>w DEF Order, ck0
      <3> QED BY <2>4, <3>1, <3>2, <3>3
    <2>5. CASE /\ Validate /\ ck.kind \in {"responded", "validated"}
               /\ \E kind \in {"validated", "invalid"} : ck' = [ck EXCEPT !.kind = kind]
      <3>1. ~Live(a)
        BY <2>5, LiveIsCurrent
      <3>2. ck'.gen = ck.gen
        BY <2>5, <1>t DEF Checkpoint
      <3> QED BY <2>1, <3>1, <3>2, <1>t, <1>w DEF Order
    <2> QED BY <1>1, <1>t, <2>2, <2>3, <2>4, <2>5, CkSteps
  <1>2. CASE ck' = ck
    <2>s. Send => /\ op = "open" /\ held = cur /\ ck.kind = "intent" /\ cur = ck.gen + 1
                  /\ op' = op /\ held' = held
      BY <1>t DEF Send, Place, Dispatching, Turn, ledger
    <2>3. a <= ck.gen => ~Live(a)' /\ ~Clean(a)'
      <3>1. ASSUME a <= ck.gen PROVE ~Live(a)' /\ att'[a].answer = att[a].answer /\ foul'[a] = foul[a]
        <4>1. ~Live(a) /\ ~(Send /\ a = cur)
          BY <3>1, <1>t, <2>s DEF Order
        <4>2. att'[a].answer = att[a].answer
          <5>1. CASE a = Tried /\ att'[a] # att[a]
            <6>1. ck.kind = "retry" /\ cur = a
              BY <3>1, <5>1, <1>t, NotesTried DEF Tried
            <6>2. ~(cur = ck.gen + 1)
              BY <6>1, <3>1, <1>t
            <6>3. pc \notin Dispatching \cup {"relaunch", "read"}
              BY <6>1, <6>2, <1>t DEF Place, Reached
            <6> QED BY <6>1, <6>3, <5>1, <1>t, AnswerMoves
          <5>2. CASE ~(a = Tried /\ att'[a] # att[a])
            BY <5>2, <1>t, NotesTried
          <5> QED BY <5>1, <5>2
        <4> QED BY <4>1, <4>2, <1>m, <1>l DEF Live
      <3> QED BY <3>1, <1>t DEF Order, Clean
    <2>4. Live(a)' => op' = "open" /\ held' = a /\ ck.kind = "intent"
      <3>1. ASSUME Live(a), Live(a)' PROVE op' = "open" /\ held' = a
        <4>1. a = ck.gen + 1 /\ ck.kind = "intent" /\ op = "open" /\ held = a
          BY <3>1, LiveIsCurrent
        <4>2. op' = op
          BY <4>1, <3>1, <1>t, OpMoves DEF Begin, Complete, Fail, Place, Reached
        <4>3. ~Claim
          BY <4>1, <3>1, <1>t DEF Claim, Place, Dispatching, Turn, Unsent, Live
        <4>4. ~(Unbind /\ held = cur)
          BY <4>1, <3>1, <1>t DEF Unbind, Place, Reached
        <4> QED BY <4>1, <4>2, <4>3, <4>4, HeldMoves DEF Unbind
      <3>2. Live(a) => ck.kind = "intent"
        BY LiveIsCurrent
      <3> QED BY <3>1, <3>2, <1>l, <2>s
    <2> QED BY <1>2, <2>3, <2>4, <1>w DEF Order
  <1> QED BY <1>1, <1>2
-----------------------------------------------------------------------------
LEMMA KeptPart == ASSUME IInv, Next PROVE Kept'
  <1>t. /\ ck.gen \in Nat /\ cur \in Attempts /\ ck \in Checkpoint /\ Core /\ Kept /\ Reached /\ Checked
        /\ Place /\ A = att[cur] /\ held \in 0..MaxAttempt /\ MaxAttempt \in Nat
    BY Bounds DEF IInv, Core, Types, Checkpoint, A
  <1>h. held' # 0 => att'[held'].status # "absent"
    <2>1. CASE held' = held
      BY <2>1, <1>t, RecordStays, Bounds DEF Kept, Attempts
    <2>2. CASE Claim
      <3>1. held' = cur /\ A.status # "absent"
        BY <2>2, <1>t DEF Claim, Place, Dispatching
      <3> QED BY <3>1, <1>t, RecordStays DEF Attempts
    <2> QED BY <2>1, <2>2, HeldMoves DEF Unbind
  <1>1. CASE ck' = ck
    <2>1. ck.kind = "retry" => att'[ck.gen] = att[ck.gen]
      <3> SUFFICES ASSUME ck.kind = "retry", att'[ck.gen] # att[ck.gen] PROVE FALSE
        OBVIOUS
      <3>1. ck.gen \in Attempts /\ StoppedRecord(att[ck.gen]) /\ Tried = ck.gen
        BY <1>t DEF Checked, Attempts, Kept, Tried
      <3>2. cur = ck.gen /\ att' # att
        BY <3>1, <1>t, NotesTried
      <3>3. Noting
        BY <3>2, AttMoves
      <3>4. pc \notin Dispatching \cup {"relaunch", "read"}
        BY <3>2, <1>t DEF Place, Reached
      <3>5. pc \notin Disposing
        BY <1>t DEF Place, Disposing, Reached, Answered
      <3>6. Recover
        BY <3>3, <3>4, <3>5 DEF Noting, Read, Prepare, Boot, Incapable, Configure, Bind, Reserve,
            Intent, Ack, TearDown, TearDownUnverified, TurnEvent, Answer, TurnFails, TransportLost,
            StopTurn, StopUnverified, Classify, Dispose, Receipt, ReleaseFails, Dispatching, Disposing
      <3>7. FromLedger(A) = "stopped"
        BY <3>1, <3>2, <1>t, StoppedRead
      <3> QED BY <3>2, <3>6, <3>7 DEF Recover
    <2>2. ck.kind = "retry" => StoppedRecord(att[ck.gen])'
      BY <1>1, <1>t, <2>1 DEF Kept, StoppedRecord, OpenCleanup
    <2> QED BY <1>1, <2>2, <1>h, <1>t DEF Kept
  <1>2. CASE ck' # ck
    <2>1. UNCHANGED <<held, att>>
      BY <1>2, <1>t, CkSteps
    <2>2. CASE /\ Decide /\ outcome = "stopped" /\ cur = ck.gen + 1
               /\ ck' = [kind |-> "retry", gen |-> ck.gen + 1, origin |-> "automatic"]
      <3>1. StoppedRecord(att'[ck'.gen])
        BY <2>1, <2>2, <1>t DEF Decide, Reached
      <3> QED BY <2>2, <3>1, <1>h DEF Kept, StoppedRecord, OpenCleanup
    <2>3. CASE \E kind \in {"intent", "refused", "overBudget", "responded"}, g \in {ck.gen, Tried - 1} :
                 ck' = ck0(kind, g)
      BY <2>3, <1>h DEF Kept, ck0
    <2>4. CASE \E kind \in {"validated", "invalid"} : ck' = [ck EXCEPT !.kind = kind]
      <3>1. ck'.origin = ck.origin /\ ck'.kind \in {"validated", "invalid"}
        BY <2>4, <1>t DEF Checkpoint
      <3> QED BY <3>1, <1>h, <1>t DEF Kept
    <2> QED BY <1>2, <1>t, <2>2, <2>3, <2>4, CkSteps
  <1> QED BY <1>1, <1>2
-----------------------------------------------------------------------------
(* What recovery found, and that nothing acts when a verdict falls.           *)
LEMMA ReachedPart == ASSUME IInv, Next PROVE Reached'
  <1>t. /\ Core /\ Types /\ Place /\ Turn /\ Reached /\ Kept /\ Checked /\ ck.gen \in Nat /\ cur \in Attempts
        /\ A = att[cur] /\ A \in Record /\ att \in [Attempts -> Record] /\ Truth(cur)
        /\ caller = "execute" /\ ck \in Checkpoint
    BY Bounds DEF IInv, TypeOK, Core, Types, Checkpoint, A
  <1>k. \A r : Note(r) => att'[cur] = r
    BY <1>t DEF Note
  <1>n. ASSUME ~Send, ck.kind # "intent" \/ ~Live(ck.gen + 1) PROVE \A a \in Attempts : ~Live(a)'
    BY <1>n, <1>t, LiveIsCurrent, QuietStays
  <1>q. ASSUME ~Send, cur' = cur, ~Live(cur) PROVE ~Live(cur)'
    BY <1>q, <1>t, QuietStays DEF Live
  <1>o. ASSUME pc' \notin {"relaunch", "read", "decide", "fail", "unbind"} \cup Disposing PROVE Reached'
    BY <1>o DEF Reached
  <1>f. ASSUME pc' = "fail", ~Send, ck.kind # "intent" \/ ~Live(ck.gen + 1) PROVE Reached'
    BY <1>f, <1>n DEF Reached, Disposing
  <1>g. ASSUME pc' \in {"unbind"} \cup Disposing, goal' # "policy" PROVE Reached'
    BY <1>g DEF Reached, Disposing
  <1>p. ASSUME pc' \in {"unbind"} \cup Disposing, ck' = ck, cur' = cur, ~Send, ck.kind = "intent", ~Live(cur)
        PROVE  Reached'
    <2>1. ~Live(cur)'
      BY <1>p, <1>q DEF Live
    <2> QED BY <1>p, <2>1 DEF Reached, Disposing
  <1>s. ASSUME UNCHANGED <<ck, att, pc, cur, goal, outcome>>, ~Send PROVE Reached'
    <2>1. A' = A /\ StoppedRecord(A)' = StoppedRecord(A)
      BY <1>s DEF A, StoppedRecord, OpenCleanup
    <2>2. ~Live(cur) => ~Live(cur)'
      BY <1>s, <1>q DEF Live
    <2>3. pc = "fail" => \A a \in Attempts : ~Live(a)'
      BY <1>s, <1>t, QuietStays DEF Reached
    <2> QED BY <1>s, <1>t, <2>1, <2>2, <2>3 DEF Reached
  <1>1. CASE Resume
    <2>1. ~OwnerInvalid
      BY <1>t, Bounds DEF OwnerInvalid, Kept
    <2>2. ~Send
      BY <1>1 DEF Resume, Send
    <2>3. \/ (ck.kind = "refused" /\ pc' = "fail") \/ pc' \in {"preflight", "recover", "validate"}
          \/ pc' = "dispose" /\ goal' = "fail"
      BY <1>1, <2>1 DEF Resume
    <2> QED BY <2>2, <2>3, <1>o, <1>f, <1>g DEF Disposing
  <1>2. CASE Replay
    <2>1. goal = "none"
      BY <1>2, <1>t DEF Replay, Turn, Early
    <2> QED BY <1>2, <2>1, <1>g DEF Replay, Disposing
  <1>3. CASE Recover
    <2>1. /\ pc = "recover" /\ UNCHANGED <<ck, cur>> /\ cur = Tried /\ ck.kind \in {"intent", "retry"}
      BY <1>3, <1>t DEF Recover, Place, Recovering
    <2>2. ck.kind = "retry" => StoppedRecord(A)
      BY <2>1, <1>t DEF Kept, Tried
    <2>3. CASE FromLedger(A) = "native"
      <3>1. ck.kind = "intent" /\ pc' = "relaunch"
        BY <1>3, <2>1, <2>2, <2>3, <1>t, StoppedRead DEF Recover
      <3> QED BY <2>1, <3>1 DEF Reached, Disposing
    <2>4. CASE FromLedger(A) # "native"
      <3>1. outcome' = FromLedger(A) /\ pc' = "decide" /\ att' = att
        BY <1>3, <2>4 DEF Recover
      <3>2. A' = A /\ StoppedRecord(A)' = StoppedRecord(A)
        BY <3>1, <2>1 DEF A, StoppedRecord, OpenCleanup
      <3>3. ck.kind = "retry" => FromLedger(A) = "stopped"
        BY <2>2, <1>t, StoppedRead
      <3>4. FromLedger(A) = "completed" => A.answer /\ ck.kind = "intent"
        BY <3>3, StoppedRead, <2>1, <1>t
      <3> QED BY <2>1, <3>1, <3>2, <3>3, <3>4, <1>t, StoppedRead DEF Reached, Disposing
    <2> QED BY <2>3, <2>4
  <1>4. CASE Relaunch \/ Read \/ ReadFails
    <2>a. pc \in {"relaunch", "read"} /\ UNCHANGED <<cur, ck>>
      BY <1>4 DEF Relaunch, Read, ReadFails, ledger, Volatile
    <2>b. ck.kind = "intent" /\ ck'.kind = "intent"
      BY <2>a, <1>t DEF Place, Recovering, Reached
    <2>2. CASE pc' = "read"
      BY <2>b, <2>2 DEF Reached, Disposing
    <2>3. CASE pc' = "decide" /\ outcome' \notin {"completed", "stopped"}
      BY <2>b, <2>3 DEF Reached, Disposing
    <2>4. CASE pc' = "decide" /\ outcome' = "completed" /\ att'[cur].answer
      BY <2>a, <2>b, <2>4 DEF Reached, Disposing, A
    <2>5. CASE /\ pc' = "decide" /\ outcome' = "stopped" /\ turn[cur] = "stopped" /\ ~foul[cur]
               /\ Note([A EXCEPT !.cleanup = "completed", !.status = "failed"])
      <3>1. att'[cur] = [A EXCEPT !.cleanup = "completed", !.status = "failed"] /\ ~A.policy
        BY <2>5, <1>k, <1>t DEF Truth
      <3>2. A' = att'[cur]
        BY <2>a DEF A
      <3>3. StoppedRecord(A)'
        BY <3>1, <3>2, <1>t DEF StoppedRecord, OpenCleanup, Record
      <3> QED BY <2>a, <2>b, <2>5, <3>3 DEF Reached, Disposing
    <2>6. CASE Read
      <3>1. CASE /\ turn[cur] = "completed" /\ pc' = "decide"
                 /\ \/ outcome' = "unknown"
                    \/ Note([A EXCEPT !.status = "completed", !.answer = TRUE]) /\ outcome' = "completed"
        BY <2>3, <2>4, <3>1, <1>k, <1>t DEF Record
      <3>2. CASE /\ turn[cur] = "stopped" /\ ~foul[cur] /\ pc' = "decide"
                 /\ \/ outcome' = "unknown"
                    \/ /\ Note([A EXCEPT !.cleanup = "completed", !.status = "failed"])
                       /\ outcome' = "stopped"
        BY <2>3, <2>5, <3>2
      <3>3. \/ pc' = "read" \/ (pc' = "decide" /\ outcome' \in {"running", "policy", "unknown"})
            \/ /\ turn[cur] = "completed" /\ pc' = "decide"
               /\ \/ outcome' = "unknown"
                  \/ Note([A EXCEPT !.status = "completed", !.answer = TRUE]) /\ outcome' = "completed"
            \/ /\ turn[cur] = "stopped" /\ ~foul[cur] /\ pc' = "decide"
               /\ \/ outcome' = "unknown"
                  \/ /\ Note([A EXCEPT !.cleanup = "completed", !.status = "failed"])
                     /\ outcome' = "stopped"
        BY <2>6 DEF Read
      <3> QED BY <2>2, <2>3, <3>1, <3>2, <3>3
    <2> QED BY <1>4, <2>2, <2>3, <2>6 DEF Relaunch, ReadFails
  <1>5. CASE Decide
    <2>1. CASE /\ outcome = "stopped" /\ ck' = [kind |-> "retry", gen |-> cur, origin |-> "automatic"]
               /\ UNCHANGED <<pc, Volatile>>
      <3>1. A' = A /\ StoppedRecord(A)' = StoppedRecord(A)
        BY <1>5, <2>1 DEF A, StoppedRecord, OpenCleanup, Decide, Volatile
      <3> QED BY <1>5, <2>1, <3>1, <1>t DEF Decide, Reached, Volatile, Disposing
    <2>2. CASE outcome = "policy" /\ A.status = "failed" /\ pc' = "dispose" /\ ck' = ck /\ cur' = cur
      <3>1. ck.kind = "intent" /\ ~Send /\ ~Live(cur)
        BY <1>5, <2>2, <1>t DEF Decide, Reached, Place, Recovering, Truth, Send
      <3> QED BY <2>2, <3>1, <1>p DEF Disposing
    <2>3. \/ pc' \in {"validate", "preflight", "off"}
          \/ /\ outcome = "stopped" /\ ck' = [kind |-> "retry", gen |-> cur, origin |-> "automatic"]
             /\ UNCHANGED <<pc, Volatile>>
          \/ outcome = "policy" /\ A.status = "failed" /\ pc' = "dispose" /\ ck' = ck /\ cur' = cur
      BY <1>5 DEF Decide, Off
    <2> QED BY <2>1, <2>2, <2>3, <1>o DEF Disposing
  <1>6. CASE Preflight \/ Refuse
    <2>1. ~Send /\ (ck.kind # "intent" \/ ~Live(ck.gen + 1))
      BY <1>6, <1>t DEF Preflight, Refuse, Send, Place, Dispatching, Turn, Unsent, Live
    <2>2. pc' \in {"prepare", "off", "fail"}
      BY <1>6 DEF Preflight, Refuse, Goto, Off
    <2> QED BY <2>1, <2>2, <1>f, <1>o DEF Disposing
  <1>7. CASE Classify
    <2>1. /\ ~Live(cur) /\ ~Send /\ ck.kind = "intent" /\ UNCHANGED <<ck, cur>> /\ pc' = "dispose"
      BY <1>7, <1>t DEF Classify, Turn, Send, Place, Dispatching
    <2> QED BY <2>1, <1>p DEF Disposing
  <1>8. CASE Dispose \/ Release \/ Receipt \/ ReleaseFails
    <2>1. pc \in Disposing /\ ~Send
      BY <1>8 DEF Dispose, Release, Receipt, ReleaseFails, Disposing, Send
    <2>2. pc' = "off" \/ (pc' \in Disposing \cup {AfterOwner} /\ UNCHANGED <<ck, cur, goal>>)
      BY <1>8 DEF Dispose, Release, Receipt, ReleaseFails, Disposing, Goto, Volatile, Off,
         ledger
    <2>3. CASE pc' \in Disposing \cup {AfterOwner} /\ UNCHANGED <<ck, cur, goal>>
      <3>1. CASE goal = "policy"
        <4>1. AfterOwner = "unbind" /\ ck.kind = "intent" /\ ~Live(cur)
          BY <3>1, <2>1, <1>t DEF AfterOwner, Reached
        <4> QED BY <2>1, <2>3, <4>1, <1>p
      <3>2. CASE goal # "policy" /\ pc' = "fail"
        <4>1. ck.kind = "invalid"
          BY <2>1, <2>3, <3>2, <1>t DEF AfterOwner, Place, Disposing
        <4> QED BY <2>1, <3>2, <4>1, <1>f
      <3>3. CASE goal # "policy" /\ pc' # "fail"
        BY <2>3, <3>3, <1>g, <1>o DEF AfterOwner, Disposing
      <3> QED BY <3>1, <3>2, <3>3
    <2> QED BY <2>2, <2>3, <1>o DEF Disposing
  <1>9. CASE Validate \/ Complete \/ Fail
    <2>1. Complete => goal' # "policy"
      BY <1>t DEF Complete, Goto, Volatile, Place
    <2> QED BY <1>9, <2>1, <1>g, <1>o DEF Validate, Complete, Fail, Goto, Off, Disposing
  <1>10. CASE Unbind
    <2>1. pc' = "off" \/ (goal = "policy" /\ pc' = "fail")
      BY <1>10 DEF Unbind, Off
    <2>2. CASE goal = "policy" /\ pc' = "fail"
      <3>1. ~Send /\ ~Live(ck.gen + 1)
        BY <1>10, <2>2, <1>t DEF Unbind, Send, Place, Reached, Tried
      <3> QED BY <2>2, <3>1, <1>f
    <2> QED BY <2>1, <2>2, <1>o DEF Disposing
  <1>11. CASE \/ Close \/ (\E s \in Server : ServerDies(s))
              \/ \E b \in Attempts : Deliver(b) \/ TurnEnds(b) \/ Violate(b)
    <2>1. UNCHANGED <<ck, att, pc, cur, goal, outcome>>
      BY <1>11 DEF Close, ServerDies, Deliver, TurnEnds, Violate, ledger, Volatile
    <2>2. ~Send
      BY <2>1 DEF Send, Goto
    <2> QED BY <2>1, <2>2, <1>s
  <1>12. \/ pc' \notin {"relaunch", "read", "decide", "fail", "unbind"} \cup Disposing
         \/ Resume \/ Replay \/ Recover \/ (Relaunch \/ Read \/ ReadFails) \/ Decide
         \/ (Preflight \/ Refuse) \/ Classify \/ (Dispose \/ Release \/ Receipt \/ ReleaseFails)
         \/ (Validate \/ Complete \/ Fail) \/ Unbind
         \/ Close \/ (\E s \in Server : ServerDies(s)) \/ \E b \in Attempts : Deliver(b) \/ TurnEnds(b) \/ Violate(b)
    BY DEF Disposing, Next, Enter, Work, World, Recovery, Dispatch, Waiting,
       Settling, Begin, Prepare, Claim, Boot, Launch, Incapable, Configure, Bind, NotDispatched,
       Reserve, Intent, Send, Ack, NoAck, TearDown, TearDownUnverified, OverBudget, FoulEvent,
       TurnEvent, Answer, TurnFails, TransportLost, Stop, StopTurn, StopUnverified, Save,
       TurnErrors, Crash, Goto, Volatile, Off
  <1> QED BY <1>1, <1>2, <1>3, <1>4, <1>5, <1>6, <1>7, <1>8, <1>9, <1>10, <1>11, <1>12, <1>o
-----------------------------------------------------------------------------
(* Verdicts, and the shutdown recorded before them.                          *)
LEMMA ShutPart == ASSUME IInv, Next PROVE Shut'
  <1>t. /\ cur \in Attempts /\ Types /\ Place /\ Kept /\ Order(cur) /\ Turn /\ Shut /\ A = att[cur] /\ A \in Record
        /\ att \in [Attempts -> Record] /\ Truth(cur) /\ held \in 0..MaxAttempt
        /\ cur \in Nat /\ cur > 0 /\ ck.gen \in Nat
    BY Bounds DEF IInv, Core, Types, A, Attempts, Checkpoint
  <1>k. \A r : Note(r) => att'[cur] = r
    BY <1>t DEF Note
  <1>1. pc' \in {"complete", "unbind"} /\ held' = cur' => A'.disposal = "completed"
    <2> SUFFICES ASSUME pc' \in {"complete", "unbind"}, held' = cur' PROVE A'.disposal = "completed"
      OBVIOUS
    <2>1. CASE Dispose \/ Release \/ Receipt \/ ReleaseFails
      <3>1. cur' = cur /\ held' = held /\ A' = att'[cur] /\ pc' = AfterOwner
        BY <2>1 DEF Dispose, Release, Receipt, ReleaseFails, Goto, Volatile, Off, ledger, A
      <3>2. A.status # "absent"
        BY <3>1, <1>t DEF Kept
      <3>3. ~Resolved(A)
        BY <1>t DEF Order, Resolved
      <3>4. CASE Release
        <4>1. Settled(A) /\ att' = att
          BY <2>1, <3>1, <3>2, <3>4 DEF Release, Goto, ledger
        <4> QED BY <3>1, <3>3, <4>1, <1>t DEF Settled, Confirmed
      <3>5. CASE Receipt
        BY <3>1, <3>5, <1>k, <1>t DEF Receipt, Owned, Record
      <3>6. CASE Dispose
        BY <3>6 DEF Dispose
      <3>7. CASE ReleaseFails
        BY <3>3, <3>7 DEF ReleaseFails, Off
      <3> QED BY <2>1, <3>4, <3>5, <3>6, <3>7
    <2>2. CASE Replay
      <3>1. op = "completed" /\ cur' = Tried /\ held' = held /\ A' = att[cur']
        BY <2>2 DEF Replay, ledger, A
      <3> QED BY <3>1, <1>t DEF Shut, Tried
    <2>3. CASE UNCHANGED <<att, held, cur>> /\ pc \in {"complete", "unbind"}
      BY <2>3, <1>t DEF Shut, A
    <2>4. Complete \/ (Dispose \/ Release \/ Receipt \/ ReleaseFails) \/ Replay
          \/ (pc' = pc /\ UNCHANGED <<att, held, cur>>)
      BY DEF Next, Enter, Work, World, Recovery, Dispatch, Waiting, Settling, Begin, Resume,
         Recover, Relaunch, Read, ReadFails, Decide, Preflight, Prepare, Claim, Boot, Launch,
         Incapable, Refuse, Configure, Bind, NotDispatched, Reserve, Intent, Send, Ack, NoAck,
         TearDown, TearDownUnverified, OverBudget, FoulEvent, TurnEvent, Answer, TurnFails,
         TransportLost, Stop, StopTurn, StopUnverified, Classify, Save, Validate, Fail,
         Unbind, Deliver, TurnEnds, Violate, TurnErrors, ServerDies, Crash, Close, Goto,
         Volatile, Off, ledger
    <2>5. CASE Complete
      BY <2>5, <2>3 DEF Complete, Goto, Volatile
    <2> QED BY <2>1, <2>2, <2>3, <2>4, <2>5
  <1>2. op' = "completed" => /\ ck'.kind = "validated" /\ pc' \in {"off", "unbind"}
                             /\ held' = ck'.gen + 1 => att'[held'].disposal = "completed"
    <2> SUFFICES ASSUME op' = "completed"
                 PROVE  /\ ck'.kind = "validated" /\ pc' \in {"off", "unbind"}
                        /\ held' = ck'.gen + 1 => att'[held'].disposal = "completed"
      OBVIOUS
    <2>1. CASE Complete
      BY <2>1, <1>t DEF Complete, Goto, Place, Shut
    <2>2. CASE ~Complete
      <3>1. op = "completed"
        BY <2>2, OpMoves DEF Begin, Fail, Off
      <3>2. pc \in {"off", "unbind"} /\ ck.kind = "validated"
        BY <3>1, <1>t DEF Shut
      <3>3. Replay \/ Unbind \/ World
        BY <3>1, <3>2, <1>t DEF Next, Enter, Begin, Resume, Work, Recovery, Dispatch, Waiting,
           Settling, Recover, Relaunch, Read, ReadFails, Decide, Preflight, Prepare, Claim, Boot,
           Launch, Incapable, Refuse, Configure, Bind, NotDispatched, Reserve, Intent, Send, Ack,
           NoAck, TearDown, TearDownUnverified, OverBudget, FoulEvent, TurnEvent, Answer, TurnFails,
           TransportLost, Stop, StopTurn, StopUnverified, Classify, Save, Validate, Dispose, Release,
           Receipt, ReleaseFails, Complete, Fail
      <3>4. UNCHANGED <<ck, att>> /\ held' \in {held, 0}
        BY <3>3 DEF Replay, Unbind, World, Deliver, TurnEnds, Violate, ServerDies, TurnErrors,
           Crash,
           Close, ledger
      <3>5. pc' \in {"off", "unbind"}
        BY <3>1, <3>2, <3>3, <1>t DEF Replay, Unbind, World, Deliver, TurnEnds, Violate,
           ServerDies,
           TurnErrors, Crash, Close, Off, Volatile, Place
      <3> QED BY <3>1, <3>2, <3>4, <3>5, <1>t DEF Shut
    <2> QED BY <2>1, <2>2
  <1>3. op' = "failed" => pc' \in {"off", "unbind"} \cup Disposing
    <2> SUFFICES ASSUME op' = "failed" PROVE pc' \in {"off", "unbind"} \cup Disposing
      OBVIOUS
    <2>1. CASE Fail
      BY <2>1 DEF Fail, Off, Disposing
    <2>2. CASE ~Fail
      <3>1. op = "failed"
        BY <2>2, OpMoves DEF Begin, Complete
      <3>2. pc \in {"off", "unbind"} \cup Disposing
        BY <3>1, <1>t DEF Shut
      <3>3. \/ pc' \in {"off", pc, "unbind"} \cup Disposing
            \/ (Dispose \/ Release \/ Receipt \/ ReleaseFails) /\ pc' = AfterOwner /\ pc \in Disposing
            \/ Unbind /\ goal = "policy"
        BY <3>1, <3>2, <2>2 DEF Next, Enter, Work, World, Recovery, Dispatch, Waiting,
           Settling, Begin, Resume, Replay, Recover, Relaunch, Read, ReadFails, Decide,
           Preflight, Prepare, Claim, Boot, Launch, Incapable, Refuse, Configure, Bind,
           NotDispatched, Reserve, Intent, Send, Ack, NoAck, TearDown, TearDownUnverified,
           OverBudget, FoulEvent, TurnEvent, Answer, TurnFails, TransportLost, Stop, StopTurn,
           StopUnverified, Classify, Save, Validate, Dispose, Release, Receipt, ReleaseFails,
           Complete, Fail, Unbind, Deliver, TurnEnds, Violate, TurnErrors, ServerDies, Crash,
           Close, Goto, Volatile, Off, Disposing
      <3>4. pc \in Disposing => AfterOwner = "unbind"
        BY <3>1, <1>t DEF Place, AfterOwner
      <3>5. ~(Unbind /\ goal = "policy")
        BY <3>1, <1>t DEF Place, Unbind
      <3> QED BY <3>2, <3>3, <3>4, <3>5
    <2> QED BY <2>1, <2>2
  <1> QED BY <1>1, <1>2, <1>3 DEF Shut

LEMMA StepHolds == ASSUME IInv, [Next]_vars PROVE IInv'
  <1>1. CASE Next
    <2>1. TypeOK' /\ Core'
      BY <1>1, TypePart, CoreStep DEF IInv, Core
    <2> QED BY <1>1, <2>1, OrderPart, KeptPart, ReachedPart, ShutPart DEF IInv
  <1>2. CASE UNCHANGED vars
    <2>1. UNCHANGED <<op, ck, att, held, server, started, turn, home, foul, pc, cur, goal, outcome,
                      allow, seen, need, owner, proc, caller, faults>>
      BY <1>2 DEF vars, ledger, outside, adapter
    <2>2. TypeOK' /\ Core'
      BY <2>1, CoreKept DEF IInv, TypeOK, Types
    <2>3. \A a \in Attempts : Order(a)'
      BY <2>1 DEF IInv, Order, Clean, Live
    <2>4. Kept' /\ Shut'
      BY <2>1 DEF IInv, Kept, Shut, A, StoppedRecord, OpenCleanup
    <2>5. Reached'
      BY <2>1 DEF IInv, Reached, A, Live, StoppedRecord, OpenCleanup
    <2> QED BY <2>2, <2>3, <2>4, <2>5 DEF IInv
  <1> QED BY <1>1, <1>2

LEMMA Inductive == Spec => []IInv
  BY InitHolds, StepHolds, PTL DEF Spec
-----------------------------------------------------------------------------
(* The results.                                                              *)

(* Every variable keeps its type: a checkpoint names an attempt there is,    *)
(* and a record only what provider_checkpoints.py writes into one.           *)
THEOREM TypesHold == Spec => []TypeOK
  <1>1. IInv => TypeOK
    BY DEF IInv
  <1> QED BY <1>1, Inductive, PTL

(* A model turn that may act has an unfinished operation and an authorized   *)
(* attempt, and that attempt holds the conversation, however crashes and     *)
(* late deliveries fall: operations.py claims before it dispatches and lets  *)
(* go only after the shutdown.                                               *)
THEOREM LiveTurnsAreOwned == Spec => []LiveTurnIsOwned
  <1>1. IInv => LiveTurnIsOwned
    BY LiveIsCurrent DEF LiveTurnIsOwned
  <1> QED BY <1>1, Inductive, PTL

(* Recovery (CodexProvider.recover) never calls stopped, and never retries,  *)
(* an attempt whose turn may still act.                                      *)
THEOREM RecoveryIsSound == Spec => []SentIsNotCalledStopped
  <1>1. IInv => SentIsNotCalledStopped
    <2>1. IInv /\ pc = "decide" /\ outcome = "stopped" => cur \in Attempts /\ StoppedRecord(att[cur])
      BY DEF IInv, Core, Reached, Types, A
    <2> QED BY <2>1, StoppedIsStopped DEF IInv, SentIsNotCalledStopped
  <1> QED BY <1>1, Inductive, PTL

(* A turn that completed within the policy and whose answer is recorded is   *)
(* never repeated: no attempt after it was sent.                             *)
THEOREM AnswersAreNotRepeated == Spec => []RecordedAnswerEndsSending
  <1>1. IInv => RecordedAnswerEndsSending
    <2> SUFFICES ASSUME IInv, NEW a \in Attempts, NEW b \in Attempts, att[a].answer, ~foul[a], a < b
                 PROVE  turn[b] = "none"
      BY DEF RecordedAnswerEndsSending
    <2>1. /\ Order(a) /\ Blank(b) /\ Truth(b) /\ a \in Nat /\ b \in Nat /\ ck.gen \in Nat
      BY Bounds DEF IInv, Core, Types, Checkpoint
    <2>2. a > ck.gen
      BY <2>1 DEF Order, Clean
    <2> QED BY <2>1, <2>2 DEF Blank, Truth
  <1> QED BY <1>1, Inductive, PTL

(* The conversation is released only when the record of the attempt that     *)
(* held it says that its server is gone (finish_owner before                 *)
(* SessionBinding.finish).                                                   *)
THEOREM ReleaseFollowsShutdown == Spec => ReleasedAfterShutdown
  <1>1. IInv /\ [Next]_vars =>
          [held # 0 /\ held' = 0 => att[held].disposal = "completed"]_<<held>>
    <2> SUFFICES ASSUME IInv, [Next]_vars, held # 0, held' = 0
                 PROVE  att[held].disposal = "completed"
      OBVIOUS
    <2>1. Next
      BY DEF vars, ledger
    <2>2. Unbind
      BY <2>1, HeldMoves, Bounds DEF Claim, IInv, Core, Types, Attempts
    <2> QED BY <2>2 DEF Unbind, IInv, Shut, A
  <1> QED BY <1>1, Inductive, PTL DEF Spec, ReleasedAfterShutdown

(* Seen from outside the operation is ProviderTurns: turns are sent one      *)
(* after the other, none beside a live one or after a recorded answer, and   *)
(* no verdict falls while a turn may act.                                    *)
sentAll == {a \in Attempts : turn[a] # "none"}
liveAll == {a \in Attempts : Live(a)}
answeredNow == IF ck.kind \in Answered THEN ck.gen + 1 ELSE 0
verdictNow == IF op \in {"completed", "failed"} THEN op ELSE "open"

THEOREM ImplementsTurns == Spec => RefinesTurns
  <1>1. Init => Turns!Init
    BY DEF Init, Turns!Init, Live, Empty, Answered
  <1>2. IInv /\ [Next]_vars => [Turns!Next]_(Turns!turns)
    <2> SUFFICES ASSUME IInv, [Next]_vars PROVE Turns!Next \/ UNCHANGED Turns!turns
      OBVIOUS
    <2>t. /\ cur \in Attempts /\ cur \in Nat /\ ck.gen \in Nat /\ Place /\ Turn /\ Reached /\ Shut /\ A = att[cur]
          /\ turn \in [Attempts -> {"none", "wire", "running", "completed", "stopped"}] /\ Types
          /\ \A a \in Attempts : Truth(a) /\ Blank(a) /\ a \in Nat
          /\ ck \in Checkpoint
      BY Bounds DEF IInv, Core, Types, Checkpoint, A
    <2>d. /\ Turns!Next <=> \/ \E a \in Attempts : Turns!Send(a) \/ Turns!Answer(a)
                            \/ \E s \in SUBSET liveAll : Turns!Quieten(s)
                            \/ \E v \in {"completed", "failed"} : Turns!Conclude(v)
          /\ UNCHANGED <<sentAll, liveAll, answeredNow, verdictNow>> => UNCHANGED Turns!turns
      BY DEF Turns!Next, Turns!turns, sentAll, liveAll, answeredNow, verdictNow
    <2>l. \A a \in Attempts : Live(a) => a = ck.gen + 1 /\ ck.kind = "intent" /\ op = "open"
      BY LiveIsCurrent
    <2>1. CASE UNCHANGED vars
      <3>1. UNCHANGED <<sentAll, liveAll, answeredNow, verdictNow>>
        BY <2>1 DEF vars, ledger, outside, sentAll, liveAll, answeredNow, verdictNow, Live
      <3> QED BY <3>1, <2>d
    <2>2. CASE Send
      <3>1. /\ op = "open" /\ ck.kind = "intent" /\ cur = ck.gen + 1 /\ turn[cur] = "none"
            /\ UNCHANGED <<op, ck>> /\ turn' = [turn EXCEPT ![cur] = "wire"]
        BY <2>2, <2>t DEF Send, Place, Dispatching, Turn, Unsent, ledger
      <3>2. liveAll = {}
        BY <3>1, <2>l DEF liveAll, Live
      <3>3. \A b \in sentAll : b < cur
        <4> SUFFICES ASSUME NEW b \in Attempts, turn[b] # "none" PROVE b < cur
          BY DEF sentAll
        <4>1. att[b].status # "absent" /\ b # cur
          BY <3>1, <2>t DEF Truth
        <4> QED BY <3>1, <4>1, <2>t DEF Blank
      <3>4. sentAll' = sentAll \cup {cur} /\ liveAll' = {cur}
        BY <3>1, <3>2, <2>t DEF sentAll, liveAll, Live
      <3>5. answeredNow = 0 /\ answeredNow' = 0 /\ verdictNow = "open" /\ verdictNow' = "open"
        BY <3>1 DEF answeredNow, verdictNow, Answered
      <3>6. PICK a \in Attempts : a = cur
        BY <2>t
      <3>7. Turns!Send(a)
        BY <3>2, <3>3, <3>4, <3>5, <3>6 DEF Turns!Send, sentAll, liveAll, answeredNow,
           verdictNow
      <3> QED BY <3>7, <2>d
    <2>3. CASE Next /\ ck' # ck
      <3>1. Decide \/ Preflight \/ Refuse \/ OverBudget \/ Save \/ Validate
        BY <2>3, CkMoves
      <3>2. UNCHANGED <<turn, op>>
        BY <3>1 DEF Decide, Preflight, Refuse, OverBudget, Save, Validate, outside
      <3>3. UNCHANGED <<sentAll, liveAll, verdictNow>>
        BY <3>2 DEF sentAll, liveAll, verdictNow, Live
      <3>4. ASSUME A.answer, cur = ck.gen + 1, ck.kind = "intent", op = "open",
                   ck' = ck0("responded", cur - 1)
            PROVE  Turns!Next
        <4>1. turn[cur] = "completed"
          BY <3>4, <2>t DEF Truth
        <4>2. cur \in sentAll /\ liveAll = {}
          BY <4>1, <3>4, <2>l, <2>t DEF sentAll, liveAll, Live
        <4>3. answeredNow = 0 /\ answeredNow' = cur /\ verdictNow = "open"
          BY <3>4, <2>t DEF answeredNow, verdictNow, Answered, ck0
        <4>4. PICK a \in Attempts : a = cur
          BY <2>t
        <4>5. Turns!Answer(a)
          BY <3>3, <4>2, <4>3, <4>4 DEF Turns!Answer, sentAll, liveAll, answeredNow, verdictNow
        <4> QED BY <4>5, <2>d
      <3>5. CASE Save
        BY <3>5, <3>4, <2>t DEF Save, Place, Dispatching, Turn
      <3>6. CASE Decide
        <4>1. CASE outcome = "completed" /\ ck' = ck0("responded", cur - 1)
          <5>1. /\ A.answer /\ ck.kind = "intent" /\ op = "open" /\ cur = Tried
            BY <3>6, <4>1, <2>t DEF Decide, Reached, Place, Recovering
          <5> QED BY <5>1, <4>1, <3>4 DEF Tried
        <4>2. CASE ck.kind = "intent" /\ ck'.kind = "retry"
          <5>1. UNCHANGED answeredNow
            BY <4>2 DEF answeredNow, Answered
          <5> QED BY <5>1, <3>3, <2>d
        <4> QED BY <2>3, <3>6, <4>1, <4>2 DEF Decide
      <3>7. CASE Preflight \/ Refuse \/ OverBudget
        <4>1. ck.kind \notin Answered /\ ck'.kind \notin Answered
          BY <2>3, <3>7, <2>t DEF Preflight, Refuse, OverBudget, ck0, Answered, Place,
             Dispatching
        <4>2. UNCHANGED answeredNow
          BY <4>1 DEF answeredNow
        <4> QED BY <4>2, <3>3, <2>d
      <3>8. CASE Validate
        <4>1. ck.kind \in Answered /\ ck'.kind \in Answered /\ ck'.gen = ck.gen
          BY <2>3, <3>8, <2>t DEF Validate, Answered, Place, Checkpoint
        <4>2. UNCHANGED answeredNow
          BY <4>1 DEF answeredNow
        <4> QED BY <4>2, <3>3, <2>d
      <3> QED BY <3>1, <3>5, <3>6, <3>7, <3>8
    <2>4. CASE Complete \/ Fail
      <3>1. op = "open" /\ liveAll = {}
        BY <2>4, <2>l, <2>t DEF Complete, Fail, Place, Reached, liveAll
      <3>2. UNCHANGED <<ck, turn>>
        BY <2>4 DEF Complete, Fail, outside
      <3>3. UNCHANGED <<sentAll, liveAll, answeredNow>>
        BY <3>2 DEF sentAll, liveAll, answeredNow, Live
      <3>4. Complete => answeredNow # 0
        BY <2>t DEF Complete, Place, answeredNow, Answered
      <3>5. verdictNow = "open" /\ verdictNow' = op' /\ op' \in {"completed", "failed"}
            /\ (op' = "completed" => Complete)
        BY <2>4, <3>1 DEF verdictNow, Complete, Fail
      <3>6. Turns!Conclude(op')
        BY <3>1, <3>3, <3>4, <3>5 DEF Turns!Conclude, sentAll, liveAll, answeredNow, verdictNow
      <3> QED BY <3>5, <3>6, <2>d
    <2>5. CASE Next /\ ck' = ck /\ ~Send /\ ~Complete /\ ~Fail
      <3>1. UNCHANGED answeredNow
        BY <2>5 DEF answeredNow
      <3>2. UNCHANGED verdictNow
        BY <2>5, OpMoves DEF verdictNow, Begin
      <3>3. \A a \in Attempts : /\ turn'[a] = "none" <=> turn[a] = "none"
                                /\ Live(a)' => Live(a)
        BY <2>5, <2>t, TurnMoves DEF Live
      <3>4. UNCHANGED sentAll /\ liveAll' \in SUBSET liveAll
        BY <3>3 DEF sentAll, liveAll
      <3> DEFINE gone == liveAll \ liveAll'
      <3>5. gone \in SUBSET liveAll /\ liveAll' = liveAll \ gone
        BY <3>4
      <3>6. Turns!Quieten(gone)
        BY <3>1, <3>2, <3>4, <3>5 DEF Turns!Quieten, sentAll, liveAll, answeredNow, verdictNow
      <3> QED BY <3>5, <3>6, <2>d
    <2> QED BY <2>1, <2>2, <2>3, <2>4, <2>5 DEF Send, ledger, Complete, Fail
  <1> QED BY <1>1, <1>2, Inductive, PTL DEF Spec, RefinesTurns, Turns!Spec
=============================================================================
