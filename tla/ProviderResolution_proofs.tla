----------------------- MODULE ProviderResolution_proofs -----------------------
(***************************************************************************)
(* What an operator's choices leave standing, for any number of attempts,   *)
(* servers, faults and choices: two turns act at once only where the        *)
(* operator overrode the older one, an operation that is not retry_safe     *)
(* sends one turn and one more for each choice, a clean answer is never     *)
(* lost to a retry, no verdict or number goes back, and nothing is sent     *)
(* while a choice is recorded.                                              *)
(*                                                                         *)
(* Core, from ProviderOperation_proofs, holds here as well; what an         *)
(* operation without an operator knows beyond it (its Order and Reached) is *)
(* weaker: an earlier turn may act if it was waived.                        *)
(***************************************************************************)
EXTENDS ProviderResolution, ProviderOperation_proofs, FiniteSetTheorems

(* Where a resolution is once it holds a choice, and once that has taken     *)
(* effect on the row.                                                        *)
Carrying == {"persist", "settle", "let_go", "apply"}
Late     == {"reclaim", "free", "reconcile"}

(* An attempt the checkpoint has left behind acts only if it was waived, and *)
(* it has no clean answer: one was adopted if there was one.                 *)
Waived(a) ==
    /\ a <= ck.gen /\ Live(a) => a \in waived
    /\ a < ck.gen \/ (a = ck.gen /\ (ck.kind # "retry" \/ pc = "preflight")) => ~Clean(a)

(* Where a resolution may be, and on which operation.                        *)
Choosing ==
    /\ caller = "resolve" => op \in {"open", "failed"}
    /\ pc \in Carrying \cup Late => caller = "resolve"
    /\ pc \in Carrying => cur = Tried
    /\ pc = "reclaim" => cur = ck.gen
    /\ selected # "none" => pc = "off" \/ caller = "resolve"
    /\ caller = "resolve" /\ ck.kind \in Answered =>
          /\ pc \notin {"recover", "relaunch", "read"}
          /\ goal = "retry" /\ pc \notin Late => outcome = "completed"

(* What recovery established about the attempt in hand, until it is used.    *)
Known ==
    /\ pc \in {"relaunch", "read"} => ~Clean(cur)
    /\ pc = "decide" /\ outcome \in {"stopped", "unknown"} => ~Clean(cur)
    /\ pc = "decide" /\ outcome = "stopped" => ~Live(cur)
    /\ pc \in Carrying /\ Retrying => ~Clean(cur) /\ (Live(cur) => cur \in waived)

(* Without retry_safe every new attempt number is paid for by a choice.      *)
Counted ==
    /\ choices \in Nat
    /\ ~RetrySafe =>
         /\ ~allow /\ ck.origin # "automatic" /\ ck.gen <= choices
         /\ (selected # "none" \/ caller = "resolve") /\ ck.kind # "retry" => ck.gen + 1 <= choices

RInv == Core /\ (\A a \in Attempts : Waived(a)) /\ Choosing /\ Known /\ Counted

(* Only a failure cleans up, so a retry is overruled by any answer.          *)
LEMMA RetryingUnanswered ==
    /\ Retrying <=> goal = "retry" /\ outcome # "completed"
    /\ Retrying' <=> goal' = "retry" /\ outcome' # "completed"
  BY DEF Retrying, Adopting, CleansUp
-----------------------------------------------------------------------------
LEMMA RInitHolds == RInit => RInv
  <1> SUFFICES ASSUME RInit PROVE RInv
    OBVIOUS
  <1>1. Core /\ Init
    BY InitHolds DEF RInit, IInv
  <1>2. \A a \in Attempts : Waived(a)
    BY <1>1 DEF Init, Waived, Clean, Live, NoAttempt
  <1>3. Choosing /\ Known /\ Counted
    BY <1>1 DEF Init, RInit, Choosing, Known, Counted, Carrying, Late, Empty
  <1> QED BY <1>1, <1>2, <1>3 DEF RInv
-----------------------------------------------------------------------------
(* What the operation's own steps do while a resolution is under way.        *)

(* A call ends only by leaving the operation.                                *)
LEMMA CallerStays ==
    ASSUME Next
    PROVE  caller' = caller \/ (pc' = "off" /\ caller' = "execute")
  BY DEF Next, Enter, Work, World, Recovery, Dispatch, Waiting, Settling, Begin,
     Resume, Replay, Recover, Relaunch, Read, ReadFails, Decide, Preflight, Prepare, Claim,
     Boot, Launch, Incapable, Refuse, Configure, Bind, NotDispatched, Reserve, Intent, Send,
     Ack, NoAck, TearDown, TearDownUnverified, OverBudget, FoulEvent, TurnEvent, Answer,
     TurnFails, TransportLost, Stop, StopTurn, StopUnverified, Classify, Save, Validate,
     Dispose, Release, Receipt, ReleaseFails, Complete, Fail, Unbind, Deliver, TurnEnds,
     Violate, TurnErrors, ServerDies, Crash, Close, Goto, Volatile, Off

(* In a resolution the operation's actions only recover.                     *)
LEMMA ResolutionRecovers ==
    ASSUME Core, Next, caller = "resolve"
    PROVE  \/ pc' = "off" /\ caller' = "execute" /\ UNCHANGED ledger
           \/ UNCHANGED <<ledger, pc, Volatile>>
           \/ Recover \/ Relaunch \/ Read \/ ReadFails
  <1>1. pc \notin Label \ Recovering
    BY DEF Core, Place
  <1>2. CASE Enter \/ Decide
    BY <1>1, <1>2 DEF Enter, Begin, Resume, Replay, Decide, Label, Recovering
  <1>3. CASE Dispatch
    BY <1>1, <1>3 DEF Dispatch, Preflight, Prepare, Claim, Boot, Launch, Incapable, Refuse,
       Configure, Bind, NotDispatched, Reserve, Intent, Send, Ack, NoAck, TearDown,
       TearDownUnverified, OverBudget, Label, Recovering
  <1>4. CASE Waiting \/ Settling
    BY <1>1, <1>4 DEF Waiting, Settling, FoulEvent, TurnEvent, Answer, TurnFails,
       TransportLost, Stop, StopTurn, StopUnverified, Classify, Save, Validate, Dispose, Release,
       Receipt, ReleaseFails, Complete, Fail, Unbind, Label, Recovering
  <1>5. CASE World
    BY <1>1, <1>5 DEF World, Deliver, TurnEnds, Violate, ServerDies, TurnErrors, Crash, Close,
       Off, Label, Recovering
  <1> QED BY <1>2, <1>3, <1>4, <1>5 DEF Next, Work, Recovery

(* None of them enters the part of a resolution that carries a choice out.   *)
LEMMA CarryingStays ==
    ASSUME Next, pc' \in Carrying \cup Late
    PROVE  UNCHANGED <<ledger, pc, Volatile>>
  BY DEF Carrying, Late, Next, Enter, Work, World, Recovery, Dispatch, Waiting, Settling, Begin,
     Resume, Replay, Recover, Relaunch, Read, ReadFails, Decide, Preflight, Prepare, Claim,
     Boot, Launch, Incapable, Refuse, Configure, Bind, NotDispatched, Reserve, Intent, Send,
     Ack, NoAck, TearDown, TearDownUnverified, OverBudget, FoulEvent, TurnEvent, Answer,
     TurnFails, TransportLost, Stop, StopTurn, StopUnverified, Classify, Save, Validate,
     Dispose, Release, Receipt, ReleaseFails, Complete, Fail, Unbind, Deliver, TurnEnds,
     Violate, TurnErrors, ServerDies, Crash, Close, Goto, Off, AfterOwner, Volatile

(* Only entering starts anything.                                            *)
LEMMA OffStays ==
    ASSUME Next, pc = "off"
    PROVE  Enter \/ pc' = "off"
  BY DEF Next, Work, World, Recovery, Dispatch, Waiting, Settling,
     Recover, Relaunch, Read, ReadFails, Decide, Preflight, Prepare, Claim,
     Boot, Launch, Incapable, Refuse, Configure, Bind, NotDispatched, Reserve, Intent, Send,
     Ack, NoAck, TearDown, TearDownUnverified, OverBudget, FoulEvent, TurnEvent, Answer,
     TurnFails, TransportLost, Stop, StopTurn, StopUnverified, Classify, Save, Validate,
     Dispose, Release, Receipt, ReleaseFails, Complete, Fail, Unbind, Deliver, TurnEnds,
     Violate, TurnErrors, ServerDies, Crash, Close, Goto, Off, Volatile

(* How preflight, the native inspection and a decision are reached.          *)
LEMMA Reaching ==
    ASSUME Next
    PROVE  /\ pc' = "preflight" => pc = "preflight" \/ Begin \/ Resume \/ Decide
           /\ pc' \in {"relaunch", "read", "decide"} =>
                 \/ UNCHANGED <<ledger, pc, Volatile>>
                 \/ Recover \/ Relaunch \/ Read \/ ReadFails
                 \/ Decide /\ UNCHANGED <<att, pc, Volatile>>
  <1>1. pc' = "preflight" => pc = "preflight" \/ Begin \/ Resume \/ Decide
    BY DEF Next, Enter, Work, World, Recovery, Dispatch, Waiting, Settling,
     Replay, Recover, Relaunch, Read, ReadFails, Preflight, Prepare, Claim,
     Boot, Launch, Incapable, Refuse, Configure, Bind, NotDispatched, Reserve, Intent, Send,
     Ack, NoAck, TearDown, TearDownUnverified, OverBudget, FoulEvent, TurnEvent, Answer,
     TurnFails, TransportLost, Stop, StopTurn, StopUnverified, Classify, Save, Validate,
     Dispose, Release, Receipt, ReleaseFails, Complete, Fail, Unbind, Deliver, TurnEnds,
     Violate, TurnErrors, ServerDies, Crash, Close, Goto, Off, AfterOwner, Volatile
  <1>2. pc' \in {"relaunch", "read", "decide"} =>
                 \/ UNCHANGED <<ledger, pc, Volatile>>
                 \/ Recover \/ Relaunch \/ Read \/ ReadFails
                 \/ Decide /\ UNCHANGED <<att, pc, Volatile>>
    BY DEF Next, Enter, Work, World, Recovery, Dispatch, Waiting, Settling, Begin, Resume,
     Replay, Decide, Preflight, Prepare, Claim,
     Boot, Launch, Incapable, Refuse, Configure, Bind, NotDispatched, Reserve, Intent, Send,
     Ack, NoAck, TearDown, TearDownUnverified, OverBudget, FoulEvent, TurnEvent, Answer,
     TurnFails, TransportLost, Stop, StopTurn, StopUnverified, Classify, Save, Validate,
     Dispose, Release, Receipt, ReleaseFails, Complete, Fail, Unbind, Deliver, TurnEnds,
     Violate, TurnErrors, ServerDies, Crash, Close, Goto, Off, AfterOwner, Volatile
  <1> QED BY <1>1, <1>2

(* A turn breaks the policy for good.                                        *)
LEMMA FoulStays ==
    ASSUME Types, Next, NEW a \in Attempts, foul[a] PROVE foul'[a]
  <1>1. CASE Send
    BY <1>1 DEF Send
  <1>2. foul[a] \in BOOLEAN
    BY DEF Types
  <1> QED BY <1>1, <1>2, TurnMoves
-----------------------------------------------------------------------------
(* The operation's own steps keep the invariant.                             *)

(* A checkpoint's number moves only when a decision adopts or repeats.       *)
LEMMA CkNumbers ==
    ASSUME Core, Next, ck' # ck
    PROVE  \/ /\ Decide /\ outcome = "completed" /\ ck.kind \in {"intent", "retry"}
              /\ ck'.gen = Tried - 1 /\ ck'.kind = "responded" /\ ck'.origin = "none"
           \/ /\ Decide /\ outcome = "stopped" /\ ck.kind = "intent" /\ allow
              /\ cur = ck.gen + 1 /\ pc' = "decide"
              /\ ck'.gen = ck.gen + 1 /\ ck'.kind = "retry" /\ ck'.origin = "automatic"
           \/ /\ ck.kind \in {"empty", "intent", "retry"} /\ (ck.kind = "retry" => pc = "preflight")
              /\ ck'.gen = ck.gen /\ ck'.kind \notin {"empty", "retry"} /\ ck'.origin = "none"
           \/ /\ ck.kind \in {"responded", "validated"} /\ ck'.kind \in {"validated", "invalid"}
              /\ ck'.gen = ck.gen /\ ck'.origin = ck.origin
  <1>t. Place /\ ck \in Checkpoint /\ ck.gen \in Nat
    BY Bounds DEF Core, Types, Checkpoint
  <1>1. CASE Decide /\ outcome = "completed" /\ ck' = ck0("responded", Tried - 1)
    BY <1>1, <1>t DEF ck0, Decide, Place, Recovering
  <1>2. CASE /\ Decide /\ outcome = "stopped" /\ ck.kind = "intent" /\ allow /\ cur = ck.gen + 1
             /\ ck' = [kind |-> "retry", gen |-> ck.gen + 1, origin |-> "automatic"]
    BY <1>2 DEF Decide, ck0
  <1>3. ASSUME ck.kind \in {"empty", "retry", "intent"},
               NEW kind \in {"intent", "refused", "overBudget", "responded"}, ck' = ck0(kind, ck.gen),
               Preflight \/ Save \/ Refuse \/ OverBudget
        PROVE  /\ ck.kind = "retry" => pc = "preflight"
               /\ ck'.gen = ck.gen /\ ck'.kind \notin {"empty", "retry"} /\ ck'.origin = "none"
    <2>1. Refuse \/ OverBudget \/ Save => ck.kind = "intent"
      BY <1>t DEF Refuse, OverBudget, Save, Dispatching, Place
    <2> QED BY <2>1, <1>3 DEF ck0, Preflight
  <1>4. ASSUME ck.kind \in {"responded", "validated"}, NEW kind \in {"validated", "invalid"},
               ck' = [ck EXCEPT !.kind = kind]
        PROVE  ck'.kind \in {"validated", "invalid"} /\ ck'.gen = ck.gen /\ ck'.origin = ck.origin
    BY <1>4, <1>t DEF Checkpoint
  <1> QED BY <1>1, <1>2, <1>3, <1>4, CkSteps

LEMMA WaivedPart == ASSUME RInv, Next, UNCHANGED waived, NEW a \in Attempts PROVE Waived(a)'
  <1>t. /\ Core /\ Types /\ Place /\ Checked /\ Waived(a) /\ Choosing /\ Known
        /\ ck.gen \in Nat /\ a \in Nat /\ cur \in Attempts /\ ck \in Checkpoint
    BY Bounds DEF RInv, Core, Types, Checkpoint
  <1>l. Live(a)' => Live(a) \/ (Send /\ a = cur)
    BY <1>t, QuietStays
  <1>c. ck'.gen \in Nat /\ ck'.gen <= ck.gen + 1
    <2>1. CASE ck' = ck
      BY <2>1, <1>t
    <2>2. CASE ck' # ck
      BY <2>2, <1>t, CkNumbers DEF Tried, Checked
    <2> QED BY <2>1, <2>2
  <1>1. ASSUME a <= ck'.gen, Live(a)' PROVE a \in waived'
    <2>1. CASE Send
      <3>1. cur = ck.gen + 1 /\ ck' = ck
        BY <2>1, <1>t DEF Send, Place, Dispatching, ledger
      <3> QED BY <3>1, <1>1, <1>l, <2>1, <1>t DEF Waived
    <2>2. CASE a <= ck.gen /\ ~Send
      BY <2>2, <1>1, <1>l, <1>t DEF Waived
    <2>3. CASE a > ck.gen /\ ~Send
      <3>1. a = ck.gen + 1 /\ ck' # ck
        BY <2>3, <1>1, <1>c, <1>t
      <3>2. Decide /\ outcome = "stopped" /\ cur = ck.gen + 1
        BY <3>1, <1>1, <1>t, CkNumbers DEF Tried, Checked
      <3>3. ~Live(cur)
        BY <3>2, <1>t DEF Decide, Known
      <3> QED BY <3>1, <3>2, <3>3, <1>1, <1>l, <2>3
    <2> QED BY <2>1, <2>2, <2>3, <1>t
  <1>2. ASSUME Clean(a)', ~Clean(a),
               a < ck'.gen \/ (a = ck'.gen /\ (ck'.kind # "retry" \/ pc' = "preflight"))
        PROVE  FALSE
    <2>1. att'[a].answer # att[a].answer
      BY <1>2, <1>t, FoulStays DEF Clean
    <2>2. a = Tried /\ ck' = ck
      BY <2>1, <1>t, NotesTried, CkSteps
    <2>3. pc \in Dispatching \cup {"relaunch", "read"}
      BY <2>1, <1>t, AnswerMoves
    <2>4. pc' # "preflight"
      BY <2>3, Reaching DEF Dispatching, Begin, Resume, Decide
    <2> QED BY <2>2, <2>4, <1>2, <1>t DEF Tried
  <1>3. ASSUME Clean(a), a < ck'.gen \/ (a = ck'.gen /\ (ck'.kind # "retry" \/ pc' = "preflight"))
        PROVE  FALSE
    <2>0. ~ (a < ck.gen \/ (a = ck.gen /\ (ck.kind # "retry" \/ pc = "preflight")))
      BY <1>3, <1>t DEF Waived
    <2>1. CASE ck' = ck
      <3>1. a = ck.gen /\ ck.kind = "retry" /\ pc' = "preflight" /\ pc # "preflight"
        BY <2>0, <2>1, <1>3, <1>t
      <3>2. Decide
        BY <3>1, <1>t, Reaching DEF Begin, Resume, Checked
      <3>3. cur = a /\ outcome \in {"stopped", "unknown"}
        BY <3>1, <3>2, <2>1, <1>t DEF Decide, Place, Recovering, Tried, ck0, Off
      <3> QED BY <3>2, <3>3, <1>3, <1>t DEF Known, Decide
    <2>2. CASE ck' # ck
      BY <2>2, <2>0, <1>3, <1>t, CkNumbers DEF Tried, Checked, Decide
    <2> QED BY <2>1, <2>2
  <1> QED BY <1>1, <1>2, <1>3 DEF Waived

LEMMA ChoosingPart ==
    ASSUME RInv, Next, UNCHANGED selected, Enter => selected = "none" PROVE Choosing'
  <1>t. Core /\ Place /\ Choosing /\ ck \in Checkpoint /\ Checked
    BY DEF RInv, Core, Types
  <1>c. caller' = caller \/ (pc' = "off" /\ caller' = "execute")
    BY CallerStays
  <1>1. caller' = "resolve" => op' \in {"open", "failed"}
    <2>1. ASSUME caller = "resolve" PROVE op' = op
      BY <2>1, <1>t, ResolutionRecovers DEF ledger, Recover, Relaunch, Read, ReadFails
    <2> QED BY <2>1, <1>c, <1>t DEF Choosing
  <1>2. /\ pc' \in Carrying \cup Late => caller' = "resolve"
        /\ pc' \in Carrying => cur' = Tried'
        /\ pc' = "reclaim" => cur' = ck'.gen
    <2>1. CASE pc' \in Carrying \cup Late
      BY <2>1, <1>t, CarryingStays DEF Choosing, ledger, Volatile, Tried
    <2> QED BY <2>1 DEF Late
  <1>3. selected' # "none" => pc' = "off" \/ caller' = "resolve"
    BY <1>c, <1>t, OffStays DEF Choosing
  <1>4. ASSUME caller' = "resolve", ck'.kind \in Answered
        PROVE  /\ pc' \notin {"recover", "relaunch", "read"}
               /\ goal' = "retry" /\ pc' \notin Late => outcome' = "completed"
    <2>1. caller = "resolve"
      BY <1>4, <1>c
    <2>2. CASE UNCHANGED <<ledger, pc, Volatile>>
      BY <2>1, <2>2, <1>4, <1>t DEF Choosing, ledger, Volatile
    <2>3. CASE Recover \/ Relaunch \/ Read \/ ReadFails
      <3>1. ck' = ck /\ pc \in {"recover", "relaunch", "read"}
        BY <2>3 DEF Recover, Relaunch, Read, ReadFails, ledger
      <3> QED BY <3>1, <2>1, <1>4, <1>t DEF Choosing
    <2> QED BY <2>1, <2>2, <2>3, <1>4, <1>t, ResolutionRecovers
  <1> QED BY <1>1, <1>2, <1>3, <1>4 DEF Choosing

LEMMA KnownPart == ASSUME RInv, Next, UNCHANGED waived PROVE Known'
  <1>t. /\ Core /\ Types /\ Place /\ Known /\ Choosing /\ Truth(cur) /\ cur \in Attempts
        /\ att \in [Attempts -> Record] /\ A = att[cur] /\ A \in Record
        /\ turn[cur] \in {"none", "wire", "running", "completed", "stopped"}
    BY DEF RInv, Core, Types, A
  <1>k. \A r : Note(r) => att'[cur] = r
    BY <1>t DEF Note
  <1>c. ASSUME att'[cur].answer = A.answer, ~Clean(cur), cur' = cur PROVE ~Clean(cur)'
    BY <1>c, <1>t, FoulStays DEF Clean
  <1>q. ASSUME ~Live(cur), cur' = cur, ~Send PROVE ~Live(cur)'
    BY <1>q, <1>t, QuietStays DEF Live
  <1>s. CASE UNCHANGED <<ledger, pc, Volatile>>
    <2>1. ~Send /\ cur' = cur /\ att' = att /\ outcome' = outcome /\ pc' = pc /\ goal' = goal /\ op' = op
      BY <1>s DEF Send, Goto, ledger, Volatile
    <2>2. ~Clean(cur) => ~Clean(cur)'
      BY <2>1, <1>c, <1>t
    <2>3. Live(cur)' => Live(cur)
      BY <2>1, <1>q
    <2>4. Retrying' <=> Retrying
      BY <2>1, RetryingUnanswered
    <2> QED BY <2>1, <2>2, <2>3, <2>4, <1>t DEF Known
  <1>1. CASE Recover
    <2>1. /\ cur' = cur /\ pc' \in {"relaunch", "decide"} /\ UNCHANGED <<turn, foul>>
          /\ \/ pc' = "relaunch" /\ FromLedger(A) = "native" /\ Note([A EXCEPT !.disposal = "pending"])
             \/ pc' = "decide" /\ outcome' = FromLedger(A) /\ att' = att
      BY <1>1 DEF Recover, outside
    <2>2. att'[cur].answer = A.answer
      BY <2>1, <1>k, <1>t DEF Record
    <2>3. FromLedger(A) # "completed" => ~Clean(cur)'
      BY <2>1, <2>2, <1>c, <1>t, StoppedRead
    <2>4. FromLedger(A) = "stopped" => ~Live(cur)'
      BY <2>1, <1>t, StoppedRead, StoppedIsStopped DEF Live
    <2> QED BY <2>1, <2>3, <2>4 DEF Known, Carrying
  <1>2. CASE Relaunch \/ ReadFails
    <2>1. /\ cur' = cur /\ att' = att /\ pc \in {"relaunch", "read"}
          /\ (pc' = "read" \/ (pc' = "decide" /\ outcome' = "unknown"))
      BY <1>2 DEF Relaunch, ReadFails, ledger, Volatile
    <2>2. ~Clean(cur)'
      BY <2>1, <1>c, <1>t DEF Known
    <2> QED BY <2>1, <2>2 DEF Known, Carrying
  <1>3. CASE Read
    <2>0. ~Clean(cur) /\ cur' = cur /\ foul' = foul /\ ~Send
      BY <1>3, <1>t DEF Read, Known, Send
    <2>1. CASE pc' = "read" /\ att' = att
      BY <2>1, <2>0, <1>c, <1>t DEF Known, Carrying
    <2>2. CASE pc' = "decide" /\ outcome' \notin {"stopped", "unknown"}
      BY <2>2 DEF Known, Carrying
    <2>3. CASE pc' = "decide" /\ outcome' = "unknown" /\ att'[cur].answer = A.answer
      BY <2>3, <2>0, <1>c DEF Known, Carrying
    <2>4. CASE pc' = "decide" /\ turn[cur] = "stopped" /\ att'[cur].answer = A.answer
      BY <2>4, <2>0, <1>c, <1>q DEF Known, Carrying, Live
    <2>5. \/ pc' = "read" /\ att' = att
          \/ pc' = "decide" /\ outcome' \notin {"stopped", "unknown"}
          \/ pc' = "decide" /\ outcome' = "unknown" /\ att'[cur].answer = A.answer
          \/ pc' = "decide" /\ turn[cur] = "stopped" /\ att'[cur].answer = A.answer
      <3>1. \A c \in {"completed", "incomplete"} :
              /\ Note([A EXCEPT !.cleanup = c]) => att'[cur].answer = A.answer
              /\ Note([A EXCEPT !.cleanup = c, !.status = "failed"]) => att'[cur].answer = A.answer
              /\ Note([A EXCEPT !.cleanup = c, !.policy = TRUE,
                    !.status = IF @ = "completed" THEN @ ELSE "failed"]) => att'[cur].answer = A.answer
        BY <1>k, <1>t DEF Record
      <3> QED BY <1>3, <3>1, <1>t DEF Read
    <2> QED BY <2>1, <2>2, <2>3, <2>4, <2>5
  <1>4. CASE Decide /\ UNCHANGED <<att, pc, Volatile>>
    <2>1. ~Send /\ cur' = cur /\ outcome' = outcome /\ pc' = "decide" /\ pc = "decide"
      BY <1>4 DEF Decide, Send, Volatile
    <2>2. ~Clean(cur) => ~Clean(cur)'
      BY <2>1, <1>4, <1>c, <1>t
    <2>3. Live(cur)' => Live(cur)
      BY <2>1, <1>q
    <2> QED BY <2>1, <2>2, <2>3, <1>t DEF Known, Carrying
  <1>5. CASE pc' \notin {"relaunch", "read", "decide"} \cup Carrying
    BY <1>5 DEF Known
  <1> QED BY <1>s, <1>1, <1>2, <1>3, <1>4, <1>5, Reaching, CarryingStays

LEMMA CountedPart ==
    ASSUME RInv, Next, UNCHANGED <<selected, choices>> PROVE Counted'
  <1>t. /\ Core /\ Place /\ Choosing /\ Counted /\ ck \in Checkpoint /\ ck.gen \in Nat /\ Checked
        /\ RetrySafe \in BOOLEAN
    BY Bounds DEF RInv, Core, Types, Checkpoint
  <1>1. SUFFICES ASSUME ~RetrySafe
                 PROVE  /\ ~allow' /\ ck'.origin # "automatic" /\ ck'.gen <= choices
                        /\ (selected # "none" \/ caller' = "resolve") /\ ck'.kind # "retry"
                              => ck'.gen + 1 <= choices
    BY <1>t DEF Counted
  <1>2. ~allow'
    <2>1. allow' \in {allow, RetrySafe, FALSE}
      BY DEF AllowedRetries, Next, Enter, Work, World, Recovery, Dispatch, Waiting, Settling,
         Begin, Resume, Replay, Recover, Relaunch, Read, ReadFails, Decide, Preflight,
         Prepare, Claim, Boot, Launch, Incapable, Refuse, Configure, Bind, NotDispatched,
         Reserve, Intent, Send, Ack, NoAck, TearDown, TearDownUnverified, OverBudget,
         FoulEvent, TurnEvent, Answer, TurnFails, TransportLost, Stop, StopTurn,
         StopUnverified, Classify, Save, Validate, Dispose, Release, Receipt, ReleaseFails,
         Complete, Fail, Unbind, Deliver, TurnEnds, Violate, TurnErrors, ServerDies, Crash,
         Close, Goto, Volatile, Off
    <2> QED BY <2>1, <1>1, <1>t DEF Counted
  <1>3. CASE ck' = ck
    BY <1>3, <1>1, <1>2, <1>t, CallerStays DEF Counted
  <1>4. CASE ck' # ck
    <2>1. ck'.origin # "automatic" /\ ck'.gen <= choices
      <3>1. ~allow /\ ck.origin # "automatic" /\ ck.gen <= choices
        BY <1>1, <1>t DEF Counted
      <3> QED BY <1>4, <3>1, <1>t, CkNumbers DEF Tried, Checked, Counted
    <2>2. selected = "none" /\ caller' = "execute"
      <3>1. pc # "off" /\ caller = "execute"
        BY <1>4, <1>t, CkMoves DEF Place, Decide, Preflight, Refuse, OverBudget, Save, Validate,
           Label, Recovering
      <3> QED BY <3>1, <1>t, CallerStays DEF Choosing
    <2> QED BY <1>2, <2>1, <2>2
  <1> QED BY <1>3, <1>4

LEMMA OperationStep ==
    ASSUME RInv, Next, UNCHANGED <<selected, waived, choices>>, Enter => selected = "none"
    PROVE  RInv'
  <1>1. Core'
    BY CoreStep DEF RInv
  <1> QED BY <1>1, WaivedPart, ChoosingPart, KnownPart, CountedPart DEF RInv
-----------------------------------------------------------------------------
(* The operator's steps keep it too.                                         *)

(* A resolution writes only what became of a server into a record, and only  *)
(* ends turns.                                                               *)
LEMMA OwnerSteps ==
    ASSUME Types, Settle \/ LetGo, NEW a \in Attempts
    PROVE  /\ att' \in [Attempts -> Record] /\ foul' = foul /\ UNCHANGED <<home, started, held, ck, op>>
           /\ att'[a].status = att[a].status /\ att'[a].answer = att[a].answer
           /\ att'[a].authorized = att[a].authorized /\ att'[a].policy = att[a].policy
           /\ turn'[a] = turn[a] \/ (Live(a) /\ turn'[a] = "stopped")
           /\ turn' \in [Attempts -> {"none", "wire", "running", "completed", "stopped"}]
           /\ server' \subseteq Server /\ owner' \in {"none", "open", "closed"} /\ proc' \in {0, proc}
  <1>t. /\ att \in [Attempts -> Record] /\ A = att[cur] /\ A \in Record /\ cur \in Attempts
        /\ turn \in [Attempts -> {"none", "wire", "running", "completed", "stopped"}]
        /\ server \subseteq Server /\ owner \in {"none", "open", "closed"}
    BY DEF Types, A
  <1>1. /\ foul' = foul /\ UNCHANGED <<home, started, held, ck, op>>
        /\ owner' \in {"none", "open", "closed"} /\ proc' \in {0, proc}
    BY <1>t DEF Settle, LetGo, Goto, outside, adapter
  <1>2. UNCHANGED <<server, turn>> \/ Exit(proc)
    BY DEF Settle, LetGo, MaybeGone, outside
  <1>3. att' = att \/ \E e \in {"pending", "completed", "accepted"} : Note(OwnerNote(e))
    BY DEF Settle, LetGo
  <1>4. ASSUME NEW e \in {"pending", "completed", "accepted"}, Note(OwnerNote(e))
        PROVE  /\ att' \in [Attempts -> Record]
               /\ att'[a].status = att[a].status /\ att'[a].answer = att[a].answer
               /\ att'[a].authorized = att[a].authorized /\ att'[a].policy = att[a].policy
    <2>1. OwnerNote(e) \in Record
      BY <1>t DEF OwnerNote, Record, Evidence
    <2>2. /\ OwnerNote(e).status = A.status /\ OwnerNote(e).answer = A.answer
          /\ OwnerNote(e).authorized = A.authorized /\ OwnerNote(e).policy = A.policy
      BY <1>t DEF OwnerNote, Record
    <2> QED BY <2>1, <2>2, <1>4, <1>t DEF Note
  <1>5. /\ att' \in [Attempts -> Record]
        /\ att'[a].status = att[a].status /\ att'[a].answer = att[a].answer
        /\ att'[a].authorized = att[a].authorized /\ att'[a].policy = att[a].policy
    <2>1. CASE att' = att
      BY <2>1, <1>t
    <2> QED BY <2>1, <1>3, <1>4
  <1>6. /\ turn'[a] = turn[a] \/ (Live(a) /\ turn'[a] = "stopped")
        /\ turn' \in [Attempts -> {"none", "wire", "running", "completed", "stopped"}]
        /\ server' \subseteq Server
    BY <1>2, <1>t DEF Exit, Live
  <1> QED BY <1>1, <1>5, <1>6

(* What every step of a resolution leaves alone.                             *)
LEMMA ResolvingMoves ==
    ASSUME Types, ResolveWork, NEW a \in Attempts
    PROVE  /\ att' \in [Attempts -> Record] /\ foul' = foul
           /\ turn' \in [Attempts -> {"none", "wire", "running", "completed", "stopped"}]
           /\ att'[a].status = att[a].status /\ att'[a].answer = att[a].answer
           /\ att'[a].authorized = att[a].authorized /\ att'[a].policy = att[a].policy
           /\ turn'[a] = turn[a] \/ (Live(a) /\ turn'[a] = "stopped")
           /\ Clean(a)' = Clean(a) /\ (Live(a)' => Live(a))
           /\ Truth(a) => Truth(a)'
  <1>t. /\ att \in [Attempts -> Record] /\ foul[a] \in BOOLEAN
        /\ turn \in [Attempts -> {"none", "wire", "running", "completed", "stopped"}]
    BY DEF Types
  <1>1. CASE UNCHANGED <<att, turn, foul>>
    BY <1>1, <1>t DEF Clean, Live, Truth
  <1>2. CASE Settle \/ LetGo
    <2>1. /\ att' \in [Attempts -> Record] /\ foul' = foul
          /\ turn' \in [Attempts -> {"none", "wire", "running", "completed", "stopped"}]
          /\ att'[a].status = att[a].status /\ att'[a].answer = att[a].answer
          /\ att'[a].authorized = att[a].authorized /\ att'[a].policy = att[a].policy
          /\ turn'[a] = turn[a] \/ (Live(a) /\ turn'[a] = "stopped")
      BY <1>2, OwnerSteps
    <2>2. Clean(a)' = Clean(a) /\ (Live(a)' => Live(a))
      BY <2>1, <1>t DEF Clean, Live
    <2>3. Truth(a) => Truth(a)'
      BY <2>1, <2>2, <1>t DEF Truth, Live
    <2> QED BY <2>1, <2>2, <2>3
  <1>3. UNCHANGED <<att, turn, foul>> \/ Settle \/ LetGo
    BY DEF ResolveWork, Select, Rejected, Persist, ApplyFail, ApplyRetry, ApplyAnswer, Reclaim, Free,
       Reconcile, ledger, outside
  <1> QED BY <1>1, <1>2, <1>3

(* A resolution that works holds the operation, and a step of it either      *)
(* leaves the call or goes on in it.                                         *)
LEMMA ResolvingPlace ==
    ASSUME RInv, ResolveWork
    PROVE  /\ caller = "resolve" /\ op \in {"open", "failed"}
           /\ \/ pc' = "off" /\ Off
              \/ pc' \in Carrying \cup Late /\ caller' = caller /\ cur' = cur
           /\ (goal' = goal /\ outcome' = outcome) \/ Off
           /\ seen' \in {seen, {}} /\ allow' \in {allow, FALSE}
  <1>1. caller = "resolve"
    BY DEF RInv, Choosing, Carrying, Late, ResolveWork, Resolving, Select, Rejected, Persist, Settle,
       LetGo, ApplyFail, ApplyRetry, ApplyAnswer, Reclaim, Free, Reconcile
  <1>2. op \in {"open", "failed"}
    BY <1>1 DEF RInv, Choosing
  <1>3. /\ \/ pc' = "off" /\ Off
           \/ pc' \in Carrying \cup Late /\ caller' = caller /\ cur' = cur
        /\ (goal' = goal /\ outcome' = outcome) \/ Off
        /\ seen' \in {seen, {}} /\ allow' \in {allow, FALSE}
    BY DEF ResolveWork, Select, Rejected, Persist, Settle, LetGo, ApplyFail, ApplyRetry, ApplyAnswer,
       Reclaim, Free, Reconcile, Goto, Volatile, Off, Carrying, Late
  <1> QED BY <1>1, <1>2, <1>3

(* How a resolution moves the checkpoint: an answer is taken up, or the next *)
(* attempt is named.                                                         *)
LEMMA ResolvingCheckpoint ==
    ASSUME RInv, ResolveWork, ck' # ck
    PROVE  /\ cur = Tried /\ ck.kind \notin Answered /\ UNCHANGED <<att, turn, foul, op>> /\ cur' = cur
           /\ \/ /\ Persist /\ ck' = ck0("responded", cur - 1) /\ pc' = "settle"
                 /\ (goal = "retry" => outcome = "completed")
              \/ /\ ApplyRetry /\ ck.kind # "empty" /\ cur < MaxAttempt /\ Retrying /\ pc' = "reclaim"
                 /\ ck' = [kind |-> "retry", gen |-> cur, origin |-> "operator"]
  <1>t. Core /\ Choosing
    BY DEF RInv
  <1>1. Persist \/ ApplyRetry
    BY DEF ResolveWork, Select, Rejected, Settle, LetGo, ApplyFail, ApplyAnswer, Reclaim, Free,
       Reconcile, ledger
  <1>2. CASE Persist
    <2>1. /\ pc = "persist" /\ UNCHANGED <<att, turn, foul, op>> /\ cur' = cur /\ pc' = "settle"
          /\ ck' = ck0("responded", cur - 1)
      BY <1>2 DEF Persist, Goto, Volatile, outside
    <2>2. ck.kind \notin Answered /\ (Adopting \/ goal = "accept")
      BY <1>2 DEF Persist
    <2>3. cur = Tried
      BY <2>1, <1>t DEF Choosing, Carrying
    <2>4. goal = "retry" => outcome = "completed"
      BY <2>2 DEF Adopting
    <2> QED BY <2>1, <2>2, <2>3, <2>4, <1>2
  <1>3. CASE ApplyRetry
    <2>1. pc = "apply" /\ Retrying /\ ck.kind # "empty" /\ cur < MaxAttempt
          /\ ck' = [kind |-> "retry", gen |-> cur, origin |-> "operator"] /\ pc' = "reclaim"
          /\ UNCHANGED <<att, turn, foul, op>> /\ cur' = cur
      BY <1>3 DEF ApplyRetry, Goto, Volatile, outside
    <2>2. ck.kind \notin Answered
      BY <2>1, <1>t, RetryingUnanswered DEF Choosing, Carrying, Late
    <2> QED BY <2>1, <2>2, <1>3, <1>t DEF Choosing, Carrying
  <1> QED BY <1>1, <1>2, <1>3

LEMMA ResolvingNumbers ==
    ASSUME RInv, ResolveWork
    PROVE  /\ ck' \in Checkpoint /\ ck'.gen < MaxAttempt
           /\ ck'.kind = "empty" => ck'.gen = 0
           /\ ck'.kind = "retry" => ck'.gen > 0
           /\ ck'.origin = "automatic" => ck.origin = "automatic"
           /\ ck' # ck => /\ cur \in Nat /\ cur = IF ck.kind = "retry" THEN ck.gen ELSE ck.gen + 1
                          /\ \/ ck'.kind = "responded" /\ ck'.gen = cur - 1
                             \/ ck'.kind = "retry" /\ ck'.gen = cur /\ pc' = "reclaim"
  <1>t. /\ Checked /\ ck \in Checkpoint /\ cur \in Attempts /\ cur \in 0..MaxAttempt /\ cur - 1 \in 0..MaxAttempt
        /\ MaxAttempt \in Nat /\ cur \in Nat /\ cur > 0 /\ ck.gen \in Nat
    BY Bounds DEF RInv, Core, Types, Attempts, Checkpoint
  <1>1. CASE ck' = ck
    BY <1>1, <1>t DEF Checked
  <1>2. CASE ck' = ck0("responded", cur - 1) /\ cur = Tried /\ ck' # ck
    <2>1. ck' \in Checkpoint
      BY <1>2, <1>t DEF ck0, Checkpoint, CkKind
    <2>2. ck'.kind = "responded" /\ ck'.gen = cur - 1 /\ ck'.origin = "none"
      BY <1>2 DEF ck0
    <2>3. cur = IF ck.kind = "retry" THEN ck.gen ELSE ck.gen + 1
      BY <1>2 DEF Tried
    <2> QED BY <2>1, <2>2, <2>3, <1>t DEF Checked, Attempts
  <1>3. CASE /\ ck' = [kind |-> "retry", gen |-> cur, origin |-> "operator"] /\ cur < MaxAttempt /\ cur = Tried
             /\ ck' # ck /\ pc' = "reclaim"
    <2>1. ck' \in Checkpoint
      BY <1>3, <1>t DEF Checkpoint, CkKind
    <2>2. ck'.kind = "retry" /\ ck'.gen = cur /\ ck'.origin = "operator"
      BY <1>3
    <2>3. cur = IF ck.kind = "retry" THEN ck.gen ELSE ck.gen + 1
      BY <1>3 DEF Tried
    <2> QED BY <2>1, <2>2, <2>3, <1>3, <1>t
  <1> QED BY <1>1, <1>2, <1>3, ResolvingCheckpoint

LEMMA ResolvingCore == ASSUME RInv, ResolveWork PROVE Core'
  <1>t. /\ Core /\ Types /\ Checked /\ Choosing /\ ck.gen \in Nat /\ cur \in Attempts
        /\ MaxAttempt \in Nat /\ 1 \in Attempts /\ Attempts \subseteq Nat
    BY Bounds DEF RInv, Core, Types, Checkpoint
  <1>p. /\ caller = "resolve" /\ op \in {"open", "failed"}
        /\ \/ pc' = "off" /\ Off
           \/ pc' \in Carrying \cup Late /\ caller' = caller /\ cur' = cur
        /\ seen' \in {seen, {}}
    BY ResolvingPlace
  <1>o. op' \in {"open", "failed"}
    BY <1>p DEF ResolveWork, Select, Rejected, Persist, Settle, LetGo, ApplyFail, ApplyRetry, ApplyAnswer,
       Reclaim, Free, Reconcile, ledger
  <1>n. /\ ck' \in Checkpoint /\ ck'.gen < MaxAttempt
        /\ ck'.kind = "empty" => ck'.gen = 0
        /\ ck'.kind = "retry" => ck'.gen > 0
        /\ ck' # ck => /\ cur = IF ck.kind = "retry" THEN ck.gen ELSE ck.gen + 1
                       /\ \/ ck'.kind = "responded" /\ ck'.gen = cur - 1
                          \/ ck'.kind = "retry" /\ ck'.gen = cur
    BY ResolvingNumbers
  <1>1. Types'
    <2>1. att' \in [Attempts -> Record]
          /\ turn' \in [Attempts -> {"none", "wire", "running", "completed", "stopped"}]
      BY <1>t, ResolvingMoves
    <2>2. held' \in 0..MaxAttempt
      <3>1. CASE pc = "reclaim"
        BY <3>1, <1>t DEF Choosing, Checked, ResolveWork, Select, Rejected, Persist, Settle, LetGo,
           ApplyFail, ApplyRetry, ApplyAnswer, Reclaim, Free, Reconcile, Resolving
      <3>2. CASE pc # "reclaim"
        BY <3>2, <1>t DEF Types, ResolveWork, Select, Rejected, Persist, Settle, LetGo,
           ApplyFail, ApplyRetry, ApplyAnswer, Reclaim, Free, Reconcile, ledger
      <3> QED BY <3>1, <3>2
    <2>3. /\ server' \subseteq Server /\ started' \in 0..MaxServer /\ proc' \in 0..MaxServer
          /\ home' \in [Attempts -> 0..MaxServer] /\ foul' \in [Attempts -> BOOLEAN]
          /\ owner' \in {"none", "open", "closed"}
      <3>1. CASE Settle \/ LetGo
        BY <3>1, <1>t, OwnerSteps, Bounds DEF Types
      <3>2. CASE UNCHANGED <<outside, adapter>>
        BY <3>2, <1>t DEF Types, outside, adapter
      <3> QED BY <3>1, <3>2 DEF ResolveWork, Select, Rejected, Persist, ApplyFail, ApplyRetry,
            ApplyAnswer, Reclaim, Free, Reconcile
    <2>4. cur' \in Attempts /\ caller' \in {"execute", "resolve"} /\ seen' \subseteq {"foul", "answer"}
      BY <1>p, <1>t DEF Off, Types
    <2> QED BY <2>1, <2>2, <2>3, <2>4, <1>o, <1>n DEF Types
  <1>2. ASSUME NEW a \in Attempts PROVE Truth(a)' /\ Blank(a)'
    <2>1. Truth(a) /\ Blank(a) /\ a \in Nat
      BY <1>t DEF Core
    <2>2. Truth(a)' /\ att'[a].status = att[a].status
      BY <2>1, <1>t, ResolvingMoves
    <2>3. a > ck'.gen + 1 => a > ck.gen + 1 \/ (a = ck.gen + 1 /\ ck.kind = "retry")
      BY <2>1, <1>n, <1>t
    <2>4. a = ck'.gen + 1 /\ ck'.kind \in {"empty", "retry"}
             => a > ck.gen + 1 \/ (a = ck.gen + 1 /\ ck.kind \in {"empty", "retry"})
      BY <2>1, <1>n, <1>t
    <2> QED BY <2>1, <2>2, <2>3, <2>4 DEF Blank
  <1>3. Checked'
    BY <1>n, <1>o DEF Checked
  <1>4. CASE pc' = "off" /\ Off
    BY <1>4, <1>1, <1>2, <1>3 DEF Core, Place, Turn, Stage, Off, Dispatching, Recovering, Disposing, Unsent,
       Sending
  <1>5. CASE pc' \in Carrying \cup Late
    BY <1>5, <1>1, <1>2, <1>3 DEF Core, Place, Turn, Stage, Carrying, Late, Label, Dispatching,
       Recovering, Disposing, Unsent, Sending, Early
  <1> QED BY <1>p, <1>4, <1>5

LEMMA ResolvingWaived == ASSUME RInv, ResolveWork, NEW a \in Attempts PROVE Waived(a)'
  <1>t. /\ Types /\ Choosing /\ Known /\ Waived(a) /\ ck.gen \in Nat /\ a \in Nat
    BY Bounds DEF RInv, Core, Types, Checkpoint
  <1>m. Clean(a)' = Clean(a) /\ (Live(a)' => Live(a))
    BY <1>t, ResolvingMoves
  <1>w. waived \subseteq waived'
    BY DEF ResolveWork, Select, Rejected, Persist, Settle, LetGo, ApplyFail, ApplyRetry, ApplyAnswer,
       Reclaim, Free, Reconcile
  <1>p. pc' # "preflight"
    BY ResolvingPlace DEF Carrying, Late
  <1>1. CASE ck' = ck
    BY <1>1, <1>m, <1>w, <1>p, <1>t DEF Waived
  <1>2. CASE ck' # ck
    <2>1. /\ cur \in Nat /\ cur = IF ck.kind = "retry" THEN ck.gen ELSE ck.gen + 1
          /\ \/ ck'.kind = "responded" /\ ck'.gen = cur - 1
             \/ ck'.kind = "retry" /\ ck'.gen = cur /\ pc' = "reclaim"
      BY <1>2, ResolvingNumbers
    <2>2. CASE ck'.kind = "responded" /\ ck'.gen = cur - 1
      BY <2>1, <2>2, <1>m, <1>w, <1>p, <1>t DEF Waived
    <2>3. CASE ck'.kind = "retry" /\ ck'.gen = cur /\ pc' = "reclaim"
      <3>1. Live(cur) => cur \in waived
        BY <1>2, <2>3, <1>t, ResolvingCheckpoint DEF Known, ApplyRetry, Carrying
      <3> QED BY <3>1, <2>1, <2>3, <1>m, <1>w, <1>p, <1>t DEF Waived
    <2> QED BY <2>1, <2>2, <2>3
  <1> QED BY <1>1, <1>2

LEMMA ResolvingChoosing == ASSUME RInv, ResolveWork PROVE Choosing'
  <1>t. Core /\ Place /\ Choosing /\ ck \in Checkpoint
    BY DEF RInv, Core, Types
  <1>p. /\ caller = "resolve" /\ op \in {"open", "failed"}
        /\ \/ pc' = "off" /\ Off
           \/ pc' \in Carrying \cup Late /\ caller' = caller /\ cur' = cur
        /\ (goal' = goal /\ outcome' = outcome) \/ Off
    BY ResolvingPlace
  <1>o. op' \in {"open", "failed"}
    BY <1>p DEF ResolveWork, Select, Rejected, Persist, Settle, LetGo, ApplyFail, ApplyRetry, ApplyAnswer,
       Reclaim, Free, Reconcile, ledger
  <1>1. CASE pc' = "off" /\ Off
    BY <1>1 DEF Off, Choosing, Carrying, Late
  <1>2. CASE pc' \in Carrying
    <2>1. cur = Tried /\ pc \in {"decide"} \cup Carrying /\ caller' = caller /\ cur' = cur
          /\ goal' = goal /\ outcome' = outcome
      BY <1>2, <1>p, <1>t DEF Choosing, Place, Recovering, Carrying, Late, Off, ResolveWork, Resolving, Select,
         Rejected, Persist, Settle, LetGo, ApplyFail, ApplyRetry, ApplyAnswer, Reclaim, Free, Reconcile,
         Goto, Volatile
    <2>2. CASE ck' = ck
      BY <2>1, <2>2, <1>2, <1>o, <1>p, <1>t DEF Choosing, Carrying, Late, Tried
    <2>3. CASE ck' # ck
      <3>1. ck' = ck0("responded", cur - 1) /\ (goal = "retry" => outcome = "completed")
        BY <2>3, <1>2, ResolvingCheckpoint DEF Carrying
      <3>2. cur - 1 + 1 = cur
        BY <1>t, Bounds DEF Core, Types
      <3> QED BY <3>1, <3>2, <2>1, <1>2, <1>o, <1>p DEF Choosing, Carrying, Late, Tried, ck0
    <2> QED BY <2>2, <2>3
  <1>3. CASE pc' \in Late
    <2>1. pc' = "reclaim" => ck'.gen = cur'
      BY <1>3, <1>p DEF ResolveWork, Select, Rejected, Persist, Settle, LetGo, ApplyFail, ApplyRetry,
         ApplyAnswer, Reclaim, Free, Reconcile, Goto, Volatile, Off
    <2> QED BY <2>1, <1>3, <1>o, <1>p DEF Choosing, Carrying, Late, Off
  <1> QED BY <1>1, <1>2, <1>3, <1>p

LEMMA ResolvingKnown == ASSUME RInv, ResolveWork PROVE Known'
  <1>t. Core /\ Types /\ Place /\ Choosing /\ Known /\ cur \in Attempts
    BY DEF RInv, Core, Types
  <1>1. CASE pc' \notin Carrying
    BY <1>1, ResolvingPlace DEF Known, Carrying, Late
  <1>2. ASSUME pc' \in Carrying, Retrying' PROVE ~Clean(cur)' /\ (Live(cur)' => cur' \in waived')
    <2>1. cur' = cur /\ goal' = goal /\ outcome' = outcome /\ op' = op
      BY <1>2 DEF Carrying, Off, ResolveWork, Select, Rejected, Persist, Settle, LetGo, ApplyFail,
         ApplyRetry, ApplyAnswer, Reclaim, Free, Reconcile, Goto, Volatile, ledger
    <2>2. Retrying
      BY <2>1, <1>2, RetryingUnanswered
    <2>3. Clean(cur)' = Clean(cur) /\ (Live(cur)' => Live(cur))
      <3>1. \A a \in Attempts : Clean(a)' = Clean(a) /\ (Live(a)' => Live(a))
        BY <1>t, ResolvingMoves
      <3> QED BY <3>1, <2>1, <1>t DEF Clean, Live
    <2>4. CASE Select
      BY <2>1, <2>2, <2>3, <2>4, <1>t, RetryingUnanswered DEF Select, Resolving, Known
    <2>5. CASE ~Select
      <3>1. pc \in Carrying /\ waived' = waived
        BY <1>2, <2>5 DEF Carrying, Off, ResolveWork, Rejected, Persist, Settle, LetGo, ApplyFail,
           ApplyRetry, ApplyAnswer, Reclaim, Free, Reconcile, Goto
      <3> QED BY <3>1, <2>1, <2>2, <2>3, <1>t DEF Known
    <2> QED BY <2>4, <2>5
  <1>3. pc' \in Carrying => pc' \notin {"relaunch", "read", "decide"}
    BY DEF Carrying
  <1> QED BY <1>1, <1>2, <1>3 DEF Known

LEMMA ResolvingCounted == ASSUME RInv, ResolveWork, UNCHANGED choices PROVE Counted'
  <1>t. Counted /\ ck.gen \in Nat /\ RetrySafe \in BOOLEAN
    BY Bounds DEF RInv, Core, Types, Checkpoint
  <1>1. caller = "resolve" /\ allow' \in {allow, FALSE}
    BY ResolvingPlace
  <1>2. ck'.origin = "automatic" => ck.origin = "automatic"
    BY ResolvingNumbers
  <1>a. ~RetrySafe => ~allow'
    BY <1>1, <1>t DEF Counted
  <1>b. ASSUME ~RetrySafe
        PROVE  ck'.gen \in Nat /\ ck'.gen <= choices /\ (ck'.kind # "retry" => ck'.gen + 1 <= choices)
    <2>1. /\ ck.gen <= choices /\ (ck.kind # "retry" => ck.gen + 1 <= choices) /\ choices \in Nat
      BY <1>b, <1>1, <1>t DEF Counted
    <2>2. CASE ck' = ck
      BY <2>1, <2>2, <1>t
    <2>3. CASE ck' # ck
      <3>1. /\ cur \in Nat /\ cur = IF ck.kind = "retry" THEN ck.gen ELSE ck.gen + 1
            /\ \/ ck'.kind = "responded" /\ ck'.gen = cur - 1
               \/ ck'.kind = "retry" /\ ck'.gen = cur
        BY <2>3, ResolvingNumbers
      <3>2. ck'.gen \in Nat
        BY ResolvingNumbers, Bounds DEF Checkpoint
      <3> QED BY <3>1, <3>2, <2>1, <1>t
    <2> QED BY <2>2, <2>3
  <1> QED BY <1>a, <1>b, <1>2, <1>t DEF Counted

(* A call of resolve begins by recovering, or with the recorded answer.      *)
LEMMA ResolveBegins == ASSUME RInv, NEW c \in Choice, Resolve(c) PROVE RInv'
  <1>t. /\ Core /\ Types /\ Checked /\ Choosing /\ Known /\ Counted /\ ck.gen \in Nat /\ ck \in Checkpoint
        /\ Tried \in Attempts
    <2>1. Core /\ Types /\ Checked /\ Choosing /\ Known /\ Counted /\ ck.gen \in Nat /\ ck \in Checkpoint
      BY Bounds DEF RInv, Core, Types, Checkpoint
    <2> QED BY <2>1, Bounds DEF Tried, Checked, Attempts
  <1>r. /\ UNCHANGED <<op, ck, att, held, server, started, turn, home, foul, seen, owner, proc>>
        /\ UNCHANGED <<allow, selected, waived>>
        /\ caller' = "resolve" /\ cur' = Tried /\ pc = "off" /\ op \in {"open", "failed"}
        /\ pc' = IF ck.kind \in Answered THEN "decide" ELSE "recover"
        /\ ck.kind \in Answered => outcome' = "completed"
    BY DEF Resolve, Resolvable, ledger, outside, adapter
  <1>1. Core'
    <2>1. Types' /\ Checked'
      BY <1>r, <1>t DEF Types, Checked
    <2>2. \A a \in Attempts : Truth(a)' /\ Blank(a)'
      BY <1>r, <1>t DEF Core, Truth, Blank, Clean, Live
    <2>3. Place' /\ Turn' /\ Stage'
      BY <1>r DEF Place, Turn, Stage, Label, Dispatching, Recovering, Disposing, Unsent, Sending, Early, Tried
    <2> QED BY <2>1, <2>2, <2>3 DEF Core
  <1>2. \A a \in Attempts : Waived(a)'
    BY <1>r, <1>t DEF RInv, Waived, Clean, Live
  <1>3. Choosing' /\ Known'
    BY <1>r DEF Choosing, Known, Carrying, Late
  <1>4. Counted'
    BY <1>r, <1>t DEF Counted, Resolve
  <1> QED BY <1>1, <1>2, <1>3, <1>4 DEF RInv

LEMMA RStepHolds == ASSUME RInv, [RNext]_allVars PROVE RInv'
  <1>1. CASE \E c \in Choice : Resolve(c)
    BY <1>1, ResolveBegins
  <1>2. CASE Carry
    BY <1>2, ResolvingCore, ResolvingWaived, ResolvingChoosing, ResolvingKnown, ResolvingCounted
       DEF Carry, RInv
  <1>3. CASE EnterResolved /\ UNCHANGED <<choices, ruled>>
    BY <1>3, OperationStep DEF EnterResolved, Next
  <1>4. CASE (Work \/ World) /\ UNCHANGED <<selected, waived, choices, ruled>>
    <2>1. CASE Enter
      <3>1. Work => pc # "off"
        BY DEF Work, Recovery, Dispatch, Waiting, Settling,
           Recover, Relaunch, Read, ReadFails, Decide, Preflight, Prepare, Claim,
           Boot, Launch, Incapable, Refuse, Configure, Bind, NotDispatched, Reserve, Intent, Send,
           Ack, NoAck, TearDown, TearDownUnverified, OverBudget, FoulEvent, TurnEvent, Answer,
           TurnFails, TransportLost, Stop, StopTurn, StopUnverified, Classify, Save, Validate,
           Dispose, Release, Receipt, ReleaseFails, Complete, Fail, Unbind
      <3>2. pc = "off" /\ pc' # "off"
        BY <2>1 DEF Enter, Begin, Resume, Replay
      <3>3. World => pc' \in {pc, "off"}
        BY DEF World, Deliver, TurnEnds, Violate, ServerDies, TurnErrors, Crash, Close, Off
      <3> QED BY <3>1, <3>2, <3>3, <1>4
    <2>2. CASE ~Enter
      BY <2>2, <1>4, OperationStep DEF Next
    <2> QED BY <2>1, <2>2
  <1>5. CASE UNCHANGED allVars
    <2>1. UNCHANGED <<op, ck, att, held, server, started, turn, home, foul, pc, cur, goal,
                      seen, owner, proc, caller, outcome, allow, selected, waived, choices>>
      BY <1>5 DEF allVars, vars, ledger, outside, adapter
    <2>2. Core'
      BY <2>1, CoreKept DEF RInv
    <2>3. (\A a \in Attempts : Waived(a)') /\ Choosing' /\ Known' /\ Counted'
      BY <2>1, RetryingUnanswered DEF RInv, Waived, Clean, Live, Choosing, Known, Tried, Counted
    <2> QED BY <2>2, <2>3 DEF RInv
  <1> QED BY <1>1, <1>2, <1>3, <1>4, <1>5 DEF RNext

LEMMA RInductive == RSpec => []RInv
  BY RInitHolds, RStepHolds, PTL DEF RSpec
-----------------------------------------------------------------------------
(* The results.                                                              *)

(* Two turns act at once only where the operator overrode the older one, and *)
(* an operation that is not retry_safe sends no more than one turn and one   *)
(* for each choice (Botpipe.resolve, ProviderLifecycle.recovery_action).     *)
THEOREM SecondTurnsAreWaived == RSpec => []SecondTurnWasWaived
  <1>1. ASSUME RInv PROVE SecondTurnWasWaived
    <2>t. ck.gen \in Nat /\ Attempts \subseteq Nat /\ choices \in Nat
      BY <1>1, Bounds DEF RInv, Core, Types, Checkpoint, Counted
    <2>1. ASSUME NEW b \in Attempts, turn[b] # "none" PROVE b <= ck.gen + 1 /\ b \in Nat
      <3>1. Truth(b) /\ Blank(b) /\ b \in Nat
        BY <1>1, <2>t DEF RInv, Core
      <3> QED BY <3>1, <2>1, <2>t DEF Truth, Blank
    <2>2. ASSUME NEW a \in Attempts, NEW b \in Attempts, Live(a), Live(b), a < b PROVE a \in waived
      <3>1. b <= ck.gen + 1 /\ b \in Nat
        BY <2>1, <2>2 DEF Live
      <3> QED BY <3>1, <2>2, <2>t, <1>1 DEF RInv, Waived
    <2>3. ASSUME ~RetrySafe PROVE Cardinality({a \in Attempts : turn[a] # "none"}) <= 1 + choices
      <3> DEFINE Sent == {a \in Attempts : turn[a] # "none"}
      <3>1. ck.gen <= choices
        BY <1>1, <2>3 DEF RInv, Counted
      <3>2. Sent \subseteq 1..(1 + choices)
        <4>1. ASSUME NEW b \in Sent PROVE b \in 1..(1 + choices)
          <5>1. b <= ck.gen + 1 /\ b \in Nat /\ b > 0
            BY <2>1, <4>1, Bounds DEF Attempts
          <5> QED BY <5>1, <3>1, <2>t
        <4> QED BY <4>1
      <3>3. IsFiniteSet(1..(1 + choices)) /\ Cardinality(1..(1 + choices)) = 1 + choices
        BY <2>t, FS_Interval
      <3>4. IsFiniteSet(Sent) /\ Cardinality(Sent) <= Cardinality(1..(1 + choices))
        BY <3>2, <3>3, FS_Subset
      <3> QED BY <3>3, <3>4
    <2> QED BY <2>2, <2>3 DEF SecondTurnWasWaived
  <1> QED BY <1>1, RInductive, PTL

(* A clean answer in the ledger is adopted before any choice: no later       *)
(* attempt is ever sent (Botpipe.resolve recovers first and does not         *)
(* overrule an answer).                                                      *)
THEOREM AnswersOutliveChoices == RSpec => []AnswerOutlivesChoice
  <1>1. ASSUME RInv PROVE AnswerOutlivesChoice
    <2>1. SUFFICES ASSUME NEW a \in Attempts, NEW b \in Attempts, Clean(a), a < b, turn[b] # "none"
                   PROVE  FALSE
      BY DEF AnswerOutlivesChoice, Clean
    <2>2. /\ Truth(b) /\ Blank(b) /\ Waived(a) /\ ck.gen \in Nat /\ a \in Nat /\ b \in Nat
      BY <1>1, Bounds DEF RInv, Core, Types, Checkpoint
    <2>3. b <= ck.gen + 1 /\ ~(b = ck.gen + 1 /\ ck.kind \in {"empty", "retry"})
      BY <2>1, <2>2 DEF Truth, Blank
    <2> QED BY <2>1, <2>2, <2>3 DEF Waived
  <1> QED BY <1>1, RInductive, PTL

(* A record that says completed or failed keeps saying so.                   *)
LEMMA FinalStays ==
    ASSUME Core, Next, NEW a \in Attempts, att[a].status \in Final
    PROVE  att'[a].status = att[a].status
  <1>t. /\ Types /\ Place /\ Stage /\ Truth(cur) /\ cur \in Attempts /\ A = att[cur] /\ A \in Record
        /\ att \in [Attempts -> Record]
    BY DEF Core, Types, A
  <1>k. \A r : Note(r) => att'[cur] = r
    BY <1>t DEF Note
  <1>1. CASE a # cur
    BY <1>1, <1>t, OthersKeep
  <1>2. CASE a = cur /\ pc \notin Dispatching \cup {"relaunch", "read"}
    BY <1>2, AnswerMoves
  <1>3. CASE a = cur /\ pc \in Dispatching
    <2>1. pc \in {"refuse", "overBudget", "classify", "save"}
      BY <1>3, <1>t DEF Stage, Final
    <2>2. CASE att' = att
      BY <2>2
    <2>3. CASE Classify
      <3>1. A.status = "failed"
        BY <2>3, <1>3, <1>t DEF Classify, Stage, Final
      <3>2. att'[cur].status = "failed"
        BY <2>3, <1>k, <1>t DEF Classify, Record
      <3> QED BY <3>1, <3>2, <1>3, <1>t
    <2> QED BY <2>1, <2>2, <2>3, AttMoves DEF Noting, Recover, Read, Prepare, Boot, Incapable, Configure,
          Bind, Reserve, Intent, Ack, TearDown, TearDownUnverified, TurnEvent, Answer, TurnFails,
          TransportLost, StopTurn, StopUnverified, Dispose, Receipt, ReleaseFails
  <1>4. CASE a = cur /\ pc \in {"relaunch", "read"}
    <2>1. CASE att' = att
      BY <2>1
    <2>2. CASE Read /\ att' # att
      <3>1. \/ A.status # "failed" /\ Note([A EXCEPT !.status = "completed", !.answer = TRUE])
            \/ \E c \in {"completed", "incomplete"} :
                  \/ Note([A EXCEPT !.cleanup = c])
                  \/ Note([A EXCEPT !.cleanup = c, !.policy = TRUE,
                              !.status = IF @ = "completed" THEN @ ELSE "failed"])
                  \/ turn[cur] = "stopped" /\ Note([A EXCEPT !.cleanup = c, !.status = "failed"])
        BY <2>2 DEF Read
      <3>2. turn[cur] = "stopped" => A.status # "completed"
        BY <1>t DEF Truth
      <3>3. att'[cur].status = A.status
        BY <3>1, <3>2, <1>4, <1>k, <1>t DEF Record, Final
      <3> QED BY <3>3, <1>4, <1>t
    <2> QED BY <1>4, <2>1, <2>2, AttMoves DEF Noting, Recover, Prepare, Boot, Incapable, Configure,
          Bind, Reserve, Intent, Ack, TearDown, TearDownUnverified, TurnEvent, Answer, TurnFails,
          TransportLost, StopTurn, StopUnverified, Dispose, Receipt, ReleaseFails, Classify
  <1> QED BY <1>1, <1>2, <1>3, <1>4

Advancing == /\ Tried' >= Tried
             /\ ck.kind \in Answered => ck'.kind \in Answered /\ ck'.gen = ck.gen
             /\ \A a \in Attempts : att[a].status \in {"completed", "failed"}
                                   => att'[a].status = att[a].status
             /\ op \in {"completed", "failed"} => op' = op

LEMMA StepAdvances == ASSUME RInv, RNext PROVE Advancing
  <1>t. /\ Core /\ Types /\ Place /\ Checked /\ Choosing /\ ck \in Checkpoint /\ ck.gen \in Nat /\ Tried \in Nat
    <2>1. /\ Core /\ Types /\ Place /\ Checked /\ Choosing /\ ck \in Checkpoint /\ ck.gen \in Nat
      BY Bounds DEF RInv, Core, Types, Checkpoint
    <2> QED BY <2>1 DEF Tried
  <1>1. CASE \E c \in Choice : Resolve(c)
    BY <1>1, <1>t DEF Resolve, ledger, Advancing, Tried
  <1>2. CASE Next
    <2>1. Tried' >= Tried
      <3>1. CASE ck' = ck
        BY <3>1, <1>t DEF Tried
      <3>2. CASE ck' # ck
        BY <1>2, <3>2, <1>t, CkNumbers DEF Tried, Checked
      <3> QED BY <3>1, <3>2
    <2>2. ck.kind \in Answered => ck'.kind \in Answered /\ ck'.gen = ck.gen
      <3>2. CASE ck' # ck
        BY <1>2, <3>2, <1>t, CkNumbers DEF Answered
      <3> QED BY <3>2
    <2>3. \A a \in Attempts : att[a].status \in {"completed", "failed"} => att'[a].status = att[a].status
      BY <1>2, <1>t, FinalStays DEF Final
    <2>4. op \in {"completed", "failed"} => op' = op
      BY <1>2, <1>t, OpMoves DEF Begin, Complete, Fail, Place
    <2> QED BY <2>1, <2>2, <2>3, <2>4 DEF Advancing
  <1>3. CASE ResolveWork
    <2>1. Tried' >= Tried /\ (ck.kind \in Answered => ck'.kind \in Answered /\ ck'.gen = ck.gen)
      <3>1. CASE ck' = ck
        BY <3>1, <1>t DEF Tried
      <3>2. CASE ck' # ck
        <4>1. ck.kind \notin Answered /\ cur = Tried /\ cur \in Nat
              /\ \/ ck'.kind = "responded" /\ ck'.gen = cur - 1
                 \/ ck'.kind = "retry" /\ ck'.gen = cur
          BY <1>3, <3>2, ResolvingCheckpoint, ResolvingNumbers
        <4> QED BY <4>1, <1>t DEF Tried
      <3> QED BY <3>1, <3>2
    <2>2. \A a \in Attempts : att'[a].status = att[a].status
      BY <1>3, <1>t, ResolvingMoves
    <2>3. op \in {"completed", "failed"} => op' = op
      <3>1. op \in {"open", "failed"}
        BY <1>3, ResolvingPlace
      <3>2. op' \in {op, "failed"}
        BY <1>3 DEF ResolveWork, Select, Rejected, Persist, Settle, LetGo, ApplyFail, ApplyRetry,
           ApplyAnswer, Reclaim, Free, Reconcile, ledger
      <3> QED BY <3>1, <3>2
    <2> QED BY <2>1, <2>2, <2>3 DEF Advancing
  <1> QED BY <1>1, <1>2, <1>3 DEF RNext, EnterResolved, Next, Carry

(* Whoever acts, attempt numbers do not go back, an answered operation stays *)
(* answered, and a verdict stands, of the operation as of an attempt         *)
(* (Botpipe.resolve, ProviderLifecycle, _validate_attempt_status).  That the *)
(* ledger refuses a failed operation its answer is part of what is proved    *)
(* about; the cleanup it does not hinder is CleanupIsNotRefused.             *)
THEOREM ChoicesAdvance == RSpec => ChoicesOnlyAdvance
  <1>1. ASSUME RInv, [RNext]_allVars PROVE [Advancing]_<<op, ck, att>>
    <2>1. CASE RNext
      BY <1>1, <2>1, StepAdvances
    <2>2. CASE UNCHANGED allVars
      BY <2>2 DEF allVars, vars, ledger
    <2> QED BY <1>1, <2>1, <2>2
  <1>2. RSpec => [][Advancing]_<<op, ck, att>>
    BY <1>1, RInductive, PTL DEF RSpec
  <1> QED BY <1>2 DEF ChoicesOnlyAdvance, Advancing

Unsending == turn' # turn /\ selected # "none" =>
                 \A a \in Attempts : turn[a] = "none" => turn'[a] = "none"

(* While a choice is recorded and unfinished, no turn leaves: a resume       *)
(* finishes it first (Botpipe.resume, Botpipe.resolve).                      *)
THEOREM ChoicesSendNothing == RSpec => NoTurnUnderAChoice
  <1>1. ASSUME RInv, [RNext]_allVars PROVE [Unsending]_<<turn>>
    <2>t. Core /\ Types /\ Place /\ Choosing
      BY <1>1 DEF RInv, Core
    <2>1. CASE Next
      <3>1. ASSUME selected # "none" PROVE ~Send
        BY <3>1, <2>t DEF Send, Place, Choosing, Label, Recovering
      <3>2. ASSUME NEW a \in Attempts, ~Send, turn[a] = "none" PROVE turn'[a] = "none"
        BY <3>2, <2>1, <2>t, TurnMoves DEF Live
      <3> QED BY <3>1, <3>2 DEF Unsending
    <2>2. CASE ResolveWork
      <3>1. ASSUME NEW a \in Attempts, turn[a] = "none" PROVE turn'[a] = "none"
        BY <3>1, <2>2, <2>t, ResolvingMoves DEF Live
      <3> QED BY <3>1 DEF Unsending
    <2>3. CASE turn' = turn
      BY <2>3
    <2>4. Next \/ ResolveWork \/ turn' = turn
      BY <1>1 DEF RNext, Carry, EnterResolved, Next, Resolve, outside, allVars, vars
    <2> QED BY <2>1, <2>2, <2>3, <2>4
  <1>2. RSpec => [][Unsending]_<<turn>>
    BY <1>1, RInductive, PTL DEF RSpec
  <1> QED BY <1>2 DEF NoTurnUnderAChoice, Unsending
=============================================================================
