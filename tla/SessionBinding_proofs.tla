------------------------- MODULE SessionBinding_proofs ------------------------
(***************************************************************************)
(* What SessionBinding guarantees for any number of runs, threads, attempts *)
(* and crashes: its types, that unsettled work owns the conversation, and   *)
(* what its history says: no call is refused without unsettled work of       *)
(* another run, and the file keeps the thread of the latest settled call.   *)
(***************************************************************************)
EXTENDS SessionBinding, TLAPS

(* Labels of a call that has checked the conversation and of one that has    *)
(* claimed it.                                                               *)
Checking == {"recover", "preflight", "prepare", "claim"}
Claiming == {"startup", "bind", "advance", "reserve", "turn"}

LockIsHeld      == \A r \in Run : pc[r] # "idle" => lock = r
OwnerHasAttempt == binding.owner # None => binding.attempt \in Attempt
NoStranger      == \A r \in Run : pc[r] \in Checking => binding.owner \in {None, r}
ClaimIsHeld     == \A r \in Run : pc[r] \in Claiming => binding.owner = r
SettledFirst    == \A r \in Run : pc[r] = "release" => Settled(r, tried[r])
RetryInBounds   == \A r \in Run : row[r].authorized => tried[r] < MaxAttempt

(* The inductive invariant.  Unsettled work owns the file because nobody     *)
(* starts a server before the claim, the lock keeps the claim from changing  *)
(* hands while the holder works, and a take-over looks at the ledger.        *)
IInv ==
    /\ TypeOK /\ LockIsHeld /\ OwnerHasAttempt /\ NoStranger
    /\ ClaimIsHeld /\ SettledFirst /\ RetryInBounds /\ UnsettledOwns

(* The lock excludes: one run at most is away from "idle".                   *)
LEMMA OneAtWork ==
    ASSUME LockIsHeld, NEW q \in Run, NEW r \in Run, pc[q] # "idle", pc[r] # "idle"
    PROVE  q = r
  BY DEF LockIsHeld

(* What Note and Goto leave alone, and the type they keep.                   *)
LEMMA NoteKeeps ==
    ASSUME NEW r \in Run, row \in [Run -> Row], NEW rec, Note(r, rec)
    PROVE  /\ row'[r] = rec
           /\ \A q \in Run : q # r => row'[q] = row[q]
           /\ rec \in Row => row' \in [Run -> Row]
  BY DEF Note

LEMMA GotoKeeps ==
    ASSUME NEW r \in Run, pc \in [Run -> Label], NEW l, Goto(r, l)
    PROVE  /\ pc'[r] = l
           /\ \A q \in Run : q # r => pc'[q] = pc[q]
           /\ l \in Label => pc' \in [Run -> Label]
  BY DEF Goto

(* A check returns a well-typed file, and never hands the file to anyone.    *)
LEMMA CheckedType ==
    ASSUME TypeOK, NEW r \in Run
    PROVE  /\ Checked(r) \in Binding
           /\ Checked(r).owner \in {None, binding.owner}
           /\ Checked(r).owner # None => Checked(r) = binding
  <1>1. binding \in Binding /\ 0 \in 0..MaxAttempt
    BY BoundAssumption DEF TypeOK
  <1> DEFINE t == IF row[binding.owner].finished[binding.attempt] \in Thread
                  THEN row[binding.owner].finished[binding.attempt]
                  ELSE binding.thread
  <1>2. t \in Thread \cup {None}
    BY <1>1 DEF Binding
  <1>3. CASE Foreign(r) /\ Takeable(binding.owner, binding.attempt)
    <2>1. Checked(r) = [binding EXCEPT !.owner = None, !.attempt = 0, !.thread = t]
      BY <1>3 DEF Checked
    <2> HIDE DEF t
    <2> QED BY <2>1, <1>1, <1>2 DEF Binding
  <1>4. CASE ~(Foreign(r) /\ Takeable(binding.owner, binding.attempt))
    BY <1>1, <1>4 DEF Checked
  <1> QED BY <1>3, <1>4

(* Every step keeps the types of the file and of the shared counters.        *)
LEMMA BindingType ==
    ASSUME IInv, NEW r \in Run, Enter(r) \/ Step(r) \/ Crash(r)
    PROVE  binding' \in Binding
  <1>t. TypeOK /\ SettledFirst
    BY DEF IInv
  <1>n. None \notin Run /\ MaxAttempt \in Nat /\ MaxThread \in Nat
    BY NoneAssumption, BoundAssumption
  <1>1. CASE Check(r)
    BY <1>1, <1>t, CheckedType DEF Check
  <1>2. CASE Claim(r)
    <2>1. Checked(r) \in Binding /\ tried[r] \in 0..MaxAttempt
      BY <1>t, <1>n, CheckedType DEF TypeOK, Attempt
    <2>2. binding' = [Checked(r) EXCEPT !.owner = r, !.attempt = tried[r]]
      BY <1>2 DEF Claim
    <2> QED BY <2>1, <2>2 DEF Binding
  <1>3. CASE Advance(r)
    <2>1. binding' = [binding EXCEPT !.thread = base[r]]
      BY <1>3 DEF Advance
    <2>2. binding \in Binding /\ base[r] \in Thread \cup {None}
      BY <1>t DEF TypeOK
    <2> QED BY <2>1, <2>2 DEF Binding
  <1>4. CASE Release(r)
    <2>1. At(r, "release") /\ Settled(r, tried[r])
      BY <1>4, <1>t DEF Release, At, SettledFirst
    <2>2. row[r].finished[tried[r]] \in Thread \cup {None}
      BY <2>1, <1>t DEF TypeOK, Row, Settled
    <2>3. binding \in Binding
      BY <1>t DEF TypeOK
    <2>4. CASE Owns(r)
      <3>1. binding' = [owner |-> None, attempt |-> 0, thread |->
                          IF row[r].finished[tried[r]] = None THEN binding.thread
                          ELSE row[r].finished[tried[r]]]
        BY <1>4, <2>4 DEF Release
      <3> QED BY <3>1, <2>2, <2>3, <1>n DEF Binding
    <2>5. CASE ~Owns(r)
      BY <1>4, <2>5, <2>3 DEF Release
    <2> QED BY <2>4, <2>5
  <1>5. CASE UNCHANGED binding
    BY <1>5, <1>t DEF TypeOK
  <1> QED
    BY <1>1, <1>2, <1>3, <1>4, <1>5 DEF Enter, Step, Crash, Refuse, Recover, Intent,
       Reject, Prepare, Startup, Bind, Reserve, Respond, Violated, GiveUp,
       Incapable, Validate, Settle, Fail, Unlock

(* Every step keeps the types of the ledgers.                                *)
LEMMA RowType ==
    ASSUME IInv, NEW r \in Run, Enter(r) \/ Step(r) \/ Crash(r)
    PROVE  row' \in [Run -> Row]
  <1>t. TypeOK /\ row \in [Run -> Row] /\ row[r] \in Row
    BY DEF IInv, TypeOK
  <1>n. MaxAttempt \in Nat /\ MaxThread \in Nat
    BY BoundAssumption
  <1>k. \A rec \in Row : Note(r, rec) => row' \in [Run -> Row]
    BY <1>t, NoteKeeps
  <1>1. CASE UNCHANGED row
    BY <1>1, <1>t
  <1>2. \A v \in {"open", "completed", "failed", "broken"} :
           [row[r] EXCEPT !.status = v] \in Row
    BY <1>t DEF Row
  <1>3. [row[r] EXCEPT !.authorized = TRUE] \in Row /\ [row[r] EXCEPT !.answer = TRUE] \in Row
    BY <1>t DEF Row
  <1>4. CASE Intent(r)
    <2>1. base[r] \in Thread \cup {None}
      BY <1>t DEF TypeOK
    <2>2. [row[r] EXCEPT !.intent = TRUE, !.from = base[r], !.authorized = FALSE] \in Row
      BY <2>1, <1>t DEF Row
    <2> QED BY <1>4, <2>2, <1>k DEF Intent
  <1>5. [row[r] EXCEPT !.status = "failed", !.authorized = FALSE] \in Row
    BY <1>t DEF Row
  <1>6. CASE Prepare(r)
    <2>1. tried[r] \in 0..MaxAttempt
      BY <1>t, <1>n DEF TypeOK, Attempt
    <2>2. [row[r] EXCEPT !.prepared = tried[r], !.stage = "none"] \in Row
      BY <2>1, <1>t DEF Row
    <2> QED BY <1>6, <2>2, <1>k DEF Prepare
  <1>7. /\ [row[r] EXCEPT !.startup = TRUE, !.stage = "configured"] \in Row
        /\ [row[r] EXCEPT !.reserved = TRUE, !.stage = "reserved"] \in Row
        /\ [row[r] EXCEPT !.stage = "violated"] \in Row
    BY <1>t DEF Row
  <1>8. CASE Bind(r)
    <2>1. \A t \in Thread : [row[r] EXCEPT !.thread = t] \in Row
      BY <1>t DEF Row
    <2>2. CASE base[r] # None /\ Note(r, [row[r] EXCEPT !.thread = base[r]])
      <3>1. base[r] \in Thread
        BY <2>2, <1>t DEF TypeOK
      <3> QED BY <2>1, <2>2, <3>1, <1>k
    <2>3. CASE threads < MaxThread /\ Note(r, [row[r] EXCEPT !.thread = threads + 1])
      <3>1. threads + 1 \in Thread
        BY <2>3, <1>t, <1>n DEF TypeOK, Thread
      <3> QED BY <2>1, <2>3, <3>1, <1>k
    <2> QED BY <1>8, <2>2, <2>3 DEF Bind
  <1>9. CASE Settle(r)
    <2>1. SettledThread(r) \in Thread \cup {None, Open}
      BY <1>t DEF SettledThread, TypeOK, Row, Binding
    <2>2. [row[r] EXCEPT !.finished[tried[r]] = SettledThread(r)] \in Row
      BY <2>1, <1>t DEF Row
    <2> QED BY <1>9, <2>2, <1>1, <1>k DEF Settle
  <1>10. CASE Enter(r)
    BY <1>10, <1>1, <1>2, <1>k DEF Enter
  <1>11. CASE Recover(r)
    BY <1>11, <1>1, <1>3, <1>k DEF Recover
  <1>12. CASE Reject(r)
    BY <1>12, <1>2, <1>5, <1>k DEF Reject
  <1>13. CASE Validate(r)
    BY <1>13, <1>2, <1>k DEF Validate
  <1>14. CASE Startup(r) \/ Reserve(r) \/ Violated(r)
    BY <1>14, <1>7, <1>k DEF Startup, Reserve, Violated
  <1>15. CASE Refuse(r) \/ Fail(r) \/ Incapable(r) \/ Respond(r)
    BY <1>15, <1>2, <1>3, <1>k DEF Refuse, Fail, Incapable, Respond
  <1>16. CASE Check(r) \/ Claim(r) \/ Advance(r) \/ GiveUp(r) \/ Release(r) \/ Unlock(r) \/ Crash(r)
    BY <1>16, <1>1 DEF Check, Claim, Advance, GiveUp, Release, Unlock, Crash
  <1> QED
    BY <1>4, <1>6, <1>8, <1>9, <1>10, <1>11, <1>12, <1>13, <1>14, <1>15, <1>16 DEF Step

(* What each action does to the executor's label, as one disjunction.        *)
LEMMA PcType ==
    ASSUME IInv, NEW r \in Run, Enter(r) \/ Step(r) \/ Crash(r)
    PROVE  pc' \in [Run -> Label] /\ \A q \in Run : q # r => pc'[q] = pc[q]
  <1>t. pc \in [Run -> Label]
    BY DEF IInv, TypeOK
  <1>1. \E l \in Label : Goto(r, l)
    BY DEF Enter, Step, Crash, Check, Refuse, Recover, Intent, Reject, Prepare, Claim,
       Startup, Bind, Advance, Reserve, Respond, Violated, GiveUp, Incapable,
       Validate, Settle, Release, Fail, Unlock, Label
  <1> QED BY <1>t, <1>1, GotoKeeps

LEMMA OthersType ==
    ASSUME IInv, NEW r \in Run, Enter(r) \/ Step(r) \/ Crash(r)
    PROVE  /\ lock' \in Run \cup {None} /\ threads' \in 0..MaxThread
           /\ settled' \in Thread \cup {None} /\ crashes' \in 0..MaxCrash
           /\ base' \in [Run -> Thread \cup {None}] /\ tried' \in [Run -> Attempt]
  <1>t. TypeOK /\ RetryInBounds
    BY DEF IInv
  <1>n. MaxAttempt \in Nat /\ MaxThread \in Nat /\ MaxCrash \in Nat
    BY BoundAssumption
  <1>1. lock' \in Run \cup {None}
    BY <1>t DEF TypeOK, Enter, Step, Crash, Check, Refuse, Recover, Intent, Reject,
       Prepare, Claim, Startup, Bind, Advance, Reserve, Respond, Violated, GiveUp,
       Incapable, Validate, Settle, Release, Fail, Unlock
  <1>2. crashes' \in 0..MaxCrash
    BY <1>t, <1>n DEF TypeOK, Enter, Step, Crash, Check, Refuse, Recover, Intent, Reject,
       Prepare, Claim, Startup, Bind, Advance, Reserve, Respond, Violated, GiveUp,
       Incapable, Validate, Settle, Release, Fail, Unlock
  <1>3. threads' \in 0..MaxThread /\ base' \in [Run -> Thread \cup {None}]
    <2>1. CASE Bind(r)
      <3>1. threads < MaxThread => threads + 1 \in Thread /\ threads + 1 \in 0..MaxThread
        BY <1>t, <1>n DEF TypeOK, Thread
      <3> QED BY <2>1, <3>1, <1>t DEF Bind, TypeOK
    <2>2. CASE Check(r)
      <3>1. StartFrom(r) \in Thread \cup {None}
        BY <1>t, CheckedType DEF StartFrom, TypeOK, Row, Binding
      <3> QED BY <2>2, <3>1, <1>t DEF Check, TypeOK
    <2>3. CASE UNCHANGED <<threads, base>>
      BY <2>3, <1>t DEF TypeOK
    <2> QED
      BY <2>1, <2>2, <2>3 DEF Enter, Step, Crash, Refuse, Recover, Intent, Reject,
         Prepare, Claim, Startup, Advance, Reserve, Respond, Violated, GiveUp,
         Incapable, Validate, Settle, Release, Fail, Unlock
  <1>4. tried' \in [Run -> Attempt]
    <2>1. NextAttempt(r) \in Attempt
      BY <1>t, <1>n DEF NextAttempt, TypeOK, RetryInBounds, Attempt
    <2>2. CASE UNCHANGED tried
      BY <2>2, <1>t DEF TypeOK
    <2>3. CASE Intent(r) \/ Reject(r)
      BY <2>1, <2>2, <2>3, <1>t DEF Intent, Reject, TypeOK
    <2> QED
      BY <2>2, <2>3 DEF Enter, Step, Crash, Check, Refuse, Recover, Prepare, Claim,
         Startup, Bind, Advance, Reserve, Respond, Violated, GiveUp, Incapable,
         Validate, Settle, Release, Fail, Unlock
  <1>5. settled' \in Thread \cup {None}
    <2>1. CASE UNCHANGED settled
      BY <2>1, <1>t DEF TypeOK
    <2>2. CASE Settle(r)
      <3>1. SettledThread(r) \in Thread \cup {None}
        BY <1>t DEF SettledThread, TypeOK, Row, Binding
      <3> QED BY <2>1, <2>2, <3>1, <1>t DEF Settle, TypeOK
    <2> QED
      BY <2>1, <2>2 DEF Enter, Step, Crash, Check, Refuse, Recover, Intent, Reject,
         Prepare, Claim, Startup, Bind, Advance, Reserve, Respond, Violated, GiveUp,
         Incapable, Validate, Release, Fail, Unlock
  <1> QED BY <1>1, <1>2, <1>3, <1>4, <1>5

(* The holder of the lock is the one that works.                             *)
LEMMA LockPart ==
    ASSUME IInv, NEW r \in Run, Enter(r) \/ Step(r) \/ Crash(r)
    PROVE  LockIsHeld'
  <1>t. LockIsHeld /\ pc \in [Run -> Label] /\ r # None
    BY NoneAssumption DEF IInv, TypeOK
  <1>p. \A q \in Run : q # r => pc'[q] = pc[q]
    BY PcType
  <1>1. CASE Enter(r)
    BY <1>1, <1>t, <1>p, NoneAssumption DEF Enter, LockIsHeld
  <1>2. CASE Crash(r) \/ Unlock(r)
    <2>1. pc[r] # "idle" /\ pc'[r] = "idle"
      BY <1>2, <1>t DEF Crash, Unlock, At, Goto
    <2>2. \A q \in Run : q # r => pc'[q] = "idle"
      BY <2>1, <1>t, <1>p DEF LockIsHeld
    <2> QED BY <2>1, <2>2 DEF LockIsHeld
  <1>3. CASE lock' = lock /\ pc[r] # "idle"
    BY <1>3, <1>t, <1>p DEF LockIsHeld
  <1> QED
    BY <1>1, <1>2, <1>3 DEF Step, Check, Refuse, Recover, Intent, Reject, Prepare, Claim,
       Startup, Bind, Advance, Reserve, Respond, Violated, GiveUp, Incapable,
       Validate, Settle, Release, Fail, At

LEMMA OthersIdle ==
    ASSUME IInv, NEW r \in Run, Enter(r) \/ Step(r) \/ Crash(r), NEW q \in Run, q # r
    PROVE  pc[q] = "idle" /\ pc'[q] = "idle"
  <1>t. LockIsHeld /\ None \notin Run
    BY NoneAssumption DEF IInv
  <1>1. pc'[q] = pc[q]
    BY PcType
  <1>2. CASE lock = None
    BY <1>1, <1>2, <1>t DEF LockIsHeld
  <1>3. CASE pc[r] # "idle"
    BY <1>1, <1>3, <1>t, OneAtWork
  <1> QED
    BY <1>2, <1>3 DEF Enter, Step, Crash, Check, Refuse, Recover, Intent, Reject, Prepare,
       Claim, Startup, Bind, Advance, Reserve, Respond, Violated, GiveUp, Incapable,
       Validate, Settle, Release, Fail, Unlock, At

(* The four actions that write the file, and what they do to its owner.      *)
LEMMA OwnerSteps ==
    ASSUME IInv, NEW r \in Run, Enter(r) \/ Step(r) \/ Crash(r)
    PROVE  \/ UNCHANGED binding
           \/ Check(r) /\ binding' = Checked(r)
           \/ Claim(r) /\ binding'.owner = r /\ binding'.attempt = tried[r]
           \/ /\ Advance(r)
              /\ binding'.owner = binding.owner /\ binding'.attempt = binding.attempt
           \/ Release(r) /\ Owns(r) /\ binding'.owner = None
  <1>t. binding \in Binding /\ Checked(r) \in Binding
    BY CheckedType DEF IInv, TypeOK
  <1>1. CASE Claim(r)
    <2>1. binding' = [Checked(r) EXCEPT !.owner = r, !.attempt = tried[r]]
      BY <1>1 DEF Claim
    <2> QED BY <1>1, <2>1, <1>t DEF Binding
  <1>2. CASE Advance(r)
    <2>1. binding' = [binding EXCEPT !.thread = base[r]]
      BY <1>2 DEF Advance
    <2> QED BY <1>2, <2>1, <1>t DEF Binding
  <1>3. CASE Release(r)
    BY <1>3 DEF Release
  <1>4. CASE Check(r)
    BY <1>4 DEF Check
  <1> QED
    BY <1>1, <1>2, <1>3, <1>4 DEF Enter, Step, Crash, Refuse, Recover, Intent, Reject,
       Prepare, Startup, Bind, Reserve, Respond, Violated, GiveUp, Incapable,
       Validate, Settle, Fail, Unlock

(* A check that passes leaves no stranger in the file.                       *)
LEMMA CheckClears ==
    ASSUME IInv, NEW r \in Run, Check(r)
    PROVE  binding'.owner \in {None, r}
  <1>t. binding \in Binding
    BY DEF IInv, TypeOK
  <1>1. binding' = Checked(r) /\ (Foreign(r) => Takeable(binding.owner, binding.attempt))
    BY DEF Check
  <1>2. CASE Foreign(r)
    <2>1. Checked(r).owner = None
      BY <1>1, <1>2, <1>t DEF Checked, Binding
    <2> QED BY <1>1, <2>1
  <1>3. CASE ~Foreign(r)
    BY <1>1, <1>3 DEF Checked, Foreign
  <1> QED BY <1>2, <1>3

LEMMA OwnerPart ==
    ASSUME IInv, NEW r \in Run, Enter(r) \/ Step(r) \/ Crash(r)
    PROVE  OwnerHasAttempt' /\ NoStranger' /\ ClaimIsHeld'
  <1>t. /\ OwnerHasAttempt /\ NoStranger /\ ClaimIsHeld /\ pc \in [Run -> Label]
        /\ tried[r] \in Attempt /\ r # None
    BY NoneAssumption DEF IInv, TypeOK
  <1>i. \A q \in Run : q # r => pc'[q] = "idle"
    BY OthersIdle
  <1>1. OwnerHasAttempt'
    <2>1. CASE Check(r)
      <3>1. Checked(r).owner # None => Checked(r) = binding
        BY CheckedType DEF IInv
      <3>2. binding' = Checked(r)
        BY <2>1 DEF Check
      <3> QED BY <3>1, <3>2, <1>t DEF OwnerHasAttempt, Attempt
    <2> QED BY <2>1, <1>t, OwnerSteps DEF OwnerHasAttempt, Attempt
  <1>2. pc'[r] \in Checking => binding'.owner \in {None, r}
    <2>1. CASE Check(r)
      BY <2>1, CheckClears
    <2>2. CASE UNCHANGED binding /\ pc[r] \in Checking
      BY <2>2, <1>t DEF NoStranger
    <2>3. CASE pc'[r] \notin Checking
      BY <2>3
    <2> QED
      BY <2>1, <2>2, <2>3, <1>t DEF Enter, Step, Crash, Refuse, Recover, Intent, Reject,
         Prepare, Claim, Startup, Bind, Advance, Reserve, Respond, Violated, GiveUp,
         Incapable, Validate, Settle, Release, Fail, Unlock, At, Goto, Checking
  <1>3. pc'[r] \in Claiming => binding'.owner = r
    <2>1. CASE Claim(r)
      <3>1. Checked(r) \in Binding /\ binding' = [Checked(r) EXCEPT !.owner = r, !.attempt = tried[r]]
        BY <2>1, CheckedType DEF IInv, Claim
      <3> QED BY <3>1 DEF Binding
    <2>4. CASE Advance(r)
      <3>1. binding \in Binding /\ binding' = [binding EXCEPT !.thread = base[r]]
        BY <2>4 DEF IInv, TypeOK, Advance
      <3>2. binding.owner = r
        BY <2>4, <1>t DEF Advance, At, ClaimIsHeld, Claiming
      <3> QED BY <3>1, <3>2 DEF Binding
    <2>2. CASE UNCHANGED binding /\ pc[r] \in Claiming
      BY <2>2, <1>t DEF ClaimIsHeld
    <2>3. CASE pc'[r] \notin Claiming
      BY <2>3
    <2> QED
      BY <2>1, <2>2, <2>3, <2>4, <1>t DEF Enter, Step, Crash, Check, Refuse, Recover, Intent,
         Reject, Prepare, Startup, Bind, Reserve, Respond, Violated, GiveUp,
         Incapable, Validate, Settle, Release, Fail, Unlock, At, Goto, Claiming
  <1>4. NoStranger'
    BY <1>2, <1>i DEF NoStranger, Checking
  <1>5. ClaimIsHeld'
    BY <1>3, <1>i DEF ClaimIsHeld, Claiming
  <1> QED BY <1>1, <1>4, <1>5

(* A file is released after its settlement is in the ledger.                 *)
LEMMA SettledPart ==
    ASSUME IInv, NEW r \in Run, Enter(r) \/ Step(r) \/ Crash(r)
    PROVE  SettledFirst'
  <1>t. TypeOK /\ pc \in [Run -> Label] /\ row \in [Run -> Row] /\ tried[r] \in Attempt
    BY DEF IInv, TypeOK
  <1>i. \A q \in Run : q # r => pc'[q] = "idle"
    BY OthersIdle
  <1>1. CASE Settle(r)
    <2>1. SettledThread(r) # Open
      BY <1>t, NoneAssumption, OpenAssumption DEF SettledThread, TypeOK, Row, Binding, Thread
    <2>2. tried' = tried
      BY <1>1 DEF Settle
    <2>3. CASE Settled(r, tried[r])
      BY <1>1, <2>2, <2>3, <1>i DEF Settle, Settled, SettledFirst
    <2>4. CASE ~Settled(r, tried[r])
      <3>1. row'[r] = [row[r] EXCEPT !.finished[tried[r]] = SettledThread(r)]
        BY <1>1, <2>4, <1>t, NoteKeeps DEF Settle
      <3>2. row'[r].finished[tried[r]] = SettledThread(r)
        BY <3>1, <1>t DEF Row
      <3> QED BY <2>1, <2>2, <3>2, <1>i DEF Settled, SettledFirst
    <2> QED BY <2>3, <2>4
  <1>2. CASE pc'[r] # "release"
    BY <1>2, <1>i DEF SettledFirst
  <1> QED
    BY <1>1, <1>2, <1>t DEF Enter, Step, Crash, Check, Refuse, Recover, Intent, Reject,
       Prepare, Claim, Startup, Bind, Advance, Reserve, Respond, Violated, GiveUp,
       Incapable, Validate, Release, Fail, Unlock, At, Goto

LEMMA RetryPart ==
    ASSUME IInv, NEW r \in Run, Enter(r) \/ Step(r) \/ Crash(r)
    PROVE  RetryInBounds'
  <1>t. /\ RetryInBounds /\ row \in [Run -> Row] /\ row[r] \in Row
        /\ tried \in [Run -> Attempt]
    BY DEF IInv, TypeOK
  <1>k. \A rec : Note(r, rec) => row'[r] = rec /\ \A q \in Run : q # r => row'[q] = row[q]
    BY <1>t, NoteKeeps
  <1>1. CASE tried' = tried /\ \E rec \in Row :
                /\ Note(r, rec)
                /\ rec.authorized => row[r].authorized \/ tried[r] < MaxAttempt
    <2>1. PICK rec \in Row : /\ Note(r, rec)
                /\ rec.authorized => row[r].authorized \/ tried[r] < MaxAttempt
      BY <1>1
    <2> QED BY <2>1, <1>1, <1>k, <1>t DEF RetryInBounds
  <1>2. CASE tried' = tried /\ row' = row
    BY <1>2, <1>t DEF RetryInBounds
  <1>3. CASE /\ tried' = [tried EXCEPT ![r] = NextAttempt(r)]
             /\ \E rec \in Row : Note(r, rec) /\ ~rec.authorized
    <2>1. PICK rec \in Row : Note(r, rec) /\ ~rec.authorized
      BY <1>3
    <2> QED BY <2>1, <1>3, <1>k, <1>t DEF RetryInBounds
  <1>4. /\ \A v \in {"open", "completed", "failed", "broken"} :
              /\ [row[r] EXCEPT !.status = v] \in Row
              /\ [row[r] EXCEPT !.status = v].authorized = row[r].authorized
        /\ [row[r] EXCEPT !.authorized = TRUE] \in Row
        /\ [row[r] EXCEPT !.answer = TRUE] \in Row
        /\ [row[r] EXCEPT !.answer = TRUE].authorized = row[r].authorized
    BY <1>t DEF Row
  <1>5. CASE Intent(r)
    <2>1. base[r] \in Thread \cup {None}
      BY DEF IInv, TypeOK
    <2> DEFINE rec == [row[r] EXCEPT !.intent = TRUE, !.from = base[r], !.authorized = FALSE]
    <2>2. rec \in Row /\ ~rec.authorized
      BY <2>1, <1>t DEF Row
    <2>3. Note(r, rec) /\ tried' = [tried EXCEPT ![r] = NextAttempt(r)]
      BY <1>5 DEF Intent
    <2> QED BY <2>2, <2>3, <1>3
  <1>6. CASE Reject(r)
    <2> DEFINE rec == [row[r] EXCEPT !.status = "failed", !.authorized = FALSE]
    <2>1. rec \in Row /\ ~rec.authorized
      BY <1>t DEF Row
    <2>2. CASE Note(r, rec) /\ tried' = [tried EXCEPT ![r] = NextAttempt(r)]
      BY <2>1, <2>2, <1>3
    <2>3. CASE Note(r, [row[r] EXCEPT !.status = "broken"]) /\ UNCHANGED tried
      BY <2>3, <1>4, <1>1
    <2> QED BY <1>6, <2>2, <2>3 DEF Reject
  <1>7. CASE Prepare(r)
    <2> DEFINE rec == [row[r] EXCEPT !.prepared = tried[r], !.stage = "none"]
    <2>1. tried[r] \in 0..MaxAttempt
      BY <1>t, BoundAssumption DEF Attempt
    <2>2. rec \in Row /\ rec.authorized = row[r].authorized
      BY <2>1, <1>t DEF Row
    <2>3. Note(r, rec) /\ tried' = tried
      BY <1>7 DEF Prepare
    <2> QED BY <2>2, <2>3, <1>1
  <1>8. CASE Startup(r) \/ Reserve(r) \/ Violated(r)
    <2>1. /\ [row[r] EXCEPT !.startup = TRUE, !.stage = "configured"] \in Row
          /\ [row[r] EXCEPT !.startup = TRUE, !.stage = "configured"].authorized
                 = row[r].authorized
          /\ [row[r] EXCEPT !.reserved = TRUE, !.stage = "reserved"] \in Row
          /\ [row[r] EXCEPT !.reserved = TRUE, !.stage = "reserved"].authorized
                 = row[r].authorized
          /\ [row[r] EXCEPT !.stage = "violated"] \in Row
          /\ [row[r] EXCEPT !.stage = "violated"].authorized = row[r].authorized
      BY <1>t DEF Row
    <2> QED BY <1>8, <2>1, <1>1 DEF Startup, Reserve, Violated
  <1>9. CASE Bind(r)
    <2>1. PICK t \in Thread : Note(r, [row[r] EXCEPT !.thread = t])
      <3>1. base[r] # None => base[r] \in Thread
        BY DEF IInv, TypeOK
      <3>2. threads < MaxThread => threads + 1 \in Thread
        BY BoundAssumption DEF IInv, TypeOK, Thread
      <3> QED BY <1>9, <3>1, <3>2 DEF Bind
    <2>2. /\ [row[r] EXCEPT !.thread = t] \in Row
          /\ [row[r] EXCEPT !.thread = t].authorized = row[r].authorized
      BY <1>t DEF Row
    <2> QED BY <1>9, <2>1, <2>2, <1>1 DEF Bind
  <1>10. CASE Settle(r)
    <2> DEFINE rec == [row[r] EXCEPT !.finished[tried[r]] = SettledThread(r)]
    <2>1. SettledThread(r) \in Thread \cup {None, Open}
      BY DEF IInv, SettledThread, TypeOK, Row, Binding
    <2>2. rec \in Row /\ rec.authorized = row[r].authorized
      BY <2>1, <1>t DEF Row
    <2>3. tried' = tried /\ (row' = row \/ Note(r, rec))
      BY <1>10 DEF Settle
    <2> QED BY <2>2, <2>3, <1>1, <1>2
  <1>11. CASE Recover(r)
    BY <1>11, <1>4, <1>1, <1>2 DEF Recover
  <1>12. CASE Enter(r)
    BY <1>12, <1>4, <1>1, <1>2 DEF Enter
  <1>13. CASE Refuse(r) \/ Fail(r) \/ Incapable(r) \/ Respond(r) \/ Validate(r)
    BY <1>13, <1>4, <1>1 DEF Refuse, Fail, Incapable, Respond, Validate
  <1>14. CASE Check(r) \/ Claim(r) \/ Advance(r) \/ GiveUp(r) \/ Release(r) \/ Unlock(r) \/ Crash(r)
    BY <1>14, <1>2 DEF Check, Claim, Advance, GiveUp, Release, Unlock, Crash
  <1> QED
    BY <1>5, <1>6, <1>7, <1>8, <1>9, <1>10, <1>11, <1>12, <1>13, <1>14 DEF Step

(* Only Startup makes work unsettled; every other step leaves it, or settles *)
(* it.                                                                       *)
LEMMA UnsettledGrows ==
    ASSUME IInv, NEW r \in Run, Enter(r) \/ Step(r) \/ Crash(r),
           NEW q \in Run, Unsettled(q)'
    PROVE  Unsettled(q) \/ (q = r /\ Startup(r))
  <1>t. row \in [Run -> Row] /\ row[r] \in Row
    BY DEF IInv, TypeOK
  <1>k. \A rec : Note(r, rec) => row'[r] = rec /\ \A p \in Run : p # r => row'[p] = row[p]
    BY <1>t, NoteKeeps
  <1>1. CASE row'[q] = row[q]
    BY <1>1 DEF Unsettled, Settled
  <1>2. CASE Startup(r)
    BY <1>1, <1>2, <1>k DEF Startup
  <1>3. CASE q = r /\ row'[r].startup = row[r].startup /\ row'[r].finished = row[r].finished
    BY <1>3 DEF Unsettled, Settled
  <1>4. CASE Settle(r) /\ q = r
    <2>1. CASE UNCHANGED row
      BY <2>1, <1>1
    <2>2. CASE ~Settled(r, tried[r]) /\ Note(r, [row[r] EXCEPT !.finished[tried[r]] = SettledThread(r)])
      <3>1. row'[r] = [row[r] EXCEPT !.finished[tried[r]] = SettledThread(r)]
        BY <2>2, <1>k
      <3>2. /\ row'[r].startup = row[r].startup
            /\ \A a \in Attempt : a # tried[r] => row'[r].finished[a] = row[r].finished[a]
        BY <3>1, <1>t DEF Row
      <3> QED BY <2>2, <3>2, <1>4 DEF Unsettled, Settled
    <2> QED BY <1>4, <2>1, <2>2 DEF Settle
  <1>5. CASE Settle(r) /\ q # r
    BY <1>1, <1>5, <1>k DEF Settle
  <1> DEFINE Same(rec) == rec.startup = row[r].startup /\ rec.finished = row[r].finished
  <1>a. /\ \A v : Same([row[r] EXCEPT !.status = v])
        /\ \A v : Same([row[r] EXCEPT !.authorized = v])
        /\ \A v : Same([row[r] EXCEPT !.answer = v])
        /\ \A v : Same([row[r] EXCEPT !.thread = v])
        /\ \A v : Same([row[r] EXCEPT !.stage = v])
    BY <1>t DEF Row
  <1>b. /\ \A v : Same([row[r] EXCEPT !.intent = TRUE, !.from = v, !.authorized = FALSE])
        /\ Same([row[r] EXCEPT !.status = "failed", !.authorized = FALSE])
        /\ \A v : Same([row[r] EXCEPT !.prepared = v, !.stage = "none"])
        /\ Same([row[r] EXCEPT !.reserved = TRUE, !.stage = "reserved"])
    BY <1>t DEF Row
  <1>c. \A rec : Note(r, rec) /\ Same(rec) => Unsettled(q) \/ (q = r /\ Startup(r))
    <2> SUFFICES ASSUME NEW rec, Note(r, rec), Same(rec)
                 PROVE  Unsettled(q) \/ (q = r /\ Startup(r))
      OBVIOUS
    <2>1. row'[r] = rec /\ (q # r => row'[q] = row[q])
      BY <1>k
    <2> QED BY <2>1, <1>1, <1>3
  <1> HIDE DEF Same
  <1>7. CASE Enter(r) \/ Refuse(r) \/ Recover(r) \/ Intent(r) \/ Reject(r)
    BY <1>1, <1>7, <1>a, <1>b, <1>c DEF Enter, Refuse, Recover, Intent, Reject
  <1>8. CASE Prepare(r) \/ Bind(r) \/ Reserve(r) \/ Respond(r) \/ Violated(r)
    BY <1>8, <1>a, <1>b, <1>c DEF Prepare, Bind, Reserve, Respond, Violated
  <1>9. CASE Incapable(r) \/ Validate(r) \/ Fail(r)
    BY <1>9, <1>a, <1>c DEF Incapable, Validate, Fail
  <1>10. CASE Check(r) \/ Claim(r) \/ Advance(r) \/ GiveUp(r) \/ Release(r) \/ Unlock(r) \/ Crash(r)
    BY <1>1, <1>10 DEF Check, Claim, Advance, GiveUp, Release, Unlock, Crash
  <1> QED BY <1>2, <1>4, <1>5, <1>7, <1>8, <1>9, <1>10 DEF Step

LEMMA UnsettledPart ==
    ASSUME IInv, NEW r \in Run, Enter(r) \/ Step(r) \/ Crash(r)
    PROVE  UnsettledOwns'
  <1>t. /\ UnsettledOwns /\ OwnerHasAttempt /\ NoStranger /\ ClaimIsHeld /\ SettledFirst
        /\ TypeOK /\ r # None
    BY NoneAssumption DEF IInv
  <1> SUFFICES ASSUME NEW q \in Run, Unsettled(q)'
               PROVE  binding'.owner = q
    BY DEF UnsettledOwns
  <1>1. CASE Startup(r) /\ q = r
    BY <1>1, <1>t DEF Startup, At, ClaimIsHeld, Claiming
  <1>2. CASE Unsettled(q)
    <2>1. binding.owner = q
      BY <1>2, <1>t DEF UnsettledOwns
    <2>2. CASE Check(r)
      <3>1. q # None /\ ~Settled(q, binding.attempt) /\ row[q].startup
        BY <1>2, <2>1, <1>t, NoneAssumption DEF Unsettled, OwnerHasAttempt
      <3>2. ~Takeable(q, binding.attempt)
        BY <3>1 DEF Takeable
      <3> QED BY <2>1, <2>2, <3>2 DEF Check, Checked
    <2>3. CASE Claim(r)
      <3>1. q = r
        BY <2>1, <2>3, <1>t, NoneAssumption DEF Claim, At, NoStranger, Checking
      <3>2. /\ Checked(r) \in Binding
            /\ binding' = [Checked(r) EXCEPT !.owner = r, !.attempt = tried[r]]
        BY <2>3, <1>t, CheckedType DEF Claim
      <3> QED BY <3>1, <3>2 DEF Binding
    <2>4. CASE Release(r) /\ Owns(r)
      <3>1. q = r /\ Settled(r, tried[r]) /\ tried[r] \in Attempt
        BY <2>1, <2>4, <1>t DEF Owns, Release, At, SettledFirst, TypeOK
      <3> QED BY <1>2, <3>1 DEF Unsettled
    <2> QED BY <2>1, <2>2, <2>3, <2>4, OwnerSteps
  <1> QED BY <1>1, <1>2, UnsettledGrows
-----------------------------------------------------------------------------
LEMMA InitHolds == Init => IInv
  <1> SUFFICES ASSUME Init PROVE IInv
    OBVIOUS
  <1>b. MaxAttempt \in Nat /\ MaxAttempt > 0 /\ MaxThread \in Nat /\ MaxCrash \in Nat
    BY BoundAssumption
  <1>1. NoRow \in Row
    BY <1>b DEF NoRow, Row
  <1>2. TypeOK
    BY <1>1, <1>b DEF Init, TypeOK, Binding, Label, Attempt
  <1>3. \A r \in Run : row[r] = NoRow /\ pc[r] = "idle"
    BY DEF Init
  <1>4. RetryInBounds /\ UnsettledOwns
    BY <1>3 DEF RetryInBounds, UnsettledOwns, Unsettled, NoRow
  <1>5. OwnerHasAttempt
    BY DEF Init, OwnerHasAttempt
  <1>6. LockIsHeld /\ NoStranger /\ ClaimIsHeld /\ SettledFirst
    BY <1>3 DEF LockIsHeld, NoStranger, ClaimIsHeld, SettledFirst, Checking, Claiming
  <1> QED BY <1>2, <1>4, <1>5, <1>6 DEF IInv

LEMMA StepHolds == IInv /\ [Next]_vars => IInv'
  <1> SUFFICES ASSUME IInv, [Next]_vars PROVE IInv'
    OBVIOUS
  <1>1. CASE UNCHANGED vars
    BY <1>1 DEF IInv, vars, TypeOK, LockIsHeld, OwnerHasAttempt, NoStranger, ClaimIsHeld,
       SettledFirst, RetryInBounds, UnsettledOwns, Unsettled, Settled
  <1>2. CASE Next
    <2>1. PICK r \in Run : Enter(r) \/ Step(r) \/ Crash(r)
      BY <1>2 DEF Next
    <2>2. TypeOK'
      BY <2>1, BindingType, RowType, PcType, OthersType DEF TypeOK
    <2> QED
      BY <2>1, <2>2, LockPart, OwnerPart, SettledPart, RetryPart, UnsettledPart DEF IInv
  <1> QED BY <1>1, <1>2

(* The file, the ledgers and the executors keep their types.                 *)
THEOREM TypeCorrect == Spec => []TypeOK
  <1>1. IInv => TypeOK
    BY DEF IInv
  <1> QED BY <1>1, InitHolds, StepHolds, PTL DEF Spec

(* Work that may have an app-server and is not settled owns the conversation *)
(* (SessionBinding.check, claim and finish under session_lock).              *)
THEOREM UnsettledWorkOwns == Spec => []UnsettledOwns
  <1>1. IInv => UnsettledOwns
    BY DEF IInv
  <1> QED BY <1>1, InitHolds, StepHolds, PTL DEF Spec
-----------------------------------------------------------------------------
(* The history of the conversation.                                          *)
Over      == {"completed", "failed", "broken"}
Trying    == {"preflight", "prepare", "claim", "startup", "bind", "advance", "reserve", "turn"}
Bound     == {"advance", "reserve", "turn"}
Ending    == {"finish", "release"}

(* A call settles its latest attempt, and not before it is over.             *)
SettledIsOver(q) ==
    \A a \in Attempt : Settled(q, a) =>
        a = tried[q] /\ (row[q].status \in Over \/ row[q].stage = "violated")
StoppedTurn(q) ==
    row[q].stage = "violated" =>
        row[q].intent /\ ~row[q].answer /\ row[q].prepared = tried[q]
Tries(q) ==
    pc[q] \in Trying => row[q].stage # "violated" /\ row[q].status = "open" /\ ~row[q].answer
Opens(q) ==
    /\ pc[q] \in {"check", "recover", "validate"} => row[q].status = "open"
    /\ pc[q] = "recover" => row[q].intent /\ ~row[q].answer
    /\ pc[q] \in Trying \ {"preflight"} => row[q].intent
    /\ pc[q] \in Claiming \cup {"claim"} => row[q].prepared = tried[q]
Ends(q) ==
    pc[q] \in Ending => row[q].status \in {"completed", "failed"} \/ row[q].stage = "violated"

(* What has reached a server, or has an answer, was started; a turn has a    *)
(* thread.                                                                   *)
Begins(q) ==
    /\ row[q].reserved \/ row[q].answer \/ row[q].stage \in {"configured", "reserved"} => row[q].startup
    /\ pc[q] \in Bound \cup {"bind"} => row[q].startup
    /\ row[q].prepared <= tried[q]
    /\ row[q].stage = "reserved" \/ row[q].answer => row[q].thread # None
    /\ pc[q] \in Bound => row[q].thread # None /\ base[q] # None

Path == \A q \in Run : /\ SettledIsOver(q) /\ StoppedTurn(q) /\ Tries(q) /\ Opens(q)
                       /\ Ends(q) /\ Begins(q)

(* The file belongs to the attempt that is claimed, started or answered.     *)
Place(q) ==
    /\ binding.owner = q => binding.attempt <= tried[q]
    /\ pc[q] \in Claiming => Owns(q)
    /\ row[q].stage \in {"configured", "reserved"} /\ row[q].prepared = tried[q]
         /\ ~Settled(q, tried[q]) => Owns(q)
    /\ row[q].answer /\ ~Settled(q, tried[q]) => Owns(q)
Placed == \A q \in Run : Place(q)

(* The thread of the latest settled call is in the file, or in the           *)
(* settlement of the owner; an owner that may still answer has one.          *)
Latest(b) ==
    IF b.owner = None THEN b.thread = settled
    ELSE LET f == row[b.owner].finished[b.attempt] IN
         IF f # Open THEN settled = IF f = None THEN b.thread ELSE f
         ELSE IF row[b.owner].startup THEN b.thread # None ELSE b.thread = settled
Kept == settled # None => Latest(binding)
-----------------------------------------------------------------------------
(* A step changes nothing that another run has.                              *)
LEMMA OthersKeep ==
    ASSUME IInv, NEW r \in Run, Enter(r) \/ Step(r) \/ Crash(r), NEW q \in Run, q # r
    PROVE  row'[q] = row[q] /\ pc'[q] = pc[q] /\ tried'[q] = tried[q] /\ base'[q] = base[q]
  <1>t. tried \in [Run -> Attempt] /\ base \in [Run -> Thread \cup {None}] /\ row \in [Run -> Row]
    BY DEF IInv, TypeOK
  <1>1. pc'[q] = pc[q]
    BY PcType
  <1>2. tried'[q] = tried[q] /\ base'[q] = base[q]
    BY <1>t DEF Enter, Step, Crash, Check, Refuse, Recover, Intent, Reject, Prepare, Claim,
       Startup, Bind, Advance, Reserve, Respond, Violated, GiveUp, Incapable, Validate, Settle,
       Release, Fail, Unlock
  <1>3. (\E rec : Note(r, rec)) \/ UNCHANGED row
    BY DEF Enter, Step, Crash, Check, Refuse, Recover, Intent, Reject, Prepare, Claim,
       Startup, Bind, Advance, Reserve, Respond, Violated, GiveUp, Incapable, Validate, Settle,
       Release, Fail, Unlock
  <1>4. row'[q] = row[q]
    BY <1>3, <1>t DEF Note
  <1> QED BY <1>1, <1>2, <1>4

(* What a step makes of the run that takes it.                               *)
LEMMA PathOfOne ==
    ASSUME IInv, Path, NEW r \in Run, Enter(r) \/ Step(r) \/ Crash(r)
    PROVE  /\ SettledIsOver(r)' /\ StoppedTurn(r)' /\ Tries(r)' /\ Opens(r)'
           /\ Ends(r)' /\ Begins(r)'
  <1>t. /\ row[r] \in Row /\ pc[r] \in Label /\ tried[r] \in Attempt
        /\ pc \in [Run -> Label] /\ tried \in [Run -> Attempt] /\ row \in [Run -> Row]
        /\ base \in [Run -> Thread \cup {None}]
    BY DEF IInv, TypeOK
  <1>p. /\ SettledIsOver(r) /\ StoppedTurn(r) /\ Tries(r) /\ Opens(r) /\ Ends(r) /\ Begins(r)
    BY DEF Path
  <1> USE DEF SettledIsOver, StoppedTurn, Tries, Opens, Ends, Begins, Settled, Over, Trying,
          Bound, Ending, Claiming, At, Goto, Note, Row
  <1>1. CASE Enter(r)
    <2>1. CASE row[r].status \in {"completed", "failed"}
      BY <1>1, <2>1, <1>t, <1>p DEF Enter
    <2>2. CASE row[r].status \notin {"completed", "failed"}
      <3>1. /\ row'[r] = [row[r] EXCEPT !.status = "open"] /\ pc'[r] = "check"
            /\ row[r].status \notin Over /\ UNCHANGED <<tried, base>>
        BY <1>1, <2>2, <1>t DEF Enter
      <3> QED BY <3>1, <1>t, <1>p
    <2> QED BY <2>1, <2>2
  <1>2. CASE Check(r)
    BY <1>2, <1>t, <1>p DEF Check
  <1>3. CASE Refuse(r)
    BY <1>3, <1>t, <1>p DEF Refuse
  <1>4. CASE Recover(r)
    <2>1. pc[r] = "recover" /\ UNCHANGED <<tried, base>>
      BY <1>4 DEF Recover
    <2>2. CASE /\ row[r].prepared < tried[r] \/ row[r].stage \in {"configured", "reserved"}
               /\ Note(r, [row[r] EXCEPT !.authorized = TRUE]) /\ Goto(r, "preflight")
      <3>1. row'[r] = [row[r] EXCEPT !.authorized = TRUE] /\ pc'[r] = "preflight"
        BY <2>2, <1>t
      <3>2. row[r].stage # "violated"
        BY <2>2, <1>p, <1>t DEF Attempt
      <3> QED BY <2>1, <3>1, <3>2, <1>t, <1>p
    <2>3. CASE /\ row[r].stage = "reserved"
               /\ Note(r, [row[r] EXCEPT !.answer = TRUE]) /\ Goto(r, "validate")
      <3>1. row'[r] = [row[r] EXCEPT !.answer = TRUE] /\ pc'[r] = "validate"
        BY <2>3, <1>t
      <3> QED BY <2>1, <2>3, <3>1, <1>t, <1>p
    <2>4. CASE UNCHANGED row /\ (Goto(r, "unlock") \/ (row[r].stage = "violated" /\ Goto(r, "finish")))
      BY <2>1, <2>4, <1>t, <1>p
    <2> QED BY <1>4, <2>2, <2>3, <2>4 DEF Recover
  <1>5. CASE Intent(r)
    <2>1. /\ pc[r] = "preflight" /\ pc'[r] = "prepare" /\ base' = base
          /\ row'[r] = [row[r] EXCEPT !.intent = TRUE, !.from = base[r], !.authorized = FALSE]
      BY <1>5, <1>t DEF Intent
    <2>2. tried'[r] \in Nat /\ tried[r] <= tried'[r]
      BY <1>5, <1>t, BoundAssumption DEF Intent, NextAttempt, Attempt
    <2>3. \A a \in Attempt : ~Settled(r, a)
      BY <2>1, <1>p
    <2>4. /\ row'[r].finished = row[r].finished /\ row'[r].stage = row[r].stage
          /\ row'[r].status = row[r].status /\ row'[r].answer = row[r].answer
          /\ row'[r].startup = row[r].startup /\ row'[r].reserved = row[r].reserved
          /\ row'[r].prepared = row[r].prepared /\ row'[r].thread = row[r].thread
          /\ row'[r].intent
      BY <2>1, <1>t
    <2>5. row'[r].prepared <= tried'[r]
      BY <2>2, <2>4, <1>p, <1>t DEF Attempt
    <2> QED BY <2>1, <2>3, <2>4, <2>5, <1>p
  <1>6. CASE Reject(r)
    <2>1. pc[r] = "preflight" /\ base' = base /\ pc'[r] \in {"finish", "unlock"}
      BY <1>6, <1>t DEF Reject
    <2>2. tried'[r] \in Nat /\ tried[r] <= tried'[r]
      BY <1>6, <1>t, BoundAssumption DEF Reject, NextAttempt, Attempt
    <2>3. \A a \in Attempt : ~Settled(r, a)
      BY <2>1, <1>p
    <2>4. /\ row'[r].finished = row[r].finished /\ row'[r].stage = row[r].stage
          /\ row'[r].answer = row[r].answer /\ row'[r].intent = row[r].intent
          /\ row'[r].startup = row[r].startup /\ row'[r].reserved = row[r].reserved
          /\ row'[r].prepared = row[r].prepared /\ row'[r].thread = row[r].thread
          /\ pc'[r] = "finish" => row'[r].status = "failed"
      <3>1. \/ row'[r] = [row[r] EXCEPT !.status = "failed", !.authorized = FALSE]
            \/ row'[r] = [row[r] EXCEPT !.status = "broken"] /\ pc'[r] = "unlock"
        BY <1>6, <1>t DEF Reject
      <3> QED BY <3>1, <1>t
    <2>5. row'[r].prepared <= tried'[r]
      BY <2>2, <2>4, <1>p, <1>t DEF Attempt
    <2> QED BY <2>1, <2>3, <2>4, <2>5, <1>p
  <1>7. CASE Prepare(r)
    <2>1. /\ pc[r] = "prepare" /\ pc'[r] = "claim" /\ UNCHANGED <<tried, base>>
          /\ row'[r] = [row[r] EXCEPT !.prepared = tried[r], !.stage = "none"]
      BY <1>7, <1>t DEF Prepare
    <2>2. tried[r] <= tried[r]
      BY <1>t DEF Attempt
    <2>3. \A a \in Attempt : ~Settled(r, a)
      BY <2>1, <1>p
    <2>4. /\ row'[r].finished = row[r].finished /\ row'[r].stage = "none"
          /\ row'[r].status = row[r].status /\ row'[r].answer = row[r].answer
          /\ row'[r].startup = row[r].startup /\ row'[r].reserved = row[r].reserved
          /\ row'[r].prepared = tried[r] /\ row'[r].thread = row[r].thread
          /\ row'[r].intent = row[r].intent
      BY <2>1, <1>t
    <2> QED BY <2>1, <2>2, <2>3, <2>4, <1>p
  <1>8. CASE Claim(r)
    BY <1>8, <1>t, <1>p DEF Claim
  <1>9. CASE Startup(r)
    BY <1>9, <1>t, <1>p DEF Startup
  <1>10. CASE Bind(r)
    <2>1. /\ pc[r] = "bind" /\ pc'[r] = "advance" /\ tried' = tried
          /\ \E t : row'[r] = [row[r] EXCEPT !.thread = t] /\ t # None /\ base'[r] = t
      <3>1. threads + 1 \in Thread \/ ~(threads < MaxThread)
        BY BoundAssumption DEF IInv, TypeOK, Thread
      <3>2. \A t \in Thread : t # None
        BY NoneAssumption DEF Thread
      <3> QED BY <1>10, <1>t, <3>1, <3>2, ZenonT(40) DEF Bind
    <2>2. PICK t : row'[r] = [row[r] EXCEPT !.thread = t] /\ t # None /\ base'[r] = t
      BY <2>1
    <2>3. /\ row'[r].finished = row[r].finished /\ row'[r].stage = row[r].stage
          /\ row'[r].status = row[r].status /\ row'[r].answer = row[r].answer
          /\ row'[r].startup = row[r].startup /\ row'[r].reserved = row[r].reserved
          /\ row'[r].prepared = row[r].prepared /\ row'[r].thread = t
          /\ row'[r].intent = row[r].intent
      BY <2>2, <1>t
    <2> QED BY <2>1, <2>2, <2>3, <1>p
  <1>11. CASE Advance(r)
    BY <1>11, <1>t, <1>p DEF Advance
  <1>12. CASE Reserve(r)
    BY <1>12, <1>t, <1>p DEF Reserve
  <1>13. CASE Respond(r)
    BY <1>13, <1>t, <1>p DEF Respond
  <1>14. CASE Violated(r)
    BY <1>14, <1>t, <1>p DEF Violated
  <1>15. CASE GiveUp(r) \/ Unlock(r) \/ Crash(r)
    BY <1>15, <1>t, <1>p DEF GiveUp, Unlock, Crash
  <1>16. CASE Incapable(r)
    BY <1>16, <1>t, <1>p DEF Incapable
  <1>17. CASE Validate(r)
    BY <1>17, <1>t, <1>p DEF Validate
  <1>18. CASE Settle(r)
    <2>1. pc[r] = "finish" /\ pc'[r] = "release" /\ UNCHANGED <<tried, base>>
      BY <1>18, <1>t DEF Settle
    <2>2. CASE UNCHANGED row
      BY <2>1, <2>2, <1>t, <1>p
    <2>3. CASE Note(r, [row[r] EXCEPT !.finished[tried[r]] = SettledThread(r)])
      <3>1. /\ row'[r].stage = row[r].stage /\ row'[r].intent = row[r].intent
            /\ row'[r].status = row[r].status /\ row'[r].answer = row[r].answer
            /\ row'[r].startup = row[r].startup /\ row'[r].reserved = row[r].reserved
            /\ row'[r].prepared = row[r].prepared /\ row'[r].thread = row[r].thread
            /\ \A a \in Attempt : a # tried[r] => row'[r].finished[a] = row[r].finished[a]
        BY <2>3, <1>t
      <3> QED BY <2>1, <3>1, <1>p
    <2> QED BY <1>18, <2>2, <2>3 DEF Settle
  <1>19. CASE Release(r)
    BY <1>19, <1>t, <1>p DEF Release
  <1>20. CASE Fail(r)
    BY <1>20, <1>t, <1>p DEF Fail
  <1> QED
    BY <1>1, <1>2, <1>3, <1>4, <1>5, <1>6, <1>7, <1>8, <1>9, <1>10, <1>11, <1>12, <1>13, <1>14,
       <1>15, <1>16, <1>17, <1>18, <1>19, <1>20 DEF Step

LEMMA PathPart ==
    ASSUME IInv, Path, NEW r \in Run, Enter(r) \/ Step(r) \/ Crash(r)
    PROVE  Path'
  <1>1. ASSUME NEW q \in Run, q # r
        PROVE  /\ SettledIsOver(q)' /\ StoppedTurn(q)' /\ Tries(q)' /\ Opens(q)'
               /\ Ends(q)' /\ Begins(q)'
    <2>1. row'[q] = row[q] /\ pc'[q] = pc[q] /\ tried'[q] = tried[q] /\ base'[q] = base[q]
      BY <1>1, OthersKeep
    <2> QED BY <2>1 DEF Path, SettledIsOver, StoppedTurn, Tries, Opens, Ends, Begins, Settled
  <1> QED BY <1>1, PathOfOne DEF Path

(* Nothing of a run that works is settled yet.                               *)
LEMMA NotYet ==
    ASSUME IInv, Path, NEW r \in Run,
           pc[r] \in Trying \/ (row[r].status = "open" /\ row[r].stage # "violated")
    PROVE  \A a \in Attempt : ~Settled(r, a)
  BY DEF Path, SettledIsOver, Tries, Over

LEMMA ClaimWrites ==
    ASSUME IInv, NEW r \in Run, Claim(r)
    PROVE  /\ binding' = [binding EXCEPT !.owner = r, !.attempt = tried[r]]
           /\ binding'.owner = r /\ binding'.attempt = tried[r] /\ tried' = tried
           /\ binding'.thread = binding.thread /\ binding.owner \in {None, r}
  <1>1. binding.owner \in {None, r}
    BY DEF IInv, NoStranger, Claim, At, Checking
  <1>2. Checked(r) = binding
    BY <1>1 DEF Checked, Foreign
  <1> QED BY <1>1, <1>2 DEF Claim, IInv, TypeOK, Binding

(* An owner whose attempt was started and is not settled stays the owner, of *)
(* that attempt, until it settles it or tries again.                         *)
LEMMA OwnerStays ==
    ASSUME IInv, Path, NEW r \in Run, Enter(r) \/ Step(r) \/ Crash(r),
           NEW q \in Run, Owns(q), row[q].startup, ~Settled(q, tried[q]), tried'[q] = tried[q]
    PROVE  Owns(q)'
  <1>t. /\ binding \in Binding /\ q # None /\ r # None /\ NoStranger /\ SettledFirst
        /\ binding.owner = q /\ binding.attempt = tried[q]
    BY NoneAssumption DEF IInv, TypeOK, Owns
  <1>1. CASE Check(r)
    <2>1. ~Takeable(q, tried[q])
      BY DEF Takeable
    <2> QED BY <1>1, <2>1, <1>t DEF Check, Checked, Owns
  <1>2. CASE Claim(r)
    <2>1. q = r
      BY <1>2, <1>t DEF Claim, At, NoStranger, Checking
    <2> QED BY <1>2, <2>1, ClaimWrites DEF Owns
  <1>3. CASE Release(r) /\ Owns(r)
    <2>1. q = r /\ Settled(r, tried[r])
      BY <1>3, <1>t DEF Owns, Release, At, SettledFirst
    <2> QED BY <2>1
  <1>4. CASE Advance(r)
    BY <1>4, <1>t DEF Advance, Owns, Binding
  <1>5. CASE UNCHANGED binding
    BY <1>5, <1>t DEF Owns
  <1> QED BY <1>1, <1>2, <1>3, <1>4, <1>5, OwnerSteps

(* What was started stays so; an attempt is answered only by its turn, or by  *)
(* its recovery.                                                             *)
LEMMA StageKeeps ==
    ASSUME IInv, Path, NEW r \in Run, Enter(r) \/ Step(r) \/ Crash(r),
           ~Settled(r, tried[r])'
    PROVE  /\ ~Startup(r) /\ ~Reserve(r) /\ row'[r].stage \in {"configured", "reserved"}
                 /\ row'[r].prepared = tried'[r] =>
              /\ tried'[r] = tried[r] /\ ~Settled(r, tried[r])
              /\ row[r].stage \in {"configured", "reserved"} /\ row[r].prepared = tried[r]
           /\ ~Respond(r) /\ ~Recover(r) /\ row'[r].answer =>
              tried'[r] = tried[r] /\ ~Settled(r, tried[r]) /\ row[r].answer
  <1>t. /\ row[r] \in Row /\ tried[r] \in Attempt /\ Begins(r) /\ Tries(r) /\ tried[r] \in Nat
        /\ row \in [Run -> Row] /\ tried \in [Run -> Attempt]
    BY DEF IInv, TypeOK, Path, Attempt
  <1> DEFINE Same == /\ row'[r].stage = row[r].stage /\ row'[r].prepared = row[r].prepared
                     /\ row'[r].answer = row[r].answer
             Calm == tried' = tried /\ row'[r].finished = row[r].finished
  <1>0. CASE UNCHANGED <<row, tried>>
    BY <1>0 DEF Settled
  <1>1. CASE Same /\ Calm
    BY <1>1 DEF Settled
  <1>2. CASE Intent(r) \/ Reject(r)
    <2>1. pc[r] = "preflight" /\ tried'[r] \in {tried[r], tried[r] + 1} /\ Same
      <3>1. CASE Intent(r)
        BY <3>1, <1>t DEF Intent, NextAttempt, At, Note, Row
      <3>2. CASE Reject(r)
        <4>1. /\ \/ row'[r] = [row[r] EXCEPT !.status = "failed", !.authorized = FALSE]
                 \/ row'[r] = [row[r] EXCEPT !.status = "broken"]
              /\ pc[r] = "preflight" /\ tried'[r] \in {tried[r], tried[r] + 1}
          BY <3>2, <1>t DEF Reject, NextAttempt, At, Note
        <4> QED BY <4>1, <1>t DEF Row
      <3> QED BY <1>2, <3>1, <3>2
    <2>2. \A a \in Attempt : ~Settled(r, a)
      BY <2>1, NotYet DEF Trying
    <2>3. row'[r].prepared = tried'[r] => tried'[r] = tried[r]
      BY <2>1, <1>t DEF Begins, Row
    <2>4. ~row[r].answer
      BY <2>1, <1>t DEF Tries, Trying
    <2> QED BY <2>1, <2>2, <2>3, <2>4, <1>t
  <1>3. CASE Prepare(r)
    <2>1. row'[r] = [row[r] EXCEPT !.prepared = tried[r], !.stage = "none"] /\ tried' = tried
      BY <1>3, <1>t DEF Prepare, Note
    <2> QED BY <2>1, <1>t DEF Row, Settled
  <1>4. CASE Startup(r) \/ Reserve(r) \/ Violated(r)
    <2>1. /\ row'[r].answer = row[r].answer /\ Calm
          /\ Violated(r) => row'[r].stage = "violated"
      <3>1. CASE Startup(r) \/ Reserve(r)
        <4>1. /\ \/ row'[r] = [row[r] EXCEPT !.startup = TRUE, !.stage = "configured"]
                 \/ row'[r] = [row[r] EXCEPT !.reserved = TRUE, !.stage = "reserved"]
              /\ tried' = tried /\ ~Violated(r)
          BY <3>1, <1>t DEF Startup, Reserve, Violated, At, Note
        <4> QED BY <4>1, <1>t DEF Row
      <3>2. CASE Violated(r)
        BY <3>2, <1>t DEF Violated, Note, Row
      <3> QED BY <1>4, <3>1, <3>2
    <2>2. Startup(r) \/ Reserve(r) \/ row'[r].stage = "violated"
      BY <1>4, <2>1
    <2> QED BY <2>1, <2>2 DEF Settled
  <1>5. CASE Respond(r) \/ Recover(r)
    <2>1. Calm /\ row'[r].stage = row[r].stage /\ row'[r].prepared = row[r].prepared
      BY <1>5, <1>t DEF Respond, Recover, Note, Row
    <2> QED BY <1>5, <2>1 DEF Settled
  <1>6. CASE Bind(r)
    <2>1. \A t : row' = [row EXCEPT ![r] = [row[r] EXCEPT !.thread = t]] => Same /\ row'[r].finished = row[r].finished
      BY <1>t DEF Row
    <2> QED BY <1>1, <1>6, <2>1 DEF Bind, Note
  <1>7. CASE Settle(r)
    <2>1. CASE UNCHANGED row
      BY <1>7, <2>1 DEF Settle, Settled
    <2>2. CASE Note(r, [row[r] EXCEPT !.finished[tried[r]] = SettledThread(r)])
      <3>1. SettledThread(r) # Open /\ tried' = tried
        BY <1>7, NoneAssumption, OpenAssumption
        DEF Settle, SettledThread, IInv, TypeOK, Row, Binding, Thread
      <3>2. Settled(r, tried[r])'
        BY <2>2, <3>1, <1>t DEF Note, Row, Settled
      <3> QED BY <3>2
    <2> QED BY <1>7, <2>1, <2>2 DEF Settle
  <1>8. CASE Enter(r) \/ Refuse(r) \/ Incapable(r) \/ Validate(r) \/ Fail(r)
    <2>1. \A v : row' = [row EXCEPT ![r] = [row[r] EXCEPT !.status = v]] => Same /\ row'[r].finished = row[r].finished
      BY <1>t DEF Row
    <2> QED BY <1>0, <1>1, <1>8, <2>1 DEF Enter, Refuse, Incapable, Validate, Fail, Note
  <1>9. CASE Check(r) \/ Claim(r) \/ Advance(r) \/ GiveUp(r) \/ Release(r) \/ Unlock(r) \/ Crash(r)
    BY <1>0, <1>9 DEF Check, Claim, Advance, GiveUp, Release, Unlock, Crash
  <1> QED BY <1>2, <1>3, <1>4, <1>5, <1>6, <1>7, <1>8, <1>9 DEF Step

LEMMA PlacePart ==
    ASSUME IInv, Path, Placed, NEW r \in Run, Enter(r) \/ Step(r) \/ Crash(r)
    PROVE  Placed'
  <1> SUFFICES ASSUME NEW q \in Run PROVE Place(q)'
    BY DEF Placed
  <1>t. /\ row[q] \in Row /\ tried[q] \in Attempt /\ Place(q) /\ binding \in Binding
        /\ Begins(q) /\ Tries(q) /\ Opens(q) /\ tried[q] \in Nat /\ MaxAttempt \in Nat
        /\ pc \in [Run -> Label] /\ tried \in [Run -> Attempt] /\ row \in [Run -> Row]
    BY BoundAssumption DEF IInv, TypeOK, Placed, Path, Attempt
  <1>u. /\ q # r => row'[q] = row[q] /\ pc'[q] = "idle" /\ tried'[q] = tried[q]
        /\ r # None /\ q # None
    BY OthersKeep, OthersIdle, NoneAssumption
  <1>g. tried'[q] \in Nat /\ tried[q] <= tried'[q]
    <2>1. CASE Intent(r) \/ Reject(r)
      BY <2>1, <1>t, <1>u, BoundAssumption DEF Intent, Reject, NextAttempt
    <2>2. CASE UNCHANGED tried
      BY <2>2, <1>t
    <2> QED
      BY <2>1, <2>2 DEF Enter, Step, Crash, Check, Refuse, Recover, Prepare, Claim, Startup, Bind,
         Advance, Reserve, Respond, Violated, GiveUp, Incapable, Validate, Settle, Release, Fail,
         Unlock
  (* The attempt in the file.                                                *)
  <1>1. binding'.owner = q => binding'.attempt <= tried'[q]
    <2>1. CASE Check(r)
      <3>1. Checked(r).owner # None => Checked(r) = binding
        BY CheckedType DEF IInv
      <3> QED BY <2>1, <3>1, <1>t, <1>u, <1>g DEF Check, Place, Binding
    <2>2. CASE Claim(r)
      <3>1. binding'.owner = r /\ binding'.attempt = tried[r]
        BY <2>2, ClaimWrites
      <3> QED BY <3>1, <1>g, <1>t
    <2>3. CASE binding'.owner = binding.owner /\ binding'.attempt = binding.attempt
      BY <2>3, <1>t, <1>g DEF Place, Binding
    <2>4. CASE binding'.owner = None
      BY <2>4, <1>u
    <2> QED BY <2>1, <2>2, <2>3, <2>4, OwnerSteps
  <1>2. pc'[q] \in Claiming => Owns(q)'
    <2> SUFFICES ASSUME pc'[q] \in Claiming, q = r PROVE Owns(q)'
      BY <1>u DEF Claiming
    <2>1. CASE Claim(r)
      <3>1. binding'.owner = r /\ binding'.attempt = tried[r] /\ tried' = tried
        BY <2>1, ClaimWrites
      <3> QED BY <3>1 DEF Owns
    <2>2. CASE Advance(r)
      <3>1. Owns(q)
        BY <2>2, <1>t DEF Place, Advance, At, Claiming
      <3> QED BY <2>2, <3>1, <1>t DEF Advance, Owns, Binding
    <2>3. CASE Startup(r) \/ Bind(r) \/ Reserve(r)
      <3>1. pc[q] \in Claiming /\ UNCHANGED <<binding, tried>>
        BY <2>3 DEF Startup, Bind, Reserve, At, Claiming
      <3> QED BY <3>1, <1>t DEF Place, Owns
    <2> QED
      BY <2>1, <2>2, <2>3, <1>t DEF Enter, Step, Crash, Check, Refuse, Recover, Intent, Reject,
         Prepare, Respond, Violated, GiveUp, Incapable, Validate, Settle, Release, Fail, Unlock,
         At, Goto, Claiming
  <1>3. ASSUME Owns(q), row[q].startup, ~Settled(q, tried[q]), tried'[q] = tried[q]
        PROVE  Owns(q)'
    BY <1>3, OwnerStays
  <1>4. row'[q].stage \in {"configured", "reserved"} /\ row'[q].prepared = tried'[q]
           /\ ~Settled(q, tried[q])' => Owns(q)'
    <2> SUFFICES ASSUME row'[q].stage \in {"configured", "reserved"}, row'[q].prepared = tried'[q],
                        ~Settled(q, tried[q])'
                 PROVE  Owns(q)'
      OBVIOUS
    <2>1. CASE q # r
      BY <2>1, <1>t, <1>u, <1>3 DEF Place, Begins, Settled
    <2>2. CASE q = r /\ (Startup(r) \/ Reserve(r))
      <3>1. pc[q] \in Claiming /\ UNCHANGED <<binding, tried>>
        BY <2>2 DEF Startup, Reserve, At, Claiming
      <3> QED BY <3>1, <1>t DEF Place, Owns
    <2>3. CASE q = r /\ ~Startup(r) /\ ~Reserve(r)
      BY <2>3, <1>t, <1>3, StageKeeps DEF Place, Begins
    <2> QED BY <2>1, <2>2, <2>3
  <1>5. row'[q].answer /\ ~Settled(q, tried[q])' => Owns(q)'
    <2> SUFFICES ASSUME row'[q].answer, ~Settled(q, tried[q])'
                 PROVE  Owns(q)'
      OBVIOUS
    <2>1. CASE q # r
      BY <2>1, <1>t, <1>u, <1>3 DEF Place, Begins, Settled
    <2>2. CASE q = r /\ Respond(r)
      <3>1. pc[q] \in Claiming /\ UNCHANGED <<binding, tried>>
        BY <2>2 DEF Respond, At, Claiming
      <3> QED BY <3>1, <1>t DEF Place, Owns
    <2>3. CASE q = r /\ Recover(r)
      <3>1. pc[r] = "recover" /\ UNCHANGED <<binding, tried>> /\ ~row[r].answer
        BY <2>3, <1>t DEF Recover, At, Opens
      <3>2. row[r].prepared = tried[r] /\ row[r].stage = "reserved"
        BY <2>3, <3>1, <1>t DEF Recover, Note, Row
      <3>3. ~Settled(r, tried[r])
        BY <2>3, <3>1, <3>2, <1>t, NotYet DEF Opens
      <3> QED BY <2>3, <3>1, <3>2, <3>3, <1>t DEF Place, Owns
    <2>4. CASE q = r /\ ~Respond(r) /\ ~Recover(r)
      BY <2>4, <1>t, <1>3, StageKeeps DEF Place, Begins
    <2> QED BY <2>1, <2>2, <2>3, <2>4
  <1> QED BY <1>1, <1>2, <1>4, <1>5 DEF Place

(* Only Startup starts, and only Settle settles.                             *)
LEMMA RowKeeps ==
    ASSUME IInv, NEW r \in Run, Enter(r) \/ Step(r) \/ Crash(r), ~Startup(r), ~Settle(r)
    PROVE  row'[r].finished = row[r].finished /\ row'[r].startup = row[r].startup
  <1>t. row[r] \in Row /\ row \in [Run -> Row]
    BY DEF IInv, TypeOK
  <1> DEFINE Same(rec) == rec.startup = row[r].startup /\ rec.finished = row[r].finished
  <1>1. /\ \A v : Same([row[r] EXCEPT !.status = v])
        /\ \A v : Same([row[r] EXCEPT !.authorized = v])
        /\ \A v : Same([row[r] EXCEPT !.answer = v])
        /\ \A v : Same([row[r] EXCEPT !.thread = v])
        /\ \A v : Same([row[r] EXCEPT !.stage = v])
        /\ \A v : Same([row[r] EXCEPT !.intent = TRUE, !.from = v, !.authorized = FALSE])
        /\ Same([row[r] EXCEPT !.status = "failed", !.authorized = FALSE])
        /\ \A v : Same([row[r] EXCEPT !.prepared = v, !.stage = "none"])
        /\ Same([row[r] EXCEPT !.reserved = TRUE, !.stage = "reserved"])
    BY <1>t DEF Row
  <1>2. \A rec : Note(r, rec) /\ Same(rec) => Same(row'[r])
    BY <1>t DEF Note
  <1>3. Same(row[r])
    OBVIOUS
  <1> HIDE DEF Same
  <1>4. Same(row'[r])
    BY <1>1, <1>2, <1>3 DEF Enter, Step, Crash, Check, Refuse, Recover, Intent, Reject, Prepare,
       Claim, Bind, Advance, Reserve, Respond, Violated, GiveUp, Incapable, Validate, Release,
       Fail, Unlock
  <1> QED BY <1>4 DEF Same

LEMMA KeptPart ==
    ASSUME IInv, Path, Placed, Kept, NEW r \in Run, Enter(r) \/ Step(r) \/ Crash(r)
    PROVE  Kept'
  <1>t. /\ binding \in Binding /\ row \in [Run -> Row] /\ row[r] \in Row /\ r # None
        /\ tried[r] \in Attempt /\ OwnerHasAttempt /\ NoStranger /\ SettledFirst
        /\ Place(r) /\ Begins(r) /\ Tries(r) /\ Opens(r) /\ None # Open
        /\ base[r] \in Thread \cup {None}
    BY NoneAssumption, OpenAssumption DEF IInv, TypeOK, Placed, Path
  (* Steps that touch neither the file nor a settlement nor a start.         *)
  <1>1. CASE /\ UNCHANGED <<binding, settled>>
             /\ \A q \in Run : row'[q].finished = row[q].finished /\ row'[q].startup = row[q].startup
    BY <1>1, <1>t DEF Kept, Latest, Binding
  <1>2. CASE Check(r)
    <2>1. UNCHANGED <<row, settled>> /\ binding' = Checked(r)
          /\ (Foreign(r) => Takeable(binding.owner, binding.attempt))
      BY <1>2 DEF Check
    <2>2. CASE ~Foreign(r)
      BY <2>1, <2>2 DEF Checked, Kept, Latest
    <2>3. CASE Foreign(r)
      <3> DEFINE f == row[binding.owner].finished[binding.attempt]
      <3>1. /\ binding.owner \in Run /\ binding.attempt \in Attempt
            /\ f \in Thread \cup {None, Open} /\ None \notin Thread /\ Open \notin Thread
        BY <2>3, <1>t, NoneAssumption DEF Foreign, Binding, OwnerHasAttempt, Row, Thread
      <3>2. /\ binding'.owner = None
            /\ binding'.thread = IF f \in Thread THEN f ELSE binding.thread
        BY <2>1, <2>3, <1>t DEF Checked, Binding
      <3>3. f = Open => ~row[binding.owner].startup
        BY <2>1, <2>3 DEF Takeable, Settled
      <3> QED BY <2>1, <2>3, <3>1, <3>2, <3>3 DEF Kept, Latest, Foreign
    <2> QED BY <2>2, <2>3
  <1>3. CASE Claim(r)
    <2>1. /\ binding'.owner = r /\ binding'.attempt = tried[r] /\ UNCHANGED <<row, settled>>
          /\ binding'.thread = binding.thread /\ binding.owner \in {None, r}
      BY <1>3, ClaimWrites DEF Claim
    <2>2. \A a \in Attempt : row[r].finished[a] = Open
      BY <1>3, NotYet DEF Claim, At, Trying, Settled
    <2>3. binding.owner = r => binding.attempt \in Attempt
      BY <1>t DEF OwnerHasAttempt
    <2> QED
      <3>1. CASE binding.owner = None /\ row[r].startup
        <4>1. Unsettled(r)
          BY <2>2, <3>1 DEF Unsettled, Settled
        <4> QED BY <3>1, <4>1, <1>t DEF IInv, UnsettledOwns
      <3>2. CASE binding.owner = None /\ ~row[r].startup
        BY <2>1, <2>2, <3>2, <1>t DEF Kept, Latest
      <3>3. CASE binding.owner = r
        BY <2>1, <2>2, <2>3, <3>3, <1>t DEF Kept, Latest
      <3> QED BY <2>1, <3>1, <3>2, <3>3
  <1>4. CASE Startup(r)
    <2>1. /\ binding.owner = r /\ binding.attempt = tried[r] /\ UNCHANGED <<binding, settled>>
          /\ row[r].finished[tried[r]] = Open
      BY <1>4, <1>t, NotYet DEF Startup, At, Place, Owns, Claiming, Trying, Settled
    <2>2. row'[r].startup /\ row'[r].finished = row[r].finished
      BY <1>4, <1>t DEF Startup, Note, Row
    <2>3. settled # None => binding.thread # None
      BY <2>1, <1>t DEF Kept, Latest
    <2> QED BY <2>1, <2>2, <2>3, <1>t DEF Kept, Latest
  <1>5. CASE Advance(r)
    <2>1. /\ binding.owner = r /\ binding.attempt = tried[r] /\ UNCHANGED <<row, settled>>
          /\ row[r].finished[tried[r]] = Open /\ row[r].startup /\ base[r] # None
      BY <1>5, <1>t, NotYet
      DEF Advance, At, Place, Owns, Claiming, Trying, Settled, Begins, Bound
    <2>2. binding' = [binding EXCEPT !.thread = base[r]]
      BY <1>5 DEF Advance
    <2>3. binding'.owner = r /\ binding'.attempt = tried[r] /\ binding'.thread = base[r]
      BY <2>1, <2>2, <1>t DEF Binding
    <2> QED BY <2>1, <2>3, <1>t DEF Kept, Latest
  <1>6. CASE Release(r)
    <2>1. CASE ~Owns(r)
      BY <1>6, <2>1 DEF Release, Kept, Latest
    <2>2. CASE Owns(r)
      <3> DEFINE f == row[r].finished[tried[r]]
      <3>1. binding.owner = r /\ binding.attempt = tried[r] /\ f # Open /\ UNCHANGED <<row, settled>>
        BY <1>6, <2>2, <1>t DEF Release, At, SettledFirst, Settled, Owns
      <3>2. binding'.owner = None /\ binding'.thread = IF f = None THEN binding.thread ELSE f
        BY <1>6, <2>2 DEF Release
      <3> QED BY <3>1, <3>2, <1>t DEF Kept, Latest
    <2> QED BY <2>1, <2>2
  <1>7. CASE Settle(r)
    <2>1. UNCHANGED binding
      BY <1>7 DEF Settle
    <2>2. CASE UNCHANGED <<row, settled>>
      BY <2>1, <2>2 DEF Kept, Latest
    <2>3. CASE /\ ~Settled(r, tried[r])
               /\ Note(r, [row[r] EXCEPT !.finished[tried[r]] = SettledThread(r)])
               /\ settled' = IF SettledThread(r) = None THEN settled ELSE SettledThread(r)
      <3> DEFINE g == SettledThread(r)
      <3>1. /\ row'[r].finished = [row[r].finished EXCEPT ![tried[r]] = g]
            /\ row'[r].startup = row[r].startup /\ g # Open
            /\ \A q \in Run : q # r => row'[q] = row[q]
        <4>1. g # Open
          BY <1>t, NoneAssumption, OpenAssumption DEF SettledThread, Row, Binding, Thread
        <4>2. Note(r, [row[r] EXCEPT !.finished[tried[r]] = g])
          BY <2>3
        <4> HIDE DEF g
        <4> QED BY <4>1, <4>2, <1>t DEF Note, Row
      <3>2. row[r].finished \in [Attempt -> Thread \cup {None, Open}] /\ row[r].finished[tried[r]] = Open
        BY <2>3, <1>t DEF Row, Settled
      <3>3. CASE Owns(r)
        <4>1. binding.owner = r /\ binding.attempt = tried[r]
          BY <3>3 DEF Owns
        <4>2. row'[r].finished[tried[r]] = g
          BY <3>1, <3>2, <1>t
        <4>3. g = None => settled = None
          BY <4>1, <3>2, <3>3, <1>t DEF SettledThread, Begins, Kept, Latest
        <4>4. settled' = IF g = None THEN settled ELSE g
          BY <2>3
        <4> HIDE DEF g
        <4> QED BY <2>1, <3>1, <4>1, <4>2, <4>3, <4>4, <1>t DEF Kept, Latest
      <3>4. CASE ~Owns(r)
        <4>1. g = None
          BY <3>4, <2>3, <1>t DEF SettledThread, Place
        <4>2. binding.owner = r => binding.attempt # tried[r] /\ binding.attempt \in Attempt
          BY <3>4, <1>t DEF Owns, OwnerHasAttempt
        <4>3. \A q \in Run : binding.owner = q =>
                 /\ row'[q].finished[binding.attempt] = row[q].finished[binding.attempt]
                 /\ row'[q].startup = row[q].startup
          BY <4>2, <3>1, <3>2
        <4>4. settled' = settled
          BY <4>1, <2>3
        <4> HIDE DEF g
        <4> QED BY <2>1, <4>3, <4>4, <1>t DEF Kept, Latest, Binding
      <3> QED BY <3>3, <3>4
    <2> QED BY <1>7, <2>2, <2>3 DEF Settle
  <1>8. ASSUME ~Check(r), ~Claim(r), ~Startup(r), ~Advance(r), ~Release(r), ~Settle(r)
        PROVE  Kept'
    <2>1. UNCHANGED <<binding, settled>>
      BY <1>8 DEF Enter, Step, Crash, Refuse, Recover, Intent, Reject, Prepare, Bind, Reserve,
         Respond, Violated, GiveUp, Incapable, Validate, Fail, Unlock
    <2>2. row'[r].finished = row[r].finished /\ row'[r].startup = row[r].startup
      BY <1>8, RowKeeps
    <2>3. \A q \in Run : row'[q].finished = row[q].finished /\ row'[q].startup = row[q].startup
      BY <2>2, OthersKeep
    <2> QED BY <2>1, <2>3, <1>1
  <1> QED BY <1>2, <1>3, <1>4, <1>5, <1>6, <1>7, <1>8
-----------------------------------------------------------------------------
HInv == IInv /\ Path /\ Placed /\ Kept

LEMMA HistoryStarts == Init => HInv
  <1> SUFFICES ASSUME Init PROVE Path /\ Placed /\ Kept
    BY InitHolds DEF HInv
  <1>t. /\ \A q \in Run : row[q] = NoRow /\ pc[q] = "idle" /\ tried[q] = 1 /\ q # None
        /\ binding = [thread |-> None, owner |-> None, attempt |-> 0] /\ settled = None
    BY NoneAssumption DEF Init
  <1>r. /\ NoRow.status = "none" /\ NoRow.prepared = 0 /\ NoRow.stage = "none"
        /\ NoRow.startup = FALSE /\ NoRow.reserved = FALSE /\ NoRow.answer = FALSE
        /\ \A a \in Attempt : NoRow.finished[a] = Open
    BY DEF NoRow
  <1>1. Path
    <2> SUFFICES ASSUME NEW q \in Run
                 PROVE  /\ SettledIsOver(q) /\ StoppedTurn(q) /\ Tries(q) /\ Opens(q)
                        /\ Ends(q) /\ Begins(q)
      BY DEF Path
    <2>1. row[q] = NoRow /\ pc[q] = "idle" /\ tried[q] = 1
      BY <1>t
    <2>2. SettledIsOver(q) /\ StoppedTurn(q)
      BY <2>1, <1>r DEF SettledIsOver, Settled, StoppedTurn
    <2>3. Tries(q) /\ Opens(q) /\ Ends(q)
      BY <2>1 DEF Tries, Opens, Ends, Trying, Claiming, Ending
    <2>4. Begins(q)
      BY <2>1, <1>r DEF Begins, Bound
    <2> QED BY <2>2, <2>3, <2>4
  <1>2. Placed
    <2> SUFFICES ASSUME NEW q \in Run PROVE Place(q)
      BY DEF Placed
    <2>1. row[q] = NoRow /\ pc[q] = "idle" /\ tried[q] = 1 /\ binding.owner # q
      BY <1>t
    <2> QED BY <2>1, <1>r DEF Place, Claiming
  <1>3. Kept
    BY <1>t DEF Kept
  <1> QED BY <1>1, <1>2, <1>3

LEMMA HistoryGoesOn == HInv /\ [Next]_vars => HInv'
  <1> SUFFICES ASSUME HInv, [Next]_vars PROVE HInv'
    OBVIOUS
  <1>i. IInv'
    BY StepHolds DEF HInv
  <1>1. CASE UNCHANGED vars
    BY <1>1, <1>i DEF HInv, vars, Path, Placed, Kept, SettledIsOver, StoppedTurn, Tries, Opens,
       Ends, Begins, Settled, Place, Latest, Owns
  <1>2. CASE Next
    <2>1. PICK r \in Run : Enter(r) \/ Step(r) \/ Crash(r)
      BY <1>2 DEF Next
    <2> QED BY <2>1, <1>i, PathPart, PlacePart, KeptPart DEF HInv
  <1> QED BY <1>1, <1>2

(* Once nobody works on the conversation, the file names the thread of the   *)
(* latest settled call, whichever runs settled and died in between           *)
(* (SessionBinding.check, advance and finish).                               *)
THEOREM FileFollowsSettlements == Spec => []FileNamesLastSettled
  <1>1. HInv => FileNamesLastSettled
    BY DEF HInv, Kept, Latest, FileNamesLastSettled
  <1> QED BY <1>1, HistoryStarts, HistoryGoesOn, PTL DEF Spec

(* A call that fails at its check does so in Refuse.                         *)
LEMMA OnlyRefuse ==
    ASSUME HInv, [Next]_vars, NEW r \in Run, At(r, "check"), row'[r].status = "broken"
    PROVE  Refuse(r)
  <1>1. row[r].status = "open" /\ row \in [Run -> Row]
    BY DEF HInv, Path, Opens, At, IInv, TypeOK
  <1>2. PICK q \in Run : Enter(q) \/ Step(q) \/ Crash(q)
    BY <1>1 DEF Next, vars
  <1>3. q = r
    BY <1>1, <1>2, OthersKeep DEF HInv
  <1>4. Check(r) \/ Refuse(r) \/ Crash(r)
    BY <1>2, <1>3 DEF At, Enter, Step, Recover, Intent, Reject, Prepare, Claim,
       Startup, Bind, Advance, Reserve, Respond, Violated, GiveUp, Incapable, Validate, Settle,
       Release, Fail, Unlock
  <1> QED BY <1>1, <1>4 DEF Check, Crash

(* A call is refused only for the sake of another run's call that is not     *)
(* settled, or of its rejected retry (SessionBinding.check): a process that  *)
(* dies between the settlement record and the file keeps nobody out.         *)
THEOREM RefusalsAreJustified == Spec => RefusedForUnsettledWork
  <1>1. ASSUME HInv, [Next]_vars, NEW r \in Run, At(r, "check"), row'[r].status = "broken"
        PROVE  \E q \in Run \ {r} : Unsettled(q) \/ Stranded(q)
    <2> DEFINE q == binding.owner  a == binding.attempt
    <2>1. Refuse(r)
      BY <1>1, OnlyRefuse
    <2>2. Foreign(r) /\ Checked(r).owner # None
      BY <2>1 DEF Refuse
    <2>3. binding \in Binding /\ q \in Run \ {r}
      BY <1>1, <2>2 DEF Foreign, HInv, IInv, TypeOK, Binding
    <2>4. ~Takeable(q, a)
      BY <2>2, <2>3 DEF Checked, Binding
    <2>5. ~Settled(q, a) /\ row[q].startup
      BY <1>1, <2>3, <2>4 DEF Takeable, HInv, Path, Begins
    <2>6. CASE \A b \in Attempt : ~Settled(q, b)
      BY <2>3, <2>5, <2>6 DEF Unsettled
    <2>7. CASE \E b \in Attempt : Settled(q, b)
      <3>1. Settled(q, tried[q])
        BY <1>1, <2>3, <2>7 DEF HInv, Path, SettledIsOver
      <3>2. a <= tried[q] /\ a # tried[q]
        BY <1>1, <2>3, <2>5, <3>1 DEF HInv, Placed, Place
      <3>3. a \in Nat /\ tried[q] \in Nat
        BY <1>1, <2>3, BoundAssumption DEF HInv, IInv, TypeOK, Binding, Attempt
      <3>4. Stranded(q)
        BY <3>1, <3>2, <3>3 DEF Stranded
      <3> QED BY <2>3, <3>4
    <2> QED BY <2>6, <2>7
  <1>2. HInv /\ [Next]_vars =>
          [\A r \in Run : At(r, "check") /\ row'[r].status = "broken" =>
              \E q \in Run \ {r} : Unsettled(q) \/ Stranded(q)]_<<row>>
    BY <1>1
  <1> QED BY <1>2, HistoryStarts, HistoryGoesOn, PTL DEF Spec, RefusedForUnsettledWork
=============================================================================
