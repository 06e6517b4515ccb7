---------------------------- MODULE Budgets_proofs ----------------------------
(***************************************************************************)
(* Proofs about Budgets, for any branches, budgets, limits and bounds.      *)
(*                                                                         *)
(* Three invariants are proved one on top of the other: the types, the      *)
(* charges, and, while nobody sets the wall clock, the clocks.              *)
(***************************************************************************)
EXTENDS Budgets, FiniteSetTheorems, TLAPS

Reading == {"observe", "snapshot", "reserve"}

(* The two limits that a branch may find reached.                           *)
OutOfTurns(w) == \E b \in Path[w] : UsedUp(b)
OutOfTime(w) == \E b \in Path[w] \cap Timed :
                   ~(read[w].at < budget[b].last) /\ Rest(w, b) = 0

(* What a budget has charged is what it encloses, within its limit; a       *)
(* branch looks at budgets only after the program entered them.             *)
Charges ==
    /\ \A b \in entered : budget[b].created
    /\ \A b \in Budget : ~budget[b].created => budget[b].used = 0
    /\ \A w \in Branch : pc[w] \in Reading => Path[w] \subseteq entered
    /\ ChargedOnce
    /\ \A b \in Budget : budget[b].used <= MaxTurns[b]
    /\ \A w \in Branch : refused[w] = "turns" =>
          \E b \in Path[w] : budget[b].used = MaxTurns[b]

(* Record, process and reader leave no less than the deadline does.         *)
InTime ==
    /\ \A b \in Timed : budget[b].created =>
          /\ budget[b].last <= now
          /\ budget[b].deadline <= budget[b].last + budget[b].remaining
    /\ \A b \in Timed \cap entered : budget[b].deadline <= now + left[b]
    /\ \A w \in Branch : pc[w] \in Reading =>
          /\ read[w].at <= now
          /\ \A b \in Path[w] \cap Timed :
                budget[b].deadline <= read[w].at + read[w].left[b]
    /\ \A w \in Branch : refused[w] = "time" =>
          \E b \in Path[w] \cap Timed :
             budget[b].created /\ budget[b].deadline <= now
-----------------------------------------------------------------------------
(* The rest of a budget is a number that neither exceeds the recorded rest   *)
(* nor falls short of what all three clocks leave.                          *)
LEMMA LeastRest ==
    ASSUME NEW d \in Nat, NEW a \in Nat, NEW r \in Nat, NEW l \in Nat
    PROVE  /\ Least(Minus(d, a), Least(r, l)) \in Nat
           /\ Least(Minus(d, a), Least(r, l)) <= r
           /\ d <= a + r /\ d <= a + l => d <= a + Least(Minus(d, a), Least(r, l))
BY DEF Least, Minus

LEMMA RestBounds ==
    ASSUME TypeOK, NEW w \in Branch, NEW b \in Budget
    PROVE  /\ Rest(w, b) \in Nat
           /\ Rest(w, b) <= budget[b].remaining
           /\ /\ budget[b].deadline <= read[w].at + budget[b].remaining
              /\ budget[b].deadline <= read[w].at + read[w].left[b]
              => budget[b].deadline <= read[w].at + Rest(w, b)
<1>1. /\ budget[b].deadline \in Nat /\ read[w].at \in Nat
      /\ budget[b].remaining \in Nat /\ read[w].left[b] \in Nat
  BY DEF TypeOK, State, Clocks
<1> QED BY <1>1, LeastRest DEF Rest

(* An observation keeps the counters and the deadline.                      *)
LEMMA ObservedKeeps ==
    ASSUME TypeOK, NEW w \in Branch, NEW b \in Budget
    PROVE  /\ Observed(w, b) \in State
           /\ Observed(w, b).created = budget[b].created
           /\ Observed(w, b).used = budget[b].used
           /\ Observed(w, b).deadline = budget[b].deadline
           /\ Observed(w, b).last = read[w].at
           /\ Observed(w, b).remaining =
                IF b \in Timed THEN Rest(w, b) ELSE budget[b].remaining
<1>1. Rest(w, b) \in Nat BY RestBounds
<1>2. budget[b] \in State /\ read[w].at \in Nat BY DEF TypeOK, Clocks
<1> QED BY <1>1, <1>2 DEF Observed, State

(* A charge is an observation that counts one turn.                         *)
LEMMA ChargedKeeps ==
    ASSUME TypeOK, NEW w \in Branch, NEW b \in Budget
    PROVE  /\ Charged(w, b) \in State
           /\ Charged(w, b).created = budget[b].created
           /\ Charged(w, b).used = budget[b].used + 1
           /\ Charged(w, b).deadline = budget[b].deadline
           /\ Charged(w, b).last = read[w].at
           /\ Charged(w, b).remaining =
                IF b \in Timed THEN Rest(w, b) ELSE budget[b].remaining
BY ObservedKeeps DEF Charged, State

LEMMA FreshState ==
    ASSUME TypeOK, NEW b \in Budget, begun[b] # 0
    PROVE  /\ Fresh(b) \in State /\ Fresh(b).created /\ Fresh(b).used = 0
           /\ Fresh(b).last = now
           /\ b \in Timed => Fresh(b).deadline <= now + Fresh(b).remaining
<1>1. begun[b] \in Nat /\ Seconds[b] \in Nat /\ now \in Nat
  BY LimitAssumption DEF TypeOK
<1>2. Deadline(b) \in Nat BY <1>1 DEF Deadline
<1>3. Minus(Deadline(b), now) \in Nat /\ Deadline(b) <= now + Minus(Deadline(b), now)
  BY <1>1, <1>2 DEF Minus
<1> QED BY <1>1, <1>2, <1>3 DEF Fresh, State

(* A refusal changes one branch and gives a reason that is true.            *)
LEMMA RefusalGives ==
    ASSUME TypeOK, NEW w \in Branch, RefuseFirst(w)
    PROVE  /\ refused' \in [Branch -> {"no", "clock", "time", "timeout", "turns"}]
           /\ pc' = [pc EXCEPT ![w] = "idle"]
           /\ \A v \in Branch : v # w => refused'[v] = refused[v]
           /\ refused'[w] = "turns" => OutOfTurns(w)
           /\ refused'[w] = "time" => OutOfTime(w)
<1>1. PICK b \in Path[w] : Refuse(w, Breach(w, b)) BY DEF RefuseFirst
<1>2. Breach(w, b) \in {"no", "clock", "time", "turns"} BY DEF Breach
<1>3. Breach(w, b) = "turns" => OutOfTurns(w) BY DEF Breach, OutOfTurns
<1>4. Breach(w, b) = "time" => OutOfTime(w) BY DEF Breach, OutOfTime
<1>5. /\ refused' = [refused EXCEPT ![w] = Breach(w, b)]
      /\ pc' = [pc EXCEPT ![w] = "idle"]
  BY <1>1 DEF Refuse
<1> QED BY <1>2, <1>3, <1>4, <1>5 DEF TypeOK

(* A reservation finds every budget up to date and below its limit.         *)
LEMMA ClearMeans ==
    ASSUME NEW w \in Branch, Clear(w)
    PROVE  ~Behind(w) /\ ~OutOfTurns(w)
BY DEF Clear, Breach, Behind, OutOfTurns
-----------------------------------------------------------------------------
LEMMA TypesStart == Init => TypeOK
BY DEF Init, TypeOK, NoBudget, State, Unread, Clocks

LEMMA TypesStep == TypeOK /\ [Next]_vars => TypeOK'
<1> SUFFICES ASSUME TypeOK, [Next]_vars PROVE TypeOK' OBVIOUS
<1>1. ASSUME NEW b \in Budget, Begin(b) PROVE TypeOK'
  BY <1>1 DEF TypeOK, Begin
<1>2. ASSUME NEW b \in Budget, Enter(b) PROVE TypeOK'
  <2>1. budget' \in [Budget -> State]
    BY <1>2, FreshState DEF TypeOK, Enter
  <2>2. left' \in [Budget -> Nat]
    <3>1. budget'[b].remaining \in Nat BY <2>1 DEF State
    <3> QED BY <1>2, <3>1 DEF TypeOK, Enter
  <2> QED BY <1>2, <2>1, <2>2 DEF TypeOK, Enter
<1>3. ASSUME NEW w \in Branch, Look(w) PROVE TypeOK'
  BY <1>3 DEF TypeOK, Look, ledger, Clocks
<1>4. ASSUME NEW w \in Branch, Observe(w) PROVE TypeOK'
  <2>1. budget' \in [Budget -> State]
    BY <1>4, ObservedKeeps, ZenonT(40) DEF TypeOK, Observe
  <2>2. /\ refused' \in [Branch -> {"no", "clock", "time", "timeout", "turns"}]
        /\ pc' \in [Branch -> {"idle", "observe", "snapshot", "ready",
                                "reserve", "turn"}]
    BY <1>4, RefusalGives DEF TypeOK, Observe, Refuse
  <2> QED BY <1>4, <2>1, <2>2 DEF TypeOK, Observe, Forget, Unread, Clocks
<1>5. ASSUME NEW w \in Branch, Snapshot(w) PROVE TypeOK'
  <2>1. budget' \in [Budget -> State]
    <3>1. PICK b \in Path[w] :
            budget' = IF read[w].at < budget[b].last THEN budget
                      ELSE [budget EXCEPT ![b] = Observed(w, b)]
      BY <1>5 DEF Snapshot
    <3>2. b \in Budget BY <3>1, PathAssumption
    <3>3. Observed(w, b) \in State BY <3>2, ObservedKeeps
    <3> QED BY <3>1, <3>2, <3>3 DEF TypeOK
  <2> QED BY <1>5, <2>1 DEF TypeOK, Snapshot, Forget, Unread, Clocks
<1>6. ASSUME NEW w \in Branch, SetupTooSlow(w) PROVE TypeOK'
  BY <1>6 DEF TypeOK, SetupTooSlow, Refuse
<1>7. ASSUME NEW w \in Branch, Reserve(w) PROVE TypeOK'
  <2>1. budget' \in [Budget -> State]
    BY <1>7, ChargedKeeps DEF TypeOK, Reserve
  <2>2. dispatches' \in Seq(Branch)
    <3>1. dispatches' = Append(dispatches, w) BY <1>7 DEF Reserve
    <3> QED BY <3>1 DEF TypeOK
  <2> QED BY <1>7, <2>1, <2>2 DEF TypeOK, Reserve, Forget, Unread, Clocks
<1>13. ASSUME NEW w \in Branch, ReserveRefused(w) PROVE TypeOK'
  BY <1>13, RefusalGives DEF TypeOK, ReserveRefused, Forget, Unread, Clocks
<1>8. ASSUME NEW w \in Branch, Turn(w) PROVE TypeOK'
  BY <1>8 DEF TypeOK, Turn, ledger
<1>9. ASSUME Tick PROVE TypeOK'
  BY <1>9 DEF TypeOK, Tick, ledger, Minus
<1>10. ASSUME SetClock PROVE TypeOK'
  BY <1>10, BoundAssumption DEF TypeOK, SetClock, ledger
<1>11. ASSUME Crash PROVE TypeOK'
  BY <1>11 DEF TypeOK, Crash, ledger, Unread, Clocks
<1>12. ASSUME UNCHANGED vars PROVE TypeOK'
  BY <1>12 DEF TypeOK, vars, ledger
<1> QED
  BY <1>1, <1>2, <1>3, <1>4, <1>5, <1>6, <1>7, <1>8, <1>9, <1>10, <1>11, <1>12,
     <1>13
  DEF Next

(* Every variable keeps its type.                                           *)
THEOREM BudgetTypes == Spec => []TypeOK
BY TypesStart, TypesStep, PTL DEF Spec
-----------------------------------------------------------------------------
LEMMA CoveredFinite ==
    ASSUME TypeOK, NEW b \in Budget
    PROVE  IsFiniteSet(Covered(b)) /\ Cardinality(Covered(b)) \in Nat
<1>1. Len(dispatches) \in Nat BY DEF TypeOK
<1>2. IsFiniteSet(1..Len(dispatches)) BY <1>1, FS_Interval
<1>3. Covered(b) \in SUBSET (1..Len(dispatches)) BY DEF Covered
<1> QED BY <1>2, <1>3, FS_Subset, FS_CardinalityType

(* A reservation adds one to what each budget of its path covers.           *)
LEMMA CoveredGrows ==
    ASSUME TypeOK, NEW w \in Branch, NEW b \in Budget,
           dispatches' = Append(dispatches, w)
    PROVE  Cardinality(Covered(b))' =
             IF b \in Path[w] THEN Cardinality(Covered(b)) + 1
                              ELSE Cardinality(Covered(b))
<1> DEFINE n == Len(dispatches)
<1>1. n \in Nat /\ dispatches \in Seq(Branch) BY DEF TypeOK
<1>2. /\ Len(dispatches') = n + 1 /\ dispatches'[n + 1] = w
      /\ \A i \in 1..n : dispatches'[i] = dispatches[i]
  BY <1>1
<1>3. n + 1 \notin Covered(b) BY <1>1 DEF Covered
<1>4. 1..(n + 1) = (1..n) \cup {n + 1} BY <1>1
<1>5. Covered(b)' = IF b \in Path[w] THEN Covered(b) \cup {n + 1} ELSE Covered(b)
  BY <1>2, <1>4 DEF Covered
<1> HIDE DEF n
<1> QED BY <1>3, <1>5, CoveredFinite, FS_AddElement

(* What keeps the charges when nothing is charged.                          *)
LEMMA ChargesKept ==
    ASSUME TypeOK, Charges, UNCHANGED dispatches,
           \A b \in Budget : budget'[b].used = budget[b].used,
           \A b \in Budget : budget[b].created => budget'[b].created,
           \A b \in entered' : budget'[b].created,
           \A w \in Branch : pc'[w] \in Reading => Path[w] \subseteq entered',
           \A w \in Branch : refused'[w] = "turns" =>
              refused[w] = "turns" \/ OutOfTurns(w)
    PROVE  Charges'
<1>1. \A b \in Budget : ~budget'[b].created => budget'[b].used = 0
  BY DEF Charges
<1>2. ChargedOnce' BY DEF Charges, ChargedOnce, Covered
<1>3. \A b \in Budget : budget'[b].used <= MaxTurns[b] BY DEF Charges
<1>4. ASSUME NEW w \in Branch, refused'[w] = "turns"
      PROVE  \E b \in Path[w] : budget'[b].used = MaxTurns[b]
  <2>1. CASE refused[w] = "turns"
    <3>1. PICK b \in Path[w] : budget[b].used = MaxTurns[b] BY <2>1 DEF Charges
    <3> QED BY <3>1, PathAssumption
  <2>2. CASE OutOfTurns(w)
    <3>1. PICK b \in Path[w] : budget[b].used >= MaxTurns[b] BY <2>2 DEF OutOfTurns, UsedUp
    <3>2. b \in Budget BY PathAssumption
    <3>3. budget[b].used \in Nat /\ MaxTurns[b] \in Nat
      BY <3>2, LimitAssumption DEF TypeOK, State
    <3>4. budget[b].used = MaxTurns[b] BY <3>1, <3>2, <3>3 DEF Charges
    <3> QED BY <3>2, <3>4
  <2> QED BY <1>4, <2>1, <2>2
<1> QED BY <1>1, <1>2, <1>3, <1>4 DEF Charges

LEMMA ChargesStart == Init => Charges
<1> SUFFICES ASSUME Init PROVE Charges OBVIOUS
<1>1. \A b \in Budget : budget[b].used = 0 BY DEF Init, NoBudget
<1>2. ChargedOnce
  <2> SUFFICES ASSUME NEW b \in Budget PROVE budget[b].used = Cardinality(Covered(b))
    BY DEF ChargedOnce
  <2>1. Covered(b) = {} BY DEF Covered, Init
  <2> QED BY <1>1, <2>1, FS_EmptySet
<1> QED BY <1>1, <1>2, LimitAssumption DEF Charges, Init, Reading

LEMMA ChargesStep == TypeOK /\ Charges /\ [Next]_vars => Charges'
<1> SUFFICES ASSUME TypeOK, Charges, [Next]_vars PROVE Charges' OBVIOUS
<1>1. ASSUME NEW b \in Budget, Begin(b) PROVE Charges'
  BY <1>1, ChargesKept DEF Begin, Charges
<1>2. ASSUME NEW b \in Budget, Enter(b) PROVE Charges'
  <2>1. \A c \in Budget : /\ budget'[c].used = budget[c].used
                          /\ budget[c].created => budget'[c].created
    BY <1>2, FreshState DEF Enter, TypeOK, Charges
  <2>2. budget'[b].created BY <1>2, FreshState DEF Enter, TypeOK
  <2>3. \A c \in entered' : budget'[c].created
    BY <1>2, <2>1, <2>2 DEF Enter, TypeOK, Charges
  <2>4. /\ UNCHANGED <<dispatches, pc, refused>> /\ entered \subseteq entered'
    BY <1>2 DEF Enter
  <2> QED BY <2>1, <2>3, <2>4, ChargesKept DEF Charges
<1>3. ASSUME NEW w \in Branch, Look(w) PROVE Charges'
  <2>1. UNCHANGED <<budget, dispatches, refused, entered>> BY <1>3 DEF Look, ledger
  <2>2. \A v \in Branch : pc'[v] \in Reading => Path[v] \subseteq entered
    BY <1>3 DEF Look, TypeOK, Charges
  <2> QED BY <2>1, <2>2, ChargesKept DEF Charges
<1>4. ASSUME NEW w \in Branch, Observe(w) PROVE Charges'
  <2>1. UNCHANGED <<dispatches, entered>> BY <1>4 DEF Observe
  <2>2. \A b \in Budget : /\ budget'[b].used = budget[b].used
                          /\ budget'[b].created = budget[b].created
    <3>1. \/ UNCHANGED budget
          \/ budget' = [b \in Budget |-> IF b \in Path[w] THEN Observed(w, b)
                                                         ELSE budget[b]]
      BY <1>4 DEF Observe
    <3> QED BY <3>1, ObservedKeeps
  <2>3. \A v \in Branch : pc'[v] \in Reading => pc[v] \in Reading
    BY <1>4, RefusalGives DEF Observe, Refuse, TypeOK, Reading
  <2>4. \A v \in Branch : refused'[v] = "turns" =>
          refused[v] = "turns" \/ OutOfTurns(v)
    BY <1>4, RefusalGives DEF Observe, Refuse, TypeOK
  <2>5. \A b \in entered' : budget'[b].created
    BY <2>1, <2>2 DEF Charges, TypeOK
  <2> QED BY <2>1, <2>2, <2>3, <2>4, <2>5, ChargesKept DEF Charges
<1>5. ASSUME NEW w \in Branch, Snapshot(w) PROVE Charges'
  <2>1. UNCHANGED <<dispatches, entered, refused>> BY <1>5 DEF Snapshot
  <2>2. \A b \in Budget : /\ budget'[b].used = budget[b].used
                          /\ budget'[b].created = budget[b].created
    <3>1. PICK b \in Path[w] :
            budget' = IF read[w].at < budget[b].last THEN budget
                      ELSE [budget EXCEPT ![b] = Observed(w, b)]
      BY <1>5 DEF Snapshot
    <3>2. b \in Budget BY <3>1, PathAssumption
    <3> QED BY <3>1, <3>2, ObservedKeeps DEF TypeOK
  <2>3. \A v \in Branch : pc'[v] \in Reading => pc[v] \in Reading
    BY <1>5 DEF Snapshot, TypeOK, Reading
  <2>4. \A b \in entered' : budget'[b].created
    BY <2>1, <2>2 DEF Charges, TypeOK
  <2> QED BY <2>1, <2>2, <2>3, <2>4, ChargesKept DEF Charges
<1>6. ASSUME NEW w \in Branch, SetupTooSlow(w) PROVE Charges'
  <2>1. /\ UNCHANGED <<budget, dispatches, entered>>
        /\ \A v \in Branch : pc'[v] \in Reading => pc[v] \in Reading
        /\ \A v \in Branch : refused'[v] = "turns" => refused[v] = "turns"
    BY <1>6 DEF SetupTooSlow, Refuse, TypeOK, Reading
  <2> QED BY <2>1, ChargesKept DEF Charges
<1>7. ASSUME NEW w \in Branch, Reserve(w) PROVE Charges'
  <2>1. UNCHANGED <<refused, entered>> /\ ~OutOfTurns(w)
    BY <1>7, ClearMeans DEF Reserve
  <2>2. \A b \in Budget :
          /\ budget'[b].used = IF b \in Path[w] THEN budget[b].used + 1
                                                ELSE budget[b].used
          /\ budget'[b].created = budget[b].created
    BY <1>7, ChargedKeeps DEF Reserve, TypeOK
  <2>3. \A b \in Path[w] : budget[b].created /\ budget[b].used < MaxTurns[b]
    <3>1. Path[w] \subseteq entered BY <1>7 DEF Reserve, Charges, Reading
    <3>2. \A b \in Path[w] : budget[b].used \in Nat /\ MaxTurns[b] \in Nat
      BY PathAssumption, LimitAssumption DEF TypeOK, State
    <3> QED BY <2>1, <3>1, <3>2 DEF OutOfTurns, UsedUp, Charges
  <2>4. ChargedOnce'
    <3> SUFFICES ASSUME NEW b \in Budget
                 PROVE  budget'[b].used = Cardinality(Covered(b))'
      BY DEF ChargedOnce
    <3>1. dispatches' = Append(dispatches, w) BY <1>7 DEF Reserve
    <3>2. budget[b].used = Cardinality(Covered(b)) BY DEF Charges, ChargedOnce
    <3> QED BY <2>2, <3>1, <3>2, CoveredGrows
  <2>5. \A b \in Budget : budget'[b].used <= MaxTurns[b]
    <3>1. \A b \in Budget : budget[b].used \in Nat /\ MaxTurns[b] \in Nat
      BY LimitAssumption DEF TypeOK, State
    <3> QED BY <2>2, <2>3, <3>1 DEF Charges
  <2>6. \A b \in Budget : ~budget'[b].created => budget'[b].used = 0
    BY <2>2, <2>3 DEF Charges
  <2>7. \A b \in entered' : budget'[b].created
    BY <2>1, <2>2 DEF Charges, TypeOK
  <2>8. \A v \in Branch : pc'[v] \in Reading => Path[v] \subseteq entered'
    BY <1>7, <2>1 DEF Reserve, Charges, Reading, TypeOK
  <2>9. ASSUME NEW v \in Branch, refused'[v] = "turns"
        PROVE  \E b \in Path[v] : budget'[b].used = MaxTurns[b]
    <3>1. PICK b \in Path[v] : budget[b].used = MaxTurns[b]
      BY <2>1, <2>9 DEF Charges
    <3>2. b \in Budget BY PathAssumption
    <3>3. MaxTurns[b] \in Nat BY <3>2, LimitAssumption
    <3>4. b \notin Path[w] BY <2>3, <3>1, <3>3
    <3> QED BY <2>2, <3>1, <3>2, <3>4
  <2> QED BY <2>4, <2>5, <2>6, <2>7, <2>8, <2>9 DEF Charges
<1>8. ASSUME NEW w \in Branch, ReserveRefused(w) PROVE Charges'
  <2>1. /\ UNCHANGED <<budget, dispatches, entered>>
        /\ \A v \in Branch : pc'[v] \in Reading => pc[v] \in Reading
        /\ \A v \in Branch : refused'[v] = "turns" =>
              refused[v] = "turns" \/ OutOfTurns(v)
    BY <1>8, RefusalGives DEF ReserveRefused, TypeOK, Reading
  <2> QED BY <2>1, ChargesKept DEF Charges
<1>9. ASSUME NEW w \in Branch, Turn(w) PROVE Charges'
  <2>1. /\ UNCHANGED <<budget, dispatches, refused, entered>>
        /\ \A v \in Branch : pc'[v] \in Reading => pc[v] \in Reading
    BY <1>9 DEF Turn, ledger, TypeOK, Reading
  <2> QED BY <2>1, ChargesKept DEF Charges
<1>10. CASE Tick BY <1>10, ChargesKept DEF Tick, ledger, Charges
<1>11. CASE SetClock BY <1>11, ChargesKept DEF SetClock, ledger, Charges
<1>12. CASE Crash BY <1>12, ChargesKept DEF Crash, ledger, Charges, Reading
<1>13. CASE UNCHANGED vars BY <1>13, ChargesKept DEF vars, ledger, Charges
<1> QED
  BY <1>1, <1>2, <1>3, <1>4, <1>5, <1>6, <1>7, <1>8, <1>9, <1>10, <1>11, <1>12,
     <1>13
  DEF Next

LEMMA ChargesAlways == Spec => [](TypeOK /\ Charges)
<1>1. Init => TypeOK /\ Charges BY TypesStart, ChargesStart
<1>2. (TypeOK /\ Charges) /\ [Next]_vars => (TypeOK /\ Charges)'
  BY TypesStep, ChargesStep
<1> QED BY <1>1, <1>2, PTL DEF Spec

(* Every reservation is counted once by each budget around it.              *)
THEOREM ChargesExact == Spec => []ChargedOnce
<1>1. TypeOK /\ Charges => ChargedOnce BY DEF Charges
<1> QED BY <1>1, ChargesAlways, PTL

(* No budget ever encloses more turns than it allows.                       *)
THEOREM TurnsBounded == Spec => []NeverOverspent
<1>1. TypeOK /\ Charges => NeverOverspent
  BY DEF Charges, ChargedOnce, NeverOverspent
<1> QED BY <1>1, ChargesAlways, PTL
-----------------------------------------------------------------------------
(* What keeps the clocks in order when neither the time nor the blocks of    *)
(* the process change.                                                      *)
LEMMA InTimeKept ==
    ASSUME TypeOK, InTime, UNCHANGED <<now, left, entered>>,
           \A b \in Timed :
              \/ budget'[b] = budget[b]
              \/ /\ budget'[b].created = budget[b].created
                 /\ budget'[b].deadline = budget[b].deadline
                 /\ budget'[b].last <= now
                 /\ budget[b].deadline <= budget'[b].last + budget'[b].remaining,
           \A w \in Branch : pc'[w] \in Reading =>
              pc[w] \in Reading /\ read'[w] = read[w],
           \A w \in Branch : refused'[w] = "time" =>
              \/ refused[w] = "time"
              \/ \E b \in Path[w] \cap Timed :
                    budget[b].created /\ budget[b].deadline <= now
    PROVE  InTime'
<1>1. \A b \in Timed : /\ budget'[b].created = budget[b].created
                       /\ budget'[b].deadline = budget[b].deadline
  OBVIOUS
<1>2. \A b \in Timed : budget'[b].created =>
        /\ budget'[b].last <= now
        /\ budget'[b].deadline <= budget'[b].last + budget'[b].remaining
  BY <1>1 DEF InTime
<1>3. \A w \in Branch : pc'[w] \in Reading =>
        /\ read'[w].at <= now
        /\ \A b \in Path[w] \cap Timed :
              budget'[b].deadline <= read'[w].at + read'[w].left[b]
  BY <1>1 DEF InTime
<1>4. \A w \in Branch : refused'[w] = "time" =>
        \E b \in Path[w] \cap Timed :
           budget[b].created /\ budget[b].deadline <= now
  BY DEF InTime
<1>5. \A b \in Timed \cap entered : budget'[b].deadline <= now + left[b]
  BY <1>1 DEF InTime
<1> QED BY <1>1, <1>2, <1>3, <1>4, <1>5 DEF InTime

(* Under the lock, with a reading that is not behind the record.            *)
LEMMA ReadInTime ==
    ASSUME TypeOK, Charges, InTime, NEW w \in Branch, pc[w] \in Reading,
           NEW b \in Path[w] \cap Timed, ~(read[w].at < budget[b].last)
    PROVE  /\ b \in Budget /\ budget[b].created /\ read[w].at <= now
           /\ budget[b].deadline <= read[w].at + Rest(w, b)
           /\ Rest(w, b) = 0 => budget[b].deadline <= now
<1>1. b \in Budget /\ b \in entered
  BY PathAssumption DEF Charges
<1>2. budget[b].created BY <1>1 DEF Charges
<1>3. /\ budget[b].deadline \in Nat /\ budget[b].last \in Nat /\ now \in Nat
      /\ budget[b].remaining \in Nat /\ read[w].at \in Nat
  BY <1>1 DEF TypeOK, State, Clocks
<1>4. /\ budget[b].deadline <= budget[b].last + budget[b].remaining
      /\ read[w].at <= now
      /\ budget[b].deadline <= read[w].at + read[w].left[b]
  BY <1>2 DEF InTime
<1>5. budget[b].deadline <= read[w].at + budget[b].remaining
  BY <1>3, <1>4
<1>6. Rest(w, b) \in Nat /\ budget[b].deadline <= read[w].at + Rest(w, b)
  BY <1>1, <1>4, <1>5, RestBounds
<1> QED BY <1>1, <1>2, <1>3, <1>4, <1>6

(* A branch that finds no time left is right.                               *)
LEMMA OutOfTimeIsTrue ==
    ASSUME TypeOK, Charges, InTime, NEW w \in Branch, pc[w] \in Reading,
           OutOfTime(w)
    PROVE  \E b \in Path[w] \cap Timed :
              budget[b].created /\ budget[b].deadline <= now
<1>1. PICK b \in Path[w] \cap Timed :
         ~(read[w].at < budget[b].last) /\ Rest(w, b) = 0
  BY DEF OutOfTime
<1> QED BY <1>1, ReadInTime

LEMMA InTimeStart == Init => InTime
BY LimitAssumption DEF Init, InTime, NoBudget, Reading

LEMMA InTimeStep ==
    TypeOK /\ Charges /\ InTime /\ [Next]_vars /\ ~SetClock => InTime'
<1> SUFFICES ASSUME TypeOK, Charges, InTime, [Next]_vars, ~SetClock PROVE InTime'
  OBVIOUS
<1>1. ASSUME NEW b \in Budget, Begin(b) PROVE InTime'
  BY <1>1, InTimeKept DEF Begin
<1>2. ASSUME NEW b \in Budget, Enter(b) PROVE InTime'
  <2>1. UNCHANGED <<now, pc, read, refused>> BY <1>2 DEF Enter
  <2>2. /\ \A c \in Budget : budget[c].created \/ c # b => budget'[c] = budget[c]
        /\ ~budget[b].created => budget'[b] = Fresh(b)
        /\ \A c \in Budget : c # b => left'[c] = left[c]
        /\ left'[b] = budget'[b].remaining
        /\ entered' = entered \cup {b}
    BY <1>2 DEF Enter, TypeOK
  <2>3. begun[b] # 0 BY <1>2 DEF Enter
  <2>4. Timed \subseteq Budget BY LimitAssumption
  <2>5. now \in Nat /\ budget[b] \in State /\ budget'[b] \in State
    BY <2>2, <2>3, FreshState DEF TypeOK
  <2>6. b \in Timed => /\ budget'[b].created /\ budget'[b].last <= now
                       /\ budget'[b].deadline <= budget'[b].last + budget'[b].remaining
                       /\ budget'[b].deadline <= now + left'[b]
    <3>1. CASE budget[b].created
      <4>1. b \in Timed => /\ budget[b].last <= now
                           /\ budget[b].deadline <= budget[b].last + budget[b].remaining
        BY <3>1 DEF InTime
      <4>2. /\ budget[b].last \in Nat /\ budget[b].deadline \in Nat
            /\ budget[b].remaining \in Nat
        BY <2>5 DEF State
      <4> QED BY <2>2, <2>5, <3>1, <4>1, <4>2
    <3>2. CASE ~budget[b].created
      BY <2>2, <2>3, <2>5, <3>2, FreshState
    <3> QED BY <3>1, <3>2
  <2>7. \A c \in Timed : budget'[c].created =>
          /\ budget'[c].last <= now
          /\ budget'[c].deadline <= budget'[c].last + budget'[c].remaining
    BY <2>2, <2>4, <2>6 DEF InTime
  <2>8. \A c \in Timed \cap entered' : budget'[c].deadline <= now + left'[c]
    BY <2>2, <2>4, <2>6 DEF InTime
  <2>9. \A w \in Branch : pc[w] \in Reading =>
          \A c \in Path[w] \cap Timed : budget'[c] = budget[c]
    <3> SUFFICES ASSUME NEW w \in Branch, pc[w] \in Reading,
                        NEW c \in Path[w] \cap Timed
                 PROVE  budget'[c] = budget[c]
      OBVIOUS
    <3>1. c \in entered BY DEF Charges
    <3> QED BY <2>2, <2>4, <3>1 DEF Charges
  <2>10. \A c \in Budget : budget[c].created => budget'[c] = budget[c]
    BY <2>2
  <2>11. \A w \in Branch : refused[w] = "time" =>
          \E c \in Path[w] \cap Timed :
             budget'[c].created /\ budget'[c].deadline <= now
    BY <2>4, <2>10 DEF InTime
  <2> QED BY <2>1, <2>7, <2>8, <2>9, <2>11 DEF InTime
<1>3. ASSUME NEW w \in Branch, Look(w) PROVE InTime'
  <2>1. UNCHANGED <<budget, refused, now, left, entered>>
    BY <1>3 DEF Look, ledger
  <2>2. \A v \in Branch : v # w => pc'[v] = pc[v] /\ read'[v] = read[v]
    BY <1>3 DEF Look, TypeOK
  <2>3. Path[w] \subseteq entered /\ read'[w].at = now BY <1>3 DEF Look, TypeOK
  <2>4. \A b \in Path[w] : read'[w].left[b] = left[b]
    BY <1>3, PathAssumption DEF Look, TypeOK
  <2>5. now \in Nat BY DEF TypeOK
  <2>6. \A b \in Path[w] \cap Timed : budget[b].deadline <= read'[w].at + read'[w].left[b]
    BY <2>3, <2>4 DEF InTime
  <2> QED BY <2>1, <2>2, <2>3, <2>5, <2>6 DEF InTime
<1>4. ASSUME NEW w \in Branch, Observe(w) PROVE InTime'
  <2>1. UNCHANGED <<now, left, entered>> /\ pc[w] \in Reading
    BY <1>4 DEF Observe, Reading
  <2>2. \A v \in Branch : pc'[v] \in Reading =>
          pc[v] \in Reading /\ read'[v] = read[v]
    BY <1>4, RefusalGives DEF Observe, Refuse, Forget, TypeOK, Reading
  <2>3. CASE Behind(w)
    <3>1. UNCHANGED budget BY <1>4, <2>3 DEF Observe
    <3>2. \A v \in Branch : refused'[v] = "time" => refused[v] = "time"
      BY <1>4, <2>3 DEF Observe, Refuse, TypeOK
    <3> QED BY <2>1, <2>2, <3>1, <3>2, InTimeKept
  <2>4. CASE ~Behind(w)
    <3>1. \A b \in Budget : budget'[b] = IF b \in Path[w] THEN Observed(w, b)
                                                         ELSE budget[b]
      BY <1>4, <2>4 DEF Observe
    <3>2. \A b \in Path[w] \cap Timed :
             /\ budget'[b].created = budget[b].created
             /\ budget'[b].deadline = budget[b].deadline
             /\ budget'[b].last <= now
             /\ budget[b].deadline <= budget'[b].last + budget'[b].remaining
      BY <2>1, <2>4, <3>1, ReadInTime, ObservedKeeps DEF Behind
    <3>3. \A v \in Branch : refused'[v] = "time" =>
            refused[v] = "time" \/ (v = w /\ OutOfTime(w))
      BY <1>4, <2>4, RefusalGives DEF Observe, TypeOK
    <3>4. OutOfTime(w) => \E b \in Path[w] \cap Timed :
            budget[b].created /\ budget[b].deadline <= now
      BY <2>1, <2>4, OutOfTimeIsTrue
    <3>5. \A b \in Timed : b \in Budget /\ (b \in Path[w] \/ budget'[b] = budget[b])
      BY <3>1, LimitAssumption
    <3> QED BY <2>1, <2>2, <3>2, <3>3, <3>4, <3>5, InTimeKept
  <2> QED BY <2>3, <2>4
<1>5. ASSUME NEW w \in Branch, Snapshot(w) PROVE InTime'
  <2>1. UNCHANGED <<now, left, entered, refused>> /\ pc[w] \in Reading
    BY <1>5 DEF Snapshot, Reading
  <2>2. \A v \in Branch : pc'[v] \in Reading =>
          pc[v] \in Reading /\ read'[v] = read[v]
    BY <1>5 DEF Snapshot, Forget, TypeOK, Reading
  <2>3. PICK b \in Path[w] :
          budget' = IF read[w].at < budget[b].last THEN budget
                    ELSE [budget EXCEPT ![b] = Observed(w, b)]
    BY <1>5 DEF Snapshot
  <2>4. b \in Budget /\ Timed \subseteq Budget
    BY <2>3, PathAssumption, LimitAssumption
  <2>5. CASE read[w].at < budget[b].last
    <3>1. UNCHANGED budget BY <2>3, <2>5
    <3> QED BY <2>1, <2>2, <3>1, InTimeKept
  <2>6. CASE ~(read[w].at < budget[b].last)
    <3>1. \A c \in Budget : budget'[c] = IF c = b THEN Observed(w, b) ELSE budget[c]
      BY <2>3, <2>4, <2>6 DEF TypeOK
    <3>2. b \in Timed =>
             /\ budget'[b].created = budget[b].created
             /\ budget'[b].deadline = budget[b].deadline
             /\ budget'[b].last <= now
             /\ budget[b].deadline <= budget'[b].last + budget'[b].remaining
      BY <2>1, <2>4, <2>6, <3>1, ReadInTime, ObservedKeeps
    <3>3. \A c \in Timed : c = b \/ budget'[c] = budget[c] BY <2>4, <3>1
    <3> QED BY <2>1, <2>2, <3>2, <3>3, InTimeKept
  <2> QED BY <2>5, <2>6
<1>6. ASSUME NEW w \in Branch, SetupTooSlow(w) PROVE InTime'
  <2>1. /\ UNCHANGED <<budget, now, left, entered, read>>
        /\ \A v \in Branch : pc'[v] \in Reading => pc[v] \in Reading
        /\ \A v \in Branch : refused'[v] = "time" => refused[v] = "time"
    BY <1>6 DEF SetupTooSlow, Refuse, TypeOK, Reading
  <2> QED BY <2>1, InTimeKept
<1>7. ASSUME NEW w \in Branch, Reserve(w) PROVE InTime'
  <2>1. /\ UNCHANGED <<now, left, entered, refused>> /\ pc[w] \in Reading
        /\ ~Behind(w)
    BY <1>7, ClearMeans DEF Reserve, Reading
  <2>2. \A v \in Branch : pc'[v] \in Reading =>
          pc[v] \in Reading /\ read'[v] = read[v]
    BY <1>7 DEF Reserve, Forget, TypeOK, Reading
  <2>3. \A b \in Budget : budget'[b] = IF b \in Path[w] THEN Charged(w, b)
                                                       ELSE budget[b]
    BY <1>7 DEF Reserve
  <2>4. \A b \in Path[w] \cap Timed :
           /\ budget'[b].created = budget[b].created
           /\ budget'[b].deadline = budget[b].deadline
           /\ budget'[b].last <= now
           /\ budget[b].deadline <= budget'[b].last + budget'[b].remaining
    BY <2>1, <2>3, ReadInTime, ChargedKeeps DEF Behind
  <2>5. \A b \in Timed : b \in Path[w] \/ budget'[b] = budget[b]
    BY <2>3, LimitAssumption
  <2> QED BY <2>1, <2>2, <2>4, <2>5, InTimeKept
<1>8. ASSUME NEW w \in Branch, ReserveRefused(w) PROVE InTime'
  <2>1. UNCHANGED <<budget, now, left, entered>> /\ pc[w] \in Reading
    BY <1>8 DEF ReserveRefused, Reading
  <2>2. \A v \in Branch : pc'[v] \in Reading =>
          pc[v] \in Reading /\ read'[v] = read[v]
    BY <1>8, RefusalGives DEF ReserveRefused, Forget, TypeOK, Reading
  <2>3. \A v \in Branch : refused'[v] = "time" =>
          refused[v] = "time" \/ (v = w /\ OutOfTime(w))
    BY <1>8, RefusalGives DEF ReserveRefused, TypeOK
  <2>4. OutOfTime(w) => \E b \in Path[w] \cap Timed :
          budget[b].created /\ budget[b].deadline <= now
    BY <2>1, OutOfTimeIsTrue
  <2> QED BY <2>1, <2>2, <2>3, <2>4, InTimeKept
<1>9. ASSUME NEW w \in Branch, Turn(w) PROVE InTime'
  <2>1. /\ UNCHANGED <<budget, refused, now, left, entered, read>>
        /\ \A v \in Branch : pc'[v] \in Reading => pc[v] \in Reading
    BY <1>9 DEF Turn, ledger, TypeOK, Reading
  <2> QED BY <2>1, InTimeKept
<1>10. CASE Tick
  <2>1. UNCHANGED <<budget, refused, entered, pc, read>> /\ now' = now + 1
    BY <1>10 DEF Tick, ledger
  <2>2. now \in Nat /\ Timed \subseteq Budget BY LimitAssumption DEF TypeOK
  <2>3. \A b \in Budget : left[b] \in Nat /\ left'[b] = Minus(left[b], 1)
    BY <1>10 DEF Tick, TypeOK
  <2>4. \A b \in Budget : /\ budget[b].last \in Nat
                          /\ budget[b].deadline \in Nat
    BY DEF TypeOK, State
  <2>5. \A b \in Timed \cap entered : budget[b].deadline <= now' + left'[b]
    <3> SUFFICES ASSUME NEW b \in Timed \cap entered
                 PROVE  budget[b].deadline <= now' + left'[b]
      OBVIOUS
    <3>1. budget[b].deadline <= now + left[b] BY DEF InTime
    <3> QED BY <2>1, <2>2, <2>3, <2>4, <3>1 DEF Minus
  <2>6. \A b \in Timed : budget[b].created => budget[b].last <= now'
    BY <2>1, <2>2, <2>4 DEF InTime
  <2>7. \A w \in Branch : read[w].at \in Nat BY DEF TypeOK, Clocks
  <2>8. \A w \in Branch : pc[w] \in Reading => read[w].at <= now'
    BY <2>1, <2>2, <2>7 DEF InTime
  <2>9. \A b \in Timed : budget[b].deadline <= now => budget[b].deadline <= now'
    BY <2>1, <2>2, <2>4
  <2> QED BY <2>1, <2>5, <2>6, <2>8, <2>9 DEF InTime
<1>11. CASE Crash
  BY <1>11 DEF Crash, ledger, InTime, Reading, TypeOK
<1>12. CASE UNCHANGED vars BY <1>12, InTimeKept DEF vars, ledger
<1> QED
  BY <1>1, <1>2, <1>3, <1>4, <1>5, <1>6, <1>7, <1>8, <1>9, <1>10, <1>11, <1>12
  DEF Next

(* A refused branch has reached the limit that it is told of: turns are      *)
(* never given back, and while the clock is not set a deadline stays past.  *)
THEOREM RefusalsJustified == Spec => []RefusedForReason
<1> DEFINE Inv == TypeOK /\ Charges /\ (sets = 0 => InTime)
<1>1. Init => Inv BY TypesStart, ChargesStart, InTimeStart
<1>2. Inv /\ [Next]_vars => Inv'
  <2> SUFFICES ASSUME Inv, [Next]_vars PROVE Inv' OBVIOUS
  <2>1. TypeOK' /\ Charges' BY TypesStep, ChargesStep
  <2>2. CASE SetClock
    <3>1. sets' # 0 BY <2>2 DEF SetClock, TypeOK
    <3> QED BY <2>1, <3>1
  <2>3. CASE ~SetClock
    <3>1. UNCHANGED sets
      BY <2>3 DEF Next, vars, Begin, Enter, Look, Observe, Snapshot, SetupTooSlow,
                  Reserve, ReserveRefused, Turn, Tick, Crash
    <3>2. sets = 0 => InTime' BY <2>3, InTimeStep
    <3> QED BY <2>1, <3>1, <3>2
  <2> QED BY <2>2, <2>3
<1>3. Inv => RefusedForReason
  <2> SUFFICES ASSUME Inv, NEW w \in Branch
               PROVE  /\ refused[w] = "turns" =>
                           \E b \in Path[w] : budget[b].used = MaxTurns[b]
                      /\ refused[w] = "time" /\ sets = 0 =>
                           \E b \in Path[w] \cap Timed : budget[b].deadline <= now
    BY DEF RefusedForReason
  <2> QED BY DEF Charges, InTime
<1> QED BY <1>1, <1>2, <1>3, PTL DEF Spec
-----------------------------------------------------------------------------
(* A step neither moves the deadline of a budget nor gives it time back,     *)
(* whatever happens to the wall clock and to the process.                   *)
LEMMA DurationStep ==
    ASSUME TypeOK, Charges, [Next]_vars, NEW b \in Timed, budget[b].created
    PROVE  /\ budget'[b].deadline = budget[b].deadline
           /\ budget'[b].remaining <= budget[b].remaining
<1>1. b \in Budget BY LimitAssumption
<1>2. budget[b].remaining \in Nat BY <1>1 DEF TypeOK, State
<1>3. ASSUME budget'[b] = budget[b]
      PROVE  /\ budget'[b].deadline = budget[b].deadline
             /\ budget'[b].remaining <= budget[b].remaining
  BY <1>2, <1>3
<1>4. ASSUME NEW w \in Branch, budget'[b] = Observed(w, b)
      PROVE  /\ budget'[b].deadline = budget[b].deadline
             /\ budget'[b].remaining <= budget[b].remaining
  BY <1>1, <1>4, ObservedKeeps, RestBounds
<1>5. ASSUME NEW w \in Branch, budget'[b] = Charged(w, b)
      PROVE  /\ budget'[b].deadline = budget[b].deadline
             /\ budget'[b].remaining <= budget[b].remaining
  BY <1>1, <1>5, ChargedKeeps, RestBounds
<1>6. \/ budget'[b] = budget[b]
      \/ \E w \in Branch : budget'[b] = Observed(w, b) \/ budget'[b] = Charged(w, b)
  <2>1. ASSUME NEW c \in Budget, Begin(c) PROVE budget'[b] = budget[b] BY <2>1 DEF Begin
  <2>2. ASSUME NEW c \in Budget, Enter(c) PROVE budget'[b] = budget[b]
    BY <2>2 DEF Enter, TypeOK
  <2>3. ASSUME NEW w \in Branch, Observe(w)
        PROVE  \E v \in Branch : \/ budget'[b] = Observed(v, b)
                                 \/ budget'[b] = Charged(v, b)
                                 \/ budget'[b] = budget[b]
    BY <1>1, <2>3 DEF Observe
  <2>4. ASSUME NEW w \in Branch, Snapshot(w)
        PROVE  \E v \in Branch : \/ budget'[b] = Observed(v, b)
                                 \/ budget'[b] = Charged(v, b)
                                 \/ budget'[b] = budget[b]
    BY <1>1, <2>4 DEF Snapshot, TypeOK
  <2>5. ASSUME NEW w \in Branch, Reserve(w)
        PROVE  \E v \in Branch : \/ budget'[b] = Observed(v, b)
                                 \/ budget'[b] = Charged(v, b)
                                 \/ budget'[b] = budget[b]
    BY <1>1, <2>5 DEF Reserve
  <2>6. ASSUME NEW w \in Branch,
               Look(w) \/ SetupTooSlow(w) \/ ReserveRefused(w) \/ Turn(w)
        PROVE  budget'[b] = budget[b]
    BY <2>6 DEF Look, SetupTooSlow, ReserveRefused, Turn, ledger
  <2>7. ASSUME Tick \/ SetClock \/ Crash \/ UNCHANGED vars PROVE budget'[b] = budget[b]
    BY <2>7 DEF Tick, SetClock, Crash, vars, ledger
  <2> QED BY <2>1, <2>2, <2>3, <2>4, <2>5, <2>6, <2>7 DEF Next
<1> QED BY <1>3, <1>4, <1>5, <1>6

(* The duration of a budget starts once.                                    *)
THEOREM DurationHeld == Spec => DurationKept
<1>1. TypeOK /\ Charges /\ [Next]_vars =>
        [\A b \in Timed : budget[b].created =>
            /\ budget'[b].deadline = budget[b].deadline
            /\ budget'[b].remaining <= budget[b].remaining]_<<budget>>
  BY DurationStep
<1> QED BY <1>1, ChargesAlways, PTL DEF Spec, DurationKept
-----------------------------------------------------------------------------
(* Only a reservation counts, and it counts in every budget of its path.     *)
LEMMA CountStep ==
    ASSUME TypeOK, Charges, [Next]_vars
    PROVE  \/ \A b \in Budget : budget'[b].used = budget[b].used
           \/ \E w \in Branch :
                 /\ \A b \in Path[w] : budget[b].used < MaxTurns[b]
                 /\ \A b \in Budget :
                       budget'[b].used = IF b \in Path[w] THEN budget[b].used + 1
                                                          ELSE budget[b].used
<1>1. ASSUME NEW b \in Budget, Begin(b)
      PROVE  \A c \in Budget : budget'[c].used = budget[c].used
  BY <1>1 DEF Begin
<1>2. ASSUME NEW b \in Budget, Enter(b)
      PROVE  \A c \in Budget : budget'[c].used = budget[c].used
  BY <1>2, FreshState DEF Enter, TypeOK, Charges
<1>3. ASSUME NEW w \in Branch, Observe(w)
      PROVE  \A c \in Budget : budget'[c].used = budget[c].used
  <2>1. \/ UNCHANGED budget
        \/ budget' = [b \in Budget |-> IF b \in Path[w] THEN Observed(w, b)
                                                       ELSE budget[b]]
    BY <1>3 DEF Observe
  <2> QED BY <2>1, ObservedKeeps
<1>4. ASSUME NEW w \in Branch, Snapshot(w)
      PROVE  \A c \in Budget : budget'[c].used = budget[c].used
  <2>1. PICK b \in Path[w] :
          budget' = IF read[w].at < budget[b].last THEN budget
                    ELSE [budget EXCEPT ![b] = Observed(w, b)]
    BY <1>4 DEF Snapshot
  <2>2. b \in Budget BY <2>1, PathAssumption
  <2> QED BY <2>1, <2>2, ObservedKeeps DEF TypeOK
<1>5. ASSUME NEW w \in Branch, Reserve(w)
      PROVE  /\ \A b \in Path[w] : budget[b].used < MaxTurns[b]
             /\ \A b \in Budget :
                   budget'[b].used = IF b \in Path[w] THEN budget[b].used + 1
                                                      ELSE budget[b].used
  <2>1. \A b \in Path[w] : budget[b].used \in Nat /\ MaxTurns[b] \in Nat
    BY PathAssumption, LimitAssumption DEF TypeOK, State
  <2>2. \A b \in Path[w] : budget[b].used < MaxTurns[b]
    BY <1>5, <2>1, ClearMeans DEF Reserve, OutOfTurns, UsedUp
  <2>3. \A b \in Budget : budget'[b] = IF b \in Path[w] THEN Charged(w, b)
                                                       ELSE budget[b]
    BY <1>5 DEF Reserve
  <2> QED BY <2>2, <2>3, ChargedKeeps
<1>6. ASSUME NEW w \in Branch,
             Look(w) \/ SetupTooSlow(w) \/ ReserveRefused(w) \/ Turn(w)
      PROVE  \A c \in Budget : budget'[c].used = budget[c].used
  BY <1>6 DEF Look, SetupTooSlow, ReserveRefused, Turn, ledger
<1>7. ASSUME Tick \/ SetClock \/ Crash \/ UNCHANGED vars
      PROVE  \A c \in Budget : budget'[c].used = budget[c].used
  BY <1>7 DEF Tick, SetClock, Crash, vars, ledger
<1> QED BY <1>1, <1>2, <1>3, <1>4, <1>5, <1>6, <1>7 DEF Next

(* The ledger's counters implement nested allowances: whatever the branches,  *)
(* clocks and processes do, a step charges all the budgets around one branch, *)
(* none of which is at its limit, or charges nothing.                        *)
THEOREM BudgetsRefineAllowance == Spec => RefinesAllowance
<1>1. Init => Spent!Init
  BY DEF Init, Spent!Init, NoBudget
<1>2. TypeOK /\ Charges /\ [Next]_vars =>
        [Spent!Next]_([b \in Budget |-> budget[b].used])
  <2> SUFFICES ASSUME TypeOK, Charges, [Next]_vars
               PROVE  \/ Spent!Next
                      \/ [b \in Budget |-> budget'[b].used]
                           = [b \in Budget |-> budget[b].used]
    OBVIOUS
  <2>1. CASE \A b \in Budget : budget'[b].used = budget[b].used
    BY <2>1
  <2>2. ASSUME NEW w \in Branch,
               \A b \in Path[w] : budget[b].used < MaxTurns[b],
               \A b \in Budget :
                  budget'[b].used = IF b \in Path[w] THEN budget[b].used + 1
                                                     ELSE budget[b].used
        PROVE  Spent!Next
    <3>1. Path[w] \subseteq Budget BY PathAssumption
    <3>2. Spent!Charge(Path[w]) BY <2>2, <3>1 DEF Spent!Charge
    <3> QED BY <3>2 DEF Spent!Next
  <2> QED BY <2>1, <2>2, CountStep
<1> QED BY <1>1, <1>2, ChargesAlways, PTL DEF Spec, RefinesAllowance, Spent!Spec
=============================================================================
