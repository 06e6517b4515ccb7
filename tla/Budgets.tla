------------------------------- MODULE Budgets -------------------------------
(***************************************************************************)
(* Provider budgets (botpipe/budgets.py, dispatches.py and the budget part  *)
(* of journal.py): nested limits on the turns and the time of a run whose   *)
(* branches dispatch in parallel.                                           *)
(*                                                                         *)
(* Before each turn a branch observes its budgets and then reserves from    *)
(* all of them.  Both calls read the clocks first and take the run lock     *)
(* afterwards, so that what they write may be older than what they find.    *)
(* Turns and remaining time are ledger records; a process keeps only the    *)
(* monotonic time it has left, and a new process starts from the record.    *)
(***************************************************************************)
EXTENDS Naturals, Sequences, FiniteSets

CONSTANTS
    Branch,                  \* parallel branches
    Budget,                  \* provider_budget blocks
    Outer,                   \* the budgets that enclose a budget
    Path,                    \* the budgets that enclose a branch's turns
    MaxTurns, Seconds,       \* the limits of a budget
    Timed,                   \* budgets with max_seconds
    MaxTime,                 \* bound: the wall clock
    MaxSets, MaxCrashes      \* bounds: wall clock settings, processes that die

ASSUME PathAssumption ==
    /\ Path \in [Branch -> SUBSET Budget] /\ Outer \in [Budget -> SUBSET Budget]
    /\ \A w \in Branch : \A b \in Path[w] : Outer[b] \subseteq Path[w]
ASSUME LimitAssumption ==
    /\ MaxTurns \in [Budget -> Nat \ {0}] /\ Seconds \in [Budget -> Nat]
    /\ Timed \subseteq Budget
ASSUME BoundAssumption == MaxTime \in Nat /\ MaxSets \in Nat /\ MaxCrashes \in Nat

VARIABLES
    begun,                   \* per budget: its operation's started_at + 1, or 0
    budget,                  \* per budget: its state in the ledger
    dispatches,              \* the branches of the reservations, in ledger order
    refused,                 \* per branch: why its operation was not dispatched
    left,                    \* per budget: the process's monotonic rest
    entered,                 \* budgets whose block the process is in
    pc, read,                \* per branch: its place, the clocks it has read
    now, sets, crashes

ledger == <<begun, budget, dispatches, refused>>
vars == <<ledger, left, entered, pc, read, now, sets, crashes>>

Minus(a, b) == IF a > b THEN a - b ELSE 0      \* max(0, a - b)
Least(a, b) == IF a < b THEN a ELSE b

Clocks == [at : Nat, left : [Budget -> Nat]]
Unread == [at |-> 0, left |-> [b \in Budget |-> 0]]
NoBudget == [created |-> FALSE, used |-> 0, deadline |-> 0, last |-> 0,
             remaining |-> 0]

Init ==
    /\ begun = [b \in Budget |-> 0] /\ budget = [b \in Budget |-> NoBudget]
    /\ dispatches = <<>> /\ refused = [w \in Branch |-> "no"]
    /\ left = [b \in Budget |-> 0] /\ entered = {}
    /\ pc = [w \in Branch |-> "idle"] /\ read = [w \in Branch |-> Unread]
    /\ now = 0 /\ sets = 0 /\ crashes = 0

-----------------------------------------------------------------------------
(* The operation of a provider_budget block begins: its duration starts.    *)
Begin(b) ==
    /\ begun[b] = 0 /\ Outer[b] \subseteq entered
    /\ begun' = [begun EXCEPT ![b] = now + 1]
    /\ UNCHANGED <<budget, dispatches, refused, left, entered, pc, read, now,
                   sets, crashes>>

Deadline(b) == begun[b] - 1 + Seconds[b]
Fresh(b) ==
    [created |-> TRUE, used |-> 0, last |-> now,
     deadline  |-> IF b \in Timed THEN Deadline(b) ELSE 0,
     remaining |-> IF b \in Timed THEN Minus(Deadline(b), now) ELSE 0]

(* Faulty: a budget that is entered again starts again.                     *)
EnterAfresh(b) ==
    /\ begun[b] # 0 /\ b \notin entered /\ Outer[b] \subseteq entered
    /\ budget' = [budget EXCEPT ![b] = Fresh(b)]
    /\ left' = [left EXCEPT ![b] = budget'[b].remaining]
    /\ entered' = entered \cup {b}
    /\ UNCHANGED <<begun, dispatches, refused, pc, read, now, sets, crashes>>

(* ProviderBudget is constructed: its state is created, or found.           *)
Enter(b) ==
    /\ begun[b] # 0 /\ b \notin entered /\ Outer[b] \subseteq entered
    /\ budget' = IF budget[b].created THEN budget
                 ELSE [budget EXCEPT ![b] = Fresh(b)]
    /\ left' = [left EXCEPT ![b] = budget'[b].remaining]
    /\ entered' = entered \cup {b}
    /\ UNCHANGED <<begun, dispatches, refused, pc, read, now, sets, crashes>>

(* Both clocks are read, without the run lock: for the observation before a  *)
(* turn, for its reservation, or because the program asks for a snapshot.   *)
Look(w) ==
    /\ pc[w] \in {"idle", "ready"} /\ refused[w] = "no" /\ Path[w] \subseteq entered
    /\ read' = [read EXCEPT ![w] =
                  [at |-> now, left |-> [b \in Budget |->
                                           IF b \in Path[w] THEN left[b] ELSE 0]]]
    /\ \E l \in IF pc[w] = "idle" THEN {"observe", "snapshot"} ELSE {"reserve"} :
          pc' = [pc EXCEPT ![w] = l]
    /\ UNCHANGED <<ledger, left, entered, now, sets, crashes>>

-----------------------------------------------------------------------------
(* Under the run lock.  _observed_budget: the wall clock may not be behind   *)
(* the last observation; the rest is the least of what the deadline, the     *)
(* record and the monotonic clock leave.                                    *)
Behind(w)  == \E b \in Path[w] : read[w].at < budget[b].last
Rest(w, b) == Least(Minus(budget[b].deadline, read[w].at),
                    Least(budget[b].remaining, read[w].left[b]))
Observed(w, b) ==
    [budget[b] EXCEPT !.last = read[w].at,
                      !.remaining = IF b \in Timed THEN Rest(w, b) ELSE @]

Charged(w, b) == [Observed(w, b) EXCEPT !.used = @ + 1]

(* Faulty: the last turn is never given.                                    *)
UsedUpEarly(b) == budget[b].used + 1 >= MaxTurns[b]
UsedUp(b) == budget[b].used >= MaxTurns[b]

(* Which check of a budget fails first, or "no".                            *)
Breach(w, b) ==
    IF read[w].at < budget[b].last THEN "clock"
    ELSE IF b \in Timed /\ Rest(w, b) = 0 THEN "time"
    ELSE IF UsedUp(b) THEN "turns" ELSE "no"
Clear(w) == \A b \in Path[w] : Breach(w, b) = "no"

(* What was read is used once.                                              *)
Forget(w) == read' = [read EXCEPT ![w] = Unread]

Refuse(w, why) == /\ refused' = [refused EXCEPT ![w] = why]
                  /\ pc' = [pc EXCEPT ![w] = "idle"]

(* The budgets are checked from the outermost one inwards.                  *)
RefuseFirst(w) == \E b \in Path[w] : /\ Breach(w, b) # "no"
                                     /\ \A c \in Outer[b] : Breach(w, c) = "no"
                                     /\ Refuse(w, Breach(w, b))

(* dispatch_timeout_ceiling: the observation of all budgets is one record,   *)
(* and only then the limits are judged.                                     *)
Observe(w) ==
    /\ pc[w] = "observe"
    /\ IF Behind(w)
       THEN Refuse(w, "clock") /\ UNCHANGED budget
       ELSE /\ budget' = [b \in Budget |->
                            IF b \in Path[w] THEN Observed(w, b) ELSE budget[b]]
            /\ \/ RefuseFirst(w)
               \/ /\ Clear(w)
                  /\ pc' = [pc EXCEPT ![w] = "ready"] /\ UNCHANGED refused
    /\ Forget(w)
    /\ UNCHANGED <<begun, dispatches, left, entered, now, sets, crashes>>

(* ProviderBudget.snapshot observes one budget and judges nothing.          *)
Snapshot(w) ==
    /\ pc[w] = "snapshot"
    /\ \E b \in Path[w] :
          budget' = IF read[w].at < budget[b].last THEN budget
                    ELSE [budget EXCEPT ![b] = Observed(w, b)]
    /\ pc' = [pc EXCEPT ![w] = "idle"] /\ Forget(w)
    /\ UNCHANGED <<begun, dispatches, refused, left, entered, now, sets, crashes>>

(* The setup between the two took longer than the turn's own timeout.       *)
SetupTooSlow(w) ==
    /\ pc[w] = "ready" /\ Refuse(w, "timeout")
    /\ UNCHANGED <<begun, budget, dispatches, left, entered, read, now, sets, crashes>>

(* Faulty: the limits were checked by the observation before.               *)
ReserveUnchecked(w) ==
    /\ pc[w] = "reserve" /\ ~Behind(w)
    /\ budget' = [b \in Budget |-> IF b \in Path[w] THEN Charged(w, b) ELSE budget[b]]
    /\ dispatches' = Append(dispatches, w)
    /\ pc' = [pc EXCEPT ![w] = "turn"] /\ Forget(w)
    /\ UNCHANGED <<begun, refused, left, entered, now, sets, crashes>>

(* reserve_budgets: all budgets are charged in one record ...               *)
Reserve(w) ==
    /\ pc[w] = "reserve" /\ Clear(w)
    /\ budget' = [b \in Budget |-> IF b \in Path[w] THEN Charged(w, b) ELSE budget[b]]
    /\ dispatches' = Append(dispatches, w)
    /\ pc' = [pc EXCEPT ![w] = "turn"] /\ Forget(w)
    /\ UNCHANGED <<begun, refused, left, entered, now, sets, crashes>>

(* ... or none is, and not even what was observed is recorded.              *)
ReserveRefused(w) ==
    /\ pc[w] = "reserve" /\ RefuseFirst(w)
    /\ Forget(w)
    /\ UNCHANGED <<begun, budget, dispatches, left, entered, now, sets, crashes>>

(* The turn is over; another one, a repair or a retry may follow.           *)
Turn(w) ==
    /\ pc[w] = "turn"
    /\ pc' = [pc EXCEPT ![w] = "idle"]
    /\ UNCHANGED <<ledger, left, entered, read, now, sets, crashes>>

-----------------------------------------------------------------------------
Tick ==
    /\ now < MaxTime /\ now' = now + 1
    /\ left' = [b \in Budget |-> Minus(left[b], 1)]
    /\ UNCHANGED <<ledger, entered, pc, read, sets, crashes>>

(* The wall clock is set; the monotonic one goes on.                        *)
SetClock ==
    /\ sets < MaxSets /\ sets' = sets + 1
    /\ now' \in 0..MaxTime
    /\ UNCHANGED <<ledger, left, entered, pc, read, crashes>>

Crash ==
    /\ crashes < MaxCrashes /\ crashes' = crashes + 1
    /\ entered' = {} /\ left' = [b \in Budget |-> 0]
    /\ pc' = [w \in Branch |-> "idle"] /\ read' = [w \in Branch |-> Unread]
    /\ UNCHANGED <<ledger, now, sets>>

Next == \/ \E b \in Budget : Begin(b) \/ Enter(b)
        \/ \E w \in Branch : \/ Look(w) \/ Observe(w) \/ Snapshot(w)
                              \/ SetupTooSlow(w) \/ Reserve(w)
                              \/ ReserveRefused(w) \/ Turn(w)
        \/ Tick \/ SetClock \/ Crash

Spec == Init /\ [][Next]_vars
-----------------------------------------------------------------------------
State == [created : BOOLEAN, used : Nat, deadline : Nat, last : Nat,
          remaining : Nat]

TypeOK ==
    /\ begun \in [Budget -> Nat] /\ budget \in [Budget -> State]
    /\ dispatches \in Seq(Branch)
    /\ refused \in [Branch -> {"no", "clock", "time", "timeout", "turns"}]
    /\ left \in [Budget -> Nat] /\ entered \subseteq Budget
    /\ pc \in [Branch -> {"idle", "observe", "snapshot", "ready", "reserve", "turn"}]
    /\ read \in [Branch -> Clocks]
    /\ now \in Nat /\ sets \in Nat /\ crashes \in Nat

(* The reservations that a budget encloses.                                 *)
Covered(b) == {i \in 1..Len(dispatches) : b \in Path[dispatches[i]]}

(* Every reservation is counted once by each budget around it, through       *)
(* racing branches, refusals of an inner budget and restarts (no run checks  *)
(* it: RefinesAllowance does, and ChargesExact proves it).                  *)
ChargedOnce == \A b \in Budget : budget[b].used = Cardinality(Covered(b))

(* No budget ever encloses more turns than it allows, although branches      *)
(* look at it before they take the lock.                                    *)
NeverOverspent == \A b \in Budget : Cardinality(Covered(b)) <= MaxTurns[b]

(* The duration starts once: neither a restart nor a clock that is set back  *)
(* moves a deadline or gives time back.                                     *)
DurationKept ==
    [][ \A b \in Timed : budget[b].created =>
          /\ budget'[b].deadline = budget[b].deadline
          /\ budget'[b].remaining <= budget[b].remaining ]_<<budget>>

(* A branch is refused for what is true of its budgets: a limit that stays   *)
(* reached, or, while nobody sets the clock, a deadline that has passed.     *)
RefusedForReason ==
    \A w \in Branch :
        /\ refused[w] = "turns" =>
             \E b \in Path[w] : budget[b].used = MaxTurns[b]
        /\ refused[w] = "time" /\ sets = 0 =>
             \E b \in Path[w] \cap Timed : budget[b].deadline <= now

Spent == INSTANCE Allowance WITH
    Limit <- MaxTurns, Enclosing <- {Path[w] : w \in Branch},
    spent <- [b \in Budget |-> budget[b].used]
RefinesAllowance == Spent!Spec
-----------------------------------------------------------------------------
(* journal.py refuses with "Wall clock moved backwards while enforcing       *)
(* provider deadline".  Two branches that read the clock in one order and    *)
(* take the lock in the other are refused by a clock nobody touched.         *)
ClockErrorIsReal == \A w \in Branch : refused[w] = "clock" => sets > 0
=============================================================================
