---------------------------- MODULE ProviderTurns ----------------------------
(***************************************************************************)
(* What a provider operation promises about its model turns, without       *)
(* saying how: a turn is sent only while no answer is recorded, attempt    *)
(* numbers only grow, no turn is sent beside another one that may still    *)
(* act, and an answer, once recorded, is kept to the verdict.              *)
(***************************************************************************)
EXTENDS Naturals

CONSTANT Attempt                \* attempt numbers, 1 .. n

VARIABLES
    sent,                       \* attempts whose turn was sent
    live,                       \* those whose turn may still act
    answered,                   \* the attempt whose answer is recorded, or 0
    verdict                     \* "open", "completed" or "failed"

turns == <<sent, live, answered, verdict>>

Init == sent = {} /\ live = {} /\ answered = 0 /\ verdict = "open"

Send(a) ==
    /\ verdict = "open" /\ answered = 0 /\ live = {}
    /\ \A b \in sent : b < a
    /\ sent' = sent \cup {a} /\ live' = {a}
    /\ UNCHANGED <<answered, verdict>>

Quieten(s) ==
    /\ live' = live \ s
    /\ UNCHANGED <<sent, answered, verdict>>

Answer(a) ==
    /\ verdict = "open" /\ answered = 0 /\ live = {}
    /\ a \in sent
    /\ answered' = a
    /\ UNCHANGED <<sent, live, verdict>>

Conclude(v) ==
    /\ verdict = "open" /\ live = {}
    /\ v = "completed" => answered # 0
    /\ verdict' = v
    /\ UNCHANGED <<sent, live, answered>>

Next == \/ \E a \in Attempt : Send(a) \/ Answer(a)
        \/ \E s \in SUBSET live : Quieten(s)
        \/ \E v \in {"completed", "failed"} : Conclude(v)

Spec == Init /\ [][Next]_turns
=============================================================================
