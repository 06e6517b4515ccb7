------------------------------- MODULE MCReplay -------------------------------
(* Two activities with one identity of which one may be repeated, a question, *)
(* and groups of two branches.                                               *)
EXTENDS Replay

act(n, b) == [kind |-> "activity", name |-> n, safe |-> b, attempt |-> 0,
              fails |-> IF b THEN "failed" ELSE "opaque"]
of(k)     == [kind |-> k, name |-> k, safe |-> FALSE, attempt |-> 0, fails |-> None]

MCRootCalls == {act("a", TRUE), act("a", FALSE), of("input"), of("all"),
                of("collect"), of("child")}
MCSubCalls  == {act("a", TRUE), of("input")}

(* Results without keys, or one mapping in both orders of its keys.          *)
CONSTANTS x, y
NoKeys   == (x :> <<>>)
TwoKeys  == (x :> <<2, 1>>) @@ (y :> <<1, 2>>)
=============================================================================
