------------------------- MODULE MCAppServer ----------------------------
(* One worker that calls twice, through two adapters or through two servers  *)
(* of one adapter under a fault; one whose server fails while the provider is *)
(* closed; and two workers that share the lock of the owners.                *)
EXTENDS AppServerSends

CONSTANTS k1, k2

MCBounds ==
    {[team |-> {k1}, procs |-> 2, adapters |-> 2, calls |-> 2, closes |-> 0, faults |-> 0],
     [team |-> {k1}, procs |-> 2, adapters |-> 1, calls |-> 2, closes |-> 0, faults |-> 1],
     [team |-> {k1}, procs |-> 1, adapters |-> 1, calls |-> 1, closes |-> 1, faults |-> 1],
     [team |-> {k1, k2}, procs |-> 1, adapters |-> 2, calls |-> 2, closes |-> 1, faults |-> 0]}
====
