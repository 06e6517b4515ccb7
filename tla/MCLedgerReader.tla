--------------------------- MODULE MCLedgerReader ---------------------------
(***************************************************************************)
(* LedgerReader on small instances.  MixedWidth has a long record beside   *)
(* short ones, so that a torn line can be longer than the line that reports *)
(* its repair, and a repaired file can grow back to an earlier size.       *)
(***************************************************************************)
EXTENDS LedgerReader, TLC

CONSTANTS p1, p2, started, finished

MCProcess == {p1, p2}
MCPayload == {started, finished}
MCSymmetry == Permutations(MCProcess)
MixedWidth == [b \in MCPayload \cup {Created, Repaired} |->
                 IF b = started THEN 4 ELSE 1]
=============================================================================
