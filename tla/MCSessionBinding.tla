--------------------------- MODULE MCSessionBinding ---------------------------
(* SessionBinding with runs that are interchangeable.                        *)
EXTENDS SessionBinding, TLC

CONSTANTS r1, r2, r3

MCRun == {r1, r2, r3}
MCSymmetry == Permutations(MCRun)
=============================================================================
