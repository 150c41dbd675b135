--------------------------- MODULE MCTimeOffRequests ---------------------------
EXTENDS TimeOffRequests, TLC

CONSTANTS k1, k2

MCDays == (k1 :> 2) @@ (k2 :> 3)

MCSymmetry == Permutations(Calls)
===============================================================================
