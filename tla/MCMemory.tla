-------------------------------- MODULE MCMemory --------------------------------
(* Memory for TLC: two turns, a pinned kind and one that is not; a short body *)
(* that expires, and one for good that only fits an archived memory.          *)
EXTENDS Memory, TLC

CONSTANTS t1, t2, brief, long

MCTurns  == {t1, t2}
MCBodies == {brief, long}
MCLength == [b \in MCBodies |-> IF b = brief THEN 1 ELSE 2]
MCTtls   == [b \in MCBodies |-> IF b = brief THEN {1} ELSE {0}]

Symmetry == Permutations(MCTurns)
================================================================================
