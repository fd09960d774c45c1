-------------------------- MODULE MCRuntimeShutdown --------------------------
(* Two block_on calls on one runtime, one on another; symmetric calls share *)
(* a runtime.                                                               *)
EXTENDS RuntimeShutdown

CONSTANTS r1, r2, b1, b2, b3

MCRuntimes == {r1, r2}
MCBlockOns == {b1, b2, b3}
MCOn == [b \in MCBlockOns |-> IF b = b3 THEN r2 ELSE r1]

OneRuntime  == {r1}
OneBlockOn  == {b1}
OneOn       == [b \in OneBlockOn |-> r1]
===============================================================================
