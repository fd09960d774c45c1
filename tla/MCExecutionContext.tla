--------------------------- MODULE MCExecutionContext --------------------------
(* The plugins are interchangeable; nothing below is a liveness property.   *)
EXTENDS ExecutionContext
Symmetry == Permutations(Plugins)
================================================================================
