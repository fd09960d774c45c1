------------------------------ MODULE ContextValues ----------------------------
(* What Tokio keeps for a thread: the runtime it is in, the budget of the    *)
(* task, the task, and the state of its random numbers (0 before the first). *)
EXTENDS Naturals, Sequences

CONSTANTS
  Unconstrained,  \* a budget without limit (u16::MAX in an ExecutionState)
  Initial,        \* bound: the budget of a poll
  TaskIds         \* bound: tasks

ASSUME ContextAssumption ==
  Initial \in Nat /\ Unconstrained \notin Nat /\ TaskIds \subseteq Nat \ {0}

Fields == {"runtime", "budget", "task", "rng"}
Fresh == [runtime |-> "NotEntered", budget |-> Unconstrained, task |-> 0, rng |-> 0]
Part(record, fields) == [f \in fields |-> record[f]]
With(new, old) == [f \in DOMAIN old |-> IF f \in DOMAIN new THEN new[f] ELSE old[f]]
Drawn(rng) == 2

(* What a guard sets: a runtime and a fresh random state, the budget, the   *)
(* task; and what block_in_place does for the time of its function.         *)
EnterRuntime == [runtime |-> "Entered", rng |-> 1]
Budgets == {[budget |-> b] : b \in {Initial, Unconstrained}}
Tasks == {[task |-> id] : id \in TaskIds}
Blocked == [runtime |-> "NotEntered", budget |-> Unconstrained]
================================================================================
