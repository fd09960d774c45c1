------------------------------- MODULE OneContext ------------------------------
(***************************************************************************)
(* A thread as seen by code that does not care where the border between host *)
(* and plugin runs: ONE runtime context, ONE budget, ONE current task, ONE   *)
(* random state, changed by guards that nest.                                *)
(***************************************************************************)
EXTENDS ContextValues

CONSTANT Depths  \* where on the thread's stack a guard may lie

VARIABLES
  ctx,
  guards,  \* the guards alive, by their depth
  yields
vars == <<ctx, guards, yields>>

Init == ctx = Fresh /\ guards = <<>> /\ yields = 0

Guard(new, blocking) ==
  [saved |-> Part(ctx, DOMAIN new), blocking |-> blocking, nested |-> FALSE]
(* A block_in_place begins inside others.                                  *)
Nested(gs) == [d \in DOMAIN gs |-> [gs[d] EXCEPT !.nested = @ \/ gs[d].blocking]]
(* A guard lies above those that are alive, and goes before them.           *)
Push(guard, gs) ==
  \E depth \in Depths :
    /\ \A d \in DOMAIN gs : d < depth
    /\ guards' = [d \in DOMAIN gs \cup {depth} |-> IF d = depth THEN guard ELSE gs[d]]

Set(new) ==
  /\ Push(Guard(new, FALSE), guards) /\ ctx' = With(new, ctx)
  /\ UNCHANGED yields

BlockInPlace ==
  /\ ctx.runtime = "Entered"
  /\ Push(Guard(Blocked, TRUE), Nested(guards))
  /\ ctx' = With(Blocked, ctx)
  /\ UNCHANGED yields

(* A guard gives back what it found.  The budget of a block_in_place that   *)
(* had another one inside may stay unconstrained.                           *)
Restore ==
  \E depth \in DOMAIN guards :
    LET g == guards[depth] IN
      /\ \A d \in DOMAIN guards : d <= depth
      /\ guards' = [d \in DOMAIN guards \ {depth} |-> guards[d]]
      /\ \E budget \in {ctx.budget} \cup {g.saved[f] : f \in DOMAIN g.saved \cap {"budget"}} :
           /\ "budget" \in DOMAIN g.saved /\ ~g.nested => budget = g.saved.budget
           /\ ctx' = [With(g.saved, ctx) EXCEPT !.budget = budget]
      /\ UNCHANGED yields

Spend ==
  /\ ctx.budget \in Nat \ {0} /\ ctx' = [ctx EXCEPT !.budget = @ - 1]
  /\ UNCHANGED <<guards, yields>>
ForcedYield ==
  /\ ctx.budget = 0 /\ yields' = yields + 1 /\ UNCHANGED <<ctx, guards>>
Draw == ctx' = [ctx EXCEPT !.rng = Drawn(@)] /\ UNCHANGED <<guards, yields>>

Next ==
  \/ ctx.runtime = "NotEntered" /\ Set(EnterRuntime)
  \/ \E new \in Budgets \cup Tasks : Set(new)
  \/ BlockInPlace \/ Restore \/ Spend \/ ForcedYield \/ Draw
Spec == Init /\ [][Next]_vars
================================================================================
