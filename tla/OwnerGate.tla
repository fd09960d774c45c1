------------------------------- MODULE OwnerGate -------------------------------
(***************************************************************************)
(* What the host's callbacks into a plugin share with its detach: the owner  *)
(* admits a callback while it accepts, counts it while it runs, and a detach *)
(* stops the first and waits for the second.  Owner.tla has the whole of     *)
(* OwnerState; here a callback is one activity, named by who holds it.       *)
(***************************************************************************)
VARIABLES
  accepting,    \* OwnerState::accepting
  busy,         \* OwnerState::activities: who holds one
  detach        \* where the detach stands

gateVars == <<accepting, busy, detach>>

DetachStages == {"out", "close", "wait", "idle", "detached"}

GateInit == accepting = TRUE /\ busy = {} /\ detach = "out"

(* OwnerState::callback and the drop of what it returns.                   *)
Admit(holder) ==
  /\ accepting
  /\ busy' = busy \cup {holder}
  /\ UNCHANGED <<accepting, detach>>

Dismiss(holder) ==
  /\ busy' = busy \ {holder}
  /\ UNCHANGED <<accepting, detach>>

Refuse == ~accepting /\ UNCHANGED gateVars

(* shutdown_owner: no more callbacks ...                                   *)
Stop ==
  /\ detach = "out"
  /\ accepting' = FALSE
  /\ detach' = "close"
  /\ UNCHANGED busy

(* ... the resources of its snapshot are closed ...                        *)
Closed ==
  /\ detach = "close"
  /\ detach' = "wait"
  /\ UNCHANGED <<accepting, busy>>

(* ... wait_idle ...                                                       *)
Idle ==
  /\ detach = "wait" /\ busy = {}
  /\ detach' = "idle"
  /\ UNCHANGED <<accepting, busy>>

(* ... and OwnerState::detach lets go of what is left.                     *)
Detached ==
  /\ detach = "idle"
  /\ detach' = "detached"
  /\ UNCHANGED <<accepting, busy>>
===============================================================================
