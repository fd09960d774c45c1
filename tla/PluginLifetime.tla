---------------------------- MODULE PluginLifetime ----------------------------
(***************************************************************************)
(* What the bridge promises about one attached plugin, whatever tasks,     *)
(* calls, callbacks and wakers it uses: work is admitted only while the    *)
(* plugin is attached, stopping it is final, and it becomes detached (its  *)
(* library may be unloaded) only when no admitted work is left.            *)
(***************************************************************************)
CONSTANT Work        \* everything that can run code of the plugin

VARIABLES
  phase,             \* "attached", "stopping" or "detached"
  running            \* the admitted work that has not ended

vars == <<phase, running>>

TypeOK ==
  /\ phase \in {"attached", "stopping", "detached"}
  /\ running \subseteq Work

Init ==
  /\ phase = "attached"
  /\ running = {}

(* The plugin starts a piece of work. *)
Admit(w) ==
  /\ phase = "attached"
  /\ w \notin running
  /\ running' = running \cup {w}
  /\ UNCHANGED phase

(* The last code of the plugin that belongs to w has returned. *)
End(w) ==
  /\ w \in running
  /\ running' = running \ {w}
  /\ UNCHANGED phase

(* Attachment::detach closes the plugin to new work. *)
Stop ==
  /\ phase = "attached"
  /\ phase' = "stopping"
  /\ UNCHANGED running

(* Attachment::detach returns Ok. *)
Release ==
  /\ phase = "stopping"
  /\ running = {}
  /\ phase' = "detached"
  /\ UNCHANGED running

Next ==
  \/ \E w \in Work : Admit(w) \/ End(w)
  \/ Stop
  \/ Release

Spec == Init /\ [][Next]_vars

(* A detached plugin has no work left: its code may be unloaded. *)
Unloadable == phase = "detached" => running = {}
===============================================================================
