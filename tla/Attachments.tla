------------------------------ MODULE Attachments ------------------------------
(***************************************************************************)
(* attach and detach of one plugin by several threads of the host, and the   *)
(* references that are counted for it: the plugin keeps ONE attached handle   *)
(* in a static, every attachment has an owner of its own in the host, and     *)
(* the owner counts, per HandleContext it has exported, the Handles that the   *)
(* plugin has.  What stops an owner is in Owner; here a stop is its two ends. *)
(***************************************************************************)
EXTENDS Naturals, FiniteSets, Sequences

CONSTANTS
  Attachers,  \* threads of the host that attach the plugin; names their owners
  Calls,      \* Attachment::enter calls, each with a runtime it may build
  Nobody,
  Capture     \* the hooks of a runtime may keep another runtime's objects

(* The last set is the names of the places a Handle can be in: no calls.     *)
ASSUME AttachmentsAssumption ==
  /\ Attachers \cap Calls = {} /\ Nobody \notin Attachers \cup Calls /\ Capture \in BOOLEAN
  /\ Calls \cap {"entry", "connection", "slot", "runtime"} = {}

(* An owner exports the context of its attachment and those of its runtimes. *)
Contexts == Attachers \cup Calls
Threads == Attachers \cup Calls

VARIABLES
  slot,       \* ATTACHED
  phase,      \* where the thread of each attachment stands
  accepting,  \* its owner takes activities
  taken,      \* the handle detach_attached has taken
  pc,         \* where each call stands
  inside,     \*   and in which attachment
  temp,       \* the handle its build has cloned from the slot
  home,       \* the owner of its runtime
  built,      \* the plugin has that Runtime
  runtime,    \* the owner's RuntimeOwner: "none", "open", "closed"
  hook,       \* the runtime whose Connection the hooks of this one keep
  refs,       \* HandleRecord::references, 0 without a record
  held,       \* who has a Handle: a place, or the call with a temporary one
  lock,       \* the owner's state lock
  todo        \* the releases a thread is in or has before it, innermost first

slotVars == <<slot, taken>>
callVars == <<pc, inside, temp>>
runtimeVars == <<home, built, runtime, hook>>
countVars == <<refs, held>>
vars == <<slotVars, phase, accepting, callVars, runtimeVars, countVars, lock, todo>>

OwnerOf(x) == IF x \in Attachers THEN x ELSE home[x]

Phases == {"out", "entry", "cloned", "built", "failed", "attached", "stopping", "dropping",
           "host", "returned", "refused", "done", "stuck"}
TypeOK ==
  /\ slot \in Attachers \cup {Nobody} /\ taken \in [Attachers -> Attachers \cup {Nobody}]
  /\ phase \in [Attachers -> Phases] /\ accepting \in [Attachers -> BOOLEAN]
  /\ pc \in [Calls -> {"idle", "run", "build", "install"}]
  /\ inside \in [Calls -> Attachers \cup {Nobody}] /\ temp \in [Calls -> Attachers \cup {Nobody}]
  /\ home \in [Calls -> Attachers \cup {Nobody}] /\ built \in [Calls -> BOOLEAN]
  /\ runtime \in [Calls -> {"none", "open", "closed"}] /\ hook \in [Calls -> Calls \cup {Nobody}]
  /\ refs \in [Contexts -> Nat]
  /\ held \in [Contexts -> SUBSET ({"entry", "connection", "slot", "runtime"} \cup Calls)]
  /\ lock \in [Attachers -> Threads \cup {Nobody}]

Init ==
  /\ slot = Nobody /\ taken = [a \in Attachers |-> Nobody]
  /\ phase = [a \in Attachers |-> "out"] /\ accepting = [a \in Attachers |-> FALSE]
  /\ pc = [c \in Calls |-> "idle"]
  /\ inside = [c \in Calls |-> Nobody] /\ temp = [c \in Calls |-> Nobody]
  /\ home = [c \in Calls |-> Nobody] /\ built = [c \in Calls |-> FALSE]
  /\ runtime = [c \in Calls |-> "none"] /\ hook = [c \in Calls |-> Nobody]
  /\ refs = [x \in Contexts |-> 0] /\ held = [x \in Contexts |-> {}]
  /\ lock = [a \in Attachers |-> Nobody] /\ todo = [t \in Threads |-> <<>>]

-----------------------------------------------------------------------------
(* Handles *)

Turn(a, from, to) == phase[a] = from /\ todo[a] = <<>> /\ phase' = [phase EXCEPT ![a] = to]
Step(c, from, to) == pc[c] = from /\ todo[c] = <<>> /\ pc' = [pc EXCEPT ![c] = to]

Free(x) == lock[OwnerOf(x)] = Nobody
export_handle(x, holder) ==
  refs' = [refs EXCEPT ![x] = 1] /\ held' = [held EXCEPT ![x] = {holder}]
(* The detached handle's panic is no step: see CountsMatch.                *)
retain_handle(x, holder) ==
  /\ Free(x) /\ refs[x] > 0
  /\ refs' = [refs EXCEPT ![x] = @ + 1] /\ held' = [held EXCEPT ![x] = @ \cup {holder}]

Release(x, holder) == [of |-> x, holder |-> holder, begun |-> FALSE]
Later(t, releases) == todo' = [todo EXCEPT ![t] = releases \o @]

(* What goes with the contexts xs: the hooks of their runtimes, which run    *)
(* the plugin's code, and which release a Connection nobody else has.        *)
Captured(xs) == {hook[x] : x \in xs \cap Calls} \ {Nobody}
Unused(xs) ==
  {d \in Captured(xs) : ~built[d] /\ \A c \in Calls \ xs : hook[c] # d}
Dropped(xs) ==
  LET one == CHOOSE d \in Unused(xs) : TRUE
  IN  IF Unused(xs) = {} THEN <<>> ELSE <<Release(one, "connection")>>
HooksGone(xs) == hook' = [c \in Calls |-> IF c \in xs THEN Nobody ELSE hook[c]]

(* release_handle: the last reference takes the context with it, under the   *)
(* owner's lock.                                                             *)
release_handle(t) ==
  /\ todo[t] # <<>> /\ ~Head(todo[t]).begun
  /\ LET r == Head(todo[t])
         gone == IF refs[r.of] = 1 THEN {r.of} ELSE {}
     IN  /\ Free(r.of) /\ refs[r.of] > 0
         /\ refs' = [refs EXCEPT ![r.of] = @ - 1]
         /\ held' = [held EXCEPT ![r.of] = @ \ {r.holder}]
         /\ lock' = [lock EXCEPT ![OwnerOf(r.of)] = t]
         /\ todo' = [todo EXCEPT ![t] = Dropped(gone) \o <<[r EXCEPT !.begun = TRUE]>> \o Tail(@)]
         /\ HooksGone(gone)
  /\ UNCHANGED <<slotVars, phase, accepting, callVars, home, built, runtime>>

Unlock(t) ==
  /\ todo[t] # <<>> /\ Head(todo[t]).begun
  /\ lock' = [lock EXCEPT ![OwnerOf(Head(todo[t]).of)] = Nobody]
  /\ todo' = [todo EXCEPT ![t] = Tail(@)]
  /\ UNCHANGED <<slotVars, phase, accepting, callVars, runtimeVars, countVars>>

-----------------------------------------------------------------------------
(* attach in the host, and the plugin's telekio_guest_context               *)

Attach(a) ==
  /\ Turn(a, "out", "entry") /\ accepting' = [accepting EXCEPT ![a] = TRUE]
  /\ export_handle(a, "entry")
  /\ UNCHANGED <<slotVars, callVars, runtimeVars, lock, todo>>

CloneEntry(a) ==
  /\ Turn(a, "entry", "cloned") /\ retain_handle(a, "connection")
  /\ UNCHANGED <<slotVars, accepting, callVars, runtimeVars, lock, todo>>

BuildContext(a) ==
  /\ Turn(a, "cloned", "built")
  /\ UNCHANGED <<slotVars, accepting, callVars, runtimeVars, countVars, lock, todo>>

BuildContextFails(a) ==
  /\ Turn(a, "cloned", "failed")
  /\ Later(a, <<Release(a, "connection"), Release(a, "entry")>>)
  /\ UNCHANGED <<slotVars, accepting, callVars, runtimeVars, countVars, lock>>

(* Mistake: the slot is not looked at.                                      *)
InstallOver(a) ==
  /\ Turn(a, "built", "attached") /\ slot' = a
  /\ held' = [held EXCEPT ![a] = (@ \ {"entry"}) \cup {"slot"}]
  /\ UNCHANGED <<taken, accepting, callVars, runtimeVars, refs, lock, todo>>
(* Mistake: the context is boxed before the handle is installed.            *)
InstallBoxed(a) ==
  /\ Turn(a, "built", IF slot = Nobody THEN "attached" ELSE "failed")
  /\ IF slot = Nobody
     THEN /\ slot' = a /\ held' = [held EXCEPT ![a] = (@ \ {"entry"}) \cup {"slot"}]
          /\ UNCHANGED todo
     ELSE Later(a, <<Release(a, "entry")>>) /\ UNCHANGED <<slot, held>>
  /\ UNCHANGED <<taken, accepting, callVars, runtimeVars, refs, lock>>

install_handle(a) ==
  /\ Turn(a, "built", IF slot = Nobody THEN "attached" ELSE "failed")
  /\ IF slot = Nobody
     THEN /\ slot' = a /\ held' = [held EXCEPT ![a] = (@ \ {"entry"}) \cup {"slot"}]
          /\ UNCHANGED todo
     ELSE /\ Later(a, <<Release(a, "entry"), Release(a, "connection")>>)
          /\ UNCHANGED <<slot, held>>
  /\ UNCHANGED <<taken, accepting, callVars, runtimeVars, refs, lock>>

AttachFails(a) ==
  /\ Turn(a, "failed", "out") /\ accepting' = [accepting EXCEPT ![a] = FALSE]
  /\ UNCHANGED <<slotVars, callVars, runtimeVars, countVars, lock, todo>>

-----------------------------------------------------------------------------
(* A call into the plugin, which may build and drop a runtime               *)

(* Objects the plugin has kept from an attachment that is gone are not used. *)
Enter(c, a) ==
  /\ phase[a] \in {"attached", "stopping"} /\ accepting[a]
  /\ built[c] => home[c] = a
  /\ Step(c, "idle", "run") /\ inside' = [inside EXCEPT ![c] = a]
  /\ UNCHANGED <<slotVars, phase, accepting, temp, runtimeVars, countVars, lock, todo>>

Leave(c) ==
  /\ Step(c, "run", "idle") /\ inside' = [inside EXCEPT ![c] = Nobody]
  /\ UNCHANGED <<slotVars, phase, accepting, temp, runtimeVars, countVars, lock, todo>>

(* attached(Clone::clone): the handle of whoever is in the slot.            *)
CloneAttached(c) ==
  /\ Step(c, "run", "build") /\ held[c] = {} /\ slot # Nobody
  /\ temp' = [temp EXCEPT ![c] = slot] /\ retain_handle(slot, c)
  /\ UNCHANGED <<slotVars, phase, accepting, inside, runtimeVars, lock, todo>>

(* The temporary handle is dropped when the host's build has returned.      *)
TempDropped(c) == Later(c, <<Release(temp[c], c)>>) /\ temp' = [temp EXCEPT ![c] = Nobody]
Keepable(c) ==
  {d \in Calls \ {c} : Capture /\ built[d] /\ home[d] = temp[c] /\ "connection" \in held[d]}

BuildRuntime(c) ==
  /\ Step(c, "build", "install") /\ accepting[temp[c]] /\ lock[temp[c]] = Nobody
  /\ home' = [home EXCEPT ![c] = temp[c]] /\ built' = [built EXCEPT ![c] = TRUE]
  /\ runtime' = [runtime EXCEPT ![c] = "open"]
  /\ \E d \in {Nobody} \cup Keepable(c) : hook' = [hook EXCEPT ![c] = d]
  /\ export_handle(c, "runtime") /\ TempDropped(c)
  /\ UNCHANGED <<slotVars, phase, accepting, inside, lock>>

BuildRefused(c) ==
  /\ Step(c, "build", "run") /\ TempDropped(c)
  /\ UNCHANGED <<slotVars, phase, accepting, inside, runtimeVars, countVars, lock>>

(* release_runtime, and then the Runtime's own reference.                   *)
DropHost(c, before, after) ==
  /\ Free(c) /\ runtime' = [runtime EXCEPT ![c] = "none"]
  /\ built' = [built EXCEPT ![c] = FALSE]
  /\ Later(c, before \o <<Release(c, "runtime")>> \o after)

(* Mistake: Runtime::handle copies the raw handle.                          *)
CopyHandle(c) ==
  /\ Step(c, "install", "run") /\ held' = [held EXCEPT ![c] = @ \cup {"connection"}]
  /\ UNCHANGED <<slotVars, phase, accepting, inside, temp, runtimeVars, refs, lock, todo>>

(* install_host; when the guest's side cannot be built, the host's goes, and *)
(* the hooks go with the plugin's Builder.                                   *)
install_host(c) ==
  /\ Step(c, "install", "run") /\ retain_handle(c, "connection")
  /\ UNCHANGED <<slotVars, phase, accepting, inside, temp, runtimeVars, lock, todo>>

BuildGuestFails(c) ==
  /\ Step(c, "install", "run") /\ DropHost(c, <<>>, Dropped({c})) /\ HooksGone({c})
  /\ UNCHANGED <<slotVars, phase, accepting, inside, temp, home, countVars, lock>>

(* The plugin drops its Runtime; the Connection stays while hooks have it.  *)
DropRuntime(c) ==
  /\ Step(c, "run", "run") /\ built[c]
  /\ DropHost(c, IF c \in Captured(Calls) THEN <<>> ELSE <<Release(c, "connection")>>, <<>>)
  /\ UNCHANGED <<slotVars, phase, accepting, inside, temp, home, hook, countVars, lock>>

-----------------------------------------------------------------------------
(* Attachment::detach, and detach_attached in the plugin                    *)

StopAccepting(a) ==
  /\ Turn(a, "attached", "stopping") /\ accepting' = [accepting EXCEPT ![a] = FALSE]
  /\ UNCHANGED <<slotVars, callVars, runtimeVars, countVars, lock, todo>>

Of(a) == {c \in Calls : home[c] = a}
Busy(a) == \E c \in Calls : inside[c] = a

(* The owner is idle and its runtimes are closed; the context is dropped.   *)
Idle(a) ==
  /\ ~Busy(a) /\ Turn(a, "stopping", "dropping")
  /\ runtime' = [c \in Calls |-> IF c \in Of(a) /\ runtime[c] = "open" THEN "closed"
                                 ELSE runtime[c]]
  /\ Later(a, <<Release(a, "connection")>>)
  /\ UNCHANGED <<slotVars, accepting, callVars, home, built, hook, countVars, lock>>

TakeSlot(a) ==
  /\ Turn(a, "dropping", "host") /\ slot # Nobody
  /\ taken' = [taken EXCEPT ![a] = slot] /\ slot' = Nobody
  /\ UNCHANGED <<accepting, callVars, runtimeVars, countVars, lock, todo>>

(* OwnerState::detach clears its tables under its lock, or refuses.          *)
Refuses(o) == accepting[o] \/ Busy(o) \/ \E c \in Of(o) : runtime[c] = "open"
HostDetach(a) ==
  LET o == taken[a]
      all == {o} \cup Of(o)
  IN  /\ phase[a] = "host" /\ lock[o] = Nobody
      /\ Turn(a, "host", IF Refuses(o) THEN "refused" ELSE "returned")
      /\ IF Refuses(o) THEN UNCHANGED <<refs, held, runtime, hook, lock, todo>>
         ELSE /\ refs' = [x \in Contexts |-> IF x \in all THEN 0 ELSE refs[x]]
              /\ held' = [held EXCEPT ![o] = @ \ {"slot"}]
              /\ runtime' = [c \in Calls |-> IF c \in all THEN "none" ELSE runtime[c]]
              /\ lock' = [lock EXCEPT ![o] = a] /\ HooksGone(all)
              /\ Later(a, Dropped(all) \o <<[Release(o, "slot") EXCEPT !.begun = TRUE]>>)
      /\ UNCHANGED <<slotVars, accepting, callVars, home, built>>

(* A refused handle goes back into the slot, over what is there.            *)
EndDetach(a) ==
  /\ phase[a] \in {"returned", "refused"} /\ todo[a] = <<>>
  /\ phase' = [phase EXCEPT ![a] = IF @ = "refused" THEN "stuck" ELSE "done"]
  /\ slot' = IF phase[a] = "refused" THEN taken[a] ELSE slot
  /\ taken' = [taken EXCEPT ![a] = Nobody]
  /\ todo' = IF phase[a] = "refused" /\ slot # Nobody
             THEN [todo EXCEPT ![a] = <<Release(slot, "slot")>>] ELSE todo
  /\ UNCHANGED <<accepting, callVars, runtimeVars, countVars, lock>>

Next ==
  \/ \E a \in Attachers :
       \/ Attach(a) \/ CloneEntry(a) \/ BuildContext(a) \/ BuildContextFails(a)
       \/ install_handle(a) \/ AttachFails(a)
       \/ StopAccepting(a) \/ Idle(a) \/ TakeSlot(a) \/ HostDetach(a) \/ EndDetach(a)
  \/ \E c \in Calls :
       \/ \E a \in Attachers : Enter(c, a)
       \/ Leave(c) \/ CloneAttached(c) \/ BuildRuntime(c) \/ BuildRefused(c)
       \/ install_host(c) \/ BuildGuestFails(c) \/ DropRuntime(c)
  \/ \E t \in Threads : release_handle(t) \/ Unlock(t)

Spec == Init /\ [][Next]_vars

-----------------------------------------------------------------------------
(* The owner's count of a context is the number of Handles the plugin has:   *)
(* no Handle is left without its context, and no context without a Handle,   *)
(* until detach clears the owner's tables.                                   *)
Cleared(a) == phase[a] \in {"returned", "done"}
CountsMatch ==
  \A x \in Contexts :
    refs[x] = IF OwnerOf(x) # Nobody /\ Cleared(OwnerOf(x)) THEN 0 ELSE Cardinality(held[x])

(* What a call does through the attached handle is on the account of the    *)
(* attachment it has entered, whatever other threads attach and detach.      *)
OwnHandle ==
  \A c \in Calls : /\ pc[c] # "idle" => slot = inside[c]
                   /\ temp[c] # Nobody => temp[c] = inside[c]

(* An attach that fails and a detach that succeeds leave nothing: no slot   *)
(* taken, no handle exported, no runtime; and a detach always succeeds.      *)
NothingLeft ==
  \A a \in Attachers :
    /\ phase[a] \in {"out", "done"} =>
         /\ slot # a /\ refs[a] = 0 /\ held[a] = {}
         /\ \A c \in Of(a) : refs[c] = 0 /\ runtime[c] = "none"
    /\ phase[a] # "stuck"

(* "Business code can then use Tokio normally": dropping a runtime never     *)
(* makes a thread wait for a lock that it holds itself.                      *)
NoSelfWait ==
  \A t \in Threads : todo[t] # <<>> /\ ~Head(todo[t]).begun => lock[OwnerOf(Head(todo[t]).of)] # t
================================================================================
