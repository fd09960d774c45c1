--------------------------- MODULE AttachmentsProofs ---------------------------
(***************************************************************************)
(* The references of a plugin's attachments, for any number of threads that  *)
(* attach and of calls.                                                     *)
(***************************************************************************)
EXTENDS Attachments, FiniteSetTheorems, SequenceTheorems, TLAPS

Places == {"entry", "connection", "slot", "runtime"}
Releases == [of : Contexts, holder : Places \cup Calls, begun : BOOLEAN]
Types == TypeOK /\ todo \in [Threads -> Seq(Releases)]

(* The slot is of who has installed itself and not been taken out, and no    *)
(* detach is refused.                                                      *)
Installed == {"attached", "stopping", "dropping"}
Slotted ==
  \A a \in Attachers :
    /\ slot = a <=> phase[a] \in Installed
    /\ phase[a] \in {"host", "returned"} => taken[a] = a
    /\ phase[a] \notin {"refused", "stuck"}
    /\ accepting[a] <=> phase[a] \in {"entry", "cloned", "built", "failed", "attached"}

(* A call is inside of an attachment that is not yet idle, with its handle.  *)
Entered ==
  \A c \in Calls :
    /\ inside[c] = Nobody <=> pc[c] = "idle"
    /\ inside[c] # Nobody => inside[c] \in Attachers /\ phase[inside[c]] \in {"attached", "stopping"}
    /\ temp[c] # Nobody <=> pc[c] = "build"
    /\ temp[c] # Nobody => temp[c] = inside[c]
    /\ pc[c] = "idle" => todo[c] = <<>>

(* A runtime is of an attachment, open only before that is idle, and gone    *)
(* when that is detached.                                                  *)
Owned ==
  \A c \in Calls :
    /\ built[c] \/ runtime[c] # "none" => home[c] # Nobody
    /\ home[c] # Nobody =>
         home[c] \in Attachers /\ phase[home[c]] \in Installed \cup {"host", "returned", "done"}
    /\ runtime[c] = "open" => phase[home[c]] \in {"attached", "stopping"}
    /\ runtime[c] # "none" => ~Cleared(home[c])

Stages == Slotted /\ Entered /\ Owned

-----------------------------------------------------------------------------
(* The hooks that go with contexts release at most one Connection: one that  *)
(* a hook of theirs has, and nobody else.                                   *)
DropsOne(xs, d) == d \in Unused(xs) /\ Dropped(xs) = <<Release(d, "connection")>>

LEMMA DroppedCases ==
  ASSUME TypeOK, NEW xs
  PROVE  Dropped(xs) = <<>> \/ \E d \in Calls : DropsOne(xs, d)
<1>1. CASE Unused(xs) = {}
  BY <1>1 DEF Dropped
<1>2. CASE Unused(xs) # {}
  <2> DEFINE one == CHOOSE d \in Unused(xs) : TRUE
  <2>1. one \in Unused(xs)
    BY <1>2
  <2>2. Dropped(xs) = <<Release(one, "connection")>>
    BY <1>2 DEF Dropped
  <2>3. one \in Calls
    BY <2>1 DEF Unused, Captured, TypeOK
  <2>. QED  BY <2>1, <2>2, <2>3 DEF DropsOne
<1>. QED  BY <1>1, <1>2

LEMMA ReleaseTypes ==
  /\ \A x \in Contexts, h \in Places \cup Calls : Release(x, h) \in Releases
  /\ \A x \in Contexts, h \in Places \cup Calls : <<Release(x, h)>> \in Seq(Releases)
BY DEF Release, Releases

LEMMA DroppedTypes == ASSUME TypeOK, NEW xs PROVE Dropped(xs) \in Seq(Releases)
<1>1. CASE Dropped(xs) = <<>>
  BY <1>1
<1>2. CASE \E d \in Calls : DropsOne(xs, d)
  BY <1>2, ReleaseTypes DEF DropsOne, Contexts, Places
<1>. QED  BY <1>1, <1>2, DroppedCases

LEMMA LaterTypes ==
  ASSUME Types, NEW t \in Threads, NEW rs \in Seq(Releases), Later(t, rs)
  PROVE  /\ todo' \in [Threads -> Seq(Releases)]
         /\ todo[t] = <<>> => todo' = [todo EXCEPT ![t] = rs]
<1>1. todo[t] \in Seq(Releases)
  BY DEF Types
<1>2. rs \o todo[t] \in Seq(Releases)
  BY <1>1
<1>3. todo[t] = <<>> => rs \o todo[t] = rs
  OBVIOUS
<1>. QED  BY <1>2, <1>3 DEF Later, Types

-----------------------------------------------------------------------------
(* The types: every release is one of the plugin's Handles.                 *)

LEMMA HandleTypes ==
  ASSUME Types, NEW x \in Contexts, NEW h \in Places \cup Calls,
         export_handle(x, h) \/ retain_handle(x, h)
  PROVE  /\ refs' \in [Contexts -> Nat]
         /\ held' \in [Contexts -> SUBSET (Places \cup Calls)]
<1> DEFINE K == Places \cup Calls
<1>1. refs \in [Contexts -> Nat] /\ held \in [Contexts -> SUBSET K]
  BY DEF Types, TypeOK, Places
<1>2. refs' \in [Contexts -> Nat]
  BY <1>1 DEF export_handle, retain_handle
<1>3. held[x] \in SUBSET K /\ {h} \in SUBSET K
  BY <1>1
<1>4. held[x] \cup {h} \in SUBSET K
  BY <1>3
<1>5. held' = [held EXCEPT ![x] = {h}] \/ held' = [held EXCEPT ![x] = held[x] \cup {h}]
  BY DEF export_handle, retain_handle
<1>. HIDE DEF K
<1>6. held' \in [Contexts -> SUBSET K]
  BY <1>1, <1>3, <1>4, <1>5
<1>. QED  BY <1>2, <1>6 DEF K

LEMMA InstallTypes ==
  ASSUME AttachmentsAssumption, Types, NEW a \in Attachers, install_handle(a)
  PROVE  Types'
<1>1. a \in Contexts /\ a \in Threads
  BY DEF Contexts, Threads
<1>2. held' \in [Contexts -> SUBSET (Places \cup Calls)]
  <2> DEFINE K == Places \cup Calls
  <2>1. held \in [Contexts -> SUBSET K]
    BY DEF Types, TypeOK, Places
  <2>2. (held[a] \ {"entry"}) \cup {"slot"} \in SUBSET K
    BY <1>1, <2>1 DEF Places
  <2>3. \/ held' = held
        \/ held' = [held EXCEPT ![a] = (held[a] \ {"entry"}) \cup {"slot"}]
    BY DEF install_handle
  <2>. HIDE DEF K
  <2>4. held' \in [Contexts -> SUBSET K]
    BY <1>1, <2>1, <2>2, <2>3
  <2>. QED  BY <2>4 DEF K
<1>3. phase' \in [Attachers -> Phases] /\ slot' \in Attachers \cup {Nobody}
  <2>1. \A p \in Phases : [phase EXCEPT ![a] = p] \in [Attachers -> Phases]
    BY DEF Types, TypeOK
  <2>. QED  BY <2>1 DEF install_handle, Turn, Types, TypeOK, Phases
<1>4. todo' \in [Threads -> Seq(Releases)]
  <2>1. <<Release(a, "entry"), Release(a, "connection")>> \in Seq(Releases)
    BY <1>1, ReleaseTypes DEF Places
  <2>2. CASE slot = Nobody
    BY <2>2 DEF install_handle, Types
  <2>3. CASE slot # Nobody
    <3>1. Later(a, <<Release(a, "entry"), Release(a, "connection")>>)
      BY <2>3 DEF install_handle
    <3>. QED  BY <3>1, <2>1, <1>1, LaterTypes
  <2>. QED  BY <2>2, <2>3
<1>. QED
  BY <1>2, <1>3, <1>4
     DEF install_handle, Types, TypeOK, callVars, runtimeVars, Places

LEMMA AttacherTypes ==
  ASSUME AttachmentsAssumption, Types, NEW a \in Attachers,
         \/ Attach(a) \/ CloneEntry(a) \/ BuildContext(a) \/ BuildContextFails(a)
         \/ AttachFails(a) \/ StopAccepting(a) \/ TakeSlot(a)
  PROVE  Types'
<1>. USE DEF slotVars, callVars, runtimeVars, countVars
<1>1. a \in Contexts /\ a \in Threads
  BY DEF Contexts, Threads
<1>2. ASSUME NEW p, NEW q \in Phases, Turn(a, p, q)
      PROVE  phase' \in [Attachers -> Phases]
  BY <1>2 DEF Turn, Types, TypeOK
<1>3. CASE Attach(a)
  <2>1. phase' \in [Attachers -> Phases]
    BY <1>2, <1>3 DEF Attach, Phases
  <2>2. refs' \in [Contexts -> Nat] /\ held' \in [Contexts -> SUBSET (Places \cup Calls)]
    BY <1>1, <1>3, HandleTypes DEF Attach, Places
  <2>. QED  BY <1>3, <2>1, <2>2 DEF Attach, Types, TypeOK, Places
<1>4. CASE CloneEntry(a)
  <2>1. phase' \in [Attachers -> Phases]
    BY <1>2, <1>4 DEF CloneEntry, Phases
  <2>2. refs' \in [Contexts -> Nat] /\ held' \in [Contexts -> SUBSET (Places \cup Calls)]
    BY <1>1, <1>4, HandleTypes DEF CloneEntry, Places
  <2>. QED  BY <1>4, <2>1, <2>2 DEF CloneEntry, Types, TypeOK, Places
<1>5. CASE BuildContext(a)
  <2>1. phase' \in [Attachers -> Phases]
    BY <1>2, <1>5 DEF BuildContext, Phases
  <2>. QED  BY <1>5, <2>1 DEF BuildContext, Types, TypeOK
<1>6. CASE BuildContextFails(a)
  <2>1. phase' \in [Attachers -> Phases]
    BY <1>2, <1>6 DEF BuildContextFails, Phases
  <2>2. <<Release(a, "connection"), Release(a, "entry")>> \in Seq(Releases)
    BY <1>1, ReleaseTypes DEF Places
  <2>3. todo' \in [Threads -> Seq(Releases)]
    BY <2>2, <1>1, <1>6, LaterTypes DEF BuildContextFails
  <2>. QED  BY <1>6, <2>1, <2>3 DEF BuildContextFails, Types, TypeOK
<1>7. CASE AttachFails(a)
  <2>1. phase' \in [Attachers -> Phases]
    BY <1>2, <1>7 DEF AttachFails, Phases
  <2>. QED  BY <1>7, <2>1 DEF AttachFails, Types, TypeOK
<1>8. CASE StopAccepting(a)
  <2>1. phase' \in [Attachers -> Phases]
    BY <1>2, <1>8 DEF StopAccepting, Phases
  <2>. QED  BY <1>8, <2>1 DEF StopAccepting, Types, TypeOK
<1>9. CASE TakeSlot(a)
  <2>1. phase' \in [Attachers -> Phases]
    BY <1>2, <1>9 DEF TakeSlot, Phases
  <2>. QED  BY <1>9, <2>1 DEF TakeSlot, Types, TypeOK
<1>. QED  BY <1>3, <1>4, <1>5, <1>6, <1>7, <1>8, <1>9

LEMMA DetachTypes ==
  ASSUME AttachmentsAssumption, Types, Slotted, NEW a \in Attachers,
         Idle(a) \/ HostDetach(a) \/ EndDetach(a)
  PROVE  Types'
<1>. USE DEF slotVars, callVars, runtimeVars, countVars
<1>1. a \in Contexts /\ a \in Threads
  BY DEF Contexts, Threads
<1>2. ASSUME NEW p, NEW q \in Phases, Turn(a, p, q)
      PROVE  phase' \in [Attachers -> Phases]
  BY <1>2 DEF Turn, Types, TypeOK
<1>3. CASE Idle(a)
  <2>1. phase' \in [Attachers -> Phases]
    BY <1>2, <1>3 DEF Idle, Phases
  <2>2. todo' \in [Threads -> Seq(Releases)]
    BY <1>1, <1>3, LaterTypes, ReleaseTypes DEF Idle, Places
  <2>3. runtime' \in [Calls -> {"none", "open", "closed"}]
    BY <1>3 DEF Idle, Types, TypeOK
  <2>. QED  BY <1>3, <2>1, <2>2, <2>3 DEF Idle, Types, TypeOK
<1>4. CASE HostDetach(a)
  <2> DEFINE o == taken[a]
             all == {o} \cup Of(o)
             begun == [Release(o, "slot") EXCEPT !.begun = TRUE]
  <2>1. phase' \in [Attachers -> Phases]
    BY <1>2, <1>4 DEF HostDetach, Phases
  <2>2. CASE Refuses(o)
    BY <1>4, <2>1, <2>2 DEF HostDetach, Types, TypeOK
  <2>3. CASE ~Refuses(o)
    <3>1. lock' = [lock EXCEPT ![o] = a] /\ Later(a, Dropped(all) \o <<begun>>)
      BY <1>4, <2>3 DEF HostDetach
    <3>2. refs' \in [Contexts -> Nat]
      <4>1. refs' = [x \in Contexts |-> IF x \in all THEN 0 ELSE refs[x]]
        BY <1>4, <2>3 DEF HostDetach
      <4>. HIDE DEF all
      <4>. QED  BY <4>1 DEF Types, TypeOK
    <3>3. held' = [held EXCEPT ![o] = @ \ {"slot"}]
      BY <1>4, <2>3 DEF HostDetach
    <3>4. held' \in [Contexts -> SUBSET (Places \cup Calls)]
      BY <3>3 DEF Types, TypeOK, Places
    <3>5. runtime' \in [Calls -> {"none", "open", "closed"}]
      BY <1>4, <2>3 DEF HostDetach, Types, TypeOK
    <3>6. hook' \in [Calls -> Calls \cup {Nobody}]
      BY <1>4, <2>3 DEF HostDetach, HooksGone, Types, TypeOK
    <3>7. lock' \in [Attachers -> Threads \cup {Nobody}]
      BY <3>1, <1>1 DEF Types, TypeOK
    <3>8. o \in Contexts => begun \in Releases
      BY DEF Release, Releases, Places
    <3>9. o \in Attachers
      BY <1>4 DEF HostDetach, Slotted
    <3>10. todo' \in [Threads -> Seq(Releases)]
      <4>1. <<begun>> \in Seq(Releases)
        BY <3>8, <3>9 DEF Contexts
      <4>2. Dropped(all) \in Seq(Releases)
        BY DroppedTypes DEF Types
      <4>3. Dropped(all) \o <<begun>> \in Seq(Releases)
        BY <4>1, <4>2
      <4>. QED  BY <3>1, <4>3, <1>1, LaterTypes
    <3>. QED
      BY <1>4, <2>1, <3>2, <3>4, <3>5, <3>6, <3>7, <3>10
         DEF HostDetach, Types, TypeOK, Places
  <2>. QED  BY <2>2, <2>3
<1>5. CASE EndDetach(a)
  <2>1. phase' \in [Attachers -> Phases]
    BY <1>5 DEF EndDetach, Phases, Types, TypeOK
  <2>2. slot' \in Attachers \cup {Nobody} /\ taken' \in [Attachers -> Attachers \cup {Nobody}]
    BY <1>5 DEF EndDetach, Types, TypeOK
  <2>3. todo' \in [Threads -> Seq(Releases)]
    <3>1. slot # Nobody => <<Release(slot, "slot")>> \in Seq(Releases)
      BY ReleaseTypes DEF Types, TypeOK, Contexts, Places
    <3>. QED  BY <1>1, <1>5, <3>1 DEF EndDetach, Types
  <2>. QED  BY <1>5, <2>1, <2>2, <2>3 DEF EndDetach, Types, TypeOK
<1>. QED  BY <1>3, <1>4, <1>5

LEMMA CallTypes ==
  ASSUME AttachmentsAssumption, Types, Entered, NEW c \in Calls,
         \/ \E a \in Attachers : Enter(c, a)
         \/ Leave(c) \/ CloneAttached(c) \/ BuildRefused(c) \/ install_host(c)
  PROVE  Types'
<1>. USE DEF slotVars, callVars, runtimeVars, countVars
<1>1. c \in Contexts /\ c \in Threads
  BY DEF Contexts, Threads
<1>2. ASSUME NEW p, NEW q \in {"idle", "run", "build", "install"}, Step(c, p, q)
      PROVE  pc' \in [Calls -> {"idle", "run", "build", "install"}]
  BY <1>2 DEF Step, Types, TypeOK
<1>3. CASE \E a \in Attachers : Enter(c, a)
  BY <1>2, <1>3 DEF Enter, Types, TypeOK
<1>4. CASE Leave(c)
  BY <1>2, <1>4 DEF Leave, Types, TypeOK
<1>5. CASE CloneAttached(c)
  <2>1. slot \in Contexts /\ c \in Places \cup Calls
    BY <1>5 DEF CloneAttached, Types, TypeOK, Contexts
  <2>2. refs' \in [Contexts -> Nat] /\ held' \in [Contexts -> SUBSET (Places \cup Calls)]
    BY <2>1, <1>5, HandleTypes DEF CloneAttached
  <2>3. temp' \in [Calls -> Attachers \cup {Nobody}]
    BY <1>5 DEF CloneAttached, Types, TypeOK
  <2>. QED  BY <1>2, <1>5, <2>2, <2>3 DEF CloneAttached, Types, TypeOK, Places
<1>6. CASE BuildRefused(c)
  <2>1. temp[c] \in Attachers => <<Release(temp[c], c)>> \in Seq(Releases)
    BY ReleaseTypes DEF Contexts
  <2>2. temp[c] \in Attachers
    BY <1>6 DEF BuildRefused, Step, Entered
  <2>3. todo' \in [Threads -> Seq(Releases)]
    BY <1>1, <1>6, <2>1, <2>2, LaterTypes DEF BuildRefused, TempDropped
  <2>. QED  BY <1>2, <1>6, <2>3 DEF BuildRefused, TempDropped, Types, TypeOK
<1>7. CASE install_host(c)
  <2>1. refs' \in [Contexts -> Nat] /\ held' \in [Contexts -> SUBSET (Places \cup Calls)]
    BY <1>1, <1>7, HandleTypes DEF install_host, Places
  <2>. QED  BY <1>2, <1>7, <2>1 DEF install_host, Types, TypeOK, Places
<1>. QED  BY <1>3, <1>4, <1>5, <1>6, <1>7

LEMMA RuntimeTypes ==
  ASSUME AttachmentsAssumption, Types, Entered, NEW c \in Calls,
         BuildRuntime(c) \/ BuildGuestFails(c) \/ DropRuntime(c)
  PROVE  Types'
<1>. USE DEF slotVars, callVars, runtimeVars, countVars
<1>1. c \in Contexts /\ c \in Threads
  BY DEF Contexts, Threads
<1>2. ASSUME NEW p, NEW q \in {"idle", "run", "build", "install"}, Step(c, p, q)
      PROVE  pc' \in [Calls -> {"idle", "run", "build", "install"}]
  BY <1>2 DEF Step, Types, TypeOK
<1>3. \A xs : Dropped(xs) \in Seq(Releases)
  BY DroppedTypes DEF Types
<1>4. <<Release(c, "runtime")>> \in Seq(Releases) /\ <<Release(c, "connection")>> \in Seq(Releases)
  BY <1>1, ReleaseTypes DEF Places
<1>5. CASE BuildRuntime(c)
  <2>1. temp[c] \in Attachers
    BY <1>5 DEF BuildRuntime, Step, Entered
  <2>2. <<Release(temp[c], c)>> \in Seq(Releases)
    BY <2>1, ReleaseTypes DEF Contexts
  <2>3. todo' \in [Threads -> Seq(Releases)]
    BY <1>1, <1>5, <2>2, LaterTypes DEF BuildRuntime, TempDropped
  <2>4. refs' \in [Contexts -> Nat] /\ held' \in [Contexts -> SUBSET (Places \cup Calls)]
    BY <1>1, <1>5, HandleTypes DEF BuildRuntime, Places
  <2>5. hook' \in [Calls -> Calls \cup {Nobody}]
    BY <1>5 DEF BuildRuntime, Keepable, Types, TypeOK
  <2>6. /\ temp' \in [Calls -> Attachers \cup {Nobody}] /\ home' \in [Calls -> Attachers \cup {Nobody}]
        /\ built' \in [Calls -> BOOLEAN] /\ runtime' \in [Calls -> {"none", "open", "closed"}]
    BY <1>5, <2>1 DEF BuildRuntime, TempDropped, Types, TypeOK
  <2>. QED  BY <1>2, <1>5, <2>3, <2>4, <2>5, <2>6 DEF BuildRuntime, Types, TypeOK, Places
<1>6. CASE BuildGuestFails(c)
  <2>1. Later(c, <<>> \o <<Release(c, "runtime")>> \o Dropped({c}))
    BY <1>6 DEF BuildGuestFails, DropHost
  <2>2. <<>> \o <<Release(c, "runtime")>> \o Dropped({c}) \in Seq(Releases)
    BY <1>3, <1>4
  <2>3. todo' \in [Threads -> Seq(Releases)]
    BY <1>1, <2>1, <2>2, LaterTypes
  <2>4. built' \in [Calls -> BOOLEAN] /\ runtime' \in [Calls -> {"none", "open", "closed"}]
    BY <1>6 DEF BuildGuestFails, DropHost, Types, TypeOK
  <2>5. hook' \in [Calls -> Calls \cup {Nobody}]
    BY <1>6 DEF BuildGuestFails, HooksGone, Types, TypeOK
  <2>. QED  BY <1>2, <1>6, <2>3, <2>4, <2>5 DEF BuildGuestFails, Types, TypeOK
<1>7. CASE DropRuntime(c)
  <2> DEFINE first == IF c \in Captured(Calls) THEN <<>> ELSE <<Release(c, "connection")>>
  <2>1. Later(c, first \o <<Release(c, "runtime")>> \o <<>>)
    BY <1>7 DEF DropRuntime, DropHost
  <2>2. first \in Seq(Releases)
    BY <1>4
  <2>3. first \o <<Release(c, "runtime")>> \o <<>> \in Seq(Releases)
    <3>. HIDE DEF first
    <3>. QED  BY <1>4, <2>2
  <2>4. todo' \in [Threads -> Seq(Releases)]
    BY <1>1, <2>1, <2>3, LaterTypes
  <2>5. built' \in [Calls -> BOOLEAN] /\ runtime' \in [Calls -> {"none", "open", "closed"}]
    BY <1>7 DEF DropRuntime, DropHost, Types, TypeOK
  <2>. QED  BY <1>2, <1>7, <2>4, <2>5 DEF DropRuntime, Types, TypeOK
<1>. QED  BY <1>5, <1>6, <1>7

LEMMA ReleasingTypes ==
  ASSUME Types, NEW t \in Threads, release_handle(t) \/ Unlock(t)
  PROVE  Types'
<1>. USE DEF slotVars, callVars, runtimeVars, countVars
<1>1. todo[t] \in Seq(Releases) /\ todo[t] # <<>>
  BY DEF Types, release_handle, Unlock
<1>2. Head(todo[t]) \in Releases /\ Tail(todo[t]) \in Seq(Releases)
  BY <1>1
<1>3. CASE release_handle(t)
  <2> DEFINE r == Head(todo[t])
             gone == IF refs[r.of] = 1 THEN {r.of} ELSE {}
             begun == [r EXCEPT !.begun = TRUE]
  <2>1. /\ refs[r.of] > 0 /\ refs' = [refs EXCEPT ![r.of] = @ - 1]
        /\ held' = [held EXCEPT ![r.of] = @ \ {r.holder}]
        /\ lock' = [lock EXCEPT ![OwnerOf(r.of)] = t]
        /\ todo' = [todo EXCEPT ![t] = Dropped(gone) \o <<begun>> \o Tail(todo[t])]
        /\ HooksGone(gone)
    BY <1>3 DEF release_handle
  <2>2. r.of \in Contexts /\ begun \in Releases
    BY <1>2 DEF Releases
  <2>3. Dropped(gone) \in Seq(Releases)
    BY DroppedTypes DEF Types
  <2>. HIDE DEF r, gone, begun
  <2>4. Dropped(gone) \o <<begun>> \o Tail(todo[t]) \in Seq(Releases)
    BY <1>2, <2>2, <2>3
  <2>5. todo' \in [Threads -> Seq(Releases)]
    BY <2>1, <2>4 DEF Types
  <2>6. refs' \in [Contexts -> Nat]
    BY <2>1, <2>2 DEF Types, TypeOK
  <2>7. held' \in [Contexts -> SUBSET (Places \cup Calls)]
    <3> DEFINE K == Places \cup Calls
    <3>1. held \in [Contexts -> SUBSET K]
      BY DEF Types, TypeOK, Places
    <3>2. held[r.of] \ {r.holder} \in SUBSET K
      BY <3>1, <2>2
    <3>. HIDE DEF K
    <3>3. held' \in [Contexts -> SUBSET K]
      BY <2>1, <3>1, <3>2
    <3>. QED  BY <3>3 DEF K
  <2>8. lock' \in [Attachers -> Threads \cup {Nobody}]
    BY <2>1 DEF Types, TypeOK
  <2>9. hook' \in [Calls -> Calls \cup {Nobody}]
    BY <2>1 DEF HooksGone, Types, TypeOK
  <2>. QED
    BY <1>3, <2>5, <2>6, <2>7, <2>8, <2>9 DEF release_handle, Types, TypeOK, Places
<1>4. CASE Unlock(t)
  <2>1. todo' \in [Threads -> Seq(Releases)]
    BY <1>2, <1>4 DEF Unlock, Types
  <2>2. lock' \in [Attachers -> Threads \cup {Nobody}]
    BY <1>4 DEF Unlock, Types, TypeOK
  <2>. QED  BY <1>4, <2>1, <2>2 DEF Unlock, Types, TypeOK
<1>. QED  BY <1>3, <1>4

-----------------------------------------------------------------------------
(* The stages of attachments, of calls and of runtimes.                     *)

LEMMA TurnPhase ==
  ASSUME Types, NEW a \in Attachers, NEW p, NEW q, Turn(a, p, q)
  PROVE  /\ phase[a] = p /\ todo[a] = <<>> /\ phase'[a] = q
         /\ \A b \in Attachers \ {a} : phase'[b] = phase[b]
BY DEF Turn, Types, TypeOK

LEMMA StepPc ==
  ASSUME Types, NEW c \in Calls, NEW p, NEW q, Step(c, p, q)
  PROVE  /\ pc[c] = p /\ todo[c] = <<>> /\ pc'[c] = q
         /\ \A d \in Calls \ {c} : pc'[d] = pc[d]
BY DEF Step, Types, TypeOK

(* An attachment's own step leaves the releases of calls.                   *)
LEMMA LaterOthers ==
  ASSUME Types, NEW t \in Threads, NEW rs, Later(t, rs)
  PROVE  \A u \in Threads \ {t} : todo'[u] = todo[u]
BY DEF Later, Types

(* The turns that an attachment takes outside of its detach in the host.     *)
AttachTurns ==
  {<<"out", "entry">>, <<"entry", "cloned">>, <<"cloned", "built">>, <<"cloned", "failed">>,
   <<"built", "attached">>, <<"built", "failed">>, <<"failed", "out">>,
   <<"attached", "stopping">>, <<"dropping", "host">>}

LEMMA AttachTurn ==
  ASSUME Types, NEW a \in Attachers,
         \/ Attach(a) \/ CloneEntry(a) \/ BuildContext(a) \/ BuildContextFails(a)
         \/ install_handle(a) \/ AttachFails(a) \/ StopAccepting(a) \/ TakeSlot(a)
  PROVE  <<phase[a], phase'[a]>> \in AttachTurns
<1>. USE DEF AttachTurns
<1>1. ASSUME NEW x, NEW y, Turn(a, x, y) PROVE <<phase[a], phase'[a]>> = <<x, y>>
  BY <1>1, TurnPhase
<1>2. CASE install_handle(a)
  <2>1. PICK y \in {"attached", "failed"} : Turn(a, "built", y)
    BY <1>2 DEF install_handle
  <2>. QED  BY <2>1, <1>1
<1>3. CASE ~install_handle(a)
  <2>1. \/ Turn(a, "out", "entry") \/ Turn(a, "entry", "cloned") \/ Turn(a, "cloned", "built")
        \/ Turn(a, "cloned", "failed") \/ Turn(a, "failed", "out")
        \/ Turn(a, "attached", "stopping") \/ Turn(a, "dropping", "host")
    BY <1>3 DEF Attach, CloneEntry, BuildContext, BuildContextFails, AttachFails,
                StopAccepting, TakeSlot
  <2>. QED  BY <2>1, <1>1
<1>. QED  BY <1>2, <1>3

LEMMA AttachStages ==
  ASSUME AttachmentsAssumption, Types, Stages, NEW a \in Attachers,
         \/ Attach(a) \/ CloneEntry(a) \/ BuildContext(a) \/ BuildContextFails(a)
         \/ install_handle(a) \/ AttachFails(a) \/ StopAccepting(a) \/ TakeSlot(a)
  PROVE  Stages'
<1>. USE DEF slotVars, callVars, runtimeVars, countVars
<1>0. PICK p, q : Turn(a, p, q)
  BY DEF Attach, CloneEntry, BuildContext, BuildContextFails, install_handle, AttachFails,
         StopAccepting, TakeSlot
<1>1. /\ phase[a] = p /\ phase'[a] = q /\ \A b \in Attachers \ {a} : phase'[b] = phase[b]
  BY <1>0, TurnPhase
<1>2. \A c \in Calls : todo'[c] = todo[c]
  <2>1. \A c \in Calls : c \in Threads \ {a}
    BY DEF AttachmentsAssumption, Threads
  <2>2. (\E rs : Later(a, rs)) \/ todo' = todo
    BY DEF Attach, CloneEntry, BuildContext, BuildContextFails, install_handle, AttachFails,
           StopAccepting, TakeSlot
  <2>. QED  BY <2>1, <2>2, LaterOthers DEF Threads
<1>3. UNCHANGED <<pc, inside, temp, home, built, runtime>>
  BY DEF Attach, CloneEntry, BuildContext, BuildContextFails, install_handle, AttachFails,
         StopAccepting, TakeSlot
<1>4. <<phase[a], phase'[a]>> \in AttachTurns
  BY AttachTurn
<1>5. Slotted'
  <2>1. CASE Attach(a) \/ StopAccepting(a) \/ AttachFails(a)
    BY <2>1, <1>1, TurnPhase
       DEF Attach, StopAccepting, AttachFails, Stages, Slotted, Installed, Types, TypeOK
  <2>2. CASE CloneEntry(a) \/ BuildContext(a) \/ BuildContextFails(a)
    BY <2>2, <1>1, TurnPhase
       DEF CloneEntry, BuildContext, BuildContextFails, Stages, Slotted, Installed
  <2>3. CASE install_handle(a)
    BY <2>3, <1>1, TurnPhase DEF install_handle, Stages, Slotted, Installed, AttachmentsAssumption
  <2>4. CASE TakeSlot(a)
    <3>1. slot = a
      BY <2>4, <1>1, TurnPhase DEF TakeSlot, Stages, Slotted, Installed
    <3>2. slot' = Nobody /\ taken' = [taken EXCEPT ![a] = a] /\ accepting' = accepting
      BY <2>4, <3>1 DEF TakeSlot
    <3>3. phase[a] = "dropping" /\ phase'[a] = "host"
      BY <2>4, TurnPhase DEF TakeSlot
    <3>. QED
      BY <1>1, <3>1, <3>2, <3>3
         DEF Stages, Slotted, Installed, AttachmentsAssumption, Types, TypeOK
  <2>. QED  BY <2>1, <2>2, <2>3, <2>4
<1>6. Entered'
  BY <1>1, <1>2, <1>3, <1>4 DEF Stages, Entered, AttachTurns
<1>7. Owned'
  BY <1>1, <1>3, <1>4 DEF Stages, Owned, Installed, Cleared, AttachTurns
<1>. QED  BY <1>5, <1>6, <1>7 DEF Stages

(* A detach that has come to the host is not refused.                       *)
LEMMA NotRefused ==
  ASSUME AttachmentsAssumption, Types, Stages, NEW a \in Attachers, phase[a] = "host"
  PROVE  taken[a] = a /\ ~Refuses(a)
<1>1. taken[a] = a /\ ~accepting[a]
  BY DEF Stages, Slotted
<1>2. ~Busy(a)
  BY DEF Stages, Entered, Busy, AttachmentsAssumption
<1>3. \A c \in Of(a) : runtime[c] # "open"
  BY DEF Stages, Owned, Of
<1>. QED  BY <1>1, <1>2, <1>3 DEF Refuses

LEMMA DetachStages ==
  ASSUME AttachmentsAssumption, Types, Stages, NEW a \in Attachers,
         Idle(a) \/ HostDetach(a) \/ EndDetach(a)
  PROVE  Stages'
<1>. USE DEF slotVars, callVars, runtimeVars, countVars
<1>1. UNCHANGED <<pc, inside, temp, home, built, accepting>>
  BY DEF Idle, HostDetach, EndDetach
<1>2. \A c \in Calls : todo'[c] = todo[c]
  <2>1. \A c \in Calls : c \in Threads \ {a}
    BY DEF AttachmentsAssumption, Threads
  <2>2. \/ \E rs : Later(a, rs)
        \/ todo' = todo
        \/ \E rs : todo' = [todo EXCEPT ![a] = rs]
    BY DEF Idle, HostDetach, EndDetach
  <2>3. CASE \E rs : Later(a, rs)
    BY <2>1, <2>3, LaterOthers DEF Threads
  <2>4. CASE \E rs : todo' = [todo EXCEPT ![a] = rs]
    BY <2>1, <2>4 DEF Types
  <2>. QED  BY <2>2, <2>3, <2>4
<1>3. CASE Idle(a)
  <2>1. /\ phase[a] = "stopping" /\ phase'[a] = "dropping"
        /\ \A b \in Attachers \ {a} : phase'[b] = phase[b]
    BY <1>3, TurnPhase DEF Idle
  <2>2. Slotted'
    BY <1>1, <1>3, <2>1 DEF Idle, Stages, Slotted, Installed
  <2>3. \A c \in Calls : inside[c] # a
    BY <1>3 DEF Idle, Busy
  <2>4. Entered'
    BY <1>1, <1>2, <2>1, <2>3 DEF Stages, Entered
  <2>5. \A c \in Calls : runtime'[c] = IF home[c] = a /\ runtime[c] = "open" THEN "closed" ELSE runtime[c]
    BY <1>3 DEF Idle, Of
  <2>6. Owned'
    BY <1>1, <2>1, <2>5 DEF Stages, Owned, Installed, Cleared
  <2>. QED  BY <2>2, <2>4, <2>6 DEF Stages
<1>4. CASE HostDetach(a)
  <2>1. taken[a] = a /\ ~Refuses(a)
    BY <1>4, NotRefused DEF HostDetach
  <2>2. Turn(a, "host", "returned") /\ UNCHANGED <<slot, taken>>
    BY <1>4, <2>1 DEF HostDetach
  <2>3. /\ phase[a] = "host" /\ phase'[a] = "returned"
        /\ \A b \in Attachers \ {a} : phase'[b] = phase[b]
    BY <2>2, TurnPhase
  <2>4. Slotted'
    BY <1>1, <2>2, <2>3 DEF Stages, Slotted, Installed
  <2>5. Entered'
    BY <1>1, <1>2, <2>3 DEF Stages, Entered
  <2>6. \A c \in Calls : runtime'[c] = IF home[c] = a THEN "none" ELSE runtime[c]
    BY <1>4, <2>1 DEF HostDetach, Of, AttachmentsAssumption
  <2>7. Owned'
    BY <1>1, <2>3, <2>6 DEF Stages, Owned, Installed, Cleared
  <2>. QED  BY <2>4, <2>5, <2>7 DEF Stages
<1>5. CASE EndDetach(a)
  <2>1. phase[a] = "returned"
    BY <1>5 DEF EndDetach, Stages, Slotted
  <2>2. /\ phase' = [phase EXCEPT ![a] = "done"] /\ slot' = slot
        /\ taken' = [taken EXCEPT ![a] = Nobody] /\ UNCHANGED runtime
    BY <1>5, <2>1 DEF EndDetach
  <2>3. phase'[a] = "done" /\ \A b \in Attachers \ {a} : phase'[b] = phase[b] /\ taken'[b] = taken[b]
    BY <2>2 DEF Types, TypeOK
  <2>4. Slotted'
    BY <1>1, <2>1, <2>2, <2>3 DEF Stages, Slotted, Installed
  <2>5. Entered'
    BY <1>1, <1>2, <2>1, <2>3 DEF Stages, Entered
  <2>6. Owned'
    BY <1>1, <2>1, <2>2, <2>3 DEF Stages, Owned, Installed, Cleared
  <2>. QED  BY <2>4, <2>5, <2>6 DEF Stages
<1>. QED  BY <1>3, <1>4, <1>5

LEMMA CallStages ==
  ASSUME AttachmentsAssumption, Types, Stages, NEW c \in Calls,
         \/ \E a \in Attachers : Enter(c, a)
         \/ Leave(c) \/ CloneAttached(c) \/ BuildRuntime(c) \/ BuildRefused(c)
         \/ install_host(c) \/ BuildGuestFails(c) \/ DropRuntime(c)
  PROVE  Stages'
<1>. USE DEF slotVars, callVars, runtimeVars, countVars
<1>1. UNCHANGED <<slot, taken, phase, accepting>>
  BY DEF Enter, Leave, CloneAttached, BuildRuntime, BuildRefused, install_host,
         BuildGuestFails, DropRuntime
<1>2. Slotted'
  BY <1>1 DEF Stages, Slotted
<1>3. \A d \in Calls \ {c} : todo'[d] = todo[d]
  <2>1. \A d \in Calls : d \in Threads
    BY DEF Threads
  <2>2. (\E rs : Later(c, rs)) \/ todo' = todo
    BY DEF Enter, Leave, CloneAttached, BuildRuntime, BuildRefused, TempDropped, install_host,
           BuildGuestFails, DropRuntime, DropHost
  <2>. QED  BY <2>1, <2>2, LaterOthers
<1>4. CASE \E a \in Attachers : Enter(c, a)
  <2>1. PICK a \in Attachers : Enter(c, a)
    BY <1>4
  <2>2. /\ pc[c] = "idle" /\ pc'[c] = "run" /\ \A d \in Calls \ {c} : pc'[d] = pc[d]
        /\ inside' = [inside EXCEPT ![c] = a]
    BY <2>1, StepPc DEF Enter
  <2>3. Entered'
    BY <1>1, <1>3, <2>1, <2>2 DEF Enter, Stages, Entered, Types, TypeOK, AttachmentsAssumption
  <2>4. Owned'
    BY <1>1, <2>1 DEF Enter, Stages, Owned, Cleared
  <2>. QED  BY <1>2, <2>3, <2>4 DEF Stages
<1>5. CASE Leave(c)
  <2>1. /\ pc[c] = "run" /\ pc'[c] = "idle" /\ \A d \in Calls \ {c} : pc'[d] = pc[d]
        /\ inside' = [inside EXCEPT ![c] = Nobody] /\ todo[c] = <<>>
    BY <1>5, StepPc DEF Leave
  <2>2. Entered'
    BY <1>1, <1>3, <1>5, <2>1 DEF Leave, Stages, Entered, Types, TypeOK
  <2>3. Owned'
    BY <1>1, <1>5 DEF Leave, Stages, Owned, Cleared
  <2>. QED  BY <1>2, <2>2, <2>3 DEF Stages
<1>6. CASE CloneAttached(c)
  <2>1. /\ pc[c] = "run" /\ pc'[c] = "build" /\ \A d \in Calls \ {c} : pc'[d] = pc[d]
        /\ temp' = [temp EXCEPT ![c] = slot] /\ slot # Nobody
    BY <1>6, StepPc DEF CloneAttached
  <2>2. inside[c] = slot
    BY <2>1 DEF Stages, Slotted, Entered, Installed
  <2>3. Entered'
    BY <1>1, <1>3, <1>6, <2>1, <2>2 DEF CloneAttached, Stages, Entered, Types, TypeOK
  <2>4. Owned'
    BY <1>1, <1>6 DEF CloneAttached, Stages, Owned, Cleared
  <2>. QED  BY <1>2, <2>3, <2>4 DEF Stages
<1>7. CASE BuildRuntime(c)
  <2>1. /\ pc[c] = "build" /\ pc'[c] = "install" /\ \A d \in Calls \ {c} : pc'[d] = pc[d]
        /\ temp' = [temp EXCEPT ![c] = Nobody] /\ inside' = inside
    BY <1>7, StepPc DEF BuildRuntime, TempDropped
  <2>2. temp[c] \in Attachers /\ phase[temp[c]] \in {"attached", "stopping"}
    BY <2>1 DEF Stages, Entered
  <2>3. Entered'
    BY <1>1, <1>3, <2>1 DEF Stages, Entered, Types, TypeOK
  <2>4. /\ home' = [home EXCEPT ![c] = temp[c]] /\ built' = [built EXCEPT ![c] = TRUE]
        /\ runtime' = [runtime EXCEPT ![c] = "open"]
    BY <1>7 DEF BuildRuntime
  <2>5. Owned'
    BY <1>1, <2>2, <2>4 DEF Stages, Owned, Cleared, Types, TypeOK, AttachmentsAssumption, Installed
  <2>. QED  BY <1>2, <2>3, <2>5 DEF Stages
<1>8. CASE BuildRefused(c)
  <2>1. /\ pc[c] = "build" /\ pc'[c] = "run" /\ \A d \in Calls \ {c} : pc'[d] = pc[d]
        /\ temp' = [temp EXCEPT ![c] = Nobody] /\ inside' = inside
    BY <1>8, StepPc DEF BuildRefused, TempDropped
  <2>2. Entered'
    BY <1>1, <1>3, <2>1 DEF Stages, Entered, Types, TypeOK
  <2>3. Owned'
    BY <1>1, <1>8 DEF BuildRefused, Stages, Owned, Cleared
  <2>. QED  BY <1>2, <2>2, <2>3 DEF Stages
<1>9. CASE install_host(c)
  <2>1. pc[c] = "install" /\ pc'[c] = "run" /\ \A d \in Calls \ {c} : pc'[d] = pc[d]
    BY <1>9, StepPc DEF install_host
  <2>2. Entered'
    BY <1>1, <1>3, <1>9, <2>1 DEF install_host, Stages, Entered
  <2>3. Owned'
    BY <1>1, <1>9 DEF install_host, Stages, Owned, Cleared
  <2>. QED  BY <1>2, <2>2, <2>3 DEF Stages
<1>10. CASE BuildGuestFails(c) \/ DropRuntime(c)
  <2>1. /\ pc[c] \in {"install", "run"} /\ pc'[c] = "run" /\ \A d \in Calls \ {c} : pc'[d] = pc[d]
        /\ UNCHANGED <<inside, temp, home>>
    BY <1>10, StepPc DEF BuildGuestFails, DropRuntime
  <2>2. /\ built' = [built EXCEPT ![c] = FALSE] /\ runtime' = [runtime EXCEPT ![c] = "none"]
    BY <1>10 DEF BuildGuestFails, DropRuntime, DropHost
  <2>3. Entered'
    BY <1>1, <1>3, <2>1 DEF Stages, Entered
  <2>4. Owned'
    BY <1>1, <2>1, <2>2 DEF Stages, Owned, Cleared, Types, TypeOK
  <2>. QED  BY <1>2, <2>3, <2>4 DEF Stages
<1>. QED  BY <1>4, <1>5, <1>6, <1>7, <1>8, <1>9, <1>10

LEMMA ReleasingStages ==
  ASSUME AttachmentsAssumption, Types, Stages, NEW t \in Threads, release_handle(t) \/ Unlock(t)
  PROVE  Stages'
<1>. USE DEF slotVars, callVars, runtimeVars, countVars
<1>1. UNCHANGED <<slot, taken, phase, accepting, pc, inside, temp, home, built, runtime>>
  BY DEF release_handle, Unlock
<1>2. \A u \in Threads : todo[u] = <<>> => todo'[u] = <<>>
  <2>1. todo[t] # <<>> /\ \E s : todo' = [todo EXCEPT ![t] = s]
    BY DEF release_handle, Unlock
  <2>. QED  BY <2>1 DEF Types
<1>3. Slotted'
  BY <1>1 DEF Stages, Slotted
<1>4. Entered'
  BY <1>1, <1>2 DEF Stages, Entered, Threads
<1>5. Owned'
  BY <1>1 DEF Stages, Owned, Cleared
<1>. QED  BY <1>3, <1>4, <1>5 DEF Stages

-----------------------------------------------------------------------------
(* Which releases a thread has before it, each once; the ones it is in the   *)
(* middle of do not count.                                                  *)
Among(s, r) == \E i \in DOMAIN s : s[i] = r
Waits(t, x, h) == Among(todo[t], Release(x, h))
Distinct(s) == \A i, j \in DOMAIN s : ~s[i].begun /\ s[i] = s[j] => i = j

LEMMA AmongConcat ==
  ASSUME NEW s \in Seq(Releases), NEW u \in Seq(Releases), NEW r
  PROVE  Among(s \o u, r) <=> Among(s, r) \/ Among(u, r)
<1>1. PICK m \in Nat, n \in Nat : /\ Len(s) = m /\ Len(u) = n
                                  /\ DOMAIN s = 1 .. m /\ DOMAIN u = 1 .. n
                                  /\ DOMAIN (s \o u) = 1 .. m + n
                                  /\ \A i \in 1 .. m + n : (s \o u)[i] = IF i <= m THEN s[i] ELSE u[i - m]
  OBVIOUS
<1>2. ASSUME Among(s, r) PROVE Among(s \o u, r)
  BY <1>1, <1>2 DEF Among
<1>3. ASSUME Among(u, r) PROVE Among(s \o u, r)
  <2>1. PICK i \in 1 .. n : u[i] = r
    BY <1>1, <1>3 DEF Among
  <2>2. i + m \in 1 .. m + n /\ (s \o u)[i + m] = r
    BY <1>1, <2>1
  <2>. QED  BY <1>1, <2>2 DEF Among
<1>4. ASSUME Among(s \o u, r) PROVE Among(s, r) \/ Among(u, r)
  <2>1. PICK i \in 1 .. m + n : (s \o u)[i] = r
    BY <1>1, <1>4 DEF Among
  <2>2. CASE i <= m
    BY <1>1, <2>1, <2>2 DEF Among
  <2>3. CASE ~(i <= m)
    <3>1. i - m \in 1 .. n /\ u[i - m] = r
      BY <1>1, <2>1, <2>3
    <3>. QED  BY <1>1, <3>1 DEF Among
  <2>. QED  BY <2>2, <2>3
<1>. QED  BY <1>2, <1>3, <1>4

LEMMA AmongOne == \A e, r : (Among(<<e>>, r) <=> e = r) /\ ~Among(<<>>, r)
BY DEF Among

LEMMA ReleaseIsItsPair ==
  \A x, h, y, g : Release(x, h) = Release(y, g) <=> x = y /\ h = g
<1> TAKE x, h, y, g
<1>1. Release(x, h).of = x /\ Release(x, h).holder = h
  BY DEF Release
<1>2. Release(y, g).of = y /\ Release(y, g).holder = g
  BY DEF Release
<1>. QED  BY <1>1, <1>2

LEMMA DistinctConcat ==
  ASSUME NEW s \in Seq(Releases), NEW u \in Seq(Releases), Distinct(s), Distinct(u),
         \A r \in Releases : ~r.begun => ~(Among(s, r) /\ Among(u, r))
  PROVE  Distinct(s \o u)
<1>1. PICK m \in Nat, n \in Nat : /\ Len(s) = m /\ Len(u) = n
                                  /\ DOMAIN s = 1 .. m /\ DOMAIN u = 1 .. n
                                  /\ DOMAIN (s \o u) = 1 .. m + n
                                  /\ \A i \in 1 .. m + n : (s \o u)[i] = IF i <= m THEN s[i] ELSE u[i - m]
  OBVIOUS
<1>2. /\ \A i \in 1 .. m : s[i] \in Releases
      /\ \A i \in 1 .. n : u[i] \in Releases
  BY <1>1
<1>3. \A i \in 1 .. m, j \in 1 .. n : ~s[i].begun => s[i] # u[j]
  BY <1>1, <1>2 DEF Among
<1>4. SUFFICES ASSUME NEW i \in 1 .. m + n, NEW j \in 1 .. m + n,
                      ~(s \o u)[i].begun, (s \o u)[i] = (s \o u)[j]
               PROVE  i = j
  BY <1>1 DEF Distinct
<1> DEFINE w == s \o u
<1>5. /\ w[i] = IF i <= m THEN s[i] ELSE u[i - m]
      /\ w[j] = IF j <= m THEN s[j] ELSE u[j - m]
      /\ ~w[i].begun /\ w[i] = w[j]
  BY <1>1, <1>4
<1>. HIDE DEF w
<1>6. CASE i <= m /\ j <= m
  <2>1. i \in 1 .. m /\ j \in 1 .. m
    BY <1>6
  <2>2. ~s[i].begun /\ s[i] = s[j]
    BY <1>5, <1>6
  <2>. QED  BY <1>1, <2>1, <2>2 DEF Distinct
<1>7. CASE i <= m /\ ~(j <= m)
  <2>1. i \in 1 .. m /\ j - m \in 1 .. n
    BY <1>7
  <2>. QED  BY <1>3, <1>5, <1>7, <2>1
<1>8. CASE ~(i <= m) /\ j <= m
  <2>1. j \in 1 .. m /\ i - m \in 1 .. n
    BY <1>8
  <2>. QED  BY <1>3, <1>5, <1>8, <2>1
<1>9. CASE ~(i <= m) /\ ~(j <= m)
  <2>1. i - m \in 1 .. n /\ j - m \in 1 .. n
    BY <1>9
  <2>2. i - m = j - m
    BY <1>1, <1>5, <1>9, <2>1 DEF Distinct
  <2>. QED  BY <2>2
<1>. QED  BY <1>6, <1>7, <1>8, <1>9

LEMMA DistinctOne == Distinct(<<>>) /\ \A e : Distinct(<<e>>)
BY DEF Distinct

(* What is left behind the first release.                                   *)
LEMMA FirstAndRest ==
  ASSUME NEW s \in Seq(Releases), s # <<>>
  PROVE  \E n \in Nat : /\ Len(s) = n + 1 /\ DOMAIN s = 1 .. n + 1 /\ Head(s) = s[1]
                        /\ Tail(s) \in Seq(Releases) /\ Len(Tail(s)) = n /\ DOMAIN Tail(s) = 1 .. n
                        /\ \A i \in 1 .. n : Tail(s)[i] = s[i + 1]
<1>1. Len(s) \in Nat /\ Len(s) # 0
  OBVIOUS
<1>2. PICK n \in Nat : Len(s) = n + 1
  <2>1. Len(s) - 1 \in Nat
    BY <1>1
  <2>. QED  BY <1>1, <2>1
<1>. QED  BY <1>2

LEMMA Behind ==
  ASSUME NEW s \in Seq(Releases), s # <<>>
  PROVE  /\ \A r : Among(s, r) <=> r = Head(s) \/ Among(Tail(s), r)
         /\ Distinct(s) => Distinct(Tail(s)) /\ (~Head(s).begun => ~Among(Tail(s), Head(s)))
<1>1. PICK n \in Nat : /\ Len(s) = n + 1 /\ DOMAIN s = 1 .. n + 1
                       /\ DOMAIN Tail(s) = 1 .. n /\ Head(s) = s[1]
                       /\ \A i \in 1 .. n : Tail(s)[i] = s[i + 1]
  BY FirstAndRest
<1>2. ASSUME NEW r, Among(s, r) PROVE r = Head(s) \/ Among(Tail(s), r)
  <2>1. PICK i \in 1 .. n + 1 : s[i] = r
    BY <1>1, <1>2 DEF Among
  <2>2. CASE i = 1
    BY <1>1, <2>1, <2>2
  <2>3. CASE i # 1
    <3>1. i - 1 \in 1 .. n /\ Tail(s)[i - 1] = r
      BY <1>1, <2>1, <2>3
    <3>. QED  BY <1>1, <3>1 DEF Among
  <2>. QED  BY <2>2, <2>3
<1>3. ASSUME NEW r, r = Head(s) \/ Among(Tail(s), r) PROVE Among(s, r)
  <2>1. CASE r = Head(s)
    <3>1. 1 \in 1 .. n + 1
      OBVIOUS
    <3>. QED  BY <1>1, <2>1, <3>1 DEF Among
  <2>2. CASE Among(Tail(s), r)
    <3>1. PICK i \in 1 .. n : s[i + 1] = r
      BY <1>1, <2>2 DEF Among
    <3>2. i + 1 \in 1 .. n + 1
      OBVIOUS
    <3>. QED  BY <1>1, <3>1, <3>2 DEF Among
  <2>. QED  BY <1>3, <2>1, <2>2
<1>4. ASSUME Distinct(s) PROVE Distinct(Tail(s))
  <2>1. ASSUME NEW i \in 1 .. n, NEW j \in 1 .. n, ~s[i + 1].begun, s[i + 1] = s[j + 1]
        PROVE  i = j
    <3>1. i + 1 \in 1 .. n + 1 /\ j + 1 \in 1 .. n + 1
      OBVIOUS
    <3>2. i + 1 = j + 1
      BY <1>1, <1>4, <2>1, <3>1 DEF Distinct
    <3>. QED  BY <3>2
  <2>. QED  BY <1>1, <2>1 DEF Distinct
<1>5. ASSUME Distinct(s), ~Head(s).begun, Among(Tail(s), Head(s)) PROVE FALSE
  <2>1. PICK i \in 1 .. n : s[i + 1] = s[1]
    BY <1>1, <1>5 DEF Among
  <2>2. 1 \in 1 .. n + 1 /\ i + 1 \in 1 .. n + 1
    OBVIOUS
  <2>3. i + 1 = 1
    BY <1>1, <1>5, <2>1, <2>2 DEF Distinct
  <2>. QED  BY <2>3
<1>. QED  BY <1>2, <1>3, <1>4, <1>5

-----------------------------------------------------------------------------
(* Who has what: a Handle that is to be released is held until then, by      *)
(* nobody else, and for a reason that stays until it is released.            *)
OfAttachment(t, a, h) ==
  \/ t = a /\ phase[a] = "failed" /\ h \in {"entry", "connection"}
  \/ t = a /\ phase[a] = "dropping" /\ h = "connection"
  \/ t \in Calls /\ h = t /\ inside[t] = a /\ temp[t] = Nobody
OfRuntime(t, c, h) ==
  /\ ~built[c]
  /\ \/ t = c /\ h = "runtime"
     \/ h = "connection" /\ \A d \in Calls : hook[d] # c
Meant(t, x, h) ==
  /\ h \in held[x]
  /\ x \in Attachers => OfAttachment(t, x, h)
  /\ x \in Calls => OfRuntime(t, x, h)

Fits ==
  \A t \in Threads, x \in Contexts, h \in Places \cup Calls : Waits(t, x, h) => Meant(t, x, h)
Apart ==
  \A t, u \in Threads, x \in Contexts, h \in Places \cup Calls :
    Waits(t, x, h) /\ Waits(u, x, h) => t = u
Once == \A t \in Threads : Distinct(todo[t])

HeldByAttachment(a) ==
  /\ phase[a] \in {"out", "returned", "done"} => held[a] = {}
  /\ phase[a] = "entry" => held[a] = {"entry"}
  /\ phase[a] \in {"cloned", "built"} => held[a] = {"entry", "connection"}
  /\ phase[a] = "failed" =>
       held[a] \subseteq {"entry", "connection"} /\ \A h \in held[a] : Waits(a, a, h)
  /\ phase[a] \in {"attached", "stopping"} =>
       /\ "slot" \in held[a] /\ "connection" \in held[a]
       /\ \A h \in held[a] \ {"slot", "connection"} :
            h \in Calls /\ (temp[h] = a \/ Waits(h, a, h))
  /\ phase[a] = "dropping" =>
       "slot" \in held[a] /\ \A h \in held[a] \ {"slot"} : h = "connection" /\ Waits(a, a, h)
  /\ phase[a] = "host" => held[a] = {"slot"}

HeldByRuntime(c) ==
  /\ temp[c] # Nobody => c \in held[temp[c]]
  /\ held[c] \subseteq {"runtime", "connection"}
  /\ built[c] => "runtime" \in held[c]
  /\ pc[c] = "install" => built[c] /\ held[c] = {"runtime"}
  /\ pc[c] # "install" /\ built[c] => "connection" \in held[c]
  /\ pc[c] = "build" => held[c] = {} /\ ~built[c]
  /\ hook[c] # Nobody => hook[c] # c /\ "connection" \in held[hook[c]]

HeldByAttachments == \A a \in Attachers : HeldByAttachment(a)
HeldByRuntimes == \A c \in Calls : HeldByRuntime(c)
Handles == Fits /\ Apart /\ Once /\ HeldByAttachments /\ HeldByRuntimes

-----------------------------------------------------------------------------
(* What an action does to the releases before its threads.                  *)

LEMMA WaitsSame ==
  ASSUME NEW t, todo'[t] = todo[t], NEW x, NEW h
  PROVE  Waits(t, x, h)' <=> Waits(t, x, h)
BY DEF Waits, Among

LEMMA WaitsNone ==
  ASSUME NEW t, todo[t] = <<>>, NEW x, NEW h
  PROVE  ~Waits(t, x, h)
BY AmongOne DEF Waits

(* A thread that had nothing to release has what the action gives it.        *)
LEMMA WaitsNew ==
  ASSUME Types, NEW t \in Threads, NEW rs \in Seq(Releases), todo[t] = <<>>, Later(t, rs)
  PROVE  /\ \A x, h : Waits(t, x, h)' <=> Among(rs, Release(x, h))
         /\ \A u \in Threads \ {t} : \A x, h : Waits(u, x, h)' <=> Waits(u, x, h)
         /\ Once /\ Distinct(rs) => Once'
<1>1. todo' = [todo EXCEPT ![t] = rs]
  BY LaterTypes
<1>2. todo'[t] = rs /\ \A u \in Threads \ {t} : todo'[u] = todo[u]
  BY <1>1 DEF Types
<1>3. \A u \in Threads \ {t} : \A x, h : Waits(u, x, h)' <=> Waits(u, x, h)
  BY <1>2 DEF Waits
<1>4. Once /\ Distinct(rs) => Once'
  BY <1>2 DEF Once, Distinct
<1>. QED  BY <1>2, <1>3, <1>4 DEF Waits

(* A release stays meant while its thread does nothing else, and nobody      *)
(* builds that runtime or hooks it.                                         *)
LEMMA StillMeant ==
  ASSUME NEW t \in Threads, NEW x \in Contexts, NEW h, Meant(t, x, h),
         h \in held'[x],
         t \in Attachers => phase'[t] = phase[t],
         t \in Calls => inside'[t] = inside[t] /\ temp'[t] = temp[t],
         x \in Calls => (built'[x] => built[x]),
         x \in Calls => \A c \in Calls : hook'[c] = x => hook[c] = x \/ built[x]
  PROVE  Meant(t, x, h)'
<1>1. ASSUME x \in Attachers PROVE OfAttachment(t, x, h)'
  BY <1>1 DEF Meant, OfAttachment
<1>2. ASSUME x \in Calls PROVE OfRuntime(t, x, h)'
  BY <1>2 DEF Meant, OfRuntime
<1>. QED  BY <1>1, <1>2 DEF Meant
(* Where no release is new, and the thread that goes on had none.            *)
LEMMA SameReleases ==
  ASSUME Handles, NEW s \in Threads, todo[s] = <<>>, UNCHANGED <<todo, built, hook>>,
         \A t \in Threads \ {s} : /\ t \in Attachers => phase'[t] = phase[t]
                                  /\ t \in Calls => inside'[t] = inside[t] /\ temp'[t] = temp[t],
         \A t \in Threads, x \in Contexts, h \in Places \cup Calls :
           Waits(t, x, h) => h \in held'[x]
  PROVE  /\ Fits' /\ Apart' /\ Once'
         /\ \A t, x, h : Waits(t, x, h)' <=> Waits(t, x, h)
<1>. USE DEF Handles
<1>1. \A t, x, h : Waits(t, x, h)' <=> Waits(t, x, h)
  BY DEF Waits
<1>2. \A x, h : ~Waits(s, x, h)
  BY WaitsNone
<1>3. Fits'
  <2>1. SUFFICES ASSUME NEW t \in Threads, NEW x \in Contexts, NEW h \in Places \cup Calls,
                        Waits(t, x, h)
                 PROVE  Meant(t, x, h)'
    BY <1>1 DEF Fits
  <2>2. Meant(t, x, h) /\ t # s
    BY <2>1, <1>2 DEF Fits
  <2>. QED  BY <2>1, <2>2, StillMeant
<1>4. Apart' /\ Once'
  BY <1>1 DEF Apart, Once, Distinct
<1>. QED  BY <1>1, <1>3, <1>4

-----------------------------------------------------------------------------
(* Steps that leave the Handles alone.                                      *)

LEMMA PhaseHandles ==
  ASSUME AttachmentsAssumption, Types, Stages, Handles, NEW a \in Attachers,
         BuildContext(a) \/ AttachFails(a) \/ StopAccepting(a) \/ TakeSlot(a)
  PROVE  Handles'
<1>. USE DEF slotVars, callVars, runtimeVars, countVars, Handles
<1>1. UNCHANGED <<held, built, hook, todo, temp, pc, inside>>
  BY DEF BuildContext, AttachFails, StopAccepting, TakeSlot
<1>2. \A t, x, h : Waits(t, x, h)' <=> Waits(t, x, h)
  BY <1>1 DEF Waits
<1>3. /\ todo[a] = <<>> /\ \A b \in Attachers \ {a} : phase'[b] = phase[b]
      /\ <<phase[a], phase'[a]>> \in {<<"cloned", "built">>, <<"failed", "out">>,
                                      <<"attached", "stopping">>, <<"dropping", "host">>}
  <2>1. \/ Turn(a, "cloned", "built") \/ Turn(a, "failed", "out")
        \/ Turn(a, "attached", "stopping") \/ Turn(a, "dropping", "host")
    BY DEF BuildContext, AttachFails, StopAccepting, TakeSlot
  <2>. QED  BY <2>1, TurnPhase
<1>4. \A x, h : ~Waits(a, x, h)
  BY <1>3, WaitsNone
<1>5. \A t \in Threads, x \in Contexts, h \in Places \cup Calls : Waits(t, x, h) => h \in held'[x]
  BY <1>1 DEF Fits, Meant
<1>6. Fits' /\ Apart' /\ Once'
  BY <1>1, <1>3, <1>5, SameReleases DEF Threads
<1>7. HeldByAttachments'
  <2>1. SUFFICES ASSUME NEW b \in Attachers
                 PROVE  HeldByAttachment(b)'
    BY DEF HeldByAttachments
  <2>2. CASE b # a
    BY <1>1, <1>2, <1>3, <2>2 DEF HeldByAttachments, HeldByAttachment
  <2>3. CASE b = a
    BY <1>1, <1>2, <1>3, <1>4, <2>3 DEF HeldByAttachments, HeldByAttachment
  <2>. QED  BY <2>2, <2>3
<1>8. HeldByRuntimes'
  BY <1>1 DEF HeldByRuntimes, HeldByRuntime
<1>. QED  BY <1>6, <1>7, <1>8

LEMMA InsideHandles ==
  ASSUME AttachmentsAssumption, Types, Stages, Handles, NEW c \in Calls,
         (\E a \in Attachers : Enter(c, a)) \/ Leave(c)
  PROVE  Handles'
<1>. USE DEF slotVars, callVars, runtimeVars, countVars, Handles
<1>1. UNCHANGED <<held, built, hook, todo, temp, phase>>
  BY DEF Enter, Leave
<1>2. \A t, x, h : Waits(t, x, h)' <=> Waits(t, x, h)
  BY <1>1 DEF Waits
<1>3. /\ todo[c] = <<>> /\ \A d \in Calls \ {c} : pc'[d] = pc[d]
      /\ pc[c] \in {"idle", "run"} /\ pc'[c] \in {"idle", "run"}
  <2>1. Step(c, "idle", "run") \/ Step(c, "run", "idle")
    BY DEF Enter, Leave
  <2>. QED  BY <2>1, StepPc
<1>5. \A d \in Calls \ {c} : inside'[d] = inside[d]
  BY DEF Enter, Leave, Types, TypeOK
<1>6. \A t \in Threads, x \in Contexts, h \in Places \cup Calls : Waits(t, x, h) => h \in held'[x]
  BY <1>1 DEF Fits, Meant
<1>7. Fits' /\ Apart' /\ Once'
  BY <1>1, <1>3, <1>5, <1>6, SameReleases DEF Threads
<1>8. HeldByAttachments'
  BY <1>1, <1>2 DEF HeldByAttachments, HeldByAttachment
<1>9. HeldByRuntimes'
  BY <1>1, <1>3 DEF HeldByRuntimes, HeldByRuntime
<1>. QED  BY <1>7, <1>8, <1>9

-----------------------------------------------------------------------------
(* Steps that take a Handle: nobody has anything new to release.            *)

LEMMA AttachHandles ==
  ASSUME AttachmentsAssumption, Types, Stages, Handles, NEW a \in Attachers,
         Attach(a) \/ CloneEntry(a) \/ (install_handle(a) /\ slot = Nobody)
  PROVE  Handles'
<1>. USE DEF slotVars, callVars, runtimeVars, countVars, Handles
<1>1. UNCHANGED <<built, hook, todo, temp, pc, inside>>
  BY DEF Attach, CloneEntry, install_handle
<1>2. \A t, x, h : Waits(t, x, h)' <=> Waits(t, x, h)
  BY <1>1 DEF Waits
<1>3. a \in Threads \ Calls /\ a \in Contexts
  BY DEF Threads, Contexts, AttachmentsAssumption
<1>4. /\ todo[a] = <<>> /\ \A b \in Attachers \ {a} : phase'[b] = phase[b]
      /\ \/ phase[a] = "out" /\ phase'[a] = "entry" /\ held' = [held EXCEPT ![a] = {"entry"}]
         \/ /\ phase[a] = "entry" /\ phase'[a] = "cloned"
            /\ held' = [held EXCEPT ![a] = held[a] \cup {"connection"}]
         \/ /\ phase[a] = "built" /\ phase'[a] = "attached"
            /\ held' = [held EXCEPT ![a] = (held[a] \ {"entry"}) \cup {"slot"}]
  <2>1. CASE Attach(a)
    BY <2>1, TurnPhase DEF Attach, export_handle
  <2>2. CASE CloneEntry(a)
    BY <2>2, TurnPhase DEF CloneEntry, retain_handle
  <2>3. CASE install_handle(a) /\ slot = Nobody
    BY <2>3, TurnPhase DEF install_handle
  <2>. QED  BY <2>1, <2>2, <2>3
<1>5. \/ phase'[a] = "entry" /\ held[a] = {} /\ held'[a] = {"entry"}
      \/ phase'[a] = "cloned" /\ held[a] = {"entry"} /\ held'[a] = {"entry", "connection"}
      \/ /\ phase'[a] = "attached" /\ held[a] = {"entry", "connection"}
         /\ held'[a] = {"connection", "slot"}
  BY <1>3, <1>4 DEF HeldByAttachments, HeldByAttachment, Types, TypeOK
<1>6. \A x \in Contexts \ {a} : held'[x] = held[x]
  BY <1>3, <1>4 DEF Types, TypeOK
<1>7. \A t, h : t \in Threads /\ h \in Places \cup Calls => ~Waits(t, a, h)
  BY <1>3, <1>4, WaitsNone DEF Fits, Meant, OfAttachment, Stages, Entered, AttachmentsAssumption
<1>8. Fits' /\ Apart' /\ Once'
  <2>1. \A t \in Threads, x \in Contexts, h \in Places \cup Calls :
          Waits(t, x, h) => h \in held'[x]
    BY <1>6, <1>7 DEF Fits, Meant
  <2>. QED  BY <1>1, <1>3, <1>4, <2>1, SameReleases
<1>9. HeldByAttachments'
  <2>1. SUFFICES ASSUME NEW b \in Attachers PROVE HeldByAttachment(b)'
    BY DEF HeldByAttachments
  <2>2. CASE b # a
    <3>1. held'[b] = held[b] /\ phase'[b] = phase[b]
      BY <1>4, <1>6, <2>2 DEF Contexts
    <3>. QED  BY <1>1, <1>2, <3>1 DEF HeldByAttachments, HeldByAttachment
  <2>3. CASE b = a
    BY <1>5, <2>3 DEF HeldByAttachment
  <2>. QED  BY <2>2, <2>3
<1>10. HeldByRuntimes'
  <2>1. SUFFICES ASSUME NEW c \in Calls PROVE HeldByRuntime(c)'
    BY DEF HeldByRuntimes
  <2>2. held'[c] = held[c]
    BY <1>6, <1>3 DEF Contexts
  <2>3. temp[c] # a
    BY <1>4 DEF Stages, Entered
  <2>4. temp[c] # Nobody => held'[temp[c]] = held[temp[c]]
    BY <1>6, <2>3 DEF Types, TypeOK, Contexts
  <2>5. hook[c] # Nobody => held'[hook[c]] = held[hook[c]]
    BY <1>3, <1>6 DEF Types, TypeOK, Contexts
  <2>. QED  BY <1>1, <2>2, <2>4, <2>5 DEF HeldByRuntimes, HeldByRuntime
<1>. QED  BY <1>8, <1>9, <1>10

LEMMA CloneHandles ==
  ASSUME AttachmentsAssumption, Types, Stages, Handles, NEW c \in Calls, CloneAttached(c)
  PROVE  Handles'
<1>. USE DEF slotVars, callVars, runtimeVars, countVars, Handles
<1>1. UNCHANGED <<built, hook, todo, phase, inside>>
  BY DEF CloneAttached
<1>2. \A t, x, h : Waits(t, x, h)' <=> Waits(t, x, h)
  BY <1>1 DEF Waits
<1>3. /\ pc[c] = "run" /\ todo[c] = <<>> /\ pc'[c] = "build" /\ \A d \in Calls \ {c} : pc'[d] = pc[d]
      /\ held[c] = {} /\ slot \in Attachers
      /\ temp' = [temp EXCEPT ![c] = slot] /\ held' = [held EXCEPT ![slot] = held[slot] \cup {c}]
  BY StepPc DEF CloneAttached, retain_handle, Types, TypeOK
<1>4. phase[slot] \in {"attached", "stopping"}
  BY <1>3 DEF Stages, Slotted, Entered, Installed
<1>5. c \in Threads /\ slot \notin Calls
  BY <1>3 DEF Threads, AttachmentsAssumption
<1>6. /\ held'[slot] = held[slot] \cup {c}
      /\ \A x \in Contexts \ {slot} : held'[x] = held[x]
  BY <1>3 DEF Types, TypeOK, Contexts
<1>7. temp'[c] = slot /\ \A d \in Calls \ {c} : temp'[d] = temp[d]
  BY <1>3 DEF Types, TypeOK
<1>8. Fits' /\ Apart' /\ Once'
  <2>1. \A t \in Threads, x \in Contexts, h \in Places \cup Calls :
          Waits(t, x, h) => h \in held'[x]
    BY <1>6 DEF Fits, Meant
  <2>. QED  BY <1>1, <1>3, <1>5, <1>7, <2>1, SameReleases
<1>9. HeldByAttachments'
  <2>1. SUFFICES ASSUME NEW b \in Attachers PROVE HeldByAttachment(b)'
    BY DEF HeldByAttachments
  <2>2. temp[c] = Nobody /\ slot # Nobody
    BY <1>3 DEF Stages, Entered, AttachmentsAssumption
  <2>3. CASE b # slot
    <3>1. held'[b] = held[b]
      BY <1>6, <2>3 DEF Contexts
    <3>2. \A h \in Calls : temp[h] = b => temp'[h] = b
      BY <1>7, <2>2 DEF AttachmentsAssumption
    <3>. QED  BY <1>1, <1>2, <3>1, <3>2 DEF HeldByAttachments, HeldByAttachment
  <2>4. CASE b = slot
    <3>1. \A h \in Calls : temp[h] = b => temp'[h] = b
      BY <1>7, <2>4
    <3>. QED  BY <1>1, <1>2, <1>4, <1>6, <1>7, <2>4, <3>1 DEF HeldByAttachments, HeldByAttachment
  <2>. QED  BY <2>3, <2>4
<1>10. HeldByRuntimes'
  <2>1. SUFFICES ASSUME NEW d \in Calls PROVE HeldByRuntime(d)'
    BY DEF HeldByRuntimes
  <2>2. held'[d] = held[d]
    BY <1>5, <1>6 DEF Contexts
  <2>3. hook[d] # Nobody => held'[hook[d]] = held[hook[d]]
    BY <1>5, <1>6 DEF Types, TypeOK, Contexts
  <2>4. temp'[d] # Nobody => d \in held'[temp'[d]]
    <3>1. CASE d = c
      BY <1>6, <1>7, <3>1
    <3>2. CASE d # c
      <4>1. temp'[d] = temp[d] /\ (temp[d] # Nobody => d \in held[temp[d]])
        BY <1>7, <3>2 DEF HeldByRuntimes, HeldByRuntime
      <4>2. \A x \in Contexts : held[x] \subseteq held'[x]
        BY <1>6
      <4>3. temp[d] # Nobody => temp[d] \in Contexts
        BY DEF Types, TypeOK, Contexts
      <4>. QED  BY <4>1, <4>2, <4>3
    <3>. QED  BY <3>1, <3>2
  <2>5. pc'[d] = "build" => held'[d] = {} /\ ~built'[d]
    BY <1>1, <1>3, <2>2 DEF HeldByRuntimes, HeldByRuntime
  <2>6. pc'[d] = pc[d] \/ (pc[d] = "run" /\ pc'[d] = "build")
    BY <1>3
  <2>. QED  BY <1>1, <2>2, <2>3, <2>4, <2>5, <2>6 DEF HeldByRuntimes, HeldByRuntime
<1>. QED  BY <1>8, <1>9, <1>10

LEMMA InstallHandles ==
  ASSUME AttachmentsAssumption, Types, Stages, Handles, NEW c \in Calls, install_host(c)
  PROVE  Handles'
<1>. USE DEF slotVars, callVars, runtimeVars, countVars, Handles
<1>1. UNCHANGED <<built, hook, todo, phase, inside, temp>>
  BY DEF install_host
<1>2. \A t, x, h : Waits(t, x, h)' <=> Waits(t, x, h)
  BY <1>1 DEF Waits
<1>3. /\ pc[c] = "install" /\ todo[c] = <<>> /\ pc'[c] = "run" /\ \A d \in Calls \ {c} : pc'[d] = pc[d]
      /\ held' = [held EXCEPT ![c] = held[c] \cup {"connection"}]
  BY StepPc DEF install_host, retain_handle
<1>4. c \in Threads /\ c \notin Attachers /\ c \in Contexts
  BY DEF Threads, Contexts, AttachmentsAssumption
<1>5. /\ held'[c] = held[c] \cup {"connection"}
      /\ \A x \in Contexts \ {c} : held'[x] = held[x]
  BY <1>3, <1>4 DEF Types, TypeOK
<1>6. Fits' /\ Apart' /\ Once'
  <2>1. \A t \in Threads, x \in Contexts, h \in Places \cup Calls :
          Waits(t, x, h) => h \in held'[x]
    BY <1>5 DEF Fits, Meant
  <2>. QED  BY <1>1, <1>3, <1>4, <2>1, SameReleases
<1>7. HeldByAttachments'
  <2>1. \A b \in Attachers : held'[b] = held[b]
    BY <1>4, <1>5 DEF Contexts
  <2>. QED  BY <1>1, <1>2, <2>1 DEF HeldByAttachments, HeldByAttachment
<1>8. HeldByRuntimes'
  <2>1. SUFFICES ASSUME NEW d \in Calls PROVE HeldByRuntime(d)'
    BY DEF HeldByRuntimes
  <2>2. temp[d] # Nobody => held'[temp[d]] = held[temp[d]]
    BY <1>4, <1>5 DEF Types, TypeOK, Contexts
  <2>3. hook[d] # Nobody => held[hook[d]] \subseteq held'[hook[d]]
    <3>1. \A x \in Contexts : held[x] \subseteq held'[x]
      BY <1>5
    <3>2. hook[d] # Nobody => hook[d] \in Contexts
      BY DEF Types, TypeOK, Contexts
    <3>. QED  BY <3>1, <3>2
  <2>4. CASE d # c
    BY <1>1, <1>3, <1>5, <2>2, <2>3, <2>4 DEF HeldByRuntimes, HeldByRuntime, Contexts
  <2>5. CASE d = c
    BY <1>1, <1>3, <1>5, <2>2, <2>3, <2>5 DEF HeldByRuntimes, HeldByRuntime
  <2>. QED  BY <2>4, <2>5
<1>. QED  BY <1>6, <1>7, <1>8

-----------------------------------------------------------------------------
(* Steps after which a thread has Handles to release.                       *)

LEMMA NewReleases ==
  ASSUME Types, Handles, NEW s \in Threads, NEW rs \in Seq(Releases), todo[s] = <<>>,
         Later(s, rs), Distinct(rs),
         \A t \in Threads \ {s} : /\ t \in Attachers => phase'[t] = phase[t]
                                  /\ t \in Calls => inside'[t] = inside[t] /\ temp'[t] = temp[t],
         \A t \in Threads \ {s}, x \in Contexts, h \in Places \cup Calls :
           Waits(t, x, h) =>
             /\ h \in held'[x] /\ ~Among(rs, Release(x, h))
             /\ x \in Calls => (built'[x] => built[x]),
         \A c, d \in Calls : hook'[c] = d => hook[c] = d \/ built[d],
         \A x \in Contexts, h \in Places \cup Calls :
           Among(rs, Release(x, h)) => Meant(s, x, h)'
  PROVE  /\ Fits' /\ Apart' /\ Once'
         /\ \A t, x, h : t \in Threads /\ Waits(t, x, h) => Waits(t, x, h)'
         /\ \A x, h : Among(rs, Release(x, h)) => Waits(s, x, h)'
<1>. USE DEF Handles
<1>1. /\ \A x, h : Waits(s, x, h)' <=> Among(rs, Release(x, h))
      /\ \A t \in Threads \ {s} : \A x, h : Waits(t, x, h)' <=> Waits(t, x, h)
      /\ Once'
  BY WaitsNew
<1>2. \A x, h : ~Waits(s, x, h)
  BY WaitsNone
<1>3. Fits'
  <2>1. SUFFICES ASSUME NEW t \in Threads, NEW x \in Contexts, NEW h \in Places \cup Calls,
                        Waits(t, x, h)'
                 PROVE  Meant(t, x, h)'
    BY DEF Fits
  <2>2. CASE t = s
    BY <1>1, <2>1, <2>2
  <2>3. CASE t # s
    <3>1. Waits(t, x, h)
      BY <1>1, <2>1, <2>3
    <3>2. Meant(t, x, h)
      BY <3>1 DEF Fits
    <3>. QED  BY <2>3, <3>1, <3>2, StillMeant
  <2>. QED  BY <2>2, <2>3
<1>4. Apart'
  <2>1. SUFFICES ASSUME NEW t \in Threads, NEW u \in Threads,
                        NEW x \in Contexts, NEW h \in Places \cup Calls,
                        Waits(t, x, h)', Waits(u, x, h)'
                 PROVE  t = u
    BY DEF Apart
  <2>. QED  BY <1>1, <2>1 DEF Apart
<1>. QED  BY <1>1, <1>2, <1>3, <1>4

LEMMA AmongTwo ==
  ASSUME NEW e \in Releases, NEW f \in Releases
  PROVE  /\ <<e, f>> \in Seq(Releases)
         /\ \A r : Among(<<e, f>>, r) <=> r = e \/ r = f
         /\ e # f => Distinct(<<e, f>>)
BY DEF Among, Distinct

LEMMA FailsHandles ==
  ASSUME AttachmentsAssumption, Types, Stages, Handles, NEW a \in Attachers,
         BuildContextFails(a) \/ (install_handle(a) /\ slot # Nobody)
  PROVE  Handles'
<1>. USE DEF slotVars, callVars, runtimeVars, countVars, Handles
<1>1. UNCHANGED <<held, built, hook, temp, pc, inside>>
  BY DEF BuildContextFails, install_handle
<1>2. a \in Threads \ Calls /\ a \in Contexts \ Calls
  BY DEF Threads, Contexts, AttachmentsAssumption
<1> DEFINE e == Release(a, "entry")
           f == Release(a, "connection")
<1>3. PICK rs : Later(a, rs) /\ rs \in {<<f, e>>, <<e, f>>}
  BY DEF BuildContextFails, install_handle
<1>4. /\ rs \in Seq(Releases) /\ Distinct(rs)
      /\ \A r : Among(rs, r) <=> r = e \/ r = f
  <2>1. e \in Releases /\ f \in Releases /\ e # f
    BY <1>2, ReleaseTypes, ReleaseIsItsPair DEF Places
  <2>. HIDE DEF e, f
  <2>2. CASE rs = <<e, f>>
    BY <2>1, <2>2, AmongTwo
  <2>3. CASE rs = <<f, e>>
    BY <2>1, <2>3, AmongTwo
  <2>. QED  BY <1>3, <2>2, <2>3
<1>5. \A x, h : Among(rs, Release(x, h)) <=> x = a /\ h \in {"entry", "connection"}
  BY <1>4, ReleaseIsItsPair
<1>6. /\ todo[a] = <<>> /\ \A b \in Attachers \ {a} : phase'[b] = phase[b]
      /\ phase[a] \in {"cloned", "built"} /\ phase'[a] = "failed"
      /\ held[a] = {"entry", "connection"}
  BY TurnPhase DEF BuildContextFails, install_handle, HeldByAttachments, HeldByAttachment
<1>7. \A t, h : t \in Threads /\ h \in Places \cup Calls => ~Waits(t, a, h)
  BY <1>2, <1>6, WaitsNone DEF Fits, Meant, OfAttachment, Stages, Entered, AttachmentsAssumption
<1>8. \A h \in {"entry", "connection"} : Meant(a, a, h)'
  BY <1>1, <1>2, <1>6 DEF Meant, OfAttachment
<1>9. /\ Fits' /\ Apart' /\ Once'
      /\ \A t, x, h : t \in Threads /\ Waits(t, x, h) => Waits(t, x, h)'
      /\ \A h \in {"entry", "connection"} : Waits(a, a, h)'
  <2>1. \A t \in Threads \ {a}, x \in Contexts, h \in Places \cup Calls :
          Waits(t, x, h) => /\ h \in held'[x] /\ ~Among(rs, Release(x, h))
                            /\ x \in Calls => (built'[x] => built[x])
    BY <1>1, <1>5, <1>7 DEF Fits, Meant
  <2>2. \A x \in Contexts, h \in Places \cup Calls :
          Among(rs, Release(x, h)) => Meant(a, x, h)'
    BY <1>5, <1>8
  <2>3. \A t \in Threads \ {a} : /\ t \in Attachers => phase'[t] = phase[t]
                                 /\ t \in Calls => inside'[t] = inside[t] /\ temp'[t] = temp[t]
    BY <1>1, <1>6
  <2>4. \A c, d \in Calls : hook'[c] = d => hook[c] = d \/ built[d]
    BY <1>1
  <2>. HIDE DEF Handles
  <2>. QED  BY <1>2, <1>3, <1>4, <1>5, <1>6, <2>1, <2>2, <2>3, <2>4, NewReleases
<1>10. HeldByAttachments'
  <2>1. SUFFICES ASSUME NEW b \in Attachers PROVE HeldByAttachment(b)'
    BY DEF HeldByAttachments
  <2>2. CASE b # a
    BY <1>1, <1>6, <1>9, <2>2 DEF HeldByAttachments, HeldByAttachment, Threads
  <2>3. CASE b = a
    BY <1>1, <1>6, <1>9, <2>3 DEF HeldByAttachment
  <2>. QED  BY <2>2, <2>3
<1>11. HeldByRuntimes'
  BY <1>1 DEF HeldByRuntimes, HeldByRuntime
<1>. QED  BY <1>9, <1>10, <1>11

LEMMA IdleHandles ==
  ASSUME AttachmentsAssumption, Types, Stages, Handles, NEW a \in Attachers, Idle(a)
  PROVE  Handles'
<1>. USE DEF slotVars, callVars, runtimeVars, countVars, Handles
<1>1. UNCHANGED <<held, built, hook, temp, pc, inside>>
  BY DEF Idle
<1>2. a \in Threads \ Calls /\ a \in Contexts \ Calls
  BY DEF Threads, Contexts, AttachmentsAssumption
<1> DEFINE rs == <<Release(a, "connection")>>
<1>3. rs \in Seq(Releases) /\ Distinct(rs) /\ Later(a, rs)
  BY <1>2, ReleaseTypes, DistinctOne DEF Idle, Places
<1>4. \A x, h : Among(rs, Release(x, h)) <=> x = a /\ h = "connection"
  BY AmongOne, ReleaseIsItsPair
<1>5. /\ todo[a] = <<>> /\ \A b \in Attachers \ {a} : phase'[b] = phase[b]
      /\ phase[a] = "stopping" /\ phase'[a] = "dropping"
      /\ \A c \in Calls : inside[c] # a
  BY TurnPhase DEF Idle, Busy
<1>6. \A t, h : t \in Threads /\ h \in Places \cup Calls => ~Waits(t, a, h)
  BY <1>2, <1>5, WaitsNone DEF Fits, Meant, OfAttachment
<1>7. held[a] = {"slot", "connection"}
  <2>1. \A h \in held[a] \ {"slot", "connection"} : h \in Calls /\ (temp[h] = a \/ Waits(h, a, h))
    BY <1>5 DEF HeldByAttachments, HeldByAttachment
  <2>2. \A h \in Calls : temp[h] # a
    BY <1>5 DEF Stages, Entered, AttachmentsAssumption
  <2>3. \A h \in Calls : ~Waits(h, a, h)
    BY <1>6 DEF Threads
  <2>4. "slot" \in held[a] /\ "connection" \in held[a]
    BY <1>5 DEF HeldByAttachments, HeldByAttachment
  <2>. QED  BY <2>1, <2>2, <2>3, <2>4
<1>8. Meant(a, a, "connection")'
  BY <1>1, <1>2, <1>5, <1>7 DEF Meant, OfAttachment
<1>9. /\ Fits' /\ Apart' /\ Once'
      /\ \A t, x, h : t \in Threads /\ Waits(t, x, h) => Waits(t, x, h)'
      /\ Waits(a, a, "connection")'
  <2>1. \A t \in Threads \ {a}, x \in Contexts, h \in Places \cup Calls :
          Waits(t, x, h) => /\ h \in held'[x] /\ ~Among(rs, Release(x, h))
                            /\ x \in Calls => (built'[x] => built[x])
    BY <1>1, <1>4, <1>6 DEF Fits, Meant
  <2>2. \A x \in Contexts, h \in Places \cup Calls :
          Among(rs, Release(x, h)) => Meant(a, x, h)'
    BY <1>4, <1>8
  <2>3. \A t \in Threads \ {a} : /\ t \in Attachers => phase'[t] = phase[t]
                                 /\ t \in Calls => inside'[t] = inside[t] /\ temp'[t] = temp[t]
    BY <1>1, <1>5
  <2>4. \A c, d \in Calls : hook'[c] = d => hook[c] = d \/ built[d]
    BY <1>1
  <2>. HIDE DEF Handles, rs
  <2>. QED  BY <1>2, <1>3, <1>4, <1>5, <2>1, <2>2, <2>3, <2>4, NewReleases
<1>10. HeldByAttachments'
  <2>1. SUFFICES ASSUME NEW b \in Attachers PROVE HeldByAttachment(b)'
    BY DEF HeldByAttachments
  <2>2. CASE b # a
    BY <1>1, <1>5, <1>9, <2>2 DEF HeldByAttachments, HeldByAttachment, Threads
  <2>3. CASE b = a
    BY <1>1, <1>5, <1>7, <1>9, <2>3 DEF HeldByAttachment
  <2>. QED  BY <2>2, <2>3
<1>11. HeldByRuntimes'
  BY <1>1 DEF HeldByRuntimes, HeldByRuntime
<1>. QED  BY <1>9, <1>10, <1>11

LEMMA RefusedHandles ==
  ASSUME AttachmentsAssumption, Types, Stages, Handles, NEW c \in Calls, BuildRefused(c)
  PROVE  Handles'
<1>. USE DEF slotVars, callVars, runtimeVars, countVars, Handles
<1>1. UNCHANGED <<held, built, hook, phase, inside>>
  BY DEF BuildRefused
<1>2. c \in Threads \ Attachers /\ c \in Contexts
  BY DEF Threads, Contexts, AttachmentsAssumption
<1>3. PICK a \in Attachers : temp[c] = a
  BY StepPc DEF BuildRefused, Stages, Entered
<1> DEFINE rs == <<Release(a, c)>>
<1>4. rs \in Seq(Releases) /\ Distinct(rs) /\ Later(c, rs)
  BY <1>3, ReleaseTypes, DistinctOne DEF BuildRefused, TempDropped, Contexts
<1>5. \A x, h : Among(rs, Release(x, h)) <=> x = a /\ h = c
  BY AmongOne, ReleaseIsItsPair
<1>6. /\ todo[c] = <<>> /\ pc[c] = "build" /\ pc'[c] = "run"
      /\ \A d \in Calls \ {c} : pc'[d] = pc[d]
      /\ inside[c] = a /\ c \in held[a] /\ held[c] = {} /\ ~built[c]
  BY <1>3, StepPc DEF BuildRefused, Stages, Entered, HeldByRuntimes, HeldByRuntime, AttachmentsAssumption
<1>7. temp'[c] = Nobody /\ \A d \in Calls \ {c} : temp'[d] = temp[d]
  BY DEF BuildRefused, TempDropped, Types, TypeOK
<1>8. \A t \in Threads : ~Waits(t, a, c)
  BY <1>2, <1>6, WaitsNone DEF Fits, Meant, OfAttachment, Contexts, AttachmentsAssumption
<1>9. Meant(c, a, c)'
  BY <1>1, <1>6, <1>7 DEF Meant, OfAttachment, AttachmentsAssumption
<1>10. /\ Fits' /\ Apart' /\ Once'
       /\ \A t, x, h : t \in Threads /\ Waits(t, x, h) => Waits(t, x, h)'
       /\ Waits(c, a, c)'
  <2>1. \A t \in Threads \ {c}, x \in Contexts, h \in Places \cup Calls :
          Waits(t, x, h) => /\ h \in held'[x] /\ ~Among(rs, Release(x, h))
                            /\ x \in Calls => (built'[x] => built[x])
    BY <1>1, <1>5, <1>8 DEF Fits, Meant
  <2>2. \A x \in Contexts, h \in Places \cup Calls :
          Among(rs, Release(x, h)) => Meant(c, x, h)'
    BY <1>5, <1>9
  <2>3. \A t \in Threads \ {c} : /\ t \in Attachers => phase'[t] = phase[t]
                                 /\ t \in Calls => inside'[t] = inside[t] /\ temp'[t] = temp[t]
    BY <1>1, <1>7
  <2>4. \A d, e \in Calls : hook'[d] = e => hook[d] = e \/ built[e]
    BY <1>1
  <2>. HIDE DEF Handles, rs
  <2>. QED  BY <1>2, <1>4, <1>5, <1>6, <2>1, <2>2, <2>3, <2>4, NewReleases
<1>11. HeldByAttachments'
  <2>1. SUFFICES ASSUME NEW b \in Attachers PROVE HeldByAttachment(b)'
    BY DEF HeldByAttachments
  <2>2. \A h \in Calls : temp[h] = b \/ Waits(h, b, h) => temp'[h] = b \/ Waits(h, b, h)'
    BY <1>3, <1>7, <1>10 DEF Threads
  <2>. QED  BY <1>1, <1>10, <2>2 DEF HeldByAttachments, HeldByAttachment, Threads
<1>12. HeldByRuntimes'
  <2>1. SUFFICES ASSUME NEW d \in Calls PROVE HeldByRuntime(d)'
    BY DEF HeldByRuntimes
  <2>2. temp'[d] # Nobody => temp'[d] = temp[d]
    BY <1>7
  <2>3. CASE d # c
    BY <1>1, <1>6, <2>2, <2>3 DEF HeldByRuntimes, HeldByRuntime
  <2>4. CASE d = c
    BY <1>1, <1>6, <2>2, <2>4 DEF HeldByRuntimes, HeldByRuntime
  <2>. QED  BY <2>3, <2>4
<1>. QED  BY <1>10, <1>11, <1>12

-----------------------------------------------------------------------------
(* Steps that build and drop runtimes, and what their hooks keep.           *)

LEMMA BuildHandles ==
  ASSUME AttachmentsAssumption, Types, Stages, Handles, NEW c \in Calls, BuildRuntime(c)
  PROVE  Handles'
<1>. USE DEF slotVars, callVars, runtimeVars, countVars, Handles
<1>1. UNCHANGED <<phase, inside>>
  BY DEF BuildRuntime
<1>2. c \in Threads \ Attachers /\ c \in Contexts \ Attachers
  BY DEF Threads, Contexts, AttachmentsAssumption
<1>3. PICK a \in Attachers : temp[c] = a
  BY StepPc DEF BuildRuntime, Stages, Entered
<1> DEFINE rs == <<Release(a, c)>>
<1>4. rs \in Seq(Releases) /\ Distinct(rs) /\ Later(c, rs)
  BY <1>3, ReleaseTypes, DistinctOne DEF BuildRuntime, TempDropped, Contexts
<1>5. \A x, h : Among(rs, Release(x, h)) <=> x = a /\ h = c
  BY AmongOne, ReleaseIsItsPair
<1>6. /\ todo[c] = <<>> /\ pc[c] = "build" /\ pc'[c] = "install"
      /\ \A d \in Calls \ {c} : pc'[d] = pc[d]
      /\ inside[c] = a /\ c \in held[a] /\ held[c] = {} /\ ~built[c]
  BY <1>3, StepPc DEF BuildRuntime, Stages, Entered, HeldByRuntimes, HeldByRuntime, AttachmentsAssumption
<1>7. /\ temp'[c] = Nobody /\ \A d \in Calls \ {c} : temp'[d] = temp[d]
      /\ built'[c] /\ \A d \in Calls \ {c} : built'[d] = built[d]
      /\ held'[c] = {"runtime"} /\ \A x \in Contexts \ {c} : held'[x] = held[x]
  BY <1>2 DEF BuildRuntime, TempDropped, export_handle, Types, TypeOK
<1>8. /\ hook'[c] # Nobody =>
           hook'[c] \in Calls \ {c} /\ built[hook'[c]] /\ "connection" \in held[hook'[c]]
      /\ \A d \in Calls \ {c} : hook'[d] = hook[d]
  BY DEF BuildRuntime, Keepable, Types, TypeOK
<1>9. /\ \A t \in Threads : ~Waits(t, a, c)
      /\ \A t \in Threads, h \in Places \cup Calls : ~Waits(t, c, h)
  BY <1>2, <1>6, WaitsNone DEF Fits, Meant, OfAttachment, Contexts, AttachmentsAssumption
<1>10. Meant(c, a, c)'
  BY <1>1, <1>2, <1>6, <1>7 DEF Meant, OfAttachment, AttachmentsAssumption, Contexts
<1>11. /\ Fits' /\ Apart' /\ Once'
       /\ \A t, x, h : t \in Threads /\ Waits(t, x, h) => Waits(t, x, h)'
       /\ Waits(c, a, c)'
  <2>1. \A t \in Threads \ {c}, x \in Contexts, h \in Places \cup Calls :
          Waits(t, x, h) => /\ h \in held'[x] /\ ~Among(rs, Release(x, h))
                            /\ x \in Calls => (built'[x] => built[x])
    BY <1>5, <1>7, <1>9 DEF Fits, Meant
  <2>2. \A x \in Contexts, h \in Places \cup Calls :
          Among(rs, Release(x, h)) => Meant(c, x, h)'
    BY <1>5, <1>10
  <2>3. \A t \in Threads \ {c} : /\ t \in Attachers => phase'[t] = phase[t]
                                 /\ t \in Calls => inside'[t] = inside[t] /\ temp'[t] = temp[t]
    BY <1>1, <1>7
  <2>4. \A d, e \in Calls : hook'[d] = e => hook[d] = e \/ built[e]
    BY <1>8 DEF AttachmentsAssumption
  <2>. HIDE DEF Handles, rs
  <2>. QED  BY <1>2, <1>4, <1>5, <1>6, <2>1, <2>2, <2>3, <2>4, NewReleases
<1>12. HeldByAttachments'
  <2>1. SUFFICES ASSUME NEW b \in Attachers PROVE HeldByAttachment(b)'
    BY DEF HeldByAttachments
  <2>2. \A h \in Calls : temp[h] = b \/ Waits(h, b, h) => temp'[h] = b \/ Waits(h, b, h)'
    BY <1>3, <1>7, <1>11 DEF Threads
  <2>3. held'[b] = held[b]
    BY <1>2, <1>7 DEF Contexts
  <2>. QED  BY <1>1, <1>11, <2>2, <2>3 DEF HeldByAttachments, HeldByAttachment, Threads
<1>13. HeldByRuntimes'
  <2>1. SUFFICES ASSUME NEW d \in Calls PROVE HeldByRuntime(d)'
    BY DEF HeldByRuntimes
  <2>2. \A x \in Attachers : held'[x] = held[x]
    BY <1>2, <1>7 DEF Contexts
  <2>3. \A x \in Calls \ {c} : held'[x] = held[x]
    BY <1>7 DEF Contexts
  <2>4. temp'[d] # Nobody => d \in held'[temp'[d]]
    BY <1>7, <2>2 DEF HeldByRuntimes, HeldByRuntime, Types, TypeOK
  <2>5. hook'[d] # Nobody => hook'[d] # d /\ "connection" \in held'[hook'[d]]
    <3>1. CASE d = c
      BY <1>8, <2>3, <3>1
    <3>2. CASE d # c
      <4>1. hook'[d] = hook[d] /\ HeldByRuntime(d)
        BY <1>8, <3>2 DEF HeldByRuntimes
      <4>2. hook[d] # Nobody => hook[d] \in Calls \ {c}
        BY <1>6, <4>1 DEF HeldByRuntime, Types, TypeOK
      <4>. QED  BY <2>3, <4>1, <4>2 DEF HeldByRuntime
    <3>. QED  BY <3>1, <3>2
  <2>6. CASE d # c
    BY <1>6, <1>7, <2>3, <2>4, <2>5, <2>6 DEF HeldByRuntimes, HeldByRuntime
  <2>7. CASE d = c
    BY <1>6, <1>7, <2>4, <2>5, <2>7 DEF HeldByRuntimes, HeldByRuntime
  <2>. QED  BY <2>6, <2>7
<1>. QED  BY <1>11, <1>12, <1>13

(* A Connection that goes with hooks is still held, and nobody else is to    *)
(* release it.                                                             *)
LEMMA HookDropped ==
  ASSUME Types, Handles, NEW xs, NEW d \in Calls, DropsOne(xs, d)
  PROVE  /\ ~built[d] /\ "connection" \in held[d]
         /\ \A t \in Threads : ~Waits(t, d, "connection")
         /\ HooksGone(xs) => \A e \in Calls : hook'[e] # d
         /\ \E e \in Calls \cap xs : hook[e] = d
         /\ Dropped(xs) = <<Release(d, "connection")>>
<1>1. /\ ~built[d] /\ \A e \in Calls \ xs : hook[e] # d
      /\ d # Nobody /\ Dropped(xs) = <<Release(d, "connection")>>
  BY DEF DropsOne, Unused, Captured
<1>2. PICK e \in Calls \cap xs : hook[e] = d
  BY DEF DropsOne, Unused, Captured
<1>3. "connection" \in held[d]
  BY <1>1, <1>2 DEF Handles, HeldByRuntimes, HeldByRuntime
<1>4. \A t \in Threads : ~Waits(t, d, "connection")
  BY <1>2 DEF Handles, Fits, Meant, OfRuntime, Contexts, Places
<1>5. HooksGone(xs) => \A f \in Calls : hook'[f] # d
  BY <1>1 DEF HooksGone
<1>. QED  BY <1>1, <1>2, <1>3, <1>4, <1>5

LEMMA TwoOnEnd ==
  \A e, f : /\ <<>> \o <<e>> \o <<f>> = <<e, f>> /\ <<e>> \o <<f>> = <<e, f>>
            /\ <<e>> \o <<f>> \o <<>> = <<e, f>>
            /\ <<>> \o <<e>> \o <<>> = <<e>> /\ <<>> \o <<e>> = <<e>>
<1> TAKE e, f
<1> DEFINE S == {e, f}
<1>1. <<e>> \in Seq(S) /\ <<f>> \in Seq(S) /\ <<>> \in Seq(S)
  OBVIOUS
<1>2. <<e>> \o <<f>> = <<e, f>>
  <2> DEFINE s == <<e>> \o <<f>>
             u == <<e, f>>
  <2>1. s \in Seq(S) /\ Len(s) = 2 /\ s[1] = e /\ s[2] = f
    BY <1>1
  <2>2. u \in Seq(S) /\ Len(u) = 2 /\ u[1] = e /\ u[2] = f
    OBVIOUS
  <2>3. \A i \in 1 .. 2 : i = 1 \/ i = 2
    OBVIOUS
  <2>. HIDE DEF s, u
  <2>4. \A i \in 1 .. 2 : s[i] = u[i]
    BY <2>1, <2>2, <2>3
  <2>. QED  BY <2>1, <2>2, <2>4, SeqEqual DEF s, u
<1>. QED  BY <1>1, <1>2

LEMMA GuestFailsHandles ==
  ASSUME AttachmentsAssumption, Types, Stages, Handles, NEW c \in Calls, BuildGuestFails(c)
  PROVE  Handles'
<1>. USE DEF slotVars, callVars, runtimeVars, countVars, Handles
<1>1. UNCHANGED <<held, phase, inside, temp>>
  BY DEF BuildGuestFails
<1>2. c \in Threads \ Attachers /\ c \in Contexts \ Attachers
  BY DEF Threads, Contexts, AttachmentsAssumption
<1>3. /\ todo[c] = <<>> /\ pc[c] = "install" /\ pc'[c] = "run"
      /\ \A d \in Calls \ {c} : pc'[d] = pc[d]
      /\ held[c] = {"runtime"} /\ built[c]
  BY StepPc DEF BuildGuestFails, HeldByRuntimes, HeldByRuntime
<1>4. ~built'[c] /\ \A d \in Calls \ {c} : built'[d] = built[d]
  BY DEF BuildGuestFails, DropHost, Types, TypeOK
<1>5. /\ HooksGone({c}) /\ hook'[c] = Nobody
      /\ \A d \in Calls \ {c} : hook'[d] = hook[d]
  BY DEF BuildGuestFails, HooksGone
<1> DEFINE r == Release(c, "runtime")
           f(d) == Release(d, "connection")
           rs == <<>> \o <<r>> \o Dropped({c})
<1>6. Later(c, rs)
  BY DEF BuildGuestFails, DropHost
<1>7. Meant(c, c, "runtime")' /\ \A t \in Threads : ~Waits(t, c, "runtime")
  <2>1. "runtime" \in held'[c] /\ OfRuntime(c, c, "runtime")'
    BY <1>1, <1>3, <1>4 DEF OfRuntime
  <2>. QED  BY <1>2, <1>3, <2>1 DEF Meant, Fits, OfRuntime, Contexts, Places
<1>8. /\ rs \in Seq(Releases) /\ Distinct(rs)
      /\ \A x, h : Among(rs, Release(x, h)) =>
           /\ \A t \in Threads : ~Waits(t, x, h)
           /\ Meant(c, x, h)'
  <2>1. r \in Releases /\ \A d \in Calls : f(d) \in Releases /\ f(d) # r
    BY <1>2, ReleaseTypes, ReleaseIsItsPair DEF Contexts, Places
  <2>2. CASE Dropped({c}) = <<>>
    <3>1. rs = <<r>>
      BY <2>2
    <3>. HIDE DEF rs
    <3>2. \A x, h : Among(rs, Release(x, h)) => x = c /\ h = "runtime"
      BY <3>1, AmongOne, ReleaseIsItsPair
    <3>3. rs \in Seq(Releases) /\ Distinct(rs)
      <4>1. r \in Releases
        BY <2>1
      <4>. HIDE DEF r
      <4>. QED  BY <4>1, <3>1, DistinctOne
    <3>. QED  BY <1>7, <3>2, <3>3
  <2>3. CASE \E d \in Calls : DropsOne({c}, d)
    <3>1. PICK d \in Calls : DropsOne({c}, d)
      BY <2>3
    <3>2. /\ ~built[d] /\ "connection" \in held[d]
          /\ \A t \in Threads : ~Waits(t, d, "connection")
          /\ \A e \in Calls : hook'[e] # d
          /\ Dropped({c}) = <<f(d)>>
      BY <1>5, <3>1, HookDropped
    <3>3. rs = <<r, f(d)>>
      BY <3>2, TwoOnEnd
    <3>4. /\ rs \in Seq(Releases) /\ Distinct(rs)
          /\ \A q : Among(rs, q) <=> q = r \/ q = f(d)
      <4>1. r \in Releases /\ f(d) \in Releases /\ f(d) # r
        BY <2>1
      <4>. HIDE DEF r, f, rs
      <4>. QED  BY <4>1, <3>3, AmongTwo
    <3>. HIDE DEF rs
    <3>5. \A x, h : Among(rs, Release(x, h)) =>
            (x = c /\ h = "runtime") \/ (x = d /\ h = "connection")
      BY <3>4, ReleaseIsItsPair
    <3>6. Meant(c, d, "connection")'
      BY <1>1, <1>3, <1>4, <3>2 DEF Meant, OfRuntime, AttachmentsAssumption
    <3>. QED  BY <1>7, <3>2, <3>4, <3>5, <3>6
  <2>. QED  BY <2>2, <2>3, DroppedCases DEF Types
<1>9. /\ Fits' /\ Apart' /\ Once'
      /\ \A t, x, h : t \in Threads /\ Waits(t, x, h) => Waits(t, x, h)'
  <2>1. \A t \in Threads \ {c}, x \in Contexts, h \in Places \cup Calls :
          Waits(t, x, h) => /\ h \in held'[x] /\ ~Among(rs, Release(x, h))
                            /\ x \in Calls => (built'[x] => built[x])
    BY <1>1, <1>4, <1>8 DEF Fits, Meant
  <2>2. \A x \in Contexts, h \in Places \cup Calls :
          Among(rs, Release(x, h)) => Meant(c, x, h)'
    BY <1>8
  <2>3. \A t \in Threads \ {c} : /\ t \in Attachers => phase'[t] = phase[t]
                                 /\ t \in Calls => inside'[t] = inside[t] /\ temp'[t] = temp[t]
    BY <1>1
  <2>4. \A d, e \in Calls : hook'[d] = e => hook[d] = e \/ built[e]
    BY <1>5 DEF AttachmentsAssumption
  <2>. HIDE DEF Handles, rs
  <2>. QED  BY <1>2, <1>3, <1>6, <1>8, <2>1, <2>2, <2>3, <2>4, NewReleases
<1>10. HeldByAttachments'
  BY <1>1, <1>9 DEF HeldByAttachments, HeldByAttachment, Threads
<1>11. HeldByRuntimes'
  <2>1. SUFFICES ASSUME NEW d \in Calls PROVE HeldByRuntime(d)'
    BY DEF HeldByRuntimes
  <2>2. HeldByRuntime(d)
    BY DEF HeldByRuntimes
  <2>3. CASE d # c
    BY <1>1, <1>3, <1>4, <1>5, <2>2, <2>3 DEF HeldByRuntime
  <2>4. CASE d = c
    BY <1>1, <1>3, <1>4, <1>5, <2>2, <2>4 DEF HeldByRuntime
  <2>. QED  BY <2>3, <2>4
<1>. QED  BY <1>9, <1>10, <1>11

LEMMA DropHandles ==
  ASSUME AttachmentsAssumption, Types, Stages, Handles, NEW c \in Calls, DropRuntime(c)
  PROVE  Handles'
<1>. USE DEF slotVars, callVars, runtimeVars, countVars, Handles
<1>1. UNCHANGED <<held, phase, inside, temp, hook>>
  BY DEF DropRuntime
<1>2. c \in Threads \ Attachers /\ c \in Contexts \ Attachers
  BY DEF Threads, Contexts, AttachmentsAssumption
<1>3. /\ todo[c] = <<>> /\ pc[c] = "run" /\ \A d \in Calls : pc'[d] = pc[d]
      /\ "runtime" \in held[c] /\ "connection" \in held[c] /\ built[c]
  <2>1. pc[c] = "run" /\ pc'[c] = "run" /\ todo[c] = <<>> /\ \A d \in Calls \ {c} : pc'[d] = pc[d]
    BY StepPc DEF DropRuntime
  <2>2. built[c] /\ HeldByRuntime(c)
    BY DEF DropRuntime, HeldByRuntimes
  <2>. QED  BY <2>1, <2>2 DEF HeldByRuntime
<1>4. ~built'[c] /\ \A d \in Calls \ {c} : built'[d] = built[d]
  BY DEF DropRuntime, DropHost, Types, TypeOK
<1> DEFINE r == Release(c, "runtime")
           f == Release(c, "connection")
           first == IF c \in Captured(Calls) THEN <<>> ELSE <<f>>
           rs == first \o <<r>> \o <<>>
<1>5. Later(c, rs)
  BY DEF DropRuntime, DropHost
<1>6. \A t \in Threads, h \in Places \cup Calls : ~Waits(t, c, h)
  BY <1>2, <1>3 DEF Fits, Meant, OfRuntime, Contexts
<1>7. Meant(c, c, "runtime")'
  BY <1>1, <1>2, <1>3, <1>4 DEF Meant, OfRuntime
<1>8. c \notin Captured(Calls) => Meant(c, c, "connection")'
  <2>1. c \notin Captured(Calls) => \A d \in Calls : hook[d] # c
    BY DEF Captured, AttachmentsAssumption
  <2>. QED  BY <1>1, <1>2, <1>3, <1>4, <2>1 DEF Meant, OfRuntime
<1>9. /\ rs \in Seq(Releases) /\ Distinct(rs)
      /\ \A x, h : Among(rs, Release(x, h)) => x = c /\ h \in Places /\ Meant(c, x, h)'
  <2>1. r \in Releases /\ f \in Releases /\ f # r
    BY <1>2, ReleaseTypes, ReleaseIsItsPair DEF Places
  <2>2. CASE c \in Captured(Calls)
    <3>1. rs = <<r>>
      BY <2>2, TwoOnEnd
    <3>. HIDE DEF rs
    <3>2. \A x, h : Among(rs, Release(x, h)) => x = c /\ h = "runtime"
      BY <3>1, AmongOne, ReleaseIsItsPair
    <3>3. rs \in Seq(Releases) /\ Distinct(rs)
      <4>. HIDE DEF r
      <4>. QED  BY <2>1, <3>1, DistinctOne
    <3>. QED  BY <1>7, <3>2, <3>3 DEF Places
  <2>3. CASE c \notin Captured(Calls)
    <3>1. rs = <<f, r>>
      BY <2>3, TwoOnEnd
    <3>. HIDE DEF rs
    <3>2. /\ rs \in Seq(Releases) /\ Distinct(rs)
          /\ \A q : Among(rs, q) <=> q = f \/ q = r
      <4>. HIDE DEF r, f
      <4>. QED  BY <2>1, <3>1, AmongTwo
    <3>3. \A x, h : Among(rs, Release(x, h)) => x = c /\ h \in {"connection", "runtime"}
      BY <3>2, ReleaseIsItsPair
    <3>. QED  BY <1>7, <1>8, <2>3, <3>2, <3>3 DEF Places
  <2>. QED  BY <2>2, <2>3
<1>10. /\ Fits' /\ Apart' /\ Once'
       /\ \A t, x, h : t \in Threads /\ Waits(t, x, h) => Waits(t, x, h)'
  <2>1. \A t \in Threads \ {c}, x \in Contexts, h \in Places \cup Calls :
          Waits(t, x, h) => /\ h \in held'[x] /\ ~Among(rs, Release(x, h))
                            /\ x \in Calls => (built'[x] => built[x])
    BY <1>1, <1>4, <1>6, <1>9 DEF Fits, Meant
  <2>2. \A x \in Contexts, h \in Places \cup Calls :
          Among(rs, Release(x, h)) => Meant(c, x, h)'
    BY <1>9
  <2>3. \A t \in Threads \ {c} : /\ t \in Attachers => phase'[t] = phase[t]
                                 /\ t \in Calls => inside'[t] = inside[t] /\ temp'[t] = temp[t]
    BY <1>1
  <2>4. \A d, e \in Calls : hook'[d] = e => hook[d] = e \/ built[e]
    BY <1>1
  <2>. HIDE DEF Handles, rs
  <2>. QED  BY <1>2, <1>3, <1>5, <1>9, <2>1, <2>2, <2>3, <2>4, NewReleases
<1>11. HeldByAttachments'
  BY <1>1, <1>10 DEF HeldByAttachments, HeldByAttachment, Threads
<1>12. HeldByRuntimes'
  <2>1. SUFFICES ASSUME NEW d \in Calls PROVE HeldByRuntime(d)'
    BY DEF HeldByRuntimes
  <2>2. HeldByRuntime(d)
    BY DEF HeldByRuntimes
  <2>3. CASE d # c
    BY <1>1, <1>3, <1>4, <2>2, <2>3 DEF HeldByRuntime
  <2>4. CASE d = c
    BY <1>1, <1>3, <1>4, <2>2, <2>4 DEF HeldByRuntime
  <2>. QED  BY <2>3, <2>4
<1>. QED  BY <1>10, <1>11, <1>12

(* The owner's tables are cleared: nothing of that attachment waits.         *)
LEMMA ClearedHandles ==
  ASSUME AttachmentsAssumption, Types, Stages, Handles, NEW a \in Attachers, HostDetach(a)
  PROVE  Handles'
<1>. USE DEF slotVars, callVars, runtimeVars, countVars, Handles
<1>1. taken[a] = a /\ ~Refuses(a) /\ phase[a] = "host"
  BY NotRefused DEF HostDetach
<1>2. a \in Threads \ Calls /\ a \in Contexts \ Calls
  BY DEF Threads, Contexts, AttachmentsAssumption
<1> DEFINE all == {a} \cup Of(a)
           b == [Release(a, "slot") EXCEPT !.begun = TRUE]
           f(d) == Release(d, "connection")
           rs == Dropped(all) \o <<b>>
<1>3. /\ held' = [held EXCEPT ![a] = @ \ {"slot"}] /\ HooksGone(all) /\ Later(a, rs)
      /\ UNCHANGED <<pc, inside, temp, built>> /\ Turn(a, "host", "returned")
  BY <1>1 DEF HostDetach
<1>4. /\ todo[a] = <<>> /\ phase'[a] = "returned"
      /\ \A e \in Attachers \ {a} : phase'[e] = phase[e]
  BY <1>3, TurnPhase
<1>5. /\ held[a] = {"slot"} /\ held'[a] = {}
      /\ \A x \in Contexts \ {a} : held'[x] = held[x]
  BY <1>1, <1>2, <1>3 DEF HeldByAttachments, HeldByAttachment, Types, TypeOK
<1>6. \A t \in Threads, h \in Places \cup Calls : ~Waits(t, a, h)
  BY <1>1, <1>2, <1>5 DEF Fits, Meant, OfAttachment, AttachmentsAssumption
<1>7. \A d \in Calls : hook'[d] \in {hook[d], Nobody}
  BY <1>3 DEF HooksGone
<1>8. b \in Releases /\ \A x, h : Release(x, h) # b
  <2>1. b.begun /\ b \in Releases
    BY <1>2 DEF Release, Releases, Places
  <2>2. \A x, h : ~Release(x, h).begun
    BY DEF Release
  <2>. QED  BY <2>1, <2>2
<1>9. /\ rs \in Seq(Releases) /\ Distinct(rs)
      /\ \A x, h : Among(rs, Release(x, h)) =>
           /\ \A t \in Threads : ~Waits(t, x, h)
           /\ Meant(a, x, h)'
  <2>1. CASE Dropped(all) = <<>>
    <3>1. rs = <<b>>
      BY <2>1, TwoOnEnd
    <3>. HIDE DEF rs, b
    <3>2. \A x, h : ~Among(rs, Release(x, h))
      BY <1>8, <3>1, AmongOne
    <3>. QED  BY <1>8, <3>1, <3>2, DistinctOne
  <2>2. CASE \E d \in Calls : DropsOne(all, d)
    <3>1. PICK d \in Calls : DropsOne(all, d)
      BY <2>2
    <3>2. /\ ~built[d] /\ "connection" \in held[d]
          /\ \A t \in Threads : ~Waits(t, d, "connection")
          /\ \A e \in Calls : hook'[e] # d
          /\ Dropped(all) = <<f(d)>>
      <4>. HIDE DEF all
      <4>. QED  BY <1>3, <3>1, HookDropped
    <3>3. rs = <<f(d), b>>
      <4>1. \A e, g : <<e>> \o <<g>> = <<e, g>>
        BY TwoOnEnd
      <4>. HIDE DEF b, f, all
      <4>. QED  BY <3>2, <4>1
    <3>4. f(d) \in Releases /\ f(d) # b
      <4>1. d \in Contexts /\ "connection" \in Places
        BY DEF Contexts, Places
      <4>2. f(d) \in Releases
        BY <4>1, ReleaseTypes
      <4>. HIDE DEF b
      <4>. QED  BY <1>8, <4>2
    <3>5. /\ rs \in Seq(Releases) /\ Distinct(rs)
          /\ \A q : Among(rs, q) <=> q = f(d) \/ q = b
      <4>. HIDE DEF f, b, rs
      <4>. QED  BY <1>8, <3>3, <3>4, AmongTwo
    <3>. HIDE DEF rs, b
    <3>6. \A x, h : Among(rs, Release(x, h)) => x = d /\ h = "connection"
      BY <1>8, <3>5, ReleaseIsItsPair
    <3>7. Meant(a, d, "connection")'
      <4>1. "connection" \in held'[d]
        BY <1>2, <1>5, <3>2 DEF Contexts
      <4>. QED  BY <1>3, <3>2, <4>1 DEF Meant, OfRuntime, AttachmentsAssumption
    <3>. QED  BY <3>2, <3>5, <3>6, <3>7
  <2>. QED  BY <2>1, <2>2, DroppedCases DEF Types
<1>10. /\ Fits' /\ Apart' /\ Once'
       /\ \A t, x, h : t \in Threads /\ Waits(t, x, h) => Waits(t, x, h)'
  <2>1. \A t \in Threads \ {a}, x \in Contexts, h \in Places \cup Calls :
          Waits(t, x, h) => /\ h \in held'[x] /\ ~Among(rs, Release(x, h))
                            /\ x \in Calls => (built'[x] => built[x])
    <3>. HIDE DEF rs
    <3>1. SUFFICES ASSUME NEW t \in Threads \ {a}, NEW x \in Contexts, NEW h \in Places \cup Calls,
                          Waits(t, x, h)
                   PROVE  h \in held'[x]
      BY <1>3, <1>9
    <3>2. x # a /\ h \in held[x]
      BY <1>6, <3>1 DEF Fits, Meant
    <3>. QED  BY <1>5, <3>2
  <2>2. \A x \in Contexts, h \in Places \cup Calls :
          Among(rs, Release(x, h)) => Meant(a, x, h)'
    BY <1>9
  <2>3. \A t \in Threads \ {a} : /\ t \in Attachers => phase'[t] = phase[t]
                                 /\ t \in Calls => inside'[t] = inside[t] /\ temp'[t] = temp[t]
    BY <1>3, <1>4
  <2>4. \A d, e \in Calls : hook'[d] = e => hook[d] = e \/ built[e]
    BY <1>7 DEF AttachmentsAssumption
  <2>5. a \in Threads
    BY <1>2
  <2>. HIDE DEF Handles, rs
  <2>. QED  BY <1>3, <1>4, <1>9, <2>1, <2>2, <2>3, <2>4, <2>5, NewReleases
<1>11. HeldByAttachments'
  <2>1. SUFFICES ASSUME NEW e \in Attachers PROVE HeldByAttachment(e)'
    BY DEF HeldByAttachments
  <2>2. CASE e # a
    <3>1. held'[e] = held[e] /\ phase'[e] = phase[e]
      BY <1>4, <1>5, <2>2 DEF Contexts
    <3>. QED  BY <1>3, <1>10, <3>1 DEF HeldByAttachments, HeldByAttachment, Threads
  <2>3. CASE e = a
    BY <1>4, <1>5, <2>3 DEF HeldByAttachment
  <2>. QED  BY <2>2, <2>3
<1>12. HeldByRuntimes'
  <2>1. SUFFICES ASSUME NEW c \in Calls PROVE HeldByRuntime(c)'
    BY DEF HeldByRuntimes
  <2>2. HeldByRuntime(c) /\ held'[c] = held[c]
    BY <1>2, <1>5 DEF HeldByRuntimes, Contexts
  <2>3. temp[c] # Nobody => held'[temp[c]] = held[temp[c]]
    <3>1. temp[c] # a
      BY <1>1 DEF Stages, Entered
    <3>. QED  BY <1>5, <3>1 DEF Types, TypeOK, Contexts
  <2>4. hook'[c] # Nobody => hook'[c] = hook[c] /\ held'[hook[c]] = held[hook[c]]
    BY <1>2, <1>5, <1>7 DEF Types, TypeOK, Contexts
  <2>. QED  BY <1>3, <2>2, <2>3, <2>4 DEF HeldByRuntime
<1>. QED  BY <1>10, <1>11, <1>12

LEMMA EndHandles ==
  ASSUME AttachmentsAssumption, Types, Stages, Handles, NEW a \in Attachers, EndDetach(a)
  PROVE  Handles'
<1>. USE DEF slotVars, callVars, runtimeVars, countVars, Handles
<1>1. phase[a] = "returned" /\ todo[a] = <<>>
  BY DEF EndDetach, Stages, Slotted
<1>2. UNCHANGED <<held, built, hook, todo, temp, pc, inside>> /\ phase' = [phase EXCEPT ![a] = "done"]
  BY <1>1 DEF EndDetach
<1>3. phase'[a] = "done" /\ \A b \in Attachers \ {a} : phase'[b] = phase[b]
  BY <1>2 DEF Types, TypeOK
<1>4. \A t, x, h : Waits(t, x, h)' <=> Waits(t, x, h)
  BY <1>2 DEF Waits
<1>5. \A t \in Threads, x \in Contexts, h \in Places \cup Calls : Waits(t, x, h) => h \in held'[x]
  BY <1>2 DEF Fits, Meant
<1>6. Fits' /\ Apart' /\ Once'
  BY <1>1, <1>2, <1>3, <1>5, SameReleases DEF Threads
<1>7. HeldByAttachments'
  <2>1. SUFFICES ASSUME NEW b \in Attachers PROVE HeldByAttachment(b)'
    BY DEF HeldByAttachments
  <2>2. CASE b # a
    BY <1>2, <1>3, <1>4, <2>2 DEF HeldByAttachments, HeldByAttachment
  <2>3. CASE b = a
    BY <1>1, <1>2, <1>3, <2>3 DEF HeldByAttachments, HeldByAttachment
  <2>. QED  BY <2>2, <2>3
<1>8. HeldByRuntimes'
  BY <1>2 DEF HeldByRuntimes, HeldByRuntime
<1>. QED  BY <1>6, <1>7, <1>8

-----------------------------------------------------------------------------
(* Releasing.                                                               *)

LEMMA UnlockHandles ==
  ASSUME AttachmentsAssumption, Types, Stages, Handles, NEW t \in Threads, Unlock(t)
  PROVE  Handles'
<1>. USE DEF slotVars, callVars, runtimeVars, countVars, Handles
<1>1. UNCHANGED <<held, built, hook, temp, pc, inside, phase>>
  BY DEF Unlock
<1>2. /\ todo[t] \in Seq(Releases) /\ todo[t] # <<>> /\ Head(todo[t]).begun
      /\ todo'[t] = Tail(todo[t]) /\ \A u \in Threads \ {t} : todo'[u] = todo[u]
  BY DEF Unlock, Types
<1>3. \A x, h : Release(x, h) # Head(todo[t])
  <2>1. \A x, h : ~Release(x, h).begun
    BY DEF Release
  <2>. QED  BY <1>2, <2>1
<1>4. \A x, h : Waits(t, x, h)' <=> Waits(t, x, h)
  BY <1>2, <1>3, Behind DEF Waits
<1>5. \A u \in Threads : \A x, h : Waits(u, x, h)' <=> Waits(u, x, h)
  BY <1>2, <1>4 DEF Waits
<1>6. Fits' /\ Apart'
  BY <1>1, <1>5 DEF Fits, Apart, Meant, OfAttachment, OfRuntime
<1>7. Once'
  <2>1. Distinct(Tail(todo[t]))
    BY <1>2, Behind DEF Once
  <2>. QED  BY <1>2, <2>1 DEF Once, Distinct
<1>8. HeldByAttachments' /\ HeldByRuntimes'
  BY <1>1, <1>5 DEF HeldByAttachments, HeldByAttachment, HeldByRuntimes, HeldByRuntime, Threads
<1>. QED  BY <1>6, <1>7, <1>8

(* A thread releases the Handle h of x: of what waits only that goes, and    *)
(* a Connection that nobody else is to release may come.                    *)
Releasing(t, x, h) ==
  /\ Waits(t, x, h) /\ Meant(t, x, h) /\ refs[x] > 0
  /\ refs' = [refs EXCEPT ![x] = @ - 1] /\ held' = [held EXCEPT ![x] = @ \ {h}]
  /\ \A c \in Calls : hook'[c] \in {hook[c], Nobody}
  /\ \A u \in Threads : \A y, g :
       Waits(u, y, g) /\ (y # x \/ g # h) => Waits(u, y, g)'
  /\ \A u \in Threads, y \in Contexts, g \in Places \cup Calls :
       Waits(u, y, g)' =>
         \/ Waits(u, y, g) /\ (y # x \/ g # h)
         \/ /\ u = t /\ y \in Calls /\ g = "connection" /\ y # x
            /\ ~built[y] /\ "connection" \in held[y] /\ \A c \in Calls : hook'[c] # y

LEMMA ReleaseWaits ==
  ASSUME AttachmentsAssumption, Types, Handles, NEW t \in Threads, release_handle(t)
  PROVE  /\ \E x \in Contexts, h \in Places \cup Calls : Releasing(t, x, h)
         /\ Apart' /\ Once'
<1>. USE DEF slotVars, callVars, runtimeVars, countVars, Handles
<1>1. /\ todo[t] \in Seq(Releases) /\ todo[t] # <<>> /\ ~Head(todo[t]).begun
      /\ Head(todo[t]) \in Releases /\ Tail(todo[t]) \in Seq(Releases)
  <2>1. todo[t] \in Seq(Releases) /\ todo[t] # <<>> /\ ~Head(todo[t]).begun
    BY DEF release_handle, Types
  <2>2. \A s \in Seq(Releases) : s # <<>> => Head(s) \in Releases /\ Tail(s) \in Seq(Releases)
    OBVIOUS
  <2>. QED  BY <2>1, <2>2
<1>2. PICK x \in Contexts, h \in Places \cup Calls : Head(todo[t]) = Release(x, h)
  BY <1>1 DEF Releases, Release
<1>3. Head(todo[t]).of = x /\ Head(todo[t]).holder = h
  BY <1>2 DEF Release
<1> DEFINE gone == IF refs[x] = 1 THEN {x} ELSE {}
           b == [Release(x, h) EXCEPT !.begun = TRUE]
           f(d) == Release(d, "connection")
           first == Dropped(gone) \o <<b>>
           rest == Tail(todo[t])
<1>4. /\ refs[x] > 0 /\ refs' = [refs EXCEPT ![x] = @ - 1] /\ held' = [held EXCEPT ![x] = @ \ {h}]
      /\ todo' = [todo EXCEPT ![t] = first \o rest] /\ HooksGone(gone) /\ built' = built
  BY <1>2, <1>3 DEF release_handle
<1>5. Waits(t, x, h) /\ Meant(t, x, h)
  <2>1. Among(todo[t], Release(x, h))
    BY <1>1, <1>2, Behind
  <2>. QED  BY <2>1 DEF Waits, Fits
<1>6. /\ \A q : Among(todo[t], q) <=> q = Release(x, h) \/ Among(rest, q)
      /\ Distinct(rest) /\ ~Among(rest, Release(x, h))
  BY <1>1, <1>2, Behind DEF Once
<1>7. \A c \in Calls : hook'[c] \in {hook[c], Nobody}
  BY <1>4 DEF HooksGone
<1>8. b \in Releases /\ b.begun /\ \A y, g : Release(y, g) # b
  <2>1. b.begun /\ b \in Releases
    BY DEF Release, Releases
  <2>2. \A y, g : ~Release(y, g).begun
    BY DEF Release
  <2>. QED  BY <2>1, <2>2
<1>9. /\ first \in Seq(Releases) /\ Distinct(first)
      /\ \A q : Among(first, q) =>
           \/ q = b
           \/ \E y \in Calls :
                /\ q = f(y) /\ y # x /\ ~built[y] /\ "connection" \in held[y]
                /\ \A c \in Calls : hook'[c] # y
                /\ \A u \in Threads : ~Waits(u, y, "connection")
  <2>1. CASE Dropped(gone) = <<>>
    <3>1. first = <<b>>
      BY <2>1, TwoOnEnd
    <3>. HIDE DEF first, b
    <3>. QED  BY <1>8, <3>1, AmongOne, DistinctOne
  <2>2. CASE \E d \in Calls : DropsOne(gone, d)
    <3>1. PICK d \in Calls : DropsOne(gone, d)
      BY <2>2
    <3>2. /\ ~built[d] /\ "connection" \in held[d]
          /\ \A u \in Threads : ~Waits(u, d, "connection")
          /\ \A c \in Calls : hook'[c] # d
          /\ \E c \in Calls \cap gone : hook[c] = d
          /\ Dropped(gone) = <<f(d)>>
      <4>. HIDE DEF gone
      <4>. QED  BY <1>4, <3>1, HookDropped
    <3>3. d # x
      <4>1. x \in Calls /\ hook[x] = d
        BY <3>2
      <4>2. HeldByRuntime(x)
        BY <4>1 DEF HeldByRuntimes
      <4>3. d # Nobody
        BY DEF AttachmentsAssumption
      <4>. QED  BY <4>1, <4>2, <4>3 DEF HeldByRuntime
    <3>4. first = <<f(d), b>>
      BY <3>2, TwoOnEnd
    <3>5. f(d) \in Releases /\ f(d) # b
      <4>1. d \in Contexts /\ "connection" \in Places
        BY DEF Contexts, Places
      <4>2. f(d) \in Releases
        BY <4>1, ReleaseTypes
      <4>. HIDE DEF b
      <4>. QED  BY <1>8, <4>2
    <3>6. /\ first \in Seq(Releases) /\ Distinct(first)
          /\ \A q : Among(first, q) <=> q = f(d) \/ q = b
      <4>. HIDE DEF f, b, first
      <4>. QED  BY <1>8, <3>4, <3>5, AmongTwo
    <3>. HIDE DEF first, b, f
    <3>. QED  BY <3>2, <3>3, <3>6
  <2>. QED  BY <2>1, <2>2, DroppedCases DEF Types
<1>10. todo'[t] = first \o rest /\ \A u \in Threads \ {t} : todo'[u] = todo[u]
  BY <1>4 DEF Types
<1>r. rest \in Seq(Releases)
  BY <1>1
<1>. HIDE DEF first, rest, b, gone
<1>11. \A q : Among(todo'[t], q) <=> Among(first, q) \/ Among(rest, q)
  BY <1>9, <1>10, <1>r, AmongConcat
<1>12. \A u \in Threads : \A y, g :
         Waits(u, y, g) /\ (y # x \/ g # h) => Waits(u, y, g)'
  <2>1. SUFFICES ASSUME NEW u \in Threads, NEW y, NEW g, Waits(u, y, g), y # x \/ g # h
                 PROVE  Waits(u, y, g)'
    OBVIOUS
  <2>2. CASE u # t
    BY <1>10, <2>1, <2>2 DEF Waits
  <2>3. CASE u = t
    <3>1. Release(y, g) # Release(x, h)
      BY <2>1, ReleaseIsItsPair
    <3>2. Among(todo'[t], Release(y, g))
      BY <1>6, <1>11, <2>1, <2>3, <3>1 DEF Waits
    <3>. QED  BY <2>3, <3>2 DEF Waits
  <2>. QED  BY <2>2, <2>3
<1>13. \A u \in Threads, y \in Contexts, g \in Places \cup Calls :
         Waits(u, y, g)' =>
           \/ Waits(u, y, g) /\ (y # x \/ g # h)
           \/ /\ u = t /\ y \in Calls /\ g = "connection" /\ y # x
              /\ ~built[y] /\ "connection" \in held[y] /\ \A c \in Calls : hook'[c] # y
              /\ \A v \in Threads : ~Waits(v, y, g)
  <2>1. SUFFICES ASSUME NEW u \in Threads, NEW y \in Contexts, NEW g \in Places \cup Calls,
                        Waits(u, y, g)'
                 PROVE  \/ Waits(u, y, g) /\ (y # x \/ g # h)
                        \/ /\ u = t /\ y \in Calls /\ g = "connection" /\ y # x
                           /\ ~built[y] /\ "connection" \in held[y]
                           /\ \A c \in Calls : hook'[c] # y
                           /\ \A v \in Threads : ~Waits(v, y, g)
    OBVIOUS
  <2>2. CASE u # t
    <3>1. Waits(u, y, g)
      BY <1>10, <2>1, <2>2 DEF Waits
    <3>2. ~Waits(u, x, h)
      BY <1>5, <2>2 DEF Apart
    <3>. QED  BY <3>1, <3>2
  <2>3. CASE u = t /\ Among(rest, Release(y, g))
    BY <1>6, <2>3 DEF Waits
  <2>4. CASE u = t /\ Among(first, Release(y, g))
    <3>1. PICK d \in Calls :
                /\ Release(y, g) = f(d) /\ d # x /\ ~built[d] /\ "connection" \in held[d]
                /\ \A c \in Calls : hook'[c] # d
                /\ \A v \in Threads : ~Waits(v, d, "connection")
      BY <1>8, <1>9, <2>4
    <3>2. y = d /\ g = "connection"
      BY <3>1, ReleaseIsItsPair
    <3>. QED  BY <2>4, <3>1, <3>2
  <2>. QED  BY <1>11, <2>1, <2>2, <2>3, <2>4 DEF Waits
<1>14. Apart'
  <2>1. SUFFICES ASSUME NEW u \in Threads, NEW v \in Threads,
                        NEW y \in Contexts, NEW g \in Places \cup Calls,
                        Waits(u, y, g)', Waits(v, y, g)'
                 PROVE  u = v
    BY DEF Apart
  <2>. QED  BY <1>13, <2>1 DEF Apart
<1>15. Once'
  <2>1. \A q \in Releases : ~q.begun => ~(Among(first, q) /\ Among(rest, q))
    <3>1. SUFFICES ASSUME NEW q \in Releases, ~q.begun, Among(first, q), Among(rest, q)
                   PROVE  FALSE
      OBVIOUS
    <3>2. PICK d \in Calls : q = f(d) /\ \A u \in Threads : ~Waits(u, d, "connection")
      BY <1>8, <1>9, <3>1
    <3>. QED  BY <1>6, <3>1, <3>2 DEF Waits
  <2>2. Distinct(todo'[t])
    BY <1>6, <1>9, <1>10, <1>r, <2>1, DistinctConcat
  <2>. QED  BY <1>10, <2>2 DEF Once, Distinct
<1>16. Releasing(t, x, h)
  BY <1>4, <1>5, <1>7, <1>12, <1>13 DEF Releasing
<1>. QED  BY <1>14, <1>15, <1>16

LEMMA ReleaseHandles ==
  ASSUME AttachmentsAssumption, Types, Stages, Handles, NEW t \in Threads, release_handle(t)
  PROVE  Handles'
<1>. USE DEF slotVars, callVars, runtimeVars, countVars, Handles
<1>1. UNCHANGED <<phase, pc, inside, temp, built>>
  BY DEF release_handle
<1>2. PICK x \in Contexts, h \in Places \cup Calls : Releasing(t, x, h)
  BY ReleaseWaits
<1>3. /\ held'[x] = held[x] \ {h} /\ \A y \in Contexts \ {x} : held'[y] = held[y]
      /\ h \in held[x] /\ \A c \in Calls : hook'[c] \in {hook[c], Nobody}
      /\ x \in Attachers => OfAttachment(t, x, h)
      /\ x \in Calls => OfRuntime(t, x, h)
      /\ \A u \in Threads : \A y, g : Waits(u, y, g) /\ (y # x \/ g # h) => Waits(u, y, g)'
  BY <1>2 DEF Releasing, Meant, Types, TypeOK
<1>4. x \in Attachers => x \notin Calls
  BY DEF AttachmentsAssumption
<1>5. Fits'
  <2>1. SUFFICES ASSUME NEW u \in Threads, NEW y \in Contexts, NEW g \in Places \cup Calls,
                        Waits(u, y, g)'
                 PROVE  Meant(u, y, g)'
    BY DEF Fits
  <2>2. CASE Waits(u, y, g) /\ (y # x \/ g # h)
    <3>1. Meant(u, y, g)
      BY <2>2 DEF Fits
    <3>2. g \in held'[y]
      BY <1>3, <2>2, <3>1 DEF Meant
    <3>3. \A c \in Calls : y \in Calls /\ hook'[c] = y => hook[c] = y
      BY <1>3 DEF AttachmentsAssumption
    <3>. QED  BY <1>1, <3>1, <3>2, <3>3, StillMeant
  <2>3. CASE /\ u = t /\ y \in Calls /\ g = "connection" /\ y # x
             /\ ~built[y] /\ "connection" \in held[y] /\ \A c \in Calls : hook'[c] # y
    <3>1. g \in held'[y]
      BY <1>3, <2>3
    <3>. QED  BY <1>1, <2>3, <3>1 DEF Meant, OfRuntime, AttachmentsAssumption
  <2>. QED  BY <1>2, <2>1, <2>2, <2>3 DEF Releasing
<1>6. Apart' /\ Once'
  BY ReleaseWaits
<1>7. HeldByAttachments'
  <2>1. SUFFICES ASSUME NEW a \in Attachers PROVE HeldByAttachment(a)'
    BY DEF HeldByAttachments
  <2>2. HeldByAttachment(a) /\ phase'[a] = phase[a] /\ a \in Contexts /\ a \in Threads
    BY <1>1 DEF HeldByAttachments, Contexts, Threads
  <2>3. CASE a # x
    <3>1. held'[a] = held[a]
      BY <1>3, <2>2, <2>3
    <3>2. \A u \in Threads : \A g : Waits(u, a, g) => Waits(u, a, g)'
      BY <1>3, <2>3
    <3>. QED  BY <1>1, <2>2, <3>1, <3>2 DEF HeldByAttachment, Threads
  <2>4. CASE a = x
    <3>1. held'[a] = held[a] \ {h} /\ OfAttachment(t, a, h)
      BY <1>3, <2>4
    <3>2. \A u \in Threads : \A g : Waits(u, a, g) /\ g # h => Waits(u, a, g)'
      BY <1>3, <2>4
    <3>3. CASE phase[a] \in {"failed", "dropping"}
      <4>1. h \in {"entry", "connection"} /\ (phase[a] = "dropping" => h = "connection")
        BY <3>1, <3>3 DEF OfAttachment, Stages, Entered, AttachmentsAssumption
      <4>. QED  BY <2>2, <3>1, <3>2, <3>3, <4>1 DEF HeldByAttachment
    <3>4. CASE phase[a] \notin {"failed", "dropping"}
      <4>1. h \in Calls /\ inside[h] = a /\ phase[a] \in {"attached", "stopping"}
        BY <3>1, <3>4 DEF OfAttachment, Stages, Entered, AttachmentsAssumption
      <4>2. h \notin {"slot", "connection"}
        BY <4>1 DEF AttachmentsAssumption
      <4>. QED  BY <1>1, <2>2, <3>1, <3>2, <4>1, <4>2 DEF HeldByAttachment, Threads
    <3>. QED  BY <3>3, <3>4
  <2>. QED  BY <2>3, <2>4
<1>8. HeldByRuntimes'
  <2>1. SUFFICES ASSUME NEW c \in Calls PROVE HeldByRuntime(c)'
    BY DEF HeldByRuntimes
  <2>2. HeldByRuntime(c) /\ c \in Contexts
    BY DEF HeldByRuntimes, Contexts
  <2>3. temp[c] # Nobody => c \in held'[temp[c]]
    <3>1. SUFFICES ASSUME temp[c] = x, h = c, x \in Attachers PROVE FALSE
      BY <1>3, <2>2 DEF HeldByRuntime, Types, TypeOK, Contexts
    <3>2. temp[c] = Nobody
      BY <1>3, <3>1 DEF OfAttachment, AttachmentsAssumption
    <3>. QED  BY <3>1, <3>2 DEF AttachmentsAssumption
  <2>4. hook'[c] # Nobody => hook'[c] # c /\ "connection" \in held'[hook'[c]]
    <3>1. SUFFICES ASSUME hook'[c] # Nobody PROVE hook'[c] # c /\ "connection" \in held'[hook'[c]]
      OBVIOUS
    <3>2. hook'[c] = hook[c] /\ hook[c] \in Calls /\ hook[c] # c /\ "connection" \in held[hook[c]]
      BY <1>3, <2>2, <3>1 DEF HeldByRuntime, Types, TypeOK
    <3>3. CASE hook[c] = x
      <4>1. h # "connection"
        BY <1>3, <3>2, <3>3 DEF OfRuntime
      <4>. QED  BY <1>3, <3>2, <3>3, <4>1
    <3>4. CASE hook[c] # x
      BY <1>3, <3>2, <3>4 DEF Contexts
    <3>. QED  BY <3>3, <3>4
  <2>5. CASE c # x
    <3>1. held'[c] = held[c]
      BY <1>3, <2>2, <2>5
    <3>. QED  BY <1>1, <2>2, <2>3, <2>4, <3>1 DEF HeldByRuntime
  <2>6. CASE c = x
    <3>1. ~built[c] /\ held'[c] = held[c] \ {h} /\ h \in held[c]
      BY <1>3, <2>6 DEF OfRuntime
    <3>. QED  BY <1>1, <2>2, <2>3, <2>4, <3>1 DEF HeldByRuntime
  <2>. QED  BY <2>5, <2>6
<1>. QED  BY <1>5, <1>6, <1>7, <1>8

-----------------------------------------------------------------------------
(* The owner's counts.                                                      *)
Gone(x) == OwnerOf(x) # Nobody /\ Cleared(OwnerOf(x))
Counted(x) ==
  /\ IsFiniteSet(held[x])
  /\ refs[x] = IF Gone(x) THEN 0 ELSE Cardinality(held[x])
Counts == \A x \in Contexts : Counted(x)

AInv == Types /\ Stages /\ Handles /\ Counts

LEMMA OneHandle ==
  ASSUME NEW S, IsFiniteSet(S), NEW h
  PROVE  /\ IsFiniteSet({h}) /\ Cardinality({h}) = 1 /\ Cardinality(S) \in Nat
         /\ IsFiniteSet(S \cup {h}) /\ (h \notin S => Cardinality(S \cup {h}) = Cardinality(S) + 1)
         /\ IsFiniteSet(S \ {h}) /\ (h \in S => Cardinality(S \ {h}) = Cardinality(S) - 1)
BY FS_Singleton, FS_AddElement, FS_RemoveElement, FS_CardinalityType

(* Attachments come to their end, and runtimes to an owner, in two actions.  *)
LEMMA GoneSame ==
  ASSUME AttachmentsAssumption, Types, Stages, Next,
         \A a \in Attachers : ~HostDetach(a), \A c \in Calls : ~BuildRuntime(c)
  PROVE  \A x \in Contexts : (Gone(x)' <=> Gone(x))
<1>. USE DEF slotVars, callVars, runtimeVars, countVars
<1>1. home' = home
  BY DEF Next, Attach, CloneEntry, BuildContext, BuildContextFails, install_handle, AttachFails,
         StopAccepting, TakeSlot, Idle, EndDetach, Enter, Leave, CloneAttached, BuildRefused,
         install_host, BuildGuestFails, DropRuntime, release_handle, Unlock
<1>2. \A a \in Attachers : (Cleared(a)' <=> Cleared(a))
  <2>1. CASE \E a \in Attachers :
               \/ Attach(a) \/ CloneEntry(a) \/ BuildContext(a) \/ BuildContextFails(a)
               \/ install_handle(a) \/ AttachFails(a) \/ StopAccepting(a) \/ TakeSlot(a)
               \/ Idle(a) \/ EndDetach(a)
    <3>1. PICK a \in Attachers :
               \/ Attach(a) \/ CloneEntry(a) \/ BuildContext(a) \/ BuildContextFails(a)
               \/ install_handle(a) \/ AttachFails(a) \/ StopAccepting(a) \/ TakeSlot(a)
               \/ Idle(a) \/ EndDetach(a)
      BY <2>1
    <3>2. \A b \in Attachers \ {a} : phase'[b] = phase[b]
      BY <3>1 DEF Turn, Attach, CloneEntry, BuildContext, BuildContextFails, install_handle,
                  AttachFails, StopAccepting, TakeSlot, Idle, EndDetach, Types, TypeOK
    <3>3. (Cleared(a)' <=> Cleared(a))
      <4>1. CASE Idle(a)
        BY <4>1, TurnPhase DEF Idle, Cleared
      <4>2. CASE EndDetach(a)
        <5>1. phase[a] = "returned"
          BY <4>2 DEF EndDetach, Stages, Slotted
        <5>2. phase' = [phase EXCEPT ![a] = "done"]
          BY <4>2, <5>1 DEF EndDetach
        <5>. QED  BY <5>1, <5>2 DEF Cleared, Types, TypeOK
      <4>3. CASE ~Idle(a) /\ ~EndDetach(a)
        <5>1. <<phase[a], phase'[a]>> \in AttachTurns
          BY <3>1, <4>3, AttachTurn
        <5>. QED  BY <5>1 DEF AttachTurns, Cleared
      <4>. QED  BY <4>1, <4>2, <4>3
    <3>. QED  BY <3>2, <3>3 DEF Cleared
  <2>2. CASE UNCHANGED phase
    BY <2>2 DEF Cleared
  <2>3. CASE \/ \E c \in Calls :
                  \/ \E a \in Attachers : Enter(c, a)
                  \/ Leave(c) \/ CloneAttached(c) \/ BuildRefused(c)
                  \/ install_host(c) \/ BuildGuestFails(c) \/ DropRuntime(c)
             \/ \E t \in Threads : release_handle(t) \/ Unlock(t)
    <3>1. UNCHANGED phase
      BY <2>3 DEF Enter, Leave, CloneAttached, BuildRefused, install_host, BuildGuestFails,
                  DropRuntime, release_handle, Unlock
    <3>. QED  BY <3>1 DEF Cleared
  <2>. QED  BY <2>1, <2>3 DEF Next
<1>3. \A x \in Contexts : OwnerOf(x)' = OwnerOf(x) /\ OwnerOf(x) \in Attachers \cup {Nobody}
  BY <1>1 DEF OwnerOf, Contexts, Types, TypeOK
<1>. QED  BY <1>2, <1>3 DEF Gone

LEMMA SameCounts ==
  ASSUME Counts, UNCHANGED <<refs, held>>, \A x \in Contexts : (Gone(x)' <=> Gone(x))
  PROVE  Counts'
BY DEF Counts, Counted

(* One context's count and holders change together.                        *)
LEMMA OneCounts ==
  ASSUME Types, Counts, NEW x \in Contexts, NEW n, NEW S,
         refs' = [refs EXCEPT ![x] = n], held' = [held EXCEPT ![x] = S],
         \A y \in Contexts \ {x} : (Gone(y)' <=> Gone(y)),
         ~Gone(x)', IsFiniteSet(S), n = Cardinality(S)
  PROVE  Counts'
<1>1. /\ refs'[x] = n /\ held'[x] = S
      /\ \A y \in Contexts \ {x} : refs'[y] = refs[y] /\ held'[y] = held[y]
  BY DEF Types, TypeOK
<1>2. Counted(x)'
  BY <1>1 DEF Counted
<1>3. \A y \in Contexts \ {x} : Counted(y)'
  BY <1>1 DEF Counts, Counted
<1>. QED  BY <1>2, <1>3 DEF Counts

LEMMA HandleCounts ==
  ASSUME AttachmentsAssumption, Types, Stages, Handles, Counts, Next
  PROVE  Counts'
<1>. USE DEF slotVars, callVars, runtimeVars, countVars, Handles
<1>1. CASE \E c \in Calls : BuildRuntime(c)
  <2>1. PICK c \in Calls : BuildRuntime(c)
    BY <1>1
  <2>2. /\ refs' = [refs EXCEPT ![c] = 1] /\ held' = [held EXCEPT ![c] = {"runtime"}]
        /\ home' = [home EXCEPT ![c] = temp[c]] /\ phase' = phase
    BY <2>1 DEF BuildRuntime, export_handle
  <2>3. temp[c] \in Attachers /\ phase[temp[c]] \in {"attached", "stopping"}
    BY <2>1, StepPc DEF BuildRuntime, Stages, Entered
  <2>4. c \in Contexts \ Attachers
    BY DEF Contexts, AttachmentsAssumption
  <2>5. \A y \in Contexts \ {c} : Gone(y)' <=> Gone(y)
    <3>1. \A y \in Contexts \ {c} : OwnerOf(y)' = OwnerOf(y)
      BY <2>2 DEF OwnerOf, Contexts, Types, TypeOK
    <3>. QED  BY <2>2, <3>1 DEF Gone, Cleared
  <2>6. ~Gone(c)'
    <3>1. OwnerOf(c)' = temp[c]
      BY <2>2, <2>4 DEF OwnerOf, Types, TypeOK
    <3>. QED  BY <2>2, <2>3, <3>1 DEF Gone, Cleared
  <2>. QED  BY <2>2, <2>4, <2>5, <2>6, OneCounts, FS_Singleton
<1>2. CASE \E a \in Attachers : HostDetach(a)
  <2>1. PICK a \in Attachers : HostDetach(a)
    BY <1>2
  <2>2. taken[a] = a /\ ~Refuses(a) /\ phase[a] = "host"
    BY <2>1, NotRefused DEF HostDetach
  <2>3. /\ Turn(a, "host", "returned") /\ held' = [held EXCEPT ![a] = @ \ {"slot"}]
        /\ refs' = [x \in Contexts |-> IF x \in {a} \cup Of(a) THEN 0 ELSE refs[x]]
        /\ home' = home
    BY <2>1, <2>2 DEF HostDetach
  <2>4. phase'[a] = "returned" /\ \A b \in Attachers \ {a} : phase'[b] = phase[b]
    BY <2>3, TurnPhase
  <2>5. SUFFICES ASSUME NEW x \in Contexts PROVE Counted(x)'
    BY DEF Counts
  <2>6. /\ refs'[x] = IF x \in {a} \cup Of(a) THEN 0 ELSE refs[x]
        /\ IsFiniteSet(held'[x]) /\ (x # a => held'[x] = held[x])
    <3>1. IsFiniteSet(held[x]) /\ IsFiniteSet(held[x] \ {"slot"})
      BY OneHandle DEF Counts, Counted
    <3>2. held'[x] = IF x = a THEN held[x] \ {"slot"} ELSE held[x]
      BY <2>3 DEF Types, TypeOK
    <3>. QED  BY <2>3, <3>1, <3>2
  <2>7. OwnerOf(x)' = OwnerOf(x) /\ OwnerOf(x) \in Attachers \cup {Nobody}
    BY <2>3 DEF OwnerOf, Contexts, Types, TypeOK
  <2>8. OwnerOf(x) = a <=> x \in {a} \cup Of(a)
    BY DEF OwnerOf, Of, Contexts, AttachmentsAssumption
  <2>9. CASE OwnerOf(x) = a
    BY <2>4, <2>6, <2>7, <2>8, <2>9 DEF Counted, Gone, Cleared, AttachmentsAssumption
  <2>10. CASE OwnerOf(x) # a
    <3>1. refs'[x] = refs[x] /\ held'[x] = held[x] /\ (Gone(x)' <=> Gone(x))
      BY <2>4, <2>6, <2>7, <2>8, <2>10 DEF Gone, Cleared
    <3>. QED  BY <2>6, <3>1 DEF Counts, Counted
  <2>. QED  BY <2>9, <2>10
<1>3. CASE ~(\E c \in Calls : BuildRuntime(c)) /\ ~(\E a \in Attachers : HostDetach(a))
  <2>1. \A x \in Contexts : Gone(x)' <=> Gone(x)
    BY <1>3, GoneSame
  <2>2. CASE \E a \in Attachers :
               Attach(a) \/ CloneEntry(a) \/ (install_handle(a) /\ slot = Nobody)
    <3>1. PICK a \in Attachers :
               Attach(a) \/ CloneEntry(a) \/ (install_handle(a) /\ slot = Nobody)
      BY <2>2
    <3>2. a \in Contexts /\ HeldByAttachment(a) /\ Counted(a) /\ OwnerOf(a) = a
      BY DEF Contexts, HeldByAttachments, Counts, OwnerOf
    <3>3. ~Gone(a)'
      <4>1. phase'[a] \in {"entry", "cloned", "attached"}
        BY <3>1, TurnPhase DEF Attach, CloneEntry, install_handle
      <4>. QED  BY <4>1 DEF Gone, Cleared, OwnerOf
    <3>4. ~Gone(a)
      BY <2>1, <3>2, <3>3
    <3>5. CASE Attach(a)
      BY <2>1, <3>2, <3>3, <3>5, OneCounts, FS_Singleton DEF Attach, export_handle
    <3>6. CASE CloneEntry(a)
      <4>1. /\ refs' = [refs EXCEPT ![a] = refs[a] + 1]
            /\ held' = [held EXCEPT ![a] = held[a] \cup {"connection"}]
        BY <3>6 DEF CloneEntry, retain_handle
      <4>2. "connection" \notin held[a]
        BY <3>2, <3>6, TurnPhase DEF CloneEntry, HeldByAttachment
      <4>3. /\ IsFiniteSet(held[a] \cup {"connection"})
            /\ refs[a] + 1 = Cardinality(held[a] \cup {"connection"})
        BY <3>2, <3>4, <4>2, OneHandle DEF Counted
      <4>. QED  BY <2>1, <3>2, <3>3, <4>1, <4>3, OneCounts
    <3>7. CASE install_handle(a) /\ slot = Nobody
      <4>1. refs' = refs /\ held' = [held EXCEPT ![a] = (held[a] \ {"entry"}) \cup {"slot"}]
        BY <3>7 DEF install_handle
      <4>2. held[a] = {"entry", "connection"}
        BY <3>2, <3>7, TurnPhase DEF install_handle, HeldByAttachment
      <4>3. /\ IsFiniteSet(held[a] \ {"entry"})
            /\ Cardinality(held[a] \ {"entry"}) = refs[a] - 1
            /\ Cardinality(held[a] \ {"entry"}) \in Nat
        BY <3>2, <3>4, <4>2, OneHandle DEF Counted
      <4>4. "slot" \notin held[a] \ {"entry"}
        BY <4>2
      <4>5. /\ IsFiniteSet((held[a] \ {"entry"}) \cup {"slot"})
            /\ Cardinality((held[a] \ {"entry"}) \cup {"slot"}) = (refs[a] - 1) + 1
        BY <4>3, <4>4, OneHandle
      <4>6. refs[a] = (refs[a] - 1) + 1 /\ refs' = [refs EXCEPT ![a] = refs[a]]
        BY <3>2, <4>1 DEF Types, TypeOK
      <4>. QED  BY <2>1, <3>2, <3>3, <4>1, <4>5, <4>6, OneCounts
    <3>. QED  BY <3>1, <3>5, <3>6, <3>7
  <2>3. CASE \E c \in Calls : CloneAttached(c) \/ install_host(c)
    <3>1. PICK c \in Calls : CloneAttached(c) \/ install_host(c)
      BY <2>3
    <3>2. CASE CloneAttached(c)
      <4>1. /\ slot \in Attachers /\ refs[slot] > 0 /\ pc[c] = "run" /\ todo[c] = <<>>
            /\ refs' = [refs EXCEPT ![slot] = refs[slot] + 1]
            /\ held' = [held EXCEPT ![slot] = held[slot] \cup {c}]
        BY <3>2, StepPc DEF CloneAttached, retain_handle, Types, TypeOK
      <4>2. slot \in Contexts /\ HeldByAttachment(slot) /\ Counted(slot)
        BY <4>1 DEF Contexts, HeldByAttachments, Counts
      <4>3. phase[slot] \in Installed /\ temp[c] = Nobody
        BY <4>1 DEF Stages, Slotted, Entered
      <4>4. ~Gone(slot)
        BY <4>1, <4>3 DEF Gone, Cleared, OwnerOf, Installed
      <4>5. c \notin held[slot]
        <5>1. ~Waits(c, slot, c)
          BY <4>1, WaitsNone
        <5>2. temp[c] # slot /\ c \notin {"slot", "connection"}
          BY <4>1, <4>3 DEF AttachmentsAssumption
        <5>. QED  BY <4>2, <4>3, <5>1, <5>2 DEF HeldByAttachment, Installed
      <4>6. /\ IsFiniteSet(held[slot] \cup {c})
            /\ refs[slot] + 1 = Cardinality(held[slot] \cup {c})
        BY <4>2, <4>4, <4>5, OneHandle DEF Counted
      <4>. QED  BY <2>1, <4>1, <4>2, <4>4, <4>6, OneCounts
    <3>3. CASE install_host(c)
      <4>1. /\ refs[c] > 0 /\ pc[c] = "install"
            /\ refs' = [refs EXCEPT ![c] = refs[c] + 1]
            /\ held' = [held EXCEPT ![c] = held[c] \cup {"connection"}]
        BY <3>3, StepPc DEF install_host, retain_handle
      <4>2. c \in Contexts /\ HeldByRuntime(c) /\ Counted(c)
        BY DEF Contexts, HeldByRuntimes, Counts
      <4>3. ~Gone(c)
        BY <4>1, <4>2 DEF Counted
      <4>4. "connection" \notin held[c]
        BY <4>1, <4>2 DEF HeldByRuntime
      <4>5. /\ IsFiniteSet(held[c] \cup {"connection"})
            /\ refs[c] + 1 = Cardinality(held[c] \cup {"connection"})
        BY <4>2, <4>3, <4>4, OneHandle DEF Counted
      <4>. QED  BY <2>1, <4>1, <4>2, <4>3, <4>5, OneCounts
    <3>. QED  BY <3>1, <3>2, <3>3
  <2>4. CASE \E t \in Threads : release_handle(t)
    <3>1. PICK t \in Threads : release_handle(t)
      BY <2>4
    <3>2. PICK x \in Contexts, h \in Places \cup Calls : Releasing(t, x, h)
      BY <3>1, ReleaseWaits
    <3>3. /\ h \in held[x] /\ refs[x] > 0
          /\ refs' = [refs EXCEPT ![x] = refs[x] - 1] /\ held' = [held EXCEPT ![x] = held[x] \ {h}]
      BY <3>2 DEF Releasing, Meant
    <3>4. Counted(x)
      BY DEF Counts
    <3>5. ~Gone(x)
      BY <3>3, <3>4 DEF Counted
    <3>6. IsFiniteSet(held[x] \ {h}) /\ refs[x] - 1 = Cardinality(held[x] \ {h})
      BY <3>3, <3>4, <3>5, OneHandle DEF Counted
    <3>. QED  BY <2>1, <3>3, <3>5, <3>6, OneCounts
  <2>5. CASE UNCHANGED <<refs, held>>
    BY <2>1, <2>5, SameCounts
  <2>. QED
    BY <1>3, <2>2, <2>3, <2>4, <2>5
       DEF Next, BuildContext, BuildContextFails, install_handle, AttachFails, StopAccepting,
           TakeSlot, Idle, EndDetach, Enter, Leave, BuildRefused, BuildGuestFails, DropRuntime, Unlock
<1>. QED  BY <1>1, <1>2, <1>3

-----------------------------------------------------------------------------
(* The invariant and the theorems                                           *)
LEMMA InitInv == AttachmentsAssumption /\ Init => AInv
<1> SUFFICES ASSUME AttachmentsAssumption, Init PROVE AInv
  OBVIOUS
<1>. USE DEF Init
<1>1. Types
  BY DEF Types, TypeOK, Phases, AttachmentsAssumption
<1>2. Stages
  <2>1. Slotted
    BY DEF Slotted, Installed, AttachmentsAssumption
  <2>2. Entered
    BY DEF Entered, Threads
  <2>3. Owned
    BY DEF Owned
  <2>. QED  BY <2>1, <2>2, <2>3 DEF Stages
<1>3. \A t \in Threads : todo[t] = <<>>
  OBVIOUS
<1>4. Fits /\ Apart /\ Once
  BY <1>3, WaitsNone, DistinctOne DEF Fits, Apart, Once
<1>5. HeldByAttachments /\ HeldByRuntimes
  BY DEF HeldByAttachments, HeldByAttachment, HeldByRuntimes, HeldByRuntime, Contexts
<1>6. Counts
  BY FS_EmptySet DEF Counts, Counted, Contexts
<1>. QED  BY <1>1, <1>2, <1>4, <1>5, <1>6 DEF AInv, Handles

LEMMA NextTypes == ASSUME AttachmentsAssumption, Types, Stages, Next PROVE Types'
BY AttacherTypes, InstallTypes, DetachTypes, CallTypes, RuntimeTypes, ReleasingTypes DEF Next, Stages

LEMMA NextStages == ASSUME AttachmentsAssumption, Types, Stages, Next PROVE Stages'
BY AttachStages, DetachStages, CallStages, ReleasingStages DEF Next

LEMMA NextHandles ==
  ASSUME AttachmentsAssumption, Types, Stages, Handles, Next
  PROVE  Handles'
BY PhaseHandles, InsideHandles, AttachHandles, CloneHandles, InstallHandles, FailsHandles,
   IdleHandles, RefusedHandles, BuildHandles, GuestFailsHandles, DropHandles, ClearedHandles,
   EndHandles, UnlockHandles, ReleaseHandles
   DEF Next

LEMMA NextInv == AttachmentsAssumption /\ AInv /\ [Next]_vars => AInv'
<1> SUFFICES ASSUME AttachmentsAssumption, AInv, [Next]_vars PROVE AInv'
  OBVIOUS
<1>1. CASE Next
  BY <1>1, NextTypes, NextStages, NextHandles, HandleCounts DEF AInv
<1>2. CASE UNCHANGED vars
  <2>1. UNCHANGED <<slot, taken, phase, accepting, pc, inside, temp, home, built, runtime, hook,
                    refs, held, lock, todo>>
    BY <1>2 DEF vars, slotVars, callVars, runtimeVars, countVars
  <2>2. Types' /\ Stages'
    BY <2>1 DEF AInv, Types, TypeOK, Stages, Slotted, Entered, Owned, Cleared
  <2>3. \A t, x, h : Waits(t, x, h)' <=> Waits(t, x, h)
    BY <2>1 DEF Waits
  <2>4. Fits' /\ Apart' /\ Once'
    BY <2>1, <2>3 DEF AInv, Handles, Fits, Apart, Once, Distinct, Meant, OfAttachment, OfRuntime
  <2>5. HeldByAttachments' /\ HeldByRuntimes'
    BY <2>1, <2>3 DEF AInv, Handles, HeldByAttachments, HeldByAttachment, HeldByRuntimes, HeldByRuntime
  <2>6. Counts'
    BY <2>1 DEF AInv, Counts, Counted, Gone, Cleared, OwnerOf
  <2>. QED  BY <2>2, <2>4, <2>5, <2>6 DEF AInv, Handles
<1>. QED  BY <1>1, <1>2

(* The invariant of the proofs: stages of attachments and calls, what waits  *)
(* to be released and for what reason, and the counts of every context.      *)
THEOREM AttachmentsInvariant == Spec => []AInv
<1>1. Init => AInv
  BY InitInv, AttachmentsAssumption
<1>2. AInv /\ [Next]_vars => AInv'
  BY NextInv, AttachmentsAssumption
<1>. QED  BY <1>1, <1>2, PTL DEF Spec

(* Slot, handles, counts and locks keep their types.                         *)
THEOREM AttachmentsTypeOK == Spec => []TypeOK
<1>1. AInv => TypeOK
  BY DEF AInv, Types
<1>. QED  BY <1>1, AttachmentsInvariant, PTL

(* The owner's count of a context is the number of Handles the plugin has.   *)
THEOREM ReferencesCounted == Spec => []CountsMatch
<1>1. AInv => CountsMatch
  BY DEF AInv, Counts, Counted, Gone, CountsMatch
<1>. QED  BY <1>1, AttachmentsInvariant, PTL

(* A call works through the handle of the attachment it has entered.         *)
THEOREM CallsOnOwnHandle == Spec => []OwnHandle
<1>1. AInv => OwnHandle
  <2>1. ASSUME AInv, NEW c \in Calls, pc[c] # "idle" PROVE slot = inside[c]
    BY <2>1 DEF AInv, Stages, Entered, Slotted, Installed
  <2>. QED  BY <2>1 DEF AInv, Stages, Entered, OwnHandle
<1>. QED  BY <1>1, AttachmentsInvariant, PTL

(* A failed attach and a detach leave nothing behind, and a detach succeeds.  *)
THEOREM DetachLeavesNothing == Spec => []NothingLeft
<1>1. ASSUME AttachmentsAssumption, AInv PROVE NothingLeft
  <2>1. SUFFICES ASSUME NEW a \in Attachers
                 PROVE  /\ phase[a] \in {"out", "done"} =>
                             /\ slot # a /\ refs[a] = 0 /\ held[a] = {}
                             /\ \A c \in Of(a) : refs[c] = 0 /\ runtime[c] = "none"
                        /\ phase[a] # "stuck"
    BY DEF NothingLeft
  <2>2. phase[a] # "stuck" /\ (phase[a] \in {"out", "done"} => slot # a)
    BY <1>1 DEF AInv, Stages, Slotted, Installed
  <2>3. ASSUME phase[a] \in {"out", "done"} PROVE refs[a] = 0 /\ held[a] = {}
    <3>1. held[a] = {} /\ Counted(a)
      BY <1>1, <2>3 DEF AInv, Handles, HeldByAttachments, HeldByAttachment, Counts, Contexts
    <3>. QED  BY <3>1, FS_EmptySet DEF Counted
  <2>4. ASSUME phase[a] \in {"out", "done"}, NEW c \in Of(a)
        PROVE  refs[c] = 0 /\ runtime[c] = "none"
    <3>1. c \in Calls /\ home[c] = a /\ a # Nobody
      BY <1>1, <2>4 DEF Of, AttachmentsAssumption
    <3>2. phase[a] = "done" /\ runtime[c] = "none"
      BY <1>1, <2>4, <3>1 DEF AInv, Stages, Owned, Installed, Cleared
    <3>3. Gone(c) /\ Counted(c)
      BY <1>1, <3>1, <3>2
         DEF AInv, Counts, Gone, OwnerOf, Cleared, Contexts, AttachmentsAssumption
    <3>. QED  BY <3>2, <3>3 DEF Counted
  <2>. QED  BY <2>2, <2>3, <2>4
<1>2. AInv => NothingLeft
  BY <1>1, AttachmentsAssumption
<1>. QED  BY <1>2, AttachmentsInvariant, PTL

-----------------------------------------------------------------------------
(* Without hooks that keep another runtime's objects a release drops nothing  *)
(* that is released in turn: who has an owner's lock is at the end of a       *)
(* release, and goes on to the next one without it.                         *)
Unhooked == \A c \in Calls : hook[c] = Nobody
Straight(s, t) ==
  \A i \in DOMAIN s : (s[i].begun => i = 1) /\ (s[i].of \in Calls => s[i].of = t /\ home[t] # Nobody)
OneByOne == \A t \in Threads : Straight(todo[t], t)
AtEnd(t, o) ==
  1 \in DOMAIN todo[t] /\ todo[t][1].begun /\ OwnerOf(todo[t][1].of) = o
LockedAtEnd == \A o \in Attachers, t \in Threads : lock[o] = t => AtEnd(t, o)
Simple == Unhooked /\ OneByOne /\ LockedAtEnd

LEMMA NothingDropped == ASSUME Unhooked, NEW xs PROVE Dropped(xs) = <<>>
<1>1. Captured(xs) = {}
  BY DEF Unhooked, Captured
<1>2. Unused(xs) = {}
  BY <1>1 DEF Unused
<1>. QED  BY <1>2 DEF Dropped

(* A thread that has released everything holds no lock, so what is given to   *)
(* it to release does not matter to the locks.                              *)
LEMMA SimpleKept ==
  ASSUME AttachmentsAssumption, Types, Simple, NEW s \in Threads, NEW rs \in Seq(Releases),
         todo[s] = <<>>, todo' = [todo EXCEPT ![s] = rs],
         \A q : Among(rs, q) => ~q.begun /\ (q.of \in Calls => q.of = s /\ home'[s] # Nobody),
         lock' = lock, \A c \in Calls : c # s => home'[c] = home[c],
         \A c \in Calls : hook'[c] \in {hook[c], Nobody}
  PROVE  Simple'
<1>. USE DEF Simple
<1>1. todo'[s] = rs /\ \A t \in Threads \ {s} : todo'[t] = todo[t]
  BY DEF Types
<1>2. Unhooked'
  BY DEF Unhooked
<1>3. OneByOne'
  <2>1. Straight(todo[s], s)' /\ \A t \in Threads : Straight(todo[t], t)
    BY <1>1 DEF Straight, Among, OneByOne
  <2>2. \A t \in Threads \ {s} : \A i \in DOMAIN todo[t] :
          todo[t][i].of \in Calls => home'[t] = home[t]
    BY <2>1 DEF Straight
  <2>3. \A t \in Threads \ {s} : Straight(todo[t], t)'
    BY <1>1, <2>1, <2>2 DEF Straight
  <2>. QED  BY <2>1, <2>3 DEF OneByOne
<1>4. LockedAtEnd'
  <2>1. SUFFICES ASSUME NEW o \in Attachers, NEW t \in Threads, lock[o] = t
                 PROVE  AtEnd(t, o)'
    BY DEF LockedAtEnd
  <2>2. AtEnd(t, o) /\ todo[t] \in Seq(Releases)
    BY <2>1 DEF LockedAtEnd, Types
  <2>3. t # s /\ todo'[t] = todo[t]
    BY <1>1, <2>2 DEF AtEnd
  <2>4. todo[t][1] \in Releases
    BY <2>2 DEF AtEnd
  <2>5. todo[t][1].of \in Contexts
    BY <2>4 DEF Releases
  <2>6. todo[t][1].of \in Calls => todo[t][1].of = t
    BY <2>2 DEF OneByOne, Straight, AtEnd
  <2>7. OwnerOf(todo[t][1].of)' = OwnerOf(todo[t][1].of)
    BY <2>3, <2>5, <2>6 DEF OwnerOf, Contexts
  <2>. QED  BY <2>2, <2>3, <2>7 DEF AtEnd
<1>. QED  BY <1>2, <1>3, <1>4

LEMMA SimpleLater ==
  ASSUME AttachmentsAssumption, Types, Simple, NEW s \in Threads, NEW rs \in Seq(Releases),
         todo[s] = <<>>, Later(s, rs),
         \A q : Among(rs, q) => ~q.begun /\ (q.of \in Calls => q.of = s /\ home'[s] # Nobody),
         lock' = lock, \A c \in Calls : c # s => home'[c] = home[c],
         \A c \in Calls : hook'[c] \in {hook[c], Nobody}
  PROVE  Simple'
BY LaterTypes, SimpleKept

LEMMA SimpleSame ==
  ASSUME Simple, UNCHANGED <<todo, lock, home, hook>>
  PROVE  Simple'
BY DEF Simple, Unhooked, OneByOne, Straight, LockedAtEnd, AtEnd, OwnerOf

LEMMA SimpleAttachments ==
  ASSUME AttachmentsAssumption, Types, Stages, Simple, NEW a \in Attachers,
         \/ Attach(a) \/ CloneEntry(a) \/ BuildContext(a) \/ BuildContextFails(a)
         \/ install_handle(a) \/ AttachFails(a) \/ StopAccepting(a) \/ TakeSlot(a)
         \/ Idle(a) \/ EndDetach(a)
  PROVE  Simple'
<1>. USE DEF slotVars, callVars, runtimeVars, countVars
<1>1. UNCHANGED <<lock, home, hook>>
  BY DEF Attach, CloneEntry, BuildContext, BuildContextFails, install_handle, AttachFails,
         StopAccepting, TakeSlot, Idle, EndDetach
<1>2. a \in Threads \ Calls /\ a \in Contexts
  BY DEF Threads, Contexts, AttachmentsAssumption
<1>3. CASE UNCHANGED todo
  BY <1>1, <1>3, SimpleSame
<1>4. CASE todo' # todo
  <2> DEFINE e == Release(a, "entry")
             f == Release(a, "connection")
  <2>1. todo[a] = <<>>
    BY <1>4, TurnPhase DEF Attach, CloneEntry, BuildContext, BuildContextFails, install_handle,
       AttachFails, StopAccepting, TakeSlot, Idle, EndDetach
  <2>2. PICK rs \in {<<f, e>>, <<e, f>>, <<f>>} : Later(a, rs)
    <3>1. ~EndDetach(a)
      BY <1>4 DEF EndDetach, Stages, Slotted
    <3>. QED
      BY <1>4, <3>1
         DEF Attach, CloneEntry, BuildContext, BuildContextFails, install_handle,
             AttachFails, StopAccepting, TakeSlot, Idle
  <2>3. e \in Releases /\ f \in Releases
    BY <1>2, ReleaseTypes DEF Places
  <2>4. ~e.begun /\ e.of \notin Calls /\ ~f.begun /\ f.of \notin Calls
    BY <1>2 DEF Release
  <2>. HIDE DEF e, f
  <2>5. /\ rs \in Seq(Releases)
        /\ \A q : Among(rs, q) => ~q.begun /\ q.of \notin Calls
    <3>1. CASE rs = <<f>>
      BY <2>3, <2>4, <3>1, AmongOne
    <3>2. CASE rs = <<e, f>>
      BY <2>3, <2>4, <3>2, AmongTwo
    <3>3. CASE rs = <<f, e>>
      BY <2>3, <2>4, <3>3, AmongTwo
    <3>. QED  BY <2>2, <3>1, <3>2, <3>3
  <2>. QED  BY <1>1, <1>2, <2>1, <2>2, <2>5, SimpleLater
<1>. QED  BY <1>3, <1>4

LEMMA SimpleCalls ==
  ASSUME AttachmentsAssumption, ~Capture, Types, Stages, Handles, Simple, NEW c \in Calls,
         \/ \E a \in Attachers : Enter(c, a)
         \/ Leave(c) \/ CloneAttached(c) \/ BuildRuntime(c) \/ BuildRefused(c)
         \/ install_host(c) \/ BuildGuestFails(c) \/ DropRuntime(c)
  PROVE  Simple'
<1>. USE DEF slotVars, callVars, runtimeVars, countVars
<1>1. lock' = lock /\ \A d \in Calls : d # c => home'[d] = home[d]
  BY DEF Enter, Leave, CloneAttached, BuildRuntime, BuildRefused, install_host, BuildGuestFails,
         DropRuntime, Types, TypeOK
<1>2. c \in Threads /\ c \in Contexts
  BY DEF Threads, Contexts
<1>3. \A d \in Calls : hook'[d] \in {hook[d], Nobody}
  BY DEF Enter, Leave, CloneAttached, BuildRuntime, Keepable, BuildRefused, install_host,
         BuildGuestFails, HooksGone, DropRuntime, Types, TypeOK
<1> DEFINE e == Release(temp[c], c)
           r == Release(c, "runtime")
           f == Release(c, "connection")
<1>4. CASE (\E a \in Attachers : Enter(c, a)) \/ Leave(c) \/ CloneAttached(c) \/ install_host(c)
  <2>1. UNCHANGED <<todo, home, hook>>
    BY <1>4 DEF Enter, Leave, CloneAttached, install_host
  <2>. QED  BY <1>1, <2>1, SimpleSame
<1>5. CASE BuildRuntime(c) \/ BuildRefused(c) \/ BuildGuestFails(c) \/ DropRuntime(c)
  <2>1. todo[c] = <<>>
    BY <1>5, StepPc DEF BuildRuntime, BuildRefused, BuildGuestFails, DropRuntime
  <2>2. r \in Releases /\ f \in Releases
    BY <1>2, ReleaseTypes DEF Places
  <2>3. ~r.begun /\ r.of = c /\ ~f.begun /\ f.of = c
    BY DEF Release
  <2>4. CASE BuildRuntime(c) \/ BuildRefused(c)
    <3>1. temp[c] \in Attachers /\ Later(c, <<e>>)
      BY <2>4, StepPc DEF BuildRuntime, BuildRefused, TempDropped, Stages, Entered
    <3>2. e \in Releases /\ ~e.begun /\ e.of \notin Calls
      <4>1. e.of = temp[c] /\ ~e.begun
        BY DEF Release
      <4>. QED  BY <3>1, <4>1, ReleaseTypes DEF Contexts, AttachmentsAssumption
    <3>. HIDE DEF e
    <3>3. <<e>> \in Seq(Releases) /\ \A q : Among(<<e>>, q) => q = e
      BY <3>2, AmongOne
    <3>. QED  BY <1>1, <1>2, <1>3, <2>1, <3>1, <3>2, <3>3, SimpleLater
  <2>5. CASE BuildGuestFails(c) \/ DropRuntime(c)
    <3>1. PICK rs \in {<<r>>, <<f, r>>} : Later(c, rs)
      <4>1. Dropped({c}) = <<>>
        BY NothingDropped DEF Simple
      <4>. QED  BY <2>5, <4>1, TwoOnEnd DEF BuildGuestFails, DropRuntime, DropHost
    <3>. HIDE DEF r, f
    <3>2. /\ rs \in Seq(Releases)
          /\ \A q : Among(rs, q) => ~q.begun /\ q.of = c
      <4>1. CASE rs = <<r>>
        BY <2>2, <2>3, <4>1, AmongOne
      <4>2. CASE rs = <<f, r>>
        BY <2>2, <2>3, <4>2, AmongTwo
      <4>. QED  BY <3>1, <4>1, <4>2
    <3>3. home'[c] # Nobody
      <4>1. built[c] /\ home' = home
        BY <2>5, StepPc DEF BuildGuestFails, DropRuntime, Handles, HeldByRuntimes, HeldByRuntime
      <4>. QED  BY <4>1 DEF Stages, Owned
    <3>. QED  BY <1>1, <1>2, <1>3, <2>1, <3>1, <3>2, <3>3, SimpleLater
  <2>. QED  BY <1>5, <2>4, <2>5
<1>. QED  BY <1>4, <1>5

LEMMA SimpleLocks ==
  ASSUME AttachmentsAssumption, Types, Stages, Simple, NEW a \in Attachers, HostDetach(a)
  PROVE  Simple'
<1>. USE DEF slotVars, callVars, runtimeVars, countVars, Simple
<1>1. taken[a] = a /\ ~Refuses(a)
  BY NotRefused DEF HostDetach
<1> DEFINE b == [Release(a, "slot") EXCEPT !.begun = TRUE]
           all == {a} \cup Of(a)
<1>2. /\ todo[a] = <<>> /\ home' = home /\ lock' = [lock EXCEPT ![a] = a]
      /\ HooksGone(all) /\ Later(a, Dropped(all) \o <<b>>)
  BY <1>1, TurnPhase DEF HostDetach
<1>3. b.begun /\ b.of = a /\ b \in Releases /\ a \in Threads \ Calls
  BY DEF Release, Releases, Contexts, Places, Threads, AttachmentsAssumption
<1>. HIDE DEF b
<1>4. todo'[a] = <<b>> /\ \A t \in Threads \ {a} : todo'[t] = todo[t]
  <2>1. Dropped(all) \o <<b>> = <<b>>
    BY NothingDropped, TwoOnEnd
  <2>2. Later(a, <<b>>) /\ <<b>> \in Seq(Releases)
    <3>1. Later(a, Dropped(all) \o <<b>>)
      BY <1>2
    <3>2. Later(a, <<b>>)
      BY <2>1, <3>1 DEF Later
    <3>. QED  BY <1>3, <3>2
  <2>3. todo' = [todo EXCEPT ![a] = <<b>>]
    BY <1>2, <1>3, <2>2, LaterTypes
  <2>. QED  BY <1>3, <2>3 DEF Types
<1>5. Unhooked'
  BY <1>2 DEF HooksGone, Unhooked
<1>6. OneByOne'
  <2>1. Straight(<<b>>, a)'
    BY <1>3 DEF Straight
  <2>2. \A t \in Threads \ {a} : Straight(todo[t], t)'
    BY <1>2, <1>4 DEF OneByOne, Straight
  <2>. QED  BY <1>4, <2>1, <2>2 DEF OneByOne, Straight
<1>7. LockedAtEnd'
  <2>1. SUFFICES ASSUME NEW o \in Attachers, NEW t \in Threads, lock'[o] = t
                 PROVE  AtEnd(t, o)'
    BY DEF LockedAtEnd
  <2>2. CASE o = a
    <3>1. t = a
      BY <1>2, <2>1, <2>2 DEF Types, TypeOK
    <3>2. 1 \in DOMAIN todo'[a] /\ todo'[a][1] = b
      BY <1>4
    <3>. QED  BY <1>3, <2>2, <3>1, <3>2 DEF AtEnd, OwnerOf
  <2>3. CASE o # a
    <3>1. lock[o] = t
      BY <1>2, <2>1, <2>3 DEF Types, TypeOK
    <3>2. AtEnd(t, o)
      BY <3>1 DEF LockedAtEnd
    <3>3. todo'[t] = todo[t]
      BY <1>2, <1>4, <3>2 DEF AtEnd
    <3>. QED  BY <1>2, <3>2, <3>3 DEF AtEnd, OwnerOf
  <2>. QED  BY <2>2, <2>3
<1>. QED  BY <1>5, <1>6, <1>7

LEMMA SimpleReleases ==
  ASSUME AttachmentsAssumption, Types, Simple, NEW t \in Threads, release_handle(t)
  PROVE  Simple'
<1>. USE DEF slotVars, callVars, runtimeVars, countVars, Simple
<1> DEFINE r == Head(todo[t])
           b == [r EXCEPT !.begun = TRUE]
           K == Tail(todo[t])
<1>1. PICK n \in Nat : /\ todo[t] \in Seq(Releases) /\ DOMAIN todo[t] = 1 .. n + 1
                       /\ r = todo[t][1] /\ Len(K) = n
                       /\ \A i \in 1 .. n : K[i] = todo[t][i + 1]
  <2>1. todo[t] \in Seq(Releases) /\ todo[t] # <<>>
    BY DEF release_handle, Types
  <2>. QED  BY <2>1, FirstAndRest
<1>r. r \in Releases /\ K \in Seq(Releases)
  <2>1. todo[t] # <<>>
    BY DEF release_handle
  <2>. QED  BY <1>1, <2>1
<1>2. ~r.begun /\ home' = home
  BY DEF release_handle
<1>3. b \in Releases /\ b.begun /\ b.of = r.of
  BY <1>r DEF Releases
<1>4. lock' = [lock EXCEPT ![OwnerOf(r.of)] = t]
  BY DEF release_handle
<1>5. todo' = [todo EXCEPT ![t] = <<b>> \o K]
  <2>1. \A gone : Dropped(gone) \o <<b>> = <<b>>
    BY NothingDropped, TwoOnEnd
  <2>2. \E gone : todo' = [todo EXCEPT ![t] = Dropped(gone) \o <<b>> \o K]
    BY DEF release_handle
  <2>. HIDE DEF b, K
  <2>. QED  BY <2>1, <2>2
<1>6. Unhooked'
  BY DEF release_handle, HooksGone, Unhooked
<1>. HIDE DEF b, r, K
<1>7. /\ todo'[t] = <<b>> \o K /\ \A u \in Threads \ {t} : todo'[u] = todo[u]
      /\ DOMAIN todo'[t] = 1 .. n + 1 /\ todo'[t][1] = b
      /\ \A i \in 2 .. n + 1 : todo'[t][i] = todo[t][i]
  <2>1. todo'[t] = <<b>> \o K /\ \A u \in Threads \ {t} : todo'[u] = todo[u]
    BY <1>5 DEF Types
  <2>2. <<b>> \in Seq(Releases) /\ Len(<<b>>) = 1 /\ <<b>>[1] = b
    BY <1>3
  <2>3. /\ DOMAIN (<<b>> \o K) = 1 .. n + 1 /\ (<<b>> \o K)[1] = b
        /\ \A i \in 2 .. n + 1 : (<<b>> \o K)[i] = K[i - 1]
    BY <1>1, <1>r, <2>2
  <2>4. \A i \in 2 .. n + 1 : K[i - 1] = todo[t][i]
    <3>1. \A i \in 2 .. n + 1 : i - 1 \in 1 .. n /\ (i - 1) + 1 = i
      OBVIOUS
    <3>. QED  BY <1>1, <3>1
  <2>. QED  BY <2>1, <2>3, <2>4
<1>8. OneByOne'
  <2>1. Straight(todo[t], t)
    BY DEF OneByOne
  <2>2. \A i \in 1 .. n + 1 : i = 1 \/ i \in 2 .. n + 1
    OBVIOUS
  <2>3. 1 \in 1 .. n + 1
    OBVIOUS
  <2>4. Straight(todo'[t], t)
    BY <1>1, <1>3, <1>7, <2>1, <2>2, <2>3 DEF Straight
  <2>5. Straight(todo[t], t)'
    BY <1>2, <2>4 DEF Straight
  <2>6. \A u \in Threads \ {t} : Straight(todo[u], u)'
    BY <1>2, <1>7 DEF OneByOne, Straight
  <2>. QED  BY <2>5, <2>6 DEF OneByOne
<1>9. LockedAtEnd'
  <2>1. SUFFICES ASSUME NEW o \in Attachers, NEW u \in Threads, lock'[o] = u
                 PROVE  AtEnd(u, o)'
    BY DEF LockedAtEnd
  <2>2. 1 \in 1 .. n + 1
    OBVIOUS
  <2>3. CASE o = OwnerOf(r.of)
    <3>1. u = t
      BY <1>4, <2>1, <2>3 DEF Types, TypeOK
    <3>. QED  BY <1>2, <1>3, <1>7, <2>2, <2>3, <3>1 DEF AtEnd, OwnerOf
  <2>4. CASE o # OwnerOf(r.of)
    <3>1. lock[o] = u
      BY <1>4, <2>1, <2>4 DEF Types, TypeOK
    <3>2. AtEnd(u, o)
      BY <3>1 DEF LockedAtEnd
    <3>3. u # t
      BY <1>1, <1>2, <3>2 DEF AtEnd
    <3>. QED  BY <1>2, <1>7, <3>2, <3>3 DEF AtEnd, OwnerOf
  <2>. QED  BY <2>3, <2>4
<1>. QED  BY <1>6, <1>8, <1>9

LEMMA SimpleUnlock ==
  ASSUME AttachmentsAssumption, Types, Simple, NEW t \in Threads, Unlock(t)
  PROVE  Simple'
<1>. USE DEF slotVars, callVars, runtimeVars, countVars, Simple
<1> DEFINE r == Head(todo[t])
           K == Tail(todo[t])
<1>1. PICK n \in Nat : /\ todo[t] \in Seq(Releases) /\ DOMAIN todo[t] = 1 .. n + 1
                       /\ r = todo[t][1] /\ DOMAIN K = 1 .. n
                       /\ \A i \in 1 .. n : K[i] = todo[t][i + 1]
  <2>1. todo[t] \in Seq(Releases) /\ todo[t] # <<>>
    BY DEF Unlock, Types
  <2>. QED  BY <2>1, FirstAndRest
<1>2. /\ UNCHANGED <<home, hook>> /\ lock' = [lock EXCEPT ![OwnerOf(r.of)] = Nobody]
      /\ todo'[t] = K /\ \A u \in Threads \ {t} : todo'[u] = todo[u]
  BY DEF Unlock, Types
<1>. HIDE DEF r, K
<1>3. Unhooked'
  BY <1>2 DEF Unhooked
<1>4. OneByOne'
  <2>1. Straight(todo[t], t)
    BY DEF OneByOne
  <2>2. \A i \in 1 .. n : i + 1 \in 1 .. n + 1 /\ i + 1 # 1
    OBVIOUS
  <2>3. Straight(K, t)
    <3>1. SUFFICES ASSUME NEW i \in 1 .. n
                   PROVE  ~K[i].begun /\ (K[i].of \in Calls => K[i].of = t /\ home[t] # Nobody)
      BY <1>1 DEF Straight
    <3>2. K[i] = todo[t][i + 1] /\ i + 1 \in DOMAIN todo[t] /\ i + 1 # 1
      BY <1>1, <2>2
    <3>. QED  BY <2>1, <3>2 DEF Straight
  <2>. QED  BY <1>2, <2>3 DEF OneByOne, Straight
<1>5. LockedAtEnd'
  <2>1. SUFFICES ASSUME NEW o \in Attachers, NEW u \in Threads, lock'[o] = u
                 PROVE  AtEnd(u, o)'
    BY DEF LockedAtEnd
  <2>2. o # OwnerOf(r.of) /\ lock[o] = u
    BY <1>2, <2>1 DEF Types, TypeOK, Threads, AttachmentsAssumption
  <2>3. AtEnd(u, o)
    BY <2>2 DEF LockedAtEnd
  <2>4. u # t
    BY <1>1, <2>2, <2>3 DEF AtEnd
  <2>. QED  BY <1>2, <2>3, <2>4 DEF AtEnd, OwnerOf
<1>. QED  BY <1>3, <1>4, <1>5

(* Where hooks keep nothing, no thread waits for a lock that it holds: a      *)
(* release that does needs a hook that keeps another runtime's objects.      *)
THEOREM WithoutHooksNoSelfWait == ASSUME ~Capture PROVE Spec => []NoSelfWait
<1>1. Init => Simple
  <2>1. SUFFICES ASSUME Init PROVE Simple
    OBVIOUS
  <2>2. \A t \in Threads : todo[t] = <<>>
    BY <2>1 DEF Init
  <2>3. \A o \in Attachers, t \in Threads : lock[o] # t
    BY <2>1, AttachmentsAssumption DEF Init, AttachmentsAssumption, Threads
  <2>4. Unhooked
    BY <2>1 DEF Init, Unhooked
  <2>. QED  BY <2>2, <2>3, <2>4 DEF Simple, OneByOne, Straight, LockedAtEnd
<1>2. AInv /\ Simple /\ [Next]_vars => Simple'
  <2>1. SUFFICES ASSUME AttachmentsAssumption, Types, Stages, Handles, Simple, [Next]_vars PROVE Simple'
    BY AttachmentsAssumption DEF AInv
  <2>2. CASE Next
    BY <2>1, <2>2, SimpleAttachments, SimpleCalls, SimpleLocks, SimpleReleases, SimpleUnlock DEF Next
  <2>3. CASE UNCHANGED vars
    BY <2>1, <2>3, SimpleSame DEF vars, runtimeVars
  <2>. QED  BY <2>1, <2>2, <2>3
<1>3. AInv /\ Simple => NoSelfWait
  <2>1. SUFFICES ASSUME AInv, Simple, NEW t \in Threads, todo[t] # <<>>, ~Head(todo[t]).begun,
                        lock[OwnerOf(Head(todo[t]).of)] = t
                 PROVE  FALSE
    BY DEF NoSelfWait
  <2> DEFINE r == Head(todo[t])
  <2>2. todo[t] \in Seq(Releases) /\ r = todo[t][1] /\ r \in Releases
    BY <2>1 DEF AInv, Types
  <2>3. 1 \in DOMAIN todo[t] /\ r.of \in Contexts
    BY <2>1, <2>2 DEF Releases
  <2>4. OwnerOf(r.of) \in Attachers
    <3>1. CASE r.of \in Calls
      <4>1. home[r.of] # Nobody
        BY <2>1, <2>2, <2>3, <3>1 DEF Simple, OneByOne, Straight
      <4>. QED  BY <2>1, <3>1, <4>1, AttachmentsAssumption
                DEF OwnerOf, AInv, Stages, Owned, AttachmentsAssumption
    <3>2. CASE r.of \in Attachers
      BY <3>2 DEF OwnerOf
    <3>. QED  BY <2>3, <3>1, <3>2 DEF Contexts
  <2>5. AtEnd(t, OwnerOf(r.of))
    BY <2>1, <2>4 DEF Simple, LockedAtEnd
  <2>. QED  BY <2>1, <2>2, <2>5 DEF AtEnd
<1>. QED  BY <1>1, <1>2, <1>3, AttachmentsInvariant, PTL DEF Spec
=============================================================================
