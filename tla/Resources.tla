------------------------------- MODULE Resources -------------------------------
(***************************************************************************)
(* What a plugin waits for in the host: descriptors and their readiness      *)
(* operations, timers, signals and runtime dumps.  Each is a HostResource    *)
(* of the owner: the value (the host's AsyncFd, timer, ...) and ONE waker    *)
(* to call when the owner closes it, each under a lock of its own.  The      *)
(* plugin polls through the interface; the owner may stop at any moment.     *)
(* One resource of each kind stands for all of that kind.                    *)
(***************************************************************************)
EXTENDS Readiness, ClockOffsets, FiniteSets

CONSTANTS
  Pollers,     \* executors in or around the plugin that poll its futures
  Nobody,      \* an empty waker slot
  Scenes,      \* which sources a behaviour uses, what runs its pollers, and
               \*   a bound: how often data, signals and dumps arrive
  Delays,      \* what timers are set to, relative to the plugin's now
  Late,        \* how late the plugin may read its clock after the host's
  Again,       \* bound: the kinds a behaviour may create more than once
  MaxTime      \* bound: ticks of the real clock

AllKinds == {"io", "op", "timer", "signal", "dump"}
(* A registration is polled per direction; the other kinds as a whole.     *)
Sources == {"read", "write"} \cup (AllKinds \ {"io"})
Kind(s) == IF s \in {"read", "write"} THEN "io" ELSE s
Needs(s) == {Kind(s)} \cup (IF s = "op" THEN {"io"} ELSE {})
Interest(s) == {IF s = "write" THEN "WRITABLE" ELSE "READABLE"}

ASSUME ResourcesAssumption ==
  /\ Nobody \notin Pollers
  /\ Scenes \subseteq [using : SUBSET Sources, events : 0..255,
                      executor : [Pollers -> {"task", "blockOn", "foreign"}]]
  /\ Delays \subseteq Int /\ Late \subseteq Nat
  /\ MaxTime \in Nat

VARIABLES
  accepting, stage,            \* the owner and how far its stop has come
  toClose, closing,            \* its snapshot; whose value is gone, not its waker
  held, value, waker,          \* per kind: plugin's side, HostResource's fields
  scene,                       \* the one of this behaviour
  poll,                        \* per poller, where its poll stands
  ready, tick, slot, shutdown, \* Tokio: the descriptor, all its waker slots
  avail, edge, events,         \* the system: data, edges not delivered, count
  pending, dumped,             \* a signal, the result of a dump
  real, logical, frozen, hostOrigin, guestOrigin, due,
  want                         \* what the plugin asked for, by the host's clock

ownerVars == <<accepting, stage, toClose, closing>>
resVars == <<held, value, waker>>
ioVars == <<ready, tick, shutdown, avail, edge, events>>
otherVars == <<pending, dumped>>
clockVars == <<real, logical, frozen, hostOrigin, guestOrigin>>
timerVars == <<due, want>>
vars == <<ownerVars, resVars, scene, poll, slot, ioVars, otherVars,
          clockVars, timerVars>>

NoEvent == [tick |-> 0, bits |-> {}]
(* A poller: its place, the source it polls, the event it has been given;   *)
(* and whether another poller has since taken its place in the HostResource *)
(* (displaced) or in Tokio's slot (replaced), which no code records.        *)
At(pc, s, event) == [pc |-> pc, at |-> s, event |-> event,
                     displaced |-> FALSE, replaced |-> FALSE]
Resting(pc) == At(pc, "read", NoEvent)
Stages == {"running", "close", "stopped"}
Waiting == {"stored", "asleep", "awake", "got", "blocked"}

TypeOK ==
  /\ accepting \in BOOLEAN /\ stage \in Stages
  /\ toClose \subseteq AllKinds /\ closing \subseteq AllKinds
  /\ held \in [AllKinds -> BOOLEAN]
  /\ value \in [AllKinds -> {"none", "open", "closed", "gone"}]
  /\ waker \in [AllKinds -> Pollers \cup {Nobody}]
  /\ scene \in Scenes
  /\ poll \in [Pollers -> [pc : Waiting \cup {"idle", "failed", "ended"},
                           at : Sources,
                           event : [tick : 0..255, bits : SUBSET (0..6)],
                           displaced : BOOLEAN, replaced : BOOLEAN]]
  /\ ready \subseteq 0..5 /\ tick \in 0..255 /\ shutdown \in BOOLEAN
  /\ slot \in [Sources -> Pollers \cup {Nobody}]
  /\ avail \subseteq {"read", "write"} /\ edge \subseteq {"read", "write"}
  /\ events \in 0..scene.events /\ pending \in BOOLEAN /\ dumped \in BOOLEAN
  /\ real \in Nat /\ logical \in Nat /\ frozen \in BOOLEAN
  /\ hostOrigin \subseteq Int /\ guestOrigin \subseteq Int
  /\ due \in Int /\ want \in Int

Init ==
  /\ accepting = TRUE /\ stage = "running" /\ toClose = {} /\ closing = {}
  /\ held = [k \in AllKinds |-> FALSE] /\ value = [k \in AllKinds |-> "none"]
  /\ waker = [k \in AllKinds |-> Nobody]
  /\ scene \in Scenes
  /\ poll = [p \in Pollers |-> Resting("idle")]
  /\ ready = {} /\ tick = 0 /\ shutdown = FALSE
  /\ slot = [s \in Sources |-> Nobody] /\ avail = {} /\ edge = {} /\ events = 0
  /\ pending = FALSE /\ dumped = FALSE
  /\ real = 0 /\ logical = 0 /\ frozen = FALSE
  /\ hostOrigin = {} /\ guestOrigin = {} /\ due = 0 /\ want = 0

(* The readiness operation keeps the AsyncFd it was made from.             *)
Registered == value["io"] = "open" \/ value["op"] = "open"
IsReady(s) == shutdown \/ ready \cap Mask(Interest(s)) # {}
Fired(s) ==
  CASE s \in {"read", "write", "op"} -> IsReady(s)
    [] s = "timer" -> due <= logical
    [] s = "signal" -> pending
    [] s = "dump" -> dumped
Users(k) == {p \in Pollers : poll[p].pc \in Waiting /\ Kind(poll[p].at) = k}

(* Calling the wakers in some slots of Tokio, and emptying those slots.    *)
Woken(pollers) ==
  [p \in Pollers |-> IF p \in pollers /\ poll[p].pc = "asleep"
                     THEN At("awake", poll[p].at, NoEvent) ELSE poll[p]]
WakeSlots(sources) ==
  /\ poll' = Woken({slot[s] : s \in sources})
  /\ slot' = [s \in Sources |-> IF s \in sources THEN Nobody ELSE slot[s]]
Rests(p, pc) == poll' = [poll EXCEPT ![p] = Resting(pc)]
Forget(k) == slot' = [s \in Sources |-> IF Kind(s) = k THEN Nobody ELSE slot[s]]

-----------------------------------------------------------------------------
(* HostResource::new, for each kind: refused once the owner has stopped.   *)

Own(k) ==
  /\ k \in UNION {Needs(s) : s \in scene.using} /\ ~held[k] /\ accepting
  /\ value[k] = "none" \/ (value[k] = "gone" /\ k \in Again)
  /\ held' = [held EXCEPT ![k] = TRUE]
  /\ value' = [value EXCEPT ![k] = "open"]
  /\ waker' = [waker EXCEPT ![k] = Nobody]
  /\ UNCHANGED <<ownerVars, scene, poll>>

(* register: a descriptor with data waiting starts with an edge.           *)
Register ==
  /\ Own("io") /\ ~Registered
  /\ ready' = {} /\ tick' = 0 /\ edge' = avail
  /\ UNCHANGED <<slot, shutdown, avail, events, otherVars, clockVars, timerVars>>

(* ready: the future of one readiness operation, over an open registration. *)
StartReady ==
  /\ Own("op") /\ held["io"] /\ value["io"] = "open"
  /\ UNCHANGED <<slot, ioVars, otherVars, clockVars, timerVars>>

SubscribeSignal ==
  /\ Own("signal") /\ pending' = FALSE
  /\ UNCHANGED <<slot, ioVars, dumped, clockVars, timerVars>>

StartDump ==
  /\ Own("dump") /\ dumped' = FALSE
  /\ UNCHANGED <<slot, ioVars, pending, clockVars, timerVars>>

(* Handle::now and Handle::timer on one side, clock and timer on the other. *)
Deadline(delay, late) ==
  LET origin == HostOrigin(hostOrigin, real)
      host == CHOOSE o \in origin : TRUE
      sample == Sample(host, real, logical)
      guest == CHOOSE o \in GuestOrigin(guestOrigin, sample, real, late) : TRUE
      deadline == Apply(sample.logical, guest) + delay
  IN  /\ hostOrigin' = origin /\ guestOrigin' = {guest}
      /\ due' = Apply(Between(guest, deadline), host)
      /\ want' = logical + delay
      /\ UNCHANGED <<real, logical, frozen>>

CreateTimer(delay, late) ==
  /\ Own("timer") /\ Deadline(delay, late)
  /\ UNCHANGED <<slot, ioVars, otherVars>>

(* Timer::reset between two polls; of a closed timer it panics, and with   *)
(* it the poller the timer belongs to.                                      *)
ResetTimer(p, delay) ==
  /\ held["timer"] /\ Users("timer") = {} /\ poll[p].pc = "idle"
  /\ \/ value["timer"] = "open" /\ Deadline(delay, 0) /\ UNCHANGED poll
     \/ /\ value["timer"] = "closed" /\ Rests(p, "failed")
        /\ UNCHANGED <<clockVars, timerVars>>
  /\ UNCHANGED <<ownerVars, resVars, scene, slot, ioVars, otherVars>>

(* release: the owner's map lets go of the resource, whose value is dropped *)
(* with it unless the stop's snapshot holds it too.  The plugin borrows a   *)
(* registration for its operation and a resource for its poll.              *)
Release(k) ==
  /\ held[k] /\ Users(k) = {} /\ (k = "io" => ~held["op"])
  /\ held' = [held EXCEPT ![k] = FALSE]
  /\ IF k \in toClose THEN UNCHANGED <<value, slot>>
                      ELSE value' = [value EXCEPT ![k] = "gone"] /\ Forget(k)
  /\ UNCHANGED <<ownerVars, waker, scene, poll, ioVars, otherVars,
                 clockVars, timerVars>>

-----------------------------------------------------------------------------
(* A poll, in two steps: update_waker and then the value, under the value's *)
(* lock each time; the owner may close the resource in between.             *)

(* A mutant: only an empty place is filled.                                *)
FillWaker(p, k) ==
  IF value[k] = "open" /\ waker[k] = Nobody THEN [waker EXCEPT ![k] = p] ELSE waker
update_waker(p, k) ==
  IF value[k] = "open" THEN [waker EXCEPT ![k] = p] ELSE waker

StoreWaker(p, s) ==
  LET k == Kind(s) IN
  /\ held[k]
  /\ \/ poll[p].pc = "idle" /\ (k # "io" => Users(k) = {})
     \/ poll[p].pc = "awake" /\ poll[p].at = s
  /\ waker' = update_waker(p, k)
  /\ poll' = [q \in Pollers |->
       IF q = p THEN At("stored", s, NoEvent)
       ELSE [poll[q] EXCEPT !.displaced = @ \/ (q \in Users(k) /\ waker'[k] = p)]]
  /\ UNCHANGED <<ownerVars, held, value, scene, slot, ioVars, otherVars, clockVars,
                 timerVars>>

(* ready_poll and poll_host_ready: what the plugin makes of a ready source. *)
PolledEvent(s) ==
  [tick |-> tick,
   bits |-> host_ready(ready \cap Mask(host_interest(telekio_interest(Interest(s)))),
                       shutdown)]

(* A mutant: the source is looked at before the waker is in place only.    *)
SleepUnlooked(p, s) ==
  /\ slot' = [slot EXCEPT ![s] = p]
  /\ poll' = [poll EXCEPT ![p].pc = "asleep"]
  /\ UNCHANGED <<held, value, pending>>

Sleep(p, s) ==
  /\ ~Fired(s)
  /\ slot' = [slot EXCEPT ![s] = p]
  /\ poll' = [q \in Pollers |->
       IF q = p THEN [poll[p] EXCEPT !.pc = "asleep"]
       ELSE [poll[q] EXCEPT !.replaced =
               @ \/ (poll[q].pc = "asleep" /\ poll[q].at = s)]]
  /\ UNCHANGED <<held, value, pending>>

(* An event of the descriptor; an operation is dropped where it is awaited. *)
TakeEvent(p, s) ==
  LET e == PolledEvent(s) IN
  /\ s \in {"read", "write", "op"} /\ Fired(s)
  /\ IF IoReady.SHUTDOWN \in e.bits
     THEN Rests(p, "failed")
     ELSE poll' = [poll EXCEPT ![p] = At("got", IF s = "op" THEN "read" ELSE s,
                                         [e EXCEPT !.bits = ready_event(@)])]
  /\ IF s = "op" /\ s \notin toClose
     THEN held' = [held EXCEPT ![s] = FALSE] /\ value' = [value EXCEPT ![s] = "gone"]
     ELSE UNCHANGED <<held, value>>
  /\ UNCHANGED <<slot, pending>>

(* A timer, a signal or a dump that is there: the future is done with it.  *)
Take(p, s) ==
  /\ poll[p].at = s /\ Fired(s) /\ Rests(p, "idle")
  /\ UNCHANGED <<held, value, slot>>
TakeTimer(p) == Take(p, "timer") /\ UNCHANGED pending
TakeSignal(p) == Take(p, "signal") /\ pending' = FALSE
TakeDump(p) == Take(p, "dump") /\ UNCHANGED pending

(* ... or resource_error, or the panic the plugin makes of it.             *)
PollValue(p) ==
  LET s == poll[p].at IN
  /\ poll[p].pc = "stored"
  /\ \/ /\ value[Kind(s)] = "open"
        /\ \/ Sleep(p, s) \/ TakeEvent(p, s)
           \/ TakeTimer(p) \/ TakeSignal(p) \/ TakeDump(p)
     \/ /\ value[Kind(s)] = "closed" /\ Rests(p, "failed")
        /\ UNCHANGED <<held, value, slot, pending>>
  /\ UNCHANGED <<ownerVars, waker, scene, ioVars, dumped, clockVars, timerVars>>

(* The future is dropped before it is ready.                               *)
GiveUp(p) ==
  /\ poll[p].pc \in {"asleep", "awake"} /\ Rests(p, "idle")
  /\ UNCHANGED <<ownerVars, resVars, scene, slot, ioVars, otherVars, clockVars,
                 timerVars>>

(* try_ready in try_io: the readiness of the moment, without waiting.      *)
TryReady(p, s) ==
  /\ poll[p].pc = "idle" /\ s \in {"read", "write"}
  /\ held["io"] /\ value["io"] = "open"
  /\ PolledEvent(s).bits # {}
  /\ poll' = [poll EXCEPT ![p] = At("got", s, PolledEvent(s))]
  /\ UNCHANGED <<ownerVars, resVars, scene, slot, ioVars, otherVars, clockVars,
                 timerVars>>

(* The plugin's own call on the descriptor: data, or would block.          *)
Operate(p) ==
  LET s == poll[p].at IN
  /\ poll[p].pc = "got"
  /\ \/ s \in avail /\ avail' \in {avail, avail \ {s}} /\ Rests(p, "idle")
     \/ /\ s \notin avail /\ UNCHANGED avail
        /\ poll' = [poll EXCEPT ![p].pc = "blocked"]
  /\ UNCHANGED <<ownerVars, resVars, scene, slot, ready, tick, shutdown, edge,
                 events, otherVars, clockVars, timerVars>>

(* clear_readiness, and clear after try_io: Tokio clears only what the tick *)
(* of the event still stands for.  A closed registration ignores the call.  *)
(* A mutant: whatever has come since the event is cleared too.             *)
ClearedWhateverTick(e) ==
  IF value["io"] = "open" THEN Cleared(ready, tokio_ready(from_bits(e.bits))) ELSE ready
ClearedReadiness(e) ==
  IF value["io"] = "open" /\ e.tick = tick
  THEN Cleared(ready, tokio_ready(from_bits(e.bits))) ELSE ready

Clear(p) ==
  /\ poll[p].pc = "blocked"
  /\ ready' = ClearedReadiness(poll[p].event) /\ Rests(p, "idle")
  /\ UNCHANGED <<ownerVars, resVars, scene, slot, tick, shutdown, avail, edge,
                 events, otherVars, clockVars, timerVars>>

-----------------------------------------------------------------------------
(* The host: its drivers, clock, signals and dumps. *)

Arrive(d) ==
  /\ events < scene.events /\ events' = events + 1
  /\ avail' = avail \cup {d}
  /\ edge' = IF Registered THEN edge \cup {d} ELSE edge
  /\ UNCHANGED <<ownerVars, resVars, scene, poll, slot, ready, tick, shutdown,
                 otherVars, clockVars, timerVars>>

(* An edge reaches the registration, with or without its end of stream.    *)
Deliver(d) ==
  /\ Registered /\ d \in edge /\ edge' = edge \ {d}
  /\ \E closed \in SUBSET {TokioBit.READ_CLOSED} :
       ready' = ready \cup (IF d = "write" THEN {TokioBit.WRITABLE}
                                           ELSE {TokioBit.READABLE} \cup closed)
  /\ tick' = (tick + 1) % 256
  /\ WakeSlots({d} \cup (IF d = "read" THEN {"op"} ELSE {}))
  /\ UNCHANGED <<ownerVars, resVars, scene, shutdown, avail, events, otherVars,
                 clockVars, timerVars>>

(* The runtime of the descriptor ends: everything that waits is woken.  One *)
(* that ends during the stop adds nothing: its resources are closed anyway. *)
DriverShutdown ==
  /\ ~shutdown /\ Registered /\ accepting /\ shutdown' = TRUE
  /\ WakeSlots({"read", "write", "op"})
  /\ UNCHANGED <<ownerVars, resVars, scene, ready, tick, avail, edge, events,
                 otherVars, clockVars, timerVars>>

Notify(k) ==
  /\ k \in {"signal", "dump"} /\ value[k] = "open"
  /\ events < scene.events /\ events' = events + 1
  /\ pending' = (pending \/ k = "signal") /\ dumped' = (dumped \/ k = "dump")
  /\ WakeSlots({k})
  /\ UNCHANGED <<ownerVars, resVars, scene, ready, tick, shutdown, avail, edge,
                 clockVars, timerVars>>

Tick ==
  /\ "timer" \in scene.using /\ real < MaxTime /\ real' = real + 1
  /\ logical' = IF frozen THEN logical ELSE logical + 1
  /\ UNCHANGED <<ownerVars, resVars, scene, poll, slot, ioVars, otherVars,
                 frozen, hostOrigin, guestOrigin, timerVars>>

FireTimer ==
  /\ value["timer"] = "open" /\ due <= logical /\ slot["timer"] # Nobody
  /\ WakeSlots({"timer"})
  /\ UNCHANGED <<ownerVars, resVars, scene, ioVars, otherVars, clockVars, timerVars>>

(* pause, resume and advance: time stands still and moves only by hand.    *)
Pause == "timer" \in scene.using /\ ~frozen /\ frozen' = TRUE /\ UNCHANGED logical
Resume == frozen /\ frozen' = FALSE /\ UNCHANGED logical
Advance == frozen /\ logical < MaxTime /\ logical' = logical + 1 /\ UNCHANGED frozen
TimeControl ==
  /\ Pause \/ Resume \/ Advance
  /\ UNCHANGED <<ownerVars, resVars, scene, poll, slot, ioVars, otherVars,
                 real, hostOrigin, guestOrigin, timerVars>>

-----------------------------------------------------------------------------
(* shutdown_owner: stop accepting, take the snapshot and abort the tasks;   *)
(* close the resources of the snapshot one by one; wake every block_on.     *)

Stop ==
  /\ stage = "running" /\ stage' = "close" /\ accepting' = FALSE
  /\ toClose' = {k \in AllKinds : value[k] \in {"open", "closed"}}
  /\ UNCHANGED <<closing, resVars, scene, poll, slot, ioVars, otherVars,
                 clockVars, timerVars>>

(* HostResource::close: first the value is taken and dropped ...           *)
CloseValue(k) ==
  /\ stage = "close" /\ closing = {} /\ k \in toClose
  /\ closing' = {k} /\ value' = [value EXCEPT ![k] = "closed"] /\ Forget(k)
  /\ UNCHANGED <<accepting, stage, toClose, held, waker, scene, poll, ioVars,
                 otherVars, clockVars, timerVars>>

(* ... and then the waker of the last poll called.                         *)
CloseWaker(k) ==
  /\ k \in closing /\ closing' = {} /\ toClose' = toClose \ {k}
  /\ poll' = Woken({waker[k]}) /\ waker' = [waker EXCEPT ![k] = Nobody]
  /\ value' = IF held[k] THEN value ELSE [value EXCEPT ![k] = "gone"]
  /\ UNCHANGED <<accepting, stage, held, scene, slot, ioVars, otherVars, clockVars, timerVars>>

WakeActivities ==
  /\ stage = "close" /\ toClose = {} /\ stage' = "stopped"
  /\ UNCHANGED <<accepting, toClose, closing, resVars, scene, poll, slot,
                 ioVars, otherVars, clockVars, timerVars>>

(* An aborted task is dropped, a block_on of a stopped owner returns, both  *)
(* at a point where their future is not being polled.                       *)
(* A mutant: the activities of the owner are forgotten.                    *)
TaskMustEnd(p) == scene.executor[p] = "task" /\ stage # "running"
MustEnd(p) ==
  \/ scene.executor[p] = "task" /\ stage # "running"
  \/ scene.executor[p] = "blockOn" /\ stage = "stopped"
EndPoller(p) ==
  /\ MustEnd(p) /\ poll[p].pc \in {"idle", "asleep", "awake"} /\ Rests(p, "ended")
  /\ UNCHANGED <<ownerVars, resVars, scene, slot, ioVars, otherVars, clockVars,
                 timerVars>>

Next ==
  \/ Register \/ StartReady \/ Deliver("read") \/ Deliver("write")
  \/ DriverShutdown \/ Tick \/ FireTimer \/ TimeControl
  \/ Stop \/ WakeActivities
  \/ \E d \in Delays, l \in Late : CreateTimer(d, l)
  \/ SubscribeSignal \/ StartDump
  \/ \E k \in AllKinds : \/ Release(k) \/ Notify(k)
                         \/ CloseValue(k) \/ CloseWaker(k)
  \/ \E s \in scene.using \cap {"read", "write", "op"} : Arrive(IF s = "op" THEN "read" ELSE s)
  \/ \E p \in Pollers :
       \/ \E s \in scene.using : StoreWaker(p, s) \/ TryReady(p, s)
       \/ \E d \in Delays : ResetTimer(p, d)
       \/ PollValue(p) \/ GiveUp(p) \/ Operate(p) \/ Clear(p) \/ EndPoller(p)

(* The stop goes on once begun, a poll once begun returns, and whatever     *)
(* must end does so when a poll has returned, if not after the first.       *)
Fairness ==
  /\ WF_vars(\E k \in AllKinds : CloseValue(k) \/ CloseWaker(k))
  /\ WF_vars(WakeActivities)
  /\ \A p \in Pollers : WF_vars(PollValue(p) \/ Operate(p) \/ Clear(p))
                         /\ SF_vars(EndPoller(p))

Spec == Init /\ [][Next]_vars /\ Fairness

-----------------------------------------------------------------------------
(* Data that has come is never lost between the two Tokios: while the      *)
(* registration lives, its edge is still to be delivered or its readiness   *)
(* stands, whoever clears what at the same time.                            *)
NoLostReadiness ==
  \A d \in avail : Registered => d \in edge \/ IsReady(d)

(* Nobody sleeps on what has fired: whoever sleeps on an open resource is   *)
(* the one Tokio will wake, or another poller of that direction took its    *)
(* place, which Tokio allows.                                               *)
NoSleepOnReady ==
  \A p \in Pollers : LET s == poll[p].at IN
    poll[p].pc = "asleep" /\ value[Kind(s)] = "open" =>
      \/ slot[s] = p /\ (Fired(s) => s = "timer")
      \/ poll[p].replaced

(* Whoever still sleeps on a resource its owner has closed had its waker    *)
(* displaced by a later poller of the same resource: the one waker a        *)
(* HostResource keeps (update_waker) is the last one's.                     *)
ClosedWakesSleeper ==
  \A p \in Pollers : LET k == Kind(poll[p].at) IN
    poll[p].pc = "asleep" /\ value[k] = "closed" /\ k \notin closing =>
      poll[p].displaced

(* A timer goes off at the time of the host the plugin meant, wherever the  *)
(* origins lie, and although the host's clock may stand before its origin.  *)
TimerOnTime == value["timer"] = "open" => due = want

(* When the owner stops nobody waits for ever, displaced or not: tasks and  *)
(* block_on end.  Only a future of the plugin that something outside polls  *)
(* depends on the one waker of its resource.                                *)
StopEndsWaiting ==
  \A p \in Pollers :
    stage # "running" ~>
      IF scene.executor[p] = "foreign" THEN poll[p].pc # "asleep" \/ poll[p].displaced
                                 ELSE poll[p].pc \in {"ended", "failed"}

(* telekio-abi/src/io.rs:199: the descriptor must remain valid until the    *)
(* registration is dropped, which lets the plugin close it afterwards.      *)
DescriptorHeld == Registered => held["io"]
===============================================================================
