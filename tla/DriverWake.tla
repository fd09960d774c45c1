------------------------------ MODULE DriverWake ------------------------------
(***************************************************************************)
(* A file descriptor of the plugin in the host's I/O driver: register_driver *)
(* of the bridge and WakeState of the host's Tokio.  When the descriptor is  *)
(* readable the host calls the plugin back, on the driver's thread or on the *)
(* one that registers, and the plugin (its io_uring handle) must get no call *)
(* once it has released the registration.                                    *)
(*                                                                           *)
(* ScheduledIo is Tokio's own: a readiness with a tick, the reader's waker   *)
(* and a mark that the driver has shut down.                                 *)
(***************************************************************************)
EXTENDS OwnerGate, Naturals, FiniteSets

CONSTANTS
  Driver,       \* the thread that drives the host's I/O
  Creator,      \* the plugin's thread inside register_driver
  MaxEvents     \* bound: how often the descriptor becomes readable

ASSUME DriverAssumption == Driver # Creator /\ MaxEvents \in Nat

VARIABLES
  tick,         \* ScheduledIo: how many events there were,
  ready,        \*   readable,
  gone,         \*   the driver has shut down,
  reader,       \*   WakeState is the waker of the reader
  fresh,        \* an event has come and the plugin was not called since
  arm,          \* where each thread stands in WakeState::arm
  event,        \*   and the tick of the event it handles
  active,       \* WakeLifecycle::active
  closing,      \* WakeLifecycle::closing
  closer,       \* where telekio_deregister stands
  holders,      \* who holds an Arc of the resource: "map", "detach"
  create,       \* where register_driver stands
  guest         \* where the plugin's IoDriverRegistration stands

ioVars     == <<tick, ready, gone, reader, fresh>>
armVars    == <<arm, event, active>>
resVars    == <<holders, create, guest>>
driverVars == <<ioVars, armVars, closing, closer, resVars>>

Threads == {Driver, Creator}

(* A thread between WakeState::enter and the drop of its guard.            *)
Inside == {t \in Threads : arm[t] \in {"poll", "call", "plugin", "clear"}}

DriverTypeOK ==
  /\ tick \in 0..MaxEvents /\ {ready, gone, reader, fresh, closing} \subseteq BOOLEAN
  /\ arm \in [Threads -> {"out", "event", "enter", "poll", "call", "plugin", "clear"}]
  /\ event \in [Threads -> 0..MaxEvents]
  /\ active = Cardinality(Inside)
  /\ busy \cap Threads = {t \in Threads : arm[t] = "plugin"}
  /\ closer \in {"open", "begin", "clear", "deregister", "check", "wait", "closed"}
  /\ holders \subseteq {"map", "detach"}
  /\ create \in {"out", "arm", "failed", "done"}
  /\ guest \in {"none", "held", "releasing", "released"}

DriverInit ==
  /\ tick = 0 /\ ready = FALSE /\ gone = FALSE /\ reader = FALSE /\ fresh = FALSE
  /\ arm = [t \in Threads |-> "out"]
  /\ event = [t \in Threads |-> 0]
  /\ active = 0 /\ closing = FALSE
  /\ closer = "open" /\ holders = {}
  /\ create = "out" /\ guest = "none"

Arm(t, from, to) == arm[t] = from /\ arm' = [arm EXCEPT ![t] = to]

-----------------------------------------------------------------------------
(* The host's I/O driver *)

(* The descriptor becomes readable, or the driver shuts down: ScheduledIo   *)
(* is marked ...                                                           *)
Event ==
  /\ create # "out" /\ tick < MaxEvents /\ ~gone
  /\ Arm(Driver, "out", "event")
  /\ \/ tick' = tick + 1 /\ ready' = TRUE /\ fresh' = TRUE /\ UNCHANGED gone
     \/ gone' = TRUE /\ UNCHANGED <<tick, ready, fresh>>
  /\ UNCHANGED <<gateVars, reader, event, active, closing, closer, resVars>>

(* ... and then the reader's waker is taken and woken: WakeState::wake.    *)
WakeReader ==
  /\ Arm(Driver, "event", IF reader THEN "enter" ELSE "out")
  /\ reader' = FALSE
  /\ UNCHANGED <<gateVars, tick, ready, gone, fresh, event, active, closing, closer, resVars>>

-----------------------------------------------------------------------------
(* WakeState::arm *)

(* Mistake: a wake during the close is counted and served.                 *)
EnterAlways(t) ==
  /\ Arm(t, "enter", "poll")
  /\ active' = active + 1
  /\ UNCHANGED <<gateVars, ioVars, event, closing, closer, resVars>>

(* enter: no more once the close has begun.                                *)
Enter(t) ==
  /\ Arm(t, "enter", IF closing THEN "out" ELSE "poll")
  /\ active' = active + (IF closing THEN 0 ELSE 1)
  /\ UNCHANGED <<gateVars, ioVars, event, closing, closer, resVars>>

(* Readable and not shut down: the callback is due.                        *)
ReadReady(t) ==
  /\ ready /\ ~gone
  /\ Arm(t, "poll", "call")
  /\ event' = [event EXCEPT ![t] = tick]
  /\ UNCHANGED <<gateVars, ioVars, active, closing, closer, resVars>>

(* Mistake: the last one out tells nobody.                                 *)
LeaveQuietly(t) ==
  /\ ~ready \/ gone
  /\ Arm(t, "poll", "out")
  /\ reader' = (reader \/ ~gone)
  /\ active' = active - 1
  /\ UNCHANGED <<gateVars, tick, ready, gone, fresh, event, closing, closer, resVars>>

(* Nothing to read: poll_readiness leaves the waker behind, and the guard's *)
(* drop tells wait_closed when it is the last one.                         *)
Leave(t) ==
  /\ ~ready \/ gone
  /\ Arm(t, "poll", "out")
  /\ reader' = (reader \/ ~gone)
  /\ active' = active - 1
  /\ closer' = IF active = 1 /\ closer = "wait" THEN "check" ELSE closer
  /\ UNCHANGED <<gateVars, tick, ready, gone, fresh, event, closing, resVars>>

(* The callback of register_driver: the plugin is called if its owner      *)
(* admits it, ...                                                          *)
CallPlugin(t) ==
  /\ Admit(t)
  /\ Arm(t, "call", "plugin")
  /\ fresh' = FALSE
  /\ UNCHANGED <<tick, ready, gone, reader, event, active, closing, closer, resVars>>

CallRefused(t) ==
  /\ Refuse
  /\ Arm(t, "call", "clear")
  /\ UNCHANGED <<ioVars, event, active, closing, closer, resVars>>

PluginReturns(t) ==
  /\ Arm(t, "plugin", "clear")
  /\ Dismiss(t)
  /\ UNCHANGED <<ioVars, event, active, closing, closer, resVars>>

(* Mistake: an event that came during the call is cleared with the first.  *)
ClearAll(t) ==
  /\ Arm(t, "clear", "poll")
  /\ ready' = FALSE
  /\ event' = [event EXCEPT ![t] = 0]
  /\ UNCHANGED <<gateVars, tick, gone, reader, fresh, active, closing, closer, resVars>>

(* ... and clear_readiness leaves a later event alone.                     *)
ClearReadiness(t) ==
  /\ Arm(t, "clear", "poll")
  /\ ready' = (ready /\ event[t] # tick)
  /\ event' = [event EXCEPT ![t] = 0]
  /\ UNCHANGED <<gateVars, tick, gone, reader, fresh, active, closing, closer, resVars>>

ArmStep(t) ==
  \/ Enter(t) \/ ReadReady(t) \/ Leave(t)
  \/ CallPlugin(t) \/ CallRefused(t) \/ PluginReturns(t)
  \/ ClearReadiness(t)

-----------------------------------------------------------------------------
(* register_driver *)

(* add_source, and the first arm on the caller's thread.                   *)
Register ==
  /\ create = "out" /\ create' = "arm"
  /\ detach \notin {"idle", "detached"}
  /\ Arm(Creator, "out", "enter")
  /\ UNCHANGED <<gateVars, ioVars, event, active, closing, closer, holders, guest>>

(* HostResource::new; a refused one deregisters what it has registered.    *)
Install ==
  /\ create = "arm" /\ arm[Creator] = "out" /\ accepting
  /\ create' = "done" /\ guest' = "held" /\ holders' = {"map"}
  /\ UNCHANGED <<gateVars, ioVars, armVars, closing, closer>>

InstallRefused ==
  /\ create = "arm" /\ arm[Creator] = "out" /\ ~accepting
  /\ create' = "failed" /\ closer' = "begin"
  /\ UNCHANGED <<gateVars, ioVars, armVars, closing, holders, guest>>

-----------------------------------------------------------------------------
(* telekio_deregister *)

Deregisters(from, to) ==
  /\ closer = from /\ closer' = to
  /\ UNCHANGED <<gateVars, tick, ready, gone, fresh, armVars, resVars>>

BeginClose  == Deregisters("begin", "clear") /\ closing' = TRUE /\ UNCHANGED reader
ClearWakers == Deregisters("clear", "deregister") /\ reader' = FALSE /\ UNCHANGED closing
Deregister  == Deregisters("deregister", "check") /\ UNCHANGED <<reader, closing>>
WaitClosed  == /\ Deregisters("check", IF active = 0 THEN "closed" ELSE "wait")
               /\ UNCHANGED <<reader, closing>>

DeregisterStep == BeginClose \/ ClearWakers \/ Deregister \/ WaitClosed

-----------------------------------------------------------------------------
(* The resource's two ends *)

(* release_driver: the Arc in the owner's map is dropped, and the last one *)
(* deregisters before the release returns.                                 *)
ReleaseDriver ==
  /\ guest = "held" /\ detach # "detached"
  /\ holders' = holders \ {"map"}
  /\ LET last == holders = {"map"} /\ closer = "open" IN
     /\ guest' = IF last THEN "releasing" ELSE "released"
     /\ closer' = IF last THEN "begin" ELSE closer
  /\ UNCHANGED <<gateVars, ioVars, armVars, closing, create>>

DriverReleased ==
  /\ guest = "releasing" /\ closer = "closed"
  /\ guest' = "released"
  /\ UNCHANGED <<gateVars, ioVars, armVars, closing, closer, holders, create>>

(* shutdown_owner's snapshot holds the resource ...                        *)
SnapshotDriver ==
  /\ holders' = IF "map" \in holders THEN holders \cup {"detach"} ELSE holders
  /\ UNCHANGED <<ioVars, armVars, closing, closer, create, guest>>

(* ... HostResource::close takes its value, which deregisters ...          *)
CloseDriver ==
  /\ detach = "close" /\ "detach" \in holders
  /\ closer = "open" /\ closer' = "begin"
  /\ UNCHANGED <<gateVars, ioVars, armVars, closing, resVars>>

(* ... and the snapshot's Arc is dropped.                                  *)
DriverClosed ==
  /\ detach = "close" /\ closer = "closed"
  /\ holders' = holders \ {"detach"} /\ holders' # holders
  /\ UNCHANGED <<gateVars, ioVars, armVars, closing, closer, create, guest>>

(* OwnerState::detach clears the map.                                      *)
DropResources ==
  /\ holders' = {}
  /\ UNCHANGED <<ioVars, armVars, closing, closer, create, guest>>

(* A call of the plugin into the host is under way: it comes from a task of *)
(* the owner, which a detach waits for.                                    *)
Calling == create = "arm" \/ guest = "releasing"

DriverStep ==
  \/ Event \/ WakeReader
  \/ \E t \in Threads : ArmStep(t)
  \/ Register \/ Install \/ InstallRefused
  \/ DeregisterStep
  \/ ReleaseDriver \/ DriverReleased \/ CloseDriver \/ DriverClosed
===============================================================================
