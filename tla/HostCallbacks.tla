----------------------------- MODULE HostCallbacks -----------------------------
(***************************************************************************)
(* The host's callbacks into one plugin, the I/O driver's and the workers',  *)
(* and the detach that ends them: what the plugin may rely on before it      *)
(* releases what a callback uses, and before it is unloaded.                 *)
(***************************************************************************)
EXTENDS DriverWake, WorkerObservers

VARIABLE
  part          \* bound: the plugin has a registration, or it observes workers

(* Activities have ids: those of different callbacks are different.         *)
ASSUME HoldersAssumption ==
  LET tuples == (Workers \cup {Outside}) \X Observers
  IN  /\ Threads \cap Observers = {} /\ tuples \cap (Threads \cup Observers) = {}

vars == <<part, gateVars, driverVars, workerVars>>

TypeOK ==
  /\ part \in {"driver", "workers"}
  /\ accepting \in BOOLEAN /\ detach \in DetachStages
  /\ DriverTypeOK /\ WorkersTypeOK

Init == part \in {"driver", "workers"} /\ GateInit /\ DriverInit /\ WorkersInit

DriverPart   == part = "driver" /\ UNCHANGED <<part, workerVars>>
ObserverPart == part = "workers" /\ UNCHANGED <<part, driverVars>>

(* shutdown_owner: the snapshot is taken as the owner stops accepting.     *)
StopOwner == Stop /\ SnapshotDriver /\ UNCHANGED <<part, workerVars>>

ResourcesClosed ==
  Closed /\ "detach" \notin holders /\ UNCHANGED <<part, driverVars, workerVars>>

OwnerIdle == Idle /\ ~Calling /\ UNCHANGED <<part, driverVars, workerVars>>

(* OwnerState::detach: handles.clear() drops the observers one by one, ...  *)
ClearHandle(o) == detach = "idle" /\ RemoveObserver(o) /\ ObserverPart

(* ... and resources.clear() is the last of it.                            *)
OwnerDetached == Detached /\ installed = {} /\ DropResources /\ UNCHANGED <<part, workerVars>>

DetachStep ==
  \/ ResourcesClosed \/ OwnerIdle \/ OwnerDetached
  \/ \E o \in Observers : ClearHandle(o)

Next ==
  \/ StopOwner \/ DetachStep
  \/ DriverStep /\ DriverPart
  \/ ObserverStep /\ ObserverPart

(* The driver's thread, the workers and the closers run, the plugin's      *)
(* callbacks and its calls return, and a detach that began is awaited; that *)
(* there is an event, a registration, a release or a detach is not assumed. *)
Fairness ==
  /\ WF_vars(WakeReader /\ DriverPart)
  /\ \A t \in Threads : WF_vars(ArmStep(t) /\ DriverPart)
  /\ WF_vars((Install \/ InstallRefused) /\ DriverPart)
  /\ WF_vars(DeregisterStep /\ DriverPart)
  /\ WF_vars((DriverReleased \/ CloseDriver \/ DriverClosed) /\ DriverPart)
  /\ \A w \in Workers : WF_vars(WorkerStep(w) /\ ObserverPart)
  /\ \A o \in Observers : WF_vars(AddStep(o) /\ ObserverPart)
  /\ WF_vars(DetachStep)

Spec == Init /\ [][Next]_vars /\ Fairness

-----------------------------------------------------------------------------
(* Once telekio_deregister has returned no thread is inside WakeState::arm: *)
(* what the closer drops next, the callback, is used by nobody.            *)
NoWakeAfterClose == closer = "closed" => Inside = {}

(* A detach that has found the owner idle, and one that has returned, has   *)
(* no callback left inside the plugin, and admits none.                    *)
NoCallbackAfterIdle ==
  detach \in {"idle", "detached"} =>
    /\ \A t \in Threads : arm[t] # "plugin"
    /\ \A w \in Workers : phase[w] # "plugin"
    /\ \A o \in Observers : add[o] # "plugin"

(* The comment of the plugin's UringHandle: Handle::drop closes the         *)
(* registration before the pointer that its callback uses becomes invalid. *)
ClosedBeforeInvalid == guest = "released" => \A t \in Threads : arm[t] # "plugin"

(* OwnerState::detach stops the plugin's work and releases its attachment   *)
(* before unloading: after it no host thread runs the plugin's code, which  *)
(* a release function is too.                                              *)
ReleasedBeforeUnload == detach = "detached" => \A w \in Workers : phase[w] # "release"

(* An event of the descriptor is followed by a call of the plugin that     *)
(* began after it, unless the registration closes, the owner stops or the  *)
(* driver shuts down: the wakes of two threads and the clearing of the     *)
(* readiness lose none.                                                    *)
EventDispatched == fresh ~> (~fresh \/ closer # "open" \/ ~accepting \/ gone)

(* A deregistration, the plugin's or the detach's, does not wait forever   *)
(* for the callbacks that are under way.                                   *)
DeregisterEnds == closer = "begin" ~> closer = "closed"

(* Every worker calls an observer that is installed: the ones that run, the *)
(* parked ones and those that start or change their thread meanwhile.      *)
EveryWorkerObserved ==
  \A o \in Observers, w \in Workers :
    o \in installed ~> (recorded[o][w] # 0 \/ o \notin installed \/ ~accepting)
===============================================================================
