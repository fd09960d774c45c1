-------------------------------- MODULE Owner --------------------------------
(***************************************************************************)
(* The host side of one attached plugin: OwnerState, the calls that borrow *)
(* it (Attachment::enter, block_on, block_in_place, driver callbacks,      *)
(* runtime construction), the Tokio tasks it tracks, and                   *)
(* Attachment::detach with shutdown_owner.                                 *)
(*                                                                         *)
(* A step is one critical section of OwnerState::state, or what a thread   *)
(* does between two of them.  The identifier under which an activity is    *)
(* stored (next_id, always fresh) is represented by its holder.            *)
(***************************************************************************)
EXTENDS Naturals, FiniteSets

CONSTANTS
  Tasks,        \* tasks the plugin spawns on a host runtime
  Blocking,     \* those of them that are spawn_blocking closures
  Entries,      \* Attachment::enter
  BlockOns,     \* handle_block_on and runtime_block_on
  InPlace,      \* block_in_place
  Drivers,      \* callbacks of the I/O driver and of worker observers
  Runtimes,     \* runtimes the plugin builds, and the calls that build them
  Locals,       \* those of them that are LocalRuntimes
  Defers,       \* wakers handed to context::defer
  Resources,    \* timers, I/O registrations: the HostResources
  Modes,        \* how the plugin shuts its runtimes down
  MaxAttempts   \* bound: calls of Attachment::detach, cancelled ones included

Calls    == Entries \cup BlockOns \cup InPlace \cup Drivers \cup Runtimes
Attempts == 1 .. MaxAttempts
Holders  == Calls \cup Defers \cup Attempts
Shutters == Tasks \cup Calls \cup Attempts

ASSUME OwnerAssumption ==
  /\ MaxAttempts \in Nat
  /\ Blocking \subseteq Tasks
  /\ Locals \subseteq Runtimes
  /\ Modes \subseteq {"Wait", "Background", "Timeout"}
  /\ Tasks \cap Holders = {}
  /\ Defers \cap (Calls \cup Attempts) = {}
  /\ Attempts \cap Calls = {}
  /\ Entries \cap (BlockOns \cup InPlace \cup Drivers \cup Runtimes) = {}
  /\ BlockOns \cap (InPlace \cup Drivers \cup Runtimes) = {}
  /\ InPlace \cap (Drivers \cup Runtimes) = {}
  /\ Drivers \cap Runtimes = {}

VARIABLES
  accepting,    \* OwnerState::accepting
  tasks,        \* OwnerStatus::tasks: no entry, None or Some(abort handle)
  activities,   \* the keys of OwnerStatus::activities
  armed,        \* the activities whose waker reaches somebody
  runtimes,     \* the keys of OwnerStatus::runtimes
  resource,     \* every HostResource; "open" and "closed" are in the map
  spawn,        \* where the host call that spawns the task stands
  job,          \* where the host runtime has brought the task
  aborted,      \* tasks whose AbortHandle::abort was called
  call,         \* where a call stands
  woken,        \* parked or running block_on calls that hold an unpark token
  defer,        \* where a deferred waker stands
  fired,        \* DeferredState::woken
  host,         \* the host Tokio runtime behind a RuntimeOwner
  waiting,      \* the runtime whose shutdown a thread waits for, if any
  closer,       \* the blocking task shutdown_owner spawns to close runtimes
  todo,         \* the runtimes it still has to close
  detach,       \* where Attachment::detach stands
  attempt,      \* how often it was called
  toAbort,      \* shutdown_owner's snapshot of tasks,
  toClose,      \*   of resources,
  toWake,       \*   and of activity wakers
  notified      \* notify_waiters ran since wait_idle called notified()

ownerVars  == <<accepting, tasks, activities, armed, runtimes, resource>>
jobVars    == <<spawn, job, aborted>>
callVars   == <<call, woken>>
deferVars  == <<defer, fired>>
hostVars   == <<host, waiting>>
closerVars == <<closer, todo>>
stopVars   == <<detach, attempt, toAbort, toClose, toWake>>
vars == <<ownerVars, jobVars, callVars, deferVars, hostVars, closerVars,
          stopVars, notified>>

-----------------------------------------------------------------------------
TypeOK ==
  /\ accepting \in BOOLEAN
  /\ tasks \in [Tasks -> {"vacant", "reserved", "registered"}]
  /\ activities \subseteq Holders
  /\ armed \subseteq activities \cap (BlockOns \cup Defers)
  /\ runtimes \subseteq Runtimes
  /\ resource \in [Resources -> {"absent", "open", "closed", "released"}]
  /\ spawn \in [Tasks -> {"idle", "reserved", "launched", "rejected", "failed",
                         "returned"}]
  /\ job \in [Tasks -> {"absent", "queued", "asleep", "polling", "dropping",
                        "finished", "gone"}]
  /\ aborted \subseteq Tasks
  /\ call \in [Calls -> {"out", "begun", "guest", "parked", "built", "refused",
                         "leaving", "removed"}]
  /\ woken \subseteq BlockOns
  /\ defer \in [Defers -> {"out", "registered", "listed", "dropping",
                           "removed", "done"}]
  /\ fired \subseteq Defers
  /\ host \in [Runtimes -> {"absent", "open", "closing", "lingering", "closed"}]
  /\ waiting \in [Shutters -> SUBSET Runtimes]
  /\ closer \in [Attempts -> {"none", "running", "removed", "done"}]
  /\ todo \in [Attempts -> SUBSET Runtimes]
  /\ detach \in {"attached", "begun", "refused", "stopping", "joining",
                 "releasing", "listening", "checking", "waiting", "finishing",
                 "detached", "failed"}
  /\ attempt \in 0 .. MaxAttempts
  /\ toAbort \subseteq Tasks
  /\ toClose \subseteq Resources
  /\ toWake \subseteq BlockOns \cup Defers
  /\ notified \in BOOLEAN

Init ==
  /\ accepting = TRUE
  /\ tasks = [t \in Tasks |-> "vacant"]
  /\ activities = {}
  /\ armed = {}
  /\ runtimes = {}
  /\ resource = [s \in Resources |-> "absent"]
  /\ spawn = [t \in Tasks |-> "idle"]
  /\ job = [t \in Tasks |-> "absent"]
  /\ aborted = {}
  /\ call = [c \in Calls |-> "out"]
  /\ woken = {}
  /\ defer = [d \in Defers |-> "out"]
  /\ fired = {}
  /\ host = [r \in Runtimes |-> "absent"]
  /\ waiting = [f \in Shutters |-> {}]
  /\ closer = [n \in Attempts |-> "none"]
  /\ todo = [n \in Attempts |-> {}]
  /\ detach = "attached"
  /\ attempt = 0
  /\ toAbort = {}
  /\ toClose = {}
  /\ toWake = {}
  /\ notified = FALSE

-----------------------------------------------------------------------------
(* Building blocks *)

(* A thread of control moves; the guard and the assignment of its counter. *)
Spawn(t, from, to) == spawn[t] = from /\ spawn' = [spawn EXCEPT ![t] = to]
Job(t, from, to)   == job[t] \in from /\ job' = [job EXCEPT ![t] = to]
Call(c, from, to)  == call[c] \in from /\ call' = [call EXCEPT ![c] = to]
Defer(d, from, to) == defer[d] = from /\ defer' = [defer EXCEPT ![d] = to]
Detach(from, to)   == detach = from /\ detach' = to

(* Definitions named in "mutants" of PROJECT.json are plausible mistakes in *)
(* the definition that follows them; nothing else uses them.               *)

(* Mistake: activity() does not look at accepting under the lock. *)
AdmitAlways(h) == activities' = activities \cup {h}

(* OwnerState::activity and OwnerState::callback without a waker of effect. *)
Admit(h) ==
  /\ accepting
  /\ activities' = activities \cup {h}

(* Mistake: the waker outlives the activity it was stored for. *)
RemoveKeepingWaker(h) ==
  /\ activities' = activities \ {h}
  /\ UNCHANGED armed

(* The locked half of dropping an Activity or a CallbackCleanup. *)
Remove(h) ==
  /\ activities' = activities \ {h}
  /\ armed' = armed \ {h}

(* Waking a set of wakers: block_on calls get their unpark token, Deferred *)
(* wakers wake the plugin and give up an installed cleanup.  The drop of   *)
(* that cleanup runs on the waking thread; here it is a step of its own.   *)
WakeAll(W) ==
  /\ woken' = woken \cup {c \in W \cap BlockOns : call[c] \in {"guest", "parked"}}
  /\ fired' = fired \cup (W \cap Defers)
  /\ defer' = [d \in Defers |->
                 IF d \in W /\ defer[d] = "listed" THEN "dropping" ELSE defer[d]]

(* The plugin code that runs on a worker or inside a call, not itself      *)
(* blocked in a runtime's shutdown.                                        *)
InGuest(f) ==
  /\ \/ f \in Tasks /\ job[f] = "polling"
     \/ f \in Calls /\ call[f] = "guest"
  /\ waiting[f] = {}

(* RuntimeOwner::is_closed.                                                *)
IsClosed(r) == host[r] \in {"closing", "lingering", "closed"}

(* Mistake: a Wait shutdown that does not wait. *)
ShutdownUnjoined(f, r, mode) ==
  /\ host' = [host EXCEPT ![r] = "lingering"]
  /\ waiting' = [waiting EXCEPT ![f] = {}]

(* shutdown_runtime: Wait drops the runtime and blocks until its threads   *)
(* are gone; the other modes return while threads may still be finishing.  *)
Shutdown(f, r, mode) ==
  /\ host' = [host EXCEPT ![r] = IF mode = "Wait" THEN "closing" ELSE "lingering"]
  /\ waiting' = [waiting EXCEPT ![f] = IF mode = "Wait" THEN {r} ELSE {}]

-----------------------------------------------------------------------------
(* Tasks: bridge/runtime/task.rs and blocking.rs *)

(* OwnerState::reserve_task, the first critical section of spawn.          *)
ReserveTask(t) ==
  /\ accepting
  /\ tasks[t] = "vacant"
  /\ Spawn(t, "idle", "reserved")
  /\ tasks' = [tasks EXCEPT ![t] = "reserved"]
  /\ UNCHANGED <<accepting, activities, armed, runtimes, resource, job, aborted,
                 callVars, deferVars, hostVars, closerVars, stopVars, notified>>

(* telekio_spawn: the runtime takes the task, or has shut down and drops   *)
(* it before the call returns.                                             *)
Launch(t) ==
  /\ \/ Spawn(t, "reserved", "launched") /\ Job(t, {"absent"}, "queued")
     \/ Spawn(t, "reserved", "rejected") /\ Job(t, {"absent"}, "dropping")
  /\ UNCHANGED <<ownerVars, aborted, callVars, deferVars, hostVars, closerVars,
                 stopVars, notified>>

(* Mistake: a task registered after the snapshot is not aborted. *)
RegisterTaskUnaborted(t) ==
  /\ \/ Spawn(t, "launched", "returned")
     \/ Spawn(t, "rejected", "returned") /\ job[t] = "gone"
  /\ tasks' = [tasks EXCEPT ![t] = IF @ = "vacant" THEN @ ELSE "registered"]
  /\ UNCHANGED <<accepting, activities, armed, runtimes, resource, job, aborted,
                 callVars, deferVars, hostVars, closerVars, stopVars, notified>>

(* OwnerState::register_task: a task that missed shutdown_owner's snapshot *)
(* is aborted here; the entry is gone if the task has already finished.    *)
RegisterTask(t) ==
  /\ \/ Spawn(t, "launched", "returned")
     \/ Spawn(t, "rejected", "returned") /\ job[t] = "gone"
  /\ aborted' = IF accepting THEN aborted ELSE aborted \cup {t}
  /\ tasks' = [tasks EXCEPT ![t] = IF @ = "vacant" THEN @ ELSE "registered"]
  /\ UNCHANGED <<accepting, activities, armed, runtimes, resource, job,
                 callVars, deferVars, hostVars, closerVars, stopVars, notified>>

(* spawn_local on the wrong runtime or thread fails after the reservation: *)
(* its task is dropped, and with it the reservation, and none registered.  *)
FailSpawn(t) ==
  /\ \/ Spawn(t, "reserved", "failed") /\ Job(t, {"absent"}, "dropping")
     \/ Spawn(t, "failed", "returned") /\ job[t] = "gone" /\ UNCHANGED job
  /\ UNCHANGED <<ownerVars, aborted, callVars, deferVars, hostVars, closerVars,
                 stopVars, notified>>

(* OwnerState::abort_task, for the plugin's JoinHandle::abort.             *)
AbortTask(t) ==
  /\ tasks[t] = "registered"
  /\ aborted' = aborted \cup {t}
  /\ UNCHANGED <<ownerVars, spawn, job, callVars, deferVars, hostVars,
                 closerVars, stopVars, notified>>

(* TrackedTask::poll and TrackedBlockingTask::run up to the plugin's code. *)
PollTask(t) ==
  /\ t \notin aborted
  /\ Job(t, {"queued"}, IF accepting THEN "polling" ELSE "dropping")
  /\ UNCHANGED <<ownerVars, spawn, aborted, callVars, deferVars, hostVars,
                 closerVars, stopVars, notified>>

(* The plugin's code returns: Pending (never from a blocking closure), or  *)
(* Ready, upon which the future is dropped.                                *)
PollReturns(t) ==
  /\ waiting[t] = {}
  /\ \/ t \notin Blocking /\ Job(t, {"polling"}, "asleep")
     \/ Job(t, {"polling"}, "dropping")
  /\ UNCHANGED <<ownerVars, spawn, aborted, callVars, deferVars, hostVars,
                 closerVars, stopVars, notified>>

(* Somebody wakes a task that returned Pending.                            *)
WakeTask(t) ==
  /\ Job(t, {"asleep"}, "queued")
  /\ UNCHANGED <<ownerVars, spawn, aborted, callVars, deferVars, hostVars,
                 closerVars, stopVars, notified>>

(* Tokio drops an aborted task that is not running, and the tasks of a     *)
(* runtime that shuts down.                                                *)
CancelTask(t) ==
  /\ t \in aborted \/ \E r \in Runtimes : host[r] \in {"closing", "lingering"}
  /\ Job(t, {"queued", "asleep"}, "dropping")
  /\ UNCHANGED <<ownerVars, spawn, aborted, callVars, deferVars, hostVars,
                 closerVars, stopVars, notified>>

(* TaskCleanup::drop, after GuestTask has cancelled and released the       *)
(* plugin's task: the locked half of OwnerState::finish_task ...           *)
FinishTask(t) ==
  /\ Job(t, {"dropping"}, "finished")
  /\ tasks' = [tasks EXCEPT ![t] = "vacant"]
  /\ UNCHANGED <<accepting, activities, armed, runtimes, resource, spawn, aborted,
                 callVars, deferVars, hostVars, closerVars, stopVars, notified>>

(* Mistake: the last task does not notify. *)
FinishQuietly(t) ==
  /\ Job(t, {"finished"}, "gone")
  /\ UNCHANGED <<ownerVars, spawn, aborted, callVars, deferVars, hostVars,
                 closerVars, stopVars, notified>>

(* ... and its unlocked half.                                              *)
FinishNotify(t) ==
  /\ Job(t, {"finished"}, "gone")
  /\ notified' = (notified \/ ~accepting)
  /\ UNCHANGED <<ownerVars, spawn, aborted, callVars, deferVars, hostVars,
                 closerVars, stopVars>>

(* The spawning thread and the worker that has the task. *)
SpawnStep(t) == Launch(t) \/ RegisterTask(t) \/ FailSpawn(t)

JobStep(t) ==
  \/ PollTask(t)
  \/ PollReturns(t)
  \/ CancelTask(t)
  \/ FinishTask(t)
  \/ FinishNotify(t)

-----------------------------------------------------------------------------
(* Calls that hold an Activity or a CallbackCleanup *)

(* OwnerState::activity, or callback for the drivers.  Attachment::enter   *)
(* borrows the attachment, which a running detach borrows exclusively.     *)
(* enter and the driver callbacks go straight to the plugin's code.        *)
BeginCall(c) ==
  /\ Admit(c)
  /\ c \in Entries => detach = "attached"
  /\ c \in Runtimes => host[c] = "absent"
  /\ Call(c, {"out"}, IF c \in Entries \cup Drivers THEN "guest" ELSE "begun")
  /\ UNCHANGED <<accepting, tasks, armed, runtimes, resource, jobVars, woken,
                 deferVars, hostVars, closerVars, stopVars, notified>>

(* Mistake: the poll does not look at accepting. *)
PollFutureAlways(c) ==
  /\ c \in BlockOns
  /\ Call(c, {"begun"}, "guest")
  /\ armed' = IF accepting /\ c \in activities THEN armed \cup {c} ELSE armed
  /\ UNCHANGED <<accepting, tasks, activities, runtimes, resource, jobVars, woken,
                 deferVars, hostVars, closerVars, stopVars, notified>>

(* Mistake: the poll does not store its waker. *)
PollFutureUnarmed(c) ==
  /\ c \in BlockOns
  /\ Call(c, {"begun"}, IF accepting THEN "guest" ELSE "leaving")
  /\ UNCHANGED <<ownerVars, jobVars, woken, deferVars, hostVars, closerVars,
                 stopVars, notified>>

(* GuestFuture::poll: update_activity_waker, then the plugin's future; an  *)
(* owner that no longer accepts ends the block_on with an error.           *)
PollFuture(c) ==
  /\ c \in BlockOns
  /\ Call(c, {"begun"}, IF accepting THEN "guest" ELSE "leaving")
  /\ armed' = IF accepting /\ c \in activities THEN armed \cup {c} ELSE armed
  /\ UNCHANGED <<accepting, tasks, activities, runtimes, resource, jobVars, woken,
                 deferVars, hostVars, closerVars, stopVars, notified>>

(* The future of a block_on returned Pending: the thread parks.            *)
Park(c) ==
  /\ c \in BlockOns
  /\ waiting[c] = {}
  /\ Call(c, {"guest"}, "parked")
  /\ UNCHANGED <<ownerVars, jobVars, woken, deferVars, hostVars, closerVars,
                 stopVars, notified>>

Unpark(c) ==
  /\ c \in woken
  /\ Call(c, {"parked"}, "begun")
  /\ woken' = woken \ {c}
  /\ UNCHANGED <<ownerVars, jobVars, deferVars, hostVars, closerVars, stopVars,
                 notified>>

(* An event the future waits for.                                          *)
WakeCall(c) ==
  /\ c \in BlockOns
  /\ call[c] \in {"guest", "parked"}
  /\ woken' = woken \cup {c}
  /\ UNCHANGED <<ownerVars, jobVars, call, deferVars, hostVars, closerVars,
                 stopVars, notified>>

(* block_in_place: wake_activities, then the plugin's closure.             *)
WakeActivities(c) ==
  /\ c \in InPlace
  /\ Call(c, {"begun"}, "guest")
  /\ WakeAll(armed)
  /\ UNCHANGED <<ownerVars, jobVars, hostVars, closerVars, stopVars, notified>>

(* The plugin's code in the call, or the shutdown of a refused runtime,    *)
(* has returned.                                                           *)
CallReturns(c) ==
  /\ waiting[c] = {}
  /\ Call(c, {"guest", "refused"}, "leaving")
  /\ UNCHANGED <<ownerVars, jobVars, woken, deferVars, hostVars, closerVars,
                 stopVars, notified>>

(* Activity::drop, CallbackCleanup::drop: first the map ...                *)
EndCall(c) ==
  /\ Call(c, {"leaving"}, "removed")
  /\ Remove(c)
  /\ woken' = woken \ {c}
  /\ UNCHANGED <<accepting, tasks, runtimes, resource, jobVars, deferVars,
                 hostVars, closerVars, stopVars, notified>>

(* Mistake: the end of a call does not notify. *)
EndCallQuietly(c) ==
  /\ Call(c, {"removed"}, "out")
  /\ UNCHANGED <<ownerVars, jobVars, woken, deferVars, hostVars, closerVars,
                 stopVars, notified>>

(* ... then notify_waiters.                                                *)
EndCallNotify(c) ==
  /\ Call(c, {"removed"}, "out")
  /\ notified' = TRUE
  /\ UNCHANGED <<ownerVars, jobVars, woken, deferVars, hostVars, closerVars,
                 stopVars>>

CallStep(c) ==
  \/ PollFuture(c)
  \/ Park(c) \/ CallReturns(c)
  \/ Unpark(c)
  \/ WakeActivities(c)
  \/ EndCall(c)
  \/ EndCallNotify(c)

-----------------------------------------------------------------------------
(* Deferred wakers: bridge/runtime/scheduler.rs *)

(* defer: OwnerState::callback; a refused one wakes the plugin at once.    *)
BeginDefer(d) ==
  /\ Admit(d)
  /\ armed' = armed \cup {d}
  /\ Defer(d, "out", "registered")
  /\ UNCHANGED <<accepting, tasks, runtimes, resource, jobVars, callVars, fired,
                 hostVars, closerVars, stopVars, notified>>

(* Mistake: install does not look at woken. *)
InstallAlways(d) ==
  /\ Defer(d, "registered", "listed")
  /\ UNCHANGED <<ownerVars, jobVars, callVars, fired, hostVars, closerVars,
                 stopVars, notified>>

(* Deferred::install, then the host's own defer list.                      *)
Install(d) ==
  /\ Defer(d, "registered", IF d \in fired THEN "dropping" ELSE "listed")
  /\ UNCHANGED <<ownerVars, jobVars, callVars, fired, hostVars, closerVars,
                 stopVars, notified>>

(* The host runtime wakes its deferred wakers.                             *)
FlushDefer(d) ==
  /\ defer[d] = "listed"
  /\ WakeAll({d})
  /\ UNCHANGED <<ownerVars, jobVars, call, hostVars, closerVars, stopVars,
                 notified>>

(* CallbackCleanup::drop of the deferred waker, in two halves.             *)
EndDefer(d) ==
  /\ Defer(d, "dropping", "removed")
  /\ Remove(d)
  /\ UNCHANGED <<accepting, tasks, runtimes, resource, jobVars, callVars, fired,
                 hostVars, closerVars, stopVars, notified>>

EndDeferNotify(d) ==
  /\ Defer(d, "removed", "done")
  /\ notified' = TRUE
  /\ UNCHANGED <<ownerVars, jobVars, callVars, fired, hostVars, closerVars,
                 stopVars>>

DeferStep(d) ==
  \/ Install(d)
  \/ EndDefer(d)
  \/ EndDeferNotify(d)

-----------------------------------------------------------------------------
(* Host resources: HostResource::new and release *)

(* Mistake: a resource is registered whether the owner accepts or not. *)
RegisterResourceAlways(s) ==
  /\ resource[s] = "absent"
  /\ resource' = [resource EXCEPT ![s] = "open"]
  /\ UNCHANGED <<accepting, tasks, activities, armed, runtimes, jobVars, callVars,
                 deferVars, hostVars, closerVars, stopVars, notified>>

RegisterResource(s) ==
  /\ accepting
  /\ resource[s] = "absent"
  /\ resource' = [resource EXCEPT ![s] = "open"]
  /\ UNCHANGED <<accepting, tasks, activities, armed, runtimes, jobVars, callVars,
                 deferVars, hostVars, closerVars, stopVars, notified>>

(* The plugin drops the timer, the registration or the operation.          *)
UnregisterResource(s) ==
  /\ resource[s] \in {"open", "closed"}
  /\ resource' = [resource EXCEPT ![s] = "released"]
  /\ UNCHANGED <<accepting, tasks, activities, armed, runtimes, jobVars, callVars,
                 deferVars, hostVars, closerVars, stopVars, notified>>

-----------------------------------------------------------------------------
(* Runtimes the plugin builds: bridge/runtime/mod.rs *)

(* build_runtime: the host runtime's threads start, or it fails.           *)
BuildRuntime(r) ==
  /\ \/ Call(r, {"begun"}, "built") /\ host' = [host EXCEPT ![r] = "open"]
     \/ Call(r, {"begun"}, "leaving") /\ UNCHANGED host
  /\ UNCHANGED <<ownerVars, jobVars, woken, deferVars, waiting, closerVars,
                 stopVars, notified>>

(* Mistake: a runtime is registered whether the owner accepts or not. *)
RegisterRuntimeAlways(r) ==
  /\ Call(r, {"built"}, "leaving")
  /\ runtimes' = runtimes \cup {r}
  /\ UNCHANGED <<accepting, tasks, activities, armed, resource, jobVars, woken,
                 deferVars, hostVars, closerVars, stopVars, notified>>

(* OwnerState::register_runtime ...                                        *)
RegisterRuntime(r) ==
  /\ accepting
  /\ Call(r, {"built"}, "leaving")
  /\ runtimes' = runtimes \cup {r}
  /\ UNCHANGED <<accepting, tasks, activities, armed, resource, jobVars, woken,
                 deferVars, hostVars, closerVars, stopVars, notified>>

(* ... refused: build closes the new runtime; a LocalRuntime here, where   *)
(* it has no thread to join, any other on a thread that build joins.       *)
RefuseRuntime(r) ==
  /\ ~accepting
  /\ Call(r, {"built"}, "refused")
  /\ IF r \in Locals
       THEN host' = [host EXCEPT ![r] = "closed"] /\ UNCHANGED waiting
       ELSE Shutdown(r, r, "Wait")
  /\ UNCHANGED <<ownerVars, jobVars, woken, deferVars, closerVars, stopVars,
                 notified>>

(* RuntimeOwner::close for the plugin's shutdown of a runtime it owns.     *)
CloseRuntime(f, r, mode) ==
  /\ InGuest(f)
  /\ r \in runtimes
  /\ host[r] = "open"
  /\ Shutdown(f, r, mode)
  /\ UNCHANGED <<ownerVars, jobVars, callVars, deferVars, closerVars, stopVars,
                 notified>>

(* release_runtime: the plugin drops a runtime it has shut down.           *)
UnregisterRuntime(r) ==
  /\ IsClosed(r)
  /\ runtimes' = runtimes \ {r}
  /\ r \in runtimes
  /\ UNCHANGED <<accepting, tasks, activities, armed, resource, jobVars, callVars,
                 deferVars, hostVars, closerVars, stopVars, notified>>

(* The last thread of a runtime that shuts down has run the plugin's       *)
(* on_thread_stop callback and is gone.                                    *)
WorkersExit(r) ==
  /\ host[r] \in {"closing", "lingering"}
  /\ host' = [host EXCEPT ![r] = "closed"]
  /\ UNCHANGED <<ownerVars, jobVars, callVars, deferVars, waiting, closerVars,
                 stopVars, notified>>

(* A thread that waited for a runtime's shutdown goes on.                  *)
JoinRuntime(f) ==
  /\ \E r \in waiting[f] : host[r] = "closed"
  /\ waiting' = [waiting EXCEPT ![f] = {}]
  /\ UNCHANGED <<ownerVars, jobVars, callVars, deferVars, host, closerVars,
                 stopVars, notified>>

BuildStep(r) ==
  \/ BuildRuntime(r)
  \/ RegisterRuntime(r)
  \/ RefuseRuntime(r)

-----------------------------------------------------------------------------
(* Attachment::detach and shutdown_owner *)

(* A new detach future: the exclusive borrow excludes a running enter.     *)
(* Its cleanup is Some only while the owner accepts.                       *)
DetachCall ==
  /\ attempt < MaxAttempts
  /\ \A c \in Entries : call[c] = "out"
  /\ Detach("attached", "begun")
  /\ attempt' = attempt + 1
  /\ activities' = IF accepting THEN activities \cup {attempt + 1} ELSE activities
  /\ UNCHANGED <<accepting, tasks, armed, runtimes, resource, jobVars, callVars,
                 deferVars, hostVars, closerVars, toAbort, toClose, toWake,
                 notified>>

(* Mistake: the kind of the runtime is not looked at. *)
LocalOpenUnchecked == FALSE

LocalOpen == \E r \in runtimes \cap Locals : host[r] = "open"

(* An open LocalRuntime refuses the detach and nothing is stopped.         *)
Refuse ==
  /\ LocalOpen
  /\ Detach("begun", "refused")
  /\ UNCHANGED <<ownerVars, jobVars, callVars, deferVars, hostVars, closerVars,
                 attempt, toAbort, toClose, toWake, notified>>

(* Otherwise one critical section closes the owner to new work and takes   *)
(* the snapshots; a reserved task has no abort handle in it yet.           *)
Snapshot ==
  /\ ~LocalOpen
  /\ Detach("begun", "stopping")
  /\ accepting' = FALSE
  /\ toAbort' = {t \in Tasks : tasks[t] = "registered"}
  /\ toClose' = {s \in Resources : resource[s] \in {"open", "closed"}}
  /\ toWake' = armed
  /\ UNCHANGED <<tasks, activities, armed, runtimes, resource, jobVars, callVars,
                 deferVars, hostVars, closerVars, attempt, notified>>

AbortNext(t) ==
  /\ detach = "stopping"
  /\ t \in toAbort
  /\ toAbort' = toAbort \ {t}
  /\ aborted' = aborted \cup {t}
  /\ UNCHANGED <<ownerVars, spawn, job, callVars, deferVars, hostVars, closerVars,
                 detach, attempt, toClose, toWake, notified>>

(* HostResource::close.                                                    *)
CloseNext(s) ==
  /\ detach = "stopping"
  /\ toAbort = {}
  /\ s \in toClose
  /\ toClose' = toClose \ {s}
  /\ resource' = [resource EXCEPT ![s] = IF @ = "open" THEN "closed" ELSE @]
  /\ UNCHANGED <<accepting, tasks, activities, armed, runtimes, jobVars, callVars,
                 deferVars, hostVars, closerVars, detach, attempt, toAbort,
                 toWake, notified>>

WakeNext(h) ==
  /\ detach = "stopping"
  /\ toAbort = {} /\ toClose = {}
  /\ h \in toWake
  /\ toWake' = toWake \ {h}
  /\ WakeAll({h})
  /\ UNCHANGED <<ownerVars, jobVars, call, hostVars, closerVars, detach, attempt,
                 toAbort, toClose, notified>>

OpenRuntimes == {r \in runtimes : ~IsClosed(r)}

(* OwnerState::runtimes: the open ones go to a blocking task that takes    *)
(* the cleanup along and closes them; without any, the cleanup is dropped. *)
ListRuntimes ==
  /\ toAbort = {} /\ toClose = {} /\ toWake = {}
  /\ IF OpenRuntimes = {}
       THEN Detach("stopping", "releasing") /\ UNCHANGED closerVars
       ELSE /\ Detach("stopping", "joining")
            /\ closer' = [closer EXCEPT ![attempt] = "running"]
            /\ todo' = [todo EXCEPT ![attempt] = OpenRuntimes]
  /\ UNCHANGED <<ownerVars, jobVars, callVars, deferVars, hostVars, attempt,
                 toAbort, toClose, toWake, notified>>

(* The blocking task closes one runtime and waits for its threads.         *)
CloseNextRuntime(n) ==
  /\ closer[n] = "running"
  /\ waiting[n] = {}
  /\ \E r \in todo[n] :
       /\ todo' = [todo EXCEPT ![n] = @ \ {r}]
       /\ IF IsClosed(r) THEN UNCHANGED hostVars ELSE Shutdown(n, r, "Wait")
  /\ UNCHANGED <<ownerVars, jobVars, callVars, deferVars, closer, stopVars,
                 notified>>

(* All closed: the closure returns and drops its cleanup, if it has one.   *)
EndCloser(n) ==
  /\ closer[n] = "running"
  /\ waiting[n] = {} /\ todo[n] = {}
  /\ closer' = [closer EXCEPT ![n] = IF n \in activities THEN "removed" ELSE "done"]
  /\ Remove(n)
  /\ UNCHANGED <<accepting, tasks, runtimes, resource, jobVars, callVars,
                 deferVars, hostVars, todo, stopVars, notified>>

EndCloserNotify(n) ==
  /\ closer[n] = "removed"
  /\ closer' = [closer EXCEPT ![n] = "done"]
  /\ notified' = TRUE
  /\ UNCHANGED <<ownerVars, jobVars, callVars, deferVars, hostVars, todo, stopVars>>

(* The detach future sees the blocking task's result.                      *)
Joined ==
  /\ Detach("joining", "listening")
  /\ closer[attempt] = "done"
  /\ UNCHANGED <<ownerVars, jobVars, callVars, deferVars, hostVars, closerVars,
                 attempt, toAbort, toClose, toWake, notified>>

(* The detach future drops the cleanup itself.                             *)
DropCleanup ==
  /\ \/ Detach("refused", "attached")
     \/ Detach("releasing", "listening")
  /\ Remove(attempt)
  /\ UNCHANGED <<accepting, tasks, runtimes, resource, jobVars, callVars,
                 deferVars, hostVars, closerVars, attempt, toAbort, toClose,
                 toWake, notified>>

(* OwnerState::wait_idle: notified() is created ...                        *)
Listen ==
  /\ Detach("listening", "checking")
  /\ notified' = FALSE
  /\ UNCHANGED <<ownerVars, jobVars, callVars, deferVars, hostVars, closerVars,
                 attempt, toAbort, toClose, toWake>>

(* Mistake: a slot without an abort handle does not count as a task. *)
IdleButReserved == activities = {} /\ \A t \in Tasks : tasks[t] # "registered"

(* Mistake: only the tasks are waited for. *)
IdleTasks == \A t \in Tasks : tasks[t] = "vacant"

Idle == activities = {} /\ \A t \in Tasks : tasks[t] = "vacant"

(* ... before the maps are looked at, and only then awaited.               *)
CheckIdle ==
  /\ Detach("checking", IF Idle THEN "finishing" ELSE "waiting")
  /\ UNCHANGED <<ownerVars, jobVars, callVars, deferVars, hostVars, closerVars,
                 attempt, toAbort, toClose, toWake, notified>>

Notified ==
  /\ notified
  /\ Detach("waiting", "listening")
  /\ UNCHANGED <<ownerVars, jobVars, callVars, deferVars, hostVars, closerVars,
                 attempt, toAbort, toClose, toWake, notified>>

(* OwnerState::detach succeeds only on a stopped, idle owner whose         *)
(* runtimes and resources are closed.                                      *)
Detachable ==
  /\ ~accepting
  /\ Idle
  /\ OpenRuntimes = {}
  /\ \A s \in Resources : resource[s] # "open"

(* The plugin's handle is taken, then OwnerState::detach is called.        *)
DetachOwner ==
  /\ Detach("finishing", IF Detachable THEN "detached" ELSE "failed")
  /\ runtimes' = IF Detachable THEN {} ELSE runtimes
  /\ resource' = [s \in Resources |->
                    IF Detachable /\ resource[s] = "closed" THEN "released"
                    ELSE resource[s]]
  /\ UNCHANGED <<accepting, tasks, activities, armed, jobVars, callVars,
                 deferVars, hostVars, closerVars, attempt, toAbort, toClose,
                 toWake, notified>>

(* The application drops the detach future at one of its two awaits (a     *)
(* timeout, say); the blocking task goes on.                               *)
CancelDetach ==
  /\ Detach("joining", "attached") \/ Detach("waiting", "attached")
  /\ UNCHANGED <<ownerVars, jobVars, callVars, deferVars, hostVars, closerVars,
                 attempt, toAbort, toClose, toWake, notified>>

DetachStep ==
  \/ Refuse \/ Snapshot
  \/ \E t \in Tasks : AbortNext(t)
  \/ \E s \in Resources : CloseNext(s)
  \/ \E h \in BlockOns \cup Defers : WakeNext(h)
  \/ ListRuntimes
  \/ Joined
  \/ DropCleanup
  \/ Listen
  \/ CheckIdle
  \/ Notified
  \/ DetachOwner

CloserStep(n) ==
  \/ CloseNextRuntime(n)
  \/ EndCloser(n)
  \/ EndCloserNotify(n)

-----------------------------------------------------------------------------
(* What the plugin and the application choose to do.                       *)
PluginChoice ==
  \/ \E t \in Tasks : ReserveTask(t) \/ AbortTask(t) \/ WakeTask(t)
  \/ \E c \in Calls : BeginCall(c) \/ WakeCall(c)
  \/ \E d \in Defers : BeginDefer(d) \/ FlushDefer(d)
  \/ \E s \in Resources : RegisterResource(s) \/ UnregisterResource(s)
  \/ \E f \in Tasks \cup Calls, r \in Runtimes, mode \in Modes :
       CloseRuntime(f, r, mode)
  \/ \E r \in Runtimes : UnregisterRuntime(r)

Next ==
  \/ PluginChoice
  \/ \E t \in Tasks : SpawnStep(t) \/ JobStep(t)
  \/ \E c \in Calls : CallStep(c)
  \/ \E d \in Defers : DeferStep(d)
  \/ \E r \in Runtimes : BuildStep(r) \/ WorkersExit(r)
  \/ \E f \in Shutters : JoinRuntime(f)
  \/ \E n \in Attempts : CloserStep(n)
  \/ DetachCall
  \/ DetachStep
  \/ CancelDetach

Spec == Init /\ [][Next]_vars

(* Every thread that can take a step eventually does: host workers are     *)
(* scheduled, code of the plugin returns, threads of a stopped runtime end.*)
(* Nobody is obliged to call, to wake, to cancel or to spawn.              *)
Fairness ==
  /\ \A t \in Tasks : WF_vars(SpawnStep(t)) /\ WF_vars(JobStep(t))
  /\ \A c \in Calls : WF_vars(CallStep(c))
  /\ \A d \in Defers : WF_vars(DeferStep(d))
  /\ \A r \in Runtimes : WF_vars(BuildStep(r)) /\ WF_vars(WorkersExit(r))
  /\ \A f \in Shutters : WF_vars(JoinRuntime(f))
  /\ \A n \in Attempts : WF_vars(CloserStep(n))
  /\ WF_vars(DetachStep)

FairSpec == Spec /\ Fairness

-----------------------------------------------------------------------------
(* Properties *)

(* Everything that still runs, or will run, code of the plugin: a call in  *)
(* progress, a task whose future the host holds or is about to take, a     *)
(* deferred waker that has not woken the plugin.                           *)
PluginWork ==
  {t \in Tasks : spawn[t] = "reserved"
                  \/ job[t] \in {"queued", "asleep", "polling", "dropping"}}
  \cup {c \in Calls : call[c] \notin {"out", "removed"}}
  \cup {d \in Defers : defer[d] \in {"registered", "listed", "dropping"}}

(* README.md: detachment stops the plugin's work and waits for active      *)
(* calls, so that the library can be unloaded.  No task, call or deferred  *)
(* waker is left when Attachment::detach has returned Ok.                  *)
QuietWhenDetached == detach = "detached" => PluginWork = {}

(* The same promise with its history: the owner implements PluginLifetime. *)
Lifetime == INSTANCE PluginLifetime WITH
  Work    <- Tasks \cup Calls \cup Defers,
  running <- PluginWork,
  phase   <- IF detach = "detached" THEN "detached"
             ELSE IF accepting THEN "attached" ELSE "stopping"
Implements == Lifetime!Spec

(* Attachment::detach gives up its raw attachment before it asks the owner *)
(* to detach, so a refusal there could not be retried: after               *)
(* shutdown_owner has succeeded OwnerState::detach never refuses.          *)
DetachNeverFails == detach # "failed"

(* No task escapes the stop: one whose abort handle the snapshot could not *)
(* see still has its spawner ahead of register_task, which aborts it.      *)
NoTaskEscapesStop ==
  ~accepting => \A t \in Tasks :
    /\ tasks[t] = "registered" => t \in aborted \cup toAbort
    /\ tasks[t] = "reserved" => spawn[t] # "returned"

(* No block_on sleeps through the stop: one that is parked holds an unpark *)
(* token, or its waker is in the snapshot still to be woken.               *)
NoBlockOnSleepsThroughStop ==
  ~accepting => \A c \in BlockOns :
    call[c] = "parked" => c \in woken \cup toWake

(* The waiting detach is never forgotten: when both maps are empty it has  *)
(* been notified, or the thread that emptied them has yet to notify it.    *)
WaiterIsNotified ==
  detach = "waiting" /\ Idle =>
    \/ notified
    \/ \E t \in Tasks : job[t] = "finished"
    \/ \E c \in Calls : call[c] = "removed"
    \/ \E d \in Defers : defer[d] = "removed"
    \/ \E n \in Attempts : closer[n] = "removed"

(* A deferred waker that fired does not keep the cleanup that is installed *)
(* after it: nothing else would ever release that activity.                *)
FiredDeferIsReleased == \A d \in Defers : defer[d] = "listed" => d \notin fired

(* A LocalRuntime is never handed to the blocking task that closes the     *)
(* others, where RuntimeOwner::close would fail on the wrong thread after  *)
(* the owner has been stopped.                                             *)
LocalsStayHome == \A n \in Attempts : (todo[n] \cup waiting[n]) \cap Locals = {}

(* When detach has returned Ok no thread of a runtime the plugin built is  *)
(* left that could call its thread callbacks.                              *)
RuntimesJoined ==
  detach = "detached" => \A r \in Runtimes : host[r] \in {"absent", "closed"}

(* A detach that is not cancelled returns.                                 *)
DetachEnds ==
  detach \notin {"attached", "detached"} ~> detach \in {"attached", "detached"}

(* Once the owner has stopped, every block_on of the plugin returns, even  *)
(* if nothing ever wakes its future.                                       *)
BlockOnsEnd ==
  \A c \in BlockOns : ~accepting /\ call[c] # "out" ~> call[c] = "out"
===============================================================================
