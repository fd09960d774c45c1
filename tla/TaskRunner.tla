------------------------------ MODULE TaskRunner ------------------------------
(***************************************************************************)
(* One task of a plugin: the guest's Tokio task and the host's task that   *)
(* polls it.  The guest's Tokio hands a Notified to TaskSchedule::schedule *)
(* when the task has to run; it waits in the slot `runnable' until the     *)
(* host polls the task, and the host is asked to through the slot `waker'. *)
(*                                                                         *)
(* The state word of the guest task (life, notified, cancelled) and the    *)
(* host's task follow tokio's task harness.  A step is an access to the    *)
(* state word or a critical section of one of the two slots.               *)
(***************************************************************************)
EXTENDS Naturals, FiniteSets

CONSTANTS
  Wakers,       \* threads that hold the task's waker or its AbortHandle
  Worker,       \* the host thread inside poll_task or cancel_task
  Flush         \* the host scheduler that fires a deferred waker

Threads == Wakers \cup {Worker, Flush}

ASSUME RunnerAssumption ==
  Worker \notin Wakers /\ Flush \notin Wakers /\ Worker # Flush

VARIABLES
  dumps,        \* runtime dumps (tokio's taskdump) are built in; never changes
  life,         \* the guest task is idle, running or complete
  notified,     \*   and has its NOTIFIED bit
  cancelled,    \*   and its CANCELLED bit set
  runnable,     \* TaskSchedule::runnable holds a Notified
  waker,        \* TaskSchedule::waker holds the waker of the host's task
  host,         \* where the host's task stands
  hostNotified, \* the host's task was woken while it was polled
  hostAborted,  \*   or aborted
  poll,         \* where Worker stands in poll_task or cancel_task
  tracing,      \*   and whether it polls for a runtime dump
  deferred,     \* the guest's waker is in the host scheduler's defer list
  pc,           \* where a thread stands in schedule
  seen          \* the threads whose Notified was found cancelled

taskVars == <<life, notified, cancelled>>
hostVars == <<host, hostNotified, hostAborted>>
vars == <<dumps, taskVars, runnable, waker, hostVars, poll, tracing, deferred, pc,
          seen>>

(* A Notified waits in its slot only while the task has its NOTIFIED bit.  *)
TypeOK ==
  /\ runnable => notified
  /\ life \in {"idle", "running", "complete"}
  /\ {dumps, notified, cancelled, runnable, waker, hostNotified, hostAborted,
      tracing, deferred} \subseteq BOOLEAN
  /\ host \in {"queued", "polling", "asleep", "dropping", "released"}
  /\ poll \in {"out", "begin", "hold", "future", "yield", "complete", "release",
               "releaseWaker", "ran", "stored", "pending", "cancel"}
  /\ pc \in [Threads -> {"out", "schedule", "place", "wake", "abort"}]
  /\ seen \subseteq Threads

(* bind and start: a new task is notified and the host has accepted it.    *)
Init ==
  /\ dumps \in BOOLEAN
  /\ life = "idle" /\ notified = TRUE /\ cancelled = FALSE
  /\ runnable = TRUE /\ waker = FALSE
  /\ host = "queued" /\ hostNotified = FALSE /\ hostAborted = FALSE
  /\ poll = "out" /\ tracing = FALSE
  /\ deferred = FALSE
  /\ pc = [t \in Threads |-> "out"]
  /\ seen = {}

Poll(from, to)  == poll = from /\ poll' = to
Go(t, from, to) == pc[t] = from /\ pc' = [pc EXCEPT ![t] = to]

(* What a wake of the host's task does. *)
WakeHostTask ==
  /\ host' = IF host = "asleep" THEN "queued" ELSE host
  /\ hostNotified' = (hostNotified \/ host = "polling")

-----------------------------------------------------------------------------
(* The host's task *)

HostPolls ==
  /\ host = "queued"
  /\ IF hostAborted
       THEN Poll("out", "cancel") /\ host' = "dropping"
       ELSE Poll("out", "begin") /\ host' = "polling"
  /\ hostNotified' = FALSE
  /\ tracing' = FALSE
  /\ UNCHANGED <<dumps, taskVars, runnable, waker, hostAborted, deferred, pc,
                 seen>>

(* Handle::dump on the host polls every task once, notified or not.        *)
HostTraces ==
  /\ dumps
  /\ host \in {"queued", "asleep"} /\ ~hostAborted
  /\ Poll("out", "begin")
  /\ host' = "polling"
  /\ hostNotified' = FALSE
  /\ tracing' = TRUE
  /\ UNCHANGED <<dumps, taskVars, runnable, waker, hostAborted, deferred, pc,
                 seen>>

(* The host's task, or a rejected spawn, is dropped without a last poll.   *)
HostDrops ==
  /\ host \in {"queued", "asleep"}
  /\ Poll("out", "cancel")
  /\ host' = "dropping"
  /\ UNCHANGED <<dumps, taskVars, runnable, waker, hostNotified, hostAborted,
                 tracing, deferred, pc, seen>>

(* The guest's poll has returned Pending to the host. *)
HostPending ==
  /\ IF hostAborted
       THEN Poll("pending", "cancel") /\ host' = "dropping"
       ELSE /\ Poll("pending", "out")
            /\ host' = IF hostNotified THEN "queued" ELSE "asleep"
  /\ tracing' = FALSE
  /\ UNCHANGED <<dumps, taskVars, runnable, waker, hostNotified, hostAborted,
                 deferred, pc, seen>>

-----------------------------------------------------------------------------
(* poll_task_inner *)

(* Mistake: the Notified is run and stays in its slot. *)
TakeKeeping ==
  /\ life # "complete" /\ ~tracing
  /\ Poll("begin", IF runnable THEN "hold" ELSE "ran")
  /\ UNCHANGED <<dumps, taskVars, runnable, waker, hostVars, tracing, deferred,
                 pc, seen>>

(* The Notified is taken out of its slot, if there is one. *)
TakeRunnable ==
  /\ life # "complete" /\ ~tracing
  /\ Poll("begin", IF runnable THEN "hold" ELSE "ran")
  /\ runnable' = FALSE
  /\ UNCHANGED <<dumps, taskVars, waker, hostVars, tracing, deferred, pc, seen>>

(* Mistake: a task is traced although its Notified is on its way to the slot. *)
TakeOrNotifyAny ==
  /\ life # "complete" /\ tracing
  /\ Poll("begin", "hold")
  /\ notified' = TRUE
  /\ deferred' = TRUE
  /\ runnable' = FALSE
  /\ UNCHANGED <<dumps, life, cancelled, waker, hostVars, tracing, pc, seen>>

(* take_or_notify: for a dump an idle task is run in any case, and its     *)
(* waker is deferred so that it runs again afterwards.                     *)
TakeOrNotify ==
  /\ life # "complete" /\ tracing
  /\ \/ /\ runnable \/ (life = "idle" /\ ~notified)
        /\ Poll("begin", "hold")
        /\ notified' = TRUE
        /\ deferred' = TRUE
     \/ /\ ~runnable /\ (life # "idle" \/ notified)
        /\ Poll("begin", "ran")
        /\ UNCHANGED <<notified, deferred>>
  /\ runnable' = FALSE
  /\ UNCHANGED <<dumps, life, cancelled, waker, hostVars, tracing, pc, seen>>

(* RawTask::poll of the guest's task; a cancelled one drops its future.    *)
RunTask ==
  /\ Poll("hold", IF cancelled THEN "complete" ELSE "future")
  /\ life' = "running"
  /\ notified' = FALSE
  /\ UNCHANGED <<dumps, cancelled, runnable, waker, hostVars, tracing, deferred,
                 pc, seen>>

(* The plugin's future returns Ready ...                                   *)
FutureReady ==
  /\ Poll("future", "complete")
  /\ UNCHANGED <<dumps, taskVars, runnable, waker, hostVars, tracing, deferred,
                 pc, seen>>

(* ... or Pending: a task notified meanwhile is scheduled by its worker.   *)
FuturePending ==
  /\ IF cancelled
       THEN Poll("future", "complete") /\ UNCHANGED <<life, pc>>
       ELSE /\ life' = "idle"
            /\ Poll("future", IF notified THEN "yield" ELSE "ran")
            /\ IF notified THEN Go(Worker, "out", "schedule") ELSE UNCHANGED pc
  /\ UNCHANGED <<dumps, notified, cancelled, runnable, waker, hostVars, tracing,
                 deferred, seen>>

Yielded ==
  /\ pc[Worker] = "out"
  /\ Poll("yield", "ran")
  /\ UNCHANGED <<dumps, taskVars, runnable, waker, hostVars, tracing, deferred,
                 pc, seen>>

(* The future is gone and the task complete ... *)
CompleteTask ==
  /\ Poll("complete", "release")
  /\ life' = "complete"
  /\ UNCHANGED <<dumps, notified, cancelled, runnable, waker, hostVars, tracing,
                 deferred, pc, seen>>

(* Mistake: a Notified still waiting is left to itself. *)
ReleaseNothing ==
  /\ Poll("release", "releaseWaker")
  /\ UNCHANGED <<dumps, taskVars, runnable, waker, hostVars, tracing, deferred,
                 pc, seen>>

(* ... then TaskSchedule::release empties the slots, one after the other.  *)
ReleaseRunnable ==
  /\ Poll("release", "releaseWaker")
  /\ runnable' = FALSE
  /\ UNCHANGED <<dumps, taskVars, waker, hostVars, tracing, deferred, pc, seen>>

ReleaseWaker ==
  /\ Poll("releaseWaker", "ran")
  /\ waker' = FALSE
  /\ IF waker THEN WakeHostTask ELSE UNCHANGED <<host, hostNotified>>
  /\ UNCHANGED <<dumps, taskVars, runnable, hostAborted, tracing, deferred, pc,
                 seen>>

(* The task is complete: Ready, or the end of cancel_task, and the host    *)
(* releases its descriptor.                                                *)
ReleaseTask ==
  /\ life = "complete"
  /\ Poll("ran", "out")
  /\ host' = "released"
  /\ tracing' = FALSE
  /\ UNCHANGED <<dumps, taskVars, runnable, waker, hostNotified, hostAborted,
                 deferred, pc, seen>>

(* It is not: the waker of this poll is stored first ... *)
StoreWaker ==
  /\ life # "complete"
  /\ Poll("ran", "stored")
  /\ waker' = TRUE
  /\ UNCHANGED <<dumps, taskVars, runnable, hostVars, tracing, deferred, pc,
                 seen>>

(* Mistake: a Notified put into its slot before the waker was is forgotten.*)
CheckNothing ==
  /\ Poll("stored", "pending")
  /\ UNCHANGED <<dumps, taskVars, runnable, waker, hostVars, tracing, deferred,
                 pc, seen>>

(* ... and a Notified that came too early to use it wakes the host now.    *)
CheckRunnable ==
  /\ Poll("stored", "pending")
  /\ IF runnable /\ ~tracing THEN WakeHostTask ELSE UNCHANGED <<host, hostNotified>>
  /\ UNCHANGED <<dumps, taskVars, runnable, waker, hostAborted, tracing,
                 deferred, pc, seen>>

(* cancel_task: the task is taken over as if it ran, and its future dropped. *)
CancelTask ==
  /\ life = "idle"
  /\ Poll("cancel", "complete")
  /\ life' = "running"
  /\ cancelled' = TRUE
  /\ UNCHANGED <<dumps, notified, runnable, waker, hostVars, tracing, deferred,
                 pc, seen>>

-----------------------------------------------------------------------------
(* Wakers and TaskSchedule::schedule *)

(* The guest's waker is woken; only who finds the task idle and not yet    *)
(* notified gets a Notified to schedule.                                   *)
Notify(t) ==
  /\ notified' = (notified \/ life # "complete")
  /\ IF life = "idle" /\ ~notified THEN Go(t, "out", "schedule")
                                    ELSE pc[t] = "out" /\ UNCHANGED pc

Wake(w) ==
  /\ Notify(w)
  /\ UNCHANGED <<dumps, life, cancelled, runnable, waker, hostVars, poll,
                 tracing, deferred, seen>>

(* The worker that traced fires the deferred wakers once the dump is done. *)
FireDeferred ==
  /\ deferred /\ ~tracing
  /\ deferred' = FALSE
  /\ Notify(Flush)
  /\ UNCHANGED <<dumps, life, cancelled, runnable, waker, hostVars, poll,
                 tracing, seen>>

(* AbortHandle::abort.                                                     *)
Abort(w) ==
  /\ ~cancelled /\ life # "complete"
  /\ cancelled' = TRUE
  /\ Notify(w)
  /\ UNCHANGED <<dumps, life, runnable, waker, hostVars, poll, tracing,
                 deferred, seen>>

(* schedule: was the task cancelled? *)
Schedule(t) ==
  /\ Go(t, "schedule", "place")
  /\ seen' = IF cancelled THEN seen \cup {t} ELSE seen \ {t}
  /\ UNCHANGED <<dumps, taskVars, runnable, waker, hostVars, poll, tracing,
                 deferred>>

(* Mistake: a Notified is kept although its task is complete. *)
PlaceAlways(t) ==
  /\ Go(t, "place", "wake")
  /\ runnable' = TRUE
  /\ UNCHANGED <<dumps, taskVars, waker, hostVars, poll, tracing, deferred,
                 seen>>

(* Mistake: a cancelled task is not scheduled any more. *)
PlaceUncancelled(t) ==
  /\ IF life = "complete" \/ t \in seen
       THEN Go(t, "place", "out") /\ UNCHANGED runnable
       ELSE Go(t, "place", "wake") /\ runnable' = TRUE
  /\ UNCHANGED <<dumps, taskVars, waker, hostVars, poll, tracing, deferred,
                 seen>>

(* The Notified goes to its slot unless the task is complete by now. *)
Place(t) ==
  /\ IF life = "complete"
       THEN Go(t, "place", "out") /\ UNCHANGED runnable
       ELSE Go(t, "place", "wake") /\ runnable' = TRUE
  /\ UNCHANGED <<dumps, taskVars, waker, hostVars, poll, tracing, deferred,
                 seen>>

(* TaskSchedule::wake does nothing on a thread that traces. *)
WakeHost(t) ==
  /\ Go(t, "wake", IF t \in seen THEN "abort" ELSE "out")
  /\ IF waker /\ ~(t = Worker /\ tracing)
       THEN WakeHostTask
       ELSE UNCHANGED <<host, hostNotified>>
  /\ UNCHANGED <<dumps, taskVars, runnable, waker, hostAborted, poll, tracing,
                 deferred, seen>>

(* A cancelled task has its host task aborted, which wakes it. *)
AbortHost(t) ==
  /\ Go(t, "abort", "out")
  /\ hostAborted' = TRUE
  /\ WakeHostTask
  /\ UNCHANGED <<dumps, taskVars, runnable, waker, poll, tracing, deferred,
                 seen>>

ScheduleStep(t) == Schedule(t) \/ Place(t) \/ WakeHost(t) \/ AbortHost(t)

WorkerStep ==
  \/ HostPolls \/ HostPending
  \/ TakeRunnable \/ TakeOrNotify
  \/ RunTask \/ FutureReady \/ FuturePending \/ Yielded
  \/ CompleteTask \/ ReleaseRunnable \/ ReleaseWaker \/ ReleaseTask
  \/ StoreWaker \/ CheckRunnable
  \/ CancelTask

Next ==
  \/ WorkerStep
  \/ HostTraces
  \/ HostDrops
  \/ FireDeferred
  \/ \E w \in Wakers : Wake(w) \/ Abort(w)
  \/ \E t \in Threads : ScheduleStep(t)

Spec == Init /\ [][Next]_vars

(* Host workers and threads inside schedule go on, deferred wakers fire;   *)
(* nobody is obliged to wake, abort, dump or drop the task.                *)
FairSpec ==
  /\ Spec
  /\ WF_vars(WorkerStep)
  /\ WF_vars(FireDeferred)
  /\ \A t \in Threads : WF_vars(ScheduleStep(t))

-----------------------------------------------------------------------------
(* Properties *)

(* The assertion of schedule, "Tokio task was scheduled twice": whoever is *)
(* about to fill the slot of a live task finds it empty.                   *)
NeverScheduledTwice ==
  \A t \in Threads : pc[t] = "place" /\ life # "complete" => ~runnable

(* When the host has released its descriptor, neither slot keeps the guest *)
(* task or the host task alive, whoever is still inside schedule.          *)
NothingKept == host = "released" => life = "complete" /\ ~runnable /\ ~waker

(* A task that was woken is polled again, or ends.                         *)
WokenIsPolled == (notified /\ life = "idle" /\ ~dumps) ~> life # "idle"

(* A task whose AbortHandle was used ends.                                 *)
AbortedEnds == (cancelled /\ ~dumps) ~> life = "complete"

(* The same as WokenIsPolled of a build with runtime dumps: what the       *)
(* deferred waker of take_or_notify is there for.                          *)
TracedIsPolled == (notified /\ life = "idle") ~> life # "idle"
(* The inductive invariant of the two.  A thread has a Notified in hand     *)
(* until it has put it into the slot; poll_task has it while `poll' is hold. *)
InHand(t) == pc[t] \in {"schedule", "place"}

OneNotified ==
  /\ \A t, u \in Threads : InHand(t) /\ InHand(u) => t = u
  /\ \A t \in Threads : InHand(t) => notified /\ ~runnable /\ poll # "hold"
  /\ poll = "hold" => notified /\ ~runnable

Stages ==
  /\ poll = "hold" => life = "idle"
  /\ poll = "future" => life = "running" /\ ~runnable /\ \A t \in Threads : ~InHand(t)
  /\ poll = "complete" => life = "running"
  /\ poll \in {"begin", "yield", "stored", "pending", "cancel"} => life = "idle"
  /\ poll \in {"release", "releaseWaker"} => life = "complete"
  /\ life = "running" => poll \in {"future", "complete"}
  /\ life = "complete" => poll \in {"release", "releaseWaker", "ran", "out"}

Emptied ==
  /\ poll = "releaseWaker" => ~runnable
  /\ life = "complete" /\ poll \in {"ran", "out"} => ~runnable /\ ~waker
  /\ host = "released" <=> life = "complete" /\ poll = "out"

IInv == TypeOK /\ OneNotified /\ Stages /\ Emptied
===============================================================================
