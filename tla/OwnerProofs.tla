----------------------------- MODULE OwnerProofs -----------------------------
(***************************************************************************)
(* What Owner.tla guarantees for any number of tasks, calls, deferred      *)
(* wakers, resources, runtimes and cancelled detaches.                     *)
(***************************************************************************)
EXTENDS Owner, TLAPS

(* A task has a slot in the map from reserve_task until the host drops it. *)
TaskInv == \A t \in Tasks :
  /\ spawn[t] = "idle" => tasks[t] = "vacant" /\ job[t] = "absent"
  /\ spawn[t] = "reserved" => tasks[t] = "reserved" /\ job[t] = "absent"
  /\ job[t] \in {"queued", "asleep", "polling", "dropping"} => tasks[t] # "vacant"
  /\ job[t] \in {"finished", "gone"} => tasks[t] = "vacant"
  /\ spawn[t] = "returned" => tasks[t] # "reserved"

(* A call in progress and a live deferred waker are in the activity map.   *)
CallInv  == \A c \in Calls : call[c] \notin {"out", "removed"} => c \in activities
DeferInv == \A d \in Defers :
  defer[d] \in {"registered", "listed", "dropping"} => d \in activities

(* shutdown_owner, once past its snapshot, runs on a stopped owner ...     *)
PastSnapshot == {"stopping", "joining", "releasing", "listening", "checking",
                 "waiting", "finishing", "detached", "failed"}
StopInv ==
  /\ detach # "attached" => attempt \in Attempts
  /\ detach \in PastSnapshot => ~accepting
  /\ toClose # {} => detach = "stopping"
  /\ ~accepting => {s \in Resources : resource[s] = "open"} \subseteq toClose

(* ... and what wait_idle found remains true.                              *)
IdleInv == detach \in {"finishing", "detached"} => Idle

(* The runtimes still open are those the blocking task has yet to close.   *)
PastClosing == {"releasing", "listening", "checking", "waiting", "finishing"}
RuntimeInv ==
  /\ \A r \in Runtimes :
       /\ r \in runtimes => host[r] # "absent"
       /\ call[r] = "begun" => host[r] = "absent"
       /\ call[r] = "built" => host[r] # "absent"
  /\ \A n \in Attempts :
       /\ closer[n] # "running" => todo[n] = {}
       /\ \A r \in todo[n] : host[r] # "absent"
  /\ detach = "joining" => OpenRuntimes \subseteq todo[attempt]
  /\ detach \in PastClosing => OpenRuntimes = {}

LocalInv == LocalsStayHome /\ (~accepting => ~LocalOpen)

(* A block_on in or after a poll has its waker in the map, and after the   *)
(* stop it has been woken or will be.                                      *)
WakerInv == \A c \in BlockOns : call[c] \in {"guest", "parked"} =>
  /\ c \in armed
  /\ ~accepting => c \in woken \cup toWake

IInv ==
  /\ TypeOK
  /\ TaskInv
  /\ CallInv
  /\ DeferInv
  /\ StopInv
  /\ IdleInv
  /\ RuntimeInv
  /\ LocalInv
  /\ WakerInv
  /\ WaiterIsNotified
  /\ NoTaskEscapesStop
  /\ FiredDeferIsReleased
  /\ DetachNeverFails
USE DEF ownerVars, jobVars, callVars, deferVars, hostVars, closerVars, stopVars

-----------------------------------------------------------------------------
(* Types *)

(* A shutdown only changes the runtimes and who waits for them. *)
LEMMA ShutdownTypes ==
  ASSUME TypeOK, NEW f \in Shutters, NEW r \in Runtimes, NEW mode,
         Shutdown(f, r, mode)
  PROVE  /\ host' \in [Runtimes -> {"absent", "open", "closing", "lingering", "closed"}]
         /\ waiting' \in [Shutters -> SUBSET Runtimes]
BY DEF TypeOK, Shutdown

(* Every step keeps the types. *)
LEMMA TypeStep ==
  ASSUME TypeOK, [Next]_vars
  PROVE  TypeOK'
<1> USE OwnerAssumption DEF TypeOK, Calls, Attempts, Holders, Shutters, Spawn,
                            Job, Call, Defer, Detach, Admit, Remove, WakeAll
<1>1. ASSUME NEW t \in Tasks,
             \/ ReserveTask(t) \/ Launch(t) \/ RegisterTask(t) \/ AbortTask(t)
             \/ FailSpawn(t)
      PROVE  TypeOK'
  <2>1. CASE ReserveTask(t)
    BY <2>1 DEF ReserveTask
  <2>2. CASE Launch(t)
    BY <2>2 DEF Launch
  <2>3. CASE RegisterTask(t)
    BY <2>3 DEF RegisterTask
  <2>4. CASE AbortTask(t)
    BY <2>4 DEF AbortTask
  <2>5. CASE FailSpawn(t)
    BY <2>5 DEF FailSpawn
  <2> QED BY <1>1, <2>1, <2>2, <2>3, <2>4, <2>5
<1>2. ASSUME NEW t \in Tasks,
             PollTask(t) \/ PollReturns(t) \/ WakeTask(t) \/ CancelTask(t)
      PROVE  TypeOK'
  <2>1. CASE PollTask(t)
    BY <2>1 DEF PollTask
  <2>2. CASE PollReturns(t)
    BY <2>2 DEF PollReturns
  <2>3. CASE WakeTask(t)
    BY <2>3 DEF WakeTask
  <2>4. CASE CancelTask(t)
    BY <2>4 DEF CancelTask
  <2> QED BY <1>2, <2>1, <2>2, <2>3, <2>4
<1>3. ASSUME NEW t \in Tasks, FinishTask(t)
      PROVE  TypeOK'
  BY <1>3 DEF FinishTask
<1>4. ASSUME NEW t \in Tasks, FinishNotify(t) \/ AbortNext(t)
      PROVE  TypeOK'
  <2>1. CASE FinishNotify(t)
    BY <2>1 DEF FinishNotify
  <2>2. CASE AbortNext(t)
    BY <2>2 DEF AbortNext
  <2> QED BY <1>4, <2>1, <2>2
<1>5. ASSUME NEW c \in Calls, BeginCall(c) \/ WakeCall(c)
      PROVE  TypeOK'
  <2>1. CASE BeginCall(c)
    BY <2>1 DEF BeginCall
  <2>2. CASE WakeCall(c)
    BY <2>2 DEF WakeCall
  <2> QED BY <1>5, <2>1, <2>2
<1>6. ASSUME NEW c \in Calls, PollFuture(c) \/ Park(c) \/ CallReturns(c)
      PROVE  TypeOK'
  <2>1. CASE PollFuture(c)
    BY <2>1 DEF PollFuture
  <2>2. CASE Park(c)
    BY <2>2 DEF Park
  <2>3. CASE CallReturns(c)
    BY <2>3 DEF CallReturns
  <2> QED BY <1>6, <2>1, <2>2, <2>3
<1>7. ASSUME NEW c \in Calls, Unpark(c) \/ WakeActivities(c)
      PROVE  TypeOK'
  <2>1. CASE Unpark(c)
    BY <2>1 DEF Unpark
  <2>2. CASE WakeActivities(c)
    BY <2>2 DEF WakeActivities
  <2> QED BY <1>7, <2>1, <2>2
<1>8. ASSUME NEW c \in Calls, EndCall(c) \/ EndCallNotify(c)
      PROVE  TypeOK'
  <2>1. CASE EndCall(c)
    BY <2>1 DEF EndCall
  <2>2. CASE EndCallNotify(c)
    BY <2>2 DEF EndCallNotify
  <2> QED BY <1>8, <2>1, <2>2
<1>9. ASSUME NEW d \in Defers, BeginDefer(d) \/ Install(d)
      PROVE  TypeOK'
  <2>1. CASE BeginDefer(d)
    BY <2>1 DEF BeginDefer
  <2>2. CASE Install(d)
    BY <2>2 DEF Install
  <2> QED BY <1>9, <2>1, <2>2
<1>10. ASSUME NEW d \in Defers, FlushDefer(d)
      PROVE  TypeOK'
  BY <1>10 DEF FlushDefer
<1>11. ASSUME NEW d \in Defers, EndDefer(d) \/ EndDeferNotify(d)
      PROVE  TypeOK'
  <2>1. CASE EndDefer(d)
    BY <2>1 DEF EndDefer
  <2>2. CASE EndDeferNotify(d)
    BY <2>2 DEF EndDeferNotify
  <2> QED BY <1>11, <2>1, <2>2
<1>12. ASSUME NEW h \in BlockOns \cup Defers, WakeNext(h)
      PROVE  TypeOK'
  BY <1>12 DEF WakeNext
<1>13. ASSUME NEW s \in Resources,
             RegisterResource(s) \/ UnregisterResource(s) \/ CloseNext(s)
      PROVE  TypeOK'
  <2>1. CASE RegisterResource(s)
    BY <2>1 DEF RegisterResource
  <2>2. CASE UnregisterResource(s)
    BY <2>2 DEF UnregisterResource
  <2>3. CASE CloseNext(s)
    BY <2>3 DEF CloseNext
  <2> QED BY <1>13, <2>1, <2>2, <2>3
<1>14. ASSUME NEW f \in Tasks \cup Calls, NEW r \in Runtimes, NEW mode \in Modes,
             CloseRuntime(f, r, mode)
      PROVE  TypeOK'
  <2>1. /\ host' \in [Runtimes -> {"absent", "open", "closing", "lingering", "closed"}]
        /\ waiting' \in [Shutters -> SUBSET Runtimes]
    BY <1>14, ShutdownTypes DEF CloseRuntime
  <2> QED BY <1>14, <2>1 DEF CloseRuntime
<1>15. ASSUME NEW r \in Runtimes, UnregisterRuntime(r) \/ BuildRuntime(r)
      PROVE  TypeOK'
  <2>1. CASE UnregisterRuntime(r)
    BY <2>1 DEF UnregisterRuntime
  <2>2. CASE BuildRuntime(r)
    BY <2>2 DEF BuildRuntime
  <2> QED BY <1>15, <2>1, <2>2
<1>16. ASSUME NEW r \in Runtimes,
             RegisterRuntime(r) \/ RefuseRuntime(r) \/ WorkersExit(r)
      PROVE  TypeOK'
  <2>1. CASE RegisterRuntime(r)
    BY <2>1 DEF RegisterRuntime
  <2>2. CASE RefuseRuntime(r)
    <3>1. CASE r \in Locals
      <4>1. /\ host' = [host EXCEPT ![r] = "closed"]
            /\ call' = [call EXCEPT ![r] = "refused"]
        BY <2>2, <3>1 DEF RefuseRuntime
      <4>2. /\ host' \in [Runtimes -> {"absent", "open", "closing", "lingering", "closed"}]
            /\ call' \in [Calls -> {"out", "begun", "guest", "parked", "built",
                                   "refused", "leaving", "removed"}]
        BY <4>1
      <4>3. UNCHANGED <<ownerVars, jobVars, woken, waiting, deferVars, closerVars,
                        stopVars, notified>>
        BY <2>2, <3>1 DEF RefuseRuntime
      <4> QED BY <4>2, <4>3
    <3>2. CASE r \notin Locals
      <4>1. /\ Shutdown(r, r, "Wait")
            /\ call' = [call EXCEPT ![r] = "refused"]
        BY <2>2, <3>2 DEF RefuseRuntime
      <4>2. /\ host' \in [Runtimes -> {"absent", "open", "closing", "lingering", "closed"}]
            /\ waiting' \in [Shutters -> SUBSET Runtimes]
        BY <4>1, ShutdownTypes
      <4>3. call' \in [Calls -> {"out", "begun", "guest", "parked", "built",
                                "refused", "leaving", "removed"}]
        BY <4>1
      <4>4. UNCHANGED <<ownerVars, jobVars, woken, deferVars, closerVars, stopVars,
                        notified>>
        BY <2>2 DEF RefuseRuntime
      <4> QED BY <4>2, <4>3, <4>4
    <3> QED BY <3>1, <3>2
  <2>3. CASE WorkersExit(r)
    BY <2>3 DEF WorkersExit
  <2> QED BY <1>16, <2>1, <2>2, <2>3
<1>17. ASSUME NEW f \in Shutters, JoinRuntime(f)
      PROVE  TypeOK'
  BY <1>17 DEF JoinRuntime
<1>18. ASSUME NEW n \in Attempts, CloseNextRuntime(n)
      PROVE  TypeOK'
  <2>1. PICK r \in todo[n] :
               /\ todo' = [todo EXCEPT ![n] = @ \ {r}]
               /\ IF IsClosed(r) THEN UNCHANGED hostVars ELSE Shutdown(n, r, "Wait")
    BY <1>18 DEF CloseNextRuntime
  <2>2. /\ host' \in [Runtimes -> {"absent", "open", "closing", "lingering", "closed"}]
        /\ waiting' \in [Shutters -> SUBSET Runtimes]
    BY <2>1, ShutdownTypes DEF hostVars
  <2>3. todo' \in [Attempts -> SUBSET Runtimes]
    BY <2>1
  <2>4. UNCHANGED <<ownerVars, jobVars, callVars, deferVars, closer, stopVars, notified>>
    BY <1>18 DEF CloseNextRuntime
  <2> QED BY <2>2, <2>3, <2>4
<1>19. ASSUME NEW n \in Attempts, EndCloser(n)
      PROVE  TypeOK'
  BY <1>19 DEF EndCloser
<1>20. ASSUME NEW n \in Attempts, EndCloserNotify(n)
      PROVE  TypeOK'
  BY <1>20 DEF EndCloserNotify
<1>21. CASE DetachCall
  BY <1>21 DEF DetachCall
<1>22. CASE Refuse
  BY <1>22 DEF Refuse
<1>23. CASE Snapshot
  BY <1>23 DEF Snapshot
<1>24. CASE ListRuntimes
  <2>1. OpenRuntimes \subseteq Runtimes
    BY DEF OpenRuntimes
  <2>2. CASE OpenRuntimes = {}
    BY <1>24, <2>2 DEF ListRuntimes
  <2>3. CASE OpenRuntimes # {}
    BY <1>24, <2>1, <2>3 DEF ListRuntimes
  <2> QED BY <2>2, <2>3
<1>25. CASE Joined \/ DropCleanup
  <2>1. CASE Joined
    BY <2>1 DEF Joined
  <2>2. CASE DropCleanup
    BY <2>2 DEF DropCleanup
  <2> QED BY <1>25, <2>1, <2>2
<1>26. CASE Listen \/ CheckIdle \/ Notified \/ CancelDetach
  <2>1. CASE Listen
    BY <2>1 DEF Listen
  <2>2. CASE CheckIdle
    BY <2>2 DEF CheckIdle
  <2>3. CASE Notified
    BY <2>3 DEF Notified
  <2>4. CASE CancelDetach
    BY <2>4 DEF CancelDetach
  <2> QED BY <1>26, <2>1, <2>2, <2>3, <2>4
<1>27. CASE DetachOwner
  BY <1>27 DEF DetachOwner
<1>28. CASE UNCHANGED vars
  BY <1>28 DEF vars
<1> QED BY <1>1, <1>2, <1>3, <1>4, <1>5, <1>6, <1>7, <1>8, <1>9, <1>10,
     <1>11, <1>12, <1>13, <1>14, <1>15, <1>16, <1>17, <1>18, <1>19, <1>20,
     <1>21, <1>22, <1>23, <1>24, <1>25, <1>26, <1>27, <1>28 DEF Next,
     PluginChoice, SpawnStep, JobStep, CallStep, DeferStep, BuildStep,
     DetachStep, CloserStep

(* The owner is attached with nothing in it. *)
LEMMA TypeInit == Init => TypeOK
<1> SUFFICES ASSUME Init PROVE TypeOK
  OBVIOUS
<1>1. /\ attempt \in 0 .. MaxAttempts
      /\ closer \in [Attempts -> {"none"}] /\ todo \in [Attempts -> {{}}]
  BY OwnerAssumption DEF Init, Attempts
<1>2. armed \subseteq activities \cap (BlockOns \cup Defers)
  BY DEF Init
<1> QED BY <1>1, <1>2 DEF Init, TypeOK

(* Every variable keeps its type in every behaviour, whatever the plugin   *)
(* and the application do: in particular a stored waker belongs to an      *)
(* activity in the map.                                                    *)
THEOREM TypeCorrect == Spec => []TypeOK
BY TypeInit, TypeStep, PTL DEF Spec

-----------------------------------------------------------------------------
(* Tasks *)

(* The steps that move a task or its slot. *)
LEMMA TaskFrame ==
  ASSUME [Next]_vars
  PROVE  \/ \E t \in Tasks :
              \/ ReserveTask(t) \/ Launch(t) \/ RegisterTask(t)
              \/ PollTask(t) \/ PollReturns(t) \/ WakeTask(t)
              \/ CancelTask(t) \/ FinishTask(t) \/ FinishNotify(t)
              \/ FailSpawn(t)
         \/ UNCHANGED <<spawn, tasks, job>>
  BY DEF Next, PluginChoice, SpawnStep, JobStep, CallStep, DeferStep,
         BuildStep, DetachStep, CloserStep, vars, AbortTask, BeginCall,
         WakeCall, PollFuture, Park, CallReturns, Unpark, WakeActivities,
         EndCall, EndCallNotify, BeginDefer, FlushDefer, Install, EndDefer,
         EndDeferNotify, RegisterResource, UnregisterResource, CloseNext,
         CloseRuntime, UnregisterRuntime, BuildRuntime, RegisterRuntime,
         RefuseRuntime, WorkersExit, JoinRuntime, CloseNextRuntime,
         EndCloser, EndCloserNotify, AbortNext, WakeNext, DetachCall,
         Refuse, Snapshot, ListRuntimes, Joined, DropCleanup, Listen,
         CheckIdle, Notified, DetachOwner, CancelDetach

(* The task table follows the spawning thread and the worker. *)
LEMMA TaskStep ==
  ASSUME TypeOK, TaskInv, [Next]_vars
  PROVE  TaskInv'
<1> USE DEF TypeOK, TaskInv, Spawn, Job
<1>1. ASSUME NEW t \in Tasks,
             ReserveTask(t) \/ Launch(t) \/ RegisterTask(t) \/ FailSpawn(t)
      PROVE  TaskInv'
  BY <1>1 DEF ReserveTask, Launch, RegisterTask, FailSpawn
<1>2. ASSUME NEW t \in Tasks,
             PollTask(t) \/ PollReturns(t) \/ WakeTask(t) \/ CancelTask(t)
      PROVE  TaskInv'
  BY <1>2 DEF PollTask, PollReturns, WakeTask, CancelTask
<1>3. ASSUME NEW t \in Tasks, FinishTask(t) \/ FinishNotify(t)
      PROVE  TaskInv'
  BY <1>3 DEF FinishTask, FinishNotify
<1>4. CASE UNCHANGED <<spawn, tasks, job>>
  BY <1>4
<1> QED BY <1>1, <1>2, <1>3, <1>4, TaskFrame

(* The steps that abort a task, take one off the snapshot or register one. *)
LEMMA AbortFrame ==
  ASSUME [Next]_vars
  PROVE  \/ \E t \in Tasks :
              \/ ReserveTask(t) \/ RegisterTask(t) \/ AbortTask(t)
              \/ FinishTask(t) \/ AbortNext(t)
         \/ Snapshot
         \/ UNCHANGED <<accepting, tasks, aborted, toAbort>>
  BY DEF Next, PluginChoice, SpawnStep, JobStep, CallStep, DeferStep,
         BuildStep, DetachStep, CloserStep, vars, Launch,
         FailSpawn, PollTask, PollReturns, WakeTask, CancelTask, FinishNotify, BeginCall,
         WakeCall, PollFuture, Park, CallReturns, Unpark, WakeActivities,
         EndCall, EndCallNotify, BeginDefer, FlushDefer, Install, EndDefer,
         EndDeferNotify, RegisterResource, UnregisterResource, CloseNext,
         CloseRuntime, UnregisterRuntime, BuildRuntime, RegisterRuntime,
         RefuseRuntime, WorkersExit, JoinRuntime, CloseNextRuntime,
         EndCloser, EndCloserNotify, WakeNext, DetachCall, Refuse,
         ListRuntimes, Joined, DropCleanup, Listen, CheckIdle, Notified,
         DetachOwner, CancelDetach

(* A task registered after the snapshot is aborted, one before it is in it. *)
LEMMA NoTaskEscapesStep ==
  ASSUME TypeOK, TaskInv, TaskInv', NoTaskEscapesStop, [Next]_vars
  PROVE  NoTaskEscapesStop'
<1> USE DEF TypeOK, TaskInv, NoTaskEscapesStop, Spawn, Job, Detach
<1>1. ASSUME NEW t \in Tasks, ReserveTask(t) \/ RegisterTask(t)
      PROVE  NoTaskEscapesStop'
  BY <1>1 DEF ReserveTask, RegisterTask
<1>2. ASSUME NEW t \in Tasks, AbortTask(t) \/ FinishTask(t) \/ AbortNext(t)
      PROVE  NoTaskEscapesStop'
  BY <1>2 DEF AbortTask, FinishTask, AbortNext
<1>3. CASE Snapshot
  BY <1>3 DEF Snapshot
<1>4. CASE UNCHANGED <<accepting, tasks, aborted, toAbort>>
  BY <1>4
<1> QED BY <1>1, <1>2, <1>3, <1>4, AbortFrame

-----------------------------------------------------------------------------
(* Activities *)

(* The steps that move a call or a deferred waker, or edit the activity map. *)
LEMMA ActivityFrame ==
  ASSUME [Next]_vars
  PROVE  \/ \E c \in Calls :
              \/ BeginCall(c) \/ PollFuture(c) \/ Park(c)
              \/ CallReturns(c) \/ Unpark(c) \/ WakeActivities(c)
              \/ EndCall(c) \/ EndCallNotify(c)
         \/ \E d \in Defers :
              \/ BeginDefer(d) \/ Install(d) \/ FlushDefer(d)
              \/ EndDefer(d) \/ EndDeferNotify(d)
         \/ \E r \in Runtimes :
              \/ BuildRuntime(r) \/ RegisterRuntime(r) \/ RefuseRuntime(r)
         \/ \E h \in BlockOns \cup Defers :
              \/ WakeNext(h)
         \/ \E n \in Attempts :
              \/ EndCloser(n)
         \/ DetachCall \/ DropCleanup
         \/ UNCHANGED <<activities, call, defer>>
  BY DEF Next, PluginChoice, SpawnStep, JobStep, CallStep, DeferStep,
         BuildStep, DetachStep, CloserStep, vars, AbortTask, ReserveTask,
         Launch, FailSpawn, RegisterTask, PollTask, PollReturns, WakeTask,
         CancelTask,
         FinishTask, FinishNotify, WakeCall, RegisterResource,
         UnregisterResource, CloseNext, CloseRuntime, UnregisterRuntime,
         WorkersExit, JoinRuntime, CloseNextRuntime, EndCloserNotify,
         AbortNext, Refuse, Snapshot, ListRuntimes, Joined, Listen,
         CheckIdle, Notified, DetachOwner, CancelDetach

(* The holders of the activities are pairwise different. *)
LEMMA HoldersDisjoint ==
  /\ \A c \in Calls : c \notin Defers /\ c \notin Attempts /\ c \notin Tasks
  /\ \A d \in Defers : d \notin Attempts /\ d \notin Tasks
  /\ BlockOns \subseteq Calls /\ Runtimes \subseteq Calls
  /\ \A c \in BlockOns : c \notin Runtimes /\ c \notin Entries /\ c \notin Drivers
BY OwnerAssumption DEF Holders, Calls

(* An activity is in the map for as long as its guard lives. *)
LEMMA ActivityStep ==
  ASSUME TypeOK, CallInv, DeferInv, StopInv, [Next]_vars
  PROVE  CallInv' /\ DeferInv'
<1> USE HoldersDisjoint DEF TypeOK, CallInv, DeferInv, Call, Defer, Admit,
                            Remove, WakeAll
<1>1. ASSUME NEW c \in Calls,
             \/ BeginCall(c) \/ PollFuture(c) \/ Park(c) \/ CallReturns(c)
             \/ Unpark(c)
      PROVE  CallInv' /\ DeferInv'
  BY <1>1 DEF BeginCall, PollFuture, Park, CallReturns, Unpark
<1>2. ASSUME NEW c \in Calls, WakeActivities(c)
      PROVE  CallInv' /\ DeferInv'
  BY <1>2 DEF WakeActivities
<1>3. ASSUME NEW c \in Calls, EndCall(c) \/ EndCallNotify(c)
      PROVE  CallInv' /\ DeferInv'
  BY <1>3 DEF EndCall, EndCallNotify
<1>4. ASSUME NEW d \in Defers, BeginDefer(d) \/ Install(d) \/ FlushDefer(d)
      PROVE  CallInv' /\ DeferInv'
  BY <1>4 DEF BeginDefer, Install, FlushDefer
<1>5. ASSUME NEW d \in Defers, EndDefer(d) \/ EndDeferNotify(d)
      PROVE  CallInv' /\ DeferInv'
  BY <1>5 DEF EndDefer, EndDeferNotify
<1>6. ASSUME NEW r \in Runtimes,
             BuildRuntime(r) \/ RegisterRuntime(r) \/ RefuseRuntime(r)
      PROVE  CallInv' /\ DeferInv'
  BY <1>6 DEF BuildRuntime, RegisterRuntime, RefuseRuntime
<1>7. ASSUME NEW h \in BlockOns \cup Defers, WakeNext(h)
      PROVE  CallInv' /\ DeferInv'
  BY <1>7 DEF WakeNext
<1>8. ASSUME NEW n \in Attempts, EndCloser(n)
      PROVE  CallInv' /\ DeferInv'
  BY <1>8 DEF EndCloser
<1>9. CASE DetachCall \/ DropCleanup
  BY <1>9 DEF DetachCall, DropCleanup, Detach, StopInv
<1>10. CASE UNCHANGED <<activities, call, defer>>
  BY <1>10
<1> QED BY <1>1, <1>2, <1>3, <1>4, <1>5, <1>6, <1>7, <1>8, <1>9, <1>10,
           ActivityFrame

-----------------------------------------------------------------------------
(* The stop *)

(* The steps that move detach, close the owner or touch a resource. *)
LEMMA StopFrame ==
  ASSUME [Next]_vars
  PROVE  \/ \E s \in Resources :
              \/ RegisterResource(s) \/ UnregisterResource(s)
              \/ CloseNext(s)
         \/ DetachCall \/ Refuse \/ Snapshot \/ ListRuntimes \/ Joined
         \/ DropCleanup \/ Listen \/ CheckIdle \/ Notified \/ DetachOwner
         \/ CancelDetach
         \/ UNCHANGED <<accepting, detach, attempt, toClose, resource>>
<1>1. CASE UNCHANGED vars
  BY <1>1 DEF vars
<1>2. CASE PluginChoice
  BY <1>2 DEF PluginChoice, ReserveTask, AbortTask, WakeTask, BeginCall, WakeCall,
              BeginDefer, FlushDefer, CloseRuntime, UnregisterRuntime
<1>3. ASSUME NEW t \in Tasks, SpawnStep(t) \/ JobStep(t)
      PROVE  UNCHANGED <<accepting, detach, attempt, toClose, resource>>
  BY <1>3 DEF SpawnStep, JobStep, Launch, FailSpawn, RegisterTask, PollTask,
              PollReturns, CancelTask, FinishTask, FinishNotify
<1>4. ASSUME NEW c \in Calls, CallStep(c)
      PROVE  UNCHANGED <<accepting, detach, attempt, toClose, resource>>
  BY <1>4 DEF CallStep, PollFuture, Park, CallReturns, Unpark, WakeActivities,
              EndCall, EndCallNotify
<1>5. ASSUME NEW d \in Defers, DeferStep(d)
      PROVE  UNCHANGED <<accepting, detach, attempt, toClose, resource>>
  BY <1>5 DEF DeferStep, Install, EndDefer, EndDeferNotify
<1>6. ASSUME NEW r \in Runtimes, BuildStep(r) \/ WorkersExit(r)
      PROVE  UNCHANGED <<accepting, detach, attempt, toClose, resource>>
  BY <1>6 DEF BuildStep, BuildRuntime, RegisterRuntime, RefuseRuntime, WorkersExit
<1>7. ASSUME NEW f \in Shutters, JoinRuntime(f)
      PROVE  UNCHANGED <<accepting, detach, attempt, toClose, resource>>
  BY <1>7 DEF JoinRuntime
<1>8. ASSUME NEW n \in Attempts, CloserStep(n)
      PROVE  UNCHANGED <<accepting, detach, attempt, toClose, resource>>
  BY <1>8 DEF CloserStep, CloseNextRuntime, EndCloser, EndCloserNotify
<1>9. CASE DetachStep
  BY <1>9 DEF DetachStep, AbortNext, WakeNext
<1> QED BY <1>1, <1>2, <1>3, <1>4, <1>5, <1>6, <1>7, <1>8, <1>9 DEF Next

(* Only shutdown_owner stops the owner and empties its snapshot. *)
LEMMA StopStep ==
  ASSUME TypeOK, StopInv, [Next]_vars
  PROVE  StopInv'
<1> USE DEF TypeOK, StopInv, PastSnapshot, Detach
<1>1. ASSUME NEW s \in Resources, RegisterResource(s) \/ UnregisterResource(s)
      PROVE  StopInv'
  BY <1>1 DEF RegisterResource, UnregisterResource
<1>2. ASSUME NEW s \in Resources, CloseNext(s)
      PROVE  StopInv'
  BY <1>2 DEF CloseNext
<1>3. CASE DetachCall
  BY <1>3, OwnerAssumption DEF DetachCall, Attempts
<1>4. CASE Snapshot
  BY <1>4 DEF Snapshot
<1>5. CASE Refuse \/ ListRuntimes \/ Joined \/ DropCleanup
  BY <1>5 DEF Refuse, ListRuntimes, Joined, DropCleanup
<1>6. CASE Listen \/ CheckIdle \/ Notified \/ CancelDetach
  BY <1>6 DEF Listen, CheckIdle, Notified, CancelDetach
<1>7. CASE DetachOwner
  BY <1>7 DEF DetachOwner
<1>8. CASE UNCHANGED <<accepting, detach, attempt, toClose, resource>>
  BY <1>8
<1> QED BY <1>1, <1>2, <1>3, <1>4, <1>5, <1>6, <1>7, <1>8, StopFrame

(* Only the snapshot closes the owner. *)
LEMMA AcceptingFrame ==
  ASSUME [Next]_vars
  PROVE  \/ Snapshot
         \/ UNCHANGED <<accepting>>
  BY DEF Next, PluginChoice, SpawnStep, JobStep, CallStep, DeferStep,
         BuildStep, DetachStep, CloserStep, vars, AbortTask, ReserveTask,
         Launch, FailSpawn, RegisterTask, PollTask, PollReturns, WakeTask,
         CancelTask,
         FinishTask, FinishNotify, BeginCall, WakeCall, PollFuture, Park,
         CallReturns, Unpark, WakeActivities, EndCall, EndCallNotify,
         BeginDefer, FlushDefer, Install, EndDefer, EndDeferNotify,
         RegisterResource, UnregisterResource, CloseNext, CloseRuntime,
         UnregisterRuntime, BuildRuntime, RegisterRuntime, RefuseRuntime,
         WorkersExit, JoinRuntime, CloseNextRuntime, EndCloser,
         EndCloserNotify, AbortNext, WakeNext, DetachCall, Refuse,
         ListRuntimes, Joined, DropCleanup, Listen, CheckIdle, Notified,
         DetachOwner, CancelDetach

(* What a stopped owner holds only shrinks. *)
LEMMA TasksShrink ==
  ASSUME TypeOK, TaskInv, ~accepting, [Next]_vars
  PROVE  \A t \in Tasks : tasks[t] = "vacant" => tasks'[t] = "vacant"
<1> USE DEF TypeOK, TaskInv, Spawn, Job
<1>1. ASSUME NEW t \in Tasks,
             ReserveTask(t) \/ Launch(t) \/ RegisterTask(t) \/ FailSpawn(t)
      PROVE  \A u \in Tasks : tasks[u] = "vacant" => tasks'[u] = "vacant"
  BY <1>1 DEF ReserveTask, Launch, RegisterTask, FailSpawn
<1>2. ASSUME NEW t \in Tasks,
             \/ PollTask(t) \/ PollReturns(t) \/ WakeTask(t) \/ CancelTask(t)
             \/ FinishTask(t) \/ FinishNotify(t)
      PROVE  \A u \in Tasks : tasks[u] = "vacant" => tasks'[u] = "vacant"
  BY <1>2 DEF PollTask, PollReturns, WakeTask, CancelTask, FinishTask, FinishNotify
<1> QED BY <1>1, <1>2, TaskFrame

(* A stopped owner admits no activity. *)
LEMMA ActivitiesShrink ==
  ASSUME TypeOK, ~accepting, [Next]_vars
  PROVE  activities' \subseteq activities
<1> USE DEF TypeOK, Admit, Remove
<1>1. ASSUME NEW c \in Calls,
             \/ BeginCall(c) \/ PollFuture(c) \/ Park(c) \/ CallReturns(c)
             \/ Unpark(c) \/ WakeActivities(c) \/ EndCall(c) \/ EndCallNotify(c)
      PROVE  activities' \subseteq activities
  BY <1>1 DEF BeginCall, PollFuture, Park, CallReturns, Unpark, WakeActivities,
              EndCall, EndCallNotify
<1>2. ASSUME NEW d \in Defers,
             \/ BeginDefer(d) \/ Install(d) \/ FlushDefer(d) \/ EndDefer(d)
             \/ EndDeferNotify(d)
      PROVE  activities' \subseteq activities
  BY <1>2 DEF BeginDefer, Install, FlushDefer, EndDefer, EndDeferNotify
<1>3. ASSUME NEW r \in Runtimes,
             BuildRuntime(r) \/ RegisterRuntime(r) \/ RefuseRuntime(r)
      PROVE  activities' \subseteq activities
  BY <1>3 DEF BuildRuntime, RegisterRuntime, RefuseRuntime
<1>4. ASSUME NEW h \in BlockOns \cup Defers, WakeNext(h)
      PROVE  activities' \subseteq activities
  BY <1>4 DEF WakeNext
<1>5. ASSUME NEW n \in Attempts, EndCloser(n)
      PROVE  activities' \subseteq activities
  BY <1>5 DEF EndCloser
<1>6. CASE DetachCall \/ DropCleanup
  BY <1>6 DEF DetachCall, DropCleanup
<1> QED BY <1>1, <1>2, <1>3, <1>4, <1>5, <1>6, ActivityFrame

(* Once seen empty by wait_idle a stopped owner stays empty. *)
LEMMA IdleStep ==
  ASSUME TypeOK, TaskInv, StopInv, IdleInv, [Next]_vars
  PROVE  IdleInv'
<1> SUFFICES ASSUME detach' \in {"finishing", "detached"} PROVE Idle'
  BY DEF IdleInv
<1> USE DEF Detach
<1>1. CASE CheckIdle
  BY <1>1 DEF CheckIdle, Idle
<1>2. CASE DetachOwner
  BY <1>2 DEF DetachOwner, Idle, IdleInv
<1>3. CASE detach' = detach
  BY <1>3, TasksShrink, ActivitiesShrink DEF IdleInv, StopInv, PastSnapshot, Idle
<1>4. detach' = detach \/ CheckIdle \/ DetachOwner
  <2>1. ASSUME NEW s \in Resources,
               RegisterResource(s) \/ UnregisterResource(s) \/ CloseNext(s)
        PROVE  detach' = detach
    BY <2>1 DEF RegisterResource, UnregisterResource, CloseNext
  <2>2. ~(DetachCall \/ Refuse \/ Snapshot \/ ListRuntimes \/ Joined \/ DropCleanup
          \/ Listen \/ Notified \/ CancelDetach)
    BY DEF DetachCall, Refuse, Snapshot, ListRuntimes, Joined, DropCleanup, Listen,
           Notified, CancelDetach
  <2> QED BY <2>1, <2>2, StopFrame
<1> QED BY <1>1, <1>2, <1>3, <1>4

-----------------------------------------------------------------------------
(* Runtimes *)

(* The steps that move a runtime, its build, its closer or the detach. *)
LEMMA RuntimeFrame ==
  ASSUME [Next]_vars
  PROVE  \/ \E c \in Calls :
              \/ BeginCall(c) \/ PollFuture(c) \/ Park(c)
              \/ CallReturns(c) \/ Unpark(c) \/ WakeActivities(c)
              \/ EndCall(c) \/ EndCallNotify(c)
         \/ \E f \in Tasks \cup Calls, r \in Runtimes, mode \in Modes :
              \/ CloseRuntime(f, r, mode)
         \/ \E r \in Runtimes :
              \/ UnregisterRuntime(r) \/ BuildRuntime(r)
              \/ RegisterRuntime(r) \/ RefuseRuntime(r) \/ WorkersExit(r)
         \/ \E f \in Shutters :
              \/ JoinRuntime(f)
         \/ \E n \in Attempts :
              \/ CloseNextRuntime(n) \/ EndCloser(n) \/ EndCloserNotify(n)
         \/ DetachCall \/ Refuse \/ Snapshot \/ ListRuntimes \/ Joined
         \/ DropCleanup \/ Listen \/ CheckIdle \/ Notified \/ DetachOwner
         \/ CancelDetach
         \/ UNCHANGED <<call, runtimes, host, waiting, closer, todo, detach,
                        attempt, accepting>>
<1> DEFINE Kept == UNCHANGED <<call, runtimes, host, waiting, closer, todo, detach,
                               attempt, accepting>>
<1>1. CASE \E t \in Tasks : SpawnStep(t) \/ JobStep(t)
  <2>1. Kept
    BY <1>1 DEF SpawnStep, JobStep, Launch, FailSpawn, RegisterTask, PollTask,
                PollReturns, CancelTask, FinishTask, FinishNotify
  <2> QED BY <2>1
<1>2. CASE \E d \in Defers : DeferStep(d)
  <2>1. Kept
    BY <1>2 DEF DeferStep, Install, FlushDefer, EndDefer, EndDeferNotify
  <2> QED BY <2>1
<1>3. CASE PluginChoice
  BY <1>3 DEF PluginChoice, ReserveTask, AbortTask, WakeTask, WakeCall, BeginDefer,
              FlushDefer, RegisterResource, UnregisterResource
<1>4. CASE DetachStep
  BY <1>4 DEF DetachStep, AbortNext, CloseNext, WakeNext
<1> QED BY <1>1, <1>2, <1>3, <1>4
        DEF Next, CallStep, BuildStep, CloserStep, vars

(* Every runtime is closed or on the way by the time the closer ends. *)
LEMMA RuntimeStep ==
  ASSUME TypeOK, StopInv, RuntimeInv, [Next]_vars
  PROVE  RuntimeInv'
<1> USE HoldersDisjoint DEF TypeOK, StopInv, RuntimeInv, PastClosing, PastSnapshot,
                            Call, Detach, OpenRuntimes, IsClosed, Shutdown
<1>1. ASSUME NEW c \in Calls,
             \/ BeginCall(c) \/ PollFuture(c) \/ Park(c) \/ CallReturns(c)
      PROVE  RuntimeInv'
  BY <1>1 DEF BeginCall, PollFuture, Park, CallReturns
<1>2. ASSUME NEW c \in Calls,
             Unpark(c) \/ WakeActivities(c) \/ EndCall(c) \/ EndCallNotify(c)
      PROVE  RuntimeInv'
  BY <1>2 DEF Unpark, WakeActivities, EndCall, EndCallNotify
<1>3. ASSUME NEW f \in Tasks \cup Calls, NEW r \in Runtimes, NEW mode \in Modes,
             CloseRuntime(f, r, mode)
      PROVE  RuntimeInv'
  BY <1>3 DEF CloseRuntime
<1>4. ASSUME NEW r \in Runtimes, UnregisterRuntime(r)
      PROVE  RuntimeInv'
  BY <1>4 DEF UnregisterRuntime
<1>5. ASSUME NEW r \in Runtimes, BuildRuntime(r)
      PROVE  RuntimeInv'
  BY <1>5 DEF BuildRuntime
<1>6. ASSUME NEW r \in Runtimes, RegisterRuntime(r)
      PROVE  RuntimeInv'
  BY <1>6 DEF RegisterRuntime
<1>7. ASSUME NEW r \in Runtimes, RefuseRuntime(r)
      PROVE  RuntimeInv'
  BY <1>7 DEF RefuseRuntime
<1>8. ASSUME NEW r \in Runtimes, WorkersExit(r)
      PROVE  RuntimeInv'
  BY <1>8 DEF WorkersExit
<1>9. ASSUME NEW f \in Shutters, JoinRuntime(f)
      PROVE  RuntimeInv'
  BY <1>9 DEF JoinRuntime
<1>10. ASSUME NEW n \in Attempts, CloseNextRuntime(n)
       PROVE  RuntimeInv'
  <2>1. PICK q \in todo[n] :
          /\ todo' = [todo EXCEPT ![n] = @ \ {q}]
          /\ \/ IsClosed(q) /\ UNCHANGED host
             \/ host' = [host EXCEPT ![q] = "closing"]
    BY <1>10 DEF CloseNextRuntime
  <2>2. UNCHANGED <<accepting, runtimes, call, closer, detach, attempt>>
    BY <1>10 DEF CloseNextRuntime
  <2>3. closer[n] = "running"
    BY <1>10 DEF CloseNextRuntime
  <2>4. OpenRuntimes' \subseteq OpenRuntimes \ {q}
    BY <2>1, <2>2
  <2>5. \A r \in Runtimes : host'[r] = "absent" <=> host[r] = "absent"
    BY <2>1, <2>2
  <2>6. detach = "joining" => OpenRuntimes' \subseteq todo'[attempt]
    BY <2>1, <2>4
  <2>7. \A m \in Attempts : /\ closer'[m] # "running" => todo'[m] = {}
                            /\ \A r \in todo'[m] : host'[r] # "absent"
    BY <2>1, <2>2, <2>3
  <2>8. detach' \in PastClosing => OpenRuntimes' = {}
    BY <2>2, <2>4
  <2>9. \A r \in Runtimes : /\ r \in runtimes' => host'[r] # "absent"
                            /\ call'[r] = "begun" => host'[r] = "absent"
                            /\ call'[r] = "built" => host'[r] # "absent"
    BY <2>2, <2>5
  <2> QED BY <2>2, <2>6, <2>7, <2>8, <2>9
<1>11. ASSUME NEW n \in Attempts, EndCloser(n) \/ EndCloserNotify(n)
       PROVE  RuntimeInv'
  BY <1>11 DEF EndCloser, EndCloserNotify
<1>12. CASE DetachCall \/ Refuse \/ Snapshot
  BY <1>12 DEF DetachCall, Refuse, Snapshot
<1>13. CASE ListRuntimes
  BY <1>13 DEF ListRuntimes
<1>14. CASE Joined \/ DropCleanup
  BY <1>14 DEF Joined, DropCleanup
<1>15. CASE Listen \/ CheckIdle \/ Notified \/ CancelDetach
  BY <1>15 DEF Listen, CheckIdle, Notified, CancelDetach
<1>16. CASE DetachOwner
  BY <1>16 DEF DetachOwner
<1>17. CASE UNCHANGED <<call, runtimes, host, waiting, closer, todo, detach, attempt,
                        accepting>>
  BY <1>17
<1> QED BY <1>1, <1>2, <1>3, <1>4, <1>5, <1>6, <1>7, <1>8, <1>9, <1>10, <1>11,
           <1>12, <1>13, <1>14, <1>15, <1>16, <1>17, RuntimeFrame

(* OwnerState::detach finds the owner stopped, idle and closed. *)
LEMMA DetachNeverFailsStep ==
  ASSUME TypeOK, StopInv, IdleInv, RuntimeInv, DetachNeverFails, [Next]_vars
  PROVE  DetachNeverFails'
<1>1. CASE DetachOwner
  <2>1. Detachable
    BY <1>1 DEF DetachOwner, Detachable, Detach, StopInv, PastSnapshot, IdleInv,
                RuntimeInv, PastClosing
  <2> QED BY <1>1, <2>1 DEF DetachOwner, Detach, DetachNeverFails
<1>2. CASE ~DetachOwner
  <2>1. ASSUME NEW s \in Resources,
               RegisterResource(s) \/ UnregisterResource(s) \/ CloseNext(s)
        PROVE  detach' = detach
    BY <2>1 DEF RegisterResource, UnregisterResource, CloseNext
  <2>2. CASE \/ DetachCall \/ Refuse \/ Snapshot \/ ListRuntimes \/ Joined
             \/ DropCleanup \/ Listen \/ CheckIdle \/ Notified \/ CancelDetach
    BY <2>2 DEF DetachCall, Refuse, Snapshot, ListRuntimes, Joined, DropCleanup,
                Listen, CheckIdle, Notified, CancelDetach, Detach, DetachNeverFails
  <2> QED BY <1>2, <2>1, <2>2, StopFrame DEF DetachNeverFails
<1> QED BY <1>1, <1>2

(* No LocalRuntime is open once the owner stops, and no closer is given one. *)
LEMMA LocalStep ==
  ASSUME TypeOK, StopInv, RuntimeInv, LocalInv, [Next]_vars
  PROVE  LocalInv'
<1> USE HoldersDisjoint DEF TypeOK, RuntimeInv, LocalInv, LocalsStayHome, LocalOpen,
                            Call, Detach, IsClosed, Shutdown
<1>1. ASSUME NEW c \in Calls,
             \/ BeginCall(c) \/ PollFuture(c) \/ Park(c) \/ CallReturns(c)
             \/ Unpark(c) \/ WakeActivities(c) \/ EndCall(c) \/ EndCallNotify(c)
      PROVE  LocalInv'
  BY <1>1 DEF BeginCall, PollFuture, Park, CallReturns, Unpark, WakeActivities,
              EndCall, EndCallNotify
<1>2. ASSUME NEW f \in Tasks \cup Calls, NEW r \in Runtimes, NEW mode \in Modes,
             CloseRuntime(f, r, mode)
      PROVE  LocalInv'
  BY <1>2, OwnerAssumption DEF CloseRuntime, Holders, Shutters
<1>3. ASSUME NEW r \in Runtimes, UnregisterRuntime(r) \/ WorkersExit(r)
      PROVE  LocalInv'
  BY <1>3 DEF UnregisterRuntime, WorkersExit
<1>4. ASSUME NEW r \in Runtimes, BuildRuntime(r) \/ RegisterRuntime(r)
      PROVE  LocalInv'
  BY <1>4 DEF BuildRuntime, RegisterRuntime
<1>5. ASSUME NEW r \in Runtimes, RefuseRuntime(r)
      PROVE  LocalInv'
  <2>1. CASE r \in Locals
    BY <1>5, <2>1 DEF RefuseRuntime
  <2>2. CASE r \notin Locals
    <3>1. \A n \in Attempts : waiting'[n] = waiting[n] /\ todo'[n] = todo[n]
      BY <1>5, <2>2 DEF RefuseRuntime, Shutters
    <3>2. ~LocalOpen => ~LocalOpen'
      BY <1>5, <2>2 DEF RefuseRuntime
    <3> QED BY <1>5, <3>1, <3>2 DEF RefuseRuntime
  <2> QED BY <2>1, <2>2
<1>6. ASSUME NEW f \in Shutters, JoinRuntime(f)
      PROVE  LocalInv'
  BY <1>6 DEF JoinRuntime, Shutters
<1>7. ASSUME NEW n \in Attempts, CloseNextRuntime(n)
      PROVE  LocalInv'
  BY <1>7 DEF CloseNextRuntime, Shutters
<1>8. ASSUME NEW n \in Attempts, EndCloser(n) \/ EndCloserNotify(n)
      PROVE  LocalInv'
  BY <1>8 DEF EndCloser, EndCloserNotify
<1>9. CASE ListRuntimes
  <2>1. ~accepting
    BY <1>9 DEF ListRuntimes, StopInv, PastSnapshot
  <2>2. OpenRuntimes \cap Locals = {}
    BY <2>1 DEF OpenRuntimes
  <2> QED BY <1>9, <2>2 DEF ListRuntimes, StopInv
<1>10. CASE Snapshot
  BY <1>10 DEF Snapshot
<1>11. CASE \/ DetachCall \/ Refuse \/ Joined \/ DropCleanup \/ Listen \/ CheckIdle
            \/ Notified \/ CancelDetach
  BY <1>11 DEF DetachCall, Refuse, Joined, DropCleanup, Listen, CheckIdle, Notified,
               CancelDetach
<1>12. CASE DetachOwner
  BY <1>12 DEF DetachOwner
<1>13. CASE UNCHANGED <<call, runtimes, host, waiting, closer, todo, detach, attempt,
                        accepting>>
  BY <1>13
<1> QED BY <1>1, <1>2, <1>3, <1>4, <1>5, <1>6, <1>7, <1>8, <1>9, <1>10, <1>11,
           <1>12, <1>13, RuntimeFrame

-----------------------------------------------------------------------------
(* Wakers and notifications *)

(* The steps that move a call, its token or a waker. *)
LEMMA WakerFrame ==
  ASSUME [Next]_vars
  PROVE  \/ \E c \in Calls :
              \/ BeginCall(c) \/ WakeCall(c) \/ PollFuture(c) \/ Park(c)
              \/ CallReturns(c) \/ Unpark(c) \/ WakeActivities(c)
              \/ EndCall(c) \/ EndCallNotify(c)
         \/ \E d \in Defers :
              \/ BeginDefer(d) \/ Install(d) \/ FlushDefer(d)
              \/ EndDefer(d) \/ EndDeferNotify(d)
         \/ \E r \in Runtimes :
              \/ BuildRuntime(r) \/ RegisterRuntime(r) \/ RefuseRuntime(r)
         \/ \E h \in BlockOns \cup Defers :
              \/ WakeNext(h)
         \/ \E n \in Attempts :
              \/ EndCloser(n)
         \/ Snapshot \/ DropCleanup
         \/ UNCHANGED <<accepting, call, armed, woken, toWake, defer, fired>>
  BY DEF Next, PluginChoice, SpawnStep, JobStep, CallStep, DeferStep,
         BuildStep, DetachStep, CloserStep, vars, AbortTask, ReserveTask,
         Launch, FailSpawn, RegisterTask, PollTask, PollReturns, WakeTask,
         CancelTask,
         FinishTask, FinishNotify, RegisterResource, UnregisterResource,
         CloseNext, CloseRuntime, UnregisterRuntime, WorkersExit,
         JoinRuntime, CloseNextRuntime, EndCloserNotify, AbortNext,
         DetachCall, Refuse, ListRuntimes, Joined, Listen, CheckIdle,
         Notified, DetachOwner, CancelDetach

(* A block_on's waker is armed, on the snapshot or already woken. *)
LEMMA WakerStep ==
  ASSUME TypeOK, CallInv, StopInv, WakerInv, [Next]_vars
  PROVE  WakerInv'
<1> USE HoldersDisjoint DEF TypeOK, CallInv, WakerInv, Call, Defer, Detach, Admit,
                            Remove, WakeAll
<1>1. ASSUME NEW c \in Calls, BeginCall(c) \/ WakeCall(c) \/ PollFuture(c)
      PROVE  WakerInv'
  BY <1>1 DEF BeginCall, WakeCall, PollFuture
<1>2. ASSUME NEW c \in Calls, Park(c) \/ CallReturns(c) \/ Unpark(c)
      PROVE  WakerInv'
  BY <1>2 DEF Park, CallReturns, Unpark
<1>3. ASSUME NEW c \in Calls, WakeActivities(c)
      PROVE  WakerInv'
  BY <1>3, OwnerAssumption DEF WakeActivities
<1>4. ASSUME NEW c \in Calls, EndCall(c) \/ EndCallNotify(c)
      PROVE  WakerInv'
  BY <1>4 DEF EndCall, EndCallNotify
<1>5. ASSUME NEW d \in Defers,
             \/ BeginDefer(d) \/ Install(d) \/ FlushDefer(d) \/ EndDefer(d)
             \/ EndDeferNotify(d)
      PROVE  WakerInv'
  BY <1>5 DEF BeginDefer, Install, FlushDefer, EndDefer, EndDeferNotify
<1>6. ASSUME NEW r \in Runtimes,
             BuildRuntime(r) \/ RegisterRuntime(r) \/ RefuseRuntime(r)
      PROVE  WakerInv'
  BY <1>6 DEF BuildRuntime, RegisterRuntime, RefuseRuntime
<1>7. ASSUME NEW h \in BlockOns \cup Defers, WakeNext(h)
      PROVE  WakerInv'
  BY <1>7 DEF WakeNext
<1>8. ASSUME NEW n \in Attempts, EndCloser(n)
      PROVE  WakerInv'
  BY <1>8 DEF EndCloser
<1>9. CASE Snapshot
  BY <1>9 DEF Snapshot
<1>10. CASE DropCleanup
  BY <1>10 DEF DropCleanup, StopInv
<1>11. CASE UNCHANGED <<accepting, call, armed, woken, toWake, defer, fired>>
  BY <1>11
<1> QED BY <1>1, <1>2, <1>3, <1>4, <1>5, <1>6, <1>7, <1>8, <1>9, <1>10, <1>11,
           WakerFrame

(* A fired deferred waker is dropped by Install or by the one who fires it. *)
LEMMA FiredDeferStep ==
  ASSUME TypeOK, FiredDeferIsReleased, [Next]_vars
  PROVE  FiredDeferIsReleased'
<1> USE DEF TypeOK, FiredDeferIsReleased, Defer, WakeAll
<1>1. ASSUME NEW c \in Calls,
             \/ BeginCall(c) \/ WakeCall(c) \/ PollFuture(c) \/ Park(c)
             \/ CallReturns(c) \/ Unpark(c) \/ EndCall(c) \/ EndCallNotify(c)
      PROVE  FiredDeferIsReleased'
  BY <1>1 DEF BeginCall, WakeCall, PollFuture, Park, CallReturns, Unpark, EndCall,
              EndCallNotify
<1>2. ASSUME NEW c \in Calls, WakeActivities(c)
      PROVE  FiredDeferIsReleased'
  BY <1>2 DEF WakeActivities
<1>3. ASSUME NEW d \in Defers,
             \/ BeginDefer(d) \/ Install(d) \/ FlushDefer(d) \/ EndDefer(d)
             \/ EndDeferNotify(d)
      PROVE  FiredDeferIsReleased'
  BY <1>3 DEF BeginDefer, Install, FlushDefer, EndDefer, EndDeferNotify
<1>4. ASSUME NEW r \in Runtimes,
             BuildRuntime(r) \/ RegisterRuntime(r) \/ RefuseRuntime(r)
      PROVE  FiredDeferIsReleased'
  BY <1>4 DEF BuildRuntime, RegisterRuntime, RefuseRuntime
<1>5. ASSUME NEW h \in BlockOns \cup Defers, WakeNext(h)
      PROVE  FiredDeferIsReleased'
  BY <1>5 DEF WakeNext
<1>6. CASE Snapshot \/ DropCleanup \/ \E n \in Attempts : EndCloser(n)
  BY <1>6 DEF Snapshot, DropCleanup, EndCloser
<1>7. CASE UNCHANGED <<accepting, call, armed, woken, toWake, defer, fired>>
  BY <1>7
<1> QED BY <1>1, <1>2, <1>3, <1>4, <1>5, <1>6, <1>7, WakerFrame

(* Whoever has emptied the maps and has yet to call notify_waiters. *)
Notifier ==
  \/ \E t \in Tasks : job[t] = "finished"
  \/ \E c \in Calls : call[c] = "removed"
  \/ \E d \in Defers : defer[d] = "removed"
  \/ \E n \in Attempts : closer[n] = "removed"

(* The steps that matter to a detach that waits. *)
LEMMA WaitFrame ==
  ASSUME [Next]_vars
  PROVE  \/ \E t \in Tasks :
              \/ ReserveTask(t) \/ Launch(t) \/ RegisterTask(t)
              \/ PollTask(t) \/ PollReturns(t) \/ WakeTask(t)
              \/ CancelTask(t) \/ FinishTask(t) \/ FinishNotify(t)
              \/ FailSpawn(t)
         \/ \E c \in Calls :
              \/ BeginCall(c) \/ PollFuture(c) \/ Park(c)
              \/ CallReturns(c) \/ Unpark(c) \/ WakeActivities(c)
              \/ EndCall(c) \/ EndCallNotify(c)
         \/ \E d \in Defers :
              \/ BeginDefer(d) \/ Install(d) \/ FlushDefer(d)
              \/ EndDefer(d) \/ EndDeferNotify(d)
         \/ \E r \in Runtimes :
              \/ BuildRuntime(r) \/ RegisterRuntime(r) \/ RefuseRuntime(r)
         \/ \E s \in Resources :
              \/ CloseNext(s)
         \/ \E h \in BlockOns \cup Defers :
              \/ WakeNext(h)
         \/ \E n \in Attempts :
              \/ CloseNextRuntime(n) \/ EndCloser(n) \/ EndCloserNotify(n)
         \/ DetachCall \/ Refuse \/ Snapshot \/ ListRuntimes \/ Joined
         \/ DropCleanup \/ Listen \/ CheckIdle \/ Notified \/ DetachOwner
         \/ CancelDetach
         \/ UNCHANGED <<detach, tasks, activities, notified, job, call, defer,
                        closer, spawn, accepting>>
  BY DEF Next, PluginChoice, SpawnStep, JobStep, CallStep, DeferStep,
         BuildStep, DetachStep, CloserStep, vars, AbortTask, WakeCall,
         RegisterResource, UnregisterResource, CloseRuntime,
         UnregisterRuntime, WorkersExit, JoinRuntime, AbortNext

(* Whoever empties the owner while wait_idle waits still has to notify it. *)
LEMMA WaiterIsNotifiedStep ==
  ASSUME TypeOK, StopInv, WaiterIsNotified, [Next]_vars
  PROVE  WaiterIsNotified'
<1> DEFINE Quick == notified' \/ Notifier'
<1> SUFFICES ASSUME detach' = "waiting", Idle' PROVE Quick
  BY DEF WaiterIsNotified, Notifier
<1> USE DEF TypeOK, Notifier, Spawn, Job, Call, Defer, Detach, Admit, Remove, WakeAll,
            Idle
<1>1. CASE detach = "waiting" /\ Idle /\ (notified \/ Notifier)
  <2> USE <1>1
  <2>1. ASSUME NEW t \in Tasks,
               \/ ReserveTask(t) \/ Launch(t) \/ FailSpawn(t) \/ RegisterTask(t)
               \/ PollTask(t)
               \/ PollReturns(t) \/ WakeTask(t) \/ CancelTask(t)
        PROVE  Quick
    <3>1. UNCHANGED <<notified, call, defer, closer>>
      BY <2>1 DEF ReserveTask, Launch, FailSpawn, RegisterTask, PollTask, PollReturns, WakeTask,
                  CancelTask
    <3>2. CASE ReserveTask(t) \/ RegisterTask(t)
      BY <3>1, <3>2 DEF ReserveTask, RegisterTask
    <3>3. CASE Launch(t) \/ FailSpawn(t)
      BY <3>1, <3>3 DEF Launch, FailSpawn
    <3>4. CASE PollTask(t) \/ PollReturns(t)
      BY <3>1, <3>4 DEF PollTask, PollReturns
    <3>5. CASE WakeTask(t) \/ CancelTask(t)
      BY <3>1, <3>5 DEF WakeTask, CancelTask
    <3> QED BY <2>1, <3>2, <3>3, <3>4, <3>5
  <2>2. ASSUME NEW t \in Tasks, FinishTask(t) \/ FinishNotify(t)
        PROVE  Quick
    <3>1. CASE FinishTask(t)
      <4>1. job'[t] = "finished"
        BY <3>1 DEF FinishTask
      <4> QED BY <4>1
    <3>2. CASE FinishNotify(t)
      <4>1. notified'
        BY <3>2 DEF FinishNotify, StopInv, PastSnapshot
      <4> QED BY <4>1
    <3> QED BY <2>2, <3>1, <3>2
  <2>3. ASSUME NEW c \in Calls,
               \/ BeginCall(c) \/ PollFuture(c) \/ Park(c) \/ CallReturns(c)
               \/ Unpark(c)
        PROVE  Quick
    BY <2>3 DEF BeginCall, PollFuture, Park, CallReturns, Unpark
  <2>4. ASSUME NEW c \in Calls, WakeActivities(c) \/ EndCall(c) \/ EndCallNotify(c)
        PROVE  Quick
    BY <2>4 DEF WakeActivities, EndCall, EndCallNotify
  <2>5. ASSUME NEW d \in Defers,
               \/ BeginDefer(d) \/ Install(d) \/ FlushDefer(d) \/ EndDefer(d)
               \/ EndDeferNotify(d)
        PROVE  Quick
    BY <2>5 DEF BeginDefer, Install, FlushDefer, EndDefer, EndDeferNotify
  <2>6. ASSUME NEW r \in Runtimes,
               BuildRuntime(r) \/ RegisterRuntime(r) \/ RefuseRuntime(r)
        PROVE  Quick
    BY <2>6, HoldersDisjoint DEF BuildRuntime, RegisterRuntime, RefuseRuntime
  <2>7. ASSUME NEW n \in Attempts,
               CloseNextRuntime(n) \/ EndCloser(n) \/ EndCloserNotify(n)
        PROVE  Quick
    BY <2>7 DEF CloseNextRuntime, EndCloser, EndCloserNotify
  <2>8. CASE UNCHANGED <<detach, tasks, activities, notified, job, call, defer, closer,
                         spawn, accepting>>
    BY <2>8
  <2>9. ~ \/ \E s \in Resources : CloseNext(s)
          \/ \E h \in BlockOns \cup Defers : WakeNext(h)
          \/ DetachCall \/ Refuse \/ Snapshot \/ ListRuntimes \/ Joined \/ DropCleanup
          \/ Listen \/ CheckIdle \/ Notified \/ DetachOwner \/ CancelDetach
    BY DEF CloseNext, WakeNext, DetachCall, Refuse, Snapshot, ListRuntimes, Joined,
           DropCleanup, Listen, CheckIdle, Notified, DetachOwner, CancelDetach
  <2> QED BY <2>1, <2>2, <2>3, <2>4, <2>5, <2>6, <2>7, <2>8, <2>9, WaitFrame
<1>2. CASE detach = "waiting" /\ ~Idle
  <2> USE <1>2
  <2>1. CASE \E t \in Tasks : FinishTask(t)
    BY <2>1 DEF FinishTask
  <2>2. CASE \E c \in Calls : EndCall(c)
    BY <2>2 DEF EndCall
  <2>3. CASE \E d \in Defers : EndDefer(d)
    BY <2>3 DEF EndDefer
  <2>4. CASE \E n \in Attempts : EndCloser(n)
    BY <2>4 DEF EndCloser
  <2>5. ASSUME NEW t \in Tasks,
               \/ ReserveTask(t) \/ Launch(t) \/ FailSpawn(t) \/ RegisterTask(t)
               \/ PollTask(t)
               \/ PollReturns(t) \/ WakeTask(t) \/ CancelTask(t) \/ FinishNotify(t)
        PROVE  Quick
    BY <2>5 DEF ReserveTask, Launch, FailSpawn, RegisterTask, PollTask, PollReturns, WakeTask,
                CancelTask, FinishNotify
  <2>6. ASSUME NEW c \in Calls,
               \/ BeginCall(c) \/ PollFuture(c) \/ Park(c) \/ CallReturns(c)
               \/ Unpark(c) \/ WakeActivities(c) \/ EndCallNotify(c)
        PROVE  Quick
    BY <2>6 DEF BeginCall, PollFuture, Park, CallReturns, Unpark, WakeActivities,
                EndCallNotify
  <2>7. ASSUME NEW d \in Defers,
               BeginDefer(d) \/ Install(d) \/ FlushDefer(d) \/ EndDeferNotify(d)
        PROVE  Quick
    BY <2>7 DEF BeginDefer, Install, FlushDefer, EndDeferNotify
  <2>8. ASSUME NEW r \in Runtimes,
               BuildRuntime(r) \/ RegisterRuntime(r) \/ RefuseRuntime(r)
        PROVE  Quick
    BY <2>8 DEF BuildRuntime, RegisterRuntime, RefuseRuntime
  <2>9. ASSUME NEW n \in Attempts, CloseNextRuntime(n) \/ EndCloserNotify(n)
        PROVE  Quick
    BY <2>9 DEF CloseNextRuntime, EndCloserNotify
  <2>10. CASE UNCHANGED <<detach, tasks, activities, notified, job, call, defer, closer,
                         spawn, accepting>>
    BY <2>10
  <2>11. ~ \/ \E s \in Resources : CloseNext(s)
           \/ \E h \in BlockOns \cup Defers : WakeNext(h)
           \/ DetachCall \/ Refuse \/ Snapshot \/ ListRuntimes \/ Joined \/ DropCleanup
           \/ Listen \/ CheckIdle \/ Notified \/ DetachOwner \/ CancelDetach
    BY DEF CloseNext, WakeNext, DetachCall, Refuse, Snapshot, ListRuntimes, Joined,
           DropCleanup, Listen, CheckIdle, Notified, DetachOwner, CancelDetach
  <2> QED BY <2>1, <2>2, <2>3, <2>4, <2>5, <2>6, <2>7, <2>8, <2>9, <2>10, <2>11,
             WaitFrame
<1>3. CASE detach # "waiting"
  <2>1. CASE CheckIdle
    BY <2>1 DEF CheckIdle
  <2>2. ASSUME NEW s \in Resources,
               RegisterResource(s) \/ UnregisterResource(s) \/ CloseNext(s)
        PROVE  detach' = detach
    BY <2>2 DEF RegisterResource, UnregisterResource, CloseNext
  <2>3. ~ \/ DetachCall \/ Refuse \/ Snapshot \/ ListRuntimes \/ Joined \/ DropCleanup
          \/ Listen \/ Notified \/ DetachOwner \/ CancelDetach
    BY DEF DetachCall, Refuse, Snapshot, ListRuntimes, Joined, DropCleanup, Listen,
           Notified, DetachOwner, CancelDetach
  <2> QED BY <1>3, <2>1, <2>2, <2>3, StopFrame
<1> QED BY <1>1, <1>2, <1>3 DEF WaiterIsNotified

-----------------------------------------------------------------------------
(* Theorems *)

(* The invariant holds of a fresh attachment ... *)
LEMMA IInvInit == Init => IInv
<1> SUFFICES ASSUME Init PROVE IInv
  OBVIOUS
<1>1. TypeOK
  BY TypeInit
<1>2. TaskInv /\ CallInv /\ DeferInv /\ IdleInv /\ WakerInv
  BY HoldersDisjoint DEF Init, TaskInv, CallInv, DeferInv, IdleInv, WakerInv
<1>3. StopInv
  BY DEF Init, StopInv, PastSnapshot
<1>4. RuntimeInv /\ LocalInv
  BY HoldersDisjoint DEF Init, RuntimeInv, PastClosing, LocalInv, LocalsStayHome,
                         LocalOpen, Shutters
<1>5. /\ WaiterIsNotified /\ NoTaskEscapesStop /\ FiredDeferIsReleased
      /\ DetachNeverFails
  BY DEF Init, WaiterIsNotified, NoTaskEscapesStop, FiredDeferIsReleased,
         DetachNeverFails
<1> QED BY <1>1, <1>2, <1>3, <1>4, <1>5 DEF IInv

(* ... and every step keeps it. *)
LEMMA IInvStep == IInv /\ [Next]_vars => IInv'
<1> SUFFICES ASSUME IInv, [Next]_vars PROVE IInv'
  OBVIOUS
<1> USE DEF IInv
<1>1. TypeOK' /\ TaskInv'
  BY TypeStep, TaskStep
<1>2. CallInv' /\ DeferInv'
  BY ActivityStep
<1>3. StopInv' /\ IdleInv'
  BY StopStep, IdleStep
<1>4. RuntimeInv' /\ LocalInv' /\ DetachNeverFails'
  BY RuntimeStep, LocalStep, DetachNeverFailsStep
<1>5. WakerInv' /\ WaiterIsNotified' /\ FiredDeferIsReleased'
  BY WakerStep, WaiterIsNotifiedStep, FiredDeferStep
<1>6. NoTaskEscapesStop'
  BY <1>1, NoTaskEscapesStep
<1> QED BY <1>1, <1>2, <1>3, <1>4, <1>5, <1>6

(* The inductive invariant from which the theorems below follow. *)
THEOREM Invariance == Spec => []IInv
BY IInvInit, IInvStep, PTL DEF Spec

(* An idle owner has no work left: every piece of work has its entry. *)
LEMMA IdleIsQuiet == IInv /\ Idle => PluginWork = {}
BY DEF IInv, TypeOK, TaskInv, CallInv, DeferInv, Idle, PluginWork

(* When Attachment::detach has returned Ok no task, call or deferred waker *)
(* of the plugin is left: its library may be unloaded.                     *)
THEOREM Quiet == Spec => []QuietWhenDetached
<1>1. IInv => QuietWhenDetached
  BY IdleIsQuiet DEF IInv, IdleInv, QuietWhenDetached
<1> QED BY <1>1, Invariance, PTL

(* OwnerState::detach never refuses after shutdown_owner has succeeded, so *)
(* the attachment that Attachment::detach has given up is never lost.      *)
THEOREM NeverFails == Spec => []DetachNeverFails
<1>1. IInv => DetachNeverFails
  BY DEF IInv
<1> QED BY <1>1, Invariance, PTL

(* A task that reserve_task admitted before the stop is aborted, whether   *)
(* register_task ran before or after the snapshot.                         *)
THEOREM NoTaskEscapes == Spec => []NoTaskEscapesStop
<1>1. IInv => NoTaskEscapesStop
  BY DEF IInv
<1> QED BY <1>1, Invariance, PTL

(* A block_on that is parked when the owner stops has been woken, or is in *)
(* the snapshot of wakers still to be woken.                               *)
THEOREM NoBlockOnSleeps == Spec => []NoBlockOnSleepsThroughStop
<1>1. IInv => NoBlockOnSleepsThroughStop
  BY DEF IInv, WakerInv, NoBlockOnSleepsThroughStop
<1> QED BY <1>1, Invariance, PTL

(* wait_idle never sleeps on an idle owner without a notification that has *)
(* been sent or is about to be sent.                                       *)
THEOREM NoLostNotification == Spec => []WaiterIsNotified
<1>1. IInv => WaiterIsNotified
  BY DEF IInv
<1> QED BY <1>1, Invariance, PTL

(* A deferred waker that fired before its cleanup was installed does not   *)
(* keep it.                                                                *)
THEOREM FiredDefer == Spec => []FiredDeferIsReleased
<1>1. IInv => FiredDeferIsReleased
  BY DEF IInv
<1> QED BY <1>1, Invariance, PTL

(* The thread that closes a stopped plugin's runtimes never gets one that  *)
(* only its own thread may close.                                          *)
THEOREM LocalsHome == Spec => []LocalsStayHome
<1>1. IInv => LocalsStayHome
  BY DEF IInv, LocalInv
<1> QED BY <1>1, Invariance, PTL

-----------------------------------------------------------------------------
(* The owner implements PluginLifetime *)

(* Admitting a task or an activity is the plugin entering the abstract owner. *)
LEMMA AdmitStep ==
  ASSUME IInv,
         \/ \E t \in Tasks : ReserveTask(t)
         \/ \E c \in Calls : BeginCall(c)
         \/ \E d \in Defers : BeginDefer(d)
  PROVE  \E w \in Tasks \cup Calls \cup Defers : Lifetime!Admit(w)
<1> USE HoldersDisjoint DEF IInv, TypeOK, PluginWork, Lifetime!Admit
<1>1. accepting => detach # "detached"
  BY DEF StopInv, PastSnapshot
<1>2. ASSUME NEW t \in Tasks, ReserveTask(t) PROVE Lifetime!Admit(t)
  BY <1>1, <1>2 DEF ReserveTask, TaskInv, Spawn
<1>3. ASSUME NEW c \in Calls, BeginCall(c) PROVE Lifetime!Admit(c)
  BY <1>1, <1>3 DEF BeginCall, Admit, Call
<1>4. ASSUME NEW d \in Defers, BeginDefer(d) PROVE Lifetime!Admit(d)
  BY <1>1, <1>4 DEF BeginDefer, Admit, Defer
<1> QED BY <1>2, <1>3, <1>4

(* The end of a task or an activity is the plugin leaving it. *)
LEMMA EndStep ==
  ASSUME IInv,
         \/ \E t \in Tasks : FinishTask(t)
         \/ \E c \in Calls : EndCall(c)
         \/ \E d \in Defers : EndDefer(d)
  PROVE  \E w \in Tasks \cup Calls \cup Defers : Lifetime!End(w)
<1> USE HoldersDisjoint DEF IInv, TypeOK, PluginWork, Lifetime!End
<1>1. ASSUME NEW t \in Tasks, FinishTask(t) PROVE Lifetime!End(t)
  BY <1>1 DEF FinishTask, TaskInv, Job
<1>2. ASSUME NEW c \in Calls, EndCall(c) PROVE Lifetime!End(c)
  BY <1>2 DEF EndCall, Call
<1>3. ASSUME NEW d \in Defers, EndDefer(d) PROVE Lifetime!End(d)
  BY <1>3 DEF EndDefer, Defer
<1> QED BY <1>1, <1>2, <1>3

(* Every other step of a task, a call or a waker is invisible. *)
LEMMA QuietStep ==
  ASSUME IInv,
         \/ \E t \in Tasks :
              \/ Launch(t) \/ FailSpawn(t) \/ RegisterTask(t) \/ PollTask(t)
              \/ PollReturns(t) \/ WakeTask(t) \/ CancelTask(t) \/ FinishNotify(t)
         \/ \E c \in Calls :
              \/ PollFuture(c) \/ Park(c) \/ CallReturns(c) \/ Unpark(c)
              \/ WakeActivities(c) \/ EndCallNotify(c)
         \/ \E d \in Defers : Install(d) \/ FlushDefer(d) \/ EndDeferNotify(d)
         \/ \E r \in Runtimes :
              BuildRuntime(r) \/ RegisterRuntime(r) \/ RefuseRuntime(r)
         \/ \E h \in BlockOns \cup Defers : WakeNext(h)
  PROVE  UNCHANGED Lifetime!vars
<1> USE HoldersDisjoint DEF IInv, TypeOK, PluginWork, Lifetime!vars
<1>1. ASSUME NEW t \in Tasks, Launch(t) \/ FailSpawn(t) \/ RegisterTask(t)
      PROVE  UNCHANGED Lifetime!vars
  BY <1>1 DEF Launch, FailSpawn, RegisterTask, Spawn, Job
<1>2. ASSUME NEW t \in Tasks,
             \/ PollTask(t) \/ PollReturns(t) \/ WakeTask(t) \/ CancelTask(t)
             \/ FinishNotify(t)
      PROVE  UNCHANGED Lifetime!vars
  BY <1>2 DEF PollTask, PollReturns, WakeTask, CancelTask, FinishNotify, Job
<1>3. ASSUME NEW c \in Calls,
             \/ PollFuture(c) \/ Park(c) \/ CallReturns(c) \/ Unpark(c)
             \/ EndCallNotify(c)
      PROVE  UNCHANGED Lifetime!vars
  BY <1>3 DEF PollFuture, Park, CallReturns, Unpark, EndCallNotify, Call
<1>4. ASSUME NEW c \in Calls, WakeActivities(c)
      PROVE  UNCHANGED Lifetime!vars
  BY <1>4 DEF WakeActivities, WakeAll, Call
<1>5. ASSUME NEW d \in Defers, Install(d) \/ FlushDefer(d) \/ EndDeferNotify(d)
      PROVE  UNCHANGED Lifetime!vars
  BY <1>5 DEF Install, FlushDefer, EndDeferNotify, Defer, WakeAll
<1>6. ASSUME NEW r \in Runtimes,
             BuildRuntime(r) \/ RegisterRuntime(r) \/ RefuseRuntime(r)
      PROVE  UNCHANGED Lifetime!vars
  BY <1>6 DEF BuildRuntime, RegisterRuntime, RefuseRuntime, Call
<1>7. ASSUME NEW h \in BlockOns \cup Defers, WakeNext(h)
      PROVE  UNCHANGED Lifetime!vars
  BY <1>7 DEF WakeNext, WakeAll
<1> QED BY <1>1, <1>2, <1>3, <1>4, <1>5, <1>6, <1>7

(* The other steps of detach and the closers move only the abstract phase. *)
LEMMA DetachmentStep ==
  ASSUME IInv,
         \/ \E s \in Resources : CloseNext(s)
         \/ \E n \in Attempts :
              CloseNextRuntime(n) \/ EndCloser(n) \/ EndCloserNotify(n)
         \/ DetachCall \/ Refuse \/ Snapshot \/ ListRuntimes \/ Joined \/ DropCleanup
         \/ Listen \/ CheckIdle \/ Notified \/ DetachOwner \/ CancelDetach
  PROVE  Lifetime!Stop \/ Lifetime!Release \/ UNCHANGED Lifetime!vars
<1> USE DEF PluginWork, Lifetime!vars, Detach
<1>1. CASE Snapshot
  <2>1. UNCHANGED PluginWork
    BY <1>1 DEF Snapshot
  <2>2. detach' # "detached" /\ detach # "detached" /\ ~accepting'
    BY <1>1 DEF Snapshot
  <2>3. CASE accepting
    BY <2>1, <2>2, <2>3 DEF Lifetime!Stop
  <2>4. CASE ~accepting
    BY <2>1, <2>2, <2>4
  <2> QED BY <2>3, <2>4 DEF IInv, TypeOK
<1>2. CASE DetachOwner
  <2>1. UNCHANGED <<PluginWork, accepting>> /\ detach = "finishing"
    BY <1>2 DEF DetachOwner
  <2>2. ~accepting /\ PluginWork = {}
    BY <2>1, IdleIsQuiet DEF IInv, StopInv, PastSnapshot, IdleInv
  <2>3. detach' \in {"detached", "failed"}
    BY <1>2 DEF DetachOwner
  <2> QED BY <2>1, <2>2, <2>3 DEF Lifetime!Release
<1>3. CASE DetachCall \/ Refuse \/ ListRuntimes \/ Joined \/ DropCleanup
  BY <1>3 DEF DetachCall, Refuse, ListRuntimes, Joined, DropCleanup
<1>4. CASE Listen \/ CheckIdle \/ Notified \/ CancelDetach
  BY <1>4 DEF Listen, CheckIdle, Notified, CancelDetach
<1>5. CASE \E s \in Resources : CloseNext(s)
  BY <1>5 DEF CloseNext
<1>6. CASE \E n \in Attempts :
             CloseNextRuntime(n) \/ EndCloser(n) \/ EndCloserNotify(n)
  BY <1>6 DEF CloseNextRuntime, EndCloser, EndCloserNotify
<1> QED BY <1>1, <1>2, <1>3, <1>4, <1>5, <1>6

(* The owner, with its slots, activities, snapshots, notifications and     *)
(* cancelled detaches, implements PluginLifetime: work is admitted only    *)
(* while the plugin is attached, the stop is final, and Attachment::detach *)
(* returns Ok only when no admitted work is left.                          *)
THEOREM Refinement == Spec => Implements
<1>1. Init => Lifetime!Init
  BY DEF Init, Lifetime!Init, PluginWork
<1>2. IInv /\ [Next]_vars => [Lifetime!Next]_(Lifetime!vars)
  <2> SUFFICES ASSUME IInv, [Next]_vars
               PROVE  Lifetime!Next \/ UNCHANGED Lifetime!vars
    OBVIOUS
  <2>1. CASE UNCHANGED <<detach, tasks, activities, notified, job, call, defer,
                         closer, spawn, accepting>>
    BY <2>1 DEF PluginWork, Lifetime!vars
  <2> QED BY <2>1, WaitFrame, AdmitStep, EndStep, QuietStep, DetachmentStep
          DEF Lifetime!Next
<1> QED BY <1>1, <1>2, Invariance, PTL DEF Spec, Implements, Lifetime!Spec

-----------------------------------------------------------------------------
(* Whom a runtime's threads are waited for by.  A runtime that is closing    *)
(* has a thread waiting for it, which is in a poll, a call or a closer.     *)
HostWaits ==
  /\ \A r \in Runtimes :
       /\ host[r] # "lingering"
       /\ host[r] = "closing" => \E f \in Shutters : r \in waiting[f]
       /\ host[r] = "open" => r \in runtimes \/ call[r] = "built"
  /\ \A f \in Shutters : \A q, r \in waiting[f] : q = r
Waiters ==
  /\ \A t \in Tasks : waiting[t] # {} => job[t] = "polling"
  /\ \A c \in Calls : waiting[c] # {} => call[c] \in {"guest", "refused"}
  /\ \A n \in Attempts : waiting[n] # {} => closer[n] = "running"

(* The first detach holds an activity while it or its closer runs, the      *)
(* second none, if the first has stopped the owner.                         *)
Unstarted == {"begun", "refused", "stopping", "releasing"}
Closers ==
  /\ attempt = 0 => accepting
  /\ \A n \in Attempts : n > attempt => closer[n] = "none"
  /\ detach \in Unstarted => closer[attempt] = "none" /\ (attempt = 1 => 1 \in activities)
  /\ \A n \in Attempts : closer[n] = "running" =>
       IF n = 1 THEN 1 \in activities ELSE attempt = n /\ detach \in {"joining", "attached"}

(* The owner that has detached keeps no runtime.                            *)
Emptied == detach = "detached" => runtimes = {}

JInv == HostWaits /\ Waiters /\ Closers /\ Emptied

(* A thread that waits stays where it is.                                   *)
LEMMA WaitersStay ==
  ASSUME TypeOK, [Next]_vars
  PROVE  /\ \A t \in Tasks : waiting[t] # {} /\ job[t] = "polling" => job'[t] = "polling"
         /\ \A c \in Calls : waiting[c] # {} /\ call[c] \in {"guest", "refused"} =>
              call'[c] \in {"guest", "refused"}
         /\ \A n \in Attempts : waiting[n] # {} /\ closer[n] = "running" =>
              closer'[n] = "running"
<1> USE DEF TypeOK, Job, Call
<1>1. \A t \in Tasks : waiting[t] # {} /\ job[t] = "polling" => job'[t] = "polling"
  <2>1. ASSUME NEW t \in Tasks, SpawnStep(t) \/ JobStep(t)
        PROVE  \A u \in Tasks : waiting[u] # {} /\ job[u] = "polling" => job'[u] = "polling"
    BY <2>1 DEF SpawnStep, JobStep, Launch, FailSpawn, RegisterTask, PollTask,
                PollReturns, CancelTask, FinishTask, FinishNotify
  <2>2. ASSUME NEW t \in Tasks, WakeTask(t)
        PROVE  \A u \in Tasks : waiting[u] # {} /\ job[u] = "polling" => job'[u] = "polling"
    BY <2>2 DEF WakeTask
  <2>3. (\E t \in Tasks : SpawnStep(t) \/ JobStep(t) \/ WakeTask(t)) \/ UNCHANGED job
    BY DEF Next, PluginChoice, CallStep, DeferStep, BuildStep, DetachStep, CloserStep, vars,
           ReserveTask, AbortTask, BeginCall, WakeCall, PollFuture, Park, CallReturns, Unpark,
           WakeActivities, EndCall, EndCallNotify, BeginDefer, FlushDefer, Install, EndDefer,
           EndDeferNotify, RegisterResource, UnregisterResource, BuildRuntime, RegisterRuntime,
           RefuseRuntime, CloseRuntime, UnregisterRuntime, WorkersExit, JoinRuntime,
           CloseNextRuntime, EndCloser, EndCloserNotify, DetachCall, Refuse, Snapshot,
           AbortNext, CloseNext, WakeNext, ListRuntimes, Joined, DropCleanup, Listen,
           CheckIdle, Notified, DetachOwner, CancelDetach
  <2> QED BY <2>1, <2>2, <2>3
<1>2. \A c \in Calls : waiting[c] # {} /\ call[c] \in {"guest", "refused"} =>
        call'[c] \in {"guest", "refused"}
  <2>1. ASSUME NEW c \in Calls,
               BeginCall(c) \/ PollFuture(c) \/ Park(c) \/ CallReturns(c)
        PROVE  \A d \in Calls : waiting[d] # {} /\ call[d] \in {"guest", "refused"} =>
                 call'[d] \in {"guest", "refused"}
    BY <2>1 DEF BeginCall, PollFuture, Park, CallReturns
  <2>2. ASSUME NEW c \in Calls,
               Unpark(c) \/ WakeActivities(c) \/ EndCall(c) \/ EndCallNotify(c)
        PROVE  \A d \in Calls : waiting[d] # {} /\ call[d] \in {"guest", "refused"} =>
                 call'[d] \in {"guest", "refused"}
    BY <2>2 DEF Unpark, WakeActivities, EndCall, EndCallNotify
  <2>3. ASSUME NEW r \in Runtimes, BuildRuntime(r) \/ RegisterRuntime(r) \/ RefuseRuntime(r)
        PROVE  \A d \in Calls : waiting[d] # {} /\ call[d] \in {"guest", "refused"} =>
                 call'[d] \in {"guest", "refused"}
    BY <2>3 DEF BuildRuntime, RegisterRuntime, RefuseRuntime
  <2>4. ASSUME UNCHANGED call
        PROVE  \A d \in Calls : waiting[d] # {} /\ call[d] \in {"guest", "refused"} =>
                 call'[d] \in {"guest", "refused"}
    BY <2>4
  <2>5. CASE \E f \in Tasks \cup Calls, r \in Runtimes, mode \in Modes : CloseRuntime(f, r, mode)
    BY <2>4, <2>5 DEF CloseRuntime
  <2>6. CASE \E r \in Runtimes : UnregisterRuntime(r) \/ WorkersExit(r)
    BY <2>4, <2>6 DEF UnregisterRuntime, WorkersExit
  <2>7. CASE \E f \in Shutters : JoinRuntime(f)
    BY <2>4, <2>7 DEF JoinRuntime
  <2>8. CASE \E n \in Attempts : CloseNextRuntime(n) \/ EndCloser(n) \/ EndCloserNotify(n)
    BY <2>4, <2>8 DEF CloseNextRuntime, EndCloser, EndCloserNotify
  <2>9. CASE \/ DetachCall \/ Refuse \/ Snapshot \/ ListRuntimes \/ Joined \/ DropCleanup
             \/ Listen \/ CheckIdle \/ Notified \/ DetachOwner \/ CancelDetach
    BY <2>4, <2>9 DEF DetachCall, Refuse, Snapshot, ListRuntimes, Joined, DropCleanup,
                      Listen, CheckIdle, Notified, DetachOwner, CancelDetach
  <2> QED BY <2>1, <2>2, <2>3, <2>4, <2>5, <2>6, <2>7, <2>8, <2>9, RuntimeFrame
<1>3. \A n \in Attempts : waiting[n] # {} /\ closer[n] = "running" => closer'[n] = "running"
  <2>1. ASSUME NEW m \in Attempts, EndCloser(m) \/ EndCloserNotify(m)
        PROVE  \A n \in Attempts : waiting[n] # {} /\ closer[n] = "running" =>
                 closer'[n] = "running"
    BY <2>1 DEF EndCloser, EndCloserNotify
  <2>2. CASE ListRuntimes
    BY <2>2 DEF ListRuntimes
  <2>3. (\E m \in Attempts : EndCloser(m) \/ EndCloserNotify(m)) \/ ListRuntimes \/ UNCHANGED closer
    BY RuntimeFrame DEF BeginCall, PollFuture, Park, CallReturns, Unpark, WakeActivities, EndCall,
       EndCallNotify, CloseRuntime, UnregisterRuntime, BuildRuntime, RegisterRuntime,
       RefuseRuntime, WorkersExit, JoinRuntime, CloseNextRuntime, DetachCall, Refuse, Snapshot,
       Joined, DropCleanup, Listen, CheckIdle, Notified, DetachOwner, CancelDetach
  <2> QED BY <2>1, <2>2, <2>3
<1> QED BY <1>1, <1>2, <1>3

(* Where every runtime is shut down by waiting: how one closes, and who     *)
(* waits for it.                                                            *)
LEMMA WaitingMoves ==
  ASSUME Modes \subseteq {"Wait"}, TypeOK, Waiters, [Next]_vars
  PROVE  \/ UNCHANGED <<host, waiting>>
         \/ \E r \in Runtimes : /\ host' = [host EXCEPT ![r] = "open"] /\ call'[r] = "built"
                                /\ call[r] = "begun" /\ UNCHANGED waiting
         \/ \E r \in Runtimes : host' = [host EXCEPT ![r] = "closed"] /\ UNCHANGED waiting
         \/ \E f \in Shutters, r \in Runtimes :
              /\ waiting[f] = {} /\ waiting' = [waiting EXCEPT ![f] = {r}]
              /\ host' = [host EXCEPT ![r] = "closing"]
              /\ \/ f \in Tasks /\ job'[f] = "polling"
                 \/ f \in Calls /\ call'[f] \in {"guest", "refused"}
                 \/ f \in Attempts /\ closer'[f] = "running"
         \/ \E f \in Shutters :
              /\ \E r \in waiting[f] : host[r] = "closed"
              /\ waiting' = [waiting EXCEPT ![f] = {}] /\ UNCHANGED host
<1> USE DEF TypeOK, Call
<1> DEFINE Opens == \E r \in Runtimes :
             /\ host' = [host EXCEPT ![r] = "open"] /\ call'[r] = "built"
             /\ call[r] = "begun" /\ UNCHANGED waiting
           Ends == \E r \in Runtimes : host' = [host EXCEPT ![r] = "closed"] /\ UNCHANGED waiting
           Begins == \E f \in Shutters, r \in Runtimes :
             /\ waiting[f] = {} /\ waiting' = [waiting EXCEPT ![f] = {r}]
             /\ host' = [host EXCEPT ![r] = "closing"]
             /\ \/ f \in Tasks /\ job'[f] = "polling"
                \/ f \in Calls /\ call'[f] \in {"guest", "refused"}
                \/ f \in Attempts /\ closer'[f] = "running"
           GoesOn == \E f \in Shutters :
             /\ \E r \in waiting[f] : host[r] = "closed"
             /\ waiting' = [waiting EXCEPT ![f] = {}] /\ UNCHANGED host
<1>1. ASSUME NEW f \in Tasks \cup Calls, NEW r \in Runtimes, NEW mode \in Modes,
             CloseRuntime(f, r, mode)
      PROVE  /\ f \in Shutters /\ waiting[f] = {} /\ waiting' = [waiting EXCEPT ![f] = {r}]
             /\ host' = [host EXCEPT ![r] = "closing"]
             /\ \/ f \in Tasks /\ job'[f] = "polling"
                \/ f \in Calls /\ call'[f] \in {"guest", "refused"}
  BY <1>1 DEF CloseRuntime, InGuest, Shutdown, Shutters
<1>2. ASSUME NEW r \in Runtimes, BuildRuntime(r)
      PROVE  \/ UNCHANGED <<host, waiting>>
             \/ /\ host' = [host EXCEPT ![r] = "open"] /\ call'[r] = "built"
                /\ call[r] = "begun" /\ UNCHANGED waiting
  BY <1>2, HoldersDisjoint DEF BuildRuntime
<1>3. ASSUME NEW r \in Runtimes, RefuseRuntime(r)
      PROVE  \/ host' = [host EXCEPT ![r] = "closed"] /\ UNCHANGED waiting
             \/ /\ r \in Shutters /\ waiting[r] = {} /\ waiting' = [waiting EXCEPT ![r] = {r}]
                /\ host' = [host EXCEPT ![r] = "closing"]
                /\ r \in Calls /\ call'[r] \in {"guest", "refused"}
  <2>1. r \in Calls /\ call[r] = "built" /\ call'[r] = "refused"
    BY <1>3, HoldersDisjoint DEF RefuseRuntime
  <2>2. waiting[r] = {}
    BY <2>1 DEF Waiters
  <2> QED BY <1>3, <2>1, <2>2 DEF RefuseRuntime, Shutdown, Shutters
<1>4. ASSUME NEW n \in Attempts, CloseNextRuntime(n)
      PROVE  \/ UNCHANGED <<host, waiting>>
             \/ \E r \in Runtimes :
                  /\ n \in Shutters /\ waiting[n] = {} /\ waiting' = [waiting EXCEPT ![n] = {r}]
                  /\ host' = [host EXCEPT ![r] = "closing"] /\ closer'[n] = "running"
  BY <1>4 DEF CloseNextRuntime, Shutdown, Shutters
<1>5. ASSUME NEW r \in Runtimes, WorkersExit(r)
      PROVE  host' = [host EXCEPT ![r] = "closed"] /\ UNCHANGED waiting
  BY <1>5 DEF WorkersExit
<1>6. ASSUME NEW f \in Shutters, JoinRuntime(f)
      PROVE  /\ \E r \in waiting[f] : host[r] = "closed"
             /\ waiting' = [waiting EXCEPT ![f] = {}] /\ UNCHANGED host
  BY <1>6 DEF JoinRuntime
<1>7. ASSUME NEW c \in Calls,
             \/ BeginCall(c) \/ PollFuture(c) \/ Park(c) \/ CallReturns(c)
             \/ Unpark(c) \/ WakeActivities(c) \/ EndCall(c) \/ EndCallNotify(c)
      PROVE  UNCHANGED <<host, waiting>>
  BY <1>7 DEF BeginCall, PollFuture, Park, CallReturns, Unpark, WakeActivities, EndCall,
              EndCallNotify
<1>8. CASE \E r \in Runtimes : UnregisterRuntime(r) \/ RegisterRuntime(r)
  BY <1>8 DEF UnregisterRuntime, RegisterRuntime
<1>9. CASE \E n \in Attempts : EndCloser(n) \/ EndCloserNotify(n)
  BY <1>9 DEF EndCloser, EndCloserNotify
<1>10. CASE \/ DetachCall \/ Refuse \/ Snapshot \/ ListRuntimes \/ Joined \/ DropCleanup
            \/ Listen \/ CheckIdle \/ Notified \/ DetachOwner \/ CancelDetach
  BY <1>10 DEF DetachCall, Refuse, Snapshot, ListRuntimes, Joined, DropCleanup,
               Listen, CheckIdle, Notified, DetachOwner, CancelDetach
<1>11. CASE \E f \in Tasks \cup Calls, r \in Runtimes, mode \in Modes : CloseRuntime(f, r, mode)
  <2>1. Begins
    BY <1>1, <1>11
  <2> QED BY <2>1
<1>12. CASE \E r \in Runtimes : BuildRuntime(r)
  <2>1. UNCHANGED <<host, waiting>> \/ Opens
    BY <1>2, <1>12
  <2> QED BY <2>1
<1>13. CASE \E r \in Runtimes : RefuseRuntime(r)
  <2>1. Ends \/ Begins
    BY <1>3, <1>13
  <2> QED BY <2>1
<1>14. CASE \E n \in Attempts : CloseNextRuntime(n)
  <2>1. UNCHANGED <<host, waiting>> \/ Begins
    BY <1>4, <1>14
  <2> QED BY <2>1
<1>15. CASE \E r \in Runtimes : WorkersExit(r)
  <2>1. Ends
    BY <1>5, <1>15
  <2> QED BY <2>1
<1>16. CASE \E f \in Shutters : JoinRuntime(f)
  <2>1. GoesOn
    BY <1>6, <1>16
  <2> QED BY <2>1
<1> HIDE DEF Opens, Ends, Begins, GoesOn
<1>17. UNCHANGED <<host, waiting>> \/ Opens \/ Ends \/ Begins \/ GoesOn
  BY <1>7, <1>8, <1>9, <1>10, <1>11, <1>12, <1>13, <1>14, <1>15, <1>16, RuntimeFrame
     DEF Opens, Ends, Begins, GoesOn
<1> QED BY <1>17 DEF Opens, Ends, Begins, GoesOn

(* An open runtime is in the map, or its build has it in hand.              *)
LEMMA OpenStays ==
  ASSUME TypeOK, [Next]_vars, NEW r \in Runtimes, host[r] = "open", host'[r] = "open",
         r \in runtimes \/ call[r] = "built"
  PROVE  r \in runtimes' \/ call'[r] = "built"
<1> USE HoldersDisjoint DEF TypeOK, Call
<1>1. ASSUME NEW c \in Calls,
             \/ BeginCall(c) \/ PollFuture(c) \/ Park(c) \/ CallReturns(c)
             \/ Unpark(c) \/ WakeActivities(c) \/ EndCall(c) \/ EndCallNotify(c)
      PROVE  r \in runtimes' \/ call'[r] = "built"
  BY <1>1 DEF BeginCall, PollFuture, Park, CallReturns, Unpark, WakeActivities, EndCall,
              EndCallNotify
<1>2. ASSUME NEW q \in Runtimes,
             BuildRuntime(q) \/ RegisterRuntime(q) \/ WorkersExit(q) \/ UnregisterRuntime(q)
      PROVE  r \in runtimes' \/ call'[r] = "built"
  BY <1>2 DEF BuildRuntime, RegisterRuntime, WorkersExit, UnregisterRuntime, IsClosed
<1>3. ASSUME NEW q \in Runtimes, RefuseRuntime(q)
      PROVE  r \in runtimes' \/ call'[r] = "built"
  BY <1>3 DEF RefuseRuntime, Shutdown
<1>4. CASE \E f \in Tasks \cup Calls, q \in Runtimes, mode \in Modes : CloseRuntime(f, q, mode)
  BY <1>4 DEF CloseRuntime
<1>5. CASE \E f \in Shutters : JoinRuntime(f)
  BY <1>5 DEF JoinRuntime
<1>6. CASE \E n \in Attempts : CloseNextRuntime(n) \/ EndCloser(n) \/ EndCloserNotify(n)
  BY <1>6 DEF CloseNextRuntime, EndCloser, EndCloserNotify
<1>7. CASE \/ DetachCall \/ Refuse \/ Snapshot \/ ListRuntimes \/ Joined \/ DropCleanup
           \/ Listen \/ CheckIdle \/ Notified \/ CancelDetach
  BY <1>7 DEF DetachCall, Refuse, Snapshot, ListRuntimes, Joined, DropCleanup,
              Listen, CheckIdle, Notified, CancelDetach
<1>8. CASE DetachOwner
  BY <1>8 DEF DetachOwner, Detachable, OpenRuntimes, IsClosed
<1> QED BY <1>1, <1>2, <1>3, <1>4, <1>5, <1>6, <1>7, <1>8, RuntimeFrame

LEMMA HostWaitsStep ==
  ASSUME Modes \subseteq {"Wait"}, TypeOK, HostWaits, Waiters, [Next]_vars
  PROVE  HostWaits' /\ Waiters'
<1> USE DEF TypeOK
<1>0. \A r \in Runtimes : host[r] = "open" /\ host'[r] = "open" => r \in runtimes' \/ call'[r] = "built"
  BY OpenStays DEF HostWaits
<1>a. \A f \in Shutters : f \in Tasks \/ f \in Calls \/ f \in Attempts
  BY DEF Shutters
<1>b. /\ \A c \in Calls : c \notin Tasks /\ c \notin Attempts /\ c \in Shutters
      /\ \A t \in Tasks : t \notin Attempts /\ t \in Shutters
      /\ \A n \in Attempts : n \in Shutters
  BY HoldersDisjoint, OwnerAssumption DEF Holders, Shutters
<1>1. CASE UNCHANGED <<host, waiting>>
  BY <1>0, <1>1, WaitersStay DEF HostWaits, Waiters
<1>2. CASE \E r \in Runtimes : /\ host' = [host EXCEPT ![r] = "open"] /\ call'[r] = "built"
                               /\ call[r] = "begun" /\ UNCHANGED waiting
  <2>1. PICK r \in Runtimes : host' = [host EXCEPT ![r] = "open"] /\ call'[r] = "built" /\ UNCHANGED waiting
    BY <1>2
  <2>2. HostWaits'
    BY <1>0, <2>1 DEF HostWaits
  <2>3. Waiters'
    BY <2>1, WaitersStay DEF Waiters
  <2> QED BY <2>2, <2>3
<1>3. CASE \E r \in Runtimes : host' = [host EXCEPT ![r] = "closed"] /\ UNCHANGED waiting
  BY <1>0, <1>3, WaitersStay DEF HostWaits, Waiters
<1>4. CASE \E f \in Shutters, r \in Runtimes :
             /\ waiting[f] = {} /\ waiting' = [waiting EXCEPT ![f] = {r}]
             /\ host' = [host EXCEPT ![r] = "closing"]
             /\ \/ f \in Tasks /\ job'[f] = "polling"
                \/ f \in Calls /\ call'[f] \in {"guest", "refused"}
                \/ f \in Attempts /\ closer'[f] = "running"
  <2>1. PICK f \in Shutters, r \in Runtimes :
             /\ waiting[f] = {} /\ waiting' = [waiting EXCEPT ![f] = {r}]
             /\ host' = [host EXCEPT ![r] = "closing"]
             /\ \/ f \in Tasks /\ job'[f] = "polling"
                \/ f \in Calls /\ call'[f] \in {"guest", "refused"}
                \/ f \in Attempts /\ closer'[f] = "running"
    BY <1>4
  <2>2. \A g \in Shutters : waiting'[g] = IF g = f THEN {r} ELSE waiting[g]
    BY <2>1
  <2>3. HostWaits'
    BY <1>0, <2>1, <2>2 DEF HostWaits
  <2>4. Waiters'
    BY <1>b, <2>1, <2>2, WaitersStay DEF Waiters
  <2> QED BY <2>3, <2>4
<1>5. CASE \E f \in Shutters :
             /\ \E r \in waiting[f] : host[r] = "closed"
             /\ waiting' = [waiting EXCEPT ![f] = {}] /\ UNCHANGED host
  <2>1. PICK f \in Shutters : /\ \E r \in waiting[f] : host[r] = "closed"
                              /\ waiting' = [waiting EXCEPT ![f] = {}] /\ UNCHANGED host
    BY <1>5
  <2>2. \A g \in Shutters : waiting'[g] = IF g = f THEN {} ELSE waiting[g]
    BY <2>1
  <2>3. \A r \in Runtimes : host[r] = "closing" => r \notin waiting[f]
    BY <2>1 DEF HostWaits
  <2>4. HostWaits'
    BY <1>0, <2>1, <2>2, <2>3 DEF HostWaits
  <2>5. Waiters'
    BY <1>b, <2>2, WaitersStay DEF Waiters
  <2> QED BY <2>4, <2>5
<1> QED BY <1>1, <1>2, <1>3, <1>4, <1>5, WaitingMoves

LEMMA ClosersStep ==
  ASSUME MaxAttempts <= 2, TypeOK, StopInv, Waiters, Closers, [Next]_vars
  PROVE  Closers'
<1>0. /\ MaxAttempts \in Nat /\ Attempts = 1 .. MaxAttempts
      /\ attempt \in Nat /\ attempt <= MaxAttempts
      /\ \A n \in Attempts : n \notin Calls /\ n \notin Defers
  <2>1. MaxAttempts \in Nat /\ attempt \in 0 .. MaxAttempts
    BY OwnerAssumption DEF TypeOK
  <2>2. attempt \in Nat /\ attempt <= MaxAttempts
    BY <2>1
  <2>3. \A n \in Attempts : n \notin Calls /\ n \notin Defers
    BY HoldersDisjoint
  <2> QED BY <2>1, <2>2, <2>3 DEF Attempts
<1> USE DEF Detach, Unstarted
<1>1. ASSUME UNCHANGED <<attempt, detach, closer>>, attempt = 0 => accepting',
             1 \in Attempts /\ 1 \in activities => 1 \in activities'
      PROVE  Closers'
  BY <1>0, <1>1 DEF Closers
<1>2. ASSUME NEW c \in Calls,
             \/ BeginCall(c) \/ PollFuture(c) \/ Park(c) \/ CallReturns(c)
             \/ Unpark(c) \/ WakeActivities(c) \/ EndCall(c) \/ EndCallNotify(c)
      PROVE  Closers'
  BY <1>0, <1>1, <1>2 DEF BeginCall, PollFuture, Park, CallReturns, Unpark, WakeActivities,
    EndCall, EndCallNotify, Closers, Admit, Remove, WakeAll
<1>3. ASSUME NEW d \in Defers,
             BeginDefer(d) \/ Install(d) \/ FlushDefer(d) \/ EndDefer(d) \/ EndDeferNotify(d)
      PROVE  Closers'
  BY <1>0, <1>1, <1>3 DEF BeginDefer, Install, FlushDefer, EndDefer, EndDeferNotify, Closers,
    Admit, Remove, WakeAll
<1>4. ASSUME NEW n \in Attempts, EndCloser(n) \/ EndCloserNotify(n)
      PROVE  Closers'
  <2>1. CASE EndCloser(n)
    <3>1. /\ closer[n] = "running" /\ activities' = activities \ {n}
          /\ closer'[n] # "running" /\ closer'[n] # "none" /\ \A m \in Attempts \ {n} : closer'[m] = closer[m]
          /\ UNCHANGED <<attempt, detach, accepting>>
      BY <2>1 DEF EndCloser, Remove, TypeOK
    <3>2. n <= attempt
      BY <1>0, <3>1 DEF Closers
    <3>3. detach \in Unstarted => n # attempt
      BY <3>1 DEF Closers
    <3>4. attempt = 1 => n = 1
      BY <1>0, <3>2
    <3> QED BY <1>0, <3>1, <3>2, <3>3, <3>4 DEF Closers
  <2>2. CASE EndCloserNotify(n)
    <3>1. /\ closer[n] = "removed" /\ closer'[n] = "done" /\ \A m \in Attempts \ {n} : closer'[m] = closer[m]
          /\ UNCHANGED <<attempt, detach, accepting, activities>>
      BY <2>2 DEF EndCloserNotify, TypeOK
    <3> QED BY <1>0, <3>1 DEF Closers
  <2> QED BY <1>4, <2>1, <2>2
<1>5. CASE DetachCall
  <2>1. /\ attempt < MaxAttempts /\ attempt' = attempt + 1 /\ detach' = "begun"
        /\ activities \subseteq activities' /\ (accepting => attempt + 1 \in activities')
        /\ UNCHANGED <<accepting, closer>>
    BY <1>5 DEF DetachCall
  <2>2. attempt + 1 \in Attempts /\ closer[attempt + 1] = "none"
    BY <1>0, <2>1 DEF Closers
  <2>3. \A n \in Attempts : closer[n] = "running" => n = 1
    BY <1>0, <2>1 DEF Closers
  <2> QED BY <1>0, <2>1, <2>2, <2>3 DEF Closers
<1>6. CASE Refuse \/ Snapshot
  BY <1>0, <1>6 DEF Refuse, Snapshot, Closers, StopInv
<1>7. CASE ListRuntimes
  <2>1. attempt \in Attempts /\ detach = "stopping" /\ UNCHANGED <<attempt, accepting, activities>>
    BY <1>7 DEF ListRuntimes, StopInv
  <2>2. CASE detach' = "releasing" /\ closer' = closer
    BY <1>0, <2>1, <2>2 DEF Closers
  <2>3. CASE detach' = "joining" /\ closer' = [closer EXCEPT ![attempt] = "running"]
    <3>1. \A n \in Attempts : closer'[n] = IF n = attempt THEN "running" ELSE closer[n]
      BY <2>3 DEF TypeOK
    <3> QED BY <1>0, <2>1, <2>3, <3>1 DEF Closers
  <2> QED BY <1>7, <2>2, <2>3 DEF ListRuntimes
<1>8. CASE DropCleanup
  <2>1. /\ detach \in {"refused", "releasing"} /\ detach' \in {"attached", "listening"}
        /\ activities' = activities \ {attempt} /\ UNCHANGED <<attempt, accepting, closer>>
        /\ attempt \in Attempts
    BY <1>8 DEF DropCleanup, Remove, StopInv
  <2>2. closer[attempt] = "none"
    BY <2>1 DEF Closers
  <2> QED BY <1>0, <2>1, <2>2 DEF Closers
<1>9. CASE Joined \/ CancelDetach
  BY <1>0, <1>9 DEF Joined, CancelDetach, Closers
<1>10. CASE Listen \/ CheckIdle \/ Notified \/ DetachOwner
  BY <1>0, <1>10 DEF Listen, CheckIdle, Notified, DetachOwner, Closers
<1>11. CASE UNCHANGED <<activities, attempt, detach, closer, accepting>>
  BY <1>1, <1>11 DEF Closers
<1>12. ASSUME NEW t \in Tasks, SpawnStep(t) \/ JobStep(t)
       PROVE  UNCHANGED <<activities, attempt, detach, closer, accepting>>
  BY <1>12 DEF SpawnStep, JobStep, Launch, FailSpawn, RegisterTask, PollTask,
              PollReturns, CancelTask, FinishTask, FinishNotify
<1>13. CASE PluginChoice
  BY <1>2, <1>3, <1>11, <1>13 DEF PluginChoice, ReserveTask, AbortTask, WakeTask, WakeCall,
              RegisterResource, UnregisterResource, CloseRuntime, UnregisterRuntime
<1>14. CASE DetachStep
  BY <1>6, <1>7, <1>8, <1>9, <1>10, <1>11, <1>14 DEF DetachStep, AbortNext, CloseNext, WakeNext
<1>15. ASSUME NEW r \in Runtimes, BuildStep(r) \/ WorkersExit(r)
       PROVE  UNCHANGED <<activities, attempt, detach, closer, accepting>>
  BY <1>15 DEF BuildStep, BuildRuntime, RegisterRuntime, RefuseRuntime, WorkersExit
<1>16. ASSUME NEW f \in Shutters, JoinRuntime(f)
       PROVE  UNCHANGED <<activities, attempt, detach, closer, accepting>>
  BY <1>16 DEF JoinRuntime
<1>17. ASSUME NEW n \in Attempts, CloserStep(n)
       PROVE  Closers'
  <2>1. CASE CloseNextRuntime(n)
    BY <1>11, <2>1 DEF CloseNextRuntime
  <2> QED BY <1>4, <1>17, <2>1 DEF CloserStep
<1>18. CASE UNCHANGED vars
  BY <1>11, <1>18 DEF vars
<1> QED BY <1>2, <1>3, <1>5, <1>9, <1>11, <1>12, <1>13, <1>14, <1>15, <1>16, <1>17, <1>18
        DEF Next, CallStep, DeferStep

LEMMA EmptiedStep ==
  ASSUME TypeOK, StopInv, Emptied, [Next]_vars
  PROVE  Emptied'
<1> USE DEF StopInv, PastSnapshot, Emptied, Detach
<1>1. ASSUME NEW c \in Calls,
             \/ BeginCall(c) \/ PollFuture(c) \/ Park(c) \/ CallReturns(c)
             \/ Unpark(c) \/ WakeActivities(c) \/ EndCall(c) \/ EndCallNotify(c)
      PROVE  UNCHANGED <<runtimes, detach>>
  BY <1>1 DEF BeginCall, PollFuture, Park, CallReturns, Unpark, WakeActivities, EndCall,
              EndCallNotify
<1>2. ASSUME NEW r \in Runtimes,
             \/ UnregisterRuntime(r) \/ BuildRuntime(r)
             \/ RegisterRuntime(r) \/ RefuseRuntime(r) \/ WorkersExit(r)
      PROVE  Emptied'
  BY <1>2 DEF UnregisterRuntime, BuildRuntime, RegisterRuntime, RefuseRuntime, WorkersExit
<1>3. CASE \E f \in Tasks \cup Calls, r \in Runtimes, mode \in Modes : CloseRuntime(f, r, mode)
  BY <1>3 DEF CloseRuntime
<1>4. CASE \E f \in Shutters : JoinRuntime(f)
  BY <1>4 DEF JoinRuntime
<1>5. CASE \E n \in Attempts : CloseNextRuntime(n) \/ EndCloser(n) \/ EndCloserNotify(n)
  BY <1>5 DEF CloseNextRuntime, EndCloser, EndCloserNotify
<1>6. CASE \/ DetachCall \/ Refuse \/ Snapshot \/ ListRuntimes \/ Joined \/ DropCleanup
           \/ Listen \/ CheckIdle \/ Notified \/ CancelDetach
  BY <1>6 DEF DetachCall, Refuse, Snapshot, ListRuntimes, Joined, DropCleanup,
              Listen, CheckIdle, Notified, CancelDetach
<1>7. CASE DetachOwner
  BY <1>7 DEF DetachOwner
<1> QED BY <1>1, <1>2, <1>3, <1>4, <1>5, <1>6, <1>7, RuntimeFrame

LEMMA JoinInit == Init => JInv
<1> SUFFICES ASSUME Init PROVE JInv
  OBVIOUS
<1>1. HostWaits
  BY DEF Init, HostWaits
<1>2. \A f \in Shutters : waiting[f] = {}
  BY DEF Init
<1>3. Waiters
  BY <1>2 DEF Waiters, Shutters
<1>4. Closers
  BY DEF Init, Closers, Unstarted
<1>5. Emptied
  BY DEF Init, Emptied
<1> QED BY <1>1, <1>3, <1>4, <1>5 DEF JInv

(* After Attachment::detach has returned Ok no thread of a runtime that the  *)
(* plugin built is left, in any number of runtimes, where the plugin always  *)
(* waits when it shuts one down and the application cancels detach at most  *)
(* once.  Both hypotheses are needed: shutdown_background returns with the   *)
(* threads still there, and the closers of a second and a third detach hold  *)
(* no activity, so that the next detach does not wait for them.             *)
THEOREM WaitedRuntimesJoined ==
  ASSUME Modes \subseteq {"Wait"}, MaxAttempts <= 2
  PROVE  Spec => []RuntimesJoined
<1> DEFINE Inv == IInv /\ JInv
<1>1. Init => Inv
  BY IInvInit, JoinInit
<1>2. Inv /\ [Next]_vars => Inv'
  BY IInvStep, HostWaitsStep, ClosersStep, EmptiedStep DEF IInv, JInv
<1>3. Inv => RuntimesJoined
  <2> SUFFICES ASSUME IInv, JInv, detach = "detached", NEW r \in Runtimes
               PROVE  host[r] \in {"absent", "closed"}
    BY DEF RuntimesJoined
  <2>1. activities = {} /\ \A t \in Tasks : tasks[t] = "vacant"
    BY DEF IInv, IdleInv, Idle
  <2>2. \A f \in Shutters : waiting[f] = {}
    BY <2>1 DEF IInv, TypeOK, TaskInv, CallInv, JInv, Waiters, Closers, Shutters
  <2>3. r \notin runtimes /\ call[r] # "built"
    BY <2>1, HoldersDisjoint DEF IInv, CallInv, JInv, Emptied
  <2> QED BY <2>2, <2>3 DEF IInv, JInv, TypeOK, HostWaits
<1> QED BY <1>1, <1>2, <1>3, PTL DEF Spec
===============================================================================
