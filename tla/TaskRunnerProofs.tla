-------------------------- MODULE TaskRunnerProofs --------------------------
(***************************************************************************)
(* What TaskRunner.tla guarantees for any number of wakers, with and       *)
(* without runtime dumps.                                                  *)
(***************************************************************************)
EXTENDS TaskRunner, TLAPS

(* A new task is notified, and its one Notified waits in the slot.         *)
LEMMA InitInv == Init => IInv
BY RunnerAssumption DEF Init, IInv, TypeOK, OneNotified, Stages, Emptied, InHand, Threads

(* The host polls its task, traces it, drops it or takes its Pending.      *)
LEMMA HostSteps ==
  ASSUME IInv, HostPolls \/ HostTraces \/ HostDrops \/ HostPending
  PROVE  IInv'
<1>1. CASE HostPolls
  BY <1>1 DEF HostPolls, Poll, taskVars, hostVars,
    IInv, TypeOK, OneNotified, Stages, Emptied, InHand
<1>2. CASE HostTraces
  BY <1>2 DEF HostTraces, Poll, taskVars, hostVars,
    IInv, TypeOK, OneNotified, Stages, Emptied, InHand
<1>3. CASE HostDrops
  BY <1>3 DEF HostDrops, Poll, taskVars, hostVars,
    IInv, TypeOK, OneNotified, Stages, Emptied, InHand
<1>4. CASE HostPending
  BY <1>4 DEF HostPending, Poll, taskVars, hostVars,
    IInv, TypeOK, OneNotified, Stages, Emptied, InHand
<1> QED BY <1>1, <1>2, <1>3, <1>4

(* poll_task up to the end of the future's poll.                           *)
LEMMA PollSteps ==
  ASSUME IInv, TakeRunnable \/ TakeOrNotify \/ RunTask \/ FutureReady \/ FuturePending \/ Yielded
  PROVE  IInv'
<1>1. CASE TakeRunnable
  BY <1>1 DEF TakeRunnable, Poll, taskVars, hostVars,
    IInv, TypeOK, OneNotified, Stages, Emptied, InHand
<1>2. CASE TakeOrNotify
  <2>1. life = "idle" /\ life' = life /\ pc' = pc /\ host' = host /\ ~runnable'
    BY <1>2 DEF TakeOrNotify, Poll, hostVars, IInv, TypeOK, Stages
  <2>2. CASE poll' = "hold"
    <3>1. notified' /\ \A t \in Threads : ~InHand(t)
      BY <1>2, <2>2 DEF TakeOrNotify, Poll, IInv, OneNotified
    <3> QED BY <1>2, <2>1, <2>2, <3>1
      DEF TakeOrNotify, hostVars, IInv, TypeOK, OneNotified, Stages, Emptied, InHand
  <2>3. CASE poll' = "ran" /\ notified' = notified
    BY <1>2, <2>1, <2>3
    DEF TakeOrNotify, Poll, hostVars, IInv, TypeOK, OneNotified, Stages, Emptied, InHand
  <2> QED BY <1>2, <2>2, <2>3 DEF TakeOrNotify, Poll
<1>3. CASE RunTask
  BY <1>3 DEF RunTask, Poll, taskVars, hostVars,
    IInv, TypeOK, OneNotified, Stages, Emptied, InHand
<1>4. CASE FutureReady
  BY <1>4 DEF FutureReady, Poll, taskVars, hostVars,
    IInv, TypeOK, OneNotified, Stages, Emptied, InHand
<1>5. CASE FuturePending
  BY <1>5 DEF FuturePending, Poll, Go, Threads, taskVars, hostVars,
    IInv, TypeOK, OneNotified, Stages, Emptied, InHand
<1>6. CASE Yielded
  BY <1>6 DEF Yielded, Poll, taskVars, hostVars,
    IInv, TypeOK, OneNotified, Stages, Emptied, InHand
<1> QED BY <1>1, <1>2, <1>3, <1>4, <1>5, <1>6

(* The end of poll_task and of cancel_task.                                *)
LEMMA EndSteps ==
  ASSUME IInv, CompleteTask \/ ReleaseRunnable \/ ReleaseWaker \/ ReleaseTask \/ StoreWaker \/ CheckRunnable \/ CancelTask
  PROVE  IInv'
<1>1. CASE CompleteTask
  BY <1>1 DEF CompleteTask, Poll, taskVars, hostVars,
    IInv, TypeOK, OneNotified, Stages, Emptied, InHand
<1>2. CASE ReleaseRunnable
  BY <1>2 DEF ReleaseRunnable, Poll, taskVars, hostVars,
    IInv, TypeOK, OneNotified, Stages, Emptied, InHand
<1>3. CASE ReleaseWaker
  BY <1>3 DEF ReleaseWaker, Poll, WakeHostTask, taskVars, hostVars,
    IInv, TypeOK, OneNotified, Stages, Emptied, InHand
<1>4. CASE ReleaseTask
  BY <1>4 DEF ReleaseTask, Poll, taskVars, hostVars,
    IInv, TypeOK, OneNotified, Stages, Emptied, InHand
<1>5. CASE StoreWaker
  BY <1>5 DEF StoreWaker, Poll, taskVars, hostVars,
    IInv, TypeOK, OneNotified, Stages, Emptied, InHand
<1>6. CASE CheckRunnable
  BY <1>6 DEF CheckRunnable, Poll, WakeHostTask, taskVars, hostVars,
    IInv, TypeOK, OneNotified, Stages, Emptied, InHand
<1>7. CASE CancelTask
  BY <1>7 DEF CancelTask, Poll, taskVars, hostVars,
    IInv, TypeOK, OneNotified, Stages, Emptied, InHand
<1> QED BY <1>1, <1>2, <1>3, <1>4, <1>5, <1>6, <1>7

(* A wake: its thread gets a Notified only if nobody has one.              *)
LEMMA NotifySteps ==
  ASSUME IInv, NEW t \in Threads, Notify(t),
         UNCHANGED <<life, runnable, waker, host, poll>>,
         {dumps, cancelled, hostNotified, hostAborted, tracing, deferred}' \subseteq BOOLEAN,
         UNCHANGED seen
  PROVE  IInv'
<1>1. CASE life = "idle" /\ ~notified
  <2>1. \A u \in Threads : ~InHand(u)
    BY <1>1 DEF IInv, OneNotified
  <2>2. notified' /\ \A u \in Threads : InHand(u)' => u = t
    BY <1>1, <2>1 DEF Notify, Go, InHand, IInv, TypeOK
  <2>3. ~runnable /\ poll # "hold" /\ poll # "future"
    BY <1>1 DEF IInv, TypeOK, OneNotified, Stages
  <2>4. pc' \in [Threads -> {"out", "schedule", "place", "wake", "abort"}]
    BY <1>1 DEF Notify, Go, IInv, TypeOK
  <2>5. TypeOK'
    BY <2>2, <2>4 DEF IInv, TypeOK
  <2>6. OneNotified'
    BY <2>2, <2>3 DEF OneNotified
  <2>7. Stages' /\ Emptied'
    BY <2>3 DEF IInv, Stages, Emptied
  <2> QED BY <2>5, <2>6, <2>7 DEF IInv
<1>2. CASE ~(life = "idle" /\ ~notified)
  <2>1. pc' = pc /\ (notified => notified') /\ notified' \in BOOLEAN
    BY <1>2 DEF Notify, IInv, TypeOK
  <2>2. \A u \in Threads : InHand(u)' = InHand(u)
    BY <2>1 DEF InHand
  <2>3. TypeOK' /\ OneNotified'
    BY <2>1, <2>2 DEF IInv, TypeOK, OneNotified
  <2>4. Stages' /\ Emptied'
    BY <2>2 DEF IInv, Stages, Emptied
  <2> QED BY <2>3, <2>4 DEF IInv
<1> QED BY <1>1, <1>2

(* The task's waker and its AbortHandle.                                   *)
LEMMA WakerSteps ==
  ASSUME NEW w \in Wakers, IInv, Wake(w) \/ Abort(w)
  PROVE  IInv'
<1>1. w \in Threads
  BY DEF Threads
<1>2. CASE Wake(w)
  BY <1>1, <1>2, NotifySteps DEF Wake, hostVars, IInv, TypeOK
<1>3. CASE Abort(w)
  BY <1>1, <1>3, NotifySteps DEF Abort, hostVars, IInv, TypeOK
<1> QED BY <1>2, <1>3

(* A deferred waker.                                                       *)
LEMMA DeferredSteps ==
  ASSUME IInv, FireDeferred
  PROVE  IInv'
<1>1. Flush \in Threads
  BY DEF Threads
<1> QED BY <1>1, NotifySteps DEF FireDeferred, hostVars, IInv, TypeOK

(* A thread inside schedule.                                               *)
LEMMA ScheduleSteps ==
  ASSUME NEW t \in Threads, IInv, Schedule(t) \/ Place(t) \/ WakeHost(t) \/ AbortHost(t)
  PROVE  IInv'
<1>1. CASE Schedule(t)
  BY <1>1 DEF Schedule, Go, taskVars, hostVars,
    IInv, TypeOK, OneNotified, Stages, Emptied, InHand
<1>2. CASE Place(t)
  <2>1. InHand(t) /\ notified /\ ~runnable /\ poll # "hold" /\ poll # "future"
    BY <1>2 DEF Place, Go, InHand, IInv, OneNotified, Stages
  <2>2. \A u \in Threads : ~InHand(u)'
    BY <1>2, <2>1 DEF Place, Go, InHand, IInv, TypeOK, OneNotified
  <2>3. pc' \in [Threads -> {"out", "schedule", "place", "wake", "abort"}]
    BY <1>2 DEF Place, Go, IInv, TypeOK
  <2>4. TypeOK'
    BY <1>2, <2>1, <2>3 DEF Place, taskVars, hostVars, IInv, TypeOK
  <2>5. OneNotified'
    BY <1>2, <2>1, <2>2 DEF Place, OneNotified
  <2>6. Stages' /\ Emptied'
    BY <1>2, <2>1 DEF Place, taskVars, hostVars, IInv, Stages, Emptied
  <2> QED BY <2>4, <2>5, <2>6 DEF IInv
<1>3. CASE WakeHost(t)
  BY <1>3 DEF WakeHost, Go, WakeHostTask, taskVars, hostVars,
    IInv, TypeOK, OneNotified, Stages, Emptied, InHand
<1>4. CASE AbortHost(t)
  BY <1>4 DEF AbortHost, Go, WakeHostTask, taskVars, hostVars,
    IInv, TypeOK, OneNotified, Stages, Emptied, InHand
<1> QED BY <1>1, <1>2, <1>3, <1>4

(* One lemma per group of steps: IInv is inductive.                        *)
LEMMA NextInv == IInv /\ [Next]_vars => IInv'
<1> SUFFICES ASSUME IInv, [Next]_vars PROVE IInv'
  OBVIOUS
<1>1. CASE UNCHANGED vars
  BY <1>1 DEF vars, taskVars, hostVars, IInv, TypeOK, OneNotified, Stages, Emptied,
    InHand
<1>2. CASE WorkerStep
  BY <1>2, HostSteps, PollSteps, EndSteps DEF WorkerStep
<1>3. CASE HostTraces \/ HostDrops
  BY <1>3, HostSteps
<1>4. CASE FireDeferred
  BY <1>4, DeferredSteps
<1>5. CASE \E w \in Wakers : Wake(w) \/ Abort(w)
  BY <1>5, WakerSteps
<1>6. CASE \E t \in Threads : ScheduleStep(t)
  BY <1>6, ScheduleSteps DEF ScheduleStep
<1> QED BY <1>1, <1>2, <1>3, <1>4, <1>5, <1>6 DEF Next

(* IInv holds in every reachable state.                                    *)
THEOREM RunnerInvariant == Spec => []IInv
BY InitInv, NextInv, PTL DEF Spec

(* The slots, the state word and the host's task keep their types, and the *)
(* slot is full only while the task has its NOTIFIED bit.                  *)
THEOREM TypeCorrect == Spec => []TypeOK
<1>1. IInv => TypeOK
  BY DEF IInv
<1> QED BY <1>1, RunnerInvariant, PTL

(* The assertion of schedule never fails: two threads that wake a task, a  *)
(* poll, a dump and an abort never have two Notified of it between them.   *)
THEOREM ScheduledOnce == Spec => []NeverScheduledTwice
<1>1. IInv => NeverScheduledTwice
  BY DEF IInv, OneNotified, InHand, NeverScheduledTwice
<1> QED BY <1>1, RunnerInvariant, PTL

(* When the host has released its descriptor no slot of the task is full,  *)
(* and no thread still inside schedule will fill one.                      *)
THEOREM SlotsEmptied == Spec => []NothingKept
<1>1. IInv => NothingKept
  BY DEF IInv, Emptied, NothingKept
<1> QED BY <1>1, RunnerInvariant, PTL
===============================================================================
