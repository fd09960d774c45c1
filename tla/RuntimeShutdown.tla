--------------------------- MODULE RuntimeShutdown ---------------------------
(***************************************************************************)
(* The locks of Attachment::detach.  Owner.tla takes every critical        *)
(* section of OwnerState::state for one step; shutdown_owner, however,     *)
(* reads RuntimeOwner::kind of every runtime inside two of them, while     *)
(* runtime_block_on holds kind.read() for as long as it runs the plugin's  *)
(* future and takes the state lock at every poll, and RuntimeOwner::close  *)
(* asks for kind.write().                                                  *)
(*                                                                         *)
(* A step is what a thread does between two points at which it may have to *)
(* wait.  std's RwLock lets no new reader in while a writer waits.         *)
(***************************************************************************)
EXTENDS Naturals

CONSTANTS
  Runtimes,     \* the runtimes the plugin has built, none of them local
  BlockOns,     \* calls of runtime_block_on
  On,           \* the runtime each of them uses
  MaxAttempts   \* bound: calls of Attachment::detach, cancelled ones included

Attempts == 1 .. MaxAttempts

ASSUME ShutdownAssumption ==
  /\ MaxAttempts \in Nat
  /\ On \in [BlockOns -> Runtimes]
  /\ BlockOns \cap Attempts = {}

VARIABLES
  accepting,    \* OwnerState::accepting
  active,       \* the activities: block_on calls and detach's own cleanup
  armed,        \* those block_on calls that have stored their waker
  open,         \* the runtimes whose kind is not Closed
  call,         \* where a block_on stands
  woken,        \* the block_on calls that hold an unpark token
  closer,       \* the blocking task of each attempt, and the runtimes it has
  todo,         \*   yet to close
  at,           \* the runtime whose kind.write() it waits for, if any
  detach,       \* where Attachment::detach stands
  scan,         \* the runtimes it has yet to read in its critical section
  attempt,      \* how often it was called
  notified      \* notify_waiters ran since wait_idle called notified()

vars == <<accepting, active, armed, open, call, woken, closer, todo, at, detach,
          scan, attempt, notified>>
callVars   == <<armed, call, woken>>
closerVars == <<closer, todo, at>>

TypeOK ==
  /\ accepting \in BOOLEAN
  /\ active \subseteq BlockOns \cup Attempts
  /\ armed \subseteq active \cap BlockOns
  /\ open \subseteq Runtimes
  /\ call \in [BlockOns -> {"out", "admitted", "begun", "guest", "parked",
                            "leaving", "removed", "unlocking", "refused"}]
  /\ woken \subseteq BlockOns
  /\ closer \in [Attempts -> {"none", "running", "removed", "done"}]
  /\ todo \in [Attempts -> SUBSET Runtimes]
  /\ at \in [Attempts -> SUBSET Runtimes]
  /\ detach \in {"attached", "begun", "looking", "waking", "woken", "listing",
                 "joining", "releasing", "listening", "checking", "waiting",
                 "finishing", "detached"}
  /\ scan \subseteq Runtimes
  /\ attempt \in 0 .. MaxAttempts
  /\ notified \in BOOLEAN

Init ==
  /\ accepting = TRUE
  /\ active = {} /\ armed = {}
  /\ open = Runtimes
  /\ call = [b \in BlockOns |-> "out"]
  /\ woken = {}
  /\ closer = [n \in Attempts |-> "none"]
  /\ todo = [n \in Attempts |-> {}]
  /\ at = [n \in Attempts |-> {}]
  /\ detach = "attached"
  /\ scan = {}
  /\ attempt = 0
  /\ notified = FALSE

-----------------------------------------------------------------------------
(* The locks *)

(* shutdown_owner keeps the state lock while it reads the runtimes' kinds. *)
StateFree == detach \notin {"looking", "listing"}

Readers(r)     == {b \in BlockOns : On[b] = r /\ call[b] \in
                     {"begun", "guest", "parked", "leaving", "removed", "unlocking"}}
WriterWaits(r) == \E n \in Attempts : r \in at[n]

Move(b, from, to) == call[b] = from /\ call' = [call EXCEPT ![b] = to]
Detach(from, to)  == detach = from /\ detach' = to

-----------------------------------------------------------------------------
(* runtime_block_on *)

BeginCall(b) ==
  /\ StateFree /\ accepting
  /\ On[b] \in open
  /\ Move(b, "out", "admitted")
  /\ active' = active \cup {b}
  /\ UNCHANGED <<accepting, armed, open, woken, closerVars, detach, scan, attempt,
                 notified>>

(* kind.read(); a runtime that has been closed meanwhile fails the call,   *)
(* which gives the guard back before its activity.                         *)
EnterRuntime(b) ==
  /\ ~WriterWaits(On[b])
  /\ Move(b, "admitted", IF On[b] \in open THEN "begun" ELSE "refused")
  /\ UNCHANGED <<accepting, active, armed, open, woken, closerVars, detach, scan,
                 attempt, notified>>

(* GuestFuture::poll: update_activity_waker, then the plugin's future.     *)
PollFuture(b) ==
  /\ StateFree
  /\ Move(b, "begun", IF accepting THEN "guest" ELSE "leaving")
  /\ armed' = IF accepting THEN armed \cup {b} ELSE armed
  /\ UNCHANGED <<accepting, active, open, woken, closerVars, detach, scan, attempt,
                 notified>>

(* The future returns: Pending, and the thread parks, or Ready.            *)
PollReturns(b) ==
  /\ Move(b, "guest", "parked") \/ Move(b, "guest", "leaving")
  /\ UNCHANGED <<accepting, active, armed, open, woken, closerVars, detach, scan,
                 attempt, notified>>

Unpark(b) ==
  /\ b \in woken
  /\ Move(b, "parked", "begun")
  /\ woken' = woken \ {b}
  /\ UNCHANGED <<accepting, active, armed, open, closerVars, detach, scan, attempt,
                 notified>>

(* An event the future waits for.                                          *)
WakeCall(b) ==
  /\ call[b] \in {"guest", "parked"}
  /\ woken' = woken \cup {b}
  /\ UNCHANGED <<accepting, active, armed, open, call, closerVars, detach, scan,
                 attempt, notified>>

(* Mistake: the waker stays behind when the activity goes. *)
DropKeepingWaker(b) ==
  /\ StateFree
  /\ Move(b, "leaving", "removed")
  /\ active' = active \ {b}
  /\ woken' = woken \ {b}
  /\ UNCHANGED <<accepting, armed, open, closerVars, detach, scan, attempt, notified>>

(* Activity::drop: the map, then the notification.                         *)
DropActivity(b) ==
  /\ StateFree
  /\ Move(b, "leaving", "removed")
  /\ active' = active \ {b}
  /\ armed' = armed \ {b}
  /\ woken' = woken \ {b}
  /\ UNCHANGED <<accepting, open, closerVars, detach, scan, attempt, notified>>

NotifyAndUnlock(b) ==
  /\ \/ Move(b, "removed", "unlocking") /\ notified' = TRUE
     \/ Move(b, "unlocking", "out") /\ UNCHANGED notified
  /\ UNCHANGED <<accepting, active, armed, open, woken, closerVars, detach, scan,
                 attempt>>

(* The same for a call that found its runtime closed, without the guard.   *)
RefusedReturns(b) ==
  /\ StateFree
  /\ Move(b, "refused", "out")
  /\ active' = active \ {b}
  /\ notified' = TRUE
  /\ UNCHANGED <<accepting, armed, open, woken, closerVars, detach, scan, attempt>>

CallStep(b) ==
  \/ EnterRuntime(b) \/ PollFuture(b) \/ PollReturns(b) \/ Unpark(b)
  \/ DropActivity(b) \/ NotifyAndUnlock(b) \/ RefusedReturns(b)

(* The plugin drops a runtime: it owns it, so none of its calls uses it.   *)
CloseRuntime(r) ==
  /\ accepting
  /\ \A b \in BlockOns : On[b] = r => call[b] = "out"
  /\ open' = open \ {r}
  /\ r \in open
  /\ UNCHANGED <<accepting, active, callVars, closerVars, detach, scan, attempt,
                 notified>>

-----------------------------------------------------------------------------
(* shutdown_owner *)

(* callback: the cleanup of this attempt.                                  *)
DetachCall ==
  /\ attempt < MaxAttempts
  /\ Detach("attached", "begun")
  /\ attempt' = attempt + 1
  /\ active' = IF accepting THEN active \cup {attempt + 1} ELSE active
  /\ UNCHANGED <<accepting, callVars, open, closerVars, scan, notified>>

(* The state lock is taken to ask every runtime for local_open(), and      *)
(* again to ask every runtime for is_closed() and to list the open ones.   *)
LockState ==
  /\ Detach("begun", "looking") \/ Detach("woken", "listing")
  /\ scan' = Runtimes
  /\ UNCHANGED <<accepting, active, callVars, open, closerVars, attempt, notified>>

ReadKind(r) ==
  /\ ~StateFree
  /\ r \in scan
  /\ ~WriterWaits(r)
  /\ scan' = scan \ {r}
  /\ todo' = IF detach = "listing" /\ r \in open THEN [todo EXCEPT ![attempt] = @ \cup {r}]
                                               ELSE todo
  /\ UNCHANGED <<accepting, active, callVars, open, closer, at, detach, attempt,
                 notified>>

Snapshot ==
  /\ scan = {}
  /\ Detach("looking", "waking")
  /\ accepting' = FALSE
  /\ UNCHANGED <<active, callVars, open, closerVars, scan, attempt, notified>>

(* Mistake: the stored wakers are not woken. *)
WakeNobody ==
  /\ Detach("waking", "woken")
  /\ UNCHANGED <<accepting, active, callVars, open, closerVars, scan, attempt,
                 notified>>

(* The wakers of the snapshot; an activity dropped since takes no harm.    *)
WakeActivities ==
  /\ Detach("waking", "woken")
  /\ woken' = woken \cup {b \in armed : call[b] \in {"guest", "parked"}}
  /\ UNCHANGED <<accepting, active, armed, call, open, closerVars, scan, attempt,
                 notified>>

(* Mistake: the closer starts before the state lock is given back. *)
StartCloserEarly ==
  /\ detach = "listing"
  /\ \/ /\ scan # {} /\ open # {} /\ closer[attempt] = "none"
        /\ closer' = [closer EXCEPT ![attempt] = "running"]
        /\ todo' = [todo EXCEPT ![attempt] = open]
        /\ UNCHANGED detach
     \/ /\ scan = {}
        /\ detach' = IF closer[attempt] = "none" THEN "releasing" ELSE "joining"
        /\ UNCHANGED <<closer, todo>>
  /\ UNCHANGED <<accepting, active, callVars, open, at, scan, attempt, notified>>

(* All kinds are read: the lock is given back and the open runtimes go to  *)
(* a blocking task.                                                        *)
StartCloser ==
  /\ detach = "listing" /\ scan = {}
  /\ IF todo[attempt] = {}
       THEN detach' = "releasing" /\ UNCHANGED closer
       ELSE detach' = "joining" /\ closer' = [closer EXCEPT ![attempt] = "running"]
  /\ UNCHANGED <<accepting, active, callVars, open, todo, at, scan, attempt, notified>>

(* RuntimeOwner::close asks for kind.write() ...                           *)
AskWrite(n) ==
  /\ closer[n] = "running"
  /\ at[n] = {}
  /\ \E r \in todo[n] :
       /\ at' = [at EXCEPT ![n] = {r}]
       /\ todo' = [todo EXCEPT ![n] = @ \ {r}]
  /\ UNCHANGED <<accepting, active, callVars, open, closer, detach, scan, attempt,
                 notified>>

(* Mistake: the runtime is taken under a read guard. *)
TakeSharedRuntime(n) ==
  /\ \E r \in at[n] : open' = open \ {r}
  /\ at' = [at EXCEPT ![n] = {}]
  /\ UNCHANGED <<accepting, active, callVars, closer, todo, detach, scan, attempt,
                 notified>>

(* ... gets it when no reader is left, takes the runtime out, unless        *)
(* another closer has, and joins it.                                       *)
TakeRuntime(n) ==
  /\ \E r \in at[n] : Readers(r) = {} /\ open' = open \ {r}
  /\ at' = [at EXCEPT ![n] = {}]
  /\ UNCHANGED <<accepting, active, callVars, closer, todo, detach, scan, attempt,
                 notified>>

(* The closure drops the cleanup, which is None in a retried detach.       *)
EndCloser(n) ==
  /\ closer[n] = "running"
  /\ at[n] = {} /\ todo[n] = {}
  /\ StateFree \/ n \notin active
  /\ closer' = [closer EXCEPT ![n] = IF n \in active THEN "removed" ELSE "done"]
  /\ active' = active \ {n}
  /\ UNCHANGED <<accepting, callVars, open, todo, at, detach, scan, attempt, notified>>

EndCloserNotify(n) ==
  /\ closer[n] = "removed"
  /\ closer' = [closer EXCEPT ![n] = "done"]
  /\ notified' = TRUE
  /\ UNCHANGED <<accepting, active, callVars, open, todo, at, detach, scan, attempt>>

CloserStep(n) == AskWrite(n) \/ TakeRuntime(n) \/ EndCloser(n) \/ EndCloserNotify(n)

Joined ==
  /\ Detach("joining", "listening")
  /\ closer[attempt] = "done"
  /\ UNCHANGED <<accepting, active, callVars, open, closerVars, scan, attempt,
                 notified>>

DropCleanup ==
  /\ Detach("releasing", "listening")
  /\ active' = active \ {attempt}
  /\ UNCHANGED <<accepting, callVars, open, closerVars, scan, attempt, notified>>

(* wait_idle; without a task only the activities count.                    *)
Listen ==
  /\ Detach("listening", "checking")
  /\ notified' = FALSE
  /\ UNCHANGED <<accepting, active, callVars, open, closerVars, scan, attempt>>

CheckIdle ==
  /\ Detach("checking", IF active = {} THEN "finishing" ELSE "waiting")
  /\ UNCHANGED <<accepting, active, callVars, open, closerVars, scan, attempt,
                 notified>>

Notified ==
  /\ notified
  /\ Detach("waiting", "listening")
  /\ UNCHANGED <<accepting, active, callVars, open, closerVars, scan, attempt,
                 notified>>

(* OwnerState::detach reads every kind once more under the state lock.     *)
DetachOwner ==
  /\ \A r \in Runtimes : ~WriterWaits(r)
  /\ Detach("finishing", "detached")
  /\ UNCHANGED <<accepting, active, callVars, open, closerVars, scan, attempt,
                 notified>>

CancelDetach ==
  /\ Detach("joining", "attached") \/ Detach("waiting", "attached")
  /\ UNCHANGED <<accepting, active, callVars, open, closerVars, scan, attempt,
                 notified>>

DetachStep ==
  \/ LockState \/ (\E r \in Runtimes : ReadKind(r))
  \/ Snapshot \/ WakeActivities \/ StartCloser
  \/ Joined \/ DropCleanup
  \/ Listen \/ CheckIdle \/ Notified \/ DetachOwner

-----------------------------------------------------------------------------
Next ==
  \/ \E b \in BlockOns : BeginCall(b) \/ WakeCall(b) \/ CallStep(b)
  \/ \E r \in Runtimes : CloseRuntime(r)
  \/ \E n \in Attempts : CloserStep(n)
  \/ DetachCall
  \/ DetachStep
  \/ CancelDetach

Spec == Init /\ [][Next]_vars

(* Threads that can go on do; nobody is obliged to call, wake or cancel.   *)
FairSpec ==
  /\ Spec
  /\ \A b \in BlockOns : WF_vars(CallStep(b))
  /\ \A n \in Attempts : WF_vars(CloserStep(n))
  /\ WF_vars(DetachStep)

-----------------------------------------------------------------------------
(* Properties *)

(* A circle of threads that wait for each other: shutdown_owner holds the  *)
(* state lock and wants kind.read(), closer n is ahead of it and waits for *)
(* the readers to leave, and one of these wants the state lock.            *)
Circle(r, n) ==
  /\ r \in scan /\ r \in at[n]
  /\ \E b \in Readers(r) : call[b] \in {"begun", "leaving"}

Deadlocked == \E r \in Runtimes, n \in Attempts : Circle(r, n)

(* Such a circle closes only in a detach that is called again, behind the  *)
(* closer that a cancelled one left at work: never behind the detach's own *)
(* closer, and never before the stop, when the plugin closes its runtimes. *)
OnlyRetryDeadlocks ==
  \A r \in Runtimes, n \in Attempts :
    Circle(r, n) => n < attempt /\ closer[n] = "running" /\ ~accepting

(* A runtime is never taken from under a block_on that uses it.            *)
BlockOnKeepsRuntime ==
  \A b \in BlockOns : b \in Readers(On[b]) => On[b] \in open

(* README.md: detachment stops the plugin's Tokio work and waits for the   *)
(* active calls to finish.  A detach returns, or is cancelled; the circle  *)
(* above is the only way for it to hang.                                   *)
DetachReturns ==
  detach \notin {"attached", "detached"} ~> detach \in {"attached", "detached"} \/ Deadlocked

(* What does not hold because of the circle: every detach returns.         *)
EveryDetachReturns ==
  detach \notin {"attached", "detached"} ~> detach \in {"attached", "detached"}
===============================================================================
