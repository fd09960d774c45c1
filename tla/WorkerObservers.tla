---------------------------- MODULE WorkerObservers ----------------------------
(***************************************************************************)
(* observe_workers of the bridge and WorkerObservers of the host's           *)
(* multi-thread scheduler: the plugin asks to be called once on every worker *)
(* thread, now or when the worker starts, so that it can tell which thread   *)
(* is which worker.  A worker calls observers it has cloned out of the lock. *)
(***************************************************************************)
EXTENDS OwnerGate, Naturals, FiniteSets

CONSTANTS
  Workers,      \* the workers of the host's runtime
  Observers,    \* the handles of the plugin that observe them
  Outside       \* no worker: the registering thread is none of theirs

ASSUME ObserverAssumption == Outside \notin Workers

VARIABLES
  phase,        \* where each worker's loop stands
  token,        \* its parker has a permit
  thread,       \* which thread runs it: the first, or the second after block_in_place
  flag,         \* WorkerObservers::pending
  queue,        \* State::pending
  observers,    \* State::observers
  held,         \* the clones a worker took out of the lock
  current,      \*   and the one it is at
  add,          \* where observe_workers stands for each observer
  from,         \*   on which worker's thread it was called
  installed,    \* HandleContext::worker_observer
  recorded,     \* which thread of a worker each observer was called on; 0 is none
  released      \* the observers whose last Arc is dropped: the plugin's release has run

loopVars  == <<phase, token, thread>>
stateVars == <<flag, queue, observers>>
addVars   == <<add, from, installed>>
workerVars == <<loopVars, stateVars, held, current, addVars, recorded, released>>

Phases == {"new", "run", "parked", "tick", "take", "observe", "plugin", "drop", "release"}

WorkersTypeOK ==
  /\ phase \in [Workers -> Phases]
  /\ token \in [Workers -> BOOLEAN] /\ thread \in [Workers -> {1, 2}]
  /\ flag \in [Workers -> BOOLEAN] /\ queue \in [Workers -> SUBSET observers]
  /\ observers \subseteq Observers /\ held \in [Workers -> SUBSET Observers]
  /\ current \in [Workers -> Observers \cup {Outside}]
  /\ \A w \in Workers : phase[w] \in {"plugin", "drop"} => current[w] \in held[w]
  /\ \A w \in Workers : phase[w] = "release" => current[w] \in Observers
  /\ \A w \in Workers : phase[w] \notin {"plugin", "drop", "release"} => current[w] = Outside
  /\ add \in [Observers -> {"out", "add", "call", "plugin", "unpark", "install", "done"}]
  /\ from \in [Observers -> {Outside} \cup (Workers \X {1, 2})]
  /\ installed \subseteq Observers /\ released \subseteq Observers
  /\ recorded \in [Observers -> [Workers -> 0..2]]

WorkersInit ==
  /\ phase = [w \in Workers |-> "new"]
  /\ token = [w \in Workers |-> FALSE] /\ thread = [w \in Workers |-> 1]
  /\ flag = [w \in Workers |-> FALSE] /\ queue = [w \in Workers |-> {}]
  /\ observers = {} /\ held = [w \in Workers |-> {}] /\ current = [w \in Workers |-> Outside]
  /\ add = [o \in Observers |-> "out"] /\ from = [o \in Observers |-> Outside]
  /\ installed = {} /\ released = {}
  /\ recorded = [o \in Observers |-> [w \in Workers |-> 0]]

-----------------------------------------------------------------------------
(* The worker's loop *)

Turn(w, a, b) == phase[w] = a /\ phase' = [phase EXCEPT ![w] = b]

(* enter_worker, start: a thread that becomes the worker calls them all.   *)
StartWorker(w) ==
  /\ Turn(w, "new", "observe")
  /\ queue' = [queue EXCEPT ![w] = {}]
  /\ flag' = [flag EXCEPT ![w] = FALSE]
  /\ held' = [held EXCEPT ![w] = observers]
  /\ UNCHANGED <<gateVars, token, thread, observers, current, addVars, recorded, released>>

(* The thread is inside observe_workers.                                   *)
Observing(w, n) ==
  \E o \in Observers : add[o] \notin {"out", "done"} /\ from[o] = <<w, n>>

(* The worker runs a task, parks, or comes around to its tick.             *)
Park(w) ==
  /\ ~Observing(w, thread[w])
  /\ Turn(w, "run", IF token[w] THEN "tick" ELSE "parked")
  /\ token' = [token EXCEPT ![w] = FALSE]
  /\ UNCHANGED <<gateVars, thread, stateVars, held, current, addVars, recorded, released>>

Unparked(w) ==
  /\ token[w]
  /\ Turn(w, "parked", "tick")
  /\ token' = [token EXCEPT ![w] = FALSE]
  /\ UNCHANGED <<gateVars, thread, stateVars, held, current, addVars, recorded, released>>

ComeAround(w) ==
  /\ ~Observing(w, thread[w])
  /\ Turn(w, "run", "tick")
  /\ UNCHANGED <<gateVars, token, thread, stateVars, held, current, addVars, recorded, released>>

(* block_in_place: the worker goes on on another thread.                   *)
HandOff(w) ==
  /\ ~Observing(w, thread[w])
  /\ thread[w] = 1 /\ thread' = [thread EXCEPT ![w] = 2]
  /\ Turn(w, "run", "new")
  /\ UNCHANGED <<gateVars, token, stateVars, held, current, addVars, recorded, released>>

-----------------------------------------------------------------------------
(* WorkerObservers::tick *)

SwapFlag(w) ==
  /\ Turn(w, "tick", IF flag[w] THEN "take" ELSE "run")
  /\ flag' = [flag EXCEPT ![w] = FALSE]
  /\ UNCHANGED <<gateVars, token, thread, queue, observers, held, current, addVars, recorded,
                 released>>

TakePending(w) ==
  /\ Turn(w, "take", "observe")
  /\ held' = [held EXCEPT ![w] = queue[w] \cap observers]
  /\ queue' = [queue EXCEPT ![w] = {}]
  /\ UNCHANGED <<gateVars, token, thread, flag, observers, current, addVars, recorded, released>>

(* Mistake: the worker calls the observer without an activity.             *)
ObserveUncounted(w, o) ==
  /\ o \in held[w] /\ accepting
  /\ Turn(w, "observe", "plugin")
  /\ current' = [current EXCEPT ![w] = o]
  /\ UNCHANGED <<gateVars, token, thread, stateVars, held, addVars, recorded, released>>

(* The closure of observe_workers, by value: a callback if the owner admits *)
(* it, and then the clone is dropped.                                      *)
Observe(w, o) ==
  /\ o \in held[w]
  /\ current' = [current EXCEPT ![w] = o]
  /\ \/ Admit(<<w, o>>) /\ Turn(w, "observe", "plugin")
     \/ Refuse /\ Turn(w, "observe", "drop")
  /\ UNCHANGED <<token, thread, stateVars, held, addVars, recorded, released>>

Recorded(w) ==
  /\ Turn(w, "plugin", "drop")
  /\ Dismiss(<<w, current[w]>>)
  /\ recorded' = [recorded EXCEPT ![current[w]][w] = thread[w]]
  /\ UNCHANGED <<token, thread, stateVars, held, current, addVars, released>>

(* Nobody but holder has an Arc of the observer.                           *)
LastArc(o, holder) ==
  /\ o \notin observers
  /\ \A w \in Workers \ {holder} : o \notin held[w]

DropClone(w) ==
  /\ Turn(w, "drop", IF LastArc(current[w], w) THEN "release" ELSE "observe")
  /\ held' = [held EXCEPT ![w] = @ \ {current[w]}]
  /\ current' = [current EXCEPT ![w] = IF LastArc(@, w) THEN @ ELSE Outside]
  /\ UNCHANGED <<gateVars, token, thread, stateVars, addVars, recorded, released>>

(* The last Arc is gone: the plugin's release function runs.               *)
ReleaseCallback(w) ==
  /\ Turn(w, "release", "observe")
  /\ released' = released \cup {current[w]}
  /\ current' = [current EXCEPT ![w] = Outside]
  /\ UNCHANGED <<gateVars, token, thread, stateVars, held, addVars, recorded>>

Observed(w) ==
  /\ held[w] = {}
  /\ Turn(w, "observe", "run")
  /\ UNCHANGED <<gateVars, token, thread, stateVars, held, current, addVars, recorded, released>>

-----------------------------------------------------------------------------
(* observe_workers *)

Adds(o, a, b) == add[o] = a /\ add' = [add EXCEPT ![o] = b]

(* An activity, then telekio_add_worker_observer looks where it is: on a    *)
(* worker that runs the plugin, on one that it left by block_in_place, or   *)
(* on neither.                                                             *)
BeginObserve(o) ==
  /\ Adds(o, "out", "add")
  /\ Admit(o)
  /\ \/ from' = from
     \/ \E w \in Workers, n \in 1..2 :
          /\ n < thread[w] \/ (n = thread[w] /\ phase[w] = "run")
          /\ ~Observing(w, n)
          /\ from' = [from EXCEPT ![o] = <<w, n>>]
  /\ UNCHANGED <<loopVars, stateVars, held, current, installed, recorded, released>>

Here(o) == IF from[o] = Outside THEN {} ELSE {from[o][1]}

(* WorkerObservers::add, under the lock.                                   *)
AddObserver(o) ==
  /\ Adds(o, "add", IF Here(o) = {} THEN "unpark" ELSE "call")
  /\ observers' = observers \cup {o}
  /\ queue' = [w \in Workers |-> IF w \in Here(o) THEN queue[w] ELSE queue[w] \cup {o}]
  /\ flag' = [w \in Workers |-> flag[w] \/ w \notin Here(o)]
  /\ UNCHANGED <<gateVars, loopVars, held, current, from, installed, recorded, released>>

(* The registering thread is a worker's: it calls the observer itself.     *)
CallHere(o) ==
  /\ \/ Admit(<<Outside, o>>) /\ Adds(o, "call", "plugin")
     \/ Refuse /\ Adds(o, "call", "unpark")
  /\ UNCHANGED <<loopVars, stateVars, held, current, from, installed, recorded, released>>

RecordHere(o) ==
  /\ Adds(o, "plugin", "unpark")
  /\ Dismiss(<<Outside, o>>)
  /\ recorded' = [recorded EXCEPT ![o][from[o][1]] = from[o][2]]
  /\ UNCHANGED <<loopVars, stateVars, held, current, from, installed, released>>

(* Mistake: the parked workers sleep on.                                   *)
UnparkNobody(o) ==
  /\ Adds(o, "unpark", "install")
  /\ UNCHANGED <<gateVars, loopVars, stateVars, held, current, from, installed, recorded,
                 released>>

UnparkWorkers(o) ==
  /\ Adds(o, "unpark", "install")
  /\ token' = [w \in Workers |-> token[w] \/ w \notin Here(o)]
  /\ UNCHANGED <<gateVars, phase, thread, stateVars, held, current, from, installed, recorded,
                 released>>

InstallObserver(o) ==
  /\ Adds(o, "install", "done")
  /\ installed' = installed \cup {o}
  /\ from' = [from EXCEPT ![o] = Outside]
  /\ Dismiss(o)
  /\ UNCHANGED <<loopVars, stateVars, held, current, recorded, released>>

(* Mistake: the workers' queues keep the id.                               *)
RemoveFromMap(o) ==
  /\ o \in installed /\ installed' = installed \ {o}
  /\ observers' = observers \ {o}
  /\ released' = IF \E w \in Workers : o \in held[w] THEN released ELSE released \cup {o}
  /\ UNCHANGED <<gateVars, loopVars, flag, queue, held, current, add, from, recorded>>

(* WorkerObserver::drop, when the plugin releases the handle or a detach   *)
(* clears the handles: WorkerObservers::remove.                            *)
RemoveObserver(o) ==
  /\ o \in installed /\ installed' = installed \ {o}
  /\ observers' = observers \ {o}
  /\ queue' = [w \in Workers |-> queue[w] \ {o}]
  /\ released' = IF \E w \in Workers : o \in held[w] THEN released ELSE released \cup {o}
  /\ UNCHANGED <<gateVars, loopVars, flag, held, current, add, from, recorded>>

ReleaseHandle(o) == detach # "detached" /\ RemoveObserver(o)

WorkerStep(w) ==
  \/ StartWorker(w) \/ Park(w) \/ Unparked(w) \/ ComeAround(w)
  \/ SwapFlag(w) \/ TakePending(w)
  \/ \E o \in Observers : Observe(w, o)
  \/ Recorded(w) \/ DropClone(w) \/ ReleaseCallback(w) \/ Observed(w)

AddStep(o) ==
  \/ AddObserver(o) \/ CallHere(o) \/ RecordHere(o) \/ UnparkWorkers(o) \/ InstallObserver(o)

ObserverStep ==
  \/ \E w \in Workers : WorkerStep(w) \/ HandOff(w)
  \/ \E o \in Observers : BeginObserve(o) \/ AddStep(o) \/ ReleaseHandle(o)
===============================================================================
