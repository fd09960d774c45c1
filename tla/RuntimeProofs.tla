----------------------------- MODULE RuntimeProofs -----------------------------
(***************************************************************************)
(* Runtimes that a plugin has the host build: the locks of                  *)
(* Attachment::detach (RuntimeShutdown), for any number of runtimes, calls    *)
(* and cancelled detaches, and the options of a Builder (RuntimeBuilder), for *)
(* any requests and any features of the host.                               *)
(***************************************************************************)
EXTENDS RuntimeShutdown, RuntimeBuilder, TLAPS

(* ------------------------- the locks of detach -------------------------- *)

Reading == {"begun", "guest", "parked", "leaving", "removed", "unlocking"}

(* A detach starts its closer as the last thing it does before it waits.    *)
Working == {"begun", "looking", "waking", "woken", "listing", "releasing"}

(* A call is counted from its admission to the drop of its activity, and has *)
(* stored a waker only in between.                                         *)
Admitted ==
  \A b \in BlockOns :
    /\ call[b] \in {"admitted", "begun", "guest", "parked", "leaving", "refused"} => b \in active
    /\ b \in armed => call[b] \in {"begun", "guest", "parked", "leaving"}

(* Who has kind.read() keeps the runtime from being taken.                  *)
Kept == \A b \in BlockOns : call[b] \in Reading => On[b] \in open

(* Every attempt has at most one closer, which waits for one runtime at a    *)
(* time, and starts it with no lock held.                                   *)
OneCloser ==
  /\ detach # "attached" => attempt \in Attempts
  /\ \A n \in Attempts : closer[n] # "none" =>
       n <= attempt /\ (n = attempt => detach \notin Working)
  /\ \A n \in Attempts : at[n] # {} => closer[n] = "running"
  /\ \A n \in Attempts : \A r, s \in at[n] : r = s
  /\ scan # {} => ~StateFree

(* What follows the snapshot, closers included, finds the owner stopped.    *)
Stopped ==
  /\ detach \notin {"attached", "begun", "looking"} => ~accepting
  /\ \A n \in Attempts : closer[n] # "none" => ~accepting

LInv == TypeOK /\ Admitted /\ Kept /\ OneCloser /\ Stopped

(* The writer that a detach waits for while it holds the state lock is the  *)
(* closer of an earlier detach, cancelled while it joined that closer.      *)
WriterIsCancelled ==
  \A r \in scan, n \in Attempts : r \in at[n] => n < attempt /\ closer[n] = "running"

-----------------------------------------------------------------------------
LEMMA ShutdownInit == Init => LInv
<1> SUFFICES ASSUME Init PROVE LInv
  OBVIOUS
<1>1. TypeOK
  <2>1. attempt \in 0 .. MaxAttempts
    BY ShutdownAssumption DEF Init
  <2>2. /\ accepting \in BOOLEAN /\ active \subseteq BlockOns \cup Attempts
        /\ armed \subseteq active \cap BlockOns /\ open \subseteq Runtimes /\ woken \subseteq BlockOns
        /\ scan \subseteq Runtimes /\ notified \in BOOLEAN
    BY DEF Init
  <2>3. /\ closer \in [Attempts -> {"none", "running", "removed", "done"}]
        /\ todo \in [Attempts -> SUBSET Runtimes] /\ at \in [Attempts -> SUBSET Runtimes]
    BY DEF Init
  <2> QED BY <2>1, <2>2, <2>3 DEF Init, TypeOK
<1>2. Admitted /\ Kept
  BY DEF Init, Admitted, Kept, Reading
<1>3. OneCloser /\ Stopped
  BY DEF Init, OneCloser, Stopped
<1> QED BY <1>1, <1>2, <1>3 DEF LInv

(* A step of a call keeps what the detach relies on.                        *)
LEMMA CallSteps ==
  ASSUME LInv, NEW b \in BlockOns, BeginCall(b) \/ WakeCall(b) \/ CallStep(b)
  PROVE  LInv'
<1>1. /\ TypeOK /\ Admitted /\ Kept /\ OneCloser /\ Stopped
      /\ UNCHANGED <<accepting, open, closerVars, detach, scan, attempt>>
      /\ b \notin Attempts
  BY ShutdownAssumption DEF LInv, BeginCall, WakeCall, CallStep, EnterRuntime, PollFuture, PollReturns,
    Unpark, DropActivity, NotifyAndUnlock, RefusedReturns
<1>2. OneCloser' /\ Stopped'
  BY <1>1 DEF OneCloser, Stopped, closerVars, StateFree
<1>3. call \in [BlockOns -> {"out", "admitted", "begun", "guest", "parked",
                             "leaving", "removed", "unlocking", "refused"}]
      /\ active \subseteq BlockOns \cup Attempts /\ armed \subseteq active \cap BlockOns
      /\ woken \subseteq BlockOns /\ notified \in BOOLEAN
  BY <1>1 DEF TypeOK
<1>4. ASSUME call' \in [BlockOns -> {"out", "admitted", "begun", "guest", "parked",
                                     "leaving", "removed", "unlocking", "refused"}],
             active' \subseteq BlockOns \cup Attempts, armed' \subseteq active' \cap BlockOns,
             woken' \subseteq BlockOns, notified' \in BOOLEAN, Admitted', Kept'
      PROVE  LInv'
  <2>1. TypeOK'
    BY <1>1, <1>4 DEF TypeOK, closerVars
  <2> QED BY <1>2, <1>4, <2>1 DEF LInv
<1>5. CASE BeginCall(b)
  BY <1>1, <1>3, <1>4, <1>5 DEF BeginCall, Move, Admitted, Kept, Reading
<1>6. CASE WakeCall(b)
  BY <1>1, <1>3, <1>4, <1>6 DEF WakeCall, Admitted, Kept
<1>7. CASE EnterRuntime(b)
  BY <1>1, <1>3, <1>4, <1>7 DEF EnterRuntime, Move, Admitted, Kept, Reading
<1>8. CASE PollFuture(b)
  BY <1>1, <1>3, <1>4, <1>8 DEF PollFuture, Move, Admitted, Kept, Reading
<1>9. CASE PollReturns(b)
  BY <1>1, <1>3, <1>4, <1>9 DEF PollReturns, Move, Admitted, Kept, Reading
<1>10. CASE Unpark(b)
  BY <1>1, <1>3, <1>4, <1>10 DEF Unpark, Move, Admitted, Kept, Reading
<1>11. CASE DropActivity(b)
  BY <1>1, <1>3, <1>4, <1>11 DEF DropActivity, Move, Admitted, Kept, Reading
<1>12. CASE NotifyAndUnlock(b)
  BY <1>1, <1>3, <1>4, <1>12 DEF NotifyAndUnlock, Move, Admitted, Kept, Reading
<1>13. CASE RefusedReturns(b)
  BY <1>1, <1>3, <1>4, <1>13 DEF RefusedReturns, Move, Admitted, Kept, Reading
<1> QED BY <1>5, <1>6, <1>7, <1>8, <1>9, <1>10, <1>11, <1>12, <1>13 DEF CallStep

(* The closers, and the plugin's own drop of a runtime.                     *)
LEMMA CloserSteps ==
  ASSUME LInv, (\E r \in Runtimes : CloseRuntime(r)) \/ (\E n \in Attempts : CloserStep(n))
  PROVE  LInv'
<1>1. TypeOK /\ Admitted /\ Kept /\ OneCloser /\ Stopped /\ BlockOns \cap Attempts = {}
  BY ShutdownAssumption DEF LInv
<1>2. UNCHANGED <<callVars, detach, scan, attempt, accepting>>
  BY DEF CloseRuntime, CloserStep, AskWrite, TakeRuntime, EndCloser, EndCloserNotify, closerVars
<1>3. CASE \E r \in Runtimes : CloseRuntime(r)
  <2>1. TypeOK' /\ Admitted' /\ OneCloser' /\ Stopped'
    BY <1>1, <1>2, <1>3 DEF CloseRuntime, TypeOK, Admitted, OneCloser, Stopped, callVars, closerVars, StateFree
  <2>2. Kept'
    BY <1>1, <1>2, <1>3 DEF CloseRuntime, Kept, Reading, callVars
  <2> QED BY <2>1, <2>2 DEF LInv
<1>4. ASSUME NEW n \in Attempts, AskWrite(n) \/ TakeRuntime(n) PROVE LInv'
  <2>1. TypeOK' /\ Admitted' /\ OneCloser' /\ Stopped'
    BY <1>1, <1>2, <1>4 DEF AskWrite, TakeRuntime, TypeOK, Admitted, OneCloser, Stopped, callVars, StateFree
  <2>2. Kept'
    BY <1>1, <1>2, <1>4 DEF AskWrite, TakeRuntime, Kept, Reading, Readers, callVars
  <2> QED BY <2>1, <2>2 DEF LInv
<1>5. ASSUME NEW n \in Attempts, EndCloser(n) \/ EndCloserNotify(n) PROVE LInv'
  <2>1. TypeOK'
    BY <1>1, <1>2, <1>5 DEF EndCloser, EndCloserNotify, TypeOK, callVars
  <2>2. Admitted' /\ Kept' /\ OneCloser' /\ Stopped'
    BY <1>1, <1>2, <1>5 DEF EndCloser, EndCloserNotify, TypeOK, Admitted, Kept, OneCloser, Stopped, callVars,
      StateFree
  <2> QED BY <2>1, <2>2 DEF LInv
<1> QED BY <1>3, <1>4, <1>5 DEF CloserStep

(* Attachment::detach.                                                     *)
LEMMA DetachSteps ==
  ASSUME LInv, DetachCall \/ DetachStep \/ CancelDetach
  PROVE  LInv'
<1>1. TypeOK /\ Admitted /\ Kept /\ OneCloser /\ Stopped /\ BlockOns \cap Attempts = {} /\ MaxAttempts \in Nat
  BY ShutdownAssumption DEF LInv
<1>2. UNCHANGED <<armed, call, open, at>>
  BY DEF DetachCall, DetachStep, CancelDetach, LockState, ReadKind, Snapshot, WakeActivities, StartCloser,
    Joined, DropCleanup, Listen, CheckIdle, Notified, DetachOwner, callVars, closerVars
<1>3. Kept'
  BY <1>1, <1>2 DEF Kept
<1>4. CASE DetachCall
  <2>1. attempt + 1 \in Attempts /\ attempt' = attempt + 1 /\ detach' = "begun"
    BY <1>1, <1>4 DEF DetachCall, Detach, TypeOK, Attempts
  <2>2. TypeOK'
    BY <1>1, <1>2, <1>4, <2>1 DEF DetachCall, Detach, TypeOK, callVars, closerVars, Attempts
  <2>3. Admitted'
    BY <1>1, <1>2, <1>4 DEF DetachCall, Admitted
  <2>4. OneCloser' /\ Stopped'
    BY <1>1, <1>2, <1>4, <2>1 DEF DetachCall, Detach, TypeOK, OneCloser, closerVars, Attempts,
      StateFree, Working, Stopped
  <2> QED BY <1>3, <2>2, <2>3, <2>4 DEF LInv
<1>5. CASE LockState \/ (\E r \in Runtimes : ReadKind(r)) \/ Snapshot
  <2>1. TypeOK'
    <3>1. CASE LockState \/ Snapshot
      BY <1>1, <1>2, <3>1 DEF LockState, Snapshot, Detach, TypeOK, callVars, closerVars
    <3>2. ASSUME NEW r \in Runtimes, ReadKind(r) PROVE TypeOK'
      <4>1. todo' \in [Attempts -> SUBSET Runtimes]
        BY <1>1, <3>2 DEF ReadKind, TypeOK
      <4> QED BY <1>1, <1>2, <3>2, <4>1 DEF ReadKind, TypeOK, callVars
    <3> QED BY <1>5, <3>1, <3>2
  <2>2. Admitted' /\ OneCloser' /\ Stopped'
    BY <1>1, <1>2, <1>5 DEF LockState, ReadKind, Snapshot, Detach, Admitted, OneCloser, closerVars,
      StateFree, Working, Stopped
  <2> QED BY <1>3, <2>1, <2>2 DEF LInv
<1>6. CASE WakeActivities
  <2>1. TypeOK'
    BY <1>1, <1>2, <1>6 DEF WakeActivities, Detach, TypeOK, closerVars
  <2>2. Admitted' /\ OneCloser' /\ Stopped'
    BY <1>1, <1>2, <1>6 DEF WakeActivities, Detach, Admitted, OneCloser, closerVars, StateFree, Working, Stopped
  <2> QED BY <1>3, <2>1, <2>2 DEF LInv
<1>7. CASE StartCloser
  <2>1. TypeOK' /\ Admitted'
    BY <1>1, <1>2, <1>7 DEF StartCloser, Detach, TypeOK, Admitted, callVars
  <2>2. OneCloser' /\ Stopped'
    BY <1>1, <1>2, <1>7 DEF StartCloser, Detach, TypeOK, OneCloser, StateFree, Working, Stopped, Attempts
  <2> QED BY <1>3, <2>1, <2>2 DEF LInv
<1>8. CASE Joined \/ DropCleanup \/ Listen \/ CheckIdle \/ Notified \/ DetachOwner \/ CancelDetach
  <2>1. /\ UNCHANGED <<accepting, callVars, closerVars, scan, attempt>> /\ notified' \in BOOLEAN
        /\ active' = active \/ (active' = active \ {attempt} /\ detach = "releasing")
    BY <1>1, <1>8 DEF Joined, DropCleanup, Listen, CheckIdle, Notified, DetachOwner, CancelDetach, TypeOK,
      Detach
  <2>2. /\ detach' \in {"attached", "listening", "checking", "waiting", "finishing", "detached"}
        /\ detach \in {"joining", "releasing", "listening", "checking", "waiting", "finishing"}
    BY <1>8 DEF Joined, DropCleanup, Listen, CheckIdle, Notified, DetachOwner, CancelDetach, Detach
  <2>3. attempt \in Attempts
    BY <1>1, <2>2 DEF OneCloser
  <2>4. Admitted' /\ OneCloser' /\ Stopped'
    BY <1>1, <1>2, <2>1, <2>2, <2>3 DEF Admitted, OneCloser, closerVars, StateFree, Working, Stopped
  <2>5. TypeOK'
    BY <1>1, <1>2, <2>1, <2>2, <2>3 DEF TypeOK, callVars, closerVars
  <2> QED BY <1>3, <2>4, <2>5 DEF LInv
<1> QED BY <1>4, <1>5, <1>6, <1>7, <1>8 DEF DetachStep

LEMMA ShutdownNext == LInv /\ [Next]_vars => LInv'
<1> SUFFICES ASSUME LInv, [Next]_vars PROVE LInv'
  OBVIOUS
<1>1. CASE UNCHANGED vars
  BY <1>1 DEF vars, callVars, closerVars, LInv, TypeOK, Admitted, Kept, OneCloser, Stopped, StateFree
<1> QED BY <1>1, CallSteps, CloserSteps, DetachSteps DEF Next

(* The inductive invariant of the two kinds of locks.                       *)
THEOREM ShutdownInvariant == Spec => []LInv
<1> QED BY ShutdownInit, ShutdownNext, PTL DEF Spec

(* A runtime is never taken from under a block_on that has read its kind,   *)
(* whichever of the closers, of any number of detaches, comes first.        *)
THEOREM RuntimeIsKept == Spec => []BlockOnKeepsRuntime
<1>1. LInv => BlockOnKeepsRuntime
  BY DEF LInv, Kept, BlockOnKeepsRuntime, Readers, Reading
<1> QED BY <1>1, ShutdownInvariant, PTL

(* shutdown_owner, which reads every kind under the state lock, never waits *)
(* there for the writer it has started itself, only for the one of a detach *)
(* that was cancelled before: any circle of the locks goes through that.    *)
THEOREM OnlyCancelledBlock == Spec => []WriterIsCancelled
<1>1. LInv => WriterIsCancelled
  <2> SUFFICES ASSUME LInv, NEW r \in scan, NEW n \in Attempts, r \in at[n]
               PROVE  n < attempt /\ closer[n] = "running"
    BY DEF WriterIsCancelled
  <2>1. detach \in Working /\ closer[n] = "running" /\ n <= attempt /\ n # attempt
    BY DEF LInv, OneCloser, StateFree, Working
  <2> QED BY <2>1 DEF LInv, TypeOK, Attempts
<1> QED BY <1>1, ShutdownInvariant, PTL

(* The type invariant, in which the stored wakers are those of admitted      *)
(* calls: an activity takes its waker with it.                             *)
THEOREM ShutdownTypeOK == Spec => []TypeOK
<1>1. LInv => TypeOK
  BY DEF LInv
<1> QED BY <1>1, ShutdownInvariant, PTL

(* Threads wait for each other in a circle only in a detach that is called  *)
(* again, behind a closer that a cancelled one left at work after the stop:  *)
(* for any number of runtimes, block_ons and attempts.                      *)
THEOREM CircleNeedsRetry == Spec => []OnlyRetryDeadlocks
<1>1. LInv => OnlyRetryDeadlocks
  <2> SUFFICES ASSUME LInv, NEW r \in Runtimes, NEW n \in Attempts, Circle(r, n)
               PROVE  n < attempt /\ closer[n] = "running" /\ ~accepting
    BY DEF OnlyRetryDeadlocks
  <2>1. detach \in Working /\ closer[n] = "running" /\ n <= attempt /\ n # attempt
    BY DEF LInv, OneCloser, StateFree, Working, Circle
  <2> QED BY <2>1 DEF LInv, TypeOK, Attempts, Stopped
<1> QED BY <1>1, ShutdownInvariant, PTL

(* Such a circle is final: no step of anyone opens it.                      *)
THEOREM DeadlockIsFinal == Spec => [][Deadlocked => Deadlocked']_vars
<1>1. ASSUME LInv, [Next]_vars, NEW r \in Runtimes, NEW n \in Attempts, Circle(r, n)
      PROVE  Circle(r, n)'
  <2>1. PICK b \in BlockOns : On[b] = r /\ call[b] \in {"begun", "leaving"}
    BY <1>1 DEF Circle, Readers
  <2>2. /\ TypeOK /\ ~StateFree /\ WriterWaits(r) /\ r \in scan /\ at[n] = {r}
        /\ detach \in {"looking", "listing"} /\ Readers(r) # {}
    BY <1>1, <2>1 DEF LInv, OneCloser, StateFree, Circle, WriterWaits, Readers
  <2>3. CASE UNCHANGED vars
    BY <1>1, <2>3 DEF vars, callVars, closerVars, Circle, Readers
  <2>4. ASSUME NEW d \in BlockOns, BeginCall(d) \/ WakeCall(d) \/ CallStep(d)
        PROVE  call'[b] = call[b] /\ UNCHANGED <<scan, at>>
    BY <2>1, <2>2, <2>4 DEF TypeOK, BeginCall, WakeCall, CallStep, EnterRuntime, PollFuture, PollReturns,
      Unpark, DropActivity, NotifyAndUnlock, RefusedReturns, Move, closerVars
  <2>5. ASSUME (\E s \in Runtimes : CloseRuntime(s)) \/ (\E m \in Attempts : CloserStep(m))
        PROVE  at'[n] = at[n] /\ UNCHANGED <<scan, call>>
    BY <2>2, <2>5 DEF TypeOK, CloseRuntime, CloserStep, AskWrite, TakeRuntime, EndCloser, EndCloserNotify,
      callVars, closerVars
  <2>6. ASSUME DetachCall \/ DetachStep \/ CancelDetach
        PROVE  r \in scan' /\ UNCHANGED <<at, call>>
    BY <2>2, <2>6 DEF DetachCall, DetachStep, CancelDetach, LockState, ReadKind, Snapshot, WakeActivities,
      StartCloser, Joined, DropCleanup, Listen, CheckIdle, Notified, DetachOwner, Detach, callVars, closerVars
  <2>7. r \in scan' /\ r \in at'[n] /\ call'[b] = call[b]
    BY <1>1, <2>2, <2>3, <2>4, <2>5, <2>6 DEF Next, vars, callVars, closerVars
  <2> QED BY <2>1, <2>7 DEF Circle, Readers
<1>2. LInv /\ [Next]_vars => [Deadlocked => Deadlocked']_vars
  BY <1>1 DEF Deadlocked
<1> QED BY <1>2, ShutdownInvariant, PTL DEF Spec

(* ----------------------- the options of a Builder ------------------------ *)
(* What the host's runtime has is what the plugin has asked for.              *)
RightOption(o) ==
  CASE o \in Histograms -> host[o] = Shape(request[o])
    [] o = "task_hooks" -> request[o] \subseteq host[o] /\ (request[o] = {} => host[o] = {})
    [] OTHER -> host[o] = request[o]
RightHost == (\A o \in Options : Matters(o) => RightOption(o)) /\ host["flavor"] = request["flavor"]

(* Between the calls of a build the RuntimeConfig is the one of the Builder,   *)
(* the host's runtime has its options, and the Builder is as it was set up.     *)
BInv ==
  /\ request \in Requests /\ features \in Features /\ uring \in BOOLEAN
  /\ pc \in {"ready", "asked", "hosted", "built", "installed"}
  /\ builder = request
  /\ pc = "ready" => host = None /\ guest = None
  /\ pc = "asked" => config = Config /\ host = None /\ guest = None
  /\ pc = "hosted" => RightHost /\ host["rng"] = seed /\ guest = None
  /\ pc \in {"built", "installed"} =>
       RightHost /\ host["rng"] = guest.seed /\ (guest.io => uring)
  /\ pc # "installed" => connection = None
  /\ pc = "installed" => connection = [io |-> request["enable_io"], flavor |-> request["flavor"]]

(* A request's options, one by one. *)
LEMMA RequestIs ==
  ASSUME RuntimeBuilderAssumption, NEW r \in Requests
  PROVE  /\ r = [o \in Options |-> r[o]]
         /\ \A o \in Flags : r[o] \in BOOLEAN
         /\ \A o \in Optional : r[o] \in Nat \cup {None}
         /\ \A o \in Histograms : r[o] = None \/ IsHistogram(r[o])
         /\ r["task_hooks"] \subseteq TaskEvents /\ r["task_hooks"] # None
         /\ r["worker_threads"] # 0 /\ r["global_queue_interval"] # 0
         /\ r["alternative_timer"] => r["enable_time"]
         /\ None \notin Nat
BY DEF RuntimeBuilderAssumption

(* telekio_parts and telekio_from_parts: a histogram crosses as four numbers    *)
(* and is the one that was meant.                                             *)
LEMMA HistogramCrosses ==
  ASSUME NEW h, h = None \/ IsHistogram(h)
  PROVE  telekio_from_parts(histogram(h)) = Shape(h)
<1>1. CASE h = None
  BY <1>1 DEF histogram, Disabled, telekio_from_parts, Shape
<1>2. CASE h # None /\ h.legacy
  BY <1>2 DEF histogram, telekio_parts, telekio_from_parts, Shape, IsHistogram
<1>3. CASE h # None /\ ~h.legacy
  BY <1>3 DEF histogram, telekio_parts, telekio_from_parts, Shape, IsHistogram
<1>. QED  BY <1>1, <1>2, <1>3

(* Only what is not set is sent as disabled.                                  *)
LEMMA HistogramAsked ==
  ASSUME NEW h, h = None \/ IsHistogram(h), histogram(h)[1] = 0
  PROVE  h = None
BY DEF histogram, telekio_parts, IsHistogram

(* The options that travel as they are.                                       *)
Sorts == Flags \cup Numbers \cup {"flavor", "hooks"}

(* Every option travels in exactly one way.                                   *)
LEMMA OptionSorts ==
  /\ Options = Sorts \cup Optional \cup Histograms \cup {"task_hooks"}
  /\ Sorts \cap Optional = {} /\ Sorts \cap Histograms = {} /\ Optional \cap Histograms = {}
  /\ "task_hooks" \notin Sorts \cup Optional \cup Histograms
  /\ Flags \subseteq Sorts /\ Marked \subseteq Optional
  /\ "rng" \notin Options /\ "has_keep_alive" \notin Options /\ "has_thread_stack_size" \notin Options
BY DEF Options, Sorts, Flags, Optional, Numbers, Histograms, Marked

(* build_host: what the RuntimeConfig says of each option.                     *)
LEMMA ConfigIs ==
  /\ \A o \in Sorts : Config[o] = builder[o]
  /\ \A o \in Optional : Config[o] = OrDefault(builder[o])
  /\ \A o \in Histograms : Config[o] = histogram(builder[o])
  /\ Config["task_hooks"] = callback(builder["task_hooks"])
  /\ Config["rng"] = seed
  /\ Config["has_keep_alive"] <=> builder["keep_alive"] # None
  /\ Config["has_thread_stack_size"] <=> builder["thread_stack_size"] # None
<1> DEFINE D == Options \cup {"has_thread_stack_size", "has_keep_alive", "rng"}
<1>1. ASSUME NEW o \in Sorts PROVE Config[o] = builder[o]
  <2>1. o \in D /\ o \notin Optional /\ o \notin Histograms /\ o # "task_hooks"
    BY OptionSorts
  <2>2. o # "has_thread_stack_size" /\ o # "has_keep_alive" /\ o # "rng"
    BY OptionSorts
  <2>. QED  BY <2>1, <2>2 DEF Config
<1>2. ASSUME NEW o \in Optional PROVE Config[o] = OrDefault(builder[o])
  <2>1. o \in D /\ o \notin Histograms /\ o # "task_hooks"
    BY OptionSorts
  <2>2. o # "has_thread_stack_size" /\ o # "has_keep_alive" /\ o # "rng"
    BY OptionSorts
  <2>. QED  BY <2>1, <2>2 DEF Config
<1>3. ASSUME NEW o \in Histograms PROVE Config[o] = histogram(builder[o])
  <2>1. o \in D /\ o \notin Optional /\ o # "task_hooks"
    BY OptionSorts
  <2>2. o # "has_thread_stack_size" /\ o # "has_keep_alive" /\ o # "rng"
    BY OptionSorts
  <2>. QED  BY <2>1, <2>2 DEF Config
<1>4. Config["task_hooks"] = callback(builder["task_hooks"])
  <2>1. "task_hooks" \in D /\ "task_hooks" \notin Optional /\ "task_hooks" \notin Histograms
    BY OptionSorts
  <2>. QED  BY <2>1 DEF Config
<1>5. /\ Config["rng"] = seed
      /\ Config["has_keep_alive"] <=> builder["keep_alive"] # None
      /\ Config["has_thread_stack_size"] <=> builder["thread_stack_size"] # None
  <2>1. D \cap {"rng", "has_keep_alive", "has_thread_stack_size"} = {"rng", "has_keep_alive", "has_thread_stack_size"}
    OBVIOUS
  <2>2. {"rng", "has_keep_alive", "has_thread_stack_size"} \cap (Optional \cup Histograms \cup {"task_hooks"}) = {}
    BY DEF Optional, Histograms
  <2>. QED  BY <2>1, <2>2 DEF Config
<1>. QED  BY <1>1, <1>2, <1>3, <1>4, <1>5

(* build_runtime: an option whose features the host has is applied ...          *)
LEMMA AppliedIs ==
  ASSUME NEW o \in Options \cup {"rng"}, Needs(o) \subseteq features
  PROVE  Applied[o] = CASE o \in Optional -> Option(o)
                        [] o \in Histograms -> telekio_from_parts(config[o])
                        [] o = "enable_time" -> config[o] \/ config["alternative_timer"]
                        [] o = "task_hooks" -> IF config[o] = None THEN {} ELSE TaskEvents
                        [] OTHER -> config[o]
BY DEF Applied, New

(* ... and one whose features it lacks is what Builder::new made it.            *)
LEMMA NotAppliedIs ==
  ASSUME NEW o \in Options \cup {"rng"}, ~(Needs(o) \subseteq features)
  PROVE  Applied[o] = New[o]
BY DEF Applied, New

(* A runtime that the host does not refuse has every option that was asked    *)
(* for: what it cannot do it has not been asked.                              *)
LEMMA HostIsRight ==
  ASSUME RuntimeBuilderAssumption, request \in Requests, builder = request, config = Config,
         ~Unsupported, host' = Applied, request' = request
  PROVE  RightHost' /\ (host["rng"])' = seed
<1>1. /\ \A o \in Sorts : config[o] = request[o]
      /\ \A o \in Optional : config[o] = OrDefault(request[o])
      /\ \A o \in Histograms : config[o] = histogram(request[o])
      /\ config["task_hooks"] = callback(request["task_hooks"])
      /\ config["rng"] = seed
      /\ config["has_keep_alive"] <=> request["keep_alive"] # None
      /\ config["has_thread_stack_size"] <=> request["thread_stack_size"] # None
  BY ConfigIs
<1>2. \A o \in Flags : request[o] \in BOOLEAN
  BY RequestIs
  (* What the host's Tokio lacks is not asked for. *)
<1>3. ASSUME NEW o \in Sorts, ~(Needs(o) \subseteq features), Matters(o)
      PROVE  New[o] = request[o]
  <2>1. CASE o \in Flags
    <3>1. New[o] = FALSE
      <4>1. o \in Options /\ o \notin Optional \cup Histograms \cup {"rng", "hooks", "task_hooks"}
        BY <2>1 DEF Options, Flags, Optional, Histograms
      <4>. QED  BY <2>1, <4>1 DEF New
    <3>2. ~request[o]
      <4>1. Flags \subseteq Sorts
        BY OptionSorts
      <4>. QED  BY <1>1, <1>3, <2>1, <4>1 DEF Unsupported, Has, Needs, Flags
    <3>. QED  BY <1>2, <2>1, <3>1, <3>2
  <2>2. CASE o \notin Flags
    <3>1. o = "nevents" /\ "io" \notin features
      BY <1>3, <2>2 DEF Needs, Sorts, Numbers, Flags
    <3>2. "enable_io" \in Sorts /\ ~config["enable_io"]
      BY <3>1 DEF Unsupported, Has, Sorts, Flags
    <3>. QED  BY <1>1, <1>3, <3>1, <3>2 DEF Matters
  <2>. QED  BY <2>1, <2>2
<1>4. ASSUME NEW o \in Sorts, Matters(o) PROVE Applied[o] = request[o]
  <2>1. o \in Options \cup {"rng"} /\ o \notin Optional \cup Histograms \cup {"task_hooks"}
    BY OptionSorts
  <2>2. CASE ~(Needs(o) \subseteq features)
    BY <1>3, <1>4, <2>1, <2>2, NotAppliedIs
  <2>3. CASE Needs(o) \subseteq features /\ o = "enable_time"
    <3>1. Applied[o] = (config[o] \/ config["alternative_timer"])
      BY <2>1, <2>3, AppliedIs
    <3>2. "alternative_timer" \in Flags /\ "enable_time" \in Flags /\ Flags \subseteq Sorts
      BY OptionSorts DEF Flags
    <3>3. request["alternative_timer"] => request["enable_time"]
      BY RequestIs
    <3>. QED  BY <1>1, <1>2, <2>3, <3>1, <3>2, <3>3
  <2>4. CASE Needs(o) \subseteq features /\ o # "enable_time"
    <3>1. Applied[o] = config[o]
      BY <2>1, <2>4, AppliedIs
    <3>. QED  BY <1>1, <3>1
  <2>. QED  BY <2>2, <2>3, <2>4
<1>5. ASSUME NEW o \in Optional PROVE Applied[o] = request[o]
  <2>1. o \in Options \cup {"rng"} /\ Needs(o) = {}
    BY OptionSorts DEF Needs, Optional
  <2>2. Applied[o] = Option(o)
    <3>1. o \notin Histograms /\ o # "enable_time" /\ o # "task_hooks"
      BY DEF Optional, Histograms
    <3>. QED  BY <2>1, <3>1, AppliedIs
  <2>3. request[o] \in Nat \cup {None} /\ None \notin Nat /\ New[o] = None
    BY <2>1, OptionSorts, RequestIs DEF New, Optional, Flags
  <2>4. CASE o \in Marked
    <3>1. config[MarkOf(o)] <=> request[o] # None
      BY <1>1, <2>4 DEF MarkOf, Marked
    <3>. QED  BY <1>1, <2>2, <2>3, <2>4, <3>1 DEF Option, OrDefault
  <2>5. CASE o \notin Marked
    <3>1. request[o] # 0
      BY <2>5, RequestIs DEF Optional, Marked
    <3>. QED  BY <1>1, <2>2, <2>3, <2>5, <3>1 DEF Option, WhenNotZero, OrDefault
  <2>. QED  BY <2>4, <2>5
<1>6. ASSUME NEW o \in Histograms PROVE Applied[o] = Shape(request[o])
  <2>1. /\ o \in Options \cup {"rng"} /\ o \notin Optional /\ o \notin Flags
        /\ o # "enable_time" /\ o # "task_hooks" /\ o # "hooks"
    BY DEF Options, Histograms, Optional, Flags
  <2>2. request[o] = None \/ IsHistogram(request[o])
    BY RequestIs
  <2>3. CASE Needs(o) \subseteq features
    <3>1. Applied[o] = telekio_from_parts(config[o])
      BY <2>1, <2>3, AppliedIs
    <3>. QED  BY <1>1, <2>2, <3>1, HistogramCrosses
  <2>4. CASE ~(Needs(o) \subseteq features)
    <3>1. Applied[o] = None
      BY <2>1, <2>4, NotAppliedIs DEF New
    <3>2. config[o][1] = 0
      BY <2>4 DEF Unsupported, Has, Needs, Histograms
    <3>3. request[o] = None
      BY <1>1, <2>2, <3>2, HistogramAsked
    <3>. QED  BY <3>1, <3>3 DEF Shape
  <2>. QED  BY <2>3, <2>4
<1>7. LET o == "task_hooks"
      IN  request[o] \subseteq Applied[o] /\ (request[o] = {} => Applied[o] = {})
  <2> DEFINE o == "task_hooks"
  <2>1. o \in Options \cup {"rng"} /\ o \notin Optional /\ o \notin Histograms /\ o \notin Flags
    BY OptionSorts
  <2>2. request[o] \subseteq TaskEvents /\ request[o] # None
    BY RequestIs
  <2>3. config[o] = None <=> request[o] = {}
    BY <1>1, <2>2 DEF callback
  <2>4. CASE Needs(o) \subseteq features
    <3>1. Applied[o] = IF config[o] = None THEN {} ELSE TaskEvents
      BY <2>1, <2>4, AppliedIs
    <3>. QED  BY <2>2, <2>3, <3>1
  <2>5. CASE ~(Needs(o) \subseteq features)
    <3>1. Applied[o] = {}
      BY <2>1, <2>5, NotAppliedIs DEF New
    <3>2. config[o] = None
      BY <2>5 DEF Unsupported, Has, Needs
    <3>. QED  BY <2>3, <3>1, <3>2
  <2>. QED  BY <2>4, <2>5
<1>8. Applied["rng"] = seed
  <2>1. "rng" \notin Options /\ Needs("rng") = {}
    BY OptionSorts DEF Needs
  <2>2. Applied["rng"] = config["rng"]
    BY <2>1, AppliedIs, OptionSorts
  <2>. QED  BY <1>1, <2>2
<1>9. Applied["flavor"] = request["flavor"]
  <2>1. "flavor" \in Sorts /\ Matters("flavor")
    BY DEF Sorts, Matters
  <2>. QED  BY <1>4, <2>1
<1>10. ASSUME NEW o \in Options, Matters(o)'
       PROVE  RightOption(o)'
  <2>1. Matters(o)
    BY <1>10 DEF Matters
  <2>2. CASE o \in Sorts
    <3>1. o \notin Histograms /\ o # "task_hooks"
      BY <2>2, OptionSorts
    <3>. QED  BY <1>4, <2>1, <2>2, <3>1 DEF RightOption
  <2>3. CASE o \in Optional
    <3>1. o \notin Histograms /\ o # "task_hooks"
      BY <2>3, OptionSorts
    <3>. QED  BY <1>5, <2>3, <3>1 DEF RightOption
  <2>4. CASE o \in Histograms
    <3>1. Applied[o] = Shape(request[o]) /\ o # "task_hooks"
      BY <1>6, <2>4, OptionSorts
    <3>. QED  BY <2>4, <3>1 DEF RightOption, Shape
  <2>5. CASE o = "task_hooks"
    <3>1. o \notin Histograms
      BY <2>5, OptionSorts
    <3>. QED  BY <1>7, <2>5, <3>1 DEF RightOption
  <2>. QED  BY <2>2, <2>3, <2>4, <2>5, OptionSorts
<1>. QED  BY <1>8, <1>9, <1>10 DEF RightHost

(* A step that changes neither keeps them right.                               *)
LEMMA SameHost == ASSUME RightHost, host' = host, request' = request PROVE RightHost'
BY DEF RightHost, RightOption, Matters, Shape

(* BInv holds of a new Builder ...                                            *)
LEMMA BuilderInitInv == RuntimeBuilderAssumption /\ BuilderInit => BInv
BY DEF BuilderInit, BInv, RuntimeBuilderAssumption, given

(* ... and every step of a build keeps it.                                     *)
LEMMA BuilderNextInv == RuntimeBuilderAssumption /\ BInv /\ [BuilderNext]_builderVars => BInv'
<1>1. SUFFICES ASSUME RuntimeBuilderAssumption, BInv, [BuilderNext]_builderVars PROVE BInv'
  OBVIOUS
<1>2. CASE build_host
  BY <1>1, <1>2 DEF build_host, BInv, given, Config
<1>3. CASE build_runtime
  <2>1. CASE ~Unsupported /\ host' = Applied /\ pc' = "hosted"
    <3>1. RightHost' /\ (host["rng"])' = seed
      BY <1>1, <1>3, <2>1, HostIsRight DEF build_runtime, BInv, given
    <3>. QED  BY <1>1, <1>3, <2>1, <3>1 DEF build_runtime, BInv, given
  <2>2. CASE host' = None /\ pc' = "ready"
    BY <1>1, <1>3, <2>2 DEF build_runtime, BInv, given
  <2>. QED  BY <1>3, <2>1, <2>2 DEF build_runtime
<1>4. ASSUME NEW built \in BOOLEAN, build_guest(built) PROVE BInv'
  <2>1. builder' = request
    <3>1. request = [o \in Options |-> request[o]] /\ "enable_io" \in Options
      BY <1>1, RequestIs DEF BInv, Options, Flags
    <3>2. Restored = request
      BY <1>1, <3>1 DEF Restored, WithoutDriver, BInv
    <3>. QED  BY <1>4, <3>2 DEF build_guest
  <2>2. CASE built
    <3>1. host' = host /\ RightHost'
      BY <1>1, <1>4, <2>2, SameHost DEF build_guest, BInv, given, AfterGuest
    <3>2. guest'.seed = seed /\ (guest'.io => uring)
      <4>1. request = [o \in Options |-> request[o]] /\ "enable_io" \in Options
        BY <1>1, RequestIs DEF BInv, Options, Flags
      <4>. QED  BY <1>1, <1>4, <2>2, <4>1 DEF build_guest, WithoutDriver, BInv
    <3>. QED  BY <1>1, <1>4, <2>1, <2>2, <3>1, <3>2 DEF build_guest, BInv, given
  <2>3. CASE ~built
    <3>. QED  BY <1>1, <1>4, <2>1, <2>3 DEF build_guest, BInv, given, AfterGuest
  <2>. QED  BY <2>2, <2>3
<1>5. CASE install_host
  <2>1. RightHost'
    BY <1>1, <1>5, SameHost DEF install_host, BInv, given
  <2>. QED  BY <1>1, <1>5, <2>1 DEF install_host, BInv, given, RightHost
<1>6. CASE DropRuntime
  BY <1>1, <1>6 DEF DropRuntime, BInv, given
<1>7. CASE UNCHANGED builderVars
  BY <1>1, <1>7 DEF builderVars, given, BInv, RightHost, RightOption, Matters, Shape, Config, OrDefault, histogram
<1>. QED  BY <1>1, <1>2, <1>3, <1>4, <1>5, <1>6, <1>7 DEF BuilderNext

(* BInv is inductive: it holds throughout any number of builds.                 *)
THEOREM BuilderInvariant == BuilderSpec => []BInv
<1>1. BuilderInit => BInv
  BY BuilderInitInv, RuntimeBuilderAssumption
<1>2. BInv /\ [BuilderNext]_builderVars => BInv'
  BY BuilderNextInv, RuntimeBuilderAssumption
<1>. QED  BY <1>1, <1>2, PTL DEF BuilderSpec

(* A runtime that build_runtime and build_guest hand to a plugin has every      *)
(* option that its Builder was given, whatever the host is compiled with.       *)
THEOREM EveryOptionKept == BuilderSpec => []EveryOptionOrNone
<1>1. BInv => EveryOptionOrNone
  BY DEF BInv, RightHost, RightOption, EveryOptionOrNone
<1>. QED  BY <1>1, BuilderInvariant, PTL

(* A build that fails in the host, or in the plugin after the host's half is    *)
(* there, leaves neither half behind and the Builder as it was set up.          *)
THEOREM FailureLeavesNothing == BuilderSpec => []FailsWhole
<1>1. BInv => FailsWhole
  BY DEF BInv, FailsWhole
<1>. QED  BY <1>1, BuilderInvariant, PTL
=============================================================================
