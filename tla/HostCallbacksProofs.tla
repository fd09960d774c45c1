-------------------------- MODULE HostCallbacksProofs --------------------------
(***************************************************************************)
(* What a plugin may rely on when the host calls it back, for any number of  *)
(* workers, observers and events.                                           *)
(***************************************************************************)
EXTENDS HostCallbacks, FiniteSetTheorems, TLAPS

(* The owner takes callbacks until its stop, and counts none once idle.     *)
Gate ==
  /\ accepting \in BOOLEAN /\ detach \in DetachStages
  /\ accepting <=> detach = "out"
  /\ detach \in {"idle", "detached"} => busy = {}

(* Whoever is in the plugin's code is counted.                              *)
Counted ==
  /\ \A w \in Workers : phase[w] = "plugin" => <<w, current[w]>> \in busy
  /\ \A o \in Observers : add[o] = "plugin" => <<Outside, o>> \in busy

(* observe_workers calls back only on a worker's thread.                    *)
CallsOnWorker ==
  \A o \in Observers : add[o] \in {"call", "plugin"} => from[o] \in Workers \X {1, 2}

(* A registration is not closed before it is installed or given up; a close  *)
(* keeps threads out, and ends when the last of them is gone.               *)
Closing ==
  /\ closing <=> closer \notin {"open", "begin"}
  /\ closer = "closed" => Inside = {}
  /\ create \in {"out", "arm"} => closer = "open" /\ holders = {} /\ guest = "none"


(* DriverTypeOK conjunct by conjunct.                                       *)
DriverTypes ==
  /\ tick \in 0..MaxEvents /\ event \in [Threads -> 0..MaxEvents]
  /\ ready \in BOOLEAN /\ gone \in BOOLEAN /\ reader \in BOOLEAN
  /\ fresh \in BOOLEAN /\ closing \in BOOLEAN
  /\ arm \in [Threads -> {"out", "event", "enter", "poll", "call", "plugin", "clear"}]
  /\ closer \in {"open", "begin", "clear", "deregister", "check", "wait", "closed"}
  /\ holders \subseteq {"map", "detach"}
  /\ create \in {"out", "arm", "failed", "done"}
  /\ guest \in {"none", "held", "releasing", "released"}
CallsCounted == \A t \in Threads : t \in busy <=> arm[t] = "plugin"

HInv ==
  /\ Gate /\ Counted /\ Closing /\ WorkersTypeOK /\ CallsOnWorker
  /\ DriverTypes /\ CallsCounted /\ active = Cardinality(Inside)

-----------------------------------------------------------------------------
(* Who holds an activity: a thread of the driver, a worker at an observer,   *)
(* a call of observe_workers.                                              *)
LEMMA Holders ==
  /\ \A t \in Threads, o \in Observers : t # o
  /\ \A t \in Threads, w \in Workers \cup {Outside}, o \in Observers : t # <<w, o>>
  /\ \A p, o \in Observers, w \in Workers \cup {Outside} : p # <<w, o>>
BY HoldersAssumption

LEMMA InsideFinite == IsFiniteSet(Inside)
<1>1. IsFiniteSet({Driver, Creator})
  <2>1. IsFiniteSet({Driver})
    BY FS_Singleton
  <2>2. {Driver, Creator} = {Driver} \cup {Creator}
    OBVIOUS
  <2> QED BY <2>1, <2>2, FS_AddElement
<1>2. Inside \in SUBSET {Driver, Creator}
  BY DEF Inside, Threads
<1> QED BY <1>1, <1>2, FS_Subset

LEMMA HostInit == Init => HInv
<1> SUFFICES ASSUME Init PROVE HInv
  OBVIOUS
<1>1. Gate
  BY DEF Init, GateInit, Gate, DetachStages
<1>2. Inside = {} /\ Cardinality(Inside) = 0
  BY FS_EmptySet DEF Init, DriverInit, Inside
<1>3. Closing
  BY <1>2 DEF Init, DriverInit, Closing
<1>4. DriverTypes
  <2>1. tick \in 0..MaxEvents /\ event \in [Threads -> 0..MaxEvents]
    BY DriverAssumption DEF Init, DriverInit
  <2> QED BY <2>1 DEF Init, DriverInit, DriverTypes
<1>5. WorkersTypeOK /\ Counted /\ CallsOnWorker
  BY DEF Init, GateInit, WorkersInit, WorkersTypeOK, Counted, CallsOnWorker, Phases
<1>6. CallsCounted /\ active = Cardinality(Inside)
  BY <1>2 DEF Init, GateInit, DriverInit, CallsCounted
<1> QED BY <1>1, <1>3, <1>4, <1>5, <1>6 DEF HInv

-----------------------------------------------------------------------------
(* The threads of the driver *)

Places == {"poll", "call", "plugin", "clear"}

(* A step of t from one place of WakeState::arm to another is counted where  *)
(* it enters and leaves.                                                   *)
LEMMA ArmMoves ==
  ASSUME HInv, NEW t \in Threads, NEW b,
         arm' = [arm EXCEPT ![t] = b]
  PROVE  /\ \A u \in Threads : arm'[u] = IF u = t THEN b ELSE arm[u]
         /\ active \in Nat
         /\ arm[t] \notin Places /\ b \in Places =>
              Inside' = Inside \cup {t} /\ Cardinality(Inside)' = active + 1
         /\ arm[t] \in Places /\ b \notin Places =>
              Inside' = Inside \ {t} /\ Cardinality(Inside)' = active - 1
         /\ (arm[t] \in Places <=> b \in Places) => Inside' = Inside
<1>1. DOMAIN arm = Threads /\ active = Cardinality(Inside) /\ active \in Nat
  BY InsideFinite, FS_CardinalityType DEF HInv, DriverTypes
<1>2. /\ Cardinality(Inside \cup {t}) = IF t \in Inside THEN active ELSE active + 1
      /\ Cardinality(Inside \ {t}) = IF t \in Inside THEN active - 1 ELSE active
  BY <1>1, InsideFinite, FS_AddElement, FS_RemoveElement
<1>3. t \in Inside <=> arm[t] \in Places
  BY <1>1 DEF Inside, Places
<1>4. \A u \in Threads : arm'[u] = IF u = t THEN b ELSE arm[u]
  BY <1>1
<1>5. Inside' = IF b \in Places THEN Inside \cup {t} ELSE Inside \ {t}
  BY <1>4 DEF Inside, Places
<1> QED BY <1>1, <1>2, <1>3, <1>4, <1>5

(* The driver's part of the invariant.                                     *)
DInv == Gate /\ Closing /\ DriverTypes /\ CallsCounted /\ active = Cardinality(Inside)

(* The steps that leave the owner's gate alone.                            *)
LEMMA ArmSteps ==
  ASSUME HInv, NEW t \in Threads,
         Enter(t) \/ ReadReady(t) \/ Leave(t) \/ ClearReadiness(t)
  PROVE  DInv'
<1>1. UNCHANGED gateVars /\ Gate'
  BY DEF Enter, ReadReady, Leave, ClearReadiness, gateVars, HInv, Gate
<1>2. /\ DriverTypes /\ CallsCounted /\ active = Cardinality(Inside)
      /\ closing <=> closer \notin {"open", "begin"}
      /\ closer = "closed" => Inside = {}
      /\ create \in {"out", "arm"} => closer = "open" /\ holders = {} /\ guest = "none"
  BY DEF HInv, Closing
<1>3. CASE Enter(t)
  <2>1. PICK b \in {"out", "poll"} :
          Arm(t, "enter", b) /\ active' = active + (IF b = "out" THEN 0 ELSE 1)
                             /\ (b = "out" <=> closing)
    BY <1>2, <1>3 DEF Enter, DriverTypes
  <2>2. DriverTypes'
    BY <1>2, <1>3, <2>1 DEF Enter, Arm, DriverTypes, ioVars, resVars
  <2>3. CallsCounted'
    BY <1>1, <1>2, <2>1, ArmMoves DEF Arm, CallsCounted, gateVars
  <2>6. "poll" \in Places /\ "out" \notin Places /\ "enter" \notin Places
    BY DEF Places
  <2>7. arm[t] = "enter" /\ arm' = [arm EXCEPT ![t] = b]
    BY <2>1 DEF Arm
  <2>4. active' = Cardinality(Inside)' /\ (b = "out" => Inside' = Inside)
    <3>1. CASE b = "out"
      <4>1. active \in Nat /\ Inside' = Inside
        BY <2>6, <2>7, <3>1, ArmMoves
      <4> QED BY <1>2, <2>1, <3>1, <4>1
    <3>2. CASE b = "poll"
      BY <1>2, <2>1, <2>6, <2>7, <3>2, ArmMoves
    <3> QED BY <3>1, <3>2
  <2>5. Closing'
    BY <1>2, <1>3, <2>1, <2>4 DEF Enter, Closing, resVars
  <2> QED BY <1>1, <2>2, <2>3, <2>4, <2>5 DEF DInv
<1>4. CASE ReadReady(t) \/ ClearReadiness(t)
  <2>1. PICK a, b \in {"poll", "call", "clear"} : Arm(t, a, b)
    BY <1>4 DEF ReadReady, ClearReadiness
  <2>2. DriverTypes'
    <3>1. CASE ReadReady(t)
      BY <1>2, <3>1 DEF ReadReady, Arm, DriverTypes, ioVars, resVars
    <3>2. CASE ClearReadiness(t)
      <4>1. ready' \in BOOLEAN
        BY <3>2 DEF ClearReadiness
      <4>2. event' \in [Threads -> 0..MaxEvents]
        BY <1>2, <3>2, DriverAssumption DEF ClearReadiness, DriverTypes
      <4> QED BY <1>2, <3>2, <4>1, <4>2 DEF ClearReadiness, Arm, DriverTypes, resVars
    <3> QED BY <1>4, <3>1, <3>2
  <2>3. UNCHANGED <<active, closing, closer, resVars>>
    BY <1>4 DEF ReadReady, ClearReadiness
  <2>6. Inside' = Inside
    BY <2>1, ArmMoves DEF Arm, Places
  <2>4. CallsCounted' /\ Inside' = Inside
    BY <1>1, <1>2, <2>1, <2>6, ArmMoves DEF Arm, CallsCounted, gateVars
  <2>5. Closing'
    BY <1>2, <2>3, <2>4 DEF Closing, resVars
  <2> QED BY <1>1, <1>2, <2>2, <2>3, <2>4, <2>5 DEF DInv
<1>5. CASE Leave(t)
  <2>1. /\ Arm(t, "poll", "out") /\ active' = active - 1
        /\ closer' \in {closer, "check"} /\ (closer' # closer => closer = "wait")
    BY <1>5 DEF Leave
  <2>2. DriverTypes'
    BY <1>2, <1>5, <2>1 DEF Leave, Arm, DriverTypes, resVars
  <2>6. "poll" \in Places /\ "out" \notin Places
    BY DEF Places
  <2>3. active' = Cardinality(Inside)' /\ Inside' \subseteq Inside
    BY <2>1, <2>6, ArmMoves DEF Arm
  <2>5. CallsCounted'
    BY <1>1, <1>2, <2>1, ArmMoves DEF Arm, CallsCounted, gateVars
  <2>4. Closing'
    BY <1>2, <1>5, <2>1, <2>3 DEF Leave, Closing, resVars
  <2> QED BY <1>1, <2>2, <2>3, <2>4, <2>5 DEF DInv
<1> QED BY <1>3, <1>4, <1>5

(* The steps in which the callback is admitted, refused and counted out.    *)
LEMMA CallSteps ==
  ASSUME HInv, NEW t \in Threads, CallPlugin(t) \/ CallRefused(t) \/ PluginReturns(t)
  PROVE  DInv'
<1>1. /\ DriverTypes /\ CallsCounted /\ active = Cardinality(Inside)
      /\ Gate /\ Closing
  BY DEF HInv
<1>2. PICK a, b \in {"call", "plugin", "clear"} : Arm(t, a, b) /\ (a = "call" => accepting \/ b = "clear")
  BY DEF CallPlugin, CallRefused, PluginReturns, Admit
<1>3. DriverTypes'
  <2>1. /\ arm' \in [Threads -> {"out", "event", "enter", "poll", "call", "plugin", "clear"}]
        /\ UNCHANGED <<tick, ready, gone, reader, event, closing, closer, resVars>>
        /\ fresh' \in BOOLEAN
    BY <1>1, <1>2 DEF CallPlugin, CallRefused, PluginReturns, Arm, DriverTypes, ioVars
  <2> QED BY <1>1, <2>1 DEF DriverTypes, resVars
<1>4. UNCHANGED <<active, closing, closer, resVars>>
  BY DEF CallPlugin, CallRefused, PluginReturns
<1>5. Inside' = Inside
  BY <1>2, ArmMoves DEF Arm, Places
<1>6. Closing'
  BY <1>1, <1>4, <1>5 DEF Closing, resVars
<1>7. CallsCounted'
  <2>1. CASE CallPlugin(t)
    <3>1. busy' = busy \cup {t} /\ \A u \in Threads : arm'[u] = IF u = t THEN "plugin" ELSE arm[u]
      BY <2>1, ArmMoves DEF Arm, CallPlugin, Admit
    <3> QED BY <1>1, <3>1 DEF CallsCounted
  <2>2. CASE CallRefused(t)
    BY <1>1, <2>2, ArmMoves DEF Arm, CallRefused, Refuse, CallsCounted, gateVars
  <2>3. CASE PluginReturns(t)
    <3>1. busy' = busy \ {t} /\ \A u \in Threads : arm'[u] = IF u = t THEN "clear" ELSE arm[u]
      <4>1. arm[t] = "plugin" /\ arm' = [arm EXCEPT ![t] = "clear"] /\ busy' = busy \ {t}
        BY <2>3 DEF Arm, PluginReturns, Dismiss
      <4> QED BY <4>1, ArmMoves
    <3> QED BY <1>1, <3>1 DEF CallsCounted
  <2> QED BY <2>1, <2>2, <2>3
<1>8. Gate'
  BY <1>1 DEF CallPlugin, CallRefused, PluginReturns, Admit, Refuse, Dismiss, Gate, gateVars
<1> QED BY <1>1, <1>3, <1>4, <1>5, <1>6, <1>7, <1>8 DEF DInv

(* Of the counted callbacks a step of the driver touches only its own.      *)
LEMMA DriverCounts ==
  ASSUME HInv, DriverStep, UNCHANGED workerVars
  PROVE  WorkersTypeOK' /\ Counted' /\ CallsOnWorker'
<1>1. WorkersTypeOK' /\ CallsOnWorker'
  BY DEF HInv, WorkersTypeOK, CallsOnWorker, workerVars, loopVars, stateVars, addVars
<1>2. \E t \in Threads : busy' \in {busy, busy \cup {t}, busy \ {t}}
  BY DEF DriverStep, ArmStep, Enter, ReadReady, Leave, ClearReadiness, CallPlugin, CallRefused,
    PluginReturns, Admit, Refuse, Dismiss, Event, WakeReader, Register, Install, InstallRefused,
    DeregisterStep, BeginClose, ClearWakers, Deregister, WaitClosed, Deregisters, ReleaseDriver,
    DriverReleased, CloseDriver, DriverClosed, gateVars, Threads
<1> QED BY <1>1, <1>2, Holders DEF HInv, WorkersTypeOK, Counted, workerVars, loopVars, addVars

(* Events, registration and its end.                                       *)
LEMMA DriverSteps ==
  ASSUME HInv, DriverStep, \A t \in Threads : ~ArmStep(t)
  PROVE  DInv'
<1>1. UNCHANGED gateVars /\ Gate'
  BY DEF DriverStep, Event, WakeReader, Register, Install, InstallRefused,
    DeregisterStep, BeginClose, ClearWakers, Deregister, WaitClosed, Deregisters, ReleaseDriver,
    DriverReleased, CloseDriver, DriverClosed, gateVars, HInv, Gate
<1>2. DriverTypes /\ CallsCounted /\ active = Cardinality(Inside) /\ Closing
  BY DEF HInv
<1>3. CASE Event \/ WakeReader \/ Register
  <2>1. PICK t \in Threads, a, b \in {"out", "event", "enter"} : Arm(t, a, b)
    BY <1>3 DEF Event, WakeReader, Register, Threads
  <2>6. Inside' = Inside
    BY <2>1, ArmMoves DEF Arm, Places
  <2>2. CallsCounted' /\ Inside' = Inside
    BY <1>1, <1>2, <2>1, <2>6, ArmMoves DEF Arm, CallsCounted, gateVars
  <2>3. UNCHANGED <<active, closing, closer, holders, guest>> /\ (create' = create \/ create = "out")
    BY <1>3 DEF Event, WakeReader, Register, resVars
  <2>4. DriverTypes'
    <3>1. CASE Event
      <4>1. tick' \in 0..MaxEvents
        BY <1>2, <3>1, DriverAssumption DEF Event, DriverTypes
      <4>2. ready' \in BOOLEAN /\ gone' \in BOOLEAN /\ fresh' \in BOOLEAN
        BY <1>2, <3>1 DEF Event, DriverTypes
      <4> QED BY <1>2, <3>1, <4>1, <4>2 DEF Event, Arm, DriverTypes, resVars
    <3>2. CASE WakeReader
      BY <1>2, <3>2 DEF WakeReader, Arm, DriverTypes, resVars
    <3>3. CASE Register
      BY <1>2, <3>3 DEF Register, Arm, DriverTypes, ioVars
    <3> QED BY <1>3, <3>1, <3>2, <3>3
  <2>5. Closing'
    BY <1>2, <2>2, <2>3 DEF Closing
  <2> QED BY <1>1, <1>2, <2>2, <2>3, <2>4, <2>5 DEF DInv
<1>4. ASSUME UNCHANGED armVars, DriverTypes', Closing'
      PROVE  DInv'
  <2>1. CallsCounted' /\ Inside' = Inside
    BY <1>1, <1>2, <1>4 DEF CallsCounted, gateVars, armVars, Inside
  <2> QED BY <1>1, <1>2, <1>4, <2>1 DEF DInv, armVars
<1>5. UNCHANGED arm => Inside' = Inside
  BY DEF Inside
<1>6. active = 0 => Inside = {}
  BY <1>2, InsideFinite, FS_EmptySet
<1>7. CASE Install \/ InstallRefused
  BY <1>2, <1>4, <1>5, <1>7 DEF Install, InstallRefused, DriverTypes, Closing, armVars, ioVars
<1>8. CASE DeregisterStep
  BY <1>2, <1>4, <1>5, <1>6, <1>8 DEF DeregisterStep, BeginClose, ClearWakers, Deregister,
    WaitClosed, Deregisters, DriverTypes, Closing, armVars, resVars
<1>9. CASE ReleaseDriver \/ DriverReleased
  BY <1>2, <1>4, <1>5, <1>9 DEF ReleaseDriver, DriverReleased, DriverTypes, Closing, armVars, ioVars
<1>10. CASE CloseDriver \/ DriverClosed
  BY <1>2, <1>4, <1>5, <1>10 DEF CloseDriver, DriverClosed, DriverTypes, Closing, armVars, ioVars, resVars
<1> QED BY <1>3, <1>7, <1>8, <1>9, <1>10 DEF DriverStep
-----------------------------------------------------------------------------
(* The workers *)

(* The parts of the invariant that the workers change.                      *)
WInv == Gate /\ Counted /\ CallsCounted /\ WorkersTypeOK /\ CallsOnWorker

(* A worker's step, by the parts of its state.                             *)
LEMMA Worker ==
  ASSUME WorkersTypeOK, NEW w \in Workers, NEW b \in Phases, NEW c \in Observers \cup {Outside},
         NEW h \in SUBSET Observers,
         phase' = [phase EXCEPT ![w] = b], current' = [current EXCEPT ![w] = c],
         held' = [held EXCEPT ![w] = h], UNCHANGED <<observers, addVars>>,
         b \in {"plugin", "drop"} => c \in h, b = "release" => c \in Observers,
         b \notin {"plugin", "drop", "release"} => c = Outside,
         token' \in [Workers -> BOOLEAN], thread' \in [Workers -> {1, 2}],
         flag' \in [Workers -> BOOLEAN], queue' \in [Workers -> SUBSET observers],
         released' \subseteq Observers, recorded' \in [Observers -> [Workers -> 0..2]]
  PROVE  WorkersTypeOK'
<1>1. phase' \in [Workers -> Phases] /\ held' \in [Workers -> SUBSET Observers]
      /\ current' \in [Workers -> Observers \cup {Outside}]
  BY DEF WorkersTypeOK
<1>2. \A v \in Workers :
        /\ phase'[v] = IF v = w THEN b ELSE phase[v]
        /\ current'[v] = IF v = w THEN c ELSE current[v]
        /\ held'[v] = IF v = w THEN h ELSE held[v]
  BY DEF WorkersTypeOK
<1>3. /\ \A v \in Workers : phase'[v] \in {"plugin", "drop"} => current'[v] \in held'[v]
      /\ \A v \in Workers : phase'[v] = "release" => current'[v] \in Observers
      /\ \A v \in Workers : phase'[v] \notin {"plugin", "drop", "release"} => current'[v] = Outside
  BY <1>2 DEF WorkersTypeOK
<1> QED BY <1>1, <1>3 DEF WorkersTypeOK, addVars

(* The worker's loop without a callback.                                   *)
LoopStep(w) ==
  \/ StartWorker(w) \/ Park(w) \/ Unparked(w) \/ ComeAround(w) \/ HandOff(w)
  \/ SwapFlag(w) \/ TakePending(w) \/ Observed(w) \/ DropClone(w) \/ ReleaseCallback(w)

LEMMA LoopTypes ==
  ASSUME WorkersTypeOK, NEW w \in Workers, LoopStep(w)
  PROVE  WorkersTypeOK'
<1>1. /\ phase \in [Workers -> Phases] /\ held \in [Workers -> SUBSET Observers]
      /\ current \in [Workers -> Observers \cup {Outside}]
      /\ token \in [Workers -> BOOLEAN] /\ thread \in [Workers -> {1, 2}]
      /\ flag \in [Workers -> BOOLEAN] /\ queue \in [Workers -> SUBSET observers]
      /\ released \subseteq Observers /\ recorded \in [Observers -> [Workers -> 0..2]]
      /\ observers \subseteq Observers
  BY DEF WorkersTypeOK
<1>2. /\ phase[w] \notin {"plugin", "drop", "release"} => current[w] = Outside
      /\ current = [current EXCEPT ![w] = current[w]] /\ held = [held EXCEPT ![w] = held[w]]
      /\ held[w] \in SUBSET Observers /\ current[w] \in Observers \cup {Outside}
      /\ phase[w] = "drop" => current[w] \in held[w]
  BY <1>1 DEF WorkersTypeOK
<1>3. CASE StartWorker(w)
  <2>1. /\ phase' = [phase EXCEPT ![w] = "observe"] /\ held' = [held EXCEPT ![w] = observers]
        /\ current' = [current EXCEPT ![w] = Outside]
    BY <1>2, <1>3 DEF StartWorker, Turn
  <2>2. flag' \in [Workers -> BOOLEAN] /\ queue' \in [Workers -> SUBSET observers]
    BY <1>1, <1>3 DEF StartWorker
  <2> QED BY <1>1, <1>3, <2>1, <2>2, Worker DEF StartWorker, Phases
<1>4. CASE Park(w) \/ Unparked(w) \/ ComeAround(w) \/ HandOff(w) \/ Observed(w)
  <2>1. PICK b \in {"tick", "parked", "new", "run"} : phase' = [phase EXCEPT ![w] = b]
    BY <1>4 DEF Park, Unparked, ComeAround, HandOff, Observed, Turn
  <2>2. /\ held' = [held EXCEPT ![w] = held[w]] /\ current' = [current EXCEPT ![w] = Outside]
        /\ current' = current
    BY <1>2, <1>4 DEF Park, Unparked, ComeAround, HandOff, Observed, Turn
  <2>3. token' \in [Workers -> BOOLEAN] /\ thread' \in [Workers -> {1, 2}]
    BY <1>1, <1>4 DEF Park, Unparked, ComeAround, HandOff, Observed
  <2>4. UNCHANGED <<stateVars, addVars, recorded, released>>
    BY <1>4 DEF Park, Unparked, ComeAround, HandOff, Observed
  <2>5. token' \in [Workers -> BOOLEAN] /\ thread' \in [Workers -> {1, 2}]
        /\ flag' \in [Workers -> BOOLEAN] /\ queue' \in [Workers -> SUBSET observers]
        /\ UNCHANGED <<observers, addVars>>
        /\ released' \subseteq Observers /\ recorded' \in [Observers -> [Workers -> 0..2]]
    BY <1>1, <2>3, <2>4 DEF stateVars
  <2>6. b \in Phases /\ b \notin {"plugin", "drop", "release"}
    BY <2>1 DEF Phases
  <2> QED BY <1>2, <2>1, <2>2, <2>5, <2>6, Worker
<1>5. CASE SwapFlag(w)
  <2>1. PICK b \in {"take", "run"} : phase' = [phase EXCEPT ![w] = b]
    BY <1>5 DEF SwapFlag, Turn
  <2>2. held' = [held EXCEPT ![w] = held[w]] /\ current' = [current EXCEPT ![w] = Outside]
    BY <1>2, <1>5 DEF SwapFlag, Turn
  <2>3. flag' \in [Workers -> BOOLEAN]
    BY <1>1, <1>5 DEF SwapFlag
  <2> QED BY <1>1, <1>2, <1>5, <2>1, <2>2, <2>3, Worker DEF SwapFlag, Phases
<1>6. CASE TakePending(w)
  <2>1. /\ phase' = [phase EXCEPT ![w] = "observe"] /\ current' = [current EXCEPT ![w] = Outside]
        /\ UNCHANGED <<token, thread, flag, observers, addVars, recorded, released>>
    BY <1>1, <1>2, <1>6 DEF TakePending, Turn
  <2>3. PICK h \in SUBSET Observers : held' = [held EXCEPT ![w] = h]
    BY <1>1, <1>6 DEF TakePending
  <2>2. queue' \in [Workers -> SUBSET observers]
    BY <1>1, <1>6 DEF TakePending
  <2> QED BY <1>1, <2>1, <2>2, <2>3, Worker DEF Phases
<1>7. CASE DropClone(w)
  <2>1. PICK b \in {"release", "observe"} :
          /\ phase' = [phase EXCEPT ![w] = b]
          /\ current' = [current EXCEPT ![w] = IF b = "release" THEN current[w] ELSE Outside]
          /\ phase[w] = "drop"
    BY <1>2, <1>7 DEF DropClone, Turn
  <2>2. PICK h \in SUBSET Observers : held' = [held EXCEPT ![w] = h]
    BY <1>2, <1>7 DEF DropClone
  <2>3. PICK c \in Observers \cup {Outside} :
          current' = [current EXCEPT ![w] = c] /\ (b = "observe" => c = Outside)
                                                 /\ (b = "release" => c \in Observers)
    BY <1>2, <2>1
  <2>4. UNCHANGED <<token, thread, stateVars, addVars, recorded, released>>
    BY <1>7 DEF DropClone
  <2> QED BY <1>1, <2>1, <2>2, <2>3, <2>4, Worker DEF Phases, stateVars
<1>8. CASE ReleaseCallback(w)
  <2>1. /\ phase' = [phase EXCEPT ![w] = "observe"] /\ held' = [held EXCEPT ![w] = held[w]]
        /\ current' = [current EXCEPT ![w] = Outside]
        /\ UNCHANGED <<token, thread, stateVars, addVars, recorded>>
    BY <1>2, <1>8 DEF ReleaseCallback, Turn
  <2>2. released' \subseteq Observers
    BY <1>1, <1>2, <1>8 DEF ReleaseCallback, Turn, WorkersTypeOK
  <2> QED BY <1>1, <1>2, <2>1, <2>2, Worker DEF Phases, stateVars
<1> QED BY <1>3, <1>4, <1>5, <1>6, <1>7, <1>8 DEF LoopStep

LEMMA LoopSteps ==
  ASSUME HInv, UNCHANGED driverVars, NEW w \in Workers, LoopStep(w)
  PROVE  WInv'
<1>1. WorkersTypeOK /\ Counted /\ CallsOnWorker /\ Gate /\ CallsCounted /\ UNCHANGED arm
  BY DEF HInv, driverVars, armVars
<1>2. UNCHANGED <<gateVars, addVars>>
  BY DEF LoopStep, StartWorker, Park, Unparked, ComeAround, HandOff, SwapFlag, TakePending, Observed,
    DropClone, ReleaseCallback, stateVars
<1>3. \E b \in Phases \ {"plugin"} : phase' = [phase EXCEPT ![w] = b]
  BY DEF LoopStep, StartWorker, Park, Unparked, ComeAround, HandOff, SwapFlag, TakePending, Observed,
    DropClone, ReleaseCallback, Turn, Phases
<1>4. current' = current \/ \E c : current' = [current EXCEPT ![w] = c]
  BY DEF LoopStep, StartWorker, Park, Unparked, ComeAround, HandOff, SwapFlag, TakePending, Observed,
    DropClone, ReleaseCallback
<1>5. phase \in [Workers -> Phases] /\ current \in [Workers -> Observers \cup {Outside}]
  BY <1>1 DEF WorkersTypeOK
<1>6. \A v \in Workers : phase'[v] = "plugin" => phase[v] = "plugin" /\ current'[v] = current[v]
  BY <1>3, <1>4, <1>5
<1>7. Counted' /\ Gate' /\ CallsCounted' /\ CallsOnWorker'
  BY <1>1, <1>2, <1>6 DEF Counted, Gate, CallsCounted, CallsOnWorker, gateVars, addVars
<1> QED BY <1>1, <1>7, LoopTypes DEF WInv

(* A worker calls an observer and counts the call.                          *)
LEMMA ObserveSteps ==
  ASSUME HInv, UNCHANGED driverVars, NEW w \in Workers,
         Recorded(w) \/ \E o \in Observers : Observe(w, o)
  PROVE  WInv'
<1>1. WorkersTypeOK /\ Counted /\ CallsCounted /\ CallsOnWorker /\ Gate /\ UNCHANGED <<arm, addVars>>
  BY DEF HInv, driverVars, armVars, Recorded, Observe
<1>2. /\ phase \in [Workers -> Phases] /\ held \in [Workers -> SUBSET Observers]
      /\ current \in [Workers -> Observers \cup {Outside}]
      /\ token \in [Workers -> BOOLEAN] /\ thread \in [Workers -> {1, 2}]
      /\ flag \in [Workers -> BOOLEAN] /\ queue \in [Workers -> SUBSET observers]
      /\ released \subseteq Observers /\ recorded \in [Observers -> [Workers -> 0..2]]
      /\ held = [held EXCEPT ![w] = held[w]] /\ held[w] \in SUBSET Observers
      /\ current = [current EXCEPT ![w] = current[w]]
  BY <1>1 DEF WorkersTypeOK
<1>3. CallsOnWorker'
  BY <1>1 DEF CallsOnWorker, addVars
<1>4. CASE Recorded(w)
  <2>1. current[w] \in held[w] /\ current[w] \in Observers /\ phase[w] = "plugin"
    BY <1>1, <1>2, <1>4 DEF Recorded, Turn, WorkersTypeOK
  <2>2. /\ busy' = busy \ {<<w, current[w]>>} /\ phase' = [phase EXCEPT ![w] = "drop"]
        /\ UNCHANGED <<accepting, detach, token, thread, stateVars, held, current, released>>
    BY <1>4 DEF Recorded, Dismiss, Turn
  <2>3. recorded' \in [Observers -> [Workers -> 0..2]]
    BY <1>2, <1>4, <2>1 DEF Recorded
  <2>4. WorkersTypeOK'
    BY <1>1, <1>2, <2>1, <2>2, <2>3, Worker DEF Phases, stateVars
  <2>5. Gate'
    BY <1>1, <2>2 DEF Gate
  <2>6. \A v \in Workers : phase'[v] = "plugin" => v # w /\ phase[v] = "plugin"
    BY <1>2, <2>2
  <2>7. Counted'
    BY <1>1, <2>1, <2>2, <2>6, ObserverAssumption DEF Counted, addVars
  <2>8. CallsCounted'
    BY <1>1, <2>1, <2>2, Holders DEF CallsCounted
  <2> QED BY <1>3, <2>4, <2>5, <2>7, <2>8 DEF WInv
<1>5. ASSUME NEW o \in Observers, Observe(w, o) PROVE WInv'
  <2>1. PICK b \in {"plugin", "drop"} :
          /\ phase' = [phase EXCEPT ![w] = b] /\ phase[w] = "observe"
          /\ busy' = IF b = "plugin" THEN busy \cup {<<w, o>>} ELSE busy
          /\ (b = "plugin" => accepting) /\ UNCHANGED <<accepting, detach>>
    BY <1>5 DEF Observe, Admit, Refuse, Turn, gateVars
  <2>2. /\ current' = [current EXCEPT ![w] = o] /\ o \in held[w]
        /\ UNCHANGED <<token, thread, stateVars, held, addVars, recorded, released>>
    BY <1>5 DEF Observe
  <2>3. WorkersTypeOK'
    BY <1>1, <1>2, <2>1, <2>2, Worker DEF Phases, stateVars
  <2>4. Gate'
    BY <1>1, <2>1 DEF Gate
  <2>5. \A v \in Workers :
          /\ phase'[v] = IF v = w THEN b ELSE phase[v]
          /\ current'[v] = IF v = w THEN o ELSE current[v]
    BY <1>2, <2>1, <2>2
  <2>6. Counted'
    BY <1>1, <2>1, <2>5 DEF Counted, addVars
  <2>7. CallsCounted'
    BY <1>1, <2>1, Holders DEF CallsCounted
  <2> QED BY <1>3, <2>3, <2>4, <2>6, <2>7 DEF WInv
<1> QED BY <1>4, <1>5

(* observe_workers, and the end of an observer: what they leave well typed.  *)
LEMMA Adding ==
  ASSUME WorkersTypeOK, UNCHANGED <<loopVars, held, current>>,
         NEW o \in Observers, NEW p \in {"out", "add", "call", "plugin", "unpark", "install", "done"},
         add' = [add EXCEPT ![o] = p] \/ UNCHANGED add,
         from' \in [Observers -> {Outside} \cup (Workers \X {1, 2})],
         flag' \in [Workers -> BOOLEAN], queue' \in [Workers -> SUBSET observers'],
         observers' \subseteq Observers, installed' \subseteq Observers,
         released' \subseteq Observers, recorded' \in [Observers -> [Workers -> 0..2]]
  PROVE  WorkersTypeOK'
<1>1. add' \in [Observers -> {"out", "add", "call", "plugin", "unpark", "install", "done"}]
  BY DEF WorkersTypeOK
<1> QED BY <1>1 DEF WorkersTypeOK, loopVars

LEMMA AddTypes ==
  ASSUME WorkersTypeOK, CallsOnWorker, NEW o \in Observers,
         BeginObserve(o) \/ AddStep(o) \/ RemoveObserver(o)
  PROVE  WorkersTypeOK'
<1>1. /\ from \in [Observers -> {Outside} \cup (Workers \X {1, 2})]
      /\ flag \in [Workers -> BOOLEAN] /\ queue \in [Workers -> SUBSET observers]
      /\ observers \subseteq Observers /\ installed \subseteq Observers
      /\ released \subseteq Observers /\ recorded \in [Observers -> [Workers -> 0..2]]
  BY DEF WorkersTypeOK
<1>2. CASE BeginObserve(o)
  <2>1. from' \in [Observers -> {Outside} \cup (Workers \X {1, 2})]
    <3>1. ASSUME NEW w \in Workers, NEW n \in 1..2, from' = [from EXCEPT ![o] = <<w, n>>]
          PROVE  from' \in [Observers -> {Outside} \cup (Workers \X {1, 2})]
      <4>1. <<w, n>> \in Workers \X {1, 2}
        BY <3>1
      <4> QED BY <1>1, <3>1, <4>1
    <3> QED BY <1>1, <1>2, <3>1 DEF BeginObserve
  <2>2. /\ UNCHANGED <<loopVars, held, current, stateVars, installed, released, recorded>>
        /\ add' = [add EXCEPT ![o] = "add"]
    BY <1>2 DEF BeginObserve, Adds
  <2> QED BY <1>1, <2>1, <2>2, Adding DEF stateVars
<1>3. CASE AddObserver(o)
  <2>1. /\ observers' \subseteq Observers /\ queue' \in [Workers -> SUBSET observers']
        /\ flag' \in [Workers -> BOOLEAN]
    BY <1>1, <1>3 DEF AddObserver
  <2>2. PICK p \in {"call", "unpark"} : add' = [add EXCEPT ![o] = p]
    BY <1>3 DEF AddObserver, Adds
  <2>3. UNCHANGED <<loopVars, held, current, from, installed, recorded, released>>
    BY <1>3 DEF AddObserver
  <2> QED BY <1>1, <2>1, <2>2, <2>3, Adding
<1>4. CASE CallHere(o)
  <2>1. PICK p \in {"plugin", "unpark"} : add' = [add EXCEPT ![o] = p]
    BY <1>4 DEF CallHere, Adds
  <2>2. UNCHANGED <<loopVars, stateVars, held, current, from, installed, recorded, released>>
    BY <1>4 DEF CallHere
  <2> QED BY <1>1, <2>1, <2>2, Adding DEF stateVars
<1>5. CASE RecordHere(o)
  <2>1. /\ add' = [add EXCEPT ![o] = "unpark"] /\ add[o] = "plugin"
        /\ UNCHANGED <<loopVars, stateVars, held, current, from, installed, released>>
    BY <1>5 DEF RecordHere, Adds
  <2>2. from[o][1] \in Workers /\ from[o][2] \in 0..2
    BY <2>1 DEF CallsOnWorker
  <2>3. recorded' \in [Observers -> [Workers -> 0..2]]
    BY <1>1, <1>5, <2>2 DEF RecordHere
  <2> QED BY <1>1, <2>1, <2>3, Adding DEF stateVars
<1>6. CASE UnparkWorkers(o)
  <2>1. add' = [add EXCEPT ![o] = "install"] /\ token' \in [Workers -> BOOLEAN]
        /\ UNCHANGED <<phase, thread, stateVars, held, current, from, installed, recorded, released>>
    BY <1>6 DEF UnparkWorkers, Adds
  <2>2. add' \in [Observers -> {"out", "add", "call", "plugin", "unpark", "install", "done"}]
    BY <2>1 DEF WorkersTypeOK
  <2> QED BY <2>1, <2>2 DEF WorkersTypeOK, stateVars
<1>7. CASE InstallObserver(o)
  <2>1. /\ add' = [add EXCEPT ![o] = "done"]
        /\ UNCHANGED <<loopVars, stateVars, held, current, recorded, released>>
        /\ installed' = installed \cup {o} /\ from' = [from EXCEPT ![o] = Outside]
    BY <1>7 DEF InstallObserver, Adds
  <2>2. /\ from' \in [Observers -> {Outside} \cup (Workers \X {1, 2})]
        /\ installed' \subseteq Observers
    BY <1>1, <2>1
  <2> QED BY <1>1, <2>1, <2>2, Adding DEF stateVars
<1>8. CASE RemoveObserver(o)
  <2>1. /\ observers' \subseteq Observers /\ queue' \in [Workers -> SUBSET observers']
        /\ installed' \subseteq Observers /\ released' \subseteq Observers
    BY <1>1, <1>8 DEF RemoveObserver
  <2>2. UNCHANGED <<loopVars, flag, held, current, add, from, recorded>>
    BY <1>8 DEF RemoveObserver
  <2> QED BY <1>1, <2>1, <2>2, Adding
<1> QED BY <1>2, <1>3, <1>4, <1>5, <1>6, <1>7, <1>8 DEF AddStep

LEMMA AddSteps ==
  ASSUME HInv, UNCHANGED driverVars, NEW o \in Observers,
         BeginObserve(o) \/ AddStep(o) \/ RemoveObserver(o)
  PROVE  WInv'
<1>1. /\ WorkersTypeOK /\ Counted /\ CallsCounted /\ CallsOnWorker /\ Gate
      /\ UNCHANGED <<arm, phase, current>>
      /\ add \in [Observers -> {"out", "add", "call", "plugin", "unpark", "install", "done"}]
  BY DEF HInv, driverVars, armVars, BeginObserve, AddStep, AddObserver, CallHere, RecordHere,
    UnparkWorkers, InstallObserver, RemoveObserver, loopVars, WorkersTypeOK
<1>2. WorkersTypeOK'
  BY <1>1, AddTypes
<1>3. from \in [Observers -> {Outside} \cup (Workers \X {1, 2})]
      /\ \A w \in Workers : phase[w] = "plugin" => current[w] \in Observers
  BY <1>1 DEF WorkersTypeOK
<1>4. CASE BeginObserve(o) \/ InstallObserver(o)
  <2>1. PICK p \in {"add", "done"} : add' = [add EXCEPT ![o] = p]
    BY <1>4 DEF BeginObserve, InstallObserver, Adds
  <2>2. /\ busy' \in {busy \cup {o}, busy \ {o}} /\ UNCHANGED <<accepting, detach>>
        /\ busy' = busy \cup {o} => accepting
    BY <1>4 DEF BeginObserve, InstallObserver, Admit, Dismiss
  <2>3. \A q \in Observers : q # o => add'[q] = add[q] /\ from'[q] = from[q]
    BY <1>1, <1>3, <1>4 DEF BeginObserve, InstallObserver, Adds
  <2>4. add'[o] = p
    BY <1>1, <2>1
  <2>5. Gate'
    BY <1>1, <1>4, <2>2 DEF Gate, BeginObserve, InstallObserver, Admit, Dismiss
  <2>6. Counted'
    BY <1>1, <1>3, <2>2, <2>3, <2>4, Holders DEF Counted
  <2>7. CallsCounted'
    BY <1>1, <2>2, Holders DEF CallsCounted
  <2>8. CallsOnWorker'
    BY <1>1, <2>3, <2>4 DEF CallsOnWorker
  <2> QED BY <1>2, <2>5, <2>6, <2>7, <2>8 DEF WInv
<1>5. CASE AddObserver(o)
  <2>1. /\ add' = [add EXCEPT ![o] = IF from[o] = Outside THEN "unpark" ELSE "call"]
        /\ UNCHANGED <<gateVars, from>>
    BY <1>3, <1>5 DEF AddObserver, Adds, Here
  <2>2. Counted' /\ CallsOnWorker'
    BY <1>1, <1>3, <2>1 DEF Counted, CallsOnWorker, gateVars
  <2>3. Gate' /\ CallsCounted'
    BY <1>1, <2>1 DEF Gate, CallsCounted, gateVars
  <2> QED BY <1>2, <2>2, <2>3 DEF WInv
<1>6. CASE CallHere(o)
  <2>1. PICK p \in {"plugin", "unpark"} :
          /\ add[o] = "call" /\ add' = [add EXCEPT ![o] = p]
          /\ busy' = IF p = "plugin" THEN busy \cup {<<Outside, o>>} ELSE busy
          /\ (p = "plugin" => accepting) /\ UNCHANGED <<accepting, detach, from>>
    BY <1>6 DEF CallHere, Adds, Admit, Refuse, gateVars
  <2>2. Counted' /\ CallsOnWorker'
    BY <1>1, <2>1 DEF Counted, CallsOnWorker
  <2>3. Gate'
    BY <1>1, <2>1 DEF Gate
  <2>4. CallsCounted'
    BY <1>1, <2>1, Holders DEF CallsCounted
  <2> QED BY <1>2, <2>2, <2>3, <2>4 DEF WInv
<1>7. CASE RecordHere(o)
  <2>1. /\ add[o] = "plugin" /\ add' = [add EXCEPT ![o] = "unpark"]
        /\ busy' = busy \ {<<Outside, o>>} /\ UNCHANGED <<accepting, detach, from>>
    BY <1>7 DEF RecordHere, Adds, Dismiss
  <2>2. \A q \in Observers : add'[q] = IF q = o THEN "unpark" ELSE add[q]
    BY <1>1, <2>1
  <2>3. Counted' /\ CallsOnWorker'
    BY <1>1, <2>1, <2>2, ObserverAssumption DEF Counted, CallsOnWorker
  <2>4. Gate'
    BY <1>1, <2>1 DEF Gate
  <2>5. CallsCounted'
    BY <1>1, <2>1, Holders DEF CallsCounted
  <2> QED BY <1>2, <2>3, <2>4, <2>5 DEF WInv
<1>8. CASE UnparkWorkers(o) \/ RemoveObserver(o)
  <2>1. UNCHANGED <<gateVars, from>> /\ (add' = [add EXCEPT ![o] = "install"] \/ UNCHANGED add)
    BY <1>8 DEF UnparkWorkers, RemoveObserver, Adds
  <2>2. Counted' /\ CallsOnWorker'
    BY <1>1, <2>1 DEF Counted, CallsOnWorker, gateVars
  <2>3. Gate' /\ CallsCounted'
    BY <1>1, <2>1 DEF Gate, CallsCounted, gateVars
  <2> QED BY <1>2, <2>2, <2>3 DEF WInv
<1> QED BY <1>4, <1>5, <1>6, <1>7, <1>8 DEF AddStep

-----------------------------------------------------------------------------
(* Every step of the whole *)

LEMMA DetachSteps ==
  ASSUME HInv,
         StopOwner \/ ResourcesClosed \/ OwnerIdle \/ OwnerDetached
  PROVE  HInv'
<1>1. HInv /\ Gate /\ Counted /\ Closing /\ DriverTypes /\ CallsCounted /\ active = Cardinality(Inside)
  BY DEF HInv
<1>2. UNCHANGED <<workerVars, busy>>
  BY DEF StopOwner, Stop, ResourcesClosed, Closed, OwnerIdle, Idle, OwnerDetached, Detached
<1>3. UNCHANGED <<ioVars, armVars, closing, closer, create, guest>>
      /\ (holders' = holders \/ (holders' \subseteq {"map", "detach"} /\ (holders = {} => holders' = {}))
         \/ holders' = {})
  BY DEF StopOwner, ResourcesClosed, OwnerIdle, OwnerDetached, driverVars, resVars,
    SnapshotDriver, DropResources, HInv, DriverTypes
<1>4. Inside' = Inside
  BY <1>3 DEF Inside, armVars
<1>5. DriverTypes' /\ CallsCounted' /\ active' = Cardinality(Inside)'
  <2>1. holders' \subseteq {"map", "detach"}
    BY <1>1, <1>3 DEF DriverTypes
  <2>2. DriverTypes'
    BY <1>1, <1>3, <2>1 DEF DriverTypes, ioVars, armVars
  <2>3. CallsCounted'
    BY <1>1, <1>2, <1>3 DEF CallsCounted, armVars
  <2> QED BY <1>1, <1>3, <1>4, <2>2, <2>3 DEF armVars
<1>6. Closing'
  BY <1>1, <1>3, <1>4 DEF Closing
<1>7. Counted' /\ WorkersTypeOK' /\ CallsOnWorker'
  BY <1>2 DEF HInv, Counted, WorkersTypeOK, CallsOnWorker, workerVars, loopVars, stateVars, addVars
<1>8. Gate'
  <2>1. CASE StopOwner
    BY <1>1, <2>1 DEF Gate, StopOwner, Stop, DetachStages
  <2>2. CASE ResourcesClosed \/ OwnerIdle
    BY <1>1, <2>2 DEF Gate, ResourcesClosed, Closed, OwnerIdle, Idle, DetachStages
  <2>3. CASE OwnerDetached
    BY <1>1, <2>3 DEF Gate, OwnerDetached, Detached, DetachStages
  <2> QED BY <2>1, <2>2, <2>3
<1> QED BY <1>5, <1>6, <1>7, <1>8 DEF HInv

LEMMA HostNext == HInv /\ [Next]_vars => HInv'
<1> SUFFICES ASSUME HInv, [Next]_vars PROVE HInv'
  OBVIOUS
<1>1. ASSUME DriverStep, UNCHANGED workerVars PROVE HInv'
  <2>1. DInv'
    BY <1>1, ArmSteps, CallSteps, DriverSteps DEF ArmStep
  <2> QED BY <1>1, <2>1, DriverCounts DEF HInv, DInv
<1>2. ASSUME UNCHANGED driverVars, WInv' PROVE HInv'
  <2>1. Inside' = Inside
    BY <1>2 DEF Inside, driverVars, armVars
  <2>2. Closing' /\ DriverTypes' /\ active' = Cardinality(Inside)'
    BY <1>2, <2>1 DEF HInv, Closing, DriverTypes, driverVars, ioVars, armVars, resVars
  <2> QED BY <1>2, <2>2 DEF HInv, WInv
<1>3. CASE StopOwner \/ ResourcesClosed \/ OwnerIdle \/ OwnerDetached
  BY <1>3, DetachSteps
<1>4. CASE \E o \in Observers : ClearHandle(o)
  BY <1>2, <1>4, AddSteps DEF ClearHandle, ObserverPart
<1>5. CASE DriverStep /\ DriverPart
  BY <1>1, <1>5 DEF DriverPart
<1>6. ASSUME ObserverStep, ObserverPart PROVE HInv'
  <2>1. ASSUME NEW w \in Workers, WorkerStep(w) \/ HandOff(w) PROVE WInv'
    BY <1>6, <2>1, LoopSteps, ObserveSteps DEF WorkerStep, LoopStep, ObserverPart
  <2>2. ASSUME NEW o \in Observers, BeginObserve(o) \/ AddStep(o) \/ ReleaseHandle(o) PROVE WInv'
    BY <1>6, <2>2, AddSteps DEF ReleaseHandle, ObserverPart
  <2> QED BY <1>2, <1>6, <2>1, <2>2 DEF ObserverStep, ObserverPart
<1>7. CASE UNCHANGED vars
  <2>1. WInv' /\ UNCHANGED driverVars
    BY <1>7 DEF HInv, WInv, vars, gateVars, driverVars, workerVars, loopVars, stateVars, addVars,
      Gate, Counted, CallsCounted, CallsOnWorker, WorkersTypeOK, armVars
  <2> QED BY <1>2, <2>1
<1> QED BY <1>3, <1>4, <1>5, <1>6, <1>7 DEF Next, DetachStep

(* The inductive invariant of the callbacks and the detach: whoever is in    *)
(* the plugin's code holds an activity, the count of wakes under way is      *)
(* exact, and the stages of the detach and of a close follow from them.     *)
THEOREM HostInvariant == Spec => []HInv
<1>1. Init => HInv
  BY HostInit
<1>2. HInv /\ [Next]_vars => HInv'
  BY HostNext
<1> QED BY <1>1, <1>2, PTL DEF Spec

-----------------------------------------------------------------------------
Parts == part \in {"driver", "workers"}

LEMMA PartStep == Parts /\ [Next]_vars => Parts'
<1> SUFFICES ASSUME Parts, [Next]_vars PROVE part' = part
  BY DEF Parts
<1> QED BY DEF Next, vars, StopOwner, DetachStep, ResourcesClosed, OwnerIdle, OwnerDetached,
  ClearHandle, DriverPart, ObserverPart

LEMMA TypesHold == HInv /\ Parts => TypeOK
<1> SUFFICES ASSUME HInv, Parts PROVE TypeOK
  OBVIOUS
<1>1. DriverTypes /\ CallsCounted /\ active = Cardinality(Inside) /\ Gate /\ WorkersTypeOK
  BY DEF HInv
<1>2. {ready, gone, reader, fresh, closing} \subseteq BOOLEAN
  BY <1>1 DEF DriverTypes
<1>3. busy \cap Threads = {t \in Threads : arm[t] = "plugin"}
  BY <1>1 DEF CallsCounted
<1>4. DriverTypeOK
  BY <1>1, <1>2, <1>3 DEF DriverTypes, DriverTypeOK
<1> QED BY <1>1, <1>4 DEF TypeOK, Gate, Parts

(* The type invariant, in which the readiness, WakeLifecycle and its count   *)
(* of threads, and the observers' queues and clones keep their shape.       *)
THEOREM HostTypeOK == Spec => []TypeOK
<1>1. Init => Parts
  BY DEF Init, Parts
<1> QED BY <1>1, PartStep, TypesHold, HostInvariant, PTL DEF Spec

(* telekio_deregister returns to a plugin that no thread will call: of any   *)
(* number of wakes that race the close, each is refused or waited for.      *)
THEOREM NoWakeOnceClosed == Spec => []NoWakeAfterClose
<1>1. HInv => NoWakeAfterClose
  BY DEF HInv, Closing, NoWakeAfterClose
<1> QED BY <1>1, HostInvariant, PTL

(* Once a detach has found the owner idle no callback is inside the plugin,  *)
(* neither the driver's, nor a worker's, nor one from observe_workers.      *)
THEOREM NoCallbackOnceIdle == Spec => []NoCallbackAfterIdle
<1>1. HInv => NoCallbackAfterIdle
  BY DEF HInv, Gate, Counted, CallsCounted, NoCallbackAfterIdle
<1> QED BY <1>1, HostInvariant, PTL
===============================================================================
