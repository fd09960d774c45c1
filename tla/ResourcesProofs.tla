---------------------------- MODULE ResourcesProofs ----------------------------
(***************************************************************************)
(* What holds of a plugin's resources for any number of pollers, any scenes, *)
(* delays and clocks.                                                      *)
(***************************************************************************)
EXTENDS Resources, TLAPS

(* The clocks: what the plugin asked for is what the host's timer has.      *)
Origin(origin) == \A o \in origin : o \in Int /\ origin = {o}
Clocks ==
  /\ real \in Nat /\ logical \in Nat /\ frozen \in BOOLEAN
  /\ Origin(hostOrigin) /\ Origin(guestOrigin)
  /\ due \in Int /\ want = due

(* A future of the plugin keeps the resource it polls, and an operation its  *)
(* registration; only a registration is polled by several.                  *)
Kinds(p) == Kind(poll[p].at)
Borrows ==
  /\ \A p \in Pollers : poll[p].pc \in Waiting => held[Kinds(p)]
  /\ \A p, q \in Pollers :
       poll[p].pc \in Waiting /\ poll[q].pc \in Waiting /\ Kinds(p) = Kinds(q) /\ Kinds(p) # "io"
         => p = q
  /\ held["op"] => held["io"]
  /\ \A k \in AllKinds : value[k] \in {"none", "gone"} => ~held[k]

(* The stop closes one resource at a time.                                  *)
Closes ==
  /\ closing \subseteq toClose
  /\ stage = "running" => closing = {}
  /\ \A k \in closing : value[k] = "closed" /\ closing = {k}

(* The resource's waker is that of the last who polled it, ...              *)
LastWaker ==
  \A p \in Pollers : LET k == Kinds(p) IN
    \/ poll[p].pc = "stored" /\ value[k] = "open"
    \/ poll[p].pc = "asleep" /\ (value[k] = "open" \/ k \in closing)
    => waker[k] = p \/ poll[p].displaced

(* An event that a poller has been given is one of its direction, ...       *)
Direction(s) == IF s = "write" THEN {1, 3, 6} ELSE {0, 2, 6}
Given ==
  \A p \in Pollers : poll[p].pc \in {"got", "blocked"} =>
    /\ poll[p].at \in {"read", "write"}
    /\ poll[p].event.bits \subseteq Direction(poll[p].at)
    /\ poll[p].event.tick <= tick

(* ... and what came after it is on its way under a tick of its own: a      *)
(* behaviour's events are fewer than the ticks.                             *)
Size(S) == (IF "read" \in S THEN 1 ELSE 0) + (IF "write" \in S THEN 1 ELSE 0)
Ticks == Size(avail) <= events /\ tick + Size(edge) <= events /\ events <= 255
Later ==
  value["io"] = "open" =>
    \A p \in Pollers :
      poll[p].pc = "blocked" /\ poll[p].event.tick = tick =>
        poll[p].at \notin avail \/ poll[p].at \in edge

(* The type invariant by who changes what.                                  *)
Places == Waiting \cup {"idle", "failed", "ended"}
Events == [tick : 0..255, bits : SUBSET (0..6)]
Records == [pc : Places, at : Sources, event : Events, displaced : BOOLEAN, replaced : BOOLEAN]
OwnerTypes ==
  /\ accepting \in BOOLEAN /\ stage \in Stages /\ scene \in Scenes
  /\ toClose \subseteq AllKinds /\ closing \subseteq AllKinds
ResTypes ==
  /\ held \in [AllKinds -> BOOLEAN] /\ value \in [AllKinds -> {"none", "open", "closed", "gone"}]
  /\ waker \in [AllKinds -> Pollers \cup {Nobody}] /\ slot \in [Sources -> Pollers \cup {Nobody}]
IoTypes ==
  /\ ready \subseteq 0..5 /\ tick \in 0..255 /\ shutdown \in BOOLEAN
  /\ avail \subseteq {"read", "write"} /\ edge \subseteq {"read", "write"}
  /\ events \in 0..scene.events /\ pending \in BOOLEAN /\ dumped \in BOOLEAN
Types == OwnerTypes /\ ResTypes /\ poll \in [Pollers -> Records] /\ IoTypes

Rest ==
  /\ Types /\ Borrows /\ Closes /\ LastWaker /\ ClosedWakesSleeper
  /\ Given /\ Ticks /\ Later /\ NoLostReadiness
RInv == Clocks /\ Rest

-----------------------------------------------------------------------------
(* Offsets: what crosses the interface against an origin comes out as it     *)
(* went in, on whichever side of the origin it lies.                        *)
LEMMA OffsetRoundTrip ==
  ASSUME NEW o \in Int, NEW i \in Int
  PROVE  /\ Apply(Between(o, i), o) = i /\ Remove(Between(o, i), i) = o
         /\ \A j \in Int : /\ Apply(Between(o, i), j) = j + (i - o)
                           /\ Remove(Between(o, i), j) = j - (i - o)
BY DEF Apply, Between, Remove

(* The deadline reaches the host's timer as the time the plugin meant.      *)
LEMMA DeadlineMeant ==
  ASSUME Clocks, NEW delay \in Delays, NEW late \in Nat, Deadline(delay, late)
  PROVE  Clocks'
<1>1. delay \in Int /\ late \in Int /\ real \in Int /\ logical \in Int
  BY ResourcesAssumption DEF Clocks
<1> DEFINE origin == HostOrigin(hostOrigin, real)
           host == CHOOSE o \in origin : TRUE
           sample == Sample(host, real, logical)
           guests == GuestOrigin(guestOrigin, sample, real, late)
           guest == CHOOSE o \in guests : TRUE
           deadline == Apply(sample.logical, guest) + delay
<1>2. origin = {host} /\ host \in Int
  <2>1. CASE hostOrigin = {}
    BY <1>1, <2>1 DEF HostOrigin
  <2>2. CASE hostOrigin # {}
    <3>1. PICK o \in hostOrigin : o \in Int /\ hostOrigin = {o}
      BY <2>2 DEF Clocks, Origin
    <3> QED BY <2>2, <3>1 DEF HostOrigin
  <2> QED BY <2>1, <2>2
<1>3. guest \in Int
  <2>1. CASE guestOrigin = {}
    <3>1. Remove(sample.realtime, real + late) \in Int
      BY <1>1, <1>2, OffsetRoundTrip DEF Sample
    <3>2. guests = {Remove(sample.realtime, real + late)}
      BY <2>1 DEF GuestOrigin
    <3> HIDE DEF guests
    <3> QED BY <3>1, <3>2
  <2>2. CASE guestOrigin # {}
    BY <2>2 DEF Clocks, Origin, GuestOrigin
  <2> QED BY <2>1, <2>2
<1>4. Apply(sample.logical, guest) = guest + (logical - host)
  <2>1. sample.logical = Between(host, logical)
    BY DEF Sample
  <2> HIDE DEF sample, host, guest
  <2> QED BY <1>1, <1>2, <1>3, <2>1, OffsetRoundTrip
<1>5. deadline \in Int /\ deadline - guest = logical - host + delay
  BY <1>1, <1>2, <1>3, <1>4
<1>6. Apply(Between(guest, deadline), host) = logical + delay
  <2> HIDE DEF deadline, host, guest
  <2>1. Apply(Between(guest, deadline), host) = host + (deadline - guest)
    BY <1>2, <1>3, <1>5, OffsetRoundTrip
  <2> QED BY <1>1, <1>2, <1>3, <1>5, <2>1
<1>7. /\ hostOrigin' = {host} /\ guestOrigin' = {guest} /\ due' = Apply(Between(guest, deadline), host)
      /\ want' = logical + delay /\ UNCHANGED <<real, logical, frozen>>
  BY <1>2 DEF Deadline
<1>8. Origin(hostOrigin)' /\ Origin(guestOrigin)'
  <2> HIDE DEF host, guest
  <2> QED BY <1>2, <1>3, <1>7 DEF Origin
<1>9. due' \in Int /\ want' = due'
  BY <1>1, <1>6, <1>7
<1> QED BY <1>7, <1>8, <1>9 DEF Clocks

LEMMA ClocksNext == Clocks /\ [Next]_vars => Clocks'
<1> SUFFICES ASSUME Clocks, [Next]_vars PROVE Clocks'
  OBVIOUS
<1>1. ASSUME UNCHANGED <<clockVars, timerVars>> PROVE Clocks'
  BY <1>1 DEF Clocks, Origin, clockVars, timerVars
<1>2. CASE Tick \/ TimeControl
  <2>1. real' \in Nat /\ logical' \in Nat /\ frozen' \in BOOLEAN
    <3>1. CASE Tick
      BY <3>1 DEF Tick, Clocks
    <3>2. CASE TimeControl
      <4>1. real' = real /\ (logical' = logical \/ logical' = logical + 1)
        BY <3>2 DEF TimeControl, Pause, Resume, Advance
      <4>2. frozen' \in BOOLEAN
        BY <3>2 DEF TimeControl, Pause, Resume, Advance, Clocks
      <4>3. real' \in Nat /\ logical' \in Nat
        BY <4>1 DEF Clocks
      <4> QED BY <4>2, <4>3
    <3> QED BY <1>2, <3>1, <3>2
  <2>2. UNCHANGED <<hostOrigin, guestOrigin, due, want>>
    BY <1>2 DEF Tick, TimeControl, timerVars
  <2> QED BY <2>1, <2>2 DEF Clocks, Origin
<1>3. ASSUME NEW d \in Delays, (\E l \in Late : CreateTimer(d, l)) \/ (\E p \in Pollers : ResetTimer(p, d))
      PROVE  Clocks'
  <2>1. CASE \E l \in Late : CreateTimer(d, l)
    BY <2>1, ResourcesAssumption, DeadlineMeant DEF CreateTimer
  <2>2. CASE \E p \in Pollers : ResetTimer(p, d)
    <3>1. CASE Deadline(d, 0)
      BY <3>1, DeadlineMeant
    <3> QED BY <1>1, <2>2, <3>1 DEF ResetTimer
  <2> QED BY <1>3, <2>1, <2>2
<1>4. CASE UNCHANGED vars
  BY <1>1, <1>4 DEF vars
<1>5. CASE Register \/ StartReady \/ SubscribeSignal \/ StartDump
  BY <1>1, <1>5 DEF Register, StartReady, SubscribeSignal, StartDump
<1>6. CASE Deliver("read") \/ Deliver("write") \/ DriverShutdown \/ FireTimer \/ Stop \/ WakeActivities
  BY <1>1, <1>6 DEF Deliver, DriverShutdown, FireTimer, Stop, WakeActivities
<1>7. CASE \E k \in AllKinds : Release(k) \/ Notify(k) \/ CloseValue(k) \/ CloseWaker(k)
  BY <1>1, <1>7 DEF Release, Notify, CloseValue, CloseWaker
<1>8. CASE \E s \in scene.using \cap {"read", "write", "op"} : Arrive(IF s = "op" THEN "read" ELSE s)
  BY <1>1, <1>8 DEF Arrive
<1>9. CASE \E p \in Pollers : \/ \E s \in scene.using : StoreWaker(p, s) \/ TryReady(p, s)
                              \/ PollValue(p) \/ GiveUp(p) \/ Operate(p) \/ Clear(p) \/ EndPoller(p)
  BY <1>1, <1>9 DEF StoreWaker, TryReady, PollValue, GiveUp, Operate, Clear, EndPoller
<1> QED BY <1>2, <1>3, <1>4, <1>5, <1>6, <1>7, <1>8, <1>9 DEF Next

-----------------------------------------------------------------------------
(* What a step makes of the pollers *)

LEMMA AtRecord ==
  ASSUME NEW pc \in Places, NEW s \in Sources, NEW e \in Events
  PROVE  /\ At(pc, s, e) \in Records /\ Resting(pc) \in Records /\ NoEvent \in Events
         /\ At(pc, s, e).pc = pc /\ At(pc, s, e).at = s /\ At(pc, s, e).event = e
         /\ At(pc, s, e).displaced = FALSE /\ Resting(pc).pc = pc
<1>1. NoEvent \in Events
  BY DEF NoEvent, Events
<1> QED BY <1>1 DEF At, Resting, Records, Sources, AllKinds

(* Who waits in his place, with the event he has, and who may be displaced.  *)
Settled == {"stored", "asleep", "got", "blocked"}
Still(q) ==
  /\ poll'[q].pc \in Waiting => poll[q].pc \in Waiting /\ poll'[q].at = poll[q].at
  /\ poll'[q].pc \in Settled =>
       /\ poll'[q].pc = poll[q].pc /\ poll'[q].at = poll[q].at /\ poll'[q].event = poll[q].event
       /\ poll[q].displaced => poll'[q].displaced
Calm == poll' \in [Pollers -> Records] /\ \A q \in Pollers : Still(q)

LEMMA StillSame == \A q \in Pollers : poll'[q] = poll[q] => Still(q)
BY DEF Still, Settled, Waiting

LEMMA WokenCalm ==
  ASSUME poll \in [Pollers -> Records], NEW S, poll' = Woken(S)
  PROVE  Calm /\ \A q \in Pollers : q \in S => poll'[q].pc # "asleep"
<1>1. \A q \in Pollers : poll[q] \in Records /\ poll[q].at \in Sources
  BY DEF Records
<1>2. \A q \in Pollers : /\ At("awake", poll[q].at, NoEvent) \in Records
                         /\ At("awake", poll[q].at, NoEvent).pc = "awake"
                         /\ At("awake", poll[q].at, NoEvent).at = poll[q].at
  <2>1. "awake" \in Places
    BY DEF Places, Waiting
  <2>2. NoEvent \in Events
    BY DEF NoEvent, Events
  <2> SUFFICES ASSUME NEW q \in Pollers
               PROVE  /\ At("awake", poll[q].at, NoEvent) \in Records
                      /\ At("awake", poll[q].at, NoEvent).pc = "awake"
                      /\ At("awake", poll[q].at, NoEvent).at = poll[q].at
    OBVIOUS
  <2>3. poll[q].at \in Sources
    BY <1>1
  <2>4. At("awake", poll[q].at, NoEvent) \in Records
    BY <2>1, <2>2, <2>3, AtRecord
  <2> QED BY <2>4 DEF At
<1>3. \A q \in Pollers : poll'[q] = IF q \in S /\ poll[q].pc = "asleep"
                                    THEN At("awake", poll[q].at, NoEvent) ELSE poll[q]
  BY DEF Woken
<1>4. poll' \in [Pollers -> Records]
  BY <1>1, <1>2 DEF Woken
<1>5. \A q \in Pollers : Still(q)
  BY <1>2, <1>3, StillSame DEF Still, Settled, Waiting
<1>6. \A q \in Pollers : q \in S => poll'[q].pc # "asleep"
  BY <1>2, <1>3
<1> QED BY <1>4, <1>5, <1>6 DEF Calm

LEMMA RestsCalm ==
  ASSUME poll \in [Pollers -> Records], NEW p \in Pollers, NEW pc \in {"idle", "failed", "ended"},
         Rests(p, pc)
  PROVE  Calm
<1>1. Resting(pc) \in Records
  <2>1. pc \in Places /\ "read" \in Sources /\ NoEvent \in Events
    BY DEF Places, Sources, NoEvent, Events
  <2> QED BY <2>1, AtRecord
<1>2. \A q \in Pollers : poll'[q] = IF q = p THEN Resting(pc) ELSE poll[q]
  BY DEF Rests
<1>3. Resting(pc).pc = pc
  BY DEF Resting, At
<1>4. \A q \in Pollers : Still(q)
  BY <1>2, <1>3, StillSame DEF Still, Settled, Waiting
<1> QED BY <1>1, <1>4 DEF Calm, Rests

-----------------------------------------------------------------------------
(* What a calm step leaves as it was *)

LEMMA BorrowsCalm ==
  ASSUME Borrows, Calm, UNCHANGED <<held, value>>
  PROVE  Borrows'
BY DEF Borrows, Calm, Still, Kinds

LEMMA WakersCalm ==
  ASSUME LastWaker, ClosedWakesSleeper, Calm, UNCHANGED <<value, waker, closing>>
  PROVE  LastWaker' /\ ClosedWakesSleeper'
BY DEF LastWaker, ClosedWakesSleeper, Calm, Still, Settled, Kinds

LEMMA IoCalm ==
  ASSUME Given, Ticks, Later, NoLostReadiness, Calm, UNCHANGED <<ready, tick, shutdown, avail, edge>>,
         value'["io"] = "open" => value["io"] = "open", Registered' => Registered,
         events <= events', events' \in 0..255, events \in Int, tick \in Int
  PROVE  Given' /\ Ticks' /\ Later' /\ NoLostReadiness'
<1>1. Given' /\ Later'
  BY DEF Given, Later, Calm, Still, Settled
<1>2. Ticks'
  BY DEF Ticks, Size
<1>3. NoLostReadiness'
  BY DEF NoLostReadiness, IsReady
<1> QED BY <1>1, <1>2, <1>3

LEMMA CalmStep ==
  ASSUME Rest, Calm, UNCHANGED <<held, value, waker, ownerVars, scene, ready, tick, shutdown, avail, edge>>,
         slot' \in [Sources -> Pollers \cup {Nobody}], events <= events',
         events' \in 0..scene.events, pending' \in BOOLEAN, dumped' \in BOOLEAN
  PROVE  Rest'
<1>1. Types /\ scene.events \in 0..255 /\ events \in Int /\ tick \in Int
  BY ResourcesAssumption DEF Rest, Types, OwnerTypes, IoTypes
<1>2. Types'
  BY <1>1 DEF Types, OwnerTypes, ResTypes, IoTypes, Calm, ownerVars
<1>3. Borrows'
  BY BorrowsCalm DEF Rest
<1>4. Closes'
  BY DEF Rest, Closes, ownerVars
<1>5. LastWaker' /\ ClosedWakesSleeper'
  BY WakersCalm DEF Rest, ownerVars
<1>6. events' \in 0..255 /\ (Registered' => Registered)
  BY <1>1 DEF Registered
<1>7. Given' /\ Ticks' /\ Later' /\ NoLostReadiness'
  BY <1>1, <1>6, IoCalm DEF Rest
<1> QED BY <1>2, <1>3, <1>4, <1>5, <1>7 DEF Rest

LEMMA Same == poll \in [Pollers -> Records] /\ UNCHANGED poll => Calm
BY StillSame DEF Calm

(* The steps that change no resource.                                       *)
LEMMA QuietSteps ==
  ASSUME Rest,
         \/ FireTimer \/ Tick \/ TimeControl \/ UNCHANGED vars
         \/ \E k \in AllKinds : Notify(k)
         \/ \E p \in Pollers : (\E d \in Delays : ResetTimer(p, d)) \/ GiveUp(p) \/ EndPoller(p)
  PROVE  Rest'
<1>1. /\ poll \in [Pollers -> Records] /\ slot \in [Sources -> Pollers \cup {Nobody}]
      /\ events \in 0..scene.events /\ scene.events \in 0..255
      /\ pending \in BOOLEAN /\ dumped \in BOOLEAN
  BY ResourcesAssumption DEF Rest, Types, OwnerTypes, ResTypes, IoTypes
<1>2. UNCHANGED <<held, value, waker, ownerVars, scene, ready, tick, shutdown, avail, edge>>
  BY DEF FireTimer, Tick, TimeControl, Notify, ResetTimer, GiveUp, EndPoller, vars, ownerVars, resVars, ioVars
<1>3. Calm
  <2>1. CASE \E S : poll' = Woken(S)
    BY <1>1, <2>1, WokenCalm
  <2>2. CASE \E p \in Pollers, pc \in {"idle", "failed", "ended"} : Rests(p, pc)
    BY <1>1, <2>2, RestsCalm
  <2>3. CASE UNCHANGED poll
    BY <1>1, <2>3, Same
  <2> QED BY <2>1, <2>2, <2>3 DEF FireTimer, Tick, TimeControl, Notify, ResetTimer, GiveUp, EndPoller,
    WakeSlots, vars
<1>4. slot' \in [Sources -> Pollers \cup {Nobody}]
  BY <1>1 DEF FireTimer, Tick, TimeControl, Notify, ResetTimer, GiveUp, EndPoller, WakeSlots, vars
<1>5. pending' \in BOOLEAN /\ dumped' \in BOOLEAN
  BY <1>1 DEF FireTimer, Tick, TimeControl, Notify, ResetTimer, GiveUp, EndPoller, otherVars, vars
<1>6. events' \in 0..scene.events /\ events <= events'
  <2>1. CASE UNCHANGED events
    BY <1>1, <2>1
  <2>2. CASE \E k \in AllKinds : Notify(k)
    BY <1>1, <2>2 DEF Notify
  <2> QED BY <2>1, <2>2 DEF FireTimer, Tick, TimeControl, ResetTimer, GiveUp, EndPoller, ioVars, vars
<1> QED BY <1>2, <1>3, <1>4, <1>5, <1>6, CalmStep

-----------------------------------------------------------------------------
(* HostResource::new *)

LEMMA OwnSteps ==
  ASSUME Rest,
         \/ Register \/ StartReady \/ SubscribeSignal \/ StartDump
         \/ \E d \in Delays, l \in Late : CreateTimer(d, l)
  PROVE  Rest'
<1>1. Types /\ Borrows /\ Closes /\ Given /\ Ticks /\ Later /\ NoLostReadiness
      /\ LastWaker /\ ClosedWakesSleeper
  BY DEF Rest
<1>2. PICK k \in AllKinds :
        /\ Own(k) /\ (k = "op" => held["io"] /\ value["io"] = "open")
        /\ k = "io" <=> Register
  BY DEF Register, StartReady, SubscribeSignal, StartDump, CreateTimer, AllKinds
<1>3. /\ ~held[k] /\ value[k] \in {"none", "gone"}
      /\ held' = [held EXCEPT ![k] = TRUE] /\ value' = [value EXCEPT ![k] = "open"]
      /\ waker' = [waker EXCEPT ![k] = Nobody] /\ UNCHANGED <<ownerVars, scene, poll, slot>>
  BY <1>2 DEF Own, Register, StartReady, SubscribeSignal, StartDump, CreateTimer
<1>4. \A p \in Pollers : poll[p].pc \in Waiting => Kinds(p) # k
  BY <1>1, <1>3 DEF Borrows
<1>5. /\ held \in [AllKinds -> BOOLEAN] /\ value \in [AllKinds -> {"none", "open", "closed", "gone"}]
      /\ waker \in [AllKinds -> Pollers \cup {Nobody}] /\ poll \in [Pollers -> Records]
      /\ "io" \in AllKinds /\ "op" \in AllKinds
  BY <1>1 DEF Types, ResTypes, AllKinds
<1>6. Borrows'
  <2>1. held'["op"] => held'["io"]
    BY <1>1, <1>2, <1>3, <1>5 DEF Borrows
  <2>2. \A j \in AllKinds : /\ held[j] => held'[j]
                            /\ value'[j] \in {"none", "gone"} => value[j] = value'[j] /\ j # k
                            /\ j # k => held'[j] = held[j]
    BY <1>3, <1>5
  <2>3. \A p \in Pollers : Kinds(p) \in AllKinds
    BY <1>5 DEF Kinds, Kind, Records, Sources, AllKinds
  <2>4. \A p \in Pollers : poll'[p].pc \in Waiting => held'[Kinds(p)']
    BY <1>1, <1>3, <2>2, <2>3 DEF Borrows, Kinds
  <2>5. \A j \in AllKinds : value'[j] \in {"none", "gone"} => ~held'[j]
    BY <1>1, <2>2 DEF Borrows
  <2>6. \A p, q \in Pollers :
          poll'[p].pc \in Waiting /\ poll'[q].pc \in Waiting /\ Kinds(p)' = Kinds(q)' /\ Kinds(p)' # "io"
            => p = q
    BY <1>1, <1>3 DEF Borrows, Kinds
  <2> QED BY <2>1, <2>4, <2>5, <2>6 DEF Borrows
<1>7. Closes'
  BY <1>1, <1>3, <1>5 DEF Closes, ownerVars, Types, OwnerTypes
<1>8. LastWaker' /\ ClosedWakesSleeper'
  <2>1. \A p \in Pollers : poll[p].pc \in {"stored", "asleep"} =>
          value'[Kinds(p)] = value[Kinds(p)] /\ waker'[Kinds(p)] = waker[Kinds(p)]
    BY <1>3, <1>4, <1>5 DEF Waiting
  <2> QED BY <1>1, <1>3, <2>1 DEF LastWaker, ClosedWakesSleeper, Kinds, ownerVars
<1>9. Types'
  <2>1. OwnerTypes' /\ ResTypes' /\ UNCHANGED poll
    BY <1>1, <1>3 DEF Types, OwnerTypes, ResTypes, ownerVars
  <2>2. IoTypes'
    <3>1. pending' \in BOOLEAN /\ dumped' \in BOOLEAN
      BY <1>1 DEF Register, StartReady, SubscribeSignal, StartDump, CreateTimer, Types, IoTypes, otherVars
    <3>2. CASE Register
      BY <1>1, <1>3, <3>1, <3>2 DEF Register, Types, IoTypes
    <3>3. CASE UNCHANGED ioVars
      BY <1>1, <1>3, <3>1, <3>3 DEF Types, IoTypes, ioVars
    <3> QED BY <3>2, <3>3 DEF StartReady, SubscribeSignal, StartDump, CreateTimer
  <2> QED BY <1>1, <2>1, <2>2 DEF Types
<1>10. Given' /\ Ticks' /\ Later' /\ NoLostReadiness'
  <2>1. CASE k = "io"
    <3>1. ready' = {} /\ tick' = 0 /\ edge' = avail /\ UNCHANGED <<avail, events>>
      BY <1>2, <2>1 DEF Register
    <3>2. \A p \in Pollers : poll[p].pc \notin {"got", "blocked"}
      <4>1. \A p \in Pollers : poll[p].pc \in {"got", "blocked"} => Kinds(p) = "io"
        BY <1>1 DEF Given, Kinds, Kind
      <4> QED BY <1>4, <2>1, <4>1 DEF Waiting
    <3>3. Given' /\ Later' /\ NoLostReadiness'
      BY <1>3, <3>1, <3>2 DEF Given, Later, NoLostReadiness
    <3>4. Ticks'
      <4>1. events \in Int /\ Size(avail) \in Int
        BY <1>1 DEF Types, IoTypes, Size
      <4> QED BY <1>1, <3>1, <4>1 DEF Ticks, Size
    <3> QED BY <3>3, <3>4
  <2>2. CASE k # "io"
    <3>1. UNCHANGED <<ready, tick, shutdown, avail, edge, events>>
      BY <1>2, <2>2 DEF StartReady, SubscribeSignal, StartDump, CreateTimer, ioVars
    <3>2. value'["io"] = value["io"] /\ (Registered' => Registered)
      BY <1>2, <1>3, <1>5, <2>2 DEF Registered
    <3>3. Calm
      BY <1>3, <1>5, Same
    <3>4. events \in 0..255 /\ tick \in Int
      BY <1>1, ResourcesAssumption DEF Types, OwnerTypes, IoTypes
    <3> QED BY <1>1, <3>1, <3>2, <3>3, <3>4, IoCalm
  <2> QED BY <2>1, <2>2
<1> QED BY <1>6, <1>7, <1>8, <1>9, <1>10 DEF Rest

-----------------------------------------------------------------------------
(* The descriptor and who polls it *)

(* A step that is one poller's.                                             *)
LEMMA Moves ==
  ASSUME Borrows, LastWaker, ClosedWakesSleeper, NEW p \in Pollers, \A q \in Pollers \ {p} : Still(q),
         UNCHANGED <<held, value, waker, closing>>, poll'[p].pc \notin {"stored", "asleep"},
         poll'[p].pc \in Waiting =>
           held[Kinds(p)'] /\ (Kinds(p)' = "io" \/ (poll[p].pc \in Waiting /\ Kinds(p)' = Kinds(p)))
  PROVE  Borrows' /\ LastWaker' /\ ClosedWakesSleeper'
<1>1. Borrows'
  <2>1. \A q \in Pollers : poll'[q].pc \in Waiting => held'[Kinds(q)']
    BY DEF Borrows, Still, Kinds
  <2>2. \A q, r \in Pollers :
          poll'[q].pc \in Waiting /\ poll'[r].pc \in Waiting /\ Kinds(q)' = Kinds(r)' /\ Kinds(q)' # "io"
            => q = r
    BY DEF Borrows, Still, Kinds
  <2> QED BY <2>1, <2>2 DEF Borrows
<1>2. LastWaker' /\ ClosedWakesSleeper'
  BY DEF LastWaker, ClosedWakesSleeper, Still, Settled, Kinds
<1> QED BY <1>1, <1>2

(* What the host makes of an interest, what clearing it takes away, and the  *)
(* same for the other direction.                                           *)
LEMMA Directions ==
  ASSUME NEW s \in {"read", "write"}
  PROVE  /\ Mask(Interest(s)) = IF s = "read" THEN {0, 2} ELSE {1, 3}
         /\ host_interest(telekio_interest(Interest(s))) = Interest(s)
<1>1. Mask(Interest(s)) = IF s = "read" THEN {0, 2} ELSE {1, 3}
  BY DEF Mask, Interest, TokioBit
<1>2. host_interest(telekio_interest(Interest(s))) = Interest(s)
  <2>1. DOMAIN IoInterest = {"READABLE", "WRITABLE", "PRIORITY", "ERROR"}
        /\ IoInterest["READABLE"] = 0 /\ IoInterest["WRITABLE"] = 1
        /\ IoInterest["PRIORITY"] = 2 /\ IoInterest["ERROR"] = 3
    BY DEF IoInterest
  <2>2. telekio_interest(Interest(s)) = IF s = "read" THEN {0} ELSE {1}
    BY <2>1 DEF telekio_interest, Interest
  <2> QED BY <2>1, <2>2 DEF host_interest, Interest
<1> QED BY <1>1, <1>2

LEMMA MappedReady ==
  ASSUME NEW s \in {"read", "write"}, NEW r, r \subseteq (IF s = "read" THEN {0, 2} ELSE {1, 3})
  PROVE  map_ready(r) \subseteq (IF s = "read" THEN {0, 2} ELSE {1, 3})
<1>1. /\ Flags = {"READABLE", "WRITABLE", "READ_CLOSED", "WRITE_CLOSED", "PRIORITY", "ERROR"}
      /\ IoReady["READABLE"] = 0 /\ IoReady["WRITABLE"] = 1 /\ IoReady["READ_CLOSED"] = 2
      /\ IoReady["WRITE_CLOSED"] = 3 /\ IoReady["PRIORITY"] = 4 /\ IoReady["ERROR"] = 5
      /\ TokioBit["READABLE"] = 0 /\ TokioBit["WRITABLE"] = 1 /\ TokioBit["READ_CLOSED"] = 2
      /\ TokioBit["WRITE_CLOSED"] = 3 /\ TokioBit["PRIORITY"] = 4 /\ TokioBit["ERROR"] = 5
      /\ TokioBit.READ_CLOSED = 2 /\ TokioBit.WRITE_CLOSED = 3
  BY DEF Flags, IoReady, TokioBit
<1>2. \A f \in Flags : Has(r, f) => IoReady[f] \in (IF s = "read" THEN {0, 2} ELSE {1, 3})
  BY <1>1 DEF Has
<1> QED BY <1>2 DEF map_ready

LEMMA EventOfDirection ==
  ASSUME NEW s \in {"read", "write", "op"}
  PROVE  LET d == IF s = "op" THEN "read" ELSE s IN
         /\ PolledEvent(s).bits \subseteq Direction(d) /\ PolledEvent(s).tick = tick
         /\ PolledEvent(s) = [tick |-> tick, bits |-> PolledEvent(s).bits]
<1> DEFINE d == IF s = "op" THEN "read" ELSE s
<1>1. d \in {"read", "write"} /\ Interest(s) = Interest(d)
  BY DEF Interest
<1>2. PolledEvent(s).bits = host_ready(ready \cap Mask(Interest(d)), shutdown)
  BY <1>1, Directions DEF PolledEvent
<1>3. map_ready(ready \cap Mask(Interest(d))) \subseteq (IF d = "read" THEN {0, 2} ELSE {1, 3})
  BY <1>1, Directions, MappedReady
<1>4. IoReady.SHUTDOWN = 6
  BY DEF IoReady
<1>5. PolledEvent(s).bits \subseteq Direction(d)
  BY <1>1, <1>2, <1>3, <1>4 DEF host_ready, Direction
<1> QED BY <1>5 DEF PolledEvent

(* Clearing what one direction was given leaves the other's readiness.      *)
LEMMA ClearsOwn ==
  ASSUME NEW s \in {"read", "write"}, NEW d \in {"read", "write"}, d # s, NEW r,
         NEW bits, bits \subseteq Direction(s)
  PROVE  Cleared(r, tokio_ready(from_bits(bits))) \cap Mask(Interest(d)) = r \cap Mask(Interest(d))
<1>1. /\ IoReady["READABLE"] = 0 /\ IoReady["WRITABLE"] = 1 /\ IoReady["READ_CLOSED"] = 2
      /\ IoReady["WRITE_CLOSED"] = 3 /\ IoReady["PRIORITY"] = 4 /\ IoReady["ERROR"] = 5
      /\ TokioBit["READABLE"] = 0 /\ TokioBit["WRITABLE"] = 1 /\ TokioBit["READ_CLOSED"] = 2
      /\ TokioBit["WRITE_CLOSED"] = 3 /\ TokioBit["PRIORITY"] = 4 /\ TokioBit["ERROR"] = 5
      /\ Flags = {"READABLE", "WRITABLE", "READ_CLOSED", "WRITE_CLOSED", "PRIORITY", "ERROR"}
  BY DEF Flags, IoReady, TokioBit
<1>2. \A f \in Flags : TokioBit[f] = IoReady[f]
  BY <1>1
<1>3. tokio_ready(from_bits(bits)) \subseteq Direction(s)
  BY <1>2 DEF tokio_ready, from_bits
<1>4. tokio_ready(from_bits(bits)) \cap Mask(Interest(d)) = {}
  BY <1>3, Directions DEF Direction
<1> QED BY <1>4 DEF Cleared

LEMMA DriverSteps ==
  ASSUME Rest, \/ Deliver("read") \/ Deliver("write") \/ DriverShutdown
               \/ \E d \in {"read", "write"} : Arrive(d)
  PROVE  Rest'
<1>1. Types /\ Borrows /\ Closes /\ Given /\ Ticks /\ Later /\ NoLostReadiness
      /\ LastWaker /\ ClosedWakesSleeper
  BY DEF Rest
<1>2. /\ poll \in [Pollers -> Records] /\ slot \in [Sources -> Pollers \cup {Nobody}]
      /\ avail \subseteq {"read", "write"} /\ edge \subseteq {"read", "write"} /\ ready \subseteq 0..5
      /\ tick \in 0..255 /\ events \in 0..scene.events /\ scene.events \in 0..255
  BY <1>1, ResourcesAssumption DEF Types, OwnerTypes, ResTypes, IoTypes
<1>3. UNCHANGED <<held, value, waker, ownerVars, scene, otherVars>> /\ Registered' = Registered
  BY DEF Deliver, DriverShutdown, Arrive, resVars, Registered
<1>4. Calm
  <2>1. UNCHANGED poll \/ \E S : poll' = Woken(S)
    BY DEF Deliver, DriverShutdown, Arrive, WakeSlots
  <2> QED BY <1>2, <2>1, WokenCalm, Same
<1>5. Borrows' /\ LastWaker' /\ ClosedWakesSleeper' /\ Closes'
  BY <1>1, <1>3, <1>4, BorrowsCalm, WakersCalm DEF Closes, ownerVars
<1>6. slot' \in [Sources -> Pollers \cup {Nobody}]
  BY <1>2 DEF Deliver, DriverShutdown, Arrive, WakeSlots
<1>7. ASSUME IoTypes', Given', Ticks', Later', NoLostReadiness' PROVE Rest'
  BY <1>1, <1>3, <1>4, <1>5, <1>6, <1>7 DEF Rest, Types, OwnerTypes, ResTypes, Calm, ownerVars
<1>8. ASSUME NEW d \in {"read", "write"}, Deliver(d) PROVE Rest'
  <2>1. /\ d \in edge /\ edge' = edge \ {d} /\ UNCHANGED <<shutdown, avail, events>>
        /\ ready \subseteq ready' /\ ready' \subseteq 0..5
        /\ (IF d = "read" THEN 0 ELSE 1) \in ready'
    BY <1>2, <1>8 DEF Deliver, TokioBit
  <2>2. /\ Size(edge) \in Int /\ Size(edge) = Size(edge') + 1 /\ Size(edge') \in Nat
        /\ tick \in Nat /\ events \in Int
    BY <1>2, <2>1 DEF Size
  <2>3. tick' = tick + 1 /\ tick' \in 0..255 /\ tick' + Size(edge') <= events
    <3>1. tick + 1 + Size(edge') <= events /\ events <= 255
      <4>1. tick + Size(edge) <= events /\ events <= 255
        BY <1>1 DEF Ticks
      <4> QED BY <2>2, <4>1
    <3>2. tick + 1 \in 0..255
      BY <2>2, <3>1
    <3>3. tick' = (tick + 1) % 256
      BY <1>8 DEF Deliver
    <3> QED BY <1>2, <2>2, <3>1, <3>2, <3>3
  <2>4. IoTypes'
    BY <1>1, <1>2, <1>3, <2>1, <2>3 DEF Types, IoTypes, otherVars
  <2>5. Ticks'
    <3>1. Size(avail') <= events' /\ events' <= 255
      BY <1>1, <2>1 DEF Ticks, Size
    <3>2. tick' + Size(edge') <= events'
      BY <2>1, <2>3
    <3> QED BY <3>1, <3>2 DEF Ticks, Size
  <2>6. \A p \in Pollers : poll[p].pc \in {"got", "blocked"} => poll[p].event.tick \in Int /\ poll[p].event.tick < tick'
    <3>1. \A p \in Pollers : poll[p].event.tick \in 0..255
      BY <1>2 DEF Records, Events
    <3>2. \A p \in Pollers : poll[p].pc \in {"got", "blocked"} => poll[p].event.tick <= tick
      BY <1>1 DEF Given
    <3>3. \A n \in 0..255 : n <= tick => n \in Int /\ n < tick'
      BY <2>2, <2>3
    <3> QED BY <3>1, <3>2, <3>3
  <2>7. \A p \in Pollers : poll'[p].pc \in {"got", "blocked"} =>
          poll'[p].event.tick < tick' /\ poll'[p].event.tick \in Int
    BY <1>4, <2>6 DEF Calm, Still, Settled
  <2>8. Given'
    <3>1. \A p \in Pollers : poll'[p].pc \in {"got", "blocked"} => poll'[p].event.tick <= tick'
      BY <1>2, <2>3, <2>7
    <3> QED BY <1>1, <1>4, <3>1 DEF Given, Calm, Still, Settled
  <2>9. Later'
    BY <1>2, <2>3, <2>7 DEF Later
  <2>10. NoLostReadiness'
    <3>1. (IF d = "read" THEN 0 ELSE 1) \in ready' \cap Mask(Interest(d))
      BY <2>1, Directions
    <3>2. \A e \in avail : IsReady(e) => IsReady(e)'
      BY <2>1 DEF IsReady
    <3> QED BY <1>1, <1>3, <2>1, <3>1, <3>2 DEF NoLostReadiness, IsReady
  <2> QED BY <1>7, <2>4, <2>5, <2>8, <2>9, <2>10
<1>9. CASE DriverShutdown
  <2>1. shutdown' = TRUE /\ UNCHANGED <<ready, tick, avail, edge, events>>
    BY <1>9 DEF DriverShutdown
  <2>2. IoTypes' /\ Ticks'
    BY <1>1, <1>3, <2>1 DEF Types, IoTypes, Ticks, Size, otherVars
  <2>3. Given' /\ Later'
    BY <1>1, <1>3, <1>4, <2>1 DEF Given, Later, Calm, Still, Settled
  <2>4. NoLostReadiness'
    BY <2>1 DEF NoLostReadiness, IsReady
  <2> QED BY <1>7, <2>2, <2>3, <2>4
<1>10. ASSUME NEW d \in {"read", "write"}, Arrive(d) PROVE Rest'
  <2>1. /\ events' = events + 1 /\ events < scene.events /\ avail' = avail \cup {d}
        /\ edge' = IF Registered THEN edge \cup {d} ELSE edge
        /\ UNCHANGED <<ready, tick, shutdown, poll>>
    BY <1>10 DEF Arrive
  <2>2. events' \in 0..scene.events /\ events' \in 0..255
    BY <1>2, <2>1
  <2>3. IoTypes'
    BY <1>1, <1>2, <1>3, <2>1, <2>2 DEF Types, IoTypes, otherVars
  <2>4. Ticks'
    <3>1. Size(avail') <= Size(avail) + 1 /\ Size(edge') <= Size(edge) + 1
          /\ Size(avail) \in Int /\ Size(edge) \in Int /\ Size(avail') \in Int /\ Size(edge') \in Int
      BY <1>2, <2>1 DEF Size
    <3>2. Size(avail') <= events' /\ tick' + Size(edge') <= events' /\ events' <= 255
      BY <1>1, <1>2, <2>1, <2>2, <3>1 DEF Ticks
    <3> QED BY <3>2 DEF Ticks, Size
  <2>5. Given'
    BY <1>1, <2>1 DEF Given
  <2>6. Later'
    BY <1>1, <1>3, <2>1 DEF Later, Registered
  <2>7. NoLostReadiness'
    BY <1>1, <1>3, <2>1 DEF NoLostReadiness, IsReady
  <2> QED BY <1>7, <2>3, <2>4, <2>5, <2>6, <2>7
<1> QED BY <1>8, <1>9, <1>10

LEMMA OperationSteps ==
  ASSUME Rest, NEW p \in Pollers,
         (\E s \in scene.using : TryReady(p, s)) \/ Operate(p) \/ Clear(p)
  PROVE  Rest'
<1>1. Types /\ Borrows /\ Closes /\ Given /\ Ticks /\ Later /\ NoLostReadiness
      /\ LastWaker /\ ClosedWakesSleeper
  BY DEF Rest
<1>2. /\ poll \in [Pollers -> Records]
      /\ avail \subseteq {"read", "write"} /\ edge \subseteq {"read", "write"} /\ ready \subseteq 0..5
      /\ tick \in 0..255 /\ events \in 0..scene.events /\ scene.events \in 0..255
  BY <1>1, ResourcesAssumption DEF Types, OwnerTypes, ResTypes, IoTypes
<1>3. UNCHANGED <<held, value, waker, ownerVars, scene, slot, otherVars, tick, shutdown, edge, events>>
      /\ Registered' = Registered
  BY DEF TryReady, Operate, Clear, resVars, ioVars, Registered
<1>4. ASSUME poll' \in [Pollers -> Records], ready' \subseteq 0..5, avail' \subseteq avail,
             Borrows', LastWaker', ClosedWakesSleeper', Given', Later', NoLostReadiness'
      PROVE  Rest'
  <2>1. Types'
    BY <1>1, <1>2, <1>3, <1>4 DEF Types, OwnerTypes, ResTypes, IoTypes, ownerVars, otherVars
  <2>2. Ticks'
    <3>1. Size(avail') <= Size(avail) /\ Size(avail) \in Int /\ Size(avail') \in Int
      BY <1>2, <1>4 DEF Size
    <3>2. Size(avail') <= events' /\ tick' + Size(edge') <= events' /\ events' <= 255
      BY <1>1, <1>2, <1>3, <3>1 DEF Ticks
    <3> QED BY <3>2 DEF Ticks, Size
  <2> QED BY <1>1, <1>3, <1>4, <2>1, <2>2 DEF Rest, Closes, ownerVars
<1>5. ASSUME NEW s \in scene.using, TryReady(p, s) PROVE Rest'
  <2>1. /\ poll[p].pc = "idle" /\ s \in {"read", "write"} /\ held["io"]
        /\ poll' = [poll EXCEPT ![p] = At("got", s, PolledEvent(s))]
        /\ UNCHANGED <<ready, avail>>
    BY <1>5 DEF TryReady, ioVars
  <2>2. PolledEvent(s).bits \subseteq Direction(s) /\ PolledEvent(s).tick = tick
        /\ PolledEvent(s) = [tick |-> tick, bits |-> PolledEvent(s).bits]
    BY <2>1, EventOfDirection
  <2>3. PolledEvent(s) \in Events
    BY <1>2, <2>1, <2>2 DEF Events, Direction
  <2>4. At("got", s, PolledEvent(s)) \in Records
    <3>1. "got" \in Places /\ s \in Sources
      BY <2>1 DEF Places, Waiting, Sources
    <3> QED BY <2>3, <3>1, AtRecord
  <2>5. /\ poll'[p].pc = "got" /\ poll'[p].at = s /\ poll'[p].event = PolledEvent(s)
        /\ \A q \in Pollers \ {p} : poll'[q] = poll[q]
    BY <1>2, <2>1 DEF At
  <2>6. Kinds(p)' = "io"
    BY <2>1, <2>5 DEF Kinds, Kind
  <2>7. Borrows' /\ LastWaker' /\ ClosedWakesSleeper'
    BY <1>1, <1>3, <2>1, <2>5, <2>6, StillSame, Moves DEF ownerVars
  <2>8. Given'
    BY <1>1, <1>2, <1>3, <2>1, <2>2, <2>5 DEF Given
  <2>9. Later' /\ NoLostReadiness'
    BY <1>1, <1>3, <2>1, <2>5 DEF Later, NoLostReadiness, IsReady
  <2> QED BY <1>2, <1>4, <2>1, <2>4, <2>7, <2>8, <2>9
<1>6. CASE Operate(p)
  <2>1. /\ poll[p].pc = "got" /\ avail' \subseteq avail /\ UNCHANGED ready
        /\ \/ Rests(p, "idle")
           \/ poll[p].at \notin avail' /\ poll' = [poll EXCEPT ![p].pc = "blocked"]
    BY <1>6 DEF Operate
  <2>2. NoLostReadiness'
    BY <1>1, <1>3, <2>1 DEF NoLostReadiness, IsReady
  <2>3. CASE Rests(p, "idle")
    <3>1. Calm
      BY <1>2, <2>3, RestsCalm
    <3>2. Given' /\ Later'
      BY <1>1, <1>3, <2>1, <3>1 DEF Given, Later, Calm, Still, Settled
    <3> QED BY <1>1, <1>2, <1>3, <1>4, <2>1, <2>2, <3>1, <3>2, BorrowsCalm, WakersCalm DEF Calm, ownerVars
  <2>4. CASE poll[p].at \notin avail' /\ poll' = [poll EXCEPT ![p].pc = "blocked"]
    <3>1. /\ poll'[p].pc = "blocked" /\ poll'[p].at = poll[p].at /\ poll'[p].event = poll[p].event
          /\ \A q \in Pollers \ {p} : poll'[q] = poll[q]
          /\ poll' \in [Pollers -> Records]
      BY <1>2, <2>4 DEF Records, Places, Waiting
    <3>2. Borrows' /\ LastWaker' /\ ClosedWakesSleeper'
      BY <1>1, <1>3, <2>1, <3>1, StillSame, Moves DEF ownerVars, Kinds, Borrows, Waiting
    <3>3. Given' /\ Later'
      BY <1>1, <1>3, <2>1, <2>4, <3>1 DEF Given, Later
    <3> QED BY <1>2, <1>4, <2>1, <2>2, <3>1, <3>2, <3>3
  <2> QED BY <2>1, <2>3, <2>4
<1>7. CASE Clear(p)
  <2>1. /\ poll[p].pc = "blocked" /\ ready' = ClearedReadiness(poll[p].event) /\ Rests(p, "idle")
        /\ UNCHANGED avail
    BY <1>7 DEF Clear
  <2>2. Calm
    BY <1>2, <2>1, RestsCalm
  <2>3. Given' /\ Later'
    BY <1>1, <1>3, <2>1, <2>2 DEF Given, Later, Calm, Still, Settled
  <2>4. ready' \subseteq 0..5
    BY <1>2, <2>1 DEF ClearedReadiness, Cleared
  <2>5. NoLostReadiness'
    <3> DEFINE s == poll[p].at
               bits == poll[p].event.bits
    <3>1. s \in {"read", "write"} /\ bits \subseteq Direction(s)
      BY <1>1, <2>1 DEF Given
    <3>2. CASE value["io"] = "open" /\ poll[p].event.tick = tick
      <4>1. s \notin avail \/ s \in edge
        BY <1>1, <2>1, <3>2 DEF Later
      <4>2. ready' = Cleared(ready, tokio_ready(from_bits(bits)))
        BY <2>1, <3>2 DEF ClearedReadiness
      <4>3. \A d \in avail : d # s => (IsReady(d) => IsReady(d)')
        <5> HIDE DEF s, bits
        <5>1. \A d \in {"read", "write"} : d # s =>
                ready' \cap Mask(Interest(d)) = ready \cap Mask(Interest(d))
          BY <3>1, <4>2, ClearsOwn
        <5> QED BY <1>2, <1>3, <5>1 DEF IsReady
      <4> QED BY <1>1, <1>3, <2>1, <4>1, <4>3 DEF NoLostReadiness
    <3>3. CASE ~(value["io"] = "open" /\ poll[p].event.tick = tick)
      <4>1. ready' = ready
        BY <2>1, <3>3 DEF ClearedReadiness
      <4> QED BY <1>1, <1>3, <2>1, <4>1 DEF NoLostReadiness, IsReady
    <3> QED BY <3>2, <3>3
  <2> QED BY <1>1, <1>2, <1>3, <1>4, <2>1, <2>2, <2>3, <2>4, <2>5, BorrowsCalm, WakersCalm DEF Calm, ownerVars
<1> QED BY <1>5, <1>6, <1>7

-----------------------------------------------------------------------------
(* The two ends of a resource *)

LEMMA ReleaseSteps ==
  ASSUME Rest, NEW k \in AllKinds, Release(k)
  PROVE  Rest'
<1>1. /\ Types /\ Borrows /\ Closes /\ Given /\ Ticks /\ Later /\ NoLostReadiness
      /\ LastWaker /\ ClosedWakesSleeper
      /\ UNCHANGED <<ownerVars, waker, scene, poll, ioVars, otherVars>>
  BY DEF Rest, Release
<1>2. /\ held \in [AllKinds -> BOOLEAN] /\ value \in [AllKinds -> {"none", "open", "closed", "gone"}]
      /\ slot \in [Sources -> Pollers \cup {Nobody}] /\ poll \in [Pollers -> Records]
      /\ events \in 0..255 /\ tick \in Int /\ "io" \in AllKinds /\ "op" \in AllKinds
  BY <1>1, ResourcesAssumption DEF Types, OwnerTypes, ResTypes, IoTypes, AllKinds
<1>3. /\ held' = [held EXCEPT ![k] = FALSE] /\ (k = "io" => ~held["op"])
      /\ \A p \in Pollers : poll[p].pc \in Waiting => Kinds(p) # k
      /\ value' = value \/ (value' = [value EXCEPT ![k] = "gone"] /\ k \notin toClose)
  BY DEF Release, Users, Kinds
<1>4. \A j \in AllKinds : /\ held'[j] <=> held[j] /\ j # k
                          /\ value'[j] = value[j] \/ (value'[j] = "gone" /\ j = k)
                          /\ j # k => value'[j] = value[j]
  BY <1>2, <1>3
<1>5. \A p \in Pollers : Kinds(p) \in AllKinds
  BY <1>2 DEF Kinds, Kind, Records, Sources, AllKinds
<1>6. Borrows'
  <2>1. /\ held'["op"] => held'["io"]
        /\ \A j \in AllKinds : value'[j] \in {"none", "gone"} => ~held'[j]
    BY <1>1, <1>2, <1>3, <1>4 DEF Borrows
  <2>2. \A p \in Pollers : poll'[p].pc \in Waiting => held'[Kinds(p)']
    BY <1>1, <1>3, <1>4, <1>5 DEF Borrows, Kinds
  <2> QED BY <1>1, <2>1, <2>2 DEF Borrows, Kinds
<1>7. Closes'
  <2>1. \A j \in closing : value'[j] = value[j]
    <3>1. closing \subseteq toClose /\ closing \subseteq AllKinds
      BY <1>1 DEF Closes, Types, OwnerTypes
    <3>2. CASE value' = value
      BY <3>2
    <3>3. CASE k \notin toClose
      BY <1>4, <3>1, <3>3
    <3> QED BY <1>3, <3>2, <3>3
  <2> QED BY <1>1, <2>1 DEF Closes, ownerVars
<1>8. LastWaker' /\ ClosedWakesSleeper'
  <2>1. \A p \in Pollers : poll[p].pc \in Waiting => value'[Kinds(p)] = value[Kinds(p)]
    BY <1>3, <1>4, <1>5
  <2> QED BY <1>1, <2>1 DEF LastWaker, ClosedWakesSleeper, Kinds, Waiting, ownerVars
<1>9. Types'
  <2>1. value' \in [AllKinds -> {"none", "open", "closed", "gone"}] /\ held' \in [AllKinds -> BOOLEAN]
    BY <1>2, <1>3
  <2>2. slot' \in [Sources -> Pollers \cup {Nobody}]
    BY <1>2 DEF Release, Forget
  <2> QED BY <1>1, <2>1, <2>2 DEF Types, OwnerTypes, ResTypes, IoTypes, ownerVars, ioVars, otherVars
<1>10. (value'["io"] = "open" => value["io"] = "open") /\ (Registered' => Registered) /\ Calm
  BY <1>1, <1>2, <1>4, Same DEF Registered
<1>11. Given' /\ Ticks' /\ Later' /\ NoLostReadiness'
  BY <1>1, <1>2, <1>10, IoCalm DEF ioVars
<1> QED BY <1>6, <1>7, <1>8, <1>9, <1>11 DEF Rest

LEMMA StopSteps ==
  ASSUME Rest, Stop \/ WakeActivities \/ \E k \in AllKinds : CloseValue(k) \/ CloseWaker(k)
  PROVE  Rest'
<1>1. /\ Types /\ Borrows /\ Closes /\ Given /\ Ticks /\ Later /\ NoLostReadiness
      /\ LastWaker /\ ClosedWakesSleeper
      /\ UNCHANGED <<held, scene, ioVars, otherVars>>
  BY DEF Rest, Stop, WakeActivities, CloseValue, CloseWaker, resVars
<1>2. /\ held \in [AllKinds -> BOOLEAN] /\ value \in [AllKinds -> {"none", "open", "closed", "gone"}]
      /\ waker \in [AllKinds -> Pollers \cup {Nobody}]
      /\ slot \in [Sources -> Pollers \cup {Nobody}] /\ poll \in [Pollers -> Records]
      /\ events \in 0..255 /\ tick \in Int /\ "io" \in AllKinds /\ "op" \in AllKinds
      /\ toClose \subseteq AllKinds /\ closing \subseteq AllKinds
  BY <1>1, ResourcesAssumption DEF Types, OwnerTypes, ResTypes, IoTypes, AllKinds
<1>3. Calm
  <2>1. UNCHANGED poll \/ \E S : poll' = Woken(S)
    BY DEF Stop, WakeActivities, CloseValue, CloseWaker
  <2> QED BY <1>2, <2>1, WokenCalm, Same
<1>4. \A p \in Pollers : Kinds(p) \in AllKinds
  BY <1>2 DEF Kinds, Kind, Records, Sources, AllKinds
<1>5. ASSUME OwnerTypes', ResTypes', Borrows', Closes', LastWaker', ClosedWakesSleeper',
             \A k \in AllKinds : value'[k] # "open" \/ value[k] = "open"
      PROVE  Rest'
  <2>1. Given' /\ Ticks' /\ Later' /\ NoLostReadiness'
    BY <1>1, <1>2, <1>3, <1>5, IoCalm DEF ioVars, Registered
  <2>2. Types'
    BY <1>1, <1>3, <1>5 DEF Types, IoTypes, Calm, ioVars, otherVars
  <2> QED BY <1>5, <2>1, <2>2 DEF Rest
<1>6. CASE Stop \/ WakeActivities
  <2>1. UNCHANGED <<closing, resVars, poll, slot>> /\ accepting' \in BOOLEAN /\ stage' \in Stages
        /\ toClose' \subseteq AllKinds /\ stage' # "running"
    BY <1>1, <1>2, <1>6 DEF Stop, WakeActivities, Stages, Types, OwnerTypes
  <2>2. Closes'
    <3>1. CASE Stop
      BY <1>1, <2>1, <3>1 DEF Closes, Stop, resVars
    <3>2. CASE WakeActivities
      BY <1>1, <2>1, <3>2 DEF Closes, WakeActivities, resVars
    <3> QED BY <1>6, <3>1, <3>2
  <2>3. Borrows' /\ LastWaker' /\ ClosedWakesSleeper'
    BY <1>1, <1>3, <2>1, BorrowsCalm, WakersCalm DEF resVars
  <2>4. OwnerTypes' /\ ResTypes'
    BY <1>1, <2>1 DEF Types, OwnerTypes, ResTypes, resVars
  <2> QED BY <1>5, <2>1, <2>2, <2>3, <2>4 DEF resVars
<1>7. ASSUME NEW k \in AllKinds, CloseValue(k) PROVE Rest'
  <2>1. /\ stage = "close" /\ closing = {} /\ k \in toClose /\ closing' = {k}
        /\ value' = [value EXCEPT ![k] = "closed"] /\ UNCHANGED <<accepting, stage, toClose, held, waker, poll>>
    BY <1>7 DEF CloseValue
  <2>2. \A j \in AllKinds : value'[j] = IF j = k THEN "closed" ELSE value[j]
    BY <1>2, <2>1
  <2>3. Closes'
    BY <1>1, <1>2, <2>1, <2>2 DEF Closes
  <2>4. Borrows'
    BY <1>1, <2>1, <2>2 DEF Borrows, Kinds
  <2>5. LastWaker' /\ ClosedWakesSleeper'
    <3>1. \A p \in Pollers : poll[p].pc = "asleep" /\ Kinds(p) = k /\ value[k] # "open" => poll[p].displaced
      <4>1. \A p \in Pollers : poll[p].pc = "asleep" => value[Kinds(p)] \in {"open", "closed"}
        BY <1>1, <1>2, <1>4 DEF Borrows, Waiting
      <4> QED BY <1>1, <2>1, <4>1 DEF ClosedWakesSleeper, Kinds
    <3>2. LastWaker'
      BY <1>1, <1>4, <2>1, <2>2, <3>1 DEF LastWaker, Kinds
    <3>3. ClosedWakesSleeper'
      BY <1>1, <1>4, <2>1, <2>2 DEF ClosedWakesSleeper, Kinds
    <3> QED BY <3>2, <3>3
  <2>6. OwnerTypes' /\ ResTypes'
    <3>1. slot' \in [Sources -> Pollers \cup {Nobody}]
      BY <1>2, <1>7 DEF CloseValue, Forget
    <3> QED BY <1>1, <2>1, <3>1 DEF Types, OwnerTypes, ResTypes
  <2> QED BY <1>5, <2>2, <2>3, <2>4, <2>5, <2>6
<1>8. ASSUME NEW k \in AllKinds, CloseWaker(k) PROVE Rest'
  <2>1. /\ k \in closing /\ closing' = {} /\ toClose' = toClose \ {k} /\ poll' = Woken({waker[k]})
        /\ waker' = [waker EXCEPT ![k] = Nobody] /\ UNCHANGED <<accepting, stage, slot>>
        /\ value' = IF held[k] THEN value ELSE [value EXCEPT ![k] = "gone"]
    BY <1>8 DEF CloseWaker
  <2>2. closing = {k} /\ value[k] = "closed"
    BY <1>1, <2>1 DEF Closes
  <2>3. \A j \in AllKinds : /\ value'[j] = IF j = k /\ ~held[k] THEN "gone" ELSE value[j]
                            /\ j # k => waker'[j] = waker[j]
    BY <1>2, <2>1
  <2>4. Closes'
    BY <2>1 DEF Closes
  <2>5. Borrows'
    BY <1>1, <1>3, <2>3 DEF Borrows, Calm, Still, Kinds
  <2>6. \A p \in Pollers : poll'[p].pc \in {"stored", "asleep"} =>
          /\ poll[p].pc = poll'[p].pc /\ Kinds(p)' = Kinds(p) /\ (poll[p].displaced => poll'[p].displaced)
          /\ value'[Kinds(p)] = value[Kinds(p)]
    BY <1>1, <1>3, <1>4, <2>3 DEF Calm, Still, Settled, Kinds, Borrows, Waiting
  <2>7. LastWaker'
    <3>1. \A p \in Pollers : poll'[p].pc \in {"stored", "asleep"} /\ value'[Kinds(p)] = "open" =>
            waker'[Kinds(p)] = p \/ poll'[p].displaced
      <4>1. \A p \in Pollers : poll'[p].pc \in {"stored", "asleep"} /\ value'[Kinds(p)] = "open" =>
              waker[Kinds(p)] = p \/ poll[p].displaced
        BY <1>1, <2>6 DEF LastWaker
      <4> QED BY <1>4, <2>2, <2>3, <2>6, <4>1
    <3>2. \A p \in Pollers : poll'[p].pc \in {"stored", "asleep"} => Kinds(p)' = Kinds(p)
      BY <2>6
    <3> QED BY <2>1, <3>1, <3>2 DEF LastWaker
  <2>8. ClosedWakesSleeper'
    <3>1. \A p \in Pollers : poll'[p].pc = "asleep" => p # waker[k]
      BY <1>2, <2>1, WokenCalm
    <3>2. \A p \in Pollers : poll'[p].pc = "asleep" /\ Kinds(p) = k => poll[p].displaced
      BY <1>1, <2>1, <2>6, <3>1 DEF LastWaker
    <3>3. \A p \in Pollers : poll'[p].pc = "asleep" /\ Kinds(p) # k /\ value[Kinds(p)] = "closed" =>
            poll[p].displaced
      BY <1>1, <2>2, <2>6 DEF ClosedWakesSleeper, Kinds
    <3>4. \A p \in Pollers : poll'[p].pc = "asleep" /\ value'[Kinds(p)'] = "closed" => poll'[p].displaced
      BY <2>6, <3>2, <3>3
    <3> QED BY <3>4 DEF ClosedWakesSleeper, Kinds
  <2>9. OwnerTypes' /\ ResTypes'
    <3>1. value' \in [AllKinds -> {"none", "open", "closed", "gone"}]
          /\ waker' \in [AllKinds -> Pollers \cup {Nobody}]
      BY <1>2, <2>1
    <3> QED BY <1>1, <1>2, <2>1, <3>1 DEF Types, OwnerTypes, ResTypes
  <2> QED BY <1>5, <2>2, <2>3, <2>4, <2>5, <2>7, <2>8, <2>9
<1> QED BY <1>6, <1>7, <1>8

-----------------------------------------------------------------------------
(* A poll *)

LEMMA StoreSteps ==
  ASSUME Rest, NEW p \in Pollers, NEW s \in scene.using, StoreWaker(p, s)
  PROVE  Rest'
<1> DEFINE k == Kind(s)
<1>1. /\ Types /\ Borrows /\ Closes /\ Given /\ Ticks /\ Later /\ NoLostReadiness
      /\ LastWaker /\ ClosedWakesSleeper
      /\ UNCHANGED <<ownerVars, held, value, scene, slot, ioVars, otherVars>>
  BY DEF Rest, StoreWaker
<1>2. /\ poll \in [Pollers -> Records] /\ waker \in [AllKinds -> Pollers \cup {Nobody}]
      /\ value \in [AllKinds -> {"none", "open", "closed", "gone"}]
      /\ s \in Sources /\ k \in AllKinds /\ events \in 0..255 /\ tick \in Int
  <2>1. scene \in Scenes /\ events \in 0..scene.events
    BY <1>1 DEF Types, OwnerTypes, IoTypes
  <2>2. s \in Sources /\ events \in 0..255
    BY <2>1, ResourcesAssumption
  <2> QED BY <1>1, <2>2 DEF Types, ResTypes, IoTypes, Kind, Sources, AllKinds
<1>3. /\ held[k] /\ waker' = update_waker(p, k)
      /\ \/ poll[p].pc = "idle" /\ (k # "io" => Users(k) = {})
         \/ poll[p].pc = "awake" /\ poll[p].at = s
      /\ poll' = [q \in Pollers |->
           IF q = p THEN At("stored", s, NoEvent)
           ELSE [poll[q] EXCEPT !.displaced = @ \/ (q \in Users(k) /\ waker'[k] = p)]]
  BY DEF StoreWaker
<1>4. /\ poll'[p].pc = "stored" /\ poll'[p].at = s /\ Kinds(p)' = k
      /\ At("stored", s, NoEvent) \in Records
  <2>1. "stored" \in Places /\ NoEvent \in Events
    BY DEF Places, Waiting, NoEvent, Events
  <2> QED BY <1>2, <1>3, <2>1, AtRecord DEF At, Kinds
<1>5. \A q \in Pollers \ {p} :
        /\ poll'[q].pc = poll[q].pc /\ poll'[q].at = poll[q].at /\ poll'[q].event = poll[q].event
        /\ poll'[q] \in Records /\ (poll[q].displaced => poll'[q].displaced)
        /\ q \in Users(k) /\ waker'[k] = p => poll'[q].displaced
  <2> SUFFICES ASSUME NEW q \in Pollers \ {p}
               PROVE  /\ poll'[q].pc = poll[q].pc /\ poll'[q].at = poll[q].at /\ poll'[q].event = poll[q].event
                      /\ poll'[q] \in Records /\ (poll[q].displaced => poll'[q].displaced)
                      /\ q \in Users(k) /\ waker'[k] = p => poll'[q].displaced
    OBVIOUS
  <2> HIDE DEF k
  <2>1. poll'[q] = [poll[q] EXCEPT !.displaced = @ \/ (q \in Users(k) /\ waker'[k] = p)]
    BY <1>3
  <2>2. poll[q] \in Records
    BY <1>2
  <2>3. (poll[q].displaced \/ (q \in Users(k) /\ waker'[k] = p)) \in BOOLEAN
    OBVIOUS
  <2> QED BY <2>1, <2>2, <2>3 DEF Records
<1>6. poll' \in [Pollers -> Records]
  BY <1>3, <1>4, <1>5
<1>7. Borrows'
  <2>1. \A q \in Pollers : poll'[q].pc \in Waiting => held'[Kinds(q)']
    BY <1>1, <1>3, <1>4, <1>5 DEF Borrows, Kinds
  <2>2. \A q \in Pollers \ {p} : poll'[q].pc \in Waiting /\ k # "io" => Kinds(q)' # k
    <3>1. CASE poll[p].pc = "idle"
      BY <1>3, <1>5, <3>1 DEF Users, Kinds
    <3>2. CASE poll[p].pc = "awake" /\ poll[p].at = s
      BY <1>1, <1>5, <3>2 DEF Borrows, Kinds, Waiting
    <3> QED BY <1>3, <3>1, <3>2
  <2>3. \A q, r \in Pollers :
          poll'[q].pc \in Waiting /\ poll'[r].pc \in Waiting /\ Kinds(q)' = Kinds(r)' /\ Kinds(q)' # "io"
            => q = r
    BY <1>1, <1>4, <1>5, <2>2 DEF Borrows, Kinds
  <2> QED BY <1>1, <2>1, <2>3 DEF Borrows
<1>8. waker' = waker \/ (waker' = [waker EXCEPT ![k] = p] /\ value[k] = "open")
  BY <1>3 DEF update_waker
<1>9. LastWaker'
  <2>1. poll'[p].pc = "stored" /\ value[k] = "open" => waker'[k] = p
    BY <1>2, <1>3 DEF update_waker
  <2>2. ASSUME NEW q \in Pollers \ {p},
               \/ poll[q].pc = "stored" /\ value[Kinds(q)] = "open"
               \/ poll[q].pc = "asleep" /\ (value[Kinds(q)] = "open" \/ Kinds(q) \in closing)
        PROVE  waker'[Kinds(q)] = q \/ poll'[q].displaced
    <3>1. waker[Kinds(q)] = q \/ poll[q].displaced
      BY <1>1, <2>2 DEF LastWaker
    <3>2. CASE Kinds(q) = k
      <4>1. q \in Users(k)
        BY <2>2, <3>2 DEF Users, Kinds, Waiting
      <4>2. waker'[k] = p \/ waker' = waker
        BY <1>2, <1>8
      <4> QED BY <1>5, <3>1, <3>2, <4>1, <4>2
    <3>3. CASE Kinds(q) # k
      <4> DEFINE kind == Kinds(q)
      <4>0. poll[q].at \in Sources
        BY <1>2, <2>2 DEF Records
      <4>1. kind # k /\ kind \in AllKinds
        BY <3>3, <4>0 DEF Kinds, Kind, Sources, AllKinds
      <4> HIDE DEF kind, k
      <4>2. waker'[kind] = waker[kind]
        BY <1>2, <1>8, <4>1
      <4> QED BY <1>5, <3>1, <4>2 DEF kind
    <3> QED BY <3>2, <3>3
  <2> QED BY <1>1, <1>4, <1>5, <2>1, <2>2 DEF LastWaker, Kinds, ownerVars
<1>10. ClosedWakesSleeper'
  BY <1>1, <1>4, <1>5 DEF ClosedWakesSleeper, ownerVars
<1>11. Types'
  <2>1. waker' \in [AllKinds -> Pollers \cup {Nobody}]
    BY <1>2, <1>8
  <2> QED BY <1>1, <1>6, <2>1 DEF Types, OwnerTypes, ResTypes, IoTypes, ownerVars, ioVars, otherVars
<1>12. Given' /\ Later'
  BY <1>1, <1>4, <1>5 DEF Given, Later, ioVars
<1>13. Closes' /\ Ticks' /\ NoLostReadiness'
  BY <1>1 DEF Closes, Ticks, NoLostReadiness, Registered, IsReady, Size, ownerVars, ioVars
<1> QED BY <1>7, <1>9, <1>10, <1>11, <1>12, <1>13 DEF Rest

LEMMA PollSteps ==
  ASSUME Rest, NEW p \in Pollers, PollValue(p)
  PROVE  Rest'
<1> DEFINE s == poll[p].at
           d == IF s = "op" THEN "read" ELSE s
<1>1. /\ Types /\ Borrows /\ Closes /\ Given /\ Ticks /\ Later /\ NoLostReadiness
      /\ LastWaker /\ ClosedWakesSleeper
      /\ UNCHANGED <<ownerVars, waker, scene, ioVars, dumped>> /\ poll[p].pc = "stored"
  BY DEF Rest, PollValue
<1>2. /\ poll \in [Pollers -> Records] /\ slot \in [Sources -> Pollers \cup {Nobody}]
      /\ held \in [AllKinds -> BOOLEAN] /\ value \in [AllKinds -> {"none", "open", "closed", "gone"}]
      /\ events \in 0..scene.events /\ scene.events \in 0..255
      /\ tick \in 0..255 /\ pending \in BOOLEAN /\ dumped \in BOOLEAN /\ s \in Sources
      /\ "op" \in AllKinds /\ "io" \in AllKinds
  BY <1>1, ResourcesAssumption DEF Types, OwnerTypes, ResTypes, IoTypes, Records, AllKinds
<1>3. ASSUME Calm, UNCHANGED <<held, value, slot>>, pending' \in BOOLEAN PROVE Rest'
  BY <1>1, <1>2, <1>3, CalmStep DEF ioVars
<1>4. ASSUME Rests(p, "idle") \/ Rests(p, "failed"), UNCHANGED <<held, value, slot>>, pending' \in BOOLEAN
      PROVE  Rest'
  BY <1>2, <1>3, <1>4, RestsCalm
<1>5. CASE Sleep(p, s) /\ value[Kind(s)] = "open"
  <2>1. /\ slot' = [slot EXCEPT ![s] = p] /\ UNCHANGED <<held, value, pending>>
        /\ poll' = [q \in Pollers |->
             IF q = p THEN [poll[p] EXCEPT !.pc = "asleep"]
             ELSE [poll[q] EXCEPT !.replaced = @ \/ (poll[q].pc = "asleep" /\ poll[q].at = s)]]
    BY <1>5 DEF Sleep
  <2>2. /\ poll'[p].pc = "asleep" /\ poll'[p].at = s /\ poll'[p].displaced = poll[p].displaced
        /\ poll'[p] \in Records
    <3>1. poll'[p] = [poll[p] EXCEPT !.pc = "asleep"] /\ poll[p] \in Records
      BY <1>2, <2>1
    <3> QED BY <3>1 DEF Records, Places, Waiting
  <2>3. \A q \in Pollers \ {p} :
          /\ poll'[q].pc = poll[q].pc /\ poll'[q].at = poll[q].at /\ poll'[q].event = poll[q].event
          /\ poll'[q] \in Records /\ poll'[q].displaced = poll[q].displaced
    <3> SUFFICES ASSUME NEW q \in Pollers \ {p}
                 PROVE  /\ poll'[q].pc = poll[q].pc /\ poll'[q].at = poll[q].at
                        /\ poll'[q].event = poll[q].event
                        /\ poll'[q] \in Records /\ poll'[q].displaced = poll[q].displaced
      OBVIOUS
    <3> HIDE DEF s
    <3>1. poll'[q] = [poll[q] EXCEPT !.replaced = @ \/ (poll[q].pc = "asleep" /\ poll[q].at = s)]
      BY <2>1
    <3>2. poll[q] \in Records /\ (poll[q].replaced \/ (poll[q].pc = "asleep" /\ poll[q].at = s)) \in BOOLEAN
      BY <1>2
    <3> QED BY <3>1, <3>2 DEF Records
  <2>4. Types'
    <3>1. poll' \in [Pollers -> Records] /\ slot' \in [Sources -> Pollers \cup {Nobody}]
      BY <1>2, <2>1, <2>2, <2>3
    <3> QED BY <1>1, <2>1, <3>1 DEF Types, OwnerTypes, ResTypes, IoTypes, ownerVars, ioVars
  <2>5. Borrows'
    <3>1. \A q \in Pollers : /\ poll'[q].pc \in Waiting <=> poll[q].pc \in Waiting
                             /\ Kinds(q)' = Kinds(q)
      BY <1>1, <2>2, <2>3 DEF Kinds, Waiting
    <3> QED BY <1>1, <2>1, <3>1 DEF Borrows
  <2>6. LastWaker'
    BY <1>1, <1>5, <2>1, <2>2, <2>3 DEF LastWaker, Kinds, ownerVars
  <2>7. ClosedWakesSleeper'
    BY <1>1, <1>5, <2>1, <2>2, <2>3 DEF ClosedWakesSleeper, ownerVars
  <2>8. Given' /\ Later'
    BY <1>1, <2>1, <2>2, <2>3 DEF Given, Later, ioVars
  <2>9. Closes' /\ Ticks' /\ NoLostReadiness'
    BY <1>1, <2>1 DEF Closes, Ticks, NoLostReadiness, Registered, IsReady, Size, ownerVars, ioVars
  <2> QED BY <2>4, <2>5, <2>6, <2>7, <2>8, <2>9 DEF Rest
<1>6. CASE TakeEvent(p, s)
  <2>1. /\ s \in {"read", "write", "op"} /\ UNCHANGED <<slot, pending>>
        /\ \/ Rests(p, "failed")
           \/ poll' = [poll EXCEPT ![p] = At("got", d, [PolledEvent(s) EXCEPT !.bits = ready_event(@)])]
        /\ \/ UNCHANGED <<held, value>>
           \/ s = "op" /\ held' = [held EXCEPT !["op"] = FALSE] /\ value' = [value EXCEPT !["op"] = "gone"]
                       /\ "op" \notin toClose
    BY <1>6 DEF TakeEvent
  <2>2. d \in {"read", "write"} /\ d \in Sources
    BY <2>1 DEF Sources
  <2>3. CASE Rests(p, "failed") /\ UNCHANGED <<held, value>>
    BY <1>2, <1>4, <2>1, <2>3
  <2>4. /\ held[Kinds(p)] /\ held["io"]
    <3>1. held[Kinds(p)]
      BY <1>1 DEF Borrows, Waiting
    <3>2. Kinds(p) = "io" \/ Kinds(p) = "op"
      BY <2>1 DEF Kinds, Kind
    <3> QED BY <1>1, <3>1, <3>2 DEF Borrows
  <2>5. PICK pc \in {"failed", "got"}, e \in Events :
          /\ poll' = [poll EXCEPT ![p] = IF pc = "got" THEN At("got", d, e) ELSE Resting("failed")]
          /\ pc = "got" => e.bits \subseteq Direction(d) /\ e.tick = tick
    <3>1. CASE Rests(p, "failed")
      <4>1. NoEvent \in Events
        BY DEF NoEvent, Events
      <4> QED BY <3>1, <4>1 DEF Rests
    <3>2. CASE poll' = [poll EXCEPT ![p] = At("got", d, [PolledEvent(s) EXCEPT !.bits = ready_event(@)])]
      <4> DEFINE e == [PolledEvent(s) EXCEPT !.bits = ready_event(@)]
      <4>1. /\ PolledEvent(s).bits \subseteq Direction(d)
            /\ PolledEvent(s) = [tick |-> tick, bits |-> PolledEvent(s).bits]
        BY <2>1, EventOfDirection
      <4>2. e = [tick |-> tick, bits |-> ready_event(PolledEvent(s).bits)]
        BY <4>1
      <4>3. ready_event(PolledEvent(s).bits) \subseteq Direction(d)
        BY <4>1 DEF ready_event
      <4>4. Direction(d) \subseteq 0..6
        BY DEF Direction
      <4>5. e \in Events /\ e.bits \subseteq Direction(d) /\ e.tick = tick
        BY <1>2, <4>2, <4>3, <4>4 DEF Events
      <4> QED BY <3>2, <4>5
    <3> QED BY <2>1, <3>1, <3>2
  <2>6. /\ poll'[p].pc = pc /\ poll'[p] \in Records
        /\ pc = "got" => poll'[p].at = d /\ poll'[p].event = e
        /\ \A q \in Pollers \ {p} : poll'[q] = poll[q]
    <3>1. {"got", "failed"} \subseteq Places /\ NoEvent \in Events
      BY DEF Places, Waiting, NoEvent, Events
    <3>2. At("got", d, e) \in Records /\ Resting("failed") \in Records
      BY <2>2, <3>1, AtRecord
    <3>3. At("got", d, e).pc = "got" /\ At("got", d, e).at = d /\ At("got", d, e).event = e
          /\ Resting("failed").pc = "failed"
      BY DEF At, Resting
    <3> HIDE DEF s, d
    <3> QED BY <1>2, <2>5, <3>2, <3>3
  <2>7. \A q \in Pollers \ {p} : s = "op" /\ poll[q].pc \in Waiting => Kinds(q) # "op"
    BY <1>1 DEF Borrows, Kinds, Kind, Waiting
  <2>8. \A k \in AllKinds : /\ k # "op" => held'[k] = held[k] /\ value'[k] = value[k]
                            /\ held'[k] => held[k]
                            /\ s # "op" => held'[k] = held[k] /\ value'[k] = value[k]
                            /\ value'[k] = "open" => value[k] = "open"
                            /\ value'[k] = value[k] \/ (~held'[k] /\ k \notin closing /\ value'[k] = "gone")
    BY <1>1, <1>2, <2>1 DEF Closes
  <2>9. \A q \in Pollers : Kinds(q) \in AllKinds
    BY <1>2 DEF Kinds, Kind, Records, Sources, AllKinds
  <2>10. poll' \in [Pollers -> Records]
    BY <1>2, <2>5, <2>6
  <2>11. Types'
    <3>1. held' \in [AllKinds -> BOOLEAN] /\ value' \in [AllKinds -> {"none", "open", "closed", "gone"}]
      BY <1>2, <2>1
    <3> QED BY <1>1, <1>2, <2>1, <2>10, <3>1 DEF Types, OwnerTypes, ResTypes, IoTypes, ownerVars, ioVars
  <2>12. pc = "got" => Kinds(p)' = "io"
    BY <2>2, <2>6 DEF Kinds, Kind
  <2>13. Borrows'
    <3>1. \A q \in Pollers \ {p} : poll[q].pc \in Waiting => held'[Kinds(q)]
      BY <1>1, <2>7, <2>8, <2>9 DEF Borrows
    <3>2. pc = "got" => held'["io"]
      BY <1>2, <2>4, <2>8
    <3>3. \A q \in Pollers : poll'[q].pc \in Waiting => held'[Kinds(q)']
      BY <2>6, <2>12, <3>1, <3>2 DEF Kinds, Waiting
    <3>4. \A q, r \in Pollers :
            poll'[q].pc \in Waiting /\ poll'[r].pc \in Waiting /\ Kinds(q)' = Kinds(r)' /\ Kinds(q)' # "io"
              => q = r
      BY <1>1, <2>6, <2>12 DEF Borrows, Kinds, Waiting
    <3>5. held'["op"] => held'["io"]
      BY <1>2, <2>4, <2>8
    <3>6. \A k \in AllKinds : value'[k] \in {"none", "gone"} => ~held'[k]
      BY <1>1, <2>8 DEF Borrows
    <3> QED BY <3>3, <3>4, <3>5, <3>6 DEF Borrows
  <2>14. LastWaker' /\ ClosedWakesSleeper'
    <3>1. \A q \in Pollers \ {p} : poll[q].pc \in {"stored", "asleep"} => value'[Kinds(q)] = value[Kinds(q)]
      BY <2>7, <2>8, <2>9 DEF Waiting
    <3>2. LastWaker'
      BY <1>1, <2>6, <3>1 DEF LastWaker, Kinds, ownerVars
    <3>3. ClosedWakesSleeper'
      BY <1>1, <2>6, <3>1 DEF ClosedWakesSleeper, Kinds, ownerVars
    <3> QED BY <3>2, <3>3
  <2>15. Closes'
    <3>1. \A k \in closing : k \in AllKinds
      BY <1>1 DEF Types, OwnerTypes
    <3> QED BY <1>1, <2>8, <3>1 DEF Closes, ownerVars
  <2>16. Given'
    <3>1. pc = "got" => poll'[p].event.tick <= tick /\ tick' = tick
      BY <1>1, <1>2, <2>5, <2>6 DEF ioVars
    <3> QED BY <1>1, <2>2, <2>5, <2>6, <3>1 DEF Given, ioVars
  <2>17. Later' /\ Ticks' /\ NoLostReadiness'
    <3>1. Later'
      BY <1>1, <1>2, <2>6, <2>8 DEF Later, ioVars
    <3>2. Ticks' /\ NoLostReadiness'
      BY <1>1, <1>2, <2>8 DEF Ticks, NoLostReadiness, Registered, IsReady, Size, ioVars
    <3> QED BY <3>1, <3>2
  <2> QED BY <2>11, <2>13, <2>14, <2>15, <2>16, <2>17 DEF Rest
<1>7. CASE TakeTimer(p) \/ TakeSignal(p) \/ TakeDump(p)
  BY <1>2, <1>4, <1>7 DEF TakeTimer, TakeSignal, TakeDump, Take
<1>8. CASE Rests(p, "failed") /\ UNCHANGED <<held, value, slot, pending>>
  BY <1>2, <1>4, <1>8
<1> QED BY <1>5, <1>6, <1>7, <1>8 DEF PollValue

-----------------------------------------------------------------------------
LEMMA ResourcesInit == Init => RInv
<1> SUFFICES ASSUME Init PROVE RInv
  OBVIOUS
<1>1. Clocks
  <2>1. real \in Nat /\ logical \in Nat /\ due \in Int /\ want = due
    BY DEF Init
  <2>2. frozen = FALSE /\ hostOrigin = {} /\ guestOrigin = {}
    BY DEF Init
  <2>3. Origin(hostOrigin) /\ Origin(guestOrigin)
    BY <2>2 DEF Origin
  <2> QED BY <2>1, <2>2, <2>3 DEF Clocks
<1>2. scene \in Scenes /\ scene.events \in 0..255
  BY ResourcesAssumption DEF Init
<1>3. Types
  <2>1. Resting("idle") \in Records
    BY DEF Resting, At, Records, Places, Sources, NoEvent, Events
  <2>2. OwnerTypes
    BY DEF Init, OwnerTypes, Stages
  <2>3. ResTypes
    BY DEF Init, ResTypes
  <2>4. tick \in 0..255 /\ events \in 0..scene.events
    BY <1>2 DEF Init
  <2>5. IoTypes
    BY <2>4 DEF Init, IoTypes
  <2> QED BY <2>1, <2>2, <2>3, <2>5 DEF Init, Types
<1>4. \A p \in Pollers : poll[p].pc = "idle"
  BY DEF Init, Resting, At
<1>5. Borrows /\ Closes
  BY <1>4 DEF Init, Borrows, Closes, Waiting, AllKinds
<1>6. LastWaker /\ ClosedWakesSleeper /\ Given /\ Later
  BY <1>4 DEF LastWaker, ClosedWakesSleeper, Given, Later
<1>7. Ticks /\ NoLostReadiness
  BY <1>2 DEF Init, Ticks, Size, NoLostReadiness
<1> QED BY <1>1, <1>3, <1>5, <1>6, <1>7 DEF RInv, Rest

LEMMA ResourcesNext == RInv /\ [Next]_vars => RInv'
<1> SUFFICES ASSUME RInv, [Next]_vars PROVE RInv'
  OBVIOUS
<1>1. Clocks'
  BY ClocksNext DEF RInv
<1>2. Rest
  BY DEF RInv
<1>3. Rest'
  <2>1. CASE \E s \in scene.using \cap {"read", "write", "op"} : Arrive(IF s = "op" THEN "read" ELSE s)
    BY <1>2, <2>1, DriverSteps
  <2> QED BY <1>2, <2>1, QuietSteps, OwnSteps, DriverSteps, OperationSteps, ReleaseSteps, StopSteps,
    StoreSteps, PollSteps DEF Next
<1> QED BY <1>1, <1>3 DEF RInv

(* The inductive invariant of a plugin's resources: who borrows what, whose  *)
(* waker a resource has, and what an event still stands for.               *)
THEOREM ResourcesInvariant == Spec => []RInv
<1> QED BY ResourcesInit, ResourcesNext, PTL DEF Spec

(* The type invariant: the readiness keeps to Tokio's bits and its tick to   *)
(* eight bits, and the origins of both clocks are picked once.             *)
THEOREM ResourcesTypeOK == Spec => []TypeOK
<1>1. RInv => TypeOK
  BY DEF RInv, Rest, Types, OwnerTypes, ResTypes, IoTypes, Clocks, Origin, TypeOK, Records, Places, Events
<1> QED BY <1>1, ResourcesInvariant, PTL

(* Data that has come is delivered or stands as readiness as long as its     *)
(* descriptor is registered, for any number of pollers that clear what they  *)
(* were given: clear_readiness takes nothing that is newer than its event.  *)
THEOREM ReadinessKept == Spec => []NoLostReadiness
<1>1. RInv => NoLostReadiness
  BY DEF RInv, Rest
<1> QED BY <1>1, ResourcesInvariant, PTL

(* HostResource::close wakes whoever sleeps on the resource, but for those   *)
(* whose one place for a waker a later poller took.                        *)
THEOREM SleeperWoken == Spec => []ClosedWakesSleeper
<1>1. RInv => ClosedWakesSleeper
  BY DEF RInv, Rest
<1> QED BY <1>1, ResourcesInvariant, PTL

(* A timer of the host stands at the time the plugin asked for, whatever the *)
(* two origins are, however late the plugin read its clock, and although    *)
(* the host's time can be paused behind its origin.                         *)
THEOREM TimersMeant == Spec => []TimerOnTime
<1>1. RInv => TimerOnTime
  BY DEF RInv, Clocks, TimerOnTime
<1> QED BY <1>1, ResourcesInvariant, PTL
===============================================================================
