------------------------------ MODULE ClockOffsets -----------------------------
(***************************************************************************)
(* Instants cross the interface as a duration and a sign against an origin   *)
(* each side has picked for itself: the host when its clock is first asked,  *)
(* the plugin by going back from its own clock by what the host measured.    *)
(***************************************************************************)
EXTENDS Integers

(* InstantOffset::between, and instant_offset on the host: the duration is  *)
(* never negative, the sign says on which side of the origin it lies.       *)
(* (A mutant first: an instant before the origin loses its sign.)          *)
BetweenUnsigned(origin, instant) ==
  [duration |-> IF instant >= origin THEN instant - origin ELSE origin - instant,
   negative |-> FALSE]
Between(origin, instant) ==
  IF instant >= origin THEN [duration |-> instant - origin, negative |-> FALSE]
                       ELSE [duration |-> origin - instant, negative |-> TRUE]

Apply(offset, instant) ==
  IF offset.negative THEN instant - offset.duration ELSE instant + offset.duration

Remove(offset, instant) ==
  IF offset.negative THEN instant + offset.duration ELSE instant - offset.duration

(* bridge clock(): the two clocks of the host against its origin, which the *)
(* first call sets to the real time of that call.                           *)
HostOrigin(origin, real) == IF origin = {} THEN {real} ELSE origin
Sample(origin, real, logical) ==
  [realtime |-> Between(origin, real), logical |-> Between(origin, logical)]

(* Handle::now: the plugin's origin is fixed by its first sample, which its *)
(* own clock reads "late" ticks after the host took it.                     *)
GuestOrigin(origin, sample, real, late) ==
  IF origin = {} THEN {Remove(sample.realtime, real + late)} ELSE origin
===============================================================================
