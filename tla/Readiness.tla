------------------------------- MODULE Readiness -------------------------------
(***************************************************************************)
(* How readiness and interests cross the interface between a plugin and the  *)
(* host.  Each side has its own bit numbers: the host translates flag by     *)
(* flag (bridge/runtime/io/mod.rs), the plugin takes the bits of the         *)
(* interface for those of its Tokio as they are (guest io/registration.rs).  *)
(* A readiness is the set of the numbers of its bits.                        *)
(***************************************************************************)
EXTENDS Naturals

(* Tokio's Ready and the flags of telekio-abi's IoReady.                   *)
TokioBit == [READABLE |-> 0, WRITABLE |-> 1, READ_CLOSED |-> 2,
             WRITE_CLOSED |-> 3, PRIORITY |-> 4, ERROR |-> 5]
IoReady == [READABLE |-> 0, WRITABLE |-> 1, READ_CLOSED |-> 2,
            WRITE_CLOSED |-> 3, PRIORITY |-> 4, ERROR |-> 5, SHUTDOWN |-> 6]
Flags == DOMAIN TokioBit

(* Tokio counts a closed direction as a ready one (Ready::is_readable, ...). *)
Has(ready, flag) ==
  \/ TokioBit[flag] \in ready
  \/ flag = "READABLE" /\ TokioBit.READ_CLOSED \in ready
  \/ flag = "WRITABLE" /\ TokioBit.WRITE_CLOSED \in ready

map_ready(ready) == {IoReady[flag] : flag \in {f \in Flags : Has(ready, f)}}

host_ready(ready, shutdown) ==
  map_ready(ready) \cup (IF shutdown THEN {IoReady.SHUTDOWN} ELSE {})

tokio_ready(bits) == {TokioBit[flag] : flag \in {f \in Flags : IoReady[f] \in bits}}

(* The plugin's ReadyEvent, from the bits the host sent, and back.         *)
ready_event(bits) == bits \cap {TokioBit[flag] : flag \in Flags}
from_bits(ready) == ready

(* Interest: the plugin's, IoInterest, and the host's again.  An empty      *)
(* interest is an error on the host (InvalidInput).                         *)
IoInterest == [READABLE |-> 0, WRITABLE |-> 1, PRIORITY |-> 2, ERROR |-> 3]
telekio_interest(flags) == {IoInterest[flag] : flag \in flags \cap DOMAIN IoInterest}
host_interest(bits) == {flag \in DOMAIN IoInterest : IoInterest[flag] \in bits}

(* Tokio: the readiness a direction waits for, and what clearing leaves.   *)
Mask(interest) ==
  UNION {CASE flag = "READABLE" -> {TokioBit.READABLE, TokioBit.READ_CLOSED}
           [] flag = "WRITABLE" -> {TokioBit.WRITABLE, TokioBit.WRITE_CLOSED}
           [] flag = "PRIORITY" -> {TokioBit.PRIORITY, TokioBit.READ_CLOSED}
           [] flag = "ERROR" -> {TokioBit.ERROR} : flag \in interest}
Cleared(ready, event) ==
  ready \ (event \ {TokioBit.READ_CLOSED, TokioBit.WRITE_CLOSED})
===============================================================================
