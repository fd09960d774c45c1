---------------------------- MODULE ExecutionContext ---------------------------
(***************************************************************************)
(* One thread on which calls go back and forth between the host and plugins, *)
(* each an artifact with a Tokio, a telekio-abi and a standard library of    *)
(* its own, and so with thread-locals of its own.  What must be one context  *)
(* for all of them travels in ExecutionStates: the host makes one where it   *)
(* enters a plugin, everybody works on it while it is active, and the host   *)
(* takes it back on the way out, also when that is an unwinding.             *)
(***************************************************************************)
EXTENDS ContextValues, SequencesExt

CONSTANTS
  Host, Plugins,
  Nothing,        \* an empty BLOCKING_BUDGET
  MaxDepth,       \* bound: frames on the stack
  MaxYields       \* bound: forced yields

Artifacts == {Host} \cup Plugins
ASSUME ExecutionAssumption ==
  /\ Host \notin Plugins /\ Nothing \notin Nat \cup {Unconstrained}
  /\ MaxDepth \in Nat /\ MaxYields \in Nat

VARIABLES
  context,    \* CONTEXT of each artifact's Tokio
  states,     \* the ExecutionStates alive; a pointer is an index, 0 is null
  active,     \* ACTIVE of the host's Tokio
  execution,  \* EXECUTION of each artifact's telekio-abi
  stash,      \* BLOCKING_BUDGET of each plugin's Tokio
  stack,      \* who has called whom, and the guards in between
  recorded,   \* forced yields the host's metrics have counted
  made        \* and how many there were

vars == <<context, states, active, execution, stash, stack, recorded, made>>

(* A frame: the artifact whose code runs in it, whether that code unwinds,  *)
(* and what its end has to give back: the fields a guard has saved, or the   *)
(* pointers of the thread before a call into a plugin.                       *)
Frame(kind, who, saved) ==
  [kind |-> kind, who |-> who, saved |-> saved, made |-> FALSE, active |-> active,
   execution |-> execution, nested |-> FALSE, panics |-> FALSE]
top == Last(stack)
Who == top.who

TypeOK ==
  /\ DOMAIN context = Artifacts
  /\ \A a \in Artifacts : DOMAIN context[a] = Fields
  /\ active \in 0..Len(states) /\ execution \in [Artifacts -> 0..Len(states)]
  /\ stash \in [Plugins -> {Nothing, Unconstrained} \cup 0..Initial]
  /\ stack # <<>> /\ stack[1].who = Host /\ recorded <= made

Init ==
  /\ context = [a \in Artifacts |-> Fresh] /\ states = <<>>
  /\ active = 0 /\ execution = [a \in Artifacts |-> 0]
  /\ stash = [p \in Plugins |-> Nothing]
  /\ stack = <<Frame("thread", Host, <<>>)>>
  /\ recorded = 0 /\ made = 0

-----------------------------------------------------------------------------
(* Access: the state where there is one, else the artifact's own context.   *)

execution_state(a) == IF a = Host THEN active ELSE execution[a]
Get(a) == IF execution_state(a) = 0 THEN context[a]
          ELSE Part(states[execution_state(a)], Fields)
Put(a, new) ==
  LET s == execution_state(a) IN
    /\ context' = IF s # 0 THEN context ELSE [context EXCEPT ![a] = With(new, @)]
    /\ states' = IF s = 0 THEN states ELSE [states EXCEPT ![s] = With(new, @)]

Push(frame) == Len(stack) < MaxDepth /\ stack' = Append(stack, frame)
Guarded(new) ==
  /\ Push(Frame("guard", Who, Part(Get(Who), DOMAIN new))) /\ Put(Who, new)
  /\ UNCHANGED <<active, execution, stash, recorded, made>>

(* Only the host enters a runtime: a plugin's block_on is the host's.       *)
Enter == Who = Host /\ Get(Host).runtime = "NotEntered" /\ Guarded(EnterRuntime)
SetBudget == \E new \in Budgets : Guarded(new)
SetTask == \E new \in Tasks : Guarded(new)

Spend ==
  /\ Get(Who).budget \in Nat \ {0}
  /\ Put(Who, [budget |-> Get(Who).budget - 1])
  /\ UNCHANGED <<active, execution, stash, stack, recorded, made>>

(* A plugin leaves its forced yields in the state, the host counts its own. *)
ForcedYield ==
  /\ Get(Who).budget = 0 /\ made < MaxYields /\ made' = made + 1
  /\ IF Who = Host
     THEN recorded' = recorded + 1 /\ UNCHANGED states
     ELSE states' = [states EXCEPT ![execution[Who]].yields = @ + 1] /\ UNCHANGED recorded
  /\ UNCHANGED <<context, active, execution, stash, stack>>

Draw ==
  /\ Put(Who, [rng |-> Drawn(Get(Who).rng)])
  /\ UNCHANGED <<active, execution, stash, stack, recorded, made>>

-----------------------------------------------------------------------------
(* Calls.  with_execution_state points the artifact at the state and puts   *)
(* its own standard library on the state's list of who may be unwinding.    *)

(* As NewState, were the yields of the enclosing state copied, too.         *)
KeepYields ==
  IF active = 0 THEN With(context[Host], [runtime |-> "", budget |-> 0, task |-> 0,
                                          rng |-> 0, yields |-> 0, panic |-> <<>>])
  ELSE states[active]
(* As NewState, were the list of those who may be unwinding started anew.    *)
ForgetPanics ==
  IF active = 0 THEN With(context[Host], [runtime |-> "", budget |-> 0, task |-> 0,
                                          rng |-> 0, yields |-> 0, panic |-> <<>>])
  ELSE [states[active] EXCEPT !.yields = 0, !.panic = <<>>]

NewState ==
  IF active = 0 THEN With(context[Host], [runtime |-> "", budget |-> 0, task |-> 0,
                                          rng |-> 0, yields |-> 0, panic |-> <<>>])
  ELSE [states[active] EXCEPT !.yields = 0]

(* with_task always makes a state, with takes the active one if it can.     *)
CallPlugin(p, kind) ==
  LET make == kind = "task" \/ active = 0
      s == IF make THEN Len(states) + 1 ELSE active
  IN  /\ Who = Host
      /\ Push([Frame(kind, p, <<>>) EXCEPT !.made = make])
      /\ states' = IF make THEN Append(states, [NewState EXCEPT !.panic = @ \o <<Host, p>>])
                           ELSE [states EXCEPT ![s].panic = Append(@, p)]
      /\ active' = s
      /\ execution' = [a \in Artifacts |->
                         IF a = p \/ (make /\ a = Host) THEN s ELSE execution[a]]
      /\ UNCHANGED <<context, stash, recorded, made>>

CallHost ==
  /\ Who # Host /\ Push(Frame("api", Host, <<>>))
  /\ UNCHANGED <<context, states, active, execution, stash, recorded, made>>

(* block_in_place: the plugin's Tokio keeps the budget aside (stop), and the *)
(* host leaves the runtime and calls the function straight.                  *)
BlockInPlace ==
  /\ Who # Host /\ Get(Who).runtime = "Entered" /\ Len(stack) < MaxDepth
  /\ stash' = [stash EXCEPT ![Who] = Get(Who).budget]
  /\ Put(Who, Blocked)
  /\ stack' = Append([i \in DOMAIN stack |->
                        [stack[i] EXCEPT !.nested = @ \/ stack[i].kind = "blocking"]],
                     Frame("blocking", Who, Part(Get(Who), DOMAIN Blocked)))
  /\ UNCHANGED <<active, execution, recorded, made>>

-----------------------------------------------------------------------------
(* The ends of frames, which are the same when the frame unwinds. *)

(* What becomes of a panic where it leaves an artifact: the host passes one *)
(* of a task over, and one it finds in a poll or a call it throws again, as *)
(* the plugin does with one of the host.  Two at a time abort the process.   *)
Passes(frame) ==
  CASE frame.kind \in {"with", "task"} -> BOOLEAN
    [] OTHER -> {TRUE}
Below(f) ==
  LET rest == Front(stack) IN
    IF ~f.panics THEN {rest}
    ELSE {IF passes THEN [rest EXCEPT ![Len(rest)].panics = TRUE] ELSE rest :
            passes \in {x \in Passes(f) : x => ~Last(rest).panics}}
Pop == Len(stack) > 1 /\ stack' \in Below(top)

LeaveGuard ==
  /\ top.kind = "guard" /\ Pop /\ Put(Who, top.saved)
  /\ UNCHANGED <<active, execution, stash, recorded, made>>

LeaveHost ==
  /\ top.kind = "api" /\ Pop
  /\ UNCHANGED <<context, states, active, execution, stash, recorded, made>>

(* The host gives the runtime back, and restore the budget kept aside.      *)
LeaveBlocking ==
  /\ top.kind = "blocking" /\ Pop
  /\ Put(Who, IF stash[Who] = Nothing THEN Part(top.saved, {"runtime"})
              ELSE [runtime |-> top.saved.runtime, budget |-> stash[Who]])
  /\ stash' = [stash EXCEPT ![Who] = Nothing]
  /\ UNCHANGED <<active, execution, recorded, made>>

(* The Reset of a call into a plugin: of a state made for it, the context   *)
(* goes back to where it came from and the yields to the metrics.            *)
(* As TakeBack, were only the outermost state's context taken back.         *)
TakeOutermost(previous, s) ==
  /\ context' = IF previous # 0 THEN context
                ELSE [context EXCEPT ![Host] = Part(s, Fields)]
  /\ states' = Front(states)
TakeBack(previous, s) ==
  /\ context' = IF previous # 0 THEN context
                ELSE [context EXCEPT ![Host] = Part(s, Fields)]
  /\ states' = IF previous = 0 THEN Front(states)
               ELSE [Front(states) EXCEPT ![previous] = With(Part(s, Fields), @)]

(* As LeavePlugin, did the plugin's pointer not go back to what it was.     *)
LeaveToNull ==
  /\ top.kind \in {"with", "task"} /\ Pop
  /\ active' = top.active /\ execution' = [top.execution EXCEPT ![Who] = 0]
  /\ IF top.made
     THEN TakeBack(top.active, Last(states)) /\ recorded' = recorded + Last(states).yields
     ELSE /\ states' = [states EXCEPT ![active].panic = Front(@)]
          /\ UNCHANGED <<context, recorded>>
  /\ UNCHANGED <<stash, made>>

LeavePlugin ==
  /\ top.kind \in {"with", "task"} /\ Pop
  /\ active' = top.active /\ execution' = top.execution
  /\ IF top.made
     THEN TakeBack(top.active, Last(states)) /\ recorded' = recorded + Last(states).yields
     ELSE /\ states' = [states EXCEPT ![active].panic = Front(@)]
          /\ UNCHANGED <<context, recorded>>
  /\ UNCHANGED <<stash, made>>

Panic ==
  /\ Len(stack) > 1 /\ ~\E i \in DOMAIN stack : stack[i].panics /\ stack[i].who = Who
  /\ stack' = [stack EXCEPT ![Len(stack)].panics = TRUE]
  /\ UNCHANGED <<context, states, active, execution, stash, recorded, made>>

Next ==
  \/ Enter \/ SetBudget \/ SetTask \/ Spend \/ ForcedYield \/ Draw
  \/ \E p \in Plugins, kind \in {"with", "task"} : CallPlugin(p, kind)
  \/ CallHost \/ BlockInPlace
  \/ LeaveGuard \/ LeaveHost \/ LeaveBlocking \/ LeavePlugin \/ Panic

Spec == Init /\ [][Next]_vars

-----------------------------------------------------------------------------
(* Wherever the borders run, the thread behaves as if there were one Tokio:  *)
(* its context is the active state's, or the host's own when there is none.  *)
Guards ==
  [i \in {j \in DOMAIN stack : stack[j].kind \in {"guard", "blocking"}} |->
     [saved |-> stack[i].saved, nested |-> stack[i].nested, blocking |-> stack[i].kind = "blocking"]]
One == INSTANCE OneContext WITH
  Depths <- 1 .. MaxDepth, ctx <- Get(Host), guards <- Guards, yields <- made
OneThread == One!Spec

(* Who runs sees the one context: a plugin is never left pointing at a state *)
(* that is gone or that is not the active one.                               *)
SeesTheContext == Get(Who) = Get(Host)

(* Each forced yield is counted once: it is recorded or in a live state.    *)
(* sum[i] is what is recorded together with what the first i states have.   *)
EveryYieldCounted ==
  \E sum \in [0 .. Len(states) -> 0 .. made] :
    /\ sum[0] = recorded /\ sum[Len(states)] = made
    /\ \A i \in DOMAIN states : sum[i] = sum[i - 1] + states[i].yields

(* Code that is called while someone below unwinds knows it, whichever of   *)
(* the standard libraries on the thread has the panic.                      *)
Unwinds(a) == \E i \in DOMAIN stack : stack[i].who = a /\ stack[i].panics
is_panicking(a) ==
  LET s == execution_state(a) IN
    Unwinds(a) \/ (s # 0 /\ \E b \in ToSet(states[s].panic) : Unwinds(b))
PanicIsSeen == is_panicking(Who) = \E a \in Artifacts : Unwinds(a)

(* When the thread is back in the host it is as though nobody had been away. *)
NothingLeft ==
  Len(stack) = 1 => /\ active = 0 /\ states = <<>>
                    /\ \A p \in Plugins : context[p] = Fresh /\ stash[p] = Nothing
                    /\ context[Host] = [Fresh EXCEPT !.rng = context[Host].rng]
================================================================================
