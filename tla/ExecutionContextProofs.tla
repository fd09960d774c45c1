------------------------- MODULE ExecutionContextProofs -------------------------
(***************************************************************************)
(* Theorems about the execution context of a thread, for any plugins, any   *)
(* depth of calls, any budget and any number of forced yields.               *)
(*                                                                         *)
(* What a step does to the stack is one of three things: it keeps the       *)
(* frames, puts one on top, or takes the top one off.  Kept says which       *)
(* frames stay, with the pointers that code in them has when it runs; all     *)
(* of the invariant that is about frames follows for those that stay, and   *)
(* a step owes only what it says of the new frame.                           *)
(***************************************************************************)
EXTENDS ExecutionContext, SequenceTheorems, TLAPS

(* Front drops the last element and keeps the others. *)
LEMMA FrontOf ==
  ASSUME NEW S, NEW s \in Seq(S), s # <<>>
  PROVE  /\ Front(s) \in Seq(S) /\ Len(s) \in Nat /\ Len(s) >= 1 /\ Len(Front(s)) = Len(s) - 1
         /\ \A i \in 1 .. Len(s) - 1 : Front(s)[i] = s[i]
         /\ Last(s) = s[Len(s)] /\ Last(s) \in S
<1>1. Len(s) \in Nat /\ Len(s) >= 1 /\ 1 \in Int /\ Len(s) - 1 \in Int
  OBVIOUS
<1>2. \A i \in 1 .. Len(s) - 1 : s[i] \in S
  OBVIOUS
<1>3. /\ SubSeq(s, 1, Len(s) - 1) \in Seq(S)
      /\ Len(SubSeq(s, 1, Len(s) - 1)) = IF 1 <= Len(s) - 1 THEN Len(s) - 1 - 1 + 1 ELSE 0
      /\ \A i \in 1 .. Len(s) - 1 - 1 + 1 : SubSeq(s, 1, Len(s) - 1)[i] = s[1 + i - 1]
  BY <1>1, <1>2, SubSeqProperties
<1>4. Last(s) = s[Len(s)] /\ Last(s) \in S
  BY <1>1 DEF Last
<1>5. \A i \in 1 .. Len(s) - 1 : i \in 1 .. Len(s) - 1 - 1 + 1 /\ 1 + i - 1 = i
  BY <1>1
<1>6. \A i \in 1 .. Len(s) - 1 : SubSeq(s, 1, Len(s) - 1)[i] = s[i]
  BY <1>3, <1>5
<1>7. (IF 1 <= Len(s) - 1 THEN Len(s) - 1 - 1 + 1 ELSE 0) = Len(s) - 1
  <2>1. \A k \in Nat : (IF 1 <= k THEN k - 1 + 1 ELSE 0) = k
    OBVIOUS
  <2> QED BY <1>1, <2>1, Len(s) - 1 \in Nat
<1>8. Len(SubSeq(s, 1, Len(s) - 1)) = Len(s) - 1
  BY <1>3, <1>7
<1>9. Front(s) = SubSeq(s, 1, Len(s) - 1)
  BY DEF Front
<1> HIDE DEF Front
<1> QED BY <1>1, <1>3, <1>4, <1>6, <1>8, <1>9

(* The kinds of frames; a border is a call from the host into a plugin.     *)
Borders == {"with", "task"}
Kinds == {"thread", "guard", "api", "blocking"} \cup Borders
AllBudgets == {Unconstrained} \cup 0 .. Initial
Contexts == [runtime : {"NotEntered", "Entered"}, budget : AllBudgets, task : Nat, rng : Nat]
StateSet == [runtime : {"NotEntered", "Entered"}, budget : AllBudgets, task : Nat, rng : Nat,
             yields : Nat, panic : Seq(Artifacts)]

(* What a guard may set, or has saved: some fields of a context. *)
Partial(new) == \A f \in DOMAIN new : f \in Fields /\ \E c \in Contexts : new[f] = c[f]
Values == {"NotEntered", "Entered", Unconstrained} \cup Nat
SavedSet == {<<>>} \cup {saved \in UNION {[fields -> Values] : fields \in SUBSET Fields} : Partial(saved)}
Frames == [kind : Kinds, who : Artifacts, saved : SavedSet, made : BOOLEAN, active : Nat,
           execution : [Artifacts -> Nat], nested : BOOLEAN, panics : BOOLEAN]

(* What a guard sets leaves a context a context. *)
LEMMA WithContext ==
  ASSUME NEW old \in Contexts, NEW new, Partial(new)
  PROVE  With(new, old) \in Contexts
BY DEF With, Contexts, Fields, Partial

(* And a state a state, with the yields and the list it had.                *)
LEMMA WithState ==
  ASSUME NEW old \in StateSet, NEW new, Partial(new)
  PROVE  /\ With(new, old) \in StateSet
         /\ With(new, old).panic = old.panic /\ With(new, old).yields = old.yields
BY DEF With, Contexts, StateSet, Fields, Partial

(* The fields of a state are a context. *)
LEMMA PartContext ==
  ASSUME NEW s \in StateSet
  PROVE  Part(s, Fields) \in Contexts
BY DEF Part, Contexts, StateSet, Fields

(* What a guard saves may be set again. *)
LEMMA PartPartial ==
  ASSUME NEW c \in Contexts, NEW fields \in SUBSET Fields
  PROVE  Part(c, fields) \in SavedSet /\ DOMAIN Part(c, fields) = fields /\ Partial(Part(c, fields))
<1>1. DOMAIN Part(c, fields) = fields /\ \A f \in fields : Part(c, fields)[f] = c[f]
  BY DEF Part
<1>2. Partial(Part(c, fields))
  BY <1>1 DEF Partial
<1>3. \A f \in Fields : c[f] \in Values
  BY ContextAssumption DEF Contexts, Fields, Values, AllBudgets
<1>4. Part(c, fields) \in [fields -> Values]
  BY <1>3 DEF Part
<1> QED BY <1>1, <1>2, <1>4 DEF SavedSet

(* What a frame has saved is part of a context. *)
LEMMA SavedIsPartial == \A saved \in SavedSet : Partial(saved)
BY DEF SavedSet, Partial

(* And so is a whole one. *)
LEMMA ContextIsPartial == \A c \in Contexts : Partial(c)
BY DEF Contexts, Partial, Fields

-----------------------------------------------------------------------------
(* The pointers of the host and of each artifact while frame i runs: those  *)
(* the frame above it has kept, or those the thread has now.                *)
ActiveIn(i) == IF i = Len(stack) THEN active ELSE stack[i + 1].active
ExecutionIn(i) == IF i = Len(stack) THEN execution ELSE stack[i + 1].execution

(* The types of the state. *)
Types ==
  /\ context \in [Artifacts -> Contexts] /\ states \in Seq(StateSet)
  /\ active \in Nat /\ execution \in [Artifacts -> Nat]
  /\ stash \in [Plugins -> {Nothing} \cup AllBudgets]
  /\ stack \in Seq(Frames) /\ Len(stack) >= 1
  /\ recorded \in Nat /\ made \in Nat

(* A plugin runs behind a border and in a blocking region, and the region   *)
(* has saved what it restores.                                              *)
Framed ==
  \A i \in 1 .. Len(stack) :
    /\ stack[i].kind \in Borders => stack[i].who # Host
    /\ stack[i].kind = "blocking" => stack[i].who # Host /\ {"runtime", "budget"} \subseteq DOMAIN stack[i].saved

(* Frame i points at the state it shall: an artifact at none that is gone,  *)
(* a plugin that runs at the active one; a border has made that state or    *)
(* found it; any other frame gives back the pointers it has.                *)
Pointing(i) ==
  /\ \A a \in Artifacts : ExecutionIn(i)[a] <= ActiveIn(i)
  /\ stack[i].who # Host => ExecutionIn(i)[stack[i].who] = ActiveIn(i) /\ ActiveIn(i) # 0
  /\ stack[i].kind \in Borders /\ stack[i].made => ActiveIn(i) = stack[i].active + 1
  /\ stack[i].kind \in Borders /\ ~stack[i].made => ActiveIn(i) = stack[i].active
  /\ stack[i].kind \notin Borders =>
       ActiveIn(i) = stack[i].active /\ ExecutionIn(i) = stack[i].execution
  /\ \A j \in 1 .. i : ActiveIn(j) <= ActiveIn(i)
Pointers ==
  /\ active = Len(states)
  /\ stack[1].who = Host /\ stack[1].kind = "thread"
  /\ \A i \in 1 .. Len(stack) : Pointing(i)

(* n[i] is how long the list of who may be unwinding is while frame i runs: *)
(* everybody below is on it, and only calls into plugins make it longer.     *)
Listed(n, i) ==
  ActiveIn(i) # 0 =>
    /\ n[i] <= Len(states[ActiveIn(i)].panic)
    /\ \A j \in 1 .. i : \E x \in 1 .. n[i] : states[ActiveIn(i)].panic[x] = stack[j].who
Grows(n, i) == \A j \in 1 .. i : ActiveIn(j) = ActiveIn(i) => n[j] <= n[i]
Steps(n, i) ==
  i > 1 =>
    /\ stack[i].kind \notin Borders => n[i] = n[i - 1]
    /\ stack[i].kind \in Borders /\ ~stack[i].made => n[i] = n[i - 1] + 1
    /\ stack[i].kind \in Borders /\ stack[i].made /\ stack[i].active # 0 =>
         n[i - 1] = Len(states[stack[i].active].panic)
Whole(n) == active # 0 => n[Len(stack)] = Len(states[active].panic)
Upright(n) ==
  /\ Whole(n)
  /\ \A i \in 1 .. Len(stack) : Listed(n, i) /\ Grows(n, i) /\ Steps(n, i)
Heights == \E n \in [1 .. Len(stack) -> Nat] : Upright(n)

(* The partial sums of EveryYieldCounted, which never fall.                 *)
Partials(sum) ==
  /\ sum[0] = recorded /\ sum[Len(states)] = made
  /\ \A i \in 1 .. Len(states) : sum[i] = sum[i - 1] + states[i].yields
  /\ \A i \in 0 .. Len(states) : \A j \in 0 .. i : sum[j] <= sum[i]
Counted == \E sum \in [0 .. Len(states) -> Nat] : Partials(sum)

(* The inductive invariant. *)
EInv == Types /\ Framed /\ Pointers /\ Heights /\ Counted

(* Two frames that differ at most in panics and nested. *)
Alike(new, old) ==
  /\ new.kind = old.kind /\ new.who = old.who /\ new.made = old.made
  /\ new.active = old.active /\ new.execution = old.execution /\ new.saved = old.saved
(* The first m frames stay, and with them their pointers. *)
Kept(m) ==
  /\ Len(stack') = m \/ Len(stack') = m + 1
  /\ \A i \in 1 .. m : Alike(stack'[i], stack[i])
  /\ \A i \in 1 .. m : ActiveIn(i)' = ActiveIn(i) /\ ExecutionIn(i)' = ExecutionIn(i)
(* Below frame m the lists stay; its own keeps its first h elements.        *)
PanicsKept(m, h) ==
  \A k \in 1 .. ActiveIn(m) :
    /\ k < ActiveIn(m) => states'[k].panic = states[k].panic
    /\ k = ActiveIn(m) => /\ h <= Len(states'[k].panic)
                          /\ \A x \in 1 .. h : states'[k].panic[x] = states[k].panic[x]

(* The pointers a frame has when it runs are of their types. *)
LEMMA ActiveIsNat ==
  ASSUME Types
  PROVE  \A i \in 1 .. Len(stack) : ActiveIn(i) \in Nat /\ ExecutionIn(i) \in [Artifacts -> Nat] /\ stack[i] \in Frames
<1> SUFFICES ASSUME NEW i \in 1 .. Len(stack) PROVE ActiveIn(i) \in Nat /\ ExecutionIn(i) \in [Artifacts -> Nat] /\ stack[i] \in Frames
  OBVIOUS
<1>1. stack \in Seq(Frames) /\ Len(stack) \in Nat /\ \A j \in 1 .. Len(stack) : stack[j] \in Frames
  BY DEF Types
<1>2. CASE i = Len(stack)
  BY <1>1, <1>2 DEF ActiveIn, ExecutionIn, Types
<1>3. CASE i # Len(stack)
  <2>1. i + 1 \in 1 .. Len(stack)
    BY <1>1, <1>3
  <2>2. stack[i + 1] \in Frames
    BY <1>1, <2>1
  <2>3. stack[i + 1].active \in Nat /\ stack[i + 1].execution \in [Artifacts -> Nat]
    BY <2>2 DEF Frames
  <2> QED BY <1>1, <1>3, <2>3 DEF ActiveIn, ExecutionIn
<1> QED BY <1>2, <1>3

(* The pointers of what a step keeps. *)
LEMMA PointersKept ==
  ASSUME Types, Types', Pointers, NEW m \in 1 .. Len(stack), Kept(m), active' = Len(states'),
         Len(stack') = m + 1 => Pointing(m + 1)'
  PROVE  Pointers'
<1>1. Len(stack) \in Nat /\ Len(stack') \in Nat
  BY DEF Types
<1>2. stack'[1].who = Host /\ stack'[1].kind = "thread"
  BY <1>1 DEF Kept, Alike, Pointers
<1>3. ASSUME NEW i \in 1 .. m PROVE Pointing(i)'
  <2>1. Pointing(i) /\ Alike(stack'[i], stack[i]) /\ ActiveIn(i)' = ActiveIn(i) /\ ExecutionIn(i)' = ExecutionIn(i)
    BY <1>1 DEF Kept, Pointers
  <2>2. \A j \in 1 .. i : ActiveIn(j)' = ActiveIn(j)
    BY <1>1 DEF Kept
  <2>3. \A j \in 1 .. i : ActiveIn(j)' <= ActiveIn(i)'
    BY <2>1, <2>2 DEF Pointing
  <2>4. \A a \in Artifacts : ExecutionIn(i)'[a] <= ActiveIn(i)'
    BY <2>1 DEF Pointing
  <2> HIDE DEF ActiveIn, ExecutionIn
  <2>5. stack'[i].who # Host => ExecutionIn(i)'[stack'[i].who] = ActiveIn(i)' /\ ActiveIn(i)' # 0
    BY <2>1 DEF Pointing, Alike
  <2>6. stack'[i].kind \in Borders /\ stack'[i].made => ActiveIn(i)' = stack'[i].active + 1
    BY <2>1 DEF Pointing, Alike
  <2>7. /\ stack'[i].kind \in Borders /\ ~stack'[i].made => ActiveIn(i)' = stack'[i].active
        /\ stack'[i].kind \notin Borders => ActiveIn(i)' = stack'[i].active /\ ExecutionIn(i)' = stack'[i].execution
    BY <2>1 DEF Pointing, Alike
  <2> QED BY <2>3, <2>4, <2>5, <2>6, <2>7 DEF Pointing
<1>4. \A i \in 1 .. Len(stack') : i \in 1 .. m \/ (i = m + 1 /\ Len(stack') = m + 1)
  BY <1>1 DEF Kept
<1>5. \A i \in 1 .. Len(stack') : Pointing(i)'
  BY <1>3, <1>4
<1> QED BY <1>2, <1>5 DEF Pointers

(* The heights of each frame that a step keeps. *)
LEMMA FramesKeepHeights ==
  ASSUME Types, Types', Pointers, NEW m \in 1 .. Len(stack), Kept(m),
         NEW n \in [1 .. Len(stack) -> Nat], Upright(n), PanicsKept(m, n[m]),
         NEW k, \A i \in 1 .. m : k[i] = n[i]
  PROVE  \A i \in 1 .. m : Listed(k, i)' /\ Grows(k, i)' /\ Steps(k, i)'
<1>1. Len(stack) \in Nat /\ Len(stack') \in Nat
  BY DEF Types
<1> SUFFICES ASSUME NEW i \in 1 .. m PROVE Listed(k, i)' /\ Grows(k, i)' /\ Steps(k, i)'
  OBVIOUS
<1>a. \A j \in 1 .. i : j \in 1 .. m /\ j \in 1 .. Len(stack)
  BY <1>1
<1>b. \A j \in 1 .. i : ActiveIn(j)' = ActiveIn(j) /\ Alike(stack'[j], stack[j])
  BY <1>a DEF Kept
<1>c. \A j \in 1 .. i : k[j] = n[j] /\ n[j] \in Nat /\ ActiveIn(j) \in Nat
  BY <1>a, ActiveIsNat
<1>2. /\ \A j \in 1 .. i : ActiveIn(j)' = ActiveIn(j) /\ j \in 1 .. m /\ j \in 1 .. Len(stack) /\ Alike(stack'[j], stack[j])
      /\ \A j \in 1 .. i : k[j] = n[j] /\ n[j] \in Nat /\ ActiveIn(j) \in Nat
  BY <1>a, <1>b, <1>c
<1>3. i \in 1 .. i /\ i \in 1 .. Len(stack)
  BY <1>1
<1>4. ActiveIn(i) <= ActiveIn(m) /\ ActiveIn(i) \in Nat /\ ActiveIn(m) \in Nat /\ n[i] \in Nat /\ n[m] \in Nat
  BY <1>1, <1>3, ActiveIsNat DEF Pointers, Pointing
<1>5. Listed(n, i) /\ Grows(n, i) /\ Steps(n, i) /\ Grows(n, m)
  BY <1>1, <1>3 DEF Upright
<1>6. Grows(k, i)'
  BY <1>2, <1>3, <1>5 DEF Grows
<1>7. Listed(k, i)'
  <2>1. CASE ActiveIn(i) = 0
    BY <1>2, <1>3, <2>1 DEF Listed
  <2>2. CASE ActiveIn(i) # 0
    <3> DEFINE b == ActiveIn(i)
    <3>1. b \in 1 .. ActiveIn(m)
      BY <1>4, <2>2
    <3>2. n[i] <= Len(states[b].panic) /\ \A j \in 1 .. i : \E x \in 1 .. n[i] : states[b].panic[x] = stack[j].who
      BY <1>5, <2>2 DEF Listed
    <3>3. n[i] <= Len(states'[b].panic) /\ \A x \in 1 .. n[i] : states'[b].panic[x] = states[b].panic[x]
      <4>1. CASE b < ActiveIn(m)
        BY <3>1, <3>2, <4>1 DEF PanicsKept
      <4>2. CASE b = ActiveIn(m)
        <5>1. n[i] <= n[m]
          BY <1>5, <4>2 DEF Grows
        <5>2. /\ n[m] <= Len(states'[b].panic)
              /\ \A x \in 1 .. n[m] : states'[b].panic[x] = states[b].panic[x]
          BY <3>1, <4>2 DEF PanicsKept
        <5> QED BY <1>4, <5>1, <5>2
      <4> QED BY <1>4, <3>1, <4>1, <4>2
    <3>4. \A j \in 1 .. i : stack'[j].who = stack[j].who
      BY <1>2 DEF Alike
    <3>5. ActiveIn(i)' = b /\ k[i] = n[i]
      BY <1>2, <1>3
    <3> HIDE DEF b
    <3> QED BY <3>2, <3>3, <3>4, <3>5 DEF Listed
  <2> QED BY <2>1, <2>2
<1>8. Steps(k, i)'
  <2> SUFFICES ASSUME i > 1 PROVE Steps(k, i)'
    BY DEF Steps
  <2>1. Alike(stack'[i], stack[i]) /\ k[i] = n[i] /\ k[i - 1] = n[i - 1]
    BY <1>1, <1>2
  <2>2. ASSUME stack[i].kind \in Borders, stack[i].made, stack[i].active # 0
        PROVE  n[i - 1] = Len(states'[stack[i].active].panic)
    <3>1. n[i - 1] = Len(states[stack[i].active].panic)
      BY <1>5, <2>2 DEF Steps
    <3>2. ActiveIn(i) = stack[i].active + 1
      BY <1>3, <2>2 DEF Pointers, Pointing
    <3>3. stack[i].active \in Nat
      BY <1>3, ActiveIsNat DEF Frames
    <3>4. stack[i].active \in 1 .. ActiveIn(m) /\ stack[i].active < ActiveIn(m)
      BY <1>4, <2>2, <3>2, <3>3
    <3>5. states'[stack[i].active].panic = states[stack[i].active].panic
      BY <3>4 DEF PanicsKept
    <3> QED BY <3>1, <3>5
  <2> QED BY <1>5, <2>1, <2>2 DEF Steps, Alike
<1> QED BY <1>6, <1>7, <1>8

(* The heights after a step that puts no frame on top, *)
LEMMA HeightsKept ==
  ASSUME Types, Types', Pointers, NEW m \in 1 .. Len(stack), Kept(m), Len(stack') = m,
         NEW n \in [1 .. Len(stack) -> Nat], Upright(n), PanicsKept(m, n[m]),
         active' # 0 => Len(states'[active'].panic) = n[m]
  PROVE  Heights'
<1> DEFINE k == [i \in 1 .. m |-> n[i]]
<1>a. Len(stack) \in Nat
  BY DEF Types
<1>b. \A i \in 1 .. m : i \in 1 .. Len(stack)
  BY <1>a
<1>1. Len(stack) \in Nat /\ k \in [1 .. m -> Nat] /\ \A i \in 1 .. m : k[i] = n[i]
  BY <1>a, <1>b
<1> HIDE DEF k
<1>2. \A i \in 1 .. m : Listed(k, i)' /\ Grows(k, i)' /\ Steps(k, i)'
  BY <1>1, FramesKeepHeights
<1>3. Whole(k)'
  BY <1>1 DEF Whole
<1>4. Upright(k)'
  BY <1>2, <1>3 DEF Upright
<1> QED BY <1>1, <1>4 DEF Heights

(* and after one that puts one there, of the height h. *)
LEMMA HeightsPushed ==
  ASSUME Types, Types', Pointers, NEW L \in Nat, L = Len(stack), Kept(L), Len(stack') = L + 1,
         NEW n \in [1 .. Len(stack) -> Nat], Upright(n), PanicsKept(L, n[L]),
         NEW h \in Nat,
         active' # 0 =>
           /\ h = Len(states'[active'].panic)
           /\ \A j \in 1 .. L + 1 : \E x \in 1 .. h : states'[active'].panic[x] = stack'[j].who,
         \A j \in 1 .. L : ActiveIn(j) = active' => n[j] <= h,
         LET new == stack'[L + 1] IN
           /\ new.kind \notin Borders => h = n[L]
           /\ new.kind \in Borders /\ ~new.made => h = n[L] + 1
           /\ new.kind \in Borders /\ new.made /\ new.active # 0 =>
                n[L] = Len(states'[new.active].panic)
  PROVE  Heights'
<1> DEFINE k == [i \in 1 .. L + 1 |-> IF i = L + 1 THEN h ELSE n[i]]
<1>1. L \in Nat /\ L >= 1 /\ L \in 1 .. Len(stack) /\ L + 1 \in 1 .. L + 1 /\ Len(stack') = L + 1
  BY DEF Types
<1>2. /\ k \in [1 .. L + 1 -> Nat] /\ k[L + 1] = h
      /\ \A i \in 1 .. L : k[i] = n[i]
  BY <1>1
<1> HIDE DEF k
<1>3. \A i \in 1 .. L : Listed(k, i)' /\ Grows(k, i)' /\ Steps(k, i)'
  BY <1>1, <1>2, FramesKeepHeights
<1>4. ActiveIn(L + 1)' = active'
  BY <1>1 DEF ActiveIn
<1>5. Whole(k)'
  BY <1>1, <1>2 DEF Whole
<1>6. Listed(k, L + 1)'
  BY <1>1, <1>2, <1>4 DEF Listed, Types
<1>7. Grows(k, L + 1)'
  <2>1. ASSUME NEW j \in 1 .. L + 1, ActiveIn(j)' = ActiveIn(L + 1)' PROVE k[j] <= k[L + 1]
    <3>1. CASE j = L + 1
      BY <1>2, <3>1
    <3>2. CASE j # L + 1
      <4>1. j \in 1 .. L
        BY <1>1, <3>2
      <4>2. ActiveIn(j) = active'
        BY <1>1, <1>4, <2>1, <4>1 DEF Kept
      <4> QED BY <1>2, <4>1, <4>2
    <3> QED BY <3>1, <3>2
  <2> QED BY <2>1 DEF Grows
<1>8. Steps(k, L + 1)'
  <2>1. k[L + 1] = h /\ k[L + 1 - 1] = n[L]
    BY <1>1, <1>2
  <2> QED BY <1>1, <2>1 DEF Steps
<1>9. \A i \in 1 .. Len(stack') : i \in 1 .. L \/ i = L + 1
  BY <1>1
<1>10. Upright(k)'
  BY <1>3, <1>5, <1>6, <1>7, <1>8, <1>9 DEF Upright
<1> QED BY <1>1, <1>2, <1>10 DEF Heights

-----------------------------------------------------------------------------
(* A step that leaves every state's list alone, or its yields.              *)
SamePanics ==
  /\ Len(states') = Len(states)
  /\ \A k \in 1 .. Len(states) : states'[k].panic = states[k].panic
SameYields ==
  /\ Len(states') = Len(states)
  /\ \A k \in 1 .. Len(states) : states'[k].yields = states[k].yields

(* What is known of the top frame: its artifact has the active pointer.     *)
LEMMA TopFacts ==
  ASSUME Types, Pointers, Heights
  PROVE  /\ Len(stack) \in Nat /\ Len(stack) \in 1 .. Len(stack) /\ 1 \in 1 .. Len(stack)
         /\ top = stack[Len(stack)] /\ top \in Frames /\ Who \in Artifacts /\ active = Len(states)
         /\ \A i \in 1 .. Len(stack) : stack[i] \in Frames
         /\ \A a \in Artifacts : execution_state(a) \in 0 .. Len(states)
         /\ Who # Host => execution[Who] = active /\ active # 0
         /\ execution_state(Who) = active
<1>1. Len(stack) \in Nat /\ Len(stack) \in 1 .. Len(stack) /\ 1 \in 1 .. Len(stack)
  BY DEF Types
<1>2. top = stack[Len(stack)] /\ top \in Frames /\ \A i \in 1 .. Len(stack) : stack[i] \in Frames
  BY <1>1 DEF top, Last, Types
<1>3. Who \in Artifacts
  BY <1>2 DEF Who, Frames
<1>4. active = Len(states) /\ Pointing(Len(stack))
  BY <1>1 DEF Pointers
<1>5. ActiveIn(Len(stack)) = active /\ ExecutionIn(Len(stack)) = execution
  BY DEF ActiveIn, ExecutionIn
<1>6. Who # Host => execution[Who] = active /\ active # 0
  BY <1>2, <1>4, <1>5 DEF Pointing, Who
<1>7. \A a \in Artifacts : execution[a] <= active /\ execution[a] \in Nat /\ active \in Nat
  BY <1>4, <1>5 DEF Pointing, Types
<1>8. \A a \in Artifacts : execution_state(a) \in 0 .. Len(states)
  BY <1>4, <1>7 DEF execution_state
<1>9. execution_state(Who) = active
  BY <1>6 DEF execution_state
<1> QED BY <1>1, <1>2, <1>3, <1>4, <1>6, <1>8, <1>9

(* Every state is one. *)
LEMMA StatesTyped ==
  ASSUME Types
  PROVE  Len(states) \in Nat /\ \A k \in 1 .. Len(states) : states[k] \in StateSet
BY DEF Types

(* Whoever reads the context reads a context. *)
LEMMA GetIsContext ==
  ASSUME Types, NEW a \in Artifacts, execution_state(a) \in 0 .. Len(states)
  PROVE  Get(a) \in Contexts
<1>1. CASE execution_state(a) = 0
  BY <1>1 DEF Get, Types
<1>2. CASE execution_state(a) # 0
  <2>1. execution_state(a) \in 1 .. Len(states)
    BY <1>2, StatesTyped
  <2>2. states[execution_state(a)] \in StateSet
    BY <2>1, StatesTyped
  <2> QED BY <1>2, <2>2, PartContext DEF Get
<1> QED BY <1>1, <1>2

(* Writing fields of the context keeps the types, the lists and the yields. *)
LEMMA PutKeeps ==
  ASSUME Types, NEW a \in Artifacts, execution_state(a) \in 0 .. Len(states),
         NEW new, Partial(new), Put(a, new)
  PROVE  /\ context' \in [Artifacts -> Contexts] /\ states' \in Seq(StateSet)
         /\ SamePanics /\ SameYields
<1>1. CASE execution_state(a) = 0
  <2>1. states' = states /\ context' = [context EXCEPT ![a] = With(new, context[a])]
    BY <1>1 DEF Put
  <2>2. With(new, context[a]) \in Contexts
    BY WithContext DEF Types
  <2>3. context' \in [Artifacts -> Contexts]
    BY <2>1, <2>2 DEF Types
  <2> QED BY <2>1, <2>3 DEF Types, SamePanics, SameYields
<1>2. CASE execution_state(a) # 0
  <2> DEFINE s == execution_state(a)
  <2>1. s \in 1 .. Len(states) /\ states[s] \in StateSet
    BY <1>2, StatesTyped
  <2>2. context' = context /\ states' = [states EXCEPT ![s] = With(new, states[s])]
    BY <1>2 DEF Put
  <2> HIDE DEF s
  <2>3. /\ With(new, states[s]) \in StateSet
        /\ With(new, states[s]).panic = states[s].panic /\ With(new, states[s]).yields = states[s].yields
    BY <2>1, WithState
  <2>4. /\ states' \in Seq(StateSet) /\ Len(states') = Len(states)
        /\ \A k \in 1 .. Len(states) : states'[k] = IF k = s THEN With(new, states[s]) ELSE states[k]
    BY <2>1, <2>2, <2>3, ExceptSeq DEF Types
  <2> QED BY <2>2, <2>3, <2>4 DEF Types, SamePanics, SameYields
<1> QED BY <1>1, <1>2

(* Who leaves the yields alone leaves them counted. *)
LEMMA CountKept ==
  ASSUME Counted, SameYields, recorded' = recorded, made' = made
  PROVE  Counted'
<1>1. PICK sum \in [0 .. Len(states) -> Nat] : Partials(sum)
  BY DEF Counted
<1>2. Partials(sum)'
  BY <1>1 DEF Partials, SameYields
<1> QED BY <1>1, <1>2 DEF Counted, SameYields

(* SamePanics is more than PanicsKept asks. *)
LEMMA PanicsAreKept ==
  ASSUME Types, Pointers, Heights, NEW m \in 1 .. Len(stack), NEW n \in [1 .. Len(stack) -> Nat], Upright(n), SamePanics
  PROVE  PanicsKept(m, n[m])
<1>1. Len(stack) \in Nat /\ m \in 1 .. m
  BY DEF Types
<1>2. ActiveIn(m) <= ActiveIn(Len(stack)) /\ ActiveIn(m) \in Nat
  BY <1>1, ActiveIsNat DEF Pointers, Pointing
<1>3. ActiveIn(Len(stack)) = Len(states) /\ Len(states) \in Nat
  BY DEF ActiveIn, Pointers, Types
<1>4. \A k \in 1 .. ActiveIn(m) : k \in 1 .. Len(states)
  BY <1>2, <1>3
<1>5. Listed(n, m)
  BY DEF Upright
<1> QED BY <1>4, <1>5 DEF PanicsKept, SamePanics, Listed

(* A step that keeps all frames keeps what is said of them. *)
LEMMA StayKeeps ==
  ASSUME EInv, Types', active' = active, execution' = execution, SamePanics,
         Len(stack') = Len(stack), \A i \in 1 .. Len(stack) : Alike(stack'[i], stack[i])
  PROVE  Framed' /\ Pointers' /\ Heights'
<1> USE DEF EInv
<1>1. Framed'
  BY DEF Framed, Alike
<1>2. PICK L \in Nat : L = Len(stack) /\ L \in 1 .. Len(stack)
  BY TopFacts
<1>3. Kept(L)
  <2>1. ASSUME NEW i \in 1 .. L PROVE ActiveIn(i)' = ActiveIn(i) /\ ExecutionIn(i)' = ExecutionIn(i)
    <3>1. CASE i = L
      BY <1>2, <3>1 DEF ActiveIn, ExecutionIn
    <3>2. CASE i # L
      <4>1. i + 1 \in 1 .. L
        BY <3>2
      <4>2. Alike(stack'[i + 1], stack[i + 1])
        BY <1>2, <4>1
      <4> QED BY <1>2, <3>2, <4>2 DEF ActiveIn, ExecutionIn, Alike
    <3> QED BY <3>1, <3>2
  <2> QED BY <1>2, <2>1 DEF Kept
<1>4. active' = Len(states')
  BY DEF Pointers, SamePanics
<1>5. Pointers'
  BY <1>2, <1>3, <1>4, PointersKept
<1>6. PICK n \in [1 .. Len(stack) -> Nat] : Upright(n)
  BY DEF Heights
<1>7. PanicsKept(L, n[L])
  BY <1>2, <1>6, PanicsAreKept
<1>8. active' # 0 => Len(states'[active'].panic) = n[L]
  BY <1>2, <1>6, StatesTyped DEF Upright, Whole, SamePanics, Pointers, Types
<1>9. Heights'
  BY <1>2, <1>3, <1>6, <1>7, <1>8, HeightsKept
<1> QED BY <1>1, <1>5, <1>9

(* A new frame that has kept the thread's pointers keeps those below.       *)
LEMMA KeptByPush ==
  ASSUME Types, NEW L \in Nat, L = Len(stack), L >= 1, Len(stack') = L + 1,
         \A i \in 1 .. L : Alike(stack'[i], stack[i]),
         stack'[L + 1].active = active, stack'[L + 1].execution = execution
  PROVE  Kept(L)
<1>1. ASSUME NEW i \in 1 .. L PROVE ActiveIn(i)' = ActiveIn(i) /\ ExecutionIn(i)' = ExecutionIn(i)
  <2>1. i # Len(stack')
    OBVIOUS
  <2>2. CASE i = L
    BY <2>1, <2>2 DEF ActiveIn, ExecutionIn
  <2>3. CASE i # L
    <3>1. i + 1 \in 1 .. L
      BY <2>3
    <3>2. Alike(stack'[i + 1], stack[i + 1])
      BY <3>1
    <3> QED BY <2>1, <2>3, <3>2 DEF ActiveIn, ExecutionIn, Alike
  <2> QED BY <2>2, <2>3
<1> QED BY <1>1 DEF Kept

(* So does the end of a frame that gives back those it has kept.            *)
LEMMA KeptByPop ==
  ASSUME Types, NEW L \in Nat, L = Len(stack), L >= 2, Len(stack') = L - 1,
         \A i \in 1 .. L - 1 : Alike(stack'[i], stack[i]),
         active' = stack[L].active, execution' = stack[L].execution
  PROVE  Kept(L - 1) /\ ActiveIn(L - 1) = stack[L].active
<1>1. ASSUME NEW i \in 1 .. L - 1 PROVE ActiveIn(i)' = ActiveIn(i) /\ ExecutionIn(i)' = ExecutionIn(i)
  <2>1. i # Len(stack) /\ i + 1 \in 1 .. L
    OBVIOUS
  <2>2. CASE i = L - 1
    BY <2>1, <2>2 DEF ActiveIn, ExecutionIn
  <2>3. CASE i # L - 1
    <3>1. i + 1 \in 1 .. L - 1
      BY <2>3
    <3>2. Alike(stack'[i + 1], stack[i + 1])
      BY <3>1
    <3> QED BY <2>1, <2>3, <3>2 DEF ActiveIn, ExecutionIn, Alike
  <2> QED BY <2>2, <2>3
<1>2. ActiveIn(L - 1) = stack[L].active
  BY DEF ActiveIn
<1> QED BY <1>1, <1>2 DEF Kept

(* Somebody who has been on the thread since the state was made is listed.  *)
LEMMA ListedAtTop ==
  ASSUME EInv, NEW n \in [1 .. Len(stack) -> Nat], Upright(n), active # 0
  PROVE  /\ n[Len(stack)] = Len(states[active].panic) /\ n[Len(stack)] \in Nat
         /\ \A j \in 1 .. Len(stack) :
              \E x \in 1 .. n[Len(stack)] : states[active].panic[x] = stack[j].who
<1>1. Len(stack) \in 1 .. Len(stack)
  BY TopFacts DEF EInv
<1>2. Listed(n, Len(stack)) /\ Whole(n) /\ ActiveIn(Len(stack)) = active
  BY <1>1 DEF Upright, ActiveIn
<1> QED BY <1>1, <1>2 DEF Listed, Whole

(* A guard, a blocking region or a call of the host on top. *)
LEMMA PushKeeps ==
  ASSUME EInv, Types', active' = active, execution' = execution, SamePanics,
         NEW L \in Nat, L = Len(stack), Len(stack') = L + 1,
         \A i \in 1 .. L : Alike(stack'[i], stack[i]),
         stack'[L + 1].active = active, stack'[L + 1].execution = execution,
         stack'[L + 1].kind \notin Borders, stack'[L + 1].who \in {Host, Who},
         stack'[L + 1].kind = "blocking" =>
           stack'[L + 1].who # Host /\ {"runtime", "budget"} \subseteq DOMAIN stack'[L + 1].saved
  PROVE  Framed' /\ Pointers' /\ Heights'
<1> USE DEF EInv
<1>0. L \in 1 .. L /\ 1 \in 1 .. L /\ L >= 1 /\ Who = stack[L].who /\ L \in 1 .. Len(stack)
  BY TopFacts DEF Who
<1>1. Framed'
  <2>1. ASSUME NEW i \in 1 .. Len(stack')
        PROVE  /\ stack'[i].kind \in Borders => stack'[i].who # Host
               /\ stack'[i].kind = "blocking" =>
                    stack'[i].who # Host /\ {"runtime", "budget"} \subseteq DOMAIN stack'[i].saved
    <3>1. CASE i = L + 1
      BY <2>1, <3>1
    <3>2. CASE i # L + 1
      <4>1. i \in 1 .. L
        BY <3>2
      <4> QED BY <2>1, <4>1 DEF Framed, Alike
    <3> QED BY <3>1, <3>2
  <2> QED BY <2>1 DEF Framed
<1>2. Kept(L)
  BY <1>0, KeptByPush
<1>3. active' = Len(states')
  BY DEF Pointers, SamePanics
<1>4. /\ ActiveIn(L) = active /\ ActiveIn(L + 1)' = active' /\ Len(stack') # L
      /\ ExecutionIn(L) = execution /\ ExecutionIn(L + 1)' = execution'
  BY DEF ActiveIn, ExecutionIn
<1>5. Pointing(L + 1)'
  <2>1. Pointing(L)
    BY <1>0 DEF Pointers
  <2>2. \A a \in Artifacts : execution[a] <= active
    BY <1>4, <2>1 DEF Pointing
  <2>3. stack'[L + 1].who # Host => execution[stack'[L + 1].who] = active /\ active # 0
    BY <1>0, <1>4, <2>1 DEF Pointing
  <2>4. ASSUME NEW j \in 1 .. L + 1 PROVE ActiveIn(j)' <= ActiveIn(L + 1)'
    <3>1. CASE j = L + 1
      BY <1>4, <3>1 DEF Types
    <3>2. CASE j # L + 1
      <4>1. j \in 1 .. L
        BY <3>2
      <4>2. ActiveIn(j)' = ActiveIn(j) /\ ActiveIn(j) <= ActiveIn(L)
        BY <1>2, <2>1, <4>1 DEF Kept, Pointing
      <4> QED BY <1>4, <4>2
    <3> QED BY <3>1, <3>2
  <2> HIDE DEF EInv, Types
  <2> QED BY <1>4, <2>2, <2>3, <2>4 DEF Pointing
<1>6. Pointers'
  BY <1>0, <1>2, <1>3, <1>5, PointersKept
<1>7. PICK n \in [1 .. Len(stack) -> Nat] : Upright(n)
  BY DEF Heights
<1>8. PanicsKept(L, n[L]) /\ n[L] \in Nat
  BY <1>0, <1>7, PanicsAreKept
<1>9. ASSUME active' # 0
      PROVE  /\ n[L] = Len(states'[active'].panic)
             /\ \A j \in 1 .. L + 1 : \E x \in 1 .. n[L] : states'[active'].panic[x] = stack'[j].who
  <2>1. active \in 1 .. Len(states) /\ states'[active'].panic = states[active].panic
    BY <1>9 DEF Pointers, Types, SamePanics
  <2>2. /\ n[L] = Len(states[active].panic)
        /\ \A j \in 1 .. L : \E x \in 1 .. n[L] : states[active].panic[x] = stack[j].who
    BY <1>7, <2>1, ListedAtTop
  <2>3. \A j \in 1 .. L + 1 : \E i \in 1 .. L : stack'[j].who = stack[i].who
    <3>1. ASSUME NEW j \in 1 .. L + 1 PROVE \E i \in 1 .. L : stack'[j].who = stack[i].who
      <4>1. CASE j = L + 1
        BY <1>0, <4>1 DEF Pointers
      <4>2. CASE j # L + 1
        <5>1. j \in 1 .. L
          BY <4>2
        <5> QED BY <5>1 DEF Alike
      <4> QED BY <4>1, <4>2
    <3> QED BY <3>1
  <2> QED BY <2>1, <2>2, <2>3
<1>10. \A j \in 1 .. L : ActiveIn(j) = active' => n[j] <= n[L]
  BY <1>0, <1>4, <1>7 DEF Upright, Grows
<1>11. Heights'
  BY <1>2, <1>7, <1>8, <1>9, <1>10, HeightsPushed
<1> QED BY <1>1, <1>6, <1>11

(* The end of such a frame. *)
LEMMA PopKeeps ==
  ASSUME EInv, Types', active' = active, execution' = execution, SamePanics,
         NEW L \in Nat, L = Len(stack), L >= 2, Len(stack') = L - 1,
         \A i \in 1 .. L - 1 : Alike(stack'[i], stack[i]), stack[L].kind \notin Borders
  PROVE  Framed' /\ Pointers' /\ Heights'
<1> USE DEF EInv
<1>0. L \in 1 .. Len(stack) /\ L - 1 \in 1 .. Len(stack) /\ \A i \in 1 .. L - 1 : i \in 1 .. Len(stack)
  OBVIOUS
<1>1. Framed'
  BY <1>0 DEF Framed, Alike
<1>2. ActiveIn(L) = active /\ ExecutionIn(L) = execution /\ Pointing(L)
  BY <1>0 DEF ActiveIn, ExecutionIn, Pointers
<1>3. stack[L].active = active /\ stack[L].execution = execution
  BY <1>2 DEF Pointing
<1>4. Kept(L - 1) /\ ActiveIn(L - 1) = active
  BY <1>3, KeptByPop
<1>5. active' = Len(states')
  BY DEF Pointers, SamePanics
<1>6. Pointers'
  BY <1>0, <1>4, <1>5, PointersKept
<1>7. PICK n \in [1 .. Len(stack) -> Nat] : Upright(n)
  BY DEF Heights
<1>8. PanicsKept(L - 1, n[L - 1])
  BY <1>0, <1>7, PanicsAreKept
<1>9. n[L] = n[L - 1]
  <2>1. Steps(n, L) /\ L > 1
    BY <1>0, <1>7 DEF Upright
  <2> QED BY <2>1 DEF Steps
<1>10. active' # 0 => Len(states'[active'].panic) = n[L - 1]
  BY <1>7, <1>9, StatesTyped DEF Upright, Whole, SamePanics, Pointers, Types
<1>11. Heights'
  BY <1>0, <1>4, <1>7, <1>8, <1>10, HeightsKept
<1> QED BY <1>1, <1>6, <1>11

-----------------------------------------------------------------------------
(* All types but the stack's, after a step. *)
Typed ==
  /\ context' \in [Artifacts -> Contexts] /\ states' \in Seq(StateSet)
  /\ active' \in Nat /\ execution' \in [Artifacts -> Nat]
  /\ stash' \in [Plugins -> {Nothing} \cup AllBudgets]
  /\ recorded' \in Nat /\ made' \in Nat

(* Frame makes a frame with the thread's pointers. *)
LEMMA FrameIsFrame ==
  ASSUME Types, NEW kind \in Kinds, NEW who \in Artifacts, NEW saved \in SavedSet
  PROVE  /\ Frame(kind, who, saved) \in Frames
         /\ \A make \in BOOLEAN :
              LET frame == [Frame(kind, who, saved) EXCEPT !.made = make] IN
                /\ frame \in Frames
                /\ frame.kind = kind /\ frame.who = who /\ frame.saved = saved /\ frame.made = make
                /\ frame.active = active /\ frame.execution = execution
BY DEF Frame, Frames, Types

(* What Push does. *)
LEMMA Pushed ==
  ASSUME Types, NEW frame \in Frames, Push(frame)
  PROVE  /\ stack' \in Seq(Frames) /\ Len(stack') = Len(stack) + 1 /\ Len(stack) \in Nat
         /\ \A i \in 1 .. Len(stack) : Alike(stack'[i], stack[i]) /\ stack'[i] = stack[i]
         /\ stack'[Len(stack) + 1] = frame
<1>1. stack \in Seq(Frames) /\ stack' = Append(stack, frame)
  BY DEF Types, Push
<1>2. /\ stack' \in Seq(Frames) /\ Len(stack') = Len(stack) + 1 /\ Len(stack) \in Nat
      /\ \A i \in 1 .. Len(stack) : stack'[i] = stack[i]
      /\ stack'[Len(stack) + 1] = frame
  BY <1>1, AppendProperties
<1> QED BY <1>2 DEF Alike

(* What Pop does: at most the panic passes to the frame below. *)
LEMMA Popped ==
  ASSUME Types, Pop
  PROVE  /\ stack' \in Seq(Frames) /\ Len(stack) \in Nat /\ Len(stack) >= 2 /\ Len(stack') = Len(stack) - 1
         /\ \A i \in 1 .. Len(stack) - 1 :
              Alike(stack'[i], stack[i]) /\ stack'[i].nested = stack[i].nested
<1> DEFINE rest == Front(stack)
<1>1. stack \in Seq(Frames) /\ stack # <<>> /\ Len(stack) \in Nat /\ Len(stack) > 1
  BY DEF Types, Pop
<1>2. /\ rest \in Seq(Frames) /\ Len(rest) = Len(stack) - 1
      /\ \A i \in 1 .. Len(stack) - 1 : rest[i] = stack[i]
  BY <1>1, FrontOf
<1>3. stack' = rest \/ stack' = [rest EXCEPT ![Len(rest)].panics = TRUE]
  BY DEF Pop, Below
<1> HIDE DEF rest
<1>4. Len(rest) \in 1 .. Len(rest) /\ Len(rest) = Len(stack) - 1
  BY <1>1, <1>2
<1>5. rest[Len(rest)] \in Frames
  BY <1>2, <1>4
<1> DEFINE last == [rest[Len(rest)] EXCEPT !.panics = TRUE]
<1>6. last \in Frames /\ Alike(last, rest[Len(rest)]) /\ last.nested = rest[Len(rest)].nested
  BY <1>5 DEF Frames, Alike
<1>7. CASE stack' = rest
  BY <1>1, <1>2, <1>7 DEF Alike
<1>8. CASE stack' = [rest EXCEPT ![Len(rest)].panics = TRUE]
  <2>1. stack' = [rest EXCEPT ![Len(rest)] = last]
    BY <1>8
  <2> HIDE DEF last
  <2>2. /\ stack' \in Seq(Frames) /\ Len(stack') = Len(rest)
        /\ \A i \in 1 .. Len(rest) : stack'[i] = IF i = Len(rest) THEN last ELSE rest[i]
    BY <1>2, <1>4, <1>6, <2>1, ExceptSeq
  <2>3. \A i \in 1 .. Len(rest) : Alike(stack'[i], rest[i]) /\ stack'[i].nested = rest[i].nested
    BY <1>6, <2>2 DEF Alike
  <2> QED BY <1>1, <1>2, <2>2, <2>3
<1> QED BY <1>3, <1>7, <1>8

(* A guard of the host or of a plugin. *)
LEMMA GuardedKeeps ==
  ASSUME EInv, NEW new, Partial(new), DOMAIN new \subseteq Fields, Guarded(new)
  PROVE  EInv'
<1> USE DEF EInv
<1>1. Get(Who) \in Contexts
  BY TopFacts, GetIsContext
<1>2. Part(Get(Who), DOMAIN new) \in SavedSet
  BY <1>1, PartPartial
<1> DEFINE frame == Frame("guard", Who, Part(Get(Who), DOMAIN new))
<1>3. frame \in Frames /\ Push(frame)
  BY <1>2, TopFacts, FrameIsFrame DEF Kinds, Guarded
<1>4. frame.kind = "guard" /\ frame.who = Who /\ frame.active = active /\ frame.execution = execution
  BY DEF Frame
<1> HIDE DEF frame
<1>5. /\ stack' \in Seq(Frames) /\ Len(stack') = Len(stack) + 1 /\ Len(stack) \in Nat
      /\ \A i \in 1 .. Len(stack) : Alike(stack'[i], stack[i])
      /\ stack'[Len(stack) + 1] = frame
  BY <1>3, Pushed
<1>6. /\ context' \in [Artifacts -> Contexts] /\ states' \in Seq(StateSet) /\ SamePanics /\ SameYields
  BY TopFacts, PutKeeps DEF Guarded
<1>7. Types'
  BY <1>5, <1>6 DEF Guarded, Types
<1>8. Framed' /\ Pointers' /\ Heights'
  BY <1>4, <1>5, <1>6, <1>7, PushKeeps DEF Borders, Guarded
<1>9. Counted'
  BY <1>6, CountKept DEF Guarded
<1> QED BY <1>7, <1>8, <1>9

(* What guards set. *)
LEMMA GuardsSet ==
  /\ Partial(EnterRuntime) /\ DOMAIN EnterRuntime \subseteq Fields
  /\ \A new \in Budgets \cup Tasks : Partial(new) /\ DOMAIN new \subseteq Fields
<1>1. Partial(EnterRuntime) /\ DOMAIN EnterRuntime \subseteq Fields
  <2> DEFINE c == [Fresh EXCEPT !.runtime = "Entered", !.rng = 1]
  <2>1. c \in Contexts
    BY ContextAssumption DEF Fresh, Contexts, AllBudgets
  <2>2. c.runtime = EnterRuntime.runtime /\ c.rng = EnterRuntime.rng /\ DOMAIN EnterRuntime = {"runtime", "rng"}
    BY DEF EnterRuntime, Fresh
  <2> HIDE DEF c
  <2> QED BY <2>1, <2>2 DEF Partial, Fields
<1>2. ASSUME NEW new \in Budgets PROVE Partial(new) /\ DOMAIN new \subseteq Fields
  <2>1. PICK b \in AllBudgets : new = [budget |-> b]
    BY ContextAssumption DEF Budgets, AllBudgets
  <2>2. [Fresh EXCEPT !.budget = b] \in Contexts
    BY ContextAssumption, <2>1 DEF Fresh, Contexts
  <2> QED BY <2>1, <2>2 DEF Partial, Fields, Fresh
<1>3. ASSUME NEW new \in Tasks PROVE Partial(new) /\ DOMAIN new \subseteq Fields
  <2>1. PICK id \in TaskIds : new = [task |-> id]
    BY DEF Tasks
  <2>2. [Fresh EXCEPT !.task = id] \in Contexts
    BY ContextAssumption, <2>1 DEF Fresh, Contexts, AllBudgets
  <2> QED BY <2>1, <2>2 DEF Partial, Fields, Fresh
<1> QED BY <1>1, <1>2, <1>3

(* Each action keeps the invariant: a guard of any kind, *)
LEMMA SetKeeps == ASSUME EInv, Enter \/ SetBudget \/ SetTask PROVE EInv'
BY GuardsSet, GuardedKeeps DEF Enter, SetBudget, SetTask

(* a step that only writes the context, *)
LEMMA InPlace ==
  ASSUME EInv, NEW new, Partial(new), Put(Who, new),
         UNCHANGED <<active, execution, stash, stack, recorded, made>>
  PROVE  EInv'
<1> USE DEF EInv
<1>1. /\ context' \in [Artifacts -> Contexts] /\ states' \in Seq(StateSet) /\ SamePanics /\ SameYields
  BY TopFacts, PutKeeps
<1>2. Types'
  BY <1>1 DEF Types
<1>3. Framed' /\ Pointers' /\ Heights'
  BY <1>1, <1>2, StayKeeps DEF Alike
<1>4. Counted'
  BY <1>1, CountKept
<1> QED BY <1>2, <1>3, <1>4

(* spending budget, *)
LEMMA SpendKeeps == ASSUME EInv, Spend PROVE EInv'
<1>1. Get(Who) \in Contexts
  BY TopFacts, GetIsContext DEF EInv
<1>2. Get(Who).budget - 1 \in AllBudgets
  <2>1. Get(Who).budget \in AllBudgets
    BY <1>1 DEF Contexts
  <2>2. Get(Who).budget \in Nat \ {0} /\ Get(Who).budget # Unconstrained
    BY ContextAssumption DEF Spend
  <2>3. Get(Who).budget \in 0 .. Initial /\ Initial \in Nat
    BY ContextAssumption, <2>1, <2>2 DEF AllBudgets
  <2>4. Get(Who).budget - 1 \in 0 .. Initial
    BY <2>2, <2>3
  <2> QED BY <2>4 DEF AllBudgets
<1> DEFINE b == Get(Who).budget - 1
<1>3. [Fresh EXCEPT !.budget = b] \in Contexts
  BY ContextAssumption, <1>2 DEF Fresh, Contexts
<1>4. Put(Who, [budget |-> b]) /\ UNCHANGED <<active, execution, stash, stack, recorded, made>>
  BY DEF Spend
<1> HIDE DEF b
<1>5. Partial([budget |-> b])
  BY <1>3 DEF Partial, Fields, Fresh
<1> QED BY <1>4, <1>5, InPlace

(* drawing a random number, *)
LEMMA DrawKeeps == ASSUME EInv, Draw PROVE EInv'
<1>1. [Fresh EXCEPT !.rng = 2] \in Contexts
  BY ContextAssumption DEF Fresh, Contexts, AllBudgets
<1>2. Partial([rng |-> Drawn(Get(Who).rng)])
  BY <1>1 DEF Partial, Fields, Fresh, Drawn
<1> QED BY <1>2, InPlace DEF Draw

(* a forced yield, *)
LEMMA ForcedYieldKeeps == ASSUME EInv, ForcedYield PROVE EInv'
<1> USE DEF EInv
<1>0. PICK K \in Nat : K = Len(states)
  BY DEF Types
<1>1. PICK sum \in [0 .. K -> Nat] : Partials(sum)
  BY <1>0 DEF Counted
<1>2. K \in Nat /\ made' = made + 1 /\ made \in Nat /\ recorded \in Nat
  BY DEF Types, ForcedYield
<1>3. sum[0] = recorded /\ sum[K] = made /\ \A i \in 0 .. K : sum[i] \in Nat
  BY <1>0, <1>1, <1>2 DEF Partials
<1>4. CASE Who = Host
  <2>1. recorded' = recorded + 1 /\ states' = states
    BY <1>4 DEF ForcedYield
  <2>2. Types' /\ SamePanics
    BY <1>2, <2>1 DEF Types, ForcedYield, SamePanics
  <2>3. Framed' /\ Pointers' /\ Heights'
    BY <2>2, StayKeeps DEF Alike, ForcedYield
  <2> DEFINE more == [i \in 0 .. K |-> sum[i] + 1]
  <2>4. more \in [0 .. K -> Nat] /\ \A i \in 0 .. K : more[i] = sum[i] + 1
    BY <1>3
  <2> HIDE DEF more
  <2>5. more[0] = recorded' /\ more[K] = made'
    BY <1>2, <1>3, <2>1, <2>4
  <2>6. ASSUME NEW i \in 1 .. K PROVE more[i] = more[i - 1] + states'[i].yields
    <3>1. i \in 0 .. K /\ i - 1 \in 0 .. K /\ states[i].yields \in Nat
      BY <1>0, <1>2, StatesTyped DEF StateSet
    <3>2. sum[i] = sum[i - 1] + states[i].yields
      BY <1>0, <1>1 DEF Partials
    <3>3. more[i] = sum[i] + 1 /\ more[i - 1] = sum[i - 1] + 1 /\ sum[i - 1] \in Nat
      BY <1>3, <2>4, <3>1
    <3>4. states'[i].yields = states[i].yields
      BY <2>1
    <3> QED BY <3>1, <3>2, <3>3, <3>4
  <2>7. ASSUME NEW i \in 0 .. K, NEW j \in 0 .. i PROVE more[j] <= more[i]
    <3>1. j \in 0 .. K /\ sum[j] <= sum[i]
      BY <1>0, <1>1, <1>2 DEF Partials
    <3> QED BY <1>3, <2>4, <3>1
  <2>8. Partials(more)'
    BY <1>0, <2>1, <2>5, <2>6, <2>7 DEF Partials
  <2>9. Counted'
    BY <1>0, <2>1, <2>4, <2>8 DEF Counted
  <2> QED BY <2>2, <2>3, <2>9
<1>5. CASE Who # Host
  <2>1. K \in 1 .. K /\ execution[Who] = K
    BY <1>0, <1>2, <1>5, TopFacts
  <2>2. recorded' = recorded /\ states' = [states EXCEPT ![K] = [states[K] EXCEPT !.yields = @ + 1]]
    BY <1>5, <2>1 DEF ForcedYield
  <2> DEFINE new == [states[K] EXCEPT !.yields = @ + 1]
  <2>3. states[K] \in StateSet
    BY <1>0, <2>1, StatesTyped
  <2>4. new \in StateSet /\ new.panic = states[K].panic /\ new.yields = states[K].yields + 1 /\ states[K].yields \in Nat
    BY <2>3 DEF StateSet
  <2> HIDE DEF new
  <2>5. states' = [states EXCEPT ![K] = new]
    BY <2>2 DEF new
  <2>6. /\ states' \in Seq(StateSet) /\ Len(states') = K
        /\ \A k \in 1 .. K : states'[k] = IF k = K THEN new ELSE states[k]
    BY <2>1, <2>4, <2>5, <1>0, ExceptSeq DEF Types
  <2>7. Types' /\ SamePanics
    BY <1>0, <1>2, <2>2, <2>4, <2>6 DEF Types, ForcedYield, SamePanics
  <2>8. Framed' /\ Pointers' /\ Heights'
    BY <2>7, StayKeeps DEF Alike, ForcedYield
  <2> DEFINE more == [i \in 0 .. K |-> IF i = K THEN sum[i] + 1 ELSE sum[i]]
  <2>9. more \in [0 .. K -> Nat] /\ \A i \in 0 .. K : more[i] = IF i = K THEN sum[i] + 1 ELSE sum[i]
    BY <1>3
  <2> HIDE DEF more
  <2>10. more[0] = recorded' /\ more[K] = made'
    BY <1>2, <1>3, <2>1, <2>2, <2>9
  <2>11. ASSUME NEW i \in 1 .. K PROVE more[i] = more[i - 1] + states'[i].yields
    <3>1. i \in 0 .. K /\ i - 1 \in 0 .. K /\ states[i].yields \in Nat /\ i - 1 # K
      BY <1>0, <1>2, StatesTyped DEF StateSet
    <3>2. sum[i] = sum[i - 1] + states[i].yields /\ more[i - 1] = sum[i - 1] /\ sum[i - 1] \in Nat
      BY <1>0, <1>1, <1>3, <2>9, <3>1 DEF Partials
    <3>3. CASE i = K
      BY <1>3, <2>4, <2>6, <2>9, <3>1, <3>2, <3>3
    <3>4. CASE i # K
      BY <2>6, <2>9, <3>1, <3>2, <3>4
    <3> QED BY <3>3, <3>4
  <2>12. ASSUME NEW i \in 0 .. K, NEW j \in 0 .. i PROVE more[j] <= more[i]
    <3>1. j \in 0 .. K /\ sum[j] <= sum[i] /\ sum[i] \in Nat /\ sum[j] \in Nat
      BY <1>0, <1>1, <1>2, <1>3 DEF Partials
    <3>2. CASE i = K
      BY <2>9, <3>1, <3>2
    <3>3. CASE i # K
      BY <1>2, <2>9, <3>1, <3>3
    <3> QED BY <3>2, <3>3
  <2>13. Partials(more)'
    BY <1>0, <2>6, <2>10, <2>11, <2>12 DEF Partials
  <2>14. Counted'
    BY <1>0, <2>6, <2>9, <2>13 DEF Counted
  <2> QED BY <2>7, <2>8, <2>14
<1> QED BY <1>4, <1>5

(* a call of the host, *)
LEMMA CallHostKeeps == ASSUME EInv, CallHost PROVE EInv'
<1> USE DEF EInv
<1> DEFINE frame == Frame("api", Host, <<>>)
<1>1. frame \in Frames /\ Push(frame)
  BY FrameIsFrame DEF Kinds, CallHost, Artifacts, SavedSet
<1>2. frame.kind = "api" /\ frame.who = Host /\ frame.active = active /\ frame.execution = execution
  BY DEF Frame
<1> HIDE DEF frame
<1>3. /\ stack' \in Seq(Frames) /\ Len(stack') = Len(stack) + 1 /\ Len(stack) \in Nat
      /\ \A i \in 1 .. Len(stack) : Alike(stack'[i], stack[i])
      /\ stack'[Len(stack) + 1] = frame
  BY <1>1, Pushed
<1>4. Types' /\ SamePanics /\ SameYields
  BY <1>3 DEF CallHost, Types, SamePanics, SameYields
<1>5. Framed' /\ Pointers' /\ Heights'
  BY <1>2, <1>3, <1>4, PushKeeps DEF Borders, CallHost
<1>6. Counted'
  BY <1>4, CountKept DEF CallHost
<1> QED BY <1>4, <1>5, <1>6

(* a blocking region, *)
LEMMA BlockInPlaceKeeps == ASSUME EInv, BlockInPlace PROVE EInv'
<1> USE DEF EInv
<1> DEFINE frame == Frame("blocking", Who, Part(Get(Who), DOMAIN Blocked))
           nested(i) == [stack[i] EXCEPT !.nested = @ \/ stack[i].kind = "blocking"]
           below == [i \in 1 .. Len(stack) |-> nested(i)]
<1>1. Get(Who) \in Contexts /\ DOMAIN Blocked = {"runtime", "budget"}
  BY TopFacts, GetIsContext DEF Blocked
<1>2. Part(Get(Who), DOMAIN Blocked) \in SavedSet /\ DOMAIN Part(Get(Who), DOMAIN Blocked) = {"runtime", "budget"}
  BY <1>1, PartPartial DEF Fields
<1>3. frame \in Frames
  BY <1>2, TopFacts, FrameIsFrame DEF Kinds
<1>4. /\ frame.kind = "blocking" /\ frame.who = Who /\ frame.active = active /\ frame.execution = execution
      /\ {"runtime", "budget"} \subseteq DOMAIN frame.saved
  BY <1>2 DEF Frame
<1>5. /\ stack \in Seq(Frames) /\ Len(stack) \in Nat /\ DOMAIN stack = 1 .. Len(stack)
      /\ \A i \in 1 .. Len(stack) : stack[i] \in Frames
  BY DEF Types
<1>6. stack' = Append(below, frame)
  BY <1>5 DEF BlockInPlace
<1> HIDE DEF frame
<1>7. \A i \in 1 .. Len(stack) : nested(i) \in Frames /\ Alike(nested(i), stack[i])
  BY <1>5 DEF Frames, Alike
<1> HIDE DEF nested
<1>8. /\ below \in Seq(Frames) /\ Len(below) = Len(stack)
      /\ \A i \in 1 .. Len(stack) : below[i] = nested(i)
  BY <1>5, <1>7
<1> HIDE DEF below
<1>9. /\ stack' \in Seq(Frames) /\ Len(stack') = Len(stack) + 1
      /\ \A i \in 1 .. Len(stack) : Alike(stack'[i], stack[i])
      /\ stack'[Len(stack) + 1] = frame
  BY <1>3, <1>6, <1>7, <1>8, AppendProperties
<1>10. Partial(Blocked)
  <2> DEFINE c == Fresh
  <2>1. c \in Contexts /\ c.runtime = Blocked.runtime /\ c.budget = Blocked.budget
    BY ContextAssumption DEF Fresh, Contexts, AllBudgets, Blocked
  <2> HIDE DEF c
  <2> QED BY <1>1, <2>1 DEF Partial, Fields
<1>11. /\ context' \in [Artifacts -> Contexts] /\ states' \in Seq(StateSet) /\ SamePanics /\ SameYields
  BY <1>10, TopFacts, PutKeeps DEF BlockInPlace
<1>12. stash' \in [Plugins -> {Nothing} \cup AllBudgets]
  <2>1. Get(Who).budget \in AllBudgets
    BY <1>1 DEF Contexts
  <2> QED BY <2>1 DEF BlockInPlace, Types
<1>13. Types'
  BY <1>5, <1>9, <1>11, <1>12 DEF BlockInPlace, Types
<1>14. Framed' /\ Pointers' /\ Heights'
  <2>1. "blocking" \notin Borders /\ Who # Host
    BY DEF Borders, BlockInPlace
  <2>2. active' = active /\ execution' = execution
    BY DEF BlockInPlace
  <2> QED BY <1>4, <1>5, <1>9, <1>11, <1>13, <2>1, <2>2, PushKeeps
<1>15. Counted'
  BY <1>11, CountKept DEF BlockInPlace
<1> QED BY <1>13, <1>14, <1>15

(* the end of any frame that is not a border, *)
LEMMA PopPlain ==
  ASSUME EInv, Typed, Pop, top.kind \notin Borders, active' = active, execution' = execution,
         SamePanics, SameYields, recorded' = recorded, made' = made
  PROVE  EInv'
<1> USE DEF EInv
<1>1. /\ stack' \in Seq(Frames) /\ Len(stack) \in Nat /\ Len(stack) >= 2 /\ Len(stack') = Len(stack) - 1
      /\ \A i \in 1 .. Len(stack) - 1 : Alike(stack'[i], stack[i])
  BY Popped
<1>2. Types'
  BY <1>1 DEF Typed, Types
<1>3. stack[Len(stack)].kind \notin Borders
  BY TopFacts
<1>4. Framed' /\ Pointers' /\ Heights'
  BY <1>1, <1>2, <1>3, PopKeeps
<1>5. Counted'
  BY CountKept
<1> QED BY <1>2, <1>4, <1>5

(* of a guard, *)
LEMMA LeaveGuardKeeps == ASSUME EInv, LeaveGuard PROVE EInv'
<1>1. Partial(top.saved) /\ top.kind \notin Borders
  BY TopFacts, SavedIsPartial DEF EInv, Frames, LeaveGuard, Borders
<1>2. /\ context' \in [Artifacts -> Contexts] /\ states' \in Seq(StateSet) /\ SamePanics /\ SameYields
  BY <1>1, TopFacts, PutKeeps DEF EInv, LeaveGuard
<1>3. Typed
  BY <1>2 DEF Typed, EInv, Types, LeaveGuard
<1> QED BY <1>1, <1>2, <1>3, PopPlain DEF LeaveGuard

(* of a call of the host, *)
LEMMA LeaveHostKeeps == ASSUME EInv, LeaveHost PROVE EInv'
<1>1. Typed /\ SamePanics /\ SameYields
  BY DEF Typed, EInv, Types, LeaveHost, SamePanics, SameYields
<1>2. top.kind \notin Borders
  BY DEF Borders, LeaveHost
<1> QED BY <1>1, <1>2, PopPlain DEF LeaveHost

(* of a blocking region, *)
LEMMA LeaveBlockingKeeps == ASSUME EInv, LeaveBlocking PROVE EInv'
<1> DEFINE new == IF stash[Who] = Nothing THEN Part(top.saved, {"runtime"})
                  ELSE [runtime |-> top.saved.runtime, budget |-> stash[Who]]
<1>1. /\ Partial(top.saved) /\ top.kind \notin Borders /\ Who # Host /\ Who \in Plugins
      /\ {"runtime", "budget"} \subseteq DOMAIN top.saved
  <2>1. Who # Host /\ {"runtime", "budget"} \subseteq DOMAIN top.saved
    BY TopFacts DEF EInv, Framed, LeaveBlocking, Who
  <2> QED BY <2>1, TopFacts, SavedIsPartial DEF EInv, Frames, LeaveBlocking, Borders, Artifacts
<1>2. PICK c \in Contexts : top.saved.runtime = c.runtime
  BY <1>1 DEF Partial
<1>3. Partial(new)
  <2>1. CASE stash[Who] = Nothing
    <3>1. new = Part(top.saved, {"runtime"})
      BY <2>1
    <3>2. DOMAIN new = {"runtime"} /\ new["runtime"] = c["runtime"]
      BY <1>2, <3>1 DEF Part
    <3> HIDE DEF new
    <3> QED BY <3>2 DEF Partial, Fields
  <2>2. CASE stash[Who] # Nothing
    <3>1. stash[Who] \in AllBudgets
      BY <1>1, <2>2 DEF EInv, Types
    <3>2. new = [runtime |-> top.saved.runtime, budget |-> stash[Who]]
      BY <2>2
    <3>3. DOMAIN new = {"runtime", "budget"} /\ new["runtime"] = c["runtime"] /\ new["budget"] = stash[Who]
      BY <1>2, <3>2
    <3> HIDE DEF new
    <3> DEFINE d == [c EXCEPT !.budget = stash[Who]]
    <3>4. d \in Contexts /\ d["runtime"] = c["runtime"] /\ d["budget"] = stash[Who]
      BY <3>1 DEF Contexts
    <3> HIDE DEF d
    <3> QED BY <3>3, <3>4 DEF Partial, Fields
  <2> QED BY <2>1, <2>2
<1>4. Put(Who, new)
  BY DEF LeaveBlocking
<1> HIDE DEF new
<1>5. /\ context' \in [Artifacts -> Contexts] /\ states' \in Seq(StateSet) /\ SamePanics /\ SameYields
  BY <1>3, <1>4, TopFacts, PutKeeps DEF EInv
<1>6. Typed
  BY <1>5 DEF Typed, EInv, Types, LeaveBlocking
<1> QED BY <1>1, <1>5, <1>6, PopPlain DEF LeaveBlocking

(* a panic, *)
LEMMA PanicKeeps == ASSUME EInv, Panic PROVE EInv'
<1> USE DEF EInv
<1> DEFINE L == Len(stack)
           last == [stack[L] EXCEPT !.panics = TRUE]
<1>1. L \in 1 .. L /\ stack[L] \in Frames
  BY TopFacts
<1>2. last \in Frames /\ Alike(last, stack[L])
  BY <1>1 DEF Frames, Alike
<1>3. stack' = [stack EXCEPT ![L] = last]
  BY DEF Panic
<1> HIDE DEF last
<1>4. /\ stack' \in Seq(Frames) /\ Len(stack') = L
      /\ \A i \in 1 .. L : stack'[i] = IF i = L THEN last ELSE stack[i]
  BY <1>1, <1>2, <1>3, ExceptSeq DEF Types
<1>5. \A i \in 1 .. L : Alike(stack'[i], stack[i])
  BY <1>2, <1>4 DEF Alike
<1>6. Types' /\ SamePanics /\ SameYields
  BY <1>4 DEF Types, Panic, SamePanics, SameYields
<1>7. Framed' /\ Pointers' /\ Heights'
  BY <1>4, <1>5, <1>6, StayKeeps DEF Panic
<1>8. Counted'
  BY <1>6, CountKept DEF Panic
<1> QED BY <1>6, <1>7, <1>8

(* The invariant holds on a thread that has called nobody. *)
LEMMA InitKeeps == ASSUME Init PROVE EInv
<1> DEFINE frame == Frame("thread", Host, <<>>)
<1>1. stack = <<frame>> /\ states = <<>> /\ active = 0 /\ execution = [a \in Artifacts |-> 0]
      /\ recorded = 0 /\ made = 0
  BY DEF Init
<1>2. /\ frame \in Frames /\ frame.kind = "thread" /\ frame.who = Host /\ frame.active = 0
      /\ frame.execution = execution
  BY <1>1 DEF Frame, Frames, Kinds, Artifacts, SavedSet
<1> HIDE DEF frame
<1>3. /\ Len(stack) = 1 /\ stack[1] = frame /\ stack \in Seq(Frames)
      /\ states \in Seq(StateSet) /\ Len(states) = 0
  BY <1>1, <1>2
<1>4. Fresh \in Contexts
  BY ContextAssumption DEF Fresh, Contexts, AllBudgets
<1>5. Types
  BY <1>1, <1>3, <1>4 DEF Init, Types
<1>6. Framed
  BY <1>2, <1>3 DEF Framed, Borders
<1>7. ActiveIn(1) = 0 /\ ExecutionIn(1) = execution
  BY <1>1, <1>3 DEF ActiveIn, ExecutionIn
<1>8. Pointing(1)
  BY <1>1, <1>2, <1>3, <1>7 DEF Pointing, Borders
<1>9. Pointers
  BY <1>1, <1>2, <1>3, <1>8 DEF Pointers
<1> DEFINE n == [i \in 1 .. 1 |-> 0]
<1>10. Upright(n)
  BY <1>1, <1>3, <1>7 DEF Upright, Whole, Listed, Grows, Steps
<1>11. Heights
  BY <1>3, <1>10 DEF Heights
<1> DEFINE sum == [i \in 0 .. 0 |-> 0]
<1>12. Partials(sum)
  BY <1>1, <1>3 DEF Partials
<1>13. Counted
  BY <1>3, <1>12 DEF Counted
<1> QED BY <1>5, <1>6, <1>9, <1>11, <1>13 DEF EInv

-----------------------------------------------------------------------------
(* A new state: no yields, and the list of the enclosing one. *)
LEMMA NewStateOf ==
  ASSUME Types, Pointers
  PROVE  /\ NewState \in StateSet /\ NewState.yields = 0
         /\ active = 0 => NewState.panic = <<>>
         /\ active # 0 => NewState.panic = states[active].panic
<1>1. CASE active = 0
  <2>1. context[Host] \in Contexts
    BY DEF Types, Artifacts
  <2> DEFINE old == [runtime |-> "", budget |-> 0, task |-> 0, rng |-> 0, yields |-> 0, panic |-> <<>>]
  <2>2. NewState = With(context[Host], old)
    BY <1>1 DEF NewState
  <2> DEFINE c == context[Host]
  <2>3. DOMAIN c = Fields
    BY <2>1 DEF Contexts, Fields
  <2>4. DOMAIN old = Fields \cup {"yields", "panic"}
    BY DEF Fields
  <2>5. old["yields"] = 0 /\ old["panic"] = <<>>
    OBVIOUS
  <2> HIDE DEF old, c
  <2> DEFINE w == With(c, old)
  <2>6. /\ DOMAIN w = Fields \cup {"yields", "panic"} /\ w["runtime"] = c["runtime"] /\ w["budget"] = c["budget"]
        /\ w["task"] = c["task"] /\ w["rng"] = c["rng"] /\ w["yields"] = 0 /\ w["panic"] = <<>>
    BY <2>3, <2>4, <2>5 DEF With, Fields
  <2>7. w = [f \in DOMAIN old |-> w[f]]
    BY DEF With
  <2> HIDE DEF w
  <2>8. c["runtime"] \in {"NotEntered", "Entered"} /\ c["budget"] \in AllBudgets /\ c["task"] \in Nat /\ c["rng"] \in Nat
    BY <2>1 DEF Contexts, c
  <2>9. <<>> \in Seq(Artifacts)
    OBVIOUS
  <2>10. w \in StateSet
    <3>1. w = [f \in {"runtime", "budget", "task", "rng", "yields", "panic"} |-> w[f]]
      BY <2>4, <2>7 DEF Fields
    <3>2. w = [runtime |-> w["runtime"], budget |-> w["budget"], task |-> w["task"], rng |-> w["rng"],
               yields |-> w["yields"], panic |-> w["panic"]]
      BY <3>1
    <3>3. \A a \in {"NotEntered", "Entered"}, b \in AllBudgets, x \in Nat, y \in Nat, z \in Nat, l \in Seq(Artifacts) :
            [runtime |-> a, budget |-> b, task |-> x, rng |-> y, yields |-> z, panic |-> l] \in StateSet
      BY DEF StateSet
    <3>4. /\ w["runtime"] \in {"NotEntered", "Entered"} /\ w["budget"] \in AllBudgets /\ w["task"] \in Nat
          /\ w["rng"] \in Nat /\ w["yields"] \in Nat /\ w["panic"] \in Seq(Artifacts)
      BY <2>6, <2>8, <2>9
    <3>5. [runtime |-> w["runtime"], budget |-> w["budget"], task |-> w["task"], rng |-> w["rng"],
           yields |-> w["yields"], panic |-> w["panic"]] \in StateSet
      BY <3>3, <3>4
    <3> QED BY <3>2, <3>5
  <2>11. NewState = w
    BY <2>2 DEF w, c
  <2> QED BY <1>1, <2>6, <2>10, <2>11
<1>2. CASE active # 0
  <2>1. active \in 1 .. Len(states)
    BY <1>2 DEF Pointers, Types
  <2>2. states[active] \in StateSet
    BY <2>1, StatesTyped
  <2> QED BY <1>2, <2>2 DEF NewState, StateSet
<1> QED BY <1>1, <1>2

(* Pointing at the top frame of a call: who it is for has the new pointer.  *)
LEMMA CallPoints ==
  ASSUME EInv, Types', NEW L \in Nat, L = Len(stack), Kept(L), Len(stack') = L + 1, L >= 1,
         stack'[L + 1].kind \in Borders, stack'[L + 1].active = active,
         stack'[L + 1].made => active' = active + 1,
         ~stack'[L + 1].made => active' = active,
         active' # 0, execution'[stack'[L + 1].who] = active',
         \A a \in Artifacts : execution'[a] = active' \/ execution'[a] = execution[a]
  PROVE  Pointing(L + 1)'
<1> USE DEF EInv
<1>1. L \in 1 .. Len(stack) /\ L \in 1 .. L /\ L # L + 1
  OBVIOUS
<1>2. /\ ActiveIn(L) = active /\ ExecutionIn(L) = execution
      /\ ActiveIn(L + 1)' = active' /\ ExecutionIn(L + 1)' = execution'
  BY DEF ActiveIn, ExecutionIn
<1>3. Pointing(L)
  BY <1>1 DEF Pointers
<1>4. active <= active' /\ active \in Nat /\ active' \in Nat
  BY DEF Types
<1>5. \A a \in Artifacts : execution'[a] <= active'
  <2>1. \A a \in Artifacts : execution[a] <= active /\ execution[a] \in Nat
    BY <1>2, <1>3 DEF Pointing, Types
  <2> QED BY <1>4, <2>1
<1>6. ASSUME NEW j \in 1 .. L + 1 PROVE ActiveIn(j)' <= ActiveIn(L + 1)'
  <2>1. CASE j = L + 1
    BY <1>2, <1>4, <2>1
  <2>2. CASE j # L + 1
    <3>1. j \in 1 .. L /\ j \in 1 .. Len(stack)
      BY <2>2
    <3>2. ActiveIn(j)' = ActiveIn(j) /\ ActiveIn(j) <= active /\ ActiveIn(j) \in Nat
      BY <1>2, <1>3, <3>1, ActiveIsNat DEF Kept, Pointing
    <3> QED BY <1>2, <1>4, <3>2
  <2> QED BY <2>1, <2>2
<1> HIDE DEF EInv
<1> QED BY <1>2, <1>5, <1>6 DEF Pointing

(* A call that makes a state puts the host and the plugin on its list. *)
LEMMA MakeKeeps ==
  ASSUME EInv, NEW p \in Plugins, NEW kind \in {"with", "task"}, CallPlugin(p, kind),
         kind = "task" \/ active = 0
  PROVE  EInv'
<1> USE DEF EInv
<1>0. PICK L \in Nat : L = Len(stack) /\ L >= 1 /\ L \in 1 .. L /\ 1 \in 1 .. L
  BY TopFacts DEF Types
<1>1. PICK K \in Nat : K = Len(states) /\ K = active
  BY DEF Types, Pointers
<1> DEFINE frame == [Frame(kind, p, <<>>) EXCEPT !.made = TRUE]
           S == [NewState EXCEPT !.panic = @ \o <<Host, p>>]
           P == NewState.panic
<1>2. /\ frame \in Frames /\ frame.kind = kind /\ frame.who = p /\ frame.made = TRUE
      /\ frame.active = active /\ frame.execution = execution
  <2>1. kind \in Kinds /\ p \in Artifacts /\ <<>> \in SavedSet /\ TRUE \in BOOLEAN
    BY DEF Kinds, Borders, Artifacts, SavedSet
  <2> HIDE DEF frame
  <2>2. \A make \in BOOLEAN : LET f == [Frame(kind, p, <<>>) EXCEPT !.made = make] IN
          /\ f \in Frames
          /\ f.kind = kind /\ f.who = p /\ f.saved = <<>> /\ f.made = make
          /\ f.active = active /\ f.execution = execution
    BY <2>1, FrameIsFrame
  <2> QED BY <2>2 DEF frame
<1>3. /\ Push(frame) /\ states' = Append(states, S) /\ active' = K + 1
      /\ execution' = [a \in Artifacts |-> IF a = p \/ a = Host THEN K + 1 ELSE execution[a]]
      /\ UNCHANGED <<context, stash, recorded, made>> /\ Who = Host
  BY <1>1 DEF CallPlugin
<1> HIDE DEF frame
<1>4. /\ stack' \in Seq(Frames) /\ Len(stack') = L + 1
      /\ \A i \in 1 .. L : Alike(stack'[i], stack[i])
      /\ stack'[L + 1] = frame
  BY <1>0, <1>2, <1>3, Pushed
<1>5. /\ NewState \in StateSet /\ NewState.yields = 0
      /\ active = 0 => P = <<>>
      /\ active # 0 => P = states[active].panic
  BY NewStateOf
<1>6. P \in Seq(Artifacts) /\ Host \in Artifacts /\ p \in Artifacts
  BY <1>5 DEF StateSet, Artifacts
<1>7. /\ P \o <<Host, p>> \in Seq(Artifacts) /\ Len(P) \in Nat /\ Len(P \o <<Host, p>>) = Len(P) + 2
      /\ \A x \in 1 .. Len(P) : (P \o <<Host, p>>)[x] = P[x]
      /\ (P \o <<Host, p>>)[Len(P) + 1] = Host /\ (P \o <<Host, p>>)[Len(P) + 2] = p
  BY <1>6
<1>8. S \in StateSet /\ S.yields = 0 /\ S.panic = P \o <<Host, p>>
  BY <1>5, <1>7 DEF StateSet
<1> HIDE DEF S, P
<1>9. /\ states' \in Seq(StateSet) /\ Len(states') = K + 1
      /\ \A k \in 1 .. K : states'[k] = states[k]
      /\ states'[K + 1] = S
  <2>1. states \in Seq(StateSet) /\ S \in StateSet /\ states' = Append(states, S)
    BY <1>3, <1>8 DEF Types
  <2>2. /\ Append(states, S) \in Seq(StateSet) /\ Len(Append(states, S)) = Len(states) + 1
        /\ \A k \in 1 .. Len(states) : Append(states, S)[k] = states[k]
        /\ Append(states, S)[Len(states) + 1] = S
    BY <2>1, AppendProperties
  <2> QED BY <1>1, <2>1, <2>2
<1>10. execution' \in [Artifacts -> Nat] /\ execution'[p] = K + 1
       /\ \A a \in Artifacts : execution'[a] = K + 1 \/ execution'[a] = execution[a]
  BY <1>3, <1>6 DEF Types
<1>11. Types'
  BY <1>0, <1>3, <1>4, <1>9, <1>10 DEF Types
<1>12. Framed'
  <2>1. p # Host
    BY ExecutionAssumption
  <2>2. ASSUME NEW i \in 1 .. Len(stack')
        PROVE  /\ stack'[i].kind \in Borders => stack'[i].who # Host
               /\ stack'[i].kind = "blocking" =>
                    stack'[i].who # Host /\ {"runtime", "budget"} \subseteq DOMAIN stack'[i].saved
    <3>1. CASE i = L + 1
      BY <1>2, <1>4, <2>1, <3>1
    <3>2. CASE i # L + 1
      <4>1. i \in 1 .. L
        BY <1>4, <3>2
      <4> QED BY <1>0, <1>4, <4>1 DEF Framed, Alike
    <3> QED BY <3>1, <3>2
  <2> QED BY <2>2 DEF Framed
<1>13. Kept(L)
  BY <1>0, <1>2, <1>4, KeptByPush
<1>14. Pointing(L + 1)'
  <2>1. /\ stack'[L + 1].kind \in Borders /\ stack'[L + 1].active = active /\ stack'[L + 1].made
        /\ stack'[L + 1].who = p
    BY <1>2, <1>4 DEF Borders
  <2>2. active' = active + 1 /\ active' # 0
    BY <1>1, <1>3
  <2>3. execution'[p] = active' /\ \A a \in Artifacts : execution'[a] = active' \/ execution'[a] = execution[a]
    BY <1>3, <1>10
  <2> QED BY <1>0, <1>4, <1>11, <1>13, <2>1, <2>2, <2>3, CallPoints
<1>15. Pointers'
  BY <1>0, <1>3, <1>4, <1>9, <1>11, <1>13, <1>14, PointersKept
<1>16. PICK n \in [1 .. Len(stack) -> Nat] : Upright(n)
  BY DEF Heights
<1>17. n[L] \in Nat /\ ActiveIn(L) = K /\ Listed(n, L) /\ Grows(n, L) /\ Whole(n)
  BY <1>0, <1>1, <1>16 DEF ActiveIn, Upright
<1>18. PanicsKept(L, n[L])
  BY <1>0, <1>9, <1>17 DEF PanicsKept, Listed
<1> DEFINE h == Len(P) + 2
<1>19. h \in Nat /\ h = Len(states'[active'].panic)
  BY <1>3, <1>7, <1>8, <1>9
<1>20. ASSUME NEW j \in 1 .. L + 1 PROVE \E x \in 1 .. h : states'[active'].panic[x] = stack'[j].who
  <2>1. CASE j = L + 1
    <3>1. stack'[j].who = p /\ states'[active'].panic[Len(P) + 2] = p /\ Len(P) + 2 \in 1 .. h
      BY <1>2, <1>3, <1>4, <1>7, <1>8, <1>9, <2>1
    <3> QED BY <3>1
  <2>2. CASE j # L + 1
    <3>1. j \in 1 .. L /\ j \in 1 .. Len(stack) /\ stack'[j].who = stack[j].who
      BY <1>0, <1>4, <2>2 DEF Alike
    <3>2. CASE active = 0
      <4>1. ActiveIn(j) <= ActiveIn(L) /\ ActiveIn(j) \in Nat /\ Pointing(j)
        BY <1>0, <3>1, ActiveIsNat DEF Pointers, Pointing
      <4>2. ActiveIn(j) = 0
        BY <1>1, <1>17, <3>2, <4>1
      <4>3. stack'[j].who = Host
        BY <3>1, <4>1, <4>2 DEF Pointing
      <4>4. states'[active'].panic[Len(P) + 1] = Host /\ Len(P) + 1 \in 1 .. h
        BY <1>3, <1>7, <1>8, <1>9
      <4> QED BY <4>3, <4>4
    <3>3. CASE active # 0
      <4>1. n[L] = Len(P) /\ \E x \in 1 .. n[L] : P[x] = stack[j].who
        BY <1>0, <1>5, <1>16, <3>1, <3>3, ListedAtTop
      <4>2. PICK x \in 1 .. Len(P) : P[x] = stack[j].who
        BY <4>1
      <4>3. x \in 1 .. h /\ states'[active'].panic[x] = P[x]
        BY <1>3, <1>7, <1>8, <1>9
      <4> QED BY <3>1, <4>2, <4>3
    <3> QED BY <3>2, <3>3
  <2> QED BY <2>1, <2>2
<1> HIDE DEF h
<1>21. ASSUME NEW j \in 1 .. L, ActiveIn(j) = active' PROVE n[j] <= h
  <2>1. ActiveIn(j) <= K /\ ActiveIn(j) \in Nat
    BY <1>0, <1>17, ActiveIsNat DEF Pointers, Pointing
  <2> QED BY <1>3, <1>21, <2>1
<1>22. LET new == stack'[L + 1] IN
         /\ new.kind \notin Borders => h = n[L]
         /\ new.kind \in Borders /\ ~new.made => h = n[L] + 1
         /\ new.kind \in Borders /\ new.made /\ new.active # 0 => n[L] = Len(states'[new.active].panic)
  <2>1. active # 0 => n[L] = Len(states'[active].panic)
    BY <1>0, <1>1, <1>9, <1>17 DEF Whole
  <2> QED BY <1>2, <1>4, <2>1 DEF Borders
<1>23. Heights'
  BY <1>0, <1>4, <1>11, <1>13, <1>16, <1>18, <1>19, <1>20, <1>21, <1>22, HeightsPushed
<1>24. Counted'
  <2>1. PICK sum \in [0 .. K -> Nat] : Partials(sum)
    BY <1>1 DEF Counted
  <2> DEFINE more == [i \in 0 .. K + 1 |-> IF i = K + 1 THEN sum[K] ELSE sum[i]]
  <2>2. more \in [0 .. K + 1 -> Nat] /\ more[K + 1] = sum[K] /\ \A i \in 0 .. K : more[i] = sum[i] /\ sum[i] \in Nat
    OBVIOUS
  <2> HIDE DEF more
  <2>3. more[0] = recorded /\ more[K + 1] = made
    BY <1>1, <2>1, <2>2 DEF Partials
  <2>4. ASSUME NEW i \in 1 .. K + 1 PROVE more[i] = more[i - 1] + states'[i].yields
    <3>1. CASE i = K + 1
      BY <1>8, <1>9, <2>2, <3>1
    <3>2. CASE i # K + 1
      <4>1. i \in 1 .. K /\ i - 1 \in 0 .. K /\ i \in 0 .. K
        BY <3>2
      <4>2. sum[i] = sum[i - 1] + states[i].yields
        BY <1>1, <2>1, <4>1 DEF Partials
      <4> QED BY <1>9, <2>2, <4>1, <4>2
    <3> QED BY <3>1, <3>2
  <2>5. ASSUME NEW i \in 0 .. K + 1, NEW j \in 0 .. i PROVE more[j] <= more[i]
    <3>1. \A a \in 0 .. K : \A b \in 0 .. a : sum[b] <= sum[a]
      BY <1>1, <2>1 DEF Partials
    <3>2. CASE i = K + 1 /\ j = K + 1
      BY <2>2, <3>2
    <3>3. CASE i = K + 1 /\ j # K + 1
      <4>1. j \in 0 .. K /\ K \in 0 .. K
        BY <3>3
      <4> QED BY <2>2, <3>1, <3>3, <4>1
    <3>4. CASE i # K + 1
      <4>1. i \in 0 .. K /\ j \in 0 .. K
        BY <3>4
      <4> QED BY <2>2, <3>1, <4>1
    <3> QED BY <3>2, <3>3, <3>4
  <2>6. Partials(more)'
    BY <1>3, <1>9, <2>3, <2>4, <2>5 DEF Partials
  <2> QED BY <1>9, <2>2, <2>6 DEF Counted
<1> QED BY <1>11, <1>12, <1>15, <1>23, <1>24

(* One that takes the active state puts the plugin on that one's. *)
LEMMA ReuseKeeps ==
  ASSUME EInv, NEW p \in Plugins, NEW kind \in {"with", "task"}, CallPlugin(p, kind),
         ~(kind = "task" \/ active = 0)
  PROVE  EInv'
<1> USE DEF EInv
<1>0. PICK L \in Nat : L = Len(stack) /\ L >= 1 /\ L \in 1 .. L /\ 1 \in 1 .. L
  BY TopFacts DEF Types
<1>1. PICK K \in Nat : K = Len(states) /\ K = active /\ K # 0
  BY DEF Types, Pointers
<1> DEFINE frame == [Frame(kind, p, <<>>) EXCEPT !.made = FALSE]
           old == states[K]
           S == [old EXCEPT !.panic = Append(@, p)]
           P == old.panic
<1>2. /\ frame \in Frames /\ frame.kind = kind /\ frame.who = p /\ frame.made = FALSE
      /\ frame.active = active /\ frame.execution = execution
  <2>1. kind \in Kinds /\ p \in Artifacts /\ <<>> \in SavedSet /\ FALSE \in BOOLEAN
    BY DEF Kinds, Borders, Artifacts, SavedSet
  <2> HIDE DEF frame
  <2>2. \A make \in BOOLEAN : LET f == [Frame(kind, p, <<>>) EXCEPT !.made = make] IN
          /\ f \in Frames
          /\ f.kind = kind /\ f.who = p /\ f.saved = <<>> /\ f.made = make
          /\ f.active = active /\ f.execution = execution
    BY <2>1, FrameIsFrame
  <2> QED BY <2>2 DEF frame
<1>3. /\ Push(frame) /\ states' = [states EXCEPT ![K] = S] /\ active' = K
      /\ execution' = [a \in Artifacts |-> IF a = p THEN K ELSE execution[a]]
      /\ UNCHANGED <<context, stash, recorded, made>> /\ Who = Host
  BY <1>1 DEF CallPlugin
<1> HIDE DEF frame
<1>4. /\ stack' \in Seq(Frames) /\ Len(stack') = L + 1
      /\ \A i \in 1 .. L : Alike(stack'[i], stack[i])
      /\ stack'[L + 1] = frame
  BY <1>0, <1>2, <1>3, Pushed
<1>5. K \in 1 .. K /\ old \in StateSet /\ old.yields \in Nat
  <2>1. K \in 1 .. K
    BY <1>1
  <2>2. old \in StateSet
    BY <1>1, <2>1, StatesTyped
  <2> QED BY <2>1, <2>2 DEF StateSet
<1> HIDE DEF old
<1>6. P \in Seq(Artifacts) /\ p \in Artifacts
  BY <1>5 DEF StateSet, Artifacts
<1>7. /\ Append(P, p) \in Seq(Artifacts) /\ Len(P) \in Nat /\ Len(Append(P, p)) = Len(P) + 1
      /\ \A x \in 1 .. Len(P) : Append(P, p)[x] = P[x]
      /\ Append(P, p)[Len(P) + 1] = p
  BY <1>6, AppendProperties
<1>8. S \in StateSet /\ S.yields = old.yields /\ S.panic = Append(P, p)
  BY <1>5, <1>7 DEF StateSet
<1> HIDE DEF S
<1>9. /\ states' \in Seq(StateSet) /\ Len(states') = K
      /\ \A k \in 1 .. K : states'[k] = IF k = K THEN S ELSE states[k]
  <2>1. states \in Seq(StateSet) /\ K \in 1 .. Len(states)
    BY <1>1, <1>5 DEF Types
  <2>2. /\ [states EXCEPT ![K] = S] \in Seq(StateSet) /\ Len([states EXCEPT ![K] = S]) = Len(states)
        /\ \A k \in 1 .. Len(states) : [states EXCEPT ![K] = S][k] = IF k = K THEN S ELSE states[k]
    BY <1>8, <2>1, ExceptSeq
  <2> QED BY <1>1, <1>3, <2>2
<1>10. execution' \in [Artifacts -> Nat] /\ execution'[p] = K
       /\ \A a \in Artifacts : execution'[a] = K \/ execution'[a] = execution[a]
  BY <1>3, <1>6 DEF Types
<1>11. Types'
  BY <1>0, <1>3, <1>4, <1>9, <1>10 DEF Types
<1>12. Framed'
  <2>1. p # Host
    BY ExecutionAssumption
  <2>2. ASSUME NEW i \in 1 .. Len(stack')
        PROVE  /\ stack'[i].kind \in Borders => stack'[i].who # Host
               /\ stack'[i].kind = "blocking" =>
                    stack'[i].who # Host /\ {"runtime", "budget"} \subseteq DOMAIN stack'[i].saved
    <3>1. CASE i = L + 1
      BY <1>2, <1>4, <2>1, <3>1
    <3>2. CASE i # L + 1
      <4>1. i \in 1 .. L
        BY <1>4, <3>2
      <4> QED BY <1>0, <1>4, <4>1 DEF Framed, Alike
    <3> QED BY <3>1, <3>2
  <2> QED BY <2>2 DEF Framed
<1>13. Kept(L)
  BY <1>0, <1>2, <1>4, KeptByPush
<1>14. Pointing(L + 1)'
  <2>1. /\ stack'[L + 1].kind \in Borders /\ stack'[L + 1].active = active /\ ~stack'[L + 1].made
        /\ stack'[L + 1].who = p
    BY <1>2, <1>4 DEF Borders
  <2>2. active' = active /\ active' # 0
    BY <1>1, <1>3
  <2>3. execution'[p] = active' /\ \A a \in Artifacts : execution'[a] = active' \/ execution'[a] = execution[a]
    BY <1>3, <1>10
  <2> QED BY <1>0, <1>4, <1>11, <1>13, <2>1, <2>2, <2>3, CallPoints
<1>15. Pointers'
  BY <1>0, <1>3, <1>4, <1>9, <1>11, <1>13, <1>14, PointersKept
<1>16. PICK n \in [1 .. Len(stack) -> Nat] : Upright(n)
  BY DEF Heights
<1>17. n[L] \in Nat /\ ActiveIn(L) = K /\ Listed(n, L) /\ Grows(n, L) /\ n[L] = Len(P)
  BY <1>0, <1>1, <1>16 DEF ActiveIn, Upright, Whole, old
<1>18. PanicsKept(L, n[L])
  <2>1. ASSUME NEW k \in 1 .. K PROVE k < K => states'[k].panic = states[k].panic
    BY <1>9, <2>1
  <2>2. n[L] <= Len(states'[K].panic) /\ \A x \in 1 .. n[L] : states'[K].panic[x] = states[K].panic[x]
    <3>1. states'[K].panic = Append(P, p) /\ states[K].panic = P
      BY <1>5, <1>8, <1>9 DEF old
    <3> QED BY <1>7, <1>17, <3>1
  <2> QED BY <1>17, <2>1, <2>2 DEF PanicsKept
<1> DEFINE h == Len(P) + 1
<1>19. h \in Nat /\ h = Len(states'[active'].panic)
  BY <1>3, <1>5, <1>7, <1>8, <1>9
<1>20. ASSUME NEW j \in 1 .. L + 1 PROVE \E x \in 1 .. h : states'[active'].panic[x] = stack'[j].who
  <2>1. CASE j = L + 1
    <3>1. stack'[j].who = p /\ states'[active'].panic[Len(P) + 1] = p /\ Len(P) + 1 \in 1 .. h
      BY <1>2, <1>3, <1>4, <1>5, <1>7, <1>8, <1>9, <2>1
    <3> QED BY <3>1
  <2>2. CASE j # L + 1
    <3>1. j \in 1 .. L /\ j \in 1 .. Len(stack) /\ stack'[j].who = stack[j].who
      BY <1>0, <1>4, <2>2 DEF Alike
    <3>2. \E x \in 1 .. n[L] : P[x] = stack[j].who
      BY <1>0, <1>1, <1>16, <3>1, ListedAtTop DEF old
    <3>3. PICK x \in 1 .. Len(P) : P[x] = stack[j].who
      BY <1>17, <3>2
    <3>4. states'[active'].panic = Append(P, p)
      BY <1>3, <1>5, <1>8, <1>9
    <3>5. x \in 1 .. h /\ states'[active'].panic[x] = P[x]
      BY <1>7, <3>4
    <3> QED BY <3>1, <3>3, <3>5
  <2> QED BY <2>1, <2>2
<1>21. ASSUME NEW j \in 1 .. L, ActiveIn(j) = active' PROVE n[j] <= h
  <2>1. n[j] <= n[L] /\ n[j] \in Nat
    BY <1>0, <1>3, <1>17, <1>21 DEF Grows
  <2> QED BY <1>7, <1>17, <2>1
<1>22. LET new == stack'[L + 1] IN
         /\ new.kind \notin Borders => h = n[L]
         /\ new.kind \in Borders /\ ~new.made => h = n[L] + 1
         /\ new.kind \in Borders /\ new.made /\ new.active # 0 => n[L] = Len(states'[new.active].panic)
  BY <1>2, <1>4, <1>17 DEF Borders
<1> HIDE DEF h
<1>23. Heights'
  BY <1>0, <1>4, <1>11, <1>13, <1>16, <1>18, <1>19, <1>20, <1>21, <1>22, HeightsPushed
<1>24. SameYields
  BY <1>1, <1>8, <1>9 DEF SameYields, old
<1>25. Counted'
  BY <1>3, <1>24, CountKept
<1> QED BY <1>11, <1>12, <1>15, <1>23, <1>25

(* A call into a plugin keeps the invariant. *)
LEMMA CallPluginKeeps ==
  ASSUME EInv, NEW p \in Plugins, NEW kind \in {"with", "task"}, CallPlugin(p, kind)
  PROVE  EInv'
BY MakeKeeps, ReuseKeeps

-----------------------------------------------------------------------------
(* The state made for a call is taken back: its fields, never its yields or *)
(* its list, go to the state below, which is as long as it was.              *)
LEMMA TakenBack ==
  ASSUME EInv, NEW K \in Nat, K = Len(states), K >= 1, NEW previous \in Nat, previous = K - 1,
         TakeBack(previous, Last(states))
  PROVE  /\ context' \in [Artifacts -> Contexts] /\ states' \in Seq(StateSet) /\ Len(states') = K - 1
         /\ \A k \in 1 .. K - 1 : states'[k].panic = states[k].panic /\ states'[k].yields = states[k].yields
<1> USE DEF EInv
<1> DEFINE F == Front(states)
           c == Part(Last(states), Fields)
<1>1. /\ F \in Seq(StateSet) /\ Len(F) = K - 1 /\ \A k \in 1 .. K - 1 : F[k] = states[k]
      /\ Last(states) \in StateSet
  <2>1. states \in Seq(StateSet) /\ states # <<>>
    BY DEF Types
  <2> QED BY <2>1, FrontOf
<1>2. c \in Contexts /\ Partial(c)
  BY <1>1, PartContext, ContextIsPartial
<1>3. /\ context' = IF previous # 0 THEN context ELSE [context EXCEPT ![Host] = c]
      /\ states' = IF previous = 0 THEN F ELSE [F EXCEPT ![previous] = With(c, F[previous])]
  BY DEF TakeBack
<1> HIDE DEF F, c
<1>4. context' \in [Artifacts -> Contexts]
  BY <1>2, <1>3 DEF Types
<1>5. CASE previous = 0
  BY <1>1, <1>3, <1>4, <1>5
<1>6. CASE previous # 0
  <2>1. previous \in 1 .. Len(F)
    BY <1>1, <1>6
  <2>2. F[previous] \in StateSet
    BY <1>1, <2>1
  <2> DEFINE w == With(c, F[previous])
  <2>3. w \in StateSet /\ w.panic = F[previous].panic /\ w.yields = F[previous].yields
    BY <1>2, <2>2, WithState
  <2>4. states' = [F EXCEPT ![previous] = w]
    BY <1>3, <1>6
  <2> HIDE DEF w
  <2>5. /\ states' \in Seq(StateSet) /\ Len(states') = Len(F)
        /\ \A k \in 1 .. Len(F) : states'[k] = IF k = previous THEN w ELSE F[k]
    BY <1>1, <2>1, <2>3, <2>4, ExceptSeq
  <2> QED BY <1>1, <1>4, <2>3, <2>5
<1> QED BY <1>5, <1>6

(* The end of a call into a plugin keeps the invariant. *)
LEMMA LeavePluginKeeps == ASSUME EInv, LeavePlugin PROVE EInv'
<1> USE DEF EInv
<1>0. PICK L \in Nat : L = Len(stack) /\ L >= 2
  BY Popped DEF LeavePlugin
<1>1. /\ stack' \in Seq(Frames) /\ Len(stack') = L - 1
      /\ \A i \in 1 .. L - 1 : Alike(stack'[i], stack[i])
  BY <1>0, Popped DEF LeavePlugin
<1>2. /\ top = stack[L] /\ stack[L] \in Frames /\ stack[L].kind \in Borders /\ stack[L].who # Host
      /\ L \in 1 .. Len(stack)
  BY <1>0, TopFacts DEF LeavePlugin, Borders, Framed
<1>3. PICK K \in Nat : K = Len(states) /\ K = active
  BY DEF Types, Pointers
<1>4. /\ ActiveIn(L) = K /\ K # 0 /\ K \in 1 .. K
      /\ stack[L].made => K = stack[L].active + 1
      /\ ~stack[L].made => K = stack[L].active
  BY <1>0, <1>2, <1>3 DEF Pointers, Pointing, ActiveIn
<1>5. stack[L].active \in Nat /\ stack[L].execution \in [Artifacts -> Nat]
  BY <1>2 DEF Frames
<1>6. active' = stack[L].active /\ execution' = stack[L].execution
  BY <1>2 DEF LeavePlugin
<1>7. Kept(L - 1) /\ ActiveIn(L - 1) = stack[L].active
  BY <1>0, <1>1, <1>6, KeptByPop
<1>8. L - 1 \in 1 .. Len(stack) /\ \A i \in 1 .. L - 1 : i \in 1 .. Len(stack)
  BY <1>0
<1>9. Framed'
  BY <1>1, <1>8 DEF Framed, Alike
<1>10. PICK n \in [1 .. Len(stack) -> Nat] : Upright(n)
  BY DEF Heights
<1>11. /\ n[L] \in Nat /\ n[L - 1] \in Nat /\ Listed(n, L - 1)
       /\ n[L] = Len(states[K].panic)
       /\ ~stack[L].made => n[L] = n[L - 1] + 1
       /\ stack[L].made /\ stack[L].active # 0 => n[L - 1] = Len(states[stack[L].active].panic)
  <2>1. Listed(n, L - 1) /\ Steps(n, L) /\ Whole(n)
    BY <1>2, <1>8, <1>10 DEF Upright
  <2>2. n[L] \in Nat /\ n[L - 1] \in Nat
    BY <1>2, <1>8
  <2>3. n[L] = Len(states[K].panic)
    BY <1>0, <1>3, <1>4, <2>1 DEF Whole
  <2> QED BY <1>0, <1>2, <2>1, <2>2, <2>3 DEF Steps
<1>12. PICK sum \in [0 .. K -> Nat] : Partials(sum)
  BY <1>3 DEF Counted
<1>13. CASE stack[L].made
  <2>1. TakeBack(stack[L].active, Last(states)) /\ recorded' = recorded + Last(states).yields /\ made' = made /\ stash' = stash
    BY <1>2, <1>13 DEF LeavePlugin
  <2>2. stack[L].active = K - 1 /\ K >= 1 /\ K - 1 \in Nat
    BY <1>4, <1>5, <1>13
  <2>3. /\ context' \in [Artifacts -> Contexts] /\ states' \in Seq(StateSet) /\ Len(states') = K - 1
        /\ \A k \in 1 .. K - 1 : states'[k].panic = states[k].panic /\ states'[k].yields = states[k].yields
    BY <1>3, <1>5, <2>1, <2>2, TakenBack
  <2>4. Last(states) = states[K] /\ states[K].yields \in Nat
    <3>1. states[K] \in StateSet
      BY <1>3, <1>4, StatesTyped
    <3> QED BY <1>3, <3>1 DEF Last, StateSet
  <2>5. Types'
    <3>1. recorded' \in Nat
      BY <2>1, <2>4 DEF Types
    <3> QED BY <1>0, <1>1, <1>5, <1>6, <2>1, <2>3, <3>1 DEF Types
  <2>6. active' = Len(states')
    BY <1>6, <2>2, <2>3
  <2>7. Pointers'
    BY <1>0, <1>1, <1>7, <1>8, <2>5, <2>6, PointersKept
  <2>8. PanicsKept(L - 1, n[L - 1])
    BY <1>7, <1>11, <2>2, <2>3 DEF PanicsKept, Listed
  <2>9. active' # 0 => Len(states'[active'].panic) = n[L - 1]
    BY <1>6, <1>11, <1>13, <2>2, <2>3
  <2>10. Heights'
    BY <1>0, <1>1, <1>7, <1>8, <1>10, <2>5, <2>8, <2>9, HeightsKept
  <2>11. \A i \in 0 .. K - 1 : i \in 0 .. K
    BY <2>2
  <2> PICK Y \in Nat : Y = states[K].yields
    BY <2>4
  <2> DEFINE rest == [i \in 0 .. K - 1 |-> sum[i] + Y]
  <2>12. rest \in [0 .. K - 1 -> Nat] /\ \A i \in 0 .. K - 1 : rest[i] = sum[i] + Y /\ sum[i] \in Nat
    BY <2>11
  <2> HIDE DEF rest
  <2>13. sum[0] = recorded /\ sum[K] = made /\ sum[K] = sum[K - 1] + Y
    BY <1>3, <1>4, <1>12 DEF Partials
  <2>14. rest[0] = recorded' /\ rest[K - 1] = made'
    <3>1. 0 \in 0 .. K - 1 /\ K - 1 \in 0 .. K - 1
      BY <2>2
    <3> QED BY <2>1, <2>4, <2>12, <2>13, <3>1
  <2>15. ASSUME NEW i \in 1 .. K - 1 PROVE rest[i] = rest[i - 1] + states'[i].yields
    <3>1. i \in 0 .. K - 1 /\ i - 1 \in 0 .. K - 1 /\ i \in 1 .. K
      BY <2>2
    <3>2. states[i] \in StateSet
      BY <1>3, <3>1, StatesTyped
    <3>3. states[i].yields \in Nat /\ states'[i].yields = states[i].yields
      BY <2>3, <3>2 DEF StateSet
    <3>4. sum[i] = sum[i - 1] + states[i].yields
      BY <1>3, <1>12, <3>1 DEF Partials
    <3>5. rest[i] = sum[i] + Y /\ rest[i - 1] = sum[i - 1] + Y /\ sum[i - 1] \in Nat
      BY <2>12, <3>1
    <3>6. sum[i - 1] + states[i].yields + Y = sum[i - 1] + Y + states[i].yields
      <4>1. \A a, b, c \in Nat : a + b + c = a + c + b
        OBVIOUS
      <4> QED BY <3>3, <3>5, <4>1
    <3> QED BY <3>3, <3>4, <3>5, <3>6
  <2>16. ASSUME NEW i \in 0 .. K - 1, NEW j \in 0 .. i PROVE rest[j] <= rest[i]
    <3>1. i \in 0 .. K /\ j \in 0 .. K - 1
      BY <2>2
    <3>2. sum[j] <= sum[i]
      BY <1>3, <1>12, <3>1 DEF Partials
    <3> QED BY <2>12, <3>1, <3>2
  <2>17. Partials(rest)'
    BY <2>3, <2>14, <2>15, <2>16 DEF Partials
  <2>18. Counted'
    BY <2>3, <2>12, <2>17 DEF Counted
  <2> QED BY <1>9, <2>5, <2>7, <2>10, <2>18
<1>14. CASE ~stack[L].made
  <2>1. /\ states' = [states EXCEPT ![K].panic = Front(@)]
        /\ UNCHANGED <<context, recorded, stash, made>>
    BY <1>2, <1>3, <1>14 DEF LeavePlugin
  <2> DEFINE old == states[K]
             S == [old EXCEPT !.panic = Front(@)]
  <2>2. old \in StateSet
    BY <1>3, <1>4, StatesTyped
  <2>3. states' = [states EXCEPT ![K] = S]
    BY <2>1
  <2>4. old.panic \in Seq(Artifacts) /\ old.panic # <<>>
    <3>1. old.panic \in Seq(Artifacts)
      BY <2>2 DEF StateSet
    <3>2. Len(old.panic) # 0
      BY <1>11, <1>14
    <3> QED BY <3>1, <3>2
  <2>5. /\ Front(old.panic) \in Seq(Artifacts) /\ Len(Front(old.panic)) = Len(old.panic) - 1
        /\ \A x \in 1 .. Len(old.panic) - 1 : Front(old.panic)[x] = old.panic[x]
    BY <2>4, FrontOf
  <2>6. S \in StateSet /\ S.panic = Front(old.panic) /\ S.yields = old.yields
    BY <2>2, <2>5 DEF StateSet
  <2> HIDE DEF S
  <2>7. /\ states' \in Seq(StateSet) /\ Len(states') = K
        /\ \A k \in 1 .. K : states'[k] = IF k = K THEN S ELSE states[k]
    <3>1. states \in Seq(StateSet) /\ K \in 1 .. Len(states)
      BY <1>3, <1>4 DEF Types
    <3>2. /\ [states EXCEPT ![K] = S] \in Seq(StateSet) /\ Len([states EXCEPT ![K] = S]) = Len(states)
          /\ \A k \in 1 .. Len(states) : [states EXCEPT ![K] = S][k] = IF k = K THEN S ELSE states[k]
      BY <2>6, <3>1, ExceptSeq
    <3> QED BY <1>3, <2>3, <3>2
  <2>8. Types'
    BY <1>0, <1>1, <1>5, <1>6, <2>1, <2>7 DEF Types
  <2>9. active' = Len(states') /\ active' = K
    BY <1>4, <1>6, <1>14, <2>7
  <2>10. Pointers'
    BY <1>0, <1>1, <1>7, <1>8, <2>8, <2>9, PointersKept
  <2>11. n[L - 1] = Len(states'[K].panic) /\ \A x \in 1 .. n[L - 1] : states'[K].panic[x] = states[K].panic[x]
    <3>1. n[L - 1] = Len(old.panic) - 1
      <4>1. n[L] = n[L - 1] + 1 /\ n[L] = Len(old.panic) /\ n[L - 1] \in Nat
        BY <1>11, <1>14
      <4>2. \A a, b \in Nat : b = a + 1 => a = b - 1
        OBVIOUS
      <4>3. n[L] \in Nat
        BY <1>11
      <4> HIDE DEF old
      <4> QED BY <4>1, <4>2, <4>3
    <3>2. states'[K].panic = Front(old.panic)
      BY <1>4, <2>6, <2>7
    <3> QED BY <2>5, <3>1, <3>2
  <2>12. PanicsKept(L - 1, n[L - 1])
    <3>1. ActiveIn(L - 1) = K
      BY <1>4, <1>7, <1>14
    <3>2. \A k \in 1 .. K : k < K => states'[k].panic = states[k].panic
      BY <2>7
    <3>3. n[L - 1] <= Len(states'[K].panic)
      BY <1>11, <2>11
    <3> QED BY <2>11, <3>1, <3>2, <3>3 DEF PanicsKept
  <2>13. Heights'
    BY <1>0, <1>1, <1>7, <1>8, <1>10, <2>8, <2>9, <2>11, <2>12, HeightsKept
  <2>14. SameYields
    BY <1>3, <2>6, <2>7 DEF SameYields
  <2>15. Counted'
    BY <2>1, <2>14, CountKept
  <2> QED BY <1>9, <2>8, <2>10, <2>13, <2>15
<1> QED BY <1>13, <1>14

-----------------------------------------------------------------------------
(* The invariant, for any plugins and depth. *)
THEOREM ContextInvariant == Spec => []EInv
<1>1. EInv /\ [Next]_vars => EInv'
  <2> SUFFICES ASSUME EInv, [Next]_vars PROVE EInv'
    OBVIOUS
  <2>1. CASE Enter \/ SetBudget \/ SetTask
    BY <2>1, SetKeeps
  <2>4. CASE Spend
    BY <2>4, SpendKeeps
  <2>5. CASE ForcedYield
    BY <2>5, ForcedYieldKeeps
  <2>6. CASE Draw
    BY <2>6, DrawKeeps
  <2>7. ASSUME NEW p \in Plugins, NEW kind \in {"with", "task"}, CallPlugin(p, kind) PROVE EInv'
    BY <2>7, CallPluginKeeps
  <2>8. CASE CallHost
    BY <2>8, CallHostKeeps
  <2>9. CASE BlockInPlace
    BY <2>9, BlockInPlaceKeeps
  <2>10. CASE LeaveGuard
    BY <2>10, LeaveGuardKeeps
  <2>11. CASE LeaveHost
    BY <2>11, LeaveHostKeeps
  <2>12. CASE LeaveBlocking
    BY <2>12, LeaveBlockingKeeps
  <2>13. CASE LeavePlugin
    BY <2>13, LeavePluginKeeps
  <2>14. CASE Panic
    BY <2>14, PanicKeeps
  <2>15. CASE UNCHANGED vars
    <3>1. Types' /\ SamePanics /\ SameYields
      BY <2>15 DEF vars, EInv, Types, SamePanics, SameYields
    <3>2. Framed' /\ Pointers' /\ Heights'
      BY <2>15, <3>1, StayKeeps DEF vars, Alike
    <3>3. Counted'
      BY <2>15, <3>1, CountKept DEF vars, EInv
    <3> QED BY <3>1, <3>2, <3>3 DEF EInv
  <2> QED BY <2>1, <2>4, <2>5, <2>6, <2>7, <2>8, <2>9, <2>10, <2>11, <2>12, <2>13, <2>14, <2>15 DEF Next
<1> QED BY <1>1, InitKeeps, PTL DEF Spec

(* Whoever runs, host or plugin, reads the one context of the thread: its   *)
(* pointer is never to a state that is gone or not the active one.          *)
THEOREM ContextSeen == Spec => []SeesTheContext
<1>1. EInv => SeesTheContext
  <2> SUFFICES ASSUME EInv PROVE Get(Who) = Get(Host)
    BY DEF SeesTheContext
  <2>1. CASE Who = Host
    BY <2>1
  <2>2. CASE Who # Host
    <3>1. execution_state(Who) = active /\ execution_state(Host) = active /\ active # 0
      BY <2>2, TopFacts DEF EInv, execution_state
    <3> QED BY <3>1 DEF Get
  <2> QED BY <2>1, <2>2
<1> QED BY <1>1, ContextInvariant, PTL

(* Each forced yield is in the metrics or in exactly one live state. *)
THEOREM YieldsCounted == Spec => []EveryYieldCounted
<1>1. EInv => EveryYieldCounted
  <2> SUFFICES ASSUME EInv PROVE EveryYieldCounted
    OBVIOUS
  <2>1. PICK K \in Nat : K = Len(states) /\ DOMAIN states = 1 .. K
    BY DEF EInv, Types
  <2>2. PICK sum \in [0 .. K -> Nat] : Partials(sum)
    BY <2>1 DEF EInv, Counted
  <2>3. \A i \in 0 .. K : sum[i] <= sum[K]
    <3>1. K \in 0 .. K /\ \A i \in 0 .. K : i \in 0 .. K
      BY <2>1
    <3> QED BY <2>1, <2>2, <3>1 DEF Partials
  <2>4. sum[K] = made /\ made \in Nat
    BY <2>1, <2>2 DEF Partials, EInv, Types
  <2>5. \A i \in 0 .. K : sum[i] \in 0 .. made
    BY <2>2, <2>3, <2>4
  <2>6. sum \in [0 .. K -> 0 .. made]
    BY <2>5
  <2> QED BY <2>1, <2>2, <2>6 DEF EveryYieldCounted, Partials
<1> QED BY <1>1, ContextInvariant, PTL

(* Who asks whether the thread panics is told so exactly when somebody on    *)
(* it, of whichever standard library, unwinds.                              *)
THEOREM PanicSeen == Spec => []PanicIsSeen
<1>1. EInv => PanicIsSeen
  <2> SUFFICES ASSUME EInv PROVE is_panicking(Who) <=> \E a \in Artifacts : Unwinds(a)
    BY DEF PanicIsSeen, is_panicking
  <2> USE DEF EInv
  <2>0. /\ Who \in Artifacts /\ execution_state(Who) = active /\ DOMAIN stack = 1 .. Len(stack)
        /\ \A i \in 1 .. Len(stack) : stack[i] \in Frames
    BY TopFacts DEF Types
  <2>1. active # 0 => /\ states[active].panic \in Seq(Artifacts)
                     /\ DOMAIN states[active].panic = 1 .. Len(states[active].panic)
    <3> SUFFICES ASSUME active # 0 PROVE states[active].panic \in Seq(Artifacts)
      OBVIOUS
    <3>1. active \in 1 .. Len(states)
      BY DEF Pointers, Types
    <3> QED BY <3>1, StatesTyped DEF StateSet
  <2>2. ASSUME is_panicking(Who) PROVE \E a \in Artifacts : Unwinds(a)
    <3>1. Unwinds(Who) \/ (active # 0 /\ \E b \in ToSet(states[active].panic) : Unwinds(b))
      BY <2>0, <2>2 DEF is_panicking
    <3>2. active # 0 => ToSet(states[active].panic) \subseteq Artifacts
      BY <2>1 DEF ToSet
    <3> QED BY <2>0, <3>1, <3>2
  <2>3. ASSUME NEW a \in Artifacts, Unwinds(a) PROVE is_panicking(Who)
    <3>1. PICK i \in 1 .. Len(stack) : stack[i].who = a /\ stack[i].panics
      BY <2>0, <2>3 DEF Unwinds
    <3>2. CASE active = 0
      <4>1. \A j \in 1 .. Len(stack) : stack[j].who = Host
        <5>1. ASSUME NEW j \in 1 .. Len(stack) PROVE stack[j].who = Host
          <6>1. Len(stack) \in 1 .. Len(stack) /\ Len(stack) \in Nat
            BY TopFacts
          <6>2. ActiveIn(j) <= ActiveIn(Len(stack)) /\ ActiveIn(Len(stack)) = 0 /\ ActiveIn(j) \in Nat
            BY <3>2, <6>1, ActiveIsNat DEF Pointers, Pointing, ActiveIn
          <6>3. ActiveIn(j) = 0
            BY <6>2
          <6> QED BY <6>3 DEF Pointers, Pointing
        <5> QED BY <5>1
      <4>2. Who = a
        BY <3>1, <4>1, TopFacts DEF Who
      <4> QED BY <2>3, <4>2 DEF is_panicking
    <3>3. CASE active # 0
      <4>1. PICK n \in [1 .. Len(stack) -> Nat] : Upright(n)
        BY DEF Heights
      <4>2. PICK x \in 1 .. Len(states[active].panic) : states[active].panic[x] = a
        BY <3>1, <3>3, <4>1, ListedAtTop
      <4>3. a \in ToSet(states[active].panic)
        BY <2>1, <3>3, <4>2 DEF ToSet
      <4> QED BY <2>0, <2>3, <3>3, <4>3 DEF is_panicking
    <3> QED BY <3>2, <3>3
  <2> QED BY <2>2, <2>3
<1> QED BY <1>1, ContextInvariant, PTL

(* The state keeps its types, and no yield is recorded that was not made. *)
THEOREM ContextTypeOK == Spec => []TypeOK
<1>1. EInv => TypeOK
  <2> SUFFICES ASSUME EInv PROVE TypeOK
    OBVIOUS
  <2>1. DOMAIN context = Artifacts /\ \A a \in Artifacts : DOMAIN context[a] = Fields
    <3>1. \A c \in Contexts : DOMAIN c = Fields
      BY DEF Contexts, Fields
    <3> QED BY <3>1 DEF EInv, Types
  <2>2. active \in 0 .. Len(states) /\ execution \in [Artifacts -> 0 .. Len(states)]
    <3>1. Len(stack) \in 1 .. Len(stack) /\ active = Len(states)
      BY TopFacts DEF EInv
    <3>2. \A a \in Artifacts : execution[a] <= active
      BY <3>1 DEF EInv, Pointers, Pointing, ActiveIn, ExecutionIn
    <3>3. active \in Nat /\ execution \in [Artifacts -> Nat]
      BY DEF EInv, Types
    <3>4. \A a \in Artifacts : execution[a] \in 0 .. Len(states)
      BY <3>1, <3>2, <3>3
    <3> QED BY <3>1, <3>3, <3>4
  <2>3. recorded <= made
    <3>1. PICK K \in Nat : K = Len(states)
      BY DEF EInv, Types
    <3>2. PICK sum \in [0 .. K -> Nat] : Partials(sum)
      BY <3>1 DEF EInv, Counted
    <3>3. K \in 0 .. K /\ 0 \in 0 .. K
      OBVIOUS
    <3> QED BY <3>1, <3>2, <3>3 DEF Partials
  <2>4. stash \in [Plugins -> {Nothing, Unconstrained} \cup 0 .. Initial]
    <3>1. {Nothing} \cup AllBudgets = {Nothing, Unconstrained} \cup 0 .. Initial
      BY DEF AllBudgets
    <3> QED BY <3>1 DEF EInv, Types
  <2>5. stack # <<>> /\ stack[1].who = Host
    BY DEF EInv, Types, Pointers
  <2> QED BY <2>1, <2>2, <2>3, <2>4, <2>5 DEF TypeOK
<1> QED BY <1>1, ContextInvariant, PTL

-----------------------------------------------------------------------------
(* A plugin's own context is never written while the host calls it, and a   *)
(* budget kept aside belongs to a blocking region that has not ended.        *)
Home ==
  /\ stack[1].active = 0
  /\ \A p \in Plugins : context[p] = Fresh
  /\ \A p \in Plugins : stash[p] # Nothing =>
       \E i \in 1 .. Len(stack) : stack[i].kind = "blocking" /\ stack[i].who = p
(* When the thread is back in the host no state is left, no plugin has a    *)
(* budget kept aside, and each has the context it started with.             *)
BackHome ==
  Len(stack) = 1 => /\ active = 0 /\ states = <<>>
                    /\ \A p \in Plugins : context[p] = Fresh /\ stash[p] = Nothing
(* A step that writes no plugin's own context. *)
PluginsKept == \A p \in Plugins : context'[p] = context[p]

(* A plugin that runs writes the state, not its own context. *)
LEMMA PutsInState ==
  ASSUME EInv, NEW new, Put(Who, new)
  PROVE  PluginsKept
<1>1. CASE Who = Host
  <2>1. \A p \in Plugins : p # Host /\ p \in Artifacts
    BY ExecutionAssumption DEF Artifacts
  <2>2. context' = context \/ context' = [context EXCEPT ![Host] = With(new, context[Host])]
    BY <1>1 DEF Put
  <2> QED BY <2>1, <2>2 DEF PluginsKept, EInv, Types
<1>2. CASE Who # Host
  <2>1. execution_state(Who) # 0
    BY <1>2, TopFacts DEF EInv
  <2> QED BY <2>1 DEF Put, PluginsKept
<1> QED BY <1>1, <1>2

(* A step that takes no frame off keeps Home, *)
LEMMA HomeAbove ==
  ASSUME EInv, Home, PluginsKept, stash' = stash, Len(stack') >= Len(stack), Len(stack') \in Nat,
         \A i \in 1 .. Len(stack) : Alike(stack'[i], stack[i])
  PROVE  Home'
<1>1. \A i \in 1 .. Len(stack) : i \in 1 .. Len(stack')
  BY DEF EInv, Types
<1>2. 1 \in 1 .. Len(stack)
  BY TopFacts DEF EInv
<1> QED BY <1>1, <1>2 DEF Home, PluginsKept, Alike

(* so does one that takes a frame off, but for what a region kept aside,    *)
LEMMA HomeBelow ==
  ASSUME EInv, Home, PluginsKept, Pop,
         \A p \in Plugins : stash'[p] = Nothing \/ (stash'[p] = stash[p] /\ (top.kind = "blocking" => p # Who))
  PROVE  Home'
<1>1. PICK L \in Nat : /\ L = Len(stack) /\ L >= 2 /\ Len(stack') = L - 1
                      /\ \A i \in 1 .. L - 1 : Alike(stack'[i], stack[i])
  BY Popped DEF EInv
<1>2. top = stack[L]
  BY <1>1, TopFacts DEF EInv
<1>3. stack'[1].active = 0
  <2>1. 1 \in 1 .. L - 1
    BY <1>1
  <2> QED BY <1>1, <2>1 DEF Alike, Home
<1>4. ASSUME NEW p \in Plugins, stash'[p] # Nothing
      PROVE  \E i \in 1 .. Len(stack') : stack'[i].kind = "blocking" /\ stack'[i].who = p
  <2>1. PICK i \in 1 .. L : stack[i].kind = "blocking" /\ stack[i].who = p
    BY <1>1, <1>4 DEF Home
  <2>2. i # L
    BY <1>2, <1>4, <2>1 DEF Who
  <2>3. i \in 1 .. L - 1
    BY <1>1, <2>2
  <2> QED BY <1>1, <2>1, <2>3 DEF Alike
<1> QED BY <1>3, <1>4 DEF Home, PluginsKept

(* a guard, *)
LEMMA GuardedHome == ASSUME EInv, Home, NEW new, Guarded(new) PROVE Home'
<1> DEFINE frame == Frame("guard", Who, Part(Get(Who), DOMAIN new))
<1>1. Len(stack') = Len(stack) + 1 /\ Len(stack) \in Nat /\ \A i \in 1 .. Len(stack) : stack'[i] = stack[i]
  <2>1. stack' = Append(stack, frame)
    BY DEF Guarded, Push
  <2> HIDE DEF frame
  <2> QED BY <2>1 DEF EInv, Types
<1> QED BY <1>1, PutsInState, HomeAbove DEF Guarded, Alike

(* a call, *)
LEMMA CallHome ==
  ASSUME EInv, Home, NEW frame, Push(frame), UNCHANGED <<context, stash>>
  PROVE  Home'
<1>1. Len(stack') = Len(stack) + 1 /\ Len(stack) \in Nat /\ \A i \in 1 .. Len(stack) : stack'[i] = stack[i]
  BY DEF Push, EInv, Types
<1> QED BY <1>1, HomeAbove DEF PluginsKept, Alike

(* a blocking region, *)
LEMMA BlockingHome == ASSUME EInv, Home, BlockInPlace PROVE Home'
<1> DEFINE frame == Frame("blocking", Who, Part(Get(Who), DOMAIN Blocked))
           nested(i) == [stack[i] EXCEPT !.nested = @ \/ stack[i].kind = "blocking"]
           below == [i \in 1 .. Len(stack) |-> nested(i)]
<1>1. Len(stack) \in Nat /\ DOMAIN stack = 1 .. Len(stack) /\ \A i \in 1 .. Len(stack) : stack[i] \in Frames
  BY DEF EInv, Types
<1>2. stack' = Append(below, frame)
  BY <1>1 DEF BlockInPlace
<1>3. \A i \in 1 .. Len(stack) : nested(i) \in Frames /\ Alike(nested(i), stack[i])
  BY <1>1 DEF Frames, Alike
<1>4. frame.kind = "blocking" /\ frame.who = Who
  BY DEF Frame
<1> HIDE DEF frame, nested
<1>5. below \in Seq(Frames) /\ Len(below) = Len(stack) /\ \A i \in 1 .. Len(stack) : below[i] = nested(i)
  BY <1>1, <1>3
<1> HIDE DEF below
<1>6. /\ Len(stack') = Len(stack) + 1 /\ stack'[Len(stack) + 1] = frame
      /\ \A i \in 1 .. Len(stack) : stack'[i] = below[i]
  BY <1>1, <1>2, <1>5
<1>7. PICK L \in Nat : L = Len(stack) /\ 1 \in 1 .. L
  BY TopFacts DEF EInv
<1>8. \A i \in 1 .. L : Alike(stack'[i], stack[i])
  BY <1>3, <1>5, <1>6, <1>7
<1>9. stack'[1].active = 0
  BY <1>7, <1>8 DEF Alike, Home
<1>10. ASSUME NEW p \in Plugins, stash'[p] # Nothing
       PROVE  \E i \in 1 .. Len(stack') : stack'[i].kind = "blocking" /\ stack'[i].who = p
  <2>1. CASE p = Who
    <3>1. L + 1 \in 1 .. Len(stack') /\ stack'[L + 1].kind = "blocking" /\ stack'[L + 1].who = p
      BY <1>4, <1>6, <1>7, <2>1
    <3> QED BY <3>1
  <2>2. CASE p # Who
    <3>1. stash'[p] = stash[p]
      BY <2>2 DEF BlockInPlace, EInv, Types
    <3>2. PICK i \in 1 .. L : stack[i].kind = "blocking" /\ stack[i].who = p
      BY <1>7, <1>10, <3>1 DEF Home
    <3>3. i \in 1 .. Len(stack')
      BY <1>6, <1>7
    <3> QED BY <1>8, <3>2, <3>3 DEF Alike
  <2> QED BY <2>1, <2>2
<1>11. PluginsKept
  BY PutsInState DEF BlockInPlace
<1> QED BY <1>9, <1>10, <1>11 DEF Home, PluginsKept

(* and the end of a call into a plugin. *)
LEMMA LeavePluginHome == ASSUME EInv, Home, LeavePlugin PROVE Home'
<1>1. PluginsKept
  <2>1. \A p \in Plugins : p # Host /\ p \in Artifacts
    BY ExecutionAssumption DEF Artifacts
  <2>2. context' = context \/ context' = [context EXCEPT ![Host] = Part(Last(states), Fields)]
    BY DEF LeavePlugin, TakeBack
  <2> QED BY <2>1, <2>2 DEF PluginsKept, EInv, Types
<1>2. top.kind # "blocking" /\ stash' = stash
  BY DEF LeavePlugin
<1> QED BY <1>1, <1>2, HomeBelow DEF LeavePlugin

(* Nothing of a call stays behind in the plugins or among the states. *)
THEOREM BackInHost == Spec => []BackHome
<1>1. Init => Home
  <2> SUFFICES ASSUME Init PROVE Home
    OBVIOUS
  <2>1. /\ context = [a \in Artifacts |-> Fresh] /\ stash = [p \in Plugins |-> Nothing]
        /\ stack = <<Frame("thread", Host, <<>>)>> /\ active = 0
    BY DEF Init
  <2>2. stack[1].active = 0
    BY <2>1 DEF Frame
  <2> QED BY <2>1, <2>2 DEF Home, Artifacts
<1>2. Home /\ EInv /\ [Next]_vars => Home'
  <2> SUFFICES ASSUME Home, EInv, [Next]_vars PROVE Home'
    OBVIOUS
  <2>0. Len(stack) \in Nat
    BY DEF EInv, Types
  <2>1. CASE Enter \/ SetBudget \/ SetTask
    BY <2>1, GuardedHome DEF Enter, SetBudget, SetTask
  <2>2. CASE Spend \/ Draw
    <3>1. PluginsKept
      BY <2>2, PutsInState DEF Spend, Draw
    <3> QED BY <2>0, <2>2, <3>1, HomeAbove DEF Spend, Draw, Alike
  <2>3. CASE ForcedYield
    BY <2>0, <2>3, HomeAbove DEF ForcedYield, Alike, PluginsKept
  <2>4. ASSUME NEW p \in Plugins, NEW kind \in {"with", "task"}, CallPlugin(p, kind) PROVE Home'
    <3> DEFINE make == kind = "task" \/ active = 0
    <3>1. Push([Frame(kind, p, <<>>) EXCEPT !.made = make]) /\ UNCHANGED <<context, stash>>
      BY <2>4 DEF CallPlugin
    <3> QED BY <3>1, CallHome
  <2>5. CASE CallHost
    BY <2>5, CallHome DEF CallHost
  <2>6. CASE BlockInPlace
    BY <2>6, BlockingHome
  <2>7. CASE LeaveGuard
    BY <2>7, PutsInState, HomeBelow DEF LeaveGuard
  <2>8. CASE LeaveHost
    BY <2>8, HomeBelow DEF LeaveHost, PluginsKept
  <2>9. CASE LeaveBlocking
    <3>1. PluginsKept
      BY <2>9, PutsInState DEF LeaveBlocking
    <3>2. \A p \in Plugins : stash'[p] = Nothing \/ (stash'[p] = stash[p] /\ p # Who)
      BY <2>9 DEF LeaveBlocking, EInv, Types
    <3> QED BY <2>9, <3>1, <3>2, HomeBelow DEF LeaveBlocking
  <2>10. CASE LeavePlugin
    BY <2>10, LeavePluginHome
  <2>11. CASE Panic
    <3> DEFINE L == Len(stack)
               last == [stack[L] EXCEPT !.panics = TRUE]
    <3>1. L \in 1 .. L /\ stack[L] \in Frames
      BY TopFacts DEF EInv
    <3>2. last \in Frames /\ Alike(last, stack[L])
      BY <3>1 DEF Frames, Alike
    <3>3. stack' = [stack EXCEPT ![L] = last]
      BY <2>11 DEF Panic
    <3> HIDE DEF last
    <3>4. Len(stack') = L /\ \A i \in 1 .. L : stack'[i] = IF i = L THEN last ELSE stack[i]
      BY <3>1, <3>2, <3>3, ExceptSeq DEF EInv, Types
    <3>5. \A i \in 1 .. L : Alike(stack'[i], stack[i])
      BY <3>2, <3>4 DEF Alike
    <3>6. Len(stack') >= Len(stack) /\ Len(stack') \in Nat
      BY <2>0, <3>4
    <3>7. PluginsKept /\ stash' = stash
      BY <2>11 DEF Panic, PluginsKept
    <3> QED BY <3>5, <3>6, <3>7, HomeAbove
  <2>12. CASE UNCHANGED vars
    BY <2>0, <2>12, HomeAbove DEF vars, Alike, PluginsKept
  <2> QED BY <2>1, <2>2, <2>3, <2>4, <2>5, <2>6, <2>7, <2>8, <2>9, <2>10, <2>11, <2>12 DEF Next
<1>3. Home /\ EInv => BackHome
  <2> SUFFICES ASSUME Home, EInv, Len(stack) = 1
               PROVE  active = 0 /\ states = <<>> /\ \A p \in Plugins : context[p] = Fresh /\ stash[p] = Nothing
    BY DEF BackHome
  <2>1. Pointing(1) /\ stack[1].kind = "thread" /\ stack[1].who = Host /\ active = Len(states)
    BY DEF EInv, Pointers
  <2>2. active = 0
    BY <2>1 DEF Pointing, ActiveIn, Borders, Home
  <2>3. states = <<>>
    <3>1. states \in Seq(StateSet) /\ Len(states) = 0
      BY <2>1, <2>2 DEF EInv, Types
    <3> QED BY <3>1, EmptySeq
  <2>4. \A p \in Plugins : stash[p] = Nothing
    <3>1. \A i \in 1 .. Len(stack) : stack[i].kind # "blocking"
      BY <2>1
    <3> QED BY <3>1 DEF Home
  <2> QED BY <2>2, <2>3, <2>4 DEF Home
<1> QED BY <1>1, <1>2, <1>3, ContextInvariant, PTL DEF Spec

-----------------------------------------------------------------------------
(* A thread with one Tokio.  A blocking region saves the runtime and the     *)
(* budget; the budget its plugin keeps aside is the one it has saved, unless *)
(* it is nested: then a later region of the same plugin has taken the place, *)
(* or has left it empty.                                                   *)
Region(i) == stack[i].kind = "blocking"
Keeps(i) == stash[stack[i].who] = stack[i].saved.budget
Aside ==
  \A i \in 1 .. Len(stack) : Region(i) =>
    /\ DOMAIN stack[i].saved = {"runtime", "budget"}
    /\ ~stack[i].nested => Keeps(i) /\ \A j \in i + 1 .. Len(stack) : ~Region(j)
    /\ \/ Keeps(i) \/ stash[stack[i].who] = Nothing
       \/ \E j \in i + 1 .. Len(stack) : Region(j) /\ stack[j].who = stack[i].who

(* A frame is the same but for its panics. *)
Same(new, old) ==
  new.kind = old.kind /\ new.who = old.who /\ new.saved = old.saved /\ new.nested = old.nested

(* Frames that are not regions may come and go. *)
LEMMA AsideAbove ==
  ASSUME Aside, NEW L \in Nat, Len(stack) = L, NEW M \in Nat, Len(stack') = M, stash' = stash,
         \A i \in 1 .. L : i <= M => Same(stack'[i], stack[i]),
         \A i \in 1 .. L : i > M => ~Region(i),
         \A i \in 1 .. M : i > L => stack'[i].kind # "blocking"
  PROVE  Aside'
<1> SUFFICES ASSUME NEW i \in 1 .. M, stack'[i].kind = "blocking"
             PROVE  /\ DOMAIN stack'[i].saved = {"runtime", "budget"}
                    /\ ~stack'[i].nested => stash'[stack'[i].who] = stack'[i].saved.budget
                         /\ \A j \in i + 1 .. M : stack'[j].kind # "blocking"
                    /\ \/ stash'[stack'[i].who] = stack'[i].saved.budget \/ stash'[stack'[i].who] = Nothing
                       \/ \E j \in i + 1 .. M : stack'[j].kind = "blocking" /\ stack'[j].who = stack'[i].who
  BY DEF Aside, Region, Keeps
<1>1. i \in 1 .. L /\ Same(stack'[i], stack[i]) /\ Region(i)
  BY DEF Same, Region
<1>2. \A j \in i + 1 .. M : stack'[j].kind = "blocking" => j \in i + 1 .. L /\ Region(j)
  BY <1>1 DEF Same, Region
<1>3. ASSUME NEW j \in i + 1 .. L, Region(j), stack[j].who = stack[i].who
      PROVE  j \in i + 1 .. M /\ stack'[j].kind = "blocking" /\ stack'[j].who = stack'[i].who
  <2>1. j \in 1 .. L /\ j <= M
    BY <1>3
  <2> QED BY <1>1, <1>3, <2>1 DEF Same, Region
<1>4. DOMAIN stack'[i].saved = {"runtime", "budget"}
  BY <1>1 DEF Aside, Same
<1>5. ~stack'[i].nested => stash'[stack'[i].who] = stack'[i].saved.budget
                         /\ \A j \in i + 1 .. M : stack'[j].kind # "blocking"
  BY <1>1, <1>2 DEF Aside, Same, Keeps
<1>6. \/ stash'[stack'[i].who] = stack'[i].saved.budget \/ stash'[stack'[i].who] = Nothing
      \/ \E j \in i + 1 .. M : stack'[j].kind = "blocking" /\ stack'[j].who = stack'[i].who
  BY <1>1, <1>3 DEF Aside, Same, Keeps
<1> QED BY <1>4, <1>5, <1>6

(* The context the host reads is what was put. *)
LEMMA GetPut ==
  ASSUME EInv, NEW new, Put(Who, new), active' = active
  PROVE  Get(Host)' = With(new, Get(Host))
<1> USE DEF EInv
<1>1. /\ active = Len(states) /\ execution_state(Who) = active /\ (Who # Host => active # 0)
      /\ Who \in Artifacts
  BY TopFacts
<1>2. execution_state(Host) = active /\ execution_state(Host)' = active
  BY DEF execution_state
<1>3. CASE active = 0
  <2>1. context' = [context EXCEPT ![Host] = With(new, @)] /\ Who = Host
    BY <1>1, <1>3 DEF Put
  <2>2. context'[Host] = With(new, context[Host])
    BY <2>1 DEF Types, Artifacts
  <2> QED BY <1>2, <1>3, <2>2 DEF Get
<1>4. CASE active # 0
  <2>1. states' = [states EXCEPT ![active] = With(new, @)] /\ active \in 1 .. Len(states)
    BY <1>1, <1>4 DEF Put, Types
  <2>2. states'[active] = With(new, states[active]) /\ states[active] \in StateSet
    BY <2>1, StatesTyped DEF Types
  <2>3. Part(With(new, states[active]), Fields) = With(new, Part(states[active], Fields))
    BY <2>2 DEF Part, With, StateSet, Fields
  <2> QED BY <1>2, <1>4, <2>2, <2>3 DEF Get
<1> QED BY <1>3, <1>4

(* Who runs reads what the host reads. *)
LEMMA GetWho ==
  ASSUME EInv
  PROVE  Get(Who) = Get(Host) /\ Get(Host) \in Contexts
<1>1. Get(Who) = Get(Host)
  <2>1. execution_state(Who) = active /\ (Who # Host => active # 0) /\ execution_state(Host) = active
    BY TopFacts DEF EInv, execution_state
  <2> QED BY <2>1 DEF Get
<1>2. Who \in Artifacts /\ execution_state(Who) \in 0 .. Len(states)
  BY TopFacts DEF EInv
<1> QED BY <1>1, <1>2, GetIsContext DEF EInv

-----------------------------------------------------------------------------
(* Guards *)
Guarding == {"guard", "blocking"}
Entry(frame) == [saved |-> frame.saved, nested |-> frame.nested, blocking |-> frame.kind = "blocking"]

(* The guards of OneContext are the frames that are guards or regions, *)
LEMMA GuardsAre ==
  ASSUME NEW L \in Nat, Len(stack) = L, stack \in Seq(Frames)
  PROVE  /\ DOMAIN Guards = {d \in 1 .. L : stack[d].kind \in Guarding}
         /\ \A d \in DOMAIN Guards : Guards[d] = Entry(stack[d])
         /\ Guards = [d \in {j \in 1 .. L : stack[j].kind \in Guarding} |-> Entry(stack[d])]
BY DEF Guards, Guarding, Entry

(* also after a step. *)
LEMMA GuardsAreNow ==
  ASSUME NEW L \in Nat, Len(stack') = L, stack' \in Seq(Frames)
  PROVE  Guards' = [d \in {j \in 1 .. L : stack'[j].kind \in Guarding} |-> Entry(stack'[d])]
BY DEF Guards, Guarding, Entry

(* Frames that are not guards do not show. *)
LEMMA GuardsSame ==
  ASSUME Types, stack' \in Seq(Frames), NEW L \in Nat, Len(stack) = L, NEW M \in Nat, Len(stack') = M,
         \A i \in 1 .. L : i <= M => Same(stack'[i], stack[i]),
         \A i \in 1 .. L : i > M => stack[i].kind \notin Guarding,
         \A i \in 1 .. M : i > L => stack'[i].kind \notin Guarding
  PROVE  Guards' = Guards
<1>1. {j \in 1 .. M : stack'[j].kind \in Guarding} = {j \in 1 .. L : stack[j].kind \in Guarding}
  BY DEF Same
<1>2. \A j \in 1 .. L : stack[j].kind \in Guarding => j <= M /\ Entry(stack'[j]) = Entry(stack[j])
  BY DEF Same, Entry
<1>3. Guards = [d \in {j \in 1 .. L : stack[j].kind \in Guarding} |-> Entry(stack[d])]
  BY GuardsAre DEF Types
<1>4. Guards' = [d \in {j \in 1 .. M : stack'[j].kind \in Guarding} |-> Entry(stack'[d])]
  BY GuardsAreNow
<1> QED BY <1>1, <1>2, <1>3, <1>4

(* A new guard lies on top; a block_in_place marks the regions below. *)
LEMMA GuardPushed ==
  ASSUME Types, stack' \in Seq(Frames), NEW L \in Nat, Len(stack) = L, Len(stack') = L + 1, L < MaxDepth,
         stack'[L + 1].kind \in Guarding, NEW gs,
         gs = [d \in {j \in 1 .. L : stack[j].kind \in Guarding} |-> Entry(stack'[d])],
         \A i \in 1 .. L : stack'[i].kind = stack[i].kind
  PROVE  One!Push(Entry(stack'[L + 1]), gs)
<1> DEFINE G == {j \in 1 .. L : stack[j].kind \in Guarding}
           H == {j \in 1 .. L + 1 : stack'[j].kind \in Guarding}
<1>1. L + 1 \in 1 .. MaxDepth /\ \A d \in G : d < L + 1
  BY ExecutionAssumption
<1>2. DOMAIN gs = G /\ \A d \in G : gs[d] = Entry(stack'[d])
  OBVIOUS
<1>3. H = G \cup {L + 1}
  OBVIOUS
<1>4. Guards' = [d \in H |-> Entry(stack'[d])]
  <2>1. L + 1 \in Nat
    OBVIOUS
  <2> QED BY <2>1, GuardsAreNow
<1> HIDE DEF H, G
<1>5. [d \in G \cup {L + 1} |-> Entry(stack'[d])] = [d \in G \cup {L + 1} |-> IF d = L + 1 THEN Entry(stack'[L + 1]) ELSE gs[d]]
  BY <1>2
<1>6. /\ \A d \in DOMAIN gs : d < L + 1
      /\ Guards' = [d \in DOMAIN gs \cup {L + 1} |-> IF d = L + 1 THEN Entry(stack'[L + 1]) ELSE gs[d]]
  BY <1>1, <1>2, <1>3, <1>4, <1>5
<1> QED BY <1>1, <1>6 DEF One!Push

(* The guard on top goes before the others. *)
LEMMA GuardPopped ==
  ASSUME Types, stack' \in Seq(Frames), NEW L \in Nat, Len(stack) = L, L >= 2, Len(stack') = L - 1,
         stack[L].kind \in Guarding, \A i \in 1 .. L - 1 : Same(stack'[i], stack[i])
  PROVE  /\ L \in DOMAIN Guards /\ Guards[L] = Entry(stack[L])
         /\ \A d \in DOMAIN Guards : d <= L
         /\ Guards' = [d \in DOMAIN Guards \ {L} |-> Guards[d]]
<1>1. /\ DOMAIN Guards = {d \in 1 .. L : stack[d].kind \in Guarding}
      /\ \A d \in DOMAIN Guards : Guards[d] = Entry(stack[d])
  BY GuardsAre DEF Types
<1>2. Guards' = [d \in {j \in 1 .. L - 1 : stack'[j].kind \in Guarding} |-> Entry(stack'[d])]
  <2>1. L - 1 \in Nat
    OBVIOUS
  <2> QED BY <2>1, GuardsAreNow
<1>3. {j \in 1 .. L - 1 : stack'[j].kind \in Guarding} = DOMAIN Guards \ {L}
  BY <1>1 DEF Same
<1>4. \A d \in DOMAIN Guards \ {L} : Entry(stack'[d]) = Guards[d]
  BY <1>1, <1>3 DEF Same, Entry
<1>5. L \in DOMAIN Guards /\ \A d \in DOMAIN Guards : d <= L
  BY <1>1
<1> QED BY <1>1, <1>2, <1>3, <1>4, <1>5

(* A step of the thread is one of the thread with one Tokio, or shows none. *)
Shown == One!Next \/ UNCHANGED One!vars

(* A guard here is a guard there, *)
LEMMA GuardedShows ==
  ASSUME EInv, Aside, NEW new, Partial(new), DOMAIN new \subseteq Fields, Guarded(new)
  PROVE  One!Set(new) /\ Aside'
<1> USE DEF EInv
<1> DEFINE saved == Part(Get(Who), DOMAIN new)
           frame == Frame("guard", Who, saved)
<1>1. Get(Who) = Get(Host) /\ Get(Who) \in Contexts
  BY GetWho
<1>2. saved \in SavedSet
  BY <1>1, PartPartial
<1>3. frame \in Frames /\ Push(frame)
  BY <1>2, TopFacts, FrameIsFrame DEF Kinds, Guarded
<1>4. frame.kind = "guard" /\ frame.who = Who /\ frame.saved = saved /\ frame.nested = FALSE
  BY DEF Frame
<1>5. saved = Part(Get(Host), DOMAIN new)
  BY <1>1
<1> HIDE DEF frame, saved
<1>6. PICK L \in Nat : L = Len(stack) /\ L < MaxDepth
  BY <1>3, Pushed DEF Push
<1>7. /\ stack' \in Seq(Frames) /\ Len(stack') = L + 1
      /\ \A i \in 1 .. L : stack'[i] = stack[i]
      /\ stack'[L + 1] = frame
  BY <1>3, <1>6, Pushed
<1>8. One!Push(Entry(frame), Guards)
  <2> DEFINE G == {j \in 1 .. L : stack[j].kind \in Guarding}
  <2>1. Guards = [d \in G |-> Entry(stack[d])]
    BY <1>6, GuardsAre DEF Types
  <2>2. [d \in G |-> Entry(stack[d])] = [d \in G |-> Entry(stack'[d])]
    BY <1>7
  <2> QED BY <1>4, <1>6, <1>7, <2>1, <2>2, GuardPushed DEF Guarding
<1>9. Entry(frame) = One!Guard(new, FALSE)
  BY <1>4, <1>5 DEF Entry, One!Guard, One!Part, Part
<1>10. Get(Host)' = With(new, Get(Host)) /\ made' = made
  BY GetPut DEF Guarded
<1>11. One!Set(new)
  BY <1>8, <1>9, <1>10 DEF One!Set, One!With, With
<1>12. Aside'
  <2>1. L + 1 \in Nat /\ stash' = stash /\ \A i \in 1 .. L + 1 : i > L => i = L + 1
    BY DEF Guarded
  <2> QED BY <1>4, <1>6, <1>7, <2>1, AsideAbove DEF Same
<1> QED BY <1>11, <1>12

(* whichever it is. *)
LEMMA SetShows == ASSUME EInv, Aside, Enter \/ SetBudget \/ SetTask PROVE Shown /\ Aside'
<1>1. CASE Enter
  BY <1>1, GuardsSet, GuardedShows DEF Enter, Shown, One!Next, One!EnterRuntime, EnterRuntime
<1>2. CASE SetBudget \/ SetTask
  <2>1. PICK new \in Budgets \cup Tasks : Guarded(new)
    BY <1>2 DEF SetBudget, SetTask
  <2>2. One!Set(new) /\ Aside'
    BY <2>1, GuardsSet, GuardedShows
  <2>3. new \in One!Budgets \cup One!Tasks
    BY DEF One!Budgets, One!Tasks, Budgets, Tasks
  <2> QED BY <2>2, <2>3 DEF Shown, One!Next
<1> QED BY <1>1, <1>2

(* What is done in place: only the context changes. *)
LEMMA InPlaceShows ==
  ASSUME EInv, Aside, NEW new, Put(Who, new), active' = active, stash' = stash, stack' = stack, made' = made
  PROVE  Get(Host)' = With(new, Get(Host)) /\ Guards' = Guards /\ Aside'
<1>1. Get(Host)' = With(new, Get(Host))
  BY GetPut
<1>2. Guards' = Guards
  BY DEF Guards
<1>3. Aside'
  BY DEF Aside, Region, Keeps
<1> QED BY <1>1, <1>2, <1>3

(* Spending the budget, *)
LEMMA SpendShows == ASSUME EInv, Aside, Spend PROVE Shown /\ Aside'
<1>1. Get(Who) = Get(Host) /\ Get(Host) \in Contexts
  BY GetWho
<1> DEFINE new == [budget |-> Get(Host).budget - 1]
<1>2. /\ Get(Host)' = With(new, Get(Host)) /\ Guards' = Guards /\ Aside'
      /\ Get(Host).budget \in Nat \ {0} /\ made' = made
  BY <1>1, InPlaceShows DEF Spend
<1>3. \A c \in Contexts : With([budget |-> c.budget - 1], c) = [c EXCEPT !.budget = @ - 1]
  BY DEF With, Contexts
<1> QED BY <1>1, <1>2, <1>3 DEF Shown, One!Next, One!Spend

(* drawing a random number, *)
LEMMA DrawShows == ASSUME EInv, Aside, Draw PROVE Shown /\ Aside'
<1>1. Get(Who) = Get(Host) /\ Get(Host) \in Contexts
  BY GetWho
<1> DEFINE new == [rng |-> Drawn(Get(Host).rng)]
<1>2. Get(Host)' = With(new, Get(Host)) /\ Guards' = Guards /\ Aside' /\ made' = made
  BY <1>1, InPlaceShows DEF Draw
<1>3. \A c \in Contexts : With([rng |-> Drawn(c.rng)], c) = [c EXCEPT !.rng = One!Drawn(@)]
  BY DEF With, Contexts, Drawn, One!Drawn
<1> QED BY <1>1, <1>2, <1>3 DEF Shown, One!Next, One!Draw

(* and a forced yield, which the state or the metrics count. *)
LEMMA ForcedYieldShows == ASSUME EInv, Aside, ForcedYield PROVE Shown /\ Aside'
<1>1. Get(Who) = Get(Host) /\ Get(Host) \in Contexts
  BY GetWho
<1>2. Get(Host)' = Get(Host)
  <2>1. context' = context /\ active' = active /\ execution_state(Host)' = active /\ execution_state(Host) = active
    BY DEF ForcedYield, execution_state
  <2>2. CASE states' = states
    BY <2>1, <2>2 DEF Get
  <2>3. CASE states' # states
    <3>1. Who # Host /\ states' = [states EXCEPT ![active].yields = @ + 1] /\ active \in 1 .. Len(states)
      BY <2>3, TopFacts DEF ForcedYield, EInv, Types
    <3>2. states[active] \in StateSet
      BY <3>1, StatesTyped DEF EInv
    <3>3. states'[active] = [states[active] EXCEPT !.yields = @ + 1]
      BY <3>1 DEF EInv, Types
    <3>4. Part(states'[active], Fields) = Part(states[active], Fields)
      BY <3>2, <3>3 DEF Part, Fields, StateSet
    <3> QED BY <2>1, <3>1, <3>4 DEF Get
  <2> QED BY <2>2, <2>3
<1>3. Guards' = Guards /\ Aside'
  BY DEF ForcedYield, Guards, Aside, Region, Keeps
<1>4. One!ForcedYield
  BY <1>1, <1>2, <1>3 DEF ForcedYield, One!ForcedYield
<1> QED BY <1>3, <1>4 DEF Shown, One!Next

(* Frames that are not guards come and go unseen. *)
LEMMA Unseen ==
  ASSUME EInv, Aside, stack' \in Seq(Frames), NEW L \in Nat, Len(stack) = L, NEW M \in Nat, Len(stack') = M,
         \A i \in 1 .. L : i <= M => Same(stack'[i], stack[i]),
         \A i \in 1 .. L : i > M => stack[i].kind \notin Guarding,
         \A i \in 1 .. M : i > L => stack'[i].kind \notin Guarding,
         Get(Host)' = Get(Host), stash' = stash, made' = made
  PROVE  Shown /\ Aside'
<1>1. Guards' = Guards
  BY GuardsSame DEF EInv
<1>2. Aside'
  BY AsideAbove DEF Guarding, Region
<1> QED BY <1>1, <1>2 DEF Shown, One!vars

(* A panic is not seen, *)
LEMMA PanicShows == ASSUME EInv, Aside, Panic PROVE Shown /\ Aside'
<1> DEFINE frame == [stack[Len(stack)] EXCEPT !.panics = TRUE]
<1>1. stack \in Seq(Frames) /\ Len(stack) \in Nat /\ Len(stack) \in 1 .. Len(stack) /\ stack[Len(stack)] \in Frames
  BY TopFacts DEF EInv, Types
<1>2. frame \in Frames /\ Same(frame, stack[Len(stack)])
  BY <1>1 DEF Frames, Same
<1>3. stack' = [stack EXCEPT ![Len(stack)] = frame]
  BY DEF Panic
<1> HIDE DEF frame
<1>4. /\ stack' \in Seq(Frames) /\ Len(stack') = Len(stack)
      /\ \A i \in 1 .. Len(stack) : stack'[i] = IF i = Len(stack) THEN frame ELSE stack[i]
  BY <1>1, <1>2, <1>3, ExceptSeq
<1>5. \A i \in 1 .. Len(stack) : Same(stack'[i], stack[i])
  BY <1>2, <1>4 DEF Same
<1>6. Get(Host)' = Get(Host) /\ stash' = stash /\ made' = made
  BY DEF Panic, Get, execution_state
<1>7. PICK L \in Nat : L = Len(stack)
  BY <1>1
<1>8. /\ \A i \in 1 .. L : i <= L => Same(stack'[i], stack[i])
      /\ \A i \in 1 .. L : ~(i > L)
  BY <1>5, <1>7
<1> QED BY <1>4, <1>6, <1>7, <1>8, Unseen

(* A call pushes a frame that is no guard. *)
LEMMA CallUnseen ==
  ASSUME EInv, Aside, NEW frame \in Frames, frame.kind \notin Guarding, Push(frame),
         Get(Host)' = Get(Host), stash' = stash, made' = made
  PROVE  Shown /\ Aside'
<1>1. PICK L \in Nat : L = Len(stack)
  BY Pushed DEF EInv
<1>2. /\ stack' \in Seq(Frames) /\ Len(stack') = L + 1
      /\ \A i \in 1 .. L : stack'[i] = stack[i]
      /\ stack'[L + 1] = frame
  BY <1>1, Pushed DEF EInv
<1>3. /\ \A i \in 1 .. L : Same(stack'[i], stack[i]) /\ ~(i > L + 1)
      /\ \A i \in 1 .. L + 1 : i > L => i = L + 1
  BY <1>2 DEF Same
<1>4. L + 1 \in Nat
  OBVIOUS
<1> QED BY <1>1, <1>2, <1>3, <1>4, Unseen

(* nor a call into the host. *)
LEMMA CallHostShows == ASSUME EInv, Aside, CallHost PROVE Shown /\ Aside'
<1> DEFINE frame == Frame("api", Host, <<>>)
<1>1. frame \in Frames /\ frame.kind = "api"
  <2>1. "api" \in Kinds /\ Host \in Artifacts /\ <<>> \in SavedSet
    BY DEF Kinds, Artifacts, SavedSet
  <2> QED BY <2>1, FrameIsFrame DEF EInv, Frame
<1>2. Push(frame) /\ Get(Host)' = Get(Host) /\ stash' = stash /\ made' = made
  BY DEF CallHost, Get, execution_state
<1> HIDE DEF frame
<1> QED BY <1>1, <1>2, CallUnseen DEF Guarding

(* The state a call makes, or takes, has the context the host had. *)
LEMMA CallPluginShows ==
  ASSUME EInv, Aside, NEW p \in Plugins, NEW kind \in {"with", "task"}, CallPlugin(p, kind)
  PROVE  Shown /\ Aside'
<1> DEFINE make == kind = "task" \/ active = 0
           frame == [Frame(kind, p, <<>>) EXCEPT !.made = make]
<1>1. frame \in Frames /\ frame.kind = kind
  <2>1. kind \in Kinds /\ p \in Artifacts /\ <<>> \in SavedSet /\ make \in BOOLEAN
    BY DEF Kinds, Borders, Artifacts, SavedSet
  <2> HIDE DEF frame, make
  <2>2. \A m \in BOOLEAN : LET f == [Frame(kind, p, <<>>) EXCEPT !.made = m] IN f \in Frames /\ f.kind = kind
    BY <2>1, FrameIsFrame DEF EInv
  <2> QED BY <2>1, <2>2 DEF frame
<1>2. Push(frame) /\ stash' = stash /\ made' = made /\ context' = context
  BY DEF CallPlugin
<1>3. active = Len(states) /\ Len(states) \in Nat /\ states \in Seq(StateSet)
  BY DEF EInv, Pointers, Types
<1>4. execution_state(Host) = active /\ execution_state(Host)' = active'
  BY DEF execution_state
<1>5. Get(Host)' = Get(Host)
  <2>1. CASE make
    <3> DEFINE S == [NewState EXCEPT !.panic = @ \o <<Host, p>>]
    <3>1. states' = Append(states, S) /\ active' = Len(states) + 1
      BY <2>1 DEF CallPlugin
    <3>2. NewState \in StateSet
      BY NewStateOf DEF EInv
    <3>3. Part(S, Fields) = Part(NewState, Fields)
      BY <3>2 DEF Part, Fields, StateSet
    <3>4. Part(NewState, Fields) = Get(Host)
      <4>1. CASE active = 0
        <5>1. context[Host] \in Contexts
          BY DEF EInv, Types, Artifacts
        <5> DEFINE old == [runtime |-> "", budget |-> 0, task |-> 0, rng |-> 0, yields |-> 0, panic |-> <<>>]
        <5>2. DOMAIN old = Fields \cup {"yields", "panic"}
          BY DEF Fields
        <5>3. NewState = With(context[Host], old)
          BY <4>1 DEF NewState
        <5> HIDE DEF old
        <5>4. \A c \in Contexts : DOMAIN c = Fields /\ c = [f \in Fields |-> c[f]]
          BY DEF Contexts, Fields
        <5>5. Part(With(context[Host], old), Fields) = context[Host]
          BY <5>1, <5>2, <5>4 DEF Part, With
        <5> QED BY <1>4, <4>1, <5>3, <5>5 DEF Get
      <4>2. CASE active # 0
        <5>1. states[active] \in StateSet
          BY <1>3, <4>2, StatesTyped DEF EInv
        <5>2. NewState = [states[active] EXCEPT !.yields = 0]
          BY <4>2 DEF NewState
        <5>3. Part(NewState, Fields) = Part(states[active], Fields)
          BY <5>1, <5>2 DEF Part, Fields, StateSet
        <5> QED BY <1>4, <4>2, <5>3 DEF Get
      <4> QED BY <4>1, <4>2
    <3> HIDE DEF S
    <3>5. states'[Len(states) + 1] = S
      BY <1>3, <3>1
    <3>6. active' # 0 /\ states'[active'] = S
      BY <1>3, <3>1, <3>5
    <3> QED BY <1>4, <3>3, <3>4, <3>6 DEF Get
  <2>2. CASE ~make
    <3>1. states' = [states EXCEPT ![active].panic = Append(@, p)] /\ active' = active /\ active # 0
      BY <2>2 DEF CallPlugin
    <3>2. states[active] \in StateSet /\ active \in 1 .. Len(states)
      BY <1>3, <3>1, StatesTyped DEF EInv
    <3>3. states'[active] = [states[active] EXCEPT !.panic = Append(@, p)]
      BY <3>1, <3>2, <1>3
    <3>4. Part(states'[active], Fields) = Part(states[active], Fields)
      BY <3>2, <3>3 DEF Part, Fields, StateSet
    <3> QED BY <1>4, <3>1, <3>4 DEF Get
  <2> QED BY <2>1, <2>2
<1> HIDE DEF frame
<1> QED BY <1>1, <1>2, <1>5, CallUnseen DEF Guarding

(* A region nests those below it and keeps the budget aside. *)
LEMMA BlockInPlaceShows == ASSUME EInv, Aside, BlockInPlace PROVE Shown /\ Aside'
<1> DEFINE saved == Part(Get(Who), DOMAIN Blocked)
           frame == Frame("blocking", Who, saved)
           nested(i) == [stack[i] EXCEPT !.nested = @ \/ stack[i].kind = "blocking"]
           below == [i \in 1 .. Len(stack) |-> nested(i)]
<1>1. Get(Who) = Get(Host) /\ Get(Host) \in Contexts /\ DOMAIN Blocked = {"runtime", "budget"}
  BY GetWho DEF Blocked
<1>2. saved \in SavedSet /\ DOMAIN saved = {"runtime", "budget"} /\ saved.budget = Get(Who).budget
  BY <1>1, PartPartial DEF Fields, Part
<1>3. frame \in Frames
  BY <1>2, TopFacts, FrameIsFrame DEF Kinds, EInv
<1>4. frame.kind = "blocking" /\ frame.who = Who /\ frame.saved = saved /\ frame.nested = FALSE
  BY DEF Frame
<1>5. saved = Part(Get(Host), DOMAIN Blocked)
  BY <1>1
<1>6. PICK L \in Nat : L = Len(stack) /\ DOMAIN stack = 1 .. L /\ \A i \in 1 .. L : stack[i] \in Frames
  BY DEF EInv, Types
<1>7. stack' = Append(below, frame) /\ L < MaxDepth /\ Who # Host /\ Who \in Plugins
  BY <1>6, TopFacts DEF BlockInPlace, EInv, Artifacts
<1> HIDE DEF frame, saved
<1>8. \A i \in 1 .. L : /\ nested(i) \in Frames /\ nested(i).kind = stack[i].kind /\ nested(i).who = stack[i].who
                       /\ nested(i).saved = stack[i].saved
                       /\ nested(i).nested = (stack[i].nested \/ stack[i].kind = "blocking")
  BY <1>6 DEF Frames
<1> HIDE DEF nested
<1>9. below \in Seq(Frames) /\ Len(below) = L /\ \A i \in 1 .. L : below[i] = nested(i)
  BY <1>6, <1>8
<1> HIDE DEF below
<1>10. /\ stack' \in Seq(Frames) /\ Len(stack') = L + 1
       /\ \A i \in 1 .. L : stack'[i] = nested(i)
       /\ stack'[L + 1] = frame
  BY <1>3, <1>7, <1>9, AppendProperties
<1>11. One!Push(Entry(frame), One!Nested(Guards))
  <2> DEFINE G == {j \in 1 .. L : stack[j].kind \in Guarding}
  <2>1. Guards = [d \in G |-> Entry(stack[d])] /\ DOMAIN Guards = G
    BY <1>6, GuardsAre DEF EInv, Types
  <2>2. \A d \in G : Entry(stack'[d]) = [Entry(stack[d]) EXCEPT !.nested = @ \/ Entry(stack[d]).blocking]
    <3> SUFFICES ASSUME NEW d \in G PROVE Entry(stack'[d]) = [Entry(stack[d]) EXCEPT !.nested = @ \/ Entry(stack[d]).blocking]
      OBVIOUS
    <3>1. /\ stack'[d].saved = stack[d].saved /\ stack'[d].kind = stack[d].kind
          /\ stack'[d].nested = (stack[d].nested \/ stack[d].kind = "blocking")
      BY <1>8, <1>10
    <3>2. \A x, n, m, b : [saved |-> x, nested |-> m, blocking |-> b] = [[saved |-> x, nested |-> n, blocking |-> b] EXCEPT !.nested = m]
      OBVIOUS
    <3> DEFINE b == stack[d].kind = "blocking"
               m == stack[d].nested \/ b
    <3>3. Entry(stack[d]) = [saved |-> stack[d].saved, nested |-> stack[d].nested, blocking |-> b]
      BY DEF Entry
    <3>4. Entry(stack'[d]) = [saved |-> stack[d].saved, nested |-> m, blocking |-> b]
      BY <3>1, Zenon DEF Entry
    <3>5. (Entry(stack[d]).nested \/ Entry(stack[d]).blocking) = m
      <4>1. Entry(stack[d]).nested = stack[d].nested /\ Entry(stack[d]).blocking = b
        BY DEF Entry
      <4> HIDE DEF b
      <4> QED BY <4>1, Zenon
    <3> HIDE DEF b, m
    <3>6. [Entry(stack[d]) EXCEPT !.nested = @ \/ Entry(stack[d]).blocking] = [Entry(stack[d]) EXCEPT !.nested = m]
      BY <3>5, Zenon
    <3> QED BY <3>2, <3>3, <3>4, <3>6
  <2>3. One!Nested(Guards) = [d \in G |-> Entry(stack'[d])]
    BY <2>1, <2>2 DEF One!Nested
  <2> QED BY <1>4, <1>6, <1>7, <1>8, <1>10, <2>3, GuardPushed DEF Guarding, EInv
<1>12. Entry(frame) = One!Guard(One!Blocked, TRUE)
  BY <1>4, <1>5 DEF Entry, One!Guard, One!Part, Part, One!Blocked, Blocked
<1>13. Get(Host)' = With(Blocked, Get(Host)) /\ made' = made /\ Get(Host).runtime = "Entered"
  BY <1>1, GetPut DEF BlockInPlace
<1>14. One!BlockInPlace
  BY <1>11, <1>12, <1>13 DEF One!BlockInPlace, One!With, With, One!Blocked, Blocked
<1>15. Aside'
  <2>1. stash' = [stash EXCEPT ![Who] = saved.budget] /\ stash \in [Plugins -> {Nothing} \cup AllBudgets]
    BY <1>2 DEF BlockInPlace, EInv, Types
  <2>2. stash'[Who] = saved.budget /\ \A q : q \in Plugins /\ q # Who => stash'[q] = stash[q]
    BY <1>7, <2>1
  <2> SUFFICES ASSUME NEW i \in 1 .. L + 1, stack'[i].kind = "blocking"
               PROVE  /\ DOMAIN stack'[i].saved = {"runtime", "budget"}
                      /\ ~stack'[i].nested => stash'[stack'[i].who] = stack'[i].saved.budget
                           /\ \A j \in i + 1 .. L + 1 : stack'[j].kind # "blocking"
                      /\ \/ stash'[stack'[i].who] = stack'[i].saved.budget \/ stash'[stack'[i].who] = Nothing
                         \/ \E j \in i + 1 .. L + 1 : stack'[j].kind = "blocking" /\ stack'[j].who = stack'[i].who
    BY <1>10 DEF Aside, Region, Keeps
  <2>3. CASE i = L + 1
    BY <1>2, <1>4, <1>10, <2>2, <2>3
  <2>4. CASE i # L + 1
    <3>1. i \in 1 .. L /\ Region(i) /\ L + 1 \in i + 1 .. L + 1 /\ \A j \in i + 1 .. L : j \in i + 1 .. L + 1 /\ j \in 1 .. L
      BY <1>8, <1>10, <2>4 DEF Region
    <3>2. DOMAIN stack'[i].saved = {"runtime", "budget"} /\ stack'[i].nested = TRUE
      <4>1. DOMAIN stack[i].saved = {"runtime", "budget"} /\ stack[i].kind = "blocking"
        BY <1>6, <3>1 DEF Aside, Region
      <4>2. stack'[i].saved = stack[i].saved /\ stack'[i].nested = (stack[i].nested \/ stack[i].kind = "blocking")
        BY <1>8, <1>10, <3>1
      <4> QED BY <4>1, <4>2
    <3>3. CASE stack[i].who = Who
      BY <1>4, <1>8, <1>10, <3>1, <3>2, <3>3
    <3>4. CASE stack[i].who # Who
      <4>1. stack[i].who \in Plugins
        BY <1>6, <3>1 DEF EInv, Framed, Region, Frames, Artifacts
      <4>2. \/ Keeps(i) \/ stash[stack[i].who] = Nothing
            \/ \E j \in i + 1 .. L : Region(j) /\ stack[j].who = stack[i].who
        BY <1>6, <3>1 DEF Aside
      <4> QED BY <1>8, <1>10, <2>2, <3>1, <3>2, <3>4, <4>1, <4>2 DEF Keeps, Region
    <3> QED BY <3>3, <3>4
  <2> QED BY <2>3, <2>4
<1> QED BY <1>14, <1>15 DEF Shown, One!Next

(* What a frame's end leaves of the stack. *)
LEMMA PoppedSame ==
  ASSUME EInv, Pop, NEW L \in Nat, L = Len(stack)
  PROVE  /\ L >= 2 /\ L - 1 \in Nat /\ stack' \in Seq(Frames) /\ Len(stack') = L - 1
         /\ top = stack[L] /\ stack[L] \in Frames
         /\ \A i \in 1 .. L - 1 : Same(stack'[i], stack[i])
         /\ \A i \in 1 .. L : (i <= L - 1 => i \in 1 .. L - 1) /\ (i > L - 1 => i = L)
<1>1. /\ stack' \in Seq(Frames) /\ L >= 2 /\ Len(stack') = L - 1
      /\ \A i \in 1 .. L - 1 : Same(stack'[i], stack[i])
  BY Popped DEF Same, Alike, EInv
<1>2. top = stack[L] /\ stack[L] \in Frames
  BY TopFacts DEF EInv
<1> QED BY <1>1, <1>2

(* A return from the host is not seen. *)
LEMMA LeaveHostShows == ASSUME EInv, Aside, LeaveHost PROVE Shown /\ Aside'
<1>1. PICK L \in Nat : L = Len(stack)
  BY DEF EInv, Types
<1>2. Get(Host)' = Get(Host) /\ stash' = stash /\ made' = made
  BY DEF LeaveHost, Get, execution_state
<1>3. Pop /\ top.kind \notin Guarding
  BY DEF LeaveHost, Guarding
<1> QED BY <1>1, <1>2, <1>3, PoppedSame, Unseen

(* The guard on top is restored, with a budget of its own or the present.   *)
LEMMA Restored ==
  ASSUME EInv, Pop, top.kind \in Guarding, made' = made,
         NEW budget, budget \in {Get(Host).budget} \cup {top.saved[f] : f \in DOMAIN top.saved \cap {"budget"}},
         "budget" \in DOMAIN top.saved /\ ~top.nested => budget = top.saved.budget,
         Get(Host)' = [With(top.saved, Get(Host)) EXCEPT !.budget = budget]
  PROVE  Shown
<1>1. PICK L \in Nat : L = Len(stack)
  BY DEF EInv, Types
<1>2. /\ L \in DOMAIN Guards /\ Guards[L] = Entry(top)
      /\ \A d \in DOMAIN Guards : d <= L
      /\ Guards' = [d \in DOMAIN Guards \ {L} |-> Guards[d]]
  BY <1>1, PoppedSame, GuardPopped DEF EInv
<1>3. Guards[L].saved = top.saved /\ Guards[L].nested = top.nested
  BY <1>2 DEF Entry
<1>4. One!With(top.saved, Get(Host)) = With(top.saved, Get(Host))
  BY DEF One!With, With
<1>5. One!Restore
  BY <1>2, <1>3, <1>4 DEF One!Restore
<1> QED BY <1>5 DEF Shown, One!Next

(* A guard gives back all that it has saved. *)
LEMMA LeaveGuardShows == ASSUME EInv, Aside, LeaveGuard PROVE Shown /\ Aside'
<1>1. PICK L \in Nat : L = Len(stack)
  BY DEF EInv, Types
<1>2. Pop /\ top.kind = "guard" /\ Put(Who, top.saved) /\ active' = active /\ stash' = stash /\ made' = made
  BY DEF LeaveGuard
<1> DEFINE c == Get(Host)
           budget == IF "budget" \in DOMAIN top.saved THEN top.saved.budget ELSE c.budget
<1>3. c \in Contexts /\ Get(Host)' = With(top.saved, c)
  BY <1>2, GetPut, GetWho
<1>4. With(top.saved, c) = [With(top.saved, c) EXCEPT !.budget = budget]
  <2>1. \A b \in Contexts : DOMAIN b = Fields
    BY DEF Contexts, Fields
  <2>2. DOMAIN c = Fields
    BY <1>3, <2>1
  <2> HIDE DEF c
  <2>3. With(top.saved, c) = [f \in Fields |-> IF f \in DOMAIN top.saved THEN top.saved[f] ELSE c[f]]
    BY <2>2 DEF With
  <2>4. With(top.saved, c).budget = budget
    BY <2>3 DEF Fields
  <2> QED BY <2>3, <2>4
<1>5. budget \in {c.budget} \cup {top.saved[f] : f \in DOMAIN top.saved \cap {"budget"}}
  OBVIOUS
<1>6. Shown
  BY <1>2, <1>3, <1>4, <1>5, Restored DEF Guarding
<1>7. Aside'
  BY <1>1, <1>2, PoppedSame, AsideAbove DEF Region
<1> QED BY <1>6, <1>7

(* A region gives back the runtime, and the budget if it was kept aside. *)
LEMMA LeaveBlockingShows == ASSUME EInv, Aside, LeaveBlocking PROVE Shown /\ Aside'
<1>1. PICK L \in Nat : L = Len(stack)
  BY DEF EInv, Types
<1> DEFINE new == IF stash[Who] = Nothing THEN Part(top.saved, {"runtime"})
                  ELSE [runtime |-> top.saved.runtime, budget |-> stash[Who]]
           c == Get(Host)
           budget == IF stash[Who] = Nothing THEN c.budget ELSE top.saved.budget
<1>2. Pop /\ top.kind = "blocking" /\ Put(Who, new) /\ active' = active /\ made' = made
      /\ stash' = [stash EXCEPT ![Who] = Nothing]
  BY DEF LeaveBlocking
<1>3. /\ L >= 2 /\ stack' \in Seq(Frames) /\ Len(stack') = L - 1 /\ top = stack[L]
      /\ \A i \in 1 .. L - 1 : Same(stack'[i], stack[i])
  BY <1>1, <1>2, PoppedSame
<1>4. /\ L \in 1 .. Len(stack) /\ Region(L) /\ stack[L].who = Who
      /\ \A j \in L + 1 .. Len(stack) : FALSE
  BY <1>1, <1>2, <1>3 DEF Region, Who
<1>5. /\ DOMAIN top.saved = {"runtime", "budget"}
      /\ ~top.nested => stash[Who] = top.saved.budget
      /\ stash[Who] = top.saved.budget \/ stash[Who] = Nothing
  BY <1>3, <1>4 DEF Aside, Keeps
<1>6. top.saved.budget # Nothing
  <2>1. top.saved \in SavedSet
    BY <1>1, <1>2, PoppedSame DEF Frames
  <2>2. PICK x \in Contexts : top.saved.budget = x.budget
    BY <1>5, <2>1, SavedIsPartial DEF Partial
  <2> QED BY <2>2, ContextAssumption, ExecutionAssumption DEF Contexts, AllBudgets
<1>7. c \in Contexts /\ Get(Host)' = With(new, c)
  BY <1>2, GetPut, GetWho
<1>8. With(new, c) = [With(top.saved, c) EXCEPT !.budget = budget]
  <2>1. \A b \in Contexts : DOMAIN b = Fields
    BY DEF Contexts, Fields
  <2>2. DOMAIN c = Fields
    BY <1>7, <2>1
  <2>3. CASE stash[Who] = Nothing
    <3>1. new = Part(top.saved, {"runtime"}) /\ budget = c.budget
      BY <2>3
    <3> HIDE DEF c, new, budget
    <3>2. DOMAIN new = {"runtime"} /\ new.runtime = top.saved.runtime
      BY <3>1 DEF Part
    <3> QED BY <1>5, <2>2, <3>1, <3>2 DEF With, Fields
  <2>4. CASE stash[Who] # Nothing
    <3>1. new = [runtime |-> top.saved.runtime, budget |-> top.saved.budget] /\ budget = top.saved.budget
      BY <1>5, <2>4
    <3> HIDE DEF c, new, budget
    <3>2. DOMAIN new = {"runtime", "budget"} /\ new.runtime = top.saved.runtime /\ new.budget = top.saved.budget
      BY <3>1
    <3> QED BY <1>5, <2>2, <3>1, <3>2 DEF With, Fields
  <2> QED BY <2>3, <2>4
<1>9. /\ budget \in {c.budget} \cup {top.saved[f] : f \in DOMAIN top.saved \cap {"budget"}}
      /\ "budget" \in DOMAIN top.saved /\ ~top.nested => budget = top.saved.budget
  BY <1>5, <1>6
<1>10. Shown
  <2> HIDE DEF new, budget
  <2> QED BY <1>2, <1>7, <1>8, <1>9, Restored DEF Guarding
<1>11. Aside'
  <2>1. stash'[Who] = Nothing /\ \A q \in Plugins : q # Who => stash'[q] = stash[q]
    BY <1>2, <1>4, TopFacts DEF EInv, Types, Framed, Region, Artifacts
  <2> SUFFICES ASSUME NEW i \in 1 .. L - 1, stack'[i].kind = "blocking"
               PROVE  /\ DOMAIN stack'[i].saved = {"runtime", "budget"}
                      /\ ~stack'[i].nested => stash'[stack'[i].who] = stack'[i].saved.budget
                           /\ \A j \in i + 1 .. L - 1 : stack'[j].kind # "blocking"
                      /\ \/ stash'[stack'[i].who] = stack'[i].saved.budget \/ stash'[stack'[i].who] = Nothing
                         \/ \E j \in i + 1 .. L - 1 : stack'[j].kind = "blocking" /\ stack'[j].who = stack'[i].who
    BY <1>3 DEF Aside, Region, Keeps
  <2>2. /\ i \in 1 .. Len(stack) /\ Region(i) /\ Same(stack'[i], stack[i])
        /\ L \in i + 1 .. Len(stack) /\ \A j \in i + 1 .. Len(stack) : j = L \/ j \in i + 1 .. L - 1
        /\ \A j \in i + 1 .. L - 1 : Same(stack'[j], stack[j])
    BY <1>1, <1>3 DEF Same, Region
  <2>3. DOMAIN stack'[i].saved = {"runtime", "budget"} /\ stack'[i].nested
    BY <1>4, <2>2 DEF Aside, Same
  <2>4. CASE stack[i].who = Who
    BY <2>1, <2>2, <2>3, <2>4 DEF Same
  <2>5. CASE stack[i].who # Who
    <3>1. stack[i].who \in Plugins
      BY <2>2, TopFacts DEF EInv, Framed, Region, Frames, Artifacts
    <3>2. \/ Keeps(i) \/ stash[stack[i].who] = Nothing
          \/ \E j \in i + 1 .. Len(stack) : Region(j) /\ stack[j].who = stack[i].who
      BY <2>2 DEF Aside
    <3>3. \A j \in i + 1 .. Len(stack) : Region(j) /\ stack[j].who = stack[i].who =>
            j \in i + 1 .. L - 1 /\ stack'[j].kind = "blocking" /\ stack'[j].who = stack'[i].who
      BY <1>4, <2>2, <2>5 DEF Same, Region
    <3> QED BY <2>1, <2>2, <2>3, <2>5, <3>1, <3>2, <3>3 DEF Keeps, Same
  <2> QED BY <2>4, <2>5
<1> QED BY <1>10, <1>11

(* What a plugin leaves in the state made for it is what the host reads.    *)
LEMMA LeavePluginShows == ASSUME EInv, Aside, LeavePlugin PROVE Shown /\ Aside'
<1> USE DEF EInv
<1>1. PICK L \in Nat : L = Len(stack)
  BY DEF Types
<1>2. PICK K \in Nat : K = Len(states) /\ K = active /\ states \in Seq(StateSet) /\ DOMAIN states = 1 .. K
  BY DEF Types, Pointers
<1>3. /\ Pop /\ active' = top.active /\ stash' = stash /\ made' = made /\ top.kind \in Borders
      /\ top = stack[L] /\ top \in Frames /\ L \in 1 .. Len(stack)
  BY <1>1, PoppedSame DEF LeavePlugin, Borders
<1>4. /\ K # 0 /\ K \in 1 .. K /\ top.active \in Nat
      /\ top.made => K = top.active + 1
      /\ ~top.made => K = top.active
  <2>1. ActiveIn(L) = active /\ stack[L].who # Host /\ Pointing(L)
    BY <1>1, <1>3 DEF ActiveIn, Pointers, Framed
  <2> QED BY <1>2, <1>3, <2>1 DEF Pointing, Frames
<1>5. execution_state(Host) = K /\ execution_state(Host)' = active' /\ Get(Host) = Part(states[K], Fields)
  BY <1>2, <1>4 DEF execution_state, Get
<1>6. states[K] \in StateSet /\ Part(states[K], Fields) \in Contexts
  BY <1>2, <1>4, StatesTyped, PartContext
<1>7. Get(Host)' = Get(Host)
  <2>1. CASE top.made
    <3> DEFINE c == Part(states[K], Fields)
               F == Front(states)
    <3>1. Last(states) = states[K]
      BY <1>2 DEF Last
    <3>2. /\ context' = IF top.active # 0 THEN context ELSE [context EXCEPT ![Host] = c]
          /\ states' = IF top.active = 0 THEN F ELSE [F EXCEPT ![top.active] = With(c, @)]
      BY <2>1, <3>1 DEF LeavePlugin, TakeBack
    <3>3. F \in Seq(StateSet) /\ Len(F) = K - 1
      <4>1. states # <<>>
        BY <1>2, <1>4
      <4> QED BY <1>2, <4>1, FrontOf
    <3> HIDE DEF c, F
    <3>4. CASE top.active = 0
      <4>1. context'[Host] = c
        BY <3>2, <3>4 DEF Types, Artifacts
      <4> QED BY <1>3, <1>5, <3>4, <4>1 DEF Get, c
    <3>5. CASE top.active # 0
      <4>1. top.active \in 1 .. Len(F) /\ F[top.active] \in StateSet
        BY <1>4, <2>1, <3>3, <3>5
      <4>2. states'[top.active] = With(c, F[top.active])
        BY <3>2, <3>3, <3>5, <4>1
      <4>3. Part(With(c, F[top.active]), Fields) = c
        <5>1. DOMAIN F[top.active] = Fields \cup {"yields", "panic"}
          BY <4>1 DEF StateSet, Fields
        <5>2. \A b \in Contexts : DOMAIN b = Fields /\ b = [f \in Fields |-> b[f]]
          BY DEF Contexts, Fields
        <5>3. DOMAIN c = Fields /\ c = [f \in Fields |-> c[f]]
          BY <1>6, <5>2 DEF c
        <5> QED BY <5>1, <5>3 DEF Part, With
      <4> QED BY <1>3, <1>5, <3>5, <4>2, <4>3 DEF Get, c
    <3> QED BY <3>4, <3>5
  <2>2. CASE ~top.made
    <3>1. states' = [states EXCEPT ![K].panic = Front(@)] /\ context' = context /\ active' = K
      BY <1>2, <1>3, <1>4, <2>2 DEF LeavePlugin
    <3>2. states'[K] = [states[K] EXCEPT !.panic = Front(@)]
      <4> DEFINE S == [states[K] EXCEPT !.panic = Front(@)]
      <4>1. states' = [states EXCEPT ![K] = S]
        BY <3>1
      <4>2. K \in DOMAIN states
        BY <1>2, <1>4
      <4> HIDE DEF S
      <4>3. states'[K] = S
        BY <4>1, <4>2
      <4> QED BY <4>3 DEF S
    <3>3. Part(states'[K], Fields) = Part(states[K], Fields)
      BY <1>6, <3>2 DEF Part, Fields, StateSet
    <3> QED BY <1>4, <1>5, <3>1, <3>3 DEF Get
  <2> QED BY <2>1, <2>2
<1>8. top.kind \notin Guarding
  BY <1>3 DEF Guarding, Borders
<1> QED BY <1>1, <1>3, <1>7, <1>8, PoppedSame, Unseen

(* ExecutionContext implements OneContext: wherever the borders run, code    *)
(* finds the runtime, the budget, the task and the random state that it      *)
(* would find if host and plugins shared one Tokio, for any nesting.         *)
THEOREM OneThreadHolds == Spec => OneThread
<1>1. Init => One!Init /\ Aside
  <2> SUFFICES ASSUME Init PROVE One!Init /\ Aside
    OBVIOUS
  <2>1. /\ stack = <<Frame("thread", Host, <<>>)>> /\ active = 0 /\ made = 0
        /\ context = [a \in Artifacts |-> Fresh]
    BY DEF Init
  <2>2. Len(stack) = 1 /\ stack[1].kind = "thread" /\ DOMAIN stack = 1 .. 1
    BY <2>1 DEF Frame
  <2>3. Guards = <<>>
    <3>1. {j \in DOMAIN stack : stack[j].kind \in {"guard", "blocking"}} = {}
      BY <2>2
    <3> QED BY <3>1 DEF Guards
  <2>4. Get(Host) = One!Fresh
    BY <2>1 DEF Get, execution_state, Artifacts, Fresh, One!Fresh
  <2>5. Aside
    BY <2>2 DEF Aside, Region
  <2> QED BY <2>1, <2>3, <2>4, <2>5 DEF One!Init
<1>2. EInv /\ Aside /\ [Next]_vars => [One!Next]_(One!vars) /\ Aside'
  <2> SUFFICES ASSUME EInv, Aside, [Next]_vars PROVE Shown /\ Aside'
    BY DEF Shown
  <2>1. CASE Enter \/ SetBudget \/ SetTask
    BY <2>1, SetShows
  <2>2. CASE Spend \/ ForcedYield \/ Draw
    BY <2>2, SpendShows, ForcedYieldShows, DrawShows
  <2>3. ASSUME NEW p \in Plugins, NEW kind \in {"with", "task"}, CallPlugin(p, kind) PROVE Shown /\ Aside'
    BY <2>3, CallPluginShows
  <2>4. CASE CallHost \/ BlockInPlace
    BY <2>4, CallHostShows, BlockInPlaceShows
  <2>5. CASE LeaveGuard \/ LeaveHost \/ LeaveBlocking \/ LeavePlugin
    BY <2>5, LeaveGuardShows, LeaveHostShows, LeaveBlockingShows, LeavePluginShows
  <2>6. CASE Panic
    BY <2>6, PanicShows
  <2>7. CASE UNCHANGED vars
    BY <2>7 DEF vars, Shown, One!vars, Get, execution_state, Guards, Aside, Region, Keeps
  <2> QED BY <2>1, <2>2, <2>3, <2>4, <2>5, <2>6, <2>7 DEF Next
<1> QED BY <1>1, <1>2, ContextInvariant, PTL DEF Spec, OneThread, One!Spec
================================================================================
