----------------------------- MODULE RuntimeBuilder -----------------------------
(***************************************************************************)
(* How a plugin's runtime::Builder becomes a runtime of the host: build_host   *)
(* copies the options into a RuntimeConfig, the host refuses what it was        *)
(* compiled without and gives the rest to a Builder of its own, and the plugin *)
(* then builds its own half from the same Builder, which may be used again.    *)
(* That the host takes the call and what it does with the runtime is in Owner. *)
(***************************************************************************)
EXTENDS Integers, Sequences, FiniteSets

CONSTANTS
  Requests,  \* Builders as plugins set them up
  Features,  \* what the host's Tokio is compiled with
  MaxBuilds, \* runtimes built from one Builder
  None       \* an option that is not set

Flags == {"enable_io", "enable_time", "start_paused", "disable_lifo_slot",
          "enable_eager_driver_handoff", "alternative_timer", "unhandled_panic"}
Optional == {"worker_threads", "thread_stack_size", "keep_alive", "global_queue_interval"}
Numbers == {"max_blocking_threads", "event_interval", "nevents", "name"}
Histograms == {"poll_histogram", "schedule_histogram"}
Hooks == {"after_start", "before_stop", "before_park", "after_unpark"}
TaskEvents == {"Spawn", "PollStart", "PollStop", "Terminate"}
Options == Flags \cup Optional \cup Numbers \cup Histograms \cup {"flavor", "hooks", "task_hooks"}

\* A histogram as Tokio has it: only an H2 one has three numbers.
IsHistogram(h) ==
  IF h.legacy THEN h.scale \in {"Linear", "Log"}
  ELSE h.type \in {"Linear", "LogLegacy", "H2"} /\ (h.type = "H2" \/ h.c = 0)

ASSUME RuntimeBuilderAssumption ==
  /\ \A r \in Requests : r = [o \in Options |-> r[o]]
  /\ \A r \in Requests : /\ \A o \in Flags : r[o] \in BOOLEAN
                         /\ \A o \in Optional : r[o] \in Nat \cup {None}
                         /\ \A o \in Histograms : r[o] = None \/ IsHistogram(r[o])
                         /\ r["task_hooks"] \subseteq TaskEvents /\ r["task_hooks"] # None
  /\ None \notin Nat
  /\ \A r \in Requests : r["worker_threads"] # 0 /\ r["global_queue_interval"] # 0  \* Tokio panics
  /\ \A r \in Requests : r["alternative_timer"] => r["enable_time"]                 \* Tokio enables it
  /\ \A f \in Features : f \subseteq {"io", "time", "test-util", "rt-multi-thread", "unstable", "latency"}
  /\ MaxBuilds \in Nat

VARIABLES
  request, features, uring,  \* uring: the plugin's own Tokio has io-uring
  builder, seed,             \* the Builder in the plugin, and its seed_generator
  config,                    \* the RuntimeConfig on its way
  host,                      \* the options of the host's runtime, None without one
  guest,                     \* [io, seed] of the plugin's half
  connection,                \* the plugin's Runtime has the host's, None without
  pc, builds

given == <<request, features, uring>>
builderVars == <<given, builder, seed, config, host, guest, connection, pc, builds>>

BuilderInit ==
  /\ request \in Requests /\ features \in Features /\ uring \in BOOLEAN
  /\ builder = request /\ seed = 0
  /\ config = None /\ host = None /\ guest = None /\ connection = None
  /\ pc = "ready" /\ builds = 0

(* ------------------------------ the plugin ------------------------------ *)
next_power_of_two(n) == CHOOSE p \in {2 ^ k : k \in 0 .. n} : p >= n /\ p < 2 * n
\* A histogram is [legacy, scale, width, buckets] or [type, three numbers].
telekio_parts(h) ==
  IF h.legacy THEN
    IF h.scale = "Linear" THEN <<1, h.width, h.buckets, 0>>
    ELSE <<2, next_power_of_two(h.width), h.buckets, 0>>
  ELSE CASE h.type = "Linear" -> <<1, h.a, h.b, 0>> [] h.type = "LogLegacy" -> <<2, h.a, h.b, 0>>
         [] h.type = "H2" -> <<3, h.a, h.b, h.c>>
Disabled == <<0, 0, 0, 0>>
histogram(h) == IF h = None THEN Disabled ELSE telekio_parts(h)

OrDefault(value) == IF value = None THEN 0 ELSE value
Marked == {"thread_stack_size", "keep_alive"}  \* whose 0 is a value
callback(hooks) == IF hooks = {} THEN None ELSE hooks

Config ==
  [o \in Options \cup {"has_thread_stack_size", "has_keep_alive", "rng"} |->
     CASE o \in Optional -> OrDefault(builder[o])
       [] o = "has_thread_stack_size" -> builder["thread_stack_size"] # None
       [] o = "has_keep_alive" -> builder["keep_alive"] # None
       [] o = "rng" -> seed
       [] o \in Histograms -> histogram(builder[o])
       [] o = "task_hooks" -> callback(builder[o])
       [] OTHER -> builder[o]]

build_host ==
  /\ pc = "ready" /\ builds < MaxBuilds
  /\ config' = Config /\ pc' = "asked" /\ builds' = builds + 1
  /\ UNCHANGED <<given, builder, seed, host, guest, connection>>

(* ------------------------------- the host ------------------------------- *)
Has(feature) == feature \in features
Unsupported ==
  \/ config["enable_io"] /\ ~Has("io")
  \/ config["enable_time"] /\ ~Has("time")
  \/ config["start_paused"] /\ ~Has("test-util")
  \/ (config["enable_eager_driver_handoff"] \/ config["alternative_timer"]) /\ ~Has("rt-multi-thread")
  \/ config["alternative_timer"] /\ ~Has("time")
  \/ /\ \/ config["disable_lifo_slot"] \/ config["enable_eager_driver_handoff"]
        \/ config["alternative_timer"] \/ config["unhandled_panic"]
        \/ config["poll_histogram"][1] # 0 \/ config["task_hooks"] # None
     /\ ~Has("unstable")
  \/ config["schedule_histogram"][1] # 0 /\ ~(Has("unstable") /\ Has("latency"))
  \/ config["flavor"] = "MultiThread" /\ ~Has("rt-multi-thread")

telekio_from_parts(parts) ==
  CASE parts[1] = 0 -> None
    [] parts[1] = 1 -> [type |-> "Linear", a |-> parts[2], b |-> parts[3], c |-> 0]
    [] parts[1] = 2 -> [type |-> "LogLegacy", a |-> parts[2], b |-> parts[3], c |-> 0]
    [] parts[1] = 3 -> [type |-> "H2", a |-> parts[2], b |-> parts[3], c |-> parts[4]]

\* What Tokio's Builder::new has, whatever its flavor.
New == [o \in Options \cup {"rng"} |->
          CASE o \in Flags -> FALSE [] o \in Optional \cup Histograms \cup {"rng"} -> None
            [] o \in {"hooks", "task_hooks"} -> {} [] OTHER -> "default"]

MarkOf(o) == IF o = "keep_alive" THEN "has_keep_alive" ELSE "has_thread_stack_size"
WhenNotZero(o) == IF config[o] # 0 THEN config[o] ELSE New[o]

Needs(o) ==
  CASE o \in {"enable_io", "nevents"} -> {"io"} [] o = "enable_time" -> {"time"}
    [] o = "start_paused" -> {"test-util"}
    [] o \in {"disable_lifo_slot", "unhandled_panic", "poll_histogram", "task_hooks"} -> {"unstable"}
    [] o = "enable_eager_driver_handoff" -> {"unstable", "rt-multi-thread"}
    [] o = "alternative_timer" -> {"unstable", "time", "rt-multi-thread"}
    [] o = "schedule_histogram" -> {"unstable", "latency"} [] OTHER -> {}

UseZero(o) == WhenNotZero(o)  \* mutant
Option(o) == IF o \in Marked THEN (IF config[MarkOf(o)] THEN config[o] ELSE New[o]) ELSE WhenNotZero(o)

Applied ==
  [o \in DOMAIN New |->
     IF ~(Needs(o) \subseteq features) THEN New[o]
     ELSE CASE o \in Optional -> Option(o)
            [] o \in Histograms -> telekio_from_parts(config[o])
            [] o = "enable_time" -> config[o] \/ config["alternative_timer"]
            [] o = "task_hooks" -> IF config[o] = None THEN {} ELSE TaskEvents
            [] OTHER -> config[o]]

build_runtime ==
  /\ pc = "asked"
  /\ \/ Unsupported /\ host' = None /\ pc' = "ready"
     \/ ~Unsupported /\ host' = Applied /\ pc' = "hosted"
     \/ ~Unsupported /\ host' = None /\ pc' = "ready"  \* the threads or the driver cannot be made
  /\ UNCHANGED <<given, builder, seed, config, guest, connection, builds>>

(* --------------------------- the plugin's half --------------------------- *)
\* The Builder that the plugin's half is made from.
WithoutDriver == IF uring THEN builder ELSE [builder EXCEPT !["enable_io"] = FALSE]
Restored == [WithoutDriver EXCEPT !["enable_io"] = builder["enable_io"]]

KeepHost(built) == host  \* mutant
AfterGuest(built) == IF built THEN host ELSE None  \* the host's Runtime is dropped

build_guest(built) ==
  /\ pc = "hosted"
  /\ guest' = IF built THEN [io |-> WithoutDriver["enable_io"], seed |-> seed] ELSE None
  /\ seed' = seed + 1  \* Tokio's build takes its seeds from the generator
  /\ builder' = Restored /\ host' = AfterGuest(built)
  /\ pc' = IF built THEN "built" ELSE "ready"
  /\ UNCHANGED <<given, config, connection, builds>>

install_host ==
  /\ pc = "built" /\ pc' = "installed"
  /\ connection' = [io |-> builder["enable_io"], flavor |-> host["flavor"]]
  /\ UNCHANGED <<given, builder, seed, config, host, guest, builds>>

DropRuntime ==
  /\ pc = "installed" /\ pc' = "ready"
  /\ host' = None /\ guest' = None /\ connection' = None
  /\ UNCHANGED <<given, builder, seed, config, builds>>

BuilderNext ==
  \/ build_host \/ build_runtime \/ (\E built \in BOOLEAN : build_guest(built))
  \/ install_host \/ DropRuntime
BuilderSpec == BuilderInit /\ [][BuilderNext]_builderVars

(* ------------------------------ properties ------------------------------ *)
\* What Tokio makes of a histogram's description.
Shape(h) ==
  IF h = None THEN None
  ELSE IF ~h.legacy THEN [type |-> h.type, a |-> h.a, b |-> h.b, c |-> h.c]
  ELSE [type |-> IF h.scale = "Linear" THEN "Linear" ELSE "LogLegacy",
        a |-> IF h.scale = "Linear" THEN h.width ELSE next_power_of_two(h.width), b |-> h.buckets, c |-> 0]

\* Options that make a difference: events per tick need a driver.
Matters(o) == o = "nevents" => request["enable_io"]

(* A runtime that a plugin gets has every option the plugin has asked for,     *)
(* whatever the host is compiled with and however often its Builder has been   *)
(* used: 0 is not taken for unset, the host and the plugin draw from the same  *)
(* seed, the plugin's I/O is on where it was asked for, and it has no driver    *)
(* of its own.  Where the host cannot, the build fails.                        *)
EveryOptionOrNone ==
  pc = "installed" =>
    /\ \A o \in Options : Matters(o) =>
         CASE o \in Histograms -> host[o] = Shape(request[o])
           [] o = "task_hooks" -> request[o] \subseteq host[o] /\ (request[o] = {} => host[o] = {})
           [] OTHER -> host[o] = request[o]
    /\ host["rng"] = guest.seed
    /\ connection.io = request["enable_io"] /\ connection.flavor = request["flavor"]
    /\ guest.io => uring

(* When a build fails half way, in the plugin after the host has built its     *)
(* runtime, nothing is left of either half, and the Builder is as the plugin    *)
(* has set it up.                                                              *)
FailsWhole == pc = "ready" => host = None /\ guest = None /\ connection = None /\ builder = request
===============================================================================
