---------------------------- MODULE MCRuntimeBuilder ----------------------------
(* Builders with any two options set, on hosts with any features.             *)
EXTENDS RuntimeBuilder

Legacy(scale, width) == [legacy |-> TRUE, scale |-> scale, width |-> width, buckets |-> 4]
Typed(type, a, b, c) == [legacy |-> FALSE, type |-> type, a |-> a, b |-> b, c |-> c]

\* What an option may be set to.
Settings(o) ==
  CASE o \in Flags -> {TRUE} [] o \in Marked -> {0, 5} [] o \in Optional -> {5}
    [] o \in Numbers -> {"set"}
    [] o \in Histograms -> {Legacy("Linear", 3), Legacy("Log", 3), Typed("H2", 6, 2, 1), Typed("Linear", 3, 4, 0)}
    [] o = "flavor" -> {"MultiThread", "Local"}
    [] o = "hooks" -> {{"after_start"}, {"before_park", "after_unpark"}} [] o = "task_hooks" -> {{"Spawn"}, {"PollStart", "Terminate"}}

Unset == [o \in Options |->
            CASE o \in Flags -> FALSE [] o \in Optional \cup Histograms -> None
              [] o \in {"hooks", "task_hooks"} -> {} [] o = "flavor" -> "CurrentThread" [] OTHER -> "default"]
Set(r, o, value) ==
  [r EXCEPT ![o] = value, !["enable_time"] = IF o = "alternative_timer" THEN TRUE ELSE IF o = "enable_time" THEN value ELSE @]

One == UNION {{Set(Unset, o, v) : v \in Settings(o)} : o \in Options}
MCRequests == {Unset} \cup UNION {UNION {{Set(r, o, v) : v \in Settings(o)} : o \in Options} : r \in One}
MCFeatures == SUBSET {"io", "time", "test-util", "rt-multi-thread", "unstable", "latency"}
===============================================================================
