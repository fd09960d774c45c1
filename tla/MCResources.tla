------------------------------ MODULE MCResources ------------------------------
(* Two pollers: tasks of the plugin, block_on calls, or futures something   *)
(* outside the plugin polls.                                                *)
EXTENDS Resources, TLC

CONSTANTS p1, p2
MCPollers == {p1, p2}
Scene(using, first, second, arrivals) ==
  [using |-> using, events |-> arrivals, executor |-> p1 :> first @@ p2 :> second]
MCScenes ==
  {Scene({"read"}, "foreign", "task", 2),
   Scene({"read", "write"}, "foreign", "blockOn", 1),
   Scene({"op"}, "task", "blockOn", 1),
   Scene({"timer"}, "foreign", "foreign", 0),
   Scene({"signal", "dump"}, "blockOn", "foreign", 1)}
===============================================================================
