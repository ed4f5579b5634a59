---------------------------- MODULE MCRunState ----------------------------
(* The run's own session and a stale one, and two readings of the counters:   *)
(* one before anything happened on the map, and a later one.                  *)
EXTENDS RunState

Reading(kills, total, items, tics) ==
    [kills |-> kills, total |-> total, items |-> items, tics |-> tics]

MCObservations == {Reading(0, 1, 0, 1), Reading(1, 1, 1, 2)}
=============================================================================
