---------------------------- MODULE IdleTracker ----------------------------
(***************************************************************************)
(* Walk-away detection over heartbeats (crates/supervisor/src/idle.rs).  A *)
(* tracker is <<>> before the first heartbeat and <<anchor>> after it; an  *)
(* anchor is the report that last showed activity with its age.  As in the *)
(* code nothing here reads a clock: whoever keeps a tracker ages it.       *)
(***************************************************************************)
EXTENDS Integers, Sequences

MOVE_EPSILON_UNITS == 2

Gap(a, b) == IF a > b THEN a - b ELSE b - a

\* Mutant: a player who bobs by one unit is active.
DiffersByOne(a, report) ==
    \/ Gap(report.px, a.px) >= 1
    \/ Gap(report.py, a.py) >= 1
    \/ report.counters # a.counters

\* Mutant: a report is compared by its position only.
DiffersBySpot(a, report) ==
    \/ Gap(report.px, a.px) >= MOVE_EPSILON_UNITS
    \/ Gap(report.py, a.py) >= MOVE_EPSILON_UNITS

\* A report shows activity relative to an anchor.
Differs(a, report) ==
    \/ Gap(report.px, a.px) >= MOVE_EPSILON_UNITS
    \/ Gap(report.py, a.py) >= MOVE_EPSILON_UNITS
    \/ report.counters # a.counters

Static(tracker, report) == tracker # <<>> /\ ~Differs(tracker[1], report)

\* observe: the tracker it leaves behind, and whether it calls the player idle.
Anchored(tracker, report) ==
    IF Static(tracker, report)
    THEN tracker
    ELSE <<[px |-> report.px, py |-> report.py, counters |-> report.counters, age |-> 0]>>

ObservedIdle(tracker, report, window) ==
    Static(tracker, report) /\ tracker[1].age >= window

\* How long until the deadline of an anchored tracker, which may have passed.
Deadline(tracker, window) == window - tracker[1].age

\* A tracker after one unit of time; past its window an age no longer matters.
Aged(tracker, window) ==
    IF tracker = <<>> \/ tracker[1].age >= window
    THEN tracker
    ELSE [tracker EXCEPT ![1].age = @ + 1]
=============================================================================
