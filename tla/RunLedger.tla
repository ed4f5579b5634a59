----------------------------- MODULE RunLedger -----------------------------
(***************************************************************************)
(* What the per-run state machine promises of the list of maps, whatever   *)
(* the telemetry does: a ledger of closed entries that only grows, and at  *)
(* most one entry in progress.  Neither events nor sessions appear here.   *)
(***************************************************************************)
EXTENDS Integers, Sequences

VARIABLES
    closed,    \* the entries that are final, in play order
    current,   \* <<>>, or the entry in progress in a sequence of one
    over       \* whether the run has ended

vars == <<closed, current, over>>

Listed(m) ==
    \/ \E i \in DOMAIN closed : closed[i].map = m
    \/ current # <<>> /\ current[1].map = m

Init == closed = <<>> /\ current = <<>> /\ over = FALSE

InProgress(cur) == Len(cur) = 1 /\ ~cur[1].completed

\* A map is begun at most once; the one in progress, if any, is closed as it is.
Begin ==
    /\ ~over
    /\ InProgress(current')
    /\ ~Listed(current'[1].map)
    /\ closed' = closed \o current
    /\ UNCHANGED over

\* The counters of the map in progress are provisional.
Revise ==
    /\ ~over
    /\ current # <<>>
    /\ InProgress(current')
    /\ current'[1].map = current[1].map
    /\ UNCHANGED <<closed, over>>

\* Only the map in progress, or one never begun, can be completed.
Complete ==
    /\ ~over
    /\ Len(closed') = Len(closed) + 1
    /\ LET e == closed'[Len(closed')]
       IN  /\ e.completed
           /\ IF current = <<>> THEN ~Listed(e.map) ELSE current[1].map = e.map
           /\ closed' = Append(closed, e)
    /\ current' = <<>>
    /\ UNCHANGED over

\* The end closes the map in progress, with its last counters or with new ones,
\* and may record one more entry where the run ended.  It completes no map.
End ==
    /\ ~over
    /\ Len(closed') \in (Len(closed) + Len(current))..(Len(closed) + Len(current) + 1)
    /\ \A i \in DOMAIN closed : closed'[i] = closed[i]
    /\ \A i \in DOMAIN closed' : i > Len(closed) => ~closed'[i].completed
    /\ current # <<>> => closed'[Len(closed) + 1].map = current[1].map
    /\ current' = <<>>
    /\ over' = TRUE

Next == Begin \/ Revise \/ Complete \/ End

Spec == Init /\ [][Next]_vars
=============================================================================
