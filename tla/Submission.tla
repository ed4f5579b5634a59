----------------------------- MODULE Submission -----------------------------
(***************************************************************************)
(* What a finished run is submitted as (RunState::finish), and what the    *)
(* server accepts (validate in crates/leaderboard/src/app.rs).  Initials,  *)
(* session, cabinet, season and time stamps are left out: the cabinet      *)
(* checks or mints them itself, and module Delivery has the clocks.        *)
(***************************************************************************)
EXTENDS Scoring

CONSTANT MAX_MAPS       \* rows the server accepts

ASSUME SubmissionAssumption == MAX_MAPS \in Nat

\* The supervisor adds up with saturation; the server adds up exactly (its `sum'
\* of i64 would wrap beyond MaxInt, which no run comes near).
Total(numbers) ==
    LET sum[n \in 0..Len(numbers)] == IF n = 0 THEN 0 ELSE sum[n - 1] + numbers[n]
    IN  sum[Len(numbers)]

Column(rows, field) == [i \in DOMAIN rows |-> rows[i].stats[field]]
SatSum(entries, field) == SatTotal(Column(entries, field))
Sum(rows, field) == Total(Column(rows, field))

\* Mutant: rows are numbered from 1.
RowsFromOne(entries) ==
    [i \in DOMAIN entries |->
        [seq |-> i, map |-> entries[i].map, stats |-> entries[i].stats,
         completed |-> entries[i].completed, map_score |-> MapScore(entries[i])]]

Rows(entries) ==
    [i \in DOMAIN entries |->
        [seq |-> i - 1, map |-> entries[i].map, stats |-> entries[i].stats,
         completed |-> entries[i].completed, map_score |-> MapScore(entries[i])]]

Submitted(reason, entries) ==
    [end_reason |-> reason,
     maps_completed |-> MapsCompleted(entries),
     kills |-> SatSum(entries, "kills"),
     items |-> SatSum(entries, "items"),
     total_tics |-> SatSum(entries, "tics"),
     run_score |-> RunScore(entries),
     maps |-> Rows(entries)]

\* Kills stand for secrets too: a death brings both without a new total.  Items always come in
\* one event with their total, whatever is lost, and the check of one against the other is left out.
RowPlausible(row) ==
    LET counters == row.stats
    IN  /\ \A field \in DOMAIN counters : counters[field] >= 0
        /\ row.map_score >= 0
        /\ counters.total > 0 => counters.kills <= counters.total

Validate(sub) ==
    /\ Len(sub.maps) <= MAX_MAPS
    /\ \A n \in {sub.maps_completed, sub.kills, sub.items, sub.total_tics, sub.run_score} : n >= 0
    /\ \A i \in DOMAIN sub.maps : sub.maps[i].seq = i - 1 /\ RowPlausible(sub.maps[i])
    /\ sub.maps_completed = MapsCompleted(sub.maps)
    /\ sub.kills = Sum(sub.maps, "kills")
    /\ sub.items = Sum(sub.maps, "items")
    /\ sub.total_tics = Sum(sub.maps, "tics")
    /\ ~(sub.end_reason = "Complete" /\ sub.maps = <<>>)
    /\ sub.run_score = RunScore(sub.maps)
=============================================================================
