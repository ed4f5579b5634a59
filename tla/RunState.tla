------------------------------ MODULE RunState ------------------------------
(***************************************************************************)
(* The per-run state machine of the supervisor (RunState::apply in         *)
(* crates/supervisor/src/run_state.rs): it folds telemetry events, which   *)
(* may be lost, duplicated, reordered or foreign, into the list of maps    *)
(* the run is scored on.                                                   *)
(*                                                                         *)
(* In the specification of this module the environment is arbitrary: any   *)
(* event of the alphabet may arrive in any state.  Modules that know where *)
(* the events come from use the actions of this one.                       *)
(*                                                                         *)
(* An observation stands for the counters of a telemetry line: `kills' for *)
(* kills and secrets (every stats event carries both, and death            *)
(* overwrites both), `total' for total_monsters and total_secrets, `items' *)
(* for items and total_items.                                              *)
(***************************************************************************)
EXTENDS Integers, Sequences

CONSTANTS
    Maps,          \* map lump names
    Sessions,      \* session ids an event may carry
    Session,       \* the session of this run
    Observations   \* the counters an event may carry

ASSUME RunStateAssumption ==
    /\ Session \in Sessions
    /\ Observations \subseteq [kills : Int, total : Int, items : Int, tics : Int]

VARIABLES
    maps,          \* entries recorded so far, in play order
    open,          \* whether the last entry is in progress
    run_started,
    terminal,      \* end reason decided by the telemetry, or "None"
    outcome        \* what the last call of apply returned

state == <<maps, open, run_started, terminal>>
vars == <<maps, open, run_started, terminal, outcome>>

Kinds == {"RunStart", "LevelEnter", "LevelComplete", "PlayerDied",
          "RunComplete", "Progress", "RunQuit"}

\* One shape for every event: a handler reads only the fields its variant has.
Events == [event : Kinds, session : Sessions, map : Maps, stats : Observations]

Outcomes == {"Applied", "WrongSession", "Duplicate", "OutOfOrder", "RunOver"}
TerminalReasons == {"Death", "Complete", "Quit"}

Stats == [kills : Int, total : Int, items : Int, tics : Int]
MapStats == [map : Maps, stats : Stats, completed : BOOLEAN]

ZeroStats == [kills |-> 0, total |-> 0, items |-> 0, tics |-> 0]
Entry(m, stats, completed) == [map |-> m, stats |-> stats, completed |-> completed]

-----------------------------------------------------------------------------
Last == maps[Len(maps)]
Recorded(m) == \E i \in DOMAIN maps : maps[i].map = m
OpenOn(m) == open /\ maps # <<>> /\ Last.map = m
Push(entry) == maps' = Append(maps, entry)
ReplaceLast(entry) == maps' = [maps EXCEPT ![Len(maps)] = entry]

Drop(why) == outcome' = why /\ UNCHANGED state
Applied(reason) == outcome' = "Applied" /\ terminal' = reason

\* An event that gets past the session and the run-over checks.
Live(ev, kind) ==
    /\ ev.event = kind
    /\ ev.session = Session
    /\ terminal = "None"

-----------------------------------------------------------------------------
Foreign(ev) == ev.session # Session /\ Drop("WrongSession")

AfterEnd(ev) ==
    /\ ev.session = Session
    /\ terminal # "None"
    /\ Drop("RunOver")

RunStart(ev) ==
    /\ Live(ev, "RunStart")
    /\ \/ run_started /\ Drop("Duplicate")
       \/ /\ ~run_started
          /\ run_started' = TRUE
          /\ Applied("None")
          /\ UNCHANGED <<maps, open>>

\* Mutant: only the open map counts as recorded.
LevelEnterReopens(ev) ==
    /\ Live(ev, "LevelEnter")
    /\ ~OpenOn(ev.map)
    /\ Push(Entry(ev.map, ZeroStats, FALSE))
    /\ open' = TRUE
    /\ Applied("None")
    /\ UNCHANGED run_started

LevelEnter(ev) ==
    /\ Live(ev, "LevelEnter")
    /\ \/ Recorded(ev.map) /\ Drop("Duplicate")
       \/ /\ ~Recorded(ev.map)
          /\ Push(Entry(ev.map, ZeroStats, FALSE))
          /\ open' = TRUE
          /\ Applied("None")
          /\ UNCHANGED run_started

\* Mutant: a copy delayed past the close of its map is taken for a fresh one.
LevelCompleteTwice(ev) ==
    /\ Live(ev, "LevelComplete")
    /\ \/ OpenOn(ev.map) /\ ReplaceLast(Entry(ev.map, ev.stats, TRUE))
       \/ ~open /\ Push(Entry(ev.map, ev.stats, TRUE))
    /\ open' = FALSE
    /\ Applied("None")
    /\ UNCHANGED run_started

LevelComplete(ev) ==
    /\ Live(ev, "LevelComplete")
    /\ \/ /\ open
          /\ ~OpenOn(ev.map)
          /\ Drop("OutOfOrder")
       \/ /\ ~open
          /\ Recorded(ev.map)
          /\ Drop("Duplicate")
       \/ /\ \/ OpenOn(ev.map) /\ ReplaceLast(Entry(ev.map, ev.stats, TRUE))
             \/ /\ ~open
                /\ ~Recorded(ev.map)
                /\ Push(Entry(ev.map, ev.stats, TRUE))
          /\ open' = FALSE
          /\ Applied("None")
          /\ UNCHANGED run_started

\* The event has no item counts and no totals: an open entry keeps its own.
PlayerDied(ev) ==
    /\ Live(ev, "PlayerDied")
    /\ LET Dead(base) ==
             Entry(ev.map, [base EXCEPT !.kills = ev.stats.kills,
                                        !.tics = ev.stats.tics], FALSE)
       IN  IF OpenOn(ev.map)
           THEN ReplaceLast(Dead(Last.stats))
           ELSE Push(Dead(ZeroStats))
    /\ open' = FALSE
    /\ Applied("Death")
    /\ UNCHANGED run_started

\* Mutant: the open map is left open when the run completes.
RunCompleteLeavesOpen(ev) ==
    /\ Live(ev, "RunComplete")
    /\ Applied("Complete")
    /\ UNCHANGED <<maps, open, run_started>>

RunComplete(ev) ==
    /\ Live(ev, "RunComplete")
    /\ open' = FALSE
    /\ Applied("Complete")
    /\ UNCHANGED <<maps, run_started>>

\* Mutant: a late heartbeat overwrites the last entry even when it is closed.
ProgressOverwrites(ev) ==
    /\ Live(ev, "Progress")
    /\ IF maps # <<>> /\ Last.map = ev.map
       THEN ReplaceLast(Entry(ev.map, ev.stats, FALSE))
       ELSE ~Recorded(ev.map) /\ Push(Entry(ev.map, ev.stats, FALSE))
    /\ open' = TRUE
    /\ Applied("None")
    /\ UNCHANGED run_started

Progress(ev) ==
    /\ Live(ev, "Progress")
    /\ \/ /\ Recorded(ev.map)
          /\ ~OpenOn(ev.map)
          /\ Drop("OutOfOrder")
       \/ /\ IF OpenOn(ev.map)
             THEN ReplaceLast(Entry(ev.map, ev.stats, FALSE))
             ELSE /\ ~Recorded(ev.map)
                  /\ Push(Entry(ev.map, ev.stats, FALSE))
          /\ open' = TRUE
          /\ Applied("None")
          /\ UNCHANGED run_started

\* The quit clock may advance the open entry's tics, never rewind them.
QuitTics(ev) == IF ev.stats.tics > Last.stats.tics THEN ev.stats.tics ELSE Last.stats.tics

\* Mutant: a quit on the intermission records its map again.
RunQuitRecordsAgain(ev) ==
    /\ Live(ev, "RunQuit")
    /\ IF OpenOn(ev.map)
       THEN ReplaceLast(Entry(ev.map, [Last.stats EXCEPT !.tics = QuitTics(ev)], FALSE))
       ELSE Push(Entry(ev.map, [ZeroStats EXCEPT !.tics = ev.stats.tics], FALSE))
    /\ open' = FALSE
    /\ Applied("Quit")
    /\ UNCHANGED run_started

\* Mutant: the quit records the reason meant for runs without a terminal event.
RunQuitAbandons(ev) ==
    /\ Live(ev, "RunQuit")
    /\ open' = FALSE
    /\ Applied("Abandoned")
    /\ UNCHANGED <<maps, run_started>>

RunQuit(ev) ==
    /\ Live(ev, "RunQuit")
    /\ IF OpenOn(ev.map)
       THEN ReplaceLast(Entry(ev.map, [Last.stats EXCEPT !.tics = QuitTics(ev)], FALSE))
       ELSE IF Recorded(ev.map)
            THEN UNCHANGED maps
            ELSE Push(Entry(ev.map, [ZeroStats EXCEPT !.tics = ev.stats.tics], FALSE))
    /\ open' = FALSE
    /\ Applied("Quit")
    /\ UNCHANGED run_started

-----------------------------------------------------------------------------
Init ==
    /\ maps = <<>>
    /\ open = FALSE
    /\ run_started = FALSE
    /\ terminal = "None"
    /\ outcome = "Applied"

ApplyEvent(ev) ==
    \/ Foreign(ev)
    \/ AfterEnd(ev)
    \/ RunStart(ev)
    \/ LevelEnter(ev)
    \/ LevelComplete(ev)
    \/ PlayerDied(ev)
    \/ RunComplete(ev)
    \/ Progress(ev)
    \/ RunQuit(ev)

Next == \E ev \in Events : ApplyEvent(ev)

Spec == Init /\ [][Next]_vars

-----------------------------------------------------------------------------
TypeOK ==
    /\ maps \in Seq(MapStats)
    /\ open \in BOOLEAN
    /\ run_started \in BOOLEAN
    /\ terminal \in TerminalReasons \cup {"None"}
    /\ outcome \in Outcomes

\* `open' is only ever set over an entry that is there, is not completed, and
\* is the only one of its map; and never once the run has ended.  The first part
\* is what every `expect("open implies a last map")' in apply relies on.
OpenEntry ==
    open => /\ terminal = "None"
            /\ maps # <<>>
            /\ ~Last.completed
            /\ \A i \in 1..(Len(maps) - 1) : maps[i].map # Last.map

\* No map earns its completion bonus twice, whatever is duplicated or delayed:
\* the double level_complete that LevelComplete's drop rules are about.
CompletedOnce ==
    \A i, j \in DOMAIN maps :
        maps[i].completed /\ maps[j].completed /\ maps[i].map = maps[j].map => i = j

\* A map is recorded once, except that the entry player_died appends may repeat
\* one: it comes last, is not completed, and ends the run.
RepeatOnlyAtDeath ==
    \A i, j \in DOMAIN maps :
        i < j /\ maps[i].map = maps[j].map =>
            j = Len(maps) /\ terminal = "Death" /\ ~maps[j].completed

\* An entry that is closed is never rewritten, reopened or removed: provisional
\* heartbeats, late completions and the end of the run leave it alone.
ClosedStands ==
    [][\A i \in DOMAIN maps :
         i < Len(maps) \/ ~open => i \in DOMAIN maps' /\ maps'[i] = maps[i]]_vars

\* The accumulated list implements the ledger: it starts each map once, revises
\* only the map in progress, and completes only it or a map never begun.
Ledger == INSTANCE RunLedger WITH
    closed  <- IF open THEN SubSeq(maps, 1, Len(maps) - 1) ELSE maps,
    current <- IF open THEN <<Last>> ELSE <<>>,
    over    <- terminal # "None"

LedgerSpec == Ledger!Spec
=============================================================================
