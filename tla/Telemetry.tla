----------------------------- MODULE Telemetry -----------------------------
(***************************************************************************)
(* The engine side of a run: the event handler of the pk3                  *)
(* (pk3/zscript/arcade/handler.zs) and as much of the engine as decides    *)
(* which hooks run in which order.  `emitted' is every ARCADE_EVT line of  *)
(* the session so far, in order.                                           *)
(***************************************************************************)
EXTENDS Scoring

CONSTANTS
    Rotation,                \* map names in play order (pk3/MAPINFO.txt)
    Session,                 \* the arcade_session cvar
    Monsters,                \* counters a map has to offer
    Items,
    MaxTics,                 \* bound on the tics spent on one map
    MaxRestarts,             \* bound on the reloads after a death
    PROGRESS_INTERVAL_TICS,
    QUIT_HOLD_TICS

ASSUME TelemetryAssumption ==
    /\ Rotation \in Seq(STRING) /\ Rotation # <<>>
    /\ \A i, j \in DOMAIN Rotation : Rotation[i] = Rotation[j] => i = j
    /\ {Monsters, Items, MaxTics, MaxRestarts} \subseteq Nat
    /\ {PROGRESS_INTERVAL_TICS, QUIT_HOLD_TICS} \subseteq Nat \ {0}

VARIABLES
    phase,            \* "Loading", "InMap", "Title" (after the last map), "Exited"
    at,               \* position in the rotation
    killed, items, maptime,             \* the engine's level counters
    restarts,
    runStarted, playerDead,             \* the handler's fields
    startHeld, startHoldTics, runQuitEmitted,
    bankedScore,
    emitted,
    exits             \* maps the player exited by their exit (for the properties)

level == <<at, killed, items, maptime, restarts>>
hold == <<startHeld, startHoldTics, runQuitEmitted>>
gvars == <<phase, level, runStarted, playerDead, hold, bankedScore, emitted, exits>>

Map == Rotation[at]
Counters == [kills |-> killed, total |-> Monsters, items |-> items, tics |-> maptime]

\* A line carries the counters its variant has on the wire, and zeros for the rest.
Nothing == [kills |-> 0, total |-> 0, items |-> 0, tics |-> 0]
Carried(kind) ==
    CASE kind \in {"LevelComplete", "Progress"} -> Counters
      [] kind = "PlayerDied" -> [Nothing EXCEPT !.kills = killed, !.tics = maptime]
      [] kind = "RunQuit" -> [Nothing EXCEPT !.tics = maptime]
      [] OTHER -> Nothing

Line(kind) == [event |-> kind, session |-> Session, map |-> Map, stats |-> Carried(kind)]
Emit(lines) == emitted' = emitted \o lines

ResetHold == startHeld' = FALSE /\ startHoldTics' = 0 /\ UNCHANGED runQuitEmitted
NewLevel == killed' = 0 /\ items' = 0 /\ maptime' = 0

-----------------------------------------------------------------------------
\* A fresh map: the first of the game also starts the run.
WorldLoaded ==
    /\ phase = "Loading"
    /\ phase' = "InMap"
    /\ NewLevel
    /\ ResetHold
    /\ IF runStarted
       THEN /\ Emit(<<Line("LevelEnter")>>)
            /\ UNCHANGED <<runStarted, playerDead, bankedScore>>
       ELSE /\ runStarted' = TRUE
            /\ playerDead' = FALSE
            /\ bankedScore' = 0
            /\ Emit(<<Line("RunStart"), Line("LevelEnter")>>)
    /\ UNCHANGED <<at, restarts, exits>>

\* The engine counts on after a death, but the handler is silent from then on.
Score ==
    /\ phase = "InMap"
    /\ ~playerDead
    /\ \/ killed < Monsters /\ killed' = killed + 1 /\ UNCHANGED items
       \/ items < Items /\ items' = items + 1 /\ UNCHANGED killed
    /\ UNCHANGED <<phase, at, maptime, restarts, runStarted, playerDead, hold, bankedScore,
                   emitted, exits>>

\* One tic: the heartbeat, then the hold-Start counter.  Before the run and
\* after a death the hook returns at once.
Heartbeat(tics) == tics > 0 /\ tics % PROGRESS_INTERVAL_TICS = 0

Holding == startHeld /\ ~runQuitEmitted
HoldDone == Holding /\ startHoldTics + 1 >= QUIT_HOLD_TICS

WorldTick ==
    /\ phase = "InMap"
    /\ runStarted /\ ~playerDead
    /\ maptime < MaxTics
    /\ maptime' = maptime + 1
    /\ LET Now(kind) == <<[Line(kind) EXCEPT !.stats.tics = maptime']>>
       IN  Emit((IF Heartbeat(maptime') THEN Now("Progress") ELSE <<>>)
                  \o (IF HoldDone THEN Now("RunQuit") ELSE <<>>))
    /\ startHoldTics' = IF Holding THEN startHoldTics + 1 ELSE startHoldTics
    /\ runQuitEmitted' = (runQuitEmitted \/ HoldDone)
    /\ UNCHANGED <<phase, at, killed, items, restarts, runStarted, playerDead, startHeld,
                   bankedScore, exits>>

StartDown ==
    /\ phase = "InMap"
    /\ ~startHeld
    /\ startHeld' = TRUE
    /\ UNCHANGED <<phase, level, runStarted, playerDead, startHoldTics, runQuitEmitted,
                   bankedScore, emitted, exits>>

StartUp ==
    /\ phase = "InMap"
    /\ startHeld
    /\ ResetHold
    /\ UNCHANGED <<phase, level, runStarted, playerDead, bankedScore, emitted, exits>>

\* The console player's pawn dies; a second death of the run is not reported.
WorldThingDied ==
    /\ phase = "InMap"
    /\ runStarted /\ ~playerDead
    /\ playerDead' = TRUE
    /\ Emit(<<Line("PlayerDied")>>)
    /\ UNCHANGED <<phase, level, runStarted, hold, bankedScore, exits>>

\* The HUD's copy of the formula, in plain machine arithmetic.
HudMapScore ==
    killed * POINTS_PER_KILL + items * POINTS_PER_ITEM + COMPLETION_BONUS
      + NonNegative(TIME_BONUS_PAR_SECONDS - maptime \div TICS_PER_SECOND)
          * TIME_BONUS_PER_SECOND
      + DEPTH_BONUS_PER_MAP

LastMap == at = Len(Rotation)

\* Mutant: the unload of a map the player died on counts as a completion.
WorldUnloadedDead ==
    IF ~runStarted
    THEN UNCHANGED <<bankedScore, emitted>>
    ELSE /\ bankedScore' = bankedScore + HudMapScore
         /\ Emit(<<Line("LevelComplete")>>
                   \o (IF LastMap THEN <<Line("RunComplete")>> ELSE <<>>))

\* The handler's part of an unload that is not a save-game's.
WorldUnloaded ==
    IF ~runStarted \/ playerDead
    THEN UNCHANGED <<bankedScore, emitted>>
    ELSE /\ bankedScore' = bankedScore + HudMapScore
         /\ Emit(<<Line("LevelComplete")>>
                   \o (IF LastMap THEN <<Line("RunComplete")>> ELSE <<>>))

\* The player takes the exit.  A pawn may still die in the tic of the exit.
ExitMap ==
    /\ phase = "InMap"
    /\ WorldUnloaded
    /\ exits' = IF playerDead THEN exits ELSE exits \cup {Map}
    /\ IF LastMap
       THEN phase' = "Title" /\ UNCHANGED at
       ELSE phase' = "Loading" /\ at' = at + 1
    /\ UNCHANGED <<killed, items, maptime, restarts, runStarted, playerDead, hold>>

\* After a death the map is unloaded and reloaded afresh.  (A reload from the
\* autosave is flagged as a save game's, and the handler ignores it.)
Restart ==
    /\ phase = "InMap"
    /\ playerDead
    /\ restarts < MaxRestarts
    /\ restarts' = restarts + 1
    /\ WorldUnloaded
    /\ phase' = "Loading"
    /\ UNCHANGED <<at, killed, items, maptime, runStarted, playerDead, hold, exits>>

\* The engine is gone: it crashed, was killed, or quit on a signal without
\* unloading the map.
Exit ==
    /\ phase # "Exited"
    /\ phase' = "Exited"
    /\ UNCHANGED <<level, runStarted, playerDead, hold, bankedScore, emitted, exits>>

\* The engine quits on a signal and unloads the map it is in on the way out:
\* the hook cannot tell this from an exit.
Teardown ==
    /\ phase = "InMap"
    /\ WorldUnloaded
    /\ phase' = "Exited"
    /\ UNCHANGED <<level, runStarted, playerDead, hold, exits>>

Init ==
    /\ phase = "Loading"
    /\ at = 1
    /\ killed = 0 /\ items = 0 /\ maptime = 0
    /\ restarts = 0
    /\ runStarted = FALSE /\ playerDead = FALSE
    /\ startHeld = FALSE /\ startHoldTics = 0 /\ runQuitEmitted = FALSE
    /\ bankedScore = 0
    /\ emitted = <<>>
    /\ exits = {}

\* What the player and the engine do by themselves, signals apart.
Play ==
    \/ WorldLoaded \/ Score \/ WorldTick \/ StartDown \/ StartUp
    \/ WorldThingDied \/ ExitMap \/ Restart
=============================================================================
