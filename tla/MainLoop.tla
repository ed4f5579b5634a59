------------------------------ MODULE MainLoop ------------------------------
(***************************************************************************)
(* The forever loop of the supervisor (crates/supervisor/src/main_loop.rs) *)
(* with the attract children it runs (attract.rs) and the set-up of a      *)
(* session (session.rs): attract, the engine with its directory and its    *)
(* FIFO, the initials screen, the spool, and again.  From its set-up to    *)
(* its end a session is a single step here (module Session has its         *)
(* inside), and so is the network (module Delivery).                       *)
(***************************************************************************)
EXTENDS Naturals

CONSTANTS
    Initials,             \* what players enter; AAA stands for the fallback
    INITIALS_ATTEMPTS,
    MaxRuns,              \* bounds on the runs played,
    MaxFaults             \* and on panics, crashes and engines that do not spawn

ASSUME MainLoopAssumption ==
    /\ "None" \notin Initials
    /\ INITIALS_ATTEMPTS \in Nat \ {0}
    /\ {MaxRuns, MaxFaults} \subseteq Nat

VARIABLES
    at,          \* where the loop is: "Open", "Attract", "Guard", "Seed", "Fifo",
                 \* "Spawn", "Session", "Initials", "Spool", "Kick", "Pause"
    child,       \* the attract process: "None", "Running", "Closed" (its stdout)
    payload,     \* the handoff line run_attract_once keeps
    attempt,
    initials,    \* what the finished run is claimed with
    made,        \* FIFOs made so far: the last is that of the session, if any
    fifo,        \* the one at its path, or 0
    ini,         \* gzdoom.ini: "Fresh", "Used" by an engine before it was seeded,
                 \* "Spoiled" by an engine left behind after that
    engine,      \* FIFO -> its engine: "None", "Starting", "Running"
    log,         \* FIFO -> the FIFO its engine logs to, or 0
    opened,      \* FIFO -> which was made last when its engine opened its log
    iwad,        \* whether the IWAD can be opened
    run,         \* the runs finished so far are 1..run
    spooled,     \* run -> initials, for those on disk
    journal,     \* runs dumped into the journal
    entered,     \* run -> the initials its player entered first, or "None"
    forgotten,   \* runs that were in memory when the loop died
    faults

attract == <<child, payload, attempt>>
disk == <<spooled, journal>>
history == <<entered, forgotten>>
runtime == <<made, fifo, ini>>
engines == <<engine, log, opened>>
vars == <<at, attract, initials, runtime, engines, iwad, run, disk, history, faults>>

FALLBACK_INITIALS == "AAA"
Runs == 1..MaxRuns
SetUps == 1 .. MaxRuns + MaxFaults
InMemory == at \in {"Initials", "Spool"}

\* The loop opens the spool, trying again as long as that fails.
OpenSpool ==
    /\ at = "Open"
    /\ at' = "Attract"
    /\ UNCHANGED <<attract, initials, runtime, engines, iwad, run, disk, history, faults>>

-----------------------------------------------------------------------------
\* run_attract_once, in either mode.  A spawn may fail.
SpawnAttract ==
    /\ at \in {"Attract", "Initials"}
    /\ child = "None"
    /\ child' = "Running"
    /\ payload' = "None"
    /\ UNCHANGED <<at, attempt, initials, runtime, engines, iwad, run, disk, history, faults>>

\* Mutant: the last handoff line counts.
KeepLast(line) == payload' = line

Keep(line) == payload' = IF payload = "None" THEN line ELSE payload

\* The player presses Start.  (Bounded: after the last run nobody plays.)
StartLine ==
    /\ at = "Attract" /\ child = "Running"
    /\ run < MaxRuns
    /\ Keep("Start")
    /\ UNCHANGED <<at, child, attempt, initials, runtime, engines, iwad, run, disk, history, faults>>

\* Initials are entered, or filled in by the screen's timeout.
InitialsLine(line) ==
    /\ at = "Initials" /\ child = "Running"
    /\ Keep(line)
    /\ entered' = IF entered[run] = "None" THEN [entered EXCEPT ![run] = line] ELSE entered
    /\ UNCHANGED <<at, child, attempt, initials, runtime, engines, iwad, run, disk, forgotten, faults>>

\* Stdout ends: attract exited, crashed, or closed it.
CloseStdout ==
    /\ child = "Running"
    /\ child' = "Closed"
    /\ UNCHANGED <<at, payload, attempt, initials, runtime, engines, iwad, run, disk, history, faults>>

\* The child is gone, by itself or killed after its grace, or was never spawned.
Returned == child = "Closed" \/ (child = "None" /\ at \in {"Attract", "Initials"})
HandedOff == child = "Closed" /\ payload # "None"

\* wait_for_start: anything but a start is followed by another attract.
WaitForStart ==
    /\ at = "Attract" /\ Returned
    /\ child' = "None"
    /\ at' = IF HandedOff THEN "Guard" ELSE "Attract"
    /\ UNCHANGED <<payload, attempt, initials, runtime, engines, iwad, run, disk, history, faults>>

\* Mutant: a run nobody claims is not spooled.
AcquireOrDrop ==
    /\ at = "Initials" /\ Returned
    /\ child' = "None"
    /\ IF HandedOff
       THEN initials' = payload /\ at' = "Spool" /\ UNCHANGED attempt
       ELSE IF attempt < INITIALS_ATTEMPTS
            THEN attempt' = attempt + 1 /\ UNCHANGED <<at, initials>>
            ELSE at' = "Attract" /\ UNCHANGED <<attempt, initials>>
    /\ UNCHANGED <<payload, runtime, engines, iwad, run, disk, history, faults>>

\* acquire_initials.
AcquireInitials ==
    /\ at = "Initials" /\ Returned
    /\ child' = "None"
    /\ IF HandedOff
       THEN initials' = payload /\ at' = "Spool" /\ UNCHANGED attempt
       ELSE IF attempt < INITIALS_ATTEMPTS
            THEN attempt' = attempt + 1 /\ UNCHANGED <<at, initials>>
            ELSE initials' = FALLBACK_INITIALS /\ at' = "Spool" /\ UNCHANGED attempt
    /\ UNCHANGED <<payload, runtime, engines, iwad, run, disk, history, faults>>

-----------------------------------------------------------------------------
\* Mutant: the guard waits for the IWAD instead of returning to attract.
GuardWaits ==
    /\ at = "Guard"
    /\ at' = IF iwad THEN "Seed" ELSE "Guard"
    /\ UNCHANGED <<attract, initials, runtime, engines, iwad, run, disk, history, faults>>

Guard ==
    /\ at = "Guard"
    /\ at' = IF iwad THEN "Seed" ELSE "Attract"
    /\ UNCHANGED <<attract, initials, runtime, engines, iwad, run, disk, history, faults>>

\* Mutant: a session directory that exists is taken as it is.
SeedOnce ==
    /\ at = "Seed"
    /\ \/ at' = "Fifo" /\ ini' = IF made = 0 THEN "Fresh" ELSE ini
       \/ at' = "Pause" /\ UNCHANGED ini
    /\ UNCHANGED <<attract, initials, made, fifo, engines, iwad, run, disk, history, faults>>

\* seed_session_dir: purged and seeded from the template, or from nothing if there
\* is none to be read; an error ends the iteration.
Seed ==
    /\ at = "Seed"
    /\ \/ at' = "Fifo" /\ ini' = "Fresh"
       \/ at' = "Pause" /\ UNCHANGED ini
    /\ UNCHANGED <<attract, initials, made, fifo, engines, iwad, run, disk, history, faults>>

\* Mutant: a FIFO that is already there will do.
MakeFifoOnce ==
    /\ at = "Fifo"
    /\ made' = made + 1
    /\ fifo' = IF fifo = 0 THEN made' ELSE fifo
    /\ at' = "Spawn"
    /\ UNCHANGED <<attract, initials, ini, engines, iwad, run, disk, history, faults>>

\* make_fifo: whatever is at the path, a stale FIFO or a file, is unlinked first.
MakeFifo ==
    /\ at = "Fifo"
    /\ \/ made' = made + 1 /\ fifo' = made' /\ at' = "Spawn"
       \/ at' = "Pause" /\ UNCHANGED <<made, fifo>>
    /\ UNCHANGED <<attract, initials, ini, engines, iwad, run, disk, history, faults>>

\* The FIFO is opened and the engine spawned, or an error ends the iteration and
\* leaves the FIFO where it is.  (Bounded as a fault: each try makes a FIFO.)
SpawnEngine ==
    /\ at = "Spawn"
    /\ at' = "Session"
    /\ engine' = [engine EXCEPT ![made] = "Starting"]
    /\ UNCHANGED <<attract, initials, runtime, log, opened, iwad, run, disk, history, faults>>

SpawnFails ==
    /\ at = "Spawn"
    /\ faults < MaxFaults
    /\ faults' = faults + 1
    /\ at' = "Pause"
    /\ UNCHANGED <<attract, initials, runtime, engines, iwad, run, disk, history>>

\* run_session returns once its engine was reaped and the streams are drained.
RunEnds ==
    /\ at = "Session" /\ engine[made] = "None"
    /\ fifo' = 0
    /\ at' = "Initials"
    /\ run' = run + 1
    /\ attempt' = 1
    /\ UNCHANGED <<child, payload, initials, made, ini, engines, iwad, disk, history, faults>>

\* An engine comes up: it reads its ini and opens its log by their paths.  Where
\* there is no FIFO the log becomes a file.
EngineStarts(s) ==
    /\ engine[s] = "Starting"
    /\ engine' = [engine EXCEPT ![s] = "Running"]
    /\ log' = [log EXCEPT ![s] = fifo]
    /\ opened' = [opened EXCEPT ![s] = made]
    /\ UNCHANGED <<at, attract, initials, runtime, iwad, run, disk, history, faults>>

\* An engine exits, by itself or killed, and may save its settings.
LeftBehind(s) == ~(at = "Session" /\ s = made)
Seeded == at \in {"Fifo", "Spawn", "Session"}

EngineExits(s) ==
    /\ engine[s] # "None"
    /\ engine' = [engine EXCEPT ![s] = "None"]
    /\ log' = [log EXCEPT ![s] = 0] /\ opened' = [opened EXCEPT ![s] = 0]
    /\ ini' \in {ini, IF LeftBehind(s) /\ Seeded THEN "Spoiled" ELSE "Used"}
    /\ UNCHANGED <<at, attract, initials, made, fifo, iwad, run, disk, history, faults>>

\* insert_run, or the journal if that fails.
Spool ==
    /\ at = "Spool"
    /\ at' = "Kick"
    /\ \/ spooled' = [spooled EXCEPT ![run] = initials] /\ UNCHANGED journal
       \/ journal' = journal \cup {run} /\ UNCHANGED spooled
    /\ UNCHANGED <<attract, initials, runtime, engines, iwad, run, history, faults>>

Kick ==
    /\ at = "Kick"
    /\ at' = "Attract"
    /\ UNCHANGED <<attract, initials, runtime, engines, iwad, run, disk, history, faults>>

PauseEnds ==
    /\ at = "Pause"
    /\ at' = "Attract"
    /\ UNCHANGED <<attract, initials, runtime, engines, iwad, run, disk, history, faults>>

\* The task of the iteration panics: its attract child is killed on drop, the
\* engine belongs to the reaper's task and stays, the run in memory is gone.
Forget == forgotten' = IF InMemory THEN forgotten \cup {run} ELSE forgotten

Panic ==
    /\ at \notin {"Open", "Pause"}
    /\ faults < MaxFaults
    /\ faults' = faults + 1
    /\ at' = "Pause"
    /\ child' = "None"
    /\ Forget
    /\ UNCHANGED <<payload, attempt, initials, runtime, engines, iwad, run, disk, entered>>

\* The supervisor dies and systemd starts it again, all its children killed.
Crash ==
    /\ faults < MaxFaults
    /\ faults' = faults + 1
    /\ at' = "Open"
    /\ child' = "None"
    /\ engine' = [s \in SetUps |-> "None"]
    /\ log' = [s \in SetUps |-> 0] /\ opened' = [s \in SetUps |-> 0]
    /\ ini' \in {ini, "Used"}
    /\ Forget
    /\ UNCHANGED <<payload, attempt, initials, made, fifo, iwad, run, disk, entered>>

\* The IWAD goes missing or comes back.
IwadChanges ==
    /\ iwad' = ~iwad
    /\ UNCHANGED <<at, attract, initials, runtime, engines, run, disk, history, faults>>

Init ==
    /\ at = "Open"
    /\ child = "None" /\ payload = "None" /\ attempt = 1
    /\ initials = "None"
    /\ made = 0 /\ fifo = 0 /\ ini \in {"Fresh", "Used"}
    /\ engine = [s \in SetUps |-> "None"]
    /\ log = [s \in SetUps |-> 0] /\ opened = [s \in SetUps |-> 0]
    /\ iwad \in BOOLEAN
    /\ run = 0
    /\ spooled = [r \in Runs |-> "None"] /\ journal = {}
    /\ entered = [r \in Runs |-> "None"] /\ forgotten = {}
    /\ faults = 0

Supervisor ==
    \/ OpenSpool \/ WaitForStart \/ AcquireInitials
    \/ Guard \/ Seed \/ MakeFifo \/ SpawnEngine \/ RunEnds
    \/ Spool \/ Kick \/ PauseEnds

Next ==
    \/ Supervisor
    \/ SpawnAttract \/ StartLine \/ CloseStdout
    \/ \E line \in Initials : InitialsLine(line)
    \/ \E s \in SetUps : EngineStarts(s) \/ EngineExits(s)
    \/ SpawnFails \/ Panic \/ Crash \/ IwadChanges

\* The supervisor goes on, and the engine of a session ends (Session!ShutsDown, and a
\* player does not play for ever).  The initials screen exits: it has a timeout.
SessionEnds == at = "Session" /\ EngineExits(made)
LoopFairness == WF_vars(Supervisor) /\ WF_vars(SessionEnds)
InitialsExits == WF_vars(at = "Initials" /\ CloseStdout)

Spec == Init /\ [][Next]_vars /\ LoopFairness /\ InitialsExits

\* The same with an attract binary of which nothing is known.
BrokenAttractSpec == Init /\ [][Next]_vars /\ LoopFairness

-----------------------------------------------------------------------------
\* Every finished run is on disk or in the journal, or still in the loop's hands,
\* unless the loop died while it held it: no end of the initials screen drops one.
RunsAccounted ==
    \A r \in 1..run :
        \/ spooled[r] # "None"
        \/ r \in journal \cup forgotten
        \/ r = run /\ InMemory

\* A run goes to the board under the initials its player entered first, and under
\* the fallback only if none of the attempts produced any; never under those of
\* another run.
ClaimedByItsPlayer ==
    \A r \in Runs :
        spooled[r] # "None" =>
            spooled[r] = IF entered[r] = "None" THEN FALLBACK_INITIALS ELSE entered[r]

\* The FIFO of a session is its own: an engine that an earlier iteration left behind,
\* with its log open by then, does not write to it.
OwnFifo ==
    at = "Session" =>
        \A s \in SetUps \ {made} : log[s] = fifo /\ log[s] # 0 => opened[s] = made

\* "No player inherits another's rebinds, autosaves, or console state": an engine
\* starts from the settings it was seeded with, unless one that was left behind saves
\* its own over them while the session is set up.
StartsClean ==
    [][at = "Session" /\ engine[made] = "Starting" /\ engine'[made] = "Running"
        => ini \in {"Fresh", "Spoiled"}]_vars

\* The loop comes back to attract whatever happened in an iteration.
LoopsForever == []<>(at = "Attract")

\* A finished run leaves the initials screen; under BrokenAttractSpec this is
\* "a finished score must never be held hostage by a broken attract binary".
ScoreReleased == at = "Initials" ~> at # "Initials"
=============================================================================
