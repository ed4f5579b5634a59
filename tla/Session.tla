------------------------------ MODULE Session ------------------------------
(***************************************************************************)
(* The select loop of one session (run_session and EventPump in            *)
(* crates/supervisor/src/session.rs): which timers are armed by which      *)
(* lines, how a run that is decided or abandoned is shut down, and how the *)
(* engine that will not go is killed.                                      *)
(*                                                                         *)
(* A timer holds the time left, Off when it is not armed, and is due at 0. *)
(* Time does not pass over a timer that is due, but lines may still be     *)
(* handled before it: select picks any ready branch.  What the run state   *)
(* machine does with an event is reduced to whether the run is decided.    *)
(* Heartbeats carry a report and go through the idle tracker; the two      *)
(* configured windows come from an environment.                            *)
(***************************************************************************)
EXTENDS Integers, FiniteSetsExt, IdleTracker, Config

CONSTANTS
    Environments,    \* the raw values the supervisor may be started with
    Reports,         \* where a player may be, with which counters
    WATCHDOG,        \* WATCHDOG_TIMEOUT
    Linger,          \* DEATH_LINGER, COMPLETE_LINGER, QUIT_LINGER
    GRACE,           \* KILL_GRACE
    MaxEvents,       \* bound on the events other than heartbeats
    MaxBuffered      \* bound on the lines buffered when the engine exits

Terminals == {"PlayerDied", "RunComplete", "RunQuit"}

\* The watchdog (20 minutes) outlasts any shutdown (13 seconds); the other two
\* windows are configured, and any value will do.
ASSUME SessionAssumption ==
    /\ {WATCHDOG, GRACE} \subseteq Nat \ {0}
    /\ \A env \in Environments : \A raw \in {env.idle, env.stall} : raw.is = "secs" => raw.n \in Nat
    /\ \A report \in Reports : {report.px, report.py, report.counters} \subseteq Int
    /\ Linger \in [Terminals -> Nat]
    /\ \A kind \in Terminals : Linger[kind] + GRACE < WATCHDOG
    /\ {MaxEvents, MaxBuffered} \subseteq Nat

VARIABLES
    cfg,
    term_at, kill_at, idle_at, stall_at, watchdog_at,
    idle,              \* the idle tracker
    fifo_latched,
    fifo_open, stdout_open,
    abandoning,
    decided,           \* the state machine has a terminal reason
    signalled,         \* SIGTERM was sent
    killed,            \* SIGKILL was sent
    engine,            \* "Playing", "Gone" (nobody plays), "Hung" (no output), "Exited"
    phase,             \* "Pump", "Drain", "Finished"
    events,            \* events other than heartbeats so far
    buffered,          \* lines still to be drained
    rest,              \* what an engine without a player reports
    last,              \* the last report before the run was over, if any
    inactive,          \* time since the last sign of activity
    ended              \* time since the run was decided or abandoned

timers == <<term_at, kill_at, idle_at, stall_at, watchdog_at>>
pump == <<cfg, idle, fifo_latched, fifo_open, stdout_open, abandoning, decided>>
signals == <<signalled, killed>>
player == <<engine, rest>>
clocks == <<last, inactive, ended>>
vars == <<timers, pump, signals, player, phase, events, buffered, clocks>>

Off == -1
Due(timer) == timer = 0
Over == decided \/ abandoning
stall_timeout == IF cfg.pk3 THEN cfg.stall_timeout ELSE Off

-----------------------------------------------------------------------------
\* Mutant: the guards stay armed through the linger.
ArmExitKeepsGuards(linger) ==
    /\ term_at' = linger
    /\ kill_at' = linger + GRACE
    /\ UNCHANGED idle_at
    /\ stall_at' = IF stall_at = Off THEN Off ELSE stall_timeout

ArmExit(linger) ==
    /\ term_at' = linger
    /\ kill_at' = linger + GRACE
    /\ idle_at' = Off
    /\ stall_at' = Off

\* Mutant: no escalation if the engine ignores the SIGTERM.
AbandonPolitely ==
    /\ signalled' = TRUE
    /\ UNCHANGED kill_at
    /\ idle_at' = Off
    /\ stall_at' = Off
    /\ abandoning' = TRUE

AbandonNow ==
    /\ signalled' = TRUE
    /\ kill_at' = GRACE
    /\ idle_at' = Off
    /\ stall_at' = Off
    /\ abandoning' = TRUE

\* Mutant: heartbeats go on arming the guard of a run being abandoned.
ObserveAlways(report) ==
    /\ idle' = Anchored(idle, report)
    /\ idle_at' = IF ObservedIdle(idle, report, cfg.idle_timeout)
                  THEN 0 ELSE Deadline(idle', cfg.idle_timeout)

\* A heartbeat goes to the tracker, whose deadline idle_at mirrors.
ObserveProgress(report) ==
    IF abandoning
    THEN UNCHANGED <<idle, idle_at>>
    ELSE /\ idle' = Anchored(idle, report)
         /\ idle_at' = IF ObservedIdle(idle, report, cfg.idle_timeout)
                       THEN 0 ELSE Deadline(idle', cfg.idle_timeout)

\* An event past the transport gate re-arms the stall guard while it is armed.
Rearmed == IF stall_at = Off THEN Off ELSE stall_timeout

\* Mutant: a terminal event the state machine drops arms the exit again.
ApplyRepeatedly(line) ==
    \/ /\ line.type \in Terminals
       /\ decided' = TRUE
       /\ ArmExit(Linger[line.type])
       /\ UNCHANGED idle
    \/ /\ line.type = "Progress"
       /\ ObserveProgress(line.report)
       /\ stall_at' = Rearmed
       /\ UNCHANGED <<term_at, kill_at, decided>>
    \/ /\ line.type = "Other"
       /\ stall_at' = Rearmed
       /\ UNCHANGED <<term_at, kill_at, idle_at, idle, decided>>

\* on_line once an event is past the gate.  A decided run drops everything.
Apply(line) ==
    \/ /\ line.type \in Terminals /\ ~decided
       /\ decided' = TRUE
       /\ ArmExit(Linger[line.type])
       /\ UNCHANGED idle
    \/ /\ line.type = "Progress" /\ ~decided
       /\ ObserveProgress(line.report)
       /\ stall_at' = Rearmed
       /\ UNCHANGED <<term_at, kill_at, decided>>
    \/ /\ line.type = "Other" \/ decided
       /\ stall_at' = Rearmed
       /\ UNCHANGED <<term_at, kill_at, idle_at, idle, decided>>

\* History, up to the end of the run.  A report tells of an active player for sure
\* when it is the first, or has other counters than the one before, or lies so far
\* from it that no anchor is near both.
Lively(report) ==
    \/ last = <<>>
    \/ report.counters # last[1].counters
    \/ Gap(report.px, last[1].px) >= 2 * MOVE_EPSILON_UNITS - 1
    \/ Gap(report.py, last[1].py) >= 2 * MOVE_EPSILON_UNITS - 1

Remember(line) ==
    IF line.type = "Progress" /\ ~Over
    THEN last' = <<line.report>> /\ inactive' = IF Lively(line.report) THEN 0 ELSE inactive
    ELSE last' = (IF decided' THEN <<>> ELSE last) /\ UNCHANGED inactive

\* Any line feeds the watchdog.  Stdout telemetry counts until the FIFO is live.
OnLine(source, line) ==
    /\ watchdog_at' = WATCHDOG
    /\ IF line.type = "Chatter" \/ (source = "stdout" /\ fifo_latched)
       THEN UNCHANGED <<term_at, kill_at, idle_at, stall_at, idle, fifo_latched, decided,
                        last, inactive>>
       ELSE /\ fifo_latched' = (fifo_latched \/ source = "fifo")
            /\ Apply(line)
            /\ Remember(line)

-----------------------------------------------------------------------------
Lines == [type : Terminals \cup {"Other", "Chatter"}]
            \cup [type : {"Progress"}, report : Reports]
Open(source) == IF source = "fifo" THEN fifo_open ELSE stdout_open
Counted(line) == line.type \in Terminals \cup {"Other"}

\* The places where an engine that nobody plays may leave the player: reports less
\* than two units apart on both axes, such as the bob of a view or a lift underfoot.
SameSpot(a, b) ==
    a.counters = b.counters /\ Gap(a.px, b.px) < 2 /\ Gap(a.py, b.py) < 2
Rests == {R \in SUBSET Reports : R # {} /\ \A a, b \in R : SameSpot(a, b)}

\* What the engine may say: nothing when hung, reports of one place when nobody
\* plays, and no telemetry without a pk3.  The handler emits each event that is not
\* a heartbeat a bounded number of times.
MaySay(line) ==
    /\ engine \in {"Playing", "Gone"}
    /\ engine = "Gone" /\ line.type = "Progress" => line.report \in rest
    /\ ~cfg.pk3 => line.type = "Chatter"
    /\ Counted(line) => events < MaxEvents

Line(source, line) ==
    /\ phase = "Pump"
    /\ Open(source)
    /\ MaySay(line)
    /\ OnLine(source, line)
    /\ events' = IF Counted(line) THEN events + 1 ELSE events
    /\ UNCHANGED <<cfg, fifo_open, stdout_open, abandoning, signals, player, phase,
                   buffered, ended>>

\* An error on the FIFO, which has no EOF while the supervisor holds it open for
\* writing too; EOF on stdout, whose only writer is the engine.
StreamCloses(source) ==
    /\ phase = "Pump"
    /\ Open(source)
    /\ source = "stdout" => engine = "Exited"
    /\ IF source = "fifo"
       THEN fifo_open' = FALSE /\ UNCHANGED stdout_open
       ELSE stdout_open' = FALSE /\ UNCHANGED fifo_open
    /\ UNCHANGED <<timers, cfg, idle, fifo_latched, abandoning, decided, signals,
                   player, phase, events, buffered, clocks>>

\* The player walks away; the engine stops talking; the engine exits, for any
\* reason of its own, a SIGTERM or a SIGKILL among them.
WalkAway ==
    /\ engine = "Playing"
    /\ engine' = "Gone"
    /\ rest' \in {R \in Rests : \A S \in Rests : R \subseteq S => R = S}
    /\ UNCHANGED <<timers, pump, signals, phase, events, buffered, clocks>>

Hang ==
    /\ engine \in {"Playing", "Gone"}
    /\ engine' = "Hung"
    /\ rest' = {}
    /\ UNCHANGED <<timers, pump, signals, phase, events, buffered, clocks>>

Exit ==
    /\ engine # "Exited"
    /\ engine' = "Exited"
    /\ rest' = {}
    /\ buffered' \in 0..MaxBuffered
    /\ UNCHANGED <<timers, pump, signals, phase, events, clocks>>

KilledExit == killed /\ Exit

-----------------------------------------------------------------------------
TermDue ==
    /\ phase = "Pump" /\ Due(term_at)
    /\ signalled' = TRUE
    /\ term_at' = Off
    /\ UNCHANGED <<kill_at, idle_at, stall_at, watchdog_at, pump, killed, player, phase,
                   events, buffered, clocks>>

KillDue ==
    /\ phase = "Pump" /\ Due(kill_at)
    /\ killed' = TRUE
    /\ kill_at' = Off
    /\ UNCHANGED <<term_at, idle_at, stall_at, watchdog_at, pump, signalled, player, phase,
                   events, buffered, clocks>>

GuardDue ==
    /\ phase = "Pump"
    /\ Due(idle_at) \/ Due(stall_at)
    /\ AbandonNow
    /\ last' = <<>>
    /\ UNCHANGED <<term_at, watchdog_at, cfg, idle, fifo_latched, fifo_open, stdout_open,
                   decided, killed, player, phase, events, buffered, inactive, ended>>

WatchdogDue ==
    /\ phase = "Pump" /\ Due(watchdog_at)
    /\ AbandonNow
    /\ watchdog_at' = WATCHDOG
    /\ last' = <<>>
    /\ UNCHANGED <<term_at, cfg, idle, fifo_latched, fifo_open, stdout_open, decided, killed,
                   player, phase, events, buffered, inactive, ended>>

\* Drain starts when select picks the exit arm.
ExitSeen ==
    /\ phase = "Pump"
    /\ engine = "Exited"
    /\ phase' = "Drain"
    /\ UNCHANGED <<timers, pump, signals, player, events, buffered, clocks>>

DrainLine(source, line) ==
    /\ phase = "Drain"
    /\ Open(source)
    /\ buffered > 0
    /\ ~cfg.pk3 => line.type = "Chatter"
    /\ buffered' = buffered - 1
    /\ OnLine(source, line)
    /\ UNCHANGED <<cfg, fifo_open, stdout_open, abandoning, signals, player, phase, events,
                   ended>>

\* Both streams stayed quiet: what little is left in them is dropped.
Finish ==
    /\ phase = "Drain"
    /\ phase' = "Finished"
    /\ UNCHANGED <<timers, pump, signals, player, events, buffered, clocks>>

Left(timer) == IF timer = Off THEN Off ELSE timer - 1

\* From the end of a run to its SIGKILL: one grace from the guard that fires first,
\* one more if the watchdog fires in it, one more if a terminal event arrives in
\* that.  The history clocks stop where the properties no longer look at them.
KillBound == 3 * GRACE + Max({Linger[kind] : kind \in Terminals})
ShortestGuard == Min({cfg.idle_timeout, cfg.stall_timeout, WATCHDOG})
UpTo(bound, clock) == IF clock < bound THEN clock + 1 ELSE clock

Tick ==
    /\ phase = "Pump"
    /\ ~Due(term_at) /\ ~Due(kill_at) /\ ~Due(idle_at) /\ ~Due(stall_at) /\ ~Due(watchdog_at)
    /\ term_at' = Left(term_at)
    /\ kill_at' = Left(kill_at)
    /\ idle_at' = Left(idle_at)
    /\ stall_at' = Left(stall_at)
    /\ watchdog_at' = Left(watchdog_at)
    /\ idle' = Aged(idle, cfg.idle_timeout)
    /\ inactive' = UpTo(ShortestGuard, inactive)
    /\ ended' = IF Over /\ ~killed THEN UpTo(KillBound + 1, ended) ELSE ended
    /\ UNCHANGED <<cfg, fifo_latched, fifo_open, stdout_open, abandoning, decided, signals,
                   player, phase, events, buffered, last>>

Init ==
    /\ cfg \in {FromLookup(env) : env \in Environments}
    /\ idle = <<>>
    /\ stall_at = stall_timeout
    /\ idle_at = Off /\ term_at = Off /\ kill_at = Off
    /\ watchdog_at = WATCHDOG
    /\ fifo_latched = FALSE /\ fifo_open = TRUE /\ stdout_open = TRUE
    /\ abandoning = FALSE /\ decided = FALSE
    /\ signalled = FALSE /\ killed = FALSE
    /\ engine = "Playing" /\ rest = {}
    /\ phase = "Pump"
    /\ events = 0 /\ buffered = 0
    /\ last = <<>> /\ inactive = 0 /\ ended = 0

Sources == {"fifo", "stdout"}

Next ==
    \/ \E source \in Sources, line \in Lines : Line(source, line) \/ DrainLine(source, line)
    \/ \E source \in Sources : StreamCloses(source)
    \/ WalkAway \/ Hang \/ Exit
    \/ TermDue \/ KillDue \/ GuardDue \/ WatchdogDue
    \/ ExitSeen \/ Finish
    \/ Tick

\* Time passes, a branch of select that stays ready is picked some day, and a
\* SIGKILL ends the process.  Nothing is assumed of SIGTERM.
Fairness ==
    /\ WF_vars(Tick)
    /\ WF_vars(TermDue) /\ WF_vars(KillDue) /\ WF_vars(GuardDue) /\ WF_vars(WatchdogDue)
    /\ WF_vars(KilledExit) /\ WF_vars(ExitSeen) /\ WF_vars(Finish)

Spec == Init /\ [][Next]_vars /\ Fairness
-----------------------------------------------------------------------------
\* Once the run is decided or abandoned neither the walk-away nor the stall guard
\* is armed or gets armed again: the engine may go on sending heartbeats and
\* every other event while it is being shut down.
GuardsDisarmed == Over => idle_at = Off /\ stall_at = Off

\* From the moment the run is decided or abandoned a SIGKILL is pending, and comes
\* within a fixed time: no mixture of heartbeats, repeated terminal events,
\* guards and watchdog pushes it out any further.
KillIsBounded ==
    Over /\ ~killed => kill_at # Off /\ ended + kill_at <= KillBound

\* A run the telemetry decided is left its linger: no guard abandons it before
\* the SIGKILL, so that the death animation plays out.
DecisionLingers ==
    [][decided /\ ~killed /\ ~abandoning => ~abandoning']_vars

\* No guard ends a run whose player was active within the shortest window, however
\* the windows are configured, and none fires before any time has passed.
ActiveIsSafe ==
    [][abandoning' /\ ~abandoning => inactive >= ShortestGuard /\ inactive > 0]_vars

\* A run that is decided or abandoned ends the session, even when the engine
\* ignores SIGTERM and goes on talking.
ShutsDown == Over ~> phase = "Finished"

\* A session without a player ends, whatever heartbeats go on arriving from the place
\* where the player was left, and so does one whose engine is hung.  When no telemetry
\* is expected a walked-away player is not noticed while the engine talks.
NobodyPlays ==
    engine = "Hung" \/ (engine = "Gone" /\ cfg.pk3) ~> phase = "Finished"
=============================================================================
