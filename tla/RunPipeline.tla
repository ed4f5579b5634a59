---------------------------- MODULE RunPipeline ----------------------------
(***************************************************************************)
(* One session end to end: the engine's telemetry (Telemetry), its two     *)
(* transports, the gate the session driver puts before the state machine   *)
(* (EventPump::on_line in crates/supervisor/src/session.rs), the state     *)
(* machine (RunState), and the finished run.                               *)
(*                                                                         *)
(* Every line goes to the FIFO, which the supervisor also holds open, and  *)
(* to stdout, which lags.  The supervisor reads either whenever it has     *)
(* something.  A line can be lost on the FIFO; stdout can lose only its    *)
(* unflushed tail, when the engine dies.  Timers are not here: the engine  *)
(* is signalled at any moment after a terminal event, and before one only  *)
(* if MayAbandon.                                                          *)
(***************************************************************************)
EXTENDS Telemetry, Submission, FiniteSetsExt

CONSTANTS
    StaleSession,     \* a session whose writer is still on the FIFO
    MaxLost,          \* bound on the FIFO lines lost one by one
    MaxAfterEnd,      \* bound on the lines emitted after the one that ends the run
    MayAbandon        \* whether a guard can end the run before a terminal event

ASSUME PipelineAssumption ==
    /\ StaleSession # Session
    /\ {MaxLost, MaxAfterEnd} \subseteq Nat
    /\ MayAbandon \in BOOLEAN
    \* Five maps of a few hundred monsters; the server takes 16, and no sum comes
    \* near i64::MAX.
    /\ Len(Rotation) <= MAX_MAPS
    /\ \A most \in {Monsters, Items, MaxTics} : Len(Rotation) * most <= MaxInt

VARIABLES
    fifo,             \* how many of the emitted lines have left the FIFO
    stdout,           \* how many have left stdout
    fifoLatched,      \* EventPump::fifo_latched
    fifoOpen,         \* run_session's fifo_open
    fifoLost,         \* how many FIFO lines were lost
    stdoutLost,       \* whether the tail of stdout was lost
    maps, open, run_started, terminal, outcome,     \* RunState
    result            \* the finished run, or <<>>

transport == <<fifo, stdout, fifoLatched, fifoOpen, fifoLost, stdoutLost>>
rvars == <<maps, open, run_started, terminal, outcome>>
vars == <<gvars, transport, rvars, result>>

MapNames == {Rotation[i] : i \in DOMAIN Rotation}

Run == INSTANCE RunState WITH
    Maps <- MapNames,
    Sessions <- {Session, StaleSession},
    Observations <- [kills : 0..Monsters, total : {0, Monsters}, items : 0..Items,
                     tics : 0..MaxTics]

Supervised == result = <<>>

\* The lines that end a run.
Ends(line) == line.event \in {"PlayerDied", "RunComplete", "RunQuit"}
Deciding == {i \in DOMAIN emitted : Ends(emitted[i])}

-----------------------------------------------------------------------------
\* The engine plays on; a run ended by a decision is being shut down.
Engine ==
    /\ Deciding # {} => Len(emitted) < Min(Deciding) + MaxAfterEnd
    /\ Play
    /\ UNCHANGED <<transport, rvars, result>>

\* SIGTERM after the linger of a terminal event, or from an abandonment guard.
Signal ==
    /\ terminal # "None" \/ MayAbandon
    /\ Teardown
    /\ UNCHANGED <<transport, rvars, result>>

EngineExit ==
    /\ Exit
    /\ UNCHANGED <<transport, rvars, result>>

\* Once the FIFO is live the lines of its lagging copy are ignored, so that how
\* far stdout has been read is forgotten.
Latch == fifoLatched' = TRUE /\ stdout' = 0

\* on_line("fifo"): any event, whatever the state machine then does with it,
\* latches the FIFO as the live transport.
FifoLine ==
    /\ Supervised
    /\ fifoOpen
    /\ fifo < Len(emitted)
    /\ fifo' = fifo + 1
    /\ Latch
    /\ Run!ApplyEvent(emitted[fifo + 1])
    /\ UNCHANGED <<gvars, fifoOpen, fifoLost, stdoutLost, result>>

\* An event of an earlier session, from a writer that outlived it.
StaleFifoLine ==
    /\ Supervised
    /\ fifoOpen
    /\ ~fifoLatched
    /\ Latch
    /\ Run!ApplyEvent([event |-> "PlayerDied", session |-> StaleSession,
                       map |-> Rotation[1], stats |-> Nothing])
    /\ UNCHANGED <<gvars, fifo, fifoOpen, fifoLost, stdoutLost, result>>

LoseFifoLine ==
    /\ Supervised
    /\ fifoOpen
    /\ fifoLost < MaxLost
    /\ fifo < Len(emitted)
    /\ fifo' = fifo + 1
    /\ fifoLost' = fifoLost + 1
    /\ UNCHANGED <<gvars, stdout, fifoLatched, fifoOpen, stdoutLost, rvars, result>>

\* An error or EOF on the FIFO: the loop never reads it again.
FifoCloses ==
    /\ Supervised
    /\ fifoOpen
    /\ fifoOpen' = FALSE
    /\ UNCHANGED <<gvars, fifo, stdout, fifoLatched, fifoLost, stdoutLost, rvars, result>>

\* Mutant: copies on stdout go on being applied after the FIFO is live.
StdoutUngated ==
    /\ Supervised
    /\ stdout < Len(emitted)
    /\ stdout' = stdout + 1
    /\ Run!ApplyEvent(emitted[stdout + 1])
    /\ UNCHANGED <<gvars, fifo, fifoLatched, fifoOpen, fifoLost, stdoutLost, result>>

\* on_line("stdout"); after the latch it does nothing.
StdoutLine ==
    /\ Supervised
    /\ ~fifoLatched
    /\ stdout < Len(emitted)
    /\ stdout' = stdout + 1
    /\ Run!ApplyEvent(emitted[stdout + 1])
    /\ UNCHANGED <<gvars, fifo, fifoLatched, fifoOpen, fifoLost, stdoutLost, result>>

\* A killed engine does not flush its block-buffered stdout.
LoseStdoutTail ==
    /\ Supervised
    /\ phase = "Exited"
    /\ ~fifoLatched
    /\ stdout < Len(emitted)
    /\ stdout' = Len(emitted)
    /\ stdoutLost' = TRUE
    /\ UNCHANGED <<gvars, fifo, fifoLatched, fifoOpen, fifoLost, rvars, result>>

\* Once the engine has exited and both streams are drained: RunState::finish.
\* An entry still open is closed as it is, not completed.
Finish ==
    /\ Supervised
    /\ phase = "Exited"
    /\ fifoOpen => fifo = Len(emitted)
    /\ fifoLatched \/ stdout = Len(emitted)
    /\ LET closed == IF open
                     THEN [maps EXCEPT ![Len(maps)].completed = FALSE]
                     ELSE maps
       IN  result' = <<Submitted(IF terminal = "None" THEN "Abandoned" ELSE terminal, closed)>>
    /\ UNCHANGED <<gvars, transport, rvars>>

PipelineInit ==
    /\ Init
    /\ fifo = 0 /\ stdout = 0
    /\ fifoLatched = FALSE /\ fifoOpen = TRUE
    /\ fifoLost = 0 /\ stdoutLost = FALSE
    /\ Run!Init
    /\ result = <<>>

PipelineNext ==
    \/ Engine \/ Signal \/ EngineExit
    \/ FifoLine \/ StaleFifoLine \/ LoseFifoLine \/ FifoCloses
    \/ StdoutLine \/ LoseStdoutTail
    \/ Finish

PipelineSpec == PipelineInit /\ [][PipelineNext]_vars

-----------------------------------------------------------------------------
\* What a log of lines says was played: the best counters of each map, and its
\* completion if the player really took the exit.
LinesOf(log, m) == {log[i] : i \in {j \in DOMAIN log : log[j].map = m}}
Played(log, m) ==
    LET lines == LinesOf(log, m)
        closes == {l \in lines : l.event = "LevelComplete"}
        Best(S) == Max({0} \cup S)
    IN  [map |-> m,
         completed |-> closes # {} /\ m \in exits,
         stats |-> [kills |-> Best({l.stats.kills : l \in lines}),
                    total |-> Monsters,
                    items |-> Best({l.stats.items : l \in lines}),
                    tics |-> Best({l.stats.tics : l \in closes})]]
PlayedScore(log) == RunScore([i \in DOMAIN Rotation |-> Played(log, Rotation[i])])

\* The lines up to the first that ends the run.
RunLog == IF Deciding = {} THEN emitted ELSE SubSeq(emitted, 1, Min(Deciding))
Reason ==
    IF Deciding = {}
    THEN "Abandoned"
    ELSE CASE emitted[Min(Deciding)].event = "PlayerDied" -> "Death"
           [] emitted[Min(Deciding)].event = "RunComplete" -> "Complete"
           [] OTHER -> "Quit"

\* One transport that lost nothing is enough: the FIFO, or stdout while the FIFO
\* never came alive.
Intact == (fifoLost = 0 /\ fifoOpen) \/ (~fifoLatched /\ ~stdoutLost)

\* Lines lost on the FIFO, replayed by the lagging stdout copy, or cut off by a
\* kill can cost a run points but never earn it any: the score recorded so far
\* never exceeds what was played.
NeverOverscored == RunScore(maps) <= PlayedScore(emitted)

\* When one transport is intact, the finished run is exactly the run that was
\* played up to its end, whatever the other transport did and however the two
\* interleaved.
ExactWhenIntact ==
    result # <<>> /\ Intact =>
        /\ result[1].end_reason = Reason
        /\ result[1].run_score = PlayedScore(RunLog)

\* The score the HUD shows at the end of a completed run is the one the run gets:
\* the handler's copy of the formula agrees with protocol::run_score.
HudAgrees ==
    result # <<>> /\ Intact /\ result[1].end_reason = "Complete" =>
        result[1].run_score = bankedScore

\* Whatever was lost, replayed or cut off, the server's validation accepts the run
\* the supervisor makes of it, but for the one shape it refuses on purpose: the
\* supervisor's "own tolerated states" are submittable.
Submittable ==
    result # <<>> =>
        \/ Validate(result[1])
        \/ result[1].end_reason = "Complete" /\ result[1].maps = <<>>

\* A map is completed in the run only if the player took its exit.
CompletedWasExited ==
    \A i \in DOMAIN maps : maps[i].completed => maps[i].map \in exits
=============================================================================
