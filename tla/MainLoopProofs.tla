--------------------------- MODULE MainLoopProofs ---------------------------
(***************************************************************************)
(* Proofs about the supervisor's loop: for any number of runs and faults,  *)
(* no finished run is lost but to a death of the loop that holds it, each  *)
(* goes to the board under what its own player entered first, a session's  *)
(* FIFO is its own, and an engine starts from the settings seeded for it.  *)
(* That the loop comes back to attract is left to the model checker.       *)
(***************************************************************************)
EXTENDS MainLoop, TLAPS

SettingUp == {"Guard", "Seed", "Fifo", "Spawn", "Session"}
Places == {"Open", "Attract", "Initials", "Spool", "Kick", "Pause"} \cup SettingUp

Types ==
    /\ at \in Places
    /\ child \in {"None", "Running", "Closed"}
    /\ run \in Nat /\ made \in Nat /\ fifo \in Nat /\ faults \in 0..MaxFaults
    /\ entered \in [Runs -> Initials \cup {"None"}]
    /\ spooled \in [Runs -> Initials \cup {"None", FALLBACK_INITIALS}]
    /\ engine \in [SetUps -> {"None", "Starting", "Running"}]
    /\ log \in [SetUps -> Nat] /\ opened \in [SetUps -> Nat]

\* The bounds: a run is set up only while there are runs left, and a FIFO is made only
\* for a run or for a fault.
Bounds ==
    /\ run <= MaxRuns
    /\ at \in SettingUp => run < MaxRuns
    /\ at = "Attract" /\ child # "None" /\ payload # "None" => run < MaxRuns
    /\ at \in {"Spawn", "Session"} => made <= run + faults + 1 /\ made > 0
    /\ at \notin {"Spawn", "Session"} => made <= run + faults

\* The run in the loop's hands: the screen that runs keeps what was entered first, and a
\* screen that ended with nothing had nothing entered.
InHand ==
    /\ child # "None" => at \in {"Attract", "Initials"}
    /\ \A r \in Runs : r > run => entered[r] = "None" /\ spooled[r] = "None"
    /\ InMemory => run > 0 /\ spooled[run] = "None"
    /\ at = "Initials" => entered[run] = IF child = "None" THEN "None" ELSE payload
    /\ at = "Spool" =>
           initials = IF entered[run] = "None" THEN FALLBACK_INITIALS ELSE entered[run]

\* An engine logs to no FIFO younger than the one that was last made when it came up.
Logs ==
    /\ \A s \in SetUps : log[s] <= opened[s] /\ opened[s] <= made
    /\ fifo <= made
    /\ at \in {"Spawn", "Session"} => fifo = made

\* The settings from their seeding to the moment the engine has read them.
Settings ==
    at \in {"Fifo", "Spawn"} \/ (at = "Session" /\ engine[made] = "Starting") =>
        ini \in {"Fresh", "Spoiled"}

Accounts == RunsAccounted /\ ClaimedByItsPlayer
IInv == Types /\ Bounds /\ InHand /\ Logs /\ Settings /\ Accounts

LEMMA Numbers ==
    /\ MaxRuns \in Nat /\ MaxFaults \in Nat /\ INITIALS_ATTEMPTS \in Nat
    /\ "None" \notin Initials /\ FALLBACK_INITIALS # "None"
  BY MainLoopAssumption DEF FALLBACK_INITIALS

LEMMA Start == Init => IInv
  <1> SUFFICES ASSUME Init PROVE IInv
    OBVIOUS
  <1> USE Numbers DEF Init
  <1>1. Types
    BY DEF Types, Places
  <1>2. Bounds
    BY DEF Bounds, SettingUp
  <1>3. InHand
    BY DEF InHand, InMemory
  <1>4. Logs
    BY DEF Logs
  <1>5. Settings
    BY DEF Settings
  <1>6. Accounts
    BY DEF Accounts, RunsAccounted, ClaimedByItsPlayer
  <1> QED BY <1>1, <1>2, <1>3, <1>4, <1>5, <1>6 DEF IInv

-----------------------------------------------------------------------------
\* The steps that only move the loop, or only change what the loop does not see.
LEMMA Moves ==
    ASSUME IInv, UNCHANGED <<runtime, engines, run, disk, history, faults>>,
           OpenSpool \/ SpawnAttract \/ StartLine \/ CloseStdout \/ WaitForStart \/ Guard
             \/ Kick \/ PauseEnds \/ IwadChanges \/ AcquireInitials \/ UNCHANGED vars
    PROVE  IInv'
  <1>1. Types /\ Bounds /\ InHand /\ Logs /\ Settings /\ Accounts
    BY DEF IInv
  <1> USE Numbers, <1>1 DEF attract, runtime, engines, disk, history, vars
  <1>2. Types'
    BY DEF Types, Places, SettingUp, OpenSpool, SpawnAttract, StartLine, CloseStdout,
           WaitForStart, Guard, Kick, PauseEnds, IwadChanges, AcquireInitials
  <1>3. Bounds'
    BY DEF Types, Places, Bounds, InHand, SettingUp, Keep, Returned, HandedOff, OpenSpool,
           SpawnAttract, StartLine, CloseStdout, WaitForStart, Guard, Kick, PauseEnds,
           IwadChanges, AcquireInitials
  <1>4. InHand'
    BY DEF Types, InHand, InMemory, Returned, HandedOff, OpenSpool, SpawnAttract, StartLine,
           CloseStdout, WaitForStart, Guard, Kick, PauseEnds, IwadChanges, AcquireInitials
  <1>5. Logs'
    BY DEF Logs, OpenSpool, SpawnAttract, StartLine, CloseStdout, WaitForStart, Guard,
           Kick, PauseEnds, IwadChanges, AcquireInitials
  <1>6. Settings'
    BY DEF Settings, OpenSpool, SpawnAttract, StartLine, CloseStdout, WaitForStart, Guard,
           Kick, PauseEnds, IwadChanges, AcquireInitials
  <1>7. Accounts'
    BY DEF Accounts, RunsAccounted, ClaimedByItsPlayer, InMemory, OpenSpool, SpawnAttract,
           StartLine, CloseStdout, WaitForStart, Guard, Kick, PauseEnds, IwadChanges,
           AcquireInitials
  <1> QED BY <1>2, <1>3, <1>4, <1>5, <1>6, <1>7 DEF IInv

\* The first line a player enters is what the screen keeps.
LEMMA Enters ==
    ASSUME IInv, NEW line \in Initials, InitialsLine(line)
    PROVE  IInv'
  <1>1. Types /\ Bounds /\ InHand /\ Logs /\ Settings /\ Accounts
    BY DEF IInv
  <1> USE Numbers, <1>1 DEF InitialsLine, runtime, engines, disk
  <1>2. run \in Runs
    BY DEF InHand, InMemory, Types, Bounds, Runs
  <1>3. Types'
    BY DEF Types
  <1>4. Bounds'
    BY DEF Types, Bounds, SettingUp
  <1>5. InHand'
    BY <1>2 DEF Types, InHand, InMemory, Keep
  <1>6. Logs' /\ Settings'
    BY DEF Logs, Settings
  <1>7. Accounts'
    BY <1>2 DEF Accounts, RunsAccounted, ClaimedByItsPlayer, InMemory, InHand, Types
  <1> QED BY <1>3, <1>4, <1>5, <1>6, <1>7 DEF IInv

\* The set-up of a session: its directory, its FIFO, its engine.
LEMMA SetsUp ==
    ASSUME IInv, Seed \/ MakeFifo \/ SpawnEngine \/ SpawnFails
    PROVE  IInv'
  <1>1. Types /\ Bounds /\ InHand /\ Logs /\ Settings /\ Accounts
    BY DEF IInv
  <1> USE Numbers, <1>1
      DEF attract, runtime, engines, disk, history, Seed, MakeFifo, SpawnEngine, SpawnFails
  <1>2. at \in {"Spawn", "Session"} => made \in SetUps
    BY DEF Types, Bounds, SetUps, SettingUp
  <1>3. Types'
    BY DEF Types, Places, SettingUp
  <1>4. Bounds'
    BY DEF Types, Bounds, SettingUp
  <1>5. InHand'
    BY DEF Types, InHand, InMemory
  <1>6. Logs'
    BY DEF Types, Logs
  <1>7. Settings'
    BY DEF Settings
  <1>8. Accounts'
    BY DEF Accounts, RunsAccounted, ClaimedByItsPlayer, InMemory
  <1> QED BY <1>3, <1>4, <1>5, <1>6, <1>7, <1>8 DEF IInv

\* A session ends with a new run in hand, of which nothing is known yet.
LEMMA Ends == IInv /\ RunEnds => IInv'
  <1> SUFFICES ASSUME IInv, RunEnds PROVE IInv'
    OBVIOUS
  <1>1. Types /\ Bounds /\ InHand /\ Logs /\ Settings /\ Accounts
    BY DEF IInv
  <1> USE Numbers, <1>1 DEF engines, disk, history, RunEnds
  <1>2. run < MaxRuns /\ run' = run + 1 /\ run' \in Runs /\ ~InMemory
    BY DEF Types, Bounds, SettingUp, Runs, InMemory
  <1>3. Types'
    BY DEF Types, Places
  <1>4. Bounds'
    BY <1>2 DEF Types, Bounds, SettingUp
  <1>5. InHand'
    BY <1>2 DEF Types, InHand, InMemory
  <1>6. Logs' /\ Settings'
    BY DEF Types, Logs, Settings
  <1>7. Accounts'
    BY <1>2 DEF Accounts, RunsAccounted, ClaimedByItsPlayer, InMemory, Types
  <1> QED BY <1>3, <1>4, <1>5, <1>6, <1>7 DEF IInv

\* An engine comes up or exits, that of the session or one left behind.
LEMMA Engines ==
    ASSUME IInv, NEW s \in SetUps, EngineStarts(s) \/ EngineExits(s)
    PROVE  IInv'
  <1>1. Types /\ Bounds /\ InHand /\ Logs /\ Settings /\ Accounts
    BY DEF IInv
  <1> USE Numbers, <1>1 DEF attract, runtime, disk, history, EngineStarts, EngineExits
  <1>2. Types'
    BY DEF Types
  <1>3. Bounds'
    BY DEF Bounds
  <1>4. InHand'
    BY DEF InHand, InMemory
  <1>5. Logs'
    BY DEF Types, Logs
  <1>6. Settings'
    <2>1. at = "Session" => made \in SetUps
      BY DEF Types, Bounds, SetUps, SettingUp
    <2>2. CASE EngineStarts(s)
      BY <2>1, <2>2 DEF Settings, Types
    <2>3. CASE EngineExits(s)
      BY <2>1, <2>3 DEF Settings, Types, LeftBehind, Seeded
    <2> QED BY <2>2, <2>3
  <1>7. Accounts'
    BY DEF Accounts, RunsAccounted, ClaimedByItsPlayer, InMemory
  <1> QED BY <1>2, <1>3, <1>4, <1>5, <1>6, <1>7 DEF IInv

\* The run in hand goes to disk or into the journal.
LEMMA Spools == IInv /\ Spool => IInv'
  <1> SUFFICES ASSUME IInv, Spool PROVE IInv'
    OBVIOUS
  <1>1. Types /\ Bounds /\ InHand /\ Logs /\ Settings /\ Accounts
    BY DEF IInv
  <1> USE Numbers, <1>1 DEF attract, runtime, engines, history, Spool
  <1>2. run \in Runs /\ run > 0 /\ run \in Nat
    BY DEF InHand, InMemory, Types, Bounds, Runs
  <1>3. /\ initials = IF entered[run] = "None" THEN FALLBACK_INITIALS ELSE entered[run]
        /\ entered[run] \in Initials \cup {"None"}
    BY <1>2 DEF InHand, Types
  <1>4. initials # "None" /\ initials \in Initials \cup {FALLBACK_INITIALS}
    BY <1>3
  <1>5. Types'
    BY <1>4 DEF Types, Places
  <1>6. Bounds'
    BY DEF Bounds, SettingUp
  <1>7. InHand'
    BY <1>2 DEF Types, InHand, InMemory
  <1>8. Logs' /\ Settings'
    BY DEF Logs, Settings
  <1>9. RunsAccounted'
    BY <1>2, <1>4 DEF Accounts, RunsAccounted, InMemory, Types, Runs
  <1>10. ClaimedByItsPlayer'
    BY <1>2, <1>3 DEF Accounts, ClaimedByItsPlayer, Types
  <1> QED BY <1>5, <1>6, <1>7, <1>8, <1>9, <1>10 DEF IInv, Accounts

\* The loop dies, of a panic or with the whole supervisor, and the run it holds with it.
LEMMA Dies == IInv /\ (Panic \/ Crash) => IInv'
  <1> SUFFICES ASSUME IInv, Panic \/ Crash PROVE IInv'
    OBVIOUS
  <1>1. Types /\ Bounds /\ InHand /\ Logs /\ Settings /\ Accounts
    BY DEF IInv
  <1> USE Numbers, <1>1 DEF runtime, engines, disk, Panic, Crash, Forget
  <1>2. Types'
    BY DEF Types, Places
  <1>3. Bounds'
    BY DEF Types, Bounds, SettingUp
  <1>4. InHand'
    BY DEF InHand, InMemory
  <1>5. Logs'
    BY DEF Types, Logs
  <1>6. Settings'
    BY DEF Settings
  <1>7. Accounts'
    BY DEF Accounts, RunsAccounted, ClaimedByItsPlayer, InMemory
  <1> QED BY <1>2, <1>3, <1>4, <1>5, <1>6, <1>7 DEF IInv

LEMMA Step == IInv /\ [Next]_vars => IInv'
  <1> SUFFICES ASSUME IInv, [Next]_vars PROVE IInv'
    OBVIOUS
  <1>1. CASE \/ OpenSpool \/ SpawnAttract \/ StartLine \/ CloseStdout \/ WaitForStart
             \/ Guard \/ Kick \/ PauseEnds \/ IwadChanges \/ AcquireInitials
             \/ UNCHANGED vars
    <2>1. UNCHANGED <<runtime, engines, run, disk, history, faults>>
      BY <1>1 DEF OpenSpool, SpawnAttract, StartLine, CloseStdout, WaitForStart, Guard,
                  Kick, PauseEnds, IwadChanges, AcquireInitials, vars
    <2> QED BY <1>1, <2>1, Moves
  <1>2. ASSUME NEW line \in Initials, InitialsLine(line) PROVE IInv'
    BY <1>2, Enters
  <1>3. CASE Seed \/ MakeFifo \/ SpawnEngine \/ SpawnFails
    BY <1>3, SetsUp
  <1>4. CASE RunEnds
    BY <1>4, Ends
  <1>5. ASSUME NEW s \in SetUps, EngineStarts(s) \/ EngineExits(s) PROVE IInv'
    BY <1>5, Engines
  <1>6. CASE Spool
    BY <1>6, Spools
  <1>7. CASE Panic \/ Crash
    BY <1>7, Dies
  <1> QED BY <1>1, <1>2, <1>3, <1>4, <1>5, <1>6, <1>7 DEF Next, Supervisor

THEOREM Inductive == Spec => []IInv
  BY Start, Step, PTL DEF Spec

\* Every finished run is on disk, in the journal or in the loop's hands, unless the loop
\* died while it held it (RunsAccounted), for any number of runs and faults.
THEOREM RunsAccountedSafe == Spec => []RunsAccounted
  <1>1. IInv => RunsAccounted
    BY DEF IInv, Accounts
  <1> QED BY <1>1, Inductive, PTL

\* A spooled run carries what its own player entered first, or the fallback if nothing
\* was entered (ClaimedByItsPlayer).
THEOREM ClaimedSafe == Spec => []ClaimedByItsPlayer
  <1>1. IInv => ClaimedByItsPlayer
    BY DEF IInv, Accounts
  <1> QED BY <1>1, Inductive, PTL

\* No engine of an earlier iteration whose log was open by then writes to the FIFO of a
\* session (OwnFifo).
THEOREM OwnFifoSafe == Spec => []OwnFifo
  <1>1. IInv => OwnFifo
    <2> SUFFICES ASSUME IInv, at = "Session",
                        NEW s \in SetUps \ {made}, log[s] = fifo, log[s] # 0
                 PROVE  opened[s] = made
      BY DEF OwnFifo
    <2>1. fifo = made /\ log[s] <= opened[s] /\ opened[s] <= made
      BY DEF IInv, Logs
    <2>2. made \in Nat /\ log[s] \in Nat /\ opened[s] \in Nat
      BY DEF IInv, Types
    <2> QED BY <2>1, <2>2
  <1> QED BY <1>1, Inductive, PTL

\* An engine reads the settings seeded for it, or those an engine left behind saved over
\* them since (StartsClean).
THEOREM StartsCleanSafe == Spec => StartsClean
  <1>1. IInv /\ [Next]_vars =>
            [at = "Session" /\ engine[made] = "Starting" /\ engine'[made] = "Running"
              => ini \in {"Fresh", "Spoiled"}]_vars
    BY DEF IInv, Settings
  <1> QED BY <1>1, Inductive, PTL DEF Spec, StartsClean
=============================================================================
