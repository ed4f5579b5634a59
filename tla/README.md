# A verification project for doom-cade

doom-cade is an arcade cabinet around GZDoom: a supervisor runs an attract
screen, then a game, then an initials screen, spools the scored run and submits
it to a leaderboard, whose boards the attract screen and a web page show. This
directory holds TLA+ models of that software, TLC configurations that check them
on small instances, and proofs that hold for all instances. The source in `src/`
is the reference: every definition was translated from it, and `PROJECT.json`
("map") says from which lines.

Run `tlc -config X.cfg M` for the pairs in "Runs", `tlapm M.tla` for the modules
named `*Proofs`.

## The system

| part | state it keeps | operations | what is hard | what makes it correct |
|---|---|---|---|---|
| engine handler (`pk3/zscript/arcade/handler.zs`, `MAPINFO.txt`) | run started, player dead, hold of Start, banked HUD score | engine hooks: map loaded/unloaded, tick, deaths, keys; each may print `ARCADE_EVT` lines | the engine also unloads maps after a death and on exit; the order of hooks | lines describe what was played; the HUD score is the supervisor's score |
| transports (`session.rs`, `protocol/event.rs`) | FIFO and stdout, a capped line reader each, `fifo_latched`, `fifo_open` | deliver each line twice, one copy late | reads that cut lines anywhere, lines without end, loss, replay, two readers interleaved, unflushed tail at a kill | lines come whole or not at all; nothing counted twice, nothing lost while one transport is whole |
| run state machine (`run_state.rs`) | list of maps, `open`, `run_started`, terminal reason | `apply(event)`, `finish` | lost, duplicated, delayed and foreign events | each map once, completed once, closed entries stand |
| scoring (`protocol/scoring.rs`) | none | `map_score`, `run_score` | saturation, floors | the two implementations agree |
| session timers (`session.rs`, `idle.rs`, `config.rs`) | SIGTERM, SIGKILL, walk-away, stall and watchdog deadlines; the idle tracker's anchor | lines arm them, `select` fires them | several guards at once; a player who bobs; an engine that ignores SIGTERM; mistyped windows | a decided run ends in bounded time; an active player is left alone, an absent one noticed |
| main loop (`main_loop.rs`, `attract.rs`, set-up in `session.rs`) | step of the iteration, the finished run in memory, session directory and FIFO | attract, guard, set-up, session, initials, spool, kick | broken attract binary, panics, crashes, engines left behind | no run dropped, each claimed by its player, own FIFO, fresh settings, always back to attract |
| attract app (`crates/attract`) | `AttractState`, previous fire button, `BoardsCache`, a fetcher thread and its channel | one frame: inputs, then a tick, then maybe the handoff line; apply what was fetched | inputs and a timeout in one frame, late frames, held buttons, old answers | one justified handoff; the reel goes on; boards never go back |
| spool (`spool.rs`) | SQLite rows with `submitted_at`, `failed_at`, the schema | open, insert, pending, mark | an old schema, crash between steps, failing statements | a run stays until settled |
| submitter (`submitter.rs`) | the permit of a `Notify`, a pass with its token, backoff | post, classify, record | retries, late answers, lost kicks, a rotated token | at most once on the board, in the end settled |
| leaderboard (`crates/leaderboard`) | table `runs`, sliding windows | seed, `POST /v1/runs`, `GET` of boards and page | handlers side by side, hang-ups, limits, a crash while seeding, boards read one by one | a session is stored once; the limiter is exact; boards tell the truth |
| kiosk, Nix, HUD drawing | - | start-up | - | not modelled, see below |

Interactions: handler -> (FIFO, stdout) -> line readers -> session driver -> run
state machine -> finished run -> main loop (+ initials from the attract app's
stdout) -> spool -> submitter -> HTTP -> leaderboard -> boards -> attract app and
web page. The main loop starts and kills the attract app and the engine; the
submitter is its own task, woken by a kick.

## Modules

| module | models | used by |
|---|---|---|
| `Scoring` | the formula, saturating at `MaxInt` | `Telemetry`, `Submission` |
| `RunLedger` | abstract: a run starts each map once, revises only the map in progress, completes a map once | refined by `RunState` |
| `RunState` | `RunState::apply`, one action per event and drop rule | `RunPipeline`, `RunStateProofs` |
| `Telemetry` | the event handler and the engine's order of hooks | `RunPipeline` |
| `Submission` | what `finish` submits and what `validate` accepts | `RunPipeline` |
| `RunPipeline` | engine, both transports, the latch, `RunState` (INSTANCE), the finished run | `RunPipelineProofs` |
| `EventStream` | `CappedLines`, `drain_lines`, which lines are events | `EventStreamProofs` |
| `IdleTracker` | the anchor, what differs from it, `observe`, `deadline` | `Session` |
| `Config` | the lookup of the environment: what a session arms | `Session` |
| `Session` | `run_session` and `EventPump`: timers, walk-away and shutdown | `SessionProofs` |
| `MainLoop` | `run_forever`, `iteration`, attract supervision, the set-up of a session | `MainLoopProofs` |
| `AttractUI` | the attract app frame by frame | |
| `ScoreBank` | abstract: a spooled run appears on the board at most once and is called submitted only then | refined by `Delivery` |
| `Delivery` | spool, submitter, request, server | `DeliveryProofs` |
| `Leaderboard` | `rate_check` and `insert_run` under concurrent handlers | `LeaderboardProofs` |
| `Boards` | seeding, seasons, boards, their readers: attract app, page, visitor | `BoardsProofs` |
| `RunStateProofs`, `RunPipelineProofs`, `EventStreamProofs`, `SessionProofs`, `MainLoopProofs`, `DeliveryProofs`, `LeaderboardProofs`, `BoardsProofs` | the theorems, see "Proofs" | |

`MC*` modules only give values to constants. An operator commented "Mutant" is
a plausible bug in the definition below it; it is not part of any specification
and shows that the property it is listed with can fail.

### How the models correspond to the code

`RunState`: `maps`, `open`, `run_started`, `terminal` are the fields of the
struct and `outcome` is what `apply` returned last. The counters of an event are
one record: secrets move with kills, and `total` stands for the map totals.
Every event of the alphabet may arrive at any time; nothing about the engine is
assumed, so what is proved holds for whatever the transports do.

`Telemetry` and `RunPipeline`: `emitted` is the list of lines of the session.
Each transport is a position in that list; the supervisor reads either whenever
it has something. A FIFO line may be lost, the FIFO may close, stdout can lose
only its tail, when the engine dies. `Finish` waits for the same things as the code:
the exit and both streams drained (or closed). Latching is the code's: a line of
any session on the FIFO latches it (`StaleFifoLine`).

`EventStream`: a stream is a list of four symbols (a whole event, other text, CR,
LF) of one byte each. `FillBuf` reads as much as happens to be there, and every
other action is one round of the loop in `next_line`; between any two the future
may be dropped by `select!`, which is why only the fields `buf` and `discarding`
are state. The FIFO has no end (the supervisor holds it open for writing too), so
that only `Quiet` ends its drain.

`Session`, `IdleTracker`, `Config`: a timer is the time left, `Off` when not
armed. Timers and lines that are ready at once are taken in any order, as
`select!` does. Time does not pass a due timer: deadlines are exact up to the
handling of what is already ready. What `apply` decides is reduced to "decided or
not". A heartbeat carries a report (two coordinates and the counters), which goes
through the tracker as in the code; as the tracker reads no clock, `Session` ages
its anchor. The two windows and the presence of a pk3 come out of
`Config!FromLookup`, of an environment with unset, empty, mistyped and good values.
`last`, `inactive` and `ended` are history, written for the properties only.

`MainLoop`: one action per numbered step of `iteration` and of the set-up of a
session: purge and seed of the directory, FIFO, spawn. A panic ends the
iteration's task but not the reaper's, so the engine may stay, go on writing to
the FIFO it opened, and save its settings when it exits.

`AttractUI`: one action per frame. Clock and wheel are small; an age stands for
`now - since`. Inputs are in the code's order: keys, then the edge of the fire
button, then the tick.

`Delivery`: rows of the spool, the permit, the pass and the answer in flight are
variables of their own, so that a crash or a failing statement can fall between
any two of them. A client that times out leaves an orphan that the server may
handle at any later time. The spool may be one of an older version, without
`failed_at`. The token is rotated on one side and then on the other, and a pass
goes on with the one it read; a clock may be wrong, or another server answer.

`Leaderboard`: a handler is between two `await`s, or between its reading of the
clock and the mutex. A transaction takes the write lock with its INSERT; the rows
of the maps go in with the commit, as a failure between them drops the whole
transaction. A client that hangs up drops the handler where it waits, and sqlx may
or may not have sent the commit by then.

`Boards`: the rows in id order; a request is asked, reads the season, then one
board after the other, with runs arriving in between. `Board` is the SELECT with
its filter, its ORDER BY and its LIMIT: the run of rank n is the one with n - 1
before it. The attract app takes results from a
channel in its frames, the page shows each when it comes.

## Runs

| run | module, cfg | bounds | shows |
|---|---|---|---|
| run_state | `MCRunState`, `RunState.cfg` | 3 maps, own and stale session, 2 readings | `TypeOK`, `OpenEntry`, `CompletedOnce`, `RepeatOnlyAtDeath`, `ClosedStands`, implements `RunLedger` |
| run_pipeline | `MCRunPipeline`, `RunPipeline.cfg` | 2 maps, 1 monster, 2 tics a map, 1 lost FIFO line, 1 restart, 1 line after the end | `NeverOverscored`, `ExactWhenIntact`, `HudAgrees`, `Submittable` |
| run_abandoned | `MCRunPipeline`, `RunAbandoned.cfg` | the same, and a guard may end the run | finding: the teardown line completes a map nobody exited |
| event_stream | `EventStream`, `EventStream.cfg` | every stream of up to 6 symbols, in every cut; cap and buffer of 2 | `TypeOK`, `LinesWhole`, `EventsExact`, `Drained` |
| session | `MCSession`, `Session.cfg` | windows of 3, 4 and 5 ticks, 4 reports, 12 environments, 2 events besides heartbeats, 1 buffered line | `GuardsDisarmed`, `KillIsBounded`, `DecisionLingers`, `ActiveIsSafe`, `ShutsDown`, `NobodyPlays` |
| main_loop | `MainLoop`, `MainLoop.cfg` | 2 runs, 2 faults (panic, crash, failing spawn), 3 attempts | `RunsAccounted`, `ClaimedByItsPlayer`, `OwnFifo`, `StartsClean`, `LoopsForever` |
| main_loop_hostage | `MainLoop`, `MainLoopHostage.cfg` | the same, nothing known of the attract binary | finding: an initials screen that hangs keeps the run |
| attract_ui | `MCAttractUI`, `AttractUI.cfg` | 3 characters, 3 screens, 2 keys a frame, frames up to 4 ticks late | `HandoffEarned`, `HandsOff`, `ReelCycles` |
| delivery | `Delivery`, `Delivery.cfg` | one valid and one invalid run; one crash, failing statement, upset and orphan each | `QuarantineJustified`, `Delivered`, implements `ScoreBank` |
| delivery_quarantine | `Delivery`, `DeliveryQuarantine.cfg` | the same | finding: a 401 or a clock error quarantines a valid run for good |
| leaderboard | `MCLeaderboard`, `Leaderboard.cfg` | 2 handlers, 4 posts, 3 cabinets, limits 2, 3 and 2, a window of 3 of 4 ticks | `RateBounded`, `RefusedJustly`, `FirstWriteWins`, `AnswersTruthful` |
| boards | `MCBoards`, `Boards.cfg` | 2 fake runs, 2 arrivals, 3 boards in "all" and all 5 among 8 queries, 1 trouble (crash, lost answer, restart), 2 results in the channel | `BoardsTruthful`, `SeasonReal`, `CacheAdvances`, `ShowsLatest` |

Why the bounds are enough. Three maps give the run state machine an open map, a
closed one and one never seen. Two maps give the pipeline a map change and
an end. Six symbols hold an oversized line, what follows it and an unterminated
rest; with a cap and a buffer of two, a line crosses the cap within a read and
between two. The windows of `Session` are in the order of the code's and so close
that each guard can fire while another shuts the run down; `KillBound` is tight
(one tick less is violated). Its reports differ by one unit, by the epsilon, by
more than both, and in the counters only. In `Delivery` one fault of each kind can
meet every other at every step, and the two runs are the two kinds of payload
there are. Two runs and two faults in `MainLoop` leave an engine behind that meets
the session of the next run. The limits of `Leaderboard` are the smallest for which
each is reached without the others: a cabinet can be limited while the total is
not, and the cap on keys with posts left. The runs of `Boards` tie on some values
and differ on others, and their season is not the fake runs'. The wheel's third
character tells up from down, and frames can be later than either timeout. What is
proved (below) needs none of these bounds.

`CHECK_DEADLOCK FALSE` is set where a behaviour really ends: the engine has
exited and the run is finished (`RunPipeline`, `Session`), the stream is drained
(`EventStream`), the app has exited (`AttractUI`), the posts of the bound are used
up (`Leaderboard`).

A type invariant is checked where it says more than types, or where it is proved:
`RunState`, `EventStream` (where it bounds the memory a line may take),
`Leaderboard`. In the other modules a value outside its type breaks one of the
listed properties or stops TLC.

## Fairness

- `Session`: time passes; a `select!` branch that stays ready is taken some day
  (tokio's `select!` picks at random); a SIGKILL ends a process. Nothing is
  assumed of SIGTERM or of the engine.
- `EventStream`: the reader reads what is there, and gives up a stream that stays
  quiet, once the engine is gone.
- `Delivery`: the submitter and the kick go on. For the server, strong fairness
  of `Settles`: asked again and again it some day gives an answer that settles
  the run. It need not ever do so for a given request.
- `MainLoop`: the loop goes on, a session ends (which `ShutsDown` and
  `NobodyPlays` show of `Session`, but for a player who never stops), and the
  initials screen exits (`HandsOff` of `AttractUI`). The run main_loop_hostage
  drops the last.
- `AttractUI`: frames go on and the clock with them; a repaint is requested
  after each frame.
- `Boards`: systemd starts the server again, a request comes to an end (there are
  timeouts on both sides), frames are drawn and timers tick.
- `RunState`, `RunPipeline` and `Leaderboard` have safety properties only.

## Proofs

Each proof module extends the module it is about and needs only the named
assumptions on its constants there. All are of one form: an inductive invariant
(`IInv`, and where a second one rests on it, a named one), stronger than what is to
be shown, with one lemma per action or per group of actions that treats it alike,
and the theorems as its consequences. TLC checked the invariants on the small
instances first, where it can evaluate them (`Banked` says that there is a function).

| module | theorems | from |
|---|---|---|
| `RunStateProofs` | `TypeCorrect`, `OpenEntrySafe`, `CompletedOnceSafe`, `RepeatOnlyAtDeathSafe`, `ClosedStandsSafe`, `ImplementsLedger` | `RunStateAssumption` |
| `RunPipelineProofs` | `OrderlyRun`, `NeverOverscoredSafe`, `CompletedWasExitedSafe`, `SubmittableSafe`, `StoryTold`, `FaithfulFold`, `FiledAsItStands`, `ExactWhenIntactSafe`, `HudAccount`, `HudAgreesSafe` | `ScoringAssumption`, `TelemetryAssumption`, `SubmissionAssumption`, `PipelineAssumption` |
| `EventStreamProofs` | `MemoryBounded`, `LinesWholeSafe`, `EventsExactSafe` | `EventStreamAssumption` |
| `SessionProofs` | `GuardsDisarmedSafe`, `KillIsBoundedSafe`, `DecisionLingersSafe`, `ActiveIsSafeSafe` | `SessionAssumption`, `ConfigAssumption` |
| `MainLoopProofs` | `RunsAccountedSafe`, `ClaimedSafe`, `OwnFifoSafe`, `StartsCleanSafe` | `MainLoopAssumption` |
| `DeliveryProofs` | `QuarantineJustifiedSafe`, `ImplementsBank` | nothing |
| `LeaderboardProofs` | `LockDiscipline`, `AnswersTruthfulSafe`, `FirstWriteWinsSafe`, `LimiterAccounts`, `TypeCorrect`, `RateBoundedSafe`, `RefusedJustlySafe` | `LeaderboardAssumption` |
| `BoardsProofs` | `FakeRunsFirst`, `SeasonRealSafe`, `BoardsTruthfulSafe`, `CacheAdvancesSafe` | `BoardsAssumption` |

`RunStateProofs`. None of the invariants is inductive alone; the inductive one is
their conjunction. `CompletedOnce` needs to know that the map a `level_complete`
closes is recorded nowhere else, which is the last part of `OpenEntry`;
`OpenEntry` is kept by the steps that open a map because they look at the
recorded ones first; and `player_died`, which does not look, ends the run, so
that no later step builds on the entry it may repeat. Every step has one of three
shapes on `maps`: unchanged, the last entry rewritten, or one appended, and the
same shapes are the steps of the ledger, which gives the refinement.

`RunPipelineProofs`. `NeverOverscored` compares two sums, over the recorded entries
and over the maps of the rotation, and says nothing of where the transports stand.
The invariant has three parts. `EngineInv`: the engine's lines come in the order of
the rotation, each map announced by its LevelEnter and closed once. `RunInv`: the
entries are of different maps, in that order, and what an entry holds is backed
by lines of its map (`Sourced`), its completion by an exit (`CompletedWasExited`).
`Placed`: what a transport has yet to deliver either is of a recorded map or lies
beyond all of them, so that a late copy finds its map closed or goes on with it,
whatever was lost; without it a replayed `level_enter` could open a map twice.
Each entry is then worth no more than what was played of its map, and a lemma on
saturating sums carries this over to the whole, entries and maps being in the same
order. It holds while no guard ends a run (`~MayAbandon`): with one, the first
finding is the counterexample. `Submittable` needs no such condition: the
supervisor's saturating sums are the server's exact ones because no column can
pass `MaxInt`.

`ExactWhenIntact` and `HudAgrees` need more than bounds: the list must *be* what one
log says, although two transports bring it, one late and one perhaps from its start
again. The argument has five invariants, each resting on the ones before it.

- `Story` is about the log alone: until the death every map behind the player is
  completed (`Walked`); the counters of a map's heartbeats only grow, up to the line
  that closes it (`Counting`); lines of other kinds carry none (`Zeros`); a completed
  run is the last thing said (`EndsLast`). It is proved over five ways in which any
  step of the engine adds to the log (`Tells`).
- `Faithful` is about the copy that counts (`Read`): the FIFO's once the latch is set
  or stdout has lost its tail, stdout's otherwise. As long as none of it was lost,
  before the end the list holds every completion among the lines read of it, and the
  latest heartbeat of the map in progress or a later one that the other copy brought
  (`Caught`); after the end it is exact for the first line that ends the run
  (`Settled`). The step that is easy to miss is the latch itself: the copy that
  counts changes from stdout's to the FIFO's, which is read from its start, and what
  was caught up to a later line is caught up to an earlier one (`Rewind`). A line of
  the other copy, read ahead of this one, cannot spoil the list: a map it
  completes is not opened again, and a map it opens is the next one.
- `Filed`: the run that is submitted is that list, with the engine gone and the copy
  read to its end, and nothing moves afterwards. `ExactWhenIntactSafe` follows: a
  settled list and what was played of each map are worth the same entry by entry
  (`SettledEntry`), and the saturating sums, of a list and of a rotation that may be
  longer, are then equal (`ZeroTail`). It needs `~MayAbandon`, as `NeverOverscored`
  does and for the same reason.
- `Banked`: the HUD's sum is, over the rotation, the worth of each map's
  `level_complete`, for a map is completed once and banked in the same step; and
  `Crowned`: a run is complete only after its last map. With `Settled`, entry by
  entry, `HudAgreesSafe`. Its hypothesis `bankedScore <= MaxInt` is where the two
  formulas part: `run_score` saturates there and the HUD adds on. The handler's own
  `int` has 32 bits and the model's number has no width, so of the code the theorem
  speaks for sums below 2^31, which is some 200 million kills.

`EventStreamProofs`. Between two reads the reader holds at most the cap, and what it
appends on one LF came out of one buffer; that needs the unread part to be what the
BufReader holds (`Progress`). `InPlace` ties what was passed on to the positions
of the LFs read so far: the lines passed on are, in order, those of the pieces
between two LFs that fit under the cap, and `buf` is what has come of the piece
being read, unless it is being discarded. `LinesWhole` and `EventsExact` are this at
a LF and at the end.

`SessionProofs`. Two facts carry it. `KillComes`: once a run is over a SIGKILL is
pending. A line that decides the run feeds the watchdog too, and
`Linger + GRACE < WATCHDOG`, so that the watchdog cannot come first; a run that a
guard abandoned may meet the watchdog once, within its first grace, and a
deciding line after that. `TimersWaited`: whatever a timer has counted down, the
player has been inactive for; the one line that makes the player active resets
the watchdog and the stall guard, and, as it differs from every anchor near the
last report, the anchor. The last step needs arithmetic on the epsilon: a report
three units from the last one is two from any anchor within one of it.

`MainLoopProofs`. What the screen keeps is what was entered first (`InHand`); an
engine's log is never younger than the FIFO that was last made when it came up
(`Logs`), so that whoever writes to a session's FIFO came up after it was made;
settings are fresh from the seeding to the moment the engine reads them, unless
an engine left behind exits in between (`Settings`). `Bounds` counts FIFOs
against runs and faults.

`DeliveryProofs`. A run is spooled before it is posted and stored before it is
called submitted, on either side of a crash (`OnDisk`); a pass has each run at
most once, and none that is settled (`PassOpen`); a success that is on its way is
true (`ReplyTrue`). With that every step is a step of `ScoreBank` or none.

`LeaderboardProofs`. The write lock: at most one handler is between INSERT and
COMMIT, what it inserts is new, and a conflict is about a committed row. The
limiter (`Limiter`): each entry of a log is the stamp of one admitted post of its
cabinet, no two of the same post, and every post of the last window, less
`MaxDelay`, has its entry. Handlers overtake each other between the clock and the
mutex, so that a log is in no order and what is dropped as expired goes by a stamp
up to `MaxDelay` old. A refusal is then about a log that is full
of true posts, or about the cap on keys.

`BoardsProofs`. The fake runs are all in before the server listens, so that the
last row is a player's as soon as one has come; seeding again adds none.
`AllSound`: each board read so far for a request is the truth of the first `at`
rows. Rows are only ever appended and a session is stored once (`Unique`), so
that a board that was true of these rows stays so. That a board is true when it
is read is a fact about ranking by counting: `Less` orders the vectors that
`board_ranking` compares, the `id` in the last place makes them all different, and
in an order on a finite set every rank below its size is taken by one row.
`Chain`: all the attract app shows, and all that is on its way to it, was complete
before the answer to the request under way was begun. It has one such request
(`Slots`); the web page has two, and there the same statement is false.

Sums and folds are recursive functions, and what they compute for every argument is
proved by the least counterexample (`NatLessThanWellFounded` and `WFMin` of the
library, cited for a set): the library's induction theorems take an operator and
cannot be cited.

Only model-checked: all liveness (`ShutsDown`, `NobodyPlays`, `LoopsForever`,
`Delivered`, `HandsOff`, `ReelCycles`, `ShowsLatest`, `Drained`: the prover has no
ENABLED), and the attract app (`HandoffEarned`), whose frames TLC
covers in full up to two keys.

## Findings

Three places where the code does something a comment or document of the
repository says it does not; `PROJECT.json` quotes both sides and names the run
whose counterexample shows it.

1. `session.rs:423`: after `abandon_now` the lines of the dying engine are still
   applied, among them the `level_complete` of a map unloaded by the teardown.
   That GZDoom emits it on SIGTERM is what `pk3/NOTES.md` expects; no test shows it.
2. `submitter.rs:205`: a 401, or a 422 for a clock, is taken for a verdict on
   the payload.
3. `attract.rs:152`: the retries of the initials screen count exits, and
   nothing bounds one that hangs with its stdout open.

Met on the way and not findings:

- `run_state.rs:314`: `player_died` on a closed map records it a second time. The
  engine of `Telemetry` never produces that order; `RepeatOnlyAtDeath` says that
  nothing else does, and that the entry is the last.
- `spool.rs:155`: "oldest first" sorts the text of a time stamp before `rowid`; after
  a clock was set back the later run is posted first. Nothing depends on it.
- `session.rs:420-422` reads as if nothing else fires after `abandon_now`; the
  watchdog may, and then sends another SIGTERM and sets a deadline again.
  `KillIsBounded` shows that this is harmless.
- The rate limiter reads the clock before it locks, so a window is promised only
  up to that delay (`MaxDelay`); `RateBounded` and `RefusedJustly` say by how much.
- `docs/SPEC.md:244` has the server clamp implausible values; `validate` rejects
  them, which `Submittable` is about.
- A restart of the server with a larger `--seed` puts new fake runs behind the
  players', and shows their season until the next run; `SeasonReal` has the flag
  fixed, as it is in a unit file.

## Not modelled

- Parsing and formatting field by field: JSON, time stamps, initials lines, HTML.
  Which lines are events is `EventStream`; what an event's fields may be is the
  alphabet of `RunState`.
- `validate` on initials, string lengths and time stamps: the cabinet checks or
  mints these itself (`Delivery` has a clock that is wrong). Its check of items
  against the map's total: the two always come from the same event, whatever is
  lost, while a death brings kills and secrets without their totals.
- The time a loop waits: that the IWAD guard does not spin rests on its sleep
  (`LoopsForever` says that the loop comes back). An engine left behind that saves
  its settings over the seeded ones during a set-up (`Spoiled` in `MainLoop`) is
  what the code lets happen; `StartsClean` exempts it.
- The 32 bits of the HUD's sum: see `HudAgreesSafe` under "Proofs".
- Drawing, fonts, the fire, CSS; the browser beyond the page's timer and its pip.
- Paths, URLs and identities of the configuration: they are read once. A window
  so large that a deadline overflows the clock is not modelled; the code panics.
- Nix, kiosk, WAD and Wi-Fi import; that systemd restarts what died is an action.
- Changes of a map's totals while it is played: a `player_died` with more kills
  than the last heartbeat's total would be refused by the server. Whether the
  engine adds to `total_monsters` is not in this repository.
- `FASTEST CLEAR` ranks by total tics: lost lines can lower them. The code
  accepts such runs on purpose.

What could come next: `MainLoop` with `Session` and `AttractUI` as implementations
of the steps it assumes, and `Leaderboard` as one of the server in `Delivery`.
