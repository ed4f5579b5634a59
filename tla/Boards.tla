------------------------------- MODULE Boards -------------------------------
(***************************************************************************)
(* The boards: how the server comes up (crates/leaderboard/src/main.rs,    *)
(* seed.rs), how it ranks the stored runs and answers GET /, /v1/boards    *)
(* and /v1/boards/{category} (db.rs, app.rs), and the three kinds of       *)
(* client: the attract app with its fetcher thread (crates/attract), the   *)
(* web page with its timer (html.rs), and a visitor with any query.        *)
(*                                                                         *)
(* An answer is put together from separate statements, one for the season  *)
(* and one per board, with runs arriving in between.  How a run is stored  *)
(* is module Leaderboard; here a run arrives and is a row.                 *)
(***************************************************************************)
EXTENDS Integers, Sequences, FiniteSets, SequencesExt, FiniteSetsExt

CONSTANTS
    Seeds,                  \* fake_runs(n), a sequence
    Arrivals,               \* the runs that players finish
    ALL,                    \* BoardCategory::ALL; an instance may leave some out
    NoSeason,               \* the season of an empty table
    Queries,                \* what a visitor may ask for
    DEFAULT_LIMIT,
    MAX_LIMIT,
    NoData,
    MaxChannel,             \* bound: results the attract app has not looked at
    MaxTroubles             \* bound: crashes, failed requests, restarts

ASSUME BoardsAssumption ==
    /\ ALL \in Seq({"high-score", "deepest", "fastest-clear", "most-kills", "secret-hunter"})
    /\ IsInjective(ALL) /\ ALL # <<>>
    /\ \A query \in Queries : query.limit \in Int
    /\ {DEFAULT_LIMIT, MAX_LIMIT} \subseteq Nat \ {0} /\ DEFAULT_LIMIT <= MAX_LIMIT
    /\ {MaxChannel, MaxTroubles} \subseteq Nat
    /\ Seeds \in Seq(ToSet(Seeds))
    /\ \A run \in Arrivals, seed \in ToSet(Seeds) :
          run.session # seed.session /\ run.season # seed.season
    /\ \A run \in Arrivals \cup ToSet(Seeds) :
          {run.score, run.maps, run.tics, run.kills, run.secrets, run.ended_at} \subseteq Int

VARIABLES
    client,          \* "attract", "page" or "visitor"
    server,          \* how far it is, and how many fake runs it has put in
    runs,            \* the rows of table runs, in id order
    request,         \* slot -> the request under way
    channel,         \* attract: from the fetcher thread to the app
    shown,           \* BoardsCache, or what the page shows
    troubles

vars == <<client, server, runs, request, channel, shown, troubles>>

Categories == {"high-score", "deepest", "fastest-clear", "most-kills", "secret-hunter"}

Stored == {runs[i].session : i \in DOMAIN runs}
InsertRun(run) == IF run.session \in Stored THEN runs ELSE Append(runs, run)

-----------------------------------------------------------------------------
\* db.rs: the current season is that of the row that came last.
CurrentSeason == IF runs = <<>> THEN NoSeason ELSE Last(runs).season

\* What comes first is smaller; board_ranking.
Order(category, i) ==
    LET run == runs[i]
        best == CASE category = "high-score"    -> <<-run.score>>
                  [] category = "deepest"       -> <<-run.maps, -run.score>>
                  [] category = "fastest-clear" -> <<run.tics>>
                  [] category = "most-kills"    -> <<-run.kills, -run.score>>
                  [] category = "secret-hunter" -> <<-run.secrets, -run.score>>
    IN  best \o <<run.ended_at, i>>

Value(category, run) ==
    CASE category = "high-score"    -> run.score
      [] category = "deepest"       -> run.maps
      [] category = "fastest-clear" -> run.tics
      [] category = "most-kills"    -> run.kills
      [] category = "secret-hunter" -> run.secrets

\* Mutant: the boards are not told apart by who finished.
RankedAnyEnd(category, season) == {i \in DOMAIN runs : runs[i].season = season}

Ranked(category, season) ==
    {i \in DOMAIN runs : /\ runs[i].season = season
                         /\ category = "fastest-clear" => runs[i].reason = "complete"}

Less(s, t) == \E n \in DOMAIN s : s[n] < t[n] /\ \A k \in 1..n - 1 : s[k] = t[k]

\* Those that come before it.
Ahead(category, ids, i) == {j \in ids : Less(Order(category, j), Order(category, i))}

\* One SELECT; `at' is for the properties: how many rows there were.
Board(category, season, limit) ==
    LET ids == Ranked(category, season)
        entry(rank) ==
            LET run == runs[CHOOSE i \in ids : Cardinality(Ahead(category, ids, i)) = rank - 1]
            IN  [rank |-> rank, session |-> run.session, value |-> Value(category, run)]
    IN  [category |-> category, at |-> Len(runs),
         entries |-> [rank \in 1..Min({limit, Cardinality(ids)}) |-> entry(rank)]]

-----------------------------------------------------------------------------
\* The server.  It opens the database, stores the fake runs and only then listens.
Start ==
    /\ server.at = "Down"
    /\ server' = [at |-> "Seeding", seeded |-> 0]
    /\ UNCHANGED <<client, runs, request, channel, shown, troubles>>

SeedRun ==
    /\ server.at = "Seeding" /\ server.seeded < Len(Seeds)
    /\ runs' = InsertRun(Seeds[server.seeded + 1])
    /\ server' = [server EXCEPT !.seeded = @ + 1]
    /\ UNCHANGED <<client, request, channel, shown, troubles>>

Serve ==
    /\ server.at = "Seeding" /\ server.seeded = Len(Seeds)
    /\ server' = [server EXCEPT !.at = "Serving"]
    /\ UNCHANGED <<client, runs, request, channel, shown, troubles>>

Failed(s) == request' = [request EXCEPT ![s] = [at |-> "Failed"]]

\* It is killed, or fails to start.  Nobody answers what was asked.
Crash ==
    /\ server.at # "Down" /\ troubles < MaxTroubles
    /\ server' = [at |-> "Down", seeded |-> 0]
    /\ request' = [s \in DOMAIN request |->
                      IF request[s].at \in {"Asked", "Reading"} THEN [at |-> "Failed"] ELSE request[s]]
    /\ troubles' = troubles + 1
    /\ UNCHANGED <<client, runs, channel, shown>>

\* Mutant: it listens already while it puts the fake runs in.
ArriveEarly(run) ==
    /\ server.at # "Down" /\ run.session \notin Stored
    /\ runs' = InsertRun(run)
    /\ UNCHANGED <<client, server, request, channel, shown, troubles>>

\* A run is posted.
Arrive(run) ==
    /\ server.at = "Serving" /\ run.session \notin Stored
    /\ runs' = InsertRun(run)
    /\ UNCHANGED <<client, server, request, channel, shown, troubles>>

-----------------------------------------------------------------------------
\* The handlers.  limit -1: there is none in the query.
EffectiveLimit(query) ==
    IF query.limit = -1 THEN DEFAULT_LIMIT
    ELSE IF query.limit < 1 THEN 1
    ELSE Min({query.limit, MAX_LIMIT})

Asked(query) == IF query.category = "all" THEN ALL ELSE <<query.category>>

\* 404 for a category there is not, 400 for a season that does not parse; without
\* one it is the current season.
Resolve(s) ==
    /\ request[s].at = "Asked" /\ server.at = "Serving"
    /\ LET query == request[s].query
       IN  IF query.category \in {"all"} \cup Categories /\ query.season # "malformed"
           THEN request' = [request EXCEPT ![s] =
                   [at |-> "Reading", query |-> query, limit |-> EffectiveLimit(query),
                    season |-> IF query.season = "" THEN CurrentSeason ELSE query.season,
                    boards |-> <<>>, since |-> Len(runs)]]
           ELSE Failed(s)
    /\ UNCHANGED <<client, server, runs, channel, shown, troubles>>

\* The next board; with the last one the response is complete.
ReadBoard(s) ==
    /\ request[s].at = "Reading"
    /\ LET r == request[s]
           categories == Asked(r.query)
           boards == Append(r.boards, Board(categories[Len(r.boards) + 1], r.season, r.limit))
       IN  request' = [request EXCEPT ![s] =
              IF Len(boards) < Len(categories) THEN [r EXCEPT !.boards = boards]
              ELSE [at |-> "Answered", query |-> r.query, season |-> r.season,
                    boards |-> boards, since |-> r.since]]
    /\ UNCHANGED <<client, server, runs, channel, shown, troubles>>

\* There is nobody to connect to.
Refuse(s) ==
    /\ request[s].at = "Asked" /\ server.at # "Serving"
    /\ Failed(s)
    /\ UNCHANGED <<client, server, runs, channel, shown, troubles>>

\* The database fails, the answer is lost or comes too late.
Lose(s) ==
    /\ request[s].at \in {"Asked", "Reading"} /\ troubles < MaxTroubles
    /\ Failed(s)
    /\ troubles' = troubles + 1
    /\ UNCHANGED <<client, server, runs, channel, shown>>

-----------------------------------------------------------------------------
\* The clients.  The fetcher thread waits for each answer; the page's timer does
\* not, so that two of its requests may be under way.
\* Mutant: the fetcher goes by a timer as well.
SlotsByTimer(c) == IF c = "visitor" THEN {1} ELSE {1, 2}

Slots(c) == IF c = "page" THEN {1, 2} ELSE {1}

Everything == [category |-> "all", limit |-> -1, season |-> ""]

\* GET / is the page's first request: no script runs before it is answered.
Ask(s) ==
    /\ request[s].at = "Free"
    /\ client = "page" /\ shown.data = NoData => \A t \in DOMAIN request : request[t].at = "Free"
    /\ client = "attract" => Len(channel) < MaxChannel
    /\ \E query \in IF client = "visitor" THEN Queries ELSE {Everything} :
          request' = [request EXCEPT ![s] = [at |-> "Asked", query |-> query]]
    /\ UNCHANGED <<client, server, runs, channel, shown, troubles>>

\* Mutant: once offline, always offline.
ApplyForEver(cache, result) ==
    IF result.at = "Answered" THEN [data |-> result, stale |-> cache.stale]
    ELSE [cache EXCEPT !.stale = TRUE]

\* BoardsCache::apply, and the page's: a failure keeps the data there is.
Apply(cache, result) ==
    IF result.at = "Answered" THEN [data |-> result, stale |-> FALSE]
    ELSE [cache EXCEPT !.stale = TRUE]

Done(s) ==
    /\ request[s].at \in {"Answered", "Failed"}
    /\ request' = [request EXCEPT ![s] = [at |-> "Free"]]
    /\ UNCHANGED <<client, server, runs, troubles>>

\* The fetcher thread sends what it got down the channel.
Send(s) == client = "attract" /\ Done(s) /\ channel' = Append(channel, request[s]) /\ UNCHANGED shown

\* The page shows it at once.  A page that does not load has not even the pip.
Show(s) ==
    /\ client = "page" /\ Done(s)
    /\ shown' = IF request[s].at = "Failed" /\ shown.data = NoData THEN shown
                ELSE Apply(shown, request[s])
    /\ UNCHANGED channel

\* A visitor has what was asked for.
Leave(s) == client = "visitor" /\ Done(s) /\ UNCHANGED <<channel, shown>>

Deliver(s) == Send(s) \/ Show(s) \/ Leave(s)

\* A frame of the attract app applies all there is in the channel.
Frame ==
    /\ channel # <<>>
    /\ LET cache[n \in 0..Len(channel)] ==
               IF n = 0 THEN shown ELSE Apply(cache[n - 1], channel[n])
       IN  shown' = cache[Len(channel)]
    /\ channel' = <<>>
    /\ UNCHANGED <<client, server, runs, request, troubles>>

Nothing == [data |-> NoData, stale |-> FALSE]
Idle == [s \in Slots(client) |-> [at |-> "Free"]]

\* The attract app exits for a run and is launched again; the page is reloaded.
Reopen ==
    /\ troubles < MaxTroubles
    /\ request' = Idle /\ channel' = <<>> /\ shown' = Nothing
    /\ troubles' = troubles + 1
    /\ UNCHANGED <<client, server, runs>>

-----------------------------------------------------------------------------
Init ==
    /\ client \in {"attract", "page", "visitor"}
    /\ server = [at |-> "Down", seeded |-> 0]
    /\ runs = <<>>
    /\ request = Idle /\ channel = <<>> /\ shown = Nothing
    /\ troubles = 0

Handle(s) == Resolve(s) \/ ReadBoard(s) \/ Refuse(s)

Next ==
    \/ Start \/ SeedRun \/ Serve \/ Crash
    \/ \E run \in Arrivals : Arrive(run)
    \/ \E s \in DOMAIN request : Ask(s) \/ Handle(s) \/ Lose(s) \/ Deliver(s)
    \/ Frame \/ Reopen

\* systemd restarts the server; a request comes to an end (FETCH_TIMEOUT, or the
\* browser's own); timers tick and frames are drawn.
Fairness ==
    /\ WF_vars(Start \/ SeedRun \/ Serve) /\ WF_vars(Frame)
    /\ \A s \in {1, 2} : WF_vars(s \in DOMAIN request /\ (Ask(s) \/ Handle(s) \/ Deliver(s)))

Spec == Init /\ [][Next]_vars /\ Fairness

-----------------------------------------------------------------------------
\* What protocol/src/boards.rs says of the boards: the order on each one, over the
\* runs that may be on it.
Better(category, a, b) ==
    CASE category = "high-score"    -> a.score > b.score
      [] category = "deepest"       -> a.maps > b.maps \/ (a.maps = b.maps /\ a.score > b.score)
      [] category = "fastest-clear" -> a.tics < b.tics
      [] category = "most-kills"    -> a.kills > b.kills
      [] category = "secret-hunter" -> a.secrets > b.secrets

MayEnter(category, season) ==
    {run \in ToSet(runs) : /\ run.season = season
                           /\ category = "fastest-clear" => run.reason = "complete"}

TruthfulBoard(board, season, limit) ==
    LET stored == {runs[i] : i \in 1..board.at}
        eligible == stored \cap MayEnter(board.category, season)
        on(rank) == CHOOSE run \in stored : run.session = board.entries[rank].session
        listed == {on(rank) : rank \in DOMAIN board.entries}
    IN  /\ listed \subseteq eligible
        /\ Cardinality(listed) = Len(board.entries)
        /\ Len(board.entries) = Min({limit, Cardinality(eligible)})
        /\ \A rank \in DOMAIN board.entries :
              \A run \in eligible \ {on(r) : r \in 1..rank} :
                 ~Better(board.category, run, on(rank))

\* Every response gives the boards that were asked for, each with the best eligible
\* runs of the season in order, no more than were asked for and none left out, as
\* the table was at some moment while the request was handled; whichever runs
\* arrived between two boards, and whatever season they brought.
BoardsTruthful ==
    \A s \in DOMAIN request : request[s].at = "Answered" =>
        LET r == request[s]
            limit == CHOOSE n \in 1..MAX_LIMIT :
                        /\ r.query.limit \in 1..MAX_LIMIT => n = r.query.limit
                        /\ r.query.limit < 1 /\ r.query.limit # -1 => n = 1
                        /\ r.query.limit > MAX_LIMIT => n = MAX_LIMIT
                        /\ r.query.limit = -1 => n = DEFAULT_LIMIT
        IN  /\ r.query.season # "" => r.season = r.query.season
            /\ [i \in DOMAIN r.boards |-> r.boards[i].category] = Asked(r.query)
            /\ \A i \in DOMAIN r.boards :
                  /\ r.since <= r.boards[i].at /\ r.boards[i].at <= Len(runs)
                  /\ TruthfulBoard(r.boards[i], r.season, limit)

\* Once a player's run is stored, the boards are those of the players' season and
\* not of the fake runs: these are all in before the first post, and putting them in
\* again after a restart, also one in the middle of it, adds no row.
SeasonReal ==
    (\E run \in Arrivals : run.session \in Stored) =>
        CurrentSeason \notin {seed.season : seed \in ToSet(Seeds)}

\* The attract app never goes back to older boards while it runs: all of a response
\* that replaces another was read when that one was complete.
CacheAdvances ==
    [][client = "attract" /\ NoData \notin {shown.data, shown'.data} /\ shown'.data # shown.data
         => shown'.data.since >= Last(shown.data.boards).at]_vars

\* When no more runs arrive and the troubles are over, the attract app and the page
\* come to show all there is in the current season, and not as OFFLINE; a late
\* answer or an old failure does not stay.
ShowsLatest ==
    client # "visitor" =>
        <>[](/\ shown.data # NoData /\ ~shown.stale
             /\ shown.data.season = CurrentSeason
             /\ shown.data.boards =
                   [i \in DOMAIN ALL |-> Board(ALL[i], CurrentSeason, DEFAULT_LIMIT)])
=============================================================================
