---------------------------- MODULE Leaderboard ----------------------------
(***************************************************************************)
(* POST /v1/runs on the server (crates/leaderboard/src/app.rs, db.rs):     *)
(* handlers running side by side, the rate limiter they share, and the     *)
(* insert with its transaction.  Module Delivery has one cabinet and any   *)
(* answer; here are several cabinets and the reasons for the answers.      *)
(* Authorization comes before everything modelled here.                    *)
(*                                                                         *)
(* A handler reads the clock before it takes the limiter's mutex: up to    *)
(* MaxDelay ticks may pass in between, and other handlers may overtake it. *)
(***************************************************************************)
EXTENDS Integers, Sequences, FiniteSets, SequencesExt

CONSTANTS
    Handlers,               \* each handles one request at a time
    Submissions,            \* [session, cabinet_id, initials]
    RATE_LIMIT_MAX,
    GLOBAL_RATE_LIMIT_MAX,
    RATE_KEYS_MAX,
    RATE_LIMIT_WINDOW,      \* in ticks
    MaxDelay,
    MaxTime, MaxPosts      \* bounds of a behaviour, from its first post on

ASSUME LeaderboardAssumption ==
    /\ {RATE_LIMIT_MAX, GLOBAL_RATE_LIMIT_MAX, RATE_KEYS_MAX} \subseteq Nat \ {0}
    /\ {MaxDelay, MaxTime, MaxPosts} \subseteq Nat
    /\ RATE_LIMIT_WINDOW \in Nat /\ RATE_LIMIT_WINDOW > MaxDelay

VARIABLES
    now,
    per_cabinet,     \* RateState: cabinet -> time stamps of its posts
    global,          \* RateState: time stamps of all posts
    request,         \* handler -> the request it works on
    runs,            \* the committed rows of table runs, in id order
    admitted,        \* posts let through so far: cabinet, and when
    told,            \* sessions a client has been told are stored
    posts

rate == <<per_cabinet, global>>
history == <<admitted, told>>
vars == <<now, rate, request, runs, history, posts>>

Cabinets == {sub.cabinet_id : sub \in Submissions}
Stored == {runs[i].session : i \in DOMAIN runs}
Record(session) == CHOOSE run \in {runs[i] : i \in DOMAIN runs} : run.session = session

Moves(h, at) ==
    request' = [request EXCEPT ![h] = [at |-> at, sub |-> request[h].sub]]

\* A request is over without a success: 429, 422, 500, or nobody to answer to.
Over == [at |-> "Over"]
Fails(h) == request' = [request EXCEPT ![h] = Over]

\* A success is answered with the run that is stored.
Confirms(h, reply, body) ==
    /\ request' = [request EXCEPT ![h] = [at |-> reply, sub |-> body]]
    /\ told' = told \cup {request[h].sub.session}

\* The handler reads the clock; check_auth and check_str have passed.
Post(h, sub) ==
    /\ request[h].at \in {"Over", "Created", "Ok"}
    /\ posts < MaxPosts
    /\ posts' = posts + 1
    /\ request' = [request EXCEPT ![h] = [at |-> "Stamped", sub |-> sub, stamp |-> now]]
    /\ UNCHANGED <<now, rate, runs, history>>

-----------------------------------------------------------------------------
\* rate_check, under the mutex.
IsFresh(stamp, t) == stamp - t < RATE_LIMIT_WINDOW

\* What retain leaves of a sequence: the elements at these indices, in order.
Retained(s, kept) ==
    [n \in 1..Cardinality(kept) |->
        s[CHOOSE i \in kept : Cardinality({j \in kept : j <= i}) = n]]

Fresh(stamp, log) == Retained(log, {i \in DOMAIN log : IsFresh(stamp, log[i])})

\* The keys that survive: idle ones go once a new key would exceed the cap.
KeysFull(cabinet_id) ==
    cabinet_id \notin DOMAIN per_cabinet /\ Cardinality(DOMAIN per_cabinet) >= RATE_KEYS_MAX

\* Mutant: idle keys are never evicted.
KeptForEver(stamp, cabinet_id) == DOMAIN per_cabinet

Kept(stamp, cabinet_id) ==
    IF KeysFull(cabinet_id)
    THEN {c \in DOMAIN per_cabinet : IsFresh(stamp, Last(per_cabinet[c]))}
    ELSE DOMAIN per_cabinet

\* Mutant: the window starts anew when its first post is out of it.
LogFixedWindow(stamp, cabinet_id) ==
    IF cabinet_id \in DOMAIN per_cabinet /\ IsFresh(stamp, Head(per_cabinet[cabinet_id]))
    THEN per_cabinet[cabinet_id]
    ELSE <<>>

Log(stamp, cabinet_id) ==
    IF cabinet_id \in DOMAIN per_cabinet THEN Fresh(stamp, per_cabinet[cabinet_id]) ELSE <<>>

OverCabinet(h, log, cabinet_id) ==
    /\ Len(log) >= RATE_LIMIT_MAX
    /\ per_cabinet' = [per_cabinet EXCEPT ![cabinet_id] = log]
    /\ Fails(h)
    /\ UNCHANGED history

\* Mutant: the key is entered before the cap is looked at.
OverKeysEntered(h, log, kept, cabinet_id) ==
    /\ KeysFull(cabinet_id)
    /\ Cardinality(kept) >= RATE_KEYS_MAX
    /\ per_cabinet' = [c \in kept \cup {cabinet_id} |->
                          IF c = cabinet_id THEN log ELSE per_cabinet[c]]
    /\ Fails(h)
    /\ UNCHANGED history

OverKeys(h, log, kept, cabinet_id) ==
    /\ KeysFull(cabinet_id)
    /\ Cardinality(kept) >= RATE_KEYS_MAX
    /\ per_cabinet' = [c \in kept |-> per_cabinet[c]]
    /\ Fails(h)
    /\ UNCHANGED history

Admit(h, log, kept, stamp, cabinet_id) ==
    /\ KeysFull(cabinet_id) => Cardinality(kept) < RATE_KEYS_MAX
    /\ Len(log) < RATE_LIMIT_MAX
    /\ per_cabinet' = [c \in kept \cup {cabinet_id} |->
                          IF c = cabinet_id THEN Append(log, stamp) ELSE per_cabinet[c]]
    /\ Moves(h, "Admitted")
    /\ admitted' = Append(admitted, [cabinet_id |-> cabinet_id, at |-> now])
    /\ UNCHANGED told

RateCheck(h) ==
    /\ request[h].at = "Stamped"
    /\ LET stamp == request[h].stamp
           cabinet_id == request[h].sub.cabinet_id
           all == Fresh(stamp, global)
           own == Log(stamp, cabinet_id)
           kept == Kept(stamp, cabinet_id)
       IN  IF Len(all) >= GLOBAL_RATE_LIMIT_MAX
           THEN /\ global' = all
                /\ Fails(h)
                /\ UNCHANGED <<per_cabinet, history>>
           ELSE \/ Admit(h, own, kept, stamp, cabinet_id) /\ global' = Append(all, stamp)
                \/ OverKeys(h, own, kept, cabinet_id) /\ global' = all
                \/ OverCabinet(h, own, cabinet_id) /\ global' = all
    /\ UNCHANGED <<now, runs, posts>>

-----------------------------------------------------------------------------
Writer == {h \in Handlers : request[h].at = "Writing"}

\* Mutant: look first, and take the write lock only for the insert.
InsertAfterSelect(h) ==
    /\ request[h].at = "Admitted"
    /\ Moves(h, IF request[h].sub.session \in Stored THEN "Conflict" ELSE "Writing")
    /\ UNCHANGED <<now, rate, runs, history, posts>>

\* INSERT .. ON CONFLICT(session) DO NOTHING takes the write lock; without a row
\* the transaction is rolled back.
Insert(h) ==
    /\ request[h].at = "Admitted"
    /\ Writer = {}
    /\ Moves(h, IF request[h].sub.session \in Stored THEN "Conflict" ELSE "Writing")
    /\ UNCHANGED <<now, rate, runs, history, posts>>

\* The rows of the maps are inserted and the transaction commits.  An INSERT that fails in
\* between is a Fail before this: SQLite drops the whole transaction.
Commit(h) ==
    /\ request[h].at = "Writing"
    /\ runs' = Append(runs, request[h].sub)
    /\ Confirms(h, "Created", request[h].sub)
    /\ UNCHANGED <<now, rate, admitted, posts>>

\* Mutant: a duplicate is answered with what the client sent.
FetchEchoes(h) ==
    /\ request[h].at = "Conflict"
    /\ Confirms(h, "Ok", request[h].sub)
    /\ UNCHANGED <<now, rate, runs, admitted, posts>>

\* fetch_run: a duplicate is answered with what is stored.
Fetch(h) ==
    /\ request[h].at = "Conflict"
    /\ Confirms(h, "Ok", Record(request[h].sub.session))
    /\ UNCHANGED <<now, rate, runs, admitted, posts>>

\* validate refuses the payload (module Submission says when), or the database is
\* busy or fails, or the client hangs up and the handler is dropped where it waits for
\* the database: nothing of the transaction stays.
Fail(h) ==
    /\ request[h].at \in {"Admitted", "Writing", "Conflict"}
    /\ Fails(h)
    /\ UNCHANGED <<now, rate, runs, history, posts>>

\* The client hangs up when the commit was sent to the database already.
HangUp(h) ==
    /\ request[h].at = "Writing"
    /\ runs' = Append(runs, request[h].sub)
    /\ Fails(h)
    /\ UNCHANGED <<now, rate, history, posts>>

\* Time before the first post makes no difference.
Tick ==
    /\ now < MaxTime /\ posts > 0
    /\ \A h \in Handlers : request[h].at = "Stamped" => now - request[h].stamp < MaxDelay
    /\ now' = now + 1
    /\ UNCHANGED <<rate, request, runs, history, posts>>

Init ==
    /\ now = 0
    /\ per_cabinet = [c \in {} |-> <<>>] /\ global = <<>>
    /\ request = [h \in Handlers |-> Over]
    /\ runs = <<>>
    /\ admitted = <<>> /\ told = {}
    /\ posts = 0

Next ==
    \/ \E h \in Handlers :
          \/ \E sub \in Submissions : Post(h, sub)
          \/ RateCheck(h) \/ Insert(h) \/ Commit(h) \/ Fetch(h)
          \/ Fail(h) \/ HangUp(h)
    \/ Tick

Spec == Init /\ [][Next]_vars

-----------------------------------------------------------------------------
TypeOK ==
    /\ now \in 0..MaxTime
    /\ DOMAIN per_cabinet \subseteq Cabinets
    /\ \A c \in DOMAIN per_cabinet : per_cabinet[c] \in Seq(0..now) /\ per_cabinet[c] # <<>>
    /\ global \in Seq(0..now)
    /\ \A h \in Handlers :
          /\ request[h].at \in {"Stamped", "Admitted", "Writing", "Conflict",
                                "Created", "Ok", "Over"}
          /\ request[h].at = "Stamped" => request[h].stamp \in 0..now
          /\ request[h].at = "Conflict" => request[h].sub.session \in Stored
    /\ runs \in Seq(Submissions)
    /\ told \subseteq {sub.session : sub \in Submissions}

\* How many posts were admitted in the last n ticks, of the cabinets in C.
Admitted(C, n) ==
    Cardinality({i \in DOMAIN admitted : admitted[i].cabinet_id \in C /\ admitted[i].at > now - n})

\* No cabinet, and not all of them together, get more posts through in a window
\* than the limits say, however handlers overtake each other and whichever keys
\* are evicted; and the limiter never remembers more cabinets than its cap.
\* (A window is shorter here by the time between clock and mutex.)
RateBounded ==
    /\ \A c \in Cabinets : Admitted({c}, RATE_LIMIT_WINDOW - MaxDelay) <= RATE_LIMIT_MAX
    /\ Admitted(Cabinets, RATE_LIMIT_WINDOW - MaxDelay) <= GLOBAL_RATE_LIMIT_MAX
    /\ Cardinality(DOMAIN per_cabinet) <= RATE_KEYS_MAX

\* A post is answered 429 only if a limit really is used up by posts that were
\* admitted in the last window: refused posts and idle cabinets never count, so a
\* cabinet that goes on trying is not locked out by that.
RefusedJustly ==
    [][\A h \in Handlers :
         request[h].at = "Stamped" /\ request'[h] = Over =>
            LET c == request[h].sub.cabinet_id
                window == RATE_LIMIT_WINDOW + MaxDelay
            IN  \/ Admitted({c}, window) >= RATE_LIMIT_MAX
                \/ Admitted(Cabinets, window) >= GLOBAL_RATE_LIMIT_MAX
                \/ Cardinality({d \in Cabinets \ {c} : Admitted({d}, window) > 0})
                      >= RATE_KEYS_MAX]_vars

\* Concurrent copies of a run, retries and hang-ups store it once, as it came
\* first; a retry of an old run does not make its season the current one, which is
\* that of the last row.
FirstWriteWins ==
    [][\/ runs' = runs
       \/ \E sub \in Submissions : sub.session \notin Stored /\ runs' = Append(runs, sub)]_vars

\* A client told that its run is stored can rely on it, and the record it gets back
\* is the one on the board, also when another copy was being inserted.
AnswersTruthful ==
    /\ told \subseteq Stored
    /\ \A h \in Handlers :
          request[h].at \in {"Created", "Ok"} => request[h].sub \in {runs[i] : i \in DOMAIN runs}
=============================================================================
