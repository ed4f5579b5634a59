------------------------- MODULE LeaderboardProofs -------------------------
(***************************************************************************)
(* Proofs about POST /v1/runs: for any number of handlers working side by  *)
(* side, any submissions and any limits, a session is stored once, as it   *)
(* came first, what a client is told is true, and the limiter lets through *)
(* what its limits allow and refuses nothing else.                         *)
(*                                                                         *)
(* Two arguments.  The write lock: at most one handler is between INSERT   *)
(* and COMMIT, and what it inserts is not there yet (LockHeld).  The logs: *)
(* each one stands for an increasing selection of the posts let through,   *)
(* with none of the window left out (Tracks), so that counting a log       *)
(* bounds counting the posts, and the other way round.                     *)
(***************************************************************************)
EXTENDS Leaderboard, SequenceTheorems, FiniteSetTheorems, TLAPS

\* The rows of the table, without their order.
Rows == {runs[i] : i \in DOMAIN runs}

Requests ==
    [at : {"Over"}]
    \cup [at : {"Stamped"}, sub : Submissions, stamp : Nat]
    \cup [at : {"Admitted", "Writing", "Conflict", "Created", "Ok"}, sub : Submissions]

Types ==
    /\ now \in Nat
    /\ runs \in Seq(Submissions)
    /\ request \in [Handlers -> Requests]

\* One transaction at a time writes, and it writes a new session; a conflict is
\* about a row that is committed.
LockHeld ==
    /\ \A g, h \in Handlers :
          request[g].at = "Writing" /\ request[h].at = "Writing" => g = h
    /\ \A h \in Handlers :
          /\ request[h].at = "Writing" => request[h].sub.session \notin Stored
          /\ request[h].at = "Conflict" => request[h].sub.session \in Stored

\* AnswersTruthful alone is not inductive: that the record of a conflict exists,
\* and that the writer's row is new, has to be carried along.
IInv == Types /\ LockHeld /\ AnswersTruthful

-----------------------------------------------------------------------------
\* Committing adds one row, and forgets none.
LEMMA AppendedRow ==
    ASSUME runs \in Seq(Submissions), NEW sub \in Submissions, runs' = Append(runs, sub)
    PROVE  /\ runs' \in Seq(Submissions)
           /\ Rows' = Rows \cup {sub}
           /\ Stored' = Stored \cup {sub.session}
  <1>1. /\ Len(runs') = Len(runs) + 1
        /\ runs'[Len(runs) + 1] = sub
        /\ \A i \in 1..Len(runs) : runs'[i] = runs[i]
    BY AppendProperties
  <1>2. DOMAIN runs' = DOMAIN runs \cup {Len(runs) + 1} /\ DOMAIN runs = 1..Len(runs)
    BY <1>1, AppendProperties
  <1>3. runs' \in Seq(Submissions)
    BY AppendProperties
  <1>4. Rows' = Rows \cup {sub}
    BY <1>1, <1>2 DEF Rows
  <1>5. Stored' = Stored \cup {sub.session}
    BY <1>1, <1>2 DEF Stored
  <1> QED BY <1>3, <1>4, <1>5

\* A session that is stored has a row, which is what fetch_run finds.
LEMMA RecordStored ==
    ASSUME runs \in Seq(Submissions), NEW session \in Stored
    PROVE  /\ Record(session) \in Rows
           /\ Record(session) \in Submissions
           /\ Record(session).session = session
  <1>1. PICK i \in DOMAIN runs : runs[i].session = session
    BY DEF Stored
  <1>2. \E run \in Rows : run.session = session
    BY <1>1 DEF Rows
  <1>3. Record(session) \in Rows /\ Record(session).session = session
    BY <1>2 DEF Record, Rows
  <1>4. Rows \subseteq Submissions
    BY DEF Rows
  <1> QED BY <1>3, <1>4

\* A handler that is past the clock has its submission.
LEMMA RequestType ==
    ASSUME Types, NEW h \in Handlers, request[h].at # "Over"
    PROVE  request[h].sub \in Submissions
  BY DEF Types, Requests

-----------------------------------------------------------------------------
\* A request that comes to an end without a success, or moves on before it holds
\* the lock, cannot disturb the invariant while the table stays as it is.
LEMMA ElsewhereKeepsIInv ==
    ASSUME IInv, UNCHANGED <<runs, told>>, now' \in Nat,
           NEW h \in Handlers, NEW r \in Requests,
           r.at \in {"Over", "Stamped", "Admitted"},
           request' = [request EXCEPT ![h] = r]
    PROVE  IInv'
  <1> USE DEF IInv
  <1>1. Types'
    BY DEF Types
  <1>2. \A g \in Handlers : request'[g] = IF g = h THEN r ELSE request[g]
    BY DEF Types
  <1>3. Stored' = Stored
    BY DEF Stored
  <1>4. LockHeld'
    BY <1>2, <1>3 DEF LockHeld
  <1>5. AnswersTruthful'
    BY <1>2, <1>3 DEF AnswersTruthful
  <1> QED BY <1>1, <1>4, <1>5

\* INSERT: the one that gets the lock sees whether the session is there.
LEMMA InsertKeepsIInv ==
    ASSUME IInv, NEW h \in Handlers, Insert(h)
    PROVE  IInv'
  <1> USE DEF IInv
  <1> DEFINE at == IF request[h].sub.session \in Stored THEN "Conflict" ELSE "Writing"
             r == [at |-> at, sub |-> request[h].sub]
  <1>1. request[h].sub \in Submissions
    BY RequestType DEF Insert
  <1>2. request' = [request EXCEPT ![h] = r] /\ UNCHANGED <<now, runs, told>>
    BY DEF Insert, Moves, history
  <1>3. r \in Requests
    BY <1>1 DEF Requests
  <1>4. Types'
    BY <1>2, <1>3 DEF Types
  <1>5. \A g \in Handlers : request'[g] = IF g = h THEN r ELSE request[g]
    BY <1>2 DEF Types
  <1>6. Stored' = Stored
    BY <1>2 DEF Stored
  <1>7. \A g \in Handlers : request[g].at # "Writing"
    BY DEF Insert, Writer
  <1>8. LockHeld'
    BY <1>5, <1>6, <1>7 DEF LockHeld
  <1>9. AnswersTruthful'
    BY <1>2, <1>5, <1>6 DEF AnswersTruthful
  <1> QED BY <1>4, <1>8, <1>9

\* The commit, seen by its client or not, adds the row no other copy has added.
LEMMA CommitKeepsIInv ==
    ASSUME IInv, NEW h \in Handlers, request[h].at = "Writing",
           runs' = Append(runs, request[h].sub), now' = now,
           NEW r \in Requests, request' = [request EXCEPT ![h] = r],
           \/ r.at = "Over" /\ told' = told
           \/ /\ r.at = "Created" /\ r.sub = request[h].sub
              /\ told' = told \cup {request[h].sub.session}
    PROVE  IInv'
  <1> USE DEF IInv
  <1>1. request[h].sub \in Submissions
    BY RequestType
  <1>2. /\ runs' \in Seq(Submissions)
        /\ Rows' = Rows \cup {request[h].sub}
        /\ Stored' = Stored \cup {request[h].sub.session}
    BY <1>1, AppendedRow DEF Types
  <1>3. Types'
    BY <1>2 DEF Types
  <1>4. \A g \in Handlers : request'[g] = IF g = h THEN r ELSE request[g]
    BY DEF Types
  <1>5. LockHeld'
    BY <1>2, <1>4 DEF LockHeld
  <1>6. AnswersTruthful'
    BY <1>2, <1>4 DEF AnswersTruthful, Rows
  <1> QED BY <1>3, <1>5, <1>6

\* The answer to a conflict is the row that is stored.
LEMMA FetchKeepsIInv ==
    ASSUME IInv, NEW h \in Handlers, Fetch(h)
    PROVE  IInv'
  <1> USE DEF IInv
  <1> DEFINE r == [at |-> "Ok", sub |-> Record(request[h].sub.session)]
  <1>1. request[h].sub.session \in Stored
    BY DEF Fetch, LockHeld
  <1>2. r.sub \in Rows /\ r.sub \in Submissions
    BY <1>1, RecordStored DEF Types
  <1>3. /\ request' = [request EXCEPT ![h] = r]
        /\ told' = told \cup {request[h].sub.session}
        /\ UNCHANGED <<now, runs>>
    BY DEF Fetch, Confirms
  <1>4. r \in Requests
    BY <1>2 DEF Requests
  <1>5. Types'
    BY <1>3, <1>4 DEF Types
  <1>6. \A g \in Handlers : request'[g] = IF g = h THEN r ELSE request[g]
    BY <1>3 DEF Types
  <1>7. Stored' = Stored /\ Rows' = Rows
    BY <1>3 DEF Stored, Rows
  <1>8. LockHeld'
    BY <1>6, <1>7 DEF LockHeld
  <1>9. AnswersTruthful'
    BY <1>1, <1>2, <1>3, <1>6, <1>7 DEF AnswersTruthful, Rows
  <1> QED BY <1>5, <1>8, <1>9

\* A post goes to the database only when the limiter lets it; every other outcome
\* of the limiter ends it.
LEMMA RateCheckMoves ==
    ASSUME IInv, NEW h \in Handlers, RateCheck(h)
    PROVE  /\ UNCHANGED <<runs, told, now>>
           /\ \E r \in Requests : /\ r.at \in {"Over", "Admitted"}
                                  /\ request' = [request EXCEPT ![h] = r]
  <1>1. request[h].sub \in Submissions
    BY RequestType DEF RateCheck, IInv
  <1> DEFINE passed == [at |-> "Admitted", sub |-> request[h].sub]
  <1>2. Over \in Requests /\ passed \in Requests
    BY <1>1 DEF Requests, Over
  <1>3. UNCHANGED <<runs, told, now>>
    BY DEF RateCheck, Admit, OverKeys, OverCabinet, history
  <1>4. \/ request' = [request EXCEPT ![h] = Over]
        \/ request' = [request EXCEPT ![h] = passed]
    BY DEF RateCheck, Admit, OverKeys, OverCabinet, Fails, Moves
  <1>5. Over.at = "Over" /\ passed.at = "Admitted"
    BY DEF Over
  <1> QED BY <1>2, <1>3, <1>4, <1>5

\* One case per operation of a handler, and the clock.
LEMMA NextKeepsIInv ==
    ASSUME IInv, Next
    PROVE  IInv'
  <1> USE DEF IInv
  <1>0. now \in Nat /\ Over \in Requests /\ Over.at = "Over"
    BY DEF Types, Requests, Over
  <1>1. ASSUME NEW h \in Handlers, NEW sub \in Submissions, Post(h, sub)
        PROVE  IInv'
    <2> DEFINE r == [at |-> "Stamped", sub |-> sub, stamp |-> now]
    <2>1. r \in Requests /\ r.at = "Stamped"
      BY <1>0 DEF Requests
    <2>2. request' = [request EXCEPT ![h] = r] /\ UNCHANGED <<now, runs, told>>
      BY <1>1 DEF Post, history
    <2> QED BY <1>0, <2>1, <2>2, ElsewhereKeepsIInv
  <1>2. ASSUME NEW h \in Handlers, RateCheck(h) PROVE IInv'
    BY <1>0, <1>2, RateCheckMoves, ElsewhereKeepsIInv
  <1>3. ASSUME NEW h \in Handlers, Insert(h) PROVE IInv'
    BY <1>3, InsertKeepsIInv
  <1>4. ASSUME NEW h \in Handlers, Commit(h) PROVE IInv'
    <2> DEFINE r == [at |-> "Created", sub |-> request[h].sub]
    <2>1. request[h].sub \in Submissions
      BY <1>4, RequestType DEF Commit
    <2>2. r \in Requests /\ r.at = "Created" /\ r.sub = request[h].sub
      BY <2>1 DEF Requests
    <2>3. /\ request[h].at = "Writing"
          /\ runs' = Append(runs, request[h].sub) /\ now' = now
          /\ request' = [request EXCEPT ![h] = r]
          /\ told' = told \cup {request[h].sub.session}
      BY <1>4 DEF Commit, Confirms
    <2> QED BY <2>2, <2>3, CommitKeepsIInv
  <1>5. ASSUME NEW h \in Handlers, Fetch(h) PROVE IInv'
    BY <1>5, FetchKeepsIInv
  <1>6. ASSUME NEW h \in Handlers, Fail(h) PROVE IInv'
    BY <1>0, <1>6, ElsewhereKeepsIInv DEF Fail, Fails, history
  <1>7. ASSUME NEW h \in Handlers, HangUp(h) PROVE IInv'
    BY <1>0, <1>7, CommitKeepsIInv DEF HangUp, Fails, history
  <1>8. CASE Tick
    <2>1. now' \in Nat /\ UNCHANGED <<request, runs, told>>
      BY <1>0, <1>8 DEF Tick, history
    <2> QED BY <2>1 DEF Types, LockHeld, AnswersTruthful, Stored
  <1> QED BY <1>1, <1>2, <1>3, <1>4, <1>5, <1>6, <1>7, <1>8 DEF Next

\* What a client is told is stored is stored, and the record it gets back is a row
\* of the table: for every number of handlers and cabinets.
THEOREM LockDiscipline == Spec => []IInv
  <1>1. Init => IInv
    <2> SUFFICES ASSUME Init PROVE IInv
      OBVIOUS
    <2>1. \A h \in Handlers : request[h] = Over
      BY DEF Init
    <2>2. Types
      BY DEF Init, Types, Requests, Over
    <2> QED BY <2>1, <2>2 DEF Init, IInv, LockHeld, AnswersTruthful, Over
  <1>2. ASSUME IInv, [Next]_vars PROVE IInv'
    <2>1. CASE UNCHANGED vars
      BY <1>2, <2>1 DEF vars, history, IInv, Types, LockHeld, AnswersTruthful, Stored
    <2> QED BY <1>2, <2>1, NextKeepsIInv
  <1> QED BY <1>1, <1>2, PTL DEF Spec

\* AnswersTruthful, for every value of the constants.
THEOREM AnswersTruthfulSafe == Spec => []AnswersTruthful
  BY LockDiscipline, PTL DEF IInv

\* FirstWriteWins, for every value of the constants: the table only grows, by one
\* row of a session that was not there.
THEOREM FirstWriteWinsSafe == Spec => FirstWriteWins
  <1> DEFINE Grows == \/ runs' = runs
                      \/ \E sub \in Submissions : sub.session \notin Stored /\ runs' = Append(runs, sub)
  <1>1. ASSUME IInv, [Next]_vars PROVE [Grows]_vars
    <2>1. ASSUME NEW h \in Handlers, request[h].at = "Writing", runs' = Append(runs, request[h].sub)
          PROVE  Grows
      <3>1. request[h].sub \in Submissions
        BY <1>1, <2>1, RequestType DEF IInv
      <3>2. request[h].sub.session \notin Stored
        BY <1>1, <2>1 DEF IInv, LockHeld
      <3> QED BY <2>1, <3>1, <3>2
    <2>2. ASSUME NEW h \in Handlers, Commit(h) \/ HangUp(h) PROVE Grows
      <3>1. \/ runs' = runs
            \/ request[h].at = "Writing" /\ runs' = Append(runs, request[h].sub)
        BY <2>2 DEF Commit, HangUp
      <3> QED BY <2>1, <3>1
    <2>3. ASSUME NEW h \in Handlers,
                 \/ \E sub \in Submissions : Post(h, sub)
                 \/ RateCheck(h) \/ Insert(h) \/ Fetch(h) \/ Fail(h)
          PROVE  Grows
      BY <2>3 DEF Post, RateCheck, Insert, Fetch, Fail
    <2>4. CASE Tick
      BY <2>4 DEF Tick
    <2> QED BY <1>1, <2>2, <2>3, <2>4 DEF Next, vars
  <1> QED BY <1>1, LockDiscipline, PTL DEF Spec, FirstWriteWins
-----------------------------------------------------------------------------
\* r is made of the elements of s at the indices kept, in the same order.
Selects(r, s, kept) ==
    \E pick \in [DOMAIN r -> kept] :
        /\ \A m \in DOMAIN r : r[m] = s[pick[m]]
        /\ \A m, n \in DOMAIN r : m < n => pick[m] < pick[n]
        /\ \A i \in kept : \E n \in DOMAIN r : pick[n] = i

\* A sequence without some of its elements is an order-preserving selection of them.
LEMMA RetainedSelects ==
    ASSUME NEW S, NEW s \in Seq(S), NEW kept \in SUBSET DOMAIN s
    PROVE  /\ Retained(s, kept) \in Seq(S)
           /\ Len(Retained(s, kept)) <= Len(s)
           /\ Selects(Retained(s, kept), s, kept)
  <1> DEFINE size == Cardinality(kept)
             below(i) == {j \in kept : j <= i}
             rank == [i \in kept |-> Cardinality(below(i))]
             pick == [n \in 1..size |-> CHOOSE i \in kept : Cardinality(below(i)) = n]
             r == Retained(s, kept)
  <1>1. DOMAIN s = 1..Len(s) /\ Len(s) \in Nat /\ kept \subseteq Nat
    OBVIOUS
  <1>2. IsFiniteSet(1..Len(s)) /\ Cardinality(1..Len(s)) = Len(s)
    BY <1>1, FS_Interval
  <1>3. IsFiniteSet(kept) /\ size \in Nat /\ size <= Len(s)
    BY <1>1, <1>2, FS_Subset, FS_CardinalityType
  <1>4. \A i \in kept : IsFiniteSet(below(i)) /\ Cardinality(below(i)) \in 1..size
    <2> SUFFICES ASSUME NEW i \in kept
                 PROVE  IsFiniteSet(below(i)) /\ Cardinality(below(i)) \in 1..size
      OBVIOUS
    <2>1. IsFiniteSet(below(i)) /\ Cardinality(below(i)) <= size
          /\ Cardinality(below(i)) \in Nat
      BY <1>3, FS_Subset, FS_CardinalityType
    <2>2. i \in below(i)
      BY <1>1
    <2>3. Cardinality(below(i)) # 0
      BY <2>1, <2>2, FS_EmptySet
    <2> QED BY <1>3, <2>1, <2>3
  <1>5. \A i, k \in kept : i < k => Cardinality(below(i)) < Cardinality(below(k))
    <2> SUFFICES ASSUME NEW i \in kept, NEW k \in kept, i < k
                 PROVE  Cardinality(below(i)) < Cardinality(below(k))
      OBVIOUS
    <2>1. below(i) \subseteq below(k) /\ k \in below(k) /\ k \notin below(i)
      BY <1>1
    <2>2. /\ Cardinality(below(i)) <= Cardinality(below(k))
          /\ Cardinality(below(i)) # Cardinality(below(k))
      BY <2>1, <1>4, FS_Subset
    <2>3. Cardinality(below(i)) \in 1..size /\ Cardinality(below(k)) \in 1..size
      BY <1>4
    <2> HIDE DEF below, size
    <2> QED BY <2>2, <2>3, <1>3
  <1>6. rank \in Injection(kept, 1..size)
    <2>1. rank \in [kept -> 1..size]
      BY <1>4
    <2>2. ASSUME NEW i \in kept, NEW k \in kept, i # k PROVE rank[i] # rank[k]
      <3>1. i < k \/ k < i
        BY <1>1, <2>2
      <3>2. Cardinality(below(i)) \in 1..size /\ Cardinality(below(k)) \in 1..size
        BY <1>4
      <3>3. rank[i] = Cardinality(below(i)) /\ rank[k] = Cardinality(below(k))
        OBVIOUS
      <3> HIDE DEF below, size, rank
      <3> QED BY <1>3, <1>5, <3>1, <3>2, <3>3
    <2> QED BY <2>1, <2>2 DEF Injection, IsInjective
  <1>7. rank \in Surjection(kept, 1..size)
    <2>1. IsFiniteSet(1..size) /\ Cardinality(1..size) = size
      BY <1>3, FS_Interval
    <2> QED BY <1>6, <2>1, FS_Injection
  <1>8. \A n \in 1..size : \E i \in kept : Cardinality(below(i)) = n
    BY <1>7 DEF Surjection
  <1>9. \A n \in 1..size : pick[n] \in kept /\ Cardinality(below(pick[n])) = n
    BY <1>8
  <1>10. r = [n \in 1..size |-> s[pick[n]]]
    BY DEF Retained
  <1>11. \A m, n \in 1..size : m < n => pick[m] < pick[n]
    <2> SUFFICES ASSUME NEW m \in 1..size, NEW n \in 1..size, m < n, ~ (pick[m] < pick[n])
                 PROVE  FALSE
      OBVIOUS
    <2> HIDE DEF pick, below
    <2>1. pick[m] \in kept /\ pick[n] \in kept
      BY <1>9
    <2>2. pick[n] < pick[m] \/ pick[n] = pick[m]
      BY <1>1, <2>1
    <2>3. Cardinality(below(pick[m])) = m /\ Cardinality(below(pick[n])) = n
      BY <1>9
    <2>4. n < m \/ n = m
      BY <1>5, <2>1, <2>2, <2>3
    <2> QED BY <2>4, <1>3
  <1>12. \A i \in kept : \E n \in 1..size : pick[n] = i
    <2> SUFFICES ASSUME NEW i \in kept PROVE \E n \in 1..size : pick[n] = i
      OBVIOUS
    <2> DEFINE n == Cardinality(below(i))
    <2>1. n \in 1..size
      BY <1>4
    <2>2. pick[n] \in kept /\ Cardinality(below(pick[n])) = n
      BY <1>9, <2>1
    <2>3. pick[n] = i
      BY <1>6, <2>2 DEF Injection, IsInjective
    <2> QED BY <2>1, <2>3
  <1> HIDE DEF size, below, rank, pick, r
  <1>13. pick \in [1..size -> kept]
    BY <1>9 DEF pick
  <1>14. r \in Seq(S) /\ Len(r) = size /\ DOMAIN r = 1..size
    <2>1. \A n \in 1..size : s[pick[n]] \in S
      BY <1>13, <1>1
    <2> QED BY <1>10, <2>1, <1>3
  <1>15. \A n \in DOMAIN r : r[n] = s[pick[n]]
    BY <1>10, <1>14
  <1>16. Selects(r, s, kept)
    <2>1. pick \in [DOMAIN r -> kept]
      BY <1>13, <1>14
    <2>2. \A m, n \in DOMAIN r : m < n => pick[m] < pick[n]
      BY <1>11, <1>14
    <2>3. \A i \in kept : \E n \in DOMAIN r : pick[n] = i
      BY <1>12, <1>14
    <2> QED BY <1>15, <2>1, <2>2, <2>3 DEF Selects
  <1>17. Len(r) <= Len(s)
    BY <1>3, <1>14
  <1> QED BY <1>14, <1>16, <1>17 DEF r
-----------------------------------------------------------------------------
(***************************************************************************)
(* The limiter.  A log is in no order: handlers overtake each other on     *)
(* the way to the mutex.  What counts is which posts it stands for.        *)
(***************************************************************************)

\* The log of the cabinets C accounts for the posts adm at time t: each entry is the
\* stamp of one of them, in the order they were let through, and none of the last
\* ticks is without an entry.
Tracks(log, C, adm, t) ==
    \E post \in [DOMAIN log -> DOMAIN adm] :
        /\ \A i, j \in DOMAIN log : i < j => post[i] < post[j]
        /\ \A i \in DOMAIN log :
              /\ adm[post[i]].cabinet_id \in C
              /\ log[i] <= adm[post[i]].at /\ adm[post[i]].at <= log[i] + MaxDelay
        /\ \A k \in DOMAIN adm :
              adm[k].cabinet_id \in C /\ adm[k].at > t - (RATE_LIMIT_WINDOW - MaxDelay)
                 => \E i \in DOMAIN log : post[i] = k

LogOf(c) == IF c \in DOMAIN per_cabinet THEN per_cabinet[c] ELSE <<>>

Posts(t) == Seq([cabinet_id : Cabinets, at : 0..t])
InOrder(adm) == \A i, j \in DOMAIN adm : i <= j => adm[i].at <= adm[j].at

Admissions == admitted \in Posts(now) /\ InOrder(admitted)

Stamps ==
    \A h \in Handlers : request[h].at = "Stamped" =>
        request[h].stamp \in 0..now /\ now <= request[h].stamp + MaxDelay

\* No log is empty or beyond its limit, and there are not more logs than the cap.
Bounded ==
    /\ DOMAIN per_cabinet \subseteq Cabinets /\ IsFiniteSet(DOMAIN per_cabinet)
    /\ Cardinality(DOMAIN per_cabinet) <= RATE_KEYS_MAX
    /\ \A c \in DOMAIN per_cabinet :
          /\ per_cabinet[c] \in Seq(0..now)
          /\ Len(per_cabinet[c]) \in 1..RATE_LIMIT_MAX
    /\ global \in Seq(0..now) /\ Len(global) <= GLOBAL_RATE_LIMIT_MAX

Accounted ==
    /\ \A c \in Cabinets : Tracks(LogOf(c), {c}, admitted, now)
    /\ Tracks(global, Cabinets, admitted, now)

Limiter == now \in 0..MaxTime /\ Admissions /\ Stamps /\ Bounded /\ Accounted

LEMMA Numbers ==
    /\ RATE_LIMIT_MAX \in Nat \ {0} /\ GLOBAL_RATE_LIMIT_MAX \in Nat \ {0}
    /\ RATE_KEYS_MAX \in Nat \ {0}
    /\ MaxDelay \in Nat /\ MaxTime \in Nat /\ RATE_LIMIT_WINDOW \in Nat
  BY LeaderboardAssumption

LEMMA PostsType ==
    ASSUME NEW t \in Nat, NEW adm \in Posts(t)
    PROVE  /\ DOMAIN adm = 1..Len(adm) /\ Len(adm) \in Nat
           /\ \A k \in DOMAIN adm : /\ k \in Nat
                                    /\ adm[k].cabinet_id \in Cabinets
                                    /\ adm[k].at \in 0..t /\ adm[k].at \in Int
  <1> DEFINE P == [cabinet_id : Cabinets, at : 0..t]
  <1>1. adm \in Seq(P)
    BY DEF Posts
  <1>2. \A p \in P : p.cabinet_id \in Cabinets /\ p.at \in 0..t /\ p.at \in Int
    OBVIOUS
  <1> HIDE DEF P
  <1>3. DOMAIN adm = 1..Len(adm) /\ Len(adm) \in Nat /\ \A k \in DOMAIN adm : adm[k] \in P
    BY <1>1
  <1> QED BY <1>2, <1>3

\* retain forgets only what is out of the window.
LEMMA FreshTracks ==
    ASSUME NEW log \in Seq(Nat), NEW C, NEW t \in Nat, NEW adm \in Posts(t),
           NEW stamp \in Nat, stamp <= t, Tracks(log, C, adm, t)
    PROVE  Tracks(Fresh(stamp, log), C, adm, t)
  <1> DEFINE kept == {i \in DOMAIN log : IsFresh(stamp, log[i])}
             r == Fresh(stamp, log)
  <1>1. kept \in SUBSET DOMAIN log /\ r = Retained(log, kept)
    BY DEF Fresh
  <1> HIDE DEF r, kept
  <1>2. PICK p \in [DOMAIN r -> kept] :
              /\ \A m \in DOMAIN r : r[m] = log[p[m]]
              /\ \A m, n \in DOMAIN r : m < n => p[m] < p[n]
              /\ \A i \in kept : \E n \in DOMAIN r : p[n] = i
    <2>1. Selects(r, log, kept)
      BY <1>1, RetainedSelects
    <2> QED BY <2>1 DEF Selects
  <1>3. PICK post \in [DOMAIN log -> DOMAIN adm] :
        /\ \A i, j \in DOMAIN log : i < j => post[i] < post[j]
        /\ \A i \in DOMAIN log :
              /\ adm[post[i]].cabinet_id \in C
              /\ log[i] <= adm[post[i]].at /\ adm[post[i]].at <= log[i] + MaxDelay
        /\ \A k \in DOMAIN adm :
              adm[k].cabinet_id \in C /\ adm[k].at > t - (RATE_LIMIT_WINDOW - MaxDelay)
                 => \E i \in DOMAIN log : post[i] = k
    BY DEF Tracks
  <1> DEFINE q == [n \in DOMAIN r |-> post[p[n]]]
  <1>4. \A n \in DOMAIN r : p[n] \in DOMAIN log
    BY <1>1, <1>2
  <1>5. q \in [DOMAIN r -> DOMAIN adm]
    BY <1>3, <1>4
  <1>6. \A i, j \in DOMAIN r : i < j => q[i] < q[j]
    BY <1>2, <1>3, <1>4
  <1>7. \A i \in DOMAIN r :
              /\ adm[q[i]].cabinet_id \in C
              /\ r[i] <= adm[q[i]].at /\ adm[q[i]].at <= r[i] + MaxDelay
    BY <1>2, <1>3, <1>4
  <1>8. ASSUME NEW k \in DOMAIN adm, adm[k].cabinet_id \in C,
               adm[k].at > t - (RATE_LIMIT_WINDOW - MaxDelay)
        PROVE  \E i \in DOMAIN r : q[i] = k
    <2>1. PICK i \in DOMAIN log : post[i] = k
      BY <1>3, <1>8
    <2>2. adm[k].at <= log[i] + MaxDelay
      BY <1>3, <2>1
    <2>3. log[i] \in Nat /\ adm[k].at \in Int
      BY PostsType
    <2>4. stamp - log[i] < RATE_LIMIT_WINDOW
      BY <1>8, <2>2, <2>3, Numbers
    <2>5. i \in kept
      BY <2>4 DEF IsFresh, kept
    <2>6. PICK n \in DOMAIN r : p[n] = i
      BY <1>2, <2>5
    <2> QED BY <2>1, <2>6
  <1> QED BY <1>5, <1>6, <1>7, <1>8 DEF Tracks, r

\* Time alone only takes posts out of the window.
LEMMA LaterTracks ==
    ASSUME NEW log, NEW C, NEW t \in Nat, NEW adm \in Posts(t), Tracks(log, C, adm, t)
    PROVE  Tracks(log, C, adm, t + 1)
  <1>1. \A k \in DOMAIN adm : adm[k].at \in Int
    BY PostsType
  <1>2. \A k \in DOMAIN adm : adm[k].at > (t + 1) - (RATE_LIMIT_WINDOW - MaxDelay)
           => adm[k].at > t - (RATE_LIMIT_WINDOW - MaxDelay)
    BY <1>1, Numbers
  <1> QED BY <1>2 DEF Tracks

LEMMA OutOfWindow ==
    ASSUME NEW a \in Int, NEW b \in Int, NEW l \in Nat, NEW stamp \in Nat, NEW t \in Nat,
           a <= b, b <= l + MaxDelay, ~ (stamp - l < RATE_LIMIT_WINDOW), stamp <= t
    PROVE  ~ (a > t - (RATE_LIMIT_WINDOW - MaxDelay))
  BY Numbers

\* A log that is forgotten because its last entry is old has nothing to account for.
LEMMA EvictedTracks ==
    ASSUME NEW log \in Seq(Nat), NEW C, NEW t \in Nat, NEW adm \in Posts(t), InOrder(adm),
           NEW stamp \in Nat, stamp <= t, Tracks(log, C, adm, t),
           Len(log) >= 1, ~ IsFresh(stamp, Last(log))
    PROVE  Tracks(<<>>, C, adm, t)
  <1>1. PICK post \in [DOMAIN log -> DOMAIN adm] :
        /\ \A i, j \in DOMAIN log : i < j => post[i] < post[j]
        /\ \A i \in DOMAIN log :
              /\ adm[post[i]].cabinet_id \in C
              /\ log[i] <= adm[post[i]].at /\ adm[post[i]].at <= log[i] + MaxDelay
        /\ \A k \in DOMAIN adm :
              adm[k].cabinet_id \in C /\ adm[k].at > t - (RATE_LIMIT_WINDOW - MaxDelay)
                 => \E i \in DOMAIN log : post[i] = k
    BY DEF Tracks
  <1> DEFINE e == Len(log)
  <1>2. DOMAIN log = 1..e /\ e \in Nat /\ e \in DOMAIN log
    OBVIOUS
  <1>3. log[e] \in Nat /\ ~ (stamp - log[e] < RATE_LIMIT_WINDOW)
    BY <1>2 DEF IsFresh, Last
  <1>4. ASSUME NEW k \in DOMAIN adm, adm[k].cabinet_id \in C,
               adm[k].at > t - (RATE_LIMIT_WINDOW - MaxDelay)
        PROVE  FALSE
    <2>1. PICK i \in DOMAIN log : post[i] = k
      BY <1>1, <1>4
    <2>2. post[i] \in DOMAIN adm /\ post[e] \in DOMAIN adm
      BY <1>1, <1>2
    <2> HIDE DEF e
    <2>7. post[i] \in Nat /\ post[e] \in Nat
      BY <2>2, PostsType
    <2>3. post[i] <= post[e]
      <3>1. i = e \/ i < e
        BY <1>2
      <3> QED BY <1>1, <1>2, <2>7, <3>1
    <2>4. adm[k].at <= adm[post[e]].at
      BY <2>1, <2>2, <2>3 DEF InOrder
    <2>5. adm[post[e]].at <= log[e] + MaxDelay
      BY <1>1, <1>2
    <2>6. adm[k].at \in Int /\ adm[post[e]].at \in Int
      BY <2>2, PostsType
    <2> QED BY <1>3, <1>4, <2>4, <2>5, <2>6, OutOfWindow
  <1>5. [i \in {} |-> 1] \in [DOMAIN <<>> -> DOMAIN adm]
    OBVIOUS
  <1>6. DOMAIN <<>> = {}
    OBVIOUS
  <1> QED BY <1>4, <1>5, <1>6 DEF Tracks

\* A post that is let through is entered in its cabinet's log and in the log of all.
LEMMA AdmittedTracks ==
    ASSUME NEW log \in Seq(Nat), NEW C, NEW t \in Nat, NEW adm \in Posts(t),
           NEW stamp \in Nat, stamp <= t, t <= stamp + MaxDelay,
           Tracks(log, C, adm, t), NEW c \in C
    PROVE  Tracks(Append(log, stamp), C, Append(adm, [cabinet_id |-> c, at |-> t]), t)
  <1> DEFINE more == Append(adm, [cabinet_id |-> c, at |-> t])
             r == Append(log, stamp)
             e == Len(log) + 1
             f == Len(adm) + 1
  <1>1. PICK post \in [DOMAIN log -> DOMAIN adm] :
        /\ \A i, j \in DOMAIN log : i < j => post[i] < post[j]
        /\ \A i \in DOMAIN log :
              /\ adm[post[i]].cabinet_id \in C
              /\ log[i] <= adm[post[i]].at /\ adm[post[i]].at <= log[i] + MaxDelay
        /\ \A k \in DOMAIN adm :
              adm[k].cabinet_id \in C /\ adm[k].at > t - (RATE_LIMIT_WINDOW - MaxDelay)
                 => \E i \in DOMAIN log : post[i] = k
    BY DEF Tracks
  <1>2. /\ DOMAIN log = 1..(e - 1) /\ DOMAIN r = 1..e /\ e \in Nat \ {0}
        /\ r[e] = stamp /\ \A i \in DOMAIN log : r[i] = log[i]
    BY AppendProperties
  <1>3. /\ DOMAIN adm = 1..(f - 1) /\ DOMAIN more = 1..f /\ f \in Nat \ {0}
        /\ more[f] = [cabinet_id |-> c, at |-> t] /\ \A k \in DOMAIN adm : more[k] = adm[k]
    BY AppendProperties DEF Posts
  <1> HIDE DEF e, f, r, more
  <1> DEFINE q == [n \in DOMAIN r |-> IF n = e THEN f ELSE post[n]]
  <1>4. \A n \in DOMAIN r : n = e \/ n \in DOMAIN log
    BY <1>2
  <1>5. q \in [DOMAIN r -> DOMAIN more]
    BY <1>1, <1>2, <1>3, <1>4
  <1>6. ASSUME NEW i \in DOMAIN r, NEW j \in DOMAIN r, i < j PROVE q[i] < q[j]
    <2>1. i \in DOMAIN log /\ q[i] = post[i] /\ post[i] \in 1..(f - 1)
      BY <1>1, <1>2, <1>3, <1>6
    <2>2. CASE j = e
      BY <1>3, <2>1, <2>2
    <2>3. CASE j \in DOMAIN log
      <3>1. j # e
        BY <1>2, <2>3
      <3> QED BY <1>1, <1>6, <2>1, <2>3, <3>1
    <2> QED BY <1>4, <2>2, <2>3
  <1>7. ASSUME NEW i \in DOMAIN r
        PROVE  /\ more[q[i]].cabinet_id \in C
               /\ r[i] <= more[q[i]].at /\ more[q[i]].at <= r[i] + MaxDelay
    <2>1. CASE i = e
      BY <1>2, <1>3, <2>1
    <2>2. CASE i \in DOMAIN log /\ i # e
      <3>1. q[i] = post[i] /\ more[post[i]] = adm[post[i]] /\ r[i] = log[i]
        BY <1>1, <1>2, <1>3, <2>2
      <3> QED BY <1>1, <2>2, <3>1
    <2> QED BY <1>4, <2>1, <2>2
  <1>8. ASSUME NEW k \in DOMAIN more, more[k].cabinet_id \in C,
               more[k].at > t - (RATE_LIMIT_WINDOW - MaxDelay)
        PROVE  \E i \in DOMAIN r : q[i] = k
    <2>1. CASE k = f
      BY <1>2, <2>1
    <2>2. CASE k \in DOMAIN adm
      <3>1. PICK i \in DOMAIN log : post[i] = k
        BY <1>1, <1>3, <1>8, <2>2
      <3>2. i # e /\ i \in DOMAIN r
        BY <1>2
      <3> QED BY <3>1, <3>2
    <2> QED BY <1>3, <2>1, <2>2
  <1> QED BY <1>5, <1>6, <1>7, <1>8 DEF Tracks, r, more

\* The post of another cabinet does not concern a log.
LEMMA OtherTracks ==
    ASSUME NEW log, NEW C, NEW t \in Nat, NEW adm \in Posts(t),
           Tracks(log, C, adm, t), NEW c, c \notin C
    PROVE  Tracks(log, C, Append(adm, [cabinet_id |-> c, at |-> t]), t)
  <1> DEFINE more == Append(adm, [cabinet_id |-> c, at |-> t])
             f == Len(adm) + 1
  <1>1. PICK post \in [DOMAIN log -> DOMAIN adm] :
        /\ \A i, j \in DOMAIN log : i < j => post[i] < post[j]
        /\ \A i \in DOMAIN log :
              /\ adm[post[i]].cabinet_id \in C
              /\ log[i] <= adm[post[i]].at /\ adm[post[i]].at <= log[i] + MaxDelay
        /\ \A k \in DOMAIN adm :
              adm[k].cabinet_id \in C /\ adm[k].at > t - (RATE_LIMIT_WINDOW - MaxDelay)
                 => \E i \in DOMAIN log : post[i] = k
    BY DEF Tracks
  <1>3. /\ DOMAIN adm = 1..(f - 1) /\ DOMAIN more = 1..f /\ f \in Nat \ {0}
        /\ more[f] = [cabinet_id |-> c, at |-> t] /\ \A k \in DOMAIN adm : more[k] = adm[k]
    BY AppendProperties DEF Posts
  <1> HIDE DEF f, more
  <1>4. post \in [DOMAIN log -> DOMAIN more]
    BY <1>3
  <1>5. \A k \in DOMAIN more : more[k].cabinet_id \in C => k \in DOMAIN adm
    BY <1>3
  <1>6. \A i \in DOMAIN log :
              /\ more[post[i]].cabinet_id \in C
              /\ log[i] <= more[post[i]].at /\ more[post[i]].at <= log[i] + MaxDelay
    BY <1>1, <1>3
  <1>7. \A k \in DOMAIN more :
              more[k].cabinet_id \in C /\ more[k].at > t - (RATE_LIMIT_WINDOW - MaxDelay)
                 => \E i \in DOMAIN log : post[i] = k
    BY <1>1, <1>3, <1>5
  <1> QED BY <1>1, <1>4, <1>6, <1>7 DEF Tracks, more

-----------------------------------------------------------------------------
\* The posts of the cabinets C in the last n ticks.
Recent(C, adm, t, n) == {i \in DOMAIN adm : adm[i].cabinet_id \in C /\ adm[i].at > t - n}

LEMMA NotMore ==
    ASSUME NEW S, NEW T, IsFiniteSet(T), NEW f \in [S -> T],
           \A x, y \in S : f[x] = f[y] => x = y
    PROVE  /\ IsFiniteSet(S) /\ Cardinality(S) <= Cardinality(T)
           /\ Cardinality(S) \in Nat /\ Cardinality(T) \in Nat
  <1>1. f \in Injection(S, T)
    BY DEF Injection, IsInjective
  <1> QED BY <1>1, FS_Injection, FS_CardinalityType

LEMMA LogSize ==
    ASSUME NEW S, NEW log \in Seq(S)
    PROVE  IsFiniteSet(DOMAIN log) /\ Cardinality(DOMAIN log) = Len(log) /\ Len(log) \in Nat
  <1>1. DOMAIN log = 1..Len(log) /\ Len(log) \in Nat
    OBVIOUS
  <1> QED BY <1>1, FS_Interval

\* There are not more posts in the window than entries in the log.
LEMMA TrackedBound ==
    ASSUME NEW log \in Seq(Nat), NEW C, NEW t \in Nat, NEW adm \in Posts(t),
           Tracks(log, C, adm, t)
    PROVE  /\ Cardinality(Recent(C, adm, t, RATE_LIMIT_WINDOW - MaxDelay)) <= Len(log)
           /\ Cardinality(Recent(C, adm, t, RATE_LIMIT_WINDOW - MaxDelay)) \in Nat
  <1> DEFINE K == Recent(C, adm, t, RATE_LIMIT_WINDOW - MaxDelay)
  <1>1. PICK post \in [DOMAIN log -> DOMAIN adm] :
           \A k \in DOMAIN adm :
              adm[k].cabinet_id \in C /\ adm[k].at > t - (RATE_LIMIT_WINDOW - MaxDelay)
                 => \E i \in DOMAIN log : post[i] = k
    BY DEF Tracks
  <1> DEFINE f == [k \in K |-> CHOOSE i \in DOMAIN log : post[i] = k]
  <1>2. \A k \in K : \E i \in DOMAIN log : post[i] = k
    BY <1>1 DEF Recent
  <1>3. \A k \in K : f[k] \in DOMAIN log /\ post[f[k]] = k
    BY <1>2
  <1> HIDE DEF K
  <1>4. f \in [K -> DOMAIN log]
    BY <1>3
  <1> HIDE DEF f
  <1>5. \A x, y \in K : f[x] = f[y] => x = y
    BY <1>3
  <1>6. IsFiniteSet(DOMAIN log) /\ Cardinality(DOMAIN log) = Len(log)
    BY LogSize
  <1> QED BY <1>4, <1>5, <1>6, NotMore DEF K

\* The entries that are left are stamps of posts of the last window.
LEMMA TrackedDemand ==
    ASSUME NEW log \in Seq(Nat), NEW C, NEW t \in Nat, NEW adm \in Posts(t),
           NEW stamp \in Nat, t <= stamp + MaxDelay,
           \A i \in DOMAIN log : IsFresh(stamp, log[i]),
           Tracks(log, C, adm, t)
    PROVE  /\ Len(log) <= Cardinality(Recent(C, adm, t, RATE_LIMIT_WINDOW + MaxDelay))
           /\ Cardinality(Recent(C, adm, t, RATE_LIMIT_WINDOW + MaxDelay)) \in Nat
  <1> DEFINE J == Recent(C, adm, t, RATE_LIMIT_WINDOW + MaxDelay)
  <1>1. PICK post \in [DOMAIN log -> DOMAIN adm] :
        /\ \A i, j \in DOMAIN log : i < j => post[i] < post[j]
        /\ \A i \in DOMAIN log :
              /\ adm[post[i]].cabinet_id \in C
              /\ log[i] <= adm[post[i]].at /\ adm[post[i]].at <= log[i] + MaxDelay
    BY DEF Tracks
  <1>2. \A i \in DOMAIN log : post[i] \in J
    <2> SUFFICES ASSUME NEW i \in DOMAIN log PROVE post[i] \in J
      OBVIOUS
    <2>1. post[i] \in DOMAIN adm /\ adm[post[i]].cabinet_id \in C /\ log[i] <= adm[post[i]].at
      BY <1>1
    <2>2. adm[post[i]].at \in Int
      BY <2>1, PostsType
    <2>3. log[i] \in Nat /\ stamp - log[i] < RATE_LIMIT_WINDOW
      BY DEF IsFresh
    <2>4. adm[post[i]].at > t - (RATE_LIMIT_WINDOW + MaxDelay)
      BY <2>1, <2>2, <2>3, Numbers
    <2> QED BY <2>1, <2>4 DEF Recent
  <1>3. \A x, y \in DOMAIN log : post[x] = post[y] => x = y
    <2> SUFFICES ASSUME NEW x \in DOMAIN log, NEW y \in DOMAIN log, post[x] = post[y], x < y
                 PROVE  FALSE
      OBVIOUS
    <2>1. post[x] < post[y] /\ post[x] \in Nat
      BY <1>1, PostsType
    <2> QED BY <2>1
  <1>4. IsFiniteSet(DOMAIN log) /\ Cardinality(DOMAIN log) = Len(log)
    BY LogSize
  <1>5. IsFiniteSet(DOMAIN adm) /\ J \in SUBSET DOMAIN adm
    BY LogSize DEF Recent, Posts
  <1>6. IsFiniteSet(J)
    BY <1>5, FS_Subset
  <1> HIDE DEF J
  <1>7. post \in [DOMAIN log -> J]
    BY <1>2
  <1> QED BY <1>3, <1>4, <1>6, <1>7, NotMore DEF J

\* A cabinet whose key survives has a post in the last window.
LEMMA KeyDemand ==
    ASSUME NEW log \in Seq(Nat), NEW C, NEW t \in Nat, NEW adm \in Posts(t),
           NEW stamp \in Nat, t <= stamp + MaxDelay, Len(log) >= 1, IsFresh(stamp, Last(log)),
           Tracks(log, C, adm, t)
    PROVE  /\ Recent(C, adm, t, RATE_LIMIT_WINDOW + MaxDelay) # {}
           /\ Cardinality(Recent(C, adm, t, RATE_LIMIT_WINDOW + MaxDelay)) > 0
  <1> DEFINE J == Recent(C, adm, t, RATE_LIMIT_WINDOW + MaxDelay)
             e == Len(log)
  <1>1. PICK post \in [DOMAIN log -> DOMAIN adm] :
           \A i \in DOMAIN log :
              /\ adm[post[i]].cabinet_id \in C
              /\ log[i] <= adm[post[i]].at /\ adm[post[i]].at <= log[i] + MaxDelay
    BY DEF Tracks
  <1>2. e \in DOMAIN log
    OBVIOUS
  <1>3. log[e] \in Nat /\ stamp - log[e] < RATE_LIMIT_WINDOW
    BY <1>2 DEF IsFresh, Last
  <1> HIDE DEF e
  <1>4. post[e] \in DOMAIN adm /\ adm[post[e]].cabinet_id \in C /\ log[e] <= adm[post[e]].at
    BY <1>1, <1>2
  <1>5. adm[post[e]].at \in Int
    BY <1>4, PostsType
  <1>6. adm[post[e]].at > t - (RATE_LIMIT_WINDOW + MaxDelay)
    BY <1>3, <1>4, <1>5, Numbers
  <1>7. J # {}
    BY <1>4, <1>6 DEF Recent
  <1>8. IsFiniteSet(DOMAIN adm) /\ J \in SUBSET DOMAIN adm
    BY LogSize DEF Recent, Posts
  <1>9. IsFiniteSet(J)
    BY <1>8, FS_Subset
  <1> HIDE DEF J
  <1>10. Cardinality(J) \in Nat /\ Cardinality(J) # 0
    BY <1>7, <1>9, FS_CardinalityType, FS_EmptySet
  <1> QED BY <1>7, <1>10 DEF J

-----------------------------------------------------------------------------
\* What the limiter works with.
LEMMA LogsType ==
    ASSUME Limiter
    PROVE  /\ now \in Nat /\ admitted \in Posts(now) /\ InOrder(admitted)
           /\ global \in Seq(0..now) /\ global \in Seq(Nat)
           /\ \A c \in DOMAIN per_cabinet :
                 /\ c \in Cabinets
                 /\ per_cabinet[c] \in Seq(0..now) /\ per_cabinet[c] \in Seq(Nat)
                 /\ Len(per_cabinet[c]) \in 1..RATE_LIMIT_MAX
           /\ \A c \in Cabinets : LogOf(c) \in Seq(0..now) /\ LogOf(c) \in Seq(Nat)
  <1>1. now \in Nat
    BY Numbers DEF Limiter
  <1>2. \A s : s \in Seq(0..now) => s \in Seq(Nat)
    BY <1>1, SeqMonotonic
  <1>3. <<>> \in Seq(0..now) /\ <<>> \in Seq(Nat)
    OBVIOUS
  <1> QED BY <1>1, <1>2, <1>3 DEF Limiter, Bounded, Admissions, LogOf

LEMMA FreshType ==
    ASSUME NEW S, NEW log \in Seq(S), NEW stamp
    PROVE  /\ Fresh(stamp, log) \in Seq(S)
           /\ Len(Fresh(stamp, log)) <= Len(log)
           /\ Len(Fresh(stamp, log)) \in Nat
           /\ \A i \in DOMAIN Fresh(stamp, log) : IsFresh(stamp, Fresh(stamp, log)[i])
  <1> DEFINE kept == {i \in DOMAIN log : IsFresh(stamp, log[i])}
             r == Fresh(stamp, log)
  <1>1. kept \in SUBSET DOMAIN log /\ r = Retained(log, kept)
    BY DEF Fresh
  <1>2. \A i \in kept : IsFresh(stamp, log[i])
    OBVIOUS
  <1> HIDE DEF r, kept
  <1>3. r \in Seq(S) /\ Len(r) <= Len(log) /\ Selects(r, log, kept)
    BY <1>1, RetainedSelects
  <1>4. \A i \in DOMAIN r : \E k \in kept : r[i] = log[k]
    BY <1>3 DEF Selects
  <1>5. Len(r) \in Nat
    BY <1>3
  <1> QED BY <1>2, <1>3, <1>4, <1>5 DEF r

\* The log of the cabinet that posts, as retain leaves it.
LEMMA OwnLog ==
    ASSUME Limiter, NEW stamp \in 0..now, NEW c \in Cabinets
    PROVE  /\ Log(stamp, c) \in Seq(0..now) /\ Log(stamp, c) \in Seq(Nat)
           /\ Len(Log(stamp, c)) \in Nat /\ Len(Log(stamp, c)) <= RATE_LIMIT_MAX
           /\ \A i \in DOMAIN Log(stamp, c) : IsFresh(stamp, Log(stamp, c)[i])
           /\ Tracks(Log(stamp, c), {c}, admitted, now)
           /\ c \notin DOMAIN per_cabinet => Log(stamp, c) = <<>>
  <1>1. stamp \in Nat /\ stamp <= now /\ now \in Nat /\ admitted \in Posts(now)
    BY LogsType
  <1>2. Tracks(LogOf(c), {c}, admitted, now)
    BY DEF Limiter, Accounted
  <1>3. CASE c \in DOMAIN per_cabinet
    <2>1. Log(stamp, c) = Fresh(stamp, per_cabinet[c]) /\ LogOf(c) = per_cabinet[c]
      BY <1>3 DEF Log, LogOf
    <2>2. /\ per_cabinet[c] \in Seq(0..now) /\ per_cabinet[c] \in Seq(Nat)
          /\ Len(per_cabinet[c]) \in 1..RATE_LIMIT_MAX
      BY <1>3, LogsType
    <2>3. Log(stamp, c) \in Seq(0..now) /\ Log(stamp, c) \in Seq(Nat)
      BY <2>1, <2>2, FreshType
    <2>4. /\ Len(Log(stamp, c)) \in Nat /\ Len(Log(stamp, c)) <= Len(per_cabinet[c])
          /\ \A i \in DOMAIN Log(stamp, c) : IsFresh(stamp, Log(stamp, c)[i])
      BY <2>1, <2>2, FreshType
    <2>5. Tracks(Log(stamp, c), {c}, admitted, now)
      BY <1>1, <1>2, <2>1, <2>2, FreshTracks
    <2>6. Len(Log(stamp, c)) <= RATE_LIMIT_MAX
      BY <2>2, <2>4, Numbers
    <2> QED BY <1>3, <2>3, <2>4, <2>5, <2>6
  <1>4. CASE c \notin DOMAIN per_cabinet
    <2>1. Log(stamp, c) = <<>> /\ LogOf(c) = <<>>
      BY <1>4 DEF Log, LogOf
    <2>2. /\ <<>> \in Seq(0..now) /\ <<>> \in Seq(Nat) /\ Len(<<>>) = 0
          /\ DOMAIN <<>> = {} /\ 0 <= RATE_LIMIT_MAX
      BY Numbers
    <2> QED BY <1>2, <1>4, <2>1, <2>2
  <1> QED BY <1>3, <1>4

\* The keys that survive the clean-up; the others had nothing to account for.
LEMMA KeptKeys ==
    ASSUME Limiter, NEW stamp \in 0..now, NEW c \in Cabinets
    PROVE  /\ Kept(stamp, c) \subseteq DOMAIN per_cabinet
           /\ IsFiniteSet(Kept(stamp, c))
           /\ Cardinality(Kept(stamp, c)) \in Nat
           /\ Cardinality(Kept(stamp, c)) <= RATE_KEYS_MAX
           /\ c \in DOMAIN per_cabinet => Kept(stamp, c) = DOMAIN per_cabinet
           /\ ~ KeysFull(c) => Kept(stamp, c) = DOMAIN per_cabinet
           /\ KeysFull(c) => \A d \in Kept(stamp, c) : IsFresh(stamp, Last(per_cabinet[d]))
           /\ \A d \in Cabinets :
                 d \notin Kept(stamp, c) => Tracks(<<>>, {d}, admitted, now)
  <1>1. Kept(stamp, c) \in SUBSET DOMAIN per_cabinet
    BY DEF Kept
  <1>2. /\ IsFiniteSet(DOMAIN per_cabinet)
        /\ Cardinality(DOMAIN per_cabinet) <= RATE_KEYS_MAX
    BY DEF Limiter, Bounded
  <1>3. /\ IsFiniteSet(Kept(stamp, c)) /\ Cardinality(Kept(stamp, c)) \in Nat
        /\ Cardinality(Kept(stamp, c)) <= RATE_KEYS_MAX
    <2>1. Cardinality(DOMAIN per_cabinet) \in Nat
      BY <1>2, FS_CardinalityType
    <2>2. /\ IsFiniteSet(Kept(stamp, c))
          /\ Cardinality(Kept(stamp, c)) <= Cardinality(DOMAIN per_cabinet)
      BY <1>1, <1>2, FS_Subset
    <2>3. Cardinality(Kept(stamp, c)) \in Nat
      BY <2>2, FS_CardinalityType
    <2> QED BY <1>2, <2>1, <2>2, <2>3, Numbers
  <1>4. c \in DOMAIN per_cabinet => ~ KeysFull(c)
    BY DEF KeysFull
  <1>5. ~ KeysFull(c) => Kept(stamp, c) = DOMAIN per_cabinet
    BY DEF Kept
  <1>6. ASSUME NEW d \in Cabinets, d \notin Kept(stamp, c)
        PROVE  Tracks(<<>>, {d}, admitted, now)
    <2>1. Tracks(LogOf(d), {d}, admitted, now)
      BY DEF Limiter, Accounted
    <2>2. CASE d \notin DOMAIN per_cabinet
      BY <2>1, <2>2 DEF LogOf
    <2>3. CASE d \in DOMAIN per_cabinet
      <3>1. LogOf(d) = per_cabinet[d]
        BY <2>3 DEF LogOf
      <3>2. ~ IsFresh(stamp, Last(per_cabinet[d]))
        BY <1>6, <2>3 DEF Kept
      <3>3. per_cabinet[d] \in Seq(Nat) /\ Len(per_cabinet[d]) >= 1
        BY <2>3, LogsType, Numbers
      <3>4. now \in Nat /\ admitted \in Posts(now) /\ InOrder(admitted)
            /\ stamp \in Nat /\ stamp <= now
        BY LogsType
      <3> QED BY <2>1, <3>1, <3>2, <3>3, <3>4, EvictedTracks
    <2> QED BY <2>2, <2>3
  <1>7. KeysFull(c) => \A d \in Kept(stamp, c) : IsFresh(stamp, Last(per_cabinet[d]))
    BY DEF Kept
  <1> QED BY <1>1, <1>3, <1>4, <1>5, <1>6, <1>7

LEMMA AllLog ==
    ASSUME Limiter, NEW stamp \in 0..now
    PROVE  /\ Fresh(stamp, global) \in Seq(0..now) /\ Fresh(stamp, global) \in Seq(Nat)
           /\ Len(Fresh(stamp, global)) \in Nat
           /\ Len(Fresh(stamp, global)) <= GLOBAL_RATE_LIMIT_MAX
           /\ \A i \in DOMAIN Fresh(stamp, global) : IsFresh(stamp, Fresh(stamp, global)[i])
           /\ Tracks(Fresh(stamp, global), Cabinets, admitted, now)
  <1>1. /\ stamp \in Nat /\ stamp <= now /\ now \in Nat /\ admitted \in Posts(now)
        /\ global \in Seq(0..now) /\ global \in Seq(Nat)
    BY LogsType
  <1>2. Len(global) \in Nat /\ Len(global) <= GLOBAL_RATE_LIMIT_MAX
    BY <1>1 DEF Limiter, Bounded
  <1>3. Tracks(global, Cabinets, admitted, now)
    BY DEF Limiter, Accounted
  <1>4. Tracks(Fresh(stamp, global), Cabinets, admitted, now)
    BY <1>1, <1>3, FreshTracks
  <1>5. Fresh(stamp, global) \in Seq(0..now) /\ Fresh(stamp, global) \in Seq(Nat)
    BY <1>1, FreshType
  <1>6. /\ Len(Fresh(stamp, global)) \in Nat /\ Len(Fresh(stamp, global)) <= Len(global)
        /\ \A i \in DOMAIN Fresh(stamp, global) : IsFresh(stamp, Fresh(stamp, global)[i])
    BY <1>1, FreshType
  <1> QED BY <1>2, <1>4, <1>5, <1>6, Numbers

-----------------------------------------------------------------------------
\* What the handlers do besides keeps the stamps in order.
LEMMA StampsKept ==
    ASSUME Stamps, request \in [Handlers -> Requests], now' = now,
           NEW h \in Handlers, NEW r \in Requests, request' = [request EXCEPT ![h] = r],
           r.at = "Stamped" => r.stamp \in 0..now /\ now <= r.stamp + MaxDelay
    PROVE  Stamps'
  <1>1. \A g \in Handlers : request'[g] = IF g = h THEN r ELSE request[g]
    OBVIOUS
  <1> QED BY <1>1 DEF Stamps

LEMMA ElsewhereKeepsLimiter ==
    ASSUME Limiter, request \in [Handlers -> Requests], UNCHANGED <<now, rate, admitted>>,
           NEW h \in Handlers, NEW r \in Requests, request' = [request EXCEPT ![h] = r],
           r.at = "Stamped" => r.stamp \in 0..now /\ now <= r.stamp + MaxDelay
    PROVE  Limiter'
  <1>1. Stamps'
    BY StampsKept DEF Limiter
  <1>2. UNCHANGED <<now, per_cabinet, global, admitted>>
    BY DEF rate
  <1> QED BY <1>1, <1>2 DEF Limiter, Admissions, Bounded, Accounted, LogOf

\* The clock.
LEMMA TickKeepsLimiter ==
    ASSUME Limiter, Tick
    PROVE  Limiter'
  <1>1. /\ now \in Nat /\ now' = now + 1 /\ now' \in 0..MaxTime /\ now < MaxTime
        /\ UNCHANGED <<per_cabinet, global, request, admitted>>
    BY LogsType, Numbers DEF Tick, rate, history
  <1>2. admitted \in Posts(now) /\ InOrder(admitted)
    BY LogsType
  <1>3. 0..now \subseteq 0..now'
    BY <1>1
  <1>4. \A s : s \in Seq(0..now) => s \in Seq(0..now')
    BY <1>3, SeqMonotonic
  <1>5. Admissions'
    <2>1. [cabinet_id : Cabinets, at : 0..now] \subseteq [cabinet_id : Cabinets, at : 0..now']
      BY <1>3
    <2>2. admitted \in Seq([cabinet_id : Cabinets, at : 0..now'])
      BY <1>2, <2>1, SeqMonotonic DEF Posts
    <2> QED BY <1>1, <1>2, <2>2 DEF Admissions, Posts, InOrder
  <1>6. Stamps'
    <2> SUFFICES ASSUME NEW h \in Handlers, request[h].at = "Stamped"
                 PROVE  request[h].stamp \in 0..now' /\ now' <= request[h].stamp + MaxDelay
      BY <1>1 DEF Stamps
    <2>1. request[h].stamp \in 0..now /\ now - request[h].stamp < MaxDelay
      BY DEF Limiter, Stamps, Tick
    <2> QED BY <1>1, <2>1, Numbers
  <1>7. Bounded'
    BY <1>1, <1>4 DEF Limiter, Bounded
  <1>8. Accounted'
    <2>1. \A c \in Cabinets : LogOf(c)' = LogOf(c)
      BY <1>1 DEF LogOf
    <2>2. \A c \in Cabinets : Tracks(LogOf(c), {c}, admitted, now + 1)
      BY <1>1, <1>2, LaterTracks DEF Limiter, Accounted
    <2>3. Tracks(global, Cabinets, admitted, now + 1)
      BY <1>1, <1>2, LaterTracks DEF Limiter, Accounted
    <2> QED BY <1>1, <2>1, <2>2, <2>3 DEF Accounted
  <1> QED BY <1>1, <1>5, <1>6, <1>7, <1>8 DEF Limiter

\* One more post is let through.
LEMMA AdmissionsGrow ==
    ASSUME Limiter, now' = now, NEW c \in Cabinets,
           admitted' = Append(admitted, [cabinet_id |-> c, at |-> now])
    PROVE  Admissions'
  <1> DEFINE p == [cabinet_id |-> c, at |-> now]
             P == [cabinet_id : Cabinets, at : 0..now]
  <1>1. now \in Nat /\ admitted \in Seq(P) /\ InOrder(admitted)
    BY LogsType DEF Posts
  <1>2. p \in P
    BY <1>1
  <1>3. \A i \in DOMAIN admitted : admitted[i].at \in Int /\ admitted[i].at <= now
    <2>1. admitted \in Posts(now)
      BY LogsType
    <2> HIDE DEF P
    <2> QED BY <1>1, <2>1, PostsType
  <1>4. p.at = now
    OBVIOUS
  <1> HIDE DEF p, P
  <1>5. /\ admitted' \in Seq(P)
        /\ DOMAIN admitted = 1..Len(admitted) /\ Len(admitted) \in Nat
        /\ DOMAIN admitted' = 1..(Len(admitted) + 1)
        /\ admitted'[Len(admitted) + 1] = p
        /\ \A i \in 1..Len(admitted) : admitted'[i] = admitted[i]
    BY <1>1, <1>2, AppendProperties DEF p
  <1>6. InOrder(admitted')
    <2> SUFFICES ASSUME NEW i \in DOMAIN admitted', NEW j \in DOMAIN admitted', i <= j
                 PROVE  admitted'[i].at <= admitted'[j].at
      BY DEF InOrder
    <2>1. CASE j = Len(admitted) + 1
      <3>1. i = j \/ i \in DOMAIN admitted
        BY <1>5, <2>1
      <3> QED BY <1>1, <1>3, <1>4, <1>5, <2>1, <3>1
    <2>2. CASE j \in DOMAIN admitted
      <3>1. i \in DOMAIN admitted
        BY <1>5, <2>2
      <3> QED BY <1>1, <1>5, <2>2, <3>1 DEF InOrder
    <2> QED BY <1>5, <2>1, <2>2
  <1> QED BY <1>5, <1>6 DEF Admissions, Posts, P

\* What the four ways through rate_check do to the limiter.  own, kept and all are
\* what is left of its logs.
LEMMA RefusedByAll ==
    ASSUME Limiter, NEW stamp \in 0..now, UNCHANGED <<now, per_cabinet, admitted>>,
           global' = Fresh(stamp, global), Stamps'
    PROVE  Limiter'
  <1>1. Bounded'
    BY AllLog DEF Limiter, Bounded
  <1>2. Accounted'
    BY AllLog DEF Limiter, Accounted, LogOf
  <1> QED BY <1>1, <1>2 DEF Limiter, Admissions

LEMMA RefusedByCabinet ==
    ASSUME Limiter, NEW stamp \in 0..now, NEW c \in Cabinets, UNCHANGED <<now, admitted>>,
           Len(Log(stamp, c)) >= RATE_LIMIT_MAX,
           per_cabinet' = [per_cabinet EXCEPT ![c] = Log(stamp, c)],
           global' = Fresh(stamp, global), Stamps'
    PROVE  Limiter'
  <1> DEFINE own == Log(stamp, c)
  <1>1. /\ own \in Seq(0..now) /\ Len(own) \in Nat /\ Len(own) <= RATE_LIMIT_MAX
        /\ Tracks(own, {c}, admitted, now)
        /\ c \notin DOMAIN per_cabinet => own = <<>>
    BY OwnLog
  <1>2. c \in DOMAIN per_cabinet
    <2>1. Len(<<>>) = 0
      OBVIOUS
    <2> QED BY <1>1, <2>1, Numbers
  <1>3. Len(own) \in 1..RATE_LIMIT_MAX
    BY <1>1, Numbers
  <1> HIDE DEF own
  <1>4. /\ DOMAIN per_cabinet' = DOMAIN per_cabinet
        /\ \A d \in DOMAIN per_cabinet :
              per_cabinet'[d] = IF d = c THEN own ELSE per_cabinet[d]
    BY DEF own
  <1>5. Bounded'
    BY <1>1, <1>3, <1>4, AllLog DEF Limiter, Bounded
  <1>6. \A d \in Cabinets : LogOf(d)' = IF d = c THEN own ELSE LogOf(d)
    BY <1>2, <1>4 DEF LogOf
  <1>7. Accounted'
    BY <1>1, <1>6, AllLog DEF Limiter, Accounted
  <1> QED BY <1>5, <1>7 DEF Limiter, Admissions

LEMMA RefusedByKeys ==
    ASSUME Limiter, NEW stamp \in 0..now, NEW c \in Cabinets, UNCHANGED <<now, admitted>>,
           per_cabinet' = [d \in Kept(stamp, c) |-> per_cabinet[d]],
           global' = Fresh(stamp, global), Stamps'
    PROVE  Limiter'
  <1> DEFINE kept == Kept(stamp, c)
  <1>1. /\ kept \subseteq DOMAIN per_cabinet /\ IsFiniteSet(kept)
        /\ Cardinality(kept) <= RATE_KEYS_MAX
        /\ \A d \in Cabinets : d \notin kept => Tracks(<<>>, {d}, admitted, now)
    BY KeptKeys
  <1> HIDE DEF kept
  <1>2. DOMAIN per_cabinet' = kept /\ \A d \in kept : per_cabinet'[d] = per_cabinet[d]
    BY DEF kept
  <1>3. Bounded'
    BY <1>1, <1>2, AllLog DEF Limiter, Bounded
  <1>4. \A d \in Cabinets : LogOf(d)' = IF d \in kept THEN LogOf(d) ELSE <<>>
    BY <1>1, <1>2 DEF LogOf
  <1>5. Accounted'
    BY <1>1, <1>4, AllLog DEF Limiter, Accounted
  <1> QED BY <1>3, <1>5 DEF Limiter, Admissions

LEMMA LetThrough ==
    ASSUME Limiter, NEW stamp \in 0..now, now <= stamp + MaxDelay, NEW c \in Cabinets,
           now' = now,
           KeysFull(c) => Cardinality(Kept(stamp, c)) < RATE_KEYS_MAX,
           Len(Log(stamp, c)) < RATE_LIMIT_MAX,
           ~ (Len(Fresh(stamp, global)) >= GLOBAL_RATE_LIMIT_MAX),
           per_cabinet' = [d \in Kept(stamp, c) \cup {c} |->
                              IF d = c THEN Append(Log(stamp, c), stamp) ELSE per_cabinet[d]],
           global' = Append(Fresh(stamp, global), stamp),
           admitted' = Append(admitted, [cabinet_id |-> c, at |-> now]), Stamps'
    PROVE  Limiter'
  <1> DEFINE own == Log(stamp, c)
             kept == Kept(stamp, c)
             all == Fresh(stamp, global)
  <1>0. stamp \in Nat /\ stamp <= now /\ now \in Nat /\ admitted \in Posts(now)
    BY LogsType
  <1>1. /\ own \in Seq(0..now) /\ own \in Seq(Nat) /\ Len(own) \in Nat
        /\ Tracks(own, {c}, admitted, now)
    BY OwnLog
  <1>2. /\ kept \subseteq DOMAIN per_cabinet /\ IsFiniteSet(kept)
        /\ Cardinality(kept) \in Nat /\ Cardinality(kept) <= RATE_KEYS_MAX
        /\ c \in DOMAIN per_cabinet => kept = DOMAIN per_cabinet
        /\ ~ KeysFull(c) => kept = DOMAIN per_cabinet
        /\ \A d \in Cabinets : d \notin kept => Tracks(<<>>, {d}, admitted, now)
    BY KeptKeys
  <1>3. /\ all \in Seq(0..now) /\ all \in Seq(Nat) /\ Len(all) \in Nat
        /\ Tracks(all, Cabinets, admitted, now)
    BY AllLog
  <1> HIDE DEF own, kept, all
  <1>4. /\ DOMAIN per_cabinet' = kept \cup {c}
        /\ \A d \in kept \cup {c} :
              per_cabinet'[d] = IF d = c THEN Append(own, stamp) ELSE per_cabinet[d]
    BY DEF own, kept
  <1>5. /\ Append(own, stamp) \in Seq(0..now) /\ Len(Append(own, stamp)) = Len(own) + 1
        /\ Append(all, stamp) \in Seq(0..now) /\ Len(Append(all, stamp)) = Len(all) + 1
    BY <1>1, <1>3
  <1>6. IsFiniteSet(kept \cup {c}) /\ Cardinality(kept \cup {c}) <= RATE_KEYS_MAX
    <2>1. /\ IsFiniteSet(kept \cup {c})
          /\ Cardinality(kept \cup {c})
                = IF c \in kept THEN Cardinality(kept) ELSE Cardinality(kept) + 1
      BY <1>2, FS_AddElement
    <2>2. c \notin kept => Cardinality(kept) < RATE_KEYS_MAX
      <3>1. CASE KeysFull(c)
        BY <3>1 DEF kept
      <3>2. CASE ~ KeysFull(c) /\ c \notin kept
        <4>1. kept = DOMAIN per_cabinet
          BY <1>2, <3>2
        <4> QED BY <1>2, <3>2, <4>1, Numbers DEF KeysFull
      <3> QED BY <3>1, <3>2
    <2> QED BY <1>2, <2>1, <2>2, Numbers
  <1>7. Bounded'
    <2>1. \A d \in kept \cup {c} : d \in Cabinets
      BY <1>2 DEF Limiter, Bounded
    <2>2. Len(Append(own, stamp)) \in 1..RATE_LIMIT_MAX
      BY <1>1, <1>5, Numbers DEF own
    <2>3. Len(Append(all, stamp)) <= GLOBAL_RATE_LIMIT_MAX
      BY <1>3, <1>5, Numbers DEF all
    <2>4. \A d \in DOMAIN per_cabinet' : /\ per_cabinet'[d] \in Seq(0..now')
                                         /\ Len(per_cabinet'[d]) \in 1..RATE_LIMIT_MAX
      BY <1>2, <1>4, <1>5, <2>2 DEF Limiter, Bounded
    <2>5. global' \in Seq(0..now') /\ Len(global') <= GLOBAL_RATE_LIMIT_MAX
      BY <1>5, <2>3 DEF all
    <2> QED BY <1>4, <1>6, <2>1, <2>4, <2>5 DEF Bounded
  <1>8. Tracks(Append(own, stamp), {c}, admitted', now)
    BY <1>0, <1>1, AdmittedTracks
  <1>9. Tracks(Append(all, stamp), Cabinets, admitted', now)
    BY <1>0, <1>3, AdmittedTracks
  <1>10. \A d \in Cabinets : d # c =>
            LogOf(d)' = IF d \in kept THEN LogOf(d) ELSE <<>>
    BY <1>2, <1>4 DEF LogOf
  <1>11. LogOf(c)' = Append(own, stamp)
    BY <1>4 DEF LogOf
  <1>12. ASSUME NEW d \in Cabinets, d # c PROVE Tracks(LogOf(d)', {d}, admitted', now)
    <2>1. Tracks(LogOf(d)', {d}, admitted, now)
      BY <1>2, <1>10, <1>12 DEF Limiter, Accounted
    <2>2. c \notin {d}
      BY <1>12
    <2> QED BY <1>0, <2>1, <2>2, OtherTracks
  <1>13. Accounted'
    BY <1>8, <1>9, <1>11, <1>12 DEF Accounted, all
  <1>14. Admissions'
    BY AdmissionsGrow
  <1> QED BY <1>7, <1>13, <1>14 DEF Limiter

\* rate_check, whichever way it goes.
LEMMA RateCheckKeepsLimiter ==
    ASSUME Limiter, request \in [Handlers -> Requests], NEW h \in Handlers, RateCheck(h)
    PROVE  Limiter'
  <1> DEFINE stamp == request[h].stamp
             c == request[h].sub.cabinet_id
             passed == [at |-> "Admitted", sub |-> request[h].sub]
  <1>1. request[h].at = "Stamped" /\ request[h].sub \in Submissions
    BY DEF RateCheck, Requests
  <1>2. stamp \in 0..now /\ now <= stamp + MaxDelay /\ c \in Cabinets
    BY <1>1 DEF Limiter, Stamps, Cabinets
  <1>3. /\ Over \in Requests /\ Over.at # "Stamped"
        /\ passed \in Requests /\ passed.at # "Stamped"
    BY <1>1 DEF Requests, Over
  <1>4. now' = now
    BY DEF RateCheck
  <1>5. Stamps'
    <2>1. \/ request' = [request EXCEPT ![h] = Over]
          \/ request' = [request EXCEPT ![h] = passed]
      BY DEF RateCheck, Admit, OverKeys, OverCabinet, Fails, Moves
    <2>2. CASE request' = [request EXCEPT ![h] = Over]
      BY <1>3, <1>4, <2>2, StampsKept DEF Limiter
    <2>3. CASE request' = [request EXCEPT ![h] = passed]
      <3> HIDE DEF passed
      <3> QED BY <1>3, <1>4, <2>3, StampsKept DEF Limiter
    <2> QED BY <2>1, <2>2, <2>3
  <1> DEFINE all == Fresh(stamp, global)
             own == Log(stamp, c)
             kept == Kept(stamp, c)
  <1>6. \/ global' = all /\ UNCHANGED <<per_cabinet, history>>
        \/ ~ (Len(all) >= GLOBAL_RATE_LIMIT_MAX) /\ Admit(h, own, kept, stamp, c)
           /\ global' = Append(all, stamp)
        \/ OverKeys(h, own, kept, c) /\ global' = all
        \/ OverCabinet(h, own, c) /\ global' = all
    BY DEF RateCheck
  <1> HIDE DEF stamp, c
  <1>7. CASE global' = all /\ UNCHANGED <<per_cabinet, history>>
    BY <1>2, <1>4, <1>5, <1>7, RefusedByAll DEF history
  <1>8. CASE ~ (Len(all) >= GLOBAL_RATE_LIMIT_MAX) /\ Admit(h, own, kept, stamp, c)
             /\ global' = Append(all, stamp)
    BY <1>2, <1>4, <1>5, <1>8, LetThrough DEF Admit
  <1>9. CASE OverKeys(h, own, kept, c) /\ global' = all
    BY <1>2, <1>4, <1>5, <1>9, RefusedByKeys DEF OverKeys, history
  <1>10. CASE OverCabinet(h, own, c) /\ global' = all
    BY <1>2, <1>4, <1>5, <1>10, RefusedByCabinet DEF OverCabinet, history
  <1> QED BY <1>6, <1>7, <1>8, <1>9, <1>10

\* One case per operation of a handler, and the clock.
LEMMA NextKeepsLimiter ==
    ASSUME IInv, Limiter, Next
    PROVE  Limiter'
  <1>0. request \in [Handlers -> Requests] /\ now \in Nat
    BY DEF IInv, Types
  <1>1. ASSUME NEW h \in Handlers, NEW r \in Requests, r.at # "Stamped",
               request' = [request EXCEPT ![h] = r], UNCHANGED <<now, rate, admitted>>
        PROVE  Limiter'
    BY <1>0, <1>1, ElsewhereKeepsLimiter
  <1>2. Over \in Requests /\ Over.at # "Stamped"
    BY DEF Requests, Over
  <1>3. ASSUME NEW h \in Handlers, NEW sub \in Submissions, Post(h, sub)
        PROVE  Limiter'
    <2> DEFINE r == [at |-> "Stamped", sub |-> sub, stamp |-> now]
    <2>1. r \in Requests /\ r.stamp = now
      BY <1>0 DEF Requests
    <2>2. request' = [request EXCEPT ![h] = r] /\ UNCHANGED <<now, rate, admitted>>
      BY <1>3 DEF Post, history
    <2>3. r.stamp \in 0..now /\ now <= r.stamp + MaxDelay
      BY <1>0, <2>1, Numbers
    <2> HIDE DEF r
    <2> QED BY <1>0, <2>1, <2>2, <2>3, ElsewhereKeepsLimiter
  <1>4. ASSUME NEW h \in Handlers, RateCheck(h) PROVE Limiter'
    BY <1>0, <1>4, RateCheckKeepsLimiter
  <1>5. ASSUME NEW h \in Handlers, Insert(h) PROVE Limiter'
    <2> DEFINE at == IF request[h].sub.session \in Stored THEN "Conflict" ELSE "Writing"
               r == [at |-> at, sub |-> request[h].sub]
    <2>1. request[h].sub \in Submissions
      BY <1>5, RequestType DEF Insert, IInv
    <2>2. r \in Requests /\ r.at # "Stamped"
      BY <2>1 DEF Requests
    <2>3. request' = [request EXCEPT ![h] = r] /\ UNCHANGED <<now, rate, admitted>>
      BY <1>5 DEF Insert, Moves, history
    <2> QED BY <1>1, <2>2, <2>3
  <1>6. ASSUME NEW h \in Handlers, NEW at \in {"Created", "Ok"}, NEW sub \in Submissions,
               Confirms(h, at, sub), UNCHANGED <<now, rate, admitted>>
        PROVE  Limiter'
    <2> DEFINE r == [at |-> at, sub |-> sub]
    <2>1. r \in Requests /\ r.at # "Stamped"
      BY DEF Requests
    <2>2. request' = [request EXCEPT ![h] = r]
      BY <1>6 DEF Confirms
    <2> QED BY <1>1, <1>6, <2>1, <2>2
  <1>7. ASSUME NEW h \in Handlers, Commit(h) PROVE Limiter'
    <2>1. request[h].sub \in Submissions
      BY <1>7, RequestType DEF Commit, IInv
    <2> QED BY <1>6, <1>7, <2>1 DEF Commit
  <1>8. ASSUME NEW h \in Handlers, Fetch(h) PROVE Limiter'
    <2>1. request[h].sub.session \in Stored /\ runs \in Seq(Submissions)
      BY <1>8 DEF Fetch, IInv, LockHeld, Types
    <2>2. Record(request[h].sub.session) \in Submissions
      BY <2>1, RecordStored
    <2> QED BY <1>6, <1>8, <2>2 DEF Fetch
  <1>9. ASSUME NEW h \in Handlers, Fail(h) \/ HangUp(h) PROVE Limiter'
    BY <1>1, <1>2, <1>9 DEF Fail, HangUp, Fails, history
  <1>10. CASE Tick
    BY <1>10, TickKeepsLimiter
  <1> QED BY <1>3, <1>4, <1>5, <1>7, <1>8, <1>9, <1>10 DEF Next

\* The logs account for the posts that were let through, whichever handlers overtake
\* each other and whichever keys are evicted.
THEOREM LimiterAccounts == Spec => []Limiter
  <1>1. Init => Limiter
    <2> SUFFICES ASSUME Init PROVE Limiter
      OBVIOUS
    <2>1. /\ now = 0 /\ now \in 0..MaxTime /\ global = <<>> /\ admitted = <<>>
          /\ DOMAIN per_cabinet = {} /\ \A h \in Handlers : request[h] = Over
      BY Numbers DEF Init
    <2>2. Admissions
      BY <2>1 DEF Admissions, Posts, InOrder
    <2>3. Stamps
      BY <2>1 DEF Stamps, Over
    <2>4. Bounded
      BY <2>1, Numbers, FS_EmptySet DEF Bounded
    <2>5. Accounted
      <3>1. \A c \in Cabinets : LogOf(c) = <<>>
        BY <2>1 DEF LogOf
      <3>2. DOMAIN <<>> = {} /\ <<>> \in [{} -> {}]
        OBVIOUS
      <3>3. \A C : Tracks(<<>>, C, <<>>, 0)
        BY <3>2 DEF Tracks
      <3> QED BY <2>1, <3>1, <3>3 DEF Accounted
    <2> QED BY <2>1, <2>2, <2>3, <2>4, <2>5 DEF Limiter
  <1>2. ASSUME IInv, Limiter, [Next]_vars PROVE Limiter'
    <2>1. CASE UNCHANGED vars
      <3>1. UNCHANGED <<now, per_cabinet, global, request, admitted>>
        BY <2>1 DEF vars, rate, history
      <3> QED BY <1>2, <3>1 DEF Limiter, Admissions, Stamps, Bounded, Accounted, LogOf
    <2> QED BY <1>2, <2>1, NextKeepsLimiter
  <1> QED BY <1>1, <1>2, LockDiscipline, PTL DEF Spec

\* TypeOK, for every value of the constants.
THEOREM TypeCorrect == Spec => []TypeOK
  <1>1. ASSUME IInv, Limiter PROVE TypeOK
    <2>1. now \in 0..MaxTime /\ DOMAIN per_cabinet \subseteq Cabinets /\ global \in Seq(0..now)
      BY <1>1 DEF Limiter, Bounded
    <2>2. \A c \in DOMAIN per_cabinet : per_cabinet[c] \in Seq(0..now) /\ per_cabinet[c] # <<>>
      <3> SUFFICES ASSUME NEW c \in DOMAIN per_cabinet
                   PROVE  per_cabinet[c] \in Seq(0..now) /\ per_cabinet[c] # <<>>
        OBVIOUS
      <3>1. per_cabinet[c] \in Seq(0..now) /\ Len(per_cabinet[c]) \in 1..RATE_LIMIT_MAX
        BY <1>1 DEF Limiter, Bounded
      <3>2. Len(<<>>) = 0
        OBVIOUS
      <3> QED BY <3>1, <3>2
    <2>3. \A h \in Handlers :
             /\ request[h].at \in {"Stamped", "Admitted", "Writing", "Conflict",
                                   "Created", "Ok", "Over"}
             /\ request[h].at = "Stamped" => request[h].stamp \in 0..now
             /\ request[h].at = "Conflict" => request[h].sub.session \in Stored
      <3>1. \A r \in Requests : r.at \in {"Stamped", "Admitted", "Writing", "Conflict",
                                          "Created", "Ok", "Over"}
        BY DEF Requests
      <3> QED BY <1>1, <3>1 DEF IInv, Types, Limiter, Stamps, LockHeld
    <2>4. runs \in Seq(Submissions)
      BY <1>1 DEF IInv, Types
    <2>5. told \subseteq {sub.session : sub \in Submissions}
      BY <1>1, <2>4 DEF IInv, AnswersTruthful, Stored
    <2> QED BY <2>1, <2>2, <2>3, <2>4, <2>5 DEF TypeOK
  <1> QED BY <1>1, LockDiscipline, LimiterAccounts, PTL

\* RateBounded, for every value of the constants: no window lets more posts through
\* than the limits say.
THEOREM RateBoundedSafe == Spec => []RateBounded
  <1>1. ASSUME Limiter PROVE RateBounded
    <2>1. /\ now \in Nat /\ admitted \in Posts(now)
          /\ global \in Seq(Nat) /\ \A c \in Cabinets : LogOf(c) \in Seq(Nat)
      BY <1>1, LogsType
    <2>2. ASSUME NEW c \in Cabinets
          PROVE  Admitted({c}, RATE_LIMIT_WINDOW - MaxDelay) <= RATE_LIMIT_MAX
      <3>1. Tracks(LogOf(c), {c}, admitted, now)
        BY <1>1 DEF Limiter, Accounted
      <3>2. Len(LogOf(c)) \in Nat /\ Len(LogOf(c)) <= RATE_LIMIT_MAX
        <4>1. CASE c \in DOMAIN per_cabinet
          BY <1>1, <4>1, Numbers DEF LogOf, Limiter, Bounded
        <4>2. CASE c \notin DOMAIN per_cabinet
          <5>1. LogOf(c) = <<>> /\ Len(<<>>) = 0
            BY <4>2 DEF LogOf
          <5> QED BY <5>1, Numbers
        <4> QED BY <4>1, <4>2
      <3>3. /\ Cardinality(Recent({c}, admitted, now, RATE_LIMIT_WINDOW - MaxDelay))
                  <= Len(LogOf(c))
            /\ Cardinality(Recent({c}, admitted, now, RATE_LIMIT_WINDOW - MaxDelay)) \in Nat
        BY <2>1, <3>1, TrackedBound
      <3>4. Cardinality(Recent({c}, admitted, now, RATE_LIMIT_WINDOW - MaxDelay))
               <= RATE_LIMIT_MAX
        BY <3>2, <3>3, Numbers
      <3> QED BY <3>4 DEF Admitted, Recent
    <2>3. Admitted(Cabinets, RATE_LIMIT_WINDOW - MaxDelay) <= GLOBAL_RATE_LIMIT_MAX
      <3>1. Tracks(global, Cabinets, admitted, now)
        BY <1>1 DEF Limiter, Accounted
      <3>2. Len(global) \in Nat /\ Len(global) <= GLOBAL_RATE_LIMIT_MAX
        BY <1>1, <2>1 DEF Limiter, Bounded
      <3>3. /\ Cardinality(Recent(Cabinets, admitted, now, RATE_LIMIT_WINDOW - MaxDelay))
                  <= Len(global)
            /\ Cardinality(Recent(Cabinets, admitted, now, RATE_LIMIT_WINDOW - MaxDelay)) \in Nat
        BY <2>1, <3>1, TrackedBound
      <3>4. Cardinality(Recent(Cabinets, admitted, now, RATE_LIMIT_WINDOW - MaxDelay))
               <= GLOBAL_RATE_LIMIT_MAX
        BY <3>2, <3>3, Numbers
      <3> QED BY <3>4 DEF Admitted, Recent
    <2> QED BY <1>1, <2>2, <2>3 DEF RateBounded, Limiter, Bounded
  <1> QED BY <1>1, LimiterAccounts, PTL

-----------------------------------------------------------------------------
\* The cabinets whose keys a refusal for want of room finds in use all have posts in
\* the last window.
LEMMA KeysInUse ==
    ASSUME Limiter, NEW stamp \in 0..now, now <= stamp + MaxDelay, NEW c \in Cabinets,
           KeysFull(c)
    PROVE  LET D == {d \in Cabinets \ {c} : Admitted({d}, RATE_LIMIT_WINDOW + MaxDelay) > 0}
           IN  Cardinality(Kept(stamp, c)) <= Cardinality(D) /\ Cardinality(D) \in Nat
  <1> DEFINE J(d) == Recent({d}, admitted, now, RATE_LIMIT_WINDOW + MaxDelay)
             D == {d \in Cabinets \ {c} : Cardinality(J(d)) > 0}
             f == [d \in D |-> CHOOSE i \in J(d) : TRUE]
  <1>1. now \in Nat /\ admitted \in Posts(now) /\ stamp \in Nat
    BY LogsType
  <1>2. \A d \in D : J(d) # {}
    <2>1. Cardinality({}) = 0
      BY FS_EmptySet
    <2> QED BY <2>1
  <1>3. \A d \in D : f[d] \in J(d)
    BY <1>2
  <1>4. \A d \in D : f[d] \in DOMAIN admitted /\ admitted[f[d]].cabinet_id = d
    BY <1>3 DEF Recent
  <1>5. IsFiniteSet(DOMAIN admitted)
    BY <1>1, LogSize DEF Posts
  <1>6. f \in [D -> DOMAIN admitted]
    BY <1>4
  <1> HIDE DEF f
  <1>7. \A x, y \in D : f[x] = f[y] => x = y
    BY <1>4
  <1>8. IsFiniteSet(D) /\ Cardinality(D) \in Nat
    <2> HIDE DEF D
    <2> QED BY <1>5, <1>6, <1>7, NotMore
  <1>9. Kept(stamp, c) \subseteq D
    <2> SUFFICES ASSUME NEW d \in Kept(stamp, c) PROVE d \in D
      OBVIOUS
    <2>1. d \in DOMAIN per_cabinet /\ IsFresh(stamp, Last(per_cabinet[d]))
      BY KeptKeys
    <2>2. d \in Cabinets /\ d # c
      BY <2>1, LogsType DEF KeysFull
    <2>3. per_cabinet[d] \in Seq(Nat) /\ Len(per_cabinet[d]) >= 1
      BY <2>1, LogsType, Numbers
    <2>4. Tracks(per_cabinet[d], {d}, admitted, now)
      BY <2>1, <2>2 DEF Limiter, Accounted, LogOf
    <2>5. Cardinality(J(d)) > 0
      BY <1>1, <2>1, <2>3, <2>4, KeyDemand
    <2> QED BY <2>2, <2>5
  <1>10. Cardinality(Kept(stamp, c)) <= Cardinality(D)
    <2> HIDE DEF D
    <2> QED BY <1>8, <1>9, FS_Subset
  <1>11. D = {d \in Cabinets \ {c} : Admitted({d}, RATE_LIMIT_WINDOW + MaxDelay) > 0}
    BY DEF Admitted, Recent
  <1> HIDE DEF D
  <1> QED BY <1>8, <1>10, <1>11

\* RefusedJustly, for every value of the constants: a 429 has its reason in posts that
\* were let through in the last window.
THEOREM RefusedJustlySafe == Spec => RefusedJustly
  <1> DEFINE Just(h) ==
                LET c == request[h].sub.cabinet_id
                    window == RATE_LIMIT_WINDOW + MaxDelay
                IN  \/ Admitted({c}, window) >= RATE_LIMIT_MAX
                    \/ Admitted(Cabinets, window) >= GLOBAL_RATE_LIMIT_MAX
                    \/ Cardinality({d \in Cabinets \ {c} : Admitted({d}, window) > 0})
                          >= RATE_KEYS_MAX
  <1>1. ASSUME IInv, Limiter, NEW h \in Handlers, RateCheck(h), request'[h] = Over
        PROVE  Just(h)
    <2> DEFINE stamp == request[h].stamp
               c == request[h].sub.cabinet_id
               all == Fresh(stamp, global)
               own == Log(stamp, c)
               kept == Kept(stamp, c)
               window == RATE_LIMIT_WINDOW + MaxDelay
    <2>1. request[h].at = "Stamped" /\ request[h].sub \in Submissions
      BY <1>1 DEF RateCheck, Requests, IInv, Types
    <2>2. stamp \in 0..now /\ now <= stamp + MaxDelay /\ c \in Cabinets
      BY <1>1, <2>1 DEF Limiter, Stamps, Cabinets
    <2>3. \/ Len(all) >= GLOBAL_RATE_LIMIT_MAX
          \/ Admit(h, own, kept, stamp, c)
          \/ OverKeys(h, own, kept, c)
          \/ OverCabinet(h, own, c)
      BY <1>1 DEF RateCheck
    <2>4. ~ Admit(h, own, kept, stamp, c)
      <3>1. request \in [Handlers -> Requests]
        BY <1>1 DEF IInv, Types
      <3>2. "Admitted" # "Over"
        OBVIOUS
      <3> QED BY <1>1, <3>1, <3>2 DEF Admit, Moves, Over
    <2>5. now \in Nat /\ admitted \in Posts(now) /\ stamp \in Nat
      BY <1>1, <2>2, LogsType
    <2>6. CASE Len(all) >= GLOBAL_RATE_LIMIT_MAX
      <3>1. /\ all \in Seq(Nat) /\ Len(all) \in Nat
            /\ \A i \in DOMAIN all : IsFresh(stamp, all[i])
            /\ Tracks(all, Cabinets, admitted, now)
        BY <1>1, <2>2, AllLog
      <3>2. /\ Len(all) <= Cardinality(Recent(Cabinets, admitted, now, window))
            /\ Cardinality(Recent(Cabinets, admitted, now, window)) \in Nat
        <4> HIDE DEF stamp, all
        <4> QED BY <2>2, <2>5, <3>1, TrackedDemand
      <3>3. Cardinality(Recent(Cabinets, admitted, now, window)) >= GLOBAL_RATE_LIMIT_MAX
        <4> HIDE DEF all, window
        <4> QED BY <2>6, <3>1, <3>2, Numbers
      <3> QED BY <3>3 DEF Admitted, Recent
    <2>7. CASE OverCabinet(h, own, c)
      <3>1. /\ own \in Seq(Nat) /\ Len(own) \in Nat
            /\ \A i \in DOMAIN own : IsFresh(stamp, own[i])
            /\ Tracks(own, {c}, admitted, now)
        BY <1>1, <2>2, OwnLog
      <3>2. /\ Len(own) <= Cardinality(Recent({c}, admitted, now, window))
            /\ Cardinality(Recent({c}, admitted, now, window)) \in Nat
        <4> HIDE DEF stamp, own, c
        <4> QED BY <2>2, <2>5, <3>1, TrackedDemand
      <3>3. Cardinality(Recent({c}, admitted, now, window)) >= RATE_LIMIT_MAX
        <4> HIDE DEF own, window, c
        <4> QED BY <2>7, <3>1, <3>2, Numbers DEF OverCabinet
      <3> QED BY <3>3 DEF Admitted, Recent
    <2>8. CASE OverKeys(h, own, kept, c)
      <3> DEFINE D == {d \in Cabinets \ {c} : Admitted({d}, window) > 0}
      <3>1. KeysFull(c) /\ Cardinality(kept) >= RATE_KEYS_MAX
        BY <2>8 DEF OverKeys
      <3>2. Cardinality(kept) <= Cardinality(D) /\ Cardinality(D) \in Nat
        BY <1>1, <2>2, <3>1, KeysInUse
      <3>3. Cardinality(kept) \in Nat
        BY <1>1, <2>2, KeptKeys
      <3>4. Cardinality(D) >= RATE_KEYS_MAX
        <4> HIDE DEF kept, D
        <4> QED BY <3>1, <3>2, <3>3, Numbers
      <3> QED BY <3>4
    <2> QED BY <2>3, <2>4, <2>6, <2>7, <2>8
  <1>2. ASSUME IInv, Next, NEW h \in Handlers, request[h].at = "Stamped", request'[h] = Over
        PROVE  RateCheck(h)
    <2>1. request \in [Handlers -> Requests]
      BY <1>2 DEF IInv, Types
    <2>2. request'[h] # request[h]
      BY <1>2 DEF Over
    <2>3. ~ Tick
      BY <2>2 DEF Tick
    <2>4. \A g \in Handlers : (\E r : request' = [request EXCEPT ![g] = r]) => g = h
      BY <2>1, <2>2
    <2>5. \A sub \in Submissions : ~ Post(h, sub)
      BY <1>2 DEF Post
    <2>6. ~ (Insert(h) \/ Commit(h) \/ Fetch(h) \/ Fail(h) \/ HangUp(h))
      BY <1>2 DEF Insert, Commit, Fetch, Fail, HangUp
    <2>7. \A g \in Handlers, sub \in Submissions : Post(g, sub) => g = h
      BY <2>4 DEF Post
    <2>8. \A g \in Handlers : RateCheck(g) => g = h
      BY <2>4 DEF RateCheck, Admit, OverKeys, OverCabinet, Fails, Moves
    <2>9. \A g \in Handlers :
             Insert(g) \/ Commit(g) \/ Fetch(g) \/ Fail(g) \/ HangUp(g) => g = h
      BY <2>4 DEF Insert, Commit, Fetch, Fail, HangUp, Fails, Moves, Confirms
    <2> QED BY <1>2, <2>3, <2>5, <2>6, <2>7, <2>8, <2>9 DEF Next
  <1> DEFINE Justly == \A h \in Handlers :
                          request[h].at = "Stamped" /\ request'[h] = Over => Just(h)
  <1>3. ASSUME IInv, Limiter, [Next]_vars PROVE [Justly]_vars
    BY <1>1, <1>2, <1>3
  <1> QED BY <1>3, LockDiscipline, LimiterAccounts, PTL DEF Spec, RefusedJustly
=============================================================================
