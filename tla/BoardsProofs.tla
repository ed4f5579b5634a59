---------------------------- MODULE BoardsProofs ----------------------------
(***************************************************************************)
(* Proofs about the boards, for any number of fake runs, players' runs,    *)
(* queries, crashes and restarts:                                          *)
(*   - the fake runs never take the boards over from a player's;           *)
(*   - a response holds, for each board it was asked for, the best runs    *)
(*     that may be on it, in order, as the table was while it was made;    *)
(*   - the attract app never goes back to older boards.                    *)
(* The second rests on the ranking by counting: under an order, a row of a *)
(* finite set has the place that the number of rows before it gives it.    *)
(***************************************************************************)
EXTENDS Boards, SequenceTheorems, FiniteSetTheorems, WellFoundedInduction, TLAPS

FakeRuns == ToSet(Seeds)
Rows == FakeRuns \cup Arrivals

\* The fake runs that are in are in for good; it is before the server listens that
\* they are put in, and only after that that players' runs come.
Seeded ==
    /\ runs \in Seq(Rows)
    /\ server \in [at : {"Down", "Seeding", "Serving"}, seeded : 0..Len(Seeds)]
    /\ \A i \in 1..server.seeded : Seeds[i].session \in Stored
    /\ server.at = "Serving" => server.seeded = Len(Seeds)

PlayerStored == \E run \in Arrivals : run.session \in Stored

PlayersLast ==
    PlayerStored => /\ \A seed \in FakeRuns : seed.session \in Stored
                    /\ runs # <<>> /\ Last(runs) \in Arrivals

IInv == Seeded /\ PlayersLast

-----------------------------------------------------------------------------
LEMMA SeedList ==
    /\ Len(Seeds) \in Nat /\ DOMAIN Seeds = 1..Len(Seeds)
    /\ \A i \in 1..Len(Seeds) : Seeds[i] \in FakeRuns
    /\ \A seed \in FakeRuns : \E i \in 1..Len(Seeds) : seed = Seeds[i]
  <1>1. Seeds \in Seq(FakeRuns)
    BY BoardsAssumption DEF FakeRuns
  <1> QED BY <1>1 DEF FakeRuns, ToSet

LEMMA InsertedRow ==
    ASSUME runs \in Seq(Rows), NEW run \in Rows, runs' = InsertRun(run)
    PROVE  /\ runs' \in Seq(Rows)
           /\ Stored' = Stored \cup {run.session}
           /\ run.session \in Stored => runs' = runs
           /\ run.session \notin Stored => runs' # <<>> /\ Last(runs') = run
  <1>1. CASE run.session \in Stored
    BY <1>1 DEF InsertRun, Stored
  <1>2. CASE run.session \notin Stored
    <2>1. runs' = Append(runs, run)
      BY <1>2 DEF InsertRun
    <2>2. /\ runs' \in Seq(Rows)
          /\ Len(runs') = Len(runs) + 1 /\ runs'[Len(runs) + 1] = run
          /\ \A i \in 1..Len(runs) : runs'[i] = runs[i]
      BY <2>1, AppendProperties
    <2>3. DOMAIN runs' = DOMAIN runs \cup {Len(runs) + 1} /\ DOMAIN runs = 1..Len(runs)
      BY <2>2
    <2>4. Stored' = Stored \cup {run.session}
      BY <2>2, <2>3 DEF Stored
    <2>5. runs' # <<>> /\ Last(runs') = run
      BY <2>2 DEF Last
    <2> QED BY <1>2, <2>2, <2>4, <2>5
  <1> QED BY <1>1, <1>2

\* Requests, clients and the network leave table and server alone.
LEMMA QuietKeeps ==
    ASSUME IInv, runs' = runs,
           \/ server' = server
           \/ server' = [at |-> "Down", seeded |-> 0]
           \/ server' = [at |-> "Seeding", seeded |-> 0]
           \/ server.seeded = Len(Seeds) /\ server' = [server EXCEPT !.at = "Serving"]
    PROVE  IInv'
  <1>1. Stored' = Stored
    BY DEF Stored
  <1> QED BY <1>1, SeedList DEF IInv, Seeded, PlayersLast, PlayerStored

\* A fake run is put in, or was in before.
LEMMA SeedRunKeeps ==
    ASSUME IInv, SeedRun
    PROVE  IInv'
  <1> DEFINE seed == Seeds[server.seeded + 1]
  <1>1. /\ server.seeded \in Nat /\ server.seeded + 1 \in 1..Len(Seeds)
        /\ server' = [server EXCEPT !.seeded = @ + 1]
        /\ runs' = InsertRun(seed)
        /\ server.at = "Seeding"
    BY SeedList DEF IInv, Seeded, SeedRun
  <1>2. seed \in FakeRuns /\ seed \in Rows
    BY <1>1, SeedList DEF Rows
  <1> HIDE DEF seed
  <1>3. /\ runs' \in Seq(Rows)
        /\ Stored' = Stored \cup {seed.session}
        /\ seed.session \in Stored => runs' = runs
    BY <1>1, <1>2, InsertedRow DEF IInv, Seeded
  <1>4. Seeded'
    <2>1. server' \in [at : {"Down", "Seeding", "Serving"}, seeded : 0..Len(Seeds)]
          /\ server'.at = "Seeding" /\ server'.seeded = server.seeded + 1
      BY <1>1, SeedList DEF IInv, Seeded
    <2>2. \A i \in 1..server'.seeded : Seeds[i].session \in Stored'
      <3>1. \A i \in 1..server'.seeded : i \in 1..server.seeded \/ i = server.seeded + 1
        BY <1>1, <2>1
      <3> QED BY <1>3, <3>1 DEF IInv, Seeded, seed
    <2> QED BY <1>3, <2>1, <2>2 DEF Seeded
  <1>5. PlayersLast'
    <2>1. \A run \in Arrivals : run.session # seed.session
      BY <1>2, BoardsAssumption DEF FakeRuns
    <2>2. PlayerStored' => PlayerStored
      BY <1>3, <2>1 DEF PlayerStored
    <2>3. PlayerStored => seed.session \in Stored
      BY <1>2 DEF IInv, PlayersLast
    <2> QED BY <1>3, <2>2, <2>3 DEF IInv, PlayersLast
  <1> QED BY <1>4, <1>5 DEF IInv

\* A player's run comes after all the fake ones.
LEMMA ArriveKeeps ==
    ASSUME IInv, NEW run \in Arrivals, Arrive(run)
    PROVE  IInv'
  <1>1. /\ server.at = "Serving" /\ server' = server
        /\ run.session \notin Stored /\ runs' = InsertRun(run)
    BY DEF Arrive
  <1>2. /\ runs' \in Seq(Rows)
        /\ Stored' = Stored \cup {run.session}
        /\ runs' # <<>> /\ Last(runs') = run
    BY <1>1, InsertedRow DEF IInv, Seeded, Rows
  <1>3. Seeded'
    BY <1>1, <1>2 DEF IInv, Seeded
  <1>4. \A seed \in FakeRuns : seed.session \in Stored
    BY <1>1, SeedList DEF IInv, Seeded
  <1>5. PlayersLast'
    BY <1>2, <1>4 DEF PlayersLast
  <1> QED BY <1>3, <1>5 DEF IInv

\* The table holds the fake runs first, in every behaviour.
THEOREM FakeRunsFirst == Spec => []IInv
  <1>1. Init => IInv
    <2> SUFFICES ASSUME Init PROVE IInv
      OBVIOUS
    <2>1. runs = <<>> /\ Stored = {} /\ server = [at |-> "Down", seeded |-> 0]
      BY DEF Init, Stored
    <2> QED BY <2>1, SeedList DEF IInv, Seeded, PlayersLast, PlayerStored
  <1>2. ASSUME IInv, [Next]_vars PROVE IInv'
    <2>1. CASE UNCHANGED vars
      BY <1>2, <2>1, QuietKeeps DEF vars
    <2>2. CASE Start \/ Serve \/ Crash
      BY <1>2, <2>2, QuietKeeps DEF Start, Serve, Crash
    <2>3. CASE SeedRun
      BY <1>2, <2>3, SeedRunKeeps
    <2>4. CASE \E run \in Arrivals : Arrive(run)
      BY <1>2, <2>4, ArriveKeeps
    <2>5. ASSUME NEW s \in DOMAIN request, Ask(s) \/ Handle(s) \/ Lose(s) \/ Deliver(s)
          PROVE  IInv'
      <3>1. runs' = runs /\ server' = server
        BY <2>5 DEF Ask, Handle, Resolve, ReadBoard, Refuse, Lose, Deliver, Send, Show, Leave, Done
      <3> QED BY <1>2, <3>1, QuietKeeps
    <2>6. CASE Frame \/ Reopen
      BY <1>2, <2>6, QuietKeeps DEF Frame, Reopen
    <2> QED BY <1>2, <2>1, <2>2, <2>3, <2>4, <2>5, <2>6 DEF Next
  <1> QED BY <1>1, <1>2, PTL DEF Spec

\* SeasonReal, for every value of the constants.
THEOREM SeasonRealSafe == Spec => []SeasonReal
  <1>1. IInv => SeasonReal
    <2> SUFFICES ASSUME IInv, PlayerStored
                 PROVE  CurrentSeason \notin {seed.season : seed \in ToSet(Seeds)}
      BY DEF SeasonReal, PlayerStored
    <2>1. runs # <<>> /\ Last(runs) \in Arrivals
      BY DEF IInv, PlayersLast
    <2>2. \A seed \in ToSet(Seeds) : Last(runs).season # seed.season
      BY <2>1, BoardsAssumption
    <2> QED BY <2>1, <2>2 DEF CurrentSeason
  <1> QED BY <1>1, FakeRunsFirst, PTL
-----------------------------------------------------------------------------
\* The order of the boards.
LEMMA Least ==
    ASSUME NEW S \in SUBSET Nat, S # {}
    PROVE  \E m \in S : \A k \in S : m <= k
  <1> DEFINE R == OpToRel(<, Nat)
  <1>1. R = {ss \in Nat \X Nat : ss[1] < ss[2]}
    BY DEF OpToRel
  <1> HIDE DEF R
  <1>2. \E x \in S : \A y \in S : ~ (<<y, x>> \in R)
    <2>1. IsWellFoundedOn(R, Nat)
      BY NatLessThanWellFounded DEF R
    <2> QED BY <2>1, WFMin
  <1>3. PICK x \in S : \A y \in S : ~ (<<y, x>> \in R)
    BY <1>2
  <1>4. ASSUME NEW y \in S PROVE x <= y
    <2>1. ~ (<<y, x>> \in R) /\ y \in Nat /\ x \in Nat
      BY <1>3
    <2>2. <<y, x>> \in Nat \X Nat /\ <<y, x>>[1] = y /\ <<y, x>>[2] = x
      BY <2>1
    <2>3. ~ (y < x)
      BY <1>1, <2>1, <2>2
    <2> QED BY <2>1, <2>3
  <1> QED BY <1>4

\* Less orders the vectors of a length.
LEMMA LessTotal ==
    ASSUME NEW n \in Nat, NEW s \in [1..n -> Int], NEW t \in [1..n -> Int], s # t
    PROVE  Less(s, t) \/ Less(t, s)
  <1> DEFINE D == {k \in 1..n : s[k] # t[k]}
  <1>1. D \in SUBSET Nat /\ D # {}
    OBVIOUS
  <1>2. PICK m \in D : \A k \in D : m <= k
    BY <1>1, Least
  <1>3. m \in 1..n /\ s[m] # t[m] /\ s[m] \in Int /\ t[m] \in Int
    BY <1>2
  <1>4. ASSUME NEW k \in 1..m - 1 PROVE s[k] = t[k]
    <2>1. k \in 1..n /\ ~(m <= k)
      BY <1>3
    <2> QED BY <1>2, <2>1
  <1>5. s[m] < t[m] \/ t[m] < s[m]
    BY <1>3
  <1> QED BY <1>3, <1>4, <1>5 DEF Less

LEMMA LessAsymmetric ==
    ASSUME NEW n \in Nat, NEW s \in [1..n -> Int], NEW t \in [1..n -> Int],
           Less(s, t), Less(t, s)
    PROVE  FALSE
  <1>1. PICK a \in 1..n : s[a] < t[a] /\ \A k \in 1..a - 1 : s[k] = t[k]
    BY DEF Less
  <1>2. PICK b \in 1..n : t[b] < s[b] /\ \A k \in 1..b - 1 : t[k] = s[k]
    BY DEF Less
  <1>3. s[a] \in Int /\ t[a] \in Int /\ s[b] \in Int /\ t[b] \in Int /\ a \in Nat /\ b \in Nat
    OBVIOUS
  <1>4. CASE a = b
    BY <1>1, <1>2, <1>3, <1>4
  <1>5. CASE a < b
    <2>1. a \in 1..b - 1
      BY <1>3, <1>5
    <2> QED BY <1>1, <1>2, <1>3, <2>1
  <1>6. CASE b < a
    <2>1. b \in 1..a - 1
      BY <1>3, <1>6
    <2> QED BY <1>1, <1>2, <1>3, <2>1
  <1> QED BY <1>3, <1>4, <1>5, <1>6

LEMMA LessTransitive ==
    ASSUME NEW n \in Nat, NEW s \in [1..n -> Int], NEW t \in [1..n -> Int],
           NEW u \in [1..n -> Int], Less(s, t), Less(t, u)
    PROVE  Less(s, u)
  <1>1. PICK a \in 1..n : s[a] < t[a] /\ \A k \in 1..a - 1 : s[k] = t[k]
    BY DEF Less
  <1>2. PICK b \in 1..n : t[b] < u[b] /\ \A k \in 1..b - 1 : t[k] = u[k]
    BY DEF Less
  <1>3. /\ s[a] \in Int /\ t[a] \in Int /\ u[a] \in Int
        /\ s[b] \in Int /\ t[b] \in Int /\ u[b] \in Int /\ a \in Nat /\ b \in Nat
    OBVIOUS
  <1>4. CASE a < b
    <2>1. a \in 1..b - 1 /\ \A k \in 1..a - 1 : k \in 1..b - 1
      BY <1>3, <1>4
    <2>2. s[a] < u[a] /\ \A k \in 1..a - 1 : s[k] = u[k]
      BY <1>1, <1>2, <1>3, <2>1
    <2> QED BY <2>2 DEF Less
  <1>5. CASE b < a
    <2>1. b \in 1..a - 1 /\ \A k \in 1..b - 1 : k \in 1..a - 1
      BY <1>3, <1>5
    <2>2. s[b] < u[b] /\ \A k \in 1..b - 1 : s[k] = u[k]
      BY <1>1, <1>2, <1>3, <2>1
    <2> QED BY <2>2 DEF Less
  <1>6. CASE a = b
    <2>1. s[a] < u[a] /\ \A k \in 1..a - 1 : s[k] = u[k]
      BY <1>1, <1>2, <1>3, <1>6
    <2> QED BY <2>1 DEF Less
  <1> QED BY <1>3, <1>4, <1>5, <1>6

\* The places of a finite set in an order R: how many come before.
Before(S, R, i) == {j \in S : <<j, i>> \in R}
Orders(S, R) ==
    /\ \A i \in S : <<i, i>> \notin R
    /\ \A i, j \in S : i = j \/ <<i, j>> \in R \/ <<j, i>> \in R
    /\ \A i, j, k \in S : <<i, j>> \in R /\ <<j, k>> \in R => <<i, k>> \in R

LEMMA Ranking ==
    ASSUME NEW S, IsFiniteSet(S), NEW R, Orders(S, R)
    PROVE  /\ Cardinality(S) \in Nat
           /\ \A i \in S : Cardinality(Before(S, R, i)) \in 0..Cardinality(S) - 1
           /\ \A i, j \in S : <<i, j>> \in R => Cardinality(Before(S, R, i)) < Cardinality(Before(S, R, j))
           /\ \A i, j \in S : Cardinality(Before(S, R, i)) = Cardinality(Before(S, R, j)) => i = j
           /\ \A n \in 0..Cardinality(S) - 1 : \E i \in S : Cardinality(Before(S, R, i)) = n
  <1> DEFINE n == Cardinality(S)
             rank == [i \in S |-> Cardinality(Before(S, R, i))]
  <1>1. n \in Nat
    BY FS_CardinalityType
  <1>2. ASSUME NEW i \in S PROVE IsFiniteSet(Before(S, R, i)) /\ rank[i] \in Nat
    <2>1. Before(S, R, i) \in SUBSET S
      BY DEF Before
    <2>2. IsFiniteSet(Before(S, R, i))
      BY <2>1, FS_Subset
    <2> QED BY <2>2, FS_CardinalityType
  <1>3. ASSUME NEW i \in S PROVE rank[i] \in 0..n - 1
    <2>1. Before(S, R, i) \in SUBSET S /\ i \notin Before(S, R, i)
      BY DEF Before, Orders
    <2>2. rank[i] <= n /\ rank[i] # n
      BY <2>1, FS_Subset
    <2> HIDE DEF rank, n
    <2> QED BY <1>1, <1>2, <2>2
  <1>4. ASSUME NEW i \in S, NEW j \in S, <<i, j>> \in R PROVE rank[i] < rank[j]
    <2>1. Before(S, R, i) \in SUBSET Before(S, R, j)
      BY <1>4 DEF Before, Orders
    <2>2. i \in Before(S, R, j) /\ i \notin Before(S, R, i)
      BY <1>4 DEF Before, Orders
    <2>3. rank[i] <= rank[j] /\ rank[i] # rank[j]
      BY <1>2, <2>1, <2>2, FS_Subset
    <2> HIDE DEF rank
    <2> QED BY <1>2, <2>3
  <1>5. ASSUME NEW i \in S, NEW j \in S, rank[i] = rank[j] PROVE i = j
    <2> HIDE DEF rank
    <2>1. ~(rank[i] < rank[j]) /\ ~(rank[j] < rank[i])
      BY <1>2, <1>5
    <2>2. <<i, j>> \notin R /\ <<j, i>> \notin R
      BY <1>4, <2>1
    <2> QED BY <2>2 DEF Orders
  <1> DEFINE P == 0..n - 1
  <1>6. rank \in Injection(S, P)
    <2>1. rank \in [S -> P]
      BY <1>3
    <2> HIDE DEF rank, P
    <2> QED BY <1>5, <2>1 DEF Injection, IsInjective
  <1>7. IsFiniteSet(P) /\ Cardinality(P) = n
    <2>1. n - 1 \in Int /\ 0 \in Int
      BY <1>1
    <2>2. IsFiniteSet(P) /\ Cardinality(P) = IF 0 > n - 1 THEN 0 ELSE (n - 1) - 0 + 1
      BY <2>1, FS_Interval
    <2> HIDE DEF P
    <2> QED BY <1>1, <2>2
  <1>8. \A k \in P : \E i \in S : rank[i] = k
    <2> HIDE DEF P, rank
    <2>1. rank \in Surjection(S, P)
      BY <1>6, <1>7, FS_Injection DEF n
    <2> QED BY <2>1 DEF Surjection
  <1> QED BY <1>1, <1>3, <1>4, <1>5, <1>8

-----------------------------------------------------------------------------
\* What a board ranks a run by.
First(category, run) ==
    CASE category = "high-score"    -> -run.score
      [] category = "deepest"       -> -run.maps
      [] category = "fastest-clear" -> run.tics
      [] category = "most-kills"    -> -run.kills
      [] category = "secret-hunter" -> -run.secrets
Short(category) == category \in {"high-score", "fastest-clear"}
Width(category) == IF Short(category) THEN 3 ELSE 4

LEMMA AppendedToOne ==
    ASSUME NEW a \in Int, NEW c \in Int, NEW d \in Int
    PROVE  <<a>> \o <<c, d>> = <<a, c, d>>
  <1> DEFINE t == <<c, d>>
  <1>1. t \in Seq(Int) /\ Len(t) = 2 /\ t[1] = c /\ t[2] = d
    OBVIOUS
  <1>2. <<a>> \o t = <<a, c, d>>
    <2> DEFINE s == <<a>>
               u == <<a, c, d>>
    <2>1. s \in Seq(Int) /\ Len(s) = 1 /\ s[1] = a
      OBVIOUS
    <2>2. u \in Seq(Int) /\ Len(u) = 3 /\ u[1] = a /\ u[2] = c /\ u[3] = d
      OBVIOUS
    <2> HIDE DEF s, t, u
    <2>3. /\ s \o t \in Seq(Int) /\ Len(s \o t) = 3
          /\ \A i \in 1..3 : (s \o t)[i] = IF i <= 1 THEN s[i] ELSE t[i - 1]
      <3>1. Len(s) + Len(t) = 3
        BY <1>1, <2>1
      <3>2. /\ s \o t \in Seq(Int) /\ Len(s \o t) = Len(s) + Len(t)
            /\ \A i \in 1..Len(s) + Len(t) : (s \o t)[i] = IF i <= Len(s) THEN s[i] ELSE t[i - Len(s)]
        BY <1>1, <2>1, ConcatProperties
      <3> QED BY <2>1, <3>1, <3>2
    <2>4. \A i \in 1..3 : (s \o t)[i] = u[i]
      BY <1>1, <2>1, <2>2, <2>3
    <2>5. s \o t = u
      BY <2>2, <2>3, <2>4, SeqEqual
    <2> QED BY <2>5 DEF s, u
  <1> QED BY <1>2

LEMMA AppendedToTwo ==
    ASSUME NEW a \in Int, NEW b \in Int, NEW c \in Int, NEW d \in Int
    PROVE  <<a, b>> \o <<c, d>> = <<a, b, c, d>>
  <1> DEFINE t == <<c, d>>
  <1>1. t \in Seq(Int) /\ Len(t) = 2 /\ t[1] = c /\ t[2] = d
    OBVIOUS
  <1>2. <<a, b>> \o t = <<a, b, c, d>>
    <2> DEFINE s == <<a, b>>
               u == <<a, b, c, d>>
    <2>1. s \in Seq(Int) /\ Len(s) = 2 /\ s[1] = a /\ s[2] = b
      OBVIOUS
    <2>2. u \in Seq(Int) /\ Len(u) = 4 /\ u[1] = a /\ u[2] = b /\ u[3] = c /\ u[4] = d
      OBVIOUS
    <2> HIDE DEF s, t, u
    <2>3. /\ s \o t \in Seq(Int) /\ Len(s \o t) = 4
          /\ \A i \in 1..4 : (s \o t)[i] = IF i <= 2 THEN s[i] ELSE t[i - 2]
      <3>1. Len(s) + Len(t) = 4
        BY <1>1, <2>1
      <3>2. /\ s \o t \in Seq(Int) /\ Len(s \o t) = Len(s) + Len(t)
            /\ \A i \in 1..Len(s) + Len(t) : (s \o t)[i] = IF i <= Len(s) THEN s[i] ELSE t[i - Len(s)]
        BY <1>1, <2>1, ConcatProperties
      <3> QED BY <2>1, <3>1, <3>2
    <2>4. \A i \in 1..4 : (s \o t)[i] = u[i]
      BY <1>1, <2>1, <2>2, <2>3
    <2>5. s \o t = u
      BY <2>2, <2>3, <2>4, SeqEqual
    <2> QED BY <2>5 DEF s, u
  <1> QED BY <1>2

LEMMA RowNumbers ==
    ASSUME NEW run \in Rows
    PROVE  /\ run.score \in Int /\ run.maps \in Int /\ run.tics \in Int /\ run.kills \in Int
           /\ run.secrets \in Int /\ run.ended_at \in Int
  BY BoardsAssumption DEF Rows, FakeRuns

LEMMA OrderOf ==
    ASSUME NEW category \in Categories, runs \in Seq(Rows), NEW i \in DOMAIN runs
    PROVE  /\ Order(category, i) = IF Short(category)
                                   THEN <<First(category, runs[i]), runs[i].ended_at, i>>
                                   ELSE <<First(category, runs[i]), -runs[i].score, runs[i].ended_at, i>>
           /\ First(category, runs[i]) \in Int /\ runs[i].score \in Int /\ runs[i].ended_at \in Int
           /\ -runs[i].score \in Int /\ i \in Int
  <1> DEFINE run == runs[i]
  <1>1. run \in Rows /\ i \in Int
    OBVIOUS
  <1>2. /\ run.score \in Int /\ run.maps \in Int /\ run.tics \in Int /\ run.kills \in Int
        /\ run.secrets \in Int /\ run.ended_at \in Int
    BY <1>1, RowNumbers
  <1>3. /\ -run.score \in Int /\ -run.maps \in Int /\ -run.kills \in Int /\ -run.secrets \in Int
    <2>1. \A x \in Int : -x \in Int
      OBVIOUS
    <2> QED BY <1>2, <2>1
  <1>4. CASE category = "high-score"
    <2>1. First(category, run) = -run.score /\ Short(category)
      BY <1>4 DEF First, Short
    <2>2. Order(category, i) = <<-run.score>> \o <<run.ended_at, i>>
      BY <1>4 DEF Order
    <2>3. <<-run.score>> \o <<run.ended_at, i>> = <<-run.score, run.ended_at, i>>
      <3> DEFINE p == -run.score
                 e == run.ended_at
      <3>1. p \in Int /\ e \in Int /\ i \in Int
        BY <1>1, <1>2, <1>3
      <3> HIDE DEF p, e
      <3>2. <<p>> \o <<e, i>> = <<p, e, i>>
        BY <3>1, AppendedToOne
      <3> QED BY <3>2 DEF p, e
    <2> QED BY <1>1, <1>2, <1>3, <2>1, <2>2, <2>3
  <1>5. CASE category = "deepest"
    <2>1. First(category, run) = -run.maps /\ ~Short(category)
      BY <1>5 DEF First, Short
    <2>2. Order(category, i) = <<-run.maps, -run.score>> \o <<run.ended_at, i>>
      BY <1>5 DEF Order
    <2>3. <<-run.maps, -run.score>> \o <<run.ended_at, i>> = <<-run.maps, -run.score, run.ended_at, i>>
      <3> DEFINE p == -run.maps
                 q == -run.score
                 e == run.ended_at
      <3>1. p \in Int /\ q \in Int /\ e \in Int /\ i \in Int
        BY <1>1, <1>2, <1>3
      <3> HIDE DEF p, q, e
      <3>2. <<p, q>> \o <<e, i>> = <<p, q, e, i>>
        BY <3>1, AppendedToTwo
      <3> QED BY <3>2 DEF p, q, e
    <2> QED BY <1>1, <1>2, <1>3, <2>1, <2>2, <2>3
  <1>6. CASE category = "fastest-clear"
    <2>1. First(category, run) = run.tics /\ Short(category)
      BY <1>6 DEF First, Short
    <2>2. Order(category, i) = <<run.tics>> \o <<run.ended_at, i>>
      BY <1>6 DEF Order
    <2>3. <<run.tics>> \o <<run.ended_at, i>> = <<run.tics, run.ended_at, i>>
      <3> DEFINE p == run.tics
                 e == run.ended_at
      <3>1. p \in Int /\ e \in Int /\ i \in Int
        BY <1>1, <1>2, <1>3
      <3> HIDE DEF p, e
      <3>2. <<p>> \o <<e, i>> = <<p, e, i>>
        BY <3>1, AppendedToOne
      <3> QED BY <3>2 DEF p, e
    <2> QED BY <1>1, <1>2, <1>3, <2>1, <2>2, <2>3
  <1>7. CASE category = "most-kills"
    <2>1. First(category, run) = -run.kills /\ ~Short(category)
      BY <1>7 DEF First, Short
    <2>2. Order(category, i) = <<-run.kills, -run.score>> \o <<run.ended_at, i>>
      BY <1>7 DEF Order
    <2>3. <<-run.kills, -run.score>> \o <<run.ended_at, i>> = <<-run.kills, -run.score, run.ended_at, i>>
      <3> DEFINE p == -run.kills
                 q == -run.score
                 e == run.ended_at
      <3>1. p \in Int /\ q \in Int /\ e \in Int /\ i \in Int
        BY <1>1, <1>2, <1>3
      <3> HIDE DEF p, q, e
      <3>2. <<p, q>> \o <<e, i>> = <<p, q, e, i>>
        BY <3>1, AppendedToTwo
      <3> QED BY <3>2 DEF p, q, e
    <2> QED BY <1>1, <1>2, <1>3, <2>1, <2>2, <2>3
  <1>8. CASE category = "secret-hunter"
    <2>1. First(category, run) = -run.secrets /\ ~Short(category)
      BY <1>8 DEF First, Short
    <2>2. Order(category, i) = <<-run.secrets, -run.score>> \o <<run.ended_at, i>>
      BY <1>8 DEF Order
    <2>3. <<-run.secrets, -run.score>> \o <<run.ended_at, i>> = <<-run.secrets, -run.score, run.ended_at, i>>
      <3> DEFINE p == -run.secrets
                 q == -run.score
                 e == run.ended_at
      <3>1. p \in Int /\ q \in Int /\ e \in Int /\ i \in Int
        BY <1>1, <1>2, <1>3
      <3> HIDE DEF p, q, e
      <3>2. <<p, q>> \o <<e, i>> = <<p, q, e, i>>
        BY <3>1, AppendedToTwo
      <3> QED BY <3>2 DEF p, q, e
    <2> QED BY <1>1, <1>2, <1>3, <2>1, <2>2, <2>3
  <1> QED BY <1>4, <1>5, <1>6, <1>7, <1>8 DEF Categories

LEMMA OrderVector ==
    ASSUME NEW category \in Categories, runs \in Seq(Rows)
    PROVE  /\ Width(category) \in Nat
           /\ \A i \in DOMAIN runs : Order(category, i) \in [1..Width(category) -> Int]
           /\ \A i, j \in DOMAIN runs : Order(category, i) = Order(category, j) => i = j
  <1>1. CASE Short(category)
    <2>1. Width(category) = 3
      BY <1>1 DEF Width
    <2>2. ASSUME NEW i \in DOMAIN runs
          PROVE  Order(category, i) \in [1..3 -> Int] /\ Order(category, i)[3] = i
      <3>1. Order(category, i) = <<First(category, runs[i]), runs[i].ended_at, i>>
            /\ First(category, runs[i]) \in Int /\ runs[i].ended_at \in Int /\ i \in Int
        BY <1>1, OrderOf
      <3> QED BY <3>1
    <2> QED BY <2>1, <2>2
  <1>2. CASE ~Short(category)
    <2>1. Width(category) = 4
      BY <1>2 DEF Width
    <2>2. ASSUME NEW i \in DOMAIN runs
          PROVE  Order(category, i) \in [1..4 -> Int] /\ Order(category, i)[4] = i
      <3>1. Order(category, i) = <<First(category, runs[i]), -runs[i].score, runs[i].ended_at, i>>
            /\ First(category, runs[i]) \in Int /\ -runs[i].score \in Int
            /\ runs[i].ended_at \in Int /\ i \in Int
        BY <1>2, OrderOf
      <3> QED BY <3>1
    <2> QED BY <2>1, <2>2
  <1> QED BY <1>1, <1>2

\* A better run comes before.
LEMMA BetterFirst ==
    ASSUME NEW category \in Categories, runs \in Seq(Rows), NEW i \in DOMAIN runs,
           NEW j \in DOMAIN runs, Better(category, runs[i], runs[j])
    PROVE  Less(Order(category, i), Order(category, j))
  <1>1. /\ First(category, runs[i]) \in Int /\ First(category, runs[j]) \in Int
        /\ runs[i].score \in Int /\ runs[j].score \in Int
    BY OrderOf
  <1>2. \/ First(category, runs[i]) < First(category, runs[j])
        \/ /\ ~Short(category) /\ First(category, runs[i]) = First(category, runs[j])
           /\ -runs[i].score < -runs[j].score
    <2> DEFINE x == runs[i]
               y == runs[j]
    <2>1. x \in Rows /\ y \in Rows
      OBVIOUS
    <2> HIDE DEF x, y
    <2>2. /\ x.score \in Int /\ x.maps \in Int /\ x.tics \in Int /\ x.kills \in Int
          /\ x.secrets \in Int
          /\ y.score \in Int /\ y.maps \in Int /\ y.tics \in Int /\ y.kills \in Int
          /\ y.secrets \in Int
      BY <2>1, RowNumbers
    <2>3. Better(category, x, y)
      BY DEF x, y
    <2>4. \A p, q \in Int : p > q => -p < -q
      OBVIOUS
    <2>5. CASE category = "high-score"
      <3>1. x.score > y.score
        BY <2>3, <2>5 DEF Better
      <3>2. First(category, x) = -x.score /\ First(category, y) = -y.score /\ Short(category)
        BY <2>5 DEF First, Short
      <3> QED BY <2>2, <2>4, <3>1, <3>2 DEF x, y
    <2>6. CASE category = "deepest"
      <3>1. x.maps > y.maps \/ (x.maps = y.maps /\ x.score > y.score)
        BY <2>3, <2>6 DEF Better
      <3>2. First(category, x) = -x.maps /\ First(category, y) = -y.maps /\ ~Short(category)
        BY <2>6 DEF First, Short
      <3> QED BY <2>2, <2>4, <3>1, <3>2 DEF x, y
    <2>7. CASE category = "fastest-clear"
      <3>1. x.tics < y.tics
        BY <2>3, <2>7 DEF Better
      <3>2. First(category, x) = x.tics /\ First(category, y) = y.tics /\ Short(category)
        BY <2>7 DEF First, Short
      <3> QED BY <2>2, <2>4, <3>1, <3>2 DEF x, y
    <2>8. CASE category = "most-kills"
      <3>1. x.kills > y.kills
        BY <2>3, <2>8 DEF Better
      <3>2. First(category, x) = -x.kills /\ First(category, y) = -y.kills /\ ~Short(category)
        BY <2>8 DEF First, Short
      <3> QED BY <2>2, <2>4, <3>1, <3>2 DEF x, y
    <2>9. CASE category = "secret-hunter"
      <3>1. x.secrets > y.secrets
        BY <2>3, <2>9 DEF Better
      <3>2. First(category, x) = -x.secrets /\ First(category, y) = -y.secrets /\ ~Short(category)
        BY <2>9 DEF First, Short
      <3> QED BY <2>2, <2>4, <3>1, <3>2 DEF x, y
    <2> QED BY <2>5, <2>6, <2>7, <2>8, <2>9 DEF Categories
  <1> DEFINE s == Order(category, i)
             t == Order(category, j)
  <1>3. DOMAIN s = 1..Width(category) /\ Width(category) \in {3, 4}
    <2>1. s \in [1..Width(category) -> Int]
      BY OrderVector
    <2> QED BY <2>1 DEF Width
  <1>4. s[1] = First(category, runs[i]) /\ t[1] = First(category, runs[j])
    BY OrderOf
  <1>5. ~Short(category) => s[2] = -runs[i].score /\ t[2] = -runs[j].score
    BY OrderOf
  <1> HIDE DEF s, t
  <1>6. CASE First(category, runs[i]) < First(category, runs[j])
    <2>1. 1 \in DOMAIN s /\ s[1] < t[1] /\ 1..1 - 1 = {}
      BY <1>3, <1>4, <1>6
    <2>2. Less(s, t)
      BY <2>1 DEF Less
    <2> QED BY <2>2 DEF s, t
  <1>7. CASE /\ ~Short(category) /\ First(category, runs[i]) = First(category, runs[j])
             /\ -runs[i].score < -runs[j].score
    <2>1. 2 \in DOMAIN s /\ s[2] < t[2] /\ \A k \in 1..2 - 1 : s[k] = t[k]
      BY <1>3, <1>4, <1>5, <1>7
    <2>2. Less(s, t)
      BY <2>1 DEF Less
    <2> QED BY <2>2 DEF s, t
  <1> QED BY <1>2, <1>6, <1>7

-----------------------------------------------------------------------------
\* A board says the truth of the rows there were when it was read.
TruthOf(stored, board, season, limit) ==
    LET eligible == {run \in stored : /\ run.season = season
                                      /\ board.category = "fastest-clear" => run.reason = "complete"}
        on(rank) == CHOOSE run \in stored : run.session = board.entries[rank].session
        listed == {on(rank) : rank \in DOMAIN board.entries}
    IN  /\ listed \subseteq eligible
        /\ Cardinality(listed) = Len(board.entries)
        /\ Len(board.entries) = Min({limit, Cardinality(eligible)})
        /\ \A rank \in DOMAIN board.entries :
              \A run \in eligible \ {on(r) : r \in 1..rank} :
                 ~Better(board.category, run, on(rank))

Truth(rows, board, season, limit) ==
    TruthOf({rows[i] : i \in 1..board.at}, board, season, limit)

LEMMA TruthStays ==
    ASSUME NEW rows, NEW more, NEW board, NEW season, NEW limit,
           \A i \in 1..board.at : more[i] = rows[i], Truth(rows, board, season, limit)
    PROVE  Truth(more, board, season, limit)
  <1>1. {more[i] : i \in 1..board.at} = {rows[i] : i \in 1..board.at}
    OBVIOUS
  <1> QED BY <1>1 DEF Truth

LEMMA TruthIs ==
    ASSUME runs \in Seq(Rows), NEW board, NEW season, NEW limit, board.at \in Nat,
           board.at <= Len(runs)
    PROVE  Truth(runs, board, season, limit) => TruthfulBoard(board, season, limit)
  <1> DEFINE stored == {runs[i] : i \in 1..board.at}
             may == {run \in stored : /\ run.season = season
                                      /\ board.category = "fastest-clear" => run.reason = "complete"}
  <1>1. stored \cap MayEnter(board.category, season) = may
    <2>1. stored \subseteq ToSet(runs)
      <3>1. Len(runs) \in Nat /\ DOMAIN runs = 1..Len(runs)
        OBVIOUS
      <3>2. 1..board.at \subseteq DOMAIN runs
        BY <3>1
      <3> QED BY <3>2 DEF ToSet
    <2> QED BY <2>1 DEF MayEnter
  <1> QED BY <1>1 DEF Truth, TruthOf, TruthfulBoard

\* As many images as there are elements.
LEMMA OneToOne ==
    ASSUME NEW S, IsFiniteSet(S), NEW f, DOMAIN f = S, f = [x \in S |-> f[x]],
           \A x, y \in S : f[x] = f[y] => x = y
    PROVE  IsFiniteSet({f[x] : x \in S}) /\ Cardinality({f[x] : x \in S}) = Cardinality(S)
  <1> DEFINE T == {f[x] : x \in S}
  <1>1. f \in [S -> T] /\ \A y \in T : \E x \in S : f[x] = y
    OBVIOUS
  <1> HIDE DEF T
  <1>2. f \in Surjection(S, T) /\ f \in Injection(S, T)
    BY <1>1 DEF Surjection, Injection, IsInjective
  <1>3. IsFiniteSet(T) /\ Cardinality(T) = Cardinality(S)
    BY <1>2, FS_Surjection
  <1> QED BY <1>3 DEF T

Unique == \A i, j \in DOMAIN runs : runs[i].session = runs[j].session => i = j

LEMMA RankedOrder ==
    ASSUME runs \in Seq(Rows), NEW category \in Categories, NEW ids \in SUBSET DOMAIN runs
    PROVE  LET R == {p \in ids \X ids : Less(Order(category, p[1]), Order(category, p[2]))}
           IN  Orders(ids, R) /\ \A i \in ids : Ahead(category, ids, i) = Before(ids, R, i)
  <1> DEFINE R == {p \in ids \X ids : Less(Order(category, p[1]), Order(category, p[2]))}
  <1>1. \A i, j \in ids : <<i, j>> \in R <=> Less(Order(category, i), Order(category, j))
    OBVIOUS
  <1>2. /\ Width(category) \in Nat
        /\ \A i \in ids : Order(category, i) \in [1..Width(category) -> Int]
        /\ \A i, j \in ids : Order(category, i) = Order(category, j) => i = j
    BY OrderVector
  <1> HIDE DEF R
  <1>3. \A i \in ids : <<i, i>> \notin R
    BY <1>1, <1>2, LessAsymmetric
  <1>4. \A i, j \in ids : i = j \/ <<i, j>> \in R \/ <<j, i>> \in R
    BY <1>1, <1>2, LessTotal
  <1>5. ASSUME NEW i \in ids, NEW j \in ids, NEW k \in ids, <<i, j>> \in R, <<j, k>> \in R
        PROVE  <<i, k>> \in R
    BY <1>1, <1>2, <1>5, LessTransitive
  <1>6. Orders(ids, R)
    BY <1>3, <1>4, <1>5 DEF Orders
  <1>7. \A i \in ids : Ahead(category, ids, i) = Before(ids, R, i)
    BY <1>1 DEF Ahead, Before
  <1> QED BY <1>6, <1>7 DEF R

LEMMA Fewer ==
    ASSUME NEW a \in Nat, NEW b \in Nat
    PROVE  Min({a, b}) \in Nat /\ Min({a, b}) <= a /\ Min({a, b}) <= b
  <1>1. \E x \in {a, b} : \A y \in {a, b} : x <= y
    OBVIOUS
  <1>2. Min({a, b}) \in {a, b} /\ \A y \in {a, b} : Min({a, b}) <= y
    BY <1>1 DEF Min
  <1> QED BY <1>2

LEMMA FewerOf ==
    ASSUME NEW a \in Nat, NEW b \in Nat
    PROVE  Min({a, b}) \in {a, b}
  <1>1. \E x \in {a, b} : \A y \in {a, b} : x <= y
    OBVIOUS
  <1> QED BY <1>1 DEF Min

LEMMA BoardTrue ==
    ASSUME runs \in Seq(Rows), Unique, NEW category \in Categories, NEW season, NEW limit \in Nat
    PROVE  LET b == Board(category, season, limit)
           IN  b.category = category /\ b.at = Len(runs) /\ Truth(runs, b, season, limit)
  <1> DEFINE ids == Ranked(category, season)
             R == {p \in ids \X ids : Less(Order(category, p[1]), Order(category, p[2]))}
             count == Min({limit, Cardinality(ids)})
             P == [rank \in 1..count |->
                      CHOOSE i \in ids : Cardinality(Ahead(category, ids, i)) = rank - 1]
             b == Board(category, season, limit)
             rows == {runs[i] : i \in 1..b.at}
             may == {run \in rows : /\ run.season = season
                                    /\ b.category = "fastest-clear" => run.reason = "complete"}
             on(rank) == CHOOSE run \in rows : run.session = b.entries[rank].session
             listed == {on(rank) : rank \in DOMAIN b.entries}
  <1>1. /\ Len(runs) \in Nat /\ DOMAIN runs = 1..Len(runs) /\ ids \in SUBSET DOMAIN runs
        /\ IsFiniteSet(DOMAIN runs)
    <2>1. Len(runs) \in Nat /\ DOMAIN runs = 1..Len(runs)
      OBVIOUS
    <2>2. IsFiniteSet(1..Len(runs))
      BY <2>1, FS_Interval
    <2> QED BY <2>1, <2>2 DEF Ranked
  <1>2. IsFiniteSet(ids) /\ Cardinality(ids) \in Nat
    <2>1. IsFiniteSet(ids)
      BY <1>1, FS_Subset
    <2> QED BY <2>1, FS_CardinalityType
  <1>3. Orders(ids, R) /\ \A i \in ids : Ahead(category, ids, i) = Before(ids, R, i)
    BY <1>1, RankedOrder
  <1>4. \A i, j \in ids : Less(Order(category, i), Order(category, j)) => <<i, j>> \in R
    OBVIOUS
  <1>5. count \in Nat /\ count <= limit /\ count <= Cardinality(ids)
    BY <1>2, Fewer
  <1>6. /\ b.category = category /\ b.at = Len(runs)
        /\ b.entries = [rank \in 1..count |->
                           [rank |-> rank, session |-> runs[P[rank]].session,
                            value |-> Value(category, runs[P[rank]])]]
    BY DEF Board
  <1>7. may = {runs[i] : i \in ids}
    <2>1. rows = {runs[i] : i \in DOMAIN runs} /\ b.category = category
      BY <1>1, <1>6
    <2>2. \A i \in DOMAIN runs :
             i \in ids <=> (runs[i].season = season
                            /\ (category = "fastest-clear" => runs[i].reason = "complete"))
      BY DEF Ranked
    <2> HIDE DEF b, ids, rows
    <2>3. ASSUME NEW run \in may PROVE \E i \in ids : run = runs[i]
      <3>1. PICK i \in DOMAIN runs : run = runs[i]
        BY <2>1
      <3> QED BY <2>1, <2>2, <3>1
    <2>4. \A i \in ids : i \in DOMAIN runs
      BY <1>1
    <2>5. ASSUME NEW i \in ids PROVE runs[i] \in may
      <3>1. runs[i] \in rows
        BY <2>1, <2>4
      <3> QED BY <2>1, <2>2, <2>4, <3>1
    <2> HIDE DEF may
    <2> QED BY <2>3, <2>5
  <1> HIDE DEF ids, R
  <1>8. \A rank \in 1..count : P[rank] \in ids /\ Cardinality(Before(ids, R, P[rank])) = rank - 1
    <2> SUFFICES ASSUME NEW rank \in 1..count
                 PROVE  P[rank] \in ids /\ Cardinality(Before(ids, R, P[rank])) = rank - 1
      OBVIOUS
    <2>1. rank - 1 \in 0..Cardinality(ids) - 1
      BY <1>2, <1>5
    <2>2. \E i \in ids : Cardinality(Before(ids, R, i)) = rank - 1
      BY <1>2, <1>3, <2>1, Ranking
    <2>3. \E i \in ids : Cardinality(Ahead(category, ids, i)) = rank - 1
      BY <1>3, <2>2
    <2>4. P[rank] = CHOOSE i \in ids : Cardinality(Ahead(category, ids, i)) = rank - 1
      OBVIOUS
    <2>5. P[rank] \in ids /\ Cardinality(Ahead(category, ids, P[rank])) = rank - 1
      BY <2>3, <2>4
    <2> QED BY <1>3, <2>5
  <1>9. DOMAIN P = 1..count /\ P = [rank \in 1..count |-> P[rank]]
    OBVIOUS
  <1>10. DOMAIN b.entries = 1..count /\ Len(b.entries) = count
         /\ \A rank \in 1..count : b.entries[rank].session = runs[P[rank]].session
    <2> HIDE DEF b, P, count
    <2>1. DOMAIN b.entries = 1..count
      BY <1>6
    <2>2. Len(b.entries) = count
      BY <1>5, <2>1
    <2>3. \A rank \in 1..count : b.entries[rank].session = runs[P[rank]].session
      BY <1>6
    <2> QED BY <2>1, <2>2, <2>3
  <1>11. \A i \in DOMAIN runs : runs[i] \in rows
    BY <1>1, <1>6
  <1>12. \A run \in rows : \E i \in DOMAIN runs : run = runs[i]
    BY <1>1, <1>6
  <1>13. \A rank \in 1..count : on(rank) = runs[P[rank]]
    <2> SUFFICES ASSUME NEW rank \in 1..count PROVE on(rank) = runs[P[rank]]
      OBVIOUS
    <2>1. P[rank] \in DOMAIN runs /\ runs[P[rank]] \in rows
      BY <1>1, <1>8, <1>11
    <2>2. ASSUME NEW run \in rows, run.session = runs[P[rank]].session
          PROVE  run = runs[P[rank]]
      <3>1. PICK i \in DOMAIN runs : run = runs[i]
        BY <1>12
      <3> HIDE DEF P, rows
      <3>2. i = P[rank]
        BY <2>1, <2>2, <3>1 DEF Unique
      <3> QED BY <3>1, <3>2
    <2> HIDE DEF P, rows, b
    <2> QED BY <1>10, <2>1, <2>2
  <1> HIDE DEF P, b, rows, count
  <1>14. listed = {runs[P[rank]] : rank \in 1..count}
    <2> HIDE DEF on
    <2> QED BY <1>10, <1>13
  <1> HIDE DEF on, listed
  <1>15. listed \subseteq may
    BY <1>7, <1>8, <1>14
  <1>16. \A i, j \in DOMAIN runs : runs[i] = runs[j] => i = j
    BY DEF Unique
  <1>17. \A q, r \in 1..count : P[q] = P[r] => q = r
    <2> SUFFICES ASSUME NEW q \in 1..count, NEW r \in 1..count, P[q] = P[r] PROVE q = r
      OBVIOUS
    <2>1. q - 1 = r - 1 /\ q \in Int /\ r \in Int
      BY <1>8
    <2> QED BY <2>1
  <1>18. Cardinality(listed) = count
    <2> DEFINE S == 1..count
               f == [rank \in S |-> runs[P[rank]]]
    <2>1. IsFiniteSet(S) /\ Cardinality(S) = count
      <3>1. IsFiniteSet(S) /\ Cardinality(S) = IF 1 > count THEN 0 ELSE count - 1 + 1
        BY <1>5, FS_Interval
      <3> QED BY <1>5, <3>1
    <2>2. \A q, r \in S : f[q] = f[r] => q = r
      BY <1>1, <1>8, <1>16, <1>17
    <2>3. {f[x] : x \in S} = listed
      BY <1>14
    <2>4. DOMAIN f = S /\ f = [x \in S |-> f[x]]
      OBVIOUS
    <2> HIDE DEF S, f
    <2> QED BY <2>1, <2>2, <2>3, <2>4, OneToOne
  <1>19. Cardinality(may) = Cardinality(ids)
    <2> DEFINE f == [i \in ids |-> runs[i]]
    <2>1. \A i, j \in ids : f[i] = f[j] => i = j
      BY <1>1, <1>16
    <2>2. {f[x] : x \in ids} = may
      BY <1>7
    <2>3. DOMAIN f = ids /\ f = [x \in ids |-> f[x]]
      OBVIOUS
    <2> HIDE DEF f, may
    <2> QED BY <1>2, <2>1, <2>2, <2>3, OneToOne
  <1>20. ASSUME NEW rank \in 1..count, NEW run \in may \ {on(r) : r \in 1..rank}
         PROVE  ~Better(category, run, on(rank))
    <2>1. PICK j \in ids : run = runs[j]
      BY <1>7
    <2>2. rank \in Nat /\ \A r \in 1..rank : r \in 1..count
      BY <1>5
    <2>3. \A r \in 1..rank : j # P[r]
      <3> SUFFICES ASSUME NEW r \in 1..rank, j = P[r] PROVE FALSE
        OBVIOUS
      <3>1. on(r) = run
        BY <1>13, <2>1, <2>2
      <3> QED BY <3>1
    <2> DEFINE c == Cardinality(Before(ids, R, j))
    <2>4. c \in Nat
      <3>1. c \in 0..Cardinality(ids) - 1
        BY <1>2, <1>3, Ranking
      <3> QED BY <1>2, <3>1
    <2>5. ~(c < rank - 1)
      <3> SUFFICES ASSUME c < rank - 1 PROVE FALSE
        OBVIOUS
      <3> HIDE DEF c
      <3>1. c + 1 \in 1..rank /\ (c + 1) - 1 = c
        BY <2>2, <2>4
      <3>2. Cardinality(Before(ids, R, P[c + 1])) = c /\ P[c + 1] \in ids
        BY <1>8, <2>2, <3>1
      <3>3. P[c + 1] = j
        BY <1>2, <1>3, <3>2, Ranking DEF c
      <3> QED BY <2>3, <3>1, <3>3
    <2>6. P[rank] \in ids /\ Cardinality(Before(ids, R, P[rank])) = rank - 1
      BY <1>8
    <2>7. ~(<<j, P[rank]>> \in R)
      <3> SUFFICES ASSUME <<j, P[rank]>> \in R PROVE FALSE
        OBVIOUS
      <3>1. c < Cardinality(Before(ids, R, P[rank]))
        BY <1>2, <1>3, <2>6, Ranking
      <3> HIDE DEF c
      <3> QED BY <2>5, <2>6, <3>1
    <2>8. ~Less(Order(category, j), Order(category, P[rank]))
      BY <1>4, <2>6, <2>7
    <2>9. ~Better(category, runs[j], runs[P[rank]])
      BY <1>1, <2>6, <2>8, BetterFirst
    <2> QED BY <1>13, <2>1, <2>9
  <1>21. count = Min({limit, Cardinality(may)})
    BY <1>19 DEF count
  <1> HIDE DEF may
  <1>22. /\ listed \subseteq may /\ Cardinality(listed) = Len(b.entries)
         /\ Len(b.entries) = Min({limit, Cardinality(may)})
         /\ \A rank \in DOMAIN b.entries :
               \A run \in may \ {on(r) : r \in 1..rank} : ~Better(b.category, run, on(rank))
    BY <1>6, <1>10, <1>15, <1>18, <1>20, <1>21
  <1>23. Truth(runs, b, season, limit)
    BY <1>22 DEF Truth, TruthOf, may, listed, on, rows
  <1> QED BY <1>6, <1>23 DEF b

-----------------------------------------------------------------------------
\* What there is of a response is true of the rows, at every moment.
Asking == Queries \cup {Everything}

Read(rows, r, i) ==
    /\ r.boards[i].category = Asked(r.query)[i]
    /\ r.boards[i].at \in Nat
    /\ r.since <= r.boards[i].at /\ r.boards[i].at <= Len(rows)
    /\ Truth(rows, r.boards[i], r.season, EffectiveLimit(r.query))

Answering(rows, r) ==
    /\ r.query.category \in {"all"} \cup Categories
    /\ r.query.season # "" => r.season = r.query.season
    /\ r.since \in Nat /\ r.since <= Len(rows)
    /\ r.boards \in Seq(ToSet(r.boards)) /\ Len(r.boards) <= Len(Asked(r.query))
    /\ \A i \in DOMAIN r.boards : Read(rows, r, i)

Sound(rows, r) ==
    /\ r.at \in {"Asked", "Reading", "Answered"} => r.query \in Asking
    /\ r.at \in {"Reading", "Answered"} => Answering(rows, r)
    /\ r.at = "Reading" =>
          /\ r = [at |-> "Reading", query |-> r.query, limit |-> EffectiveLimit(r.query),
                  season |-> r.season, boards |-> r.boards, since |-> r.since]
          /\ Len(r.boards) < Len(Asked(r.query))
    /\ r.at = "Answered" => Len(r.boards) = Len(Asked(r.query))

AllSound == \A s \in DOMAIN request : Sound(runs, request[s])

LEMMA Limits ==
    ASSUME NEW query \in Asking
    PROVE  /\ EffectiveLimit(query) \in 1..MAX_LIMIT /\ MAX_LIMIT \in Nat
           /\ query.limit \in Int
           /\ query.limit \in 1..MAX_LIMIT => EffectiveLimit(query) = query.limit
           /\ query.limit < 1 /\ query.limit # -1 => EffectiveLimit(query) = 1
           /\ query.limit > MAX_LIMIT => EffectiveLimit(query) = MAX_LIMIT
           /\ query.limit = -1 => EffectiveLimit(query) = DEFAULT_LIMIT
  <1>1. query.limit \in Int
    <2>1. CASE query \in Queries
      <3>1. \A q \in Queries : q.limit \in Int
        BY BoardsAssumption
      <3> QED BY <2>1, <3>1
    <2>2. CASE query = Everything
      <3>1. query.limit = -1
        BY <2>2 DEF Everything
      <3> QED BY <3>1
    <2> QED BY <2>1, <2>2 DEF Asking
  <1>2. /\ MAX_LIMIT \in Nat /\ DEFAULT_LIMIT \in Nat /\ DEFAULT_LIMIT # 0 /\ MAX_LIMIT # 0
        /\ DEFAULT_LIMIT <= MAX_LIMIT
    BY BoardsAssumption
  <1> DEFINE n == query.limit
  <1>3. CASE n = -1
    <2>1. EffectiveLimit(query) = DEFAULT_LIMIT
      BY <1>3 DEF EffectiveLimit
    <2> QED BY <1>2, <1>3, <2>1
  <1>4. CASE n # -1 /\ n < 1
    <2>1. EffectiveLimit(query) = 1
      BY <1>4 DEF EffectiveLimit
    <2> QED BY <1>1, <1>2, <1>4, <2>1
  <1>5. CASE n >= 1
    <2>1. n \in Nat /\ n # -1 /\ ~(n < 1)
      BY <1>1, <1>5
    <2>2. EffectiveLimit(query) = Min({n, MAX_LIMIT})
      BY <2>1 DEF EffectiveLimit
    <2>3. Min({n, MAX_LIMIT}) \in {n, MAX_LIMIT}
      BY <1>2, <2>1, FewerOf
    <2>4. Min({n, MAX_LIMIT}) <= n /\ Min({n, MAX_LIMIT}) <= MAX_LIMIT
      BY <1>2, <2>1, Fewer
    <2> DEFINE m == Min({n, MAX_LIMIT})
    <2>5. m \in {n, MAX_LIMIT} /\ m <= n /\ m <= MAX_LIMIT
      BY <2>3, <2>4
    <2> HIDE DEF m
    <2>6. m \in 1..MAX_LIMIT /\ (n <= MAX_LIMIT => m = n) /\ (n > MAX_LIMIT => m = MAX_LIMIT)
      BY <1>2, <1>5, <2>1, <2>5
    <2> QED BY <1>1, <1>2, <1>5, <2>1, <2>2, <2>6 DEF m
  <1> QED BY <1>1, <1>3, <1>4, <1>5

LEMMA AskedFor ==
    ASSUME NEW query, query.category \in {"all"} \cup Categories
    PROVE  /\ Asked(query) \in Seq(Categories) /\ Len(Asked(query)) \in Nat /\ Len(Asked(query)) # 0
           /\ \A i \in 1..Len(Asked(query)) : Asked(query)[i] \in Categories
  <1>1. ALL \in Seq(Categories) /\ ALL # <<>>
    BY BoardsAssumption DEF Categories
  <1>2. Asked(query) \in Seq(Categories) /\ Asked(query) # <<>>
    <2>1. CASE query.category = "all"
      BY <1>1, <2>1 DEF Asked
    <2>2. CASE query.category # "all"
      <3>1. Asked(query) = <<query.category>> /\ query.category \in Categories
        BY <2>2 DEF Asked
      <3> QED BY <3>1
    <2> QED BY <2>1, <2>2
  <1> DEFINE q == Asked(query)
  <1>3. q \in Seq(Categories) /\ q # <<>>
    BY <1>2
  <1> HIDE DEF q
  <1>4. /\ Len(q) \in Nat /\ Len(q) # 0 /\ \A i \in 1..Len(q) : q[i] \in Categories
    BY <1>3, EmptySeq
  <1> QED BY <1>3, <1>4 DEF q

LEMMA OwnRange ==
    ASSUME NEW S, NEW q \in Seq(S)
    PROVE  q \in Seq(ToSet(q))
  <1>1. Len(q) \in Nat /\ q \in [1..Len(q) -> S] /\ DOMAIN q = 1..Len(q)
    OBVIOUS
  <1>2. \A i \in 1..Len(q) : q[i] \in ToSet(q)
    BY <1>1 DEF ToSet
  <1>3. q \in [1..Len(q) -> ToSet(q)]
    BY <1>1, <1>2
  <1> QED BY <1>1, <1>3, SeqDef

\* Rows only come after the others.
Extends(rows, more) ==
    /\ Len(rows) \in Nat /\ Len(more) \in Nat /\ Len(rows) <= Len(more)
    /\ \A i \in 1..Len(rows) : more[i] = rows[i]

LEMMA SoundStays ==
    ASSUME NEW rows, NEW more, Extends(rows, more), NEW r, Sound(rows, r)
    PROVE  Sound(more, r)
  <1>1. /\ Len(rows) \in Nat /\ Len(more) \in Nat /\ Len(rows) <= Len(more)
        /\ \A i \in 1..Len(rows) : more[i] = rows[i]
    BY DEF Extends
  <1>2. ASSUME Answering(rows, r) PROVE Answering(more, r)
    <2>1. ASSUME NEW i \in DOMAIN r.boards PROVE Read(more, r, i)
      <3> DEFINE board == r.boards[i]
      <3>1. Read(rows, r, i)
        BY <1>2 DEF Answering
      <3>2. /\ board.at \in Nat /\ board.at <= Len(rows)
            /\ Truth(rows, board, r.season, EffectiveLimit(r.query))
        BY <3>1 DEF Read
      <3> HIDE DEF board
      <3>3. board.at <= Len(more) /\ \A k \in 1..board.at : more[k] = rows[k]
        BY <1>1, <3>2
      <3>4. Truth(more, board, r.season, EffectiveLimit(r.query))
        BY <3>2, <3>3, TruthStays
      <3> QED BY <3>1, <3>3, <3>4 DEF Read, board
    <2>2. r.since \in Nat /\ r.since <= Len(more)
      <3>1. r.since \in Nat /\ r.since <= Len(rows)
        BY <1>2 DEF Answering
      <3> DEFINE n == r.since
      <3>2. n \in Nat /\ n <= Len(rows)
        BY <3>1
      <3> HIDE DEF n
      <3>3. n <= Len(more)
        BY <1>1, <3>2
      <3> QED BY <3>2, <3>3 DEF n
    <2> QED BY <1>2, <2>1, <2>2 DEF Answering
  <1> QED BY <1>2 DEF Sound

LEMMA RowsExtend ==
    ASSUME IInv, Unique, [Next]_vars
    PROVE  Extends(runs, runs') /\ Unique'
  <1>1. runs \in Seq(Rows) /\ Len(runs) \in Nat /\ DOMAIN runs = 1..Len(runs)
    BY DEF IInv, Seeded
  <1>2. CASE runs' = runs
    BY <1>1, <1>2 DEF Extends, Unique
  <1>3. ASSUME NEW run \in Rows, runs' = InsertRun(run)
        PROVE  Extends(runs, runs') /\ Unique'
    <2>1. CASE run.session \in Stored
      BY <1>2, <1>3, <2>1 DEF InsertRun
    <2>2. CASE run.session \notin Stored
      <3>1. runs' = Append(runs, run)
        BY <1>3, <2>2 DEF InsertRun
      <3>2. /\ Len(runs') = Len(runs) + 1 /\ runs'[Len(runs) + 1] = run
            /\ \A i \in 1..Len(runs) : runs'[i] = runs[i]
        BY <1>1, <3>1, AppendProperties
      <3>3. DOMAIN runs' = 1..Len(runs) + 1
        BY <1>1, <3>1, AppendProperties
      <3>4. Extends(runs, runs')
        BY <1>1, <3>2 DEF Extends
      <3>5. \A i \in 1..Len(runs) : runs[i].session # run.session
        BY <1>1, <2>2 DEF Stored
      <3>6. ASSUME NEW i \in DOMAIN runs', NEW j \in DOMAIN runs',
                   runs'[i].session = runs'[j].session
            PROVE  i = j
        <4>1. /\ i \in 1..Len(runs) \/ i = Len(runs) + 1
              /\ j \in 1..Len(runs) \/ j = Len(runs) + 1
          BY <1>1, <3>3
        <4>2. CASE i \in 1..Len(runs) /\ j \in 1..Len(runs)
          BY <1>1, <3>2, <3>6, <4>2 DEF Unique
        <4> QED BY <3>2, <3>5, <3>6, <4>1, <4>2
      <3> QED BY <3>4, <3>6 DEF Unique
    <2> QED BY <2>1, <2>2
  <1>4. CASE SeedRun
    <2>1. server.seeded + 1 \in 1..Len(Seeds) /\ runs' = InsertRun(Seeds[server.seeded + 1])
      BY <1>4, SeedList DEF IInv, Seeded, SeedRun
    <2>2. Seeds[server.seeded + 1] \in Rows
      BY <2>1, SeedList DEF Rows
    <2> QED BY <1>3, <2>1, <2>2
  <1>5. CASE \E run \in Arrivals : Arrive(run)
    BY <1>3, <1>5 DEF Arrive, Rows
  <1>6. CASE UNCHANGED vars \/ Start \/ Serve \/ Crash \/ Frame \/ Reopen
    <2>1. runs' = runs
      BY <1>6 DEF vars, Start, Serve, Crash, Frame, Reopen
    <2> QED BY <1>2, <2>1
  <1>7. ASSUME NEW s \in DOMAIN request, Ask(s) \/ Handle(s) \/ Lose(s) \/ Deliver(s)
        PROVE  Extends(runs, runs') /\ Unique'
    <2>1. runs' = runs
      BY <1>7 DEF Ask, Handle, Resolve, ReadBoard, Refuse, Lose, Deliver, Send, Show, Leave, Done
    <2> QED BY <1>2, <2>1
  <1> QED BY <1>4, <1>5, <1>6, <1>7 DEF Next

\* One request changes, to a sound one.
LEMMA OneChanges ==
    ASSUME AllSound, Extends(runs, runs'), NEW s \in DOMAIN request, NEW v,
           request' = [request EXCEPT ![s] = v], Sound(runs', v)
    PROVE  AllSound'
  <1>1. DOMAIN request' = DOMAIN request /\ request'[s] = v
        /\ \A t \in DOMAIN request : t # s => request'[t] = request[t]
    OBVIOUS
  <1>2. ASSUME NEW t \in DOMAIN request PROVE Sound(runs', request'[t])
    <2>1. Sound(runs, request[t])
      BY DEF AllSound
    <2>2. Sound(runs', request[t])
      BY <2>1, SoundStays
    <2> QED BY <1>1, <2>2
  <1> QED BY <1>1, <1>2 DEF AllSound

LEMMA ResolveSound ==
    ASSUME IInv, AllSound, NEW s \in DOMAIN request, Resolve(s)
    PROVE  \E v : request' = [request EXCEPT ![s] = v] /\ Sound(runs, v)
  <1> DEFINE query == request[s].query
             v == [at |-> "Reading", query |-> query, limit |-> EffectiveLimit(query),
                   season |-> IF query.season = "" THEN CurrentSeason ELSE query.season,
                   boards |-> <<>>, since |-> Len(runs)]
  <1>1. query \in Asking
    BY DEF AllSound, Sound, Resolve
  <1>2. CASE query.category \in {"all"} \cup Categories /\ query.season # "malformed"
    <2>1. request' = [request EXCEPT ![s] = v]
      BY <1>2 DEF Resolve
    <2>2. /\ v.at = "Reading" /\ v.query = query /\ v.limit = EffectiveLimit(query)
          /\ v.season = IF query.season = "" THEN CurrentSeason ELSE query.season
          /\ v.boards = <<>> /\ v.since = Len(runs)
      OBVIOUS
    <2>3. v = [at |-> "Reading", query |-> v.query, limit |-> EffectiveLimit(v.query),
               season |-> v.season, boards |-> v.boards, since |-> v.since]
      OBVIOUS
    <2>4. Len(runs) \in Nat
      BY DEF IInv, Seeded
    <2>5. Len(Asked(query)) \in Nat /\ Len(Asked(query)) # 0
      BY <1>2, AskedFor
    <2> HIDE DEF v, query
    <2>6. Len(v.boards) = 0 /\ DOMAIN v.boards = {} /\ v.boards \in Seq(ToSet(v.boards))
      <3>1. Len(<<>>) = 0 /\ DOMAIN <<>> = {} /\ \A S : <<>> \in Seq(S)
        OBVIOUS
      <3> QED BY <2>2, <3>1
    <2>7. Len(v.boards) < Len(Asked(v.query)) /\ Len(v.boards) <= Len(Asked(v.query))
      <3>1. \A m \in Nat : m # 0 => 0 < m /\ 0 <= m
        OBVIOUS
      <3> QED BY <2>2, <2>5, <2>6, <3>1
    <2>8. Answering(runs, v)
      <3>1. v.since \in Nat /\ v.since <= Len(runs)
        <4>1. \A a, b : a = b /\ b \in Nat => a \in Nat /\ a <= b
          OBVIOUS
        <4> QED BY <2>2, <2>4, <4>1
      <3>2. v.query.season # "" => v.season = v.query.season
        BY <2>2
      <3> QED BY <1>2, <2>2, <2>6, <2>7, <3>1, <3>2 DEF Answering
    <2>9. Sound(runs, v)
      BY <1>1, <2>2, <2>3, <2>7, <2>8 DEF Sound
    <2> QED BY <2>1, <2>9 DEF v
  <1>3. CASE ~(query.category \in {"all"} \cup Categories /\ query.season # "malformed")
    <2>1. request' = [request EXCEPT ![s] = [at |-> "Failed"]]
      BY <1>3 DEF Resolve, Failed
    <2>2. Sound(runs, [at |-> "Failed"])
      BY DEF Sound
    <2> QED BY <2>1, <2>2
  <1> QED BY <1>2, <1>3

LEMMA ReadSound ==
    ASSUME IInv, Unique, AllSound, NEW s \in DOMAIN request, ReadBoard(s)
    PROVE  \E v : request' = [request EXCEPT ![s] = v] /\ Sound(runs, v)
  <1> DEFINE r == request[s]
             categories == Asked(r.query)
             category == categories[Len(r.boards) + 1]
             board == Board(category, r.season, r.limit)
             boards == Append(r.boards, board)
             more == [at |-> "Reading", query |-> r.query, limit |-> EffectiveLimit(r.query),
                      season |-> r.season, boards |-> boards, since |-> r.since]
             all == [at |-> "Answered", query |-> r.query, season |-> r.season,
                     boards |-> boards, since |-> r.since]
  <1>1. /\ r.at = "Reading" /\ r.query \in Asking /\ Answering(runs, r)
        /\ r = [at |-> "Reading", query |-> r.query, limit |-> EffectiveLimit(r.query),
                season |-> r.season, boards |-> r.boards, since |-> r.since]
        /\ Len(r.boards) < Len(categories)
    BY DEF AllSound, Sound, ReadBoard
  <1>2. request' = [request EXCEPT ![s] = IF Len(boards) < Len(categories) THEN more ELSE all]
    <2>1. request' = [request EXCEPT ![s] =
              IF Len(boards) < Len(categories) THEN [r EXCEPT !.boards = boards] ELSE all]
      BY DEF ReadBoard
    <2> HIDE DEF r, boards, categories
    <2>2. [r EXCEPT !.boards = boards] = more
      BY <1>1
    <2> QED BY <2>1, <2>2
  <1>3. /\ r.query.category \in {"all"} \cup Categories
        /\ r.query.season # "" => r.season = r.query.season
        /\ r.since \in Nat /\ r.since <= Len(runs)
        /\ r.boards \in Seq(ToSet(r.boards))
        /\ \A i \in DOMAIN r.boards : Read(runs, r, i)
    BY <1>1 DEF Answering
  <1>4. runs \in Seq(Rows) /\ Len(runs) \in Nat
    BY DEF IInv, Seeded
  <1>5. /\ Len(categories) \in Nat
        /\ \A i \in 1..Len(categories) : categories[i] \in Categories
    BY <1>3, AskedFor
  <1>6. r.limit = EffectiveLimit(r.query) /\ EffectiveLimit(r.query) \in Nat
    <2>1. EffectiveLimit(r.query) \in 1..MAX_LIMIT /\ MAX_LIMIT \in Nat
      BY <1>1, Limits
    <2> HIDE DEF r
    <2>2. r.limit = EffectiveLimit(r.query)
      BY <1>1
    <2> QED BY <2>1, <2>2
  <1> DEFINE done == r.boards
  <1> HIDE DEF categories
  <1>7. /\ done \in Seq(ToSet(done)) /\ Len(done) \in Nat /\ DOMAIN done = 1..Len(done)
        /\ Len(done) + 1 \in 1..Len(categories)
    <2> HIDE DEF r
    <2>1. done \in Seq(ToSet(done))
      BY <1>3
    <2> HIDE DEF done
    <2>2. Len(done) \in Nat /\ DOMAIN done = 1..Len(done)
      BY <2>1
    <2>3. Len(done) < Len(categories)
      BY <1>1 DEF done
    <2> QED BY <1>5, <2>1, <2>2, <2>3
  <1>8. category \in Categories
    BY <1>5, <1>7
  <1>9. /\ board.category = category /\ board.at = Len(runs)
        /\ Truth(runs, board, r.season, EffectiveLimit(r.query))
    <2> HIDE DEF category, r
    <2> QED BY <1>4, <1>6, <1>8, BoardTrue DEF board
  <1> HIDE DEF board
  <1>10. /\ boards \in Seq(ToSet(boards)) /\ Len(boards) = Len(done) + 1
         /\ DOMAIN boards = 1..Len(done) + 1
         /\ boards[Len(done) + 1] = board
         /\ \A i \in 1..Len(done) : boards[i] = done[i]
    <2> HIDE DEF r
    <2> DEFINE S == ToSet(done) \cup {board}
    <2>1. done \in Seq(S) /\ board \in S
      <3> HIDE DEF done
      <3>1. done \in Seq(ToSet(done)) /\ ToSet(done) \subseteq S
        BY <1>7
      <3> HIDE DEF S
      <3>2. done \in Seq(S)
        BY <3>1, SeqMonotonic
      <3> QED BY <3>2 DEF S
    <2> HIDE DEF S, done
    <2>2. boards = Append(done, board)
      BY DEF done
    <2> HIDE DEF boards
    <2>3. /\ boards \in Seq(S) /\ Len(boards) = Len(done) + 1 /\ boards[Len(done) + 1] = board
          /\ \A i \in 1..Len(done) : boards[i] = done[i]
      BY <2>1, <2>2, AppendProperties
    <2>4. boards \in Seq(ToSet(boards)) /\ DOMAIN boards = 1..Len(boards)
      BY <2>3, OwnRange
    <2> QED BY <2>3, <2>4
  <1> HIDE DEF boards
  <1>11. ASSUME NEW v, v.query = r.query, v.season = r.season, v.boards = boards, v.since = r.since
         PROVE  Answering(runs, v)
    <2>1. ASSUME NEW i \in DOMAIN boards PROVE Read(runs, v, i)
      <3>1. CASE i \in 1..Len(done)
        <4>1. Read(runs, r, i)
          BY <1>3, <1>7, <3>1
        <4>2. boards[i] = done[i]
          BY <1>10, <3>1
        <4> HIDE DEF r, category
        <4> QED BY <1>11, <4>1, <4>2 DEF Read
      <3>2. CASE i = Len(done) + 1
        <4>1. boards[i] = board /\ category = Asked(v.query)[i]
          BY <1>10, <1>11, <3>2 DEF categories
        <4> HIDE DEF category, r, done
        <4>2. board.at \in Nat /\ board.at <= Len(runs) /\ r.since <= board.at
          <5>1. \A a, b, c : a = b /\ b \in Nat /\ c <= b => a \in Nat /\ a <= b /\ c <= a
            OBVIOUS
          <5>2. board.at = Len(runs) /\ Len(runs) \in Nat /\ r.since <= Len(runs)
            BY <1>3, <1>4, <1>9
          <5> QED BY <5>1, <5>2
        <4> QED BY <1>9, <1>11, <4>1, <4>2 DEF Read
      <3> HIDE DEF done
      <3> QED BY <1>7, <1>10, <2>1, <3>1, <3>2
    <2>2. Len(boards) <= Len(Asked(v.query))
      <3> HIDE DEF done, r
      <3> QED BY <1>5, <1>7, <1>10, <1>11 DEF categories
    <2> HIDE DEF r
    <2> QED BY <1>3, <1>10, <1>11, <2>1, <2>2 DEF Answering
  <1>12. CASE Len(boards) < Len(categories)
    <2> HIDE DEF r, done
    <2>1. /\ more.at = "Reading" /\ more.query = r.query /\ more.season = r.season
          /\ more.boards = boards /\ more.since = r.since
          /\ more = [at |-> "Reading", query |-> more.query, limit |-> EffectiveLimit(more.query),
                     season |-> more.season, boards |-> more.boards, since |-> more.since]
      OBVIOUS
    <2> HIDE DEF more
    <2>2. Answering(runs, more) /\ Len(more.boards) < Len(Asked(more.query))
      BY <1>11, <1>12, <2>1 DEF categories
    <2>3. Sound(runs, more)
      BY <1>1, <2>1, <2>2 DEF Sound
    <2> QED BY <1>2, <1>12, <2>3 DEF r
  <1>13. CASE ~(Len(boards) < Len(categories))
    <2> HIDE DEF r, done
    <2>1. /\ all.at = "Answered" /\ all.query = r.query /\ all.season = r.season
          /\ all.boards = boards /\ all.since = r.since
      OBVIOUS
    <2> HIDE DEF all
    <2>2. Answering(runs, all)
      BY <1>11, <2>1
    <2>3. Len(all.boards) = Len(Asked(all.query))
      BY <1>5, <1>7, <1>10, <1>13, <2>1 DEF categories
    <2>4. Sound(runs, all)
      BY <1>1, <2>1, <2>2, <2>3 DEF Sound
    <2> QED BY <1>2, <1>13, <2>4 DEF r
  <1> QED BY <1>12, <1>13

LEMMA InitSound ==
    ASSUME Init
    PROVE  AllSound /\ Unique
  <1>1. runs = <<>> /\ DOMAIN runs = {}
    BY DEF Init
  <1>2. \A s \in DOMAIN request : request[s].at = "Free"
    BY DEF Init, Idle
  <1> QED BY <1>1, <1>2 DEF AllSound, Sound, Unique

LEMMA StepSound ==
    ASSUME IInv, Unique, AllSound, [Next]_vars
    PROVE  AllSound'
  <1>1. Extends(runs, runs')
    BY RowsExtend
  <1>2. CASE request' = request
    BY <1>1, <1>2, SoundStays DEF AllSound
  <1>3. ASSUME NEW s \in DOMAIN request, NEW v, request' = [request EXCEPT ![s] = v],
               Sound(runs', v)
        PROVE  AllSound'
    BY <1>1, <1>3, OneChanges
  <1>4. Sound(runs', [at |-> "Failed"]) /\ Sound(runs', [at |-> "Free"])
    BY DEF Sound
  <1>5. ASSUME NEW s \in DOMAIN request, Ask(s) PROVE AllSound'
    <2>1. PICK query \in Asking : request' = [request EXCEPT ![s] = [at |-> "Asked", query |-> query]]
      BY <1>5 DEF Ask, Asking
    <2>2. Sound(runs', [at |-> "Asked", query |-> query])
      BY DEF Sound
    <2> QED BY <1>3, <2>1, <2>2
  <1>6. ASSUME NEW s \in DOMAIN request, Handle(s) PROVE AllSound'
    <2>1. CASE Resolve(s)
      <3>1. runs' = runs
        BY <2>1 DEF Resolve
      <3> QED BY <1>3, <2>1, <3>1, ResolveSound
    <2>2. CASE ReadBoard(s)
      <3>1. runs' = runs
        BY <2>2 DEF ReadBoard
      <3> QED BY <1>3, <2>2, <3>1, ReadSound
    <2>3. CASE Refuse(s)
      BY <1>3, <1>4, <2>3 DEF Refuse, Failed
    <2> QED BY <1>6, <2>1, <2>2, <2>3 DEF Handle
  <1>7. ASSUME NEW s \in DOMAIN request, Lose(s) PROVE AllSound'
    BY <1>3, <1>4, <1>7 DEF Lose, Failed
  <1>8. ASSUME NEW s \in DOMAIN request, Deliver(s) PROVE AllSound'
    <2>1. Done(s)
      BY <1>8 DEF Deliver, Send, Show, Leave
    <2> QED BY <1>3, <1>4, <2>1 DEF Done
  <1>9. CASE Crash
    <2>1. /\ DOMAIN request' = DOMAIN request
          /\ \A s \in DOMAIN request : request'[s] = [at |-> "Failed"] \/ request'[s] = request[s]
      BY <1>9 DEF Crash
    <2> QED BY <1>1, <1>4, <2>1, SoundStays DEF AllSound
  <1>10. CASE Reopen
    <2>1. \A s \in DOMAIN request' : request'[s] = [at |-> "Free"]
      BY <1>10 DEF Reopen, Idle
    <2> QED BY <1>4, <2>1 DEF AllSound
  <1>11. CASE \/ UNCHANGED vars \/ Start \/ SeedRun \/ Serve \/ Frame
              \/ \E run \in Arrivals : Arrive(run)
    <2>1. request' = request
      BY <1>11 DEF vars, Start, SeedRun, Serve, Frame, Arrive
    <2> QED BY <1>2, <2>1
  <1> QED BY <1>5, <1>6, <1>7, <1>8, <1>9, <1>10, <1>11 DEF Next

LEMMA SoundIsTruthful ==
    ASSUME IInv, AllSound
    PROVE  BoardsTruthful
  <1> SUFFICES ASSUME NEW s \in DOMAIN request, request[s].at = "Answered"
               PROVE  LET r == request[s]
                          limit == CHOOSE n \in 1..MAX_LIMIT :
                                      /\ r.query.limit \in 1..MAX_LIMIT => n = r.query.limit
                                      /\ r.query.limit < 1 /\ r.query.limit # -1 => n = 1
                                      /\ r.query.limit > MAX_LIMIT => n = MAX_LIMIT
                                      /\ r.query.limit = -1 => n = DEFAULT_LIMIT
                      IN  /\ r.query.season # "" => r.season = r.query.season
                          /\ [i \in DOMAIN r.boards |-> r.boards[i].category] = Asked(r.query)
                          /\ \A i \in DOMAIN r.boards :
                                /\ r.since <= r.boards[i].at /\ r.boards[i].at <= Len(runs)
                                /\ TruthfulBoard(r.boards[i], r.season, limit)
    BY DEF BoardsTruthful
  <1> DEFINE r == request[s]
             q == r.query.limit
             limit == CHOOSE n \in 1..MAX_LIMIT :
                         /\ q \in 1..MAX_LIMIT => n = q
                         /\ q < 1 /\ q # -1 => n = 1
                         /\ q > MAX_LIMIT => n = MAX_LIMIT
                         /\ q = -1 => n = DEFAULT_LIMIT
             asked == Asked(r.query)
             boards == r.boards
  <1>1. r.query \in Asking /\ Answering(runs, r) /\ Len(boards) = Len(asked)
    BY DEF AllSound, Sound
  <1>2. limit = EffectiveLimit(r.query)
    <2> DEFINE e == EffectiveLimit(r.query)
    <2>1. /\ e \in 1..MAX_LIMIT /\ MAX_LIMIT \in Nat /\ q \in Int
          /\ q \in 1..MAX_LIMIT => e = q
          /\ q < 1 /\ q # -1 => e = 1
          /\ q > MAX_LIMIT => e = MAX_LIMIT
          /\ q = -1 => e = DEFAULT_LIMIT
      BY <1>1, Limits
    <2> HIDE DEF e, q
    <2>2. q \in 1..MAX_LIMIT \/ (q < 1 /\ q # -1) \/ q > MAX_LIMIT \/ q = -1
      BY <2>1
    <2> QED BY <2>1, <2>2 DEF e
  <1>3. runs \in Seq(Rows)
    BY DEF IInv, Seeded
  <1> HIDE DEF limit, r
  <1>4. /\ r.query.season # "" => r.season = r.query.season
        /\ r.query.category \in {"all"} \cup Categories
        /\ boards \in Seq(ToSet(boards))
        /\ \A i \in DOMAIN boards : Read(runs, r, i)
    BY <1>1 DEF Answering
  <1>5. asked \in Seq(Categories)
    BY <1>4, AskedFor
  <1> HIDE DEF asked, boards
  <1>6. DOMAIN boards = DOMAIN asked /\ asked = [i \in DOMAIN asked |-> asked[i]]
    <2>1. DOMAIN boards = 1..Len(boards)
      <3> DEFINE S == ToSet(boards)
      <3>1. boards \in Seq(S)
        BY <1>4
      <3> HIDE DEF S
      <3> QED BY <3>1
    <2>2. DOMAIN asked = 1..Len(asked) /\ asked = [i \in DOMAIN asked |-> asked[i]]
      BY <1>5
    <2>3. Len(boards) = Len(asked)
      BY <1>1 DEF boards, asked
    <2> QED BY <2>1, <2>2, <2>3
  <1>7. [i \in DOMAIN boards |-> boards[i].category] = asked
    <2>1. \A i \in DOMAIN boards : boards[i].category = asked[i]
      BY <1>4 DEF Read, asked, boards
    <2> QED BY <1>6, <2>1
  <1>8. ASSUME NEW i \in DOMAIN boards
        PROVE  /\ r.since <= boards[i].at /\ boards[i].at <= Len(runs)
               /\ TruthfulBoard(boards[i], r.season, limit)
    <2>1. /\ boards[i].at \in Nat
          /\ r.since <= boards[i].at /\ boards[i].at <= Len(runs)
          /\ Truth(runs, boards[i], r.season, limit)
      BY <1>2, <1>4 DEF Read, boards
    <2>2. TruthfulBoard(boards[i], r.season, limit)
      BY <1>3, <2>1, TruthIs
    <2> QED BY <2>1, <2>2
  <1> QED BY <1>4, <1>7, <1>8 DEF r, limit, asked, boards

\* Every response is the truth about the table, whatever arrives between its boards:
\* BoardsTruthful, for any runs, arrivals, queries and limits.
THEOREM BoardsTruthfulSafe == Spec => []BoardsTruthful
  <1>1. Init => AllSound /\ Unique
    BY InitSound
  <1>2. IInv /\ AllSound /\ Unique /\ [Next]_vars => (AllSound /\ Unique)'
    BY StepSound, RowsExtend
  <1>3. IInv /\ AllSound => BoardsTruthful
    BY SoundIsTruthful
  <1> QED BY <1>1, <1>2, <1>3, FakeRunsFirst, PTL DEF Spec
-----------------------------------------------------------------------------
\* Recursive functions on 0..n.
LEMMA Upto ==
    ASSUME NEW n \in Nat, NEW S, 0 \in S, \A k \in 0..(n - 1) : k \in S => k + 1 \in S
    PROVE  0..n \subseteq S
  <1> SUFFICES ASSUME NEW j \in 0..n, j \notin S PROVE FALSE
    OBVIOUS
  <1> DEFINE B == {k \in 0..n : k \notin S}
  <1>1. B \in SUBSET Nat /\ B # {}
    OBVIOUS
  <1>2. PICK m \in B : \A k \in B : m <= k
    BY <1>1, Least
  <1>3. m # 0 /\ m \in 0..n /\ m \notin S
    BY <1>2
  <1>4. m - 1 \in 0..(n - 1) /\ m - 1 \in 0..n /\ m - 1 \notin B
    BY <1>2, <1>3
  <1>5. m - 1 \in S /\ (m - 1) + 1 = m
    BY <1>3, <1>4
  <1> QED BY <1>3, <1>4, <1>5

\* A function on 0..n exists that is base at 0 and at k what G[k] makes of the value
\* before.
Follows(f, n, base, G) == f[0] = base /\ \A k \in 1..n : f[k] = G[k][f[k - 1]]

LEMMA Defined ==
    ASSUME NEW n \in Nat, NEW T, NEW base \in T, NEW G \in [1..n -> [T -> T]]
    PROVE  \E f \in [0..n -> T] : Follows(f, n, base, G)
  <1> DEFINE Ok(m) == \E f \in [0..m -> T] : Follows(f, m, base, G)
             S == {m \in 0..n : Ok(m)}
  <1>1. 0 \in S
    <2>1. [i \in 0..0 |-> base] \in [0..0 -> T] /\ [i \in 0..0 |-> base][0] = base /\ 1..0 = {}
      OBVIOUS
    <2>2. Ok(0)
      BY <2>1 DEF Follows
    <2> QED BY <2>2
  <1>2. ASSUME NEW m \in 0..(n - 1), m \in S PROVE m + 1 \in S
    <2>1. PICK f \in [0..m -> T] : f[0] = base /\ \A k \in 1..m : f[k] = G[k][f[k - 1]]
      BY <1>2 DEF Follows
    <2> DEFINE g == [i \in 0..(m + 1) |-> IF i = m + 1 THEN G[m + 1][f[m]] ELSE f[i]]
    <2>2. m \in 0..m /\ f[m] \in T /\ G[m + 1][f[m]] \in T
      BY <2>1
    <2>3. g \in [0..(m + 1) -> T] /\ g[0] = base
      BY <2>1, <2>2
    <2>4. ASSUME NEW k \in 1..(m + 1) PROVE g[k] = G[k][g[k - 1]]
      <3>1. CASE k = m + 1
        <4>1. k - 1 = m /\ m \in 0..(m + 1) /\ m # m + 1
          BY <3>1
        <4> QED BY <3>1, <4>1
      <3>2. CASE k \in 1..m
        <4>1. k \in 0..(m + 1) /\ k - 1 \in 0..(m + 1) /\ k # m + 1 /\ k - 1 # m + 1
          BY <3>2
        <4> QED BY <2>1, <3>2, <4>1
      <3> QED BY <3>1, <3>2
    <2> HIDE DEF g
    <2>5. Ok(m + 1)
      BY <2>3, <2>4 DEF Follows
    <2> QED BY <2>5
  <1> HIDE DEF S
  <1>3. \A m \in 0..(n - 1) : m \in S => m + 1 \in S
    BY <1>2
  <1>4. 0..n \subseteq S
    BY <1>1, <1>3, Upto
  <1>5. n \in S
    BY <1>4
  <1> QED BY <1>5 DEF S

-----------------------------------------------------------------------------
\* The attract app: what it has, or has on the way, was complete before the request
\* under way began to be answered.
Latest(data) == Last(data.boards).at
Known(sh, ch) ==
    ({sh.data} \ {NoData}) \cup {ch[k] : k \in {j \in DOMAIN ch : ch[j].at = "Answered"}}

Chained(req, sh, ch, n) ==
    /\ DOMAIN req = {1}
    /\ sh = [data |-> sh.data, stale |-> sh.stale]
    /\ ch \in Seq(ToSet(ch))
    /\ \A d \in Known(sh, ch) : Latest(d) \in Nat /\ Latest(d) <= n
    /\ \A k \in DOMAIN ch :
          ch[k].at = "Answered" /\ sh.data # NoData => Latest(sh.data) <= ch[k].since
    /\ req[1].at \in {"Reading", "Answered"} =>
          \A d \in Known(sh, ch) : Latest(d) <= req[1].since

Chain == client = "attract" => Chained(request, shown, channel, Len(runs))

\* A frame keeps what is shown or shows one of the answers in the channel.
LEMMA FrameShows ==
    ASSUME Frame, channel \in Seq(ToSet(channel)),
           shown = [data |-> shown.data, stale |-> shown.stale]
    PROVE  /\ shown' = [data |-> shown'.data, stale |-> shown'.stale]
           /\ \/ shown'.data = shown.data
              \/ \E k \in DOMAIN channel : channel[k].at = "Answered" /\ shown'.data = channel[k]
  <1> DEFINE n == Len(channel)
             D == {shown.data} \cup {channel[k] : k \in {j \in 1..n : channel[j].at = "Answered"}}
             T == [data : D, stale : {shown.stale, TRUE, FALSE}]
             G == [k \in 1..n |-> [c \in T |-> Apply(c, channel[k])]]
             cache == CHOOSE f : f = [k \in 0..n |-> IF k = 0 THEN shown
                                                     ELSE Apply(f[k - 1], channel[k])]
  <1>1. n \in Nat /\ DOMAIN channel = 1..n
    <2> DEFINE S == ToSet(channel)
    <2>1. channel \in Seq(S)
      OBVIOUS
    <2> HIDE DEF S
    <2> QED BY <2>1
  <1>2. shown' = cache[n]
    BY DEF Frame
  <1>3. ASSUME NEW c \in T, NEW k \in 1..n PROVE Apply(c, channel[k]) \in T
    <2>1. c = [data |-> c.data, stale |-> c.stale] /\ c.data \in D
      OBVIOUS
    <2>2. CASE channel[k].at = "Answered"
      <3>1. channel[k] \in D
        BY <2>2
      <3> HIDE DEF D
      <3> QED BY <2>2, <3>1 DEF Apply
    <2>3. CASE channel[k].at # "Answered"
      <3> HIDE DEF D
      <3>1. Apply(c, channel[k]) = [data |-> c.data, stale |-> TRUE]
        BY <2>1, <2>3 DEF Apply
      <3> QED BY <2>1, <3>1
    <2> QED BY <2>2, <2>3
  <1>4. shown \in T
    <2>1. shown.data \in D
      OBVIOUS
    <2> HIDE DEF D
    <2> QED BY <2>1
  <1> HIDE DEF T, n
  <1>5. G \in [1..n -> [T -> T]] /\ \A k \in 1..n : \A c \in T : G[k][c] = Apply(c, channel[k])
    BY <1>3
  <1> HIDE DEF G
  <1>6. PICK f \in [0..n -> T] : Follows(f, n, shown, G)
    BY <1>1, <1>4, <1>5, Defined
  <1>7. ASSUME NEW k \in 1..n PROVE f[k] = Apply(f[k - 1], channel[k])
    <2>1. f[k - 1] \in T
      BY <1>1
    <2> QED BY <1>5, <1>6, <2>1 DEF Follows
  <1>8. f = [k \in 0..n |-> IF k = 0 THEN shown ELSE Apply(f[k - 1], channel[k])]
    BY <1>1, <1>6, <1>7 DEF Follows
  <1>9. cache = [k \in 0..n |-> IF k = 0 THEN shown ELSE Apply(cache[k - 1], channel[k])]
    BY <1>8
  <1> HIDE DEF cache
  <1> DEFINE S == {k \in Nat : cache[k] \in T}
  <1>10. 0 \in S
    BY <1>1, <1>4, <1>9
  <1>11. ASSUME NEW k \in 0..(n - 1), k \in S PROVE k + 1 \in S
    <2>1. k + 1 \in 0..n /\ k + 1 \in 1..n /\ k + 1 # 0 /\ (k + 1) - 1 = k /\ k + 1 \in Nat
      BY <1>1
    <2>2. cache[k + 1] = Apply(cache[k], channel[k + 1])
      BY <1>9, <2>1
    <2> QED BY <1>3, <1>11, <2>1, <2>2
  <1> HIDE DEF S
  <1>12. \A k \in 0..(n - 1) : k \in S => k + 1 \in S
    BY <1>11
  <1>13. 0..n \subseteq S
    BY <1>1, <1>10, <1>12, Upto
  <1>14. cache[n] \in T
    BY <1>1, <1>13 DEF S
  <1>15. shown' \in T
    BY <1>2, <1>14
  <1>16. shown' = [data |-> shown'.data, stale |-> shown'.stale] /\ shown'.data \in D
    <2> HIDE DEF D
    <2> QED BY <1>15 DEF T
  <1> QED BY <1>1, <1>16

LEMMA QuietChain ==
    ASSUME Chain, Extends(runs, runs'), client' = client, shown' = shown, channel' = channel,
           DOMAIN request' = DOMAIN request,
           request'[1].at \in {"Reading", "Answered"} =>
               \/ request'[1].since = Len(runs)
               \/ request[1].at \in {"Reading", "Answered"} /\ request'[1].since = request[1].since
    PROVE  Chain'
  <1> SUFFICES ASSUME client = "attract" PROVE Chained(request', shown, channel, Len(runs'))
    BY DEF Chain
  <1>1. Chained(request, shown, channel, Len(runs))
    BY DEF Chain
  <1>2. Len(runs) \in Nat /\ Len(runs') \in Nat /\ Len(runs) <= Len(runs')
    BY DEF Extends
  <1>3. ASSUME NEW d \in Known(shown, channel)
        PROVE  Latest(d) \in Nat /\ Latest(d) <= Len(runs) /\ Latest(d) <= Len(runs')
    <2>1. Latest(d) \in Nat /\ Latest(d) <= Len(runs)
      BY <1>1 DEF Chained
    <2> QED BY <1>2, <2>1
  <1>4. ASSUME request'[1].at \in {"Reading", "Answered"}, NEW d \in Known(shown, channel)
        PROVE  Latest(d) <= request'[1].since
    BY <1>1, <1>3, <1>4 DEF Chained
  <1> QED BY <1>1, <1>3, <1>4 DEF Chained

LEMMA SendChain ==
    ASSUME IInv, AllSound, Chain, NEW s \in DOMAIN request, Send(s), client' = client
    PROVE  Chain'
  <1> DEFINE r == request[1]
             n == Len(runs)
             more == Append(channel, r)
  <1>1. client = "attract" /\ Chained(request, shown, channel, n)
    BY DEF Send, Chain
  <1>2. s = 1
    BY <1>1 DEF Chained
  <1>3. /\ request' = [request EXCEPT ![1] = [at |-> "Free"]]
        /\ channel' = more /\ shown' = shown /\ runs' = runs
    BY <1>2 DEF Send, Done
  <1>4. DOMAIN request' = {1} /\ request'[1].at = "Free"
    BY <1>1, <1>3 DEF Chained
  <1>5. n \in Nat
    BY DEF IInv, Seeded
  <1>6. r.at = "Answered" => Latest(r) \in Nat /\ Latest(r) <= n
    <2> SUFFICES ASSUME r.at = "Answered" PROVE Latest(r) \in Nat /\ Latest(r) <= n
      OBVIOUS
    <2> DEFINE boards == r.boards
    <2>1. Answering(runs, r) /\ Len(boards) = Len(Asked(r.query))
      BY <1>1 DEF AllSound, Sound, Chained
    <2>2. /\ boards \in Seq(ToSet(boards)) /\ r.query.category \in {"all"} \cup Categories
          /\ \A i \in DOMAIN boards : Read(runs, r, i)
      BY <2>1 DEF Answering
    <2>3. Len(boards) \in Nat /\ Len(boards) # 0
      BY <2>1, <2>2, AskedFor
    <2>4. DOMAIN boards = 1..Len(boards)
      <3> DEFINE S == ToSet(boards)
      <3>1. boards \in Seq(S)
        BY <2>2
      <3> HIDE DEF S, boards
      <3> QED BY <3>1
    <2>5. Len(boards) \in DOMAIN boards
      BY <2>3, <2>4
    <2>6. Read(runs, r, Len(boards))
      BY <2>2, <2>5
    <2>7. Latest(r) = boards[Len(boards)].at
      BY DEF Latest, Last
    <2> QED BY <2>6, <2>7 DEF Read
  <1>7. /\ more \in Seq(ToSet(more)) /\ Len(channel) \in Nat /\ DOMAIN channel = 1..Len(channel)
        /\ DOMAIN more = 1..Len(channel) + 1
        /\ more[Len(channel) + 1] = r /\ \A k \in 1..Len(channel) : more[k] = channel[k]
    <2> HIDE DEF r
    <2> DEFINE S == ToSet(channel)
    <2>1. channel \in Seq(S)
      BY <1>1 DEF Chained
    <2> DEFINE T == S \cup {r}
    <2> HIDE DEF S
    <2>2. S \subseteq T
      OBVIOUS
    <2>3. channel \in Seq(T) /\ r \in T
      <3>1. r \in T
        OBVIOUS
      <3> HIDE DEF T
      <3> QED BY <2>1, <2>2, <3>1, SeqMonotonic
    <2> HIDE DEF T, more
    <2>4. /\ more \in Seq(T) /\ Len(more) = Len(channel) + 1 /\ more[Len(channel) + 1] = r
          /\ \A k \in 1..Len(channel) : more[k] = channel[k]
      BY <2>3, AppendProperties DEF more
    <2>5. more \in Seq(ToSet(more)) /\ DOMAIN more = 1..Len(more)
      BY <2>4, OwnRange
    <2>6. Len(channel) \in Nat /\ DOMAIN channel = 1..Len(channel)
      BY <2>1
    <2> QED BY <2>4, <2>5, <2>6
  <1> HIDE DEF more, r, n
  <1>8. \A d \in Known(shown, more) : d \in Known(shown, channel) \/ (d = r /\ r.at = "Answered")
    <2> SUFFICES ASSUME NEW d \in Known(shown, more)
                 PROVE  d \in Known(shown, channel) \/ (d = r /\ r.at = "Answered")
      OBVIOUS
    <2>1. CASE d \in {shown.data} \ {NoData}
      BY <2>1 DEF Known
    <2>2. CASE d \notin {shown.data} \ {NoData}
      <3>1. PICK k \in DOMAIN more : d = more[k] /\ more[k].at = "Answered"
        BY <2>2 DEF Known
      <3>2. CASE k \in 1..Len(channel)
        <4>1. d = channel[k] /\ channel[k].at = "Answered" /\ k \in DOMAIN channel
          BY <1>7, <3>1, <3>2
        <4> QED BY <4>1 DEF Known
      <3>3. CASE k = Len(channel) + 1
        BY <1>7, <3>1, <3>3
      <3> QED BY <1>7, <3>1, <3>2, <3>3
    <2> QED BY <2>1, <2>2
  <1>9. \A d \in Known(shown, more) : Latest(d) \in Nat /\ Latest(d) <= n
    BY <1>1, <1>6, <1>8 DEF Chained
  <1>10. ASSUME NEW k \in DOMAIN more, more[k].at = "Answered", shown.data # NoData
         PROVE  Latest(shown.data) <= more[k].since
    <2>1. CASE k \in 1..Len(channel)
      BY <1>1, <1>7, <1>10, <2>1 DEF Chained
    <2>2. CASE k = Len(channel) + 1
      <3>1. shown.data \in Known(shown, channel)
        BY <1>10 DEF Known
      <3>2. r.at = "Answered" /\ more[k] = r
        BY <1>7, <1>10, <2>2
      <3> QED BY <1>1, <3>1, <3>2 DEF Chained, r
    <2> QED BY <1>7, <2>1, <2>2
  <1>11. Chained(request', shown, more, n)
    BY <1>1, <1>4, <1>7, <1>9, <1>10 DEF Chained
  <1> QED BY <1>3, <1>11 DEF Chain, n

LEMMA FrameChain ==
    ASSUME Chain, Frame
    PROVE  /\ Chain'
           /\ client = "attract" /\ NoData \notin {shown.data, shown'.data}
              /\ shown'.data # shown.data => Latest(shown.data) <= shown'.data.since
  <1> SUFFICES ASSUME client = "attract"
               PROVE  /\ Chained(request', shown', channel', Len(runs'))
                      /\ NoData \notin {shown.data, shown'.data} /\ shown'.data # shown.data
                            => Latest(shown.data) <= shown'.data.since
    <2>1. client' = client
      BY DEF Frame
    <2> QED BY <2>1 DEF Chain
  <1>1. /\ Chained(request, shown, channel, Len(runs))
        /\ channel' = <<>> /\ request' = request /\ runs' = runs
    BY DEF Chain, Frame
  <1>2. /\ shown' = [data |-> shown'.data, stale |-> shown'.stale]
        /\ \/ shown'.data = shown.data
           \/ \E k \in DOMAIN channel : channel[k].at = "Answered" /\ shown'.data = channel[k]
    BY <1>1, FrameShows DEF Chained
  <1>3. \A d \in Known(shown', <<>>) : d \in Known(shown, channel)
    <2> SUFFICES ASSUME NEW d \in Known(shown', <<>>) PROVE d \in Known(shown, channel)
      OBVIOUS
    <2>1. DOMAIN <<>> = {}
      OBVIOUS
    <2>2. d = shown'.data /\ d # NoData
      BY <2>1 DEF Known
    <2> QED BY <1>2, <2>2 DEF Known
  <1>4. <<>> \in Seq(ToSet(<<>>)) /\ DOMAIN <<>> = {}
    OBVIOUS
  <1>5. Chained(request, shown', <<>>, Len(runs))
    BY <1>1, <1>2, <1>3, <1>4 DEF Chained
  <1>6. ASSUME NoData \notin {shown.data, shown'.data}, shown'.data # shown.data
        PROVE  Latest(shown.data) <= shown'.data.since
    BY <1>1, <1>2, <1>6 DEF Chained
  <1> QED BY <1>1, <1>5, <1>6

\* When nothing has been asked or shown there is nothing to compare.
LEMMA FreshChain ==
    ASSUME client = "attract"
    PROVE  \A n : Chained(Idle, Nothing, <<>>, n)
  <1>1. DOMAIN Idle = {1} /\ Idle[1].at = "Free"
    BY DEF Idle, Slots
  <1>2. <<>> \in Seq(ToSet(<<>>)) /\ DOMAIN <<>> = {}
    OBVIOUS
  <1>3. Nothing = [data |-> Nothing.data, stale |-> Nothing.stale] /\ Nothing.data = NoData
    BY DEF Nothing
  <1>4. Known(Nothing, <<>>) = {}
    BY <1>2, <1>3 DEF Known
  <1> QED BY <1>1, <1>2, <1>3, <1>4 DEF Chained

LEMMA StepChain ==
    ASSUME IInv, Unique, AllSound, Chain, [Next]_vars
    PROVE  /\ Chain'
           /\ client = "attract" /\ NoData \notin {shown.data, shown'.data}
              /\ shown'.data # shown.data => Latest(shown.data) <= shown'.data.since
  <1>1. Extends(runs, runs')
    BY RowsExtend
  <1> DEFINE Goal == /\ Chain'
                     /\ client = "attract" /\ NoData \notin {shown.data, shown'.data}
                        /\ shown'.data # shown.data => Latest(shown.data) <= shown'.data.since
             Busy == {"Reading", "Answered"}
  <1> SUFFICES Goal
    OBVIOUS
  <1>2. ASSUME client' = client, shown' = shown, channel' = channel,
               DOMAIN request' = DOMAIN request,
               request'[1].at \in Busy =>
                   \/ request'[1].since = Len(runs)
                   \/ request[1].at \in Busy /\ request'[1].since = request[1].since
        PROVE  Goal
    BY <1>1, <1>2, QuietChain
  <1>3. CASE \/ UNCHANGED vars \/ Start \/ SeedRun \/ Serve
             \/ \E run \in Arrivals : Arrive(run)
    <2>1. client' = client /\ shown' = shown /\ channel' = channel /\ request' = request
      BY <1>3 DEF vars, Start, SeedRun, Serve, Arrive
    <2> QED BY <1>2, <2>1
  <1>4. CASE Crash
    <2>1. /\ client' = client /\ shown' = shown /\ channel' = channel
          /\ request' = [s \in DOMAIN request |->
                IF request[s].at \in {"Asked", "Reading"} THEN [at |-> "Failed"] ELSE request[s]]
      BY <1>4 DEF Crash
    <2>2. CASE client = "attract"
      <3>1. 1 \in DOMAIN request
        BY <2>2 DEF Chain, Chained
      <3> QED BY <1>2, <2>1, <3>1
    <2>3. CASE client # "attract"
      BY <2>1, <2>3 DEF Chain
    <2> QED BY <2>2, <2>3
  <1>5. ASSUME NEW s \in DOMAIN request, NEW v, request' = [request EXCEPT ![s] = v],
               client' = client, shown' = shown, channel' = channel,
               v.at \in Busy =>
                   \/ v.since = Len(runs)
                   \/ request[s].at \in Busy /\ v.since = request[s].since
        PROVE  Goal
    <2>1. CASE client = "attract"
      <3>1. s = 1
        BY <2>1 DEF Chain, Chained
      <3>2. DOMAIN request' = DOMAIN request /\ request'[1] = v
        BY <1>5, <3>1
      <3> QED BY <1>2, <1>5, <3>1, <3>2
    <2>2. CASE client # "attract"
      BY <1>5, <2>2 DEF Chain
    <2> QED BY <2>1, <2>2
  <1>6. ASSUME NEW s \in DOMAIN request, Ask(s) PROVE Goal
    <2>1. /\ client' = client /\ shown' = shown /\ channel' = channel
          /\ \E query : request' = [request EXCEPT ![s] = [at |-> "Asked", query |-> query]]
      BY <1>6 DEF Ask
    <2>2. PICK query : request' = [request EXCEPT ![s] = [at |-> "Asked", query |-> query]]
      BY <2>1
    <2> DEFINE v == [at |-> "Asked", query |-> query]
    <2>3. v.at \notin Busy /\ request' = [request EXCEPT ![s] = v]
      BY <2>2
    <2> HIDE DEF v, Goal
    <2> QED BY <1>5, <2>1, <2>3
  <1>7. ASSUME NEW s \in DOMAIN request, Resolve(s) PROVE Goal
    <2>1. /\ client' = client /\ shown' = shown /\ channel' = channel
          /\ \E v : /\ request' = [request EXCEPT ![s] = v]
                    /\ v.at \in Busy => v.since = Len(runs)
      BY <1>7 DEF Resolve, Failed
    <2> HIDE DEF Goal
    <2> QED BY <1>5, <2>1
  <1>8. ASSUME NEW s \in DOMAIN request, ReadBoard(s) PROVE Goal
    <2> DEFINE r == request[s]
    <2>1. /\ client' = client /\ shown' = shown /\ channel' = channel /\ r.at = "Reading"
          /\ r = [at |-> "Reading", query |-> r.query, limit |-> EffectiveLimit(r.query),
                  season |-> r.season, boards |-> r.boards, since |-> r.since]
      BY <1>8 DEF ReadBoard, AllSound, Sound
    <2>2. PICK boards : request' = [request EXCEPT ![s] =
              IF Len(boards) < Len(Asked(r.query)) THEN [r EXCEPT !.boards = boards]
              ELSE [at |-> "Answered", query |-> r.query, season |-> r.season,
                    boards |-> boards, since |-> r.since]]
      BY <1>8 DEF ReadBoard
    <2> DEFINE v == IF Len(boards) < Len(Asked(r.query)) THEN [r EXCEPT !.boards = boards]
                    ELSE [at |-> "Answered", query |-> r.query, season |-> r.season,
                          boards |-> boards, since |-> r.since]
    <2>3. [r EXCEPT !.boards = boards].since = r.since
      <3> HIDE DEF r
      <3> QED BY <2>1
    <2>4. v.since = r.since
      <3> HIDE DEF r
      <3> QED BY <2>3
    <2>5. request' = [request EXCEPT ![s] = v]
      BY <2>2
    <2> HIDE DEF v, Goal
    <2> QED BY <1>5, <2>1, <2>4, <2>5 DEF r
  <1>9. ASSUME NEW s \in DOMAIN request, Refuse(s) \/ Lose(s) PROVE Goal
    <2>1. /\ client' = client /\ shown' = shown /\ channel' = channel
          /\ request' = [request EXCEPT ![s] = [at |-> "Failed"]]
      BY <1>9 DEF Refuse, Lose, Failed
    <2> DEFINE v == [at |-> "Failed"]
    <2>2. v.at \notin Busy /\ request' = [request EXCEPT ![s] = v]
      BY <2>1
    <2> HIDE DEF v, Goal
    <2> QED BY <1>5, <2>1, <2>2
  <1>10. ASSUME NEW s \in DOMAIN request, Deliver(s) PROVE Goal
    <2>1. client' = client
      BY <1>10 DEF Deliver, Send, Show, Leave, Done
    <2>2. CASE Send(s)
      <3>1. Chain' /\ shown' = shown
        BY <2>1, <2>2, SendChain DEF Send
      <3> QED BY <3>1
    <2>3. CASE Show(s) \/ Leave(s)
      <3>1. client # "attract"
        BY <2>3 DEF Show, Leave
      <3> QED BY <2>1, <3>1 DEF Chain
    <2> QED BY <1>10, <2>2, <2>3 DEF Deliver
  <1>11. CASE Frame
    BY <1>11, FrameChain
  <1>12. CASE Reopen
    <2>1. /\ client' = client /\ request' = Idle /\ channel' = <<>> /\ shown' = Nothing
          /\ Nothing.data = NoData
      BY <1>12 DEF Reopen, Nothing
    <2>2. Chain'
      BY <2>1, FreshChain DEF Chain
    <2> QED BY <2>1, <2>2
  <1> HIDE DEF Goal
  <1>13. ASSUME NEW s \in DOMAIN request, Ask(s) \/ Handle(s) \/ Lose(s) \/ Deliver(s)
         PROVE  Goal
    BY <1>6, <1>7, <1>8, <1>9, <1>10, <1>13 DEF Handle
  <1> QED BY <1>3, <1>4, <1>11, <1>12, <1>13 DEF Next

\* The attract app never goes back to older boards: CacheAdvances, for any length of
\* the channel and any number of requests, answers and restarts.
THEOREM CacheAdvancesSafe == Spec => CacheAdvances
  <1>1. Init => AllSound /\ Unique /\ Chain
    <2> SUFFICES ASSUME Init PROVE Chain
      BY InitSound
    <2>1. request = Idle /\ channel = <<>> /\ shown = Nothing
      BY DEF Init
    <2> QED BY <2>1, FreshChain DEF Chain
  <1>2. IInv /\ AllSound /\ Unique /\ Chain /\ [Next]_vars => (AllSound /\ Unique /\ Chain)'
    BY StepSound, RowsExtend, StepChain
  <1>3. IInv /\ AllSound /\ Unique /\ Chain /\ [Next]_vars
           => [client = "attract" /\ NoData \notin {shown.data, shown'.data}
               /\ shown'.data # shown.data
                  => shown'.data.since >= Last(shown.data.boards).at]_vars
    <2>1. Latest(shown.data) = Last(shown.data.boards).at
      BY DEF Latest
    <2> QED BY <2>1, StepChain
  <1> QED BY <1>1, <1>2, <1>3, FakeRunsFirst, PTL DEF Spec, CacheAdvances
=============================================================================
