------------------------- MODULE RunPipelineProofs -------------------------
(***************************************************************************)
(* Proofs about one session end to end: for every rotation, every amount   *)
(* of monsters and items, streams of any length, and any interleaving and  *)
(* loss on the two transports, a run is never credited with more than was  *)
(* played, and the server accepts it; and where one transport brought all  *)
(* of it, the run is credited with exactly what was played, which for a    *)
(* completed run is what the HUD showed.                                   *)
(*                                                                         *)
(* The first argument is about positions in the rotation.  The engine      *)
(* walks through it, so that its lines come in that order, and so,         *)
(* although a transport may be joined late or replay what the other one    *)
(* has read, do the entries: every line still to be read is of a map that  *)
(* is recorded or lies beyond all that are (Ahead).  Hence no map is       *)
(* recorded twice, and each entry is bounded by the lines of its map.      *)
(*                                                                         *)
(* The second is about the copy that counts, the FIFO's once it is read    *)
(* or stdout is cut short and otherwise stdout's.  The log tells a story:  *)
(* until the death every map behind the player is completed, and the       *)
(* counters of a map only grow (Story).  So, if nothing of the copy was    *)
(* lost, the list holds the latest heartbeat of the map in progress and    *)
(* the completion of every other one (Caught), and the line that ends the  *)
(* run leaves the exact list (Settled).  The run that is filed is that     *)
(* list (Filed), and the HUD's account is a sum over the rotation of the   *)
(* same lines (Banked).                                                    *)
(***************************************************************************)
EXTENDS RunPipeline, SequenceTheorems, FiniteSetTheorems, WellFoundedInduction, TLAPS

-----------------------------------------------------------------------------
\* Induction, by the least counterexample.
LEMMA Least ==
    ASSUME NEW S \in SUBSET Nat, S # {}
    PROVE  \E m \in S : \A k \in S : m <= k
  <1> DEFINE R == OpToRel(<, Nat)
  <1>1. R = {ss \in Nat \X Nat : ss[1] < ss[2]}
    BY DEF OpToRel
  <1> HIDE DEF R
  <1>2. \E x \in S : \A y \in S : ~ (<<y, x>> \in R)
    <2>1. IsWellFoundedOn(R, Nat)
      BY NatLessThanWellFounded DEF R
    <2> QED BY <2>1, WFMin
  <1>3. PICK x \in S : \A y \in S : ~ (<<y, x>> \in R)
    BY <1>2
  <1>4. ASSUME NEW y \in S PROVE x <= y
    <2>1. ~ (<<y, x>> \in R) /\ y \in Nat /\ x \in Nat
      BY <1>3
    <2>2. <<y, x>> \in Nat \X Nat /\ <<y, x>>[1] = y /\ <<y, x>>[2] = x
      BY <2>1
    <2>3. ~ (y < x)
      BY <1>1, <2>1, <2>2
    <2> QED BY <2>1, <2>3
  <1> QED BY <1>4

LEMMA Upto ==
    ASSUME NEW n \in Nat, NEW S, 0 \in S, \A k \in 0..(n - 1) : k \in S => k + 1 \in S
    PROVE  0..n \subseteq S
  <1> SUFFICES ASSUME NEW j \in 0..n, j \notin S PROVE FALSE
    OBVIOUS
  <1> DEFINE B == {k \in 0..n : k \notin S}
  <1>1. B \in SUBSET Nat /\ B # {}
    OBVIOUS
  <1>2. PICK m \in B : \A k \in B : m <= k
    BY <1>1, Least
  <1>3. m # 0 /\ m \in 0..n /\ m \notin S
    BY <1>2
  <1>4. m - 1 \in 0..(n - 1) /\ m - 1 \in 0..n /\ m - 1 \notin B
    BY <1>2, <1>3
  <1>5. m - 1 \in S /\ (m - 1) + 1 = m
    BY <1>3, <1>4
  <1> QED BY <1>3, <1>4, <1>5

\* A function on 0..n exists that is base at 0 and at k what G[k] makes of the value
\* before.
Follows(f, n, base, G) == f[0] = base /\ \A k \in 1..n : f[k] = G[k][f[k - 1]]

LEMMA Defined ==
    ASSUME NEW n \in Nat, NEW T, NEW base \in T, NEW G \in [1..n -> [T -> T]]
    PROVE  \E f \in [0..n -> T] : Follows(f, n, base, G)
  <1> DEFINE Ok(m) == \E f \in [0..m -> T] : Follows(f, m, base, G)
             S == {m \in 0..n : Ok(m)}
  <1>1. 0 \in S
    <2>1. [i \in 0..0 |-> base] \in [0..0 -> T] /\ [i \in 0..0 |-> base][0] = base /\ 1..0 = {}
      OBVIOUS
    <2>2. Ok(0)
      BY <2>1 DEF Follows
    <2> QED BY <2>2
  <1>2. ASSUME NEW m \in 0..(n - 1), m \in S PROVE m + 1 \in S
    <2>1. PICK f \in [0..m -> T] : f[0] = base /\ \A k \in 1..m : f[k] = G[k][f[k - 1]]
      BY <1>2 DEF Follows
    <2> DEFINE g == [i \in 0..(m + 1) |-> IF i = m + 1 THEN G[m + 1][f[m]] ELSE f[i]]
    <2>2. m \in 0..m /\ f[m] \in T /\ G[m + 1][f[m]] \in T
      BY <2>1
    <2>3. g \in [0..(m + 1) -> T] /\ g[0] = base
      BY <2>1, <2>2
    <2>4. ASSUME NEW k \in 1..(m + 1) PROVE g[k] = G[k][g[k - 1]]
      <3>1. CASE k = m + 1
        <4>1. k - 1 = m /\ m \in 0..(m + 1) /\ m # m + 1
          BY <3>1
        <4> QED BY <3>1, <4>1
      <3>2. CASE k \in 1..m
        <4>1. k \in 0..(m + 1) /\ k - 1 \in 0..(m + 1) /\ k # m + 1 /\ k - 1 # m + 1
          BY <3>2
        <4> QED BY <2>1, <3>2, <4>1
      <3> QED BY <3>1, <3>2
    <2> HIDE DEF g
    <2>5. Ok(m + 1)
      BY <2>3, <2>4 DEF Follows
    <2> QED BY <2>5
  <1> HIDE DEF S
  <1>3. \A m \in 0..(n - 1) : m \in S => m + 1 \in S
    BY <1>2
  <1>4. 0..n \subseteq S
    BY <1>1, <1>3, Upto
  <1>5. n \in S
    BY <1>4
  <1> QED BY <1>5 DEF S

-----------------------------------------------------------------------------
\* The constants.
LEMMA Numbers ==
    /\ POINTS_PER_KILL \in Nat /\ POINTS_PER_ITEM \in Nat /\ COMPLETION_BONUS \in Nat
    /\ TIME_BONUS_PAR_SECONDS \in Nat /\ TIME_BONUS_PER_SECOND \in Nat
    /\ DEPTH_BONUS_PER_MAP \in Nat /\ MaxInt \in Nat /\ TICS_PER_SECOND \in Nat \ {0}
    /\ Monsters \in Nat /\ Items \in Nat /\ MaxTics \in Nat /\ MaxRestarts \in Nat
    /\ PROGRESS_INTERVAL_TICS \in Nat \ {0} /\ QUIT_HOLD_TICS \in Nat \ {0}
  BY ScoringAssumption, TelemetryAssumption

LEMMA SatType ==
    /\ \A a \in Nat : Sat(a) \in Nat /\ Sat(a) <= MaxInt
    /\ \A a, b \in Nat : a <= b => Sat(a) <= Sat(b)
    /\ \A a \in Nat : a <= MaxInt => Sat(a) = a
  BY Numbers DEF Sat

\* The intermediate sums of a fold.
SatSums(f, s) ==
    /\ f \in [0..Len(s) -> 0..MaxInt] /\ f[0] = 0
    /\ \A k \in 1..Len(s) : f[k] = Sat(f[k - 1] + s[k])
Sums(f, s) ==
    /\ f \in [0..Len(s) -> Nat] /\ f[0] = 0
    /\ \A k \in 1..Len(s) : f[k] = f[k - 1] + s[k]

LEMMA SatTotalFolds ==
    ASSUME NEW s \in Seq(Nat)
    PROVE  \E f : SatSums(f, s) /\ SatTotal(s) = f[Len(s)]
  <1> DEFINE n == Len(s)
             G == [k \in 1..n |-> [a \in 0..MaxInt |-> Sat(a + s[k])]]
             sum == CHOOSE f : f = [k \in 0..n |-> IF k = 0 THEN 0 ELSE Sat(f[k - 1] + s[k])]
  <1>1. n \in Nat /\ \A k \in 1..n : s[k] \in Nat
    OBVIOUS
  <1>2. \A a \in 0..MaxInt, b \in Nat : Sat(a + b) \in 0..MaxInt
    BY Numbers DEF Sat
  <1>3. G \in [1..n -> [0..MaxInt -> 0..MaxInt]] /\ 0 \in 0..MaxInt
    <2>1. 0 \in 0..MaxInt
      BY Numbers
    <2>2. \A k \in 1..n : \A a \in 0..MaxInt : Sat(a + s[k]) \in 0..MaxInt
      BY <1>1, <1>2
    <2> QED BY <2>1, <2>2
  <1>4. \A k \in 1..n, a \in 0..MaxInt : G[k][a] = Sat(a + s[k])
    OBVIOUS
  <1>0. SatTotal(s) = sum[n]
    BY DEF SatTotal
  <1> HIDE DEF G, n
  <1>5. PICK f \in [0..n -> 0..MaxInt] : Follows(f, n, 0, G)
    BY <1>1, <1>3, Defined
  <1>6. \A k \in 1..n : f[k] = Sat(f[k - 1] + s[k])
    <2> SUFFICES ASSUME NEW k \in 1..n PROVE f[k] = Sat(f[k - 1] + s[k])
      OBVIOUS
    <2>1. f[k - 1] \in 0..MaxInt
      BY <1>1
    <2> QED BY <1>4, <1>5, <2>1 DEF Follows
  <1>7. f = [k \in 0..n |-> IF k = 0 THEN 0 ELSE Sat(f[k - 1] + s[k])]
    BY <1>1, <1>5, <1>6 DEF Follows
  <1>8. sum = [k \in 0..n |-> IF k = 0 THEN 0 ELSE Sat(sum[k - 1] + s[k])]
    BY <1>7
  <1> HIDE DEF sum
  <1> DEFINE S == {k \in Nat : sum[k] = f[k]}
  <1>9. 0 \in S
    BY <1>1, <1>5, <1>8 DEF Follows
  <1>10. ASSUME NEW k \in 0..(n - 1), k \in S PROVE k + 1 \in S
    <2>1. k + 1 \in 0..n /\ k + 1 \in 1..n /\ k + 1 # 0 /\ (k + 1) - 1 = k /\ k \in Nat
      BY <1>1
    <2>2. sum[k + 1] = Sat(sum[k] + s[k + 1]) /\ f[k + 1] = Sat(f[k] + s[k + 1])
      BY <1>6, <1>8, <2>1
    <2> QED BY <1>10, <2>1, <2>2
  <1> HIDE DEF S
  <1>11. \A k \in 0..(n - 1) : k \in S => k + 1 \in S
    BY <1>10
  <1>12. n \in S
    <2>1. 0..n \subseteq S
      BY <1>1, <1>9, <1>11, Upto
    <2>2. n \in 0..n
      BY <1>1
    <2> QED BY <2>1, <2>2
  <1>13. SatSums(f, s)
    BY <1>5, <1>6 DEF SatSums, Follows, n
  <1> QED BY <1>0, <1>12, <1>13 DEF S, n

LEMMA TotalFolds ==
    ASSUME NEW s \in Seq(Nat)
    PROVE  \E f : Sums(f, s) /\ Total(s) = f[Len(s)]
  <1> DEFINE n == Len(s)
             G == [k \in 1..n |-> [a \in Nat |-> a + s[k]]]
             sum == CHOOSE f : f = [k \in 0..n |-> IF k = 0 THEN 0 ELSE f[k - 1] + s[k]]
  <1>1. n \in Nat /\ \A k \in 1..n : s[k] \in Nat
    OBVIOUS
  <1>3. G \in [1..n -> [Nat -> Nat]]
    BY <1>1
  <1>4. \A k \in 1..n, a \in Nat : G[k][a] = a + s[k]
    OBVIOUS
  <1>0. Total(s) = sum[n]
    BY DEF Total
  <1> HIDE DEF G, n
  <1>5. PICK f \in [0..n -> Nat] : Follows(f, n, 0, G)
    BY <1>1, <1>3, Defined
  <1>6. \A k \in 1..n : f[k] = f[k - 1] + s[k]
    <2> SUFFICES ASSUME NEW k \in 1..n PROVE f[k] = f[k - 1] + s[k]
      OBVIOUS
    <2>1. f[k - 1] \in Nat
      BY <1>1
    <2> QED BY <1>4, <1>5, <2>1 DEF Follows
  <1>7. f = [k \in 0..n |-> IF k = 0 THEN 0 ELSE f[k - 1] + s[k]]
    <2>1. f[0] = 0
      BY <1>5 DEF Follows
    <2>2. \A k \in 0..n : k = 0 \/ (k \in 1..n /\ k # 0)
      BY <1>1
    <2>3. \A k \in 0..n : f[k] = IF k = 0 THEN 0 ELSE f[k - 1] + s[k]
      BY <1>6, <2>1, <2>2
    <2> QED BY <2>3
  <1>8. sum = [k \in 0..n |-> IF k = 0 THEN 0 ELSE sum[k - 1] + s[k]]
    BY <1>7
  <1> HIDE DEF sum
  <1> DEFINE S == {k \in Nat : sum[k] = f[k]}
  <1>9. 0 \in S
    BY <1>1, <1>5, <1>8 DEF Follows
  <1>10. ASSUME NEW k \in 0..(n - 1), k \in S PROVE k + 1 \in S
    <2>1. k + 1 \in 0..n /\ k + 1 \in 1..n /\ k + 1 # 0 /\ (k + 1) - 1 = k /\ k \in Nat
      BY <1>1
    <2>2. sum[k + 1] = sum[k] + s[k + 1] /\ f[k + 1] = f[k] + s[k + 1]
      BY <1>6, <1>8, <2>1
    <2> QED BY <1>10, <2>1, <2>2
  <1> HIDE DEF S
  <1>11. \A k \in 0..(n - 1) : k \in S => k + 1 \in S
    BY <1>10
  <1>12. n \in S
    <2>1. 0..n \subseteq S
      BY <1>1, <1>9, <1>11, Upto
    <2>2. n \in 0..n
      BY <1>1
    <2> QED BY <2>1, <2>2
  <1>13. Sums(f, s)
    BY <1>5, <1>6 DEF Sums, Follows, n
  <1> QED BY <1>0, <1>12, <1>13 DEF S, n

LEMMA SatStep ==
    ASSUME NEW a \in Nat, NEW c \in Nat, NEW x \in Nat, NEW y \in Nat,
           a <= c, x <= y
    PROVE  Sat(a + x) <= Sat(c + y)
  <1>1. a + x \in Nat /\ c + y \in Nat /\ a + x <= c + y
    OBVIOUS
  <1> QED BY <1>1, SatType

\* Where the numbers of s are bounded by numbers of t, each by another and in the same
\* order, so is their sum.
LEMMA SatTotalBound ==
    ASSUME NEW s \in Seq(Nat), NEW t \in Seq(Nat), NEW place \in [DOMAIN s -> DOMAIN t],
           \A i, j \in DOMAIN s : i < j => place[i] < place[j],
           \A i \in DOMAIN s : s[i] <= t[place[i]]
    PROVE  /\ SatTotal(s) <= SatTotal(t)
           /\ SatTotal(s) \in Nat /\ SatTotal(t) \in Nat
  <1> DEFINE n == Len(s)
             m == Len(t)
  <1>1. /\ n \in Nat /\ DOMAIN s = 1..n /\ \A i \in 1..n : s[i] \in Nat
        /\ m \in Nat /\ DOMAIN t = 1..m /\ \A i \in 1..m : t[i] \in Nat
    OBVIOUS
  <1>2. PICK f : SatSums(f, s) /\ SatTotal(s) = f[n]
    BY SatTotalFolds
  <1>3. PICK g : SatSums(g, t) /\ SatTotal(t) = g[m]
    BY SatTotalFolds
  <1> HIDE DEF n, m
  <1>4. /\ f \in [0..n -> 0..MaxInt] /\ f[0] = 0
        /\ \A k \in 1..n : f[k] = Sat(f[k - 1] + s[k])
    BY <1>2 DEF SatSums, n
  <1>5. /\ g \in [0..m -> 0..MaxInt] /\ g[0] = 0
        /\ \A k \in 1..m : g[k] = Sat(g[k - 1] + t[k])
    BY <1>3 DEF SatSums, m
  <1>6. /\ \A k \in 0..n : f[k] \in Nat
        /\ \A k \in 0..m : g[k] \in Nat /\ g[k] <= MaxInt
    <2>1. \A x \in 0..MaxInt : x \in Nat /\ x <= MaxInt
      BY Numbers
    <2>2. \A k \in 0..n : f[k] \in 0..MaxInt
      BY <1>4
    <2>3. \A k \in 0..m : g[k] \in 0..MaxInt
      BY <1>5
    <2> QED BY <2>1, <2>2, <2>3
  <1>7. \A k \in 0..m : \A i \in 0..k : g[i] <= g[k]
    <2> DEFINE S == {k \in 0..m : \A i \in 0..k : g[i] <= g[k]}
    <2>1. 0 \in S
      BY <1>1, <1>6
    <2>2. ASSUME NEW k \in 0..(m - 1), k \in S PROVE k + 1 \in S
      <3>1. k + 1 \in 0..m /\ k + 1 \in 1..m /\ (k + 1) - 1 = k /\ k \in Nat /\ k \in 0..m
        BY <1>1
      <3>2. g[k + 1] = Sat(g[k] + t[k + 1]) /\ g[k] \in Nat /\ g[k] <= MaxInt
            /\ t[k + 1] \in Nat /\ g[k + 1] \in Nat
        BY <1>1, <1>5, <1>6, <3>1
      <3>3. g[k] <= g[k + 1]
        BY <3>2, Numbers DEF Sat
      <3>4. ASSUME NEW i \in 0..(k + 1) PROVE g[i] <= g[k + 1]
        <4>1. i = k + 1 \/ i \in 0..k
          BY <3>1
        <4>2. i \in 0..m
          BY <1>1, <3>1
        <4>3. CASE i \in 0..k
          <5>1. g[i] <= g[k] /\ g[i] \in Nat
            BY <1>6, <2>2, <4>2, <4>3
          <5> QED BY <3>2, <3>3, <5>1
        <4>4. CASE i = k + 1
          BY <3>2, <4>4
        <4> QED BY <4>1, <4>3, <4>4
      <3> QED BY <3>1, <3>4
    <2> HIDE DEF S
    <2>3. \A k \in 0..(m - 1) : k \in S => k + 1 \in S
      BY <2>2
    <2>4. 0..m \subseteq S
      BY <1>1, <2>1, <2>3, Upto
    <2> QED BY <2>4 DEF S
  <1> DEFINE seat == [i \in 0..n |-> IF i = 0 THEN 0 ELSE place[i]]
  <1>8. /\ \A i \in 0..n : seat[i] \in 0..m
        /\ \A i \in 1..n : seat[i] \in 1..m /\ seat[i] = place[i]
        /\ \A i \in 0..(n - 1) : seat[i] < seat[i + 1]
    <2>1. \A i \in 1..n : seat[i] = place[i] /\ place[i] \in 1..m
      BY <1>1
    <2>2. seat[0] = 0
      BY <1>1
    <2>3. \A i \in 0..n : i = 0 \/ i \in 1..n
      BY <1>1
    <2>4. \A i \in 0..n : seat[i] \in 0..m
      BY <1>1, <2>1, <2>2, <2>3
    <2>5. ASSUME NEW i \in 0..(n - 1) PROVE seat[i] < seat[i + 1]
      <3>1. i + 1 \in 1..n /\ i < i + 1
        BY <1>1
      <3>2. CASE i = 0
        BY <1>1, <2>1, <2>2, <3>1, <3>2
      <3>3. CASE i \in 1..n
        BY <1>1, <2>1, <3>1, <3>3
      <3> QED BY <1>1, <3>2, <3>3
    <2> QED BY <2>1, <2>4, <2>5
  <1> HIDE DEF seat
  <1> DEFINE S == {i \in 0..n : f[i] <= g[seat[i]]}
  <1>9. 0 \in S
    BY <1>1, <1>4, <1>6, <1>8
  <1>10. ASSUME NEW i \in 0..(n - 1), i \in S PROVE i + 1 \in S
    <2>1. i + 1 \in 0..n /\ i + 1 \in 1..n /\ (i + 1) - 1 = i /\ i \in 0..n
      BY <1>1
    <2> DEFINE p == seat[i]
               q == seat[i + 1]
    <2>2. p \in 0..m /\ q \in 1..m /\ p < q
      BY <1>8, <2>1
    <2>3. q = place[i + 1] /\ s[i + 1] <= t[q]
      BY <1>1, <1>8, <2>1
    <2>4. f[i] <= g[p] /\ f[i + 1] = Sat(f[i] + s[i + 1])
      BY <1>4, <1>10, <2>1
    <2> HIDE DEF p, q
    <2>5. q - 1 \in 0..m /\ p \in 0..(q - 1)
      BY <1>1, <2>2
    <2>6. g[q] = Sat(g[q - 1] + t[q]) /\ g[p] <= g[q - 1]
      BY <1>5, <1>7, <2>2, <2>5
    <2>7. s[i + 1] \in Nat /\ t[q] \in Nat
      BY <1>1, <2>1, <2>2
    <2>8. f[i] \in Nat /\ g[p] \in Nat /\ g[q - 1] \in Nat
      BY <1>6, <2>1, <2>2, <2>5
    <2>9. f[i] <= g[q - 1]
      <3>1. \A x, y, z \in Nat : x <= y /\ y <= z => x <= z
        OBVIOUS
      <3>2. f[i] <= g[p] /\ g[p] <= g[q - 1]
        BY <2>4, <2>6
      <3> QED BY <2>8, <3>1, <3>2
    <2>10. Sat(f[i] + s[i + 1]) <= Sat(g[q - 1] + t[q])
      BY <2>3, <2>7, <2>8, <2>9, SatStep
    <2>11. f[i + 1] <= g[q]
      BY <2>4, <2>6, <2>10
    <2>12. f[i + 1] <= g[seat[i + 1]]
      BY <2>11 DEF q
    <2> QED BY <2>1, <2>12
  <1> HIDE DEF S
  <1>11. \A i \in 0..(n - 1) : i \in S => i + 1 \in S
    BY <1>10
  <1>12. 0..n \subseteq S
    BY <1>1, <1>9, <1>11, Upto
  <1>13. n \in 0..n /\ m \in 0..m
    BY <1>1
  <1>14. f[n] <= g[seat[n]]
    BY <1>12, <1>13 DEF S
  <1>15. seat[n] \in 0..m /\ g[seat[n]] <= g[m]
    BY <1>7, <1>8, <1>13
  <1> QED BY <1>2, <1>3, <1>6, <1>13, <1>14, <1>15

LEMMA Times ==
    ASSUME NEW a \in Nat, NEW b \in Nat, NEW c \in Nat, a <= b
    PROVE  a * c \in Nat /\ b * c \in Nat /\ a * c <= b * c /\ (a + 1) * c = a * c + c
  OBVIOUS

\* Sums that stay below MaxInt are the same with and without saturation.
LEMMA SatTotalExact ==
    ASSUME NEW most \in Nat, NEW s \in Seq(0..most), Len(s) * most <= MaxInt
    PROVE  SatTotal(s) = Total(s) /\ SatTotal(s) \in Nat
  <1> DEFINE n == Len(s)
  <1>1. n \in Nat /\ s \in Seq(Nat) /\ \A k \in 1..n : s[k] \in Nat /\ s[k] <= most
    <2>1. s \in Seq(Nat)
      BY SeqMonotonic
    <2> QED BY <2>1
  <1>2. PICK f : SatSums(f, s) /\ SatTotal(s) = f[n]
    BY <1>1, SatTotalFolds
  <1>3. PICK g : Sums(g, s) /\ Total(s) = g[n]
    BY <1>1, TotalFolds
  <1>4. n * most <= MaxInt
    OBVIOUS
  <1> HIDE DEF n
  <1>5. /\ f \in [0..n -> 0..MaxInt] /\ f[0] = 0
        /\ \A k \in 1..n : f[k] = Sat(f[k - 1] + s[k])
    BY <1>2 DEF SatSums, n
  <1>6. /\ g \in [0..n -> Nat] /\ g[0] = 0
        /\ \A k \in 1..n : g[k] = g[k - 1] + s[k]
    BY <1>3 DEF Sums, n
  <1> DEFINE S == {k \in 0..n : f[k] = g[k] /\ g[k] <= k * most}
  <1>7. 0 \in S
    BY <1>1, <1>5, <1>6
  <1>8. ASSUME NEW k \in 0..(n - 1), k \in S PROVE k + 1 \in S
    <2>1. k + 1 \in 0..n /\ k + 1 \in 1..n /\ (k + 1) - 1 = k /\ k \in 0..n /\ k \in Nat
      BY <1>1
    <2>2. /\ f[k] = g[k] /\ g[k] \in Nat /\ g[k] <= k * most
          /\ s[k + 1] \in Nat /\ s[k + 1] <= most
          /\ f[k + 1] = Sat(f[k] + s[k + 1]) /\ g[k + 1] = g[k] + s[k + 1]
      BY <1>1, <1>5, <1>6, <1>8, <2>1
    <2>3. k * most \in Nat /\ (k + 1) * most = k * most + most
      BY <2>1, Times
    <2>4. g[k + 1] <= (k + 1) * most
      BY <2>2, <2>3
    <2>5. (k + 1) * most <= n * most /\ (k + 1) * most \in Nat /\ n * most \in Nat
      BY <1>1, <2>1, Times
    <2>6. g[k + 1] \in Nat /\ g[k + 1] <= MaxInt
      <3> DEFINE x == g[k + 1]
                 a == (k + 1) * most
                 b == n * most
      <3>1. x \in Nat /\ x <= a /\ a <= b /\ b <= MaxInt /\ a \in Nat /\ b \in Nat
        <4>1. x \in Nat /\ x <= a
          <5> DEFINE u == g[k]
                     v == s[k + 1]
          <5>1. x = u + v /\ u \in Nat /\ v \in Nat
            BY <2>2
          <5>2. x <= a
            BY <2>4
          <5> HIDE DEF x, u, v, a
          <5> QED BY <5>1, <5>2
        <4>2. a <= b /\ a \in Nat /\ b \in Nat
          BY <2>5
        <4>3. b <= MaxInt
          BY <1>4
        <4> QED BY <4>1, <4>2, <4>3
      <3> HIDE DEF x, a, b
      <3>2. x \in Nat /\ x <= MaxInt
        BY <3>1, Numbers
      <3> QED BY <3>2 DEF x
    <2>7. f[k + 1] = g[k + 1]
      BY <2>2, <2>6, SatType
    <2> QED BY <2>1, <2>4, <2>7
  <1> HIDE DEF S
  <1>9. \A k \in 0..(n - 1) : k \in S => k + 1 \in S
    BY <1>8
  <1>10. 0..n \subseteq S
    BY <1>1, <1>7, <1>9, Upto
  <1>11. n \in 0..n
    BY <1>1
  <1>12. f[n] = g[n]
    BY <1>10, <1>11 DEF S
  <1> QED BY <1>2, <1>3, <1>6, <1>11, <1>12

-----------------------------------------------------------------------------
\* The greatest member of a bounded set.
LEMMA Greatest ==
    ASSUME NEW n \in Nat, NEW S \in SUBSET (0..n), S # {}
    PROVE  Max(S) \in S /\ \A x \in S : x <= Max(S)
  <1> DEFINE D == {k \in Nat : \E x \in S : k = n - x}
  <1>1. D \in SUBSET Nat /\ D # {}
    <2>1. PICK x \in S : TRUE
      OBVIOUS
    <2>2. n - x \in Nat
      BY <2>1
    <2> QED BY <2>2
  <1>2. PICK m \in D : \A k \in D : m <= k
    BY <1>1, Least
  <1>3. PICK x \in S : m = n - x
    BY <1>2
  <1>4. ASSUME NEW y \in S PROVE y <= x
    <2>1. n - y \in D
      OBVIOUS
    <2> QED BY <1>2, <1>3, <2>1
  <1>5. \E z \in S : \A y \in S : z >= y
    BY <1>4
  <1> QED BY <1>5 DEF Max

LEMMA LeastOf ==
    ASSUME NEW S \in SUBSET Nat, S # {}
    PROVE  Min(S) \in S /\ \A x \in S : Min(S) <= x
  <1>1. \E z \in S : \A y \in S : z <= y
    BY Least
  <1> QED BY <1>1 DEF Min

\* What an entry is worth.
Counts == [kills : 0..Monsters, total : {0, Monsters}, items : 0..Items, tics : 0..MaxTics]
Entries == [map : MapNames, stats : Counts, completed : BOOLEAN]

LEMMA CountsType ==
    ASSUME NEW c \in Counts
    PROVE  /\ c.kills \in Nat /\ c.items \in Nat /\ c.tics \in Nat /\ c.total \in Nat
           /\ c.kills <= Monsters /\ c.items <= Items /\ c.tics <= MaxTics
           /\ c.total > 0 => c.kills <= c.total
  BY Numbers DEF Counts

LEMMA CounterScoreBound ==
    ASSUME NEW c, NEW d, c.kills \in Nat, c.items \in Nat, d.kills \in Nat, d.items \in Nat,
           c.kills <= d.kills, c.items <= d.items
    PROVE  /\ CounterScore(c) \in Nat /\ CounterScore(d) \in Nat
           /\ CounterScore(c) <= CounterScore(d)
  <1>1. /\ NonNegative(c.kills) = c.kills /\ NonNegative(d.kills) = d.kills
        /\ NonNegative(c.items) = c.items /\ NonNegative(d.items) = d.items
    BY DEF NonNegative
  <1>2. /\ c.kills * POINTS_PER_KILL \in Nat /\ d.kills * POINTS_PER_KILL \in Nat
        /\ c.kills * POINTS_PER_KILL <= d.kills * POINTS_PER_KILL
    BY Numbers, Times
  <1>3. /\ c.items * POINTS_PER_ITEM \in Nat /\ d.items * POINTS_PER_ITEM \in Nat
        /\ c.items * POINTS_PER_ITEM <= d.items * POINTS_PER_ITEM
    BY Numbers, Times
  <1> DEFINE ck == c.kills * POINTS_PER_KILL
             dk == d.kills * POINTS_PER_KILL
             ci == c.items * POINTS_PER_ITEM
             di == d.items * POINTS_PER_ITEM
  <1>4. CounterScore(c) = Sat(Sat(ck) + Sat(ci)) /\ CounterScore(d) = Sat(Sat(dk) + Sat(di))
    BY <1>1 DEF CounterScore
  <1> HIDE DEF ck, dk, ci, di
  <1>5. /\ ck \in Nat /\ dk \in Nat /\ ck <= dk /\ ci \in Nat /\ di \in Nat /\ ci <= di
    BY <1>2, <1>3 DEF ck, dk, ci, di
  <1>6. /\ Sat(ck) \in Nat /\ Sat(dk) \in Nat /\ Sat(ck) <= Sat(dk)
        /\ Sat(ci) \in Nat /\ Sat(di) \in Nat /\ Sat(ci) <= Sat(di)
    BY <1>5, SatType
  <1>7. /\ Sat(ck) + Sat(ci) \in Nat /\ Sat(dk) + Sat(di) \in Nat
        /\ Sat(ck) + Sat(ci) <= Sat(dk) + Sat(di)
    BY <1>6
  <1> QED BY <1>4, <1>7, SatType

LEMMA TimeBonusType ==
    ASSUME NEW tics \in Nat
    PROVE  TimeBonus(tics) \in Nat
  <1>1. NonNegative(tics) = tics /\ tics \div TICS_PER_SECOND \in Nat
    BY Numbers DEF NonNegative
  <1>2. NonNegative(TIME_BONUS_PAR_SECONDS - tics \div TICS_PER_SECOND) \in Nat
    BY <1>1, Numbers DEF NonNegative
  <1> DEFINE left == NonNegative(TIME_BONUS_PAR_SECONDS - tics \div TICS_PER_SECOND)
  <1>3. TimeBonus(tics) = Sat(left * TIME_BONUS_PER_SECOND)
    BY <1>1 DEF TimeBonus
  <1>4. left \in Nat
    BY <1>2
  <1> HIDE DEF left
  <1>5. left * TIME_BONUS_PER_SECOND \in Nat
    BY <1>4, Numbers, Times
  <1> QED BY <1>3, <1>5, SatType

\* An entry is worth no more than one of the same map with counters as good, that is
\* completed in the same time if the first one is.
LEMMA MapScoreBound ==
    ASSUME NEW c, NEW d,
           c.stats.kills \in Nat, c.stats.items \in Nat, c.stats.tics \in Nat,
           d.stats.kills \in Nat, d.stats.items \in Nat, d.stats.tics \in Nat,
           c.stats.kills <= d.stats.kills, c.stats.items <= d.stats.items,
           c.completed \in BOOLEAN, d.completed \in BOOLEAN,
           c.completed => d.completed /\ c.stats.tics = d.stats.tics
    PROVE  MapScore(c) \in Nat /\ MapScore(d) \in Nat /\ MapScore(c) <= MapScore(d)
  <1> DEFINE cs == CounterScore(c.stats)
             ds == CounterScore(d.stats)
             ct == TimeBonus(c.stats.tics)
             dt == TimeBonus(d.stats.tics)
  <1>1. cs \in Nat /\ ds \in Nat /\ cs <= ds
    BY CounterScoreBound
  <1>2. ct \in Nat /\ dt \in Nat /\ (c.completed => ct = dt)
    BY TimeBonusType
  <1>3. MapScore(c) = IF c.completed THEN Sat(Sat(cs + COMPLETION_BONUS) + ct) ELSE cs
    BY DEF MapScore
  <1>4. MapScore(d) = IF d.completed THEN Sat(Sat(ds + COMPLETION_BONUS) + dt) ELSE ds
    BY DEF MapScore
  <1>5. cs <= MaxInt /\ ds <= MaxInt
    <2>1. \A a \in Nat, b \in Nat : Sat(a + b) <= MaxInt
      BY SatType
    <2>2. \A n \in Nat : NonNegative(n) = n
      BY DEF NonNegative
    <2>3. /\ c.stats.kills * POINTS_PER_KILL \in Nat /\ c.stats.items * POINTS_PER_ITEM \in Nat
          /\ d.stats.kills * POINTS_PER_KILL \in Nat /\ d.stats.items * POINTS_PER_ITEM \in Nat
      BY Numbers, Times
    <2> QED BY <2>1, <2>2, <2>3, SatType DEF CounterScore
  <1> HIDE DEF cs, ds, ct, dt
  <1>6. /\ Sat(cs + COMPLETION_BONUS) \in Nat /\ Sat(ds + COMPLETION_BONUS) \in Nat
        /\ Sat(cs + COMPLETION_BONUS) <= Sat(ds + COMPLETION_BONUS)
        /\ cs <= Sat(ds + COMPLETION_BONUS)
    <2>1. cs + COMPLETION_BONUS \in Nat /\ ds + COMPLETION_BONUS \in Nat
          /\ cs + COMPLETION_BONUS <= ds + COMPLETION_BONUS
          /\ cs <= ds + COMPLETION_BONUS
      BY <1>1, Numbers
    <2>2. Sat(cs) = cs
      BY <1>1, <1>5, SatType
    <2> QED BY <1>1, <2>1, <2>2, SatType
  <1>7. /\ Sat(Sat(cs + COMPLETION_BONUS) + ct) \in Nat
        /\ Sat(Sat(ds + COMPLETION_BONUS) + dt) \in Nat
    BY <1>2, <1>6, SatType
  <1>8. CASE c.completed
    <2>1. Sat(Sat(cs + COMPLETION_BONUS) + ct) <= Sat(Sat(ds + COMPLETION_BONUS) + dt)
      BY <1>2, <1>6, <1>8, SatType
    <2> QED BY <1>3, <1>4, <1>7, <1>8, <2>1
  <1>9. CASE ~c.completed
    <2>1. cs <= Sat(Sat(ds + COMPLETION_BONUS) + dt)
      <3>1. cs <= Sat(ds + COMPLETION_BONUS) + dt /\ Sat(ds + COMPLETION_BONUS) + dt \in Nat
        BY <1>1, <1>2, <1>6
      <3>2. Sat(cs) = cs
        BY <1>1, <1>5, SatType
      <3> QED BY <1>1, <3>1, <3>2, SatType
    <2> QED BY <1>1, <1>3, <1>4, <1>7, <1>9, <2>1
  <1> QED BY <1>8, <1>9

-----------------------------------------------------------------------------
\* The inductive invariant.  First the engine: its counters are those of the map
\* it is in, and its lines come in the order of the rotation, a map's announced by
\* its LevelEnter and closed once.
Pos(m) == CHOOSE i \in DOMAIN Rotation : Rotation[i] = m
Lines == [event : Run!Kinds, session : {Session}, map : MapNames, stats : Counts]

EngineTypes ==
    /\ phase \in {"Loading", "InMap", "Title", "Exited"}
    /\ at \in DOMAIN Rotation
    /\ killed \in 0..Monsters /\ items \in 0..Items /\ maptime \in 0..MaxTics
    /\ runStarted \in BOOLEAN /\ playerDead \in BOOLEAN
    /\ emitted \in Seq(Lines)
    /\ exits \subseteq MapNames

Closing(line) == line.event \in {"LevelComplete", "PlayerDied"}
Announced(log, m, i) ==
    \E j \in DOMAIN log : j <= i /\ log[j].event = "LevelEnter" /\ log[j].map = m

Ordered ==
    /\ \A i \in DOMAIN emitted : Pos(emitted[i].map) <= at
    /\ \A i, j \in DOMAIN emitted : i <= j => Pos(emitted[i].map) <= Pos(emitted[j].map)
AnnouncedFirst ==
    /\ ~runStarted => emitted = <<>>
    /\ \A i \in DOMAIN emitted :
          emitted[i].event # "RunStart" => Announced(emitted, emitted[i].map, i)
    /\ phase = "InMap" => runStarted /\ Announced(emitted, Map, Len(emitted))
ClosedOnce ==
    /\ \A i, j \in DOMAIN emitted :
          Closing(emitted[i]) /\ Closing(emitted[j]) /\ emitted[i].map = emitted[j].map => i = j
    /\ phase \in {"InMap", "Loading"} /\ ~playerDead =>
          \A i \in DOMAIN emitted : ~(Closing(emitted[i]) /\ emitted[i].map = Map)
ExitsAreLeft ==
    ~MayAbandon /\ terminal = "None" =>
        \A i \in DOMAIN emitted : emitted[i].event = "LevelComplete" => emitted[i].map \in exits

\* The run: its entries are of different maps, in the order of the rotation, and each is
\* bounded by the lines of its map.
RunTypes ==
    /\ maps \in Seq(Entries)
    /\ open \in BOOLEAN /\ run_started \in BOOLEAN
    /\ terminal \in {"None", "Death", "Complete", "Quit"}
    /\ fifo \in 0..Len(emitted) /\ stdout \in 0..Len(emitted)
    /\ fifoLatched \in BOOLEAN /\ stdoutLost \in BOOLEAN
    /\ stdoutLost /\ ~fifoLatched => phase = "Exited" /\ stdout = Len(emitted)

Backs(line, entry) ==
    /\ line.map = entry.map
    /\ line.event = "LevelComplete"
    /\ line.stats = entry.stats
    /\ ~MayAbandon => entry.map \in exits
KillsShown(entry) ==
    \E i \in DOMAIN emitted : emitted[i].map = entry.map /\ entry.stats.kills <= emitted[i].stats.kills
ItemsShown(entry) ==
    \E i \in DOMAIN emitted : emitted[i].map = entry.map /\ entry.stats.items <= emitted[i].stats.items
Sourced(entry) ==
    /\ KillsShown(entry)
    /\ ItemsShown(entry)
    /\ entry.completed => \E i \in DOMAIN emitted : Backs(emitted[i], entry)
AllSourced == \A n \in DOMAIN maps : Sourced(maps[n])
InOrder == \A n, k \in DOMAIN maps : n < k => Pos(maps[n].map) < Pos(maps[k].map)
LastClosed ==
    /\ open => maps # <<>>
    /\ terminal = "None" /\ maps # <<>> => (Run!Last.completed <=> ~open)

\* Where the two transports stand.  A line still to be read is of a map that is recorded
\* or lies beyond every recorded one, and a death is never of an earlier map than the last.
AheadAt(i) ==
    /\ \/ emitted[i].event = "RunStart"
       \/ Run!Recorded(emitted[i].map)
       \/ \A n \in DOMAIN maps : Pos(maps[n].map) < Pos(emitted[i].map)
    /\ emitted[i].event = "PlayerDied" =>
          \A n \in DOMAIN maps : Pos(maps[n].map) <= Pos(emitted[i].map)
Ahead(k) == \A i \in DOMAIN emitted : i > k => AheadAt(i)

\* The run is what the first r lines made of it, as far as the recorded maps go.
Replay(r) ==
    /\ \A i \in DOMAIN emitted : i <= r =>
          /\ ~Ends(emitted[i])
          /\ emitted[i].event = "LevelEnter" => Run!Recorded(emitted[i].map)
    /\ \A n \in DOMAIN maps : \E i \in DOMAIN emitted : i <= r /\ emitted[i].map = maps[n].map

Placed ==
    terminal = "None" =>
        IF fifoLatched
        THEN Ahead(fifo)
        ELSE Ahead(0) /\ (stdoutLost \/ Replay(stdout))

EngineInv == EngineTypes /\ Ordered /\ AnnouncedFirst /\ ClosedOnce
RunInv == RunTypes /\ AllSourced /\ InOrder /\ LastClosed
IInv == EngineInv /\ ExitsAreLeft /\ RunInv /\ Placed

-----------------------------------------------------------------------------
\* Positions in the rotation.
LEMMA Positions ==
    /\ \A i \in DOMAIN Rotation : Rotation[i] \in MapNames /\ Pos(Rotation[i]) = i
    /\ \A m \in MapNames : Pos(m) \in DOMAIN Rotation /\ Rotation[Pos(m)] = m
    /\ \A m, k \in MapNames : Pos(m) = Pos(k) => m = k
    /\ Len(Rotation) \in Nat /\ DOMAIN Rotation = 1..Len(Rotation) /\ 1 \in DOMAIN Rotation
  <1>1. \A i, j \in DOMAIN Rotation : Rotation[i] = Rotation[j] => i = j
    BY TelemetryAssumption
  <1>2. ASSUME NEW i \in DOMAIN Rotation PROVE Rotation[i] \in MapNames /\ Pos(Rotation[i]) = i
    BY <1>1 DEF MapNames, Pos
  <1>3. ASSUME NEW m \in MapNames PROVE Pos(m) \in DOMAIN Rotation /\ Rotation[Pos(m)] = m
    BY <1>2 DEF MapNames
  <1>4. Len(Rotation) \in Nat /\ DOMAIN Rotation = 1..Len(Rotation) /\ Rotation # <<>>
    BY TelemetryAssumption
  <1>5. 1 \in DOMAIN Rotation
    <2>1. Rotation \in Seq(STRING)
      BY TelemetryAssumption
    <2>2. Len(Rotation) # 0
      BY <1>4, <2>1, EmptySeq
    <2> QED BY <1>4, <2>2
  <1> QED BY <1>2, <1>3, <1>4, <1>5

LEMMA PosNat ==
    ASSUME NEW m \in MapNames
    PROVE  Pos(m) \in Nat /\ Pos(m) <= Len(Rotation) /\ Pos(m) >= 1
  BY Positions

\* Counters that are partly replaced.
LEMMA Patched ==
    ASSUME NEW c \in Counts, NEW k \in 0..Monsters, NEW t \in 0..MaxTics
    PROVE  /\ [c EXCEPT !.tics = t] \in Counts
           /\ [c EXCEPT !.tics = t].kills = c.kills /\ [c EXCEPT !.tics = t].items = c.items
           /\ [c EXCEPT !.kills = k, !.tics = t] \in Counts
           /\ [c EXCEPT !.kills = k, !.tics = t].kills = k
           /\ [c EXCEPT !.kills = k, !.tics = t].items = c.items
  BY DEF Counts

\* The line the engine sends of a map it is in.
LEMMA LineType ==
    ASSUME EngineTypes, NEW kind \in Run!Kinds
    PROVE  /\ Line(kind) \in Lines
           /\ Line(kind).event = kind /\ Line(kind).map = Map
           /\ \A n \in 0..MaxTics : [Line(kind) EXCEPT !.stats.tics = n] \in Lines
                /\ [Line(kind) EXCEPT !.stats.tics = n].event = kind
                /\ [Line(kind) EXCEPT !.stats.tics = n].map = Map
  <1>1. Counters \in Counts /\ Nothing \in Counts
    BY Numbers DEF Counters, Nothing, Counts, EngineTypes
  <1>2. [Nothing EXCEPT !.kills = killed, !.tics = maptime] \in Counts
    BY <1>1, Patched DEF EngineTypes
  <1>3. [Nothing EXCEPT !.tics = maptime] \in Counts
    BY <1>1, Patched DEF EngineTypes
  <1>4. Carried(kind) \in Counts
    BY <1>1, <1>2, <1>3 DEF Carried
  <1>5. Map \in MapNames
    BY Positions DEF Map, EngineTypes
  <1>6. Line(kind) \in Lines /\ Line(kind).event = kind /\ Line(kind).map = Map
        /\ Line(kind).stats = Carried(kind)
    BY <1>4, <1>5 DEF Line, Lines
  <1>7. ASSUME NEW n \in 0..MaxTics
        PROVE  /\ [Line(kind) EXCEPT !.stats.tics = n] \in Lines
               /\ [Line(kind) EXCEPT !.stats.tics = n].event = kind
               /\ [Line(kind) EXCEPT !.stats.tics = n].map = Map
    <2>1. [Carried(kind) EXCEPT !.tics = n] \in Counts
      BY <1>4 DEF Counts
    <2>2. [Line(kind) EXCEPT !.stats.tics = n]
            = [event |-> kind, session |-> Session, map |-> Map,
               stats |-> [Carried(kind) EXCEPT !.tics = n]]
      BY DEF Line
    <2> QED BY <1>5, <2>1, <2>2 DEF Lines
  <1> QED BY <1>6, <1>7

-----------------------------------------------------------------------------
\* What a step of the engine does to its lines: it adds some of the map it is in, which
\* announce the map first and close it last.
Adds(new) ==
    /\ new \in Seq(Lines)
    /\ emitted' = emitted \o new
    /\ \A i \in DOMAIN new : new[i].map = Map

Moves(new) ==
    /\ at' \in {at, at + 1}
    /\ new # <<>> \/ runStarted => runStarted'
    /\ phase' = "InMap" => runStarted' /\ at' = at

Announces(new) ==
    \/ phase = "InMap"
    \/ phase' # "InMap" /\ new = <<>>
    \/ runStarted /\ new = <<Line("LevelEnter")>>
    \/ ~runStarted /\ new = <<Line("RunStart"), Line("LevelEnter")>>

Closes(new) ==
    \/ /\ \A i \in DOMAIN new : ~Closing(new[i])
       /\ phase' \in {"InMap", "Loading"} /\ ~playerDead' =>
             ~runStarted \/ at' # at \/ (phase \in {"InMap", "Loading"} /\ ~playerDead)
    \/ /\ phase = "InMap" /\ ~playerDead
       /\ \A i \in DOMAIN new : Closing(new[i]) <=> i = 1
       /\ phase' \in {"InMap", "Loading"} /\ ~playerDead' => at' # at

Leaves(new) ==
    /\ exits \subseteq exits'
    /\ \A i \in DOMAIN new : new[i].event = "LevelComplete" => Map \in exits' \/ phase' = "Exited"

Writes(new) == Adds(new) /\ Moves(new) /\ Announces(new) /\ Closes(new) /\ Leaves(new)

LEMMA None ==
    ASSUME NEW S
    PROVE  <<>> \in Seq(S) /\ DOMAIN <<>> = {} /\ (\A s \in Seq(S) : s \o <<>> = s)
  <1>1. \A s \in Seq(S) : s \o <<>> = s
    BY ConcatEmptySeq
  <1> QED BY <1>1

LEMMA One ==
    ASSUME NEW S, NEW a \in S
    PROVE  /\ <<a>> \in Seq(S) /\ DOMAIN <<a>> = {1} /\ <<a>>[1] = a /\ <<a>> # <<>>
           /\ <<a>> \o <<>> = <<a>> /\ <<>> \o <<a>> = <<a>>
  <1>1. <<a>> \in Seq(S)
    OBVIOUS
  <1>2. <<a>> \o <<>> = <<a>> /\ <<>> \o <<a>> = <<a>>
    BY <1>1, ConcatEmptySeq
  <1> QED BY <1>1, <1>2

LEMMA Two ==
    ASSUME NEW S, NEW a \in S, NEW b \in S
    PROVE  /\ <<a>> \o <<b>> = <<a, b>>
           /\ <<a, b>> \in Seq(S) /\ DOMAIN <<a, b>> = {1, 2} /\ <<a, b>>[1] = a
           /\ <<a, b>>[2] = b /\ <<a, b>> # <<>>
  <1>1. <<a, b>> \in Seq(S) /\ Len(<<a, b>>) = 2
    OBVIOUS
  <1>2. DOMAIN <<a, b>> = {1, 2} /\ <<a, b>>[1] = a /\ <<a, b>>[2] = b /\ <<a, b>> # <<>>
    OBVIOUS
  <1>3. <<a>> \in Seq(S) /\ <<b>> \in Seq(S) /\ Len(<<a>>) = 1 /\ Len(<<b>>) = 1
        /\ <<a>>[1] = a /\ <<b>>[1] = b
    OBVIOUS
  <1> DEFINE s == <<a>> \o <<b>>
  <1>4. s \in Seq(S) /\ Len(s) = 2 /\ s[1] = a /\ s[2] = b
    BY <1>3, ConcatProperties
  <1> HIDE DEF s
  <1>5. s = <<a, b>>
    <2> DEFINE t == <<a, b>>
    <2>1. t \in Seq(S) /\ Len(t) = 2 /\ t[1] = a /\ t[2] = b
      BY <1>1, <1>2
    <2> HIDE DEF t
    <2>2. \A i \in 1..2 : s[i] = t[i]
      BY <1>4, <2>1
    <2>3. s = t
      BY <1>4, <2>1, <2>2, SeqEqual
    <2> QED BY <2>3 DEF t
  <1> QED BY <1>1, <1>2, <1>5 DEF s

\* What the unload of a map writes: nothing, or its completion, first, and after the last
\* map the end of the run.
LEMMA UnloadWrites ==
    ASSUME EngineTypes, WorldUnloaded
    PROVE  \/ (~runStarted \/ playerDead) /\ emitted' = emitted
           \/ /\ runStarted /\ ~playerDead
              /\ \E new : /\ Adds(new) /\ new # <<>>
                          /\ \A i \in DOMAIN new : new[i].event \in {"LevelComplete", "RunComplete"}
                          /\ \A i \in DOMAIN new : Closing(new[i]) <=> i = 1
  <1>1. CASE ~runStarted \/ playerDead
    BY <1>1 DEF WorldUnloaded
  <1>2. CASE ~(~runStarted \/ playerDead)
    <2> DEFINE a == Line("LevelComplete")
               b == Line("RunComplete")
    <2>1. a \in Lines /\ a.map = Map /\ a.event = "LevelComplete" /\ Closing(a)
      BY LineType DEF Run!Kinds, Closing
    <2>2. b \in Lines /\ b.map = Map /\ b.event = "RunComplete" /\ ~Closing(b)
      BY LineType DEF Run!Kinds, Closing
    <2>3. emitted' = emitted \o (<<a>> \o (IF LastMap THEN <<b>> ELSE <<>>))
      BY <1>2 DEF WorldUnloaded, Emit
    <2> HIDE DEF a, b
    <2> DEFINE T == Lines
    <2> HIDE DEF T
    <2>4. CASE LastMap
      <3> DEFINE new == <<a, b>>
      <3>1. new \in Seq(T) /\ DOMAIN new = {1, 2} /\ new[1] = a /\ new[2] = b /\ new # <<>>
            /\ <<a>> \o <<b>> = new
        BY <2>1, <2>2, Two DEF T
      <3>2. emitted' = emitted \o new
        BY <2>3, <2>4, <3>1
      <3> HIDE DEF new
      <3>3. Adds(new)
        BY <2>1, <2>2, <3>1, <3>2 DEF Adds, T
      <3> QED BY <1>2, <2>1, <2>2, <3>1, <3>3
    <2>5. CASE ~LastMap
      <3> DEFINE new == <<a>>
      <3>1. new \in Seq(T) /\ DOMAIN new = {1} /\ new[1] = a /\ new # <<>>
            /\ new \o <<>> = new
        BY <2>1, One DEF T
      <3>2. emitted' = emitted \o new
        BY <2>3, <2>5, <3>1
      <3> HIDE DEF new
      <3>3. Adds(new)
        BY <2>1, <3>1, <3>2 DEF Adds, T
      <3> QED BY <1>2, <2>1, <3>1, <3>3
    <2> QED BY <2>4, <2>5
  <1> QED BY <1>1, <1>2

LEMMA SilentWrites ==
    ASSUME EngineTypes, emitted' = emitted, UNCHANGED exits, at' \in {at, at + 1},
           runStarted' = runStarted, playerDead' = playerDead,
           phase' = "InMap" => phase = "InMap" /\ runStarted /\ at' = at,
           phase' \in {"InMap", "Loading"} /\ ~playerDead' =>
              ~runStarted \/ at' # at \/ phase \in {"InMap", "Loading"}
    PROVE  Writes(<<>>)
  <1> DEFINE new == <<>>
             T == Lines
  <1>1. emitted \in Seq(T)
    BY DEF EngineTypes
  <1> HIDE DEF T
  <1>2. new \in Seq(T) /\ DOMAIN new = {} /\ emitted \o new = emitted /\ new = <<>>
    BY <1>1, None
  <1> HIDE DEF new
  <1>3. Adds(new)
    BY <1>2 DEF Adds, T
  <1>4. Moves(new)
    BY <1>2 DEF Moves
  <1>5. Announces(new)
    BY <1>2 DEF Announces
  <1>6. Closes(new)
    BY <1>2 DEF Closes
  <1>7. Leaves(new)
    BY <1>2 DEF Leaves
  <1>8. Writes(new)
    BY <1>3, <1>4, <1>5, <1>6, <1>7 DEF Writes
  <1> QED BY <1>8 DEF new

LEMMA PlayWrites ==
    ASSUME EngineInv, Play
    PROVE  EngineTypes' /\ phase' # "Exited" /\ \E new : Writes(new)
  <1> USE DEF EngineInv
  <1>0. /\ EngineTypes
        /\ phase = "InMap" => runStarted
        /\ at + 1 \in Int /\ at \in Int /\ at + 1 # at
    BY Positions DEF AnnouncedFirst, EngineTypes
  <1>1. CASE WorldLoaded
    <2> DEFINE a == Line("RunStart")
               b == Line("LevelEnter")
    <2>1. a \in Lines /\ a.map = Map /\ a.event = "RunStart" /\ ~Closing(a)
      BY <1>0, LineType DEF Run!Kinds, Closing
    <2>2. b \in Lines /\ b.map = Map /\ b.event = "LevelEnter" /\ ~Closing(b)
      BY <1>0, LineType DEF Run!Kinds, Closing
    <2>3. /\ phase = "Loading" /\ phase' = "InMap" /\ runStarted' /\ at' = at /\ exits' = exits
          /\ IF runStarted THEN playerDead' = playerDead ELSE playerDead' = FALSE
          /\ emitted' = emitted \o (IF runStarted THEN <<b>> ELSE <<a, b>>)
      BY <1>0, <1>1 DEF WorldLoaded, Emit, EngineTypes
    <2>4. \E new : /\ Adds(new) /\ Announces(new)
                   /\ new # <<>>
                   /\ \A i \in DOMAIN new : new[i].event \in {"RunStart", "LevelEnter"}
      <3> DEFINE T == Lines
      <3> HIDE DEF T
      <3>1. CASE runStarted
        <4> DEFINE new == <<b>>
        <4>1. new \in Seq(T) /\ DOMAIN new = {1} /\ new[1] = b /\ new # <<>>
          BY <2>2, One DEF T
        <4>2. emitted' = emitted \o new /\ Announces(new)
          BY <2>3, <3>1 DEF Announces
        <4> HIDE DEF new, b
        <4>3. Adds(new)
          BY <2>2, <4>1, <4>2 DEF Adds, T
        <4> QED BY <2>2, <4>1, <4>2, <4>3
      <3>2. CASE ~runStarted
        <4> DEFINE new == <<a, b>>
        <4>1. new \in Seq(T) /\ DOMAIN new = {1, 2} /\ new[1] = a /\ new[2] = b /\ new # <<>>
          BY <2>1, <2>2, Two DEF T
        <4>2. emitted' = emitted \o new /\ Announces(new)
          BY <2>3, <3>2 DEF Announces
        <4> HIDE DEF new, a, b
        <4>3. Adds(new)
          BY <2>1, <2>2, <4>1, <4>2 DEF Adds, T
        <4> QED BY <2>1, <2>2, <4>1, <4>2, <4>3
      <3> QED BY <3>1, <3>2
    <2>5. PICK new : /\ Adds(new) /\ Announces(new)
                     /\ new # <<>>
                     /\ \A i \in DOMAIN new : new[i].event \in {"RunStart", "LevelEnter"}
      BY <2>4
    <2> HIDE DEF a, b
    <2>6. Moves(new)
      BY <2>3 DEF Moves
    <2>7. Closes(new)
      BY <2>3, <2>5 DEF Closes, Closing
    <2>8. Leaves(new)
      BY <2>3, <2>5 DEF Leaves
    <2>9. emitted' \in Seq(Lines)
      <3> DEFINE T == Lines
      <3>1. emitted \in Seq(T) /\ new \in Seq(T) /\ emitted' = emitted \o new
        BY <1>0, <2>5 DEF Adds, EngineTypes
      <3> HIDE DEF T
      <3>2. emitted' \in Seq(T)
        BY <3>1, ConcatProperties
      <3> QED BY <3>2 DEF T
    <2>10. EngineTypes'
      <3>1. killed' = 0 /\ items' = 0 /\ maptime' = 0
        BY <1>1 DEF WorldLoaded, NewLevel
      <3>2. killed' \in 0..Monsters /\ items' \in 0..Items /\ maptime' \in 0..MaxTics
        BY <3>1, Numbers
      <3>3. playerDead' \in BOOLEAN
        BY <1>0, <2>3 DEF EngineTypes
      <3>4. runStarted' = TRUE
        BY <1>0, <1>1 DEF WorldLoaded, EngineTypes
      <3> QED BY <1>0, <2>3, <2>9, <3>2, <3>3, <3>4 DEF EngineTypes
    <2> QED BY <2>3, <2>5, <2>6, <2>7, <2>8, <2>10 DEF Writes
  <1>2. CASE Score
    <2>1. Writes(<<>>)
      BY <1>0, <1>2, SilentWrites DEF Score
    <2>2. EngineTypes' /\ phase' # "Exited"
      BY <1>0, <1>2, Numbers DEF Score, EngineTypes
    <2> QED BY <2>1, <2>2
  <1>3. CASE WorldTick
    <2> DEFINE Now(kind) == <<[Line(kind) EXCEPT !.stats.tics = maptime + 1]>>
               a == [Line("Progress") EXCEPT !.stats.tics = maptime + 1]
               b == [Line("RunQuit") EXCEPT !.stats.tics = maptime + 1]
               T == Lines
               one == IF Heartbeat(maptime + 1) THEN <<a>> ELSE <<>>
               two == IF HoldDone THEN <<b>> ELSE <<>>
               new == one \o two
    <2>1. /\ phase = "InMap" /\ phase' = "InMap" /\ runStarted /\ runStarted' = runStarted
          /\ ~playerDead /\ playerDead' = playerDead /\ at' = at /\ exits' = exits
          /\ maptime' = maptime + 1 /\ maptime < MaxTics /\ killed' = killed /\ items' = items
      BY <1>3 DEF WorldTick, level
    <2>2. emitted' = emitted \o new
      BY <1>3 DEF WorldTick, Emit
    <2>3. maptime + 1 \in 0..MaxTics
      BY <1>0, <2>1, Numbers DEF EngineTypes
    <2>4. a \in T /\ a.map = Map /\ a.event = "Progress"
      BY <1>0, <2>3, LineType DEF Run!Kinds
    <2>5. b \in T /\ b.map = Map /\ b.event = "RunQuit"
      BY <1>0, <2>3, LineType DEF Run!Kinds
    <2> HIDE DEF a, b, T
    <2>6. /\ one \in Seq(T) /\ \A i \in DOMAIN one : one[i].map = Map /\ one[i].event = "Progress"
      BY <2>4, One, None
    <2>7. /\ two \in Seq(T) /\ \A i \in DOMAIN two : two[i].map = Map /\ two[i].event = "RunQuit"
      BY <2>5, One, None
    <2> HIDE DEF one, two
    <2>8. /\ new \in Seq(T)
          /\ \A i \in DOMAIN new : new[i].map = Map /\ new[i].event \in {"Progress", "RunQuit"}
      <3>1. /\ new \in Seq(T) /\ Len(new) = Len(one) + Len(two)
            /\ \A i \in 1..Len(one) : new[i] = one[i]
            /\ \A i \in 1..Len(two) : new[Len(one) + i] = two[i]
        BY <2>6, <2>7, ConcatProperties
      <3> HIDE DEF new
      <3>2. ASSUME NEW i \in DOMAIN new
            PROVE  new[i].map = Map /\ new[i].event \in {"Progress", "RunQuit"}
        <4>1. i \in 1..Len(new) /\ Len(one) \in Nat /\ Len(two) \in Nat
              /\ DOMAIN one = 1..Len(one) /\ DOMAIN two = 1..Len(two)
          BY <2>6, <2>7, <3>1
        <4>2. CASE i \in 1..Len(one)
          BY <2>6, <3>1, <4>1, <4>2
        <4>3. CASE i \notin 1..Len(one)
          <5>1. i - Len(one) \in 1..Len(two) /\ Len(one) + (i - Len(one)) = i
            BY <3>1, <4>1, <4>3
          <5>2. new[i] = two[i - Len(one)]
            BY <3>1, <5>1
          <5> QED BY <2>7, <4>1, <5>1, <5>2
        <4> QED BY <4>2, <4>3
      <3> QED BY <3>1, <3>2
    <2> HIDE DEF new
    <2>9. Adds(new) /\ Moves(new) /\ Announces(new)
      BY <2>1, <2>2, <2>8 DEF Adds, Moves, Announces, T
    <2>10. Closes(new) /\ Leaves(new)
      BY <2>1, <2>8 DEF Closes, Closing, Leaves
    <2>11. emitted' \in Seq(T)
      <3>1. emitted \in Seq(T)
        BY <1>0 DEF EngineTypes, T
      <3> QED BY <2>2, <2>8, <3>1, ConcatProperties
    <2>12. EngineTypes'
      BY <1>0, <2>1, <2>3, <2>11 DEF EngineTypes, T
    <2> QED BY <2>1, <2>9, <2>10, <2>12 DEF Writes
  <1>4. CASE StartDown
    <2>1. Writes(<<>>)
      BY <1>0, <1>4, SilentWrites DEF StartDown, level
    <2>2. EngineTypes' /\ phase' # "Exited"
      BY <1>0, <1>4 DEF StartDown, level, EngineTypes
    <2> QED BY <2>1, <2>2
  <1>5. CASE StartUp
    <2>1. Writes(<<>>)
      BY <1>0, <1>5, SilentWrites DEF StartUp, level
    <2>2. EngineTypes' /\ phase' # "Exited"
      BY <1>0, <1>5 DEF StartUp, level, EngineTypes
    <2> QED BY <2>1, <2>2
  <1>6. CASE WorldThingDied
    <2> DEFINE a == Line("PlayerDied")
               new == <<a>>
               T == Lines
    <2>1. a \in T /\ a.map = Map /\ a.event = "PlayerDied"
      BY <1>0, LineType DEF Run!Kinds
    <2>2. /\ phase = "InMap" /\ phase' = "InMap" /\ runStarted /\ runStarted' = runStarted
          /\ ~playerDead /\ playerDead' = TRUE /\ at' = at /\ exits' = exits
          /\ maptime' = maptime /\ killed' = killed /\ items' = items
          /\ emitted' = emitted \o new
      BY <1>6 DEF WorldThingDied, level, Emit
    <2> HIDE DEF a, T
    <2>3. new \in Seq(T) /\ DOMAIN new = {1} /\ new[1] = a /\ new # <<>>
      BY <2>1, One
    <2> HIDE DEF new
    <2>4. Adds(new) /\ Moves(new) /\ Announces(new)
      BY <2>1, <2>2, <2>3 DEF Adds, Moves, Announces, T
    <2>5. Closes(new) /\ Leaves(new)
      BY <2>1, <2>2, <2>3 DEF Closes, Closing, Leaves
    <2>6. emitted' \in Seq(T)
      <3>1. emitted \in Seq(T)
        BY <1>0 DEF EngineTypes, T
      <3> QED BY <2>2, <2>3, <3>1, ConcatProperties
    <2>7. EngineTypes'
      BY <1>0, <2>2, <2>6 DEF EngineTypes, T
    <2> QED BY <2>2, <2>4, <2>5, <2>7 DEF Writes
  <1>7. CASE ExitMap
    <2>1. /\ phase = "InMap" /\ phase' \in {"Title", "Loading"} /\ runStarted
          /\ runStarted' = runStarted /\ playerDead' = playerDead
          /\ at' = IF LastMap THEN at ELSE at + 1
          /\ phase' = "Loading" => at' = at + 1
          /\ exits' = IF playerDead THEN exits ELSE exits \cup {Map}
          /\ maptime' = maptime /\ killed' = killed /\ items' = items
          /\ WorldUnloaded
      BY <1>0, <1>7 DEF ExitMap
    <2>2. at' \in DOMAIN Rotation
      BY <1>0, <2>1, Positions DEF LastMap, EngineTypes
    <2>3. exits' \subseteq MapNames
      BY <1>0, <2>1, Positions DEF Map, EngineTypes
    <2>4. CASE playerDead
      <3>1. emitted' = emitted /\ exits' = exits
        BY <2>1, <2>4 DEF WorldUnloaded
      <3>2. Writes(<<>>)
        BY <1>0, <2>1, <2>4, <3>1, SilentWrites DEF LastMap
      <3>3. EngineTypes'
        BY <1>0, <2>1, <2>2, <2>3, <3>1 DEF EngineTypes
      <3> QED BY <2>1, <3>2, <3>3
    <2>5. CASE ~playerDead
      <3>1. PICK new : /\ Adds(new) /\ new # <<>>
                       /\ \A i \in DOMAIN new : Closing(new[i]) <=> i = 1
        BY <1>0, <2>1, <2>5, UnloadWrites
      <3>2. Moves(new) /\ Announces(new)
        BY <2>1 DEF Moves, Announces
      <3>3. Closes(new)
        BY <1>0, <2>1, <2>5, <3>1 DEF Closes
      <3>4. Leaves(new)
        BY <2>1, <2>5 DEF Leaves
      <3>5. emitted' \in Seq(Lines)
        <4> DEFINE T == Lines
        <4>1. emitted \in Seq(T) /\ new \in Seq(T) /\ emitted' = emitted \o new
          BY <1>0, <3>1 DEF Adds, EngineTypes
        <4> HIDE DEF T
        <4>2. emitted' \in Seq(T)
          BY <4>1, ConcatProperties
        <4> QED BY <4>2 DEF T
      <3>6. EngineTypes'
        BY <1>0, <2>1, <2>2, <2>3, <3>5 DEF EngineTypes
      <3> QED BY <2>1, <3>1, <3>2, <3>3, <3>4, <3>6 DEF Writes
    <2> QED BY <2>4, <2>5
  <1>8. CASE Restart
    <2>1. /\ phase = "InMap" /\ phase' = "Loading" /\ playerDead
          /\ runStarted' = runStarted /\ playerDead' = playerDead /\ at' = at
          /\ exits' = exits /\ maptime' = maptime /\ killed' = killed /\ items' = items
          /\ emitted' = emitted
      BY <1>8 DEF Restart, WorldUnloaded
    <2>2. Writes(<<>>)
      BY <1>0, <2>1, SilentWrites
    <2>3. EngineTypes'
      BY <1>0, <2>1 DEF EngineTypes
    <2> QED BY <2>1, <2>2, <2>3
  <1> QED BY <1>1, <1>2, <1>3, <1>4, <1>5, <1>6, <1>7, <1>8 DEF Play

LEMMA ExitWrites ==
    ASSUME EngineInv, Exit
    PROVE  EngineTypes' /\ Writes(<<>>)
  <1>1. EngineTypes /\ phase' = "Exited"
    BY DEF EngineInv, Exit
  <1>2. Writes(<<>>)
    BY <1>1, SilentWrites DEF Exit, level
  <1>3. EngineTypes'
    BY <1>1 DEF Exit, level, EngineTypes
  <1> QED BY <1>2, <1>3

LEMMA TeardownWrites ==
    ASSUME EngineInv, Teardown
    PROVE  EngineTypes' /\ \E new : Writes(new)
  <1>1. /\ EngineTypes /\ phase = "InMap" /\ phase' = "Exited" /\ runStarted
        /\ runStarted' = runStarted /\ playerDead' = playerDead /\ at' = at /\ exits' = exits
        /\ maptime' = maptime /\ killed' = killed /\ items' = items /\ WorldUnloaded
    BY DEF EngineInv, AnnouncedFirst, Teardown, level
  <1>2. CASE playerDead
    <2>1. emitted' = emitted
      BY <1>1, <1>2 DEF WorldUnloaded
    <2>2. Writes(<<>>)
      BY <1>1, <2>1, SilentWrites
    <2>3. EngineTypes'
      BY <1>1, <2>1 DEF EngineTypes
    <2> QED BY <2>2, <2>3
  <1>3. CASE ~playerDead
    <2>1. PICK new : /\ Adds(new) /\ new # <<>>
                     /\ \A i \in DOMAIN new : Closing(new[i]) <=> i = 1
      BY <1>1, <1>3, UnloadWrites
    <2>2. Moves(new) /\ Announces(new)
      BY <1>1 DEF Moves, Announces
    <2>3. Closes(new) /\ Leaves(new)
      BY <1>1, <1>3, <2>1 DEF Closes, Leaves
    <2>4. emitted' \in Seq(Lines)
      <3> DEFINE T == Lines
      <3>1. emitted \in Seq(T) /\ new \in Seq(T) /\ emitted' = emitted \o new
        BY <1>1, <2>1 DEF Adds, EngineTypes
      <3> HIDE DEF T
      <3>2. emitted' \in Seq(T)
        BY <3>1, ConcatProperties
      <3> QED BY <3>2 DEF T
    <2>5. EngineTypes'
      BY <1>1, <2>4 DEF EngineTypes
    <2> QED BY <2>1, <2>2, <2>3, <2>5 DEF Writes
  <1> QED BY <1>2, <1>3

-----------------------------------------------------------------------------
\* The lines so far stand, and the new ones follow them.
LEMMA LineOf ==
    ASSUME emitted \in Seq(Lines)
    PROVE  /\ Len(emitted) \in Nat /\ DOMAIN emitted = 1..Len(emitted)
           /\ \A i \in DOMAIN emitted :
                /\ emitted[i] \in Lines /\ emitted[i].map \in MapNames
                /\ emitted[i].session = Session /\ emitted[i].stats \in Counts
                /\ emitted[i].event \in Run!Kinds
  <1> DEFINE T == Lines
  <1>1. \A l \in T : l.map \in MapNames /\ l.session = Session /\ l.stats \in Counts
                       /\ l.event \in Run!Kinds
    BY DEF Lines
  <1>2. emitted \in Seq(T)
    OBVIOUS
  <1> HIDE DEF T
  <1>3. /\ Len(emitted) \in Nat /\ DOMAIN emitted = 1..Len(emitted)
        /\ \A i \in DOMAIN emitted : emitted[i] \in T
    BY <1>2
  <1> QED BY <1>1, <1>3 DEF T

LEMMA Grown ==
    ASSUME emitted \in Seq(Lines), NEW new, Adds(new)
    PROVE  /\ Len(new) \in Nat /\ DOMAIN new = 1..Len(new)
           /\ Len(emitted') = Len(emitted) + Len(new)
           /\ DOMAIN emitted' = 1..Len(emitted')
           /\ \A i \in DOMAIN emitted : i \in DOMAIN emitted' /\ emitted'[i] = emitted[i]
           /\ \A i \in DOMAIN new : /\ Len(emitted) + i \in DOMAIN emitted'
                                    /\ emitted'[Len(emitted) + i] = new[i]
           /\ \A i \in DOMAIN emitted' :
                 \/ i \in DOMAIN emitted
                 \/ /\ i > Len(emitted) /\ i - Len(emitted) \in DOMAIN new
                    /\ emitted'[i] = new[i - Len(emitted)]
                    /\ emitted'[i].map = Map
           /\ emitted' \in Seq(Lines)
  <1> DEFINE T == Lines
  <1>1. emitted \in Seq(T) /\ new \in Seq(T) /\ emitted' = emitted \o new
        /\ \A i \in DOMAIN new : new[i].map = Map
    BY DEF Adds
  <1> HIDE DEF T
  <1> DEFINE n == Len(emitted)
             m == Len(new)
             log == emitted \o new
  <1>2. n \in Nat /\ m \in Nat /\ DOMAIN emitted = 1..n /\ DOMAIN new = 1..m
    BY <1>1
  <1>3. /\ log \in Seq(T) /\ Len(log) = n + m
        /\ \A i \in 1..n : log[i] = emitted[i]
        /\ \A i \in 1..m : log[n + i] = new[i]
    BY <1>1, ConcatProperties
  <1> HIDE DEF n, m, log
  <1>4. DOMAIN log = 1..(n + m)
    BY <1>3
  <1>5. \A i \in 1..n : i \in 1..(n + m)
    BY <1>2
  <1>6. \A i \in 1..m : n + i \in 1..(n + m)
    BY <1>2
  <1>7. ASSUME NEW i \in 1..(n + m), i \notin 1..n
        PROVE  /\ i > n /\ i - n \in 1..m /\ n + (i - n) = i
               /\ log[i] = new[i - n] /\ log[i].map = Map
    <2>1. i > n /\ i - n \in 1..m /\ n + (i - n) = i
      BY <1>2, <1>7
    <2>2. log[i] = new[i - n]
      BY <1>3, <2>1
    <2> QED BY <1>1, <1>2, <2>1, <2>2
  <1>8. emitted' = log
    BY <1>1 DEF log
  <1> QED BY <1>2, <1>3, <1>4, <1>5, <1>6, <1>7, <1>8 DEF n, m, T

LEMMA OrderedKept ==
    ASSUME EngineInv, NEW new, Writes(new), EngineTypes'
    PROVE  Ordered'
  <1>1. EngineTypes /\ Ordered /\ Adds(new) /\ Moves(new)
    BY DEF EngineInv, Writes
  <1>2. emitted \in Seq(Lines) /\ emitted' \in Seq(Lines) /\ at \in Nat /\ at' \in Nat /\ at <= at'
    BY <1>1, Positions DEF EngineTypes, Moves
  <1>3. Pos(Map) = at
    BY <1>1, Positions DEF Map, EngineTypes
  <1>4. \A i \in DOMAIN emitted' :
           \/ i \in DOMAIN emitted /\ emitted'[i] = emitted[i]
           \/ i > Len(emitted) /\ emitted'[i].map = Map
    BY <1>1, <1>2, Grown
  <1>5. \A i \in DOMAIN emitted : Pos(emitted[i].map) \in Nat /\ i <= Len(emitted) /\ i \in Nat
    BY <1>2, LineOf, PosNat
  <1>6. \A i \in DOMAIN emitted' : i \in Nat /\ Pos(emitted'[i].map) \in Nat
    <2>1. \A i \in DOMAIN emitted' : i \in Nat /\ (emitted'[i]).map \in MapNames
      <3> DEFINE T == Lines
      <3>1. \A l \in T : l.map \in MapNames
        BY DEF Lines
      <3>2. emitted' \in Seq(T)
        BY <1>2
      <3> HIDE DEF T
      <3>3. \A i \in DOMAIN emitted' : i \in Nat /\ (emitted')[i] \in T
        BY <3>2
      <3> QED BY <3>1, <3>3
    <2> QED BY <2>1, PosNat
  <1>7. ASSUME NEW i \in DOMAIN emitted' PROVE Pos(emitted'[i].map) <= at'
    <2>1. CASE i \in DOMAIN emitted /\ emitted'[i] = emitted[i]
      <3>1. Pos(emitted[i].map) <= at
        BY <1>1, <2>1 DEF Ordered
      <3> QED BY <1>2, <1>5, <2>1, <3>1
    <2>2. CASE emitted'[i].map = Map
      BY <1>2, <1>3, <2>2
    <2> QED BY <1>4, <2>1, <2>2
  <1>8. ASSUME NEW i \in DOMAIN emitted', NEW j \in DOMAIN emitted', i <= j
        PROVE  Pos(emitted'[i].map) <= Pos(emitted'[j].map)
    <2>1. CASE j \in DOMAIN emitted /\ emitted'[j] = emitted[j]
      <3>1. i \in DOMAIN emitted /\ emitted'[i] = emitted[i]
        BY <1>4, <1>5, <1>6, <1>8, <1>2, LineOf, <2>1
      <3> QED BY <1>1, <1>8, <2>1, <3>1 DEF Ordered
    <2>2. CASE emitted'[j].map = Map
      <3>1. CASE i \in DOMAIN emitted /\ emitted'[i] = emitted[i]
        BY <1>1, <1>3, <2>2, <3>1 DEF Ordered
      <3>2. CASE emitted'[i].map = Map
        BY <1>2, <1>3, <2>2, <3>2
      <3> QED BY <1>4, <3>1, <3>2
    <2> QED BY <1>4, <2>1, <2>2
  <1> QED BY <1>7, <1>8 DEF Ordered

LEMMA AnnouncedKept ==
    ASSUME EngineInv, NEW new, Writes(new), EngineTypes'
    PROVE  AnnouncedFirst'
  <1>1. EngineTypes /\ AnnouncedFirst /\ Adds(new) /\ Moves(new) /\ Announces(new)
    BY DEF EngineInv, Writes
  <1>2. emitted \in Seq(Lines)
    BY <1>1 DEF EngineTypes
  <1> DEFINE n == Len(emitted)
  <1>3. /\ n \in Nat /\ DOMAIN emitted = 1..n
        /\ Len(new) \in Nat /\ DOMAIN new = 1..Len(new)
        /\ Len(emitted') = n + Len(new) /\ DOMAIN emitted' = 1..(n + Len(new))
        /\ \A i \in DOMAIN emitted : i \in DOMAIN emitted' /\ emitted'[i] = emitted[i]
        /\ \A i \in DOMAIN new : n + i \in DOMAIN emitted' /\ emitted'[n + i] = new[i]
        /\ \A i \in DOMAIN emitted' :
              i \in DOMAIN emitted
                \/ (i > n /\ i - n \in DOMAIN new /\ emitted'[i] = new[i - n] /\ emitted'[i].map = Map)
    BY <1>1, <1>2, Grown, LineOf
  <1> DEFINE log == emitted'
  <1>4. ASSUME NEW m, NEW i \in Int, NEW j \in Int, i <= j, Announced(emitted, m, i)
        PROVE  Announced(log, m, j)
    <2>1. PICK k \in DOMAIN emitted : /\ k <= i /\ emitted[k].event = "LevelEnter"
                                      /\ emitted[k].map = m
      BY <1>4 DEF Announced
    <2>2. k \in DOMAIN log /\ log[k] = emitted[k] /\ k <= j
      BY <1>3, <1>4, <2>1
    <2> QED BY <2>1, <2>2 DEF Announced
  <1> HIDE DEF n
  <1> DEFINE b == Line("LevelEnter")
  <1>5. b.event = "LevelEnter" /\ b.map = Map
    BY <1>1, LineType DEF Run!Kinds
  <1> DEFINE c == Line("RunStart")
  <1>05. c.event = "RunStart"
    BY <1>1, LineType DEF Run!Kinds
  <1>6. /\ DOMAIN log = 1..(n + Len(new))
        /\ \A i \in DOMAIN emitted : i \in DOMAIN log /\ log[i] = emitted[i]
        /\ \A i \in DOMAIN new : n + i \in DOMAIN log /\ log[n + i] = new[i]
        /\ \A i \in DOMAIN log :
              i \in DOMAIN emitted
                \/ (i > n /\ i - n \in DOMAIN new /\ log[i] = new[i - n] /\ log[i].map = Map)
    BY <1>3
  <1>0. new = <<b>> => new[1] = b /\ 1 \in DOMAIN new
    OBVIOUS
  <1>00. new = <<c, b>> => new[1] = c /\ new[2] = b /\ 1 \in DOMAIN new /\ 2 \in DOMAIN new
    OBVIOUS
  <1> HIDE DEF b, c
  \* The new lines are announced, by themselves if by none before.
  <1>7. ASSUME new # <<>>, NEW i \in DOMAIN log, i > n, log[i].event # "RunStart"
        PROVE  Announced(log, Map, i)
    <2>0. i \in Int /\ n \in Int /\ i >= n + 1
      BY <1>3, <1>6, <1>7
    <2>1. CASE phase = "InMap"
      <3>1. Announced(emitted, Map, n)
        BY <1>1, <2>1 DEF AnnouncedFirst, n
      <3> QED BY <1>4, <1>7, <2>0, <3>1
    <2>2. CASE runStarted /\ new = <<b>>
      <3>1. n + 1 \in DOMAIN log /\ log[n + 1] = b /\ n + 1 <= i
        BY <1>0, <1>6, <2>0, <2>2
      <3> QED BY <1>5, <3>1 DEF Announced
    <2>3. CASE ~runStarted /\ new = <<c, b>>
      <3>1. log[n + 1] = c /\ n + 2 \in DOMAIN log /\ log[n + 2] = b
        BY <1>00, <1>6, <2>3
      <3>2. i # n + 1
        BY <1>05, <1>7, <3>1
      <3>3. n + 2 <= i
        BY <2>0, <3>2
      <3> QED BY <1>5, <3>1, <3>3 DEF Announced
    <2> QED BY <1>1, <1>7, <2>1, <2>2, <2>3 DEF Announces, b, c
  <1>8. ASSUME NEW i \in DOMAIN log, log[i].event # "RunStart"
        PROVE  Announced(log, log[i].map, i)
    <2>0. i \in Int
      BY <1>6, <1>3
    <2>1. CASE i \in DOMAIN emitted
      <3>1. Announced(emitted, emitted[i].map, i) /\ log[i] = emitted[i]
        BY <1>1, <1>6, <1>8, <2>1 DEF AnnouncedFirst
      <3> QED BY <1>4, <2>0, <3>1
    <2>2. CASE i > n /\ i - n \in DOMAIN new /\ log[i].map = Map
      <3>1. new # <<>>
        BY <2>2
      <3> QED BY <1>7, <1>8, <2>2, <3>1
    <2> QED BY <1>6, <2>1, <2>2
  <1>9. runStarted' = FALSE => log = <<>>
    <2> SUFFICES ASSUME runStarted' = FALSE PROVE log = <<>>
      OBVIOUS
    <2>1. new = <<>> /\ ~runStarted
      BY <1>1 DEF Moves
    <2>2. emitted = <<>> /\ log = emitted \o new
      BY <1>1, <2>1 DEF AnnouncedFirst, Adds
    <2> QED BY <2>1, <2>2
  <1>10. phase' = "InMap" => runStarted' /\ Announced(log, Map', Len(log))
    <2> SUFFICES ASSUME phase' = "InMap" PROVE runStarted' /\ Announced(log, Map', Len(log))
      OBVIOUS
    <2>1. runStarted' /\ Map' = Map /\ (phase = "InMap" \/ new # <<>>)
      BY <1>1 DEF Moves, Announces, Map
    <2>2. Len(log) = n + Len(new) /\ n \in Nat /\ Len(new) \in Nat
      BY <1>3
    <2>3. CASE phase = "InMap"
      <3>1. Announced(emitted, Map, n)
        BY <1>1, <2>3 DEF AnnouncedFirst, n
      <3>2. n \in Int /\ Len(log) \in Int /\ n <= Len(log)
        BY <2>2
      <3> QED BY <1>4, <2>1, <3>1, <3>2
    <2>4. CASE phase # "InMap" /\ new = <<b>>
      <3>1. n + 1 \in DOMAIN log /\ log[n + 1] = b /\ n + 1 <= Len(log)
        BY <1>0, <1>6, <2>2, <2>4
      <3> QED BY <1>5, <2>1, <3>1 DEF Announced
    <2>5. CASE phase # "InMap" /\ new = <<c, b>>
      <3>1. n + 2 \in DOMAIN log /\ log[n + 2] = b /\ n + 2 <= Len(log)
        BY <1>00, <1>6, <2>2, <2>5
      <3> QED BY <1>5, <2>1, <3>1 DEF Announced
    <2> QED BY <1>1, <2>1, <2>3, <2>4, <2>5 DEF Announces, b, c
  <1>11. runStarted' \in BOOLEAN
    BY DEF EngineTypes
  <1> QED BY <1>8, <1>9, <1>10, <1>11 DEF AnnouncedFirst

LEMMA ClosedKept ==
    ASSUME EngineInv, NEW new, Writes(new), EngineTypes'
    PROVE  ClosedOnce'
  <1>1. EngineTypes /\ Ordered /\ AnnouncedFirst /\ ClosedOnce /\ Adds(new) /\ Moves(new) /\ Closes(new)
    BY DEF EngineInv, Writes
  <1>2. emitted \in Seq(Lines)
    BY <1>1 DEF EngineTypes
  <1> DEFINE n == Len(emitted)
             log == emitted'
  <1>3. /\ n \in Nat /\ DOMAIN emitted = 1..n
        /\ \A i \in DOMAIN emitted : i \in DOMAIN log /\ log[i] = emitted[i]
        /\ \A i \in DOMAIN log :
              i \in DOMAIN emitted
                \/ (i > n /\ i - n \in DOMAIN new /\ log[i] = new[i - n] /\ log[i].map = Map)
        /\ \A i \in DOMAIN log : i \in Nat
    BY <1>1, <1>2, Grown, LineOf
  <1>4. Pos(Map) = at /\ at \in Nat /\ Pos(Map') = at' /\ at' \in {at, at + 1}
    BY <1>1, Positions DEF Map, EngineTypes, Moves
  <1>5. ASSUME at' = at + 1, NEW i \in DOMAIN log PROVE log[i].map # Map'
    <2>1. Pos(log[i].map) <= at /\ Pos(log[i].map) \in Nat
      <3>1. CASE i \in DOMAIN emitted
        BY <1>1, <1>2, <1>3, <3>1, LineOf, PosNat DEF Ordered
      <3>2. CASE log[i].map = Map
        BY <1>4, <3>2
      <3> QED BY <1>3, <3>1, <3>2
    <2> QED BY <1>4, <1>5, <2>1
  <1> HIDE DEF n
  \* A new closing line is the only one of its map.
  <1>6. ASSUME NEW i \in DOMAIN log, NEW j \in DOMAIN log, Closing(log[i]), Closing(log[j]),
               log[i].map = log[j].map
        PROVE  i = j
    <2>1. CASE \A k \in DOMAIN new : ~Closing(new[k])
      <3>1. i \in DOMAIN emitted /\ j \in DOMAIN emitted
        BY <1>3, <1>6, <2>1
      <3> QED BY <1>1, <1>3, <1>6, <3>1 DEF ClosedOnce
    <2>2. CASE /\ phase = "InMap" /\ ~playerDead
               /\ \A k \in DOMAIN new : Closing(new[k]) <=> k = 1
      <3>1. \A k \in DOMAIN emitted : ~(Closing(emitted[k]) /\ emitted[k].map = Map)
        BY <1>1, <2>2 DEF ClosedOnce
      <3>2. ASSUME NEW k \in DOMAIN log, Closing(log[k]), k \notin DOMAIN emitted
            PROVE  k - n = 1 /\ log[k].map = Map
        BY <1>3, <2>2, <3>2
      <3>3. CASE i \in DOMAIN emitted /\ j \in DOMAIN emitted
        BY <1>1, <1>3, <1>6, <3>3 DEF ClosedOnce
      <3>4. CASE i \in DOMAIN emitted /\ j \notin DOMAIN emitted
        BY <1>3, <1>6, <3>1, <3>2, <3>4
      <3>5. CASE i \notin DOMAIN emitted /\ j \in DOMAIN emitted
        BY <1>3, <1>6, <3>1, <3>2, <3>5
      <3>6. CASE i \notin DOMAIN emitted /\ j \notin DOMAIN emitted
        <4>1. i - n = 1 /\ j - n = 1
          BY <1>6, <3>2, <3>6
        <4> QED BY <1>3, <4>1
      <3> QED BY <3>3, <3>4, <3>5, <3>6
    <2> QED BY <1>1, <2>1, <2>2 DEF Closes
  <1>7. ASSUME phase' \in {"InMap", "Loading"}, ~playerDead', NEW i \in DOMAIN log,
               Closing(log[i]), log[i].map = Map'
        PROVE  FALSE
    <2>1. at' = at /\ Map' = Map
      BY <1>4, <1>5, <1>7 DEF Map
    <2>2. /\ \A k \in DOMAIN new : ~Closing(new[k])
          /\ ~runStarted \/ (phase \in {"InMap", "Loading"} /\ ~playerDead)
      BY <1>1, <1>7, <2>1 DEF Closes
    <2>3. i \in DOMAIN emitted
      BY <1>3, <1>7, <2>2
    <2>4. CASE ~runStarted
      BY <1>1, <2>3, <2>4 DEF AnnouncedFirst
    <2>5. CASE phase \in {"InMap", "Loading"} /\ ~playerDead
      BY <1>1, <1>3, <1>7, <2>1, <2>3, <2>5 DEF ClosedOnce
    <2> QED BY <2>2, <2>4, <2>5
  <1> QED BY <1>6, <1>7 DEF ClosedOnce

\* The engine's part of the invariant.
LEMMA EngineInvKept ==
    ASSUME EngineInv, NEW new, Writes(new), EngineTypes'
    PROVE  EngineInv'
  BY OrderedKept, AnnouncedKept, ClosedKept DEF EngineInv

LEMMA ExitsKept ==
    ASSUME EngineInv, ExitsAreLeft, NEW new, Writes(new), EngineTypes',
           terminal' = terminal,
           phase' = "Exited" => new = <<>> \/ terminal # "None" \/ MayAbandon
    PROVE  ExitsAreLeft'
  <1> SUFFICES ASSUME ~MayAbandon, terminal' = "None", NEW i \in DOMAIN emitted',
                      emitted'[i].event = "LevelComplete"
               PROVE  emitted'[i].map \in exits'
    BY DEF ExitsAreLeft
  <1>1. EngineTypes /\ Adds(new) /\ Leaves(new) /\ emitted \in Seq(Lines)
    BY DEF EngineInv, EngineTypes, Writes
  <1> DEFINE n == Len(emitted)
             log == emitted'
  <1>2. /\ \A k \in DOMAIN emitted : log[k] = emitted[k]
        /\ \A k \in DOMAIN log :
              k \in DOMAIN emitted
                \/ (k - n \in DOMAIN new /\ log[k] = new[k - n] /\ log[k].map = Map)
    BY <1>1, Grown
  <1> HIDE DEF n
  <1>3. CASE i \in DOMAIN emitted
    BY <1>1, <1>2, <1>3 DEF ExitsAreLeft, Leaves
  <1>4. CASE i - n \in DOMAIN new /\ log[i] = new[i - n] /\ log[i].map = Map
    <2>1. phase' # "Exited"
      BY <1>4
    <2>2. new[i - n].event = "LevelComplete"
      BY <1>4
    <2> QED BY <1>1, <1>4, <2>1, <2>2 DEF Leaves
  <1> QED BY <1>2, <1>3, <1>4

-----------------------------------------------------------------------------
\* What the state machine does with a line: it drops it, or keeps, rewrites or appends an
\* entry of the line's map, with counters of the line, of the open entry, or zero.
OpenOn(m) == open /\ maps # <<>> /\ Run!Last.map = m

From(ev, e) ==
    /\ e.map = ev.map
    /\ e.completed = (ev.event = "LevelComplete")
    /\ e.completed => e.stats = ev.stats
    /\ e.stats.kills \in {0, ev.stats.kills} \/ (OpenOn(ev.map) /\ e.stats.kills = Run!Last.stats.kills)
    /\ e.stats.items \in {0, ev.stats.items} \/ (OpenOn(ev.map) /\ e.stats.items = Run!Last.stats.items)

Rewrites(ev, e) == OpenOn(ev.map) /\ maps' = [maps EXCEPT ![Len(maps)] = e]
Appends(ev, e) ==
    /\ ~OpenOn(ev.map)
    /\ ~Run!Recorded(ev.map) \/ ev.event = "PlayerDied"
    /\ maps' = Append(maps, e)

Keeps(ev) ==
    /\ maps' = maps
    /\ open' = open \/ (open' = FALSE /\ terminal' # "None")
    /\ ev.event = "LevelEnter" => Run!Recorded(ev.map)

Records(ev, e) ==
    /\ ev.event # "RunStart"
    /\ From(ev, e)
    /\ Rewrites(ev, e) \/ Appends(ev, e)
    /\ terminal' = "None" => (open' <=> ~e.completed)
    /\ terminal' # "None" => ~open'

Handles(ev) ==
    /\ terminal = "None"
    /\ terminal' \in {"None", "Death", "Complete", "Quit"}
    /\ open' \in BOOLEAN /\ run_started' \in BOOLEAN
    /\ terminal' = "None" => ~Ends(ev)
    /\ Keeps(ev) \/ \E e \in Entries : Records(ev, e)

Ignores == UNCHANGED <<maps, open, run_started, terminal>>

LEMMA EntryMade ==
    ASSUME NEW m \in MapNames, NEW s \in Counts, NEW c \in BOOLEAN
    PROVE  /\ Run!Entry(m, s, c) \in Entries
           /\ Run!Entry(m, s, c).map = m /\ Run!Entry(m, s, c).stats = s
           /\ Run!Entry(m, s, c).completed = c
  BY DEF Run!Entry, Entries

LEMMA ZeroCounts == Run!ZeroStats \in Counts /\ Run!ZeroStats.kills = 0 /\ Run!ZeroStats.items = 0
  BY Numbers DEF Run!ZeroStats, Counts

LEMMA LastOf ==
    ASSUME maps \in Seq(Entries), maps # <<>>
    PROVE  /\ Len(maps) \in DOMAIN maps /\ Len(maps) \in Nat /\ Len(maps) >= 1
           /\ Run!Last = maps[Len(maps)] /\ Run!Last \in Entries
           /\ Run!Last.stats \in Counts /\ Run!Last.map \in MapNames
  <1> DEFINE T == Entries
  <1>1. maps \in Seq(T)
    OBVIOUS
  <1>2. \A e \in T : e.stats \in Counts /\ e.map \in MapNames
    BY DEF Entries
  <1> HIDE DEF T
  <1>3. Len(maps) \in Nat /\ DOMAIN maps = 1..Len(maps) /\ Len(maps) # 0
    BY <1>1, EmptySeq
  <1>4. Len(maps) \in DOMAIN maps /\ maps[Len(maps)] \in T
    BY <1>1, <1>3
  <1> QED BY <1>2, <1>3, <1>4 DEF Run!Last, T

LEMMA LineApplied ==
    ASSUME RunTypes, NEW ev \in Lines, Run!ApplyEvent(ev)
    PROVE  (terminal # "None" /\ Ignores) \/ Handles(ev)
  <1>1. /\ ev.session = Session /\ ev.map \in MapNames /\ ev.stats \in Counts
        /\ ev.stats.kills \in 0..Monsters /\ ev.stats.items \in 0..Items
        /\ ev.stats.tics \in 0..MaxTics
    BY DEF Lines, Counts
  <1>2. /\ maps \in Seq(Entries) /\ open \in BOOLEAN /\ run_started \in BOOLEAN
        /\ terminal \in {"None", "Death", "Complete", "Quit"}
    BY DEF RunTypes
  <1>3. \A m : Run!OpenOn(m) <=> OpenOn(m)
    BY DEF Run!OpenOn, OpenOn
  <1>4. OpenOn(ev.map) => Run!Last.stats \in Counts
    BY <1>2, LastOf DEF OpenOn
  <1>5. CASE Run!Foreign(ev)
    BY <1>1, <1>5 DEF Run!Foreign
  <1>6. CASE Run!AfterEnd(ev)
    BY <1>6 DEF Run!AfterEnd, Run!Drop, Run!state, Ignores
  \* Dropped before the run is over.
  <1>7. ASSUME terminal = "None", Ignores, ~Ends(ev),
               ev.event = "LevelEnter" => Run!Recorded(ev.map)
        PROVE  Handles(ev)
    BY <1>2, <1>7 DEF Handles, Keeps, Ignores
  <1>8. CASE Run!RunStart(ev)
    <2>1. terminal = "None" /\ ev.event = "RunStart" /\ ~Ends(ev) /\ terminal' = "None"
          /\ run_started' \in BOOLEAN /\ maps' = maps /\ open' = open
      BY <1>2, <1>8 DEF Run!RunStart, Run!Live, Run!Drop, Run!Applied, Run!state, Ends
    <2> QED BY <1>2, <2>1 DEF Handles, Keeps
  <1>9. CASE Run!LevelEnter(ev)
    <2>1. terminal = "None" /\ ev.event = "LevelEnter" /\ ~Ends(ev) /\ ev.event # "LevelComplete"
      BY <1>9 DEF Run!LevelEnter, Run!Live, Ends
    <2>2. CASE Run!Recorded(ev.map) /\ Ignores
      BY <1>7, <2>1, <2>2
    <2>3. CASE ~Run!Recorded(ev.map)
      <3> DEFINE e == Run!Entry(ev.map, Run!ZeroStats, FALSE)
      <3>1. e \in Entries /\ e.map = ev.map /\ e.stats = Run!ZeroStats /\ e.completed = FALSE
        <4>1. ev.map \in MapNames /\ Run!ZeroStats \in Counts
          BY <1>1, ZeroCounts
        <4> QED BY <4>1, EntryMade
      <3>2. maps' = Append(maps, e) /\ open' = TRUE /\ terminal' = "None"
            /\ run_started' = run_started
        BY <1>9, <2>3 DEF Run!LevelEnter, Run!Push, Run!Applied
      <3> HIDE DEF e
      <3>3. ~OpenOn(ev.map)
        BY <1>2, <2>3, LastOf DEF OpenOn, Run!Recorded
      <3>4. From(ev, e)
        BY <2>1, <3>1, ZeroCounts DEF From
      <3>5. Records(ev, e)
        BY <2>1, <2>3, <3>1, <3>2, <3>3, <3>4 DEF Records, Appends
      <3> QED BY <1>2, <2>1, <3>1, <3>2, <3>5 DEF Handles
    <2> QED BY <1>9, <2>2, <2>3 DEF Run!LevelEnter, Run!Drop, Run!state, Ignores
  <1>10. CASE Run!LevelComplete(ev)
    <2>1. terminal = "None" /\ ev.event = "LevelComplete" /\ ~Ends(ev)
      BY <1>10 DEF Run!LevelComplete, Run!Live, Ends
    <2>2. CASE Ignores
      BY <1>7, <2>1, <2>2
    <2>3. CASE ~Ignores
      <3> DEFINE e == Run!Entry(ev.map, ev.stats, TRUE)
      <3>1. e \in Entries /\ e.map = ev.map /\ e.stats = ev.stats /\ e.completed = TRUE
        <4>1. ev.map \in MapNames /\ ev.stats \in Counts
          BY <1>1
        <4> QED BY <4>1 DEF Run!Entry, Entries
      <3>2. /\ \/ Run!OpenOn(ev.map) /\ maps' = [maps EXCEPT ![Len(maps)] = e]
               \/ ~open /\ ~Run!Recorded(ev.map) /\ maps' = Append(maps, e)
            /\ open' = FALSE /\ terminal' = "None" /\ run_started' = run_started
        BY <1>10, <2>3 DEF Run!LevelComplete, Run!Push, Run!ReplaceLast, Run!Applied, Run!Drop,
                           Run!state, Ignores
      <3> HIDE DEF e
      <3>3. From(ev, e)
        BY <2>1, <3>1 DEF From
      <3>4. Rewrites(ev, e) \/ Appends(ev, e)
        BY <1>3, <3>2 DEF Rewrites, Appends, OpenOn
      <3>5. Records(ev, e)
        BY <2>1, <3>1, <3>2, <3>3, <3>4 DEF Records
      <3> QED BY <1>2, <2>1, <3>1, <3>2, <3>5 DEF Handles
    <2> QED BY <2>2, <2>3
  <1>11. CASE Run!PlayerDied(ev)
    <2>1. /\ terminal = "None" /\ ev.event = "PlayerDied" /\ ev.event # "LevelComplete"
          /\ ev.event # "LevelEnter"
          /\ terminal' = "Death" /\ open' = FALSE /\ run_started' = run_started
      BY <1>11 DEF Run!PlayerDied, Run!Live, Run!Applied
    <2> DEFINE base == IF OpenOn(ev.map) THEN Run!Last.stats ELSE Run!ZeroStats
               k == ev.stats.kills
               t == ev.stats.tics
               s == [base EXCEPT !.kills = k, !.tics = t]
               e == Run!Entry(ev.map, s, FALSE)
    <2>2. base \in Counts
      BY <1>4, ZeroCounts
    <2>3. /\ OpenOn(ev.map) => maps' = [maps EXCEPT ![Len(maps)] = e]
          /\ ~OpenOn(ev.map) => maps' = Append(maps, e)
      BY <1>3, <1>11 DEF Run!PlayerDied, Run!Push, Run!ReplaceLast
    <2>4. base.items = 0 \/ (OpenOn(ev.map) /\ base.items = Run!Last.stats.items)
      BY ZeroCounts
    <2>0. k \in 0..Monsters /\ t \in 0..MaxTics /\ k = ev.stats.kills
      BY <1>1
    <2> HIDE DEF base, k, t
    <2>5. s \in Counts /\ s.kills = k /\ s.items = base.items
      <3>1. s \in Counts
        BY <2>0, <2>2, Patched
      <3>2. s.kills = k
        BY <2>0, <2>2 DEF Counts
      <3>3. s.items = base.items
        BY <2>0, <2>2 DEF Counts
      <3> QED BY <3>1, <3>2, <3>3
    <2> HIDE DEF s
    <2>6. e \in Entries /\ e.map = ev.map /\ e.stats = s /\ e.completed = FALSE
      <3>1. ev.map \in MapNames /\ s \in Counts
        BY <1>1, <2>5
      <3> QED BY <3>1, EntryMade
    <2> HIDE DEF e
    <2>7. From(ev, e)
      BY <2>0, <2>1, <2>4, <2>5, <2>6 DEF From
    <2>8. Records(ev, e)
      BY <2>1, <2>3, <2>7 DEF Records, Rewrites, Appends
    <2> QED BY <1>2, <2>1, <2>6, <2>8 DEF Handles
  <1>12. CASE Run!RunComplete(ev)
    <2>1. /\ terminal = "None" /\ ev.event = "RunComplete" /\ ev.event # "LevelEnter"
          /\ terminal' = "Complete" /\ open' = FALSE /\ run_started' = run_started /\ maps' = maps
      BY <1>12 DEF Run!RunComplete, Run!Live, Run!Applied
    <2> QED BY <1>2, <2>1 DEF Handles, Keeps
  <1>13. CASE Run!Progress(ev)
    <2>1. terminal = "None" /\ ev.event = "Progress" /\ ~Ends(ev) /\ ev.event # "LevelEnter"
          /\ ev.event # "LevelComplete"
      BY <1>13 DEF Run!Progress, Run!Live, Ends
    <2>2. CASE Ignores
      BY <1>7, <2>1, <2>2
    <2>3. CASE ~Ignores
      <3> DEFINE e == Run!Entry(ev.map, ev.stats, FALSE)
      <3>1. e \in Entries /\ e.map = ev.map /\ e.stats = ev.stats /\ e.completed = FALSE
        <4>1. ev.map \in MapNames /\ ev.stats \in Counts
          BY <1>1
        <4> QED BY <4>1 DEF Run!Entry, Entries
      <3>2. /\ \/ Run!OpenOn(ev.map) /\ maps' = [maps EXCEPT ![Len(maps)] = e]
               \/ ~Run!OpenOn(ev.map) /\ ~Run!Recorded(ev.map) /\ maps' = Append(maps, e)
            /\ open' = TRUE /\ terminal' = "None" /\ run_started' = run_started
        BY <1>13, <2>3 DEF Run!Progress, Run!Push, Run!ReplaceLast, Run!Applied, Run!Drop,
                           Run!state, Ignores
      <3> HIDE DEF e
      <3>3. From(ev, e)
        BY <2>1, <3>1 DEF From
      <3>4. Rewrites(ev, e) \/ Appends(ev, e)
        BY <1>3, <3>2 DEF Rewrites, Appends
      <3>5. Records(ev, e)
        BY <2>1, <3>1, <3>2, <3>3, <3>4 DEF Records
      <3> QED BY <1>2, <2>1, <3>1, <3>2, <3>5 DEF Handles
    <2> QED BY <2>2, <2>3
  <1>14. CASE Run!RunQuit(ev)
    <2>1. /\ terminal = "None" /\ ev.event = "RunQuit" /\ ev.event # "LevelEnter"
          /\ ev.event # "LevelComplete"
          /\ terminal' = "Quit" /\ open' = FALSE /\ run_started' = run_started
      BY <1>14 DEF Run!RunQuit, Run!Live, Run!Applied
    <2>2. CASE OpenOn(ev.map)
      <3> DEFINE s == [Run!Last.stats EXCEPT !.tics = Run!QuitTics(ev)]
                 e == Run!Entry(ev.map, s, FALSE)
      <3>1. Run!QuitTics(ev) \in 0..MaxTics
        BY <1>1, <1>4, <2>2 DEF Run!QuitTics, Counts
      <3>2. maps' = [maps EXCEPT ![Len(maps)] = e]
        BY <1>3, <1>14, <2>2 DEF Run!RunQuit, Run!ReplaceLast
      <3>3. s \in Counts /\ s.kills = Run!Last.stats.kills /\ s.items = Run!Last.stats.items
        BY <1>1, <1>4, <2>2, <3>1, Patched
      <3> HIDE DEF s
      <3>4. e \in Entries /\ e.map = ev.map /\ e.stats = s /\ e.completed = FALSE
        <4>1. ev.map \in MapNames /\ s \in Counts
          BY <1>1, <3>3
        <4> QED BY <4>1, EntryMade
      <3> HIDE DEF e
      <3>5. From(ev, e)
        BY <2>1, <2>2, <3>3, <3>4 DEF From
      <3>6. Records(ev, e)
        BY <2>1, <2>2, <3>2, <3>5 DEF Records, Rewrites
      <3> QED BY <1>2, <2>1, <3>4, <3>6 DEF Handles
    <2>3. CASE ~OpenOn(ev.map) /\ Run!Recorded(ev.map)
      <3>1. maps' = maps
        BY <1>3, <1>14, <2>3 DEF Run!RunQuit
      <3> QED BY <1>2, <2>1, <3>1 DEF Handles, Keeps
    <2>4. CASE ~OpenOn(ev.map) /\ ~Run!Recorded(ev.map)
      <3> DEFINE s == [Run!ZeroStats EXCEPT !.tics = ev.stats.tics]
                 e == Run!Entry(ev.map, s, FALSE)
      <3>1. maps' = Append(maps, e)
        BY <1>3, <1>14, <2>4 DEF Run!RunQuit, Run!Push
      <3>2. s \in Counts /\ s.kills = 0 /\ s.items = 0
        BY <1>1, ZeroCounts, Patched
      <3> HIDE DEF s
      <3>3. e \in Entries /\ e.map = ev.map /\ e.stats = s /\ e.completed = FALSE
        <4>1. ev.map \in MapNames /\ s \in Counts
          BY <1>1, <3>2
        <4> QED BY <4>1, EntryMade
      <3> HIDE DEF e
      <3>4. From(ev, e)
        BY <2>1, <3>2, <3>3 DEF From
      <3>5. Records(ev, e)
        BY <2>1, <2>4, <3>1, <3>4 DEF Records, Appends
      <3> QED BY <1>2, <2>1, <3>3, <3>5 DEF Handles
    <2> QED BY <2>2, <2>3, <2>4
  <1> QED BY <1>5, <1>6, <1>8, <1>9, <1>10, <1>11, <1>12, <1>13, <1>14 DEF Run!ApplyEvent

-----------------------------------------------------------------------------
\* What an entry rests on stays when the engine writes.
LEMMA SourcedStands ==
    ASSUME emitted \in Seq(Lines), NEW new, Adds(new), exits \subseteq exits',
           NEW e, Sourced(e)
    PROVE  Sourced(e)'
  <1>1. \A i \in DOMAIN emitted : i \in DOMAIN emitted' /\ emitted'[i] = emitted[i]
    BY Grown
  <1>2. KillsShown(e)'
    <2>1. PICK i \in DOMAIN emitted : emitted[i].map = e.map /\ e.stats.kills <= emitted[i].stats.kills
      BY DEF Sourced, KillsShown
    <2> QED BY <1>1, <2>1 DEF KillsShown
  <1>3. ItemsShown(e)'
    <2>1. PICK i \in DOMAIN emitted : emitted[i].map = e.map /\ e.stats.items <= emitted[i].stats.items
      BY DEF Sourced, ItemsShown
    <2> QED BY <1>1, <2>1 DEF ItemsShown
  <1>4. ASSUME e.completed PROVE \E i \in DOMAIN emitted' : Backs(emitted[i], e)'
    <2>1. PICK i \in DOMAIN emitted : Backs(emitted[i], e)
      BY <1>4 DEF Sourced
    <2>2. i \in DOMAIN emitted' /\ Backs(emitted[i], e)'
      BY <1>1, <2>1 DEF Backs
    <2> QED BY <2>2
  <1> QED BY <1>2, <1>3, <1>4 DEF Sourced

\* An entry's map has a line, so that it lies no farther than the engine is.
LEMMA EntryBehind ==
    ASSUME EngineInv, maps \in Seq(Entries), AllSourced, NEW n \in DOMAIN maps
    PROVE  /\ maps[n] \in Entries /\ maps[n].map \in MapNames
           /\ Pos(maps[n].map) \in Nat /\ Pos(maps[n].map) <= at
  <1> DEFINE T == Entries
  <1>1. \A e \in T : e.map \in MapNames
    BY DEF Entries
  <1>2. maps \in Seq(T)
    OBVIOUS
  <1> HIDE DEF T
  <1>3. maps[n] \in T
    BY <1>2
  <1>4. PICK i \in DOMAIN emitted : emitted[i].map = maps[n].map
    BY DEF AllSourced, Sourced, KillsShown
  <1>5. Pos(emitted[i].map) <= at
    BY DEF EngineInv, Ordered
  <1> QED BY <1>1, <1>3, <1>4, <1>5, PosNat DEF T

LEMMA WritesKeep ==
    ASSUME IInv, NEW new, Writes(new), EngineTypes', phase # "Exited",
           UNCHANGED <<transport, rvars>>,
           phase' = "Exited" => new = <<>> \/ terminal # "None" \/ MayAbandon
    PROVE  IInv'
  <1>1. /\ EngineInv /\ EngineTypes /\ RunTypes /\ AllSourced /\ InOrder /\ LastClosed /\ Placed
        /\ ExitsAreLeft /\ Adds(new) /\ exits \subseteq exits'
        /\ emitted \in Seq(Lines)
    BY DEF IInv, EngineInv, RunInv, EngineTypes, Writes, Leaves
  <1>2. /\ maps' = maps /\ open' = open /\ run_started' = run_started /\ terminal' = terminal
        /\ fifo' = fifo /\ stdout' = stdout /\ fifoLatched' = fifoLatched
        /\ stdoutLost' = stdoutLost
    BY DEF transport, rvars
  <1>3. EngineInv'
    BY <1>1, EngineInvKept
  <1>4. ExitsAreLeft'
    BY <1>1, <1>2, ExitsKept
  <1>5. /\ Len(emitted) \in Nat /\ DOMAIN emitted = 1..Len(emitted)
        /\ Len(new) \in Nat /\ Len(emitted') = Len(emitted) + Len(new)
        /\ DOMAIN emitted' = 1..Len(emitted')
        /\ \A i \in DOMAIN emitted : i \in DOMAIN emitted' /\ emitted'[i] = emitted[i]
        /\ \A i \in DOMAIN emitted' :
              i \in DOMAIN emitted \/ (i > Len(emitted) /\ emitted'[i].map = Map)
    BY <1>1, Grown, LineOf
  <1>6. RunTypes'
    <2>1. fifo' \in 0..Len(emitted') /\ stdout' \in 0..Len(emitted')
      BY <1>1, <1>2, <1>5 DEF RunTypes
    <2>2. ~(stdoutLost /\ ~fifoLatched)
      BY <1>1 DEF RunTypes
    <2> QED BY <1>1, <1>2, <2>1, <2>2 DEF RunTypes
  <1>7. AllSourced'
    <2> SUFFICES ASSUME NEW n \in DOMAIN maps PROVE Sourced(maps[n])'
      BY <1>2 DEF AllSourced
    <2> DEFINE e == maps[n]
    <2>1. Sourced(e)
      BY <1>1 DEF AllSourced
    <2>2. maps'[n] = e
      BY <1>2
    <2>3. \A c : Sourced(c) => Sourced(c)'
      BY <1>1, SourcedStands
    <2> HIDE DEF e
    <2> QED BY <2>1, <2>2, <2>3 DEF Sourced, KillsShown, ItemsShown, Backs
  <1>8. InOrder'
    BY <1>1, <1>2 DEF InOrder
  <1>9. LastClosed'
    BY <1>1, <1>2 DEF LastClosed, Run!Last
  <1>10. Pos(Map) = at /\ Map \in MapNames
    BY <1>1, Positions DEF Map, EngineTypes
  <1>11. ASSUME NEW k \in Nat, Ahead(k) PROVE Ahead(k)'
    <2> SUFFICES ASSUME NEW i \in DOMAIN emitted', i > k PROVE AheadAt(i)'
      BY DEF Ahead
    <2>1. CASE i \in DOMAIN emitted
      <3>1. AheadAt(i) /\ emitted'[i] = emitted[i]
        BY <1>5, <1>11, <2>1 DEF Ahead
      <3> QED BY <1>2, <3>1 DEF AheadAt, Run!Recorded
    <2>2. CASE emitted'[i].map = Map
      <3>1. \A n \in DOMAIN maps : /\ maps[n].map \in MapNames
                                   /\ Pos(maps[n].map) \in Nat /\ Pos(maps[n].map) <= at
        BY <1>1, EntryBehind DEF RunTypes
      <3>2. \A n \in DOMAIN maps : maps[n].map # Map => Pos(maps[n].map) # at
        BY <1>10, <3>1, Positions
      <3>3. at \in Nat
        BY <1>10, PosNat
      <3>4. (\E n \in DOMAIN maps : maps[n].map = Map) \/ \A n \in DOMAIN maps : Pos(maps[n].map) < Pos(Map)
        BY <1>10, <3>1, <3>2, <3>3
      <3> QED BY <1>2, <1>10, <2>2, <3>1, <3>4 DEF AheadAt, Run!Recorded
    <2> QED BY <1>5, <2>1, <2>2
  <1>12. ASSUME NEW r \in 0..Len(emitted), Replay(r) PROVE Replay(r)'
    <2>1. \A i \in DOMAIN emitted' : i <= r => i \in DOMAIN emitted /\ emitted'[i] = emitted[i]
      BY <1>5
    <2>2. \A i \in DOMAIN emitted' : i <= r =>
             /\ ~Ends(emitted'[i])
             /\ emitted'[i].event = "LevelEnter" => Run!Recorded(emitted[i].map)'
      BY <1>2, <1>12, <2>1 DEF Replay, Run!Recorded
    <2>3. \A n \in DOMAIN maps : \E i \in DOMAIN emitted' : i <= r /\ emitted'[i].map = maps[n].map
      <3> SUFFICES ASSUME NEW n \in DOMAIN maps
                   PROVE  \E i \in DOMAIN emitted' : i <= r /\ emitted'[i].map = maps[n].map
        OBVIOUS
      <3>1. PICK i \in DOMAIN emitted : i <= r /\ emitted[i].map = maps[n].map
        BY <1>12 DEF Replay
      <3> QED BY <1>5, <3>1
    <2> QED BY <1>2, <2>2, <2>3 DEF Replay
  <1>13. Placed'
    <2>1. fifo \in Nat /\ 0 \in Nat /\ stdout \in 0..Len(emitted)
      BY <1>1, <1>5 DEF RunTypes
    <2>2. Ahead(fifo) => Ahead(fifo)'
      <3>1. \A k \in Nat : Ahead(k) => Ahead(k)'
        BY <1>11
      <3> QED BY <1>2, <2>1, <3>1 DEF Ahead
    <2>3. Ahead(0) => Ahead(0)'
      BY <1>11
    <2>4. Replay(stdout) => Replay(stdout)'
      <3>1. \A r \in 0..Len(emitted) : Replay(r) => Replay(r)'
        BY <1>12
      <3> QED BY <1>2, <2>1, <3>1 DEF Replay
    <2> QED BY <1>1, <1>2, <2>2, <2>3, <2>4 DEF Placed
  <1> QED BY <1>3, <1>4, <1>6, <1>7, <1>8, <1>9, <1>13 DEF IInv, RunInv

-----------------------------------------------------------------------------
\* The list after an entry was recorded: it ends with that entry, and the maps it held
\* it still holds.
LEMMA ListAfter ==
    ASSUME maps \in Seq(Entries), NEW ev, NEW e \in Entries, Records(ev, e)
    PROVE  /\ maps' \in Seq(Entries) /\ maps' # <<>> /\ maps'[Len(maps')] = e
           /\ Len(maps) \in Nat /\ DOMAIN maps = 1..Len(maps)
           /\ Len(maps') \in Nat /\ DOMAIN maps' = 1..Len(maps') /\ Len(maps') \in DOMAIN maps'
           /\ Len(maps') = IF OpenOn(ev.map) THEN Len(maps) ELSE Len(maps) + 1
           /\ \A n \in DOMAIN maps' : n # Len(maps') => n \in DOMAIN maps /\ maps'[n] = maps[n]
           /\ \A n \in DOMAIN maps : n \in DOMAIN maps' /\ maps'[n].map = maps[n].map
  <1> DEFINE T == Entries
  <1>1. maps \in Seq(T) /\ e \in T /\ e.map = ev.map
    BY DEF Records, From
  <1> HIDE DEF T
  <1>2. Len(maps) \in Nat /\ DOMAIN maps = 1..Len(maps)
    BY <1>1
  <1>3. CASE Rewrites(ev, e)
    <2>1. OpenOn(ev.map) /\ maps # <<>> /\ maps[Len(maps)].map = ev.map
          /\ maps' = [maps EXCEPT ![Len(maps)] = e]
      BY <1>3 DEF Rewrites, OpenOn, Run!Last
    <2>2. Len(maps) # 0
      BY <1>1, <2>1, EmptySeq
    <2>3. Len(maps) \in DOMAIN maps
      BY <1>2, <2>2
    <2>4. maps' \in Seq(T) /\ Len(maps') = Len(maps)
      BY <1>1, <2>1, <2>3, ExceptSeq
    <2>5. /\ DOMAIN maps' = DOMAIN maps /\ maps'[Len(maps)] = e
          /\ \A n \in DOMAIN maps : n # Len(maps) => maps'[n] = maps[n]
      BY <2>1, <2>3
    <2>6. maps' # <<>>
      BY <2>2, <2>4
    <2> QED BY <1>1, <1>2, <2>1, <2>3, <2>4, <2>5, <2>6 DEF T
  <1>4. CASE Appends(ev, e)
    <2>1. maps' = Append(maps, e) /\ ~OpenOn(ev.map)
      BY <1>4 DEF Appends
    <2>2. /\ maps' \in Seq(T) /\ Len(maps') = Len(maps) + 1
          /\ \A n \in 1..Len(maps) : maps'[n] = maps[n]
          /\ maps'[Len(maps) + 1] = e
      BY <1>1, <2>1, AppendProperties
    <2>3. /\ DOMAIN maps' = 1..(Len(maps) + 1) /\ Len(maps) + 1 \in 1..(Len(maps) + 1)
          /\ \A n \in 1..Len(maps) : n \in 1..(Len(maps) + 1)
          /\ \A n \in 1..(Len(maps) + 1) : n # Len(maps) + 1 => n \in 1..Len(maps)
      BY <1>2, <2>2
    <2>4. maps' # <<>>
      BY <1>2, <2>2
    <2> QED BY <1>2, <2>1, <2>2, <2>3, <2>4 DEF T
  <1> QED BY <1>3, <1>4 DEF Records

\* A death is never reported of a map that is recorded and closed: the map was completed
\* then, and its lines would close it twice.
LEMMA DeathFresh ==
    ASSUME EngineInv, RunInv, terminal = "None", NEW i \in DOMAIN emitted, AheadAt(i),
           emitted[i].event = "PlayerDied", ~OpenOn(emitted[i].map)
    PROVE  ~Run!Recorded(emitted[i].map)
  <1> DEFINE m == emitted[i].map
  <1> SUFFICES ASSUME Run!Recorded(m) PROVE FALSE
    OBVIOUS
  <1>1. /\ EngineTypes /\ ClosedOnce /\ RunTypes /\ AllSourced /\ InOrder /\ LastClosed
        /\ maps \in Seq(Entries) /\ open \in BOOLEAN /\ emitted \in Seq(Lines)
    BY DEF EngineInv, RunInv, RunTypes, EngineTypes
  <1>2. PICK n \in DOMAIN maps : maps[n].map = m
    BY DEF Run!Recorded
  <1>3. maps # <<>>
    BY <1>1, <1>2
  <1>4. /\ Len(maps) \in DOMAIN maps /\ Len(maps) \in Nat
        /\ Run!Last = maps[Len(maps)] /\ Run!Last.map \in MapNames
    BY <1>1, <1>3, LastOf
  <1>5. m \in MapNames
    BY <1>1, LineOf
  <1>6. Pos(Run!Last.map) <= Pos(m)
    BY <1>4 DEF AheadAt
  <1>7. n = Len(maps)
    <2>1. n \in Nat /\ n <= Len(maps)
      BY <1>1, <1>2
    <2>2. CASE n < Len(maps)
      <3>1. Pos(maps[n].map) < Pos(Run!Last.map)
        BY <1>1, <1>2, <1>4, <2>2 DEF InOrder
      <3>2. Pos(m) \in Nat /\ Pos(Run!Last.map) \in Nat
        BY <1>4, <1>5, PosNat
      <3> QED BY <1>2, <1>6, <3>1, <3>2
    <2> QED BY <1>4, <2>1, <2>2
  <1>8. Run!Last.map = m
    BY <1>2, <1>4, <1>7
  <1>9. ~open
    BY <1>3, <1>8 DEF OpenOn
  <1>10. Run!Last.completed
    BY <1>1, <1>3, <1>9 DEF LastClosed
  <1>11. PICK j \in DOMAIN emitted : Backs(emitted[j], Run!Last)
    BY <1>1, <1>4, <1>10 DEF AllSourced, Sourced
  <1>12. emitted[j].event = "LevelComplete" /\ emitted[j].map = m
    BY <1>8, <1>11 DEF Backs
  <1>13. i = j
    BY <1>1, <1>12 DEF ClosedOnce, Closing
  <1> QED BY <1>12, <1>13

\* Applying a line keeps what is said of the run.
LEMMA LineKeepsRun ==
    ASSUME EngineInv, ExitsAreLeft, RunInv, NEW i \in DOMAIN emitted, AheadAt(i),
           Handles(emitted[i]), UNCHANGED gvars
    PROVE  AllSourced' /\ InOrder' /\ LastClosed' /\ maps' \in Seq(Entries) /\ EngineInv'
           /\ ExitsAreLeft'
  <1> DEFINE ev == emitted[i]
  <1>1. /\ EngineTypes /\ RunTypes /\ AllSourced /\ InOrder /\ LastClosed
        /\ maps \in Seq(Entries) /\ open \in BOOLEAN /\ emitted \in Seq(Lines)
        /\ terminal = "None"
    BY DEF EngineInv, RunInv, RunTypes, EngineTypes, Handles
  <1>2. /\ emitted' = emitted /\ exits' = exits /\ at' = at /\ phase' = phase
        /\ killed' = killed /\ items' = items /\ maptime' = maptime
        /\ runStarted' = runStarted /\ playerDead' = playerDead
    BY DEF gvars, level
  <1>3. EngineInv'
    BY <1>2 DEF EngineInv, EngineTypes, Ordered, AnnouncedFirst, ClosedOnce, Map
  <1>4. ExitsAreLeft'
    BY <1>1, <1>2 DEF ExitsAreLeft
  <1>5. \A c : Sourced(c) => Sourced(c)'
    BY <1>2 DEF Sourced, KillsShown, ItemsShown, Backs
  <1>6. CASE Keeps(ev)
    <2>1. maps' = maps /\ (open' = open \/ (open' = FALSE /\ terminal' # "None"))
      BY <1>6 DEF Keeps
    <2>2. AllSourced'
      <3> SUFFICES ASSUME NEW n \in DOMAIN maps PROVE Sourced(maps[n])'
        BY <2>1 DEF AllSourced
      <3>1. Sourced(maps[n])
        BY <1>1 DEF AllSourced
      <3> QED BY <1>2, <2>1, <3>1 DEF Sourced, KillsShown, ItemsShown, Backs
    <2>3. InOrder'
      BY <1>1, <2>1 DEF InOrder
    <2>4. LastClosed'
      BY <1>1, <2>1 DEF LastClosed, Run!Last
    <2> QED BY <1>1, <1>3, <1>4, <2>1, <2>2, <2>3, <2>4
  <1>7. ASSUME NEW e \in Entries, Records(ev, e)
        PROVE  AllSourced' /\ InOrder' /\ LastClosed' /\ maps' \in Seq(Entries)
    <2> DEFINE k == Len(maps')
    <2>1. /\ maps' \in Seq(Entries) /\ maps' # <<>> /\ maps'[k] = e
          /\ Len(maps) \in Nat /\ DOMAIN maps = 1..Len(maps)
          /\ k \in Nat /\ DOMAIN maps' = 1..k /\ k \in DOMAIN maps'
          /\ k = IF OpenOn(ev.map) THEN Len(maps) ELSE Len(maps) + 1
          /\ \A n \in DOMAIN maps' : n # k => n \in DOMAIN maps /\ maps'[n] = maps[n]
          /\ \A n \in DOMAIN maps : n \in DOMAIN maps' /\ maps'[n].map = maps[n].map
      BY <1>1, <1>7, ListAfter
    <2>2. From(ev, e) /\ e.map = ev.map /\ (Rewrites(ev, e) \/ Appends(ev, e))
      BY <1>7 DEF Records, From
    <2>3. ev.map \in MapNames /\ ev.stats \in Counts
      BY <1>1, LineOf
    <2>4. OpenOn(ev.map) => Sourced(Run!Last) /\ Run!Last.map = ev.map
      BY <1>1, LastOf DEF OpenOn, AllSourced
    <2> HIDE DEF k
    <2>5. Sourced(e)
      <3>1. ev.stats.kills \in Nat /\ ev.stats.items \in Nat
        BY <2>3, CountsType
      <3>2. KillsShown(e)
        <4>1. CASE e.stats.kills \in {0, ev.stats.kills}
          <5>1. e.stats.kills <= ev.stats.kills
            BY <3>1, <4>1
          <5> QED BY <2>2, <5>1 DEF KillsShown
        <4>2. CASE OpenOn(ev.map) /\ e.stats.kills = Run!Last.stats.kills
          BY <2>2, <2>4, <4>2 DEF Sourced, KillsShown
        <4> QED BY <2>2, <4>1, <4>2 DEF From
      <3>3. ItemsShown(e)
        <4>1. CASE e.stats.items \in {0, ev.stats.items}
          <5>1. e.stats.items <= ev.stats.items
            BY <3>1, <4>1
          <5> QED BY <2>2, <5>1 DEF ItemsShown
        <4>2. CASE OpenOn(ev.map) /\ e.stats.items = Run!Last.stats.items
          BY <2>2, <2>4, <4>2 DEF Sourced, ItemsShown
        <4> QED BY <2>2, <4>1, <4>2 DEF From
      <3>4. ASSUME e.completed PROVE Backs(ev, e)
        <4>1. ev.event = "LevelComplete" /\ e.stats = ev.stats
          BY <2>2, <3>4 DEF From
        <4>2. ~MayAbandon => e.map \in exits
          BY <1>1, <2>2, <4>1 DEF ExitsAreLeft
        <4> QED BY <2>2, <4>1, <4>2 DEF Backs
      <3> QED BY <3>2, <3>3, <3>4 DEF Sourced
    <2>6. AllSourced'
      <3> SUFFICES ASSUME NEW n \in DOMAIN maps' PROVE Sourced(maps[n])'
        BY DEF AllSourced
      <3>1. \E c : maps'[n] = c /\ Sourced(c)
        <4>1. CASE n = k
          BY <2>1, <2>5, <4>1
        <4>2. CASE n # k
          BY <1>1, <2>1, <4>2 DEF AllSourced
        <4> QED BY <4>1, <4>2
      <3>2. PICK c : maps'[n] = c /\ Sourced(c)
        BY <3>1
      <3> QED BY <1>2, <3>2 DEF Sourced, KillsShown, ItemsShown, Backs
    <2>7. InOrder'
      <3>1. ASSUME NEW n \in DOMAIN maps', n # k, ~OpenOn(ev.map)
            PROVE  Pos(maps'[n].map) < Pos(e.map)
        <4>1. ~Run!Recorded(ev.map)
          <5>1. CASE ev.event = "PlayerDied"
            BY <1>1, <3>1, <5>1, DeathFresh
          <5>2. CASE ev.event # "PlayerDied"
            BY <2>2, <3>1, <5>2 DEF Rewrites, Appends
          <5> QED BY <5>1, <5>2
        <4>2. ev.event # "RunStart"
          BY <1>7 DEF Records
        <4>3. \A j \in DOMAIN maps : Pos(maps[j].map) < Pos(ev.map)
          BY <4>1, <4>2 DEF AheadAt
        <4> QED BY <2>1, <2>2, <3>1, <4>3
      <3>2. ASSUME NEW n \in DOMAIN maps', NEW j \in DOMAIN maps', n < j
            PROVE  Pos(maps'[n].map) < Pos(maps'[j].map)
        <4>0. n \in 1..k /\ j \in 1..k /\ k \in Nat
          BY <2>1
        <4>1. n \in Nat /\ j \in Nat /\ j <= k /\ n # k
          BY <3>2, <4>0
        <4>2. n \in DOMAIN maps
          BY <2>1, <4>1
        <4>3. CASE OpenOn(ev.map) \/ j # k
          <5>1. j \in DOMAIN maps
            BY <2>1, <3>2, <4>3
          <5>2. Pos(maps[n].map) < Pos(maps[j].map)
            BY <1>1, <3>2, <4>2, <5>1 DEF InOrder
          <5> QED BY <2>1, <4>2, <5>1, <5>2
        <4>4. CASE ~OpenOn(ev.map) /\ j = k
          BY <2>1, <3>1, <4>1, <4>4
        <4> QED BY <4>3, <4>4
      <3> QED BY <3>2 DEF InOrder
    <2>8. LastClosed'
      <3>1. e.completed \in BOOLEAN /\ open' \in BOOLEAN
        BY DEF Entries, Handles
      <3>2. terminal' = "None" => (open' <=> ~e.completed)
        BY <1>7 DEF Records
      <3> QED BY <2>1, <3>1, <3>2 DEF LastClosed, Run!Last, k
    <2> QED BY <2>1, <2>6, <2>7, <2>8
  <1> QED BY <1>3, <1>4, <1>6, <1>7 DEF Handles

-----------------------------------------------------------------------------
\* The maps a line records are those it found and its own.
LEMMA MapsAfter ==
    ASSUME maps \in Seq(Entries), NEW ev, Handles(ev)
    PROVE  /\ \A n \in DOMAIN maps' : maps'[n].map = ev.map \/ \E k \in DOMAIN maps : maps'[n].map = maps[k].map
           /\ \A m : Run!Recorded(m) => Run!Recorded(m)'
           /\ ev.event = "LevelEnter" => Run!Recorded(ev.map)'
           /\ \A n \in DOMAIN maps' : maps'[n].map = ev.map => Run!Recorded(ev.map)'
  <1>1. CASE Keeps(ev)
    BY <1>1 DEF Keeps, Run!Recorded
  <1>2. CASE \E e \in Entries : Records(ev, e)
    <2>1. PICK e \in Entries : Records(ev, e)
      BY <1>2
    <2>2. /\ maps'[Len(maps')] = e /\ Len(maps') \in DOMAIN maps' /\ e.map = ev.map
          /\ \A n \in DOMAIN maps' : n # Len(maps') => n \in DOMAIN maps /\ maps'[n] = maps[n]
          /\ \A n \in DOMAIN maps : n \in DOMAIN maps' /\ maps'[n].map = maps[n].map
      BY <2>1, ListAfter DEF Records, From
    <2>3. \A n \in DOMAIN maps' : maps'[n].map = ev.map \/ \E k \in DOMAIN maps : maps'[n].map = maps[k].map
      BY <2>2
    <2>4. \A m : Run!Recorded(m) => Run!Recorded(m)'
      BY <2>2 DEF Run!Recorded
    <2>5. Run!Recorded(ev.map)'
      BY <2>2 DEF Run!Recorded
    <2> QED BY <2>3, <2>4, <2>5
  <1> QED BY <1>1, <1>2 DEF Handles

LEMMA AheadStays ==
    ASSUME EngineInv, maps \in Seq(Entries), NEW i \in DOMAIN emitted, NEW j \in DOMAIN emitted,
           i <= j, AheadAt(j), Handles(emitted[i]), emitted' = emitted
    PROVE  AheadAt(j)'
  <1> DEFINE m == emitted[i].map
             q == emitted[j].map
  <1>1. m \in MapNames /\ q \in MapNames /\ Pos(m) \in Nat /\ Pos(q) \in Nat
    BY LineOf, PosNat DEF EngineInv, EngineTypes
  <1>2. Pos(m) <= Pos(q) /\ (Pos(m) = Pos(q) => m = q)
    BY <1>1, Positions DEF EngineInv, Ordered
  <1>3. /\ \A n \in DOMAIN maps' : maps'[n].map = m \/ \E k \in DOMAIN maps : maps'[n].map = maps[k].map
        /\ Run!Recorded(q) => Run!Recorded(q)'
        /\ \A n \in DOMAIN maps' : maps'[n].map = m => Run!Recorded(m)'
    <2> DEFINE ev == emitted[i]
    <2>1. Handles(ev)
      OBVIOUS
    <2> HIDE DEF ev
    <2>2. /\ \A n \in DOMAIN maps' : maps'[n].map = ev.map \/ \E k \in DOMAIN maps : maps'[n].map = maps[k].map
          /\ \A p : (\E k \in DOMAIN maps : maps[k].map = p) => \E k \in DOMAIN maps' : maps'[k].map = p
      BY <2>1, MapsAfter DEF Run!Recorded
    <2> QED BY <2>2 DEF Run!Recorded, ev
  <1>4. emitted'[j] = emitted[j]
    OBVIOUS
  <1>5. emitted[j].event = "PlayerDied" => \A n \in DOMAIN maps' : Pos(maps'[n].map) <= Pos(q)
    <2> SUFFICES ASSUME emitted[j].event = "PlayerDied", NEW n \in DOMAIN maps'
                 PROVE  Pos(maps'[n].map) <= Pos(q)
      OBVIOUS
    <2>1. CASE maps'[n].map = m
      BY <1>2, <2>1
    <2>2. CASE \E k \in DOMAIN maps : maps'[n].map = maps[k].map
      BY <2>2 DEF AheadAt
    <2> QED BY <1>3, <2>1, <2>2
  <1>6. ASSUME ~(\E n \in DOMAIN maps' : maps'[n].map = q), emitted[j].event # "RunStart",
               NEW n \in DOMAIN maps'
        PROVE  Pos(maps'[n].map) < Pos(q)
    <2>1. ~Run!Recorded(q)
      BY <1>3, <1>6 DEF Run!Recorded
    <2>2. CASE maps'[n].map = m
      BY <1>1, <1>2, <1>6, <2>2
    <2>3. CASE \E k \in DOMAIN maps : maps'[n].map = maps[k].map
      BY <1>6, <2>1, <2>3 DEF AheadAt
    <2> QED BY <1>3, <2>2, <2>3
  <1> QED BY <1>4, <1>5, <1>6 DEF AheadAt, Run!Recorded

\* One more line of a copy read from its start.
LEMMA ReplayGrows ==
    ASSUME EngineInv, maps \in Seq(Entries), NEW r \in Nat, Replay(r), r + 1 \in DOMAIN emitted,
           Handles(emitted[r + 1]), emitted' = emitted, terminal' = "None"
    PROVE  Replay(r + 1)'
  <1> DEFINE ev == emitted[r + 1]
  <1>1. Handles(ev) /\ ~Ends(ev)
    BY DEF Handles
  <1>2. DOMAIN emitted = 1..Len(emitted) /\ Len(emitted) \in Nat
    BY LineOf DEF EngineInv, EngineTypes
  <1> HIDE DEF ev
  <1>3. /\ \A n \in DOMAIN maps' : maps'[n].map = ev.map \/ \E k \in DOMAIN maps : maps'[n].map = maps[k].map
        /\ \A m : (\E k \in DOMAIN maps : maps[k].map = m) => \E k \in DOMAIN maps' : maps'[k].map = m
        /\ ev.event = "LevelEnter" => \E k \in DOMAIN maps' : maps'[k].map = ev.map
    BY <1>1, MapsAfter DEF Run!Recorded
  <1>4. ASSUME NEW i \in DOMAIN emitted, i <= r + 1
        PROVE  /\ ~Ends(emitted[i])
               /\ emitted[i].event = "LevelEnter" => \E k \in DOMAIN maps' : maps'[k].map = emitted[i].map
    <2>1. CASE i = r + 1
      BY <1>1, <1>3, <2>1 DEF ev
    <2>2. CASE i <= r
      BY <1>3, <2>2 DEF Replay, Run!Recorded
    <2> QED BY <1>2, <1>4, <2>1, <2>2
  <1>5. ASSUME NEW n \in DOMAIN maps'
        PROVE  \E i \in DOMAIN emitted : i <= r + 1 /\ emitted[i].map = maps'[n].map
    <2>1. CASE maps'[n].map = ev.map
      <3>1. r + 1 <= r + 1
        OBVIOUS
      <3> QED BY <2>1, <3>1 DEF ev
    <2>2. CASE \E k \in DOMAIN maps : maps'[n].map = maps[k].map
      <3>1. PICK k \in DOMAIN maps : maps'[n].map = maps[k].map
        BY <2>2
      <3>2. PICK i \in DOMAIN emitted : i <= r /\ emitted[i].map = maps[k].map
        BY DEF Replay
      <3>3. i <= r + 1
        BY <1>2, <3>2
      <3> QED BY <3>1, <3>2, <3>3
    <2> QED BY <1>3, <2>1, <2>2
  <1> QED BY <1>4, <1>5 DEF Replay, Run!Recorded

\* Every line of it names a recorded map, but for the RunStart.
LEMMA ReplayRecorded ==
    ASSUME EngineInv, NEW r \in Nat, Replay(r), NEW i \in DOMAIN emitted, i <= r
    PROVE  /\ emitted[i].event # "PlayerDied"
           /\ emitted[i].event = "RunStart" \/ Run!Recorded(emitted[i].map)
  <1> DEFINE m == emitted[i].map
  <1>1. DOMAIN emitted = 1..Len(emitted) /\ Len(emitted) \in Nat
    BY LineOf DEF EngineInv, EngineTypes
  <1>2. emitted[i].event # "PlayerDied"
    BY DEF Replay, Ends
  <1>3. ASSUME emitted[i].event # "RunStart" PROVE Run!Recorded(m)
    <2>1. PICK j \in DOMAIN emitted : j <= i /\ emitted[j].event = "LevelEnter" /\ emitted[j].map = m
      BY <1>3 DEF EngineInv, AnnouncedFirst, Announced
    <2>2. j <= r
      BY <1>1, <2>1
    <2> QED BY <2>1, <2>2 DEF Replay
  <1> QED BY <1>2, <1>3

-----------------------------------------------------------------------------
\* The steps of the session.
LEMMA LineKeeps ==
    ASSUME IInv, NEW i \in DOMAIN emitted, terminal = "None" => AheadAt(i),
           Run!ApplyEvent(emitted[i]), UNCHANGED gvars
    PROVE  /\ EngineInv' /\ ExitsAreLeft' /\ AllSourced' /\ InOrder' /\ LastClosed'
           /\ maps' \in Seq(Entries) /\ open' \in BOOLEAN /\ run_started' \in BOOLEAN
           /\ terminal' \in {"None", "Death", "Complete", "Quit"}
           /\ terminal' = "None" => terminal = "None" /\ Handles(emitted[i])
  <1>1. /\ EngineInv /\ ExitsAreLeft /\ RunInv /\ RunTypes
        /\ emitted[i] \in Lines
    BY LineOf DEF IInv, EngineInv, EngineTypes, RunInv
  <1> DEFINE ev == emitted[i]
  <1>2. (terminal # "None" /\ Ignores) \/ Handles(ev)
    BY <1>1, LineApplied
  <1>3. CASE Handles(ev)
    <2>1. terminal = "None" /\ AheadAt(i)
      BY <1>3 DEF Handles
    <2>2. AllSourced' /\ InOrder' /\ LastClosed' /\ maps' \in Seq(Entries) /\ EngineInv' /\ ExitsAreLeft'
      BY <1>1, <1>3, <2>1, LineKeepsRun
    <2> QED BY <1>3, <2>1, <2>2 DEF Handles
  <1>4. CASE terminal # "None" /\ Ignores
    <2>1. maps' = maps /\ open' = open /\ run_started' = run_started /\ terminal' = terminal
      BY <1>4 DEF Ignores
    <2>2. /\ emitted' = emitted /\ exits' = exits /\ at' = at /\ phase' = phase
          /\ killed' = killed /\ items' = items /\ maptime' = maptime
          /\ runStarted' = runStarted /\ playerDead' = playerDead
      BY DEF gvars, level
    <2>3. EngineInv'
      BY <1>1, <2>2 DEF EngineInv, EngineTypes, Ordered, AnnouncedFirst, ClosedOnce, Map
    <2>4. ExitsAreLeft'
      BY <1>1, <2>1, <2>2 DEF ExitsAreLeft
    <2>5. AllSourced' /\ InOrder' /\ LastClosed'
      <3>1. AllSourced'
        <4> SUFFICES ASSUME NEW n \in DOMAIN maps PROVE Sourced(maps[n])'
          BY <2>1 DEF AllSourced
        <4>1. Sourced(maps[n])
          BY <1>1 DEF RunInv, AllSourced
        <4> QED BY <2>1, <2>2, <4>1 DEF Sourced, KillsShown, ItemsShown, Backs
      <3>2. InOrder'
        BY <1>1, <2>1 DEF RunInv, InOrder
      <3>3. LastClosed'
        BY <1>1, <2>1 DEF RunInv, LastClosed, Run!Last
      <3> QED BY <3>1, <3>2, <3>3
    <2> QED BY <1>1, <1>4, <2>1, <2>3, <2>4, <2>5 DEF RunTypes
  <1> QED BY <1>2, <1>3, <1>4

LEMMA FifoKeeps ==
    ASSUME IInv, FifoLine
    PROVE  IInv'
  <1> DEFINE i == fifo + 1
  <1>1. /\ fifo < Len(emitted) /\ fifo' = fifo + 1 /\ fifoLatched' = TRUE /\ stdout' = 0
        /\ Run!ApplyEvent(emitted[i]) /\ UNCHANGED gvars /\ stdoutLost' = stdoutLost
        /\ emitted' = emitted
    BY DEF FifoLine, Latch, gvars
  <1>2. /\ EngineInv /\ RunTypes /\ Placed /\ fifo \in 0..Len(emitted) /\ maps \in Seq(Entries)
        /\ stdoutLost \in BOOLEAN
        /\ DOMAIN emitted = 1..Len(emitted) /\ Len(emitted) \in Nat
    BY LineOf DEF IInv, EngineInv, EngineTypes, RunInv, RunTypes
  <1>3. i \in DOMAIN emitted /\ i > fifo /\ i > 0 /\ fifo' \in 0..Len(emitted) /\ 0 \in 0..Len(emitted)
    BY <1>1, <1>2
  <1>4. terminal = "None" => \A j \in DOMAIN emitted : j >= i => AheadAt(j)
    BY <1>2, <1>3 DEF Placed, Ahead
  <1>5. terminal = "None" => AheadAt(i)
    BY <1>2, <1>3, <1>4
  <1> HIDE DEF i
  <1>6. /\ EngineInv' /\ ExitsAreLeft' /\ AllSourced' /\ InOrder' /\ LastClosed'
        /\ maps' \in Seq(Entries) /\ open' \in BOOLEAN /\ run_started' \in BOOLEAN
        /\ terminal' \in {"None", "Death", "Complete", "Quit"}
        /\ terminal' = "None" => terminal = "None" /\ Handles(emitted[i])
    BY <1>1, <1>3, <1>5, LineKeeps
  <1>7. RunTypes'
    BY <1>1, <1>2, <1>3, <1>6 DEF RunTypes
  <1>8. Placed'
    <2> SUFFICES ASSUME terminal' = "None", NEW j \in DOMAIN emitted, j > fifo' PROVE AheadAt(j)'
      BY <1>1 DEF Placed, Ahead
    <2>1. j >= i /\ i <= j
      BY <1>1, <1>2, <1>3 DEF i
    <2> QED BY <1>1, <1>2, <1>3, <1>4, <1>6, <2>1, AheadStays
  <1> QED BY <1>6, <1>7, <1>8 DEF IInv, RunInv

LEMMA NextPlace ==
    ASSUME NEW r \in Nat, NEW n \in Nat, r < n
    PROVE  r + 1 \in 1..n /\ r + 1 > 0 /\ r + 1 \in 0..n /\ r # n
  OBVIOUS

LEMMA StdoutKeeps ==
    ASSUME IInv, StdoutLine
    PROVE  IInv'
  <1>0. PICK r \in Nat : r = stdout
    BY DEF IInv, RunInv, RunTypes
  <1>1. /\ r < Len(emitted) /\ stdout' = r + 1 /\ ~fifoLatched /\ fifoLatched' = fifoLatched
        /\ Run!ApplyEvent(emitted[r + 1]) /\ UNCHANGED gvars /\ stdoutLost' = stdoutLost
        /\ fifo' = fifo /\ emitted' = emitted
    BY <1>0 DEF StdoutLine, gvars
  <1>a. EngineInv /\ RunTypes /\ Placed
    BY DEF IInv, RunInv
  <1>b. r \in 0..Len(emitted) /\ DOMAIN emitted = 1..Len(emitted) /\ Len(emitted) \in Nat
        /\ fifo \in 0..Len(emitted)
    BY <1>0, <1>a, LineOf DEF EngineInv, EngineTypes, RunTypes
  <1>c. r \in Nat /\ r + 1 \in DOMAIN emitted /\ r + 1 > 0 /\ r + 1 \in 0..Len(emitted)
        /\ r # Len(emitted) /\ r < Len(emitted)
    <2>1. r < Len(emitted)
      BY <1>1
    <2>2. r + 1 \in 1..Len(emitted) /\ r + 1 > 0 /\ r + 1 \in 0..Len(emitted) /\ r # Len(emitted)
      BY <1>b, <2>1, NextPlace
    <2> QED BY <1>b, <2>1, <2>2
  <1>d. \A j \in DOMAIN emitted : j \in Nat /\ j > 0
    BY <1>b
  <1>2. /\ EngineInv /\ RunTypes /\ Placed /\ maps \in Seq(Entries) /\ stdoutLost \in BOOLEAN
        /\ fifo \in 0..Len(emitted)
    BY <1>a, <1>b DEF RunTypes
  <1>3. r \in Nat /\ r + 1 \in DOMAIN emitted /\ r + 1 > 0 /\ r + 1 \in 0..Len(emitted) /\ ~stdoutLost
    <2>1. ~stdoutLost
      BY <1>0, <1>1, <1>a, <1>c DEF RunTypes
    <2> QED BY <1>c, <2>1
  <1>4. terminal = "None" => Ahead(0) /\ Replay(r)
    BY <1>1, <1>3, <1>0, <1>2 DEF Placed
  <1>5. terminal = "None" => AheadAt(r + 1)
    BY <1>3, <1>4 DEF Ahead
  <1>6. /\ EngineInv' /\ ExitsAreLeft' /\ AllSourced' /\ InOrder' /\ LastClosed'
        /\ maps' \in Seq(Entries) /\ open' \in BOOLEAN /\ run_started' \in BOOLEAN
        /\ terminal' \in {"None", "Death", "Complete", "Quit"}
        /\ terminal' = "None" => terminal = "None" /\ Handles(emitted[r + 1])
    BY <1>1, <1>3, <1>5, LineKeeps
  <1>7. RunTypes'
    BY <1>1, <1>2, <1>3, <1>6 DEF RunTypes
  <1>8. terminal' = "None" => Replay(r + 1)'
    BY <1>1, <1>2, <1>3, <1>4, <1>6, ReplayGrows
  <1>9. ASSUME terminal' = "None", NEW j \in DOMAIN emitted PROVE AheadAt(j)'
    <2>1. CASE j <= r
      <3>1. emitted[j].event # "PlayerDied"
            /\ (emitted[j].event = "RunStart" \/ Run!Recorded(emitted[j].map))
        BY <1>2, <1>3, <1>4, <1>6, <1>9, <2>1, ReplayRecorded
      <3>2. Run!Recorded(emitted[j].map) => \E n \in DOMAIN maps' : maps'[n].map = emitted[j].map
        <4> DEFINE m == emitted[j].map
        <4>1. Handles(emitted[r + 1])
          BY <1>6, <1>9
        <4> HIDE DEF m
        <4>2. (\E n \in DOMAIN maps : maps[n].map = m) => \E n \in DOMAIN maps' : maps'[n].map = m
          BY <1>2, <4>1, MapsAfter DEF Run!Recorded
        <4> QED BY <4>2 DEF m, Run!Recorded
      <3> QED BY <1>1, <3>1, <3>2 DEF AheadAt, Run!Recorded
    <2>2. CASE r + 1 <= j
      <3>0. j > 0 /\ Ahead(0)
        BY <1>d, <1>4, <1>6, <1>9
      <3>1. AheadAt(j)
        BY <3>0 DEF Ahead
      <3> QED BY <1>1, <1>2, <1>3, <1>6, <1>9, <2>2, <3>1, AheadStays
    <2>3. j \in Nat
      BY <1>d
    <2> QED BY <1>3, <2>1, <2>2, <2>3
  <1>10. Placed'
    <2> SUFFICES ASSUME terminal' = "None" PROVE Ahead(0)' /\ Replay(stdout)'
      BY <1>1, <1>0 DEF Placed
    <2>1. Ahead(0)'
      BY <1>1, <1>9 DEF Ahead
    <2>2. Replay(stdout)'
      BY <1>1, <1>8 DEF Replay
    <2> QED BY <2>1, <2>2
  <1> QED BY <1>6, <1>7, <1>10 DEF IInv, RunInv

LEMMA StaleKeeps ==
    ASSUME IInv, StaleFifoLine
    PROVE  IInv'
  <1> DEFINE ev == [event |-> "PlayerDied", session |-> StaleSession, map |-> Rotation[1],
                    stats |-> Nothing]
  <1>1. /\ ~fifoLatched /\ fifoLatched' = TRUE /\ stdout' = 0 /\ fifo' = fifo
        /\ Run!ApplyEvent(ev) /\ UNCHANGED gvars /\ stdoutLost' = stdoutLost
    BY DEF StaleFifoLine, Latch
  <1>2. ev.session # Session /\ ev.event = "PlayerDied"
    BY PipelineAssumption
  <1> HIDE DEF ev
  <1>3. maps' = maps /\ open' = open /\ run_started' = run_started /\ terminal' = terminal
    <2>1. Run!Foreign(ev)
      BY <1>1, <1>2 DEF Run!ApplyEvent, Run!AfterEnd, Run!RunStart, Run!LevelEnter,
                        Run!LevelComplete, Run!PlayerDied, Run!RunComplete, Run!Progress,
                        Run!RunQuit, Run!Live
    <2> QED BY <2>1 DEF Run!Foreign, Run!Drop, Run!state
  <1>4. /\ emitted' = emitted /\ exits' = exits /\ at' = at /\ phase' = phase
        /\ killed' = killed /\ items' = items /\ maptime' = maptime
        /\ runStarted' = runStarted /\ playerDead' = playerDead
    BY <1>1 DEF gvars, level
  <1>5. /\ EngineInv /\ ExitsAreLeft /\ AllSourced /\ InOrder /\ LastClosed /\ RunTypes /\ Placed
        /\ fifo \in 0..Len(emitted) /\ Len(emitted) \in Nat
    BY LineOf DEF IInv, EngineInv, EngineTypes, RunInv, RunTypes
  <1>6. RunTypes'
    <2>1. 0 \in 0..Len(emitted)
      BY <1>5
    <2> QED BY <1>1, <1>3, <1>4, <1>5, <2>1 DEF RunTypes
  <1>7. Placed'
    <2> SUFFICES ASSUME terminal = "None", NEW j \in DOMAIN emitted, j > fifo
                 PROVE  AheadAt(j)'
      BY <1>1, <1>3, <1>4 DEF Placed, Ahead
    <2>1. Ahead(0)
      BY <1>1, <1>5 DEF Placed
    <2>2. j > 0
      BY <1>5
    <2>3. AheadAt(j)
      BY <2>1, <2>2 DEF Ahead
    <2> QED BY <1>3, <1>4, <2>3 DEF AheadAt, Run!Recorded
  <1>8. EngineInv' /\ ExitsAreLeft'
    BY <1>3, <1>4, <1>5
    DEF EngineInv, EngineTypes, Ordered, AnnouncedFirst, ClosedOnce, Map, ExitsAreLeft
  <1>9. AllSourced'
    BY <1>3, <1>4, <1>5 DEF AllSourced, Sourced, KillsShown, ItemsShown, Backs
  <1>10. InOrder' /\ LastClosed'
    BY <1>3, <1>5 DEF InOrder, LastClosed, Run!Last
  <1> QED BY <1>6, <1>7, <1>8, <1>9, <1>10 DEF IInv, RunInv

\* A step that only moves along a transport, without a line being applied.
LEMMA LossKeeps ==
    ASSUME IInv, UNCHANGED <<gvars, fifoLatched, rvars>>,
           \/ fifo < Len(emitted) /\ fifo' = fifo + 1 /\ stdout' = stdout /\ stdoutLost' = stdoutLost
           \/ fifo' = fifo /\ stdout' = stdout /\ stdoutLost' = stdoutLost
           \/ /\ phase = "Exited" /\ fifo' = fifo /\ stdout' = Len(emitted) /\ stdoutLost' = TRUE
    PROVE  IInv'
  <1>1. /\ emitted' = emitted /\ exits' = exits /\ at' = at /\ phase' = phase
        /\ killed' = killed /\ items' = items /\ maptime' = maptime
        /\ runStarted' = runStarted /\ playerDead' = playerDead
        /\ maps' = maps /\ open' = open /\ run_started' = run_started /\ terminal' = terminal
        /\ fifoLatched' = fifoLatched
    BY DEF gvars, level, rvars
  <1>2. /\ EngineInv /\ ExitsAreLeft /\ AllSourced /\ InOrder /\ LastClosed /\ RunTypes /\ Placed
        /\ fifo \in 0..Len(emitted) /\ stdout \in 0..Len(emitted) /\ Len(emitted) \in Nat
    BY LineOf DEF IInv, EngineInv, EngineTypes, RunInv, RunTypes
  <1>3. fifo' \in 0..Len(emitted) /\ fifo' >= fifo /\ fifo' \in Nat /\ fifo \in Nat
    <2>1. CASE fifo < Len(emitted) /\ fifo' = fifo + 1
      BY <1>2, <2>1
    <2>2. CASE fifo' = fifo
      BY <1>2, <2>2
    <2> QED BY <2>1, <2>2
  <1>4. stdout' \in 0..Len(emitted) /\ stdoutLost' \in BOOLEAN
    <2>1. Len(emitted) \in 0..Len(emitted)
      BY <1>2
    <2>2. stdoutLost \in BOOLEAN
      BY <1>2 DEF RunTypes
    <2> QED BY <1>2, <2>1, <2>2
  <1>5. stdoutLost' /\ ~fifoLatched => phase = "Exited" /\ stdout' = Len(emitted)
    BY <1>2 DEF RunTypes
  <1>6. RunTypes'
    BY <1>1, <1>2, <1>3, <1>4, <1>5 DEF RunTypes
  <1>7. \A j \in DOMAIN emitted : AheadAt(j) => AheadAt(j)'
    BY <1>1 DEF AheadAt, Run!Recorded
  <1>8. Placed'
    <2> SUFFICES ASSUME terminal = "None" PROVE Placed'
      BY <1>1 DEF Placed
    <2>1. CASE fifoLatched
      <3>1. ASSUME NEW j \in DOMAIN emitted, j > fifo' PROVE AheadAt(j)'
        <4>1. j \in Nat
          BY LineOf, <1>2 DEF EngineInv, EngineTypes
        <4>2. j > fifo
          BY <1>3, <3>1, <4>1
        <4>3. AheadAt(j)
          BY <1>2, <2>1, <4>2 DEF Placed, Ahead
        <4> QED BY <1>7, <4>3
      <3> QED BY <1>1, <2>1, <3>1 DEF Placed, Ahead
    <2>2. CASE ~fifoLatched
      <3>1. Ahead(0) /\ (stdoutLost \/ Replay(stdout))
        BY <1>2, <2>2 DEF Placed
      <3>2. Ahead(0)'
        BY <1>1, <1>7, <3>1 DEF Ahead
      <3>3. stdoutLost' \/ (stdout' = stdout /\ stdoutLost' = stdoutLost)
        OBVIOUS
      <3>4. stdout' = stdout /\ Replay(stdout) => Replay(stdout)'
        BY <1>1 DEF Replay, Run!Recorded
      <3> QED BY <1>1, <2>2, <3>1, <3>2, <3>3, <3>4 DEF Placed
    <2> QED BY <1>2, <2>1, <2>2 DEF RunTypes
  <1>9. EngineInv' /\ ExitsAreLeft'
    BY <1>1, <1>2
    DEF EngineInv, EngineTypes, Ordered, AnnouncedFirst, ClosedOnce, Map, ExitsAreLeft
  <1>10. AllSourced'
    BY <1>1, <1>2 DEF AllSourced, Sourced, KillsShown, ItemsShown, Backs
  <1>11. InOrder' /\ LastClosed'
    BY <1>1, <1>2 DEF InOrder, LastClosed, Run!Last
  <1> QED BY <1>6, <1>8, <1>9, <1>10, <1>11 DEF IInv, RunInv

LEMMA InitHolds == PipelineInit => IInv
  <1> SUFFICES ASSUME PipelineInit PROVE IInv
    OBVIOUS
  <1>1. /\ phase = "Loading" /\ at = 1 /\ killed = 0 /\ items = 0 /\ maptime = 0
        /\ runStarted = FALSE /\ playerDead = FALSE /\ emitted = <<>> /\ exits = {}
        /\ fifo = 0 /\ stdout = 0 /\ fifoLatched = FALSE /\ stdoutLost = FALSE
        /\ maps = <<>> /\ open = FALSE /\ run_started = FALSE /\ terminal = "None"
    BY DEF PipelineInit, Init, Run!Init
  <1>2. DOMAIN emitted = {} /\ DOMAIN maps = {} /\ Len(emitted) = 0
    BY <1>1
  <1>3. emitted \in Seq(Lines) /\ maps \in Seq(Entries)
    BY <1>1
  <1>4. EngineTypes
    <2>1. 0 \in 0..Monsters /\ 0 \in 0..Items /\ 0 \in 0..MaxTics
      BY Numbers
    <2>2. 1 \in DOMAIN Rotation
      BY Positions
    <2> QED BY <1>1, <1>3, <2>1, <2>2 DEF EngineTypes
  <1>5. Ordered /\ AnnouncedFirst /\ ClosedOnce /\ ExitsAreLeft
    BY <1>1, <1>2 DEF Ordered, AnnouncedFirst, ClosedOnce, ExitsAreLeft
  <1>6. RunTypes
    <2>1. 0 \in 0..Len(emitted)
      BY <1>2
    <2> QED BY <1>1, <1>3, <2>1 DEF RunTypes
  <1>7. AllSourced /\ InOrder /\ LastClosed
    BY <1>1, <1>2 DEF AllSourced, InOrder, LastClosed
  <1>8. Placed
    BY <1>1, <1>2 DEF Placed, Ahead, Replay
  <1> QED BY <1>4, <1>5, <1>6, <1>7, <1>8 DEF IInv, EngineInv, RunInv

LEMMA NextKeeps == IInv /\ [PipelineNext]_vars => IInv'
  <1> SUFFICES ASSUME IInv, [PipelineNext]_vars PROVE IInv'
    OBVIOUS
  <1>0. EngineInv
    BY DEF IInv
  <1>1. CASE Engine
    <2>1. Play /\ UNCHANGED <<transport, rvars>>
      BY <1>1 DEF Engine
    <2>2. EngineTypes' /\ phase' # "Exited" /\ \E new : Writes(new)
      BY <1>0, <2>1, PlayWrites
    <2>3. PICK new : Writes(new)
      BY <2>2
    <2>4. phase # "Exited"
      BY <2>1 DEF Play, WorldLoaded, Score, WorldTick, StartDown, StartUp, WorldThingDied,
                  ExitMap, Restart
    <2> QED BY <2>1, <2>2, <2>3, <2>4, WritesKeep
  <1>2. CASE Signal
    <2>1. Teardown /\ (terminal # "None" \/ MayAbandon) /\ UNCHANGED <<transport, rvars>>
      BY <1>2 DEF Signal
    <2>2. EngineTypes' /\ \E new : Writes(new)
      BY <1>0, <2>1, TeardownWrites
    <2>3. PICK new : Writes(new)
      BY <2>2
    <2>4. phase # "Exited"
      BY <2>1 DEF Teardown
    <2> QED BY <2>1, <2>2, <2>3, <2>4, WritesKeep
  <1>3. CASE EngineExit
    <2>1. Exit /\ UNCHANGED <<transport, rvars>>
      BY <1>3 DEF EngineExit
    <2>2. EngineTypes' /\ Writes(<<>>)
      BY <1>0, <2>1, ExitWrites
    <2>3. phase # "Exited"
      BY <2>1 DEF Exit
    <2>4. PICK new : Writes(new) /\ new = <<>>
      BY <2>2
    <2> QED BY <2>1, <2>2, <2>3, <2>4, WritesKeep
  <1>4. CASE FifoLine
    BY <1>4, FifoKeeps
  <1>5. CASE StaleFifoLine
    BY <1>5, StaleKeeps
  <1>6. CASE LoseFifoLine
    <2>1. /\ UNCHANGED <<gvars, fifoLatched, rvars>> /\ fifo < Len(emitted) /\ fifo' = fifo + 1
          /\ stdout' = stdout /\ stdoutLost' = stdoutLost
      BY <1>6 DEF LoseFifoLine
    <2> QED BY <2>1, LossKeeps
  <1>7. CASE FifoCloses
    <2>1. /\ UNCHANGED <<gvars, fifoLatched, rvars>> /\ fifo' = fifo
          /\ stdout' = stdout /\ stdoutLost' = stdoutLost
      BY <1>7 DEF FifoCloses
    <2> QED BY <2>1, LossKeeps
  <1>8. CASE StdoutLine
    BY <1>8, StdoutKeeps
  <1>9. CASE LoseStdoutTail
    <2>1. /\ UNCHANGED <<gvars, fifoLatched, rvars>> /\ phase = "Exited" /\ fifo' = fifo
          /\ stdout' = Len(emitted) /\ stdoutLost' = TRUE
      BY <1>9 DEF LoseStdoutTail
    <2> QED BY <2>1, LossKeeps
  <1>10. CASE Finish
    <2>1. /\ UNCHANGED <<gvars, fifoLatched, rvars>> /\ fifo' = fifo
          /\ stdout' = stdout /\ stdoutLost' = stdoutLost
      BY <1>10 DEF Finish, transport
    <2> QED BY <2>1, LossKeeps
  <1>11. CASE UNCHANGED vars
    <2>1. /\ UNCHANGED <<gvars, fifoLatched, rvars>> /\ fifo' = fifo
          /\ stdout' = stdout /\ stdoutLost' = stdoutLost
      BY <1>11 DEF vars, transport
    <2> QED BY <2>1, LossKeeps
  <1> QED BY <1>1, <1>2, <1>3, <1>4, <1>5, <1>6, <1>7, <1>8, <1>9, <1>10, <1>11 DEF PipelineNext

\* The invariant holds of every session: the engine's lines and the recorded entries are in
\* the order of the rotation, every entry is bounded by the lines of its map, and whatever a
\* transport has yet to deliver is of a recorded map or lies ahead.
THEOREM OrderlyRun == PipelineSpec => []IInv
  <1> QED BY InitHolds, NextKeeps, PTL DEF PipelineSpec

-----------------------------------------------------------------------------
\* What was played of a map bounds the entry recorded of it.
LEMMA Best ==
    ASSUME NEW n \in Nat, NEW S \in SUBSET (0..n)
    PROVE  /\ Max({0} \cup S) \in 0..n
           /\ \A x \in S : x <= Max({0} \cup S)
           /\ \A x \in 0..n : S = {x} => Max({0} \cup S) = x
  <1> DEFINE T == {0} \cup S
  <1>1. T \in SUBSET (0..n) /\ T # {}
    OBVIOUS
  <1>2. Max(T) \in T /\ \A x \in T : x <= Max(T)
    BY <1>1, Greatest
  <1> HIDE DEF T
  <1>3. Max(T) \in 0..n
    BY <1>1, <1>2
  <1>4. \A x \in S : x <= Max(T)
    BY <1>2 DEF T
  <1>5. ASSUME NEW x \in 0..n, S = {x} PROVE Max(T) = x
    <2>1. Max(T) = 0 \/ Max(T) = x
      BY <1>2, <1>5 DEF T
    <2>2. x <= Max(T) /\ x \in Nat
      BY <1>4, <1>5
    <2> QED BY <2>1, <2>2
  <1> QED BY <1>3, <1>4, <1>5 DEF T

LEMMA PlayedType ==
    ASSUME emitted \in Seq(Lines), NEW m \in MapNames
    PROVE  LET p == Played(emitted, m)
           IN  /\ p.completed \in BOOLEAN
               /\ p.stats.kills \in Nat /\ p.stats.items \in Nat /\ p.stats.tics \in Nat
               /\ \A i \in DOMAIN emitted : emitted[i].map = m =>
                     /\ emitted[i].stats.kills <= p.stats.kills
                     /\ emitted[i].stats.items <= p.stats.items
  <1> DEFINE p == Played(emitted, m)
             lines == LinesOf(emitted, m)
             closes == {l \in lines : l.event = "LevelComplete"}
             K == {l.stats.kills : l \in lines}
             I == {l.stats.items : l \in lines}
             T == {l.stats.tics : l \in closes}
  <1>1. /\ p.completed = (closes # {} /\ m \in exits)
        /\ p.stats.kills = Max({0} \cup K) /\ p.stats.items = Max({0} \cup I)
        /\ p.stats.tics = Max({0} \cup T)
    BY DEF Played
  <1>2. \A i \in DOMAIN emitted : emitted[i].stats \in Counts
    BY LineOf
  <1>3. \A l \in lines : l.stats \in Counts
    BY <1>2 DEF LinesOf
  <1>4. \A i \in DOMAIN emitted : emitted[i].map = m => emitted[i] \in lines
    BY DEF LinesOf
  <1> HIDE DEF p, lines
  <1>5. \A l \in lines : l.stats.kills \in 0..Monsters /\ l.stats.items \in 0..Items
                           /\ l.stats.tics \in 0..MaxTics
    BY <1>3 DEF Counts
  <1>6. K \in SUBSET (0..Monsters) /\ I \in SUBSET (0..Items) /\ T \in SUBSET (0..MaxTics)
    BY <1>5
  <1>7. \A l \in lines : l.stats.kills \in K /\ l.stats.items \in I
    OBVIOUS
  <1> HIDE DEF K, I, T
  <1>8. /\ Max({0} \cup K) \in 0..Monsters /\ \A x \in K : x <= Max({0} \cup K)
        /\ Max({0} \cup I) \in 0..Items /\ \A x \in I : x <= Max({0} \cup I)
        /\ Max({0} \cup T) \in 0..MaxTics
    BY <1>6, Numbers, Best
  <1>9. p.stats.kills \in Nat /\ p.stats.items \in Nat /\ p.stats.tics \in Nat /\ p.completed \in BOOLEAN
    BY <1>1, <1>8
  <1>10. \A i \in DOMAIN emitted : emitted[i].map = m =>
            /\ emitted[i].stats.kills <= p.stats.kills
            /\ emitted[i].stats.items <= p.stats.items
    BY <1>1, <1>4, <1>7, <1>8
  <1> QED BY <1>9, <1>10 DEF p

LEMMA EntryBounded ==
    ASSUME EngineInv, RunInv, ~MayAbandon, NEW n \in DOMAIN maps
    PROVE  LET c == maps[n]
               d == Played(emitted, c.map)
           IN  /\ MapScore(c) \in Nat /\ MapScore(d) \in Nat /\ MapScore(c) <= MapScore(d)
               /\ c.completed => d.completed
  <1> DEFINE c == maps[n]
             m == c.map
             d == Played(emitted, m)
  <1>1. /\ EngineTypes /\ ClosedOnce /\ RunTypes /\ AllSourced
        /\ emitted \in Seq(Lines) /\ maps \in Seq(Entries)
    BY DEF EngineInv, EngineTypes, RunInv, RunTypes
  <1>2. c \in Entries /\ m \in MapNames
    BY <1>1, EntryBehind
  <1>3. c.stats \in Counts /\ c.completed \in BOOLEAN
    BY <1>2 DEF Entries
  <1>4. Sourced(c)
    BY <1>1 DEF AllSourced
  <1>5. /\ d.completed \in BOOLEAN
        /\ d.stats.kills \in Nat /\ d.stats.items \in Nat /\ d.stats.tics \in Nat
        /\ \A i \in DOMAIN emitted : emitted[i].map = m =>
              /\ emitted[i].stats.kills <= d.stats.kills
              /\ emitted[i].stats.items <= d.stats.items
    BY <1>1, <1>2, PlayedType
  <1>6. c.stats.kills \in Nat /\ c.stats.items \in Nat /\ c.stats.tics \in Nat
    BY <1>3, CountsType
  <1>7. \A i \in DOMAIN emitted : emitted[i].stats.kills \in Nat /\ emitted[i].stats.items \in Nat
    BY <1>1, LineOf, CountsType
  <1>8. ASSUME c.completed PROVE d.completed /\ c.stats.tics = d.stats.tics
    <2>1. PICK i \in DOMAIN emitted : Backs(emitted[i], c)
      BY <1>4, <1>8 DEF Sourced
    <2>2. /\ emitted[i].map = m /\ emitted[i].event = "LevelComplete"
          /\ emitted[i].stats = c.stats /\ m \in exits
      BY <2>1 DEF Backs
    <2> DEFINE lines == LinesOf(emitted, m)
               closes == {l \in lines : l.event = "LevelComplete"}
               T == {l.stats.tics : l \in closes}
    <2>3. d.completed = (closes # {} /\ m \in exits) /\ d.stats.tics = Max({0} \cup T)
      BY DEF Played
    <2>4. closes = {emitted[i]}
      <3>1. emitted[i] \in closes
        BY <2>2 DEF LinesOf
      <3>2. ASSUME NEW l \in closes PROVE l = emitted[i]
        <4>1. PICK j \in DOMAIN emitted : emitted[j].map = m /\ l = emitted[j]
          BY DEF LinesOf
        <4>2. emitted[j].event = "LevelComplete"
          BY <4>1
        <4>3. j = i
          BY <1>1, <2>2, <4>1, <4>2 DEF ClosedOnce, Closing
        <4> QED BY <4>1, <4>3
      <3> QED BY <3>1, <3>2
    <2> HIDE DEF closes
    <2>5. T = {c.stats.tics} /\ closes # {}
      BY <2>2, <2>4
    <2> HIDE DEF T, d
    <2>6. c.stats.tics \in 0..MaxTics
      BY <1>3 DEF Counts
    <2>7. T \in SUBSET (0..MaxTics)
      BY <2>5, <2>6
    <2>8. Max({0} \cup T) = c.stats.tics
      <3>1. \A x \in 0..MaxTics : T = {x} => Max({0} \cup T) = x
        BY <2>7, Best, Numbers
      <3> QED BY <2>5, <2>6, <3>1
    <2> QED BY <2>2, <2>3, <2>5, <2>8
  <1>9. c.stats.kills <= d.stats.kills
    <2>1. PICK i \in DOMAIN emitted : emitted[i].map = m /\ c.stats.kills <= emitted[i].stats.kills
      BY <1>4 DEF Sourced, KillsShown
    <2>2. emitted[i].stats.kills <= d.stats.kills /\ emitted[i].stats.kills \in Nat
      BY <1>5, <1>7, <2>1
    <2> HIDE DEF d, c
    <2> QED BY <1>5, <1>6, <2>1, <2>2
  <1>10. c.stats.items <= d.stats.items
    <2>1. PICK i \in DOMAIN emitted : emitted[i].map = m /\ c.stats.items <= emitted[i].stats.items
      BY <1>4 DEF Sourced, ItemsShown
    <2>2. emitted[i].stats.items <= d.stats.items /\ emitted[i].stats.items \in Nat
      BY <1>5, <1>7, <2>1
    <2> HIDE DEF d, c
    <2> QED BY <1>5, <1>6, <2>1, <2>2
  <1> HIDE DEF c, d
  <1>11. MapScore(c) \in Nat /\ MapScore(d) \in Nat /\ MapScore(c) <= MapScore(d)
    BY <1>3, <1>5, <1>6, <1>8, <1>9, <1>10, MapScoreBound
  <1> QED BY <1>8, <1>11 DEF c, d

\* A set that can be told apart by the members of a finite one is no larger.
LEMMA Narrow ==
    ASSUME NEW S, NEW T, IsFiniteSet(T), NEW f \in [S -> T],
           \A a, b \in S : f[a] = f[b] => a = b
    PROVE  Cardinality(S) \in Nat /\ Cardinality(T) \in Nat /\ Cardinality(S) <= Cardinality(T)
  <1>1. f \in Injection(S, T)
    BY DEF Injection, IsInjective
  <1>2. IsFiniteSet(S) /\ Cardinality(S) <= Cardinality(T)
    BY <1>1, FS_Injection
  <1> QED BY <1>2, FS_CardinalityType

LEMMA ScoreSum ==
    ASSUME NEW a \in Nat, NEW b \in Nat, NEW x \in Nat, NEW y \in Nat, a <= b, x <= y
    PROVE  Sat(a + Sat(x * DEPTH_BONUS_PER_MAP)) <= Sat(b + Sat(y * DEPTH_BONUS_PER_MAP))
  <1> DEFINE p == x * DEPTH_BONUS_PER_MAP
             q == y * DEPTH_BONUS_PER_MAP
  <1>1. p \in Nat /\ q \in Nat /\ p <= q
    BY Numbers, Times
  <1> HIDE DEF p, q
  <1>2. Sat(p) \in Nat /\ Sat(q) \in Nat /\ Sat(p) <= Sat(q)
    BY <1>1, SatType
  <1>3. Sat(a + Sat(p)) <= Sat(b + Sat(q))
    BY <1>2, SatStep
  <1> QED BY <1>3 DEF p, q

LEMMA Bounded == IInv => (~MayAbandon => NeverOverscored)
  <1> SUFFICES ASSUME IInv, ~MayAbandon PROVE NeverOverscored
    OBVIOUS
  <1>1. EngineInv /\ RunInv /\ EngineTypes /\ AllSourced /\ InOrder
        /\ maps \in Seq(Entries) /\ emitted \in Seq(Lines)
    BY DEF IInv, EngineInv, EngineTypes, RunInv, RunTypes
  <1> DEFINE D == DOMAIN maps
             R == DOMAIN Rotation
             full == [i \in R |-> Played(emitted, Rotation[i])]
             place == [n \in D |-> Pos(maps[n].map)]
             s == [n \in D |-> MapScore(maps[n])]
             t == [i \in R |-> MapScore(full[i])]
             done == {n \in D : maps[n].completed}
             exited == {i \in R : full[i].completed}
  <1>2. /\ D = 1..Len(maps) /\ Len(maps) \in Nat /\ R = 1..Len(Rotation) /\ Len(Rotation) \in Nat
    BY <1>1, Positions
  <1>3. \A n \in D : maps[n].map \in MapNames /\ Pos(maps[n].map) \in R
                       /\ Rotation[Pos(maps[n].map)] = maps[n].map
    BY <1>1, EntryBehind, Positions
  <1>4. \A n \in D : /\ MapScore(maps[n]) \in Nat
                     /\ MapScore(maps[n]) <= MapScore(Played(emitted, maps[n].map))
                     /\ maps[n].completed => Played(emitted, maps[n].map).completed
    BY <1>1, EntryBounded
  <1>5. \A n \in D : full[place[n]] = Played(emitted, maps[n].map) /\ place[n] \in R
    BY <1>3
  <1>6. \A i \in R : MapScore(full[i]) \in Nat
    <2> SUFFICES ASSUME NEW i \in R PROVE MapScore(full[i]) \in Nat
      OBVIOUS
    <2> DEFINE m == Rotation[i]
               d == Played(emitted, m)
    <2>1. m \in MapNames /\ full[i] = d
      BY Positions
    <2>2. d.completed \in BOOLEAN /\ d.stats.kills \in Nat /\ d.stats.items \in Nat /\ d.stats.tics \in Nat
      BY <1>1, <2>1, PlayedType
    <2> HIDE DEF d, full
    <2>3. MapScore(d) \in Nat
      BY <2>2, MapScoreBound
    <2> QED BY <2>1, <2>3
  <1>7. /\ RunScore(maps) = Sat(SatTotal(s) + Sat(Cardinality(done) * DEPTH_BONUS_PER_MAP))
    BY DEF RunScore, MapsCompleted
  <1>8. RunScore(full) = Sat(SatTotal(t) + Sat(Cardinality(exited) * DEPTH_BONUS_PER_MAP))
    <2>1. DOMAIN full = R
      OBVIOUS
    <2> QED BY <2>1 DEF RunScore, MapsCompleted
  <1>9. PlayedScore(emitted) = RunScore(full)
    BY DEF PlayedScore
  <1>10. \A n, k \in D : n < k => place[n] < place[k]
    BY <1>1 DEF InOrder
  <1>11. \A n \in D : s[n] \in Nat /\ s[n] <= t[place[n]]
    BY <1>4, <1>5
  <1>12. s \in Seq(Nat) /\ t \in Seq(Nat) /\ DOMAIN s = D /\ DOMAIN t = R /\ place \in [D -> R]
    <2>1. s \in [1..Len(maps) -> Nat]
      BY <1>2, <1>4
    <2>2. t \in [1..Len(Rotation) -> Nat]
      BY <1>2, <1>6
    <2>3. place \in [D -> R]
      BY <1>5
    <2> QED BY <1>2, <2>1, <2>2, <2>3, IsASeq
  <1>13. \A n \in D : n \in done => place[n] \in exited
    BY <1>4, <1>5
  <1> HIDE DEF s, t, place, full, D, R, done, exited
  <1>14. SatTotal(s) <= SatTotal(t) /\ SatTotal(s) \in Nat /\ SatTotal(t) \in Nat
    BY <1>10, <1>11, <1>12, SatTotalBound
  <1>15. Cardinality(done) \in Nat /\ Cardinality(exited) \in Nat /\ Cardinality(done) <= Cardinality(exited)
    <2> DEFINE f == [n \in done |-> place[n]]
    <2>1. done \subseteq D /\ exited \subseteq R
      BY DEF done, exited
    <2>2. f \in [done -> exited]
      BY <1>13, <2>1
    <2>3. ASSUME NEW a \in done, NEW b \in done, f[a] = f[b] PROVE a = b
      <3>1. place[a] = place[b] /\ a \in D /\ b \in D /\ a \in Nat /\ b \in Nat
        BY <1>2, <2>1, <2>3
      <3>2. place[a] \in Nat
        <4>1. place[a] \in R
          BY <1>12, <3>1
        <4> QED BY <1>2, <4>1
      <3>3. ~(a < b) /\ ~(b < a)
        BY <1>10, <3>1, <3>2
      <3> QED BY <3>1, <3>3
    <2> HIDE DEF f
    <2>4. IsFiniteSet(exited)
      <3>1. IsFiniteSet(R)
        BY <1>2, FS_Interval
      <3> QED BY <2>1, <3>1, FS_Subset
    <2> QED BY <2>2, <2>3, <2>4, Narrow
  <1>16. RunScore(maps) <= RunScore(full)
    BY <1>7, <1>8, <1>14, <1>15, ScoreSum
  <1> QED BY <1>9, <1>16 DEF NeverOverscored

\* A guard aside that may end a run at any moment, the score recorded so far never exceeds
\* what was played: not for lines lost on the FIFO, nor for those the lagging stdout copy
\* replays, nor for the tail a kill cuts off, whatever the rotation and the counters.
THEOREM NeverOverscoredSafe == PipelineSpec => [](~MayAbandon => NeverOverscored)
  <1> QED BY OrderlyRun, Bounded, PTL

\* A guard aside, a map counts as completed only if the player took its exit: neither the
\* unload after a death, nor the one the teardown causes, nor a replay earns the bonus.
THEOREM CompletedWasExitedSafe == PipelineSpec => [](~MayAbandon => CompletedWasExited)
  <1>1. IInv => (~MayAbandon => CompletedWasExited)
    <2> SUFFICES ASSUME IInv, ~MayAbandon, NEW n \in DOMAIN maps, maps[n].completed
                 PROVE  maps[n].map \in exits
      BY DEF CompletedWasExited
    <2>1. PICK i \in DOMAIN emitted : Backs(emitted[i], maps[n])
      BY DEF IInv, RunInv, AllSourced, Sourced
    <2> QED BY <2>1 DEF Backs
  <1> QED BY <1>1, OrderlyRun, PTL

-----------------------------------------------------------------------------
\* What the supervisor adds up with saturation the server adds up exactly.
LEMMA ColumnExact ==
    ASSUME NEW s, NEW n \in Nat, NEW most \in Nat, s \in [1..n -> 0..most],
           n * most <= MaxInt
    PROVE  SatTotal(s) = Total(s) /\ SatTotal(s) \in Nat
  <1>1. s \in Seq(0..most) /\ Len(s) = n
    BY IsASeq
  <1>2. Len(s) * most <= MaxInt
    BY <1>1
  <1> QED BY <1>1, <1>2, SatTotalExact

LEMMA Fits ==
    ASSUME NEW n \in Nat, NEW most \in {Monsters, Items, MaxTics}, n <= Len(Rotation)
    PROVE  n * most <= MaxInt /\ most \in Nat
  <1>1. most \in Nat /\ Len(Rotation) \in Nat
    BY Numbers, Positions
  <1>2. n * most <= Len(Rotation) * most /\ n * most \in Nat /\ Len(Rotation) * most \in Nat
    BY <1>1, Times
  <1>3. Len(Rotation) * most <= MaxInt
    BY PipelineAssumption
  <1> QED BY <1>1, <1>2, <1>3, Numbers

\* A list of entries is submitted as the server wants it, if there are not too many.
LEMMA SubmittedValid ==
    ASSUME NEW list \in Seq(Entries), Len(list) <= Len(Rotation), NEW reason,
           ~(reason = "Complete" /\ list = <<>>)
    PROVE  Validate(Submitted(reason, list))
  <1> DEFINE n == Len(list)
             rows == Rows(list)
             sub == Submitted(reason, list)
             D == DOMAIN list
  <1>1. n \in Nat /\ D = 1..n
    OBVIOUS
  <1>2. \A i \in D : list[i] \in Entries
    <2> DEFINE T == Entries
    <2> HIDE DEF T
    <2>1. list \in Seq(T)
      BY DEF T
    <2>2. \A i \in D : list[i] \in T
      BY <2>1
    <2> QED BY <2>2 DEF T
  <1>3. \A i \in D : list[i].stats \in Counts /\ list[i].completed \in BOOLEAN
    BY <1>2 DEF Entries
  <1>4. \A i \in D : /\ list[i].stats.kills \in 0..Monsters /\ list[i].stats.items \in 0..Items
                     /\ list[i].stats.tics \in 0..MaxTics
                     /\ list[i].stats.kills \in Nat /\ list[i].stats.items \in Nat
                     /\ list[i].stats.tics \in Nat /\ list[i].stats.total \in Nat
                     /\ list[i].stats.total > 0 => list[i].stats.kills <= list[i].stats.total
    <2> SUFFICES ASSUME NEW i \in D
                 PROVE  /\ list[i].stats.kills \in 0..Monsters /\ list[i].stats.items \in 0..Items
                        /\ list[i].stats.tics \in 0..MaxTics
                        /\ list[i].stats.kills \in Nat /\ list[i].stats.items \in Nat
                        /\ list[i].stats.tics \in Nat /\ list[i].stats.total \in Nat
                        /\ list[i].stats.total > 0 => list[i].stats.kills <= list[i].stats.total
      OBVIOUS
    <2> DEFINE c == list[i].stats
    <2>1. c \in Counts
      BY <1>3
    <2> HIDE DEF c
    <2>2. c.kills \in 0..Monsters /\ c.items \in 0..Items /\ c.tics \in 0..MaxTics
      BY <2>1 DEF Counts
    <2> QED BY <2>1, <2>2, CountsType DEF c
  <1>5. /\ DOMAIN rows = D
        /\ \A i \in D : /\ rows[i].seq = i - 1 /\ rows[i].stats = list[i].stats
                        /\ rows[i].completed = list[i].completed
                        /\ rows[i].map_score = MapScore(list[i])
                        /\ MapScore(rows[i]) = MapScore(list[i])
    <2>1. DOMAIN rows = D
      BY DEF Rows
    <2>2. \A i \in D : /\ rows[i].seq = i - 1 /\ rows[i].stats = list[i].stats
                       /\ rows[i].completed = list[i].completed
                       /\ rows[i].map_score = MapScore(list[i])
      BY DEF Rows
    <2>3. \A i \in D : MapScore(rows[i]) = MapScore(list[i])
      BY <2>2 DEF MapScore
    <2> QED BY <2>1, <2>2, <2>3
  <1>6. Len(rows) = n
    <2>1. rows \in [1..n -> {rows[i] : i \in D}]
      BY <1>1 DEF Rows
    <2> QED BY <1>1, <2>1, IsASeq
  <1>7. rows # <<>> \/ list = <<>>
    <2>1. CASE n = 0
      BY <2>1, EmptySeq
    <2>2. CASE n # 0
      BY <1>6, <2>2
    <2> QED BY <2>1, <2>2
  <1>8. /\ sub.end_reason = reason /\ sub.maps_completed = MapsCompleted(list)
        /\ sub.kills = SatSum(list, "kills") /\ sub.items = SatSum(list, "items")
        /\ sub.total_tics = SatSum(list, "tics") /\ sub.run_score = RunScore(list)
        /\ sub.maps = rows
    BY DEF Submitted
  <1> HIDE DEF rows, sub, D, n
  <1>9. n <= MAX_MAPS
    BY <1>1, PipelineAssumption, SubmissionAssumption, Positions DEF n
  <1>10. MapsCompleted(rows) = MapsCompleted(list) /\ MapsCompleted(list) \in Nat
    <2>1. MapsCompleted(rows) = MapsCompleted(list)
      <3>1. {i \in DOMAIN rows : rows[i].completed} = {i \in DOMAIN list : list[i].completed}
        BY <1>5 DEF D
      <3> QED BY <3>1 DEF MapsCompleted
    <2>2. IsFiniteSet(D)
      BY <1>1, FS_Interval
    <2>3. IsFiniteSet({i \in D : list[i].completed})
      BY <2>2, FS_Subset
    <2> QED BY <2>1, <2>3, FS_CardinalityType DEF MapsCompleted, D
  <1>11. Sum(rows, "kills") = SatSum(list, "kills") /\ SatSum(list, "kills") \in Nat
    <2> DEFINE s == [i \in D |-> list[i].stats.kills]
    <2>1. s \in [1..n -> 0..Monsters]
      BY <1>1, <1>4
    <2>2. Column(rows, "kills") = s /\ Column(list, "kills") = s
      BY <1>5 DEF Column, D
    <2> HIDE DEF s
    <2>3. SatTotal(s) = Total(s) /\ SatTotal(s) \in Nat
      BY <1>1, <2>1, Fits, ColumnExact DEF n
    <2> QED BY <2>2, <2>3 DEF Sum, SatSum
  <1>12. Sum(rows, "items") = SatSum(list, "items") /\ SatSum(list, "items") \in Nat
    <2> DEFINE s == [i \in D |-> list[i].stats.items]
    <2>1. s \in [1..n -> 0..Items]
      BY <1>1, <1>4
    <2>2. Column(rows, "items") = s /\ Column(list, "items") = s
      BY <1>5 DEF Column, D
    <2> HIDE DEF s
    <2>3. SatTotal(s) = Total(s) /\ SatTotal(s) \in Nat
      BY <1>1, <2>1, Fits, ColumnExact DEF n
    <2> QED BY <2>2, <2>3 DEF Sum, SatSum
  <1>13. Sum(rows, "tics") = SatSum(list, "tics") /\ SatSum(list, "tics") \in Nat
    <2> DEFINE s == [i \in D |-> list[i].stats.tics]
    <2>1. s \in [1..n -> 0..MaxTics]
      BY <1>1, <1>4
    <2>2. Column(rows, "tics") = s /\ Column(list, "tics") = s
      BY <1>5 DEF Column, D
    <2> HIDE DEF s
    <2>3. SatTotal(s) = Total(s) /\ SatTotal(s) \in Nat
      BY <1>1, <2>1, Fits, ColumnExact DEF n
    <2> QED BY <2>2, <2>3 DEF Sum, SatSum
  <1>14. \A i \in D : MapScore(list[i]) \in Nat
    <2> SUFFICES ASSUME NEW i \in D PROVE MapScore(list[i]) \in Nat
      OBVIOUS
    <2> DEFINE c == list[i]
    <2>1. c.completed \in BOOLEAN /\ c.stats.kills \in Nat /\ c.stats.items \in Nat /\ c.stats.tics \in Nat
      BY <1>3, <1>4
    <2> HIDE DEF c
    <2>2. MapScore(c) \in Nat
      BY <2>1, MapScoreBound
    <2> QED BY <2>2 DEF c
  <1>15. RunScore(rows) = RunScore(list) /\ RunScore(list) \in Nat
    <2> DEFINE s == [i \in D |-> MapScore(list[i])]
    <2>1. [i \in DOMAIN rows |-> MapScore(rows[i])] = s /\ [i \in DOMAIN list |-> MapScore(list[i])] = s
      BY <1>5 DEF D
    <2>2. s \in Seq(Nat)
      <3>1. s \in [1..n -> Nat]
        BY <1>1, <1>14
      <3> QED BY <1>1, <3>1, IsASeq
    <2> HIDE DEF s
    <2> DEFINE a == SatTotal(s)
               b == MapsCompleted(list) * DEPTH_BONUS_PER_MAP
    <2>3. RunScore(rows) = Sat(a + Sat(b)) /\ RunScore(list) = Sat(a + Sat(b))
      BY <1>10, <2>1 DEF RunScore
    <2>4. PICK f : SatSums(f, s) /\ a = f[Len(s)]
      BY <2>2, SatTotalFolds
    <2>5. a \in Nat
      <3>1. f \in [0..Len(s) -> 0..MaxInt] /\ Len(s) \in Nat
        BY <2>2, <2>4 DEF SatSums
      <3>2. f[Len(s)] \in 0..MaxInt
        BY <3>1
      <3> QED BY <2>4, <3>2
    <2>6. b \in Nat
      BY <1>10, Numbers, Times
    <2> HIDE DEF a, b
    <2>7. Sat(b) \in Nat
      BY <2>6, SatType
    <2>8. Sat(a + Sat(b)) \in Nat
      BY <2>5, <2>7, SatType
    <2> QED BY <2>3, <2>8
  <1>16. \A i \in D : RowPlausible(rows[i])
    <2> SUFFICES ASSUME NEW i \in D PROVE RowPlausible(rows[i])
      OBVIOUS
    <2> DEFINE c == list[i].stats
    <2>1. rows[i].stats = c /\ rows[i].map_score \in Nat
      BY <1>5, <1>14
    <2>2. c \in Counts
      BY <1>3
    <2> HIDE DEF c
    <2>3. \A field \in DOMAIN c : c[field] >= 0
      BY <2>2, Numbers DEF Counts
    <2>4. c.total > 0 => c.kills <= c.total
      BY <2>2, CountsType
    <2> QED BY <2>1, <2>3, <2>4 DEF RowPlausible
  <1>17. ~(sub.end_reason = "Complete" /\ sub.maps = <<>>)
    BY <1>7, <1>8
  <1>18. \A k \in {sub.maps_completed, sub.kills, sub.items, sub.total_tics, sub.run_score} : k >= 0
    BY <1>8, <1>10, <1>11, <1>12, <1>13, <1>15
  <1>19. Len(sub.maps) <= MAX_MAPS
    BY <1>6, <1>8, <1>9
  <1>20. \A i \in DOMAIN sub.maps : sub.maps[i].seq = i - 1 /\ RowPlausible(sub.maps[i])
    BY <1>5, <1>8, <1>16
  <1> QED BY <1>8, <1>10, <1>11, <1>12, <1>13, <1>15, <1>17, <1>18, <1>19, <1>20 DEF Validate, sub

LEMMA Initial ==
    ASSUME NEW n \in Nat
    PROVE  IsFiniteSet(1..n) /\ Cardinality(1..n) = n
  <1>1. IsFiniteSet(1..n) /\ Cardinality(1..n) = (IF 1 > n THEN 0 ELSE n - 1 + 1)
    BY FS_Interval
  <1> QED BY <1>1

\* No map is recorded twice, so there are no more entries than maps in the rotation.
LEMMA FewEntries ==
    ASSUME EngineInv, RunInv
    PROVE  Len(maps) \in Nat /\ Len(maps) <= Len(Rotation)
  <1>1. /\ maps \in Seq(Entries) /\ AllSourced /\ InOrder
    BY DEF RunInv, RunTypes
  <1> DEFINE D == 1..Len(maps)
             R == 1..Len(Rotation)
             f == [n \in D |-> Pos(maps[n].map)]
  <1>2. Len(maps) \in Nat /\ D = DOMAIN maps /\ Len(Rotation) \in Nat /\ R = DOMAIN Rotation
    BY <1>1, Positions
  <1>3. \A n \in D : Pos(maps[n].map) \in R
    BY <1>1, <1>2, EntryBehind, Positions
  <1>4. \A n, k \in D : n < k => f[n] < f[k]
    BY <1>1, <1>2 DEF InOrder
  <1>5. f \in [D -> R]
    BY <1>3
  <1> HIDE DEF f
  <1>6. ASSUME NEW a \in D, NEW b \in D, f[a] = f[b] PROVE a = b
    <2>1. a \in Nat /\ b \in Nat
      BY <1>2
    <2>2. f[a] \in Nat
      <3>1. f[a] \in R
        BY <1>5
      <3> QED BY <1>2, <3>1
    <2>3. ~(a < b) /\ ~(b < a)
      BY <1>4, <1>6, <2>2
    <2> QED BY <2>1, <2>3
  <1>7. IsFiniteSet(R) /\ Cardinality(R) = Len(Rotation) /\ Cardinality(D) = Len(maps)
    BY <1>2, Initial
  <1> HIDE DEF D, R
  <1>8. Cardinality(D) <= Cardinality(R)
    BY <1>5, <1>6, <1>7, Narrow
  <1> QED BY <1>2, <1>7, <1>8

LEMMA FinishSubmits ==
    ASSUME EngineInv, RunInv, Finish
    PROVE  Submittable'
  <1>1. /\ maps \in Seq(Entries) /\ LastClosed /\ open \in BOOLEAN
        /\ Len(maps) \in Nat /\ Len(maps) <= Len(Rotation)
    BY FewEntries DEF RunInv, RunTypes
  <1> DEFINE reason == IF terminal = "None" THEN "Abandoned" ELSE terminal
             closed == IF open THEN [maps EXCEPT ![Len(maps)].completed = FALSE] ELSE maps
             sub == Submitted(reason, closed)
  <1>2. result' = <<sub>>
    BY DEF Finish
  <1>3. closed \in Seq(Entries) /\ Len(closed) = Len(maps)
    <2>1. CASE ~open
      BY <1>1, <2>1
    <2>2. CASE open
      <3>1. maps # <<>>
        BY <1>1, <2>2 DEF LastClosed
      <3>2. Len(maps) \in DOMAIN maps /\ maps[Len(maps)] \in Entries
        BY <1>1, <3>1, LastOf
      <3> DEFINE e == [maps[Len(maps)] EXCEPT !.completed = FALSE]
      <3>3. e \in Entries
        BY <3>2 DEF Entries
      <3>4. closed = [maps EXCEPT ![Len(maps)] = e]
        BY <2>2
      <3> HIDE DEF e, closed
      <3> DEFINE T == Entries
      <3>5. maps \in Seq(T) /\ e \in T
        BY <1>1, <3>3
      <3> HIDE DEF T
      <3>6. [maps EXCEPT ![Len(maps)] = e] \in Seq(T) /\ Len([maps EXCEPT ![Len(maps)] = e]) = Len(maps)
        BY <3>2, <3>5, ExceptSeq
      <3> QED BY <3>4, <3>6 DEF T
    <2> QED BY <1>1, <2>1, <2>2
  <1>4. sub.end_reason = reason /\ sub.maps = Rows(closed)
    BY DEF Submitted
  <1> HIDE DEF closed, sub, reason
  <1>5. CASE reason = "Complete" /\ closed = <<>>
    <2>1. Rows(closed) = <<>>
      BY <1>5 DEF Rows
    <2>2. result'[1] = sub
      BY <1>2
    <2> QED BY <1>4, <1>5, <2>1, <2>2 DEF Submittable
  <1>6. CASE ~(reason = "Complete" /\ closed = <<>>)
    <2>1. Validate(Submitted(reason, closed))
      BY <1>1, <1>3, <1>6, SubmittedValid
    <2>2. result'[1] = sub /\ Validate(sub)
      BY <1>2, <2>1 DEF sub
    <2> QED BY <2>2 DEF Submittable
  <1> QED BY <1>5, <1>6

\* Whatever was lost, replayed or cut off, the run the supervisor makes of it passes the
\* server's validation, but for the completed run without a map that it refuses on purpose.
THEOREM SubmittableSafe == PipelineSpec => []Submittable
  <1>1. PipelineInit => Submittable
    BY DEF PipelineInit, Submittable
  <1>2. IInv /\ Submittable /\ [PipelineNext]_vars => Submittable'
    <2> SUFFICES ASSUME IInv, Submittable, [PipelineNext]_vars PROVE Submittable'
      OBVIOUS
    <2>1. CASE Finish
      BY <2>1, FinishSubmits DEF IInv
    <2>2. CASE ~Finish
      <3>1. result' = result
        BY <2>2 DEF PipelineNext, Engine, Signal, EngineExit, FifoLine, StaleFifoLine,
                    LoseFifoLine, FifoCloses, StdoutLine, LoseStdoutTail, vars
      <3> QED BY <3>1 DEF Submittable
    <2> QED BY <2>1, <2>2
  <1> QED BY <1>1, <1>2, OrderlyRun, PTL DEF PipelineSpec
-----------------------------------------------------------------------------
\* What the lines say.  A step of the engine enters a map, plays on in it, kills the player,
\* unloads the map of a living player, or is silent.
Bare(line) == line.stats.kills = 0 /\ line.stats.items = 0

Enters(new) ==
    /\ phase = "Loading" /\ phase' = "InMap" /\ at' = at /\ runStarted'
    /\ \/ runStarted /\ playerDead' = playerDead /\ bankedScore' = bankedScore
       \/ ~runStarted /\ ~playerDead' /\ bankedScore' = 0
    /\ \A i \in DOMAIN new : new[i].event \in {"RunStart", "LevelEnter"} /\ Bare(new[i])

Plays(new) ==
    /\ phase = "InMap" /\ phase' = "InMap" /\ at' = at
    /\ runStarted' = runStarted /\ playerDead' = playerDead /\ bankedScore' = bankedScore
    /\ killed <= killed' /\ items <= items'
    /\ \A i \in DOMAIN new :
         \/ new[i].event = "RunQuit" /\ Bare(new[i])
         \/ /\ new[i].event = "Progress" /\ ~playerDead
            /\ new[i].stats.kills = killed' /\ new[i].stats.items = items'

Dies(new) ==
    /\ phase = "InMap" /\ phase' = "InMap" /\ at' = at
    /\ ~playerDead /\ playerDead' /\ runStarted' = runStarted /\ bankedScore' = bankedScore
    /\ 1 \in DOMAIN new
    /\ \A i \in DOMAIN new : /\ new[i].event = "PlayerDied"
                             /\ new[i].stats.kills = killed /\ new[i].stats.items = 0

Unloads(new) ==
    /\ phase = "InMap" /\ ~playerDead /\ ~playerDead' /\ runStarted' = runStarted
    /\ \/ at' = at /\ phase' \in {"Title", "Exited"}
       \/ at' = at + 1 /\ phase' = "Loading"
    /\ bankedScore' = bankedScore + HudMapScore
    /\ 1 \in DOMAIN new /\ new[1].event = "LevelComplete" /\ new[1].stats = Counters
    /\ \A i \in DOMAIN new : i # 1 =>
         new[i].event = "RunComplete" /\ Bare(new[i]) /\ i = Len(new) /\ phase' # "Loading"

Silent(new) ==
    /\ new = <<>>
    /\ phase # "Exited" /\ (phase' = "Exited" \/ (phase = "InMap" /\ playerDead /\ phase' # "InMap"))
    /\ runStarted' = runStarted /\ playerDead' = playerDead /\ bankedScore' = bankedScore

Tells(new) == Adds(new) /\ (Enters(new) \/ Plays(new) \/ Dies(new) \/ Unloads(new) \/ Silent(new))

\* What a line of each kind carries of the engine's counters.
LEMMA LineStats ==
    ASSUME EngineTypes, NEW kind \in Run!Kinds
    PROVE  /\ Line(kind).stats = Carried(kind) /\ Carried(kind) \in Counts
           /\ \A n \in 0..MaxTics : /\ [Line(kind) EXCEPT !.stats.tics = n].stats.kills = Carried(kind).kills
                                    /\ [Line(kind) EXCEPT !.stats.tics = n].stats.items = Carried(kind).items
           /\ kind \in {"LevelComplete", "Progress"} =>
                Carried(kind) = Counters /\ Carried(kind).kills = killed /\ Carried(kind).items = items
           /\ kind = "PlayerDied" => Carried(kind).kills = killed /\ Carried(kind).items = 0
           /\ kind \notin {"LevelComplete", "Progress", "PlayerDied"} =>
                Carried(kind).kills = 0 /\ Carried(kind).items = 0
  <1>1. /\ Counters \in Counts /\ Counters.kills = killed /\ Counters.items = items
        /\ Nothing \in Counts /\ Nothing.kills = 0 /\ Nothing.items = 0
    BY Numbers DEF Counters, Nothing, Counts, EngineTypes
  <1> DEFINE dead == [Nothing EXCEPT !.kills = killed, !.tics = maptime]
             quit == [Nothing EXCEPT !.tics = maptime]
  <1>2. dead \in Counts /\ dead.kills = killed /\ dead.items = 0
    <2>1. killed \in 0..Monsters /\ maptime \in 0..MaxTics
      BY DEF EngineTypes
    <2> DEFINE z == Nothing
    <2>2. z \in Counts /\ z.items = 0
      BY <1>1
    <2> HIDE DEF z
    <2>3. /\ [z EXCEPT !.kills = killed, !.tics = maptime] \in Counts
          /\ [z EXCEPT !.kills = killed, !.tics = maptime].kills = killed
          /\ [z EXCEPT !.kills = killed, !.tics = maptime].items = z.items
      BY <2>1, <2>2 DEF Counts
    <2> QED BY <2>2, <2>3 DEF z
  <1>3. quit \in Counts /\ quit.kills = 0 /\ quit.items = 0
    BY <1>1, Patched DEF EngineTypes
  <1>4. Carried(kind) = CASE kind \in {"LevelComplete", "Progress"} -> Counters
                          [] kind = "PlayerDied" -> dead
                          [] kind = "RunQuit" -> quit
                          [] OTHER -> Nothing
    BY DEF Carried
  <1> HIDE DEF dead, quit
  <1>5. /\ Carried(kind) \in Counts
        /\ kind \in {"LevelComplete", "Progress"} => Carried(kind) = Counters
        /\ kind = "PlayerDied" => Carried(kind) = dead
        /\ kind \notin {"LevelComplete", "Progress", "PlayerDied"} => Carried(kind) \in {quit, Nothing}
    BY <1>1, <1>2, <1>3, <1>4
  <1> DEFINE c == Carried(kind)
  <1> HIDE DEF c
  <1>6. Line(kind) = [event |-> kind, session |-> Session, map |-> Map, stats |-> c]
    BY DEF Line, c
  <1>7. c \in Counts
    BY <1>5 DEF c
  <1>8. Line(kind).stats = c
    BY <1>6
  <1>9. ASSUME NEW n \in 0..MaxTics
        PROVE  /\ [Line(kind) EXCEPT !.stats.tics = n].stats.kills = c.kills
               /\ [Line(kind) EXCEPT !.stats.tics = n].stats.items = c.items
    <2>1. [Line(kind) EXCEPT !.stats.tics = n].stats = [c EXCEPT !.tics = n]
      BY <1>6
    <2>2. [c EXCEPT !.tics = n].kills = c.kills /\ [c EXCEPT !.tics = n].items = c.items
      BY <1>7 DEF Counts
    <2> QED BY <2>1, <2>2
  <1> QED BY <1>1, <1>2, <1>3, <1>5, <1>8, <1>9 DEF c

\* The unload of a living player's map.
LEMMA UnloadTells ==
    ASSUME EngineTypes, WorldUnloaded, runStarted, ~playerDead
    PROVE  /\ bankedScore' = bankedScore + HudMapScore
           /\ \E new : /\ Adds(new)
                       /\ 1 \in DOMAIN new /\ new[1].event = "LevelComplete" /\ new[1].stats = Counters
                       /\ \A i \in DOMAIN new : i # 1 =>
                            new[i].event = "RunComplete" /\ Bare(new[i]) /\ i = Len(new) /\ LastMap
  <1> DEFINE a == Line("LevelComplete")
             b == Line("RunComplete")
             T == Lines
  <1>1. a \in T /\ a.map = Map /\ a.event = "LevelComplete" /\ a.stats = Counters
    BY LineType, LineStats DEF Run!Kinds
  <1>2. b \in T /\ b.map = Map /\ b.event = "RunComplete" /\ Bare(b)
    BY LineType, LineStats DEF Run!Kinds, Bare
  <1>3. /\ bankedScore' = bankedScore + HudMapScore
        /\ emitted' = emitted \o (<<a>> \o (IF LastMap THEN <<b>> ELSE <<>>))
    BY DEF WorldUnloaded, Emit
  <1> HIDE DEF a, b, T
  <1>4. CASE LastMap
    <2> DEFINE new == <<a, b>>
    <2>1. new \in Seq(T) /\ DOMAIN new = {1, 2} /\ new[1] = a /\ new[2] = b
          /\ <<a>> \o <<b>> = new /\ Len(new) = 2
      BY <1>1, <1>2, Two
    <2>2. emitted' = emitted \o new
      BY <1>3, <1>4, <2>1
    <2> HIDE DEF new
    <2>3. Adds(new)
      BY <1>1, <1>2, <2>1, <2>2 DEF Adds, T
    <2>4. 1 \in DOMAIN new /\ new[1].event = "LevelComplete" /\ new[1].stats = Counters
      BY <1>1, <2>1
    <2>5. \A i \in DOMAIN new : i # 1 => new[i].event = "RunComplete" /\ Bare(new[i]) /\ i = Len(new)
      BY <1>2, <2>1
    <2> QED BY <1>3, <1>4, <2>3, <2>4, <2>5
  <1>5. CASE ~LastMap
    <2> DEFINE new == <<a>>
    <2>1. new \in Seq(T) /\ DOMAIN new = {1} /\ new[1] = a /\ new \o <<>> = new
      BY <1>1, One
    <2>2. emitted' = emitted \o new
      BY <1>3, <1>5, <2>1
    <2> HIDE DEF new
    <2>3. Adds(new)
      BY <1>1, <2>1, <2>2 DEF Adds, T
    <2>4. 1 \in DOMAIN new /\ new[1].event = "LevelComplete" /\ new[1].stats = Counters
      BY <1>1, <2>1
    <2>5. \A i \in DOMAIN new : i = 1
      BY <2>1
    <2> QED BY <1>3, <2>3, <2>4, <2>5
  <1> QED BY <1>4, <1>5

\* A step that reports nothing adds nothing.
LEMMA NothingTold ==
    ASSUME EngineTypes, emitted' = emitted
    PROVE  Adds(<<>>)
  <1> DEFINE T == Lines
  <1>1. emitted \in Seq(T)
    BY DEF EngineTypes
  <1> HIDE DEF T
  <1>2. emitted \o <<>> = emitted /\ <<>> \in Seq(T)
    BY <1>1, None
  <1> QED BY <1>2 DEF Adds, T

\* The lines of one tic: the heartbeat, then the end of the hold.
LEMMA TickTells ==
    ASSUME EngineTypes, WorldTick
    PROVE  \E new : Adds(new) /\ Plays(new)
  <1> DEFINE a == [Line("Progress") EXCEPT !.stats.tics = maptime + 1]
             b == [Line("RunQuit") EXCEPT !.stats.tics = maptime + 1]
             T == Lines
             one == IF Heartbeat(maptime + 1) THEN <<a>> ELSE <<>>
             two == IF HoldDone THEN <<b>> ELSE <<>>
             new == one \o two
             Said(line) == \/ line.event = "RunQuit" /\ Bare(line)
                           \/ /\ line.event = "Progress"
                              /\ line.stats.kills = killed /\ line.stats.items = items
  <1>1. /\ phase = "InMap" /\ phase' = "InMap" /\ runStarted' = runStarted
        /\ ~playerDead /\ playerDead' = playerDead /\ at' = at /\ bankedScore' = bankedScore
        /\ maptime' = maptime + 1 /\ maptime < MaxTics /\ killed' = killed /\ items' = items
    BY DEF WorldTick, level
  <1>2. emitted' = emitted \o new
    BY DEF WorldTick, Emit
  <1>3. maptime + 1 \in 0..MaxTics /\ killed \in Nat /\ items \in Nat
    BY <1>1, Numbers DEF EngineTypes
  <1>4. a \in T /\ a.map = Map /\ a.event = "Progress" /\ a.stats.kills = killed /\ a.stats.items = items
    BY <1>3, LineType, LineStats DEF Run!Kinds
  <1>5. b \in T /\ b.map = Map /\ b.event = "RunQuit" /\ Bare(b)
    BY <1>3, LineType, LineStats DEF Run!Kinds, Bare
  <1>6. Said(a) /\ Said(b)
    BY <1>4, <1>5
  <1> HIDE DEF a, b, T, Said
  <1>7. /\ one \in Seq(T) /\ \A i \in DOMAIN one : one[i].map = Map /\ Said(one[i])
    BY <1>4, <1>6, One, None
  <1>8. /\ two \in Seq(T) /\ \A i \in DOMAIN two : two[i].map = Map /\ Said(two[i])
    BY <1>5, <1>6, One, None
  <1> HIDE DEF one, two
  <1>9. /\ new \in Seq(T)
        /\ \A i \in DOMAIN new : new[i].map = Map /\ Said(new[i])
    <2>1. /\ new \in Seq(T) /\ Len(new) = Len(one) + Len(two)
          /\ \A i \in 1..Len(one) : new[i] = one[i]
          /\ \A i \in 1..Len(two) : new[Len(one) + i] = two[i]
      BY <1>7, <1>8, ConcatProperties
    <2> HIDE DEF new
    <2>2. ASSUME NEW i \in DOMAIN new
          PROVE  new[i].map = Map /\ Said(new[i])
      <3>1. i \in 1..Len(new) /\ Len(one) \in Nat /\ Len(two) \in Nat
            /\ DOMAIN one = 1..Len(one) /\ DOMAIN two = 1..Len(two)
        BY <1>7, <1>8, <2>1
      <3>2. CASE i \in 1..Len(one)
        BY <1>7, <2>1, <3>1, <3>2
      <3>3. CASE i \notin 1..Len(one)
        <4>1. i - Len(one) \in 1..Len(two) /\ Len(one) + (i - Len(one)) = i
          BY <2>1, <3>1, <3>3
        <4>2. new[i] = two[i - Len(one)]
          BY <2>1, <4>1
        <4> QED BY <1>8, <3>1, <4>1, <4>2
      <3> QED BY <3>2, <3>3
    <2> QED BY <2>1, <2>2
  <1> HIDE DEF new
  <1>10. Adds(new)
    BY <1>2, <1>9 DEF Adds, T
  <1>11. \A i \in DOMAIN new : \/ new[i].event = "RunQuit" /\ Bare(new[i])
                               \/ /\ new[i].event = "Progress"
                                  /\ new[i].stats.kills = killed /\ new[i].stats.items = items
    BY <1>9 DEF Said
  <1>12. Plays(new)
    BY <1>1, <1>3, <1>11 DEF Plays
  <1> QED BY <1>10, <1>12

\* Entering a map says so, after the start of the run if it is the first.
LEMMA LoadTells ==
    ASSUME EngineTypes, WorldLoaded
    PROVE  \E new : Adds(new) /\ Enters(new)
  <1> DEFINE a == Line("RunStart")
             b == Line("LevelEnter")
             T == Lines
  <1>1. a \in T /\ a.map = Map /\ a.event = "RunStart" /\ Bare(a)
    BY LineType, LineStats DEF Run!Kinds, Bare
  <1>2. b \in T /\ b.map = Map /\ b.event = "LevelEnter" /\ Bare(b)
    BY LineType, LineStats DEF Run!Kinds, Bare
  <1>3. /\ phase = "Loading" /\ phase' = "InMap" /\ runStarted' /\ at' = at
        /\ IF runStarted THEN playerDead' = playerDead /\ bankedScore' = bankedScore
                         ELSE playerDead' = FALSE /\ bankedScore' = 0
        /\ emitted' = emitted \o (IF runStarted THEN <<b>> ELSE <<a, b>>)
    BY DEF WorldLoaded, Emit, EngineTypes
  <1> DEFINE new == IF runStarted THEN <<b>> ELSE <<a, b>>
  <1> HIDE DEF a, b, T
  <1>4. new \in Seq(T) /\ \A i \in DOMAIN new : new[i] \in {a, b}
    <2>1. CASE runStarted
      <3>1. <<b>> \in Seq(T) /\ DOMAIN <<b>> = {1} /\ <<b>>[1] = b
        BY <1>2, One
      <3> QED BY <2>1, <3>1
    <2>2. CASE ~runStarted
      <3>1. <<a, b>> \in Seq(T) /\ DOMAIN <<a, b>> = {1, 2} /\ <<a, b>>[1] = a /\ <<a, b>>[2] = b
        BY <1>1, <1>2, Two
      <3> QED BY <2>2, <3>1
    <2> QED BY <2>1, <2>2
  <1>5. emitted' = emitted \o new
    BY <1>3
  <1> HIDE DEF new
  <1>6. Adds(new)
    BY <1>1, <1>2, <1>4, <1>5 DEF Adds, T
  <1>7. Enters(new)
    BY <1>1, <1>2, <1>3, <1>4 DEF Enters
  <1> QED BY <1>6, <1>7

\* Whatever happens in a map, or at its end, is one of the five ways to add to the log.
LEMMA PlayTells ==
    ASSUME EngineInv, Play \/ Exit \/ Teardown
    PROVE  \E new : Tells(new)
  <1>0. /\ EngineTypes
        /\ phase = "InMap" => runStarted
        /\ killed \in Nat /\ items \in Nat
    BY Numbers DEF EngineInv, AnnouncedFirst, EngineTypes
  <1>1. CASE WorldLoaded
    BY <1>0, <1>1, LoadTells DEF Tells
  <1>2. CASE Score \/ StartDown \/ StartUp
    <2>1. /\ phase = "InMap" /\ phase' = "InMap" /\ at' = at /\ runStarted' = runStarted
          /\ playerDead' = playerDead /\ bankedScore' = bankedScore /\ emitted' = emitted
          /\ killed <= killed' /\ items <= items'
      BY <1>0, <1>2 DEF Score, StartDown, StartUp, level
    <2>2. Adds(<<>>)
      BY <1>0, <2>1, NothingTold
    <2>3. Plays(<<>>)
      BY <2>1 DEF Plays
    <2> QED BY <2>2, <2>3 DEF Tells
  <1>3. CASE WorldTick
    BY <1>0, <1>3, TickTells DEF Tells
  <1>4. CASE WorldThingDied
    <2> DEFINE a == Line("PlayerDied")
               T == Lines
    <2>1. a \in T /\ a.map = Map /\ a.event = "PlayerDied" /\ a.stats.kills = killed /\ a.stats.items = 0
      BY <1>0, LineType, LineStats DEF Run!Kinds
    <2>2. /\ phase = "InMap" /\ phase' = "InMap" /\ runStarted' = runStarted /\ at' = at
          /\ ~playerDead /\ playerDead' = TRUE /\ bankedScore' = bankedScore
          /\ emitted' = emitted \o <<a>>
      BY <1>4 DEF WorldThingDied, level, Emit
    <2> HIDE DEF a, T
    <2> DEFINE new == <<a>>
    <2>3. new \in Seq(T) /\ DOMAIN new = {1} /\ new[1] = a /\ emitted' = emitted \o new
      BY <2>1, <2>2, One
    <2> HIDE DEF new
    <2>4. Adds(new)
      BY <2>1, <2>3 DEF Adds, T
    <2>5. Dies(new)
      BY <2>1, <2>2, <2>3 DEF Dies
    <2> QED BY <2>4, <2>5 DEF Tells
  <1>5. CASE playerDead /\ (ExitMap \/ Restart \/ Teardown)
    <2>1. /\ phase = "InMap" /\ phase' # "InMap" /\ runStarted' = runStarted
          /\ playerDead' = playerDead /\ bankedScore' = bankedScore /\ emitted' = emitted
      BY <1>5 DEF ExitMap, Restart, Teardown, WorldUnloaded
    <2>2. Adds(<<>>)
      BY <1>0, <2>1, NothingTold
    <2>3. Silent(<<>>)
      BY <1>5, <2>1 DEF Silent
    <2> QED BY <2>2, <2>3 DEF Tells
  <1>6. CASE ~playerDead /\ (ExitMap \/ Teardown)
    <2>1. /\ phase = "InMap" /\ runStarted' = runStarted /\ playerDead' = playerDead
          /\ WorldUnloaded
          /\ \/ at' = at /\ phase' \in {"Title", "Exited"}
             \/ at' = at + 1 /\ phase' = "Loading" /\ ~LastMap
      BY <1>6 DEF ExitMap, Teardown, level
    <2>2. bankedScore' = bankedScore + HudMapScore
      BY <1>0, <1>6, <2>1, UnloadTells
    <2>3. PICK new : /\ Adds(new)
                     /\ 1 \in DOMAIN new /\ new[1].event = "LevelComplete" /\ new[1].stats = Counters
                     /\ \A i \in DOMAIN new : i # 1 =>
                          new[i].event = "RunComplete" /\ Bare(new[i]) /\ i = Len(new) /\ LastMap
      BY <1>0, <1>6, <2>1, UnloadTells
    <2>4. Unloads(new)
      BY <1>6, <2>1, <2>2, <2>3 DEF Unloads
    <2> QED BY <2>3, <2>4 DEF Tells
  <1>7. CASE Exit
    <2>1. /\ phase # "Exited" /\ phase' = "Exited" /\ runStarted' = runStarted
          /\ playerDead' = playerDead /\ bankedScore' = bankedScore /\ emitted' = emitted
      BY <1>7 DEF Exit
    <2>2. Adds(<<>>)
      BY <1>0, <2>1, NothingTold
    <2>3. Silent(<<>>)
      BY <2>1 DEF Silent
    <2> QED BY <2>2, <2>3 DEF Tells
  <1>8. Restart => playerDead
    BY DEF Restart
  <1> QED BY <1>1, <1>2, <1>3, <1>4, <1>5, <1>6, <1>7, <1>8 DEF Play
-----------------------------------------------------------------------------
\* The log of a run.  Until the death every map behind the player is completed; the heartbeats
\* of a map come before the line that closes it, with counters that only grow; a completed run
\* is the last thing reported.
Fell(i) == emitted[i].event = "PlayerDied"
Heard(i, m) == emitted[i].event = "Progress" /\ emitted[i].map = m
Completes(i, m) == emitted[i].event = "LevelComplete" /\ emitted[i].map = m
CompletedBefore(m, i) == \E j \in DOMAIN emitted : j < i /\ Completes(j, m)
Behind(p, i) == \A y \in 1..(p - 1) : CompletedBefore(Rotation[y], i)

Walked ==
    /\ playerDead <=> \E i \in DOMAIN emitted : Fell(i)
    /\ \A i \in DOMAIN emitted :
         (\A j \in DOMAIN emitted : j < i => ~Fell(j)) => Behind(Pos(emitted[i].map), i)
    /\ ~playerDead /\ phase \in {"InMap", "Loading"} => Behind(at, Len(emitted) + 1)

Zeros ==
    \A i \in DOMAIN emitted :
       /\ emitted[i].event \notin {"Progress", "LevelComplete"} => emitted[i].stats.items = 0
       /\ emitted[i].event \notin {"Progress", "LevelComplete", "PlayerDied"} =>
            emitted[i].stats.kills = 0

Counting ==
    /\ \A i, j \in DOMAIN emitted :
         i < j /\ Heard(i, emitted[j].map) =>
            /\ Heard(j, emitted[j].map) \/ Closing(emitted[j]) =>
                 emitted[i].stats.kills <= emitted[j].stats.kills
            /\ Heard(j, emitted[j].map) \/ Completes(j, emitted[j].map) =>
                 emitted[i].stats.items <= emitted[j].stats.items
    /\ \A i, j \in DOMAIN emitted : Heard(i, emitted[j].map) /\ Closing(emitted[j]) => i < j
    /\ ~playerDead =>
         \A i \in DOMAIN emitted : Heard(i, Map) =>
            /\ phase = "InMap" => emitted[i].stats.kills <= killed /\ emitted[i].stats.items <= items
            /\ phase # "Loading"

EndsLast ==
    \A i \in DOMAIN emitted :
       emitted[i].event = "RunComplete" => i = Len(emitted) /\ phase \in {"Title", "Exited"}

Story == Walked /\ Zeros /\ Counting /\ EndsLast

\* The log after a step: the old lines where they were, and the new ones, of the present map.
LEMMA LogAfter ==
    ASSUME EngineTypes, NEW new, Adds(new)
    PROVE  /\ Len(emitted) \in Nat /\ DOMAIN emitted = 1..Len(emitted)
           /\ Len(new) \in Nat /\ DOMAIN new = 1..Len(new)
           /\ Len(emitted') = Len(emitted) + Len(new) /\ DOMAIN emitted' = 1..Len(emitted')
           /\ \A i \in DOMAIN emitted : i \in DOMAIN emitted' /\ emitted'[i] = emitted[i]
                                          /\ i \in Nat /\ i <= Len(emitted)
           /\ \A i \in DOMAIN new : /\ Len(emitted) + i \in DOMAIN emitted'
                                    /\ emitted'[Len(emitted) + i] = new[i]
           /\ \A i \in DOMAIN emitted' : i \in Nat /\
                 \/ i \in DOMAIN emitted
                 \/ /\ i > Len(emitted) /\ i - Len(emitted) \in DOMAIN new
                    /\ emitted'[i] = new[i - Len(emitted)]
                    /\ emitted'[i].map = Map
           /\ \A i \in DOMAIN emitted' : emitted'[i].stats.kills \in Nat /\ emitted'[i].stats.items \in Nat
  <1>1. emitted \in Seq(Lines)
    BY DEF EngineTypes
  <1>2. Len(emitted) \in Nat /\ DOMAIN emitted = 1..Len(emitted)
    BY <1>1, LineOf
  <1>3. emitted' \in Seq(Lines)
    BY <1>1, Grown
  <1>4. \A i \in DOMAIN emitted' : emitted'[i].stats \in Counts
    <2> DEFINE T == Lines
    <2>1. \A l \in T : l.stats \in Counts
      BY DEF Lines
    <2>2. emitted' \in Seq(T)
      BY <1>3
    <2> HIDE DEF T
    <2> QED BY <2>1, <2>2
  <1>5. \A i \in DOMAIN emitted' : emitted'[i].stats.kills \in Nat /\ emitted'[i].stats.items \in Nat
    BY <1>4, CountsType
  <1>6. \A i \in DOMAIN emitted : i \in Nat /\ i <= Len(emitted)
    BY <1>2
  <1>7. \A i \in DOMAIN emitted' : i \in Nat
    BY <1>1, Grown
  <1> QED BY <1>1, <1>2, <1>5, <1>6, <1>7, Grown

\* Each step keeps that the maps behind a living player are completed.
LEMMA WalkedKept ==
    ASSUME EngineInv, Walked, NEW new, Tells(new)
    PROVE  Walked'
  <1> DEFINE n == Len(emitted)
             log == emitted'
  <1>1. /\ EngineTypes /\ Adds(new) /\ at \in DOMAIN Rotation /\ at \in Nat /\ at >= 1
        /\ Pos(Map) = at /\ Map = Rotation[at]
        /\ ~runStarted => emitted = <<>>
    BY Positions DEF EngineInv, EngineTypes, AnnouncedFirst, Tells, Map
  <1>2. /\ n \in Nat /\ DOMAIN emitted = 1..n /\ DOMAIN new = 1..Len(new) /\ Len(new) \in Nat
        /\ Len(log) = n + Len(new) /\ DOMAIN log = 1..Len(log)
        /\ \A i \in DOMAIN emitted : i \in DOMAIN log /\ log[i] = emitted[i] /\ i \in Nat /\ i <= n
        /\ \A i \in DOMAIN new : n + i \in DOMAIN log /\ log[n + i] = new[i]
        /\ \A i \in DOMAIN log : i \in Nat /\
              \/ i \in DOMAIN emitted
              \/ i > n /\ i - n \in DOMAIN new /\ log[i] = new[i - n] /\ log[i].map = Map
    BY <1>1, LogAfter
  <1> HIDE DEF n, log
  <1>3. ASSUME NEW m, NEW i \in Nat, NEW k \in Nat, i <= k, CompletedBefore(m, i)
        PROVE  \E j \in DOMAIN log : j < k /\ log[j].event = "LevelComplete" /\ log[j].map = m
    <2>1. PICK j \in DOMAIN emitted : j < i /\ Completes(j, m)
      BY <1>3 DEF CompletedBefore
    <2>2. j \in DOMAIN log /\ log[j] = emitted[j] /\ j < k
      BY <1>2, <1>3, <2>1
    <2> QED BY <2>1, <2>2 DEF Completes
  <1>4. ASSUME NEW p \in Nat, NEW i \in Nat, NEW k \in Nat, i <= k, Behind(p, i),
               NEW y \in 1..(p - 1)
        PROVE  \E j \in DOMAIN log : j < k /\ log[j].event = "LevelComplete" /\ log[j].map = Rotation[y]
    BY <1>3, <1>4 DEF Behind
  \* A death is told by the step that has it.
  <1>5. playerDead' <=> \E i \in DOMAIN log : log[i].event = "PlayerDied"
    <2>1. CASE Dies(new)
      <3>1. playerDead' /\ 1 \in DOMAIN new /\ new[1].event = "PlayerDied"
        BY <2>1 DEF Dies
      <3> QED BY <1>2, <3>1
    <2>2. CASE Enters(new) \/ Plays(new) \/ Unloads(new) \/ Silent(new)
      <3>1. \A i \in DOMAIN new : new[i].event # "PlayerDied"
        BY <2>2 DEF Enters, Plays, Unloads, Silent
      <3>2. playerDead' <=> playerDead
        <4>1. CASE Enters(new) /\ ~runStarted
          <5>1. DOMAIN emitted = {} /\ ~playerDead'
            BY <1>1, <4>1 DEF Enters
          <5> QED BY <5>1 DEF Walked
        <4>2. CASE ~(Enters(new) /\ ~runStarted)
          BY <2>2, <4>2 DEF Enters, Plays, Unloads, Silent
        <4> QED BY <4>1, <4>2
      <3>3. (\E i \in DOMAIN log : log[i].event = "PlayerDied") <=> \E i \in DOMAIN emitted : Fell(i)
        BY <1>2, <3>1 DEF Fell
      <3> QED BY <3>2, <3>3 DEF Walked
    <2> QED BY <2>1, <2>2 DEF Tells
  <1>6. ASSUME NEW i \in DOMAIN log, \A j \in DOMAIN log : j < i => log[j].event # "PlayerDied",
               NEW y \in 1..(Pos(log[i].map) - 1)
        PROVE  \E j \in DOMAIN log : j < i /\ log[j].event = "LevelComplete" /\ log[j].map = Rotation[y]
    <2>1. CASE i \in DOMAIN emitted
      <3>1. \A j \in DOMAIN emitted : j < i => ~Fell(j)
        BY <1>2, <1>6 DEF Fell
      <3>2. Behind(Pos(emitted[i].map), i)
        BY <2>1, <3>1 DEF Walked
      <3>3. Pos(emitted[i].map) \in Nat /\ log[i] = emitted[i] /\ i \in Nat
        <4>1. emitted[i].map \in MapNames
          BY <1>1, <2>1, LineOf DEF EngineTypes
        <4> QED BY <1>2, <2>1, <4>1, PosNat
      <3> QED BY <1>4, <1>6, <3>2, <3>3
    <2>2. CASE i > n /\ i - n \in DOMAIN new /\ log[i].map = Map
      <3>1. ~playerDead
        <4>1. \A j \in DOMAIN emitted : ~Fell(j)
          BY <1>2, <1>6, <2>2 DEF Fell
        <4> QED BY <4>1 DEF Walked
      <3>2. phase \in {"InMap", "Loading"}
        BY <2>2 DEF Tells, Enters, Plays, Dies, Unloads, Silent
      <3>3. Behind(at, n + 1)
        BY <3>1, <3>2 DEF Walked, n
      <3>4. n + 1 \in Nat /\ i \in Nat /\ n + 1 <= i /\ y \in 1..(at - 1)
        BY <1>1, <1>2, <1>6, <2>2
      <3> QED BY <1>1, <1>4, <3>3, <3>4
    <2> QED BY <1>2, <1>6, <2>1, <2>2
  <1>7. ASSUME ~playerDead', phase' \in {"InMap", "Loading"}, NEW y \in 1..(at' - 1)
        PROVE  \E j \in DOMAIN log : j < Len(log) + 1 /\ log[j].event = "LevelComplete"
                                       /\ log[j].map = Rotation[y]
    <2>1. ~playerDead /\ phase \in {"InMap", "Loading"}
      <3>1. CASE Enters(new) /\ ~runStarted
        <4>1. DOMAIN emitted = {}
          BY <1>1, <3>1
        <4> QED BY <3>1, <4>1 DEF Walked, Enters
      <3>2. CASE ~(Enters(new) /\ ~runStarted)
        BY <1>7, <3>2 DEF Tells, Enters, Plays, Dies, Unloads, Silent
      <3> QED BY <3>1, <3>2
    <2>2. Behind(at, n + 1)
      BY <2>1 DEF Walked, n
    <2>3. n + 1 \in Nat /\ Len(log) + 1 \in Nat /\ n + 1 <= Len(log) + 1
      BY <1>2
    <2>4. CASE y \in 1..(at - 1)
      BY <1>1, <1>4, <2>2, <2>3, <2>4
    <2>5. CASE y \notin 1..(at - 1)
      <3>1. at' = at \/ (Unloads(new) /\ at' = at + 1)
        BY <1>7, <2>1 DEF Tells, Enters, Plays, Dies, Unloads, Silent
      <3>2. y = at /\ Unloads(new)
        BY <1>1, <1>7, <2>5, <3>1
      <3>3. 1 \in DOMAIN new /\ new[1].event = "LevelComplete"
        BY <3>2 DEF Unloads
      <3>4. new[1].map = Map
        BY <1>1, <3>3 DEF Adds
      <3>5. n + 1 \in DOMAIN log /\ log[n + 1] = new[1] /\ n + 1 < Len(log) + 1
        BY <1>2, <3>3
      <3> QED BY <1>1, <3>2, <3>3, <3>4, <3>5
    <2> QED BY <2>4, <2>5
  <1> QED BY <1>5, <1>6, <1>7 DEF Walked, Behind, CompletedBefore, Completes, Fell, log

\* Each step keeps that lines of the other kinds carry no counters.
LEMMA ZerosKept ==
    ASSUME EngineInv, Zeros, NEW new, Tells(new)
    PROVE  Zeros'
  <1> DEFINE n == Len(emitted)
             log == emitted'
             Plain(l) == /\ l.event \notin {"Progress", "LevelComplete"} => l.stats.items = 0
                         /\ l.event \notin {"Progress", "LevelComplete", "PlayerDied"} => l.stats.kills = 0
  <1>1. EngineTypes /\ Adds(new)
    BY DEF EngineInv, Tells
  <1>2. /\ \A i \in DOMAIN emitted : log[i] = emitted[i]
        /\ \A i \in DOMAIN log :
              i \in DOMAIN emitted \/ (i - n \in DOMAIN new /\ log[i] = new[i - n])
    BY <1>1, LogAfter
  <1> HIDE DEF n, log
  <1>3. \A i \in DOMAIN new : Plain(new[i])
    <2>1. CASE Unloads(new)
      <3>1. \A i \in DOMAIN new : i = 1 \/ (new[i].event = "RunComplete" /\ Bare(new[i]))
        BY <2>1 DEF Unloads
      <3>2. new[1].event = "LevelComplete"
        BY <2>1 DEF Unloads
      <3> QED BY <3>1, <3>2 DEF Bare
    <2>2. CASE Enters(new) \/ Plays(new) \/ Dies(new) \/ Silent(new)
      BY <2>2 DEF Enters, Plays, Dies, Silent, Bare
    <2> QED BY <2>1, <2>2 DEF Tells
  <1>4. \A i \in DOMAIN emitted : Plain(emitted[i])
    BY DEF Zeros
  <1>5. \A i \in DOMAIN log : Plain(log[i])
    <2> HIDE DEF Plain
    <2> QED BY <1>2, <1>3, <1>4
  <1> QED BY <1>5 DEF Zeros, log

\* Each step keeps that nothing is reported after a completed run.
LEMMA EndsLastKept ==
    ASSUME EngineInv, EndsLast, NEW new, Tells(new)
    PROVE  EndsLast'
  <1> DEFINE n == Len(emitted)
             log == emitted'
  <1>1. EngineTypes /\ Adds(new)
    BY DEF EngineInv, Tells
  <1>2. /\ n \in Nat /\ DOMAIN new = 1..Len(new) /\ Len(new) \in Nat /\ Len(log) = n + Len(new)
        /\ \A i \in DOMAIN emitted : log[i] = emitted[i]
        /\ \A i \in DOMAIN log : i \in Nat /\
              (i \in DOMAIN emitted \/ (i - n \in DOMAIN new /\ log[i] = new[i - n]))
    BY <1>1, LogAfter
  <1> HIDE DEF n, log
  <1> SUFFICES ASSUME NEW i \in DOMAIN log, log[i].event = "RunComplete"
               PROVE  i = Len(log) /\ phase' \in {"Title", "Exited"}
    BY DEF EndsLast, log
  <1>3. CASE i \in DOMAIN emitted
    <2>1. i = n /\ phase \in {"Title", "Exited"}
      BY <1>2, <1>3 DEF EndsLast, n
    <2>2. Silent(new)
      BY <2>1 DEF Tells, Enters, Plays, Dies, Unloads
    <2>3. new = <<>> /\ phase' = "Exited"
      BY <2>1, <2>2 DEF Silent
    <2>4. Len(new) = 0
      BY <2>3
    <2> QED BY <1>2, <2>1, <2>3, <2>4
  <1>4. CASE i - n \in DOMAIN new /\ log[i] = new[i - n]
    <2> DEFINE k == i - n
    <2>1. k \in DOMAIN new /\ new[k].event = "RunComplete" /\ n + k = i
      BY <1>2, <1>4
    <2> HIDE DEF k
    <2>2. Unloads(new)
      BY <2>1 DEF Tells, Enters, Plays, Dies, Silent
    <2>3. k # 1
      BY <2>1, <2>2 DEF Unloads
    <2>4. k = Len(new) /\ phase' # "Loading" /\ phase' \in {"Title", "Exited", "Loading"}
      BY <2>1, <2>2, <2>3 DEF Unloads
    <2> QED BY <1>2, <2>1, <2>4
  <1> QED BY <1>2, <1>3, <1>4

\* Each step keeps that the counters of a map's heartbeats only grow, up to its closing line.
LEMMA CountingKept ==
    ASSUME EngineInv, Counting, NEW new, Tells(new), EngineTypes'
    PROVE  Counting'
  <1> DEFINE n == Len(emitted)
             log == emitted'
             Beat(i, m) == log[i].event = "Progress" /\ log[i].map = m
             Done(j) == log[j].event = "LevelComplete"
  <1>1. /\ EngineTypes /\ Adds(new) /\ Ordered /\ ClosedOnce
        /\ at \in DOMAIN Rotation /\ at \in Nat /\ Pos(Map) = at /\ Map = Rotation[at]
        /\ ~runStarted => emitted = <<>>
        /\ killed \in Nat /\ items \in Nat /\ killed' \in Nat /\ items' \in Nat
        /\ Map' = Rotation[at'] /\ Pos(Rotation[at']) = at' /\ at' \in DOMAIN Rotation
    <2>1. at' \in DOMAIN Rotation /\ killed' \in 0..Monsters /\ items' \in 0..Items
      BY DEF EngineTypes
    <2>2. at \in DOMAIN Rotation /\ killed \in 0..Monsters /\ items \in 0..Items
      BY DEF EngineInv, EngineTypes
    <2>3. Pos(Rotation[at']) = at'
      BY <2>1, Positions
    <2>4. EngineTypes /\ Adds(new) /\ Ordered /\ ClosedOnce /\ (~runStarted => emitted = <<>>)
      BY DEF EngineInv, AnnouncedFirst, Tells
    <2> QED BY <2>1, <2>2, <2>3, <2>4, Positions, Numbers DEF Map
  <1>2. /\ n \in Nat /\ DOMAIN emitted = 1..n
        /\ \A i \in DOMAIN emitted : i \in DOMAIN log /\ log[i] = emitted[i] /\ i \in Nat /\ i <= n
        /\ \A i \in DOMAIN log : i \in Nat /\
              \/ i \in DOMAIN emitted
              \/ i > n /\ i - n \in DOMAIN new /\ log[i] = new[i - n] /\ log[i].map = Map
        /\ \A i \in DOMAIN log : log[i].stats.kills \in Nat /\ log[i].stats.items \in Nat
    BY <1>1, LogAfter
  <1> HIDE DEF n, log
  \* The lines of this step.
  <1>3. ASSUME NEW i \in DOMAIN log, i \notin DOMAIN emitted
        PROVE  /\ log[i].event = "Progress" => Plays(new) /\ ~playerDead /\ phase = "InMap"
                     /\ log[i].stats.kills = killed' /\ log[i].stats.items = items'
               /\ log[i].event = "PlayerDied" => Dies(new) /\ ~playerDead /\ phase = "InMap"
                     /\ log[i].stats.kills = killed
               /\ log[i].event = "LevelComplete" => Unloads(new) /\ ~playerDead /\ phase = "InMap"
                     /\ log[i].stats.kills = killed /\ log[i].stats.items = items
    <2> DEFINE k == i - n
    <2>1. k \in DOMAIN new /\ log[i] = new[k]
      BY <1>2, <1>3
    <2> HIDE DEF k
    <2>2. CASE Unloads(new)
      <3>1. k = 1 \/ (new[k].event = "RunComplete" /\ k # 1)
        BY <2>1, <2>2 DEF Unloads
      <3>2. ~playerDead /\ phase = "InMap" /\ new[1].event = "LevelComplete" /\ new[1].stats = Counters
        BY <2>2 DEF Unloads
      <3> QED BY <2>1, <2>2, <3>1, <3>2 DEF Counters
    <2>3. CASE Plays(new)
      <3>1. phase = "InMap"
        BY <2>3 DEF Plays
      <3>2. \/ new[k].event = "RunQuit"
            \/ /\ new[k].event = "Progress" /\ ~playerDead
               /\ new[k].stats.kills = killed' /\ new[k].stats.items = items'
        BY <2>1, <2>3 DEF Plays
      <3> QED BY <2>1, <2>3, <3>1, <3>2
    <2>4. CASE Enters(new) \/ Dies(new) \/ Silent(new)
      BY <2>1, <2>4 DEF Enters, Dies, Silent
    <2> QED BY <2>2, <2>3, <2>4 DEF Tells
  <1>4. ~playerDead /\ phase = "InMap" =>
          \A i \in DOMAIN emitted : Heard(i, Map) =>
             emitted[i].stats.kills <= killed /\ emitted[i].stats.items <= items
    BY DEF Counting
  <1>5. Plays(new) => killed <= killed' /\ items <= items'
    BY DEF Plays
  <1>6. ASSUME NEW i \in DOMAIN log, NEW j \in DOMAIN log, i < j, Beat(i, log[j].map)
        PROVE  /\ Beat(j, log[j].map) \/ Closing(log[j]) => log[i].stats.kills <= log[j].stats.kills
               /\ Beat(j, log[j].map) \/ Done(j) => log[i].stats.items <= log[j].stats.items
    <2>1. CASE i \in DOMAIN emitted /\ j \in DOMAIN emitted
      BY <1>2, <1>6, <2>1 DEF Counting, Heard, Completes
    <2>2. CASE i \in DOMAIN emitted /\ j \notin DOMAIN emitted
      <3>1. Heard(i, Map) /\ log[i] = emitted[i] /\ log[i].stats.kills \in Nat /\ log[i].stats.items \in Nat
        BY <1>2, <1>6, <2>2 DEF Heard
      <3>2. ~playerDead /\ phase = "InMap" => log[i].stats.kills <= killed /\ log[i].stats.items <= items
        BY <1>4, <2>2, <3>1
      <3>3. CASE log[j].event = "Progress"
        BY <1>1, <1>3, <1>5, <2>2, <3>1, <3>2, <3>3 DEF Closing
      <3>4. CASE log[j].event = "PlayerDied"
        BY <1>3, <2>2, <3>2, <3>4 DEF Closing
      <3>5. CASE log[j].event = "LevelComplete"
        BY <1>3, <2>2, <3>2, <3>5 DEF Closing
      <3> QED BY <3>3, <3>4, <3>5 DEF Closing
    <2>3. CASE i \notin DOMAIN emitted
      <3>1. j \notin DOMAIN emitted
        BY <1>2, <1>6, <2>3
      <3>2. Plays(new) /\ log[i].stats.kills = killed' /\ log[i].stats.items = items'
        BY <1>3, <1>6, <2>3
      <3>3. ~Closing(log[j])
        BY <1>3, <3>1, <3>2 DEF Closing, Plays, Dies, Unloads
      <3>4. CASE log[j].event = "Progress"
        BY <1>1, <1>3, <3>1, <3>2, <3>4 DEF Closing
      <3> QED BY <3>3, <3>4 DEF Closing
    <2> QED BY <2>1, <2>2, <2>3
  <1>7. ASSUME NEW i \in DOMAIN log, NEW j \in DOMAIN log, Beat(i, log[j].map), Closing(log[j])
        PROVE  i < j
    <2>1. CASE i \in DOMAIN emitted /\ j \in DOMAIN emitted
      BY <1>2, <1>7, <2>1 DEF Counting, Heard
    <2>2. CASE i \in DOMAIN emitted /\ j \notin DOMAIN emitted
      BY <1>2, <2>2
    <2>3. CASE i \notin DOMAIN emitted
      <3>1. Plays(new) /\ ~playerDead /\ phase = "InMap" /\ log[i].map = Map
        BY <1>2, <1>3, <1>7, <2>3
      <3>2. j \notin DOMAIN emitted
        BY <1>1, <1>2, <1>7, <3>1 DEF ClosedOnce
      <3> QED BY <1>3, <1>7, <3>1, <3>2 DEF Closing, Plays, Dies, Unloads
    <2> QED BY <2>1, <2>2, <2>3
  <1>8. ASSUME ~playerDead', NEW i \in DOMAIN log, Beat(i, Rotation[at'])
        PROVE  /\ phase' = "InMap" => log[i].stats.kills <= killed' /\ log[i].stats.items <= items'
               /\ phase' # "Loading"
    <2>1. CASE Plays(new)
      <3>1. phase' = "InMap" /\ ~playerDead /\ phase = "InMap" /\ at' = at
        BY <1>8, <2>1 DEF Plays
      <3>2. CASE i \in DOMAIN emitted
        <4>1. Heard(i, Map) /\ log[i] = emitted[i]
          BY <1>1, <1>2, <1>8, <3>1, <3>2 DEF Heard
        <4>2. log[i].stats.kills <= killed /\ log[i].stats.items <= items
          BY <1>4, <3>1, <3>2, <4>1
        <4>3. log[i].stats.kills \in Nat /\ log[i].stats.items \in Nat
          BY <1>2
        <4> QED BY <1>1, <1>5, <2>1, <3>1, <4>2, <4>3
      <3>3. CASE i \notin DOMAIN emitted
        BY <1>1, <1>3, <1>8, <3>1, <3>3
      <3> QED BY <3>2, <3>3
    <2>2. CASE Enters(new)
      <3>1. phase = "Loading" /\ at' = at /\ (runStarted => ~playerDead)
        BY <1>8, <2>2 DEF Enters
      <3>2. i \in DOMAIN emitted
        BY <1>3, <1>8, <2>2, <3>1 DEF Plays
      <3>3. runStarted
        BY <1>1, <3>2
      <3>4. Heard(i, Map)
        BY <1>1, <1>2, <1>8, <3>1, <3>2 DEF Heard
      <3> QED BY <3>1, <3>2, <3>3, <3>4 DEF Counting
    <2>3. CASE Unloads(new)
      <3>1. CASE phase' \in {"Title", "Exited"}
        BY <3>1
      <3>2. CASE phase' \notin {"Title", "Exited"}
        <4>1. at' = at + 1
          BY <2>3, <3>2 DEF Unloads
        <4>2. Pos(log[i].map) <= at
          BY <1>1, <1>2 DEF Ordered
        <4>3. Pos(log[i].map) = at + 1
          BY <1>1, <1>8, <4>1
        <4> QED BY <1>1, <4>2, <4>3
      <3> QED BY <3>1, <3>2
    <2>4. CASE Dies(new) \/ Silent(new)
      BY <1>8, <2>4 DEF Dies, Silent
    <2> QED BY <2>1, <2>2, <2>3, <2>4 DEF Tells
  <1>9. ~playerDead' =>
          \A i \in DOMAIN log : Beat(i, Map') =>
            /\ phase' = "InMap" => log[i].stats.kills <= killed' /\ log[i].stats.items <= items'
            /\ phase' # "Loading"
    BY <1>1, <1>8
  <1> QED BY <1>6, <1>7, <1>9 DEF Counting, Heard, Completes, log

\* What the engine does, and that the log's story is the same whatever the supervisor does.
LEMMA StoryStands ==
    ASSUME Story, UNCHANGED gvars
    PROVE  Story'
  <1>1. /\ emitted' = emitted /\ at' = at /\ phase' = phase /\ killed' = killed
        /\ items' = items /\ playerDead' = playerDead
    BY DEF gvars, level
  <1>2. Walked'
    BY <1>1 DEF Story, Walked, Fell, Behind, CompletedBefore, Completes
  <1>3. Zeros'
    BY <1>1 DEF Story, Zeros
  <1>4. Counting'
    BY <1>1 DEF Story, Counting, Heard, Completes, Map
  <1>5. EndsLast'
    BY <1>1 DEF Story, EndsLast
  <1> QED BY <1>2, <1>3, <1>4, <1>5 DEF Story

\* Every step of the pipeline keeps the story the log tells.
LEMMA StoryKept ==
    ASSUME EngineInv, EngineInv', Story, [PipelineNext]_vars
    PROVE  Story'
  <1>1. CASE Engine \/ Signal \/ EngineExit
    <2>1. Play \/ Exit \/ Teardown
      BY <1>1 DEF Engine, Signal, EngineExit
    <2>2. PICK new : Tells(new)
      BY <2>1, PlayTells
    <2>3. EngineTypes'
      BY DEF EngineInv
    <2> QED BY <2>2, <2>3, WalkedKept, ZerosKept, CountingKept, EndsLastKept DEF Story
  <1>2. CASE ~(Engine \/ Signal \/ EngineExit)
    <2>1. UNCHANGED gvars
      BY <1>2 DEF PipelineNext, FifoLine, StaleFifoLine, LoseFifoLine, FifoCloses, StdoutLine,
                  LoseStdoutTail, Finish, vars
    <2> QED BY <2>1, StoryStands
  <1> QED BY <1>1, <1>2

\* An empty log tells it.
LEMMA StoryBegins == PipelineInit => Story
  <1> SUFFICES ASSUME PipelineInit PROVE Story
    OBVIOUS
  <1>1. /\ phase = "Loading" /\ at = 1 /\ playerDead = FALSE /\ emitted = <<>>
    BY DEF PipelineInit, Init
  <1>2. DOMAIN emitted = {} /\ 1..(1 - 1) = {}
    BY <1>1
  <1> QED BY <1>1, <1>2 DEF Story, Walked, Zeros, Counting, EndsLast, Behind

\* The log of a session tells of one run: until the player dies every map before the one it is
\* in is completed in it; a map's heartbeats come before the line that closes it, with counters
\* that never fall; and nothing follows a completed run.
THEOREM StoryTold == PipelineSpec => []Story
  <1>1. IInv /\ IInv' /\ Story /\ [PipelineNext]_vars => Story'
    BY StoryKept DEF IInv
  <1> QED BY <1>1, StoryBegins, OrderlyRun, PTL DEF PipelineSpec
-----------------------------------------------------------------------------
\* What one intact transport leaves in the list.  The lines of a log up to p are read; an entry
\* in progress holds the latest heartbeat of its map among them, or a later one that the other
\* transport brought; every other entry holds the line that completed its map.
Beats(log, m) == {i \in DOMAIN log : log[i].event = "Progress" /\ log[i].map = m}
Completions(log, m) == {i \in DOMAIN log : log[i].event = "LevelComplete" /\ log[i].map = m}
Before(log, i) == \A d \in DOMAIN log : Ends(log[d]) => i < d
FirstEnd(log, d) == Ends(log[d]) /\ \A j \in DOMAIN log : Ends(log[j]) => d <= j

Latest(log, e, p) ==
    \/ e.stats.kills = 0 /\ e.stats.items = 0 /\ \A i \in Beats(log, e.map) : i > p
    \/ \E q \in Beats(log, e.map) :
          /\ Before(log, q)
          /\ e.stats.kills = log[q].stats.kills /\ e.stats.items = log[q].stats.items
          /\ \A i \in Beats(log, e.map) : i > p \/ i <= q
Closed(log, e) ==
    /\ e.completed
    /\ \E q \in Completions(log, e.map) : Before(log, q) /\ log[q].stats = e.stats

Folded(log, list, i) ==
    /\ ~Ends(log[i])
    /\ log[i].event = "LevelEnter" => \E n \in DOMAIN list : list[n].map = log[i].map
    /\ log[i].event = "LevelComplete" =>
          \E n \in DOMAIN list : list[n].map = log[i].map /\ list[n].completed

Caught(log, list, live, p) ==
    /\ \A i \in DOMAIN log : i <= p => Folded(log, list, i)
    /\ \A n \in DOMAIN list :
          /\ n \in DOMAIN Rotation /\ list[n].map = Rotation[n]
          /\ IF live /\ n = Len(list) THEN Latest(log, list[n], p) ELSE Closed(log, list[n])

\* What the list is once the run has ended with line k: the best counters of each map, and
\* its completion with the counters it was completed with.
Exact(log, e, k) ==
    /\ e.completed <=> \E i \in Completions(log, e.map) : i <= k
    /\ e.completed => \E i \in Completions(log, e.map) : i <= k /\ log[i].stats = e.stats
    /\ e.stats.kills = 0 \/ \E i \in DOMAIN log :
          i <= k /\ log[i].map = e.map /\ log[i].stats.kills = e.stats.kills
    /\ e.stats.items = 0 \/ \E i \in DOMAIN log :
          i <= k /\ log[i].map = e.map /\ log[i].stats.items = e.stats.items
    /\ \A i \in DOMAIN log : i <= k /\ log[i].map = e.map =>
          log[i].stats.kills <= e.stats.kills /\ log[i].stats.items <= e.stats.items
Settled(log, list, k) ==
    /\ \A n \in DOMAIN list :
          n \in DOMAIN Rotation /\ list[n].map = Rotation[n] /\ Exact(log, list[n], k)
    /\ \A i \in DOMAIN log : i <= k /\ log[i].event \in {"Progress", "LevelComplete", "PlayerDied"} =>
          \E n \in DOMAIN list : list[n].map = log[i].map

EndReason(event) ==
    IF event = "PlayerDied" THEN "Death" ELSE IF event = "RunComplete" THEN "Complete" ELSE "Quit"

\* The copy that counts, and whether none of it was lost.
Read == IF fifoLatched \/ stdoutLost THEN fifo ELSE stdout
Whole == fifoLatched \/ stdoutLost => fifoLost = 0
Unread == fifoLost \in Nat /\ (~fifoLatched => fifo = fifoLost)

Ended ==
    /\ ~open
    /\ \E d \in DOMAIN emitted : /\ FirstEnd(emitted, d) /\ terminal = EndReason(emitted[d].event)
                                 /\ Settled(emitted, maps, d)
Faithful ==
    Whole => IF terminal = "None" THEN Caught(emitted, maps, open, Read) ELSE Ended

-----------------------------------------------------------------------------
\* Nothing is lost by reading a copy from its start again.
LEMMA Rewind ==
    ASSUME NEW log, NEW list, NEW live, NEW p \in Nat, NEW r \in Nat, r <= p,
           DOMAIN log \subseteq Nat, Caught(log, list, live, p)
    PROVE  Caught(log, list, live, r)
  <1>1. \A i \in DOMAIN log : i <= r => Folded(log, list, i)
    BY DEF Caught
  <1>2. ASSUME NEW e, Latest(log, e, p) PROVE Latest(log, e, r)
    <2>1. \A i \in Beats(log, e.map) : i \in Nat /\ (i > p => i > r)
      BY DEF Beats
    <2> QED BY <1>2, <2>1 DEF Latest
  <1> QED BY <1>1, <1>2 DEF Caught

\* Lines that come later change nothing of what was read.
LEMMA CaughtStands ==
    ASSUME EngineTypes, NEW new, Adds(new), NEW p \in Nat, p <= Len(emitted),
           Caught(emitted, maps, open, p), maps' = maps, open' = open,
           NEW all \in Nat, all = Len(emitted)
    PROVE  Caught(emitted, maps, open, p)'
  <1> DEFINE log == emitted'
  <1>1. /\ DOMAIN emitted = 1..all
        /\ \A i \in DOMAIN emitted : i \in DOMAIN log /\ log[i] = emitted[i] /\ i \in Nat /\ i <= all
        /\ \A i \in DOMAIN log : i \in Nat /\ (i \in DOMAIN emitted \/ i > all)
    BY LogAfter
  <1> HIDE DEF log
  <1>2. \A i \in DOMAIN log : i <= p => i \in DOMAIN emitted
    BY <1>1
  <1>3. \A i \in DOMAIN log : i <= p => Folded(log, maps, i)
    BY <1>1, <1>2 DEF Caught, Folded
  <1>4. \A q \in DOMAIN emitted : Before(emitted, q) => Before(log, q)
    BY <1>1 DEF Before
  <1>5. \A m : /\ Beats(emitted, m) \subseteq Beats(log, m)
               /\ \A i \in Beats(log, m) : i \in Beats(emitted, m) \/ i > p
    BY <1>1 DEF Beats
  <1>6. \A m : Completions(emitted, m) \subseteq Completions(log, m)
    BY <1>1 DEF Completions
  <1>7. \A m : Beats(emitted, m) \subseteq DOMAIN emitted /\ Completions(emitted, m) \subseteq DOMAIN emitted
    BY DEF Beats, Completions
  <1>8. ASSUME NEW e, Latest(emitted, e, p) PROVE Latest(log, e, p)
    <2>1. CASE e.stats.kills = 0 /\ e.stats.items = 0 /\ \A i \in Beats(emitted, e.map) : i > p
      BY <1>5, <2>1 DEF Latest
    <2>2. CASE \E q \in Beats(emitted, e.map) :
                  /\ Before(emitted, q)
                  /\ e.stats.kills = emitted[q].stats.kills /\ e.stats.items = emitted[q].stats.items
                  /\ \A i \in Beats(emitted, e.map) : i > p \/ i <= q
      BY <1>1, <1>4, <1>5, <1>7, <2>2 DEF Latest
    <2> QED BY <1>8, <2>1, <2>2 DEF Latest
  <1>9. ASSUME NEW e, Closed(emitted, e) PROVE Closed(log, e)
    BY <1>1, <1>4, <1>6, <1>7, <1>9 DEF Closed
  <1>10. Caught(log, maps, open, p)
    BY <1>3, <1>8, <1>9 DEF Caught
  <1> QED BY <1>10 DEF log

\* Lines after the end of the run change nothing of a settled list.
LEMMA SettledStands ==
    ASSUME EngineTypes, NEW new, Adds(new), NEW d \in DOMAIN emitted, FirstEnd(emitted, d),
           Settled(emitted, maps, d), maps' = maps
    PROVE  /\ d \in DOMAIN emitted' /\ emitted'[d] = emitted[d]
           /\ FirstEnd(emitted', d) /\ Settled(emitted', maps', d)
  <1> DEFINE log == emitted'
  <1>1. /\ \A i \in DOMAIN emitted : i \in DOMAIN log /\ log[i] = emitted[i] /\ i \in Nat
        /\ \A i \in DOMAIN log : i \in Nat /\ (i \in DOMAIN emitted \/ i > d)
    <2>1. d <= Len(emitted) /\ d \in Nat /\ Len(emitted) \in Nat
      BY LogAfter
    <2> QED BY <2>1, LogAfter
  <1> HIDE DEF log
  <1>2. FirstEnd(log, d)
    BY <1>1 DEF FirstEnd
  <1>3. \A i \in DOMAIN log : i <= d => i \in DOMAIN emitted
    BY <1>1
  <1>4. ASSUME NEW e, Exact(emitted, e, d) PROVE Exact(log, e, d)
    <2>1. \A i \in Completions(log, e.map) : i <= d => i \in Completions(emitted, e.map)
      BY <1>1, <1>3 DEF Completions
    <2>2. \A i \in Completions(emitted, e.map) : i \in Completions(log, e.map) /\ log[i] = emitted[i]
      BY <1>1 DEF Completions
    <2>3. \A i \in DOMAIN log : i <= d /\ log[i].map = e.map =>
             log[i].stats.kills <= e.stats.kills /\ log[i].stats.items <= e.stats.items
      BY <1>1, <1>3, <1>4 DEF Exact
    <2>4. e.stats.kills = 0 \/ \E i \in DOMAIN log :
             i <= d /\ log[i].map = e.map /\ log[i].stats.kills = e.stats.kills
      BY <1>1, <1>4 DEF Exact
    <2>5. e.stats.items = 0 \/ \E i \in DOMAIN log :
             i <= d /\ log[i].map = e.map /\ log[i].stats.items = e.stats.items
      BY <1>1, <1>4 DEF Exact
    <2> QED BY <1>4, <2>1, <2>2, <2>3, <2>4, <2>5 DEF Exact
  <1>5. Settled(log, maps, d)
    BY <1>1, <1>3, <1>4 DEF Settled
  <1> QED BY <1>1, <1>2, <1>5 DEF log

\* A counted line bounds the heartbeats of its map; other lines carry no counters.
LEMMA ClosedExact ==
    ASSUME EngineInv, Zeros, Counting, NEW e, Closed(emitted, e), NEW k \in Nat,
           \A q \in DOMAIN emitted : Before(emitted, q) => q <= k
    PROVE  Exact(emitted, e, k)
  <1>1. PICK q \in Completions(emitted, e.map) : Before(emitted, q) /\ emitted[q].stats = e.stats
    BY DEF Closed
  <1>2. q \in DOMAIN emitted /\ q <= k /\ emitted[q].event = "LevelComplete" /\ emitted[q].map = e.map
        /\ e.completed
    BY <1>1 DEF Completions, Closed
  <1>3. \A i \in DOMAIN emitted : emitted[i].stats.kills \in Nat /\ emitted[i].stats.items \in Nat
    BY LineOf, CountsType DEF EngineInv, EngineTypes
  <1>4. ASSUME NEW i \in DOMAIN emitted, emitted[i].map = e.map
        PROVE  emitted[i].stats.kills <= e.stats.kills /\ emitted[i].stats.items <= e.stats.items
    <2>1. emitted[q].stats.kills = e.stats.kills /\ emitted[q].stats.items = e.stats.items
      BY <1>1
    <2>2. CASE emitted[i].event = "Progress"
      <3>1. Heard(i, emitted[q].map) /\ Closing(emitted[q]) /\ Completes(q, emitted[q].map)
        BY <1>2, <1>4, <2>2 DEF Heard, Closing, Completes
      <3>2. i < q
        BY <1>2, <3>1 DEF Counting
      <3> QED BY <1>2, <2>1, <3>1, <3>2 DEF Counting
    <2>3. CASE Closing(emitted[i])
      <3>1. i = q
        BY <1>2, <1>4, <2>3 DEF EngineInv, ClosedOnce, Closing
      <3> QED BY <1>2, <1>3, <2>1, <3>1
    <2>4. CASE emitted[i].event # "Progress" /\ ~Closing(emitted[i])
      <3>1. emitted[i].stats.kills = 0 /\ emitted[i].stats.items = 0
        BY <2>4 DEF Zeros, Closing
      <3> QED BY <1>2, <1>3, <2>1, <3>1
    <2> QED BY <2>2, <2>3, <2>4
  <1>5. \E i \in Completions(emitted, e.map) : i <= k /\ emitted[i].stats = e.stats
    BY <1>1, <1>2
  <1>6. \E i \in DOMAIN emitted : i <= k /\ emitted[i].map = e.map
                 /\ emitted[i].stats.kills = e.stats.kills /\ emitted[i].stats.items = e.stats.items
    BY <1>1, <1>2
  <1> QED BY <1>2, <1>4, <1>5, <1>6 DEF Exact

\* An entry in progress has the best counters its map had in the lines that were read, where
\* none of them completes it.
LEMMA LatestExact ==
    ASSUME EngineInv, Zeros, Counting, NEW e, NEW p \in Nat, NEW k \in Nat, Latest(emitted, e, p),
           ~e.completed,
           \A q \in DOMAIN emitted : Before(emitted, q) => q <= k,
           \A i \in DOMAIN emitted : i <= k /\ emitted[i].map = e.map =>
              ~Closing(emitted[i]) /\ (emitted[i].event = "Progress" => i <= p)
    PROVE  Exact(emitted, e, k)
  <1>1. \A i \in DOMAIN emitted : i \in Nat /\ emitted[i].stats.kills \in Nat /\ emitted[i].stats.items \in Nat
    BY LineOf, CountsType DEF EngineInv, EngineTypes
  <1>2. ~\E i \in Completions(emitted, e.map) : i <= k
    BY DEF Completions, Closing
  <1>3. \A i \in DOMAIN emitted : i <= k /\ emitted[i].map = e.map =>
           \/ emitted[i].stats.kills = 0 /\ emitted[i].stats.items = 0
           \/ i \in Beats(emitted, e.map) /\ ~(i > p)
    BY <1>1 DEF Zeros, Closing, Beats
  <1>4. CASE e.stats.kills = 0 /\ e.stats.items = 0 /\ \A i \in Beats(emitted, e.map) : i > p
    BY <1>1, <1>2, <1>3, <1>4 DEF Exact
  <1>5. ASSUME NEW q \in Beats(emitted, e.map), Before(emitted, q),
               e.stats.kills = emitted[q].stats.kills, e.stats.items = emitted[q].stats.items,
               \A i \in Beats(emitted, e.map) : i > p \/ i <= q
        PROVE  Exact(emitted, e, k)
    <2>1. q \in DOMAIN emitted /\ emitted[q].map = e.map /\ q <= k /\ Heard(q, emitted[q].map)
      BY <1>5 DEF Beats, Heard
    <2>2. ASSUME NEW i \in DOMAIN emitted, i <= k, emitted[i].map = e.map
          PROVE  emitted[i].stats.kills <= e.stats.kills /\ emitted[i].stats.items <= e.stats.items
      <3>1. CASE emitted[i].stats.kills = 0 /\ emitted[i].stats.items = 0
        BY <1>1, <1>5, <2>1, <3>1
      <3>2. CASE i \in Beats(emitted, e.map) /\ i <= q
        <4>1. Heard(i, emitted[q].map)
          BY <2>1, <3>2 DEF Beats, Heard
        <4>2. CASE i < q
          BY <1>5, <2>1, <4>1, <4>2 DEF Counting
        <4>3. CASE i = q
          BY <1>1, <1>5, <2>1, <4>3
        <4> QED BY <1>1, <2>1, <3>2, <4>2, <4>3
      <3> QED BY <1>3, <1>5, <2>2, <3>1, <3>2
    <2> QED BY <1>2, <1>5, <2>1, <2>2 DEF Exact
  <1> QED BY <1>4, <1>5 DEF Latest

\* The list when the next line comes.  Its map is recorded, but for a map just entered, which
\* finds every earlier map completed; and a death finds its map in progress.
LEMMA NextLine ==
    ASSUME EngineInv, RunInv, Walked, terminal = "None", NEW p \in Nat, p + 1 \in DOMAIN emitted,
           AheadAt(p + 1), Caught(emitted, maps, open, p)
    PROVE  LET m == emitted[p + 1].map
           IN  /\ emitted[p + 1].event \notin {"RunStart", "LevelEnter"} => Run!Recorded(m)
               /\ emitted[p + 1].event = "PlayerDied" => OpenOn(m)
               /\ emitted[p + 1].event = "LevelEnter" /\ ~Run!Recorded(m) =>
                     /\ ~open /\ Len(maps) + 1 \in DOMAIN Rotation /\ m = Rotation[Len(maps) + 1]
                     /\ \A i \in Beats(emitted, m) : i > p + 1
  <1> DEFINE m == emitted[p + 1].map
             ev == emitted[p + 1]
  <1>0. emitted \in Seq(Lines)
    BY DEF EngineInv, EngineTypes
  <1>1. /\ DOMAIN emitted = 1..Len(emitted) /\ Len(emitted) \in Nat /\ m \in MapNames
        /\ EngineTypes /\ AnnouncedFirst /\ InOrder /\ LastClosed /\ maps \in Seq(Entries)
        /\ \A i \in DOMAIN emitted : i \in Nat
        /\ open \in BOOLEAN /\ AllSourced
    <2>1. DOMAIN emitted = 1..Len(emitted) /\ Len(emitted) \in Nat /\ m \in MapNames
      BY <1>0, LineOf
    <2>2. \A i \in DOMAIN emitted : i \in Nat
      BY <2>1
    <2>3. EngineTypes /\ AnnouncedFirst /\ InOrder /\ LastClosed /\ maps \in Seq(Entries)
          /\ open \in BOOLEAN /\ AllSourced
      BY DEF EngineInv, RunInv, RunTypes
    <2> QED BY <2>1, <2>2, <2>3
  <1>2. Len(maps) \in Nat /\ DOMAIN maps = 1..Len(maps)
    BY <1>1
  <1>3. \A i \in DOMAIN emitted : i <= p => Folded(emitted, maps, i)
    BY DEF Caught
  <1>4. ASSUME NEW i \in DOMAIN emitted, i <= p, emitted[i].event # "RunStart"
        PROVE  Run!Recorded(emitted[i].map)
    <2>1. PICK j \in DOMAIN emitted :
             j <= i /\ emitted[j].event = "LevelEnter" /\ emitted[j].map = emitted[i].map
      BY <1>1, <1>4 DEF AnnouncedFirst, Announced
    <2>2. j <= p
      BY <1>1, <1>4, <2>1
    <2> QED BY <1>3, <2>1, <2>2 DEF Folded, Run!Recorded
  <1>5. ASSUME ev.event \notin {"RunStart", "LevelEnter"} PROVE Run!Recorded(m)
    <2>1. PICK j \in DOMAIN emitted : j <= p + 1 /\ emitted[j].event = "LevelEnter" /\ emitted[j].map = m
      BY <1>1, <1>5 DEF AnnouncedFirst, Announced
    <2>2. j # p + 1 /\ j \in Nat
      BY <1>1, <1>5, <2>1
    <2>3. j <= p
      BY <2>1, <2>2
    <2> QED BY <1>3, <2>1, <2>3 DEF Folded, Run!Recorded
  <1>6. ASSUME ev.event = "PlayerDied" PROVE OpenOn(m)
    BY <1>5, <1>6, DeathFresh
  <1>7. ASSUME ev.event = "LevelEnter", ~Run!Recorded(m)
        PROVE  /\ ~open /\ Len(maps) + 1 \in DOMAIN Rotation /\ m = Rotation[Len(maps) + 1]
               /\ \A i \in Beats(emitted, m) : i > p + 1
    <2> DEFINE r == Pos(m)
    <2>1. r \in Nat /\ r >= 1 /\ r \in DOMAIN Rotation /\ Rotation[r] = m
          /\ DOMAIN Rotation = 1..Len(Rotation) /\ Len(Rotation) \in Nat
      BY <1>1, Positions, PosNat
    <2>2. \A n \in DOMAIN maps : /\ n \in DOMAIN Rotation /\ maps[n].map = Rotation[n]
                                 /\ Pos(maps[n].map) = n /\ n < r
      <3>1. \A n \in DOMAIN maps : n \in DOMAIN Rotation /\ maps[n].map = Rotation[n]
        BY DEF Caught
      <3>2. \A n \in DOMAIN maps : Pos(maps[n].map) < Pos(m)
        BY <1>7 DEF AheadAt
      <3> QED BY <3>1, <3>2, Positions
    <2> HIDE DEF r
    <2>3. ASSUME NEW y \in 1..(r - 1)
          PROVE  y \in DOMAIN maps /\ maps[y].completed
      <3>1. \A j \in DOMAIN emitted : j < p + 1 => ~Fell(j)
        <4> SUFFICES ASSUME NEW j \in DOMAIN emitted, j < p + 1 PROVE ~Fell(j)
          OBVIOUS
        <4>1. j <= p
          BY <1>1
        <4> QED BY <1>3, <4>1 DEF Folded, Fell, Ends
      <3>2. CompletedBefore(Rotation[y], p + 1)
        BY <3>1 DEF Walked, Behind, r
      <3>3. PICK j \in DOMAIN emitted : j < p + 1 /\ Completes(j, Rotation[y])
        BY <3>2 DEF CompletedBefore
      <3>4. j <= p
        BY <1>1, <3>3
      <3>5. PICK n \in DOMAIN maps : maps[n].map = Rotation[y] /\ maps[n].completed
        BY <1>3, <3>3, <3>4 DEF Folded, Completes
      <3>6. y \in DOMAIN Rotation
        BY <2>1
      <3>7. n = y
        BY <2>2, <3>5, <3>6, Positions
      <3> QED BY <3>5, <3>7
    <2>4. Len(maps) + 1 = r
      <3>1. CASE Len(maps) = 0
        <4>1. ~(1 \in 1..(r - 1))
          BY <1>2, <2>3, <3>1
        <4> QED BY <2>1, <3>1, <4>1
      <3>2. CASE Len(maps) # 0
        <4>1. Len(maps) < r
          BY <1>2, <2>2, <3>2
        <4>2. CASE r - 1 >= 1
          <5>1. r - 1 \in 1..(r - 1)
            BY <2>1, <4>2
          <5>2. r - 1 <= Len(maps)
            BY <1>2, <2>3, <5>1
          <5> QED BY <1>2, <2>1, <4>1, <5>2
        <4> QED BY <1>2, <2>1, <3>2, <4>1, <4>2
      <3> QED BY <3>1, <3>2
    <2>5. ~open
      <3> SUFFICES ASSUME open PROVE FALSE
        OBVIOUS
      <3>1. maps # <<>>
        BY <1>1 DEF LastClosed
      <3>2. Len(maps) # 0 /\ Run!Last = maps[Len(maps)]
        BY <1>1, <3>1, EmptySeq DEF Run!Last
      <3>3. Len(maps) \in 1..(r - 1)
        BY <1>2, <2>1, <2>4, <3>2
      <3>4. Run!Last.completed
        BY <2>3, <3>2, <3>3
      <3> QED BY <1>1, <3>1, <3>4 DEF LastClosed
    <2>6. \A i \in Beats(emitted, m) : i > p + 1
      <3> SUFFICES ASSUME NEW i \in Beats(emitted, m), ~(i > p + 1) PROVE FALSE
        OBVIOUS
      <3>1. i \in DOMAIN emitted /\ emitted[i].event = "Progress" /\ emitted[i].map = m
        BY DEF Beats
      <3>2. i # p + 1
        BY <1>7, <3>1
      <3>3. i <= p
        BY <1>1, <3>1, <3>2
      <3> QED BY <1>4, <1>7, <3>1, <3>3
    <2> QED BY <2>1, <2>4, <2>5, <2>6
  <1> QED BY <1>5, <1>6, <1>7
-----------------------------------------------------------------------------
\* The next line of the copy that counts.
Reads(p) ==
    /\ EngineInv /\ RunInv /\ Story /\ terminal = "None"
    /\ p \in Nat /\ p + 1 \in DOMAIN emitted /\ AheadAt(p + 1)
    /\ Caught(emitted, maps, open, p)
    /\ maps' \in Seq(Entries)

EndsAt(d) ==
    /\ ~open'
    /\ FirstEnd(emitted, d) /\ terminal' = EndReason(emitted[d].event)
    /\ Settled(emitted, maps', d)

Goes(p) == IF terminal' = "None" THEN Caught(emitted, maps', open', p + 1) ELSE EndsAt(p + 1)

\* What is known when the next line of the copy that counts is read.
LEMMA ReadFacts ==
    ASSUME NEW p, Reads(p)
    PROVE  /\ p \in Nat /\ p + 1 \in DOMAIN emitted
           /\ DOMAIN emitted = 1..Len(emitted) /\ Len(emitted) \in Nat
           /\ \A i \in DOMAIN emitted : i \in Nat /\ (i <= p + 1 => i <= p \/ i = p + 1)
           /\ \A i \in DOMAIN emitted : i <= p => Folded(emitted, maps, i)
           /\ Len(maps) \in Nat /\ DOMAIN maps = 1..Len(maps) /\ maps \in Seq(Entries)
           /\ maps' \in Seq(Entries) /\ open \in BOOLEAN /\ terminal = "None"
           /\ open => maps # <<>> /\ Len(maps) \in DOMAIN maps /\ Run!Last = maps[Len(maps)]
                        /\ ~Run!Last.completed
           /\ \A n \in DOMAIN maps :
                 /\ n \in DOMAIN Rotation /\ maps[n].map = Rotation[n]
                 /\ IF open /\ n = Len(maps) THEN Latest(emitted, maps[n], p)
                                             ELSE Closed(emitted, maps[n])
           /\ \A n, k \in DOMAIN maps : maps[n].map = maps[k].map => n = k
  <1>1. /\ EngineInv /\ RunInv /\ terminal = "None" /\ p \in Nat /\ p + 1 \in DOMAIN emitted
        /\ Caught(emitted, maps, open, p) /\ maps' \in Seq(Entries)
    BY DEF Reads
  <1>2. emitted \in Seq(Lines)
    BY <1>1 DEF EngineInv, EngineTypes
  <1>3. DOMAIN emitted = 1..Len(emitted) /\ Len(emitted) \in Nat
    BY <1>2, LineOf
  <1>4. \A i \in DOMAIN emitted : i \in Nat /\ (i <= p + 1 => i <= p \/ i = p + 1)
    BY <1>1, <1>3
  <1>5. maps \in Seq(Entries) /\ open \in BOOLEAN /\ LastClosed
    BY <1>1 DEF RunInv, RunTypes
  <1>6. Len(maps) \in Nat /\ DOMAIN maps = 1..Len(maps)
    BY <1>5
  <1>7. open => maps # <<>> /\ Len(maps) \in DOMAIN maps /\ Run!Last = maps[Len(maps)]
                  /\ ~Run!Last.completed
    BY <1>1, <1>5, LastOf DEF LastClosed
  <1>8. \A n \in DOMAIN maps : n \in DOMAIN Rotation /\ maps[n].map = Rotation[n]
    BY <1>1 DEF Caught
  <1>9. \A n, k \in DOMAIN maps : maps[n].map = maps[k].map => n = k
    BY <1>8, TelemetryAssumption
  <1> QED BY <1>1, <1>3, <1>4, <1>5, <1>6, <1>7, <1>8, <1>9 DEF Caught

\* A line that leaves the list alone.
LEMMA GoesOn ==
    ASSUME NEW p, Reads(p), maps' = maps, open' = open, Folded(emitted, maps, p + 1),
           emitted[p + 1].event = "Progress" => ~OpenOn(emitted[p + 1].map)
    PROVE  Caught(emitted, maps', open', p + 1)
  <1>1. \A i \in DOMAIN emitted : i <= p + 1 => Folded(emitted, maps, i)
    BY ReadFacts
  <1>2. ASSUME open PROVE Latest(emitted, maps[Len(maps)], p + 1)
    <2> DEFINE e == maps[Len(maps)]
    <2>1. Latest(emitted, e, p) /\ maps # <<>> /\ Run!Last = e
      BY <1>2, ReadFacts
    <2>2. \A i \in Beats(emitted, e.map) : i > p => i > p + 1
      <3> SUFFICES ASSUME NEW i \in Beats(emitted, e.map), i > p, ~(i > p + 1) PROVE FALSE
        OBVIOUS
      <3>1. i \in DOMAIN emitted /\ emitted[i].event = "Progress" /\ emitted[i].map = e.map
        BY DEF Beats
      <3>2. i = p + 1
        BY <3>1, ReadFacts
      <3> QED BY <1>2, <2>1, <3>1, <3>2 DEF OpenOn
    <2> HIDE DEF e
    <2>3. ASSUME e.stats.kills = 0, e.stats.items = 0, \A i \in Beats(emitted, e.map) : i > p
          PROVE  Latest(emitted, e, p + 1)
      BY <2>2, <2>3 DEF Latest
    <2>4. ASSUME NEW q \in Beats(emitted, e.map), Before(emitted, q),
                 e.stats.kills = emitted[q].stats.kills, e.stats.items = emitted[q].stats.items,
                 \A i \in Beats(emitted, e.map) : i > p \/ i <= q
          PROVE  Latest(emitted, e, p + 1)
      <3>1. \A i \in Beats(emitted, e.map) : i > p + 1 \/ i <= q
        BY <2>2, <2>4
      <3> QED BY <2>4, <3>1 DEF Latest
    <2>5. Latest(emitted, e, p + 1)
      BY <2>1, <2>3, <2>4 DEF Latest
    <2> QED BY <2>5 DEF e
  <1> QED BY <1>1, <1>2, ReadFacts DEF Caught

\* The list with its last entry replaced.
LEMMA LastReplaced ==
    ASSUME maps \in Seq(Entries), maps' \in Seq(Entries), maps # <<>>, NEW e,
           maps' = [maps EXCEPT ![Len(maps)] = e]
    PROVE  /\ Len(maps') = Len(maps) /\ DOMAIN maps' = DOMAIN maps /\ Len(maps) \in DOMAIN maps
           /\ maps'[Len(maps)] = e
           /\ \A n \in DOMAIN maps : n # Len(maps) => maps'[n] = maps[n]
  <1>1. /\ Len(maps) \in Nat /\ DOMAIN maps = 1..Len(maps) /\ Len(maps) \in DOMAIN maps
    BY LastOf
  <1>2. Len(maps') \in Nat /\ DOMAIN maps' = 1..Len(maps')
    OBVIOUS
  <1>3. /\ DOMAIN maps' = DOMAIN maps /\ maps'[Len(maps)] = e
        /\ \A n \in DOMAIN maps : n # Len(maps) => maps'[n] = maps[n]
    BY <1>1
  <1>4. Len(maps') = Len(maps)
    <2> DEFINE a == Len(maps)
               b == Len(maps')
    <2>1. a \in Nat /\ b \in Nat /\ 1..a = 1..b /\ a \in 1..a
      BY <1>1, <1>2, <1>3
    <2> HIDE DEF a, b
    <2>2. b \in 1..b /\ b \in 1..a /\ a \in 1..b
      BY <2>1
    <2>3. a = b
      BY <2>1, <2>2
    <2> QED BY <2>3 DEF a, b
  <1> QED BY <1>1, <1>3, <1>4

\* A line that revises the entry in progress.
LEMMA GoesOnRevised ==
    ASSUME NEW p, Reads(p), open, NEW e, e.map = Run!Last.map,
           maps' = [maps EXCEPT ![Len(maps)] = e], open' \in BOOLEAN,
           ~Ends(emitted[p + 1]), emitted[p + 1].event # "LevelEnter",
           emitted[p + 1].event = "LevelComplete" => emitted[p + 1].map = e.map /\ e.completed,
           IF open' THEN Latest(emitted, e, p + 1) ELSE Closed(emitted, e)
    PROVE  Caught(emitted, maps', open', p + 1)
  <1>1. /\ maps \in Seq(Entries) /\ maps' \in Seq(Entries) /\ maps # <<>>
        /\ Run!Last = maps[Len(maps)] /\ ~Run!Last.completed
    BY ReadFacts
  <1>2. /\ Len(maps') = Len(maps) /\ DOMAIN maps' = DOMAIN maps /\ Len(maps) \in DOMAIN maps
        /\ maps'[Len(maps)] = e
        /\ \A n \in DOMAIN maps : n # Len(maps) => maps'[n] = maps[n]
    BY <1>1, LastReplaced
  <1>3. \A n \in DOMAIN maps : maps'[n].map = maps[n].map /\ (maps[n].completed => maps'[n] = maps[n])
    BY <1>1, <1>2
  <1>4. ASSUME NEW i \in DOMAIN emitted, i <= p + 1 PROVE Folded(emitted, maps', i)
    <2>1. CASE i = p + 1
      BY <1>2, <2>1 DEF Folded
    <2>2. CASE i <= p
      <3>1. Folded(emitted, maps, i)
        BY <2>2, ReadFacts
      <3>2. /\ emitted[i].event = "LevelEnter" => \E n \in DOMAIN maps' : maps'[n].map = emitted[i].map
        BY <1>2, <1>3, <3>1 DEF Folded
      <3>3. emitted[i].event = "LevelComplete" =>
              \E n \in DOMAIN maps' : maps'[n].map = emitted[i].map /\ maps'[n].completed
        BY <1>2, <1>3, <3>1 DEF Folded
      <3> QED BY <3>1, <3>2, <3>3 DEF Folded
    <2> QED BY <1>4, <2>1, <2>2, ReadFacts
  <1>5. ASSUME NEW n \in DOMAIN maps'
        PROVE  /\ n \in DOMAIN Rotation /\ maps'[n].map = Rotation[n]
               /\ IF open' /\ n = Len(maps') THEN Latest(emitted, maps'[n], p + 1)
                                             ELSE Closed(emitted, maps'[n])
    <2>1. n \in DOMAIN Rotation /\ maps'[n].map = Rotation[n]
      BY <1>2, <1>3, ReadFacts
    <2>2. CASE n = Len(maps)
      BY <1>2, <2>1, <2>2
    <2>3. CASE n # Len(maps)
      BY <1>2, <2>1, <2>3, ReadFacts
    <2> QED BY <2>2, <2>3
  <1> QED BY <1>4, <1>5 DEF Caught

\* A level_enter read next opens the entry of the next map, or finds it in the list.
LEMMA EnterCaught ==
    ASSUME NEW p, Reads(p), Run!LevelEnter(emitted[p + 1])
    PROVE  Goes(p)
  <1> DEFINE ev == emitted[p + 1]
             m == emitted[p + 1].map
  <1>1. ev.event = "LevelEnter" /\ ~Ends(ev)
    BY DEF Run!LevelEnter, Run!Live, Ends
  <1>2. CASE Run!Recorded(m) /\ Run!Drop("Duplicate")
    <2>1. maps' = maps /\ open' = open /\ terminal' = terminal
      BY <1>2 DEF Run!Drop, Run!state
    <2>2. Folded(emitted, maps, p + 1)
      BY <1>1, <1>2 DEF Folded, Run!Recorded
    <2> QED BY <1>1, <2>1, <2>2, GoesOn, ReadFacts DEF Goes
  <1>3. CASE ~Run!Recorded(m)
    <2> DEFINE e == Run!Entry(m, Run!ZeroStats, FALSE)
               k == Len(maps) + 1
    <2>1. maps' = Append(maps, e) /\ open' = TRUE /\ terminal' = "None"
      BY <1>3 DEF Run!LevelEnter, Run!Push, Run!Applied
    <2>2. emitted[p + 1] \in Lines /\ m \in MapNames
      BY ReadFacts, LineOf DEF Reads, EngineInv, EngineTypes
    <2>3. e \in Entries /\ e.map = m /\ e.stats.kills = 0 /\ e.stats.items = 0
      <3> DEFINE z == Run!ZeroStats
      <3>1. z \in Counts /\ z.kills = 0 /\ z.items = 0
        BY ZeroCounts
      <3> HIDE DEF z, m
      <3>2. /\ Run!Entry(m, z, FALSE) \in Entries
            /\ Run!Entry(m, z, FALSE).map = m /\ Run!Entry(m, z, FALSE).stats = z
        BY <2>2, <3>1, EntryMade
      <3> QED BY <3>1, <3>2 DEF z
    <2> HIDE DEF e
    <2>4. ~open /\ k \in DOMAIN Rotation /\ m = Rotation[k] /\ \A i \in Beats(emitted, m) : i > p + 1
      BY <1>1, <1>3, NextLine DEF Reads, Story
    <2>5. /\ Len(maps') = k /\ k \in DOMAIN maps' /\ maps'[k] = e /\ k \in Nat
          /\ \A n \in DOMAIN maps : n \in DOMAIN maps' /\ maps'[n] = maps[n] /\ n # k
          /\ \A n \in DOMAIN maps' : n = k \/ n \in DOMAIN maps
      <3> DEFINE T == Entries
      <3>1. maps \in Seq(T) /\ e \in T /\ Len(maps) \in Nat /\ DOMAIN maps = 1..Len(maps)
        BY <2>3, ReadFacts
      <3> HIDE DEF T
      <3>2. /\ maps' \in Seq(T) /\ Len(maps') = Len(maps) + 1
            /\ \A n \in 1..Len(maps) : maps'[n] = maps[n]
            /\ maps'[Len(maps) + 1] = e
        BY <2>1, <3>1, AppendProperties
      <3>3. k \in Nat /\ DOMAIN maps' = 1..k /\ k \in 1..k
        BY <3>1, <3>2
      <3>4. \A n \in DOMAIN maps : n \in 1..k /\ n # k
        BY <3>1
      <3>5. \A n \in 1..k : n = k \/ n \in DOMAIN maps
        BY <3>1
      <3> QED BY <3>1, <3>2, <3>3, <3>4, <3>5
    <2> HIDE DEF k
    <2>7. Latest(emitted, e, p + 1)
      <3>1. \A i \in Beats(emitted, e.map) : i > p + 1
        BY <2>3, <2>4
      <3> QED BY <2>3, <3>1 DEF Latest
    <2>8. ASSUME NEW i \in DOMAIN emitted, i <= p + 1 PROVE Folded(emitted, maps', i)
      <3>1. CASE i = p + 1
        BY <1>1, <2>3, <2>5, <3>1 DEF Folded
      <3>2. CASE i <= p
        <4>1. Folded(emitted, maps, i)
          BY <3>2, ReadFacts
        <4> QED BY <2>5, <4>1 DEF Folded
      <3> QED BY <2>8, <3>1, <3>2, ReadFacts
    <2>9. ASSUME NEW n \in DOMAIN maps'
          PROVE  /\ n \in DOMAIN Rotation /\ maps'[n].map = Rotation[n]
                 /\ IF n = Len(maps') THEN Latest(emitted, maps'[n], p + 1)
                                      ELSE Closed(emitted, maps'[n])
      <3>1. CASE n = k
        BY <2>3, <2>4, <2>5, <2>7, <3>1
      <3>2. CASE n \in DOMAIN maps
        BY <2>4, <2>5, <3>2, ReadFacts
      <3> QED BY <2>5, <3>1, <3>2
    <2>10. Caught(emitted, maps', open', p + 1)
      BY <2>1, <2>8, <2>9 DEF Caught
    <2> QED BY <2>1, <2>10 DEF Goes
  <1> QED BY <1>2, <1>3 DEF Run!LevelEnter

\* A line that does not end the run stands before the one that does.
LEMMA BeforeEnd ==
    ASSUME NEW p, Reads(p)
    PROVE  /\ ~Ends(emitted[p + 1]) => Before(emitted, p + 1)
           /\ Ends(emitted[p + 1]) =>
                 /\ FirstEnd(emitted, p + 1)
                 /\ \A q \in DOMAIN emitted : Before(emitted, q) => q <= p
  <1>1. \A d \in DOMAIN emitted : Ends(emitted[d]) => d > p /\ d \in Nat
    BY ReadFacts DEF Folded
  <1>2. p \in Nat /\ p + 1 \in DOMAIN emitted /\ \A i \in DOMAIN emitted : i \in Nat
    BY ReadFacts
  <1>3. ASSUME ~Ends(emitted[p + 1]), NEW d \in DOMAIN emitted, Ends(emitted[d]) PROVE p + 1 < d
    <2>1. d # p + 1 /\ d > p /\ d \in Nat
      BY <1>1, <1>3
    <2> QED BY <1>2, <2>1
  <1>4. ASSUME Ends(emitted[p + 1]) PROVE FirstEnd(emitted, p + 1)
    BY <1>1, <1>2, <1>4 DEF FirstEnd
  <1>5. ASSUME Ends(emitted[p + 1]), NEW q \in DOMAIN emitted, Before(emitted, q) PROVE q <= p
    BY <1>2, <1>5 DEF Before
  <1> QED BY <1>3, <1>4, <1>5 DEF Before

\* A level_complete read next closes the entry of its map with the counters it carries.
LEMMA CompleteCaught ==
    ASSUME NEW p, Reads(p), Run!LevelComplete(emitted[p + 1])
    PROVE  Goes(p)
  <1> DEFINE ev == emitted[p + 1]
             m == emitted[p + 1].map
  <1>1. ev.event = "LevelComplete" /\ ~Ends(ev)
    BY DEF Run!LevelComplete, Run!Live, Ends
  <1>2. PICK n \in DOMAIN maps : maps[n].map = m
    BY <1>1, NextLine DEF Reads, Story, Run!Recorded
  <1>3. CASE ~Run!OpenOn(m)
    <2>1. maps' = maps /\ open' = open /\ terminal' = terminal
      BY <1>2, <1>3 DEF Run!LevelComplete, Run!Drop, Run!state, Run!Recorded
    <2>2. ~(open /\ n = Len(maps))
      BY <1>2, <1>3, ReadFacts DEF Run!OpenOn
    <2>3. maps[n].completed
      BY <2>2, ReadFacts DEF Closed
    <2>4. Folded(emitted, maps, p + 1)
      BY <1>1, <1>2, <2>3 DEF Folded
    <2> QED BY <1>1, <2>1, <2>4, GoesOn, ReadFacts DEF Goes
  <1>4. CASE Run!OpenOn(m)
    <2> DEFINE e == Run!Entry(m, ev.stats, TRUE)
    <2>1. open /\ Run!Last.map = m
      BY <1>4 DEF Run!OpenOn
    <2>2. maps' = [maps EXCEPT ![Len(maps)] = e] /\ open' = FALSE /\ terminal' = "None"
      BY <1>4, <2>1 DEF Run!LevelComplete, Run!OpenOn, Run!ReplaceLast, Run!Applied
    <2>3. e.map = m /\ e.completed /\ e.stats = ev.stats
      BY DEF Run!Entry
    <2> HIDE DEF e
    <2>4. p + 1 \in Completions(emitted, e.map)
      BY <1>1, <2>3, ReadFacts DEF Completions
    <2>5. Before(emitted, p + 1)
      BY <1>1, BeforeEnd
    <2>6. Closed(emitted, e)
      BY <2>3, <2>4, <2>5 DEF Closed
    <2>7. Caught(emitted, maps', open', p + 1)
      BY <1>1, <2>1, <2>2, <2>3, <2>6, GoesOnRevised
    <2> QED BY <2>2, <2>7 DEF Goes
  <1> QED BY <1>3, <1>4

\* A heartbeat read next becomes the latest of its map, or is older than what the list has.
LEMMA ProgressCaught ==
    ASSUME NEW p, Reads(p), Run!Progress(emitted[p + 1])
    PROVE  Goes(p)
  <1> DEFINE ev == emitted[p + 1]
             m == emitted[p + 1].map
  <1>1. ev.event = "Progress" /\ ~Ends(ev)
    BY DEF Run!Progress, Run!Live, Ends
  <1>2. Run!Recorded(m)
    BY <1>1, NextLine DEF Reads, Story
  <1>3. CASE ~Run!OpenOn(m)
    <2>1. maps' = maps /\ open' = open /\ terminal' = terminal
      BY <1>2, <1>3 DEF Run!Progress, Run!Drop, Run!state
    <2>2. Folded(emitted, maps, p + 1)
      BY <1>1 DEF Folded
    <2>3. ~OpenOn(m)
      BY <1>3 DEF OpenOn, Run!OpenOn
    <2> QED BY <2>1, <2>2, <2>3, GoesOn, ReadFacts DEF Goes
  <1>4. CASE Run!OpenOn(m)
    <2> DEFINE e == Run!Entry(m, ev.stats, FALSE)
    <2>1. open /\ Run!Last.map = m
      BY <1>4 DEF Run!OpenOn
    <2>2. maps' = [maps EXCEPT ![Len(maps)] = e] /\ open' = TRUE /\ terminal' = "None"
      BY <1>4 DEF Run!Progress, Run!ReplaceLast, Run!Applied
    <2>3. e.map = m /\ e.stats = ev.stats
      BY DEF Run!Entry
    <2> HIDE DEF e
    <2>4. p + 1 \in Beats(emitted, e.map)
      BY <1>1, <2>3, ReadFacts DEF Beats
    <2>5. Before(emitted, p + 1)
      BY <1>1, BeforeEnd
    <2>6. \A i \in Beats(emitted, e.map) : i > p + 1 \/ i <= p + 1
      BY ReadFacts DEF Beats
    <2>7. Latest(emitted, e, p + 1)
      BY <2>3, <2>4, <2>5, <2>6 DEF Latest
    <2>8. Caught(emitted, maps', open', p + 1)
      BY <1>1, <2>1, <2>2, <2>3, <2>7, GoesOnRevised
    <2> QED BY <2>2, <2>8 DEF Goes
  <1> QED BY <1>3, <1>4
-----------------------------------------------------------------------------
\* The lines that end the run, and a run that ends without one.
Stands(p) ==
    /\ EngineInv /\ RunInv /\ Story /\ terminal = "None"
    /\ p \in Nat /\ Caught(emitted, maps, open, p)

\* The list says the same of every map, up to the tics of a map that is not completed.
Alike(list) ==
    /\ DOMAIN list = DOMAIN maps
    /\ \A n \in DOMAIN maps :
          /\ list[n].map = maps[n].map /\ list[n].completed = maps[n].completed
          /\ list[n].stats.kills = maps[n].stats.kills /\ list[n].stats.items = maps[n].stats.items
          /\ maps[n].completed => list[n].stats = maps[n].stats

\* What is known of the list while the run goes on.
LEMMA StandFacts ==
    ASSUME NEW p, Stands(p)
    PROVE  /\ p \in Nat
           /\ \A i \in DOMAIN emitted : i \in Nat
           /\ \A i \in DOMAIN emitted : i <= p => Folded(emitted, maps, i)
           /\ \A n \in DOMAIN maps :
                 /\ n \in DOMAIN Rotation /\ maps[n].map = Rotation[n] /\ maps[n].completed \in BOOLEAN
                 /\ IF open /\ n = Len(maps) THEN Latest(emitted, maps[n], p) /\ ~maps[n].completed
                                             ELSE Closed(emitted, maps[n])
           /\ \A n, k \in DOMAIN maps : maps[n].map = maps[k].map => n = k
           /\ \A i \in DOMAIN emitted : i <= p /\ emitted[i].event # "RunStart" =>
                 \E n \in DOMAIN maps : maps[n].map = emitted[i].map
  <1>1. /\ EngineInv /\ RunInv /\ terminal = "None" /\ p \in Nat /\ Caught(emitted, maps, open, p)
    BY DEF Stands
  <1>2. emitted \in Seq(Lines) /\ AnnouncedFirst
    BY <1>1 DEF EngineInv, EngineTypes
  <1>3. \A i \in DOMAIN emitted : i \in Nat
    BY <1>2, LineOf
  <1>4. maps \in Seq(Entries) /\ LastClosed
    BY <1>1 DEF RunInv, RunTypes
  <1>5. \A n \in DOMAIN maps : maps[n].completed \in BOOLEAN
    <2> DEFINE T == Entries
    <2>1. \A e \in T : e.completed \in BOOLEAN
      BY DEF Entries
    <2>2. maps \in Seq(T)
      BY <1>4
    <2> HIDE DEF T
    <2> QED BY <2>1, <2>2
  <1>6. \A n \in DOMAIN maps : open /\ n = Len(maps) => ~maps[n].completed
    BY <1>1, <1>4, LastOf DEF LastClosed
  <1>7. \A n \in DOMAIN maps : n \in DOMAIN Rotation /\ maps[n].map = Rotation[n]
    BY <1>1 DEF Caught
  <1>8. \A n, k \in DOMAIN maps : maps[n].map = maps[k].map => n = k
    BY <1>7, TelemetryAssumption
  <1>9. \A i \in DOMAIN emitted : i <= p => Folded(emitted, maps, i)
    BY <1>1 DEF Caught
  <1>10. ASSUME NEW i \in DOMAIN emitted, i <= p, emitted[i].event # "RunStart"
         PROVE  \E n \in DOMAIN maps : maps[n].map = emitted[i].map
    <2>1. PICK j \in DOMAIN emitted :
             j <= i /\ emitted[j].event = "LevelEnter" /\ emitted[j].map = emitted[i].map
      BY <1>2, <1>10 DEF AnnouncedFirst, Announced
    <2>2. j <= p
      BY <1>1, <1>3, <1>10, <2>1
    <2> QED BY <1>9, <2>1, <2>2 DEF Folded
  <1> QED BY <1>1, <1>3, <1>5, <1>6, <1>7, <1>8, <1>9, <1>10 DEF Caught

\* No closing line of the map in progress is read yet.
LEMMA Unclosed ==
    ASSUME NEW p, Stands(p), open, NEW n \in DOMAIN maps, n = Len(maps), NEW i \in DOMAIN emitted,
           i <= p, emitted[i].map = maps[n].map
    PROVE  ~Closing(emitted[i])
  <1>1. Folded(emitted, maps, i)
    BY StandFacts
  <1>2. emitted[i].event # "PlayerDied"
    BY <1>1 DEF Folded, Ends
  <1>3. ASSUME emitted[i].event = "LevelComplete" PROVE FALSE
    <2>1. PICK k \in DOMAIN maps : maps[k].map = emitted[i].map /\ maps[k].completed
      BY <1>1, <1>3 DEF Folded
    <2>2. k = n
      BY <2>1, StandFacts
    <2> QED BY <2>1, <2>2, StandFacts
  <1> QED BY <1>2, <1>3 DEF Closing

\* Only the map and the counters of an entry matter to the heartbeat it holds.
LEMMA SameCounters ==
    ASSUME NEW e, NEW c, c.map = e.map, c.stats.kills = e.stats.kills,
           c.stats.items = e.stats.items, NEW p, Latest(emitted, e, p)
    PROVE  Latest(emitted, c, p)
  BY DEF Latest

\* A list that holds everything up to the end of the run is exact.
LEMMA Settles ==
    ASSUME NEW p, Stands(p), NEW k \in Nat, p <= k, NEW list, Alike(list),
           \A q \in DOMAIN emitted : Before(emitted, q) => q <= k,
           \A i \in DOMAIN emitted :
              i <= k => i <= p \/ emitted[i].event \in {"RunQuit", "RunComplete"}
    PROVE  Settled(emitted, list, k)
  <1>0. EngineInv /\ Zeros /\ Counting
    BY DEF Stands, Story
  <1>1. ASSUME NEW n \in DOMAIN maps PROVE Exact(emitted, list[n], k)
    <2> DEFINE e == maps[n]
               c == list[n]
    <2>1. /\ c.map = e.map /\ c.completed = e.completed /\ e.completed \in BOOLEAN
          /\ c.stats.kills = e.stats.kills /\ c.stats.items = e.stats.items
          /\ e.completed => c.stats = e.stats
      BY StandFacts DEF Alike
    <2>2. CASE ~(open /\ n = Len(maps))
      <3>1. Closed(emitted, e)
        BY <2>2, StandFacts
      <3> HIDE DEF e, c
      <3>2. Closed(emitted, c)
        BY <2>1, <3>1 DEF Closed
      <3>3. Exact(emitted, c, k)
        BY <1>0, <3>2, ClosedExact
      <3> QED BY <3>3 DEF c
    <2>3. CASE open /\ n = Len(maps)
      <3>1. Latest(emitted, e, p) /\ ~e.completed
        BY <2>3, StandFacts
      <3>2. \A i \in DOMAIN emitted : i <= k /\ emitted[i].map = e.map =>
               ~Closing(emitted[i]) /\ (emitted[i].event = "Progress" => i <= p)
        BY <2>3, Unclosed DEF Closing
      <3>3. p \in Nat
        BY StandFacts
      <3> HIDE DEF e, c
      <3>4. Latest(emitted, c, p) /\ ~c.completed
        BY <2>1, <3>1, SameCounters
      <3>5. Exact(emitted, c, k)
        BY <1>0, <2>1, <3>2, <3>3, <3>4, LatestExact
      <3> QED BY <3>5 DEF c
    <2> QED BY <2>2, <2>3
  <1>2. ASSUME NEW i \in DOMAIN emitted, i <= k,
               emitted[i].event \in {"Progress", "LevelComplete", "PlayerDied"}
        PROVE  \E n \in DOMAIN list : list[n].map = emitted[i].map
    <2>1. i <= p /\ emitted[i].event # "RunStart"
      BY <1>2
    <2>2. PICK n \in DOMAIN maps : maps[n].map = emitted[i].map
      BY <2>1, StandFacts
    <2> QED BY <2>2 DEF Alike
  <1> QED BY <1>1, <1>2, StandFacts DEF Settled, Alike

\* A quit, or the completion of the run, read next settles the list.
LEMMA QuitCaught ==
    ASSUME NEW p, Reads(p), Run!RunQuit(emitted[p + 1]) \/ Run!RunComplete(emitted[p + 1])
    PROVE  Goes(p)
  <1> DEFINE ev == emitted[p + 1]
             m == emitted[p + 1].map
  <1>1. /\ ev.event \in {"RunQuit", "RunComplete"} /\ Ends(ev) /\ terminal' = EndReason(ev.event)
        /\ terminal' # "None" /\ ~open'
    BY DEF Run!RunQuit, Run!RunComplete, Run!Live, Run!Applied, Ends, EndReason
  <1>2. FirstEnd(emitted, p + 1) /\ \A q \in DOMAIN emitted : Before(emitted, q) => q <= p
    BY <1>1, BeforeEnd
  <1>3. Stands(p)
    BY DEF Stands, Reads
  <1>4. Alike(maps')
    <2>1. CASE maps' = maps
      BY <2>1 DEF Alike
    <2>2. CASE maps' # maps
      <3>1. Run!RunQuit(ev) /\ ev.event = "RunQuit"
        BY <2>2 DEF Run!RunComplete, Run!RunQuit, Run!Live
      <3>2. Run!Recorded(m)
        BY <3>1, NextLine DEF Reads, Story
      <3>3. Run!OpenOn(m)
        BY <2>2, <3>1, <3>2 DEF Run!RunQuit
      <3> DEFINE s == [Run!Last.stats EXCEPT !.tics = Run!QuitTics(ev)]
                 e == Run!Entry(m, s, FALSE)
      <3>4. maps' = [maps EXCEPT ![Len(maps)] = e]
        BY <3>1, <3>3 DEF Run!RunQuit, Run!ReplaceLast
      <3>5. open /\ maps # <<>> /\ Run!Last.map = m /\ Run!Last = maps[Len(maps)] /\ ~Run!Last.completed
            /\ maps \in Seq(Entries) /\ maps' \in Seq(Entries)
        BY <3>3, ReadFacts DEF Run!OpenOn
      <3>6. s.kills = Run!Last.stats.kills /\ s.items = Run!Last.stats.items
        BY <3>5, LastOf DEF Counts
      <3>7. e.map = m /\ e.stats = s /\ e.completed = FALSE
        BY DEF Run!Entry
      <3> HIDE DEF e, s
      <3>8. /\ DOMAIN maps' = DOMAIN maps /\ maps'[Len(maps)] = e /\ Len(maps) \in DOMAIN maps
            /\ \A n \in DOMAIN maps : n # Len(maps) => maps'[n] = maps[n]
        BY <3>4, <3>5, LastReplaced
      <3>9. maps[Len(maps)].completed = FALSE
        BY <1>3, <3>5, <3>8, StandFacts
      <3> QED BY <3>5, <3>6, <3>7, <3>8, <3>9 DEF Alike
    <2> QED BY <2>1, <2>2
  <1>5. Settled(emitted, maps', p + 1)
    <2>1. \A i \in DOMAIN emitted :
             i <= p + 1 => i <= p \/ emitted[i].event \in {"RunQuit", "RunComplete"}
      BY <1>1, ReadFacts
    <2>2. \A q \in DOMAIN emitted : Before(emitted, q) => q <= p + 1
      BY <1>2, ReadFacts
    <2>3. p + 1 \in Nat /\ p <= p + 1
      BY ReadFacts
    <2> QED BY <1>3, <1>4, <2>1, <2>2, <2>3, Settles
  <1> QED BY <1>1, <1>2, <1>5 DEF Goes, EndsAt

\* The death read next settles the list, with the kills it brings for the map in progress.
LEMMA DeathCaught ==
    ASSUME NEW p, Reads(p), Run!PlayerDied(emitted[p + 1])
    PROVE  Goes(p)
  <1> DEFINE ev == emitted[p + 1]
             m == emitted[p + 1].map
             k == Len(maps)
  <1>1. /\ ev.event = "PlayerDied" /\ Ends(ev) /\ terminal' = EndReason(ev.event)
        /\ terminal' # "None" /\ ~open'
    BY DEF Run!PlayerDied, Run!Live, Run!Applied, Ends, EndReason
  <1>2. FirstEnd(emitted, p + 1) /\ \A q \in DOMAIN emitted : Before(emitted, q) => q <= p
    BY <1>1, BeforeEnd
  <1>3. /\ Stands(p) /\ EngineInv /\ Zeros /\ Counting
        /\ \A i \in DOMAIN emitted : emitted[i].stats.kills \in Nat /\ emitted[i].stats.items \in Nat
    <2>1. emitted \in Seq(Lines)
      BY DEF Reads, EngineInv, EngineTypes
    <2>2. \A i \in DOMAIN emitted : emitted[i].stats.kills \in Nat /\ emitted[i].stats.items \in Nat
      BY <2>1, LineOf, CountsType
    <2> QED BY <2>2 DEF Stands, Reads, Story
  <1>4. Run!OpenOn(m) /\ Run!Recorded(m)
    BY <1>1, NextLine DEF Reads, Story, OpenOn, Run!OpenOn
  <1>5. open /\ maps # <<>> /\ Run!Last.map = m /\ Run!Last = maps[k] /\ ~Run!Last.completed
        /\ maps \in Seq(Entries) /\ maps' \in Seq(Entries)
    BY <1>4, ReadFacts DEF Run!OpenOn
  <1> DEFINE s == [Run!Last.stats EXCEPT !.kills = ev.stats.kills, !.tics = ev.stats.tics]
             e == Run!Entry(m, s, FALSE)
  <1>6. maps' = [maps EXCEPT ![k] = e]
    BY <1>4 DEF Run!PlayerDied, Run!ReplaceLast
  <1>7. s.kills = ev.stats.kills /\ s.items = Run!Last.stats.items
    BY <1>5, LastOf DEF Counts
  <1>8. e.map = m /\ e.stats = s /\ e.completed = FALSE
    BY DEF Run!Entry
  <1> HIDE DEF e, s
  <1>9. /\ DOMAIN maps' = DOMAIN maps /\ maps'[k] = e /\ k \in DOMAIN maps
        /\ \A n \in DOMAIN maps : n # k => maps'[n] = maps[n]
    BY <1>5, <1>6, LastReplaced
  \* What was read of the map, up to the death.
  <1>10. Exact(emitted, maps[k], p)
    <2>1. Latest(emitted, maps[k], p) /\ ~maps[k].completed
      BY <1>3, <1>5, <1>9, StandFacts
    <2>2. \A i \in DOMAIN emitted : i <= p /\ emitted[i].map = maps[k].map =>
             ~Closing(emitted[i]) /\ (emitted[i].event = "Progress" => i <= p)
      BY <1>3, <1>5, <1>9, Unclosed
    <2>3. p \in Nat
      BY ReadFacts
    <2> DEFINE c == maps[k]
    <2> HIDE DEF c
    <2>4. Exact(emitted, c, p)
      BY <1>2, <1>3, <2>1, <2>2, <2>3, LatestExact DEF c
    <2> QED BY <2>4 DEF c
  <1>11. Exact(emitted, e, p + 1)
    <2>1. p + 1 \in DOMAIN emitted /\ p + 1 \in Nat /\ p \in Nat
          /\ \A i \in DOMAIN emitted : i \in Nat /\ (i <= p + 1 => i <= p \/ i = p + 1)
      BY ReadFacts
    <2>2. ASSUME NEW i \in Completions(emitted, e.map), i <= p + 1 PROVE FALSE
      <3>1. i \in DOMAIN emitted /\ emitted[i].event = "LevelComplete" /\ emitted[i].map = m
        BY <1>8 DEF Completions
      <3>2. i <= p
        BY <1>1, <2>1, <2>2, <3>1
      <3> QED BY <1>3, <1>5, <1>9, <3>1, <3>2, Unclosed DEF Closing
    <2>3. emitted[p + 1].map = e.map /\ emitted[p + 1].stats.kills = e.stats.kills /\ p + 1 <= p + 1
      BY <1>7, <1>8, <2>1
    <2>4. maps[k].map = e.map /\ maps[k].stats.items = e.stats.items
      BY <1>5, <1>7, <1>8
    <2>5. e.stats.items = 0 \/ \E i \in DOMAIN emitted :
             i <= p + 1 /\ emitted[i].map = e.map /\ emitted[i].stats.items = e.stats.items
      <3>1. e.stats.items = 0 \/ \E i \in DOMAIN emitted :
               i <= p /\ emitted[i].map = e.map /\ emitted[i].stats.items = e.stats.items
        BY <1>10, <2>4 DEF Exact
      <3>2. \A i \in DOMAIN emitted : i <= p => i <= p + 1
        BY <2>1
      <3> QED BY <3>1, <3>2
    <2>6. ASSUME NEW i \in DOMAIN emitted, i <= p + 1, emitted[i].map = e.map
          PROVE  emitted[i].stats.kills <= e.stats.kills /\ emitted[i].stats.items <= e.stats.items
      <3>0. e.stats.items \in Nat
        <4>1. e.stats.items = 0 \/ \E j \in DOMAIN emitted : emitted[j].stats.items = e.stats.items
          BY <2>5
        <4> QED BY <1>3, <4>1
      <3>1. CASE i = p + 1
        <4>1. emitted[i].stats.items = 0
          BY <1>1, <1>3, <3>1 DEF Zeros
        <4> QED BY <1>3, <2>1, <2>3, <3>0, <3>1, <4>1
      <3>2. CASE i <= p
        <4>1. emitted[i].stats.items <= e.stats.items
          BY <1>10, <2>4, <2>6, <3>2 DEF Exact
        <4>2. ~Closing(emitted[i])
          BY <1>3, <1>5, <1>9, <2>4, <2>6, <3>2, Unclosed
        <4>3. CASE emitted[i].event = "Progress"
          <5>1. Heard(i, emitted[p + 1].map) /\ Closing(emitted[p + 1]) /\ i < p + 1
            BY <1>1, <2>1, <2>3, <2>6, <3>2, <4>3 DEF Heard, Closing
          <5>2. emitted[i].stats.kills <= emitted[p + 1].stats.kills
            BY <1>3, <2>1, <5>1 DEF Counting
          <5> QED BY <2>3, <4>1, <5>2
        <4>4. CASE emitted[i].event # "Progress"
          <5>1. emitted[i].stats.kills = 0
            BY <1>3, <4>2, <4>4 DEF Zeros, Closing
          <5>2. e.stats.kills \in Nat
            BY <1>3, <2>1, <2>3
          <5> QED BY <4>1, <5>1, <5>2
        <4> QED BY <4>3, <4>4
      <3> QED BY <2>1, <2>6, <3>1, <3>2
    <2> QED BY <1>8, <2>1, <2>2, <2>3, <2>5, <2>6 DEF Exact
  <1>12. ASSUME NEW n \in DOMAIN maps, n # k PROVE Exact(emitted, maps[n], p + 1)
    <2> DEFINE c == maps[n]
    <2>1. Closed(emitted, c)
      BY <1>3, <1>12, StandFacts
    <2>2. p + 1 \in Nat /\ \A q \in DOMAIN emitted : Before(emitted, q) => q <= p + 1
      BY <1>2, ReadFacts
    <2> HIDE DEF c
    <2>3. Exact(emitted, c, p + 1)
      BY <1>3, <2>1, <2>2, ClosedExact
    <2> QED BY <2>3 DEF c
  <1>13. ASSUME NEW n \in DOMAIN maps'
         PROVE  n \in DOMAIN Rotation /\ maps'[n].map = Rotation[n] /\ Exact(emitted, maps'[n], p + 1)
    <2>1. n \in DOMAIN Rotation /\ maps[n].map = Rotation[n]
      BY <1>9, ReadFacts
    <2>2. CASE n = k
      BY <1>5, <1>8, <1>9, <1>11, <2>1, <2>2
    <2>3. CASE n # k
      BY <1>9, <1>12, <2>1, <2>3
    <2> QED BY <2>2, <2>3
  <1>14. ASSUME NEW i \in DOMAIN emitted, i <= p + 1,
                emitted[i].event \in {"Progress", "LevelComplete", "PlayerDied"}
         PROVE  \E n \in DOMAIN maps' : maps'[n].map = emitted[i].map
    <2>1. \E n \in DOMAIN maps : maps[n].map = emitted[i].map
      <3>1. CASE i = p + 1
        BY <1>4, <3>1 DEF Run!Recorded
      <3>2. CASE i <= p
        BY <1>3, <1>14, <3>2, StandFacts
      <3> QED BY <1>14, <3>1, <3>2, ReadFacts
    <2>2. \A n \in DOMAIN maps : n \in DOMAIN maps' /\ maps'[n].map = maps[n].map
      BY <1>5, <1>8, <1>9
    <2> QED BY <2>1, <2>2
  <1>15. Settled(emitted, maps', p + 1)
    BY <1>13, <1>14 DEF Settled
  <1> QED BY <1>1, <1>2, <1>15 DEF Goes, EndsAt

\* Whatever line is read next, the list holds it afterwards.
LEMMA LineCaught ==
    ASSUME NEW p, Reads(p), Run!ApplyEvent(emitted[p + 1])
    PROVE  Goes(p)
  <1> DEFINE ev == emitted[p + 1]
  <1>1. ev.session = Session /\ terminal = "None"
    BY ReadFacts, LineOf DEF Reads, EngineInv, EngineTypes
  <1>2. CASE Run!RunStart(ev)
    <2>1. maps' = maps /\ open' = open /\ terminal' = "None" /\ ev.event = "RunStart"
      BY <1>1, <1>2 DEF Run!RunStart, Run!Live, Run!Drop, Run!Applied, Run!state
    <2>2. Folded(emitted, maps, p + 1)
      BY <2>1 DEF Folded, Ends
    <2>3. Caught(emitted, maps', open', p + 1)
      BY <2>1, <2>2, GoesOn
    <2> QED BY <2>1, <2>3 DEF Goes
  <1>3. ~Run!Foreign(ev) /\ ~Run!AfterEnd(ev)
    BY <1>1 DEF Run!Foreign, Run!AfterEnd
  <1> QED BY <1>2, <1>3, EnterCaught, CompleteCaught, ProgressCaught, QuitCaught, DeathCaught
          DEF Run!ApplyEvent

\* Reading the next line of the copy that counts.
LEMMA LineRead ==
    ASSUME IInv, Story, NEW p \in Nat, p + 1 \in DOMAIN emitted,
           terminal = "None" => AheadAt(p + 1),
           IF terminal = "None" THEN Caught(emitted, maps, open, p) ELSE Ended,
           Run!ApplyEvent(emitted[p + 1]), UNCHANGED gvars
    PROVE  IF terminal' = "None" THEN Caught(emitted', maps', open', p + 1) ELSE Ended'
  <1>1. EngineInv /\ RunInv /\ RunTypes /\ emitted' = emitted /\ emitted[p + 1] \in Lines
    BY LineOf DEF IInv, EngineInv, EngineTypes, RunInv, gvars
  <1>2. maps' \in Seq(Entries)
    BY LineKeeps
  <1>3. CASE terminal = "None"
    <2>1. Reads(p)
      BY <1>1, <1>2, <1>3 DEF Reads
    <2>2. Goes(p)
      BY <2>1, LineCaught
    <2>3. ASSUME EndsAt(p + 1) PROVE Ended'
      BY <1>1, <2>3 DEF EndsAt, Ended
    <2> QED BY <1>1, <2>2, <2>3 DEF Goes
  <1>4. CASE terminal # "None"
    <2>1. Ignores
      BY <1>1, <1>4, LineApplied DEF Handles
    <2>2. maps' = maps /\ open' = open /\ terminal' = terminal
      BY <2>1 DEF Ignores
    <2>3. Ended'
      BY <1>1, <1>4, <2>2 DEF Ended
    <2> QED BY <1>4, <2>2, <2>3
  <1> QED BY <1>3, <1>4

\* The engine's steps.
LEMMA EngineFaithful ==
    ASSUME IInv, Unread, Faithful, NEW new, Tells(new), UNCHANGED <<transport, rvars>>
    PROVE  Unread' /\ Faithful'
  <1>1. EngineTypes /\ RunTypes /\ Adds(new)
    BY DEF IInv, EngineInv, RunInv, Tells
  <1>2. /\ fifo' = fifo /\ stdout' = stdout /\ fifoLatched' = fifoLatched /\ fifoLost' = fifoLost
        /\ stdoutLost' = stdoutLost /\ maps' = maps /\ open' = open /\ terminal' = terminal
    BY DEF transport, rvars
  <1>3. Read \in Nat /\ Read <= Len(emitted) /\ Len(emitted) \in Nat
    <2>1. Len(emitted) \in Nat /\ fifo \in 0..Len(emitted) /\ stdout \in 0..Len(emitted)
      BY <1>1, LineOf DEF EngineTypes, RunTypes
    <2> QED BY <2>1 DEF Read
  <1>4. Unread' /\ Read' = Read /\ Whole' = Whole
    BY <1>2 DEF Unread, Read, Whole
  <1>5. CASE ~Whole
    BY <1>4, <1>5 DEF Faithful
  <1>6. CASE Whole /\ terminal = "None"
    <2>1. Caught(emitted, maps, open, Read)
      BY <1>6 DEF Faithful
    <2> DEFINE p == Read
               all == Len(emitted)
    <2>2. p \in Nat /\ p <= Len(emitted) /\ all \in Nat /\ all = Len(emitted)
      BY <1>3
    <2>3. Caught(emitted, maps, open, p)
      BY <2>1
    <2>4. Caught(emitted', maps', open', p)
      <3> HIDE DEF p, all
      <3> DEFINE r == Read
      <3>1. \A q \in Nat : q <= Len(emitted) /\ Caught(emitted, maps, open, q)
               => Caught(emitted', maps', open', q)
        <4> TAKE q \in Nat
        <4> HAVE q <= Len(emitted) /\ Caught(emitted, maps, open, q)
        <4>1. Caught(emitted, maps, open, q)'
          BY <1>1, <1>2, <2>2, CaughtStands
        <4> QED BY <4>1
      <3> QED BY <2>2, <2>3, <3>1
    <2> QED BY <1>2, <1>4, <1>6, <2>4 DEF Faithful
  <1>7. CASE Whole /\ terminal # "None"
    <2>1. Ended
      BY <1>7 DEF Faithful
    <2>2. PICK d \in DOMAIN emitted : /\ FirstEnd(emitted, d)
                                      /\ terminal = EndReason(emitted[d].event)
                                      /\ Settled(emitted, maps, d)
      BY <2>1 DEF Ended
    <2>3. /\ d \in DOMAIN emitted' /\ emitted'[d] = emitted[d]
          /\ FirstEnd(emitted', d) /\ Settled(emitted', maps', d)
      BY <1>1, <1>2, <2>2, SettledStands
    <2>4. Ended'
      BY <1>2, <2>1, <2>2, <2>3 DEF Ended
    <2> QED BY <1>2, <1>4, <1>7, <2>4 DEF Faithful
  <1> QED BY <1>4, <1>5, <1>6, <1>7

\* A step that leaves the run alone and reads no further of the copy that counts.
LEMMA RereadFaithful ==
    ASSUME IInv, Faithful, emitted' = emitted, maps' = maps, open' = open, terminal' = terminal,
           Whole' => Whole, Whole' => Read' \in Nat /\ Read' <= Read
    PROVE  Faithful'
  <1>1. CASE ~Whole'
    BY <1>1 DEF Faithful
  <1>2. CASE Whole' /\ terminal = "None"
    <2>1. DOMAIN emitted \subseteq Nat /\ Read \in Nat
      <3>1. emitted \in Seq(Lines) /\ fifo \in 0..Len(emitted) /\ stdout \in 0..Len(emitted)
        BY DEF IInv, EngineInv, EngineTypes, RunInv, RunTypes
      <3>2. Len(emitted) \in Nat /\ DOMAIN emitted = 1..Len(emitted)
        BY <3>1, LineOf
      <3> QED BY <3>1, <3>2 DEF Read
    <2> DEFINE p == Read
               r == Read'
    <2>2. p \in Nat /\ r \in Nat /\ r <= p /\ Caught(emitted, maps, open, p)
      BY <1>2, <2>1 DEF Faithful
    <2> HIDE DEF p, r
    <2>3. Caught(emitted, maps, open, r)
      BY <2>1, <2>2, Rewind
    <2>4. Caught(emitted', maps', open', Read')
      BY <2>3 DEF r
    <2> QED BY <1>2, <2>4 DEF Faithful
  <1>3. CASE Whole' /\ terminal # "None"
    <2>1. Ended
      BY <1>3 DEF Faithful
    <2>2. Ended'
      BY <2>1 DEF Ended
    <2> QED BY <1>3, <2>2 DEF Faithful
  <1> QED BY <1>1, <1>2, <1>3

\* A line from the FIFO keeps the copy that counts folded into the list.
LEMMA FifoFaithful ==
    ASSUME IInv, Story, Unread, Faithful, FifoLine
    PROVE  Unread' /\ Faithful'
  <1>1. /\ fifo' = fifo + 1 /\ fifoLatched' = TRUE /\ fifo < Len(emitted)
        /\ Run!ApplyEvent(emitted[fifo + 1]) /\ UNCHANGED gvars /\ fifoLost' = fifoLost
        /\ emitted' = emitted
    BY DEF FifoLine, Latch, gvars
  <1>2. /\ fifo \in Nat /\ stdout \in Nat /\ fifo + 1 \in DOMAIN emitted /\ fifo + 1 > fifo /\ fifo + 1 > 0
        /\ DOMAIN emitted \subseteq Nat /\ Placed
    <2>1. emitted \in Seq(Lines) /\ fifo \in 0..Len(emitted) /\ stdout \in 0..Len(emitted) /\ Placed
      BY DEF IInv, EngineInv, EngineTypes, RunInv, RunTypes
    <2>2. Len(emitted) \in Nat /\ DOMAIN emitted = 1..Len(emitted)
      BY <2>1, LineOf
    <2> QED BY <1>1, <2>1, <2>2
  <1>3. Unread' /\ Read' = fifo + 1
    BY <1>1 DEF Unread, Read
  <1>4. ASSUME Whole' PROVE IF terminal' = "None" THEN Caught(emitted', maps', open', fifo + 1) ELSE Ended'
    <2>1. fifoLost = 0
      BY <1>1, <1>4 DEF Whole
    <2>2. IF terminal = "None" THEN Caught(emitted, maps, open, Read) ELSE Ended
      BY <2>1 DEF Faithful, Whole
    <2>3. terminal = "None" => AheadAt(fifo + 1)
      BY <1>2 DEF Placed, Ahead
    <2>4. terminal = "None" => Caught(emitted, maps, open, fifo)
      <3>1. CASE fifoLatched \/ stdoutLost
        BY <2>2, <3>1 DEF Read
      <3>2. CASE ~fifoLatched /\ ~stdoutLost
        <4>1. fifo = 0 /\ Read = stdout /\ 0 <= stdout /\ 0 \in Nat
          BY <1>2, <2>1, <3>2 DEF Unread, Read
        <4>2. Caught(emitted, maps, open, stdout) => Caught(emitted, maps, open, 0)
          BY <1>2, <4>1, Rewind
        <4> QED BY <2>2, <4>1, <4>2
      <3> QED BY <3>1, <3>2
    <2> DEFINE p == fifo
    <2>5. /\ p \in Nat /\ p + 1 \in DOMAIN emitted
          /\ terminal = "None" => AheadAt(p + 1)
          /\ IF terminal = "None" THEN Caught(emitted, maps, open, p) ELSE Ended
          /\ Run!ApplyEvent(emitted[p + 1])
      BY <1>1, <1>2, <2>2, <2>3, <2>4
    <2> HIDE DEF p
    <2>6. IF terminal' = "None" THEN Caught(emitted', maps', open', p + 1) ELSE Ended'
      BY <1>1, <2>5, LineRead
    <2> QED BY <2>6 DEF p
  <1>5. Faithful'
    BY <1>3, <1>4 DEF Faithful
  <1> QED BY <1>3, <1>5

\* So does a line from stdout, read ahead of the FIFO or after it.
LEMMA StdoutFaithful ==
    ASSUME IInv, Story, Unread, Faithful, StdoutLine
    PROVE  Unread' /\ Faithful'
  <1>1. /\ ~fifoLatched /\ fifoLatched' = fifoLatched /\ stdout' = stdout + 1 /\ fifo' = fifo
        /\ stdout < Len(emitted) /\ stdoutLost' = stdoutLost /\ fifoLost' = fifoLost
        /\ Run!ApplyEvent(emitted[stdout + 1]) /\ UNCHANGED gvars /\ emitted' = emitted
    BY DEF StdoutLine, gvars
  <1>2. /\ stdout \in Nat /\ stdout + 1 \in DOMAIN emitted /\ stdout + 1 > 0
        /\ ~stdoutLost /\ Placed
    <2>1. /\ emitted \in Seq(Lines) /\ stdout \in 0..Len(emitted) /\ Placed
          /\ stdoutLost /\ ~fifoLatched => stdout = Len(emitted)
      BY DEF IInv, EngineInv, EngineTypes, RunInv, RunTypes
    <2>2. Len(emitted) \in Nat /\ DOMAIN emitted = 1..Len(emitted)
      BY <2>1, LineOf
    <2> DEFINE r == stdout
               n == Len(emitted)
    <2>3. r \in 0..n /\ n \in Nat /\ r < n /\ DOMAIN emitted = 1..n
      BY <1>1, <2>1, <2>2
    <2> HIDE DEF r, n
    <2>4. r \in Nat /\ r + 1 \in 1..n /\ r + 1 > 0 /\ r # n
      BY <2>3
    <2> QED BY <1>1, <2>1, <2>3, <2>4 DEF r, n
  <1>3. Unread' /\ Read = stdout /\ Read' = stdout + 1 /\ Whole
    BY <1>1, <1>2 DEF Unread, Read, Whole
  <1>4. terminal = "None" => AheadAt(stdout + 1)
    BY <1>1, <1>2 DEF Placed, Ahead
  <1> DEFINE p == stdout
  <1>5. /\ p \in Nat /\ p + 1 \in DOMAIN emitted
        /\ terminal = "None" => AheadAt(p + 1)
        /\ IF terminal = "None" THEN Caught(emitted, maps, open, p) ELSE Ended
        /\ Run!ApplyEvent(emitted[p + 1])
    BY <1>1, <1>2, <1>3, <1>4 DEF Faithful
  <1> HIDE DEF p
  <1>6. IF terminal' = "None" THEN Caught(emitted', maps', open', p + 1) ELSE Ended'
    BY <1>1, <1>5, LineRead
  <1> QED BY <1>3, <1>6 DEF Faithful, p

\* Every step of the pipeline keeps it.
LEMMA FaithfulKept ==
    ASSUME IInv, Story, Unread, Faithful, [PipelineNext]_vars
    PROVE  Unread' /\ Faithful'
  <1>0. /\ fifo \in Nat /\ stdout \in Nat /\ fifoLost \in Nat
        /\ fifoLatched \in BOOLEAN /\ stdoutLost \in BOOLEAN /\ EngineInv
    <2>1. emitted \in Seq(Lines) /\ fifo \in 0..Len(emitted) /\ stdout \in 0..Len(emitted)
          /\ fifoLatched \in BOOLEAN /\ stdoutLost \in BOOLEAN /\ EngineInv
      BY DEF IInv, EngineInv, EngineTypes, RunInv, RunTypes
    <2> QED BY <2>1, LineOf DEF Unread
  <1>1. CASE Engine \/ Signal \/ EngineExit
    <2>1. (Play \/ Exit \/ Teardown) /\ UNCHANGED <<transport, rvars>>
      BY <1>1 DEF Engine, Signal, EngineExit
    <2>2. PICK new : Tells(new)
      BY <1>0, <2>1, PlayTells
    <2> QED BY <2>1, <2>2, EngineFaithful
  <1>2. CASE FifoLine
    BY <1>2, FifoFaithful
  <1>3. CASE StdoutLine
    BY <1>3, StdoutFaithful
  <1>4. CASE StaleFifoLine
    <2> DEFINE ev == [event |-> "PlayerDied", session |-> StaleSession, map |-> Rotation[1],
                      stats |-> Nothing]
    <2>1. /\ ~fifoLatched /\ fifoLatched' = TRUE /\ fifo' = fifo /\ fifoLost' = fifoLost
          /\ Run!ApplyEvent(ev) /\ emitted' = emitted
      BY <1>4 DEF StaleFifoLine, Latch, gvars
    <2>2. ev.session # Session /\ ev.event = "PlayerDied"
      BY PipelineAssumption
    <2> HIDE DEF ev
    <2>3. Run!Foreign(ev)
      BY <2>1, <2>2 DEF Run!ApplyEvent, Run!AfterEnd, Run!RunStart, Run!LevelEnter,
                        Run!LevelComplete, Run!PlayerDied, Run!RunComplete, Run!Progress,
                        Run!RunQuit, Run!Live
    <2>4. maps' = maps /\ open' = open /\ terminal' = terminal
      BY <2>3 DEF Run!Foreign, Run!Drop, Run!state
    <2>5. Unread'
      BY <2>1 DEF Unread
    <2>6. ASSUME Whole' PROVE Whole /\ Read' \in Nat /\ Read' <= Read
      <3>1. fifoLost = 0 /\ fifo = 0 /\ Read' = 0
        BY <2>1, <2>6 DEF Whole, Unread, Read
      <3> QED BY <1>0, <3>1 DEF Whole, Read
    <2> QED BY <2>1, <2>4, <2>5, <2>6, RereadFaithful
  <1>5. CASE LoseFifoLine
    <2>1. /\ fifo' = fifo + 1 /\ fifoLost' = fifoLost + 1 /\ stdout' = stdout
          /\ fifoLatched' = fifoLatched /\ stdoutLost' = stdoutLost /\ emitted' = emitted
          /\ maps' = maps /\ open' = open /\ terminal' = terminal
      BY <1>5 DEF LoseFifoLine, gvars, rvars
    <2>2. Unread'
      BY <1>0, <2>1 DEF Unread
    <2>3. ASSUME Whole' PROVE Whole /\ Read' \in Nat /\ Read' <= Read
      <3>1. ~fifoLatched /\ ~stdoutLost
        BY <1>0, <2>1, <2>3 DEF Whole
      <3> QED BY <1>0, <2>1, <3>1 DEF Whole, Read
    <2> QED BY <2>1, <2>2, <2>3, RereadFaithful
  <1>6. CASE LoseStdoutTail
    <2>1. /\ ~fifoLatched /\ fifoLatched' = fifoLatched /\ stdoutLost' = TRUE /\ fifo' = fifo
          /\ fifoLost' = fifoLost /\ emitted' = emitted
          /\ maps' = maps /\ open' = open /\ terminal' = terminal
      BY <1>6 DEF LoseStdoutTail, gvars, rvars
    <2>2. Unread'
      BY <2>1 DEF Unread
    <2>3. ASSUME Whole' PROVE Whole /\ Read' \in Nat /\ Read' <= Read
      <3>1. fifoLost = 0 /\ fifo = 0 /\ Read' = 0
        BY <2>1, <2>3 DEF Whole, Unread, Read
      <3> QED BY <1>0, <3>1 DEF Whole, Read
    <2> QED BY <2>1, <2>2, <2>3, RereadFaithful
  <1>7. CASE FifoCloses \/ Finish \/ UNCHANGED vars
    <2>1. /\ fifo' = fifo /\ stdout' = stdout /\ fifoLatched' = fifoLatched /\ fifoLost' = fifoLost
          /\ stdoutLost' = stdoutLost /\ emitted' = emitted
          /\ maps' = maps /\ open' = open /\ terminal' = terminal
      BY <1>7 DEF FifoCloses, Finish, vars, transport, gvars, rvars
    <2>2. Unread' /\ Read' = Read /\ Whole' = Whole
      BY <2>1 DEF Unread, Read, Whole
    <2>3. Read \in Nat /\ Read <= Read
      BY <1>0 DEF Read
    <2> QED BY <2>1, <2>2, <2>3, RereadFaithful
  <1> QED BY <1>1, <1>2, <1>3, <1>4, <1>5, <1>6, <1>7 DEF PipelineNext

\* It holds of the empty list.
LEMMA FaithfulBegins == PipelineInit => Unread /\ Faithful
  <1> SUFFICES ASSUME PipelineInit PROVE Unread /\ Faithful
    OBVIOUS
  <1>1. /\ fifo = 0 /\ fifoLost = 0 /\ emitted = <<>> /\ maps = <<>> /\ terminal = "None"
    BY DEF PipelineInit, Init, Run!Init
  <1>2. DOMAIN emitted = {} /\ DOMAIN maps = {}
    BY <1>1
  <1> QED BY <1>1, <1>2 DEF Unread, Faithful, Caught

\* A copy of the log of which no line was lost is folded into the list it tells of, whatever
\* the other copy brought before, late or again: while the run goes on, each finished map
\* stands with the counters it was completed with and the one in progress with its latest
\* heartbeat; once it is over, the list is that of the lines up to the first that ends it.
THEOREM FaithfulFold == PipelineSpec => [](Unread /\ Faithful)
  <1> QED BY FaithfulBegins, FaithfulKept, OrderlyRun, StoryTold, PTL DEF PipelineSpec
-----------------------------------------------------------------------------
\* The finished run.  What a list settled by the first k lines is worth.
LEMMA ZeroTail ==
    ASSUME NEW s \in Seq(Nat), NEW t \in Seq(Nat), Len(s) <= Len(t),
           \A i \in 1..Len(s) : t[i] = s[i],
           \A i \in 1..Len(t) : i \notin 1..Len(s) => t[i] = 0
    PROVE  SatTotal(s) = SatTotal(t)
  <1> DEFINE n == Len(s)
             m == Len(t)
  <1>1. n \in Nat /\ m \in Nat /\ n <= m
    OBVIOUS
  <1>2. PICK f : SatSums(f, s) /\ SatTotal(s) = f[n]
    BY SatTotalFolds
  <1>3. PICK g : SatSums(g, t) /\ SatTotal(t) = g[m]
    BY SatTotalFolds
  <1>4. /\ f[0] = 0 /\ \A k \in 1..n : f[k] = Sat(f[k - 1] + s[k])
        /\ g \in [0..m -> 0..MaxInt] /\ g[0] = 0 /\ \A k \in 1..m : g[k] = Sat(g[k - 1] + t[k])
        /\ \A i \in 1..n : t[i] = s[i]
        /\ \A i \in 1..m : i \notin 1..n => t[i] = 0
    BY <1>2, <1>3 DEF SatSums
  <1> HIDE DEF n, m
  <1> DEFINE S == {k \in Nat : k <= n => f[k] = g[k]}
             U == {k \in Nat : g[n + k] = g[n]}
  <1>5. 0..n \subseteq S
    <2>1. 0 \in S
      BY <1>4
    <2>2. ASSUME NEW k \in 0..(n - 1), k \in S PROVE k + 1 \in S
      <3>1. k + 1 \in 1..n /\ k + 1 \in 1..m /\ (k + 1) - 1 = k /\ k <= n /\ k + 1 \in Nat
        BY <1>1
      <3>2. f[k] = g[k] /\ t[k + 1] = s[k + 1]
        BY <1>4, <2>2, <3>1
      <3>3. f[k + 1] = Sat(f[k] + s[k + 1]) /\ g[k + 1] = Sat(g[k] + t[k + 1])
        BY <1>4, <3>1
      <3> QED BY <3>1, <3>2, <3>3
    <2>3. \A k \in 0..(n - 1) : k \in S => k + 1 \in S
      BY <2>2
    <2> HIDE DEF S
    <2> QED BY <1>1, <2>1, <2>3, Upto
  <1>6. 0..(m - n) \subseteq U
    <2>0. m - n \in Nat
      BY <1>1
    <2>1. 0 \in U
      BY <1>1
    <2>2. ASSUME NEW k \in 0..((m - n) - 1), k \in U PROVE k + 1 \in U
      <3>1. /\ n + k \in 0..m /\ n + (k + 1) \in 1..m /\ n + (k + 1) \notin 1..n
            /\ (n + (k + 1)) - 1 = n + k /\ k + 1 \in Nat
        BY <1>1
      <3>2. g[n + (k + 1)] = Sat(g[n + k] + 0) /\ g[n + k] \in 0..MaxInt
        BY <1>4, <3>1
      <3>3. Sat(g[n + k] + 0) = g[n + k]
        BY <3>2, Numbers DEF Sat
      <3> QED BY <2>2, <3>1, <3>2, <3>3
    <2>3. \A k \in 0..((m - n) - 1) : k \in U => k + 1 \in U
      BY <2>2
    <2> HIDE DEF U
    <2> QED BY <2>0, <2>1, <2>3, Upto
  <1>7. n \in S /\ m - n \in U
    <2>1. n \in 0..n /\ m - n \in 0..(m - n)
      BY <1>1
    <2> HIDE DEF S, U
    <2> QED BY <1>5, <1>6, <2>1
  <1>8. f[n] = g[n] /\ g[n + (m - n)] = g[n] /\ n + (m - n) = m
    BY <1>1, <1>7
  <1> QED BY <1>2, <1>3, <1>8 DEF n, m

\* The best of a set of counters is its largest member.
LEMMA BestIs ==
    ASSUME NEW n \in Nat, NEW S \in SUBSET (0..n), NEW x \in Nat, x = 0 \/ x \in S,
           \A y \in S : y <= x
    PROVE  Max({0} \cup S) = x
  <1> DEFINE T == {0} \cup S
  <1>1. T \in SUBSET (0..n) /\ T # {} /\ x \in T /\ \A y \in T : y <= x /\ y \in Nat
    OBVIOUS
  <1> HIDE DEF T
  <1>2. Max(T) \in T /\ \A y \in T : y <= Max(T)
    BY <1>1, Greatest
  <1>3. Max(T) <= x /\ x <= Max(T) /\ Max(T) \in Nat
    BY <1>1, <1>2
  <1>4. Max(T) = x
    BY <1>3
  <1> QED BY <1>4 DEF T

\* Two entries with the same counters are worth the same; the tics matter only if completed.
LEMMA SameWorth ==
    ASSUME NEW c, NEW d, c.stats.kills = d.stats.kills, c.stats.items = d.stats.items,
           c.completed = d.completed, c.completed => c.stats.tics = d.stats.tics
    PROVE  MapScore(c) = MapScore(d)
  BY DEF MapScore, CounterScore

\* An entry without kills or items that is not completed is worth nothing.
LEMMA NothingWorth ==
    ASSUME NEW c, c.stats.kills = 0, c.stats.items = 0, ~c.completed
    PROVE  MapScore(c) = 0
  <1>1. 0 * POINTS_PER_KILL = 0 /\ 0 * POINTS_PER_ITEM = 0 /\ Sat(0) = 0 /\ 0 + 0 = 0
    BY Numbers DEF Sat
  <1>2. CounterScore(c.stats) = Sat(Sat(0 * POINTS_PER_KILL) + Sat(0 * POINTS_PER_ITEM))
    BY DEF CounterScore, NonNegative
  <1>3. CounterScore(c.stats) = 0
    BY <1>1, <1>2
  <1> QED BY <1>3 DEF MapScore

\* The log up to line k.
CutAt(log, k) == /\ DOMAIN log = {i \in DOMAIN emitted : i <= k}
                 /\ \A i \in DOMAIN log : log[i] = emitted[i]

\* What was played of a map, in terms of the first k lines.
LEMMA PlayedUpto ==
    ASSUME EngineInv, NEW k \in Nat, NEW log, CutAt(log, k), NEW m \in MapNames
    PROVE  LET p == Played(log, m)
               Near(i) == i \in DOMAIN emitted /\ i <= k /\ emitted[i].map = m
           IN  /\ \A x \in Nat :
                     /\ x = 0 \/ \E i \in DOMAIN emitted : Near(i) /\ emitted[i].stats.kills = x
                     /\ \A i \in DOMAIN emitted : Near(i) => emitted[i].stats.kills <= x
                     => p.stats.kills = x
               /\ \A x \in Nat :
                     /\ x = 0 \/ \E i \in DOMAIN emitted : Near(i) /\ emitted[i].stats.items = x
                     /\ \A i \in DOMAIN emitted : Near(i) => emitted[i].stats.items <= x
                     => p.stats.items = x
               /\ p.completed = (m \in exits /\ \E i \in Completions(emitted, m) : i <= k)
               /\ \A i \in Completions(emitted, m) : i <= k => p.stats.tics = emitted[i].stats.tics
  <1> DEFINE p == Played(log, m)
             lines == LinesOf(log, m)
             closes == {l \in lines : l.event = "LevelComplete"}
             K == {l.stats.kills : l \in lines}
             I == {l.stats.items : l \in lines}
             T == {l.stats.tics : l \in closes}
             near == {i \in DOMAIN emitted : i <= k /\ emitted[i].map = m}
  <1>1. /\ p.completed = (closes # {} /\ m \in exits)
        /\ p.stats.kills = Max({0} \cup K) /\ p.stats.items = Max({0} \cup I)
        /\ p.stats.tics = Max({0} \cup T)
    BY DEF Played
  <1>2. lines = {emitted[i] : i \in near}
    BY DEF LinesOf, CutAt
  <1>3. \A i \in near : emitted[i].stats \in Counts
    BY LineOf DEF EngineInv, EngineTypes
  <1> HIDE DEF p, lines
  <1>4. K = {emitted[i].stats.kills : i \in near} /\ I = {emitted[i].stats.items : i \in near}
    BY <1>2
  <1>5. K \in SUBSET (0..Monsters) /\ I \in SUBSET (0..Items)
    BY <1>3, <1>4 DEF Counts
  <1>6. closes = {emitted[i] : i \in {j \in Completions(emitted, m) : j <= k}}
    BY <1>2 DEF Completions
  <1> HIDE DEF closes
  <1>7. ASSUME NEW x \in Nat, x = 0 \/ \E i \in near : emitted[i].stats.kills = x,
               \A i \in near : emitted[i].stats.kills <= x
        PROVE  p.stats.kills = x
    <2>1. (x = 0 \/ x \in K) /\ \A y \in K : y <= x
      BY <1>4, <1>7
    <2> HIDE DEF K
    <2>2. Max({0} \cup K) = x
      BY <1>5, <2>1, Numbers, BestIs
    <2> QED BY <1>1, <2>2
  <1>8. ASSUME NEW x \in Nat, x = 0 \/ \E i \in near : emitted[i].stats.items = x,
               \A i \in near : emitted[i].stats.items <= x
        PROVE  p.stats.items = x
    <2>1. (x = 0 \/ x \in I) /\ \A y \in I : y <= x
      BY <1>4, <1>8
    <2> HIDE DEF I
    <2>2. Max({0} \cup I) = x
      BY <1>5, <2>1, Numbers, BestIs
    <2> QED BY <1>1, <2>2
  <1>9. ASSUME NEW i \in Completions(emitted, m), i <= k PROVE p.stats.tics = emitted[i].stats.tics
    <2>1. i \in DOMAIN emitted /\ emitted[i].event = "LevelComplete" /\ emitted[i].map = m /\ i \in near
      BY <1>9 DEF Completions
    <2>2. \A j \in Completions(emitted, m) : j = i
      BY <2>1 DEF Completions, EngineInv, ClosedOnce, Closing
    <2>3. closes = {emitted[i]}
      BY <1>6, <1>9, <2>2
    <2> DEFINE x == emitted[i].stats.tics
    <2>4. T = {x}
      BY <2>3
    <2>5. x \in 0..MaxTics /\ x \in Nat /\ x <= x
      BY <1>3, <2>1, Numbers DEF Counts
    <2> HIDE DEF T, x
    <2>6. T \in SUBSET (0..MaxTics) /\ x \in T /\ \A y \in T : y <= x
      BY <2>4, <2>5
    <2>7. Max({0} \cup T) = x
      BY <2>5, <2>6, Numbers, BestIs
    <2> QED BY <1>1, <2>7 DEF x
  <1>10. closes # {} <=> \E i \in Completions(emitted, m) : i <= k
    BY <1>6
  <1> QED BY <1>1, <1>7, <1>8, <1>9, <1>10 DEF p

\* An entry of a settled list is worth what was played of its map.
LEMMA SettledEntry ==
    ASSUME EngineInv, RunInv, ~MayAbandon, NEW k \in Nat, NEW log, CutAt(log, k),
           Settled(emitted, maps, k), NEW n \in DOMAIN maps
    PROVE  /\ n \in DOMAIN Rotation
           /\ MapScore(maps[n]) = MapScore(Played(log, Rotation[n])) /\ MapScore(maps[n]) \in Nat
           /\ maps[n].completed = Played(log, Rotation[n]).completed
           /\ maps[n].completed \in BOOLEAN
  <1> DEFINE c == maps[n]
             m == Rotation[n]
             d == Played(log, m)
  <1>1. n \in DOMAIN Rotation /\ c.map = m /\ Exact(emitted, c, k) /\ m \in MapNames
    BY Positions DEF Settled
  <1>2. c \in Entries /\ Sourced(c)
    BY EntryBehind DEF RunInv, RunTypes, AllSourced
  <1>3. c.completed \in BOOLEAN /\ c.stats.kills \in Nat /\ c.stats.items \in Nat /\ c.stats.tics \in Nat
    BY <1>2, CountsType DEF Entries
  <1>4. c.completed => m \in exits
    BY <1>1, <1>2 DEF Sourced, Backs
  <1> HIDE DEF c
  <1>5. d.stats.kills = c.stats.kills
    <2> DEFINE x == c.stats.kills
    <2>1. /\ x = 0 \/ \E i \in DOMAIN emitted :
                i \in DOMAIN emitted /\ i <= k /\ emitted[i].map = m /\ emitted[i].stats.kills = x
          /\ \A i \in DOMAIN emitted :
                i \in DOMAIN emitted /\ i <= k /\ emitted[i].map = m => emitted[i].stats.kills <= x
      BY <1>1 DEF Exact
    <2>2. x \in Nat
      BY <1>3
    <2> HIDE DEF x
    <2>3. d.stats.kills = x
      BY <1>1, <2>1, <2>2, PlayedUpto
    <2> QED BY <2>3 DEF x
  <1>6. d.stats.items = c.stats.items
    <2> DEFINE x == c.stats.items
    <2>1. /\ x = 0 \/ \E i \in DOMAIN emitted :
                i \in DOMAIN emitted /\ i <= k /\ emitted[i].map = m /\ emitted[i].stats.items = x
          /\ \A i \in DOMAIN emitted :
                i \in DOMAIN emitted /\ i <= k /\ emitted[i].map = m => emitted[i].stats.items <= x
      BY <1>1 DEF Exact
    <2>2. x \in Nat
      BY <1>3
    <2> HIDE DEF x
    <2>3. d.stats.items = x
      BY <1>1, <2>1, <2>2, PlayedUpto
    <2> QED BY <2>3 DEF x
  <1>7. d.completed = (m \in exits /\ \E i \in Completions(emitted, m) : i <= k)
    BY <1>1, PlayedUpto
  <1>8. c.completed <=> \E i \in Completions(emitted, m) : i <= k
    BY <1>1 DEF Exact
  <1>9. c.completed = d.completed
    BY <1>3, <1>4, <1>7, <1>8
  <1>10. ASSUME c.completed PROVE c.stats.tics = d.stats.tics
    <2>1. PICK i \in Completions(emitted, m) : i <= k /\ emitted[i].stats = c.stats
      BY <1>1, <1>10 DEF Exact
    <2>2. d.stats.tics = emitted[i].stats.tics
      BY <1>1, <2>1, PlayedUpto
    <2> QED BY <2>1, <2>2
  <1> HIDE DEF d
  <1>11. MapScore(c) = MapScore(d)
    BY <1>5, <1>6, <1>9, <1>10, SameWorth
  <1>12. MapScore(c) \in Nat
    BY <1>3, MapScoreBound
  <1> QED BY <1>1, <1>3, <1>9, <1>11, <1>12 DEF c, d

\* A map that is not in the list was not scored on.
LEMMA SettledRest ==
    ASSUME EngineInv, Zeros, NEW k \in Nat, NEW log, CutAt(log, k),
           Settled(emitted, maps, k), NEW n \in DOMAIN Rotation, n \notin DOMAIN maps
    PROVE  /\ MapScore(Played(log, Rotation[n])) = 0 /\ ~Played(log, Rotation[n]).completed
           /\ \A i \in Completions(emitted, Rotation[n]) : ~(i <= k)
  <1> DEFINE m == Rotation[n]
             d == Played(log, m)
  <1>1. m \in MapNames
    BY Positions
  <1>2. ASSUME NEW i \in DOMAIN emitted, i <= k, emitted[i].map = m
        PROVE  emitted[i].event \notin {"Progress", "LevelComplete", "PlayerDied"}
    <2> SUFFICES ASSUME emitted[i].event \in {"Progress", "LevelComplete", "PlayerDied"} PROVE FALSE
      OBVIOUS
    <2>1. PICK j \in DOMAIN maps : maps[j].map = m
      BY <1>2 DEF Settled
    <2>2. j \in DOMAIN Rotation /\ Rotation[j] = m
      BY <2>1 DEF Settled
    <2>3. j = n
      BY <2>2, TelemetryAssumption
    <2> QED BY <2>1, <2>3
  <1>3. \A i \in DOMAIN emitted : i \in DOMAIN emitted /\ i <= k /\ emitted[i].map = m =>
           emitted[i].stats.kills <= 0 /\ emitted[i].stats.items <= 0
    BY <1>2 DEF Zeros
  <1>4. d.stats.kills = 0 /\ d.stats.items = 0
    <2>1. 0 \in Nat
      OBVIOUS
    <2>2. d.stats.kills = 0
      BY <1>1, <1>3, <2>1, PlayedUpto
    <2>3. d.stats.items = 0
      BY <1>1, <1>3, <2>1, PlayedUpto
    <2> QED BY <2>2, <2>3
  <1>5. \A i \in Completions(emitted, m) : ~(i <= k)
    BY <1>2 DEF Completions
  <1>6. ~d.completed
    BY <1>1, <1>5, PlayedUpto
  <1> HIDE DEF d
  <1>7. MapScore(d) = 0
    BY <1>4, <1>6, NothingWorth
  <1> QED BY <1>5, <1>6, <1>7 DEF d

\* So a settled list is worth what was played.
LEMMA SettledScore ==
    ASSUME EngineInv, RunInv, Zeros, ~MayAbandon, NEW k \in Nat, NEW log, CutAt(log, k),
           Settled(emitted, maps, k)
    PROVE  RunScore(maps) = PlayedScore(log)
  <1> DEFINE D == DOMAIN maps
             R == DOMAIN Rotation
             full == [i \in R |-> Played(log, Rotation[i])]
             s == [n \in D |-> MapScore(maps[n])]
             t == [i \in R |-> MapScore(full[i])]
             done == {n \in D : maps[n].completed}
             exited == {i \in R : full[i].completed}
  <1>1. /\ D = 1..Len(maps) /\ Len(maps) \in Nat /\ R = 1..Len(Rotation) /\ Len(Rotation) \in Nat
        /\ Len(maps) <= Len(Rotation)
    BY FewEntries, Positions DEF RunInv, RunTypes
  <1>2. \A n \in D : /\ n \in R /\ s[n] \in Nat /\ s[n] = t[n]
                     /\ maps[n].completed = full[n].completed
    <2> SUFFICES ASSUME NEW n \in D
                 PROVE  /\ n \in R /\ s[n] \in Nat /\ s[n] = t[n]
                        /\ maps[n].completed = full[n].completed
      OBVIOUS
    <2>1. /\ n \in DOMAIN Rotation
          /\ MapScore(maps[n]) = MapScore(Played(log, Rotation[n])) /\ MapScore(maps[n]) \in Nat
          /\ maps[n].completed = Played(log, Rotation[n]).completed
      BY SettledEntry
    <2>2. full[n] = Played(log, Rotation[n])
      BY <2>1
    <2> HIDE DEF full
    <2> QED BY <2>1, <2>2
  <1>3. \A n \in R : n \notin D => t[n] = 0 /\ ~full[n].completed
    BY SettledRest
  <1>4. \A n \in R : t[n] \in Nat
    <2> HIDE DEF s, t, full, D, R
    <2> QED BY <1>2, <1>3
  <1>5. RunScore(maps) = Sat(SatTotal(s) + Sat(Cardinality(done) * DEPTH_BONUS_PER_MAP))
    BY DEF RunScore, MapsCompleted
  <1>6. RunScore(full) = Sat(SatTotal(t) + Sat(Cardinality(exited) * DEPTH_BONUS_PER_MAP))
    <2>1. DOMAIN full = R
      OBVIOUS
    <2> QED BY <2>1 DEF RunScore, MapsCompleted
  <1>7. PlayedScore(log) = RunScore(full)
    BY DEF PlayedScore
  <1>8. done = exited
    BY <1>2, <1>3
  <1>9. SatTotal(s) = SatTotal(t)
    <2>1. s \in [1..Len(maps) -> Nat] /\ t \in [1..Len(Rotation) -> Nat]
      BY <1>1, <1>2, <1>4
    <2> HIDE DEF s, t
    <2>2. s \in Seq(Nat) /\ t \in Seq(Nat) /\ Len(s) = Len(maps) /\ Len(t) = Len(Rotation)
      BY <1>1, <2>1, IsASeq
    <2>3. \A i \in 1..Len(s) : t[i] = s[i]
      BY <1>1, <1>2, <2>2
    <2>4. \A i \in 1..Len(t) : i \notin 1..Len(s) => t[i] = 0
      BY <1>1, <1>3, <2>2
    <2> QED BY <1>1, <2>2, <2>3, <2>4, ZeroTail
  <1> HIDE DEF s, t, full, done, exited
  <1> QED BY <1>5, <1>6, <1>7, <1>8, <1>9
-----------------------------------------------------------------------------
\* The run that was filed is the list as it stands, and nothing moves any more.
Filed ==
    result # <<>> =>
        /\ phase = "Exited"
        /\ Intact =>
              /\ result = <<Submitted(IF terminal = "None" THEN "Abandoned" ELSE terminal, maps)>>
              /\ Whole /\ Read = Len(emitted)

\* The run is filed as the list stands, once the copy that counts is read to its end.
LEMMA FinishFiles ==
    ASSUME IInv, Unread, Faithful, Finish
    PROVE  Filed'
  <1>1. /\ phase = "Exited" /\ phase' = phase /\ fifo' = fifo /\ stdout' = stdout
        /\ fifoLatched' = fifoLatched /\ fifoLost' = fifoLost /\ stdoutLost' = stdoutLost
        /\ fifoOpen' = fifoOpen /\ emitted' = emitted
        /\ maps' = maps /\ open' = open /\ terminal' = terminal
        /\ fifoOpen => fifo = Len(emitted)
        /\ fifoLatched \/ stdout = Len(emitted)
    BY DEF Finish, transport, gvars, rvars
  <1>2. Read' = Read /\ Whole' = Whole /\ Intact' = Intact
    BY <1>1 DEF Read, Whole, Intact
  <1> DEFINE closed == IF open THEN [maps EXCEPT ![Len(maps)].completed = FALSE] ELSE maps
             reason == IF terminal = "None" THEN "Abandoned" ELSE terminal
  <1>3. result' = <<Submitted(reason, closed)>>
    BY DEF Finish
  <1>4. ASSUME Intact
        PROVE  closed = maps /\ Whole /\ Read = Len(emitted)
    <2>1. Whole /\ Read = Len(emitted)
      BY <1>1, <1>4 DEF Intact, Whole, Read
    <2>2. CASE ~open
      BY <2>1, <2>2
    <2>3. CASE open
      <3>1. terminal = "None"
        BY <2>1, <2>3 DEF Faithful, Ended
      <3>2. maps \in Seq(Entries) /\ maps # <<>> /\ maps[Len(maps)].completed = FALSE
            /\ Len(maps) \in DOMAIN maps /\ maps[Len(maps)] \in Entries
        <4>1. maps \in Seq(Entries) /\ LastClosed
          BY DEF IInv, RunInv, RunTypes
        <4>2. maps # <<>> /\ ~Run!Last.completed
          BY <2>3, <3>1, <4>1 DEF LastClosed
        <4>3. Run!Last = maps[Len(maps)] /\ Run!Last \in Entries /\ Len(maps) \in DOMAIN maps
          BY <4>1, <4>2, LastOf
        <4>4. Run!Last.completed \in BOOLEAN
          BY <4>3 DEF Entries
        <4> QED BY <4>1, <4>2, <4>3, <4>4
      <3> DEFINE e == maps[Len(maps)]
      <3>3. [e EXCEPT !.completed = FALSE] = e
        BY <3>2 DEF Entries
      <3>4. closed = [maps EXCEPT ![Len(maps)] = [e EXCEPT !.completed = FALSE]]
        BY <2>3
      <3>5. closed = [maps EXCEPT ![Len(maps)] = maps[Len(maps)]]
        BY <3>3, <3>4
      <3> DEFINE T == Entries
                 last == Len(maps)
      <3>6. maps \in Seq(T)
        BY <3>2
      <3> HIDE DEF T, last, closed
      <3>7. maps = [i \in DOMAIN maps |-> maps[i]]
        BY <3>6
      <3>8. [maps EXCEPT ![last] = maps[last]] = maps
        BY <3>7
      <3> QED BY <2>1, <3>5, <3>8 DEF last
    <2> QED BY <2>2, <2>3
  <1> HIDE DEF closed
  <1>5. ASSUME Intact' PROVE result' = <<Submitted(reason, maps)>>' /\ Whole' /\ (Read = Len(emitted))'
    <2>1. closed = maps /\ Whole /\ Read = Len(emitted)
      BY <1>2, <1>4, <1>5
    <2>2. result' = <<Submitted(reason, maps')>> /\ terminal' = terminal
      BY <1>1, <1>3, <2>1
    <2> QED BY <1>1, <1>2, <2>1, <2>2
  <1> QED BY <1>1, <1>5 DEF Filed

\* Every step of the pipeline keeps that.
LEMMA FiledKept ==
    ASSUME IInv, Unread, Faithful, Filed, [PipelineNext]_vars
    PROVE  Filed'
  <1>1. CASE Finish
    BY <1>1, FinishFiles
  <1>2. CASE ~Finish /\ result = <<>>
    <2>1. result' = <<>>
      BY <1>2 DEF PipelineNext, Engine, Signal, EngineExit, FifoLine, StaleFifoLine,
                  LoseFifoLine, FifoCloses, StdoutLine, LoseStdoutTail, vars
    <2> QED BY <2>1 DEF Filed
  <1>3. CASE result # <<>>
    <2>1. phase = "Exited"
      BY <1>3 DEF Filed
    <2>2. ~Play /\ ~Teardown /\ ~Exit
      BY <2>1 DEF Play, WorldLoaded, Score, WorldTick, StartDown, StartUp, WorldThingDied,
                  ExitMap, Restart, Teardown, Exit
    <2>3. UNCHANGED vars
      BY <1>3, <2>2 DEF PipelineNext, Engine, Signal, EngineExit, FifoLine, StaleFifoLine,
                  LoseFifoLine, FifoCloses, StdoutLine, LoseStdoutTail, Finish, Supervised
    <2>4. /\ result' = result /\ phase' = phase /\ fifo' = fifo /\ stdout' = stdout
          /\ fifoLatched' = fifoLatched /\ fifoLost' = fifoLost /\ stdoutLost' = stdoutLost
          /\ fifoOpen' = fifoOpen /\ emitted' = emitted
          /\ maps' = maps /\ terminal' = terminal
      BY <2>3 DEF vars, transport, gvars, rvars
    <2>5. Read' = Read /\ Whole' = Whole /\ Intact' = Intact
      BY <2>4 DEF Read, Whole, Intact
    <2> QED BY <2>4, <2>5 DEF Filed
  <1> QED BY <1>1, <1>2, <1>3

\* The supervisor files the run as its list stands, after the engine's end.
THEOREM FiledAsItStands == PipelineSpec => []Filed
  <1>1. PipelineInit => Filed
    BY DEF PipelineInit, Filed
  <1> QED BY <1>1, FiledKept, OrderlyRun, FaithfulFold, PTL DEF PipelineSpec

\* With an intact copy the list is settled by the lines that count, all of them or those up to
\* the first that ends the run.
LEMMA FinalRun ==
    ASSUME IInv, Story, Unread, Faithful, Filed, result # <<>>, Intact
    PROVE  /\ result = <<Submitted(Reason, maps)>>
           /\ \E k \in Nat :
                 /\ CutAt(RunLog, k) /\ Settled(emitted, maps, k)
                 /\ Reason = "Complete" =>
                       k \in DOMAIN emitted /\ FirstEnd(emitted, k) /\ emitted[k].event = "RunComplete"
  <1>1. /\ EngineInv /\ RunInv /\ emitted \in Seq(Lines) /\ Whole /\ Read = Len(emitted)
        /\ result = <<Submitted(IF terminal = "None" THEN "Abandoned" ELSE terminal, maps)>>
    BY DEF IInv, EngineInv, EngineTypes, Filed
  <1>2. Len(emitted) \in Nat /\ DOMAIN emitted = 1..Len(emitted)
    BY <1>1, LineOf
  <1>3. CASE terminal = "None"
    <2> DEFINE all == Len(emitted)
    <2>1. Stands(all)
      BY <1>1, <1>2, <1>3 DEF Stands, Faithful
    <2>2. \A i \in DOMAIN emitted : i \in Nat /\ i <= all
      BY <1>2
    <2>3. all \in Nat /\ all <= all /\ Alike(maps)
      BY <1>2 DEF Alike
    <2>4. Settled(emitted, maps, all)
      <3> HIDE DEF all
      <3> QED BY <2>1, <2>2, <2>3, Settles
    <2>5. Deciding = {}
      BY <2>1, <2>2, StandFacts DEF Deciding, Folded
    <2>6. RunLog = emitted /\ Reason = "Abandoned"
      BY <2>5 DEF RunLog, Reason
    <2>7. CutAt(RunLog, all)
      BY <2>2, <2>6 DEF CutAt
    <2> QED BY <1>1, <1>3, <2>3, <2>4, <2>6, <2>7
  <1>4. CASE terminal # "None"
    <2>1. PICK d \in DOMAIN emitted : /\ FirstEnd(emitted, d)
                                      /\ terminal = EndReason(emitted[d].event)
                                      /\ Settled(emitted, maps, d)
      BY <1>1, <1>4 DEF Faithful, Ended
    <2>2. d \in Nat /\ d >= 1 /\ d <= Len(emitted)
      BY <1>2
    <2>3. Deciding \in SUBSET Nat /\ d \in Deciding /\ \A j \in Deciding : d <= j
      BY <1>2, <2>1 DEF Deciding, FirstEnd
    <2>4. Min(Deciding) = d
      <3>1. Min(Deciding) \in Deciding /\ Min(Deciding) <= d
        BY <2>3, LeastOf
      <3> DEFINE m == Min(Deciding)
      <3>2. m \in Nat /\ m <= d /\ d <= m
        BY <2>3, <3>1
      <3> HIDE DEF m
      <3>3. m = d
        BY <2>2, <3>2
      <3> QED BY <3>3 DEF m
    <2>5. RunLog = SubSeq(emitted, 1, d)
      BY <2>3, <2>4 DEF RunLog
    <2>6. CutAt(RunLog, d)
      <3> DEFINE T == Lines
                 log == SubSeq(emitted, 1, d)
                 n == Len(emitted)
      <3>1. emitted \in Seq(T)
        BY <1>1
      <3> HIDE DEF T
      <3>2. log = [i \in 1..d |-> emitted[i]]
        <4>1. \A i \in 1..d : i \in 1..Len(emitted)
          BY <1>2, <2>2
        <4>2. /\ log \in Seq(T) /\ Len(log) = d
              /\ \A i \in 1..d : log[i] = emitted[1 + i - 1]
          BY <1>2, <2>2, <3>1, <4>1, SubSeqProperties
        <4> HIDE DEF log
        <4>3. DOMAIN log = 1..d /\ \A i \in 1..d : log[i] = emitted[i]
          BY <2>2, <4>2
        <4>4. log = [i \in DOMAIN log |-> log[i]]
          BY <4>2
        <4> QED BY <4>3, <4>4
      <3> HIDE DEF log
      <3>3. DOMAIN log = {i \in DOMAIN emitted : i <= d}
        BY <1>2, <2>2, <3>2
      <3>4. \A i \in DOMAIN log : log[i] = emitted[i]
        BY <3>2
      <3>5. CutAt(log, d)
        BY <3>3, <3>4 DEF CutAt
      <3> QED BY <2>5, <3>5 DEF log
    <2>7. Reason = EndReason(emitted[d].event)
          /\ (Reason = "Complete" => emitted[d].event = "RunComplete")
      BY <2>1, <2>3, <2>4 DEF Reason, EndReason, FirstEnd, Ends
    <2> QED BY <1>1, <1>4, <2>1, <2>2, <2>6, <2>7
  <1> QED BY <1>3, <1>4

\* A filed run of an intact copy has the score that was played, in each way it can end.
LEMMA ExactFinally ==
    ASSUME IInv, Story, Unread, Faithful, Filed, ~MayAbandon
    PROVE  ExactWhenIntact
  <1> SUFFICES ASSUME result # <<>>, Intact
               PROVE  result[1].end_reason = Reason /\ result[1].run_score = PlayedScore(RunLog)
    BY DEF ExactWhenIntact
  <1>1. result = <<Submitted(Reason, maps)>>
    BY FinalRun
  <1>2. PICK k \in Nat : CutAt(RunLog, k) /\ Settled(emitted, maps, k)
    BY FinalRun
  <1>3. EngineInv /\ RunInv /\ Zeros
    BY DEF IInv, Story
  <1> DEFINE log == RunLog
  <1>4. CutAt(log, k)
    BY <1>2
  <1> HIDE DEF log
  <1>5. RunScore(maps) = PlayedScore(log)
    BY <1>2, <1>3, <1>4, SettledScore
  <1>6. result[1] = Submitted(Reason, maps)
    BY <1>1
  <1>7. result[1].end_reason = Reason /\ result[1].run_score = RunScore(maps)
    BY <1>6 DEF Submitted
  <1> QED BY <1>5, <1>7 DEF log

\* A guard aside that may end a run at any moment, one intact transport is enough: the finished
\* run has the end and the score of the lines up to the first that ends it, whatever the other
\* transport lost, replayed or delayed and however the two interleaved, for every rotation.
THEOREM ExactWhenIntactSafe == PipelineSpec => [](~MayAbandon => ExactWhenIntact)
  <1>1. IInv /\ Story /\ Unread /\ Faithful /\ Filed => (~MayAbandon => ExactWhenIntact)
    BY ExactFinally
  <1> QED BY <1>1, OrderlyRun, StoryTold, FaithfulFold, FiledAsItStands, PTL
-----------------------------------------------------------------------------
\* The HUD's account: for each map of the rotation the worth of its completion, if it has one;
\* and a completed run has completed the map it ended on.
HudScore(c) ==
    c.kills * POINTS_PER_KILL + c.items * POINTS_PER_ITEM + COMPLETION_BONUS
      + NonNegative(TIME_BONUS_PAR_SECONDS - c.tics \div TICS_PER_SECOND) * TIME_BONUS_PER_SECOND
      + DEPTH_BONUS_PER_MAP
Earned(log, m) ==
    IF Completions(log, m) = {} THEN 0
    ELSE HudScore(log[CHOOSE i \in Completions(log, m) : TRUE].stats)
Banks(f, log) ==
    /\ f \in [0..Len(Rotation) -> Nat] /\ f[0] = 0
    /\ \A i \in DOMAIN Rotation : f[i] = f[i - 1] + Earned(log, Rotation[i])
Banked == \E f : Banks(f, emitted) /\ bankedScore = f[Len(Rotation)]
Crowned ==
    \A i \in DOMAIN emitted : emitted[i].event = "RunComplete" => CompletedBefore(emitted[i].map, i)

\* What the HUD gives for a map is what the run gets for it, depth bonus included.
LEMMA HudWorth ==
    ASSUME NEW c, c.stats.kills \in Nat, c.stats.items \in Nat, c.stats.tics \in Nat, c.completed
    PROVE  /\ HudScore(c.stats) \in Nat
           /\ HudScore(c.stats) <= MaxInt =>
                 MapScore(c) \in Nat /\ HudScore(c.stats) = MapScore(c) + DEPTH_BONUS_PER_MAP
  <1> DEFINE a == c.stats.kills * POINTS_PER_KILL
             b == c.stats.items * POINTS_PER_ITEM
             left == NonNegative(TIME_BONUS_PAR_SECONDS - c.stats.tics \div TICS_PER_SECOND)
             d == left * TIME_BONUS_PER_SECOND
  <1>1. /\ NonNegative(c.stats.kills) = c.stats.kills /\ NonNegative(c.stats.items) = c.stats.items
        /\ NonNegative(c.stats.tics) = c.stats.tics
    BY DEF NonNegative
  <1>2. a \in Nat /\ b \in Nat
    BY Numbers, Times
  <1>3. d \in Nat
    <2>1. c.stats.tics \div TICS_PER_SECOND \in Nat
      BY Numbers
    <2>2. left \in Nat
      BY <2>1, Numbers DEF NonNegative
    <2> HIDE DEF left
    <2> QED BY <2>2, Numbers, Times
  <1>4. HudScore(c.stats) = a + b + COMPLETION_BONUS + d + DEPTH_BONUS_PER_MAP
    BY DEF HudScore
  <1>5. MapScore(c) = Sat(Sat(Sat(Sat(a) + Sat(b)) + COMPLETION_BONUS) + Sat(d))
    BY <1>1 DEF MapScore, CounterScore, TimeBonus
  <1> HIDE DEF a, b, d
  <1>6. HudScore(c.stats) \in Nat
    BY <1>2, <1>3, <1>4, Numbers
  <1>7. ASSUME HudScore(c.stats) <= MaxInt
        PROVE  MapScore(c) \in Nat /\ HudScore(c.stats) = MapScore(c) + DEPTH_BONUS_PER_MAP
    <2>1. /\ Sat(a) = a /\ Sat(b) = b /\ Sat(d) = d /\ Sat(a + b) = a + b
          /\ Sat((a + b) + COMPLETION_BONUS) = (a + b) + COMPLETION_BONUS
          /\ Sat(((a + b) + COMPLETION_BONUS) + d) = ((a + b) + COMPLETION_BONUS) + d
      BY <1>2, <1>3, <1>4, <1>7, Numbers DEF Sat
    <2>2. MapScore(c) = ((a + b) + COMPLETION_BONUS) + d
      BY <1>5, <2>1
    <2> QED BY <1>2, <1>3, <1>4, <2>2, Numbers
  <1> QED BY <1>6, <1>7

\* What the HUD adds at an unload is the worth of the line that reports it.
LEMMA HudOfMap ==
    ASSUME EngineTypes
    PROVE  HudMapScore = HudScore(Counters) /\ HudMapScore \in Nat
  <1>1. HudMapScore = HudScore(Counters)
    BY DEF HudMapScore, HudScore, Counters
  <1> DEFINE c == [map |-> Map, stats |-> Counters, completed |-> TRUE]
  <1>2. c.stats = Counters /\ c.completed
    OBVIOUS
  <1>3. Counters.kills \in Nat /\ Counters.items \in Nat /\ Counters.tics \in Nat
    BY Numbers DEF Counters, EngineTypes
  <1> HIDE DEF c
  <1>4. HudScore(c.stats) \in Nat
    BY <1>2, <1>3, HudWorth
  <1> QED BY <1>1, <1>2, <1>4

\* What the HUD earned for a map is a number.
LEMMA EarnedNat ==
    ASSUME EngineTypes, NEW m
    PROVE  Earned(emitted, m) \in Nat
  <1>1. CASE Completions(emitted, m) = {}
    BY <1>1 DEF Earned
  <1>2. CASE Completions(emitted, m) # {}
    <2> DEFINE S == Completions(emitted, m)
               x == CHOOSE i \in S : TRUE
               c == [map |-> m, stats |-> emitted[x].stats, completed |-> TRUE]
    <2>1. x \in S
      BY <1>2
    <2>2. x \in DOMAIN emitted
      BY <2>1 DEF Completions
    <2>3. Earned(emitted, m) = HudScore(emitted[x].stats)
      BY <1>2 DEF Earned
    <2> HIDE DEF x
    <2>4. emitted[x].stats \in Counts
      BY <2>2, LineOf DEF EngineTypes
    <2>5. c.stats = emitted[x].stats /\ c.completed
      OBVIOUS
    <2> HIDE DEF c
    <2>6. HudScore(c.stats) \in Nat
      BY <2>4, <2>5, CountsType, HudWorth
    <2> QED BY <2>3, <2>5, <2>6
  <1> QED BY <1>1, <1>2

\* Lines that complete another map, or none, earn nothing for this one.
LEMMA EarnedSame ==
    ASSUME EngineTypes, NEW new, Adds(new), NEW m,
           \A i \in DOMAIN new : new[i].event = "LevelComplete" => m # Map
    PROVE  Earned(emitted', m) = Earned(emitted, m)
  <1> DEFINE log == emitted'
  <1>1. /\ \A i \in DOMAIN emitted : i \in DOMAIN log /\ log[i] = emitted[i]
        /\ \A i \in DOMAIN log :
              \/ i \in DOMAIN emitted
              \/ /\ i - Len(emitted) \in DOMAIN new /\ log[i] = new[i - Len(emitted)]
                 /\ log[i].map = Map
    BY LogAfter
  <1> HIDE DEF log
  <1>2. Completions(log, m) = Completions(emitted, m)
    BY <1>1 DEF Completions
  <1>3. \A i \in Completions(emitted, m) : log[i] = emitted[i]
    BY <1>1 DEF Completions
  <1>4. ASSUME Completions(emitted, m) = {} PROVE Earned(log, m) = Earned(emitted, m)
    BY <1>2, <1>4 DEF Earned
  <1>5. ASSUME Completions(emitted, m) # {} PROVE Earned(log, m) = Earned(emitted, m)
    <2> DEFINE S == Completions(emitted, m)
               x == CHOOSE i \in S : TRUE
    <2>1. x \in S
      BY <1>5
    <2>2. log[x] = emitted[x]
      BY <1>3, <2>1
    <2>3. Earned(log, m) = HudScore(log[x].stats) /\ Earned(emitted, m) = HudScore(emitted[x].stats)
      BY <1>2, <1>5 DEF Earned
    <2> QED BY <2>2, <2>3
  <1>6. Earned(log, m) = Earned(emitted, m)
    BY <1>4, <1>5
  <1> QED BY <1>6 DEF log

\* An account stands while no map earns anything new.
LEMMA BanksSame ==
    ASSUME NEW f, NEW log, NEW more, Banks(f, log),
           \A i \in DOMAIN Rotation : Earned(more, Rotation[i]) = Earned(log, Rotation[i])
    PROVE  Banks(f, more)
  BY DEF Banks

\* The unload of a living player's map keeps the account: it was earned once, and banked once.
LEMMA BankedUnload ==
    ASSUME EngineInv, Banked, NEW new, Adds(new), Unloads(new)
    PROVE  Banked'
  <1>1. /\ EngineTypes /\ phase = "InMap" /\ ~playerDead /\ bankedScore' = bankedScore + HudMapScore
        /\ 1 \in DOMAIN new /\ new[1].event = "LevelComplete" /\ new[1].stats = Counters
        /\ \A i \in DOMAIN new : i # 1 => new[i].event = "RunComplete"
        /\ at \in DOMAIN Rotation /\ Map = Rotation[at]
        /\ \A i \in DOMAIN emitted : ~(Closing(emitted[i]) /\ emitted[i].map = Map)
    BY DEF EngineInv, EngineTypes, ClosedOnce, Unloads, Map
  <1> DEFINE n == Len(emitted)
             log == emitted'
             H == HudMapScore
             L == Len(Rotation)
  <1>2. /\ n \in Nat /\ n + 1 \in DOMAIN log /\ log[n + 1] = new[1] /\ log[n + 1].map = Map
        /\ \A i \in DOMAIN log :
              \/ i \in DOMAIN emitted /\ log[i] = emitted[i]
              \/ i - n \in DOMAIN new /\ log[i] = new[i - n] /\ i \in Nat
    <2>1. /\ n \in Nat /\ n + 1 \in DOMAIN log /\ log[n + 1] = new[1]
      BY <1>1, LogAfter
    <2>2. new[1].map = Map
      BY <1>1 DEF Adds
    <2>3. \A i \in DOMAIN log :
              \/ i \in DOMAIN emitted /\ log[i] = emitted[i]
              \/ i - n \in DOMAIN new /\ log[i] = new[i - n] /\ i \in Nat
      BY <1>1, LogAfter
    <2> QED BY <2>1, <2>2, <2>3
  <1>3. PICK f : Banks(f, emitted) /\ bankedScore = f[L]
    BY DEF Banked
  <1>4. L \in Nat /\ DOMAIN Rotation = 1..L /\ at \in 1..L /\ at \in Nat /\ H \in Nat
    BY <1>1, Positions, HudOfMap
  <1>5. Completions(emitted, Map) = {}
    BY <1>1 DEF Completions, Closing
  <1> HIDE DEF log, n
  <1>6. Completions(log, Map) = {n + 1}
    <2>1. n + 1 \in Completions(log, Map)
      BY <1>1, <1>2 DEF Completions
    <2>2. ASSUME NEW i \in Completions(log, Map) PROVE i = n + 1
      <3>1. i \in DOMAIN log /\ log[i].event = "LevelComplete" /\ log[i].map = Map
        BY DEF Completions
      <3>2. i \notin DOMAIN emitted \/ log[i] # emitted[i]
        BY <1>1, <3>1 DEF Closing
      <3>3. i - n \in DOMAIN new /\ log[i] = new[i - n] /\ i \in Nat
        BY <1>2, <3>1, <3>2
      <3>4. i - n = 1
        BY <1>1, <3>1, <3>3
      <3> QED BY <1>2, <3>3, <3>4
    <2> QED BY <2>1, <2>2
  <1>7. Earned(emitted, Map) = 0 /\ Earned(log, Map) = H
    <2>1. Earned(emitted, Map) = 0
      BY <1>5 DEF Earned
    <2>2. (CHOOSE i \in {n + 1} : TRUE) = n + 1
      OBVIOUS
    <2>3. Earned(log, Map) = HudScore(log[n + 1].stats)
      BY <1>6, <2>2 DEF Earned
    <2> QED BY <1>1, <1>2, <2>1, <2>3, HudOfMap
  <1>8. ASSUME NEW i \in DOMAIN Rotation, i # at PROVE Earned(log, Rotation[i]) = Earned(emitted, Rotation[i])
    <2> DEFINE m == Rotation[i]
    <2>1. m # Map
      BY <1>1, <1>8, TelemetryAssumption
    <2> HIDE DEF m
    <2>2. Earned(emitted', m) = Earned(emitted, m)
      BY <1>1, <2>1, EarnedSame
    <2> QED BY <2>2 DEF m, log
  <1> DEFINE g == [k \in 0..L |-> IF k < at THEN f[k] ELSE f[k] + H]
  <1> HIDE DEF H, L
  <1>9. f \in [0..L -> Nat] /\ f[0] = 0
        /\ \A i \in 1..L : f[i] = f[i - 1] + Earned(emitted, Rotation[i])
    BY <1>3, <1>4 DEF Banks, L
  <1>10. g \in [0..L -> Nat] /\ g[0] = 0 /\ g[L] = f[L] + H
    <2>1. 0 \in 0..L /\ L \in 0..L /\ 0 < at /\ ~(L < at)
      BY <1>4
    <2>2. \A k \in 0..L : f[k] \in Nat /\ f[k] + H \in Nat
      BY <1>4, <1>9
    <2> QED BY <1>9, <2>1, <2>2
  <1>11. ASSUME NEW i \in 1..L PROVE g[i] = g[i - 1] + Earned(log, Rotation[i])
    <2>1. i \in 0..L /\ i - 1 \in 0..L /\ i \in Nat /\ f[i] \in Nat /\ f[i - 1] \in Nat
      BY <1>4, <1>9
    <2>2. g[i] = (IF i < at THEN f[i] ELSE f[i] + H)
          /\ g[i - 1] = (IF i - 1 < at THEN f[i - 1] ELSE f[i - 1] + H)
      BY <2>1
    <2> HIDE DEF g
    <2>3. CASE i < at
      <3>1. i - 1 < at /\ i # at /\ i \in DOMAIN Rotation
        BY <1>4, <2>1, <2>3
      <3>2. Earned(log, Rotation[i]) = Earned(emitted, Rotation[i])
        BY <1>8, <3>1
      <3> QED BY <1>9, <2>2, <2>3, <3>1, <3>2
    <2>4. CASE i = at
      <3>1. ~(i < at) /\ i - 1 < at
        BY <1>4, <2>1, <2>4
      <3>2. Earned(log, Rotation[i]) = H /\ Earned(emitted, Rotation[i]) = 0
        BY <1>1, <1>7, <2>4
      <3>3. f[i] = f[i - 1] + 0
        BY <1>9, <3>2
      <3> QED BY <1>4, <2>1, <2>2, <3>1, <3>2, <3>3
    <2>5. CASE i > at
      <3>1. ~(i - 1 < at) /\ ~(i < at) /\ i # at /\ i \in DOMAIN Rotation
        BY <1>4, <2>1, <2>5
      <3> DEFINE e == Earned(emitted, Rotation[i])
      <3>2. Earned(log, Rotation[i]) = e /\ f[i] = f[i - 1] + e
        BY <1>8, <1>9, <3>1
      <3>4. e \in Nat
        BY <1>1, EarnedNat
      <3> HIDE DEF e
      <3>3. g[i] = f[i] + H /\ g[i - 1] = f[i - 1] + H
        BY <2>2, <3>1
      <3> QED BY <1>4, <2>1, <3>2, <3>3, <3>4
    <2> QED BY <1>4, <2>1, <2>3, <2>4, <2>5
  <1> HIDE DEF g
  <1>12. Banks(g, log)
    BY <1>4, <1>10, <1>11 DEF Banks, L
  <1>13. bankedScore' = g[L]
    BY <1>1, <1>3, <1>10 DEF H
  <1> QED BY <1>12, <1>13 DEF Banked, log, L

\* Every step of the pipeline keeps the account.
LEMMA AccountKept ==
    ASSUME EngineInv, Banked, Crowned, [PipelineNext]_vars
    PROVE  Banked' /\ Crowned'
  <1>1. CASE ~(Engine \/ Signal \/ EngineExit)
    <2>1. emitted' = emitted /\ bankedScore' = bankedScore
      BY <1>1 DEF PipelineNext, FifoLine, StaleFifoLine, LoseFifoLine, FifoCloses, StdoutLine,
                  LoseStdoutTail, Finish, vars, gvars
    <2> QED BY <2>1 DEF Banked, Crowned, CompletedBefore, Completes
  <1>2. CASE Engine \/ Signal \/ EngineExit
    <2>0. EngineTypes /\ EngineInv
      BY DEF EngineInv
    <2>1. Play \/ Exit \/ Teardown
      BY <1>2 DEF Engine, Signal, EngineExit
    <2>2. PICK new : Tells(new)
      BY <2>0, <2>1, PlayTells
    <2>3. Adds(new)
      BY <2>2 DEF Tells
    <2> DEFINE log == emitted'
    <2>4. /\ Len(emitted) \in Nat
          /\ \A i \in DOMAIN emitted : i \in DOMAIN log /\ log[i] = emitted[i] /\ i \in Nat /\ i <= Len(emitted)
          /\ \A i \in DOMAIN new : i \in Nat /\ Len(emitted) + i \in DOMAIN log /\ log[Len(emitted) + i] = new[i]
          /\ \A i \in DOMAIN log : i \in Nat /\
                \/ i \in DOMAIN emitted
                \/ /\ i - Len(emitted) \in DOMAIN new /\ log[i] = new[i - Len(emitted)]
                   /\ log[i].map = Map
      BY <2>0, <2>3, LogAfter
    <2>5. Banked'
      <3>1. CASE Unloads(new)
        BY <2>0, <2>3, <3>1, BankedUnload
      <3>2. CASE Enters(new) /\ ~runStarted
        <4>1. DOMAIN emitted = {} /\ bankedScore' = 0
          BY <2>0, <3>2 DEF EngineInv, AnnouncedFirst, Enters
        <4>2. \A i \in DOMAIN new : new[i].event # "LevelComplete"
          BY <3>2 DEF Enters
        <4>3. \A m : Completions(log, m) = {}
          BY <2>4, <4>1, <4>2 DEF Completions
        <4> HIDE DEF log
        <4>4. \A m : Earned(log, m) = 0
          BY <4>3 DEF Earned
        <4> DEFINE L == Len(Rotation)
                   f == [k \in 0..L |-> 0]
        <4>5. L \in Nat /\ DOMAIN Rotation = 1..L
          BY Positions
        <4> HIDE DEF L
        <4>6. f \in [0..L -> Nat] /\ f[0] = 0 /\ f[L] = 0 /\ \A i \in 1..L : f[i] = f[i - 1] + 0
          BY <4>5
        <4> HIDE DEF f
        <4>7. Banks(f, log)
          BY <4>4, <4>5, <4>6 DEF Banks, L
        <4> QED BY <4>1, <4>6, <4>7 DEF Banked, log, L
      <3>3. CASE ~Unloads(new) /\ ~(Enters(new) /\ ~runStarted)
        <4>1. bankedScore' = bankedScore /\ \A i \in DOMAIN new : new[i].event # "LevelComplete"
          BY <2>2, <3>3 DEF Tells, Enters, Plays, Dies, Silent
        <4>2. \A m : Earned(log, m) = Earned(emitted, m)
          BY <2>0, <2>3, <4>1, EarnedSame
        <4>3. PICK f : Banks(f, emitted) /\ bankedScore = f[Len(Rotation)]
          BY DEF Banked
        <4> HIDE DEF log
        <4>4. Banks(f, log)
          BY <4>2, <4>3, BanksSame
        <4> QED BY <4>1, <4>3, <4>4 DEF Banked, log
      <3> QED BY <3>1, <3>2, <3>3
    <2>6. Crowned'
      <3> SUFFICES ASSUME NEW i \in DOMAIN log, log[i].event = "RunComplete"
                   PROVE  \E j \in DOMAIN log :
                            j < i /\ log[j].event = "LevelComplete" /\ log[j].map = log[i].map
        BY DEF Crowned, CompletedBefore, Completes
      <3> HIDE DEF log
      <3>1. CASE i \in DOMAIN emitted
        BY <2>4, <3>1 DEF Crowned, CompletedBefore, Completes
      <3>2. CASE i \notin DOMAIN emitted
        <4>1. i - Len(emitted) \in DOMAIN new /\ log[i] = new[i - Len(emitted)] /\ log[i].map = Map
          BY <2>4, <3>2
        <4>2. Unloads(new) /\ 1 \in DOMAIN new /\ new[1].event = "LevelComplete"
          BY <2>2, <4>1 DEF Tells, Enters, Plays, Dies, Silent, Unloads
        <4>3. i - Len(emitted) # 1
          BY <4>1, <4>2
        <4>4. Len(new) \in Nat /\ DOMAIN new = 1..Len(new)
          BY <2>0, <2>3, LogAfter
        <4>5. i \in Nat /\ Len(emitted) + 1 < i
          BY <2>4, <4>1, <4>3, <4>4
        <4>6. Len(emitted) + 1 \in DOMAIN log /\ log[Len(emitted) + 1] = new[1] /\ new[1].map = Map
          BY <2>3, <2>4, <4>2 DEF Adds
        <4> QED BY <4>1, <4>2, <4>5, <4>6
      <3> QED BY <3>1, <3>2
    <2> QED BY <2>5, <2>6
  <1> QED BY <1>1, <1>2

\* The HUD's score is, at every moment, the sum of the completions reported so far; and a run
\* is reported complete only after the map it ended on.
THEOREM HudAccount == PipelineSpec => [](Banked /\ Crowned)
  <1>1. PipelineInit => Banked /\ Crowned
    <2> SUFFICES ASSUME PipelineInit PROVE Banked /\ Crowned
      OBVIOUS
    <2>1. emitted = <<>> /\ DOMAIN emitted = {} /\ bankedScore = 0
      BY DEF PipelineInit, Init
    <2>2. \A m : Completions(emitted, m) = {}
      BY <2>1 DEF Completions
    <2>3. \A m : Earned(emitted, m) = 0
      BY <2>2 DEF Earned
    <2> DEFINE L == Len(Rotation)
               f == [k \in 0..L |-> 0]
    <2>4. L \in Nat /\ DOMAIN Rotation = 1..L
      BY Positions
    <2> HIDE DEF L
    <2>5. f \in [0..L -> Nat] /\ f[0] = 0 /\ f[L] = 0 /\ \A i \in 1..L : f[i] = f[i - 1] + 0
      BY <2>4
    <2> HIDE DEF f
    <2>6. Banks(f, emitted)
      BY <2>3, <2>4, <2>5 DEF Banks, L
    <2> QED BY <2>1, <2>5, <2>6 DEF Banked, Crowned, L
  <1>2. IInv /\ Banked /\ Crowned /\ [PipelineNext]_vars => Banked' /\ Crowned'
    BY AccountKept DEF IInv
  <1> QED BY <1>1, <1>2, OrderlyRun, PTL DEF PipelineSpec

\* A completed run completed every map it has an entry of.
LEMMA AllCompleted ==
    ASSUME IInv, Story, Crowned, NEW k \in DOMAIN emitted, FirstEnd(emitted, k),
           emitted[k].event = "RunComplete", Settled(emitted, maps, k), NEW n \in DOMAIN maps
    PROVE  maps[n].completed
  <1>1. /\ EngineInv /\ Walked /\ EndsLast /\ AllSourced /\ Ordered /\ maps \in Seq(Entries)
        /\ emitted \in Seq(Lines)
    BY DEF IInv, EngineInv, EngineTypes, RunInv, RunTypes, Story
  <1>2. /\ k = Len(emitted) /\ Len(emitted) \in Nat /\ DOMAIN emitted = 1..Len(emitted)
        /\ \A i \in DOMAIN emitted : i \in Nat /\ i <= k
    BY <1>1, LineOf DEF EndsLast
  <1> DEFINE z == emitted[k].map
             m == maps[n].map
  <1>3. Exact(emitted, maps[n], k)
    BY DEF Settled
  <1>4. PICK i \in DOMAIN emitted : emitted[i].map = m
    BY <1>1 DEF AllSourced, Sourced, KillsShown
  <1>5. /\ m \in MapNames /\ z \in MapNames /\ Pos(m) <= Pos(z)
        /\ Pos(m) \in Nat /\ Pos(z) \in Nat /\ Pos(m) >= 1
        /\ Rotation[Pos(m)] = m
    <2>1. m \in MapNames /\ z \in MapNames
      BY <1>1, <1>4, LineOf
    <2>2. Pos(m) <= Pos(z)
      BY <1>1, <1>2, <1>4 DEF Ordered
    <2> QED BY <2>1, <2>2, PosNat, Positions
  <1>6. CompletedBefore(m, k)
    <2>1. CASE Pos(m) = Pos(z)
      <3>1. m = z
        BY <1>5, <2>1, Positions
      <3> QED BY <3>1 DEF Crowned
    <2>2. CASE Pos(m) # Pos(z)
      <3>1. \A j \in DOMAIN emitted : j < k => ~Fell(j)
        BY <1>2 DEF FirstEnd, Fell, Ends
      <3>2. Behind(Pos(z), k)
        BY <1>1, <3>1 DEF Walked
      <3>3. Pos(m) \in 1..(Pos(z) - 1)
        BY <1>5, <2>2
      <3> QED BY <1>5, <3>2, <3>3 DEF Behind
    <2> QED BY <2>1, <2>2
  <1>7. PICK j \in DOMAIN emitted : j < k /\ Completes(j, m)
    BY <1>6 DEF CompletedBefore
  <1>8. j \in Completions(emitted, maps[n].map) /\ j <= k
    BY <1>2, <1>7 DEF Completes, Completions
  <1> QED BY <1>3, <1>8 DEF Exact

\* What the HUD earned for the maps of a settled list.
LEMMA EarnedEntry ==
    ASSUME IInv, NEW k \in DOMAIN emitted, \A i \in DOMAIN emitted : i <= k,
           Settled(emitted, maps, k), NEW n \in DOMAIN maps, maps[n].completed
    PROVE  Earned(emitted, Rotation[n]) = HudScore(maps[n].stats)
  <1> DEFINE c == maps[n]
             S == Completions(emitted, c.map)
             x == CHOOSE i \in S : TRUE
  <1>1. Exact(emitted, c, k) /\ c.map = Rotation[n] /\ ClosedOnce
    BY DEF Settled, IInv, EngineInv
  <1>2. PICK j \in S : emitted[j].stats = c.stats
    BY <1>1 DEF Exact
  <1>3. x \in S
    BY <1>2
  <1>4. x = j
    BY <1>1, <1>2, <1>3 DEF Completions, ClosedOnce, Closing
  <1>5. Earned(emitted, c.map) = HudScore(emitted[x].stats)
    BY <1>2 DEF Earned
  <1> QED BY <1>1, <1>2, <1>4, <1>5

\* A map that has no entry has earned nothing.
LEMMA EarnedRest ==
    ASSUME IInv, NEW k \in DOMAIN emitted, \A i \in DOMAIN emitted : i <= k,
           Settled(emitted, maps, k), NEW n \in DOMAIN Rotation, n \notin DOMAIN maps
    PROVE  Earned(emitted, Rotation[n]) = 0
  <1>1. Completions(emitted, Rotation[n]) = {}
    <2> SUFFICES ASSUME NEW i \in Completions(emitted, Rotation[n]) PROVE FALSE
      OBVIOUS
    <2>1. i \in DOMAIN emitted /\ emitted[i].event = "LevelComplete" /\ emitted[i].map = Rotation[n]
      BY DEF Completions
    <2>2. PICK j \in DOMAIN maps : maps[j].map = Rotation[n]
      BY <2>1 DEF Settled
    <2>3. j \in DOMAIN Rotation /\ Rotation[j] = Rotation[n]
      BY <2>2 DEF Settled
    <2>4. j = n
      BY <2>3, TelemetryAssumption
    <2> QED BY <2>2, <2>4
  <1> QED BY <1>1 DEF Earned

\* f is the account of a list of maps: it grows by what each entry is worth, which is its map
\* score and the depth bonus unless that saturates, and not at all beyond the list.
Accounts(f, worth, s, all) ==
    /\ f \in [0..all -> Nat] /\ f[0] = 0 /\ f[all] <= MaxInt /\ Len(s) <= all
    /\ \A i \in 1..Len(s) : /\ worth[i] \in Nat /\ f[i] = f[i - 1] + worth[i]
                            /\ worth[i] <= MaxInt => worth[i] = s[i] + DEPTH_BONUS_PER_MAP
    /\ \A i \in 1..all : i \notin 1..Len(s) => f[i] = f[i - 1] + 0

\* An account that grows by what each entry is worth and the depth bonus, and not at all
\* beyond the list, is the run's score, unless it saturates.
LEMMA AccountScore ==
    ASSUME NEW s \in Seq(Nat), NEW all \in Nat, NEW f, NEW worth, Accounts(f, worth, s, all)
    PROVE  Sat(SatTotal(s) + Sat(Len(s) * DEPTH_BONUS_PER_MAP)) = f[all]
  <1> DEFINE n == Len(s)
             B == DEPTH_BONUS_PER_MAP
  <1>0. f \in [0..all -> Nat] /\ f[0] = 0 /\ f[all] <= MaxInt
    BY DEF Accounts
  <1>1. n \in Nat /\ B \in Nat /\ \A i \in 1..n : s[i] \in Nat
    BY Numbers
  <1>2. PICK g : SatSums(g, s) /\ SatTotal(s) = g[n]
    BY SatTotalFolds
  <1>3. /\ g \in [0..n -> 0..MaxInt] /\ g[0] = 0 /\ \A k \in 1..n : g[k] = Sat(g[k - 1] + s[k])
        /\ \A i \in 1..n : /\ worth[i] \in Nat /\ f[i] = f[i - 1] + worth[i]
                           /\ worth[i] <= MaxInt => worth[i] = s[i] + B
        /\ \A i \in 1..all : i \notin 1..n => f[i] = f[i - 1] + 0
        /\ n <= all
    BY <1>2 DEF SatSums, Accounts
  <1> HIDE DEF n, B
  <1> DEFINE S == {k \in Nat : k <= n /\ f[k] <= MaxInt => f[k] = g[k] + k * B}
             U == {k \in Nat : f[n + k] = f[n]}
  <1>4. 0..n \subseteq S
    <2>1. 0 \in S
      <3>1. 0 * B = 0
        BY <1>1
      <3> QED BY <1>0, <1>3, <3>1
    <2>2. ASSUME NEW k \in 0..(n - 1), k \in S PROVE k + 1 \in S
      <3> SUFFICES ASSUME f[k + 1] <= MaxInt PROVE f[k + 1] = g[k + 1] + (k + 1) * B
        BY <1>1
      <3>1. k + 1 \in 1..n /\ (k + 1) - 1 = k /\ k <= n /\ k + 1 \in Nat /\ k \in Nat
            /\ k \in 0..all /\ k + 1 \in 0..all
        BY <1>1, <1>3
      <3>2. /\ f[k + 1] = f[k] + worth[k + 1] /\ worth[k + 1] \in Nat
            /\ f[k] \in Nat /\ g[k] \in Nat /\ s[k + 1] \in Nat
            /\ g[k + 1] = Sat(g[k] + s[k + 1])
            /\ worth[k + 1] <= MaxInt => worth[k + 1] = s[k + 1] + B
        <4>1. f[k] \in Nat
          BY <1>0, <3>1
        <4>2. g[k] \in Nat
          <5>1. k \in 0..n
            BY <1>1, <3>1
          <5>2. g[k] \in 0..MaxInt
            BY <1>3, <5>1
          <5> QED BY <5>2, Numbers
        <4>3. s[k + 1] \in Nat
          BY <1>1, <3>1
        <4>4. /\ f[k + 1] = f[(k + 1) - 1] + worth[k + 1] /\ worth[k + 1] \in Nat
              /\ g[k + 1] = Sat(g[(k + 1) - 1] + s[k + 1])
              /\ worth[k + 1] <= MaxInt => worth[k + 1] = s[k + 1] + B
          BY <1>3, <3>1
        <4> QED BY <3>1, <4>1, <4>2, <4>3, <4>4
      <3> DEFINE fk == f[k]
                 w == worth[k + 1]
                 gk == g[k]
                 sk == s[k + 1]
                 p == k * B
      <3>3. p \in Nat /\ (k + 1) * B = p + B
        BY <1>1, <3>1, Times
      <3>4. fk <= MaxInt /\ w <= MaxInt
        <4>1. fk \in Nat /\ w \in Nat /\ fk + w <= MaxInt
          BY <3>2
        <4> HIDE DEF fk, w
        <4> QED BY <4>1, Numbers
      <3>5. fk = gk + p /\ w = sk + B
        BY <2>2, <3>1, <3>2, <3>4
      <3>6. fk \in Nat /\ w \in Nat /\ gk \in Nat /\ sk \in Nat /\ f[k + 1] = fk + w
            /\ g[k + 1] = Sat(gk + sk)
        BY <3>2
      <3> HIDE DEF fk, w, gk, sk, p
      <3>7. gk + sk \in Nat /\ gk + sk <= MaxInt
        BY <1>1, <3>3, <3>5, <3>6, Numbers
      <3>8. Sat(gk + sk) = gk + sk
        BY <3>7, SatType
      <3>9. (gk + p) + (sk + B) = (gk + sk) + (p + B)
        BY <1>1, <3>3, <3>6
      <3>10. f[k + 1] = (gk + p) + (sk + B)
        BY <3>5, <3>6
      <3>11. g[k + 1] + (k + 1) * B = (gk + sk) + (p + B)
        BY <3>3, <3>6, <3>8
      <3> QED BY <3>9, <3>10, <3>11
    <2>3. \A k \in 0..(n - 1) : k \in S => k + 1 \in S
      BY <2>2
    <2> HIDE DEF S
    <2> QED BY <1>1, <2>1, <2>3, Upto
  <1>5. 0..(all - n) \subseteq U
    <2>0. all - n \in Nat
      BY <1>1, <1>3
    <2>1. 0 \in U
      BY <1>1
    <2>2. ASSUME NEW k \in 0..((all - n) - 1), k \in U PROVE k + 1 \in U
      <3>1. /\ n + k \in 0..all /\ n + (k + 1) \in 1..all /\ n + (k + 1) \notin 1..n
            /\ (n + (k + 1)) - 1 = n + k /\ k + 1 \in Nat
        BY <1>1, <1>3
      <3>2. f[n + (k + 1)] = f[n + k] + 0 /\ f[n + k] \in Nat
        BY <1>0, <1>3, <3>1
      <3> QED BY <2>2, <3>1, <3>2
    <2>3. \A k \in 0..((all - n) - 1) : k \in U => k + 1 \in U
      BY <2>2
    <2> HIDE DEF U
    <2> QED BY <2>0, <2>1, <2>3, Upto
  <1>6. n \in S /\ all - n \in U
    <2>1. n \in 0..n /\ all - n \in 0..(all - n)
      BY <1>1, <1>3
    <2> HIDE DEF S, U
    <2> QED BY <1>4, <1>5, <2>1
  <1>7. f[all] = f[n]
    <2>1. n + (all - n) = all
      BY <1>1
    <2> QED BY <1>6, <2>1
  <1>8. f[n] = g[n] + n * B /\ f[n] <= MaxInt
    BY <1>0, <1>1, <1>6, <1>7
  <1> DEFINE q == n * B
             t == g[n]
  <1>9. q \in Nat /\ t \in Nat /\ t + q <= MaxInt
    <2>1. n \in 0..n
      BY <1>1
    <2>2. t \in Nat
      BY <1>3, <2>1, Numbers
    <2> QED BY <1>1, <1>8, <2>2, Times
  <1>10. f[all] = t + q /\ SatTotal(s) = t
    BY <1>2, <1>7, <1>8
  <1> HIDE DEF q, t
  <1>11. Sat(q) = q /\ Sat(t + q) = t + q
    BY <1>9, Numbers DEF Sat
  <1>12. Sat(t + Sat(q)) = f[all]
    BY <1>10, <1>11
  <1> QED BY <1>10, <1>12 DEF q, n, B

\* The account of a filed completed run is its score.
LEMMA HudFinally ==
    ASSUME IInv, Story, Unread, Faithful, Filed, Banked, Crowned, bankedScore <= MaxInt
    PROVE  HudAgrees
  <1> SUFFICES ASSUME result # <<>>, Intact, result[1].end_reason = "Complete"
               PROVE  result[1].run_score = bankedScore
    BY DEF HudAgrees
  <1>1. result = <<Submitted(Reason, maps)>>
    BY FinalRun
  <1>2. result[1] = Submitted(Reason, maps)
    BY <1>1
  <1>3. Reason = "Complete" /\ result[1].run_score = RunScore(maps)
    BY <1>2 DEF Submitted
  <1>4. PICK k \in Nat : /\ k \in DOMAIN emitted /\ FirstEnd(emitted, k)
                         /\ emitted[k].event = "RunComplete" /\ Settled(emitted, maps, k)
    BY <1>3, FinalRun
  <1>5. /\ EngineInv /\ RunInv /\ EndsLast /\ maps \in Seq(Entries) /\ emitted \in Seq(Lines)
        /\ AllSourced
    BY DEF IInv, EngineInv, EngineTypes, RunInv, RunTypes, Story
  <1>6. \A i \in DOMAIN emitted : i <= k
    <2>1. k = Len(emitted) /\ DOMAIN emitted = 1..Len(emitted) /\ Len(emitted) \in Nat
      BY <1>4, <1>5, LineOf DEF EndsLast
    <2> QED BY <2>1
  <1> DEFINE D == DOMAIN maps
             L == Len(Rotation)
             s == [n \in D |-> MapScore(maps[n])]
             worth == [n \in D |-> HudScore(maps[n].stats)]
  <1>7. /\ D = 1..Len(maps) /\ Len(maps) \in Nat /\ L \in Nat /\ DOMAIN Rotation = 1..L
        /\ Len(maps) <= L
    BY <1>5, FewEntries, Positions
  <1>8. PICK f : Banks(f, emitted) /\ bankedScore = f[L]
    BY DEF Banked
  <1>9. /\ f \in [0..L -> Nat] /\ f[0] = 0
        /\ \A i \in 1..L : f[i] = f[i - 1] + Earned(emitted, Rotation[i])
    BY <1>7, <1>8 DEF Banks
  <1>10. ASSUME NEW n \in D
         PROVE  /\ maps[n].completed /\ s[n] \in Nat /\ worth[n] \in Nat
                /\ Earned(emitted, Rotation[n]) = worth[n]
                /\ worth[n] <= MaxInt => worth[n] = s[n] + DEPTH_BONUS_PER_MAP
    <2>1. maps[n].completed
      BY <1>4, AllCompleted
    <2>2. Earned(emitted, Rotation[n]) = HudScore(maps[n].stats)
      BY <1>4, <1>6, <2>1, EarnedEntry
    <2> DEFINE c == maps[n]
    <2>3. c \in Entries
      BY <1>5, EntryBehind
    <2>4. s[n] = MapScore(c) /\ worth[n] = HudScore(c.stats)
      OBVIOUS
    <2> HIDE DEF c, s, worth
    <2>5. c.stats.kills \in Nat /\ c.stats.items \in Nat /\ c.stats.tics \in Nat
          /\ c.completed \in BOOLEAN
      BY <2>3, CountsType DEF Entries
    <2>6. MapScore(c) \in Nat
      BY <2>5, MapScoreBound
    <2>7. /\ HudScore(c.stats) \in Nat
          /\ HudScore(c.stats) <= MaxInt => HudScore(c.stats) = MapScore(c) + DEPTH_BONUS_PER_MAP
      BY <2>1, <2>5, HudWorth DEF c
    <2> QED BY <2>1, <2>2, <2>4, <2>6, <2>7 DEF c
  <1>11. \A i \in 1..L : i \notin D => Earned(emitted, Rotation[i]) = 0
    BY <1>4, <1>6, <1>7, EarnedRest
  <1>12. RunScore(maps) = Sat(SatTotal(s) + Sat(Len(maps) * DEPTH_BONUS_PER_MAP))
    <2>1. {n \in D : maps[n].completed} = 1..Len(maps)
      BY <1>7, <1>10
    <2>2. Cardinality({n \in D : maps[n].completed}) = Len(maps)
      BY <1>7, <2>1, Initial
    <2>3. MapsCompleted(maps) = Len(maps)
      BY <2>2 DEF MapsCompleted
    <2> QED BY <2>3 DEF RunScore
  <1>13. s \in Seq(Nat) /\ Len(s) = Len(maps)
    <2>1. s \in [1..Len(maps) -> Nat]
      BY <1>7, <1>10
    <2> HIDE DEF s
    <2> QED BY <1>7, <2>1, IsASeq
  <1> HIDE DEF s, worth, D, L
  <1>14. \A i \in 1..Len(s) : /\ worth[i] \in Nat /\ f[i] = f[i - 1] + worth[i]
                              /\ worth[i] <= MaxInt => worth[i] = s[i] + DEPTH_BONUS_PER_MAP
    <2> SUFFICES ASSUME NEW i \in 1..Len(s)
                 PROVE  /\ worth[i] \in Nat /\ f[i] = f[i - 1] + worth[i]
                        /\ worth[i] <= MaxInt => worth[i] = s[i] + DEPTH_BONUS_PER_MAP
      OBVIOUS
    <2>1. i \in D /\ i \in 1..L
      BY <1>7, <1>13
    <2> QED BY <1>9, <1>10, <2>1
  <1>15. \A i \in 1..L : i \notin 1..Len(s) => f[i] = f[i - 1] + 0
    <2> SUFFICES ASSUME NEW i \in 1..L, i \notin D PROVE f[i] = f[i - 1] + 0
      BY <1>7, <1>13
    <2> QED BY <1>9, <1>11
  <1>16. Sat(SatTotal(s) + Sat(Len(s) * DEPTH_BONUS_PER_MAP)) = f[L]
    <2>1. f \in [0..L -> Nat] /\ f[0] = 0 /\ f[L] <= MaxInt /\ Len(s) <= L /\ L \in Nat
      BY <1>7, <1>8, <1>9, <1>13
    <2>2. Accounts(f, worth, s, L)
      BY <1>14, <1>15, <2>1 DEF Accounts
    <2> QED BY <1>13, <2>1, <2>2, AccountScore
  <1> QED BY <1>3, <1>8, <1>12, <1>13, <1>16

\* Where one transport is intact, a completed run has exactly the score the HUD showed at its
\* end, every map's depth bonus included: two formulas in two languages, one of them in plain
\* arithmetic over the whole run and one that saturates and adds the bonus at the end, agree
\* for every rotation, as long as the sum stays below i64::MAX, where the run's saturates.
THEOREM HudAgreesSafe == PipelineSpec => [](bankedScore <= MaxInt => HudAgrees)
  <1>1. IInv /\ Story /\ Unread /\ Faithful /\ Filed /\ Banked /\ Crowned =>
           (bankedScore <= MaxInt => HudAgrees)
    BY HudFinally
  <1> QED BY <1>1, OrderlyRun, StoryTold, FaithfulFold, FiledAsItStands, HudAccount, PTL
=============================================================================
