-------------------------- MODULE RunStateProofs --------------------------
(***************************************************************************)
(* Proofs about the per-run state machine, for every set of maps, sessions *)
(* and counters, and for streams of any length.                            *)
(*                                                                         *)
(* The nine handlers touch the list of maps in three ways only: they leave *)
(* it alone, rewrite the open entry, or append one.  Lemma StepShape says  *)
(* so; everything else is proved from the three shapes.                    *)
(***************************************************************************)
EXTENDS RunState, SequenceTheorems, TLAPS

\* The invariant that is inductive: while the run lasts every map is recorded
\* once, so the open entry is the only one of its map and may be completed.
IInv == TypeOK /\ OpenEntry /\ RepeatOnlyAtDeath /\ CompletedOnce

Kept ==
    /\ maps' = maps
    /\ open' => open /\ terminal' = "None"
    /\ open' = open \/ terminal' # "None"

Rewritten(e) ==
    /\ open
    /\ e.map = Last.map
    /\ maps' = [maps EXCEPT ![Len(maps)] = e]

Appended(e) ==
    /\ maps' = Append(maps, e)
    /\ ~Recorded(e.map) \/ (terminal' = "Death" /\ ~e.completed)
    /\ e.completed => ~open

\* A step that applies an event keeps, rewrites or appends; an entry it writes
\* is completed exactly if it is closed and the run goes on.
Shape ==
    /\ terminal = "None"
    /\ terminal' \in TerminalReasons \cup {"None"}
    /\ open' \in BOOLEAN
    /\ run_started' \in BOOLEAN
    /\ outcome' \in Outcomes
    /\ \/ Kept
       \/ \E e \in MapStats :
            /\ open' => terminal' = "None"
            /\ e.completed <=> (~open' /\ terminal' = "None")
            /\ Rewritten(e) \/ Appended(e)

\* What a handler writes is an entry of the right type.
LEMMA EntryType ==
    ASSUME NEW m \in Maps, NEW s \in Stats, NEW c \in BOOLEAN
    PROVE  /\ Entry(m, s, c) \in MapStats
           /\ Entry(m, s, c).map = m
           /\ Entry(m, s, c).completed = c
  BY DEF Entry, MapStats

LEMMA ZeroType == ZeroStats \in Stats
  BY DEF ZeroStats, Stats

\* The last entry of a list that has one.
LEMMA LastType ==
    ASSUME maps \in Seq(MapStats), maps # <<>>
    PROVE  /\ Len(maps) \in DOMAIN maps
           /\ Last \in MapStats
           /\ Last.stats \in Stats
  <1>1. Len(maps) \in 1..Len(maps) /\ DOMAIN maps = 1..Len(maps)
    OBVIOUS
  <1>2. \A i \in 1..Len(maps) : maps[i] \in MapStats
    OBVIOUS
  <1>3. Last \in MapStats
    BY <1>1, <1>2 DEF Last
  <1>4. \A e \in MapStats : e.stats \in Stats
    BY DEF MapStats
  <1> QED BY <1>1, <1>3, <1>4

LEMMA EventType ==
    ASSUME NEW ev \in Events
    PROVE  ev.map \in Maps /\ ev.stats \in Stats
  BY RunStateAssumption DEF Events, Stats

\* Every step of the machine either drops the event or has one of the shapes.
LEMMA StepShape ==
    ASSUME TypeOK, OpenEntry, NEW ev \in Events, ApplyEvent(ev)
    PROVE  Shape \/ (UNCHANGED state /\ outcome' \in Outcomes)
  <1> USE DEF Drop, Applied, Live, state, Outcomes, TerminalReasons
  <1>0. ev.map \in Maps /\ ev.stats \in Stats
    BY EventType
  <1>1. CASE Foreign(ev)
    BY <1>1 DEF Foreign
  <1>2. CASE AfterEnd(ev)
    BY <1>2 DEF AfterEnd
  <1>3. CASE RunStart(ev)
    BY <1>3 DEF RunStart, Shape, Kept, TypeOK, OpenEntry
  <1>4. CASE LevelEnter(ev)
    <2>1. CASE ~Recorded(ev.map)
      <3> DEFINE e == Entry(ev.map, ZeroStats, FALSE)
      <3>1. e \in MapStats /\ e.map = ev.map /\ ~e.completed
        BY <1>0, EntryType, ZeroType
      <3> HIDE DEF e
      <3>2. maps' = Append(maps, e)
        BY <1>4, <2>1 DEF LevelEnter, Push, e
      <3> QED BY <1>4, <2>1, <3>1, <3>2 DEF LevelEnter, Shape, Appended, TypeOK
    <2>2. CASE Recorded(ev.map)
      BY <1>4, <2>2 DEF LevelEnter
    <2> QED BY <2>1, <2>2
  <1>5. CASE LevelComplete(ev)
    <2> DEFINE e == Entry(ev.map, ev.stats, TRUE)
    <2>1. e \in MapStats /\ e.map = ev.map /\ e.completed
      BY <1>0, EntryType
    <2> HIDE DEF e
    <2>2. CASE outcome' # "Applied"
      BY <1>5, <2>2 DEF LevelComplete
    <2>3. CASE outcome' = "Applied"
      <3>1. Rewritten(e) \/ Appended(e)
        BY <1>5, <2>1, <2>3
        DEF LevelComplete, Rewritten, Appended, OpenOn, ReplaceLast, Push, e
      <3>2. terminal = "None" /\ terminal' = "None" /\ open' = FALSE
            /\ run_started' = run_started
        BY <1>5, <2>3 DEF LevelComplete
      <3> QED BY <2>1, <2>3, <3>1, <3>2 DEF Shape, TypeOK
    <2> QED BY <2>2, <2>3
  <1>6. CASE PlayerDied(ev)
    <2> DEFINE Dead(base) == Entry(ev.map, [base EXCEPT !.kills = ev.stats.kills,
                                                        !.tics = ev.stats.tics], FALSE)
    <2>1. ASSUME NEW base \in Stats
          PROVE  Dead(base) \in MapStats /\ Dead(base).map = ev.map /\ ~Dead(base).completed
      <3>1. [base EXCEPT !.kills = ev.stats.kills, !.tics = ev.stats.tics] \in Stats
        BY <1>0 DEF Stats
      <3> QED BY <1>0, <3>1, EntryType
    <2>2. OpenOn(ev.map) => ReplaceLast(Dead(Last.stats))
      BY <1>6 DEF PlayerDied
    <2>3. ~OpenOn(ev.map) => Push(Dead(ZeroStats))
      BY <1>6 DEF PlayerDied
    <2>4. terminal = "None" /\ terminal' = "Death" /\ open' = FALSE
          /\ run_started' = run_started /\ outcome' = "Applied"
      BY <1>6 DEF PlayerDied
    <2> HIDE DEF Dead
    <2>5. CASE OpenOn(ev.map)
      <3>1. /\ Dead(Last.stats) \in MapStats /\ Dead(Last.stats).map = ev.map
            /\ ~Dead(Last.stats).completed
        BY <2>1, <2>5, LastType DEF OpenOn, TypeOK
      <3>2. Rewritten(Dead(Last.stats))
        BY <2>2, <2>5, <3>1 DEF Rewritten, OpenOn, ReplaceLast
      <3> QED BY <2>4, <3>1, <3>2 DEF Shape, TypeOK
    <2>6. CASE ~OpenOn(ev.map)
      <3>1. Dead(ZeroStats) \in MapStats /\ ~Dead(ZeroStats).completed
        BY <2>1, ZeroType
      <3>2. Appended(Dead(ZeroStats))
        BY <2>3, <2>4, <2>6, <3>1 DEF Appended, Push
      <3> QED BY <2>4, <3>1, <3>2 DEF Shape, TypeOK
    <2> QED BY <2>5, <2>6
  <1>7. CASE RunComplete(ev)
    BY <1>7 DEF RunComplete, Shape, Kept, TypeOK
  <1>8. CASE Progress(ev)
    <2> DEFINE e == Entry(ev.map, ev.stats, FALSE)
    <2>1. e \in MapStats /\ e.map = ev.map /\ ~e.completed
      BY <1>0, EntryType
    <2> HIDE DEF e
    <2>2. CASE outcome' # "Applied"
      BY <1>8, <2>2 DEF Progress
    <2>3. CASE outcome' = "Applied"
      <3>1. Rewritten(e) \/ Appended(e)
        BY <1>8, <2>1, <2>3
        DEF Progress, Rewritten, Appended, OpenOn, ReplaceLast, Push, e
      <3>2. terminal = "None" /\ terminal' = "None" /\ open' = TRUE
            /\ run_started' = run_started
        BY <1>8, <2>3 DEF Progress
      <3> QED BY <2>1, <2>3, <3>1, <3>2 DEF Shape, TypeOK
    <2> QED BY <2>2, <2>3
  <1>9. CASE RunQuit(ev)
    <2>1. terminal = "None" /\ terminal' = "Quit" /\ open' = FALSE
          /\ run_started' = run_started /\ outcome' = "Applied"
      BY <1>9 DEF RunQuit
    <2>2. CASE OpenOn(ev.map)
      <3> DEFINE e == Entry(ev.map, [Last.stats EXCEPT !.tics = QuitTics(ev)], FALSE)
      <3>1. Last.stats \in Stats
        BY <2>2, LastType DEF OpenOn, TypeOK
      <3>2. QuitTics(ev) \in Int
        BY <1>0, <3>1 DEF QuitTics, Stats
      <3>3. [Last.stats EXCEPT !.tics = QuitTics(ev)] \in Stats
        BY <3>1, <3>2 DEF Stats
      <3>4. e \in MapStats /\ e.map = ev.map /\ ~e.completed
        BY <1>0, <3>3, EntryType
      <3>5. ReplaceLast(e)
        BY <1>9, <2>2 DEF RunQuit
      <3> HIDE DEF e
      <3>6. Rewritten(e)
        BY <2>2, <3>4, <3>5 DEF Rewritten, OpenOn, ReplaceLast
      <3> QED BY <2>1, <3>4, <3>6 DEF Shape, TypeOK
    <2>3. CASE ~OpenOn(ev.map) /\ Recorded(ev.map)
      <3>1. Kept
        BY <1>9, <2>1, <2>3 DEF RunQuit, Kept
      <3> QED BY <2>1, <3>1 DEF Shape, TypeOK
    <2>4. CASE ~OpenOn(ev.map) /\ ~Recorded(ev.map)
      <3> DEFINE e == Entry(ev.map, [ZeroStats EXCEPT !.tics = ev.stats.tics], FALSE)
      <3>1. [ZeroStats EXCEPT !.tics = ev.stats.tics] \in Stats
        BY <1>0, ZeroType DEF Stats
      <3>2. e \in MapStats /\ e.map = ev.map /\ ~e.completed
        BY <1>0, <3>1, EntryType
      <3>3. Push(e)
        BY <1>9, <2>4 DEF RunQuit
      <3> HIDE DEF e
      <3>4. Appended(e)
        BY <2>4, <3>2, <3>3 DEF Appended, Push
      <3> QED BY <2>1, <3>2, <3>4 DEF Shape, TypeOK
    <2> QED BY <2>2, <2>3, <2>4
  <1> QED
    BY <1>1, <1>2, <1>3, <1>4, <1>5, <1>6, <1>7, <1>8, <1>9 DEF ApplyEvent

-----------------------------------------------------------------------------
\* Appending and rewriting, position by position.
LEMMA AppendedList ==
    ASSUME NEW s \in Seq(MapStats), NEW e \in MapStats
    PROVE  /\ Append(s, e) \in Seq(MapStats)
           /\ DOMAIN s = 1..Len(s)
           /\ Len(Append(s, e)) = Len(s) + 1
           /\ DOMAIN Append(s, e) = 1..(Len(s) + 1)
           /\ Append(s, e)[Len(s) + 1] = e
           /\ \A i \in 1..Len(s) : Append(s, e)[i] = s[i]
  OBVIOUS

LEMMA RewrittenList ==
    ASSUME NEW s \in Seq(MapStats), NEW e \in MapStats, s # <<>>
    PROVE  /\ [s EXCEPT ![Len(s)] = e] \in Seq(MapStats)
           /\ Len([s EXCEPT ![Len(s)] = e]) = Len(s)
           /\ Len(s) \in Nat \ {0}
           /\ DOMAIN s = 1..Len(s)
           /\ DOMAIN [s EXCEPT ![Len(s)] = e] = 1..Len(s)
           /\ [s EXCEPT ![Len(s)] = e][Len(s)] = e
           /\ \A i \in 1..(Len(s) - 1) : [s EXCEPT ![Len(s)] = e][i] = s[i]
  OBVIOUS

\* While the run lasts, no two entries are of the same map.
Distinct(s) == \A i, j \in DOMAIN s : s[i].map = s[j].map => i = j

LEMMA LiveDistinct ==
    ASSUME IInv, terminal = "None"
    PROVE  Distinct(maps)
  <1> SUFFICES ASSUME NEW i \in DOMAIN maps, NEW j \in DOMAIN maps,
                      maps[i].map = maps[j].map
               PROVE  i = j
    BY DEF Distinct
  <1>1. i \in Int /\ j \in Int
    BY DEF IInv, TypeOK
  <1>2. ~(i < j) /\ ~(j < i)
    BY DEF IInv, RepeatOnlyAtDeath
  <1> QED BY <1>1, <1>2

\* The invariant is inductive: one case for each shape of a step.
LEMMA ShapeKeepsIInv ==
    ASSUME IInv, Shape
    PROVE  IInv'
  <1> USE DEF TerminalReasons
  <1>0. TypeOK /\ terminal = "None" /\ Distinct(maps)
    BY LiveDistinct DEF Shape, IInv
  <1>1. CASE Kept
    <2>1. TypeOK'
      BY <1>0, <1>1 DEF TypeOK, Shape, Kept
    <2>2. OpenEntry'
      BY <1>1 DEF IInv, OpenEntry, Kept, Last
    <2>3. RepeatOnlyAtDeath'
      BY <1>0, <1>1 DEF RepeatOnlyAtDeath, Distinct, Kept, TypeOK
    <2>4. CompletedOnce'
      BY <1>1 DEF IInv, CompletedOnce, Kept
    <2> QED BY <2>1, <2>2, <2>3, <2>4 DEF IInv
  <1>2. ASSUME NEW e \in MapStats, open' => ~e.completed /\ terminal' = "None",
               Rewritten(e)
        PROVE  IInv'
    <2>1. maps # <<>> /\ maps \in Seq(MapStats) /\ e.map = Last.map
      BY <1>0, <1>2 DEF IInv, OpenEntry, Rewritten, TypeOK
    <2>2. TypeOK'
      BY <1>0, <1>2, <2>1, RewrittenList DEF TypeOK, Shape, Rewritten
    <2>3. Distinct(maps)'
      BY <1>0, <1>2, <2>1, RewrittenList DEF Distinct, Rewritten, Last
    <2>4. RepeatOnlyAtDeath' /\ CompletedOnce'
      BY <2>2, <2>3 DEF RepeatOnlyAtDeath, CompletedOnce, Distinct, TypeOK
    <2>5. OpenEntry'
      <3>1. maps' # <<>> /\ Last' = e /\ Len(maps') = Len(maps)
        BY <1>2, <2>1, RewrittenList DEF Rewritten, Last
      <3>2. \A i \in 1..(Len(maps) - 1) : maps'[i].map = maps[i].map
        BY <1>2, <2>1, RewrittenList DEF Rewritten
      <3> QED BY <1>2, <2>1, <3>1, <3>2 DEF IInv, OpenEntry, Rewritten
    <2> QED BY <2>2, <2>4, <2>5 DEF IInv
  <1>3. ASSUME NEW e \in MapStats, open' => ~e.completed /\ terminal' = "None",
               Appended(e)
        PROVE  IInv'
    <2>1. maps \in Seq(MapStats) /\ maps' = Append(maps, e)
      BY <1>0, <1>3 DEF TypeOK, Appended
    <2>2. TypeOK'
      BY <1>0, <2>1, AppendedList DEF TypeOK, Shape
    <2>3. CASE ~Recorded(e.map)
      <3>1. Distinct(maps)'
        BY <1>0, <2>1, <2>3, AppendedList DEF Distinct, Recorded
      <3>2. RepeatOnlyAtDeath' /\ CompletedOnce'
        BY <2>2, <3>1 DEF RepeatOnlyAtDeath, CompletedOnce, Distinct, TypeOK
      <3>3. maps' # <<>> /\ Last' = e /\ Len(maps') - 1 = Len(maps)
        BY <2>1, AppendedList DEF Last
      <3>4. \A i \in 1..Len(maps) : maps'[i].map # e.map
        BY <2>1, <2>3, AppendedList DEF Recorded
      <3>5. OpenEntry'
        BY <1>3, <3>3, <3>4 DEF OpenEntry
      <3> QED BY <2>2, <3>2, <3>5 DEF IInv
    <2>4. CASE terminal' = "Death" /\ ~e.completed
      <3>1. ~open'
        BY <1>3, <2>4
      <3>2. RepeatOnlyAtDeath'
        BY <1>0, <2>1, <2>4, AppendedList DEF RepeatOnlyAtDeath, Distinct
      <3>3. CompletedOnce'
        BY <1>0, <2>1, <2>4, AppendedList DEF CompletedOnce, Distinct
      <3> QED BY <2>2, <3>1, <3>2, <3>3 DEF IInv, OpenEntry
    <2> QED BY <1>3, <2>3, <2>4 DEF Appended
  <1> QED BY <1>1, <1>2, <1>3 DEF Shape

\* A dropped event changes nothing an invariant speaks of but the outcome.
LEMMA DropKeepsIInv ==
    ASSUME IInv, UNCHANGED state, outcome' \in Outcomes
    PROVE  IInv'
  BY DEF IInv, TypeOK, OpenEntry, RepeatOnlyAtDeath, CompletedOnce, state, Last

LEMMA InitIInv == Init => IInv
  <1> SUFFICES ASSUME Init PROVE IInv
    OBVIOUS
  <1>1. TypeOK
    <2>1. maps \in Seq(MapStats)
      BY DEF Init
    <2>2. open \in BOOLEAN /\ run_started \in BOOLEAN
      BY Zenon DEF Init
    <2>3. terminal \in TerminalReasons \cup {"None"} /\ outcome \in Outcomes
      BY DEF Init, Outcomes
    <2> QED BY <2>1, <2>2, <2>3 DEF TypeOK
  <1>2. DOMAIN maps = {}
    BY DEF Init
  <1>3. OpenEntry /\ RepeatOnlyAtDeath /\ CompletedOnce
    BY <1>2 DEF Init, OpenEntry, RepeatOnlyAtDeath, CompletedOnce
  <1> QED BY <1>1, <1>3 DEF IInv

\* The inductive invariant holds of every behavior.
THEOREM Inductive == Spec => []IInv
  <1>1. ASSUME IInv, [Next]_vars PROVE IInv'
    <2>1. CASE UNCHANGED vars
      BY <1>1, <2>1, DropKeepsIInv DEF vars, state, IInv, TypeOK
    <2>2. ASSUME NEW ev \in Events, ApplyEvent(ev) PROVE IInv'
      BY <1>1, <2>2, StepShape, ShapeKeepsIInv, DropKeepsIInv DEF IInv
    <2> QED BY <1>1, <2>1, <2>2 DEF Next
  <1> QED BY <1>1, InitIInv, PTL DEF Spec

\* Type correctness of the state machine.
THEOREM TypeCorrect == Spec => []TypeOK
  BY Inductive, PTL DEF IInv

\* The expectation "open implies a last map" never fails, and an open entry is
\* unfinished and the only one of its map.
THEOREM OpenEntrySafe == Spec => []OpenEntry
  BY Inductive, PTL DEF IInv

\* No map earns its completion bonus twice.
THEOREM CompletedOnceSafe == Spec => []CompletedOnce
  BY Inductive, PTL DEF IInv

\* Only the entry that player_died appends can repeat a map.
THEOREM RepeatOnlyAtDeathSafe == Spec => []RepeatOnlyAtDeath
  BY Inductive, PTL DEF IInv

-----------------------------------------------------------------------------
\* A closed entry stays as it is in every step.
EntriesStand ==
    \A i \in DOMAIN maps :
        i < Len(maps) \/ ~open => i \in DOMAIN maps' /\ maps'[i] = maps[i]

LEMMA ShapeStands ==
    ASSUME IInv, Shape
    PROVE  EntriesStand
  <1>0. maps \in Seq(MapStats)
    BY DEF IInv, TypeOK
  <1>1. CASE Kept
    BY <1>1 DEF Kept, EntriesStand
  <1>2. ASSUME NEW e \in MapStats, Rewritten(e) PROVE EntriesStand
    <2>1. open /\ maps # <<>>
      BY <1>2 DEF Rewritten, IInv, OpenEntry
    <2> QED BY <1>0, <1>2, <2>1, RewrittenList DEF Rewritten, EntriesStand
  <1>3. ASSUME NEW e \in MapStats, Appended(e) PROVE EntriesStand
    BY <1>0, <1>3, AppendedList DEF Appended, EntriesStand
  <1> QED BY <1>1, <1>2, <1>3 DEF Shape

\* Late heartbeats, replayed completions and the end of the run leave every
\* closed entry alone.
THEOREM ClosedStandsSafe == Spec => ClosedStands
  <1>1. ASSUME IInv, [Next]_vars PROVE [EntriesStand]_vars
    <2>1. ASSUME NEW ev \in Events, ApplyEvent(ev) PROVE EntriesStand
      <3>1. CASE Shape
        BY <1>1, <3>1, ShapeStands
      <3>2. CASE UNCHANGED state
        BY <3>2 DEF state, EntriesStand
      <3> QED BY <1>1, <2>1, <3>1, <3>2, StepShape DEF IInv
    <2> QED BY <1>1, <2>1 DEF Next
  <1> QED BY <1>1, Inductive, PTL DEF Spec, ClosedStands, EntriesStand

-----------------------------------------------------------------------------
\* What is closed and what is in progress, as the ledger sees the list.
Closed == IF open THEN SubSeq(maps, 1, Len(maps) - 1) ELSE maps
Current == IF open THEN <<Last>> ELSE <<>>

\* The list is what is closed and then what is in progress.
LEMMA Split ==
    ASSUME IInv
    PROVE  /\ maps \in Seq(MapStats) /\ Closed \in Seq(MapStats) /\ Current \in Seq(MapStats)
           /\ maps = Closed \o Current
           /\ Len(maps) = Len(Closed) + Len(Current)
           /\ \A i \in 1..Len(Closed) : Closed[i] = maps[i]
           /\ open => Len(Current) = 1 /\ Current[1] = maps[Len(maps)] /\ Len(maps) # 0
           /\ ~open => Current = <<>> /\ Closed = maps
  <1>1. maps \in Seq(MapStats)
    BY DEF IInv, TypeOK
  <1>2. CASE open
    <2>1. maps # <<>> /\ Last \in MapStats /\ Len(maps) \in Nat \ {0}
      BY <1>1, <1>2, LastType DEF IInv, OpenEntry
    <2> QED BY <1>1, <1>2, <2>1 DEF Closed, Current, Last
  <1>3. CASE ~open
    BY <1>1, <1>3 DEF Closed, Current
  <1> QED BY <1>1, <1>2, <1>3

\* Whatever is in the list is listed in the ledger.
LEMMA ListedRecorded ==
    ASSUME IInv, NEW m
    PROVE  Ledger!Listed(m) => Recorded(m)
  <1>1. ASSUME NEW i \in DOMAIN Closed, Closed[i].map = m PROVE Recorded(m)
    <2>1. i \in 1..Len(Closed) /\ maps[i].map = m
      BY <1>1, Split
    <2>2. i \in DOMAIN maps
      BY <2>1, Split
    <2> QED BY <2>1, <2>2 DEF Recorded
  <1>2. ASSUME Current # <<>>, Current[1].map = m PROVE Recorded(m)
    BY <1>2, Split DEF Recorded
  <1> QED BY <1>1, <1>2 DEF Ledger!Listed, Closed, Current

\* The three ways the list changes, cut before its last entry.
LEMMA CutAppended ==
    ASSUME NEW s \in Seq(MapStats), NEW e \in MapStats
    PROVE  SubSeq(Append(s, e), 1, Len(Append(s, e)) - 1) = s
  <1> DEFINE t == SubSeq(Append(s, e), 1, Len(Append(s, e)) - 1)
  <1>1. /\ Len(Append(s, e)) = Len(s) + 1 /\ Len(s) \in Nat
        /\ \A i \in 1..Len(s) : Append(s, e)[i] = s[i]
    OBVIOUS
  <1>2. t \in Seq(MapStats) /\ Len(t) = Len(s)
    BY <1>1
  <1>3. \A i \in 1..Len(s) : t[i] = s[i]
    BY <1>1
  <1> HIDE DEF t
  <1>4. t = s
    BY <1>2, <1>3, SeqEqual
  <1> QED BY <1>4 DEF t

LEMMA CutRewritten ==
    ASSUME NEW s \in Seq(MapStats), NEW e \in MapStats, s # <<>>
    PROVE  LET r == [s EXCEPT ![Len(s)] = e]
               front == SubSeq(s, 1, Len(s) - 1)
           IN  /\ SubSeq(r, 1, Len(r) - 1) = front
               /\ r = Append(front, e)
               /\ front \in Seq(MapStats)
  <1> DEFINE r == [s EXCEPT ![Len(s)] = e]
             front == SubSeq(s, 1, Len(s) - 1)
  <1>1. /\ r \in Seq(MapStats) /\ Len(r) = Len(s) /\ Len(s) \in Nat \ {0}
        /\ r[Len(s)] = e
        /\ \A i \in 1..(Len(s) - 1) : r[i] = s[i]
    BY RewrittenList
  <1> HIDE DEF r
  <1>2. /\ front \in Seq(MapStats) /\ Len(front) = Len(s) - 1
        /\ \A i \in 1..(Len(s) - 1) : front[i] = s[i]
    BY <1>1
  <1>3. /\ SubSeq(r, 1, Len(r) - 1) \in Seq(MapStats) /\ Len(SubSeq(r, 1, Len(r) - 1)) = Len(s) - 1
        /\ \A i \in 1..(Len(s) - 1) : SubSeq(r, 1, Len(r) - 1)[i] = s[i]
    BY <1>1
  <1> HIDE DEF front
  <1>4. SubSeq(r, 1, Len(r) - 1) = front
    BY <1>2, <1>3, SeqEqual
  <1>5. /\ Append(front, e) \in Seq(MapStats) /\ Len(Append(front, e)) = Len(s)
        /\ \A i \in 1..Len(s) : Append(front, e)[i] = r[i]
    BY <1>1, <1>2
  <1>6. r = Append(front, e)
    BY <1>1, <1>5, SeqEqual
  <1> QED BY <1>2, <1>4, <1>6 DEF r, front

\* Each shape of a step is an action of the ledger, or none: revising or closing
\* the map in progress, beginning or completing one that was not listed, the end.
LEMMA ShapeOfLedger ==
    ASSUME IInv, Shape
    PROVE  [Ledger!Next]_(Ledger!vars)
  <1> DEFINE over == terminal # "None"
  <1>1. ~over /\ maps \in Seq(MapStats)
    BY DEF Shape, IInv, TypeOK
  <1>2. CASE Kept /\ terminal' = "None"
    BY <1>1, <1>2 DEF Kept, Last, Ledger!vars, Shape
  <1>3. CASE Kept /\ terminal' # "None"
    <2>1. Closed' = maps /\ Current' = <<>> /\ over'
      BY <1>3 DEF Kept, Closed, Current
    <2>2. \A i \in DOMAIN maps : i > Len(Closed) => ~maps[i].completed
      BY <1>1, Split DEF IInv, OpenEntry, Last
    <2>3. \A i \in DOMAIN Closed : maps[i] = Closed[i]
      BY <1>1, Split
    <2>4. /\ Len(maps) \in (Len(Closed) + Len(Current))..(Len(Closed) + Len(Current) + 1)
          /\ Current # <<>> => maps[Len(Closed) + 1].map = Current[1].map
      BY <1>1, Split
    <2> QED BY <1>1, <2>1, <2>2, <2>3, <2>4 DEF Ledger!Next, Ledger!End, Closed, Current
  <1>4. ASSUME NEW e \in MapStats, Rewritten(e), open' => terminal' = "None",
               e.completed <=> (~open' /\ terminal' = "None")
        PROVE  Ledger!Next
    <2>1. /\ open /\ e.map = Last.map /\ maps # <<>>
          /\ maps' = [maps EXCEPT ![Len(maps)] = e]
      BY <1>4 DEF Rewritten, IInv, OpenEntry
    <2>2. /\ SubSeq(maps', 1, Len(maps') - 1) = Closed
          /\ maps' = Append(Closed, e)
          /\ Closed \in Seq(MapStats)
      BY <1>1, <2>1, CutRewritten DEF Closed
    <2>3. Current = <<Last>>
      BY <2>1 DEF Current
    <2>4. /\ Len(maps') = Len(Closed) + 1 /\ maps'[Len(Closed) + 1] = e
          /\ maps' \in Seq(MapStats)
          /\ \A i \in DOMAIN Closed : maps'[i] = Closed[i]
      BY <1>4, <2>2
    <2>5. CASE open'
      <3>1. Closed' = Closed /\ Current' = <<e>> /\ ~over' /\ ~e.completed
        BY <1>4, <2>2, <2>4, <2>5 DEF Closed, Current, Last
      <3> QED BY <1>1, <2>1, <2>3, <3>1
              DEF Ledger!Next, Ledger!Revise, Ledger!InProgress, Closed, Current
    <2>6. CASE ~open' /\ terminal' = "None"
      <3>1. Closed' = Append(Closed, e) /\ Current' = <<>> /\ ~over' /\ e.completed
        BY <1>4, <2>2, <2>6 DEF Closed, Current
      <3> QED BY <1>1, <2>1, <2>2, <2>3, <2>4, <3>1
              DEF Ledger!Next, Ledger!Complete, Closed, Current
    <2>7. CASE terminal' # "None"
      <3>1. Closed' = maps' /\ Current' = <<>> /\ over' /\ ~e.completed
        BY <1>4, <2>7 DEF Closed, Current
      <3>2. \A i \in DOMAIN maps' : i > Len(Closed) => ~maps'[i].completed
        BY <2>2, <2>4, <3>1
      <3>3. /\ Len(maps') \in (Len(Closed) + Len(Current))..(Len(Closed) + Len(Current) + 1)
            /\ maps'[Len(Closed) + 1].map = Current[1].map
        BY <2>1, <2>2, <2>3, <2>4
      <3> QED BY <1>1, <2>4, <3>1, <3>2, <3>3 DEF Ledger!Next, Ledger!End, Closed, Current
    <2> QED BY <2>5, <2>6, <2>7
  <1>5. ASSUME NEW e \in MapStats, Appended(e), open' => terminal' = "None",
               e.completed <=> (~open' /\ terminal' = "None")
        PROVE  Ledger!Next
    <2>1. /\ maps' = Append(maps, e)
          /\ terminal' = "None" => ~Recorded(e.map)
          /\ e.completed => ~open
      BY <1>5 DEF Appended
    <2>2. /\ SubSeq(maps', 1, Len(maps') - 1) = maps
          /\ maps' \in Seq(MapStats) /\ Len(maps') = Len(maps) + 1
          /\ maps'[Len(maps) + 1] = e
          /\ \A i \in 1..Len(maps) : maps'[i] = maps[i]
      BY <1>1, <2>1, CutAppended, AppendedList
    <2>3. terminal' = "None" => ~Ledger!Listed(e.map)
      BY <2>1, ListedRecorded
    <2>4. CASE open'
      <3>1. Closed' = maps /\ Current' = <<e>> /\ ~over' /\ ~e.completed
        BY <1>5, <2>2, <2>4 DEF Closed, Current, Last
      <3>2. Closed' = Closed \o Current
        BY <3>1, Split
      <3> QED BY <1>1, <1>5, <2>3, <2>4, <3>1, <3>2
              DEF Ledger!Next, Ledger!Begin, Ledger!InProgress, Closed, Current
    <2>5. CASE ~open' /\ terminal' = "None"
      <3>1. Closed' = Append(Closed, e) /\ Current = <<>> /\ Current' = <<>> /\ ~over' /\ e.completed
        BY <1>5, <2>1, <2>5, Split DEF Closed, Current
      <3>2. Len(Closed') = Len(Closed) + 1 /\ Closed'[Len(Closed')] = e
        BY <2>2, <3>1, Split
      <3> QED BY <1>1, <2>3, <2>5, <3>1, <3>2
              DEF Ledger!Next, Ledger!Complete, Closed, Current
    <2>6. CASE terminal' # "None"
      <3>1. Closed' = maps' /\ Current' = <<>> /\ over' /\ ~e.completed
        BY <1>5, <2>6 DEF Closed, Current
      <3>2. \A i \in DOMAIN maps' : i > Len(Closed) => ~maps'[i].completed
        <4>1. \A i \in 1..Len(maps) : i > Len(Closed) => ~maps[i].completed
          <5> SUFFICES ASSUME NEW i \in 1..Len(maps), i > Len(Closed) PROVE ~maps[i].completed
            OBVIOUS
          <5>1. open /\ i = Len(maps)
            BY Split
          <5> QED BY <5>1 DEF IInv, OpenEntry, Last
        <4> QED BY <1>1, <2>2, <3>1, <4>1
      <3>3. \A i \in DOMAIN Closed : maps'[i] = Closed[i]
        <4>1. DOMAIN Closed = 1..Len(Closed) /\ Len(Closed) \in Nat /\ Len(Current) \in Nat
          BY Split
        <4>2. \A i \in 1..Len(Closed) : i \in 1..Len(maps) /\ maps[i] = Closed[i]
          BY <4>1, Split
        <4> QED BY <2>2, <4>1, <4>2
      <3>4. /\ Len(maps') \in (Len(Closed) + Len(Current))..(Len(Closed) + Len(Current) + 1)
            /\ Current # <<>> => maps'[Len(Closed) + 1].map = Current[1].map
        BY <1>1, <2>2, Split
      <3> QED BY <1>1, <3>1, <3>2, <3>3, <3>4 DEF Ledger!Next, Ledger!End, Closed, Current
    <2> QED BY <2>4, <2>5, <2>6
  <1> QED BY <1>2, <1>3, <1>4, <1>5 DEF Shape

\* LedgerSpec, for every value of the constants: the state machine implements the
\* ledger, whatever the telemetry does.
THEOREM ImplementsLedger == Spec => LedgerSpec
  <1>1. Init => Ledger!Init
    BY DEF Init, Ledger!Init
  <1>2. ASSUME IInv, [Next]_vars PROVE [Ledger!Next]_(Ledger!vars)
    <2>1. ASSUME UNCHANGED state PROVE UNCHANGED Ledger!vars
      BY <2>1 DEF state, Last, Ledger!vars
    <2>2. ASSUME NEW ev \in Events, ApplyEvent(ev) PROVE [Ledger!Next]_(Ledger!vars)
      BY <1>2, <2>1, <2>2, StepShape, ShapeOfLedger DEF IInv
    <2>3. UNCHANGED vars => UNCHANGED state
      BY DEF vars, state
    <2> QED BY <1>2, <2>1, <2>2, <2>3 DEF Next
  <1> QED BY <1>1, <1>2, Inductive, PTL DEF Spec, LedgerSpec, Ledger!Spec
=============================================================================
