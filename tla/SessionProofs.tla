--------------------------- MODULE SessionProofs ---------------------------
(***************************************************************************)
(* Proofs about the timers of a session: for any windows, lingers and      *)
(* graces, any reports of a player, and lines in any order, the guards     *)
(* stay off once a run is over, a SIGKILL comes within a fixed time, a     *)
(* decided run is left its linger, and no guard ends the run of an active  *)
(* player.  That a session does end (ShutsDown, NobodyPlays) is left to    *)
(* the model checker.                                                      *)
(***************************************************************************)
EXTENDS Session, TLAPS

Anchors == [px : Int, py : Int, counters : Int, age : Nat]
LongestLinger == Max({Linger[kind] : kind \in Terminals})

\* No type is needed of the guards' deadlines: what matters is how much of a window
\* has passed (Waited).
Types ==
    /\ cfg \in {FromLookup(env) : env \in Environments}
    /\ kill_at \in Nat \cup {Off}
    /\ term_at \in Int /\ idle_at \in Int /\ stall_at \in Int
    /\ watchdog_at \in 0..WATCHDOG
    /\ inactive \in Nat /\ ended \in Nat
    /\ decided \in BOOLEAN /\ abandoning \in BOOLEAN /\ killed \in BOOLEAN
    /\ idle = <<>> \/ \E anchor \in Anchors : idle = <<anchor>>
    /\ last = <<>> \/ \E report \in Reports : last = <<report>>

\* From the end of a run to its SIGKILL.  Once it is decided the watchdog, fed by the
\* line that decided it, cannot come first.  An abandoned one has had a guard, and
\* then maybe the watchdog, which cannot come a second time.
KillComes ==
    /\ ~Over => ended = 0
    /\ Over /\ ~killed =>
        /\ kill_at \in Nat
        /\ \/ /\ decided
              /\ watchdog_at > kill_at
              /\ ended + kill_at <= KillBound
           \/ /\ ~decided
              /\ kill_at <= GRACE
              /\ \/ ended + kill_at <= GRACE
                 \/ ended + kill_at <= 2 * GRACE /\ watchdog_at > kill_at

\* A time that a clock has waited, as far as the shortest window goes.
Waited(time) == inactive >= time \/ inactive >= ShortestGuard

\* The player has been inactive for as long as each timer has run.  Before the run is
\* over the tracker's anchor is near the last report.
TimersWaited ==
    /\ Waited(WATCHDOG - watchdog_at)
    /\ idle_at # Off => Waited(cfg.idle_timeout - idle_at)
    /\ stall_at # Off => Waited(cfg.stall_timeout - stall_at)
    /\ ~Over => /\ last = <<>> <=> idle = <<>>
                /\ idle # <<>> => ~Differs(idle[1], last[1]) /\ Waited(idle[1].age)

IInv == Types /\ GuardsDisarmed /\ KillComes /\ TimersWaited

-----------------------------------------------------------------------------
\* The constants and what is derived of them.
LEMMA Windows ==
    ASSUME Types
    PROVE  /\ cfg.idle_timeout \in Nat \ {0} /\ cfg.stall_timeout \in Nat \ {0}
           /\ WATCHDOG \in Nat \ {0} /\ GRACE \in Nat \ {0}
           /\ ShortestGuard \in Nat \ {0}
           /\ ShortestGuard <= cfg.idle_timeout
           /\ ShortestGuard <= cfg.stall_timeout
           /\ ShortestGuard <= WATCHDOG
  <1>1. PICK env \in Environments : cfg = FromLookup(env)
    BY DEF Types
  <1>2. /\ cfg.idle_timeout = ParseSecs(Get(env.idle), DEFAULT_IDLE)
        /\ cfg.stall_timeout = ParseSecs(Get(env.stall), DEFAULT_STALL)
    BY <1>1 DEF FromLookup
  <1>3. ASSUME NEW raw \in {env.idle, env.stall}, NEW default \in Nat \ {0}
        PROVE  ParseSecs(Get(raw), default) \in Nat \ {0}
    BY SessionAssumption DEF ParseSecs, Get, Unset
  <1>4. cfg.idle_timeout \in Nat \ {0} /\ cfg.stall_timeout \in Nat \ {0}
    BY <1>2, <1>3, ConfigAssumption
  <1>5. WATCHDOG \in Nat \ {0} /\ GRACE \in Nat \ {0}
    BY SessionAssumption
  <1>6. ASSUME NEW a \in Nat \ {0}, NEW b \in Nat \ {0}, NEW c \in Nat \ {0}
        PROVE  Min({a, b, c}) \in {a, b, c} /\ Min({a, b, c}) <= a
               /\ Min({a, b, c}) <= b /\ Min({a, b, c}) <= c
    <2>1. \E x \in {a, b, c} : \A y \in {a, b, c} : x <= y
      <3>1. CASE a <= b /\ a <= c
        <4> WITNESS a \in {a, b, c}
        <4> QED BY <3>1
      <3>2. CASE b <= a /\ b <= c
        <4> WITNESS b \in {a, b, c}
        <4> QED BY <3>2
      <3>3. CASE c <= a /\ c <= b
        <4> WITNESS c \in {a, b, c}
        <4> QED BY <3>3
      <3>4. \/ a <= b /\ a <= c
            \/ b <= a /\ b <= c
            \/ c <= a /\ c <= b
        OBVIOUS
      <3> QED BY <3>1, <3>2, <3>3, <3>4
    <2> QED BY <2>1 DEF Min
  <1> QED BY <1>4, <1>5, <1>6 DEF ShortestGuard

LEMMA GreatestOfThree ==
  ASSUME NEW a \in Nat, NEW b \in Nat, NEW c \in Nat
  PROVE  \E x \in {a, b, c} : \A y \in {a, b, c} : x >= y
  <1>1. CASE a >= b /\ a >= c
    <2> WITNESS a \in {a, b, c}
    <2> QED BY <1>1
  <1>2. CASE b >= a /\ b >= c
    <2> WITNESS b \in {a, b, c}
    <2> QED BY <1>2
  <1>3. CASE c >= a /\ c >= b
    <2> WITNESS c \in {a, b, c}
    <2> QED BY <1>3
  <1>4. \/ a >= b /\ a >= c
        \/ b >= a /\ b >= c
        \/ c >= a /\ c >= b
    OBVIOUS
  <1> QED BY <1>1, <1>2, <1>3, <1>4

LEMMA Lingers ==
    /\ \A kind \in Terminals :
          /\ Linger[kind] \in Nat /\ Linger[kind] <= LongestLinger
          /\ Linger[kind] + GRACE < WATCHDOG
    /\ LongestLinger \in Nat
    /\ KillBound = 3 * GRACE + LongestLinger
  <1> DEFINE L == {Linger[kind] : kind \in Terminals}
  <1>1. \A kind \in Terminals : Linger[kind] \in Nat /\ Linger[kind] + GRACE < WATCHDOG
    BY SessionAssumption
  <1>2. L = {Linger["PlayerDied"], Linger["RunComplete"], Linger["RunQuit"]}
    BY DEF Terminals
  <1>3. /\ Linger["PlayerDied"] \in Nat /\ Linger["RunComplete"] \in Nat
        /\ Linger["RunQuit"] \in Nat
    BY <1>1 DEF Terminals
  <1>4. \E x \in L : \A y \in L : x >= y
    <2>1. \E x \in {Linger["PlayerDied"], Linger["RunComplete"], Linger["RunQuit"]} :
              \A y \in {Linger["PlayerDied"], Linger["RunComplete"], Linger["RunQuit"]} : x >= y
      BY <1>3, GreatestOfThree
    <2> QED BY <1>2, <2>1
  <1>5. Max(L) \in L /\ \A y \in L : Max(L) >= y
    BY <1>4 DEF Max
  <1> QED BY <1>1, <1>5 DEF LongestLinger, KillBound

LEMMA Start == Init => IInv
  <1> SUFFICES ASSUME Init PROVE IInv
    OBVIOUS
  <1> USE DEF Init, Off, Over
  <1>1. PICK env \in Environments : cfg = FromLookup(env)
    OBVIOUS
  <1>2. cfg.idle_timeout \in Nat \ {0} /\ cfg.stall_timeout \in Nat \ {0}
    <2>1. ASSUME NEW raw \in {env.idle, env.stall}, NEW default \in Nat \ {0}
          PROVE  ParseSecs(Get(raw), default) \in Nat \ {0}
      BY SessionAssumption DEF ParseSecs, Get, Unset
    <2> QED BY <1>1, <2>1, ConfigAssumption DEF FromLookup
  <1>3. WATCHDOG \in Nat
    BY SessionAssumption
  <1>4. Types
    <2>1. cfg \in {FromLookup(other) : other \in Environments}
      OBVIOUS
    <2>2. stall_at \in Int /\ watchdog_at \in 0..WATCHDOG
      BY <1>2, <1>3 DEF stall_timeout
    <2>3. kill_at \in Nat \cup {Off} /\ term_at \in Int /\ idle_at \in Int
      OBVIOUS
    <2>4. inactive \in Nat /\ ended \in Nat
      OBVIOUS
    <2>5. decided \in BOOLEAN /\ abandoning \in BOOLEAN /\ killed \in BOOLEAN
      OBVIOUS
    <2>6. idle = <<>> /\ last = <<>>
      OBVIOUS
    <2> QED BY <2>1, <2>2, <2>3, <2>4, <2>5, <2>6, Zenon DEF Types
  <1>5. GuardsDisarmed /\ KillComes
    BY DEF GuardsDisarmed, KillComes
  <1>6. TimersWaited
    BY <1>2, <1>3 DEF TimersWaited, Waited, stall_timeout
  <1> QED BY <1>4, <1>5, <1>6 DEF IInv

-----------------------------------------------------------------------------
\* A report that shows no activity for sure leaves an anchor that is as old as the
\* player is inactive; any report leaves an anchor near it.
LEMMA Anchoring ==
    ASSUME IInv, ~Over, NEW report \in Reports, NEW active \in Nat,
           active = (IF Lively(report) THEN 0 ELSE inactive)
    PROVE  LET anchored == Anchored(idle, report)
           IN  /\ \E anchor \in Anchors : anchored = <<anchor>>
               /\ ~Differs(anchored[1], report)
               /\ active >= anchored[1].age \/ active >= ShortestGuard
               /\ Static(idle, report) => idle # <<>> /\ anchored = idle
  <1> DEFINE fresh == [px |-> report.px, py |-> report.py,
                       counters |-> report.counters, age |-> 0]
  <1>1. report.px \in Int /\ report.py \in Int /\ report.counters \in Int
    BY SessionAssumption
  <1>2. fresh \in Anchors /\ fresh.age = 0 /\ ~Differs(fresh, report)
    BY <1>1 DEF Anchors, Differs, Gap, MOVE_EPSILON_UNITS
  <1>3. CASE ~Static(idle, report)
    <2>1. Anchored(idle, report) = <<fresh>>
      BY <1>3 DEF Anchored
    <2> QED BY <1>2, <1>3, <2>1
  <1>4. CASE Static(idle, report)
    <2>1. idle # <<>> /\ Anchored(idle, report) = idle /\ ~Differs(idle[1], report)
      BY <1>4 DEF Static, Anchored
    <2>2. PICK anchor \in Anchors : idle = <<anchor>>
      BY <2>1 DEF IInv, Types
    <2>3. last # <<>> /\ ~Differs(idle[1], last[1]) /\ Waited(idle[1].age)
      BY <2>1 DEF IInv, TimersWaited
    <2>4. PICK before \in Reports : last = <<before>>
      BY <2>3 DEF IInv, Types
    <2>5. before.px \in Int /\ before.py \in Int /\ before.counters \in Int
      BY SessionAssumption
    <2>6. idle[1] = anchor /\ last[1] = before
      BY <2>2, <2>4
    <2>7. ~Differs(anchor, report) /\ ~Differs(anchor, before)
      BY <2>1, <2>3, <2>6
    <2>8. ~Lively(report)
      <3>1. anchor.px \in Int /\ anchor.py \in Int
        BY DEF Anchors
      <3>2. report.counters = before.counters
        BY <2>7 DEF Differs
      <3>3. /\ Gap(report.px, anchor.px) < 2 /\ Gap(report.py, anchor.py) < 2
            /\ Gap(before.px, anchor.px) < 2 /\ Gap(before.py, anchor.py) < 2
        BY <1>1, <2>5, <2>7, <3>1 DEF Differs, Gap, MOVE_EPSILON_UNITS
      <3>4. ASSUME NEW a \in Int, NEW b \in Int, NEW c \in Int, Gap(a, c) < 2, Gap(b, c) < 2
            PROVE  ~(Gap(a, b) >= 3)
        BY <3>4 DEF Gap
      <3>5. ~(Gap(report.px, before.px) >= 3) /\ ~(Gap(report.py, before.py) >= 3)
        BY <1>1, <2>5, <3>1, <3>3, <3>4
      <3> QED BY <2>3, <2>6, <3>2, <3>5 DEF Lively, MOVE_EPSILON_UNITS
    <2>9. active >= idle[1].age \/ active >= ShortestGuard
      BY <2>3, <2>8 DEF Waited
    <2> QED BY <1>4, <2>1, <2>2, <2>9
  <1> QED BY <1>3, <1>4

\* A line that leaves the machine where it is: one the gate stops, another event, or any
\* event of a decided run.
LEMMA PassesBy ==
    ASSUME IInv,
           watchdog_at' = WATCHDOG, stall_at' \in {stall_at, Rearmed},
           UNCHANGED <<term_at, kill_at, idle_at, idle, decided, inactive>>,
           last' = last \/ (decided /\ last' = <<>>),
           UNCHANGED <<cfg, abandoning, killed, ended>>
    PROVE  IInv'
  <1>1. Types /\ GuardsDisarmed /\ KillComes /\ TimersWaited
    BY DEF IInv
  <1> USE Windows, Lingers, <1>1 DEF Off, Over
  <1>2. stall_at' \in {stall_at, Off, cfg.stall_timeout}
    BY DEF Rearmed, stall_timeout
  <1>3. Types'
    BY <1>2 DEF Types
  <1>4. GuardsDisarmed'
    BY DEF GuardsDisarmed, Rearmed
  <1>5. KillComes'
    BY DEF KillComes, Types
  <1>6. ShortestGuard' = ShortestGuard
    BY DEF ShortestGuard
  <1>7. TimersWaited'
    <2>1. Waited(WATCHDOG - watchdog_at)'
      BY <1>6 DEF Waited, Types
    <2>2. (idle_at # Off => Waited(cfg.idle_timeout - idle_at))'
      BY <1>6 DEF Waited, TimersWaited
    <2>3. (stall_at # Off => Waited(cfg.stall_timeout - stall_at))'
      <3>1. CASE stall_at' = stall_at
        BY <1>6, <3>1 DEF Waited, TimersWaited
      <3>2. CASE stall_at' = Off
        BY <3>2
      <3>3. CASE stall_at' = cfg.stall_timeout
        <4>1. cfg' = cfg /\ inactive' = inactive
          OBVIOUS
        <4>2. cfg.stall_timeout - cfg.stall_timeout = 0 /\ inactive >= 0
          BY DEF Types
        <4> QED BY <1>6, <3>3, <4>1, <4>2 DEF Waited
      <3> QED BY <1>2, <3>1, <3>2, <3>3
    <2>4. (~Over => /\ last = <<>> <=> idle = <<>>
                    /\ idle # <<>> => ~Differs(idle[1], last[1]) /\ Waited(idle[1].age))'
      BY <1>6 DEF Waited, TimersWaited
    <2> QED BY <2>1, <2>2, <2>3, <2>4 DEF TimersWaited
  <1> QED BY <1>3, <1>4, <1>5, <1>7 DEF IInv

\* A heartbeat of a run that is not decided.
LEMMA Beats ==
    ASSUME IInv, NEW report \in Reports, ~decided,
           ObserveProgress(report),
           watchdog_at' = WATCHDOG, stall_at' = Rearmed,
           UNCHANGED <<term_at, kill_at, decided>>,
           IF ~Over
           THEN last' = <<report>> /\ inactive' = IF Lively(report) THEN 0 ELSE inactive
           ELSE last' = last /\ UNCHANGED inactive,
           UNCHANGED <<cfg, abandoning, killed, ended>>
    PROVE  IInv'
  <1>1. CASE abandoning
    BY <1>1, PassesBy DEF ObserveProgress, Over
  <1>2. CASE ~abandoning
    <2>1. Types /\ GuardsDisarmed /\ KillComes /\ TimersWaited
      BY DEF IInv
    <2> USE Windows, <1>2, <2>1 DEF Off
    <2>2. ~Over /\ ~Over'
      BY DEF Over
    <2>3. /\ last' = <<report>>
          /\ inactive' = IF Lively(report) THEN 0 ELSE inactive
          /\ idle' = Anchored(idle, report)
          /\ idle_at' = IF ObservedIdle(idle, report, cfg.idle_timeout)
                        THEN 0 ELSE Deadline(idle', cfg.idle_timeout)
      BY <2>2 DEF ObserveProgress
    <2>4. inactive' \in Nat
      BY <2>3 DEF Types
    <2>5. /\ \E anchor \in Anchors : idle' = <<anchor>>
          /\ ~Differs(idle'[1], report)
          /\ inactive' >= idle'[1].age \/ inactive' >= ShortestGuard
          /\ Static(idle, report) => idle # <<>> /\ idle' = idle
      BY <2>2, <2>3, <2>4, Anchoring
    <2>6. PICK anchor \in Anchors : idle' = <<anchor>>
      BY <2>5
    <2>7. idle'[1] = anchor /\ anchor.age \in Nat
      BY <2>6 DEF Anchors
    <2>8. \/ idle_at' = 0 /\ anchor.age >= cfg.idle_timeout
          \/ idle_at' = cfg.idle_timeout - anchor.age
      BY <2>3, <2>5, <2>7 DEF ObservedIdle, Deadline
    <2>9. stall_at' = Off \/ stall_at' = cfg.stall_timeout
      BY DEF Rearmed, stall_timeout
    <2>10. ShortestGuard' = ShortestGuard
      BY DEF ShortestGuard
    <2>11. Types'
      <3>1. idle_at' \in Int /\ stall_at' \in Int /\ watchdog_at' \in 0..WATCHDOG
        BY <2>7, <2>8, <2>9
      <3>2. /\ idle' = <<>> \/ \E a \in Anchors : idle' = <<a>>
            /\ last' = <<>> \/ \E r \in Reports : last' = <<r>>
        BY <2>3, <2>6
      <3>3. /\ cfg' \in {FromLookup(env) : env \in Environments}
            /\ kill_at' \in Nat \cup {Off} /\ term_at' \in Int
            /\ ended' \in Nat
            /\ decided' \in BOOLEAN /\ abandoning' \in BOOLEAN /\ killed' \in BOOLEAN
        BY DEF Types
      <3> QED BY <2>4, <3>1, <3>2, <3>3 DEF Types
    <2>12. GuardsDisarmed' /\ KillComes'
      BY <2>2 DEF GuardsDisarmed, KillComes
    <2>13. TimersWaited'
      <3>1. Waited(WATCHDOG - watchdog_at)'
        BY <2>4, <2>10 DEF Waited
      <3>2. (idle_at # Off => Waited(cfg.idle_timeout - idle_at))'
        BY <2>4, <2>5, <2>7, <2>8, <2>10 DEF Waited
      <3>3. (stall_at # Off => Waited(cfg.stall_timeout - stall_at))'
        BY <2>4, <2>9, <2>10 DEF Waited
      <3>4. (last = <<>> <=> idle = <<>>)'
        BY <2>3, <2>6
      <3>5. (~Differs(idle[1], last[1]) /\ Waited(idle[1].age))'
        BY <2>3, <2>5, <2>10 DEF Waited, Differs
      <3> QED BY <3>1, <3>2, <3>3, <3>4, <3>5 DEF TimersWaited
    <2> QED BY <2>11, <2>12, <2>13 DEF IInv
  <1> QED BY <1>1, <1>2 DEF IInv, Types

\* The line that decides a run disarms the guards and leaves it its linger; at worst
\* it comes when the watchdog's grace is about to end.
LEMMA Decides ==
    ASSUME IInv, NEW kind \in Terminals, ~decided, decided' = TRUE,
           ArmExit(Linger[kind]),
           watchdog_at' = WATCHDOG, last' = <<>>,
           UNCHANGED <<idle, inactive, cfg, abandoning, killed, ended>>
    PROVE  IInv'
  <1>1. Types /\ GuardsDisarmed /\ KillComes /\ TimersWaited
    BY DEF IInv
  <1> USE Windows, Lingers, <1>1 DEF Off, Over, ArmExit
  <1>2. Linger[kind] \in Nat /\ Linger[kind] <= LongestLinger /\ LongestLinger \in Nat
    OBVIOUS
  <1>3. Types'
    <2>1. /\ kill_at' \in Nat /\ term_at' \in Int
          /\ idle_at' \in Int /\ stall_at' \in Int
          /\ watchdog_at' \in 0 .. WATCHDOG
      BY <1>2
    <2>2. last' = <<>>
      OBVIOUS
    <2>3. /\ cfg' = cfg /\ idle' = idle /\ inactive' = inactive /\ ended' = ended
          /\ abandoning' = abandoning /\ killed' = killed /\ decided' \in BOOLEAN
      OBVIOUS
    <2>4. /\ cfg \in {FromLookup(env) : env \in Environments}
          /\ inactive \in Nat /\ ended \in Nat
          /\ abandoning \in BOOLEAN /\ killed \in BOOLEAN
          /\ idle = <<>> \/ \E anchor \in Anchors : idle = <<anchor>>
      BY DEF Types
    <2> QED BY <2>1, <2>2, <2>3, <2>4 DEF Types
  <1>4. GuardsDisarmed'
    BY DEF GuardsDisarmed
  <1>5. killed \/ ended <= 2 * GRACE
    <2>1. CASE ~Over
      BY <2>1 DEF KillComes
    <2>2. CASE Over /\ ~killed
      <3>1. /\ kill_at \in Nat /\ ended \in Nat
            /\ ended + kill_at <= GRACE \/ ended + kill_at <= 2 * GRACE
        BY <2>2 DEF KillComes, Types
      <3> QED BY <3>1
    <2> QED BY <2>1, <2>2
  <1>6. KillComes'
    <2>1. KillBound' = KillBound
      BY DEF KillBound
    <2>2. Linger[kind] + GRACE < WATCHDOG /\ KillBound = 3 * GRACE + LongestLinger
      OBVIOUS
    <2>3. kill_at' = Linger[kind] + GRACE /\ watchdog_at' = WATCHDOG
      OBVIOUS
    <2>4. ASSUME NEW grace \in Nat, NEW time \in Nat,
                 NEW linger \in Nat, NEW longest \in Nat,
                 time <= 2 * grace, linger <= longest
          PROVE  time + (linger + grace) <= 3 * grace + longest
      BY <2>4, SMT
    <2>5. ended \in Nat /\ GRACE \in Nat
      BY DEF Types
    <2>6. killed \/ ended + (Linger[kind] + GRACE) <= 3 * GRACE + LongestLinger
      BY <1>2, <1>5, <2>4, <2>5, Zenon
    <2>7. killed \/ ended + kill_at' <= KillBound
      BY <2>2, <2>3, <2>6
    <2>8. kill_at' \in Nat /\ watchdog_at' > kill_at'
      BY <1>2, <2>2, <2>3
    <2>9. decided' = TRUE /\ killed' = killed /\ ended' = ended
      OBVIOUS
    <2> QED BY <2>1, <2>7, <2>8, <2>9 DEF KillComes
  <1>7. TimersWaited'
    BY DEF TimersWaited, Waited, Types, ShortestGuard
  <1> QED BY <1>3, <1>4, <1>6, <1>7 DEF IInv

\* Any line, in the loop or in the drain.
LEMMA AnyLine ==
    ASSUME IInv, NEW source \in Sources, NEW line \in Lines, OnLine(source, line),
           UNCHANGED <<cfg, abandoning, killed, ended>>
    PROVE  IInv'
  <1>1. Types /\ GuardsDisarmed /\ KillComes /\ TimersWaited
    BY DEF IInv
  <1>2. CASE line.type = "Chatter" \/ (source = "stdout" /\ fifo_latched)
    BY <1>2, PassesBy DEF OnLine
  <1>3. CASE ~(line.type = "Chatter" \/ (source = "stdout" /\ fifo_latched))
    <2>1. /\ watchdog_at' = WATCHDOG
          /\ Apply(line)
          /\ Remember(line)
      BY <1>3 DEF OnLine
    <2>2. CASE line.type \in Terminals /\ ~decided /\ decided' = TRUE
               /\ ArmExit(Linger[line.type]) /\ UNCHANGED idle
      <3>1. line.type # "Progress"
        BY <2>2 DEF Terminals
      <3>2. last' = <<>> /\ UNCHANGED inactive
        BY <2>1, <2>2, <3>1 DEF Remember
      <3> QED BY <2>1, <2>2, <3>2, Decides
    <2>3. CASE line.type = "Progress" /\ ~decided /\ ObserveProgress(line.report)
               /\ stall_at' = Rearmed /\ UNCHANGED <<term_at, kill_at, decided>>
      <3>1. line.report \in Reports
        BY <2>3 DEF Lines, Terminals
      <3>2. IF ~Over
            THEN /\ last' = <<line.report>>
                 /\ inactive' = IF Lively(line.report) THEN 0 ELSE inactive
            ELSE last' = last /\ UNCHANGED inactive
        BY <2>1, <2>3 DEF Remember
      <3> QED BY <2>1, <2>3, <3>1, <3>2, Beats
    <2>4. CASE (line.type = "Other" \/ decided) /\ stall_at' = Rearmed
               /\ UNCHANGED <<term_at, kill_at, idle_at, idle, decided>>
      <3>1. last' = (IF decided THEN <<>> ELSE last) /\ UNCHANGED inactive
        BY <2>1, <2>4 DEF Remember, Over
      <3> QED BY <2>1, <2>4, <3>1, PassesBy
    <2> QED BY <2>1, <2>2, <2>3, <2>4 DEF Apply
  <1> QED BY <1>2, <1>3

-----------------------------------------------------------------------------
\* A guard fires only on a run that goes on: it is off in every other.
LEMMA GuardFires == IInv /\ GuardDue => IInv'
  <1> SUFFICES ASSUME IInv, GuardDue PROVE IInv'
    OBVIOUS
  <1>1. Types /\ GuardsDisarmed /\ KillComes /\ TimersWaited
    BY DEF IInv
  <1> USE Windows, Lingers, <1>1 DEF GuardDue, AbandonNow, Off, Over, Due
  <1>2. ~Over
    BY DEF GuardsDisarmed
  <1>3. Types'
    BY DEF Types
  <1>4. GuardsDisarmed'
    BY DEF GuardsDisarmed
  <1>5. KillComes'
    BY <1>2 DEF KillComes, Types
  <1>6. TimersWaited'
    BY DEF TimersWaited, Waited, ShortestGuard
  <1> QED BY <1>3, <1>4, <1>5, <1>6 DEF IInv

\* The watchdog may fire once while an engine is being shut down, and only when a
\* guard abandoned the run.
LEMMA WatchdogFires == IInv /\ WatchdogDue => IInv' /\ (decided => killed)
  <1> SUFFICES ASSUME IInv, WatchdogDue PROVE IInv' /\ (decided => killed)
    OBVIOUS
  <1>1. Types /\ GuardsDisarmed /\ KillComes /\ TimersWaited
    BY DEF IInv
  <1> USE Windows, Lingers, <1>1 DEF WatchdogDue, AbandonNow, Off, Over, Due
  <1>2. decided => killed
    BY DEF KillComes
  <1>3. Types'
    BY DEF Types
  <1>4. GuardsDisarmed'
    BY DEF GuardsDisarmed
  <1>5. killed \/ ended <= GRACE
    BY <1>2 DEF KillComes, Types
  <1>6. GRACE < WATCHDOG
    BY DEF Terminals
  <1>7. KillComes'
    BY <1>2, <1>5, <1>6 DEF KillComes, Types
  <1>8. TimersWaited'
    BY DEF TimersWaited, Waited, ShortestGuard, Types
  <1> QED BY <1>2, <1>3, <1>4, <1>7, <1>8 DEF IInv

LEMMA TimePasses == IInv /\ Tick => IInv'
  <1> SUFFICES ASSUME IInv, Tick PROVE IInv'
    OBVIOUS
  <1>1. Types /\ GuardsDisarmed /\ KillComes /\ TimersWaited
    BY DEF IInv
  <1> USE Windows, Lingers, <1>1 DEF Off, Over, Due
  <1>2. /\ UNCHANGED <<cfg, abandoning, decided, killed, last>>
        /\ idle' = Aged(idle, cfg.idle_timeout)
        /\ inactive' = UpTo(ShortestGuard, inactive)
        /\ ended' = IF Over /\ ~killed THEN UpTo(KillBound + 1, ended) ELSE ended
    BY DEF Tick, pump, signals
  <1>3. /\ term_at' = Left(term_at) /\ kill_at' = Left(kill_at)
        /\ idle_at' = Left(idle_at) /\ stall_at' = Left(stall_at)
        /\ watchdog_at' = watchdog_at - 1 /\ watchdog_at # 0 /\ kill_at # 0
    BY DEF Tick, Left, Types
  <1>4. /\ inactive' \in Nat
        /\ \/ inactive' = inactive + 1
           \/ inactive' = inactive /\ inactive >= ShortestGuard
    BY <1>2 DEF UpTo, Types
  <1>5. ended' \in Nat /\ ended' <= ended + 1 /\ (~Over => ended' = ended)
    BY <1>2 DEF UpTo, Types
  <1>6. \/ idle = <<>> /\ idle' = <<>>
        \/ \E anchor \in Anchors, age \in Nat :
              /\ idle = <<anchor>> /\ idle' = <<[anchor EXCEPT !.age = age]>>
              /\ age <= anchor.age + 1
    <2>1. CASE idle = <<>>
      BY <1>2, <2>1 DEF Aged
    <2>2. CASE idle # <<>>
      <3>1. PICK anchor \in Anchors : idle = <<anchor>>
        BY <2>2 DEF Types
      <3>2. anchor.age \in Nat /\ idle[1] = anchor
        BY <3>1 DEF Anchors
      <3>3. CASE anchor.age >= cfg.idle_timeout
        <4>1. idle' = idle /\ anchor = [anchor EXCEPT !.age = anchor.age]
          BY <1>2, <3>2, <3>3 DEF Aged, Anchors
        <4> QED BY <3>1, <3>2, <4>1
      <3>4. CASE ~(anchor.age >= cfg.idle_timeout)
        <4>1. idle' = <<[anchor EXCEPT !.age = anchor.age + 1]>>
          BY <1>2, <2>2, <3>1, <3>2, <3>4 DEF Aged
        <4> QED BY <3>1, <3>2, <4>1
      <3> QED BY <3>3, <3>4
    <2> QED BY <2>1, <2>2
  <1>7. Types'
    <2>1. idle' = <<>> \/ \E anchor \in Anchors : idle' = <<anchor>>
      BY <1>6 DEF Anchors
    <2>2. kill_at' \in Nat \cup {Off} /\ term_at' \in Int /\ idle_at' \in Int /\ stall_at' \in Int
      BY <1>3 DEF Left, Types
    <2>3. watchdog_at' \in 0..WATCHDOG
      BY <1>3 DEF Types
    <2> QED BY <1>2, <1>4, <1>5, <2>1, <2>2, <2>3 DEF Types
  <1>8. GuardsDisarmed'
    BY <1>2, <1>3 DEF GuardsDisarmed, Left
  <1>9. KillComes'
    <2>1. KillBound' = KillBound
      BY DEF KillBound
    <2>2. (~Over => ended = 0)'
      BY <1>2, <1>5 DEF KillComes
    <2>3. (Over /\ ~killed => kill_at \in Nat)'
      BY <1>2, <1>3 DEF KillComes, Left
    <2>4. ASSUME Over, ~killed
          PROVE  /\ kill_at \in Nat /\ kill_at' = kill_at - 1
                 /\ ended' + kill_at' <= ended + kill_at
      <3>1. kill_at \in Nat /\ kill_at' = kill_at - 1
        BY <1>3, <2>4 DEF KillComes, Left
      <3>2. ended \in Nat
        BY DEF Types
      <3>3. ASSUME NEW was \in Nat, NEW is \in Nat, NEW left \in Nat, is <= was + 1
            PROVE  is + (left - 1) <= was + left
        BY <3>3
      <3>4. ended' \in Nat /\ ended' <= ended + 1
        BY <1>5
      <3>5. ended' + kill_at' <= ended + kill_at
        BY <3>1, <3>2, <3>3, <3>4, Zenon
      <3> QED BY <3>1, <3>5
    <2>5. ASSUME Over, ~killed
          PROVE  watchdog_at > kill_at => watchdog_at' > kill_at'
      BY <1>3, <2>4, <2>5 DEF Types
    <2>6. ended \in Nat /\ GRACE \in Nat /\ KillBound \in Nat
      BY DEF Types
    <2> QED BY <1>2, <1>5, <2>1, <2>2, <2>3, <2>4, <2>5, <2>6 DEF KillComes
  <1>10. TimersWaited'
    <2>1. ShortestGuard' = ShortestGuard
      BY <1>2 DEF ShortestGuard
    <2>2. ASSUME NEW t \in Int, Waited(t)
          PROVE  inactive' >= t + 1 \/ inactive' >= ShortestGuard
      BY <1>4, <2>2 DEF Waited, Types
    <2>3. Waited(WATCHDOG - watchdog_at)'
      <3>1. inactive' >= (WATCHDOG - watchdog_at) + 1 \/ inactive' >= ShortestGuard
        BY <2>2 DEF TimersWaited, Types
      <3>2. WATCHDOG - watchdog_at' = (WATCHDOG - watchdog_at) + 1
        BY <1>3 DEF Types
      <3> QED BY <2>1, <3>1, <3>2 DEF Waited
    <2>4. (idle_at # Off => Waited(cfg.idle_timeout - idle_at))'
      <3> SUFFICES ASSUME idle_at' # Off
                   PROVE  Waited(cfg.idle_timeout - idle_at)'
        OBVIOUS
      <3>1. idle_at # Off /\ idle_at' = idle_at - 1
        BY <1>3 DEF Left
      <3>2. inactive' >= (cfg.idle_timeout - idle_at) + 1 \/ inactive' >= ShortestGuard
        <4>1. Waited(cfg.idle_timeout - idle_at)
          BY <3>1 DEF TimersWaited
        <4>2. cfg.idle_timeout - idle_at \in Int
          BY DEF Types
        <4> QED BY <2>2, <4>1, <4>2
      <3>3. ASSUME NEW window \in Int, NEW left \in Int
            PROVE  window - (left - 1) = (window - left) + 1
        OBVIOUS
      <3>4. cfg' = cfg /\ cfg.idle_timeout \in Int /\ idle_at \in Int
        BY <1>2 DEF Types
      <3>5. cfg.idle_timeout - idle_at' = (cfg.idle_timeout - idle_at) + 1
        BY <3>1, <3>3, <3>4
      <3> QED BY <2>1, <3>2, <3>4, <3>5 DEF Waited
    <2>5. (stall_at # Off => Waited(cfg.stall_timeout - stall_at))'
      <3> SUFFICES ASSUME stall_at' # Off
                   PROVE  Waited(cfg.stall_timeout - stall_at)'
        OBVIOUS
      <3>1. stall_at # Off /\ stall_at' = stall_at - 1
        BY <1>3 DEF Left
      <3>2. inactive' >= (cfg.stall_timeout - stall_at) + 1 \/ inactive' >= ShortestGuard
        BY <2>2, <3>1 DEF TimersWaited, Types
      <3>3. ASSUME NEW window \in Int, NEW left \in Int
            PROVE  window - (left - 1) = (window - left) + 1
        OBVIOUS
      <3>4. cfg' = cfg /\ cfg.stall_timeout \in Int /\ stall_at \in Int
        BY <1>2 DEF Types
      <3>5. cfg.stall_timeout - stall_at' = (cfg.stall_timeout - stall_at) + 1
        BY <3>1, <3>3, <3>4
      <3> QED BY <2>1, <3>2, <3>4, <3>5 DEF Waited
    <2>6. (last = <<>> <=> idle = <<>>)' \/ Over'
      <3>1. idle' = <<>> <=> idle = <<>>
        BY <1>6
      <3> QED BY <1>2, <3>1 DEF TimersWaited
    <2>7. Over' \/ (idle # <<>> => ~Differs(idle[1], last[1]) /\ Waited(idle[1].age))'
      <3> SUFFICES ASSUME ~Over', idle' # <<>>
                   PROVE  (~Differs(idle[1], last[1]) /\ Waited(idle[1].age))'
        OBVIOUS
      <3>1. PICK anchor \in Anchors, age \in Nat :
               /\ idle = <<anchor>> /\ idle' = <<[anchor EXCEPT !.age = age]>>
               /\ age <= anchor.age + 1
        BY <1>6
      <3>2. /\ idle[1] = anchor /\ idle'[1] = [anchor EXCEPT !.age = age]
            /\ idle'[1].age = age /\ anchor.age \in Nat
            /\ idle'[1].px = anchor.px /\ idle'[1].py = anchor.py
            /\ idle'[1].counters = anchor.counters
        BY <3>1 DEF Anchors
      <3>3. ~Differs(anchor, last[1]) /\ Waited(anchor.age)
        BY <1>2, <3>1, <3>2 DEF TimersWaited
      <3>4. ~Differs(idle'[1], last'[1])
        BY <1>2, <3>2, <3>3 DEF Differs
      <3>5. inactive' >= age \/ inactive' >= ShortestGuard
        BY <1>4, <2>2, <3>1, <3>2, <3>3
      <3> QED BY <2>1, <3>2, <3>4, <3>5 DEF Waited, Differs
    <2> QED BY <2>3, <2>4, <2>5, <2>6, <2>7 DEF TimersWaited
  <1> QED BY <1>7, <1>8, <1>9, <1>10 DEF IInv

-----------------------------------------------------------------------------
\* The steps that touch no timer but may disarm one, or touch none of this at all.
LEMMA Quiet ==
    ASSUME IInv,
           UNCHANGED <<cfg, idle_at, stall_at, watchdog_at, idle, abandoning, decided>>,
           UNCHANGED <<last, inactive, ended>>,
           term_at' \in {term_at, Off},
           \/ UNCHANGED <<kill_at, killed>>
           \/ kill_at' = Off /\ killed' = TRUE
    PROVE  IInv'
  <1>1. Types /\ GuardsDisarmed /\ KillComes /\ TimersWaited
    BY DEF IInv
  <1> USE <1>1 DEF Off, Over
  <1>2. Types'
    <2>1. kill_at' \in Nat \cup {Off} /\ term_at' \in Int
      BY DEF Types
    <2>2. killed' \in BOOLEAN
      BY Zenon DEF Types
    <2>3. UNCHANGED <<cfg, idle_at, stall_at, watchdog_at, idle, abandoning, decided, last,
                      inactive, ended>>
      OBVIOUS
    <2> QED BY <2>1, <2>2, <2>3, Zenon DEF Types
  <1>3. GuardsDisarmed'
    BY DEF GuardsDisarmed
  <1>4. KillComes'
    BY DEF KillComes, KillBound
  <1>5. TimersWaited'
    BY DEF TimersWaited, Waited, ShortestGuard
  <1> QED BY <1>2, <1>3, <1>4, <1>5 DEF IInv

\* Every step keeps the invariant.
LEMMA Step == IInv /\ [Next]_vars => IInv'
  <1> SUFFICES ASSUME IInv, [Next]_vars PROVE IInv'
    OBVIOUS
  <1>1. ASSUME NEW source \in Sources, NEW line \in Lines,
               Line(source, line) \/ DrainLine(source, line)
        PROVE  IInv'
    BY <1>1, AnyLine DEF Line, DrainLine, signals
  <1>2. ASSUME NEW source \in Sources, StreamCloses(source) PROVE IInv'
    BY <1>2, Quiet DEF StreamCloses, timers, signals, clocks
  <1>3. CASE WalkAway \/ Hang \/ Exit
    BY <1>3, Quiet DEF WalkAway, Hang, Exit, timers, pump, signals, clocks
  <1>4. CASE TermDue
    BY <1>4, Quiet DEF TermDue, pump, clocks
  <1>5. CASE KillDue
    BY <1>5, Quiet DEF KillDue, pump, clocks
  <1>6. CASE GuardDue
    BY <1>6, GuardFires
  <1>7. CASE WatchdogDue
    BY <1>7, WatchdogFires
  <1>8. CASE ExitSeen \/ Finish
    BY <1>8, Quiet DEF ExitSeen, Finish, timers, pump, signals, clocks
  <1>9. CASE Tick
    BY <1>9, TimePasses
  <1>10. CASE UNCHANGED vars
    BY <1>10, Quiet DEF vars, timers, pump, signals, clocks
  <1> QED BY <1>1, <1>2, <1>3, <1>4, <1>5, <1>6, <1>7, <1>8, <1>9, <1>10 DEF Next

THEOREM Inductive == Spec => []IInv
  BY Start, Step, PTL DEF Spec

\* Once a run is decided or abandoned neither guard is armed (GuardsDisarmed), for any
\* windows and any stream of lines.
THEOREM GuardsDisarmedSafe == Spec => []GuardsDisarmed
  <1>1. IInv => GuardsDisarmed
    BY DEF IInv
  <1> QED BY <1>1, Inductive, PTL

\* A SIGKILL stays pending once a run is over, and comes within three graces and the
\* longest linger (KillIsBounded).
THEOREM KillIsBoundedSafe == Spec => []KillIsBounded
  <1>1. IInv => KillIsBounded
    <2> SUFFICES ASSUME IInv, Over, ~killed
                 PROVE  kill_at # Off /\ ended + kill_at <= KillBound
      BY DEF KillIsBounded
    <2>1. Types /\ KillComes
      BY DEF IInv
    <2>2. kill_at \in Nat /\ ended \in Nat /\ GRACE \in Nat
      BY <2>1, Windows DEF KillComes, Types
    <2>3. \/ ended + kill_at <= KillBound
          \/ ended + kill_at <= GRACE
          \/ ended + kill_at <= 2 * GRACE
      BY <2>1 DEF KillComes
    <2>4. ASSUME NEW longest \in Nat, NEW grace \in Nat
          PROVE  grace <= 3 * grace + longest /\ 2 * grace <= 3 * grace + longest
      OBVIOUS
    <2>5. GRACE <= KillBound /\ 2 * GRACE <= KillBound /\ KillBound \in Nat
      BY <2>2, <2>4, Lingers
    <2> QED BY <2>2, <2>3, <2>5 DEF Off
  <1> QED BY <1>1, Inductive, PTL

\* No guard and no watchdog abandons a run that the telemetry decided, before its
\* SIGKILL (DecisionLingers).
THEOREM DecisionLingersSafe == Spec => DecisionLingers
  <1>1. IInv /\ [Next]_vars =>
            [decided /\ ~killed /\ ~abandoning => ~abandoning']_vars
    <2> SUFFICES ASSUME IInv, [Next]_vars, decided, ~killed, ~abandoning
                 PROVE  ~abandoning'
      BY DEF vars
    <2>1. ~GuardDue
      BY DEF IInv, GuardsDisarmed, GuardDue, Due, Over, Off
    <2>2. ~WatchdogDue
      BY WatchdogFires
    <2> QED BY <2>1, <2>2
            DEF Next, vars, pump, Line, DrainLine, StreamCloses, WalkAway, Hang, Exit,
                TermDue, KillDue, ExitSeen, Finish, Tick
  <1> QED BY <1>1, Inductive, PTL DEF Spec, DecisionLingers

\* No guard ends the run of a player who was active within the shortest window
\* (ActiveIsSafe), whatever the windows, the reports and their order.
THEOREM ActiveIsSafeSafe == Spec => ActiveIsSafe
  <1>1. IInv /\ [Next]_vars =>
            [abandoning' /\ ~abandoning => inactive >= ShortestGuard /\ inactive > 0]_vars
    <2> SUFFICES ASSUME IInv, [Next]_vars, abandoning', ~abandoning
                 PROVE  inactive >= ShortestGuard /\ inactive > 0
      BY DEF vars
    <2>1. Types /\ TimersWaited
      BY DEF IInv
    <2>2. GuardDue \/ WatchdogDue
      BY DEF Next, vars, pump, Line, DrainLine, StreamCloses, WalkAway, Hang, Exit,
             TermDue, KillDue, ExitSeen, Finish, Tick
    <2>3. inactive >= ShortestGuard
      BY <2>1, <2>2, Windows
      DEF GuardDue, WatchdogDue, Due, TimersWaited, Waited, Off, Types
    <2> QED BY <2>1, <2>3, Windows DEF Types
  <1> QED BY <1>1, Inductive, PTL DEF Spec, ActiveIsSafe
=============================================================================
