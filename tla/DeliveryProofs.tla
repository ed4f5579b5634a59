--------------------------- MODULE DeliveryProofs ---------------------------
(***************************************************************************)
(* Proofs about a run's way to the leaderboard: for any set of runs, and   *)
(* any number of crashes, failing statements, rotated tokens and requests  *)
(* nobody waits for, spool, submitter and server implement the bank of     *)
(* module ScoreBank, and no valid run is quarantined while nothing is      *)
(* wrong.  That every run is settled in the end (Delivered) is left to the *)
(* model checker.                                                          *)
(***************************************************************************)
EXTENDS Delivery, SequenceTheorems, TLAPS

Rows == [session : Sessions, created_at : Nat, rowid : Nat]

Types ==
    /\ rows \in Seq(Rows)
    /\ runs \in Seq(Sessions)
    /\ pass \in Seq(Sessions)
    /\ orphans \in [Sessions -> Nat]
    /\ reply \in {None, Sent} \cup Statuses
    /\ upsets \in Nat

\* What is on the two disks, and on its way, agrees: a run is spooled before it is
\* posted, stored before it is called submitted.
OnDisk ==
    /\ \A i, j \in DOMAIN rows : rows[i].session = rows[j].session => i = j
    /\ Stored \subseteq Spooled
    /\ submitted \subseteq Stored
    /\ failed \subseteq Spooled
    /\ \A s \in Sessions : orphans[s] > 0 => s \in Spooled

\* What is left of a pass has not been settled: each run occurs once in it.
PassOpen ==
    /\ \A i \in DOMAIN pass : pass[i] \in Spooled \ (submitted \cup failed)
    /\ \A i, j \in DOMAIN pass : pass[i] = pass[j] => i = j

\* A reply is about the head of the pass, and a success is true.
ReplyTrue ==
    reply # None => /\ pass # <<>>
                    /\ reply \in {200, 201} => Head(pass) \in Stored

\* While nothing is wrong both sides have the same token, and what the server
\* refuses is not valid.
NothingWrong ==
    upsets = 0 =>
        /\ wrong = {} /\ secret.file = secret.server
        /\ pass # <<>> => token = secret.server
        /\ reply \in 400..499 \ {408, 429} => Head(pass) \notin Valid

\* The state of the task: a pass is only under way while it posts.
PassPosted == pass # <<>> => at = "Posting"

IInv == Types /\ OnDisk /\ PassOpen /\ ReplyTrue /\ NothingWrong /\ QuarantineJustified

-----------------------------------------------------------------------------
LEMMA AppendedRun ==
    ASSUME runs \in Seq(Sessions), NEW s \in Sessions, Store(s)
    PROVE  /\ runs' \in Seq(Sessions)
           /\ Stored' = Stored \cup {s}
  <1>1. CASE s \in Stored
    BY <1>1 DEF Store, Stored
  <1>2. CASE s \notin Stored
    <2>1. runs' = Append(runs, s)
      BY <1>2 DEF Store
    <2>2. /\ Len(runs') = Len(runs) + 1
          /\ runs'[Len(runs) + 1] = s
          /\ \A i \in 1..Len(runs) : runs'[i] = runs[i]
      BY <2>1, AppendProperties
    <2>3. runs' \in Seq(Sessions)
      BY <2>1, AppendProperties
    <2>4. DOMAIN runs' = DOMAIN runs \cup {Len(runs) + 1} /\ DOMAIN runs = 1..Len(runs)
      BY <2>2, <2>3
    <2> QED BY <2>2, <2>3, <2>4 DEF Stored
  <1> QED BY <1>1, <1>2

LEMMA AppendedRow ==
    ASSUME rows \in Seq(Rows), NEW row \in Rows, rows' = Append(rows, row)
    PROVE  /\ rows' \in Seq(Rows)
           /\ DOMAIN rows' = DOMAIN rows \cup {Len(rows) + 1} /\ DOMAIN rows = 1..Len(rows)
           /\ rows'[Len(rows) + 1] = row
           /\ \A i \in DOMAIN rows : rows'[i] = rows[i]
           /\ Spooled' = Spooled \cup {row.session}
  <1>1. /\ Len(rows') = Len(rows) + 1
        /\ rows'[Len(rows) + 1] = row
        /\ \A i \in 1..Len(rows) : rows'[i] = rows[i]
        /\ rows' \in Seq(Rows)
    BY AppendProperties
  <1>2. DOMAIN rows' = DOMAIN rows \cup {Len(rows) + 1} /\ DOMAIN rows = 1..Len(rows)
    BY <1>1
  <1> QED BY <1>1, <1>2 DEF Spooled

LEMMA SpooledType == ASSUME Types PROVE Spooled \subseteq Sessions
  <1>1. \A i \in DOMAIN rows : rows[i] \in Rows
    BY DEF Types
  <1> QED BY <1>1 DEF Spooled, Rows

\* The head of a pass is gone from its tail.
LEMMA TailPass ==
    ASSUME Types, PassOpen, pass # <<>>, pass' = Tail(pass)
    PROVE  /\ Head(pass) \in Sessions
           /\ Head(pass) \in Spooled \ (submitted \cup failed)
           /\ pass' \in Seq(Sessions)
           /\ \A i \in DOMAIN pass' : /\ pass'[i] \in Spooled \ (submitted \cup failed)
                                      /\ pass'[i] # Head(pass)
           /\ \A i, j \in DOMAIN pass' : pass'[i] = pass'[j] => i = j
  <1>1. /\ 1 \in DOMAIN pass /\ Head(pass) = pass[1] /\ Len(pass) \in Nat \ {0}
        /\ DOMAIN pass = 1..Len(pass)
    BY DEF Types
  <1>2. /\ pass' \in Seq(Sessions) /\ DOMAIN pass' = 1..(Len(pass) - 1)
        /\ \A i \in DOMAIN pass' : i + 1 \in DOMAIN pass /\ pass'[i] = pass[i + 1]
    BY <1>1, HeadTailProperties DEF Types
  <1>3. Head(pass) \in Sessions
    BY <1>1 DEF Types
  <1>4. \A i \in DOMAIN pass' : pass'[i] \in Spooled \ (submitted \cup failed) /\ pass'[i] # Head(pass)
    BY <1>1, <1>2 DEF PassOpen
  <1>5. \A i, j \in DOMAIN pass' : pass'[i] = pass'[j] => i = j
    BY <1>1, <1>2 DEF PassOpen
  <1> QED BY <1>1, <1>2, <1>3, <1>4, <1>5 DEF PassOpen

\* A pass is made of the rows that are pending, each once.
LEMMA NewPass ==
    ASSUME Types, OnDisk, NEW list \in Pending,
           pass' = [i \in DOMAIN list |-> list[i].session]
    PROVE  /\ pass' \in Seq(Sessions)
           /\ \A i \in DOMAIN pass' : pass'[i] \in Spooled \ (submitted \cup failed)
           /\ \A i, j \in DOMAIN pass' : pass'[i] = pass'[j] => i = j
  <1>1. PICK n \in 0..Len(rows) : list \in [1..n -> Unsettled]
    BY DEF Pending, SeqOf
  <1>2. DOMAIN pass' = 1..n /\ n \in Nat
    BY <1>1 DEF Types
  <1>3. \A i \in 1..n : \E k \in DOMAIN rows : list[i] = rows[k] /\ rows[k].session \notin submitted \cup failed
    BY <1>1 DEF Unsettled, Range
  <1>4. \A i \in 1..n : /\ list[i] \in Rows
                        /\ list[i].session \in Spooled \ (submitted \cup failed)
    BY <1>3 DEF Types, Spooled
  <1>5. pass' \in Seq(Sessions)
    <2>1. \A i \in 1..n : list[i].session \in Sessions
      BY <1>4 DEF Rows
    <2> QED BY <1>2, <2>1, IsASeq
  <1>6. ASSUME NEW i \in 1..n, NEW j \in 1..n, i < j PROVE list[i] # list[j]
    <2>1. Before(list[i], list[j])
      BY <1>1, <1>6 DEF Pending
    <2>2. \A row \in Rows : ~Before(row, row)
      BY DEF Before, Rows
    <2> QED BY <1>4, <2>1, <2>2
  <1>7. ASSUME NEW i \in 1..n, NEW j \in 1..n, list[i].session = list[j].session PROVE i = j
    <2>1. list[i] = list[j]
      BY <1>3, <1>7 DEF OnDisk
    <2> QED BY <1>2, <1>6, <2>1
  <1> QED BY <1>2, <1>4, <1>5, <1>7

\* What handling a request does: to the table, and the truth of the answer.
LEMMA HandleShape ==
    ASSUME Types, NEW s \in Sessions, NEW t, NEW status \in Statuses, Handle(s, t, status)
    PROVE  /\ runs' = runs \/ (s \notin Stored /\ runs' = Append(runs, s))
           /\ runs' \in Seq(Sessions)
           /\ Stored \subseteq Stored' /\ Stored' \subseteq Stored \cup {s}
           /\ status \in {200, 201} => s \in Stored'
           /\ wrong = {} /\ t = secret.server /\ status \in 400..499 \ {408, 429} => s \notin Valid
  <1>1. \/ UNCHANGED runs /\ status \notin {200, 201}
        \/ Store(s)
    BY DEF Handle, Statuses
  <1>2. wrong = {} /\ t = secret.server /\ status \in 400..499 \ {408, 429} => s \notin Valid
    BY DEF Handle
  <1>3. CASE UNCHANGED runs
    <2>1. Stored' = Stored /\ runs' \in Seq(Sessions)
      BY <1>3 DEF Stored, Types
    <2>2. status \in {200, 201} => s \in Stored
      <3>1. Store(s) /\ s \notin Stored => runs' # runs
        <4> HAVE Store(s) /\ s \notin Stored
        <4>1. Stored' = Stored \cup {s}
          BY AppendedRun DEF Types
        <4> QED BY <2>1, <4>1
      <3> QED BY <1>1, <1>3, <3>1
    <2> QED BY <1>2, <1>3, <2>1, <2>2
  <1>4. CASE Store(s)
    <2>1. runs' \in Seq(Sessions) /\ Stored' = Stored \cup {s}
      BY <1>4, AppendedRun DEF Types
    <2>2. runs' = runs \/ (s \notin Stored /\ runs' = Append(runs, s))
      BY <1>4 DEF Store
    <2> QED BY <1>2, <2>1, <2>2
  <1> QED BY <1>1, <1>3, <1>4

-----------------------------------------------------------------------------
\* The steps, one lemma for those that disturb the same parts.

\* A run is spooled, or lost.
LEMMA InsertRunKeeps ==
    ASSUME IInv, NEW s \in Sessions, InsertRun(s)
    PROVE  IInv' /\ (Bank!Spool(s) \/ UNCHANGED Bank!vars)
  <1> USE DEF IInv
  <1>1. /\ UNCHANGED <<submitted, failed, runs, pass, orphans, reply, upsets, wrong, secret, token>>
        /\ s \notin Spooled
    BY DEF InsertRun, task, server, world
  <1>2. Stored' = Stored
    BY <1>1 DEF Stored
  <1>3. CASE rows' = rows
    <2>1. Spooled' = Spooled
      BY <1>3 DEF Spooled
    <2>2. IInv'
      <3>1. Types' /\ OnDisk' /\ PassOpen'
        BY <1>1, <1>2, <1>3, <2>1 DEF Types, OnDisk, PassOpen
      <3>2. ReplyTrue' /\ NothingWrong' /\ QuarantineJustified'
        BY <1>1, <1>2 DEF ReplyTrue, NothingWrong, QuarantineJustified
      <3> QED BY <3>1, <3>2
    <2> QED BY <1>1, <2>1, <2>2 DEF Bank!vars
  <1>4. CASE \E created_at \in 0..1 :
                rows' = Append(rows, [session |-> s, created_at |-> created_at, rowid |-> Len(rows) + 1])
    <2>1. PICK row \in Rows : row.session = s /\ rows' = Append(rows, row)
      <3>1. PICK created_at \in 0..1 :
                rows' = Append(rows, [session |-> s, created_at |-> created_at, rowid |-> Len(rows) + 1])
        BY <1>4
      <3>2. Len(rows) + 1 \in Nat
        BY DEF Types
      <3>3. [session |-> s, created_at |-> created_at, rowid |-> Len(rows) + 1] \in Rows
        BY <3>2 DEF Rows
      <3> QED BY <3>1, <3>3
    <2>2. /\ rows' \in Seq(Rows)
          /\ DOMAIN rows' = DOMAIN rows \cup {Len(rows) + 1} /\ DOMAIN rows = 1..Len(rows)
          /\ rows'[Len(rows) + 1] = row
          /\ \A i \in DOMAIN rows : rows'[i] = rows[i]
          /\ Spooled' = Spooled \cup {s}
      BY <2>1, AppendedRow DEF Types
    <2>3. Types'
      BY <1>1, <2>2 DEF Types
    <2>4. OnDisk'
      <3>1. \A i \in DOMAIN rows : rows[i].session # s
        BY <1>1 DEF Spooled
      <3>2. \A i, j \in DOMAIN rows' : rows'[i].session = rows'[j].session => i = j
        BY <2>1, <2>2, <3>1 DEF OnDisk
      <3> QED BY <1>1, <1>2, <2>2, <3>2 DEF OnDisk
    <2>5. PassOpen'
      BY <1>1, <2>2 DEF PassOpen
    <2>6. ReplyTrue' /\ NothingWrong' /\ QuarantineJustified'
      BY <1>1, <1>2 DEF ReplyTrue, NothingWrong, QuarantineJustified
    <2>7. Bank!Spool(s)
      BY <1>1, <2>2 DEF Bank!Spool
    <2> QED BY <2>3, <2>4, <2>5, <2>6, <2>7
  <1> QED BY <1>3, <1>4 DEF InsertRun

\* The rest of the cabinet and the faults leave both disks and the pass alone.
LEMMA QuietKeeps ==
    ASSUME IInv, UNCHANGED <<rows, submitted, failed, runs, orphans, pass, reply>>,
           \/ UNCHANGED <<token, secret, wrong, upsets>>
           \/ upsets' = upsets + 1
           \/ upsets > 0 /\ upsets' = upsets
           \/ pass = <<>> /\ UNCHANGED <<secret, wrong, upsets>>
    PROVE  IInv' /\ UNCHANGED Bank!vars
  <1> USE DEF IInv
  <1>1. Spooled' = Spooled /\ Stored' = Stored
    BY DEF Spooled, Stored
  <1>2. Types' /\ OnDisk' /\ PassOpen' /\ ReplyTrue'
    BY <1>1 DEF Types, OnDisk, PassOpen, ReplyTrue
  <1>3. NothingWrong' /\ QuarantineJustified'
    <2>1. CASE UNCHANGED <<token, secret, wrong, upsets>>
      BY <2>1 DEF NothingWrong, QuarantineJustified
    <2>2. CASE upsets' = upsets + 1 \/ (upsets > 0 /\ upsets' = upsets)
      <3>1. upsets' # 0
        BY <2>2 DEF Types
      <3> QED BY <3>1 DEF NothingWrong, QuarantineJustified
    <2>3. CASE pass = <<>> /\ UNCHANGED <<secret, wrong, upsets>>
      <3>1. reply = 0
        BY <2>3 DEF ReplyTrue, None
      <3> QED BY <2>3, <3>1 DEF NothingWrong, QuarantineJustified
    <2> QED BY <2>1, <2>2, <2>3
  <1> QED BY <1>1, <1>2, <1>3 DEF Bank!vars

\* A sweep takes up what is pending, with the token of now.
LEMMA SweepKeeps ==
    ASSUME IInv, Sweep, reply = None
    PROVE  IInv' /\ UNCHANGED Bank!vars
  <1> USE DEF IInv
  <1>1. UNCHANGED <<rows, submitted, failed, runs, orphans, reply, secret, wrong, upsets>>
    BY DEF Sweep, cabinet, disk, server, world
  <1>2. CASE UNCHANGED <<token, pass>>
    BY <1>1, <1>2, QuietKeeps
  <1>3. ASSUME NEW list \in Pending, pass' = [i \in DOMAIN list |-> list[i].session],
               token' = secret.file
        PROVE  IInv' /\ UNCHANGED Bank!vars
    <2>1. Spooled' = Spooled /\ Stored' = Stored
      BY <1>1 DEF Spooled, Stored
    <2>2. Types' /\ PassOpen'
      BY <1>1, <1>3, <2>1, NewPass DEF Types, PassOpen
    <2>3. OnDisk' /\ QuarantineJustified'
      BY <1>1, <2>1 DEF OnDisk, QuarantineJustified
    <2>4. ReplyTrue' /\ NothingWrong'
      BY <1>1, <1>3 DEF ReplyTrue, NothingWrong, None
    <2> QED BY <1>1, <2>1, <2>2, <2>3, <2>4 DEF Bank!vars
  <1> QED BY <1>2, <1>3 DEF Sweep, ReadToken

\* An answer about the head of the pass is settled, or tried again; in all three
\* cases the head leaves the pass.
LEMMA SettledKeeps ==
    ASSUME IInv, pass # <<>>, pass' = Tail(pass), reply' = None,
           UNCHANGED <<rows, runs, token, secret, wrong, upsets>>,
           \/ /\ submitted' = submitted \cup {Head(pass)} /\ Head(pass) \in Stored
              /\ UNCHANGED <<failed, orphans>>
           \/ /\ failed' = failed \cup {Head(pass)} /\ UNCHANGED <<submitted, orphans>>
              /\ upsets = 0 => Head(pass) \notin Valid
           \/ /\ UNCHANGED <<submitted, failed>>
              /\ orphans' = orphans \/ orphans' = [orphans EXCEPT ![Head(pass)] = @ + 1]
    PROVE  IInv' /\ (Bank!Settle(Head(pass)) \/ UNCHANGED Bank!vars) /\ Head(pass) \in Sessions
  <1> USE DEF IInv
  <1> DEFINE s == Head(pass)
  <1> HIDE DEF s
  <1>1. Spooled' = Spooled /\ Stored' = Stored
    BY DEF Spooled, Stored
  <1>2. /\ s \in Sessions /\ s \in Spooled \ (submitted \cup failed)
        /\ pass' \in Seq(Sessions)
        /\ \A i \in DOMAIN pass' : pass'[i] \in Spooled \ (submitted \cup failed) /\ pass'[i] # s
        /\ \A i, j \in DOMAIN pass' : pass'[i] = pass'[j] => i = j
    BY TailPass DEF s
  <1>3. \/ /\ submitted' = submitted \cup {s} /\ s \in Stored
           /\ UNCHANGED <<failed, orphans>>
        \/ /\ failed' = failed \cup {s} /\ UNCHANGED <<submitted, orphans>>
           /\ upsets = 0 => s \notin Valid
        \/ /\ UNCHANGED <<submitted, failed>>
           /\ orphans' = orphans \/ orphans' = [orphans EXCEPT ![s] = @ + 1]
    BY DEF s
  <1>4. Types'
    <2>1. orphans' \in [Sessions -> Nat]
      BY <1>2, <1>3 DEF Types
    <2>2. None \in {None, Sent} \cup Statuses
      OBVIOUS
    <2> QED BY <1>2, <2>1, <2>2 DEF Types
  <1>5. OnDisk'
    <2>1. \A r \in Sessions : orphans'[r] > 0 => r \in Spooled
      BY <1>2, <1>3 DEF OnDisk, Types
    <2> QED BY <1>1, <1>2, <1>3, <2>1 DEF OnDisk
  <1>6. PassOpen'
    BY <1>1, <1>2, <1>3 DEF PassOpen
  <1>7. ReplyTrue' /\ NothingWrong' /\ QuarantineJustified'
    <2>1. pass = <<>> => pass' = <<>>
      OBVIOUS
    <2> QED BY <1>3, <2>1 DEF ReplyTrue, NothingWrong, QuarantineJustified, None
  <1>8. Bank!Settle(s) \/ UNCHANGED Bank!vars
    <2>1. s \in Stored => Bank!OnBoard(s)
      BY DEF Stored, Bank!OnBoard
    <2> QED BY <1>1, <1>2, <1>3, <2>1 DEF Bank!Settle, Bank!vars
  <1> QED BY <1>2, <1>4, <1>5, <1>6, <1>7, <1>8 DEF s

\* The server handles a request, waited for or not.
LEMMA HandledKeeps ==
    ASSUME IInv, NEW s \in Sessions, s \in Spooled, NEW t, NEW status \in Statuses,
           Handle(s, t, status),
           UNCHANGED <<rows, submitted, failed, pass, token, secret, wrong, upsets>>,
           \/ /\ pass # <<>> /\ s = Head(pass) /\ t = token
              /\ reply' = status /\ orphans' = orphans
           \/ /\ reply' = reply
              /\ orphans[s] > 0 /\ orphans' = [orphans EXCEPT ![s] = @ - 1]
    PROVE  IInv' /\ (Bank!Store(s) \/ UNCHANGED Bank!vars)
  <1> USE DEF IInv
  <1>1. /\ runs' = runs \/ (s \notin Stored /\ runs' = Append(runs, s))
        /\ runs' \in Seq(Sessions)
        /\ Stored \subseteq Stored' /\ Stored' \subseteq Stored \cup {s}
        /\ status \in {200, 201} => s \in Stored'
        /\ wrong = {} /\ t = secret.server /\ status \in 400..499 \ {408, 429} => s \notin Valid
    <2>1. Types
      OBVIOUS
    <2>2. runs' = runs \/ (s \notin Stored /\ runs' = Append(runs, s))
      BY <2>1, HandleShape
    <2>3. runs' \in Seq(Sessions)
      BY <2>1, HandleShape
    <2>4. Stored \subseteq Stored' /\ Stored' \subseteq Stored \cup {s}
      BY <2>1, HandleShape
    <2>5. status \in {200, 201} => s \in Stored'
      BY <2>1, HandleShape
    <2>6. wrong = {} /\ t = secret.server /\ status \in 400..499 \ {408, 429} => s \notin Valid
      BY <2>1, HandleShape
    <2> QED BY <2>2, <2>3, <2>4, <2>5, <2>6
  <1>2. Spooled' = Spooled
    BY DEF Spooled
  <1>3. orphans' \in [Sessions -> Nat] /\ \A r \in Sessions : orphans'[r] > 0 => orphans[r] > 0
    <2>1. orphans \in [Sessions -> Nat]
      BY DEF Types
    <2>2. CASE orphans[s] > 0 /\ orphans' = [orphans EXCEPT ![s] = @ - 1]
      <3>1. orphans[s] - 1 \in Nat
        BY <2>1, <2>2
      <3>2. \A r \in Sessions : orphans'[r] = IF r = s THEN orphans[s] - 1 ELSE orphans[r]
        BY <2>1, <2>2
      <3>3. orphans' \in [Sessions -> Nat]
        BY <2>1, <2>2, <3>1
      <3> QED BY <2>2, <3>2, <3>3
    <2> QED BY <2>1, <2>2
  <1>4. Types'
    BY <1>1, <1>3 DEF Types
  <1>5. OnDisk' /\ PassOpen'
    BY <1>1, <1>2, <1>3 DEF OnDisk, PassOpen
  <1>6. ReplyTrue'
    <2>1. Head(pass') = Head(pass)
      OBVIOUS
    <2>2. CASE pass # <<>> /\ s = Head(pass) /\ reply' = status
      BY <1>1, <2>1, <2>2 DEF ReplyTrue
    <2>3. CASE reply' = reply
      BY <1>1, <2>1, <2>3 DEF ReplyTrue
    <2> QED BY <2>2, <2>3
  <1>7. NothingWrong' /\ QuarantineJustified'
    <2>1. Head(pass') = Head(pass)
      OBVIOUS
    <2>2. CASE pass # <<>> /\ s = Head(pass) /\ t = token /\ reply' = status
      <3>1. ASSUME upsets = 0, reply' \in 400..499 \ {408, 429}
            PROVE  Head(pass) \notin Valid
        <4>1. wrong = {} /\ token = secret.server
          BY <2>2, <3>1 DEF NothingWrong
        <4> QED BY <1>1, <2>2, <3>1, <4>1
      <3>2. NothingWrong'
        <4>1. ASSUME upsets' = 0 PROVE wrong' = {} /\ secret'.file = secret'.server
          BY <4>1 DEF NothingWrong
        <4>2. ASSUME upsets' = 0, pass' # <<>> PROVE token' = secret'.server
          BY <4>2 DEF NothingWrong
        <4>3. ASSUME upsets' = 0, reply' \in 400..499 \ {408, 429} PROVE Head(pass') \notin Valid
          BY <2>1, <3>1, <4>3
        <4> QED BY <4>1, <4>2, <4>3 DEF NothingWrong
      <3>3. QuarantineJustified'
        BY DEF QuarantineJustified
      <3> QED BY <3>2, <3>3
    <2>3. CASE reply' = reply
      BY <2>1, <2>3 DEF NothingWrong, QuarantineJustified
    <2> QED BY <2>2, <2>3
  <1>8. Bank!Store(s) \/ UNCHANGED Bank!vars
    <2>1. s \notin Stored => ~Bank!OnBoard(s)
      BY DEF Stored, Bank!OnBoard
    <2> QED BY <1>1, <1>2, <2>1 DEF Bank!Store, Bank!vars
  <1> QED BY <1>4, <1>5, <1>6, <1>7, <1>8

\* The three ends of a POST.
LEMMA ReplyKeeps ==
    ASSUME IInv, Accepted \/ Rejected \/ Transient
    PROVE  /\ IInv'
           /\ (\E s \in Sessions : Bank!Settle(s)) \/ UNCHANGED Bank!vars
           /\ pass' # <<>> => pass # <<>>
  <1> USE DEF IInv
  <1>1. /\ reply # None /\ pass # <<>> /\ pass' = Tail(pass) /\ reply' = None
        /\ UNCHANGED <<rows, runs, token, secret, wrong, upsets>>
    BY DEF Accepted, Rejected, Transient, Done, ReplyTrue, server, world, cabinet, disk, faults
  <1>2. reply \in {None, Sent} \cup Statuses
    BY DEF Types
  <1>3. CASE Accepted
    <2>1. reply \in {200, 201}
      BY <1>2, <1>3 DEF Accepted, PostResult, IsPermanentStatus, None, Sent, Statuses
    <2>2. Head(pass) \in Stored
      BY <1>1, <2>1 DEF ReplyTrue
    <2>3. UNCHANGED <<failed, orphans>> /\ MarkSubmitted
      BY <1>3 DEF Accepted, server
    <2> QED BY <1>1, <2>2, <2>3, SettledKeeps DEF MarkSubmitted
  <1>4. CASE Rejected
    <2>1. reply \in 400..499 \ {408, 429}
      BY <1>2, <1>4 DEF Rejected, PostResult, IsPermanentStatus, None, Sent, Statuses
    <2>2. upsets = 0 => Head(pass) \notin Valid
      BY <2>1 DEF NothingWrong
    <2>3. UNCHANGED <<submitted, orphans>> /\ MarkFailed
      BY <1>4 DEF Rejected, server
    <2> QED BY <1>1, <2>2, <2>3, SettledKeeps DEF MarkFailed
  <1>5. CASE Transient
    <2>1. /\ UNCHANGED <<submitted, failed>>
          /\ orphans' = orphans \/ orphans' = [orphans EXCEPT ![Head(pass)] = @ + 1]
      BY <1>5 DEF Transient, Orphaned, cabinet, disk
    <2> QED BY <1>1, <2>1, SettledKeeps
  <1> QED BY <1>3, <1>4, <1>5

\* A POST is sent.
LEMMA PostKeeps ==
    ASSUME IInv, Post
    PROVE  IInv' /\ UNCHANGED Bank!vars
  <1> USE DEF IInv
  <1>1. /\ pass # <<>> /\ reply' = Sent
        /\ UNCHANGED <<rows, submitted, failed, runs, orphans, pass, token, secret, wrong, upsets>>
    BY DEF Post, cabinet, disk, server, world, faults
  <1>2. Spooled' = Spooled /\ Stored' = Stored
    BY <1>1 DEF Spooled, Stored
  <1>3. Types'
    BY <1>1 DEF Types
  <1>4. OnDisk' /\ PassOpen'
    BY <1>1, <1>2 DEF OnDisk, PassOpen
  <1>5. ReplyTrue' /\ NothingWrong' /\ QuarantineJustified'
    <2>1. reply' \notin {200, 201} /\ reply' \notin 400..499
      BY <1>1 DEF Sent
    <2>2. ReplyTrue'
      BY <1>1, <2>1 DEF ReplyTrue
    <2>3. NothingWrong' /\ QuarantineJustified'
      BY <1>1, <2>1 DEF NothingWrong, QuarantineJustified
    <2> QED BY <2>2, <2>3
  <1> QED BY <1>1, <1>2, <1>3, <1>4, <1>5 DEF Bank!vars

\* A crash forgets the pass and leaves both disks alone; the request that was
\* under way may go on.
LEMMA CrashKeeps ==
    ASSUME IInv, Crash
    PROVE  IInv' /\ UNCHANGED Bank!vars
  <1> USE DEF IInv
  <1>1. /\ pass' = <<>> /\ reply' = None
        /\ UNCHANGED <<rows, submitted, failed, runs, secret, wrong, upsets>>
        /\ \/ orphans' = orphans
           \/ reply = Sent /\ orphans' = [orphans EXCEPT ![Head(pass)] = @ + 1]
    BY DEF Crash, Orphaned, disk, world
  <1>2. Spooled' = Spooled /\ Stored' = Stored
    BY <1>1 DEF Spooled, Stored
  <1>3. orphans' \in [Sessions -> Nat] /\ \A s \in Sessions : orphans'[s] > 0 => s \in Spooled
    <2>1. CASE orphans' = orphans
      BY <2>1 DEF Types, OnDisk
    <2>2. CASE reply = Sent /\ orphans' = [orphans EXCEPT ![Head(pass)] = @ + 1]
      <3>1. pass # <<>>
        BY <2>2 DEF ReplyTrue, None, Sent
      <3>2. Head(pass) \in Sessions /\ Head(pass) \in Spooled
        <4>1. 1 \in DOMAIN pass /\ Head(pass) = pass[1]
          BY <3>1 DEF Types
        <4> QED BY <4>1, SpooledType DEF PassOpen
      <3> QED BY <2>2, <3>2 DEF Types, OnDisk
    <2> QED BY <1>1, <2>1, <2>2
  <1>4. Types'
    BY <1>1, <1>3 DEF Types
  <1>5. OnDisk' /\ PassOpen'
    BY <1>1, <1>2, <1>3 DEF OnDisk, PassOpen
  <1>6. ReplyTrue' /\ NothingWrong' /\ QuarantineJustified'
    <2>1. ReplyTrue'
      BY <1>1 DEF ReplyTrue, None
    <2>2. reply' \notin 400..499
      BY <1>1 DEF None
    <2>3. NothingWrong' /\ QuarantineJustified'
      BY <1>1, <2>2 DEF NothingWrong, QuarantineJustified
    <2> QED BY <2>1, <2>3
  <1> QED BY <1>1, <1>2, <1>4, <1>5, <1>6 DEF Bank!vars

-----------------------------------------------------------------------------
\* Every step keeps the invariant, and is one of the bank's or none.
LEMMA NextKeeps ==
    ASSUME IInv, PassPosted, [Next]_vars
    PROVE  IInv' /\ PassPosted' /\ [Bank!Next]_(Bank!vars)
  <1> DEFINE Goal == IInv' /\ [Bank!Next]_(Bank!vars)
  <1> SUFFICES Goal /\ PassPosted'
    OBVIOUS
  <1>1. ASSUME NEW s \in Sessions, InsertRun(s) PROVE Goal /\ PassPosted'
    BY <1>1, InsertRunKeeps DEF Bank!Next, InsertRun, task, PassPosted
  <1>2. ASSUME NEW s \in Sessions, HandleOrphan(s) PROVE Goal /\ PassPosted'
    <2>1. PICK status \in Statuses, t \in 0..secret.file : Handle(s, t, status)
      BY <1>2 DEF HandleOrphan
    <2>2. /\ orphans[s] > 0 /\ orphans' = [orphans EXCEPT ![s] = @ - 1]
          /\ UNCHANGED <<rows, submitted, failed, at, pass, reply, token, secret, wrong, upsets>>
      BY <1>2 DEF HandleOrphan, cabinet, disk, task, world, faults
    <2>3. s \in Spooled
      BY <2>2 DEF IInv, OnDisk
    <2>4. IInv' /\ (Bank!Store(s) \/ UNCHANGED Bank!vars)
      BY <2>1, <2>2, <2>3, HandledKeeps
    <2> QED BY <2>2, <2>4 DEF Bank!Next, PassPosted
  <1>3. CASE Answer
    <2>1. /\ reply = Sent /\ reply' \in Statuses /\ Handle(Head(pass), token, reply')
          /\ UNCHANGED <<rows, submitted, failed, at, pass, orphans, token, secret, wrong, upsets>>
      BY <1>3 DEF Answer, cabinet, disk, world, faults
    <2>2. pass # <<>>
      BY <2>1 DEF IInv, ReplyTrue, None, Sent
    <2>3. 1 \in DOMAIN pass /\ Head(pass) = pass[1]
      BY <2>2 DEF IInv, Types
    <2>4. Head(pass) \in Sessions /\ Head(pass) \in Spooled
      BY <2>3, SpooledType DEF IInv, PassOpen
    <2>5. IInv' /\ (Bank!Store(Head(pass)) \/ UNCHANGED Bank!vars)
      BY <2>1, <2>2, <2>4, HandledKeeps
    <2> QED BY <2>1, <2>4, <2>5 DEF Bank!Next, PassPosted
  <1>4. CASE Accepted \/ Rejected \/ Transient
    <2>1. at' = at
      BY <1>4 DEF Accepted, Rejected, Transient
    <2> QED BY <1>4, <2>1, ReplyKeeps DEF Bank!Next, PassPosted
  <1>5. CASE Post
    BY <1>5, PostKeeps DEF PassPosted, Post
  <1>6. CASE Crash
    BY <1>6, CrashKeeps DEF PassPosted, Crash
  <1>7. CASE Sweep
    <2>1. pass = <<>> /\ reply = None
      BY <1>7 DEF Sweep, PassPosted, IInv, ReplyTrue
    <2> QED BY <1>7, <2>1, SweepKeeps DEF PassPosted, Sweep
  <1>8. CASE Open \/ Kick \/ Wake \/ BackoffEnds \/ UNCHANGED vars
    <2>1. /\ UNCHANGED <<rows, submitted, failed, runs, orphans, pass, reply>>
          /\ UNCHANGED <<token, secret, wrong, upsets>>
      BY <1>8 DEF Open, Kick, Wake, BackoffEnds, vars, cabinet, disk, task, server, world, faults
    <2>2. PassPosted'
      BY <1>8, <2>1 DEF Open, Kick, Wake, BackoffEnds, PassPosted, vars, task
    <2> QED BY <2>1, <2>2, QuietKeeps
  <1>9. CASE EndPass
    <2>1. /\ pass = <<>> /\ UNCHANGED <<secret, wrong, upsets>>
          /\ UNCHANGED <<rows, submitted, failed, runs, orphans, pass, reply>>
      BY <1>9 DEF EndPass, cabinet, disk, server, world, faults
    <2> QED BY <2>1, QuietKeeps DEF PassPosted
  <1>10. ASSUME NEW side \in {"file", "server"}, Rotate(side) PROVE Goal /\ PassPosted'
    <2>1. /\ UNCHANGED <<rows, submitted, failed, runs, orphans, pass, reply, at>>
          /\ upsets' = upsets + 1 \/ (upsets' = upsets /\ secret.file # secret.server)
      BY <1>10 DEF Rotate, cabinet, disk, task
    <2>2. upsets' = upsets + 1 \/ (upsets > 0 /\ upsets' = upsets)
      BY <2>1 DEF IInv, NothingWrong, Types
    <2> QED BY <2>1, <2>2, QuietKeeps DEF PassPosted
  <1>11. ASSUME NEW what \in {"clock", "address"}, Upset(what) PROVE Goal /\ PassPosted'
    <2>1. /\ UNCHANGED <<rows, submitted, failed, runs, orphans, pass, reply, at>>
          /\ upsets' = upsets + 1 \/ (upsets' = upsets /\ wrong # {})
      BY <1>11 DEF Upset, cabinet, disk, task
    <2>2. upsets' = upsets + 1 \/ (upsets > 0 /\ upsets' = upsets)
      BY <2>1 DEF IInv, NothingWrong, Types
    <2> QED BY <2>1, <2>2, QuietKeeps DEF PassPosted
  <1> HIDE DEF Goal
  <1> QED
    <2>1. CASE Submitter
      BY <2>1, <1>4, <1>5, <1>7, <1>8, <1>9 DEF Submitter
    <2>2. CASE Open \/ Kick \/ Answer \/ Crash \/ UNCHANGED vars
      BY <2>2, <1>3, <1>6, <1>8
    <2>3. CASE \E s \in Sessions : InsertRun(s) \/ HandleOrphan(s)
      BY <2>3, <1>1, <1>2
    <2>4. CASE \/ \E side \in {"file", "server"} : Rotate(side)
               \/ \E what \in {"clock", "address"} : Upset(what)
      BY <2>4, <1>10, <1>11
    <2> QED BY <2>1, <2>2, <2>3, <2>4 DEF Next

LEMMA InitKeeps == Init => IInv /\ PassPosted /\ Bank!Init
  <1> SUFFICES ASSUME Init PROVE IInv /\ PassPosted /\ Bank!Init
    OBVIOUS
  <1>1. rows \in Seq(Rows) /\ \A i, j \in DOMAIN rows : i = j
    <2>1. CASE rows = <<>>
      BY <2>1
    <2>2. ASSUME NEW s \in Sessions, rows = <<[session |-> s, created_at |-> 1, rowid |-> 1]>>
          PROVE  rows \in Seq(Rows) /\ \A i, j \in DOMAIN rows : i = j
      <3>1. [session |-> s, created_at |-> 1, rowid |-> 1] \in Rows
        BY DEF Rows
      <3> QED BY <2>2, <3>1
    <2> QED BY <2>1, <2>2 DEF Init
  <1>2. /\ runs = <<>> /\ pass = <<>> /\ submitted = {} /\ failed = {} /\ reply = None
        /\ orphans = [s \in Sessions |-> 0] /\ upsets = 0 /\ wrong = {}
        /\ secret = [file |-> 0, server |-> 0]
    BY DEF Init
  <1>3. Stored = {}
    BY <1>2 DEF Stored
  <1>4. Types
    BY <1>1, <1>2 DEF Types
  <1>5. OnDisk /\ PassOpen /\ ReplyTrue
    BY <1>1, <1>2, <1>3 DEF OnDisk, PassOpen, ReplyTrue
  <1>6. NothingWrong /\ QuarantineJustified /\ PassPosted
    BY <1>2 DEF NothingWrong, QuarantineJustified, PassPosted, None
  <1>7. Bank!Init
    BY <1>2, <1>4, SpooledType DEF Bank!Init
  <1> QED BY <1>4, <1>5, <1>6, <1>7 DEF IInv

\* The invariant, for any number of crashes, faults and requests nobody waits for.
THEOREM Inductive == Spec => [](IInv /\ PassPosted)
  <1>1. IInv /\ PassPosted /\ [Next]_vars => (IInv /\ PassPosted)'
    BY NextKeeps
  <1> QED BY <1>1, InitKeeps, PTL DEF Spec

\* QuarantineJustified, for every value of the constants.
THEOREM QuarantineJustifiedSafe == Spec => []QuarantineJustified
  BY Inductive, PTL DEF IInv

\* BankSpec, for every value of the constants: a run is on the board at most once,
\* is called submitted only when it is there, and is settled once.
THEOREM ImplementsBank == Spec => BankSpec
  <1>1. IInv /\ PassPosted /\ [Next]_vars => [Bank!Next]_(Bank!vars)
    BY NextKeeps
  <1> QED BY <1>1, Inductive, InitKeeps, PTL DEF Spec, BankSpec, Bank!Spec
=============================================================================
