------------------------------ MODULE Delivery ------------------------------
(***************************************************************************)
(* A finished run on its way from the cabinet to the leaderboard: the      *)
(* spool (crates/supervisor/src/spool.rs), the submitter task              *)
(* (submitter.rs), and the handler of POST /v1/runs with its insert        *)
(* (crates/leaderboard/src/app.rs, db.rs).                                 *)
(*                                                                         *)
(* Spool and leaderboard are on disk.  The supervisor may crash at any     *)
(* step; a request may be lost, answered too late, or handled by the       *)
(* server after the client has given it up, beside a newer copy.  The      *)
(* token may be rotated, on either side first, a clock jump, the address   *)
(* lead to another server.  How long a backoff lasts is left out: it       *)
(* delays a pass and decides nothing else.                                 *)
(***************************************************************************)
EXTENDS Naturals, Sequences, SequencesExt, Functions

CONSTANTS
    Sessions,        \* the runs the cabinet finishes
    Valid,           \* those whose payload the server's validation accepts
    MaxCrashes,      \* bounds on the crashes of the supervisor,
    MaxDbErrors,     \* the failing statements on the spool,
    MaxUpsets,       \* the rotations of the token, jumps of clocks and wrong addresses,
    MaxOrphans       \* and the requests nobody waits for

ASSUME DeliveryAssumption ==
    /\ Valid \subseteq Sessions
    /\ {MaxCrashes, MaxDbErrors, MaxUpsets, MaxOrphans} \subseteq Nat

VARIABLES
    schema,          \* of the spool: "None", "Old" (without failed_at) or "New"
    rows,            \* spooled runs in rowid order: session and created_at
    submitted,       \* sessions with submitted_at set
    failed,          \* sessions with failed_at set
    lost,            \* runs whose insert failed: they are only in the journal
    kicking,         \* the main loop is between insert_run and kick
    permit,          \* the stored permit of the submitter's Notify
    at,              \* "Closed" (no spool yet), "Waiting", "Sweep", "Posting", "Backoff"
    token,           \* which token the pass has read
    pass,            \* what is left of the rows of this pass
    any_failure,
    reply,           \* status of the POST in flight, Sent before the server's answer
    runs,            \* the leaderboard's table, in id order
    orphans,         \* requests per run still on their way, nobody waiting
    secret,          \* the token in the cabinet's file, and the server's: old 0, new 1
    wrong,           \* "clock", "address": what is wrong at present
    crashes, dbErrors, upsets

disk == <<schema, rows, submitted, failed>>
cabinet == <<disk, lost, kicking>>
task == <<permit, at, token, pass, any_failure, reply>>
world == <<secret, wrong>>
server == <<runs, orphans, world>>
faults == <<crashes, dbErrors, upsets>>
vars == <<cabinet, task, server, faults>>

None == 0
Sent == 1

Spooled == {rows[i].session : i \in DOMAIN rows}
Stored == {runs[i] : i \in DOMAIN runs}
DbFails == dbErrors < MaxDbErrors /\ dbErrors' = dbErrors + 1
DbWorks == UNCHANGED dbErrors

-----------------------------------------------------------------------------
\* The spool.  pending orders by created_at as text, then by rowid; a set of one.
Unsettled == {row \in Range(rows) : row.session \notin submitted \cup failed}
Before(r, s) ==
    \/ r.created_at < s.created_at
    \/ r.created_at = s.created_at /\ r.rowid < s.rowid
Pending ==
    {list \in SeqOf(Unsettled, Len(rows)) :
        /\ Range(list) = Unsettled
        /\ \A i, j \in DOMAIN list : i < j => Before(list[i], list[j])}

\* Mutant: a table that is there is taken as it is.
OpenAsItIs == schema' = IF schema = "None" THEN "New" ELSE schema

\* Spool::open creates the table, or adds the column it did not have at first.
OpenSchema == schema' = "New"

\* run_forever tries until it has the spool, starts the submitter and kicks it.
Open ==
    /\ at = "Closed"
    /\ \/ DbWorks /\ OpenSchema /\ at' = "Waiting" /\ permit' = TRUE
       \/ DbFails /\ UNCHANGED <<schema, at, permit>>
    /\ UNCHANGED <<rows, submitted, failed, lost, kicking, token, pass, any_failure, reply,
                   server, crashes, upsets>>

\* The main loop spools a finished run and then kicks the submitter; a run that
\* cannot be spooled is dumped into the journal.  The clock may have been set back
\* since the run before.
InsertRun(s) ==
    /\ at # "Closed" /\ ~kicking
    /\ s \notin Spooled \cup lost
    /\ kicking' = TRUE
    /\ \/ /\ DbWorks
          /\ \E created_at \in {t \in 0..1 : rows = <<>> => t = 1} :
                rows' = Append(rows, [session |-> s, created_at |-> created_at,
                                      rowid |-> Len(rows) + 1])
          /\ UNCHANGED lost
       \/ DbFails /\ lost' = lost \cup {s} /\ UNCHANGED rows
    /\ UNCHANGED <<schema, submitted, failed, task, server, crashes, upsets>>

Kick ==
    /\ kicking
    /\ kicking' = FALSE
    /\ permit' = TRUE
    /\ UNCHANGED <<disk, lost, at, token, pass, any_failure, reply, server, faults>>

-----------------------------------------------------------------------------
\* The submitter.  It wakes on the permit or after the interval.
Wake ==
    /\ at = "Waiting"
    /\ at' = "Sweep"
    /\ permit' = FALSE
    /\ UNCHANGED <<cabinet, token, pass, any_failure, reply, server, faults>>

\* Read before every pass; without one, POSTs go without.
ReadToken == secret.file

\* One round of the sweep: what is pending now, with the token of now, or an error
\* that ends the sweep.
Sweep ==
    /\ at = "Sweep"
    /\ \/ /\ DbWorks /\ schema = "New"
          /\ IF Unsettled = {}
             THEN at' = "Waiting" /\ UNCHANGED <<token, pass, any_failure>>
             ELSE /\ \E list \in Pending : pass' = [i \in DOMAIN list |-> list[i].session]
                  /\ at' = "Posting" /\ any_failure' = FALSE
                  /\ token' = ReadToken
       \/ /\ DbFails \/ (DbWorks /\ schema # "New")
          /\ at' = "Waiting" /\ UNCHANGED <<token, pass, any_failure>>
    /\ UNCHANGED <<cabinet, permit, reply, server, crashes, upsets>>

Post ==
    /\ at = "Posting"
    /\ pass # <<>>
    /\ reply = None
    /\ reply' = Sent
    /\ UNCHANGED <<cabinet, permit, at, token, pass, any_failure, server, faults>>

MarkSubmitted ==
    \/ DbWorks /\ submitted' = submitted \cup {Head(pass)}
    \/ DbFails /\ UNCHANGED submitted

MarkFailed ==
    \/ DbWorks /\ failed' = failed \cup {Head(pass)} /\ UNCHANGED any_failure
    \/ DbFails /\ any_failure' = TRUE /\ UNCHANGED failed

Done == pass' = Tail(pass) /\ reply' = None

\* Mutant: an overloaded server's answer condemns the payload.
IsPermanentAny4xx(status) == status \in 400..499

IsPermanentStatus(status) == status \in 400..499 \ {408, 429}

\* post_run: what the status means.  Sent: there was none in time.
PostResult(status) ==
    IF status \in 200..299 THEN "Ok" ELSE IF IsPermanentStatus(status) THEN "Permanent" ELSE "Transient"

\* The POST is over.  A run that could not be marked is posted again.
Accepted ==
    /\ reply # None /\ PostResult(reply) = "Ok"
    /\ MarkSubmitted
    /\ Done
    /\ UNCHANGED <<schema, rows, failed, lost, kicking, permit, at, token, any_failure, server,
                   crashes, upsets>>

\* Mutant: a rejection is retried for ever.
RejectedRetries ==
    /\ reply # None /\ PostResult(reply) = "Permanent"
    /\ any_failure' = TRUE
    /\ Done
    /\ UNCHANGED <<cabinet, permit, at, token, server, faults>>

\* The run is quarantined.
Rejected ==
    /\ reply # None /\ PostResult(reply) = "Permanent"
    /\ MarkFailed
    /\ Done
    /\ UNCHANGED <<schema, rows, submitted, lost, kicking, permit, at, token, server, crashes,
                   upsets>>

\* The client goes, the request goes on.
Orphaned ==
    /\ SumFunction(orphans) < MaxOrphans
    /\ orphans' = [orphans EXCEPT ![Head(pass)] = @ + 1]

\* record_failure changes nothing that is read later, whether it works or fails.
Transient ==
    /\ reply # None /\ PostResult(reply) = "Transient"
    /\ any_failure' = TRUE
    /\ Done
    /\ \/ reply = Sent /\ Orphaned
       \/ UNCHANGED orphans
    /\ UNCHANGED <<cabinet, permit, at, token, runs, world, faults>>

EndPass ==
    /\ at = "Posting"
    /\ pass = <<>>
    /\ at' = IF any_failure THEN "Backoff" ELSE "Sweep"
    /\ any_failure' = FALSE /\ token' = 0
    /\ UNCHANGED <<cabinet, permit, pass, reply, server, faults>>

BackoffEnds ==
    /\ at = "Backoff"
    /\ at' = "Sweep"
    /\ UNCHANGED <<cabinet, permit, token, pass, any_failure, reply, server, faults>>

\* The process is gone and started again: a request it had sent may still arrive.
Crash ==
    /\ crashes < MaxCrashes
    /\ crashes' = crashes + 1
    /\ at' = "Closed" /\ pass' = <<>> /\ any_failure' = FALSE /\ reply' = None
    /\ permit' = FALSE /\ token' = 0
    /\ kicking' = FALSE
    /\ \/ reply = Sent /\ Orphaned
       \/ UNCHANGED orphans
    /\ UNCHANGED <<disk, lost, runs, world, dbErrors, upsets>>

-----------------------------------------------------------------------------
\* Mutant: the insert does not look for the session.
StoreAgain(s) == runs' = Append(runs, s)

\* INSERT .. ON CONFLICT(session) DO NOTHING, with the run's maps in one transaction.
Store(s) == runs' = IF s \in Stored THEN runs ELSE Append(runs, s)

\* What submit_run does with a request of token t, and the status it answers; or
\* what another server says of it.  The limit is shared with everybody else who
\* posts, and the database may be busy.
Handle(s, t, status) ==
    LET fits == s \in Valid /\ "clock" \notin wrong
    IN  \/ status = 404 /\ "address" \in wrong /\ UNCHANGED runs
        \/ status = 401 /\ t # secret.server /\ UNCHANGED runs
        \/ /\ "address" \notin wrong /\ t = secret.server
           /\ \/ status = 429 /\ UNCHANGED runs
              \/ status = 422 /\ ~fits /\ UNCHANGED runs
              \/ status = 500 /\ fits /\ UNCHANGED runs
              \/ status = 201 /\ fits /\ s \notin Stored /\ Store(s)
              \/ status = 200 /\ fits /\ s \in Stored /\ Store(s)

Statuses == {200, 201, 401, 404, 422, 429, 500}

Answer ==
    /\ reply = Sent
    /\ reply' \in Statuses
    /\ Handle(Head(pass), token, reply')
    /\ UNCHANGED <<cabinet, permit, at, token, pass, any_failure, orphans, world, faults>>

\* A request nobody waits for is handled all the same.
HandleOrphan(s) ==
    /\ orphans[s] > 0
    /\ orphans' = [orphans EXCEPT ![s] = @ - 1]
    /\ \E status \in Statuses, t \in 0..secret.file : Handle(s, t, status)
    /\ UNCHANGED <<cabinet, task, world, faults>>

\* The token is rotated: on one side first, and then on the other.
Rotate(side) ==
    /\ secret[side] = 0
    /\ IF secret.file = secret.server THEN upsets < MaxUpsets /\ upsets' = upsets + 1
       ELSE UNCHANGED upsets
    /\ secret' = [secret EXCEPT ![side] = 1]
    /\ UNCHANGED <<cabinet, task, runs, orphans, wrong, crashes, dbErrors>>

\* A clock jumps, or something else answers at the address; or that is put right.
Upset(what) ==
    /\ IF what \in wrong THEN wrong' = wrong \ {what} /\ UNCHANGED upsets
       ELSE upsets < MaxUpsets /\ wrong' = wrong \cup {what} /\ upsets' = upsets + 1
    /\ UNCHANGED <<cabinet, task, runs, orphans, secret, crashes, dbErrors>>

\* A fresh spool, or one with a run in it from before there was failed_at.
Init ==
    /\ \/ schema = "None" /\ rows = <<>>
       \/ schema = "Old" /\ \E s \in Sessions : rows = <<[session |-> s, created_at |-> 1, rowid |-> 1]>>
    /\ submitted = {} /\ failed = {} /\ lost = {}
    /\ kicking = FALSE
    /\ permit = FALSE
    /\ at = "Closed" /\ token = 0 /\ pass = <<>> /\ any_failure = FALSE /\ reply = None
    /\ runs = <<>> /\ orphans = [s \in Sessions |-> 0]
    /\ secret = [file |-> 0, server |-> 0] /\ wrong = {}
    /\ crashes = 0 /\ dbErrors = 0 /\ upsets = 0

Submitter == Wake \/ Sweep \/ Post \/ Accepted \/ Rejected \/ Transient \/ EndPass \/ BackoffEnds

Next ==
    \/ \E s \in Sessions : InsertRun(s) \/ HandleOrphan(s)
    \/ Open \/ Kick \/ Submitter \/ Answer \/ Crash
    \/ \E side \in {"file", "server"} : Rotate(side)
    \/ \E what \in {"clock", "address"} : Upset(what)

\* The main loop opens and kicks, the submitter goes on, and the server, asked again
\* and again about a run, answers some day that it has it, or does not want it.
Settles(s) ==
    /\ reply = Sent /\ Head(pass) = s
    /\ Answer
    /\ reply' \in {200, 201, 401, 404, 422}

Fairness ==
    /\ WF_vars(Open) /\ WF_vars(Kick)
    /\ WF_vars(Wake) /\ WF_vars(Sweep) /\ WF_vars(Post) /\ WF_vars(EndPass)
    /\ WF_vars(Accepted \/ Rejected \/ Transient) /\ WF_vars(BackoffEnds)
    /\ \A s \in Sessions : SF_vars(Settles(s))

Spec == Init /\ [][Next]_vars /\ Fairness

-----------------------------------------------------------------------------
\* Spool, submitter and server implement the bank: a run appears on the board at
\* most once however often it is posted, and is called submitted only when it is
\* on the board, whatever crashes, is lost or is answered late.
Bank == INSTANCE ScoreBank WITH spooled <- Spooled, board <- runs

BankSpec == Bank!Spec

\* As long as nothing is wrong with token, clocks or address, only a run the server
\* cannot accept is quarantined: a busy, limited or unreachable one never costs a run.
QuarantineJustified == upsets = 0 => failed \cap Valid = {}

\* Every run that was spooled, also by an older version, is settled in the end, and
\* a valid one, unless something else was wrong, by being on the board: bad runs do
\* not starve it, and neither a crash nor a lost answer loses it.
Delivered ==
    \A s \in Sessions :
        s \in Spooled ~> \/ s \in submitted /\ s \in Stored
                         \/ s \in failed /\ (s \notin Valid \/ upsets > 0)

\* "Re-POSTing the identical bytes can never succeed" (submitter.rs:193): a
\* quarantined run is one the server's validation refuses for good.
QuarantineIsFinal == failed \cap Valid = {}
=============================================================================
