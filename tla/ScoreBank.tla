----------------------------- MODULE ScoreBank -----------------------------
(***************************************************************************)
(* What the spool, the submitter and the leaderboard promise together: a   *)
(* run is put on the board at most once, only after it was spooled, and is *)
(* settled on the cabinet (submitted or quarantined) once.                 *)
(***************************************************************************)
EXTENDS Naturals, Sequences

CONSTANT Sessions

VARIABLES
    spooled,      \* runs written to the cabinet's disk
    board,        \* runs on the leaderboard, in order of arrival
    submitted,    \* runs the cabinet knows to be on the board
    failed        \* runs the cabinet has given up

vars == <<spooled, board, submitted, failed>>

OnBoard(s) == \E i \in DOMAIN board : board[i] = s

Init == spooled \in SUBSET Sessions /\ board = <<>> /\ submitted = {} /\ failed = {}

Spool(s) ==
    /\ s \notin spooled
    /\ spooled' = spooled \cup {s}
    /\ UNCHANGED <<board, submitted, failed>>

Store(s) ==
    /\ s \in spooled
    /\ ~OnBoard(s)
    /\ board' = Append(board, s)
    /\ UNCHANGED <<spooled, submitted, failed>>

Settle(s) ==
    /\ s \in spooled \ (submitted \cup failed)
    /\ \/ OnBoard(s) /\ submitted' = submitted \cup {s} /\ UNCHANGED failed
       \/ failed' = failed \cup {s} /\ UNCHANGED submitted
    /\ UNCHANGED <<spooled, board>>

Next == \E s \in Sessions : Spool(s) \/ Store(s) \/ Settle(s)

Spec == Init /\ [][Next]_vars
=============================================================================
