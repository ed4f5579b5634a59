--------------------------- MODULE MCLeaderboard ---------------------------
(* Three cabinets; two of them send the same session with different initials. *)
EXTENDS Leaderboard, TLC

CONSTANTS h1, h2

Sub(session, cabinet_id, initials) ==
    [session |-> session, cabinet_id |-> cabinet_id, initials |-> initials]

MCHandlers == {h1, h2}
MCSubmissions == {Sub("s1", "a", "ACE"), Sub("s1", "b", "BOB"), Sub("s2", "c", "CAT")}
MCSymmetry == Permutations(MCHandlers)
=============================================================================
