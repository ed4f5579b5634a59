------------------------------ MODULE MCBoards ------------------------------
(* A fake run that nothing beats, and runs of another season with equal values. *)
EXTENDS Boards, TLC

Run(session, season, reason, score, maps, tics, kills, secrets, ended_at) ==
    [session |-> session, season |-> season, reason |-> reason, score |-> score,
     maps |-> maps, tics |-> tics, kills |-> kills, secrets |-> secrets, ended_at |-> ended_at]

MCSeeds == <<Run("f1", "seed", "complete", 9, 5, 1, 9, 9, 9),
             Run("f2", "seed", "death",    1, 1, 3, 1, 1, 8)>>
MCArrivals == {Run("a", "one", "complete", 5, 5, 4, 3, 2, 1),
               Run("b", "one", "death",    5, 2, 2, 4, 2, 1)}

MCALL == <<"deepest", "fastest-clear", "most-kills">>

Query(category, limit, season) == [category |-> category, limit |-> limit, season |-> season]

MCQueries ==
    {Query("all", 0, ""), Query("secret-hunter", 3, "one"), Query("deepest", 9, "one"),
     Query("fastest-clear", 2, "one"), Query("most-kills", 1, "one"),
     Query("no-such", -1, ""), Query("all", -1, "malformed"),
     Query("high-score", -1, "seed")}
=============================================================================
