------------------------------- MODULE Config -------------------------------
(***************************************************************************)
(* What a session takes from the supervisor's environment                  *)
(* (Config::from_lookup in crates/supervisor/src/config.rs).  A raw value  *)
(* is unset, empty, a text that is no number of seconds (negative, out of  *)
(* range and garbage alike), or a number.                                  *)
(***************************************************************************)
EXTENDS Integers

CONSTANTS
    DEFAULT_IDLE,    \* DEFAULT_IDLE_TIMEOUT_SECS
    DEFAULT_STALL    \* DEFAULT_STALL_TIMEOUT_SECS

ASSUME ConfigAssumption == {DEFAULT_IDLE, DEFAULT_STALL} \subseteq Nat \ {0}

Unset == [is |-> "unset"]
Empty == [is |-> "empty"]
Text == [is |-> "text"]
Secs(n) == [is |-> "secs", n |-> n]

\* from_lookup takes an empty value for one that is not set.
Get(raw) == IF raw.is = "empty" THEN Unset ELSE raw

\* A window of 0 seconds would fire at once: it falls back like every other typo.
ParseSecs(value, default) ==
    IF value.is = "secs" /\ value.n > 0 THEN value.n ELSE default

FromLookup(env) ==
    [pk3 |-> Get(env.pk3) # Unset,
     idle_timeout |-> ParseSecs(Get(env.idle), DEFAULT_IDLE),
     stall_timeout |-> ParseSecs(Get(env.stall), DEFAULT_STALL)]
=============================================================================
