----------------------------- MODULE MCSession -----------------------------
(* The windows in the order of the code's (grace < idle < stall < watchdog),  *)
(* so close together that each guard can fire while another shuts the run     *)
(* down.  A death lingers longer than a quit.  Near differs from Start by one *)
(* unit on both axes, Away by two from Near and three from Start on one axis, *)
(* and Fight is Start with another counter.                                   *)
EXTENDS Session

MCLinger == [kind \in Terminals |-> IF kind = "RunQuit" THEN 0 ELSE 1]

Report(x, y, counters) == [px |-> x, py |-> y, counters |-> counters]
MCReports == {Report(0, 0, 0), Report(1, 1, 0), Report(1, 3, 0), Report(0, 0, 1)}

\* One window set and the other mistyped in every way there is, so that both windows
\* are the same whichever it is; and the same without a pk3.
Env(pk3, walk, silence) == [pk3 |-> pk3, idle |-> walk, stall |-> silence]
Typos == {Unset, Empty, Text, Secs(0)}
MCEnvironments ==
    {Env(pk3, Secs(DEFAULT_IDLE), raw) : pk3 \in {Text, Empty}, raw \in Typos}
        \cup {Env(Text, raw, Secs(DEFAULT_STALL)) : raw \in Typos}
=============================================================================
