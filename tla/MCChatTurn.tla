----------------------------- MODULE MCChatTurn -----------------------------
(* Two turns whose browsers declare the same tool, and agents that reuse the   *)
(* names of sessions and also call a telemetry tool.                           *)
EXTENDS ChatTurn, TLC

CONSTANTS t1, t2, show, query, s1, s2, c1

Declared == [t \in {t1, t2} |-> {show}]

Symmetry == Permutations({t1, t2}) \cup Permutations({s1, s2})

=============================================================================
