---------------------------- MODULE MCThroughput ----------------------------
(* Two collectors whose clocks differ by a tick, and rows that take up to a  *)
(* tick to land: the delay is the shortest one that is Settled.              *)
EXTENDS Throughput, TLC

CONSTANTS c1, c2, s1, s2

MCCollectors == {c1, c2}
MCSpans == {s1, s2}
MCSkew == c1 :> 0 @@ c2 :> 1
SpanSymmetry == Permutations(MCSpans)
=============================================================================
