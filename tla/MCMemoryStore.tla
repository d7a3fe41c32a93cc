--------------------------- MODULE MCMemoryStore ---------------------------
(* A ring of three traces, and spans of three traces and of none: one trace  *)
(* has two spans, so it can grow, and be stored again once it was evicted.   *)
EXTENDS MemoryStore, TLC

CONSTANTS w1, w2, r1, A, B, C, NoId, a1, a2, b1, c1, e1

MCWriters == {w1, w2}
MCReaders == {r1}
MCTraceIDs == {A, B, C, NoId}
MCSpans == {a1, a2, b1, c1, e1}
MCTraceOf == a1 :> A @@ a2 :> A @@ b1 :> B @@ c1 :> C @@ e1 :> NoId
MCDepths == {0, 2, 3}
MCMatching == {{a1, b1, c1}}
MCSymmetry == Permutations(MCWriters)
=============================================================================
