------------------------------ MODULE TraceLog ------------------------------
(***************************************************************************)
(* What the in-memory trace store promises of the traces that it holds:    *)
(* it keeps the last Capacity traces, in the order of their creation.      *)
(* Spans go to the trace that is kept under their id; when none is kept,   *)
(* they make a new one, for which the oldest may have to go.               *)
(* Nothing is said of slots, of an index or of locks.                      *)
(***************************************************************************)
EXTENDS Integers, Sequences

CONSTANTS
    TraceIDs, Empty,   \* the trace ids, and the one that stands for none
    Spans, TraceOf,    \* the spans, and their trace ids
    Capacity

VARIABLE kept          \* the traces, oldest first

Init == kept = <<>>

Newest(traces) == IF Len(traces) > Capacity THEN Tail(traces) ELSE traces

\* Spans that have no trace id may be added to any trace: a trace without an id
\* is not told from a slot that was never filled.
Grow(id, spans) ==
    \E i \in 1..Len(kept) :
        /\ kept[i].id = id \/ id = Empty
        /\ kept' = [kept EXCEPT ![i] = [id |-> @.id, spans |-> @.spans \cup spans]]

Create(id, spans) ==
    /\ \A i \in 1..Len(kept) : kept[i].id # id \/ id = Empty
    /\ kept' = Newest(Append(kept, [id |-> id, spans |-> spans]))

Purge == kept' = <<>>

Next ==
    \/ \E id \in TraceIDs : \E spans \in SUBSET {s \in Spans : TraceOf[s] = id} :
        Grow(id, spans) \/ Create(id, spans)
    \/ Purge

Spec == Init /\ [][Next]_kept
=============================================================================
