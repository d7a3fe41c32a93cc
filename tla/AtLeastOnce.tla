---------------------------- MODULE AtLeastOnce ----------------------------
(***************************************************************************)
(* The delivery guarantee of the ingester (RFC 0007): a consumer of        *)
(* partitioned logs acknowledges a record only when every span of it and   *)
(* of the records before it is disposed of, for good.  How spans are       *)
(* disposed of, how often and in which order, is left open.                *)
(***************************************************************************)
EXTENDS Integers, Sequences

CONSTANTS
    Partitions,
    Spans,
    Log         \* Log[p]: the records of partition p, each a set of spans

VARIABLES
    disposed,   \* the spans disposed of
    acked       \* acked[p]: how many records of p are acknowledged

vars == <<disposed, acked>>

Init ==
    /\ disposed \subseteq Spans
    /\ acked = [p \in Partitions |-> 0]

Dispose ==
    /\ disposed' \in SUBSET Spans
    /\ disposed \subseteq disposed'
    /\ UNCHANGED acked

Acknowledge ==
    /\ \E p \in Partitions : \E n \in acked[p]..Len(Log[p]) :
         /\ \A i \in 1..n : Log[p][i] \subseteq disposed
         /\ acked' = [acked EXCEPT ![p] = n]
    /\ UNCHANGED disposed

Next == Dispose \/ Acknowledge

Spec == Init /\ [][Next]_vars
=============================================================================
