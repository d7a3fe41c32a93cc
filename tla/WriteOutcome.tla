---------------------------- MODULE WriteOutcome ----------------------------
(***************************************************************************)
(* What tracestore.Writer.WriteTraces returns: nil ("ok"), an error in     *)
(* which errors.As finds a *RejectedSpansError ("rejected"), or another    *)
(* error ("failed").                                                       *)
(***************************************************************************)

CONSTANT Keys    \* the (trace id, span id) pairs that a rejection is reported by

Outcomes == [kind         : {"ok", "rejected", "failed"},
             spans        : SUBSET Keys,
             transient    : BOOLEAN,
             unidentified : BOOLEAN]

Outcome(kind) ==
    [kind |-> kind, spans |-> {}, transient |-> FALSE, unidentified |-> FALSE]

\* The documents that remain are the reported spans: nothing is to be retried,
\* and nothing was rejected that could be a span and is not reported.
OnlyReportedSpans(o) == o.kind = "rejected" /\ ~o.transient /\ ~o.unidentified
=============================================================================
