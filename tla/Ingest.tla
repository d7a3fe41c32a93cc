------------------------------- MODULE Ingest -------------------------------
(***************************************************************************)
(* The at-least-once ingester: Kafka receiver, sending queue and retry of  *)
(* the exporter helper, and jaeger_storage_exporter over a synchronous     *)
(* storage writer, as an exporter or as a connector that re-routes the     *)
(* spans the storage rejects to a dead-letter pipeline.                    *)
(* The receiver, the helper and the sink are external: they behave as the  *)
(* repository's ingester configurations set them up (offsets marked after  *)
(* processing, wait_for_result, one queue consumer, retries without end).  *)
(* The writer behaves as SpanWriter is shown to.                           *)
(***************************************************************************)
EXTENDS WriteOutcome, Integers, Sequences

CONSTANTS
    Partitions,   \* the partitions of the topic
    Spans,        \* the spans in it
    Log,          \* Log[p]: the records of partition p, each a set of spans
    Key,          \* Key[s]: the ids of span s, which a sibling may share
    Rejectable,   \* the spans the storage may reject terminally
    Unencodable,  \* the spans the writer cannot encode
    Modes,        \* the deployments to consider, among AllModes
    MaxFaults     \* bound: crashes and lost answers of the sink

\* The exporter with poison_pill_handling fail or drop, and the connector.
AllModes == {"fail", "drop", "connector"}

ASSUME IngestAssumption ==
    /\ Log \in [Partitions -> Seq(SUBSET Spans)]
    /\ Key \in [Spans -> Keys]
    /\ Rejectable \subseteq Spans /\ Unencodable \subseteq Spans
    /\ Modes \subseteq AllModes
    /\ MaxFaults \in Nat

VARIABLES
    mode,       \* the deployment
    stored,     \* the spans in the storage
    dead,       \* dead[s]: how often the sink has accepted s
    committed,  \* committed[p]: the records of p whose offsets are committed
    marked,     \* marked[p]: the records of p that are processed
    waiting,    \* the partitions whose next record is in ConsumeTraces
    batch,      \* those whose record is in the batch being exported
    pc,         \* where the queue's consumer stands
    poison,     \* the spans handed to the dead-letter pipeline
    faults      \* the faults so far

vars == <<mode, stored, dead, committed, marked, waiting, batch, pc, poison, faults>>

BatchSpans == UNION {Log[p][marked[p] + 1] : p \in batch}
KeysOf(S) == {Key[s] : s \in S}

----------------------------------------------------------------------------
(* The receiver and the exporter helper (external). *)

Init ==
    /\ mode \in Modes
    /\ stored = {} /\ dead = [s \in Spans |-> 0]
    /\ committed = [p \in Partitions |-> 0] /\ marked = [p \in Partitions |-> 0]
    /\ waiting = {} /\ batch = {} /\ pc = "idle" /\ poison = {}
    /\ faults = 0

\* The consumer of a partition passes on one record, and waits for its result.
Consume(p) ==
    /\ p \notin waiting /\ marked[p] < Len(Log[p])
    /\ waiting' = waiting \cup {p}
    /\ UNCHANGED <<mode, stored, dead, committed, marked, batch, pc, poison, faults>>

\* The batcher merges waiting records, and the one queue consumer exports them.
Flush(B) ==
    /\ pc = "idle" /\ B # {} /\ B \subseteq waiting
    /\ batch' = B
    /\ pc' = "writing"
    /\ UNCHANGED <<mode, stored, dead, committed, marked, waiting, poison, faults>>

\* What the partitions' offsets become when their batch is exported.
advanced == [p \in Partitions |-> IF p \in batch THEN marked[p] + 1 ELSE marked[p]]

\* Seeded fault: the error of the write is returned though the spans that it
\* names have been re-routed, and the batch is retried.
DoneRetried ==
    /\ pc' = "writing" /\ poison' = {}
    /\ UNCHANGED <<marked, waiting, batch>>

\* The export returned nil: every merged caller gets that result, and the
\* receiver marks its record.
Done ==
    /\ marked' = advanced
    /\ waiting' = waiting \ batch
    /\ batch' = {} /\ pc' = "idle" /\ poison' = {}

\* Marked offsets are committed from time to time.
Commit(p) ==
    /\ committed[p] < marked[p]
    /\ committed' = [committed EXCEPT ![p] = marked[p]]
    /\ UNCHANGED <<mode, stored, dead, marked, waiting, batch, pc, poison, faults>>

\* What the sink holds once it has the spans that are handed to it.
delivered == [s \in Spans |-> dead[s] + (IF s \in poison THEN 1 ELSE 0)]

\* The ingester dies; its successor resumes at the committed offsets.  Spans on
\* their way to the sink may have reached it.
Crash ==
    /\ faults < MaxFaults
    /\ faults' = faults + 1
    /\ dead' \in {dead, delivered}
    /\ marked' = committed
    /\ waiting' = {} /\ batch' = {} /\ pc' = "idle" /\ poison' = {}
    /\ UNCHANGED <<mode, stored, committed>>

----------------------------------------------------------------------------
(* TraceWriter.WriteTraces, and the connector's writeTraces. *)

\* The storage stores a span of the batch.
Store(s) ==
    /\ pc = "writing" /\ s \in BatchSpans \ (stored \cup Unencodable)
    /\ stored' = stored \cup {s}
    /\ UNCHANGED <<mode, dead, committed, marked, waiting, batch, pc, poison, faults>>

\* The outcomes that the writer may return for spans S (SpanWriter's
\* SettledSpansAreDisposed and ReportsNameTheBatch).
WriterOutcomes(S) ==
    LET missing == S \ (stored \cup Unencodable)
    IN  {o \in Outcomes :
           /\ o.kind = "ok" => missing \subseteq (IF mode = "drop" THEN Rejectable ELSE {})
           /\ o.kind = "rejected" =>
                /\ mode # "drop"
                /\ o.spans \subseteq KeysOf(S \cap Rejectable)
                /\ OnlyReportedSpans(o) =>
                     missing \subseteq {s \in Rejectable : Key[s] \in o.spans}}

\* Seeded fault: the transient failures of the batch are not looked at.
reroutableEarly(o) ==
    /\ mode = "connector"
    /\ o.kind = "rejected" /\ ~o.unidentified
    /\ o.spans \subseteq KeysOf(BatchSpans)

\* Seeded fault: the connector returns the rejection like the exporter.
reroutableNever(o) == FALSE

\* The connector re-routes; the exporter returns the error as it is.
reroutable(o) ==
    /\ mode = "connector"
    /\ OnlyReportedSpans(o)
    /\ o.spans \subseteq KeysOf(BatchSpans)

\* Seeded fault: one span per reported key, and so not always the rejected one.
selectSpansOne(o) ==
    {s \in BatchSpans : Key[s] \in o.spans /\ s = (CHOOSE x \in BatchSpans : Key[x] = Key[s])}

\* Seeded fault: the reported ids are passed on in place of the spans.
selectSpansReported(o) == o.spans

\* selectSpans: every span of the batch that has the ids of a reported one.
selectSpans(o) == {s \in BatchSpans : Key[s] \in o.spans}

\* The write succeeds, or rejects nothing that is left to re-route.
WriteSettles(o) ==
    /\ pc = "writing" /\ o \in WriterOutcomes(BatchSpans)
    /\ o.kind = "ok" \/ (reroutable(o) /\ selectSpans(o) = {})
    /\ Done
    /\ UNCHANGED <<mode, stored, dead, committed, faults>>

\* The rejected spans go to the dead-letter pipeline.  Any other outcome is an
\* error: the helper retries the batch, which leaves everything as it is.
Reroute(o) ==
    /\ pc = "writing" /\ o \in WriterOutcomes(BatchSpans)
    /\ reroutable(o) /\ selectSpans(o) # {}
    /\ pc' = "rerouting"
    /\ poison' = selectSpans(o)
    /\ UNCHANGED <<mode, stored, dead, committed, marked, waiting, batch, faults>>

\* The sink takes the spans, and the batch is complete.
SinkAccepts ==
    /\ pc = "rerouting"
    /\ dead' = delivered
    /\ Done
    /\ UNCHANGED <<mode, stored, committed, faults>>

\* The sink fails, before or after it has kept the spans: the whole batch is
\* retried, the write included.
SinkFails ==
    /\ pc = "rerouting"
    /\ pc' = "writing"
    /\ poison' = {}
    /\ \/ UNCHANGED <<dead, faults>>
       \/ faults < MaxFaults /\ faults' = faults + 1 /\ dead' = delivered
    /\ UNCHANGED <<mode, stored, committed, marked, waiting, batch>>

----------------------------------------------------------------------------

Next ==
    \/ \E p \in Partitions : Consume(p) \/ Commit(p)
    \/ \E B \in SUBSET Partitions : Flush(B)
    \/ \E s \in Spans : Store(s)
    \/ \E o \in Outcomes : WriteSettles(o) \/ Reroute(o)
    \/ SinkAccepts \/ SinkFails
    \/ Crash

Spec == Init /\ [][Next]_vars

\* The receiver, the batcher, the retries and the commits go on.  The storage
\* comes back: it stores what it does not reject, and one of the unending
\* retries meets a definite answer.  The sink, offered the spans over and over,
\* accepts them some time.  The bound on the faults makes them finite.
FairSpec ==
    /\ Spec
    /\ \A p \in Partitions : WF_vars(Consume(p)) /\ WF_vars(Commit(p))
    /\ WF_vars(\E B \in SUBSET Partitions : Flush(B))
    /\ \A s \in Spans \ Rejectable : WF_vars(Store(s))
    /\ WF_vars(\E o \in Outcomes : WriteSettles(o) \/ Reroute(o))
    /\ SF_vars(SinkAccepts)

----------------------------------------------------------------------------
(* Properties. *)

TypeOK ==
    /\ mode \in Modes
    /\ stored \subseteq Spans \ Unencodable
    /\ dead \in [Spans -> Nat]
    /\ \A p \in Partitions :
         /\ committed[p] \in 0..marked[p]
         /\ marked[p] \in 0..Len(Log[p])
         /\ p \in waiting => marked[p] < Len(Log[p])
    /\ waiting \subseteq Partitions /\ batch \subseteq waiting
    /\ pc \in {"idle", "writing", "rerouting"}
    /\ (pc = "idle") = (batch = {})
    /\ poison \subseteq Spans
    /\ faults \in 0..MaxFaults

\* A span is disposed of when it is stored; when it is rejected and the sink has
\* it, or the deployment drops it; and when it cannot be encoded.  That the sink
\* has a healthy span, the sibling of a rejected one, does not count.
Disposed ==
    stored \cup Unencodable
           \cup {s \in Rejectable : mode = "drop" \/ dead[s] > 0}

\* The ingester delivers at least once: across merged batches, retries, sink
\* failures and crashes, the committed offset never passes a span that is
\* neither stored nor in the dead-letter sink nor lost by a rule.
Delivery == INSTANCE AtLeastOnce WITH disposed <- Disposed, acked <- committed

DeliversAtLeastOnce == Delivery!Spec

\* The offset is not even marked over such a span, so that no commit, however
\* early, can let a crash lose it.
MarkedIsDisposed ==
    \A p \in Partitions : \A i \in 1..marked[p] : Log[p][i] \subseteq Disposed

\* The sink gets a span once, unless a crash rewinds the partition or the sink
\* fails after it has kept the spans: retries that the connector causes itself,
\* for transient failures of the batch, repeat nothing.
DeadLetteredOnce == \A s \in Spans : dead[s] <= 1 + faults

\* Poison blocks no partition: with the connector or in drop mode, every record
\* is committed once the storage and the sink are back.
PartitionsDrain ==
    \A p \in Partitions : (mode # "fail") ~> (committed[p] = Len(Log[p]))
=============================================================================
