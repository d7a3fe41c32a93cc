----------------------------- MODULE SpanWriter -----------------------------
(***************************************************************************)
(* core.SpanWriter over a synchronous batch writer: concurrent WriteSpans  *)
(* calls share one cache of the service:operation pairs already written.   *)
(* A call assembles a document per span, and one per pair that the cache   *)
(* does not hold, hands them to the batch writer, attributes the rejected  *)
(* documents to spans, and marks the cache once its batch is settled.      *)
(* Purge empties the storage and the cache under the calls' feet.          *)
(***************************************************************************)
EXTENDS BulkVerdict, WriteOutcome

CONSTANTS
    Callers,      \* the goroutines that call WriteSpans
    Spans,        \* the span documents, told apart by content
    Pairs,        \* the service:operation lookup documents
    Pair,         \* Pair[s]: the lookup document of span s
    Key,          \* Key[s]: the ids that span s is reported by, and maybe a sibling
    Unencodable,  \* the spans with a value JSON cannot carry
    Batches       \* bound: the sets of spans that calls are made with

ASSUME WriterAssumption ==
    /\ Docs = Spans \cup Pairs
    /\ Spans \cap Pairs = {}
    /\ Pair \in [Spans -> Pairs]
    /\ Key \in [Spans -> Keys]
    /\ Unencodable \subseteq Spans
    /\ Batches \subseteq SUBSET Spans

VARIABLES
    dropPoison,  \* the batch writer drops what the backend rejects
    stored,      \* the documents in the storage
    cache,       \* serviceCache
    purging,     \* Purge has deleted the indices and not yet cleared the cache
    pc,          \* where each call stands
    spans,       \* its argument
    todo,        \* the spans it has still to assemble
    items,       \* the documents it has assembled
    keys,        \* serviceOps.keys: the pairs among them
    outcome,     \* what it returns
    \* History, read by the properties alone:
    overlapped,  \* the calls in flight at some point of a purge
    suspect      \* the pairs such a call has marked since the purge

callVars == <<pc, spans, todo, items, keys, outcome>>
vars == <<dropPoison, stored, cache, purging, callVars, overlapped, suspect>>

\* Seeded fault: every span of a batch with a rejection is reported.
poisonKeysAll(v, docs) == {Key[s] : s \in docs \cap Spans}

\* The ids of the spans among the rejected documents; docs is itemIDToSpan's
\* domain.
poisonKeys(v, docs) == {Key[s] : s \in v.terminal \cap docs \cap Spans}

\* Seeded fault: an _id that is not known is taken for a lookup document's.
unidentifiedNever(v, docs) == FALSE

\* A rejected _id that names no document of the batch: it could be a span.
unidentified(v, docs) == ~(v.terminal \subseteq docs)

\* The error of a batch whose documents are docs.  A rejected lookup document
\* is not reported.
attributeRejections(v, docs) ==
    IF v.kind = "rejected" /\ v.terminal # {}
    THEN IF poisonKeys(v, docs) = {} /\ ~unidentified(v, docs)
         THEN Outcome(IF v.transient THEN "failed" ELSE "ok")
         ELSE [kind |-> "rejected", spans |-> poisonKeys(v, docs),
               transient |-> v.transient, unidentified |-> unidentified(v, docs)]
    ELSE Outcome(IF v.kind = "ok" THEN "ok" ELSE "failed")

\* Seeded fault: a batch that will be retried counts as settled.
batchSettledEarly(o) == o.kind = "ok" \/ (o.kind = "rejected" /\ ~o.unidentified)

\* The batch will not be written again.
batchSettled(o) == o.kind = "ok" \/ OnlyReportedSpans(o)

Init ==
    /\ dropPoison \in BOOLEAN
    /\ stored = {} /\ cache = {} /\ purging = FALSE
    /\ pc = [c \in Callers |-> "idle"]
    /\ spans = [c \in Callers |-> {}] /\ todo = [c \in Callers |-> {}]
    /\ items = [c \in Callers |-> {}] /\ keys = [c \in Callers |-> {}]
    /\ outcome = [c \in Callers |-> Outcome("ok")]
    /\ overlapped = {} /\ suspect = {}

\* WriteSpans(ctx, b) begins.
WriteSpans(c, b) ==
    /\ pc[c] = "idle"
    /\ pc' = [pc EXCEPT ![c] = "assembling"]
    /\ spans' = [spans EXCEPT ![c] = b]
    /\ todo' = [todo EXCEPT ![c] = b]
    /\ overlapped' = IF purging THEN overlapped \cup {c} ELSE overlapped
    /\ UNCHANGED <<dropPoison, stored, cache, purging, items, keys, outcome, suspect>>

\* toUpsertItem: the lookup document is due unless the cache, as it is now, or
\* this batch already has it.
due(c, s) == {Pair[s]} \ (cache \cup keys[c])

\* One iteration of the loop, which reads the shared cache.  A span that cannot
\* be encoded is left out of the batch; its lookup document is not.
Assemble(c, s) ==
    /\ pc[c] = "assembling" /\ s \in todo[c]
    /\ todo' = [todo EXCEPT ![c] = @ \ {s}]
    /\ keys' = [keys EXCEPT ![c] = @ \cup due(c, s)]
    /\ items' = [items EXCEPT ![c] = @ \cup due(c, s) \cup ({s} \ Unencodable)]
    /\ UNCHANGED <<dropPoison, stored, cache, purging, pc, spans, outcome,
                   overlapped, suspect>>

\* The loop is over: WriteBatch is called and returns an honest verdict on the
\* documents, and the rejections are attributed.
WriteBatch(c, v) ==
    /\ pc[c] = "assembling" /\ todo[c] = {}
    /\ outcome' = [outcome EXCEPT ![c] = attributeRejections(v, items[c])]
    /\ pc' = [pc EXCEPT ![c] = "settling"]
    /\ UNCHANGED <<dropPoison, stored, cache, purging, spans, todo, items, keys,
                   overlapped, suspect>>

\* Seeded fault: the cache is marked whatever the outcome.
committedAlways(c) == keys[c]

\* Seeded fault: the documents are marked, spans included.
committedItems(c) == IF batchSettled(outcome[c]) THEN items[c] ELSE {}

\* The pairs that the end of call c puts in the cache.
committed(c) == IF batchSettled(outcome[c]) THEN keys[c] ELSE {}

\* The cache is marked, and the call returns: its locals are gone.
Settle(c) ==
    /\ pc[c] = "settling"
    /\ cache' = cache \cup committed(c)
    /\ suspect' = IF c \in overlapped THEN suspect \cup committed(c) ELSE suspect
    /\ pc' = [pc EXCEPT ![c] = "idle"]
    /\ spans' = [spans EXCEPT ![c] = {}]
    /\ items' = [items EXCEPT ![c] = {}]
    /\ keys' = [keys EXCEPT ![c] = {}]
    /\ outcome' = [outcome EXCEPT ![c] = Outcome("ok")]
    /\ overlapped' = overlapped \ {c}
    /\ UNCHANGED <<dropPoison, stored, purging, todo>>

\* The storage indexes a document: one of a request in flight, one of a request
\* that was given up on, or one that another collector has sent.
Store(d) ==
    /\ d \notin Unencodable
    /\ stored' = stored \cup {d}
    /\ UNCHANGED <<dropPoison, cache, purging, callVars, overlapped, suspect>>

\* A cache entry outlives its TTL or is evicted.
Forget(p) ==
    /\ p \in cache
    /\ cache' = cache \ {p}
    /\ UNCHANGED <<dropPoison, stored, purging, callVars, overlapped, suspect>>

\* Purge deletes the indices, or fails to, ...
PurgeIndices ==
    /\ ~purging
    /\ purging' = TRUE
    /\ stored' \in {{}, stored}
    /\ overlapped' = {c \in Callers : pc[c] # "idle"}
    /\ UNCHANGED <<dropPoison, cache, callVars, suspect>>

\* ... and clears the cache in either case.
ClearCache ==
    /\ purging
    /\ purging' = FALSE
    /\ cache' = {} /\ suspect' = {}
    /\ UNCHANGED <<dropPoison, stored, callVars, overlapped>>

Next ==
    \/ \E c \in Callers :
         \/ \E b \in Batches : WriteSpans(c, b)
         \/ \E s \in Spans : Assemble(c, s)
         \/ \E v \in HonestVerdicts(items[c], stored, dropPoison) : WriteBatch(c, v)
         \/ Settle(c)
    \/ \E d \in Docs : Store(d)
    \/ \E p \in Pairs : Forget(p)
    \/ PurgeIndices \/ ClearCache

Spec == Init /\ [][Next]_vars

----------------------------------------------------------------------------
(* Properties. *)

TypeOK ==
    /\ dropPoison \in BOOLEAN /\ purging \in BOOLEAN
    /\ stored \subseteq Docs
    /\ cache \subseteq Pairs
    /\ pc \in [Callers -> {"idle", "assembling", "settling"}]
    /\ spans \in [Callers -> SUBSET Spans]
    /\ todo \in [Callers -> SUBSET Spans]
    /\ items \in [Callers -> SUBSET Docs]
    /\ keys \in [Callers -> SUBSET Pairs]
    /\ outcome \in [Callers -> Outcomes]
    /\ overlapped \subseteq Callers /\ suspect \subseteq Pairs

\* A lookup document that a later span may rely on: it is there, or the backend
\* rejects it and a second attempt would not change that.
Available(p) == p \in stored \cup Rejectable

\* The cache suppresses a lookup document only where it is available: no call
\* that failed, or whose batch will be retried, has marked it.  The exceptions
\* are a purge in progress, and the pairs that a call which was in flight
\* during a purge marks after it.
CacheIsJustified ==
    ~purging => \A p \in cache \ suspect : Available(p)

\* What a caller may acknowledge: when a call settles, each of its spans is
\* stored, or could not be encoded, or is rejected, by the writer's decision in
\* drop mode and by a report that names its ids in fail mode.
Disposed(c, s) ==
    \/ s \in stored \cup Unencodable
    \/ s \in Rejectable /\ (dropPoison \/ Key[s] \in outcome[c].spans)

SettledSpansAreDisposed ==
    \A c \in Callers :
      pc[c] = "settling" /\ batchSettled(outcome[c]) /\ c \notin overlapped
        => \A s \in spans[c] : Disposed(c, s)

\* A settled call leaves its spans findable: the lookup document of each one is
\* available, whether this call wrote it or trusted the cache that another
\* call, perhaps a later one, has marked or that has since expired.
SettledSpansAreFindable ==
    \A c \in Callers :
      pc[c] = "settling" /\ batchSettled(outcome[c]) /\ c \notin overlapped
        => \A s \in spans[c] : Available(Pair[s]) \/ Pair[s] \in suspect

\* Only spans of the batch are reported, and only ones that are rejected or
\* share their ids with one that is: a caller finds every report in its batch.
ReportsNameTheBatch ==
    \A c \in Callers :
      pc[c] = "settling" =>
        outcome[c].spans \subseteq {Key[s] : s \in spans[c] \cap Rejectable}

\* RFC 0007, section 4.8, says of a rejected lookup document that "a later span
\* re-creates it": the cache would not hold a pair whose document is missing.
RejectedLookupIsSentAgain ==
    ~dropPoison /\ ~purging => cache \ suspect \subseteq stored

\* The comment on Purge says that it clears the cache so that no entry left
\* behind suppresses the lookup document for the next write.
PurgeLeavesNoStaleEntry == ~purging => \A p \in cache : Available(p)
=============================================================================
