# TLA+ models of Jaeger's ingestion and coordination code

Jaeger stores and serves distributed traces. Its backend is one binary, built on
the OpenTelemetry Collector, whose pipelines receive spans, batch them, and write
them to a storage; other extensions answer queries and hand out sampling
strategies. This directory models the parts of that code where correctness depends
on the order of events: what may be acknowledged, what a cache may promise, and
who may act as the leader.

The models are translated from the code under `src/`; `PROJECT.json` lists, for
every definition, the lines it stands for.

## 1. Inventory

| Component | State it keeps | Operations | What makes it hard |
|---|---|---|---|
| Synchronous bulk writer (`esclient/sync_bulk.go`, `bulk_error.go`) | the chunk being packed, the failures merged so far, three counters | `WriteBatch` | partial failure, lost answers, cancellation in the middle of a batch |
| Span writer and service:operation cache (`tracestore/core/writer.go`, `service_operation.go`, `factory_base.go`) | one LRU cache shared by all calls | `WriteSpans`, `ClearCache`, `Purge` | concurrent calls, a cache that must not promise more than the storage holds |
| Storage exporter and dead-letter connector (`storageexporter/`) | none of its own; the queue, the batch and the offsets around it | `writeTraces`, `selectSpans` | at-least-once across retries, merged batches, a failing sink and crashes |
| Leader election (`leaderelection/`) and Cassandra lock (`distributedlock/cassandra/`) | `isLeader` per process, a row with a TTL | `acquireLock`, `Close`, `Acquire`, `Forfeit` | time, lost answers, races of expiry and renewal |
| Adaptive sampling (`samplingstrategy/adaptive/`) | throughput counters, throughput buckets, probabilities, cached strategies | `RecordThroughput`, `runCalculation`, `loadProbabilities` | clocks and latency, failed reads, leaders that change, stale probabilities |
| In-memory trace store (`storage/v2/memory/`) | a ring of traces per tenant and an index by trace id | `storeTraces`, `findTraceAndIds`, `getTraces` | references that outlive the read lock, eviction |
| LRU cache (`internal/cache/lru.go`) | a list and a map under one mutex | `Get`, `Put`, `Delete`, `Clear`, `CompareAndSwap` | expiry while an entry is in use |
| Storage extension (`extension/jaegerstorage/`) | factories by name | `TraceStorageFactory`, `Shutdown` | lazy creation against shutdown |
| Asynchronous bulk indexer (`esclient/bulk.go`) | counters; the buffer is a library's | `Add`, `WriteBatch`, `Close` | answers nothing, by design |
| File-based sampling strategies (`samplingstrategy/file/`) | the strategies, swapped atomically | reload, `GetSamplingStrategy` | a reload of a broken file |
| Remote sampling extension, adaptive sampling processor | references to the above | `Start`, `Shutdown`, `ConsumeTraces` | life cycle |
| Badger, Cassandra, ClickHouse and gRPC storages | connections, an index cache (Badger) | reads and writes | conversions more than control |
| Query service and adjusters | none | requests; pure functions on a trace | algorithms on malformed traces |
| AI gateway (`jaegerquery/internal/jaegerai/`) | turns in progress, tools by session, one event stream per turn | prompts, session updates, tool calls, cancellation | three writers of one stream, late calls, early returns |
| Tenancy, authentication, header forwarding; index tools | configuration | checks on a request; HTTP calls | nothing concurrent |

How the parts that are modelled interact:

    Kafka receiver -> queue, batcher, retry -> storage exporter / connector -> dead-letter sink
                                                   |  WriteTraces (one error)
                                                   v
                                   SpanWriter + service cache  <- Purge
                                                   |  WriteBatch (one error)
                                                   v
                                   SyncBulkWriter -> _bulk requests -> Elasticsearch

    aggregators -> rows of throughput -> post-aggregators -> probabilities -> providers
                                              |  IsLeader
                                              v
                              election participant -> Acquire / Forfeit -> Cassandra

    chat handler  -+
    session updates +-> event stream of the turn -> browser
    MCP tool calls -+

In the first of these, each arrow carries one verdict on many items, and
everything above an arrow acts on that verdict alone. What makes the components
correct:

- *Bulk writer*: the error of `WriteBatch` tells the truth on every document of
  the batch, however it was chunked and whatever the backend answered; its
  counters agree with it; no request exceeds the cap except for a single document
  that does so alone.
- *Span writer*: a call that will not be repeated leaves each of its spans stored,
  dropped by a rule, or reported by its ids, and findable through its lookup
  document; the cache never suppresses a document that is missing.
- *Ingester*: no offset passes a span that is not disposed of; a dead letter is
  repeated only after a fault; poison blocks no partition.
- *Election*: a leader holds the lock while its lease can last; two leaders
  overlap only after an error; a clean close gives the lease up; someone leads.
- *Adaptive sampling*: every window of every collector counts what all collectors
  saved in it, windows follow on each other, no span is counted twice; published
  probabilities reach the providers.
- *Memory store*: the index and the ring agree whatever was evicted; a search
  finds the newest matches; a lookup returns what was acknowledged before.
- *AI gateway*: a browser's stream is well formed whoever writes to it; a tool
  call reaches the browser that declared the tool, whole; a turn that ends leaves
  nothing behind.

`PROJECT.json` lists the hazards behind these, each at its line.

## 2. Modules

| Module | What it is |
|---|---|
| `BulkVerdict` | documents, verdicts, and `Honest`, what a verdict implies about the backend; shared by the next four |
| `BulkContract` | abstract: one call at a time, which returns an honest verdict |
| `SyncBulkWriter` | `WriteBatch` step by step; refines `BulkContract` |
| `WriteOutcome` | what `WriteTraces` returns; shared by the next two |
| `SpanWriter` | concurrent `WriteSpans` calls over a batch writer that behaves as `BulkContract` says |
| `AtLeastOnce` | abstract: records are acknowledged in order, and only when their spans are disposed of |
| `Ingest` | the exporter or connector between the receiver and a writer that behaves as `SpanWriter` is shown to; refines `AtLeastOnce` |
| `LeaderElection` | participants, tickers, the lease and its three statements |
| `Throughput` | aggregators and post-aggregators of several collectors over one sampling store |
| `SamplingProvider` | leaders that publish probabilities and providers that load them |
| `TraceLog` | abstract: the last traces, in the order of their creation |
| `MemoryStore` | a tenant's ring and index with concurrent writers, readers and `Purge`; refines `TraceLog` |
| `ChatTurn` | chat handlers, their event streams, session updates and tool calls |
| `*Proofs` | the theorems of the seven detailed modules |
| `Recursion` | induction on the natural numbers and recursive functions, for the proofs |
| `MC*` | the small instances that TLC explores |

The layers compose by contract. `SyncBulkWriter` is shown to implement
`BulkContract`, whose verdicts (`HonestVerdicts`) are what `SpanWriter`'s
`WriteBatch` chooses from. `SpanWriter` is shown to satisfy
`SettledSpansAreDisposed` and `ReportsNameTheBatch`, and these are the two
conditions in `Ingest`'s `WriterOutcomes`.

Definitions marked "Seeded fault" are what a plausible bug would make of the
definition that follows them. They occur in no specification; `PROJECT.json` pairs
each with a property that it breaks, which shows that the property can fail.

### SyncBulkWriter

`pc` is the place in `WriteBatch`: `loop` at the head of the `for`, `sending`
inside `sendChunk`, `append` after a flush that made room for the document at
hand, `finish` after a `break` or the last flush. The chunk is
`items[first..next-1]`. `Abandon` is both `break`s, `Pack` the append, `Send` and
`AfterFlush` the flush, `RequestFails` and `Respond` the ways a `_bulk` request
can end, `Finish` the metrics and `errors.Join`. A response is a function from the
chunk's positions to results, each with the number of action entries, the status,
whether an error object is present and whether the `_id` is given: exactly what
`itemResult`, `isTransientStatus` and `classify` look at.

The backend is external. It stores a document at any moment (`Store`), also after
the request was given up on, and never one that was not encodable. Its answers are
`Truthful`: an acknowledgement or a 409 is about a document that is there, and
only documents in `Rejectable` are refused terminally. That the answer to a
`create` conflict means "already there" rests on the span's `_id` being a hash of
its content, as the comment on `classify` says.

A request that fails as a whole is one action, whatever its cause. Retrying below
`client.request` would only be more requests, and is left out.

### SpanWriter

Each caller runs `WriteSpans`, one `Assemble` per span, `WriteBatch`, `Settle`.
`Assemble` is a step of its own because `toUpsertItem` reads the cache that other
calls and evictions change between two iterations. The spans of a batch are taken
in any order, which the code does in slice order; no property depends on it. The
commit to the cache is one step: the code puts the keys one by one, and nothing
distinguishes a state in between from an eviction (`Forget`) right after.
`WriteBatch` ends and is attributed in one step, since `attributeRejections`
touches locals only; the documents are stored in `Store` steps before.

`Forget` lets any cache entry go at any time: TTL expiry and LRU eviction,
whatever their order. `Purge` is two steps, with the calls in flight between them;
`PurgeIndices` may also fail and leave the documents.

Two history variables record what purges touch: `overlapped`, the calls in flight
during one, and `suspect`, the pairs they mark after it. The invariants say
nothing about those, and the run `span_writer_purge` shows why they cannot.

### Ingest

`mode` is the deployment: the exporter with `poison_pill_handling` `fail` or
`drop`, or the connector over `fail`. The receiver has one record of each
partition in `ConsumeTraces` at a time (`Consume`), the batcher merges any set of
those (`Flush`), one queue consumer exports the batch, and the result goes to
every merged caller (`Done`). These follow the repository's two ingester
configurations, `config-kafka-ingester-sync.yaml` and
`config-kafka-ingester-dead-letter.yaml`: marking after processing and not on
error, `wait_for_result`, `num_consumers: 1`, and retries without a limit. A
failed export is retried by the helper and changes nothing, so it has no action:
the batch stays in `writing`, and the next answer is another choice.

`WriteSettles` and `Reroute` are `writeTraces` up to the call of the next
consumer, `SinkAccepts` and `SinkFails` its two results. The sink may keep spans
and fail all the same. `Crash` rewinds the partitions to the committed offsets;
spans on the way to the sink may have reached it.

### LeaderElection

A participant's loop is `Attempt`, then `Acquired` or `AcquireFails`, then sleep.
`Acquire` is one or two lightweight transactions, each requested, evaluated in
`Serve`, and answered: the INSERT, and the UPDATE if the INSERT finds the row to
be the participant's own. A failure replaces the request or the answer, so that
the statement may have been applied or not. `Close` waits for the loop, which
looks at `closeChan` only between two attempts; `Resign` and `Forfeited` are what
follows.

Time is `Tick`: it ages the lease, the sleeping tickers and the calls in progress
together. A call takes at most `MaxLatency` ticks and a ticker that has fired is
served in the same tick; so `MaxLatency` stands for the round trips and for the
goroutine's delay together. `leaseTTL` cuts the interval to whole seconds as
`int(ttl.Seconds())` does, and a result of 0 means no expiry, as in CQL. An
interval of 0 is excluded: `time.NewTicker` panics on it.

Owner ids are unique to a process (`hostname.AsIdentifier` adds random bytes), so
a restarted collector is another participant.

### Throughput

A collector is `off`, or its aggregation loop is `idle`, `inserting` or `reading`:
a tick takes the aggregator's lock, saves the row and resets the counts
(`SaveThroughput`), takes `endTime` when the insert has returned
(`RunCalculation`), and reads the window (`GetThroughput`, `GetThroughputFails`).
All of that happens under the lock, so that `RecordThroughput` waits; it is
enabled in `idle` alone. A leader's calculation follows under the same lock and
changes nothing here. `Start` is `initializeThroughput`, which reads windows
backwards up to the first that is empty or fails.

The store is Cassandra's as `samplingstore/storage.go` uses it: a row is stamped
when it is inserted, and appears up to `MaxLatency` later (`Land`) or never
(`Lose`, whose error nobody looks at). A window is `ts > start AND ts <= end`, as
in the query. Each host has its clock, `Skew[c]` ahead of time. Counts and
probabilities are abstracted to the set of spans that they count: a sum without an
error is a union of disjoint sets. An interval without spans inserts nothing that
could be counted and has no row.

A last interval is not saved by `Close`, and ingestion waits while the loop holds
the lock over storage calls: both follow the code and neither is a property. The
memory and Badger sampling stores are not modelled; the former keeps only the last
`AggregationBuckets` rows.

### SamplingProvider

Probabilities are the number of the calculation that made them. `leaders` changes
freely within the fault bound, as `LeaderElection` allows two leaders to overlap
after an error. `RunCalculation` and `SaveProbabilities` are the leader's end of
`runCalculation`; `LoadProbabilities` is a round of the provider's loop. The
module has no passing run: it states what the README says of providers, which the
code contradicts, under fairness of the loops only.

### MemoryStore

`tenants[g]` is the g-th tenant object, since `Purge` replaces the map under calls
that have looked theirs up. `heap` holds every trace that was ever created, oldest
first; the ring's slots and the references of a reader are indices of it. That
gives the ring's contents a definition without the ring: the last `MaxTraces` of
the heap. `StoreTrace` is one turn of the loop of `storeTraces`; `locked` is held
from the first to the last, so that no reader sees half of a batch. A batch's
spans of one trace are stored at once, as `reshuffleResourceSpans` groups them.

A reader takes references under the read lock (`Collect`) and copies the traces
without it (`StartClone`, `EndClone`). Go does not define what a copy holds when
spans were appended meanwhile; such a read is marked `torn` and no conclusion is
drawn from it. `FindTraces` yields one trace at a time, so `Return` is possible
between two. An id of zero bytes is a legal span field, and `Empty` here: its
trace looks like a slot never filled, is not forgotten when evicted, and ends
searches.

A search is the loop of `findTraceAndIds`: `SearchTurn` is a turn of it, and `Found`
what `MaxTraces` turns have collected. `SearchIsExact` compares it with a
definition that knows neither slots nor turns (`IsNewest` among `Eligible`). The
refinement of `TraceLog` maps the current tenant to the last `MaxTraces` traces of
its heap (`Window`). Late writers of a purged tenant are stutters there. Spans
with the empty id may go to any trace that is kept, in `TraceLog` too, since the
index entry of the empty id outlives the eviction of its trace.

Spans are written once. A time range, attributes and the other conditions of a
search are `Matching`, the set of spans they hold for.

### ChatTurn

`pc` is the place of a turn in `ServeHTTP`, the deferred calls included:
`closeSession`, `closeTurn` and `hangUp` run last to first, from the place that
the early return has reached. `lock` is `c.mu` of the turn's stream; whoever holds
it has a `queue` of events that `Emit` writes one at a time or, when a write fails
or the request is over, drops for good (`closed`). The entry points differ in
their queues only: `startRun`, `finishRun`, `failRun`, `SessionUpdate`,
`EmitContextualToolCall`. The one to three events of an update about the agent's own
tools are taken together.

An MCP call is `Admit`ted by the turn's endpoint, looked up again by the
middleware (`Resolve`), and emitted on the stream found there, whether or not the
turn has ended since. Agents are external: they send updates and calls when they
like from the start of the connection, name sessions, and may answer or fail any
request. Assumed of them and of the ACP library: a name is not given to another
turn while the session has it, and updates are processed before the prompt's
*answer* is returned, which the comment at `endpoint_chat.go:250` relies on.

`ConnectionLost` is a connection to the agent that breaks while the turn has a
session; one that breaks before is a request that fails. The handler learns of it
from the request that it makes next, or that it is making. Nothing is assumed of the
order then: updates that were received may still be processed, while the handler
fails the run and after it has. So a browser can be sent text after `RUN_ERROR`, and
`RunBracketed` allows that, and only that. The agent is free to give the name of the
lost session to another turn, while the first is on its way to `DeleteForSession`.
`contested` records the turns which are given such a name: `DeclaredToolsAreKnown`
says nothing about them, nor about the lost ones.

`HangUp` closes the connection and returns from the handler, which ends the
request's context, in one step: a write in the short time between the two is not
modelled. A browser that stalls without leaving is not either; a write to it would
block with the lock held.

Three things that the code does and no property forbids: an agent's update may come
before `RUN_STARTED`, and one that comes before a failure has sent the 200 which
`http.Error` then cannot change; a browser's tool call may come after
`RUN_FINISHED`; and a tool of a browser that shadows a telemetry tool falls through
to the latter when the turn has ended.

## 3. Runs

| Run | Question | Result |
|---|---|---|
| `sync_bulk` | is the verdict of `WriteBatch` honest, and do the counters agree? | holds |
| `span_writer` | are the spans of settled calls stored or reported, and findable? | holds |
| `ingest` | is delivery at least once, with nothing lost or stuck? | holds |
| `leader_election` | is the leader backed by the lock, unique, replaced? | holds |
| `throughput` | do all collectors see the same, complete windows? | holds |
| `memory_store` | do ring, index and searches agree, are acknowledged spans found, and are the newest traces kept? | holds |
| `chat_turn` | are streams well formed, and do turns leave nothing behind? | holds |
| `span_writer_lookup` | is a rejected lookup document sent again, as RFC 0007 says? | violated |
| `span_writer_purge` | does a purge leave no stale cache entry? | violated |
| `leader_outage` | is there one leader at most? | violated |
| `provider_of_leader` | does every provider catch up with what is published? | violated |
| `chat_ended_turn` | is a tool call for a turn that has ended answered with an error? | violated |

The five violations are disagreements between the code and what the repository
says of it:

1. RFC 0007 says that a later span re-creates a rejected lookup document; the code
   caches the pair on purpose, as its own comment explains.
2. A `WriteSpans` call in flight during `Purge` marks the cache after it was
   cleared, the situation that the comment on `Purge` gives as its reason for
   clearing it. The lookup document of that pair stays missing until the entry
   expires.
3. A leader whose `Acquire` calls fail stays the leader without a limit in time,
   while another takes over the lease when it expires.
4. The provider of a leader does not load probabilities, nor does its own
   post-aggregator hand them over, so that it serves what it had as a follower for
   as long as it leads. The README of adaptive sampling says that the provider
   periodically reads them. In all-in-one the memory lock makes the only collector
   the leader for ever.
5. A browser's tool call that the middleware has looked up before its turn ends is
   emitted on the ended turn's stream, which drops it, and is answered "dispatched to
   the browser". The comment on `emitUIToolCall` and its test promise an error; they
   speak of a nil stream, which the middleware never passes.

**Bounds, and why they are enough.**

- *sync_bulk*: batches of at most three documents out of four: one that is always
  acceptable, one that is rejected, one larger than the cap, one that cannot be
  encoded, with repetitions. With a cap of four bytes and sizes of two this gives
  full chunks, chunks cut by size, a document alone, and up to three requests per
  batch, so that a failure of each kind can precede or follow one of another.
  Eight results cover each branch of `classify`. Which statuses are worth a retry is
  not in question: `isTransientStatus` names 500, 502, 503 and 504 where the comments
  beside it say 5xx, and the model follows the code.
- *span_writer*: two callers, which are symmetric, since the cache is the only
  thing they share; three spans, two with the same ids and different lookup
  documents, two with the same lookup document; one rejected span and one rejected
  lookup document. Both batches have two spans, and overlap in one. Time is
  unbounded: calls, purges and evictions repeat for ever.
- *ingest*: two partitions with three records and four spans; the rejected span
  and its sibling of the same ids come from different partitions and may or may
  not share a batch. `MaxFaults = 2` bounds crashes and lost answers of the sink
  together: one of each, or two of one, in any order. Retries and plain sink
  failures are not bounded. Deadlock is not an error here: a topic that is drained
  stops.
- *leader_election*: two participants and three faults (errors or crashes), enough
  for a failed renewal, a takeover, and a failed resignation. A second has two
  ticks and the follower's interval is seven, so that the cut to whole seconds
  matters: the lease is six ticks, and exceeds the leader's interval of two by two
  latencies of one with one tick to spare. Without symmetry, as the run has a
  liveness property.

- *throughput*: two collectors, one clock a tick ahead, rows that take up to a
  tick: a delay of three is the least that is `Settled`, so that `WindowsExact` is
  checked with no tick to spare. An interval of one, two buckets and five ticks,
  so that buckets are dropped; two spans, which are symmetric; one fault (a lost
  row, a failed read, or an exit followed by a start that fills windows in).
- *memory_store*: a ring of three, four trace ids with the empty one, and five
  spans: one trace can grow, and be evicted and come back, and the ring wraps
  under two writers, which are symmetric. One reader, as readers do not touch each
  other. Depths at, below and out of the bounds. The search's match set takes in one of the
  growing trace's two spans, so that growth can make a trace match, and leaves out
  the trace without an id. One purge.
- *chat_turn*: two turns with the same tool declared and two session names, both
  symmetric; a tool that is not declared; one MCP call. `MaxActs = 2` bounds session
  updates, MCP requests, browsers that leave and connections that are lost, together;
  failing requests and failing writes have no bound. That is enough for the two texts
  of a message, for one event of one writer within another's, for an update that
  trails a lost connection, and for a session's name to be given to another turn
  after a loss. What more acts at once could do to each other, the theorems cover.
- *chat_ended_turn*: one session name and two acts; the counterexample is one call.
- *provider_of_leader*: two collectors, three calculations, two faults; a
  counterexample needs none of the latter.

**Fairness.** The safety runs assume none. `Ingest!FairSpec` assumes that the
receiver, the batcher, the offset commits and the helper's retries go on (they are
loops without exit conditions: `max_elapsed_time: 0`), that the storage stores
what it does not reject, that one of the unending retries meets a definite answer,
and that a sink which is offered the spans again and again accepts them some time
(strong fairness, as each refusal takes the offer away). `LeaderElection!FairSpec`
assumes that time goes on, and that started participants' goroutines run and their
statements are answered or fail. `Close`, crashes and the start of a participant
are never forced. In both, the bound on the faults is what ends an outage: nothing
is promised during one. `SamplingProvider!FairSpec` assumes that the loops of
running collectors go on, so that its counterexample is not one of a loop that
stops.

## 4. Proofs

TLC explores the instances above. The theorems hold for all values of the
constants under the assumptions that the modules state about them
(`DocsAssumption`, `WriterAssumption`, `IngestAssumption`, `ElectionAssumption`,
`ThroughputAssumption`, `MemoryStoreAssumption`, `ChatAssumption`): any documents
and sizes, any batch length, any number of callers, partitions, participants,
collectors, readers, turns and tool calls, any intervals, any size of the ring,
any number of faults. Each proof follows one pattern: an inductive invariant
`IInv`, with one step for each action.

**`Recursion`.** Two definitions are recursive functions on an interval: the
bytes of a chunk (`BytesTo`) and the turns of a search (`Found`). To the prover
such a function is a `CHOOSE`, and nothing is known of it before a function that
satisfies the equation is shown to exist; that takes induction. The induction
theorems of the library have an operator as a parameter, which the backends cannot
instantiate, so `SetInduction` is stated of a set: one that has 0 and with each
number the next is `Nat`. Its proof takes the intervals `0..n` that end outside
the set: strict inclusion of finite sets is well founded, so one of them is least,
and `0..n - 1` would be smaller. `RecursiveFunction` follows from it: a value and a
step for each index define a function.

**`SyncBulkWriterProofs`.** `TypesHold`, `NoDocumentForgotten` and
`VerdictIsHonest`: the writer implements `BulkContract`. `EveryDocumentAccounted`
is almost inductive; it needs what each place in the code implies (`PcOK`: after a
flush the chunk is empty, and nothing succeeded that has not left the chunk) and
where listed rejections come from (`TerminalOK`: documents of the batch that the
backend rejects; none in drop mode). The lemma `ClassificationIsSound` carries the
argument from answers to documents: a truthful result that is no failure is about
a stored document, one that is terminal about a rejectable one. At `Finish`, the
accounting becomes `Honest` because `joined` adds the chunk failures to
`transient`; every other step is a stutter of the contract, a `Call` or a `Store`.
`CountedIsStored` and `CountersAgree` rest on a second invariant, `CountInv`: a
failure of any kind leaves a document uncounted (`FailureIsUncounted`), and
without one, outside drop mode, every document that has left the chunk is counted.
`RespondCounts` does the counting, by the cardinality of the chunk less its
refused part. `RequestsAreBounded`: the loop's counter `chunkBytes` is the sum of
the sizes in the chunk, and a chunk of more than one document is within the cap,
wherever the loop is (`ChunkOK`); a document is appended only after it was compared.

**`SpanWriterProofs`.** `TypesHold`, `CacheJustified`, `SettledSpansDisposed`,
`SettledSpansFindable`, `ReportsAreOfTheBatch`. The invariant says what a call has
assembled so far (`Assembled`: the spans it has been through, each with its lookup
document or with one the cache vouched for when it was read), and what a settled
outcome disposes of (`SettledOK`). A pair vouched for may have left the cache
since; what stays is that it is available, or suspect. The lemma
`AttributionIsSound` covers the cases of `attributeRejections` once.

**`IngestProofs`.** `TypesHold`, `NothingIsMarkedEarly`, and
`DeliveryIsAtLeastOnce`: the ingester implements `AtLeastOnce`. The invariant adds
to `MarkedIsDisposed` that while spans are on their way to the sink, everything in
the batch is stored, lost by the rule, or among them (`PoisonOK`); so that the
batch is disposed of once the sink accepts. `DeadLettersOnce` has a premise, `SpansAreDistinct`: no two records
of the topic share a span. By `OnceInv`, a span of an unmarked record has been
dead-lettered by faults alone, and what is on its way to the sink is of no marked
record (`BatchIsUnmarked`).

**`LeaderElectionProofs`.** `TypesHold`, `LeadersHoldTheLease`, `LeaderIsUnique`,
`ClosingReleases`. The invariant accounts for time along the way of an answer: an
unread positive answer vouches for a lease with its ttl minus the age of the call
(`AnswersAreBacked`), a leader for one with the ttl minus latency and the time
since its success (`LeadersAreBacked`); a leader without a failed call has
succeeded within an interval and a call (`LeadersAreRecent`); and who neither
leads nor is about to, without a failed call, owns no lease (`OthersHoldNothing`).

**`ThroughputProofs`.** `TypeCorrect`, `Contiguous`, `Exact`, `Once`. `Exact`
rests on `TimeInv`: a row on its way is no older than `MaxLatency` (`Prompt`), no
collector has read past the present minus the delay (`Behind`), and windows are in
order (`Ordered`). A row that is in flight or saved later is then stamped after
the end of every window read so far, which is what `Settled` provides for any pair
of clocks. `Once` needs that a span is in one open interval or one row
(`OneOwner`) and that windows count rows of the store (`FromStore`).

**`MemoryStoreProofs`.** `Newest`, `Indexed`, `NeverMixed`, `ReadsOwnWrites`.
`TenantInv` is proved of each of the operators `Appended` and `Created` first, for
any tenant that satisfies it; the properties' three parts need each other: an
entry of the index that outlived its slot would mix traces, and that the entry
forgotten is the evicted one's needs the ring's contents to be the newest of the
heap. `ReadsOwnWrites` adds what a reader's references and copies hold of the
spans acknowledged when it began (`LookupInv`). `SearchesAreExact` goes through the
turns of a search: what the turns so far have found are the newest of the eligible
traces that they passed, and all of those below the depth (`SearchInv`); by
`TenantInv`, slot `i` back from the most recent holds the `i`-th newest trace
(`SlotAge`), so that each turn adds an older one, and those beyond a gap are never
reached. `StoreIsALog`: the store implements `TraceLog`. A stored batch grows a
trace of the window or creates one, by the same lemmas on `Appended` and `Created`;
that a purge is a step to the empty log needs that no writer has a tenant that does
not exist yet (`FutureInv`).

**`ChatTurnProofs`.** `ToolsKnown`, `NothingLeft`, `CallsWhole`. `CallInv` says that
a call holds a lock exactly while it emits, that of the turn it was looked up for.
`StoreInv` says that the registry is exactly the turns between dial and `closeTurn`,
and that a session's tools are there from publishing to deletion, for the turn that
has the session's name. Two turns have one name only if both are `Shared`, that is,
lost or contested: it is the loss that breaks the link between `inUse` and the
handler's place. `WholeInv` says that stream and queue, put together, are made up of
whole calls, unless the stream was closed.

`MessagesBracketed` and `RunsBracketed` rest on `BracketInv`, which for each turn
relates the stream to everything that may still be written to it. `StreamOK`: the
events written obey both properties, and the queue of whoever holds the lock is one
of the forms that `Message` lists, given whether a message is open in the stream
and whether one is to be open afterwards (`textOpen`). `RunOK`: where the handler
is says whether `RUN_STARTED` and the event that ends the run are written, queued,
or to come. `AgentOK`: once the run is about to end, the agent does not hold the
lock, nor will it, for one of three reasons: its prompt was answered; the browser has
gone, and then nothing is written; or the connection was lost and the run fails
(`Failing`), and then its updates may trail. `MayFollow` states when an event may
come behind a sequence, which for a lost turn (`late`) takes in updates behind
`RUN_ERROR`; `TextRulesKept` and `RunRulesKept` show that it then keeps the
properties, and `MessageStep` that the head of a queue may follow and its tail is
again of one of the forms.

**Only model-checked**: the liveness properties (`PartitionsDrain`,
`LeaderEmerges`): fairness is an `ENABLED` condition, which the prover cannot
handle. Every invariant, action property and refinement of a passing run is a
theorem. The five violations are counterexamples, and have none.

## 5. Not modelled

- Metrics but for the writer's three counters, logs, error texts, and the sample
  of rejection reasons in an error.
- Index rotation: `SpanWriter` has one service index. The cache key does not
  contain the index, so that after a rotation a cached pair is not written to the
  new index before its entry expires; it is listed as a hazard.
- A document that exceeds the backend's own limit and fails its whole request each
  time: `Ingest` assumes that the storage gives a definite answer some time.
- A bulk request that outlives a crash of the ingester: `Ingest` lets the storage
  keep documents only while the batch is being written. A later store could only
  add spans the log still holds, which neither delivery property is about.
- Consumer-group rebalancing, records split over batches by `max_size`, and sinks
  that acknowledge what they do not keep.
- The asynchronous bulk indexer, whose `WriteBatch` returns nil at once and meets
  no contract on durability.
- The calculation of a probability (`percentage_increase_capped_calculator.go`,
  weights, QPS) and its caches: floating-point arithmetic on data, which does not
  change when windows are read or probabilities published. Because of it the model
  does not say what follows when two leaders publish by turns, or when a new
  leader starts from probabilities of its own, which are empty.
- The tenant map and the lists of services and dependencies in the memory store.
  The comment on `MaxTraces` (`memory/config.go:12`) promises no limit for zero,
  which `NewStore` refuses: one of two checks on a number, without behaviour to
  explore.
- An election whose interval is less than a second, so that the TTL is 0, which
  never expires: `LeaderElection` admits such intervals, and its run has none.
- What becomes of a trace whose id is all zeros: `MemoryStore` follows the code in it,
  and the properties except it.
- The several reads by which `initializeThroughput` fills the windows in are one step
  of `Throughput`, and its windows are exact half-open intervals where the query has
  UUIDs of a time. A document id that `attributeRejections` cannot convert is left
  out; the code counts it as unidentified.
- Telemetry tools, permission requests and the WebSocket framing of the AI
  gateway.
- The components marked `not_modelled` in `PROJECT.json`, with the reasons there.

## 6. Plan

What is left, in this order:

1. `LRUCache` against an abstract map with expiry; `SpanWriter`'s `Forget` becomes
   a consequence of it.
2. A composition of `SpanWriter` with `SyncBulkWriter`, without the contract in
   between; index rotation; rebalancing and batches split by `max_size` in
   `Ingest`.
3. `SamplingProvider` composed with `LeaderElection`, and the calculation of a
   probability as an operator on integers against its definition.
4. `StorageExtension` (its `Shutdown` walks the factories without the mutex that
   creation takes) and the reload of sampling strategies, if their life cycles
   leave something to say beyond a mutex.
5. Liveness of a chat turn, under what the agent and the browser owe it.
6. A theorem that an outcome `SpanWriter` settles on is among `Ingest`'s
   `WriterOutcomes`: both state the same two conditions, each over its own state.
