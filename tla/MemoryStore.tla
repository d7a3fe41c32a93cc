----------------------------- MODULE MemoryStore -----------------------------
(***************************************************************************)
(* The in-memory trace store, for one tenant: a ring of the last MaxTraces *)
(* traces and an index of it by trace id.  Writers store the traces of a   *)
(* batch one by one under the tenant's lock.  Readers collect references   *)
(* to traces under it, and copy the traces after they have released it.    *)
(* Purge replaces the tenant by an empty one, under writers and readers    *)
(* that have looked it up already.                                         *)
(***************************************************************************)
EXTENDS Integers, Sequences, FiniteSets

CONSTANTS
    Writers, Readers,   \* concurrent calls
    TraceIDs, Empty,    \* the ids, and the one whose bytes are all zero
    Spans, TraceOf,     \* the spans that are written, and their trace ids
    MaxTraces,          \* t.config.MaxTraces
    Depths, Matching,   \* the search depths of queries, and the spans they match
    MaxPurges           \* bound: calls of Purge

\* NewStore refuses a MaxTraces of zero.
ASSUME MemoryStoreAssumption ==
    /\ MaxTraces \in Nat \ {0} /\ MaxPurges \in Nat /\ Depths \subseteq Int /\ Matching \subseteq SUBSET Spans
    /\ Empty \in TraceIDs /\ TraceOf \in [Spans -> TraceIDs]

VARIABLES
    tenants,   \* the tenants so far, each but the last purged
    current,   \* the one in st.perTenant
    locked,    \* the writer that holds the lock t.mu of a tenant, in a set
    writer,    \* what each writer does: its tenant, its batch and what is left
    pc,        \* what each reader does
    call,      \* its tenant, its query, and what had been written when it began
    refs,      \* the traces it has found and not yet copied
    before,    \* the spans that its copy under way started from
    got,       \* the spans it has copied
    torn       \* whether a copy raced with a writer

store == <<tenants, current, locked, writer>>
reader == <<pc, call, refs, before, got, torn>>
vars == <<store, reader>>

Slots == 0..MaxTraces - 1
None == -1
Generations == 1..MaxPurges + 1

\* heap: every trace ever created, oldest first; traces: the ring, of
\* references into heap, 0 in a slot that is not filled; known: the spans whose
\* service and operation are listed.
newTenant ==
    [ids |-> [id \in TraceIDs |-> None], traces |-> [i \in Slots |-> 0],
     mostRecent |-> -1, heap |-> <<>>, known |-> {}]

SlotId(t, i) == IF t.traces[i] = 0 THEN Empty ELSE t.heap[t.traces[i]].id

----------------------------------------------------------------------------
(* The tenant. *)

\* Seeded fault: an evicted trace stays in the index.
ForgetNone(ids, id) == ids

\* The id of the trace that is evicted leaves the index.
Forget(ids, id) == IF id = Empty THEN ids ELSE [ids EXCEPT ![id] = None]

\* Seeded fault: what is appended replaces the trace.
GrownOver(trace, spans) == [trace EXCEPT !.spans = spans]

\* A stored trace with more spans.
Grown(trace, spans) == [id |-> trace.id, spans |-> trace.spans \cup spans]

\* Seeded fault: a trace that grows becomes the most recent one.
AppendedTouching(t, id, spans) ==
    LET o == t.traces[t.ids[id]]
    IN  [t EXCEPT !.heap = [t.heap EXCEPT ![o] = Grown(t.heap[o], spans)],
                  !.known = t.known \cup spans, !.mostRecent = t.ids[id]]

\* More spans of a trace that is stored: they go where the index says.
Appended(t, id, spans) ==
    LET o == t.traces[t.ids[id]]
    IN  [ids |-> t.ids, traces |-> t.traces, mostRecent |-> t.mostRecent,
         heap |-> [t.heap EXCEPT ![o] = Grown(t.heap[o], spans)], known |-> t.known \cup spans]

\* Seeded fault: the index counts traces, not slots.
CreatedByCount(t, id, spans) ==
    LET k == (t.mostRecent + 1) % MaxTraces
    IN  [ids |-> [Forget(t.ids, SlotId(t, k)) EXCEPT ![id] = Len(t.heap)],
         traces |-> [t.traces EXCEPT ![k] = Len(t.heap) + 1],
         mostRecent |-> k,
         heap |-> Append(t.heap, [id |-> id, spans |-> spans]),
         known |-> t.known \cup spans]

\* A new trace takes the next slot of the ring.
Created(t, id, spans) ==
    LET k == (t.mostRecent + 1) % MaxTraces
    IN  [ids |-> [Forget(t.ids, SlotId(t, k)) EXCEPT ![id] = k],
         traces |-> [t.traces EXCEPT ![k] = Len(t.heap) + 1],
         mostRecent |-> k,
         heap |-> Append(t.heap, [id |-> id, spans |-> spans]),
         known |-> t.known \cup spans]

\* Seeded fault: the search walks towards older slots from the wrong end.
SlotForwards(t, i) == (t.mostRecent + i) % MaxTraces

\* The i-th slot that a search looks at.
Slot(t, i) == (t.mostRecent - i + MaxTraces) % MaxTraces

Matches(t, query, o) == t.heap[o].spans \cap query.matching # {}

\* Turn i of the loop of findTraceAndIds: it stops at the depth and at the first
\* empty id, and takes the trace if it matches.
SearchTurn(t, query, i, found) ==
    LET o == t.traces[Slot(t, i)]
    IN  IF \/ Len(found) = query.depth
           \/ \E j \in 0..i : SlotId(t, Slot(t, j)) = Empty
           \/ ~Matches(t, query, o)
        THEN found ELSE Append(found, o)

\* findTraceAndIds: found[i] is what i turns have found.
Found(t, query) ==
    LET found[i \in 0..MaxTraces] ==
            IF i = 0 THEN <<>> ELSE SearchTurn(t, query, i - 1, found[i - 1])
    IN  found[MaxTraces]

\* getTraces, for one id.
Lookup(t, id) == IF t.ids[id] = None THEN <<>> ELSE <<t.traces[t.ids[id]]>>

----------------------------------------------------------------------------
(* Calls. *)

WriterIdle == [tenant |-> 0, batch |-> {}, left |-> {}]
NoCall == [tenant |-> 0, query |-> {}, acked |-> {}]

\* A query matches some of the spans; a depth out of range is refused.
SearchQueries ==
    [kind : {"FindTraces", "FindTraceIDs"}, depth : Depths \cap (1..MaxTraces), matching : Matching]
LookupQueries == [kind : {"GetTraces"}, id : TraceIDs]

Init ==
    /\ tenants = [g \in Generations |-> newTenant]
    /\ current = 1
    /\ locked = [g \in Generations |-> {}]
    /\ writer = [w \in Writers |-> WriterIdle]
    /\ pc = [r \in Readers |-> "idle"] /\ call = [r \in Readers |-> NoCall]
    /\ refs = [r \in Readers |-> <<>>]
    /\ before = [r \in Readers |-> {}] /\ got = [r \in Readers |-> {}]
    /\ torn = [r \in Readers |-> FALSE]

SpansOf(t) == UNION {t.heap[o].spans : o \in 1..Len(t.heap)}

InBatches == UNION {writer[w].batch : w \in Writers}

\* The spans whose WriteTraces has returned, of those in the current tenant.
Acknowledged == SpansOf(tenants[current]) \ InBatches

\* WriteTraces is called with spans that are new, and looks up the tenant.
WriteTraces(w) ==
    /\ writer[w].batch = {}
    /\ \E batch \in SUBSET (Spans \ (InBatches \cup UNION {SpansOf(tenants[g]) : g \in Generations})) :
        /\ batch # {}
        /\ writer' = [writer EXCEPT ![w] = [tenant |-> current, batch |-> batch, left |-> batch]]
    /\ UNCHANGED <<tenants, current, locked, reader>>

\* One turn of the loop of storeTraces, which holds the lock from the first to
\* the last; the ids of a batch come in any order.
StoreTrace(w, id) ==
    LET g == writer[w].tenant
        spans == {s \in writer[w].left : TraceOf[s] = id}
        left == writer[w].left \ spans
    IN  /\ spans # {} /\ locked[g] \subseteq {w}
        /\ tenants' = [tenants EXCEPT ![g] = IF @.ids[id] # None
                                             THEN Appended(@, id, spans)
                                             ELSE Created(@, id, spans)]
        /\ locked' = [locked EXCEPT ![g] = IF left = {} THEN {} ELSE {w}]
        /\ writer' = [writer EXCEPT ![w] = IF left = {} THEN WriterIdle ELSE [@ EXCEPT !.left = left]]
        /\ UNCHANGED <<current, reader>>

\* A call looks up the tenant.
Read(r, query) ==
    /\ pc[r] = "idle"
    /\ pc' = [pc EXCEPT ![r] = "collect"]
    /\ call' = [call EXCEPT ![r] = [tenant |-> current, query |-> query, acked |-> Acknowledged]]
    /\ UNCHANGED <<store, refs, before, got, torn>>

\* What a call finds in its tenant.
Refs(t, query) == IF query.kind = "GetTraces" THEN Lookup(t, query.id) ELSE Found(t, query)

\* Under the read lock it takes references to that.  FindTraceIDs needs no more.
Collect(r) ==
    /\ pc[r] = "collect" /\ locked[call[r].tenant] = {}
    /\ refs' = [refs EXCEPT ![r] = Refs(tenants[call[r].tenant], call[r].query)]
    /\ pc' = [pc EXCEPT ![r] =
                 IF refs'[r] = <<>> \/ call[r].query.kind = "FindTraceIDs" THEN "done" ELSE "clone"]
    /\ UNCHANGED <<store, call, before, got, torn>>

SpansAt(r) == tenants[call[r].tenant].heap[Head(refs[r])].spans

\* cloneTrace starts to copy the next trace, without the lock.
StartClone(r) ==
    /\ pc[r] = "clone" /\ refs[r] # <<>>
    /\ pc' = [pc EXCEPT ![r] = "copying"]
    /\ before' = [before EXCEPT ![r] = SpansAt(r)]
    /\ UNCHANGED <<store, call, refs, got, torn>>

\* It ends.  When spans were appended meanwhile, what the copy holds is not
\* defined: no conclusion is drawn from a read that is torn.
EndClone(r) ==
    /\ pc[r] = "copying"
    /\ got' = [got EXCEPT ![r] = @ \cup SpansAt(r)]
    /\ torn' = [torn EXCEPT ![r] = @ \/ SpansAt(r) # before[r]]
    /\ before' = [before EXCEPT ![r] = {}]
    /\ refs' = [refs EXCEPT ![r] = Tail(@)]
    /\ pc' = [pc EXCEPT ![r] = IF Len(refs[r]) = 1 THEN "done" ELSE "clone"]
    /\ UNCHANGED <<store, call>>

\* The call returns, or the consumer of its iterator stops.
Return(r) ==
    /\ pc[r] \in {"done", "clone"}
    /\ pc' = [pc EXCEPT ![r] = "idle"] /\ call' = [call EXCEPT ![r] = NoCall]
    /\ refs' = [refs EXCEPT ![r] = <<>>] /\ got' = [got EXCEPT ![r] = {}]
    /\ torn' = [torn EXCEPT ![r] = FALSE]
    /\ UNCHANGED <<store, before>>

Purge ==
    /\ current <= MaxPurges
    /\ current' = current + 1
    /\ UNCHANGED <<tenants, locked, writer, reader>>

Next ==
    \/ \E w \in Writers : WriteTraces(w) \/ \E id \in TraceIDs : StoreTrace(w, id)
    \/ \E r \in Readers :
        \/ \E query \in SearchQueries \cup LookupQueries : Read(r, query)
        \/ Collect(r) \/ StartClone(r) \/ EndClone(r) \/ Return(r)
    \/ Purge

Spec == Init /\ [][Next]_vars

----------------------------------------------------------------------------
(* Properties. *)

Traces == [id : TraceIDs, spans : SUBSET Spans]
Tenants == [ids : [TraceIDs -> Slots \cup {None}], traces : [Slots -> Nat],
            mostRecent : Slots \cup {-1}, heap : Seq(Traces), known : SUBSET Spans]

\* The index points into the ring and the ring into the heap, calls are for a
\* tenant there is, and at most one writer holds a lock.
TypeOK ==
    /\ tenants \in [Generations -> Tenants]
    /\ \A g \in Generations : \A i \in Slots : tenants[g].traces[i] <= Len(tenants[g].heap)
    /\ current \in Generations
    /\ locked \in [Generations -> SUBSET Writers]
    /\ writer \in [Writers -> [tenant : Generations \cup {0}, batch : SUBSET Spans, left : SUBSET Spans]]

\* How many traces ago the one in slot i was stored.
Age(t, i) == IF i <= t.mostRecent THEN t.mostRecent - i ELSE t.mostRecent - i + MaxTraces

RingOf(t) ==
    \A i \in Slots : t.traces[i] = IF Age(t, i) < Len(t.heap) THEN Len(t.heap) - Age(t, i) ELSE 0

\* The ring holds the MaxTraces traces that were created last, in the order of
\* their creation: storeTraces advances mostRecent for a new trace only.
RingHoldsTheNewest == \A g \in Generations : RingOf(tenants[g])

IndexOf(t) ==
    \A id \in TraceIDs \ {Empty}, i \in Slots : t.ids[id] = i <=> SlotId(t, i) = id

\* The index and the ring agree about every trace, whatever was evicted: so a
\* trace id is in one slot at most.  Spans without a trace id are left out: the
\* slot of their trace looks like one that was never filled, and ids[Empty]
\* outlives it.
IndexMatchesRing == \A g \in Generations : IndexOf(tenants[g])

Unmixed(t) ==
    \A o \in 1..Len(t.heap) : \A s \in t.heap[o].spans : TraceOf[s] \in {t.heap[o].id, Empty}

\* No trace ever gets spans of another trace id, though an index that outlived
\* its trace would send them there.
NothingMixed == \A g \in Generations : Unmixed(tenants[g])

\* The traces that a search may return: those not evicted, that match, and that
\* are newer than the last one without an id.
Eligible(t, query) ==
    {o \in 1..Len(t.heap) :
        /\ o > Len(t.heap) - MaxTraces /\ Matches(t, query, o)
        /\ \A p \in o..Len(t.heap) : t.heap[p].id # Empty}

\* The newest of them, as many as asked for, newest first.
IsNewest(found, eligible, depth) ==
    LET returned == {found[i] : i \in 1..Len(found)}
    IN  /\ Len(found) = IF Cardinality(eligible) < depth THEN Cardinality(eligible) ELSE depth
        /\ \A i, j \in 1..Len(found) : i < j => found[i] > found[j]
        /\ returned \subseteq eligible /\ \A o \in returned, p \in eligible \ returned : p < o

\* Every search finds the newest traces that match, each once and in order,
\* while writers turn the ring.
SearchIsExact ==
    [][\A r \in Readers :
        pc[r] = "collect" /\ pc'[r] # "collect" /\ call[r].query.kind # "GetTraces" =>
            LET t == tenants[call[r].tenant]
            IN  IsNewest(refs'[r], Eligible(t, call[r].query), call[r].query.depth)]_vars

\* Whether a span is in a trace that the ring has dropped.
EvictedFrom(t, s) ==
    \A o \in 1..Len(t.heap) : s \in t.heap[o].spans => o <= Len(t.heap) - MaxTraces

\* GetTraces returns every span of the trace whose WriteTraces had returned when
\* it was called, unless the trace was evicted or the copy raced with a writer.
ReadYourWrites ==
    \A r \in Readers :
        pc[r] = "done" /\ call[r].query.kind = "GetTraces" /\ ~torn[r] =>
            \A s \in {x \in call[r].acked : TraceOf[x] = call[r].query.id /\ TraceOf[x] # Empty} :
                s \in got[r] \/ EvictedFrom(tenants[call[r].tenant], s)

\* The traces that the ring of a tenant holds, oldest first.
Window(t) ==
    LET held == IF Len(t.heap) < MaxTraces THEN Len(t.heap) ELSE MaxTraces
    IN  [i \in 1..held |-> t.heap[Len(t.heap) - held + i]]

\* The store implements the log: whatever the ring, the index, the locks and the
\* late writers do, the current tenant is a queue of the newest traces in which
\* spans find the trace of their id, and a purge leaves it empty.
Log == INSTANCE TraceLog WITH kept <- Window(tenants[current]), Capacity <- MaxTraces

KeepsTheNewest == Log!Spec
=============================================================================
