--------------------------- MODULE SyncBulkWriter ---------------------------
(***************************************************************************)
(* esclient.SyncBulkWriter: WriteBatch packs the documents of a batch into *)
(* size-bounded _bulk requests, sends them in sequence, classifies every   *)
(* per-document result and aggregates the failures into one verdict.       *)
(* The backend is external: it stores documents when it likes, and answers *)
(* a request truthfully, or not at all.                                    *)
(***************************************************************************)
EXTENDS BulkVerdict, Integers, Sequences, FiniteSets, Functions

CONSTANTS
    Unencodable,  \* the documents json.Marshal refuses
    Size,         \* Size[d]: the bytes of d's two NDJSON lines
    MaxBytes,     \* the cap on the bytes of a request
    MaxLen,       \* bound: the length of a batch
    Results       \* the per-document results a response may carry

ASSUME WriterAssumption ==
    /\ Unencodable \subseteq Docs
    /\ Size \in [Docs -> Nat]
    /\ MaxBytes \in Nat \ {0}
    /\ MaxLen \in Nat
    \* entries: how many action entries the result has (one, when well formed);
    \* named: whether it carries the _id of the document it is about.
    /\ Results \subseteq
         [entries : Nat, status : Nat, error : BOOLEAN, named : BOOLEAN]

VARIABLES
    dropPoison,  \* w.dropPoison, fixed by the configuration
    pc,          \* where WriteBatch stands
    items,       \* its argument
    next,        \* the index of the document to pack next
    first,       \* the chunk is items[first .. next-1]
    chunkBytes,  \* len(chunk)
    terminal,    \* bulkErr.Terminal, by _id
    transient,   \* bulkErr.Transient
    errs,        \* errs is not empty
    succeeded,   \* the documents counted as durable
    ctxDone,     \* ctx.Err() is not nil
    verdict,     \* what WriteBatch returned
    counted,     \* what the last call added to its three counters
    stored       \* the documents the backend holds

callVars == <<items, next, first, chunkBytes, terminal, transient, errs, succeeded>>
vars == <<dropPoison, pc, callVars, ctxDone, verdict, counted, stored>>

----------------------------------------------------------------------------
(* The backend (external). *)

\* The statuses by which a healthy document may be refused for now.
Backpressure == {0, 429, 500, 502, 503, 504}

\* Whether result r may be given for document d when the backend holds stored:
\* an acknowledgement and a conflict are about a document that is there, a
\* document that is always acceptable is refused only with backpressure, and a
\* result without exactly one action entry says nothing.
Truthful(r, d) ==
    r.entries = 1 =>
      \/ r.status \in 200..299 /\ ~r.error /\ d \in stored
      \/ r.status = 409 /\ d \in stored
      \/ r.status \in Backpressure
      \/ r.status \notin Backpressure \cup {409} /\ (r.status \in 200..299 => r.error)
           /\ d \in Rejectable

----------------------------------------------------------------------------
(* classify and its helpers. *)

\* Seeded fault: durability assumed from the absence of an error object.
itemResultAssumed(r) ==
    IF r.entries = 1 THEN [status |-> r.status, durable |-> ~r.error]
                     ELSE [status |-> 0, durable |-> TRUE]

itemResult(r) ==
    IF r.entries = 1 THEN [status |-> r.status,
                           durable |-> r.status \in 200..299 /\ ~r.error]
                     ELSE [status |-> 0, durable |-> FALSE]

isTransientStatus(status) == status \in {0, 429, 500, 502, 503, 504}

\* A conflict is neither kind of failure: the document is already there.
failure(r) == ~itemResult(r).durable /\ itemResult(r).status # 409

TransientFailure(r) == failure(r) /\ isTransientStatus(itemResult(r).status)
TerminalFailure(r) == failure(r) /\ ~isTransientStatus(itemResult(r).status)

\* The _id a terminal rejection is listed under: the one in the response.
ReportedID(r, d) == IF r.named THEN d ELSE UnknownDoc

\* Seeded fault: the refused documents of the chunk are counted with the rest.
durableCountAll(n, failed) == n

\* Seeded fault: the document that overflowed the chunk is counted with it.
durableCountNext(n, failed) == n + 1 - failed

\* The documents sendChunk counts as durable among the n it sent, of which
\* failed were refused.
durableCount(n, failed) == n - failed

----------------------------------------------------------------------------

chunkLen == next - first
Positions == first..(next - 1)
Returned == verdict.kind # "none"

Init ==
    /\ dropPoison \in BOOLEAN
    /\ pc = "returned"
    /\ items = <<>> /\ next = 1 /\ first = 1 /\ chunkBytes = 0
    /\ terminal = {} /\ transient = FALSE /\ errs = FALSE /\ succeeded = 0
    /\ ctxDone = FALSE
    /\ verdict = Plain("ok")
    /\ counted = [attempts |-> 0, inserts |-> 0, errors |-> 0]
    /\ stored = {}

\* WriteBatch(ctx, b).  An empty batch returns nil before anything is counted.
WriteBatch(b) ==
    /\ pc = "returned"
    /\ items' = b
    /\ next' = 1 /\ first' = 1 /\ chunkBytes' = 0
    /\ terminal' = {} /\ transient' = FALSE /\ errs' = FALSE /\ succeeded' = 0
    /\ counted' = [attempts |-> 0, inserts |-> 0, errors |-> 0]
    /\ IF b = <<>> THEN pc' = "returned" /\ verdict' = Plain("ok") /\ ctxDone' = FALSE
                   ELSE pc' = "loop" /\ verdict' = Plain("none") /\ ctxDone' \in BOOLEAN
    /\ UNCHANGED <<dropPoison, stored>>

\* The caller's deadline or cancellation fires.
Cancel ==
    /\ ~Returned /\ ~ctxDone
    /\ ctxDone' = TRUE
    /\ UNCHANGED <<dropPoison, pc, callVars, verdict, counted, stored>>

\* One iteration stops the loop and drops the pending chunk: the context is
\* done, or the document cannot be encoded.
Abandon ==
    /\ pc = "loop" /\ next <= Len(items)
    /\ ctxDone \/ items[next] \in Unencodable
    /\ errs' = TRUE
    /\ first' = next /\ chunkBytes' = 0
    /\ pc' = "finish"
    /\ UNCHANGED <<dropPoison, items, next, terminal, transient, succeeded, ctxDone,
                   verdict, counted, stored>>

\* Seeded fault: the cap is compared before the document is added.
OverflowsLate == chunkLen > 0 /\ chunkBytes > MaxBytes

Overflows == chunkLen > 0 /\ chunkBytes + Size[items[next]] > MaxBytes

\* The document joins the chunk, either at once or after the flush that its
\* size called for; the context is not looked at again in between.
Pack ==
    /\ \/ pc = "loop" /\ next <= Len(items) /\ ~ctxDone
          /\ items[next] \notin Unencodable /\ ~Overflows
       \/ pc = "append"
    /\ next' = next + 1
    /\ chunkBytes' = chunkBytes + Size[items[next]]
    /\ pc' = "loop"
    /\ UNCHANGED <<dropPoison, items, first, terminal, transient, errs, succeeded, ctxDone,
                   verdict, counted, stored>>

\* flush posts the chunk: when the next document would overflow it, or when
\* the loop is over.
Send ==
    /\ pc = "loop"
    /\ \/ next <= Len(items) /\ ~ctxDone /\ items[next] \notin Unencodable /\ Overflows
       \/ next > Len(items) /\ chunkLen > 0
    /\ pc' = "sending"
    /\ UNCHANGED <<dropPoison, callVars, ctxDone, verdict, counted, stored>>

\* What follows a flush: the document that overflowed, or the end of the call.
AfterFlush == IF next <= Len(items) THEN "append" ELSE "finish"

\* The backend stores a document: one it was sent, however long ago, or one
\* that another writer sent.
Store(d) ==
    /\ d \notin Unencodable
    /\ stored' = stored \cup {d}
    /\ UNCHANGED <<dropPoison, pc, callVars, ctxDone, verdict, counted>>

\* The request fails as a whole: a transport error, a timeout, a non-2xx, a
\* body that does not parse, or one with the wrong number of results.
RequestFails ==
    /\ pc = "sending"
    /\ errs' = TRUE
    /\ first' = next /\ chunkBytes' = 0
    /\ pc' = AfterFlush
    /\ UNCHANGED <<dropPoison, items, next, terminal, transient, succeeded, ctxDone,
                   verdict, counted, stored>>

\* The response carries one result per document.  Its failures are merged into
\* bulkErr; drop mode leaves the terminal ones out.
Respond(results) ==
    LET Failing(Kind(_)) == {p \in Positions : Kind(results[p])}
        poison == Failing(TerminalFailure)
        retriable == Failing(TransientFailure)
    IN
    /\ pc = "sending"
    /\ \A p \in Positions : Truthful(results[p], items[p])
    /\ succeeded' = succeeded + durableCount(chunkLen, Cardinality(poison \cup retriable))
    /\ transient' = (transient \/ retriable # {})
    /\ terminal' = terminal \cup
         (IF dropPoison THEN {} ELSE {ReportedID(results[p], items[p]) : p \in poison})
    /\ first' = next /\ chunkBytes' = 0
    /\ pc' = AfterFlush
    /\ UNCHANGED <<dropPoison, items, next, errs, ctxDone, verdict, counted, stored>>

\* Seeded fault: a chunk that failed as a whole does not make the rejection
\* transient, so a caller that re-routes the poison acknowledges its documents.
joinedItemsOnly(term, trans, other) ==
    IF term # {} \/ trans
    THEN [kind |-> "rejected", terminal |-> term, transient |-> trans]
    ELSE Plain(IF other THEN "failed" ELSE "ok")

\* Seeded fault: terminal rejections alone are no error in fail mode either.
joinedTransientOnly(term, trans, other) ==
    IF trans
    THEN [kind |-> "rejected", terminal |-> term, transient |-> TRUE]
    ELSE Plain(IF other THEN "failed" ELSE "ok")

\* errors.Join of errs and bulkErr, whose Transient covers the chunks that
\* failed as a whole.
joined(term, trans, other) ==
    IF term # {} \/ trans
    THEN [kind |-> "rejected", terminal |-> term, transient |-> trans \/ other]
    ELSE Plain(IF other THEN "failed" ELSE "ok")

\* The loop is over and nothing is left to flush: count, and return.
Finish ==
    /\ pc = "finish" \/ (pc = "loop" /\ next > Len(items) /\ chunkLen = 0)
    /\ counted' = [attempts |-> Len(items), inserts |-> succeeded,
                   errors |-> Len(items) - succeeded]
    /\ verdict' = joined(terminal, transient, errs)
    /\ pc' = "returned"
    /\ ctxDone' = FALSE
    /\ UNCHANGED <<dropPoison, callVars, stored>>

Batches == UNION {[1..n -> Docs] : n \in 0..MaxLen}

Next ==
    \/ \E b \in Batches : WriteBatch(b)
    \/ Cancel
    \/ Abandon \/ Pack \/ Send \/ Finish
    \/ RequestFails
    \/ \E results \in [Positions -> Results] : Respond(results)
    \/ \E d \in Docs : Store(d)

Spec == Init /\ [][Next]_vars

----------------------------------------------------------------------------
(* Properties. *)

TypeOK ==
    /\ dropPoison \in BOOLEAN
    /\ pc \in {"returned", "loop", "append", "sending", "finish"}
    /\ items \in Seq(Docs)
    /\ next \in 1..(Len(items) + 1)
    /\ first \in 1..next
    /\ chunkBytes \in Nat
    /\ terminal \subseteq Docs \cup {UnknownDoc}
    /\ transient \in BOOLEAN /\ errs \in BOOLEAN
    /\ succeeded \in 0..Len(items)
    /\ ctxDone \in BOOLEAN
    /\ verdict \in Verdicts
    /\ counted \in [attempts : Nat, inserts : Nat, errors : Nat]
    /\ stored \subseteq Docs

\* The writer implements the contract: whatever the chunking, the cancellations
\* and the answers, the verdict tells the truth on every document of the batch.
Contract == INSTANCE BulkContract WITH drop <- dropPoison, batch <- Range(items)

HonestVerdict == Contract!Spec

\* Document p of the batch is spoken for: it is stored, or something that the
\* verdict will carry says that it may not be.
Accounted(p) ==
    \/ items[p] \in stored
    \/ errs \/ transient
    \/ items[p] \in terminal \/ UnknownDoc \in terminal
    \/ dropPoison /\ items[p] \in Rejectable

\* No document is forgotten on the way: every one that has left the chunk is
\* accounted for, so that a lost chunk, a lost merge or a chunk dropped on
\* cancellation cannot end in a verdict that lets the offset advance.
EveryDocumentAccounted ==
    \/ Returned
    \/ /\ \A p \in 1..(first - 1) : Accounted(p)
       /\ pc = "finish" => errs \/ first = Len(items) + 1

\* Inserts never counts a document that is not there, across chunks, rejections
\* and the documents that drop mode discards: the counter is what an operator
\* compares with the receiver's to see loss.
InsertsAreStored ==
    succeeded <= Cardinality({p \in 1..(first - 1) : items[p] \in stored})

\* The counters and the verdict agree: when nothing counts as an error, the
\* verdict is success, and success in fail mode counts every document.
CountersMatchVerdict ==
    Returned /\ counted.attempts > 0 =>
      /\ counted.errors = 0 => verdict.kind = "ok"
      /\ verdict.kind = "ok" /\ ~dropPoison => counted.errors = 0

\* BytesTo(s)[p]: the bytes of the first p documents of s.
BytesTo(s) ==
    LET bytes[p \in 0..Len(s)] == IF p = 0 THEN 0 ELSE bytes[p - 1] + Size[s[p]]
    IN  bytes

\* A request in flight is within the cap, unless one document alone exceeds it.
RequestBounded ==
    pc = "sending" =>
      \/ chunkLen = 1
      \/ BytesTo(items)[next - 1] - BytesTo(items)[first - 1] <= MaxBytes
=============================================================================
