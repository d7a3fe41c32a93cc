------------------------ MODULE SyncBulkWriterProofs ------------------------
(***************************************************************************)
(* Proofs about SyncBulkWriter: its invariants, and that it implements     *)
(* BulkContract, for every set of documents, every cap and every batch.    *)
(***************************************************************************)
EXTENDS SyncBulkWriter, Recursion, SequenceTheorems, TLAPS

(***************************************************************************)
(* The inductive invariant: the types, what the program counter implies,   *)
(* where the listed rejections come from, and the accounting itself.       *)
(***************************************************************************)
PcOK ==
    /\ pc = "returned" <=> Returned
    /\ pc = "append" => next <= Len(items)
    /\ pc \in {"append", "finish"} => first = next
    /\ succeeded <= first - 1

TerminalOK ==
    /\ terminal \subseteq (Range(items) \cap Rejectable) \cup {UnknownDoc}
    /\ dropPoison => terminal = {}

IInv == TypeOK /\ PcOK /\ TerminalOK /\ EveryDocumentAccounted

USE DocsAssumption, WriterAssumption

(***************************************************************************)
(* A truthful result that classify takes for no failure is about a stored  *)
(* document, and one it takes for terminal about a rejectable one.         *)
(***************************************************************************)
LEMMA ClassificationIsSound ==
    ASSUME NEW r \in Results, NEW d, Truthful(r, d)
    PROVE  /\ failure(r) \/ d \in stored
           /\ TerminalFailure(r) => d \in Rejectable
<1> DEFINE ack == r.status \in 200..299 /\ ~r.error
<1>1. CASE r.entries # 1
  <2>1. itemResult(r) = [status |-> 0, durable |-> FALSE]
    BY <1>1 DEF itemResult
  <2> QED
    BY <2>1 DEF TerminalFailure, failure, isTransientStatus
<1>2. CASE r.entries = 1
  <2>1. itemResult(r).status = r.status
    BY <1>2 DEF itemResult
  <2>2. itemResult(r).durable <=> ack
    BY <1>2 DEF itemResult
  <2>3. CASE ack
    BY <1>2, <2>2, <2>3 DEF Truthful, Backpressure, failure, TerminalFailure
  <2>4. CASE r.status = 409
    BY <1>2, <2>1, <2>4 DEF Truthful, Backpressure, failure, TerminalFailure
  <2>5. CASE ~ack /\ r.status # 409
    <3>1. failure(r)
      BY <2>1, <2>2, <2>5 DEF failure
    <3>2. r.status \in Backpressure \/ d \in Rejectable
      BY <1>2, <2>5 DEF Truthful
    <3> QED
      BY <2>1, <3>1, <3>2 DEF Backpressure, TransientFailure, TerminalFailure,
                              isTransientStatus
  <2> QED
    BY <2>3, <2>4, <2>5
<1> QED
  BY <1>1, <1>2

LEMMA VerdictTypes ==
    /\ Plain("none") \in Verdicts /\ Plain("ok") \in Verdicts /\ Plain("failed") \in Verdicts
    /\ \A term \in SUBSET (Docs \cup {UnknownDoc}), trans \in BOOLEAN, other \in BOOLEAN :
          joined(term, trans, other) \in Verdicts
<1>1. Plain("none") \in Verdicts /\ Plain("ok") \in Verdicts /\ Plain("failed") \in Verdicts
  BY DEF Verdicts
<1>2. ASSUME NEW term \in SUBSET (Docs \cup {UnknownDoc}), NEW trans \in BOOLEAN,
             NEW other \in BOOLEAN
      PROVE  joined(term, trans, other) \in Verdicts
  <2>1. (trans \/ other) \in BOOLEAN
    OBVIOUS
  <2>2. CASE term # {} \/ trans
    BY <2>1, <2>2 DEF joined, Verdicts, Rejections
  <2>3. CASE ~(term # {} \/ trans)
    BY <1>1, <2>3 DEF joined
  <2> QED
    BY <2>2, <2>3
<1> QED
  BY <1>1, <1>2

LEMMA InitEstablishes == Init => IInv
<1> SUFFICES ASSUME Init PROVE IInv
  OBVIOUS
<1>1. TypeOK
  <2>1. verdict \in Verdicts
    BY VerdictTypes DEF Init
  <2>2. items \in Seq(Docs) /\ Len(items) = 0
    BY DEF Init
  <2>3. counted \in [attempts : Nat, inserts : Nat, errors : Nat]
    BY DEF Init
  <2>4. next \in 1..(Len(items) + 1) /\ first \in 1..next /\ succeeded \in 0..Len(items)
        /\ chunkBytes \in Nat
    BY <2>2 DEF Init
  <2>5. /\ pc \in {"returned", "loop", "append", "sending", "finish"}
        /\ dropPoison \in BOOLEAN /\ transient \in BOOLEAN /\ errs \in BOOLEAN
        /\ ctxDone \in BOOLEAN
        /\ stored \subseteq Docs /\ terminal \subseteq Docs \cup {UnknownDoc}
    BY DEF Init
  <2> QED
    BY <2>1, <2>2, <2>3, <2>4, <2>5 DEF TypeOK
<1>2. PcOK /\ TerminalOK /\ EveryDocumentAccounted
  BY DEF Init, PcOK, TerminalOK, EveryDocumentAccounted, Returned, Plain
<1> QED
  BY <1>1, <1>2 DEF IInv

LEMMA ItemsAreDocs ==
    ASSUME TypeOK, NEW p \in 1..Len(items)
    PROVE  items[p] \in Docs /\ items[p] \in Range(items) /\ Size[items[p]] \in Nat
  BY DEF TypeOK, Range

LEMMA BatchesAreSequences ==
    ASSUME NEW b \in Batches
    PROVE  b \in Seq(Docs)
<1>1. PICK n \in 0..MaxLen : b \in [1..n -> Docs]
  BY DEF Batches
<1> QED
  BY <1>1, n \in Nat

(***************************************************************************)
(* One step per action; the chunk leaves it accounted for or in errs.      *)
(***************************************************************************)
LEMMA NextPreserves == IInv /\ [Next]_vars => IInv'
<1> SUFFICES ASSUME IInv, [Next]_vars PROVE IInv'
  OBVIOUS
<1> USE DEF IInv
<1>1. ASSUME NEW b \in Batches, WriteBatch(b) PROVE IInv'
  <2>1. TypeOK'
    <3>1. verdict' \in Verdicts
      BY <1>1, VerdictTypes DEF WriteBatch
    <3>2. items' \in Seq(Docs) /\ Len(items') \in Nat
      BY <1>1, BatchesAreSequences DEF WriteBatch
    <3>3. counted' \in [attempts : Nat, inserts : Nat, errors : Nat]
      BY <1>1 DEF WriteBatch
    <3>4. next' \in 1..(Len(items') + 1) /\ first' \in 1..next'
          /\ succeeded' \in 0..Len(items') /\ chunkBytes' \in Nat
      BY <1>1, <3>2 DEF WriteBatch
    <3>5. /\ pc' \in {"returned", "loop", "append", "sending", "finish"}
          /\ dropPoison' \in BOOLEAN /\ transient' \in BOOLEAN /\ errs' \in BOOLEAN
          /\ ctxDone' \in BOOLEAN
          /\ stored' \subseteq Docs /\ terminal' \subseteq Docs \cup {UnknownDoc}
      BY <1>1 DEF WriteBatch, TypeOK
    <3> QED
      BY <3>1, <3>2, <3>3, <3>4, <3>5 DEF TypeOK
  <2>2. PcOK' /\ TerminalOK' /\ EveryDocumentAccounted'
    BY <1>1 DEF WriteBatch, PcOK, TerminalOK, EveryDocumentAccounted, Returned, Plain
  <2> QED
    BY <2>1, <2>2
<1>2. CASE Cancel
  BY <1>2 DEF Cancel, callVars, TypeOK, PcOK, TerminalOK, EveryDocumentAccounted, Accounted,
              Returned
<1>3. CASE Abandon
  <2>1. TypeOK'
    BY <1>3 DEF Abandon, TypeOK
  <2>2. PcOK' /\ TerminalOK'
    BY <1>3 DEF Abandon, TypeOK, PcOK, TerminalOK, Returned
  <2>3. EveryDocumentAccounted'
    BY <1>3 DEF Abandon, EveryDocumentAccounted, Accounted
  <2> QED
    BY <2>1, <2>2, <2>3
<1>4. CASE Pack
  <2>1. next \in 1..Len(items)
    BY <1>4 DEF Pack, TypeOK, PcOK
  <2>2. TypeOK'
    BY <1>4, <2>1, ItemsAreDocs DEF Pack, TypeOK
  <2>3. PcOK' /\ TerminalOK'
    BY <1>4 DEF Pack, TypeOK, PcOK, TerminalOK, Returned
  <2>4. EveryDocumentAccounted'
    BY <1>4 DEF Pack, EveryDocumentAccounted, Accounted, Returned
  <2> QED
    BY <2>2, <2>3, <2>4
<1>5. CASE Send
  BY <1>5 DEF Send, callVars, TypeOK, PcOK, TerminalOK, EveryDocumentAccounted, Accounted,
              Returned
<1>6. CASE Finish
  <2>1. TypeOK'
    <3>1. verdict' \in Verdicts
      BY <1>6, VerdictTypes DEF Finish, TypeOK
    <3>2. counted' \in [attempts : Nat, inserts : Nat, errors : Nat]
      BY <1>6 DEF Finish, TypeOK
    <3> QED
      BY <1>6, <3>1, <3>2 DEF Finish, callVars, TypeOK
  <2>2. verdict'.kind # "none"
    BY <1>6 DEF Finish, joined, Plain
  <2>3. PcOK' /\ TerminalOK' /\ EveryDocumentAccounted'
    BY <1>6, <2>2 DEF Finish, callVars, PcOK, TerminalOK, EveryDocumentAccounted, Returned
  <2> QED
    BY <2>1, <2>3
<1>7. CASE RequestFails
  <2>1. TypeOK'
    BY <1>7 DEF RequestFails, AfterFlush, TypeOK
  <2>2. PcOK' /\ TerminalOK'
    BY <1>7 DEF RequestFails, AfterFlush, TypeOK, PcOK, TerminalOK, Returned
  <2>3. EveryDocumentAccounted'
    BY <1>7 DEF RequestFails, EveryDocumentAccounted, Accounted
  <2> QED
    BY <2>1, <2>2, <2>3
<1>8. ASSUME NEW results \in [Positions -> Results], Respond(results) PROVE IInv'
  <2> DEFINE poison == {p \in Positions : TerminalFailure(results[p])}
             retriable == {p \in Positions : TransientFailure(results[p])}
  <2>1. Positions \subseteq 1..Len(items)
    BY DEF Positions, TypeOK
  <2>2. \A p \in Positions : \/ items[p] \in stored
                             \/ p \in retriable
                             \/ p \in poison /\ items[p] \in Rejectable
    BY <1>8, ClassificationIsSound DEF Respond, TerminalFailure, TransientFailure
  <2>3. Cardinality(poison \cup retriable) \in 0..chunkLen
    <3>1. IsFiniteSet(Positions) /\ Cardinality(Positions) = chunkLen
      <4>1. first \in Int /\ next \in Int /\ next - 1 \in Int /\ first <= next
        BY DEF TypeOK
      <4>2. /\ IsFiniteSet(Positions)
            /\ Cardinality(Positions) = IF first > next - 1 THEN 0 ELSE (next - 1) - first + 1
        BY <4>1, FS_Interval DEF Positions
      <4> QED
        BY <4>1, <4>2 DEF chunkLen
    <3>2. poison \cup retriable \subseteq Positions
      OBVIOUS
    <3> QED
      BY <3>1, <3>2, FS_Subset, FS_CardinalityType
  <2>4. succeeded' \in 0..(next - 1)
    BY <1>8, <2>3 DEF Respond, durableCount, chunkLen, TypeOK, PcOK
  <2>5. terminal' \subseteq (Range(items) \cap Rejectable) \cup {UnknownDoc}
    <3>1. \A p \in poison : items[p] \in Range(items) \cap Rejectable
      <4> SUFFICES ASSUME NEW p \in poison PROVE items[p] \in Range(items) \cap Rejectable
        OBVIOUS
      <4>1. TerminalFailure(results[p]) /\ Truthful(results[p], items[p])
        BY <1>8 DEF Respond
      
      <4>3. items[p] \in Rejectable
        BY <4>1, ClassificationIsSound
      <4> QED
        BY <2>1, <4>3, ItemsAreDocs
    <3> QED
      BY <1>8, <3>1 DEF Respond, TerminalOK, ReportedID
  <2>6. TypeOK'
    BY <1>8, <2>4, <2>5 DEF Respond, AfterFlush, TypeOK
  <2>7. PcOK' /\ TerminalOK'
    BY <1>8, <2>4, <2>5 DEF Respond, AfterFlush, TypeOK, PcOK, TerminalOK, Returned
  <2>8. EveryDocumentAccounted'
    <3>1. \A p \in 1..(first - 1) : Accounted(p)'
      BY <1>8 DEF Respond, EveryDocumentAccounted, Accounted, PcOK
    <3>2. \A p \in Positions : Accounted(p)'
      BY <1>8, <2>2 DEF Respond, Accounted, ReportedID
    <3> QED
      <4>1. first' = next /\ items' = items
        BY <1>8 DEF Respond
      <4>2. \A p \in 1..(next - 1) : p \in 1..(first - 1) \/ p \in Positions
        BY DEF TypeOK, Positions
      <4>3. \A p \in 1..(first' - 1) : Accounted(p)'
        BY <3>1, <3>2, <4>1, <4>2
      <4>4. (pc = "finish")' => first' = Len(items') + 1
        BY <1>8, <4>1 DEF Respond, AfterFlush, TypeOK
      <4> QED
        BY <4>3, <4>4 DEF EveryDocumentAccounted
  <2> QED
    BY <2>6, <2>7, <2>8
<1>9. ASSUME NEW d \in Docs, Store(d) PROVE IInv'
  BY <1>9 DEF Store, callVars, TypeOK, PcOK, TerminalOK, EveryDocumentAccounted, Accounted,
              Returned
<1>10. CASE UNCHANGED vars
  BY <1>10 DEF vars, callVars, TypeOK, PcOK, TerminalOK, EveryDocumentAccounted, Accounted,
               Returned
<1> QED
  BY <1>1, <1>2, <1>3, <1>4, <1>5, <1>6, <1>7, <1>8, <1>9, <1>10 DEF Next

LEMMA Invariance == Spec => []IInv
<1>1. IInv /\ UNCHANGED vars => IInv'
  BY NextPreserves
<1> QED
  BY InitEstablishes, NextPreserves, PTL DEF Spec

(***************************************************************************)
(* The variables of a call stay within their types: the indices within the *)
(* batch, the count of durable documents within what was sent.             *)
(***************************************************************************)
THEOREM TypesHold == Spec => []TypeOK
  BY Invariance, PTL DEF IInv

(***************************************************************************)
(* No document leaves the chunk unaccounted: each is stored, listed as     *)
(* poison, or covered by a transient failure that the verdict reports.     *)
(***************************************************************************)
THEOREM NoDocumentForgotten == Spec => []EveryDocumentAccounted
  BY Invariance, PTL DEF IInv

(***************************************************************************)
(* What the contract asks of the verdict follows from the accounting, once *)
(* every document has left the chunk.                                      *)
(***************************************************************************)
LEMMA FinishIsHonest ==
    ASSUME IInv, Finish
    PROVE  verdict' \in HonestVerdicts(Range(items), stored, dropPoison)
<1> USE DEF IInv
<1>1. verdict' = joined(terminal, transient, errs)
  BY DEF Finish
<1>2. ~Returned
  BY DEF Finish, PcOK
<1>3. errs \/ first = Len(items) + 1
  BY <1>2 DEF Finish, EveryDocumentAccounted, chunkLen, TypeOK
<1>4. \A p \in 1..(first - 1) : Accounted(p)
  BY <1>2 DEF EveryDocumentAccounted
<1>5. ASSUME NEW d \in Range(items), ~errs
      PROVE  \E p \in 1..(first - 1) : items[p] = d
  BY <1>3, <1>5 DEF Range, TypeOK
<1>6. CASE terminal # {} \/ transient
  <2>1. verdict' = [kind |-> "rejected", terminal |-> terminal, transient |-> transient \/ errs]
    BY <1>1, <1>6 DEF joined
  <2>2. dropPoison => terminal = {} /\ verdict'.transient
    BY <2>1, <1>6 DEF TerminalOK
  <2>3. ASSUME ~verdict'.transient, UnknownDoc \notin terminal
        PROVE  Range(items) \ stored \subseteq terminal
    BY <2>1, <2>2, <2>3, <1>4, <1>5 DEF Accounted
  <2>4. verdict' \in Rejections(Range(items) \cap Rejectable)
    BY <2>1 DEF Rejections, TerminalOK, TypeOK
  <2>5. Honest(verdict', Range(items), stored, dropPoison)
    BY <2>1, <2>2, <2>3 DEF Honest, TerminalOK
  <2> QED
    BY <2>4, <2>5 DEF HonestVerdicts
<1>7. CASE terminal = {} /\ ~transient
  <2>1. verdict' = Plain(IF errs THEN "failed" ELSE "ok")
    BY <1>1, <1>7 DEF joined
  <2>2. ~errs => Range(items) \ stored \subseteq (IF dropPoison THEN Rejectable ELSE {})
    BY <1>4, <1>5, <1>7 DEF Accounted
  <2>3. verdict'.kind = IF errs THEN "failed" ELSE "ok"
    BY <2>1 DEF Plain
  <2>4. Honest(verdict', Range(items), stored, dropPoison)
    BY <2>2, <2>3 DEF Honest
  <2> QED
    BY <2>1, <2>4 DEF HonestVerdicts
<1> QED
  BY <1>6, <1>7

LEMMA ContractInit == Init => Contract!Init
<1>1. Init => Range(items) = {}
  BY DEF Init, Range
<1> QED
  BY <1>1 DEF Init, Contract!Init, Plain, Contract!Plain

LEMMA ContractStep == IInv /\ [Next]_vars => [Contract!Next]_(Contract!vars)
<1> SUFFICES ASSUME IInv, [Next]_vars PROVE [Contract!Next]_(Contract!vars)
  OBVIOUS
<1> USE DEF IInv
<1>1. ASSUME NEW b \in Batches, WriteBatch(b) PROVE Contract!Call
  <2>1. Range(b) \in SUBSET Docs /\ (Range(b) = {} <=> b = <<>>)
    <3>1. b \in Seq(Docs)
      BY <1>1, BatchesAreSequences
    <3>2. Range(b) = {b[p] : p \in 1..Len(b)}
      BY <3>1 DEF Range
    <3>3. b # <<>> => Len(b) \in Nat \ {0}
      BY <3>1, EmptySeq
    <3>4. \A p \in 1..Len(b) : b[p] \in Docs
      BY <3>1
    <3>5. Range(b) \in SUBSET Docs
      BY <3>2, <3>4
    <3>6. CASE b = <<>>
      BY <3>2, <3>5, <3>6
    <3>7. CASE b # <<>>
      <4>1. Len(b) \in Nat \ {0}
        BY <3>3, <3>7
      <4>2. 1 \in 1..Len(b)
        BY <4>1
      <4> QED
        BY <3>2, <3>5, <3>7, <4>2
    <3> QED
      BY <3>5, <3>6, <3>7
  <2>2. Returned
    BY <1>1 DEF WriteBatch, PcOK
  <2> QED
    BY <1>1, <2>1, <2>2 DEF WriteBatch, Contract!Call, Contract!Running, Returned,
                         Plain, Contract!Plain
<1>2. CASE Finish
  <2>1. verdict' \in Contract!HonestVerdicts(Range(items), stored, dropPoison)
    BY <1>2, FinishIsHonest
       DEF HonestVerdicts, Contract!HonestVerdicts, Honest, Contract!Honest, Rejections,
           Contract!Rejections, Plain, Contract!Plain
  <2>2. Contract!Running
    BY <1>2 DEF Finish, Contract!Running, PcOK, Returned
  <2> QED
    BY <1>2, <2>1, <2>2 DEF Finish, callVars, Contract!Return, Contract!Next
<1>3. ASSUME NEW d \in Docs, Store(d) PROVE Contract!Store
  BY <1>3 DEF Store, callVars, Contract!Store
<1>4. CASE Cancel \/ Abandon \/ Pack \/ Send \/ RequestFails \/ UNCHANGED vars
  BY <1>4 DEF Cancel, Abandon, Pack, Send, RequestFails, vars, callVars, Contract!vars
<1>5. ASSUME NEW results \in [Positions -> Results], Respond(results)
      PROVE  UNCHANGED Contract!vars
  BY <1>5 DEF Respond, Contract!vars
<1> QED
  BY <1>1, <1>2, <1>3, <1>4, <1>5 DEF Next, Contract!Next

(***************************************************************************)
(* SyncBulkWriter implements BulkContract: whatever the sizes, the cap,    *)
(* the cancellations and the truthful answers, WriteBatch's verdict tells  *)
(* the truth about every document of the batch.                            *)
(***************************************************************************)
THEOREM VerdictIsHonest == Spec => HonestVerdict
  BY ContractInit, ContractStep, Invariance, PTL DEF Spec, HonestVerdict, Contract!Spec

(***************************************************************************)
(* The counters.  What was counted is among the stored documents that have *)
(* left the chunk; a failure of any kind leaves a document uncounted; and  *)
(* without one, outside drop mode, none is left uncounted.                 *)
(***************************************************************************)
Failed == errs \/ transient \/ terminal # {}

FailureIsUncounted ==
    Failed => succeeded < first - 1 \/ (pc = "finish" /\ next <= Len(items))

CountInv ==
    /\ InsertsAreStored
    /\ pc = "sending" => chunkLen > 0
    /\ ~Returned => FailureIsUncounted
    /\ ~Returned /\ ~dropPoison /\ ~Failed => succeeded = first - 1
    /\ CountersMatchVerdict

\* The documents that have left the chunk and are stored.
StoredBefore(n, its, kept) == {p \in 1..(n - 1) : its[p] \in kept}

LEMMA StoredBeforeGrows ==
    ASSUME NEW n \in Nat, NEW m \in Nat, n <= m, NEW its, NEW kept, NEW more,
           kept \subseteq more
    PROVE  /\ IsFiniteSet(StoredBefore(m, its, more))
           /\ Cardinality(StoredBefore(n, its, kept)) \in Nat
           /\ Cardinality(StoredBefore(m, its, more)) \in Nat
           /\ Cardinality(StoredBefore(n, its, kept)) <= Cardinality(StoredBefore(m, its, more))
<1>1. IsFiniteSet(1..(m - 1))
  BY FS_Interval, m - 1 \in Int
<1>2. StoredBefore(m, its, more) \subseteq 1..(m - 1)
  BY DEF StoredBefore
<1>3. IsFiniteSet(StoredBefore(m, its, more))
  BY <1>1, <1>2, FS_Subset
<1>4. StoredBefore(n, its, kept) \subseteq StoredBefore(m, its, more)
  BY DEF StoredBefore
<1>5. IsFiniteSet(StoredBefore(n, its, kept))
  BY <1>3, <1>4, FS_Subset
<1> QED
  BY <1>3, <1>4, <1>5, FS_Subset, FS_CardinalityType

\* A step that keeps the count and the batch, and neither moves the chunk back
\* nor loses a document, keeps InsertsAreStored.
LEMMA InsertsStayStored ==
    ASSUME TypeOK, TypeOK', InsertsAreStored, succeeded' = succeeded, items' = items,
           first <= first', stored \subseteq stored'
    PROVE  InsertsAreStored'
<1>1. first \in Nat /\ first' \in Nat /\ succeeded \in Nat
  BY DEF TypeOK
<1>2. Cardinality(StoredBefore(first, items, stored))
        <= Cardinality(StoredBefore(first', items, stored'))
      /\ Cardinality(StoredBefore(first, items, stored)) \in Nat
      /\ Cardinality(StoredBefore(first', items, stored')) \in Nat
  BY <1>1, StoredBeforeGrows
<1>3. succeeded <= Cardinality(StoredBefore(first, items, stored))
  BY DEF InsertsAreStored, StoredBefore
<1>4. succeeded' <= Cardinality(StoredBefore(first', items', stored'))
  BY <1>1, <1>2, <1>3
<1> QED
  BY <1>4 DEF InsertsAreStored, StoredBefore

\* The chunk, and what a response leaves of it.
LEMMA ChunkCount ==
    ASSUME TypeOK, NEW bad \in SUBSET Positions
    PROVE  /\ IsFiniteSet(Positions) /\ Cardinality(Positions) = chunkLen
           /\ Cardinality(bad) \in 0..chunkLen
           /\ bad # {} => Cardinality(bad) > 0
           /\ bad = {} => Cardinality(bad) = 0
           /\ Cardinality(Positions \ bad) = chunkLen - Cardinality(bad)
<1>1. first \in Int /\ next \in Int /\ next - 1 \in Int /\ first <= next
  BY DEF TypeOK
<1>2. /\ IsFiniteSet(Positions)
      /\ Cardinality(Positions) = IF first > next - 1 THEN 0 ELSE (next - 1) - first + 1
  BY <1>1, FS_Interval DEF Positions
<1>3. Cardinality(Positions) = chunkLen /\ chunkLen \in Nat
  BY <1>1, <1>2 DEF chunkLen
<1>4. IsFiniteSet(bad) /\ Cardinality(bad) \in Nat /\ Cardinality(bad) <= chunkLen
  BY <1>2, <1>3, FS_Subset, FS_CardinalityType
<1>5. Cardinality(bad) = 0 <=> bad = {}
  BY <1>4, FS_EmptySet
<1>6. Cardinality(Positions \ bad) = Cardinality(Positions) - Cardinality(Positions \cap bad)
  BY <1>2, FS_Difference
<1>7. Positions \cap bad = bad
  OBVIOUS
<1> QED
  BY <1>2, <1>3, <1>4, <1>5, <1>6, <1>7

\* A response counts as many documents as the stored part of the chunk has.
LEMMA RespondCounts ==
    ASSUME IInv, IInv', CountInv, NEW results \in [Positions -> Results], Respond(results)
    PROVE  /\ InsertsAreStored'
           /\ FailureIsUncounted'
           /\ ~dropPoison' /\ ~Failed' => succeeded' = first' - 1
<1> DEFINE poison == {p \in Positions : TerminalFailure(results[p])}
           retriable == {p \in Positions : TransientFailure(results[p])}
           bad == poison \cup retriable
           before == StoredBefore(first, items, stored)
           after == StoredBefore(next, items, stored)
<1> USE DEF IInv, CountInv
<1>0. bad \in SUBSET Positions
  OBVIOUS
<1>1. first \in Nat /\ next \in Nat /\ first <= next /\ succeeded \in Nat
      /\ succeeded <= first - 1 /\ chunkLen = next - first /\ chunkLen > 0
      /\ next <= Len(items) + 1 /\ Len(items) \in Nat
  BY DEF TypeOK, PcOK, chunkLen, Respond
<1>2. succeeded' = succeeded + chunkLen - Cardinality(bad)
      /\ Cardinality(bad) \in Nat /\ Cardinality(bad) <= chunkLen
  <2> HIDE DEF bad
  <2>1. Cardinality(bad) \in 0..chunkLen
    BY <1>0, ChunkCount
  <2>2. succeeded' = succeeded + durableCount(chunkLen, Cardinality(bad))
    BY DEF Respond, bad
  <2> QED
    BY <1>1, <2>1, <2>2 DEF durableCount
<1>3. first' = next /\ items' = items /\ stored' = stored /\ errs' = errs
      /\ dropPoison' = dropPoison /\ next' = next
      /\ transient' = (transient \/ retriable # {})
      /\ terminal' = terminal \cup
           (IF dropPoison THEN {} ELSE {ReportedID(results[p], items[p]) : p \in poison})
  BY DEF Respond
<1>4. InsertsAreStored'
  <2>1. Positions \ bad \subseteq after
    <3> SUFFICES ASSUME NEW p \in Positions, p \notin bad PROVE p \in after
      OBVIOUS
    <3>1. Truthful(results[p], items[p]) /\ results[p] \in Results
      BY DEF Respond
    <3>2. ~failure(results[p])
      BY DEF TerminalFailure, TransientFailure
    <3>3. items[p] \in stored
      BY <3>1, <3>2, ClassificationIsSound
    <3>4. p \in 1..(next - 1)
      BY <1>1 DEF Positions
    <3> QED
      BY <3>3, <3>4 DEF StoredBefore
  <2>2. before \subseteq after
    BY <1>1 DEF StoredBefore
  <2>3. before \cap (Positions \ bad) = {}
    BY <1>1 DEF StoredBefore, Positions
  <2>4. IsFiniteSet(before) /\ IsFiniteSet(after) /\ Cardinality(before) \in Nat
        /\ Cardinality(after) \in Nat
    BY <1>1, StoredBeforeGrows
  <2> HIDE DEF before, after, bad
  <2>5. /\ IsFiniteSet(Positions \ bad)
        /\ Cardinality(Positions \ bad) = chunkLen - Cardinality(bad)
    BY <1>0, ChunkCount, FS_Subset
  <2>6. /\ IsFiniteSet(before \cup (Positions \ bad))
        /\ Cardinality(before \cup (Positions \ bad))
             = Cardinality(before) + Cardinality(Positions \ bad) - Cardinality({})
    BY <2>3, <2>4, <2>5, FS_Union
  <2>7. Cardinality(before \cup (Positions \ bad)) <= Cardinality(after)
    BY <2>1, <2>2, <2>4, FS_Subset
  <2>8. succeeded <= Cardinality(before)
    BY DEF InsertsAreStored, before, StoredBefore
  <2>9. Cardinality({}) = 0
    BY FS_EmptySet
  <2>10. succeeded' <= Cardinality(after)
    BY <1>1, <1>2, <2>4, <2>5, <2>6, <2>7, <2>8, <2>9
  <2> QED
    BY <1>3, <2>10 DEF InsertsAreStored, after, StoredBefore
<1>5. bad # {} => Cardinality(bad) > 0
  BY <1>0, ChunkCount
<1>6. bad = {} => Cardinality(bad) = 0
  BY <1>0, ChunkCount
<1>7. Failed => succeeded < first - 1
  BY DEF Respond, FailureIsUncounted, PcOK
<1>8. Failed' => Failed \/ bad # {}
  BY <1>3 DEF Failed
<1>9. ASSUME ~dropPoison', ~Failed' PROVE ~dropPoison /\ ~Failed /\ bad = {}
  <2>1. ~dropPoison /\ ~errs /\ ~transient /\ retriable = {} /\ terminal' = {}
    BY <1>3, <1>9 DEF Failed
  <2>2. terminal = {} /\ {ReportedID(results[p], items[p]) : p \in poison} = {}
    BY <1>3, <2>1
  <2>3. poison = {}
    BY <2>2
  <2> QED
    BY <2>1, <2>2, <2>3 DEF Failed
<1> HIDE DEF bad
<1>10. FailureIsUncounted'
  BY <1>1, <1>2, <1>3, <1>5, <1>7, <1>8 DEF FailureIsUncounted
<1>11. ASSUME ~dropPoison', ~Failed' PROVE succeeded' = first' - 1
  <2>1. succeeded = first - 1
    BY <1>9, <1>11 DEF Respond, PcOK
  <2>2. Cardinality(bad) = 0
    BY <1>6, <1>9, <1>11
  <2> QED
    BY <1>1, <1>2, <1>3, <2>1, <2>2
<1> QED
  BY <1>4, <1>10, <1>11

LEMMA CountInit == Init => CountInv
<1> SUFFICES ASSUME Init PROVE CountInv
  OBVIOUS
<1>1. {p \in 1..(first - 1) : items[p] \in stored} = {}
  BY DEF Init
<1>2. InsertsAreStored
  BY <1>1, FS_EmptySet DEF Init, InsertsAreStored
<1> QED
  BY <1>2 DEF Init, CountInv, Returned, CountersMatchVerdict, Plain

LEMMA CountStep == IInv /\ IInv' /\ CountInv /\ [Next]_vars => CountInv'
<1> SUFFICES ASSUME IInv, IInv', CountInv, [Next]_vars PROVE CountInv'
  OBVIOUS
<1> USE DEF IInv, CountInv
<1>1. ASSUME NEW b \in Batches, WriteBatch(b) PROVE CountInv'
  <2>1. {p \in 1..(first' - 1) : items'[p] \in stored'} = {}
    BY <1>1 DEF WriteBatch
  <2>2. InsertsAreStored'
    BY <1>1, <2>1, FS_EmptySet DEF WriteBatch, InsertsAreStored
  <2> QED
    BY <1>1, <2>2
       DEF WriteBatch, FailureIsUncounted, Failed, CountersMatchVerdict, Returned, Plain
<1>2. CASE Cancel
  <2>1. InsertsAreStored'
    BY <1>2 DEF Cancel, callVars, InsertsAreStored
  <2> QED
    BY <1>2, <2>1 DEF Cancel, callVars, chunkLen, FailureIsUncounted, Failed,
                      CountersMatchVerdict, Returned
<1>3. CASE Abandon
  <2>1. first <= first'
    BY <1>3 DEF Abandon, TypeOK
  <2>2. InsertsAreStored'
    BY <1>3, <2>1, InsertsStayStored DEF Abandon
  <2> QED
    BY <1>3, <2>2 DEF Abandon, FailureIsUncounted, Failed, CountersMatchVerdict, Returned, PcOK
<1>4. CASE Pack
  <2>1. InsertsAreStored'
    BY <1>4 DEF Pack, InsertsAreStored
  <2>2. pc # "finish" /\ pc' = "loop" /\ ~Returned /\ ~Returned'
    BY <1>4 DEF Pack, PcOK, Returned
  <2> QED
    BY <1>4, <2>1, <2>2 DEF Pack, FailureIsUncounted, Failed, CountersMatchVerdict
<1>5. CASE Send
  <2>1. InsertsAreStored'
    BY <1>5 DEF Send, callVars, InsertsAreStored
  <2>2. chunkLen > 0
    BY <1>5 DEF Send, Overflows
  <2> QED
    BY <1>5, <2>1, <2>2 DEF Send, callVars, chunkLen, FailureIsUncounted, Failed,
                            CountersMatchVerdict, Returned, PcOK
<1>6. CASE RequestFails
  <2>1. first <= first'
    BY <1>6 DEF RequestFails, TypeOK
  <2>2. InsertsAreStored'
    BY <1>6, <2>1, InsertsStayStored DEF RequestFails
  <2>3. succeeded' < first' - 1
    BY <1>6 DEF RequestFails, TypeOK, PcOK, chunkLen
  <2> QED
    BY <1>6, <2>2, <2>3 DEF RequestFails, AfterFlush, FailureIsUncounted, Failed,
                            CountersMatchVerdict, Returned, PcOK
<1>7. ASSUME NEW results \in [Positions -> Results], Respond(results) PROVE CountInv'
  <2>1. /\ InsertsAreStored'
        /\ FailureIsUncounted'
        /\ ~dropPoison' /\ ~Failed' => succeeded' = first' - 1
    BY <1>7, RespondCounts
  <2> QED
    BY <1>7, <2>1 DEF Respond, AfterFlush, CountersMatchVerdict, Returned, PcOK
<1>8. ASSUME NEW d \in Docs, Store(d) PROVE CountInv'
  <2>1. InsertsAreStored'
    BY <1>8, InsertsStayStored DEF Store, callVars, TypeOK
  <2> QED
    BY <1>8, <2>1 DEF Store, callVars, chunkLen, FailureIsUncounted, Failed,
                      CountersMatchVerdict, Returned
<1>9. CASE Finish
  <2>1. InsertsAreStored'
    BY <1>9 DEF Finish, callVars, InsertsAreStored
  <2>2. ~Returned /\ pc \in {"finish", "loop"} /\ pc' = "returned" /\ Returned'
    BY <1>9 DEF Finish, PcOK
  <2>3. CountersMatchVerdict'
    <3>1. /\ Len(items) \in Nat /\ succeeded \in Nat /\ first \in Nat /\ next \in Nat
          /\ next <= Len(items) + 1 /\ first <= next /\ succeeded <= first - 1
          /\ pc = "finish" => first = next
      BY DEF TypeOK, PcOK
    <3>2. counted'.errors = Len(items) - succeeded /\ verdict' = joined(terminal, transient, errs)
          /\ dropPoison' = dropPoison
      BY <1>9 DEF Finish
    <3>3. verdict'.kind = "ok" <=> ~Failed
      BY <3>2 DEF joined, Plain, Failed
    <3>4. Failed => counted'.errors # 0
      BY <2>2, <3>1, <3>2 DEF FailureIsUncounted
    <3>5. ~Failed => first = Len(items) + 1
      BY <1>9, <2>2, <3>1 DEF Finish, EveryDocumentAccounted, Failed, chunkLen
    <3>6. ~Failed /\ ~dropPoison => counted'.errors = 0
      BY <2>2, <3>1, <3>2, <3>5
    <3> QED
      BY <3>2, <3>3, <3>4, <3>6 DEF CountersMatchVerdict
  <2> QED
    BY <2>1, <2>2, <2>3
<1>10. CASE UNCHANGED vars
  <2>1. InsertsAreStored'
    BY <1>10 DEF vars, callVars, InsertsAreStored
  <2> QED
    BY <1>10, <2>1 DEF vars, callVars, chunkLen, FailureIsUncounted, Failed,
                       CountersMatchVerdict, Returned
<1> QED
  BY <1>1, <1>2, <1>3, <1>4, <1>5, <1>6, <1>7, <1>8, <1>9, <1>10 DEF Next

LEMMA CountInvariance == Spec => []CountInv
<1>1. IInv /\ IInv' /\ CountInv /\ UNCHANGED vars => CountInv'
  BY CountStep
<1> QED
  BY CountInit, CountStep, Invariance, <1>1, PTL DEF Spec

(***************************************************************************)
(* The inserts counter never runs ahead of the store: what WriteBatch has  *)
(* counted so far is among the documents the backend holds.                *)
(***************************************************************************)
THEOREM CountedIsStored == Spec => []InsertsAreStored
  BY CountInvariance, PTL DEF CountInv

(***************************************************************************)
(* The counters and the verdict of a call agree, in both directions        *)
(* outside drop mode.                                                      *)
(***************************************************************************)
THEOREM CountersAgree == Spec => []CountersMatchVerdict
  BY CountInvariance, PTL DEF CountInv
----------------------------------------------------------------------------
(* The size of a request. *)

(***************************************************************************)
(* BytesTo is the recursive function that its definition describes: each   *)
(* document adds its bytes to those of the documents before it.            *)
(***************************************************************************)
LEMMA BytesToUnfolds ==
    ASSUME NEW s \in Seq(Docs)
    PROVE  /\ BytesTo(s) \in [0..Len(s) -> Nat] /\ BytesTo(s)[0] = 0
           /\ \A p \in 1..Len(s) : BytesTo(s)[p] = BytesTo(s)[p - 1] + Size[s[p]]
<1> DEFINE n == Len(s)
           body(f) == [p \in 0..n |-> IF p = 0 THEN 0 ELSE f[p - 1] + Size[s[p]]]
           b == BytesTo(s)
<1>1. n \in Nat /\ \A p \in 1..n : s[p] \in Docs /\ Size[s[p]] \in Nat
  OBVIOUS
<1>2. \E f : f = body(f)
  <2> DEFINE w == [p \in 1..n |-> Size[s[p]]]
  <2>1. \A p \in 1..n : w[p] \in Nat /\ w[p] = Size[s[p]]
    BY <1>1
  <2>2. PICK f : f = [p \in 0..n |-> IF p = 0 THEN 0 ELSE f[p - 1] + w[p]]
    <3> HIDE DEF w, n
    <3> QED
      BY <1>1, <2>1, PrefixSums
  <2>3. body(f) = [p \in 0..n |-> IF p = 0 THEN 0 ELSE f[p - 1] + w[p]]
    <3> HIDE DEF w, n
    <3> QED
      BY <1>1, <2>1
  <2> QED
    BY <2>2, <2>3
<1>3. b = CHOOSE f : f = body(f)
  BY DEF BytesTo
<1>4. b = body(b)
  <2> HIDE DEF b, body
  <2> QED
    BY <1>2, <1>3
<1> HIDE DEF b
<1>5. b[0] = 0 /\ \A p \in 1..n : b[p] = b[p - 1] + Size[s[p]]
  <2>1. \A p \in 0..n : b[p] = IF p = 0 THEN 0 ELSE b[p - 1] + Size[s[p]]
    BY <1>4
  <2> HIDE DEF n
  <2> QED
    BY <1>1, <2>1
<1> DEFINE typed == {p \in 0..n : b[p] \in Nat}
<1>6. 0 \in typed /\ \A p \in 0..(n - 1) : p \in typed => p + 1 \in typed
  <2>1. 0 \in typed
    BY <1>1, <1>5
  <2>2. ASSUME NEW p \in 0..(n - 1), p \in typed PROVE p + 1 \in typed
    <3>1. p + 1 \in 1..n /\ (p + 1) - 1 = p
      BY <1>1
    <3>2. b[p + 1] = b[p] + Size[s[p + 1]] /\ Size[s[p + 1]] \in Nat
      BY <1>1, <1>5, <3>1
    <3> QED
      BY <2>2, <3>1, <3>2
  <2> QED
    BY <2>1, <2>2
<1>7. 0..n \subseteq typed
  <2> HIDE DEF typed
  <2> QED
    BY <1>1, <1>6, BoundedInduction
<1>8. b \in [0..n -> Nat]
  BY <1>4, <1>7
<1> QED
  BY <1>5, <1>8 DEF b

(***************************************************************************)
(* chunkBytes is the size of the pending chunk, which is within the cap or *)
(* a single document.  The code never sums the chunk again.                *)
(***************************************************************************)
ChunkOK ==
    /\ chunkBytes = BytesTo(items)[next - 1] - BytesTo(items)[first - 1]
    /\ chunkLen <= 1 \/ chunkBytes <= MaxBytes
    /\ pc = "sending" => chunkLen > 0

LEMMA ChunkInit == Init => ChunkOK
<1> SUFFICES ASSUME Init PROVE ChunkOK
  OBVIOUS
<1>1. BytesTo(items)[0] \in Nat
  <2>1. items \in Seq(Docs)
    BY DEF Init
  <2>2. BytesTo(items)[0] = 0
    BY <2>1, BytesToUnfolds
  <2> QED
    BY <2>2
<1> QED
  BY <1>1 DEF Init, ChunkOK, chunkLen

(***************************************************************************)
(* A chunk that is emptied has no bytes, and one that is packed grows by   *)
(* the document that the guard of Pack has let through.                    *)
(***************************************************************************)
LEMMA ChunkNext == IInv /\ ChunkOK /\ [Next]_vars => ChunkOK'
<1> SUFFICES ASSUME IInv, ChunkOK, [Next]_vars PROVE ChunkOK'
  OBVIOUS
<1> USE DEF IInv
<1>1. ASSUME NEW s \in Seq(Docs), NEW p \in 1..(Len(s) + 1)
      PROVE  BytesTo(s)[p - 1] \in Nat
  <2>1. p - 1 \in 0..Len(s)
    BY <1>1
  <2> QED
    BY <2>1, BytesToUnfolds
<1>2. next \in Nat /\ first \in Nat /\ first <= next /\ chunkBytes \in Nat
  BY DEF TypeOK
<1>3. ASSUME items' = items, next' = next, first' = next, chunkBytes' = 0, pc' # "sending"
      PROVE  ChunkOK'
  <2>1. BytesTo(items)[next - 1] \in Nat
    BY <1>1 DEF TypeOK
  <2> QED
    BY <1>2, <1>3, <2>1 DEF ChunkOK, chunkLen
<1>4. ASSUME UNCHANGED callVars, pc' = "sending" => chunkLen > 0
      PROVE  ChunkOK'
  BY <1>4 DEF ChunkOK, chunkLen, callVars
<1>5. ASSUME NEW b \in Batches, WriteBatch(b) PROVE ChunkOK'
  <2>1. BytesTo(b)[1 - 1] \in Nat
    BY <1>1, BatchesAreSequences
  <2> QED
    BY <1>5, <2>1 DEF WriteBatch, ChunkOK, chunkLen
<1>6. CASE Pack
  <2>1. next \in 1..Len(items)
    BY <1>6 DEF Pack, TypeOK, PcOK
  <2>2. /\ BytesTo(items)[next] = BytesTo(items)[next - 1] + Size[items[next]]
        /\ BytesTo(items)[next - 1] \in Nat /\ BytesTo(items)[first - 1] \in Nat
        /\ Size[items[next]] \in Nat
    <3>1. \A p \in 1..Len(items) :
             BytesTo(items)[p] = BytesTo(items)[p - 1] + Size[items[p]]
      BY BytesToUnfolds DEF TypeOK
    <3>2. first \in 1..(Len(items) + 1)
      BY DEF TypeOK
    <3> QED
      BY <1>1, <2>1, <3>1, <3>2, ItemsAreDocs DEF TypeOK
  <2>3. /\ next' = next + 1 /\ first' = first /\ items' = items /\ pc' = "loop"
        /\ chunkBytes' = chunkBytes + Size[items[next]]
    BY <1>6 DEF Pack
  <2>4. first = next \/ chunkBytes + Size[items[next]] <= MaxBytes
    BY <1>2, <1>6, <2>2 DEF Pack, PcOK, Overflows, chunkLen
  <2>5. BytesTo(items')[next' - 1] = BytesTo(items)[next]
    BY <1>2, <2>3
  <2>6. chunkBytes' = BytesTo(items')[next' - 1] - BytesTo(items')[first' - 1]
    BY <2>2, <2>3, <2>5 DEF ChunkOK
  <2>7. chunkLen' <= 1 \/ chunkBytes' <= MaxBytes
    BY <1>2, <2>3, <2>4 DEF chunkLen
  <2> QED
    BY <2>3, <2>6, <2>7 DEF ChunkOK
<1>7. CASE Send
  <2>1. chunkLen > 0
    BY <1>2, <1>7 DEF Send, Overflows
  <2> QED
    BY <1>4, <1>7, <2>1 DEF Send
<1>8. CASE Abandon
  BY <1>3, <1>8 DEF Abandon
<1>9. CASE RequestFails
  BY <1>3, <1>9 DEF RequestFails, AfterFlush
<1>10. ASSUME NEW results \in [Positions -> Results], Respond(results) PROVE ChunkOK'
  BY <1>3, <1>10 DEF Respond, AfterFlush
<1>11. CASE Finish
  BY <1>4, <1>11 DEF Finish
<1>12. CASE Cancel
  BY <1>4, <1>12 DEF Cancel, ChunkOK
<1>13. ASSUME NEW d \in Docs, Store(d) PROVE ChunkOK'
  BY <1>4, <1>13 DEF Store, ChunkOK
<1>14. CASE UNCHANGED vars
  BY <1>4, <1>14 DEF vars, ChunkOK
<1> QED
  BY <1>5, <1>6, <1>7, <1>8, <1>9, <1>10, <1>11, <1>12, <1>13, <1>14 DEF Next

(***************************************************************************)
(* A request in flight is within the cap, or holds a single document that  *)
(* exceeds it alone: for batches of any length and documents of any size.  *)
(***************************************************************************)
THEOREM RequestsAreBounded == Spec => []RequestBounded
<1>1. IInv /\ ChunkOK => RequestBounded
  BY DEF IInv, TypeOK, ChunkOK, RequestBounded, chunkLen
<1> QED
  BY <1>1, Invariance, ChunkInit, ChunkNext, PTL DEF Spec
=============================================================================
