-------------------------- MODULE MemoryStoreProofs --------------------------
(***************************************************************************)
(* Proofs about module MemoryStore, for any number of traces, writers,     *)
(* readers and purges.                                                     *)
(***************************************************************************)
EXTENDS MemoryStore, Recursion, SequenceTheorems, TLAPS

----------------------------------------------------------------------------
(* A tenant. *)

\* What storeTraces maintains in a tenant: its type, the ring, the index, and
\* that the index leads to filled slots only.
TenantInv(t) ==
    /\ t \in Tenants
    /\ \A i \in Slots : t.traces[i] <= Len(t.heap)
    /\ RingOf(t)
    /\ IndexOf(t)
    /\ \A id \in TraceIDs : t.ids[id] # None => t.traces[t.ids[id]] # 0
    /\ Unmixed(t)

\* The next slot of the ring.
LEMMA NextSlot ==
  ASSUME NEW m \in Slots \cup {-1}
  PROVE  (m + 1) % MaxTraces = IF m + 1 = MaxTraces THEN 0 ELSE m + 1
<1>1. MaxTraces \in Nat \ {0}
  BY MemoryStoreAssumption
<1>2. CASE m + 1 = MaxTraces
  BY <1>1, <1>2, SMT DEF Slots
<1>3. CASE m + 1 # MaxTraces
  <2>1. m + 1 \in 0..MaxTraces - 1
    BY <1>1, <1>3 DEF Slots
  <2> QED
    BY <1>1, <1>3, <2>1, SMT
<1> QED
  BY <1>2, <1>3

\* The fields of a tenant.
LEMMA TenantType ==
  ASSUME NEW t \in Tenants
  PROVE  /\ t.ids \in [TraceIDs -> Slots \cup {None}] /\ t.traces \in [Slots -> Nat]
         /\ t.mostRecent \in Slots \cup {-1} /\ t.heap \in Seq(Traces) /\ t.known \in SUBSET Spans
         /\ Len(t.heap) \in Nat
         /\ \A o \in 1..Len(t.heap) : t.heap[o] \in Traces /\ t.heap[o].id \in TraceIDs
                                      /\ t.heap[o].spans \in SUBSET Spans
<1>1. t.heap \in Seq(Traces)
  BY DEF Tenants
<1>2. Len(t.heap) \in Nat /\ \A o \in 1..Len(t.heap) : t.heap[o] \in Traces
  BY <1>1
<1> QED
  BY <1>1, <1>2 DEF Tenants, Traces

\* A new tenant is empty.
LEMMA NewTenant == TenantInv(newTenant)
<1>1. newTenant \in Tenants
  BY MemoryStoreAssumption DEF newTenant, Tenants, None
<1>2. Len(newTenant.heap) = 0 /\ \A i \in Slots : newTenant.traces[i] = 0
  BY DEF newTenant
<1>3. RingOf(newTenant)
  BY <1>2, MemoryStoreAssumption DEF RingOf, Age, newTenant, Slots
<1>4. IndexOf(newTenant)
  BY <1>2, MemoryStoreAssumption DEF IndexOf, SlotId, newTenant, Slots, None
<1>5. \A id \in TraceIDs : newTenant.ids[id] = None
  BY DEF newTenant
<1>6. Unmixed(newTenant)
  BY <1>2 DEF Unmixed
<1> QED
  BY <1>1, <1>2, <1>3, <1>4, <1>5, <1>6 DEF TenantInv

----------------------------------------------------------------------------
(* storeTraces. *)

\* What appending changes: the spans of the trace that the index leads to.
IsAppended(t, id, spans, u) ==
    LET o == t.traces[t.ids[id]]
    IN  /\ o \in 1..Len(t.heap)
        /\ u.ids = t.ids /\ u.traces = t.traces /\ u.mostRecent = t.mostRecent
        /\ u.known = t.known \cup spans
        /\ u.heap \in Seq(Traces) /\ Len(u.heap) = Len(t.heap)
        /\ \A p \in 1..Len(t.heap) : u.heap[p].id = t.heap[p].id
        /\ \A p \in 1..Len(t.heap) :
             u.heap[p].spans = IF p = o THEN t.heap[p].spans \cup spans ELSE t.heap[p].spans

\* What a new trace changes: it is the last of the heap, in the next slot.
IsCreated(t, id, spans, u) ==
    LET k == (t.mostRecent + 1) % MaxTraces
    IN  /\ k \in Slots /\ k = IF t.mostRecent + 1 = MaxTraces THEN 0 ELSE t.mostRecent + 1
        /\ u.ids = [Forget(t.ids, SlotId(t, k)) EXCEPT ![id] = k]
        /\ u.traces = [t.traces EXCEPT ![k] = Len(t.heap) + 1]
        /\ u.mostRecent = k /\ u.known = t.known \cup spans
        /\ u.heap \in Seq(Traces) /\ Len(u.heap) = Len(t.heap) + 1
        /\ \A p \in 1..Len(t.heap) : u.heap[p] = t.heap[p]
        /\ u.heap[Len(t.heap) + 1] = [id |-> id, spans |-> spans]

\* Appending does that.
LEMMA AppendedFields ==
  ASSUME NEW t, TenantInv(t), NEW id \in TraceIDs, NEW spans \in SUBSET Spans,
         t.ids[id] # None
  PROVE  IsAppended(t, id, spans, Appended(t, id, spans))
<1> DEFINE o == t.traces[t.ids[id]]
           u == Appended(t, id, spans)
<1>1. t \in Tenants
  BY DEF TenantInv
<1>2. t.ids[id] \in Slots
  BY <1>1, TenantType
<1>3. o \in 1..Len(t.heap)
  BY <1>1, <1>2, TenantType DEF TenantInv
<1> DEFINE grown == [id |-> t.heap[o].id, spans |-> t.heap[o].spans \cup spans]
<1>4. Grown(t.heap[o], spans) = grown /\ grown \in Traces
  <2>1. t.heap[o].id \in TraceIDs /\ t.heap[o].spans \in SUBSET Spans
    BY <1>1, <1>3, TenantType
  <2>2. t.heap[o].spans \cup spans \in SUBSET Spans
    BY <2>1
  <2> QED
    BY <2>1, <2>2 DEF Grown, Traces
<1>5. u = [ids |-> t.ids, traces |-> t.traces, mostRecent |-> t.mostRecent,
           heap |-> [t.heap EXCEPT ![o] = grown], known |-> t.known \cup spans]
  BY <1>4 DEF Appended
<1> HIDE DEF grown, o, u
<1>6. /\ u.ids = t.ids /\ u.traces = t.traces /\ u.mostRecent = t.mostRecent
      /\ u.known = t.known \cup spans
      /\ u.heap = [t.heap EXCEPT ![o] = grown]
  BY <1>5
<1>7. t.heap \in Seq(Traces)
  BY <1>1, TenantType
<1>8. u.heap \in Seq(Traces) /\ Len(u.heap) = Len(t.heap)
  BY <1>3, <1>4, <1>6, <1>7
<1>9. \A p \in 1..Len(t.heap) : u.heap[p] = IF p = o THEN grown ELSE t.heap[p]
  BY <1>3, <1>6, <1>7
<1>10. grown.id = t.heap[o].id /\ grown.spans = t.heap[o].spans \cup spans
  BY DEF grown
<1> QED
  BY <1>3, <1>6, <1>8, <1>9, <1>10 DEF o, u, IsAppended

\* Appending keeps a tenant as it should be.
LEMMA AppendedInv ==
  ASSUME NEW t, TenantInv(t), NEW id \in TraceIDs, NEW spans \in SUBSET Spans,
         t.ids[id] # None, \A s \in spans : TraceOf[s] = id
  PROVE  TenantInv(Appended(t, id, spans))
<1> DEFINE o == t.traces[t.ids[id]]
           u == Appended(t, id, spans)
<1>1. t \in Tenants /\ t.ids[id] \in Slots
  BY TenantType DEF TenantInv
<1>10. IsAppended(t, id, spans, u)
  BY AppendedFields
<1>11. u = Appended(t, id, spans)
  OBVIOUS
<1> HIDE DEF u
<1>2. /\ o \in 1..Len(t.heap)
      /\ u.ids = t.ids /\ u.traces = t.traces /\ u.mostRecent = t.mostRecent
      /\ u.known = t.known \cup spans
      /\ u.heap \in Seq(Traces) /\ Len(u.heap) = Len(t.heap)
      /\ \A p \in 1..Len(t.heap) : u.heap[p].id = t.heap[p].id
      /\ \A p \in 1..Len(t.heap) :
           u.heap[p].spans = IF p = o THEN t.heap[p].spans \cup spans ELSE t.heap[p].spans
  BY <1>10 DEF IsAppended
<1>3. u = [ids |-> u.ids, traces |-> u.traces, mostRecent |-> u.mostRecent, heap |-> u.heap,
           known |-> u.known]
  BY <1>11 DEF Appended
<1> HIDE DEF o
<1>4. u \in Tenants
  BY <1>1, <1>2, <1>3, TenantType DEF Tenants
<1>5. \A i \in Slots : SlotId(u, i) = SlotId(t, i)
  <2> SUFFICES ASSUME NEW i \in Slots PROVE SlotId(u, i) = SlotId(t, i)
    OBVIOUS
  <2>1. t.traces[i] \in Nat /\ t.traces[i] <= Len(t.heap) /\ Len(t.heap) \in Nat
    BY <1>1, TenantType DEF TenantInv
  <2>2. t.traces[i] # 0 => t.traces[i] \in 1..Len(t.heap)
    BY <2>1
  <2>3. \A p \in 1..Len(t.heap) : u.heap[p].id = t.heap[p].id
    BY <1>2
  <2>4. t.traces[i] # 0 => u.heap[t.traces[i]].id = t.heap[t.traces[i]].id
    BY <2>2, <2>3
  <2> QED
    BY <1>2, <2>4 DEF SlotId
<1>6. RingOf(u)
  BY <1>2 DEF RingOf, Age, TenantInv
<1>7. IndexOf(u)
  BY <1>2, <1>5 DEF IndexOf, TenantInv
<1>8. id # Empty => t.heap[o].id = id
  <2>1. id # Empty => SlotId(t, t.ids[id]) = id
    BY <1>1 DEF TenantInv, IndexOf
  <2> QED
    BY <1>2, <2>1 DEF SlotId, o
<1>9. Unmixed(u)
  <2> SUFFICES ASSUME NEW p \in 1..Len(t.heap), NEW s \in u.heap[p].spans
               PROVE  TraceOf[s] \in {t.heap[p].id, Empty}
    BY <1>2 DEF Unmixed
  <2>1. CASE s \in t.heap[p].spans
    BY <2>1 DEF TenantInv, Unmixed
  <2>2. CASE p = o /\ s \in spans
    BY <1>8, <2>2
  <2> QED
    BY <1>2, <2>1, <2>2
<1> QED
  BY <1>2, <1>4, <1>6, <1>7, <1>9 DEF TenantInv, u

\* Creating does that.
LEMMA CreatedFields ==
  ASSUME NEW t, TenantInv(t), NEW id \in TraceIDs, NEW spans \in SUBSET Spans
  PROVE  IsCreated(t, id, spans, Created(t, id, spans))
<1> DEFINE k == (t.mostRecent + 1) % MaxTraces
           u == Created(t, id, spans)
<1>1. t \in Tenants /\ t.heap \in Seq(Traces) /\ [id |-> id, spans |-> spans] \in Traces
  BY TenantType DEF TenantInv, Traces
<1>2. t.mostRecent \in Slots \cup {-1}
  BY <1>1, TenantType
<1>3. k = IF t.mostRecent + 1 = MaxTraces THEN 0 ELSE t.mostRecent + 1
  BY <1>2, NextSlot
<1>4. k \in Slots
  BY <1>2, <1>3, MemoryStoreAssumption DEF Slots
<1>5. u = [ids |-> [Forget(t.ids, SlotId(t, k)) EXCEPT ![id] = k],
           traces |-> [t.traces EXCEPT ![k] = Len(t.heap) + 1], mostRecent |-> k,
           heap |-> Append(t.heap, [id |-> id, spans |-> spans]), known |-> t.known \cup spans]
  BY DEF Created
<1> HIDE DEF k, u
<1>6. u.heap = Append(t.heap, [id |-> id, spans |-> spans])
  BY <1>5
<1>7. /\ u.heap \in Seq(Traces) /\ Len(u.heap) = Len(t.heap) + 1
      /\ \A p \in 1..Len(t.heap) : u.heap[p] = t.heap[p]
      /\ u.heap[Len(t.heap) + 1] = [id |-> id, spans |-> spans]
  BY <1>1, <1>6, AppendProperties
<1>8. /\ u.ids = [Forget(t.ids, SlotId(t, k)) EXCEPT ![id] = k]
      /\ u.traces = [t.traces EXCEPT ![k] = Len(t.heap) + 1]
      /\ u.mostRecent = k /\ u.known = t.known \cup spans
  BY <1>5
<1> QED
  BY <1>3, <1>4, <1>7, <1>8 DEF k, u, IsCreated

\* A new trace keeps a tenant as it should be.
LEMMA CreatedInv ==
  ASSUME NEW t, TenantInv(t), NEW id \in TraceIDs, NEW spans \in SUBSET Spans,
         t.ids[id] = None, \A s \in spans : TraceOf[s] = id
  PROVE  TenantInv(Created(t, id, spans))
<1> DEFINE k == (t.mostRecent + 1) % MaxTraces
           u == Created(t, id, spans)
           out == SlotId(t, k)
<1>1. t \in Tenants /\ t.ids \in [TraceIDs -> Slots \cup {None}] /\ t.traces \in [Slots -> Nat]
      /\ t.mostRecent \in Slots \cup {-1} /\ Len(t.heap) \in Nat /\ MaxTraces \in Nat \ {0}
  BY TenantType, MemoryStoreAssumption DEF TenantInv
<1>2. /\ k \in Slots /\ k = IF t.mostRecent + 1 = MaxTraces THEN 0 ELSE t.mostRecent + 1
      /\ u.ids = [Forget(t.ids, out) EXCEPT ![id] = k]
      /\ u.traces = [t.traces EXCEPT ![k] = Len(t.heap) + 1]
      /\ u.mostRecent = k /\ u.known = t.known \cup spans
      /\ u.heap \in Seq(Traces) /\ Len(u.heap) = Len(t.heap) + 1
      /\ \A p \in 1..Len(t.heap) : u.heap[p] = t.heap[p]
      /\ u.heap[Len(t.heap) + 1] = [id |-> id, spans |-> spans]
  BY CreatedFields DEF IsCreated
<1>3. u = [ids |-> u.ids, traces |-> u.traces, mostRecent |-> u.mostRecent, heap |-> u.heap,
           known |-> u.known]
  BY DEF Created
<1> HIDE DEF k, u, out
<1>4. \A x \in TraceIDs : u.ids[x] = IF x = id THEN k
                                     ELSE IF x = out /\ x # Empty THEN None ELSE t.ids[x]
  BY <1>1, <1>2 DEF Forget
<1>5. u.ids \in [TraceIDs -> Slots \cup {None}]
  BY <1>1, <1>2 DEF Forget
<1>6. \A i \in Slots : u.traces[i] = IF i = k THEN Len(t.heap) + 1 ELSE t.traces[i]
  BY <1>1, <1>2
<1>7. u.traces \in [Slots -> Nat] /\ u.known \in SUBSET Spans
  BY <1>1, <1>2, TenantType
<1>8. u \in Tenants
  BY <1>2, <1>3, <1>5, <1>7 DEF Tenants
<1>9. \A i \in Slots : u.traces[i] <= Len(u.heap)
  BY <1>1, <1>2, <1>6 DEF TenantInv
<1>10. \A i \in Slots : i # k => SlotId(u, i) = SlotId(t, i)
  <2> SUFFICES ASSUME NEW i \in Slots, i # k PROVE SlotId(u, i) = SlotId(t, i)
    OBVIOUS
  <2>1. u.traces[i] = t.traces[i] /\ t.traces[i] \in 0..Len(t.heap)
    BY <1>1, <1>6 DEF TenantInv
  <2> QED
    BY <1>2, <2>1 DEF SlotId
<1>11. SlotId(u, k) = id
  BY <1>1, <1>2, <1>6 DEF SlotId
<1>12. RingOf(u)
  <2> SUFFICES ASSUME NEW i \in Slots
               PROVE  u.traces[i] = IF Age(u, i) < Len(u.heap) THEN Len(u.heap) - Age(u, i) ELSE 0
    BY DEF RingOf
  <2>1. t.traces[i] = IF Age(t, i) < Len(t.heap) THEN Len(t.heap) - Age(t, i) ELSE 0
    BY DEF TenantInv, RingOf
  <2>2. i = k => Age(u, i) = 0
    BY <1>1, <1>2 DEF Age, Slots
  <2>3. i # k => Age(u, i) = Age(t, i) + 1
    <3>1. /\ i \in Int /\ 0 <= i /\ i < MaxTraces /\ MaxTraces \in Int /\ u.mostRecent = k
          /\ t.mostRecent \in Int /\ -1 <= t.mostRecent /\ t.mostRecent < MaxTraces
      BY <1>1, <1>2 DEF Slots
    <3>2. k = IF t.mostRecent + 1 = MaxTraces THEN 0 ELSE t.mostRecent + 1
      BY <1>2
    <3> QED
      BY <3>1, <3>2 DEF Age
  <2>4. Age(t, i) \in Int
    BY <1>1 DEF Age, Slots
  <2> HIDE DEF Age
  <2> QED
    BY <1>1, <1>2, <1>6, <2>1, <2>2, <2>3, <2>4
<1>13. IndexOf(u)
  <2> SUFFICES ASSUME NEW x \in TraceIDs \ {Empty}, NEW i \in Slots
               PROVE  u.ids[x] = i <=> SlotId(u, i) = x
    BY DEF IndexOf
  <2>1. t.ids[x] = i <=> SlotId(t, i) = x
    BY DEF TenantInv, IndexOf
  <2>2. t.ids[x] = k <=> SlotId(t, k) = x
    BY <1>2 DEF TenantInv, IndexOf
  <2>3. None # i /\ None # k
    BY <1>2 DEF None, Slots
  <2>4. CASE x = id
    BY <1>4, <1>10, <1>11, <2>1, <2>3, <2>4
  <2>5. CASE x # id /\ i = k
    BY <1>4, <1>11, <2>2, <2>3, <2>5 DEF out
  <2>6. CASE x # id /\ i # k
    BY <1>4, <1>10, <2>1, <2>2, <2>3, <2>6 DEF out
  <2> QED
    BY <2>4, <2>5, <2>6
<1>14. \A x \in TraceIDs : u.ids[x] # None => u.traces[u.ids[x]] # 0
  <2> SUFFICES ASSUME NEW x \in TraceIDs, u.ids[x] # None PROVE u.traces[u.ids[x]] # 0
    OBVIOUS
  <2>1. u.traces[k] # 0
    BY <1>1, <1>2, <1>6
  <2>2. x # id => u.ids[x] = t.ids[x] /\ t.ids[x] \in Slots /\ t.traces[t.ids[x]] # 0
    BY <1>1, <1>4 DEF TenantInv
  <2> QED
    BY <1>1, <1>4, <1>6, <2>1, <2>2
<1>15. Unmixed(u)
  <2> SUFFICES ASSUME NEW p \in 1..Len(u.heap), NEW s \in u.heap[p].spans
               PROVE  TraceOf[s] \in {u.heap[p].id, Empty}
    BY DEF Unmixed
  <2>1. CASE p \in 1..Len(t.heap)
    BY <1>2, <2>1 DEF TenantInv, Unmixed
  <2>2. CASE p = Len(t.heap) + 1
    BY <1>2, <2>2
  <2> QED
    BY <1>1, <1>2, <2>1, <2>2
<1> QED
  BY <1>8, <1>9, <1>12, <1>13, <1>14, <1>15 DEF TenantInv, u

\* What storeTraces does to the traces: they grow by the spans it is given, each
\* in its place.
LEMMA TracesGrow ==
  ASSUME NEW t, TenantInv(t), NEW id \in TraceIDs, NEW spans \in SUBSET Spans,
         NEW u, u = IF t.ids[id] # None THEN Appended(t, id, spans) ELSE Created(t, id, spans)
  PROVE  /\ Len(t.heap) \in Nat /\ Len(u.heap) \in Nat /\ Len(t.heap) <= Len(u.heap)
         /\ \A p \in 1..Len(t.heap) : t.heap[p].spans \subseteq u.heap[p].spans
         /\ \A p \in 1..Len(u.heap) : \A s \in u.heap[p].spans :
              s \in spans \/ (p \in 1..Len(t.heap) /\ s \in t.heap[p].spans)
<1>1. Len(t.heap) \in Nat
  BY TenantType DEF TenantInv
<1>2. CASE t.ids[id] # None
  <2> DEFINE a == Appended(t, id, spans)
  <2>4. IsAppended(t, id, spans, a)
    BY <1>2, AppendedFields
  <2> HIDE DEF a
  <2>1. /\ Len(a.heap) = Len(t.heap)
        /\ \A p \in 1..Len(t.heap) :
              a.heap[p].spans = IF p = t.traces[t.ids[id]] THEN t.heap[p].spans \cup spans
                                                        ELSE t.heap[p].spans
    BY <2>4 DEF IsAppended
  <2>2. u = a
    BY <1>2 DEF a
  <2>3. \A p \in 1..Len(t.heap) : /\ t.heap[p].spans \subseteq u.heap[p].spans
                                 /\ u.heap[p].spans \subseteq t.heap[p].spans \cup spans
    BY <2>1, <2>2
  <2> QED
    BY <1>1, <2>1, <2>2, <2>3
<1>3. CASE t.ids[id] = None
  <2> DEFINE a == Created(t, id, spans)
  <2>5. IsCreated(t, id, spans, a)
    BY CreatedFields
  <2> HIDE DEF a
  <2>1. /\ Len(a.heap) = Len(t.heap) + 1
        /\ \A p \in 1..Len(t.heap) : a.heap[p] = t.heap[p]
        /\ a.heap[Len(t.heap) + 1] = [id |-> id, spans |-> spans]
    BY <2>5 DEF IsCreated
  <2>2. /\ Len(u.heap) = Len(t.heap) + 1
        /\ \A p \in 1..Len(t.heap) : u.heap[p] = t.heap[p]
        /\ u.heap[Len(t.heap) + 1] = [id |-> id, spans |-> spans]
    BY <1>3, <2>1 DEF a
  <2>3. u.heap[Len(t.heap) + 1].spans = spans
    BY <2>2
  <2>4. \A p \in 1..Len(u.heap) : p \in 1..Len(t.heap) \/ p = Len(t.heap) + 1
    BY <1>1, <2>2
  <2> QED
    BY <1>1, <2>2, <2>3, <2>4
<1> QED
  BY <1>2, <1>3

----------------------------------------------------------------------------
(* The specification. *)

\* Every tenant is as it should be, and calls are for a tenant there is.
StoreInv == TypeOK /\ \A g \in Generations : TenantInv(tenants[g])

\* A turn of the loop of storeTraces.
LEMMA StoreStep ==
  ASSUME StoreInv, NEW w \in Writers, NEW id \in TraceIDs, StoreTrace(w, id)
  PROVE  LET g == writer[w].tenant
             spans == {s \in writer[w].left : TraceOf[s] = id}
         IN  /\ g \in Generations \cup {0} /\ spans \in SUBSET Spans
             /\ \A h \in Generations \ {g} : tenants'[h] = tenants[h]
             /\ g \in Generations => tenants'[g] = IF tenants[g].ids[id] # None
                                                   THEN Appended(tenants[g], id, spans)
                                                   ELSE Created(tenants[g], id, spans)
             /\ tenants' \in [Generations -> Tenants]
             /\ \A h \in Generations : TenantInv(tenants'[h])
<1> DEFINE g == writer[w].tenant
           spans == {s \in writer[w].left : TraceOf[s] = id}
<1>1. g \in Generations \cup {0} /\ spans \in SUBSET Spans /\ tenants \in [Generations -> Tenants]
  BY DEF StoreInv, TypeOK
<1>2. tenants' = [tenants EXCEPT ![g] = IF @.ids[id] # None THEN Appended(@, id, spans)
                                                           ELSE Created(@, id, spans)]
  BY DEF StoreTrace
<1>3. \A s \in spans : TraceOf[s] = id
  OBVIOUS
<1> HIDE DEF g, spans
<1>4. \A h \in Generations \ {g} : tenants'[h] = tenants[h]
  BY <1>1, <1>2
<1>5. g \in Generations => tenants'[g] = IF tenants[g].ids[id] # None
                                        THEN Appended(tenants[g], id, spans)
                                        ELSE Created(tenants[g], id, spans)
  BY <1>1, <1>2
<1>6. g \in Generations => TenantInv(tenants'[g])
  BY <1>1, <1>3, <1>5, AppendedInv, CreatedInv DEF StoreInv
<1>7. \A h \in Generations : TenantInv(tenants'[h])
  BY <1>4, <1>6 DEF StoreInv
<1>8. tenants' = [h \in Generations |-> tenants'[h]]
  BY <1>1, <1>2
<1>9. tenants' \in [Generations -> Tenants]
  BY <1>7, <1>8 DEF TenantInv
<1> QED
  BY <1>1, <1>4, <1>5, <1>7, <1>9 DEF g, spans

\* The initial state is as it should be.
LEMMA StoreInit == Init => StoreInv
<1> SUFFICES ASSUME Init PROVE StoreInv
  OBVIOUS
<1>1. \A g \in Generations : tenants[g] = newTenant
  BY DEF Init
<1>2. \A g \in Generations : TenantInv(tenants[g])
  BY <1>1, NewTenant
<1>3. tenants \in [Generations -> Tenants]
  BY <1>1, NewTenant DEF Init, TenantInv
<1>4. current \in Generations
  BY MemoryStoreAssumption DEF Init, Generations
<1>5. locked \in [Generations -> SUBSET Writers]
  BY DEF Init
<1>6. writer \in [Writers -> [tenant : Generations \cup {0}, batch : SUBSET Spans, left : SUBSET Spans]]
  BY DEF Init, WriterIdle
<1>7. \A g \in Generations : \A i \in Slots : tenants[g].traces[i] <= Len(tenants[g].heap)
  BY <1>2 DEF TenantInv
<1> QED
  BY <1>2, <1>3, <1>4, <1>5, <1>6, <1>7 DEF StoreInv, TypeOK

\* Every step leaves it so.
LEMMA StoreNext == StoreInv /\ [Next]_vars => StoreInv'
<1> DEFINE WriterType == [tenant : Generations \cup {0}, batch : SUBSET Spans, left : SUBSET Spans]
<1> SUFFICES ASSUME StoreInv, [Next]_vars PROVE StoreInv'
  OBVIOUS
<1>1. ASSUME NEW w \in Writers, WriteTraces(w) PROVE StoreInv'
  <2>1. PICK batch \in SUBSET Spans :
          writer' = [writer EXCEPT ![w] = [tenant |-> current, batch |-> batch, left |-> batch]]
    BY <1>1 DEF WriteTraces
  <2>2. writer' \in [Writers -> WriterType]
    BY <2>1 DEF StoreInv, TypeOK
  <2>3. tenants' = tenants /\ current' = current /\ locked' = locked
    BY <1>1 DEF WriteTraces
  <2> QED
    BY <2>2, <2>3 DEF StoreInv, TypeOK
<1>2. ASSUME NEW w \in Writers, NEW id \in TraceIDs, StoreTrace(w, id) PROVE StoreInv'
  <2>1. /\ tenants' \in [Generations -> Tenants]
        /\ \A h \in Generations : TenantInv(tenants'[h])
    BY <1>2, StoreStep
  <2>2. \A h \in Generations : \A i \in Slots : tenants'[h].traces[i] <= Len(tenants'[h].heap)
    BY <2>1 DEF TenantInv
  <2>3. writer' \in [Writers -> WriterType]
    <3> DEFINE left == writer[w].left \ {s \in writer[w].left : TraceOf[s] = id}
    <3>1. writer' = [writer EXCEPT ![w] = IF left = {} THEN WriterIdle ELSE [@ EXCEPT !.left = left]]
      BY <1>2 DEF StoreTrace
    <3>2. writer[w] \in WriterType /\ left \in SUBSET Spans
      BY DEF StoreInv, TypeOK
    <3>3. WriterIdle \in WriterType /\ [writer[w] EXCEPT !.left = left] \in WriterType
      BY <3>2 DEF WriterIdle
    <3> QED
      BY <3>1, <3>3 DEF StoreInv, TypeOK
  <2>4. locked' \in [Generations -> SUBSET Writers]
    BY <1>2 DEF StoreTrace, StoreInv, TypeOK
  <2>5. current' \in Generations
    BY <1>2 DEF StoreTrace, StoreInv, TypeOK
  <2> QED
    BY <2>1, <2>2, <2>3, <2>4, <2>5 DEF StoreInv, TypeOK
<1>3. ASSUME UNCHANGED <<tenants, locked, writer>>, current' \in Generations PROVE StoreInv'
  BY <1>3 DEF StoreInv, TypeOK
<1>4. ASSUME NEW r \in Readers,
             \/ \E query \in SearchQueries \cup LookupQueries : Read(r, query)
             \/ Collect(r) \/ StartClone(r) \/ EndClone(r) \/ Return(r)
      PROVE  StoreInv'
  <2>1. UNCHANGED <<tenants, current, locked, writer>>
    BY <1>4 DEF Read, Collect, StartClone, EndClone, Return, store
  <2> QED
    BY <1>3, <2>1 DEF StoreInv, TypeOK
<1>5. CASE Purge
  <2>1. current' \in Generations
    BY <1>5, MemoryStoreAssumption DEF Purge, Generations, StoreInv, TypeOK
  <2> QED
    BY <1>3, <1>5, <2>1 DEF Purge
<1>6. CASE UNCHANGED vars
  BY <1>3, <1>6 DEF vars, store, StoreInv, TypeOK
<1> QED
  BY <1>1, <1>2, <1>4, <1>5, <1>6 DEF Next

\* Type correctness: tenants, locks and calls have their types for ever.
THEOREM TypeCorrect == Spec => []TypeOK
<1>1. StoreInv => TypeOK
  BY DEF StoreInv
<1> QED
  BY <1>1, StoreInit, StoreNext, PTL DEF Spec

\* The inductive invariant: the ring, the index and the traces of every tenant.
THEOREM StoreInvariant == Spec => []StoreInv
  BY StoreInit, StoreNext, PTL DEF Spec

\* The ring always holds the traces that were created last, in their order.
THEOREM Newest == Spec => []RingHoldsTheNewest
<1>1. StoreInv => RingHoldsTheNewest
  BY DEF StoreInv, TenantInv, RingHoldsTheNewest
<1> QED
  BY <1>1, StoreInvariant, PTL

\* The index always agrees with the ring.
THEOREM Indexed == Spec => []IndexMatchesRing
<1>1. StoreInv => IndexMatchesRing
  BY DEF StoreInv, TenantInv, IndexMatchesRing
<1> QED
  BY <1>1, StoreInvariant, PTL

\* No trace ever gets spans of another.
THEOREM NeverMixed == Spec => []NothingMixed
<1>1. StoreInv => NothingMixed
  BY DEF StoreInv, TenantInv, NothingMixed
<1> QED
  BY <1>1, StoreInvariant, PTL

----------------------------------------------------------------------------
(* Readers. *)

\* The spans that writers have yet to store are in no trace, and no two batches
\* share one.
FreshInv ==
    /\ \A w \in Writers : writer[w].left \subseteq writer[w].batch
    /\ \A w \in Writers : writer[w].left # {} => writer[w].tenant \in Generations
    /\ \A w, v \in Writers : w # v => writer[w].batch \cap writer[v].batch = {}
    /\ \A w \in Writers, g \in Generations : writer[w].left \cap SpansOf(tenants[g]) = {}

\* The spans that a reader must not miss.
Mine(read) == {s \in read.acked : TraceOf[s] = read.query.id /\ TraceOf[s] # Empty}

\* A read of one trace: until it has copied the trace it found, that trace holds
\* the spans that it has to return and that were not evicted.
LookupInv(read, t) ==
    /\ read.refs = <<>> \/ (\E o \in 1..Len(t.heap) : read.refs = <<o>>)
    /\ read.pc = "copying" => read.refs # <<>>
    /\ \A s \in Mine(read) :
        \/ s \in read.got \/ EvictedFrom(t, s)
        \/ read.pc # "done" /\ \E o \in 1..Len(t.heap) : read.refs = <<o>> /\ s \in t.heap[o].spans

\* What a reader does, in one record.
Reading(r) ==
    [pc |-> pc[r], tenant |-> call[r].tenant, query |-> call[r].query, acked |-> call[r].acked,
     refs |-> refs[r], got |-> got[r]]

\* A reader: its tenant and what it relies on.
ReaderInv(read) ==
    /\ read.pc \in {"idle", "collect", "clone", "copying", "done"}
    /\ read.pc # "idle" =>
        /\ read.tenant \in Generations /\ read.acked \subseteq SpansOf(tenants[read.tenant])
        /\ read.query.kind = "GetTraces" => read.query.id \in TraceIDs
        /\ read.query.kind # "GetTraces" => read.query.depth \in 1..MaxTraces
        /\ read.pc # "collect" /\ read.query.kind = "GetTraces" =>
            LookupInv(read, tenants[read.tenant])

CallInv ==
    /\ StoreInv /\ FreshInv
    /\ pc = [r \in Readers |-> pc[r]] /\ call = [r \in Readers |-> call[r]]
    /\ refs = [r \in Readers |-> refs[r]] /\ got = [r \in Readers |-> got[r]]
    /\ \A r \in Readers : ReaderInv(Reading(r))

\* A span in a trace that is not evicted is where the index leads.
LEMMA LookupFinds ==
  ASSUME NEW t, TenantInv(t), NEW s, s \in SpansOf(t), TraceOf[s] # Empty, TraceOf[s] \in TraceIDs,
         ~EvictedFrom(t, s)
  PROVE  \E o \in 1..Len(t.heap) : Lookup(t, TraceOf[s]) = <<o>> /\ s \in t.heap[o].spans
<1>1. PICK o \in 1..Len(t.heap) : s \in t.heap[o].spans /\ ~(o <= Len(t.heap) - MaxTraces)
  BY DEF EvictedFrom
<1>2. /\ Len(t.heap) \in Nat /\ t.mostRecent \in Slots \cup {-1} /\ MaxTraces \in Nat \ {0}
      /\ t.ids \in [TraceIDs -> Slots \cup {None}]
  BY TenantType, MemoryStoreAssumption DEF TenantInv
<1> DEFINE age == Len(t.heap) - o
           i == IF age <= t.mostRecent THEN t.mostRecent - age ELSE t.mostRecent - age + MaxTraces
<1>3. age \in 0..MaxTraces - 1 /\ age < Len(t.heap)
  BY <1>1, <1>2
<1>4. t.mostRecent \in Int /\ -1 <= t.mostRecent /\ t.mostRecent < MaxTraces
  BY <1>2 DEF Slots
<1>5. i \in Slots /\ Age(t, i) = age
  BY <1>2, <1>3, <1>4 DEF Age, Slots
<1>6. t.traces[i] = Len(t.heap) - age
  BY <1>3, <1>5 DEF TenantInv, RingOf
<1>7. t.traces[i] = o
  BY <1>1, <1>2, <1>6
<1> HIDE DEF i, age
<1>8. t.heap[o].id = TraceOf[s]
  BY <1>1 DEF TenantInv, Unmixed
<1>9. SlotId(t, i) = TraceOf[s]
  BY <1>1, <1>2, <1>7, <1>8 DEF SlotId
<1>10. t.ids[TraceOf[s]] = i
  BY <1>5, <1>9 DEF TenantInv, IndexOf
<1>11. i # None
  BY <1>5 DEF Slots, None
<1> QED
  BY <1>1, <1>7, <1>10, <1>11 DEF Lookup

\* What a reader relies on survives a turn of the loop of storeTraces.
LEMMA LookupStep ==
  ASSUME NEW t, TenantInv(t), NEW id \in TraceIDs, NEW spans \in SUBSET Spans,
         NEW u, u = IF t.ids[id] # None THEN Appended(t, id, spans) ELSE Created(t, id, spans),
         spans \cap SpansOf(t) = {},
         NEW read, read.acked \subseteq SpansOf(t)
  PROVE  /\ read.acked \subseteq SpansOf(u)
         /\ LookupInv(read, t) => LookupInv(read, u)
<1>1. /\ Len(t.heap) \in Nat /\ Len(u.heap) \in Nat /\ Len(t.heap) <= Len(u.heap)
      /\ \A p \in 1..Len(t.heap) : t.heap[p].spans \subseteq u.heap[p].spans
      /\ \A p \in 1..Len(u.heap) : \A s \in u.heap[p].spans :
           s \in spans \/ (p \in 1..Len(t.heap) /\ s \in t.heap[p].spans)
  BY TracesGrow
<1>2. \A p \in 1..Len(t.heap) : p \in 1..Len(u.heap)
  BY <1>1
<1>3. \A s \in SpansOf(t) : s \in SpansOf(u)
  BY <1>1, <1>2 DEF SpansOf
<1>4. \A s \in SpansOf(t) : EvictedFrom(t, s) => EvictedFrom(u, s)
  <2> SUFFICES ASSUME NEW s \in SpansOf(t), EvictedFrom(t, s), NEW p \in 1..Len(u.heap),
                      s \in u.heap[p].spans
               PROVE  p <= Len(u.heap) - MaxTraces
    BY DEF EvictedFrom
  <2>1. p \in 1..Len(t.heap) /\ s \in t.heap[p].spans
    BY <1>1
  <2> QED
    BY <1>1, <2>1, MemoryStoreAssumption DEF EvictedFrom
<1>5. ASSUME LookupInv(read, t) PROVE LookupInv(read, u)
  <2>1. read.refs = <<>> \/ (\E o \in 1..Len(u.heap) : read.refs = <<o>>)
    BY <1>2, <1>5 DEF LookupInv
  <2>2. ASSUME NEW s \in Mine(read)
        PROVE  \/ s \in read.got \/ EvictedFrom(u, s)
               \/ read.pc # "done" /\ \E o \in 1..Len(u.heap) : read.refs = <<o>> /\ s \in u.heap[o].spans
    <3>1. s \in SpansOf(t)
      BY <2>2 DEF Mine
    <3> QED
      BY <1>1, <1>2, <1>4, <1>5, <3>1 DEF LookupInv
  <2> QED
    BY <1>5, <2>1, <2>2 DEF LookupInv
<1> QED
  BY <1>3, <1>5

\* No call is under way at first.
LEMMA CallInit == Init => CallInv
<1> SUFFICES ASSUME Init PROVE CallInv
  OBVIOUS
<1>1. StoreInv
  BY StoreInit
<1>2. FreshInv
  BY DEF Init, FreshInv, WriterIdle
<1>3. /\ pc = [r \in Readers |-> pc[r]] /\ call = [r \in Readers |-> call[r]]
      /\ refs = [r \in Readers |-> refs[r]] /\ got = [r \in Readers |-> got[r]]
      /\ \A r \in Readers : pc[r] = "idle"
  BY DEF Init
<1>4. \A r \in Readers : ReaderInv(Reading(r))
  BY <1>3 DEF ReaderInv, Reading
<1> QED
  BY <1>1, <1>2, <1>3, <1>4 DEF CallInv

\* A write begins with spans that are nowhere else.
LEMMA WriteTracesStep ==
  ASSUME CallInv, NEW w \in Writers, WriteTraces(w)
  PROVE  FreshInv'
<1>1. PICK batch \in SUBSET (Spans \ (InBatches \cup UNION {SpansOf(tenants[g]) : g \in Generations})) :
        writer' = [writer EXCEPT ![w] = [tenant |-> current, batch |-> batch, left |-> batch]]
  BY DEF WriteTraces
<1>2. \A g \in Generations : batch \cap SpansOf(tenants[g]) = {}
  BY <1>1
<1>3. \A v \in Writers : batch \cap writer[v].batch = {}
  BY <1>1 DEF InBatches
<1>4. writer'[w] = [tenant |-> current, batch |-> batch, left |-> batch]
      /\ \A v \in Writers \ {w} : writer'[v] = writer[v]
  BY <1>1 DEF CallInv, StoreInv, TypeOK
<1>5. tenants' = tenants /\ current \in Generations
  BY DEF WriteTraces, CallInv, StoreInv, TypeOK
<1>6. FreshInv
  BY DEF CallInv
<1>7. \A v \in Writers : writer'[v].left \subseteq writer'[v].batch
  BY <1>4, <1>6 DEF FreshInv
<1>8. \A v \in Writers : writer'[v].left # {} => writer'[v].tenant \in Generations
  BY <1>4, <1>5, <1>6 DEF FreshInv
<1>9. \A u, v \in Writers : u # v => writer'[u].batch \cap writer'[v].batch = {}
  BY <1>3, <1>4, <1>6 DEF FreshInv
<1>10. \A v \in Writers, g \in Generations : writer'[v].left \cap SpansOf(tenants[g]) = {}
  BY <1>2, <1>4, <1>6 DEF FreshInv
<1> QED
  BY <1>5, <1>7, <1>8, <1>9, <1>10 DEF FreshInv, SpansOf

\* What is left of a batch is stored by its writer alone.
LEMMA StoreTraceStep ==
  ASSUME CallInv, NEW w \in Writers, NEW id \in TraceIDs, StoreTrace(w, id)
  PROVE  FreshInv' /\ \A r \in Readers : ReaderInv(Reading(r))'
<1> DEFINE g == writer[w].tenant
           spans == {s \in writer[w].left : TraceOf[s] = id}
           left == writer[w].left \ spans
<1>1. StoreInv /\ FreshInv
  BY DEF CallInv
<1>2. g \in Generations
  BY <1>1 DEF StoreTrace, FreshInv
<1>3. /\ spans \in SUBSET Spans
      /\ \A h \in Generations \ {g} : tenants'[h] = tenants[h]
      /\ tenants'[g] = IF tenants[g].ids[id] # None THEN Appended(tenants[g], id, spans)
                                                   ELSE Created(tenants[g], id, spans)
  BY <1>1, <1>2, StoreStep
<1>4. writer' = [writer EXCEPT ![w] = IF left = {} THEN WriterIdle ELSE [@ EXCEPT !.left = left]]
      /\ UNCHANGED reader
  BY DEF StoreTrace
<1>5. /\ writer'[w].left = left /\ writer'[w].batch \subseteq writer[w].batch
      /\ left # {} => writer'[w].tenant = g /\ writer'[w].batch = writer[w].batch
      /\ \A v \in Writers \ {w} : writer'[v] = writer[v]
  <2>1. writer[w] \in [tenant : Generations \cup {0}, batch : SUBSET Spans, left : SUBSET Spans]
    BY <1>1 DEF StoreInv, TypeOK
  <2>2. [writer[w] EXCEPT !.left = left] = [tenant |-> g, batch |-> writer[w].batch, left |-> left]
    BY <2>1
  <2>3. writer'[w] = IF left = {} THEN WriterIdle
                     ELSE [tenant |-> g, batch |-> writer[w].batch, left |-> left]
    BY <1>1, <1>4, <2>2 DEF StoreInv, TypeOK
  <2>4. \A v \in Writers \ {w} : writer'[v] = writer[v]
    BY <1>1, <1>4 DEF StoreInv, TypeOK
  <2> QED
    BY <2>3, <2>4 DEF WriterIdle
<1>6. spans \subseteq writer[w].left /\ left \subseteq writer[w].left /\ left \cap spans = {}
  OBVIOUS
<1> HIDE DEF g, spans, left
<1>7. spans \cap SpansOf(tenants[g]) = {}
  BY <1>1, <1>2, <1>6 DEF FreshInv
<1>8. \A s \in SpansOf(tenants'[g]) : s \in spans \/ s \in SpansOf(tenants[g])
  BY <1>1, <1>2, <1>3, TracesGrow DEF SpansOf, StoreInv
<1>9. \A v \in Writers : writer'[v].left \subseteq writer'[v].batch
  BY <1>1, <1>5, <1>6 DEF FreshInv
<1>10. \A v \in Writers : writer'[v].left # {} => writer'[v].tenant \in Generations
  BY <1>1, <1>2, <1>5 DEF FreshInv
<1>11. \A u, v \in Writers : u # v => writer'[u].batch \cap writer'[v].batch = {}
  BY <1>1, <1>5 DEF FreshInv
<1>12. \A v \in Writers : writer'[v].left \cap spans = {} /\ writer'[v].left \subseteq writer[v].left
  <2>1. \A v \in Writers \ {w} : writer[v].left \cap writer[w].left = {}
    BY <1>1 DEF FreshInv
  <2> QED
    BY <1>5, <1>6, <2>1
<1>13. \A v \in Writers, h \in Generations : writer'[v].left \cap SpansOf(tenants'[h]) = {}
  <2> SUFFICES ASSUME NEW v \in Writers, NEW h \in Generations, NEW s \in writer'[v].left,
                      s \in SpansOf(tenants'[h])
               PROVE  FALSE
    OBVIOUS
  <2>1. s \notin spans /\ s \notin SpansOf(tenants[h])
    BY <1>1, <1>12 DEF FreshInv
  <2> QED
    BY <1>3, <1>8, <2>1
<1>14. FreshInv'
  BY <1>9, <1>10, <1>11, <1>13 DEF FreshInv, SpansOf
<1>15. ASSUME NEW r \in Readers, Reading(r).pc # "idle", Reading(r).tenant = g
       PROVE  /\ Reading(r).acked \subseteq SpansOf(tenants'[g])
              /\ LookupInv(Reading(r), tenants[g]) => LookupInv(Reading(r), tenants'[g])
  <2>1. Reading(r).acked \subseteq SpansOf(tenants[g])
    BY <1>15 DEF CallInv, ReaderInv
  <2> QED
    BY <1>1, <1>2, <1>3, <1>7, <2>1, LookupStep DEF StoreInv
<1>16. ASSUME NEW r \in Readers PROVE ReaderInv(Reading(r))'
  <2>1. ReaderInv(Reading(r)) /\ Reading(r)' = Reading(r)
    BY <1>4 DEF CallInv, Reading, reader
  <2>2. Reading(r).pc # "idle" =>
          /\ Reading(r).acked \subseteq SpansOf(tenants'[Reading(r).tenant])
          /\ LookupInv(Reading(r), tenants[Reading(r).tenant])
             => LookupInv(Reading(r), tenants'[Reading(r).tenant])
    BY <1>3, <1>15, <2>1 DEF ReaderInv
  <2> QED
    BY <2>1, <2>2 DEF ReaderInv, SpansOf, LookupInv, Mine, EvictedFrom
<1> QED
  BY <1>4, <1>14, <1>16 DEF reader

\* A step of one reader keeps what all rely on, if it does so for its own.
LEMMA ReaderStep ==
  ASSUME CallInv, NEW r \in Readers, UNCHANGED store,
         pc' = [pc EXCEPT ![r] = pc'[r]], call' = [call EXCEPT ![r] = call'[r]],
         refs' = [refs EXCEPT ![r] = refs'[r]], got' = [got EXCEPT ![r] = got'[r]],
         ReaderInv(Reading(r)')
  PROVE  CallInv'
<1>1. StoreInv' /\ FreshInv'
  BY DEF CallInv, StoreInv, TypeOK, FreshInv, SpansOf, store
<1>2. /\ pc' = [q \in Readers |-> pc'[q]] /\ call' = [q \in Readers |-> call'[q]]
      /\ refs' = [q \in Readers |-> refs'[q]] /\ got' = [q \in Readers |-> got'[q]]
  BY DEF CallInv
<1>3. \A q \in Readers \ {r} : Reading(q)' = Reading(q)
  BY DEF CallInv, Reading
<1>4. \A q \in Readers : ReaderInv(Reading(q)')
  BY <1>3 DEF CallInv
<1>5. \A q \in Readers : ReaderInv(Reading(q))'
  BY <1>4 DEF ReaderInv, LookupInv, SpansOf, Mine, EvictedFrom, store
<1> QED
  BY <1>1, <1>2, <1>5 DEF CallInv

\* Read: what is acknowledged is in the current tenant.
LEMMA ReadStep ==
  ASSUME CallInv, NEW r \in Readers, NEW query \in SearchQueries \cup LookupQueries, Read(r, query)
  PROVE  CallInv'
<1>1. /\ pc'[r] = "collect"
      /\ call'[r] = [tenant |-> current, query |-> query, acked |-> Acknowledged]
  BY DEF CallInv, Read
<1>2. current \in Generations /\ Acknowledged \subseteq SpansOf(tenants[current])
  BY DEF CallInv, StoreInv, TypeOK, Acknowledged
<1>3. /\ query.kind = "GetTraces" => query.id \in TraceIDs
      /\ query.kind # "GetTraces" => query.depth \in 1..MaxTraces
  BY DEF SearchQueries, LookupQueries
<1>4. ReaderInv(Reading(r)')
  BY <1>1, <1>2, <1>3 DEF ReaderInv, Reading
<1> QED
  BY <1>1, <1>4, ReaderStep DEF Read, CallInv

\* Collect: the index leads to the trace whose spans a read must not miss.
LEMMA CollectStep ==
  ASSUME CallInv, NEW r \in Readers, Collect(r)
  PROVE  CallInv'
<1> DEFINE t == tenants[call[r].tenant]
           found == Refs(t, call[r].query)
           read == Reading(r)'
<1>1. /\ pc[r] = "collect" /\ refs'[r] = found /\ call' = call /\ got' = got
      /\ pc'[r] = IF found = <<>> \/ call[r].query.kind = "FindTraceIDs" THEN "done" ELSE "clone"
  BY DEF CallInv, Collect
<1>2. /\ call[r].tenant \in Generations /\ call[r].acked \subseteq SpansOf(t)
      /\ call[r].query.kind = "GetTraces" => call[r].query.id \in TraceIDs
      /\ call[r].query.kind # "GetTraces" => call[r].query.depth \in 1..MaxTraces
  <2>1. ReaderInv(Reading(r))
    BY DEF CallInv
  <2> QED
    BY <1>1, <2>1 DEF ReaderInv, Reading
<1>3. TenantInv(t)
  BY <1>2 DEF CallInv, StoreInv
<1>4. /\ read.pc = pc'[r] /\ read.tenant = call[r].tenant /\ read.query = call[r].query
      /\ read.acked = call[r].acked /\ read.refs = found /\ read.got = got[r]
  BY <1>1 DEF Reading
<1> HIDE DEF t, found, read
<1>5. ASSUME call[r].query.kind = "GetTraces" PROVE LookupInv(read, t)
  <2> DEFINE id == call[r].query.id
  <2>1. found = Lookup(t, id) /\ id \in TraceIDs
    BY <1>2, <1>5 DEF found, Refs
  <2>2. t.ids[id] # None => t.traces[t.ids[id]] \in 1..Len(t.heap)
    <3>1. t.ids \in [TraceIDs -> Slots \cup {None}] /\ t.traces \in [Slots -> Nat]
          /\ Len(t.heap) \in Nat
      BY <1>3, TenantType DEF TenantInv
    <3> QED
      BY <1>3, <2>1, <3>1 DEF TenantInv
  <2>3. found = <<>> \/ (\E o \in 1..Len(t.heap) : found = <<o>>)
    BY <2>1, <2>2 DEF Lookup
  <2>4. ASSUME NEW s \in Mine(read)
        PROVE  EvictedFrom(t, s) \/ \E o \in 1..Len(t.heap) : found = <<o>> /\ s \in t.heap[o].spans
    <3>1. s \in SpansOf(t) /\ TraceOf[s] = id /\ TraceOf[s] # Empty
      BY <1>2, <1>4, <2>4 DEF Mine
    <3> QED
      BY <1>3, <2>1, <3>1, LookupFinds
  <2>5. \A o : found = <<o>> => read.pc = "clone"
    BY <1>1, <1>4, <1>5
  <2>6. read.pc # "copying" /\ read.refs = found
    BY <1>1, <1>4
  <2> QED
    BY <2>3, <2>4, <2>5, <2>6 DEF LookupInv
<1>6. ReaderInv(read)
  BY <1>1, <1>2, <1>4, <1>5 DEF ReaderInv, t
<1> QED
  BY <1>1, <1>6, ReaderStep DEF Collect, CallInv, read

\* StartClone: nothing of what a read relies on changes.
LEMMA StartCloneStep ==
  ASSUME CallInv, NEW r \in Readers, StartClone(r)
  PROVE  CallInv'
<1> DEFINE old == Reading(r)
           read == Reading(r)'
<1>1. /\ pc[r] = "clone" /\ refs[r] # <<>> /\ call' = call /\ got' = got /\ refs' = refs
      /\ pc'[r] = "copying"
  BY DEF CallInv, StartClone
<1>2. ReaderInv(old) /\ old.pc = "clone" /\ old.refs # <<>>
  BY <1>1 DEF CallInv, Reading
<1>3. /\ read.pc = "copying" /\ read.tenant = old.tenant /\ read.query = old.query
      /\ read.acked = old.acked /\ read.refs = old.refs /\ read.got = old.got
  BY <1>1 DEF Reading
<1> HIDE DEF read, old
<1>4. \A t : LookupInv(old, t) => LookupInv(read, t)
  BY <1>2, <1>3 DEF LookupInv, Mine
<1>5. ReaderInv(read)
  BY <1>2, <1>3, <1>4 DEF ReaderInv
<1> QED
  BY <1>1, <1>5, ReaderStep DEF StartClone, CallInv, read

\* EndClone: the copy has the spans of the trace.
LEMMA EndCloneStep ==
  ASSUME CallInv, NEW r \in Readers, EndClone(r)
  PROVE  CallInv'
<1> DEFINE t == tenants[call[r].tenant]
           old == Reading(r)
           read == Reading(r)'
<1>1. /\ pc[r] = "copying" /\ call' = call /\ got'[r] = got[r] \cup SpansAt(r)
      /\ refs'[r] = Tail(refs[r]) /\ pc'[r] = IF Len(refs[r]) = 1 THEN "done" ELSE "clone"
  BY DEF CallInv, EndClone
<1>2. ReaderInv(old) /\ old.pc = "copying" /\ old.refs = refs[r] /\ old.tenant = call[r].tenant
  BY <1>1 DEF CallInv, Reading
<1>3. /\ read.pc = pc'[r] /\ read.tenant = old.tenant /\ read.query = old.query
      /\ read.acked = old.acked /\ read.refs = Tail(old.refs) /\ read.got = old.got \cup SpansAt(r)
  BY <1>1 DEF Reading
<1>4. SpansAt(r) = t.heap[Head(old.refs)].spans
  BY DEF SpansAt, Reading
<1> HIDE DEF read, t, old
<1>5. ASSUME LookupInv(old, t) PROVE LookupInv(read, t)
  <2>1. PICK o \in 1..Len(t.heap) : old.refs = <<o>>
    BY <1>2, <1>5 DEF LookupInv
  <2>2. Head(<<o>>) = o /\ Tail(<<o>>) = <<>> /\ Len(<<o>>) = 1
    OBVIOUS
  <2>3. read.refs = <<>> /\ read.pc = "done" /\ read.got = old.got \cup t.heap[o].spans
    BY <1>1, <1>2, <1>3, <1>4, <2>1, <2>2
  <2>4. Mine(read) = Mine(old)
    BY <1>3 DEF Mine
  <2>5. ASSUME NEW s \in Mine(read) PROVE s \in read.got \/ EvictedFrom(t, s)
    <3>1. \/ s \in old.got \/ EvictedFrom(t, s)
          \/ \E p \in 1..Len(t.heap) : old.refs = <<p>> /\ s \in t.heap[p].spans
      BY <1>5, <2>4, <2>5 DEF LookupInv
    <3>2. \A p : old.refs = <<p>> => p = o
      BY <2>1
    <3> QED
      BY <2>3, <3>1, <3>2
  <2> QED
    BY <2>3, <2>5 DEF LookupInv
<1>6. ReaderInv(read)
  BY <1>1, <1>2, <1>3, <1>5 DEF ReaderInv, t
<1> QED
  BY <1>1, <1>6, ReaderStep DEF EndClone, CallInv, read

\* Every step keeps what readers rely on.
LEMMA CallNext == CallInv /\ [Next]_vars => CallInv'
<1> SUFFICES ASSUME CallInv, [Next]_vars PROVE CallInv'
  OBVIOUS
<1>1. StoreInv'
  BY StoreNext DEF CallInv
<1>2. ASSUME UNCHANGED <<tenants, reader>>, FreshInv' PROVE CallInv'
  <2>1. \A r \in Readers : Reading(r)' = Reading(r)
    BY <1>2 DEF Reading, reader
  <2>2. \A r \in Readers : ReaderInv(Reading(r))'
    BY <1>2, <2>1 DEF CallInv, ReaderInv, LookupInv, SpansOf, Mine, EvictedFrom
  <2> QED
    BY <1>1, <1>2, <2>2 DEF CallInv, reader
<1>3. ASSUME UNCHANGED <<tenants, writer, reader>> PROVE CallInv'
  BY <1>2, <1>3 DEF CallInv, FreshInv, SpansOf
<1>4. ASSUME NEW w \in Writers, WriteTraces(w) PROVE CallInv'
  BY <1>2, <1>4, WriteTracesStep DEF WriteTraces
<1>5. ASSUME NEW w \in Writers, NEW id \in TraceIDs, StoreTrace(w, id) PROVE CallInv'
  <2>1. FreshInv' /\ \A r \in Readers : ReaderInv(Reading(r))'
    BY <1>5, StoreTraceStep
  <2>2. UNCHANGED reader
    BY <1>5 DEF StoreTrace
  <2> QED
    BY <1>1, <2>1, <2>2 DEF CallInv, reader
<1>6. ASSUME NEW r \in Readers, Return(r) PROVE CallInv'
  <2>1. pc'[r] = "idle"
    BY <1>6 DEF Return, CallInv
  <2>2. ReaderInv(Reading(r)')
    BY <2>1 DEF ReaderInv, Reading
  <2> QED
    BY <1>6, <2>2, ReaderStep DEF Return, CallInv
<1>7. CASE Purge
  BY <1>3, <1>7 DEF Purge
<1>8. CASE UNCHANGED vars
  BY <1>3, <1>8 DEF vars, store
<1> QED
  BY <1>4, <1>5, <1>6, <1>7, <1>8, ReadStep, CollectStep, StartCloneStep, EndCloneStep DEF Next

\* GetTraces returns every span of the trace whose WriteTraces had returned when
\* it was called, unless the trace was evicted.
THEOREM ReadsOwnWrites == Spec => []ReadYourWrites
<1>1. CallInv => ReadYourWrites
  <2> SUFFICES ASSUME CallInv, NEW r \in Readers, pc[r] = "done",
                      call[r].query.kind = "GetTraces", NEW s \in call[r].acked,
                      TraceOf[s] = call[r].query.id, TraceOf[s] # Empty
               PROVE  s \in got[r] \/ EvictedFrom(tenants[call[r].tenant], s)
    BY DEF ReadYourWrites
  <2>1. LookupInv(Reading(r), tenants[call[r].tenant])
    BY DEF CallInv, ReaderInv, Reading
  <2>2. s \in Mine(Reading(r)) /\ Reading(r).pc = "done" /\ Reading(r).got = got[r]
    BY DEF Mine, Reading
  <2> QED
    BY <2>1, <2>2 DEF LookupInv
<1> QED
  BY <1>1, CallInit, CallNext, PTL DEF Spec

----------------------------------------------------------------------------
(* Searches. *)

\* The i-th slot of a search holds the trace that was created i traces ago.
LEMMA SlotAge ==
  ASSUME NEW t, t.mostRecent \in Slots \cup {-1}, NEW i \in Slots
  PROVE  Slot(t, i) \in Slots /\ Age(t, Slot(t, i)) = i
<1> DEFINE m == t.mostRecent
<1>1. /\ MaxTraces \in Nat \ {0} /\ m \in Int /\ -1 <= m /\ m < MaxTraces
      /\ i \in Int /\ 0 <= i /\ i < MaxTraces
  BY MemoryStoreAssumption DEF Slots
<1>2. (m - i + MaxTraces) % MaxTraces = IF i <= m THEN m - i ELSE m - i + MaxTraces
  <2>1. CASE i <= m
    <3>1. (m - i) % MaxTraces = m - i
      BY <1>1, <2>1, SMT
    <3> QED
      BY <1>1, <2>1, <3>1, SMT
  <2>2. CASE i > m
    BY <1>1, <2>2, SMT
  <2> QED
    BY <1>1, <2>1, <2>2
<1> QED
  BY <1>1, <1>2 DEF Slot, Age, Slots

\* So the trace is in its place in the heap, and the slot looks empty if there is
\* none or if its id is.
LEMMA SlotTrace ==
  ASSUME NEW t, TenantInv(t), NEW i \in Slots
  PROVE  /\ t.traces[Slot(t, i)] = IF i < Len(t.heap) THEN Len(t.heap) - i ELSE 0
         /\ SlotId(t, Slot(t, i)) = Empty <=>
              i >= Len(t.heap) \/ t.heap[Len(t.heap) - i].id = Empty
<1>1. t.mostRecent \in Slots \cup {-1} /\ Len(t.heap) \in Nat /\ i \in Nat
  BY TenantType DEF TenantInv, Slots
<1>2. t.traces[Slot(t, i)] = IF i < Len(t.heap) THEN Len(t.heap) - i ELSE 0
  <2>1. Slot(t, i) \in Slots /\ Age(t, Slot(t, i)) = i
    BY <1>1, SlotAge
  <2> QED
    BY <2>1 DEF TenantInv, RingOf
<1> QED
  BY <1>1, <1>2 DEF SlotId

\* The eligible traces that a search has passed after i turns.
Passed(t, query, i) == {o \in Eligible(t, query) : o > Len(t.heap) - i}

\* What the i turns have found: the newest of those, and all of them unless the
\* depth is reached.
SearchInv(found, passed, depth) ==
    /\ IsNewest(found, passed, depth)
    /\ Len(found) < depth => passed \subseteq {found[k] : k \in 1..Len(found)}

\* Whether turn i takes the trace of its slot, up to the depth.
Takes(t, query, i) ==
    /\ \A j \in 0..i : SlotId(t, Slot(t, j)) # Empty
    /\ Matches(t, query, t.traces[Slot(t, i)])

\* A turn passes the trace that it takes, and no other that is eligible.
LEMMA PassedNext ==
  ASSUME NEW t, TenantInv(t), NEW query, NEW i \in Slots
  PROVE  /\ Takes(t, query, i) => /\ t.traces[Slot(t, i)] = Len(t.heap) - i
                                  /\ Len(t.heap) - i \in 1..Len(t.heap)
         /\ Passed(t, query, i + 1) = IF Takes(t, query, i)
                                      THEN Passed(t, query, i) \cup {Len(t.heap) - i}
                                      ELSE Passed(t, query, i)
<1> DEFINE N == Len(t.heap)
<1>1. N \in Nat /\ MaxTraces \in Nat \ {0} /\ i \in 0..MaxTraces - 1
  BY TenantType, MemoryStoreAssumption DEF TenantInv, Slots
<1>2. \A j \in 0..i : j \in Slots
  BY <1>1 DEF Slots
<1>3. Takes(t, query, i) <=> /\ \A j \in 0..i : j < N /\ t.heap[N - j].id # Empty
                             /\ Matches(t, query, t.traces[Slot(t, i)])
  <2>1. \A j \in 0..i : SlotId(t, Slot(t, j)) # Empty <=> j < N /\ t.heap[N - j].id # Empty
    BY <1>1, <1>2, SlotTrace
  <2> QED
    BY <2>1 DEF Takes
<1>4. i < N => t.traces[Slot(t, i)] = N - i
  BY <1>1, SlotTrace
<1> HIDE DEF N
<1>5. Takes(t, query, i) <=> /\ i < N /\ Matches(t, query, N - i)
                             /\ \A j \in 0..i : t.heap[N - j].id # Empty
  BY <1>1, <1>3, <1>4
<1>6. ASSUME i < N
      PROVE  (\A j \in 0..i : t.heap[N - j].id # Empty)
             <=> (\A p \in (N - i)..N : t.heap[p].id # Empty)
  <2>1. ASSUME \A j \in 0..i : t.heap[N - j].id # Empty, NEW p \in (N - i)..N
        PROVE  t.heap[p].id # Empty
    <3>1. N - p \in 0..i /\ N - (N - p) = p
      BY <1>1
    <3> QED
      BY <2>1, <3>1
  <2>2. ASSUME \A p \in (N - i)..N : t.heap[p].id # Empty, NEW j \in 0..i
        PROVE  t.heap[N - j].id # Empty
    BY <1>1, <2>2
  <2> QED
    BY <2>1, <2>2
<1>7. N - i \in Eligible(t, query) <=> Takes(t, query, i)
  <2>1. N - i \in 1..N <=> i < N
    BY <1>1
  <2>2. N - i > N - MaxTraces
    BY <1>1
  <2> QED
    BY <1>5, <1>6, <2>1, <2>2 DEF Eligible, N
<1>8. \A o \in Eligible(t, query) : o > N - (i + 1) <=> o > N - i \/ o = N - i
  BY <1>1 DEF Eligible, N
<1>9. Passed(t, query, i + 1) = Passed(t, query, i) \cup ({N - i} \cap Eligible(t, query))
  BY <1>8 DEF Passed, N
<1>10. Takes(t, query, i) => t.traces[Slot(t, i)] = N - i /\ N - i \in 1..N
  BY <1>1, <1>4, <1>5
<1>11. Passed(t, query, i + 1) = IF Takes(t, query, i) THEN Passed(t, query, i) \cup {N - i}
                                                      ELSE Passed(t, query, i)
  BY <1>7, <1>9
<1> QED
  BY <1>10, <1>11 DEF N

\* Taking one more trace, which is older than those found, keeps the newest.
LEMMA NewestGrows ==
  ASSUME NEW found \in Seq(Nat), NEW passed \in SUBSET Nat, IsFiniteSet(passed),
         NEW depth \in Nat, SearchInv(found, passed, depth),
         NEW o \in Nat, \A p \in passed : p > o
  PROVE  SearchInv(IF Len(found) = depth THEN found ELSE Append(found, o), passed \cup {o}, depth)
<1> DEFINE n == Len(found)
           c == Cardinality(passed)
           returned == {found[k] : k \in 1..n}
<1>1. /\ n \in Nat /\ c \in Nat /\ n = IF c < depth THEN c ELSE depth
      /\ \A i, j \in 1..n : i < j => found[i] > found[j]
      /\ returned \subseteq passed /\ \A x \in returned, p \in passed \ returned : p < x
      /\ n < depth => passed \subseteq returned
  BY FS_CardinalityType DEF SearchInv, IsNewest
<1>2. Cardinality(passed \cup {o}) = c + 1
  <2>1. o \notin passed
    OBVIOUS
  <2> QED
    BY <2>1, FS_AddElement
<1>3. CASE n = depth
  <2>1. \A x \in returned, p \in (passed \cup {o}) \ returned : p < x
    BY <1>1
  <2> QED
    BY <1>1, <1>2, <1>3, <2>1 DEF SearchInv, IsNewest
<1>4. CASE n # depth
  <2> DEFINE more == Append(found, o)
             all == {more[k] : k \in 1..Len(more)}
  <2>1. n < depth /\ n = c /\ passed = returned
    BY <1>1, <1>4
  <2>2. /\ Len(more) = n + 1 /\ more[n + 1] = o
        /\ \A k \in 1..n : more[k] = found[k]
    BY AppendProperties
  <2>3. \A k \in 1..n : found[k] > o /\ found[k] \in Nat
    BY <2>1
  <2>4. all = passed \cup {o}
    <3>1. all = returned \cup {o}
      BY <1>1, <2>2
    <3> QED
      BY <2>1, <3>1
  <2>5. \A i, j \in 1..Len(more) : i < j => more[i] > more[j]
    <3> SUFFICES ASSUME NEW i \in 1..(n + 1), NEW j \in 1..(n + 1), i < j
                 PROVE  more[i] > more[j]
      BY <2>2
    <3>1. i \in 1..n
      BY <1>1
    <3>2. CASE j \in 1..n
      BY <1>1, <2>2, <3>1, <3>2
    <3>3. CASE j = n + 1
      BY <2>2, <2>3, <3>1, <3>3
    <3> QED
      BY <1>1, <3>2, <3>3
  <2>6. Len(more) = IF c + 1 < depth THEN c + 1 ELSE depth
    <3>1. c \in Nat /\ c < depth /\ Len(more) = c + 1
      BY <1>1, <2>1, <2>2
    <3> HIDE DEF more, c
    <3> QED
      BY <3>1
  <2> HIDE DEF more, all
  <2>7. SearchInv(more, passed \cup {o}, depth)
    BY <1>2, <2>4, <2>5, <2>6 DEF SearchInv, IsNewest, all
  <2> QED
    BY <1>4, <2>7 DEF more
<1> QED
  BY <1>3, <1>4

\* A turn of the loop of findTraceAndIds keeps what it has found exact.
LEMMA TurnStep ==
  ASSUME NEW t, TenantInv(t), NEW query, query.depth \in Nat, NEW i \in Slots,
         NEW found \in Seq(Nat), SearchInv(found, Passed(t, query, i), query.depth)
  PROVE  /\ SearchTurn(t, query, i, found) \in Seq(Nat)
         /\ SearchInv(SearchTurn(t, query, i, found), Passed(t, query, i + 1), query.depth)
<1> DEFINE o == Len(t.heap) - i
           passed == Passed(t, query, i)
           taken == IF Len(found) = query.depth THEN found ELSE Append(found, o)
<1>1. Len(t.heap) \in Nat /\ i \in Nat
  BY TenantType DEF TenantInv, Slots
<1>2. passed \in SUBSET Nat /\ IsFiniteSet(passed) /\ \A p \in passed : p > o
  <2>1. passed \subseteq 1..Len(t.heap) /\ \A p \in passed : p > o
    BY DEF Passed, Eligible
  <2>2. IsFiniteSet(1..Len(t.heap))
    BY <1>1, FS_Interval
  <2> QED
    BY <1>1, <2>1, <2>2, FS_Subset
<1>3. CASE Takes(t, query, i)
  <2>1. t.traces[Slot(t, i)] = o /\ o \in 1..Len(t.heap) /\ Passed(t, query, i + 1) = passed \cup {o}
    BY <1>3, PassedNext
  <2>2. SearchTurn(t, query, i, found) = taken
    BY <1>3, <2>1 DEF SearchTurn, Takes
  <2>3. SearchInv(taken, passed \cup {o}, query.depth)
    <3>1. o \in Nat
      BY <1>1, <2>1
    <3> HIDE DEF o, passed
    <3> QED
      BY <1>2, <3>1, NewestGrows DEF passed
  <2>4. taken \in Seq(Nat)
    BY <1>1, <2>1
  <2> QED
    BY <2>1, <2>2, <2>3, <2>4
<1>4. CASE ~Takes(t, query, i)
  <2>1. Passed(t, query, i + 1) = passed
    BY <1>4, PassedNext
  <2>2. SearchTurn(t, query, i, found) = found
    BY <1>4 DEF SearchTurn, Takes
  <2> QED
    BY <2>1, <2>2
<1> QED
  BY <1>3, <1>4

\* The turns of a search, one by one.
LEMMA FoundUnfolds ==
  ASSUME NEW t, TenantInv(t), NEW query, query.depth \in Nat
  PROVE  \E f : /\ f[0] = <<>> /\ Found(t, query) = f[MaxTraces]
                /\ \A i \in 1..MaxTraces : f[i] = SearchTurn(t, query, i - 1, f[i - 1])
<1> DEFINE X == Seq(Nat)
           body(f) == [i \in 0..MaxTraces |->
                          IF i = 0 THEN <<>> ELSE SearchTurn(t, query, i - 1, f[i - 1])]
           step == [i \in 1..MaxTraces |-> [q \in X |-> SearchTurn(t, query, i - 1, q)]]
           run == CHOOSE f : f = body(f)
<1>1. MaxTraces \in Nat
  BY MemoryStoreAssumption
<1>2. \A i \in 1..MaxTraces, q \in X : SearchTurn(t, query, i - 1, q) \in X
  <2> SUFFICES ASSUME NEW i \in 1..MaxTraces, NEW q \in X
               PROVE  SearchTurn(t, query, i - 1, q) \in X
    OBVIOUS
  <2>1. i - 1 \in Slots
    BY <1>1 DEF Slots
  <2>2. t.traces[Slot(t, i - 1)] \in Nat
    BY <1>1, <2>1, SlotTrace, TenantType DEF TenantInv
  <2> QED
    BY <2>2 DEF SearchTurn
<1>3. \E f : f = body(f)
  <2> DEFINE none == <<>>
  <2>1. step \in [1..MaxTraces -> [X -> X]] /\ none \in X
    BY <1>2
  <2>2. PICK f \in [0..MaxTraces -> X] :
           f[0] = none /\ \A i \in 1..MaxTraces : f[i] = step[i][f[i - 1]]
    <3> HIDE DEF step, X, none
    <3> QED
      BY <1>1, <2>1, RecursiveFunction
  <2>3. ASSUME NEW i \in 1..MaxTraces PROVE f[i] = SearchTurn(t, query, i - 1, f[i - 1])
    <3>1. f[i] = step[i][f[i - 1]]
      BY <2>2
    <3>2. i - 1 \in 0..MaxTraces /\ f[i - 1] \in X
      BY <1>1
    <3> QED
      BY <3>1, <3>2
  <2>4. f = body(f)
    <3> HIDE DEF X
    <3> QED
      BY <1>1, <2>2, <2>3
  <2> QED
    BY <2>4
<1>4. run = body(run)
  <2> HIDE DEF body
  <2> QED
    BY <1>3
<1>5. Found(t, query) = run[MaxTraces]
  BY DEF Found
<1> HIDE DEF run
<1>6. run[0] = <<>> /\ \A i \in 1..MaxTraces : run[i] = SearchTurn(t, query, i - 1, run[i - 1])
  BY <1>1, <1>4
<1> QED
  BY <1>5, <1>6

\* A search of a tenant finds the newest of the traces that are eligible.
LEMMA FoundIsNewest ==
  ASSUME NEW t, TenantInv(t), NEW query, query.depth \in Nat
  PROVE  IsNewest(Found(t, query), Eligible(t, query), query.depth)
<1>1. PICK f : /\ f[0] = <<>> /\ Found(t, query) = f[MaxTraces]
               /\ \A i \in 1..MaxTraces : f[i] = SearchTurn(t, query, i - 1, f[i - 1])
  BY FoundUnfolds
<1>2. MaxTraces \in Nat /\ Len(t.heap) \in Nat
  BY MemoryStoreAssumption, TenantType DEF TenantInv
<1> DEFINE Good == {i \in 0..MaxTraces :
                      f[i] \in Seq(Nat) /\ SearchInv(f[i], Passed(t, query, i), query.depth)}
<1>3. 0 \in Good
  <2>1. Passed(t, query, 0) = {}
    BY <1>2 DEF Passed, Eligible
  <2>2. Cardinality({}) = 0
    BY FS_EmptySet
  <2>3. <<>> \in Seq(Nat) /\ SearchInv(<<>>, {}, query.depth)
    BY <2>2 DEF SearchInv, IsNewest
  <2>4. f[0] \in Seq(Nat) /\ SearchInv(f[0], Passed(t, query, 0), query.depth)
    BY <1>1, <2>1, <2>3
  <2> QED
    BY <1>2, <2>4
<1>4. ASSUME NEW i \in 0..(MaxTraces - 1), i \in Good PROVE i + 1 \in Good
  <2>1. i \in Slots /\ i + 1 \in 1..MaxTraces /\ (i + 1) - 1 = i
    BY <1>2 DEF Slots
  <2>2. f[i + 1] = SearchTurn(t, query, i, f[i])
    BY <1>1, <2>1
  <2>3. f[i] \in Seq(Nat) /\ SearchInv(f[i], Passed(t, query, i), query.depth)
    BY <1>4
  <2>4. /\ f[i + 1] \in Seq(Nat)
        /\ SearchInv(f[i + 1], Passed(t, query, i + 1), query.depth)
    BY <2>1, <2>2, <2>3, TurnStep
  <2> QED
    BY <2>1, <2>4
<1>5. MaxTraces \in Good
  <2> HIDE DEF Good
  <2>1. 0..MaxTraces \subseteq Good
    BY <1>2, <1>3, <1>4, BoundedInduction
  <2> QED
    BY <1>2, <2>1
<1>6. Passed(t, query, MaxTraces) = Eligible(t, query)
  BY DEF Passed, Eligible
<1> QED
  BY <1>1, <1>5, <1>6 DEF SearchInv

\* Every search finds the newest traces that match, each once and in order,
\* while writers turn the ring: for a ring of any size and any heap.
THEOREM SearchesAreExact == Spec => SearchIsExact
<1>1. CallInv /\ [Next]_vars =>
        [\A r \in Readers :
           pc[r] = "collect" /\ pc'[r] # "collect" /\ call[r].query.kind # "GetTraces" =>
             LET t == tenants[call[r].tenant]
             IN  IsNewest(refs'[r], Eligible(t, call[r].query), call[r].query.depth)]_vars
  <2> SUFFICES ASSUME CallInv, Next, NEW r \in Readers,
                      pc[r] = "collect", pc'[r] # "collect", call[r].query.kind # "GetTraces"
               PROVE  IsNewest(refs'[r], Eligible(tenants[call[r].tenant], call[r].query),
                               call[r].query.depth)
    OBVIOUS
  <2>1. Collect(r)
    <3>1. PICK q \in Readers :
             \/ \E query \in SearchQueries \cup LookupQueries : Read(q, query)
             \/ Collect(q) \/ StartClone(q) \/ EndClone(q) \/ Return(q)
      BY DEF Next, WriteTraces, StoreTrace, Purge, reader
    <3>2. pc'[r] # pc[r] => q = r
      BY <3>1 DEF CallInv, Read, Collect, StartClone, EndClone, Return
    <3>3. q = r
      BY <3>2
    <3> QED
      BY <3>1, <3>3 DEF Read, StartClone, EndClone, Return
  <2>2. call[r].tenant \in Generations /\ call[r].query.depth \in Nat
    <3>1. ReaderInv(Reading(r))
      BY DEF CallInv
    <3> QED
      BY <3>1 DEF ReaderInv, Reading
  <2>3. refs'[r] = Found(tenants[call[r].tenant], call[r].query)
    BY <2>1 DEF Collect, CallInv, Refs
  <2>4. TenantInv(tenants[call[r].tenant])
    BY <2>2 DEF CallInv, StoreInv
  <2> QED
    BY <2>2, <2>3, <2>4, FoundIsNewest
<1> QED
  BY <1>1, CallInit, CallNext, PTL DEF Spec, SearchIsExact

----------------------------------------------------------------------------
(* The log that the store implements. *)

\* How many traces the ring of a tenant holds.
Held(t) == IF Len(t.heap) < MaxTraces THEN Len(t.heap) ELSE MaxTraces

\* The window is the end of the heap.
LEMMA WindowFields ==
  ASSUME NEW t, t \in Tenants
  PROVE  /\ Held(t) \in Nat /\ Held(t) <= Len(t.heap) /\ Held(t) <= MaxTraces
         /\ Window(t) \in Seq(Traces) /\ Len(Window(t)) = Held(t)
         /\ Window(t) = [i \in 1..Held(t) |-> t.heap[Len(t.heap) - Held(t) + i]]
<1>1. Len(t.heap) \in Nat /\ MaxTraces \in Nat
  BY TenantType, MemoryStoreAssumption
<1>2. Held(t) \in Nat /\ Held(t) <= Len(t.heap) /\ Held(t) <= MaxTraces
  BY <1>1 DEF Held
<1>3. Window(t) = [i \in 1..Held(t) |-> t.heap[Len(t.heap) - Held(t) + i]]
  BY DEF Window, Held
<1>4. \A i \in 1..Held(t) : t.heap[Len(t.heap) - Held(t) + i] \in Traces
  <2>1. \A i \in 1..Held(t) : Len(t.heap) - Held(t) + i \in 1..Len(t.heap)
    BY <1>1, <1>2
  <2> QED
    BY <2>1, TenantType
<1>5. Window(t) \in [1..Held(t) -> Traces]
  BY <1>3, <1>4
<1>6. Window(t) \in Seq(Traces) /\ Len(Window(t)) = Held(t)
  BY <1>2, <1>5
<1> QED
  BY <1>2, <1>3, <1>6

\* Spans of a trace that the index knows are added to a trace of the window, the
\* one with their id if they have one.
LEMMA WindowGrows ==
  ASSUME NEW t, TenantInv(t), NEW id \in TraceIDs, NEW spans \in SUBSET Spans,
         t.ids[id] # None, \A s \in spans : TraceOf[s] = id
  PROVE  \E i \in 1..Len(Window(t)) :
            /\ Window(t)[i].id = id \/ id = Empty
            /\ Window(Appended(t, id, spans)) =
                  [Window(t) EXCEPT ![i] = [id |-> @.id, spans |-> @.spans \cup spans]]
<1> DEFINE u == Appended(t, id, spans)
           slot == t.ids[id]
           o == t.traces[slot]
           N == Len(t.heap)
           H == Held(t)
           w == Window(t)
           i == o - (N - H)
<1>1. /\ t \in Tenants /\ slot \in Slots /\ N \in Nat /\ MaxTraces \in Nat \ {0}
      /\ t.mostRecent \in Slots \cup {-1}
  BY TenantType, MemoryStoreAssumption DEF TenantInv
<1>2. IsAppended(t, id, spans, u) /\ u \in Tenants
  BY AppendedFields, AppendedInv DEF TenantInv
<1> HIDE DEF u
<1>3. /\ o \in 1..N /\ Len(u.heap) = N
      /\ \A p \in 1..N : u.heap[p].id = t.heap[p].id
      /\ \A p \in 1..N :
            u.heap[p].spans = IF p = o THEN t.heap[p].spans \cup spans ELSE t.heap[p].spans
  BY <1>2 DEF IsAppended
<1>4. o > N - MaxTraces
  <2>1. Age(t, slot) \in Int /\ Age(t, slot) < MaxTraces
    BY <1>1 DEF Age, Slots
  <2>2. o = IF Age(t, slot) < N THEN N - Age(t, slot) ELSE 0
    BY <1>1 DEF TenantInv, RingOf
  <2> HIDE DEF o, N, slot
  <2> QED
    BY <1>1, <1>3, <2>1, <2>2
<1>5. t.heap[o].id = id \/ id = Empty
  <2>1. id # Empty => SlotId(t, slot) = id
    BY <1>1 DEF TenantInv, IndexOf
  <2> QED
    BY <1>3, <2>1 DEF SlotId
<1>6. /\ H \in Nat /\ H <= N /\ w \in Seq(Traces) /\ Len(w) = H
      /\ w = [j \in 1..H |-> t.heap[N - H + j]]
  BY <1>1, WindowFields
<1>7. Window(u) = [j \in 1..H |-> u.heap[N - H + j]]
  BY <1>2, <1>3, WindowFields DEF Held
<1>8. H = IF N < MaxTraces THEN N ELSE MaxTraces
  BY DEF Held
<1> HIDE DEF o, N, H, w
<1>9. i \in 1..H /\ N - H + i = o
  BY <1>1, <1>3, <1>4, <1>6, <1>8
<1> DEFINE grown == [id |-> w[i].id, spans |-> w[i].spans \cup spans]
<1>10. ASSUME NEW j \in 1..H
       PROVE  u.heap[N - H + j] = IF j = i THEN grown ELSE w[j]
  <2> DEFINE p == N - H + j
  <2>1. p \in 1..N /\ (p = o <=> j = i) /\ w[j] = t.heap[p]
    BY <1>1, <1>6, <1>9
  <2>2. /\ u.heap[p].id = t.heap[p].id
        /\ u.heap[p].spans = IF p = o THEN t.heap[p].spans \cup spans ELSE t.heap[p].spans
    BY <1>3, <2>1
  <2>3. u.heap[p] \in Traces /\ t.heap[p] \in Traces
    BY <1>1, <1>2, <1>3, <2>1, TenantType DEF N
  <2>4. /\ u.heap[p] = [id |-> u.heap[p].id, spans |-> u.heap[p].spans]
        /\ t.heap[p] = [id |-> t.heap[p].id, spans |-> t.heap[p].spans]
    BY <2>3 DEF Traces
  <2> HIDE DEF p
  <2> QED
    BY <2>1, <2>2, <2>4 DEF p
<1>11. [w EXCEPT ![i] = grown] = [j \in 1..H |-> IF j = i THEN grown ELSE w[j]]
  BY <1>6, <1>9
<1>12. Window(u) = [w EXCEPT ![i] = grown]
  BY <1>7, <1>10, <1>11
<1>13. w[i].id = id \/ id = Empty
  BY <1>5, <1>6, <1>9
<1> QED
  BY <1>6, <1>9, <1>12, <1>13 DEF u, w

\* A trace that the index does not know is in the window only if it has no id,
\* and a new one takes the place of the oldest.
LEMMA WindowMoves ==
  ASSUME NEW t, TenantInv(t), NEW id \in TraceIDs, NEW spans \in SUBSET Spans,
         t.ids[id] = None, \A s \in spans : TraceOf[s] = id
  PROVE  /\ \A i \in 1..Len(Window(t)) : Window(t)[i].id # id \/ id = Empty
         /\ Window(Created(t, id, spans)) =
               LET more == Append(Window(t), [id |-> id, spans |-> spans])
               IN  IF Len(more) > MaxTraces THEN Tail(more) ELSE more
<1> DEFINE u == Created(t, id, spans)
           new == [id |-> id, spans |-> spans]
           N == Len(t.heap)
           H == Held(t)
           w == Window(t)
           more == Append(w, new)
<1>1. t \in Tenants /\ N \in Nat /\ MaxTraces \in Nat \ {0}
  BY TenantType, MemoryStoreAssumption DEF TenantInv
<1>2. IsCreated(t, id, spans, u) /\ u \in Tenants
  BY CreatedFields, CreatedInv DEF TenantInv
<1> HIDE DEF u
<1>3. /\ Len(u.heap) = N + 1 /\ u.heap[N + 1] = new
      /\ \A p \in 1..N : u.heap[p] = t.heap[p]
  BY <1>2 DEF IsCreated
<1>4. /\ H \in Nat /\ H <= N /\ w \in Seq(Traces) /\ Len(w) = H
      /\ w = [j \in 1..H |-> t.heap[N - H + j]]
  BY <1>1, WindowFields
<1>5. H = IF N < MaxTraces THEN N ELSE MaxTraces
  BY DEF Held
<1>6. ASSUME NEW j \in 1..H, id # Empty PROVE w[j].id # id
  <2> DEFINE i == H - j
  <2>1. i \in Slots /\ i < N /\ N - i = N - H + j
    BY <1>1, <1>4, <1>5 DEF Slots
  <2>2. t.traces[Slot(t, i)] = N - i /\ Slot(t, i) \in Slots
    BY <1>1, <2>1, SlotTrace, SlotAge, TenantType
  <2>3. SlotId(t, Slot(t, i)) = w[j].id
    BY <1>4, <2>1, <2>2 DEF SlotId
  <2>4. Slot(t, i) # None
    BY <2>2 DEF Slots, None
  <2>5. t.ids[id] = Slot(t, i) <=> SlotId(t, Slot(t, i)) = id
    BY <1>6, <2>2 DEF TenantInv, IndexOf
  <2> QED
    BY <2>3, <2>4, <2>5
<1> DEFINE K == IF N + 1 < MaxTraces THEN N + 1 ELSE MaxTraces
<1>7. Window(u) = [j \in 1..K |-> u.heap[N + 1 - K + j]]
  BY <1>2, <1>3, WindowFields DEF Held
<1>8. new \in Traces
  BY DEF Traces
<1>9. /\ more \in Seq(Traces) /\ Len(more) = H + 1 /\ more[H + 1] = new
      /\ \A j \in 1..H : more[j] = w[j]
  BY <1>4, <1>8, AppendProperties
<1>10. ASSUME NEW j \in 1..(H + 1) PROVE more[j] = u.heap[N - H + j]
  <2>1. CASE j = H + 1
    BY <1>1, <1>3, <1>4, <1>9, <2>1
  <2>2. CASE j \in 1..H
    <3>1. N - H + j \in 1..N
      BY <1>1, <1>4, <2>2
    <3> QED
      BY <1>3, <1>4, <1>9, <2>2, <3>1
  <2> QED
    BY <1>4, <2>1, <2>2
<1> HIDE DEF H, N, w, more, K
<1>11. CASE N < MaxTraces
  <2>1. K = H + 1 /\ N + 1 - K = N - H /\ ~(H + 1 > MaxTraces)
    BY <1>1, <1>5, <1>11 DEF K
  <2>2. more = [j \in 1..(H + 1) |-> more[j]]
    BY <1>4, <1>9
  <2>3. Window(u) = more
    BY <1>7, <1>10, <2>1, <2>2
  <2> QED
    BY <1>4, <1>6, <1>9, <2>1, <2>3 DEF u, w, more
<1>12. CASE ~(N < MaxTraces)
  <2>1. K = H /\ H = MaxTraces /\ H > 0
    BY <1>1, <1>5, <1>12 DEF K
  <2>2. /\ Tail(more) \in Seq(Traces) /\ Len(Tail(more)) = H
        /\ \A j \in 1..H : Tail(more)[j] = more[j + 1]
    BY <1>4, <1>9
  <2>3. Tail(more) = [j \in 1..H |-> Tail(more)[j]]
    <3> DEFINE rest == Tail(more)
    <3>1. rest \in Seq(Traces) /\ Len(rest) = H
      BY <2>2
    <3> HIDE DEF rest
    <3>2. rest = [j \in 1..H |-> rest[j]]
      BY <3>1
    <3> QED
      BY <3>2 DEF rest
  <2>4. ASSUME NEW j \in 1..H PROVE Tail(more)[j] = u.heap[N + 1 - K + j]
    <3>1. j + 1 \in 1..(H + 1) /\ N - H + (j + 1) = N + 1 - K + j
      BY <1>1, <1>4, <2>1
    <3> QED
      BY <1>10, <2>2, <3>1
  <2>5. Window(u) = Tail(more)
    BY <1>7, <2>1, <2>3, <2>4
  <2> QED
    BY <1>4, <1>6, <1>9, <2>1, <2>5 DEF u, w, more
<1> QED
  BY <1>11, <1>12

\* A tenant is untouched until a purge makes it the current one, so that a purge
\* leaves nothing to be found.
FutureInv ==
    /\ \A g \in Generations : g > current => tenants[g] = newTenant
    /\ \A w \in Writers : writer[w].left # {} => writer[w].tenant \in 1..current

LEMMA FutureInit == Init => FutureInv
  BY DEF Init, FutureInv, WriterIdle

LEMMA FutureNext == StoreInv /\ FutureInv /\ [Next]_vars => FutureInv'
<1> SUFFICES ASSUME StoreInv, FutureInv, [Next]_vars PROVE FutureInv'
  OBVIOUS
<1>1. current \in Nat /\ 1 <= current /\ \A g \in Generations : g \in Int
  BY MemoryStoreAssumption DEF StoreInv, TypeOK, Generations
<1>2. ASSUME UNCHANGED <<tenants, writer>>, current' \in Nat, current <= current'
      PROVE  FutureInv'
  BY <1>1, <1>2 DEF FutureInv
<1>3. ASSUME NEW w \in Writers, WriteTraces(w) PROVE FutureInv'
  <2>1. PICK batch : writer' = [writer EXCEPT ![w] =
                                  [tenant |-> current, batch |-> batch, left |-> batch]]
    BY <1>3 DEF WriteTraces
  <2>2. writer = [v \in Writers |-> writer[v]]
    BY DEF StoreInv, TypeOK
  <2>3. writer'[w].tenant = current /\ \A v \in Writers \ {w} : writer'[v] = writer[v]
    BY <2>1, <2>2
  <2>4. \A v \in Writers : writer'[v].left # {} => writer'[v].tenant \in 1..current
    BY <1>1, <2>3 DEF FutureInv
  <2> QED
    BY <1>3, <2>4 DEF WriteTraces, FutureInv
<1>4. ASSUME NEW w \in Writers, NEW id \in TraceIDs, StoreTrace(w, id) PROVE FutureInv'
  <2> DEFINE left == writer[w].left \ {s \in writer[w].left : TraceOf[s] = id}
  <2>1. writer' = [writer EXCEPT ![w] = IF left = {} THEN WriterIdle ELSE [@ EXCEPT !.left = left]]
        /\ writer[w].left # {} /\ current' = current
    BY <1>4 DEF StoreTrace
  <2>2. writer[w].tenant \in 1..current
    BY <2>1 DEF FutureInv
  <2>3. \A g \in Generations : g > current => tenants'[g] = tenants[g]
    <3>1. \A g \in Generations \ {writer[w].tenant} : tenants'[g] = tenants[g]
      BY <1>4, StoreStep
    <3> QED
      BY <1>1, <2>2, <3>1
  <2>4. /\ \A v \in Writers \ {w} : writer'[v] = writer[v]
        /\ writer'[w] = IF left = {} THEN WriterIdle ELSE [writer[w] EXCEPT !.left = left]
    BY <2>1 DEF StoreInv, TypeOK
  <2>5. writer'[w].left # {} => writer'[w].tenant = writer[w].tenant
    <3>1. CASE left = {}
      BY <2>4, <3>1 DEF WriterIdle
    <3>2. CASE left # {}
      BY <2>4, <3>2 DEF StoreInv, TypeOK
    <3> QED
      BY <3>1, <3>2
  <2> HIDE DEF left
  <2> QED
    BY <2>1, <2>2, <2>3, <2>4, <2>5 DEF FutureInv
<1>5. ASSUME NEW r \in Readers,
             \/ \E query \in SearchQueries \cup LookupQueries : Read(r, query)
             \/ Collect(r) \/ StartClone(r) \/ EndClone(r) \/ Return(r)
      PROVE  FutureInv'
  <2>1. UNCHANGED <<tenants, current, locked, writer>>
    BY <1>5 DEF Read, Collect, StartClone, EndClone, Return, store
  <2> QED
    BY <1>1, <1>2, <2>1
<1>6. CASE Purge
  BY <1>1, <1>2, <1>6 DEF Purge
<1>7. CASE UNCHANGED vars
  BY <1>1, <1>2, <1>7 DEF vars, store
<1> QED
  BY <1>3, <1>4, <1>5, <1>6, <1>7 DEF Next

\* A new tenant has no traces.
LEMMA NewWindow == Window(newTenant) = <<>>
<1>1. newTenant \in Tenants /\ Len(newTenant.heap) = 0
  BY NewTenant DEF TenantInv, newTenant
<1>2. Held(newTenant) = 0
  BY <1>1, MemoryStoreAssumption DEF Held
<1> QED
  BY <1>1, <1>2, WindowFields

LEMMA LogInit == Init => Log!Init
<1> SUFFICES ASSUME Init PROVE Log!Init
  OBVIOUS
<1>1. tenants[current] = newTenant
  BY MemoryStoreAssumption DEF Init, Generations
<1> QED
  BY <1>1, NewWindow DEF Log!Init

\* Every step is one of the log, or leaves the log as it is: a turn of the loop
\* of storeTraces when its tenant is the current one, and a purge.
LEMMA LogStep ==
  StoreInv /\ FutureInv /\ [Next]_vars => [Log!Next]_(Window(tenants[current]))
<1> SUFFICES ASSUME StoreInv, FutureInv, [Next]_vars
             PROVE  [Log!Next]_(Window(tenants[current]))
  OBVIOUS
<1>1. ASSUME UNCHANGED <<tenants, current>> PROVE [Log!Next]_(Window(tenants[current]))
  BY <1>1
<1>2. ASSUME NEW w \in Writers, NEW id \in TraceIDs, StoreTrace(w, id)
      PROVE  [Log!Next]_(Window(tenants[current]))
  <2> DEFINE g == writer[w].tenant
             spans == {s \in writer[w].left : TraceOf[s] = id}
             t == tenants[current]
             u == tenants'[current]
  <2>1. /\ spans \in SUBSET Spans /\ \A s \in spans : TraceOf[s] = id
        /\ \A h \in Generations \ {g} : tenants'[h] = tenants[h]
        /\ g \in Generations => tenants'[g] = IF tenants[g].ids[id] # None
                                              THEN Appended(tenants[g], id, spans)
                                              ELSE Created(tenants[g], id, spans)
    BY <1>2, StoreStep
  <2>2. current \in Generations /\ current' = current /\ TenantInv(t)
    BY <1>2 DEF StoreTrace, StoreInv, TypeOK
  <2>3. spans \in SUBSET {s \in Spans : TraceOf[s] = id}
    BY <2>1
  <2> HIDE DEF spans, g
  <2>4. CASE g # current
    BY <2>1, <2>2, <2>4
  <2>5. CASE g = current /\ t.ids[id] # None
    <3>1. u = Appended(t, id, spans)
      BY <2>1, <2>2, <2>5
    <3>2. \E i \in 1..Len(Window(t)) :
            /\ Window(t)[i].id = id \/ id = Empty
            /\ Window(u) = [Window(t) EXCEPT ![i] = [id |-> @.id, spans |-> @.spans \cup spans]]
      <4> HIDE DEF t, u
      <4> QED
        BY <2>1, <2>2, <2>5, <3>1, WindowGrows
    <3>3. Log!Grow(id, spans)
      BY <2>2, <3>2 DEF Log!Grow
    <3> QED
      BY <2>3, <3>3 DEF Log!Next
  <2>6. CASE g = current /\ t.ids[id] = None
    <3>1. u = Created(t, id, spans)
      BY <2>1, <2>2, <2>6
    <3>2. /\ \A i \in 1..Len(Window(t)) : Window(t)[i].id # id \/ id = Empty
          /\ Window(u) = LET more == Append(Window(t), [id |-> id, spans |-> spans])
                         IN  IF Len(more) > MaxTraces THEN Tail(more) ELSE more
      <4> HIDE DEF t, u
      <4> QED
        BY <2>1, <2>2, <2>6, <3>1, WindowMoves
    <3>3. Log!Create(id, spans)
      BY <2>2, <3>2 DEF Log!Create, Log!Newest
    <3> QED
      BY <2>3, <3>3 DEF Log!Next
  <2> QED
    BY <2>4, <2>5, <2>6
<1>3. CASE Purge
  <2>1. tenants' = tenants /\ current' = current + 1 /\ current \in Generations /\ current <= MaxPurges
    BY <1>3 DEF Purge, StoreInv, TypeOK
  <2>2. current' \in Generations /\ current' > current
    BY <2>1, MemoryStoreAssumption DEF Generations
  <2>3. Window(tenants'[current']) = <<>>
    BY <2>1, <2>2, NewWindow DEF FutureInv
  <2> QED
    BY <2>3 DEF Log!Purge, Log!Next
<1>4. ASSUME NEW r \in Readers,
             \/ \E query \in SearchQueries \cup LookupQueries : Read(r, query)
             \/ Collect(r) \/ StartClone(r) \/ EndClone(r) \/ Return(r)
      PROVE  UNCHANGED <<tenants, current>>
  BY <1>4 DEF Read, Collect, StartClone, EndClone, Return, store
<1> QED
  BY <1>1, <1>2, <1>3, <1>4 DEF Next, WriteTraces, vars, store

\* MemoryStore implements TraceLog: the current tenant is a queue of the newest
\* traces, for any capacity, any writers and any purges under them.
THEOREM StoreIsALog == Spec => KeepsTheNewest
<1>1. StoreInv /\ FutureInv /\ [Next]_vars => [Log!Next]_(Window(tenants[current]))
  BY LogStep
<1> QED
  BY StoreInit, StoreNext, FutureInit, FutureNext, LogInit, <1>1, PTL
     DEF Spec, KeepsTheNewest, Log!Spec
=============================================================================
