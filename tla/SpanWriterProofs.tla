-------------------------- MODULE SpanWriterProofs --------------------------
(***************************************************************************)
(* Proofs about SpanWriter, for any callers, spans, pairs and batches.     *)
(***************************************************************************)
EXTENDS SpanWriter, TLAPS

USE DocsAssumption, WriterAssumption

\* A pair that a call which met no purge may rely on, now and until it returns.
Trusted(p) == Available(p) \/ p \in suspect

(***************************************************************************)
(* The inductive invariant.  What a call has assembled covers the spans it *)
(* has been through, each with its lookup document or with one that the    *)
(* cache vouched for; a settled verdict disposes of all of them.           *)
(***************************************************************************)
PurgeIsSeen == purging => \A c \in Callers : pc[c] # "idle" => c \in overlapped

Assembled(c) ==
    /\ todo[c] \subseteq spans[c]
    /\ keys[c] \subseteq items[c]
    /\ items[c] \cap Spans = (spans[c] \ todo[c]) \ Unencodable
    /\ c \notin overlapped =>
         \A s \in spans[c] \ todo[c] : Pair[s] \in keys[c] \/ Trusted(Pair[s])

SettledOK(c) ==
    /\ todo[c] = {}
    /\ outcome[c].spans \subseteq {Key[s] : s \in spans[c] \cap Rejectable}
    /\ batchSettled(outcome[c]) /\ c \notin overlapped =>
         /\ \A p \in keys[c] : Available(p)
         /\ \A s \in spans[c] : Disposed(c, s)

CallsOK ==
    \A c \in Callers :
      /\ pc[c] # "idle" => Assembled(c)
      /\ pc[c] = "settling" => SettledOK(c)
      /\ pc[c] = "idle" => keys[c] = {} /\ items[c] = {}

IInv == TypeOK /\ PurgeIsSeen /\ CallsOK /\ CacheIsJustified

LEMMA InitEstablishes == Init => IInv
<1> SUFFICES ASSUME Init PROVE IInv
  OBVIOUS
<1>1. Outcome("ok") \in Outcomes
  BY DEF Outcome, Outcomes
<1> QED
  BY <1>1 DEF Init, IInv, TypeOK, PurgeIsSeen, CallsOK, CacheIsJustified

(***************************************************************************)
(* What the attribution makes of an honest verdict.  A settled outcome     *)
(* leaves no document behind that is not stored, except a rejected lookup  *)
(* document, or a rejected span that is reported or dropped.               *)
(***************************************************************************)
LEMMA AttributionIsSound ==
    ASSUME NEW docs \in SUBSET Docs,
           NEW v \in HonestVerdicts(docs, stored, dropPoison),
           NEW o, o = attributeRejections(v, docs)
    PROVE  /\ o \in Outcomes
           /\ o.spans \subseteq {Key[s] : s \in docs \cap Spans \cap Rejectable}
           /\ batchSettled(o) =>
                \A d \in docs : \/ d \in stored
                                \/ /\ d \in Rejectable
                                   /\ d \in Pairs \/ dropPoison \/ Key[d] \in o.spans
<1>1. CASE v = Plain("ok")
  <2>1. o = Outcome("ok")
    BY <1>1 DEF attributeRejections, Plain
  <2>2. docs \ stored \subseteq (IF dropPoison THEN Rejectable ELSE {})
    BY <1>1 DEF HonestVerdicts, Honest, Plain
  <2> QED
    BY <2>1, <2>2 DEF Outcome, Outcomes
<1>2. CASE v = Plain("failed")
  <2>1. o = Outcome("failed")
    BY <1>2 DEF attributeRejections, Plain
  <2> QED
    BY <2>1 DEF Outcome, Outcomes, batchSettled, OnlyReportedSpans
<1>3. CASE v \in Rejections(docs \cap Rejectable)
  <2>1. /\ v.kind = "rejected" /\ v.transient \in BOOLEAN
        /\ v.terminal \subseteq (docs \cap Rejectable) \cup {UnknownDoc}
    BY <1>3 DEF Rejections
  <2>2. /\ dropPoison => v.transient
        /\ ~v.transient /\ UnknownDoc \notin v.terminal => docs \ stored \subseteq v.terminal
    BY <2>1 DEF HonestVerdicts, Honest
  <2>3. CASE v.terminal = {}
    <3>1. o = Outcome("failed")
      BY <2>1, <2>3 DEF attributeRejections
    <3> QED
      BY <3>1 DEF Outcome, Outcomes, batchSettled, OnlyReportedSpans
  <2>4. CASE v.terminal # {} /\ poisonKeys(v, docs) = {} /\ ~unidentified(v, docs)
    <3>1. o = Outcome(IF v.transient THEN "failed" ELSE "ok")
      BY <2>1, <2>4 DEF attributeRejections
    <3>2. o \in Outcomes /\ o.spans = {} /\ (batchSettled(o) => ~v.transient)
      BY <3>1 DEF Outcome, Outcomes, batchSettled, OnlyReportedSpans
    <3>3. ~v.transient => \A d \in docs \ stored : d \in Rejectable /\ d \in Pairs
      BY <2>1, <2>2, <2>4 DEF poisonKeys, unidentified
    <3> QED
      BY <3>2, <3>3
  <2>5. CASE v.terminal # {} /\ ~(poisonKeys(v, docs) = {} /\ ~unidentified(v, docs))
    <3>1. o = [kind |-> "rejected", spans |-> poisonKeys(v, docs),
               transient |-> v.transient, unidentified |-> unidentified(v, docs)]
      BY <2>1, <2>5 DEF attributeRejections
    <3>2. poisonKeys(v, docs) \subseteq {Key[s] : s \in docs \cap Spans \cap Rejectable}
      BY <2>1 DEF poisonKeys
    <3>3. o \in Outcomes
      <4>1. unidentified(v, docs) \in BOOLEAN
        BY DEF unidentified
      <4>2. poisonKeys(v, docs) \in SUBSET Keys
        BY <3>2
      <4> QED
        BY <2>1, <3>1, <4>1, <4>2 DEF Outcomes
    <3>4. batchSettled(o) => ~v.transient /\ ~unidentified(v, docs)
      BY <3>1 DEF batchSettled, OnlyReportedSpans
    <3>5. ~v.transient /\ ~unidentified(v, docs) => docs \ stored \subseteq v.terminal
      BY <2>2 DEF unidentified
    <3>6. \A d \in docs \cap v.terminal : d \in Pairs \/ Key[d] \in poisonKeys(v, docs)
      BY DEF poisonKeys
    <3>7. \A d \in docs \cap v.terminal : d \in Rejectable
      BY <2>1
    <3> QED
      BY <3>1, <3>2, <3>3, <3>4, <3>5, <3>6, <3>7
  <2> QED
    BY <2>3, <2>4, <2>5
<1> QED
  BY <1>1, <1>2, <1>3 DEF HonestVerdicts

(***************************************************************************)
(* What a call relies on stays reliable as long as no purge meets it: the  *)
(* storage only grows, and suspicion is lifted by a purge alone.           *)
(***************************************************************************)
LEMMA CallsStable ==
    ASSUME IInv, UNCHANGED <<dropPoison, callVars>>,
           overlapped \subseteq overlapped',
           \A c \in Callers : pc[c] # "idle" /\ c \notin overlapped' =>
              stored \subseteq stored' /\ suspect \subseteq suspect'
    PROVE  CallsOK'
  BY DEF IInv, CallsOK, Assembled, SettledOK, Trusted, Available, Disposed, callVars

LEMMA NextPreserves == IInv /\ [Next]_vars => IInv'
<1> SUFFICES ASSUME IInv, [Next]_vars PROVE IInv'
  OBVIOUS
<1>1. ASSUME NEW c \in Callers, NEW b \in Batches, WriteSpans(c, b) PROVE IInv'
  <2>1. TypeOK' /\ PurgeIsSeen' /\ CacheIsJustified'
    BY <1>1 DEF IInv, WriteSpans, TypeOK, PurgeIsSeen, CacheIsJustified, Available
  <2>2. Assembled(c)'
    BY <1>1 DEF IInv, CallsOK, WriteSpans, TypeOK, Assembled
  <2>3. ASSUME NEW a \in Callers, a # c
        PROVE  /\ (pc[a] # "idle" => Assembled(a))' /\ (pc[a] = "settling" => SettledOK(a))'
               /\ (pc[a] = "idle" => keys[a] = {} /\ items[a] = {})'
    BY <1>1, <2>3 DEF IInv, CallsOK, WriteSpans, TypeOK, Assembled, SettledOK, Disposed,
                      Trusted, Available
  <2>4. CallsOK'
    BY <1>1, <2>2, <2>3 DEF CallsOK, WriteSpans, TypeOK, IInv
  <2> QED
    BY <2>1, <2>4 DEF IInv
<1>2. ASSUME NEW c \in Callers, NEW s \in Spans, Assemble(c, s) PROVE IInv'
  <2>1. TypeOK'
    BY <1>2 DEF IInv, Assemble, TypeOK, due
  <2>2. PurgeIsSeen' /\ CacheIsJustified'
    BY <1>2 DEF IInv, Assemble, PurgeIsSeen, CacheIsJustified, Available
  <2>3. Assembled(c)'
    <3>1. c \notin overlapped => Pair[s] \in keys'[c] \/ Trusted(Pair[s])
      BY <1>2 DEF IInv, Assemble, TypeOK, due, PurgeIsSeen, CacheIsJustified, Trusted
    <3>2. (items[c] \cap Spans)' = ((spans[c] \ todo[c]) \ Unencodable)'
      <4>1. items'[c] \cap Spans = (items[c] \cap Spans) \cup ({s} \ Unencodable)
        BY <1>2 DEF IInv, Assemble, TypeOK, due
      <4>2. items[c] \cap Spans = (spans[c] \ todo[c]) \ Unencodable
        BY <1>2 DEF IInv, CallsOK, Assemble, Assembled
      <4>3. spans' = spans /\ todo'[c] = todo[c] \ {s} /\ s \in todo[c]
        BY <1>2 DEF IInv, Assemble, TypeOK
      <4>4. s \in spans[c]
        BY <1>2, <4>3 DEF Assemble, IInv, CallsOK, Assembled
      <4> QED
        BY <4>1, <4>2, <4>3, <4>4
    <3>3. (keys[c] \subseteq items[c])'
      BY <1>2 DEF IInv, CallsOK, Assemble, TypeOK, due, Assembled
    <3>4. (c \notin overlapped =>
             \A x \in spans[c] \ todo[c] : Pair[x] \in keys[c] \/ Trusted(Pair[x]))'
      BY <1>2, <3>1 DEF IInv, CallsOK, Assemble, TypeOK, due, Assembled, Trusted, Available
    <3>5. (todo[c] \subseteq spans[c])'
      BY <1>2 DEF IInv, CallsOK, Assemble, TypeOK, Assembled
    <3> QED
      BY <3>2, <3>3, <3>4, <3>5 DEF Assembled
  <2>4. ASSUME NEW a \in Callers, a # c
        PROVE  /\ (pc[a] # "idle" => Assembled(a))' /\ (pc[a] = "settling" => SettledOK(a))'
               /\ (pc[a] = "idle" => keys[a] = {} /\ items[a] = {})'
    BY <1>2, <2>4 DEF IInv, CallsOK, Assemble, TypeOK, Assembled, SettledOK, Disposed,
                      Trusted, Available
  <2>5. CallsOK'
    BY <1>2, <2>3, <2>4 DEF CallsOK, Assemble, IInv
  <2> QED
    BY <2>1, <2>2, <2>5 DEF IInv
<1>3. ASSUME NEW c \in Callers, NEW v \in HonestVerdicts(items[c], stored, dropPoison),
             WriteBatch(c, v)
      PROVE  IInv'
  <2> DEFINE o == attributeRejections(v, items[c])
  <2>1. items[c] \in SUBSET Docs
    BY DEF IInv, TypeOK
  <2>2. /\ o \in Outcomes
        /\ o.spans \subseteq {Key[s] : s \in items[c] \cap Spans \cap Rejectable}
        /\ batchSettled(o) =>
             \A d \in items[c] : \/ d \in stored
                                 \/ /\ d \in Rejectable
                                    /\ d \in Pairs \/ dropPoison \/ Key[d] \in o.spans
    BY <2>1, AttributionIsSound
  <2>3. outcome'[c] = o /\ Assembled(c) /\ todo[c] = {}
    BY <1>3 DEF WriteBatch, IInv, CallsOK, TypeOK
  <2> HIDE DEF o
  <2>4. TypeOK' /\ PurgeIsSeen' /\ CacheIsJustified'
    BY <1>3, <2>2, <2>3 DEF IInv, WriteBatch, TypeOK, PurgeIsSeen, CacheIsJustified, Available, o
  <2>5. SettledOK(c)'
    <3>1. \A s \in spans[c] \ Unencodable : s \in items[c] /\ s \in Spans /\ s \notin Pairs
      BY <2>3 DEF Assembled, IInv, TypeOK
    <3>2. batchSettled(o) => \A p \in keys[c] : Available(p)
      BY <2>2, <2>3 DEF Assembled, Available
    <3>3. batchSettled(o) =>
            \A s \in spans[c] : \/ s \in stored \cup Unencodable
                                \/ s \in Rejectable /\ (dropPoison \/ Key[s] \in o.spans)
      BY <2>2, <3>1
    <3>4. o.spans \subseteq {Key[s] : s \in spans[c] \cap Rejectable}
      BY <2>2, <2>3 DEF Assembled
    <3>5. UNCHANGED <<dropPoison, stored, keys, spans, todo>>
      BY <1>3 DEF WriteBatch
    <3> QED
      BY <2>3, <3>2, <3>3, <3>4, <3>5 DEF SettledOK, Disposed, Available
  <2>6. Assembled(c)'
    BY <1>3, <2>3 DEF WriteBatch, Assembled, Trusted, Available
  <2>7. ASSUME NEW a \in Callers, a # c
        PROVE  /\ (pc[a] # "idle" => Assembled(a))' /\ (pc[a] = "settling" => SettledOK(a))'
               /\ (pc[a] = "idle" => keys[a] = {} /\ items[a] = {})'
    BY <1>3, <2>7 DEF IInv, CallsOK, WriteBatch, TypeOK, Assembled, SettledOK, Disposed,
                      Trusted, Available
  <2>8. CallsOK'
    BY <1>3, <2>5, <2>6, <2>7 DEF CallsOK, WriteBatch, TypeOK, IInv
  <2> QED
    BY <2>4, <2>8 DEF IInv
<1>4. ASSUME NEW c \in Callers, Settle(c) PROVE IInv'
  <2>1. committed(c) \subseteq keys[c] /\ keys[c] \subseteq Pairs
    BY DEF committed, IInv, TypeOK
  <2>2. Outcome("ok") \in Outcomes
    BY DEF Outcome, Outcomes
  <2>3. TypeOK'
    BY <1>4, <2>1, <2>2 DEF IInv, Settle, TypeOK
  <2>4. PurgeIsSeen'
    BY <1>4 DEF IInv, Settle, TypeOK, PurgeIsSeen
  <2>5. CacheIsJustified'
    <3>1. c \notin overlapped => \A p \in committed(c) : Available(p)
      BY <1>4 DEF Settle, IInv, CallsOK, SettledOK, committed
    <3> QED
      BY <1>4, <3>1 DEF Settle, IInv, CacheIsJustified, Available
  <2>6. ASSUME NEW a \in Callers, a # c
        PROVE  /\ (pc[a] # "idle" => Assembled(a))' /\ (pc[a] = "settling" => SettledOK(a))'
               /\ (pc[a] = "idle" => keys[a] = {} /\ items[a] = {})'
    BY <1>4, <2>6 DEF IInv, CallsOK, Settle, TypeOK, Assembled, SettledOK, Disposed,
                      Trusted, Available
  <2>7. CallsOK'
    BY <1>4, <2>6 DEF CallsOK, Settle, TypeOK, IInv
  <2> QED
    BY <2>3, <2>4, <2>5, <2>7 DEF IInv
<1>5. ASSUME NEW d \in Docs, Store(d) PROVE IInv'
  <2>1. TypeOK' /\ PurgeIsSeen' /\ CacheIsJustified'
    BY <1>5 DEF IInv, Store, callVars, TypeOK, PurgeIsSeen, CacheIsJustified, Available
  <2>2. CallsOK'
    BY <1>5, CallsStable DEF Store
  <2> QED
    BY <2>1, <2>2 DEF IInv
<1>6. ASSUME NEW p \in Pairs, Forget(p) PROVE IInv'
  <2>1. TypeOK' /\ PurgeIsSeen' /\ CacheIsJustified'
    BY <1>6 DEF IInv, Forget, callVars, TypeOK, PurgeIsSeen, CacheIsJustified, Available
  <2>2. CallsOK'
    BY <1>6, CallsStable DEF Forget
  <2> QED
    BY <2>1, <2>2 DEF IInv
<1>7. CASE PurgeIndices
  <2>1. TypeOK' /\ PurgeIsSeen' /\ CacheIsJustified'
    BY <1>7 DEF IInv, PurgeIndices, callVars, TypeOK, PurgeIsSeen, CacheIsJustified
  <2>2. CallsOK'
    BY <1>7 DEF IInv, PurgeIndices, callVars, CallsOK, Assembled, SettledOK
  <2> QED
    BY <2>1, <2>2 DEF IInv
<1>8. CASE ClearCache
  <2>1. TypeOK' /\ PurgeIsSeen' /\ CacheIsJustified'
    BY <1>8 DEF IInv, ClearCache, callVars, TypeOK, PurgeIsSeen, CacheIsJustified
  <2>2. CallsOK'
    BY <1>8, CallsStable DEF ClearCache, IInv, PurgeIsSeen
  <2> QED
    BY <2>1, <2>2 DEF IInv
<1>9. CASE UNCHANGED vars
  <2>1. TypeOK' /\ PurgeIsSeen' /\ CacheIsJustified'
    BY <1>9 DEF IInv, vars, callVars, TypeOK, PurgeIsSeen, CacheIsJustified, Available
  <2>2. CallsOK'
    BY <1>9, CallsStable DEF vars
  <2> QED
    BY <2>1, <2>2 DEF IInv
<1> QED
  BY <1>1, <1>2, <1>3, <1>4, <1>5, <1>6, <1>7, <1>8, <1>9 DEF Next

LEMMA Invariance == Spec => []IInv
<1>1. IInv /\ UNCHANGED vars => IInv'
  BY NextPreserves
<1> QED
  BY InitEstablishes, NextPreserves, PTL DEF Spec

\* The calls, the cache and the outcomes have their types, whatever is written,
\* evicted or purged.
THEOREM TypesHold == Spec => []TypeOK
  BY Invariance, PTL DEF IInv

(***************************************************************************)
(* The cache never suppresses a lookup document that a retry still has to  *)
(* write, whatever the calls, failures, expiries and purges.               *)
(***************************************************************************)
THEOREM CacheJustified == Spec => []CacheIsJustified
  BY Invariance, PTL DEF IInv

(***************************************************************************)
(* Every span of a settled call is stored, unencodable, or rejected and    *)
(* either dropped by configuration or reported.                            *)
(***************************************************************************)
THEOREM SettledSpansDisposed == Spec => []SettledSpansAreDisposed
<1>1. IInv => SettledSpansAreDisposed
  BY DEF IInv, CallsOK, SettledOK, SettledSpansAreDisposed
<1> QED
  BY <1>1, Invariance, PTL

(***************************************************************************)
(* The lookup document of every span of a settled call is available,       *)
(* although some call other than this one may have written it.             *)
(***************************************************************************)
THEOREM SettledSpansFindable == Spec => []SettledSpansAreFindable
<1>1. IInv => SettledSpansAreFindable
  BY DEF IInv, CallsOK, Assembled, SettledOK, SettledSpansAreFindable, Trusted
<1> QED
  BY <1>1, Invariance, PTL

(***************************************************************************)
(* A report names only ids that a rejected span of the batch bears.        *)
(***************************************************************************)
THEOREM ReportsAreOfTheBatch == Spec => []ReportsNameTheBatch
<1>1. IInv => ReportsNameTheBatch
  BY DEF IInv, CallsOK, SettledOK, ReportsNameTheBatch
<1> QED
  BY <1>1, Invariance, PTL
=============================================================================
