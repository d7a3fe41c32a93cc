---------------------------- MODULE IngestProofs ----------------------------
(***************************************************************************)
(* Proofs about Ingest, for any topic, any spans and any number of faults. *)
(***************************************************************************)
EXTENDS Ingest, TLAPS

USE IngestAssumption

(***************************************************************************)
(* The inductive invariant: beside the types and what is marked, what the  *)
(* batch in the connector's hands still lacks is on its way to the sink.   *)
(***************************************************************************)
PoisonOK ==
    pc = "rerouting" =>
      /\ mode = "connector"
      /\ BatchSpans \subseteq stored \cup Unencodable \cup (poison \cap Rejectable)

IInv == TypeOK /\ MarkedIsDisposed /\ PoisonOK

\* The record that a partition of the batch waits for is one of its log's.
LEMMA BatchRecords ==
    ASSUME TypeOK, NEW p \in batch
    PROVE  /\ p \in Partitions
           /\ marked[p] + 1 \in 1..Len(Log[p])
           /\ Log[p][marked[p] + 1] \subseteq BatchSpans
           /\ Log[p][marked[p] + 1] \subseteq Spans
<1>1. p \in Partitions /\ p \in waiting
  BY DEF TypeOK
<1>2. Log[p] \in Seq(SUBSET Spans)
  BY <1>1
<1>3. marked[p] + 1 \in 1..Len(Log[p])
  BY <1>1, <1>2 DEF TypeOK
<1> QED
  BY <1>1, <1>2, <1>3 DEF BatchSpans

\* A batch whose spans are disposed of may be marked.
LEMMA DoneMarks ==
    ASSUME IInv, Done, BatchSpans \subseteq Disposed', Disposed \subseteq Disposed'
    PROVE  /\ MarkedIsDisposed' /\ PoisonOK'
           /\ \A p \in Partitions : marked'[p] \in marked[p]..Len(Log[p])
           /\ \A p \in waiting' : marked'[p] < Len(Log[p])
<1> USE DEF IInv
<1>1. ASSUME NEW p \in Partitions
      PROVE  marked[p] \in Nat /\ Len(Log[p]) \in Nat /\ marked[p] <= Len(Log[p])
  <2>1. Log[p] \in Seq(SUBSET Spans)
    OBVIOUS
  <2> QED
    BY <2>1 DEF TypeOK
<1>2. ASSUME NEW p \in Partitions
      PROVE  marked'[p] = IF p \in batch THEN marked[p] + 1 ELSE marked[p]
  BY DEF Done, advanced
<1>3. MarkedIsDisposed'
  <2> SUFFICES ASSUME NEW p \in Partitions, NEW i \in 1..marked'[p]
               PROVE  Log[p][i] \subseteq Disposed'
    BY DEF MarkedIsDisposed
  <2>1. CASE i \in 1..marked[p]
    BY <2>1 DEF MarkedIsDisposed
  <2>2. CASE p \in batch /\ i = marked[p] + 1
    BY <2>2, BatchRecords
  <2> QED
    BY <1>1, <1>2, <2>1, <2>2
<1>4. ASSUME NEW p \in Partitions PROVE marked'[p] \in marked[p]..Len(Log[p])
  BY <1>1, <1>2, BatchRecords
<1>5. ASSUME NEW p \in waiting' PROVE marked'[p] < Len(Log[p])
  BY <1>2 DEF Done, TypeOK
<1>6. PoisonOK'
  BY DEF Done, PoisonOK
<1> QED
  BY <1>3, <1>4, <1>5, <1>6

\* The end of a batch keeps the types.
LEMMA DoneTypes ==
    ASSUME TypeOK, Done, dead' \in [Spans -> Nat],
           UNCHANGED <<mode, stored, committed, faults>>,
           \A p \in Partitions : marked'[p] \in marked[p]..Len(Log[p]),
           \A p \in waiting' : marked'[p] < Len(Log[p])
    PROVE  TypeOK'
<1>1. ASSUME NEW p \in Partitions
      PROVE  /\ committed'[p] \in 0..marked'[p] /\ marked'[p] \in 0..Len(Log[p])
             /\ p \in waiting' => marked'[p] < Len(Log[p])
  <2>1. Log[p] \in Seq(SUBSET Spans)
    OBVIOUS
  <2>2. committed[p] \in 0..marked[p] /\ marked[p] \in Nat /\ Len(Log[p]) \in Nat
    BY <2>1 DEF TypeOK
  <2>3. marked'[p] \in marked[p]..Len(Log[p]) /\ committed'[p] = committed[p]
    OBVIOUS
  <2> QED
    BY <2>2, <2>3
<1>2. waiting' \subseteq Partitions /\ batch' = {} /\ pc' = "idle" /\ poison' = {}
  BY DEF Done, TypeOK
<1> QED
  BY <1>1, <1>2 DEF TypeOK

\* The sink's holdings stay counted, and only grow.
LEMMA DeliveredType ==
    ASSUME TypeOK
    PROVE  /\ delivered \in [Spans -> Nat]
           /\ \A s \in Spans : dead[s] <= delivered[s]
           /\ \A s \in poison : delivered[s] > 0
  BY DEF TypeOK, delivered

LEMMA InitEstablishes == Init => IInv
<1> SUFFICES ASSUME Init PROVE IInv
  OBVIOUS
<1>1. \A p \in Partitions : Len(Log[p]) \in Nat
  <2>1. \A p \in Partitions : Log[p] \in Seq(SUBSET Spans)
    OBVIOUS
  <2> QED
    BY <2>1
<1>2. TypeOK
  BY <1>1 DEF Init, TypeOK
<1>3. MarkedIsDisposed /\ PoisonOK
  BY DEF Init, MarkedIsDisposed, PoisonOK
<1> QED
  BY <1>2, <1>3 DEF IInv

LEMMA NextPreserves == IInv /\ [Next]_vars => IInv'
<1> SUFFICES ASSUME IInv, [Next]_vars PROVE IInv'
  OBVIOUS
<1> USE DEF IInv
<1>1. ASSUME NEW p \in Partitions, Consume(p) PROVE IInv'
  BY <1>1 DEF Consume, TypeOK, MarkedIsDisposed, Disposed, PoisonOK, BatchSpans
<1>2. ASSUME NEW p \in Partitions, Commit(p) PROVE IInv'
  BY <1>2 DEF Commit, TypeOK, MarkedIsDisposed, Disposed, PoisonOK, BatchSpans
<1>3. ASSUME NEW B \in SUBSET Partitions, Flush(B) PROVE IInv'
  BY <1>3 DEF Flush, TypeOK, MarkedIsDisposed, Disposed, PoisonOK
<1>4. ASSUME NEW s \in Spans, Store(s) PROVE IInv'
  BY <1>4 DEF Store, TypeOK, MarkedIsDisposed, Disposed, PoisonOK
<1>5. ASSUME NEW o \in Outcomes, WriteSettles(o) PROVE IInv'
  <2>1. BatchSpans \subseteq Disposed' /\ Disposed' = Disposed
    BY <1>5 DEF WriteSettles, WriterOutcomes, reroutable, selectSpans, OnlyReportedSpans, Disposed
  <2>2. Done
    BY <1>5 DEF WriteSettles
  <2>3. TypeOK'
    <3>1. \A p \in Partitions : marked'[p] \in marked[p]..Len(Log[p])
      BY <2>1, <2>2, DoneMarks
    <3>2. \A p \in waiting' : marked'[p] < Len(Log[p])
      BY <2>1, <2>2, DoneMarks
    <3>3. UNCHANGED <<mode, stored, committed, faults>> /\ dead' \in [Spans -> Nat]
      BY <1>5 DEF WriteSettles, TypeOK
    <3> QED
      BY <2>2, <3>1, <3>2, <3>3, DoneTypes
  <2> QED
    BY <2>1, <2>2, <2>3, DoneMarks
<1>6. ASSUME NEW o \in Outcomes, Reroute(o) PROVE IInv'
  <2>1. TypeOK'
    <3>1. BatchSpans \subseteq Spans
      BY BatchRecords DEF BatchSpans
    <3>2. poison' \subseteq Spans /\ pc' = "rerouting" /\ batch # {}
      BY <1>6, <3>1 DEF Reroute, selectSpans, TypeOK
    <3> QED
      BY <1>6, <3>2 DEF Reroute, TypeOK
  <2>2. MarkedIsDisposed'
    BY <1>6 DEF Reroute, MarkedIsDisposed, Disposed
  <2>3. PoisonOK'
    BY <1>6 DEF Reroute, WriterOutcomes, reroutable, selectSpans, OnlyReportedSpans, PoisonOK,
                BatchSpans
  <2> QED
    BY <2>1, <2>2, <2>3
<1>7. CASE SinkAccepts
  <2>1. BatchSpans \subseteq Disposed' /\ Disposed \subseteq Disposed'
    BY <1>7, DeliveredType DEF SinkAccepts, PoisonOK, Disposed, TypeOK
  <2>2. Done
    BY <1>7 DEF SinkAccepts
  <2>3. TypeOK'
    <3>1. \A p \in Partitions : marked'[p] \in marked[p]..Len(Log[p])
      BY <2>1, <2>2, DoneMarks
    <3>2. \A p \in waiting' : marked'[p] < Len(Log[p])
      BY <2>1, <2>2, DoneMarks
    <3>3. UNCHANGED <<mode, stored, committed, faults>> /\ dead' \in [Spans -> Nat]
      BY <1>7, DeliveredType DEF SinkAccepts
    <3> QED
      BY <2>2, <3>1, <3>2, <3>3, DoneTypes
  <2> QED
    BY <2>1, <2>2, <2>3, DoneMarks
<1>8. CASE SinkFails
  <2>1. TypeOK' /\ PoisonOK'
    BY <1>8, DeliveredType DEF SinkFails, TypeOK, PoisonOK
  <2>2. Disposed \subseteq Disposed' /\ marked' = marked
    BY <1>8, DeliveredType DEF SinkFails, Disposed, TypeOK
  <2> QED
    BY <2>1, <2>2 DEF MarkedIsDisposed
<1>9. CASE Crash
  <2>1. TypeOK' /\ PoisonOK'
    <3>1. dead' \in [Spans -> Nat]
      BY <1>9, DeliveredType DEF Crash, TypeOK
    <3>2. ASSUME NEW p \in Partitions
          PROVE  committed'[p] \in 0..marked'[p] /\ marked'[p] \in 0..Len(Log[p])
      <4>1. Log[p] \in Seq(SUBSET Spans)
        OBVIOUS
      <4>2. committed[p] \in 0..marked[p] /\ marked[p] \in 0..Len(Log[p]) /\ Len(Log[p]) \in Nat
        BY <4>1 DEF TypeOK
      <4>3. committed' = committed /\ marked' = committed
        BY <1>9 DEF Crash
      <4> QED
        BY <4>2, <4>3
    <3>3. /\ waiting' = {} /\ batch' = {} /\ pc' = "idle" /\ poison' = {}
          /\ faults' \in 0..MaxFaults
          /\ UNCHANGED <<mode, stored>>
      BY <1>9 DEF Crash, TypeOK
    <3> QED
      BY <3>1, <3>2, <3>3 DEF TypeOK, PoisonOK
  <2>2. Disposed \subseteq Disposed' /\ marked' = committed
    BY <1>9, DeliveredType DEF Crash, Disposed, TypeOK
  <2>3. \A p \in Partitions : \A i \in 1..committed[p] : i \in 1..marked[p]
    BY DEF TypeOK
  <2> QED
    BY <2>1, <2>2, <2>3 DEF MarkedIsDisposed
<1>10. CASE UNCHANGED vars
  BY <1>10 DEF vars, TypeOK, MarkedIsDisposed, Disposed, PoisonOK, BatchSpans
<1> QED
  BY <1>1, <1>2, <1>3, <1>4, <1>5, <1>6, <1>7, <1>8, <1>9, <1>10 DEF Next

LEMMA Invariance == Spec => []IInv
<1>1. IInv /\ UNCHANGED vars => IInv'
  BY NextPreserves
<1> QED
  BY InitEstablishes, NextPreserves, PTL DEF Spec

\* Offsets stay within the log and behind each other, and a batch is of records
\* that are waited for.
THEOREM TypesHold == Spec => []TypeOK
  BY Invariance, PTL DEF IInv

(***************************************************************************)
(* No offset is marked over a span that is not disposed of.                *)
(***************************************************************************)
THEOREM NothingIsMarkedEarly == Spec => []MarkedIsDisposed
  BY Invariance, PTL DEF IInv

LEMMA DeliveryInit == Init => Delivery!Init
  BY DEF Init, Delivery!Init, Disposed

LEMMA DeliveryStep == IInv /\ IInv' /\ [Next]_vars => [Delivery!Next]_(Delivery!vars)
<1> SUFFICES ASSUME IInv, IInv', [Next]_vars PROVE [Delivery!Next]_(Delivery!vars)
  OBVIOUS
<1> USE DEF IInv
<1>1. ASSUME NEW p \in Partitions, Commit(p) PROVE Delivery!Acknowledge
  <2>1. marked[p] \in committed[p]..Len(Log[p])
    <3>1. Log[p] \in Seq(SUBSET Spans)
      OBVIOUS
    <3> QED
      BY <3>1 DEF TypeOK
  <2>2. \A i \in 1..marked[p] : Log[p][i] \subseteq Disposed
    BY DEF MarkedIsDisposed
  <2>3. UNCHANGED Disposed /\ committed' = [committed EXCEPT ![p] = marked[p]]
    BY <1>1 DEF Commit, Disposed
  <2> QED
    BY <2>1, <2>2, <2>3 DEF Delivery!Acknowledge
<1>2. CASE \/ \E p \in Partitions : Consume(p)
           \/ \E B \in SUBSET Partitions : Flush(B)
           \/ \E s \in Spans : Store(s)
           \/ \E o \in Outcomes : WriteSettles(o) \/ Reroute(o)
           \/ SinkAccepts \/ SinkFails \/ Crash \/ UNCHANGED vars
  <2>1. UNCHANGED committed /\ mode' = mode /\ stored \subseteq stored'
    BY <1>2 DEF Consume, Flush, Store, WriteSettles, Reroute, SinkAccepts, SinkFails, Crash, vars
  <2>2. \A s \in Spans : dead[s] > 0 => dead'[s] > 0
    BY <1>2, DeliveredType DEF Consume, Flush, Store, WriteSettles, Reroute, SinkAccepts,
                               SinkFails, Crash, vars, TypeOK
  <2>3. Disposed \subseteq Disposed' /\ Disposed' \in SUBSET Spans
    BY <2>1, <2>2 DEF Disposed, TypeOK
  <2> QED
    BY <2>1, <2>3 DEF Delivery!Next, Delivery!Dispose
<1> QED
  BY <1>1, <1>2 DEF Next, Delivery!Next

(***************************************************************************)
(* The ingester implements AtLeastOnce: however batches merge, fail, are   *)
(* retried and re-routed, and wherever a crash falls, an acknowledged      *)
(* record's spans are disposed of.                                         *)
(***************************************************************************)
THEOREM DeliveryIsAtLeastOnce == Spec => DeliversAtLeastOnce
<1>1. [][Next]_vars /\ []IInv => [][Delivery!Next]_(Delivery!vars)
  BY DeliveryStep, PTL
<1> QED
  BY <1>1, DeliveryInit, Invariance, PTL DEF Spec, DeliversAtLeastOnce, Delivery!Spec

(***************************************************************************)
(* Dead letters.  A span of a record that is not marked has been repeated  *)
(* by faults alone, and one of a marked record once more at most.          *)
(***************************************************************************)

\* No two records of the topic share a span, as no producer has sent it twice.
SpansAreDistinct ==
    \A p, q \in Partitions : \A i \in 1..Len(Log[p]), j \in 1..Len(Log[q]) :
      Log[p][i] \cap Log[q][j] # {} => p = q /\ i = j

\* The spans of the records that are marked.
MarkedSpans == UNION {UNION {Log[p][i] : i \in 1..marked[p]} : p \in Partitions}

OnceInv ==
    /\ poison \subseteq BatchSpans
    /\ \A s \in Spans : dead[s] <= (IF s \in MarkedSpans THEN 1 ELSE 0) + faults

\* What is on its way to the sink is of no marked record.
LEMMA BatchIsUnmarked ==
    ASSUME SpansAreDistinct, TypeOK
    PROVE  BatchSpans \cap MarkedSpans = {}
<1> SUFFICES ASSUME NEW p \in batch, NEW q \in Partitions, NEW i \in 1..marked[q],
                    NEW s \in Log[p][marked[p] + 1], s \in Log[q][i]
             PROVE  FALSE
  BY DEF BatchSpans, MarkedSpans
<1>1. p \in Partitions /\ marked[p] + 1 \in 1..Len(Log[p])
  BY BatchRecords
<1>2. Log[q] \in Seq(SUBSET Spans) /\ marked[q] \in 0..Len(Log[q])
  BY DEF TypeOK
<1>3. i \in 1..Len(Log[q])
  BY <1>2
<1>4. Log[p][marked[p] + 1] \cap Log[q][i] # {}
  OBVIOUS
<1>5. p = q /\ marked[p] + 1 = i
  BY <1>1, <1>3, <1>4 DEF SpansAreDistinct
<1> QED
  BY <1>2, <1>5

\* The end of a batch marks all of its spans, and those marked before stay so.
LEMMA DoneMarksSpans ==
    ASSUME TypeOK, Done
    PROVE  MarkedSpans \cup BatchSpans \subseteq MarkedSpans'
<1>1. \A p \in Partitions : marked'[p] = IF p \in batch THEN marked[p] + 1 ELSE marked[p]
  BY DEF Done, advanced
<1>2. \A p \in Partitions : marked[p] \in Nat
  <2>1. \A p \in Partitions : Log[p] \in Seq(SUBSET Spans)
    OBVIOUS
  <2> QED
    BY <2>1 DEF TypeOK
<1>3. \A p \in Partitions : \A i \in 1..marked[p] : i \in 1..marked'[p]
  BY <1>1, <1>2
<1>4. \A p \in batch : p \in Partitions /\ marked[p] + 1 \in 1..marked'[p]
  BY <1>1, <1>2, BatchRecords
<1>5. MarkedSpans \subseteq MarkedSpans'
  BY <1>3 DEF MarkedSpans
<1>6. BatchSpans \subseteq MarkedSpans'
  BY <1>4 DEF BatchSpans, MarkedSpans
<1> QED
  BY <1>5, <1>6

LEMMA OnceInit == Init => OnceInv
<1> SUFFICES ASSUME Init PROVE OnceInv
  OBVIOUS
<1>1. \A p \in Partitions : marked[p] = 0
  BY DEF Init
<1>2. MarkedSpans = {}
  BY <1>1 DEF MarkedSpans
<1> QED
  BY <1>2 DEF Init, OnceInv

\* Every step keeps the count of dead letters.
LEMMA OnceStep == SpansAreDistinct /\ TypeOK /\ OnceInv /\ [Next]_vars => OnceInv'
<1> SUFFICES ASSUME SpansAreDistinct, TypeOK, OnceInv, [Next]_vars PROVE OnceInv'
  OBVIOUS
<1>0. /\ dead \in [Spans -> Nat] /\ faults \in Nat
      /\ \A s \in poison : s \notin MarkedSpans
  BY BatchIsUnmarked DEF TypeOK, OnceInv
<1>1. CASE UNCHANGED <<dead, faults, marked, batch, poison>>
  BY <1>1 DEF OnceInv, MarkedSpans, BatchSpans
<1>2. ASSUME NEW B \in SUBSET Partitions, Flush(B) PROVE OnceInv'
  <2>1. poison = {}
    BY <1>2 DEF Flush, TypeOK, OnceInv, BatchSpans
  <2> QED
    BY <1>2, <2>1 DEF Flush, OnceInv, MarkedSpans
<1>3. ASSUME NEW o \in Outcomes, WriteSettles(o) PROVE OnceInv'
  <2>1. MarkedSpans \subseteq MarkedSpans' /\ poison' = {} /\ UNCHANGED <<dead, faults>>
    BY <1>3, DoneMarksSpans DEF WriteSettles, Done
  <2> QED
    BY <1>0, <2>1 DEF OnceInv
<1>4. ASSUME NEW o \in Outcomes, Reroute(o) PROVE OnceInv'
  <2>1. poison' \subseteq BatchSpans' /\ UNCHANGED <<dead, faults, marked>>
    BY <1>4 DEF Reroute, selectSpans, BatchSpans
  <2> QED
    BY <2>1 DEF OnceInv, MarkedSpans
<1>5. CASE SinkAccepts
  <2>1. MarkedSpans \cup BatchSpans \subseteq MarkedSpans' /\ poison' = {} /\ faults' = faults
    BY <1>5, DoneMarksSpans DEF SinkAccepts, Done
  <2>2. \A s \in Spans : dead'[s] = dead[s] + (IF s \in poison THEN 1 ELSE 0)
    BY <1>5 DEF SinkAccepts, delivered
  <2>3. \A s \in poison : s \in MarkedSpans'
    BY <2>1 DEF OnceInv
  <2> QED
    BY <1>0, <2>1, <2>2, <2>3 DEF OnceInv
<1>6. CASE SinkFails
  <2>1. poison' = {} /\ MarkedSpans' = MarkedSpans
    BY <1>6 DEF SinkFails, MarkedSpans
  <2>2. CASE UNCHANGED <<dead, faults>>
    BY <2>1, <2>2 DEF OnceInv
  <2>3. CASE faults' = faults + 1 /\ dead' = delivered
    BY <1>0, <2>1, <2>3 DEF OnceInv, delivered
  <2> QED
    BY <1>6, <2>2, <2>3 DEF SinkFails
<1>7. CASE Crash
  <2>1. poison' = {} /\ faults' = faults + 1 /\ dead' \in {dead, delivered}
    BY <1>7 DEF Crash
  <2>2. \A s \in Spans : dead'[s] <= 1 + faults
    BY <1>0, <2>1 DEF OnceInv, delivered
  <2> QED
    BY <1>0, <2>1, <2>2, DeliveredType DEF OnceInv
<1> QED
  BY <1>1, <1>2, <1>3, <1>4, <1>5, <1>6, <1>7 DEF Next, Consume, Commit, Store, vars

(***************************************************************************)
(* The sink gets a span once, and once more for each fault: retries of the *)
(* connector repeat no dead letter.                                        *)
(***************************************************************************)
THEOREM DeadLettersOnce == SpansAreDistinct /\ Spec => []DeadLetteredOnce
<1> SUFFICES ASSUME SpansAreDistinct PROVE Spec => []DeadLetteredOnce
  OBVIOUS
<1>1. TypeOK /\ OnceInv /\ [Next]_vars => OnceInv'
  BY OnceStep
<1>2. TypeOK /\ OnceInv => DeadLetteredOnce
  BY DEF TypeOK, OnceInv, DeadLetteredOnce
<1> QED
  BY OnceInit, TypesHold, <1>1, <1>2, PTL DEF Spec
=============================================================================
