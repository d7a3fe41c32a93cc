-------------------------- MODULE ThroughputProofs --------------------------
(***************************************************************************)
(* Proofs about module Throughput, for any collectors, clocks, delays and  *)
(* numbers of buckets.                                                     *)
(***************************************************************************)
EXTENDS Throughput, TLAPS

----------------------------------------------------------------------------
(* Windows and buckets. *)

\* A number of intervals is not negative, and one more is one interval longer.
LEMMA Intervals ==
  ASSUME NEW n \in Nat
  PROVE  /\ n * CalculationInterval \in Nat
         /\ (n + 1) * CalculationInterval = n * CalculationInterval + CalculationInterval
BY ThroughputAssumption

\* More intervals are no shorter.
LEMMA IntervalsMonotone ==
  ASSUME NEW m \in Nat, NEW n \in Nat, m <= n
  PROVE  m * CalculationInterval <= n * CalculationInterval
<1>1. n - m \in Nat
  OBVIOUS
<1>2. (n - m) * CalculationInterval \in Nat
  BY <1>1, Intervals
<1>3. n * CalculationInterval = m * CalculationInterval + (n - m) * CalculationInterval
  BY ThroughputAssumption
<1>4. m * CalculationInterval \in Nat
  BY Intervals
<1> QED
  BY <1>2, <1>3, <1>4

\* The shorter of two numbers, as prependThroughputBucket cuts.
LEMMA MinOfTwo ==
  ASSUME NEW m \in Int, NEW n \in Int
  PROVE  Min({m, n}) = IF m <= n THEN m ELSE n
BY DEF Min

\* A bucket of rows.
LEMMA BucketType ==
  ASSUME NEW rows \in SUBSET Rows, NEW from \in Int, NEW to \in Int
  PROVE  /\ Bucket(rows, from, to) \in Buckets
         /\ Bucket(rows, from, to).from = from /\ Bucket(rows, from, to).to = to
         /\ Bucket(rows, from, to).spans = Counted(rows, from, to)
<1>1. Counted(rows, from, to) \in SUBSET Spans
  BY DEF Counted, Rows
<1> QED
  BY <1>1 DEF Bucket, Buckets

\* The windows of initializeThroughput.
LEMMA WindowType ==
  ASSUME NEW time \in Int, NEW i \in Nat \ {0}, stored \subseteq Rows
  PROVE  /\ Window(time, i) \in Buckets
         /\ Window(time, i).from = time - i * CalculationInterval
         /\ Window(time, i).to = time - (i - 1) * CalculationInterval
         /\ Window(time, i).spans = Counted(stored, Window(time, i).from, Window(time, i).to)
         /\ Window(time, i).from <= Window(time, i).to
         /\ Window(time, i).to <= time
<1>1. i \in Nat /\ i - 1 \in Nat
  OBVIOUS
<1>2. i * CalculationInterval \in Nat /\ (i - 1) * CalculationInterval \in Nat
  BY <1>1, Intervals
<1>3. (i - 1) * CalculationInterval <= i * CalculationInterval
  BY <1>1, IntervalsMonotone
<1> DEFINE from == time - i * CalculationInterval
           to == time - (i - 1) * CalculationInterval
<1>4. from \in Int /\ to \in Int /\ from <= to /\ to <= time
  BY <1>2, <1>3
<1>5. Window(time, i) = Bucket(stored, from, to)
  BY DEF Window
<1> HIDE DEF from, to
<1>6. /\ Window(time, i) \in Buckets
      /\ Window(time, i).from = from /\ Window(time, i).to = to
      /\ Window(time, i).spans = Counted(stored, from, to)
  BY <1>4, <1>5, BucketType
<1> QED
  BY <1>4, <1>6 DEF from, to

\* What prepending leaves: the new bucket, then the old ones, as many as fit.
LEMMA PrependShape ==
  ASSUME NEW buckets \in Seq(Buckets), NEW b \in Buckets
  PROVE  /\ Prepend(buckets, b) \in Seq(Buckets)
         /\ Len(Prepend(buckets, b)) \in 1..AggregationBuckets
         /\ Len(Prepend(buckets, b)) <= Len(buckets) + 1
         /\ Prepend(buckets, b)[1] = b
         /\ \A i \in 2..Len(Prepend(buckets, b)) :
              i - 1 \in DOMAIN buckets /\ Prepend(buckets, b)[i] = buckets[i - 1]
<1> DEFINE n == Min({Len(buckets) + 1, AggregationBuckets})
           s == [i \in 1..n |-> IF i = 1 THEN b ELSE buckets[i - 1]]
<1>1. n \in 1..AggregationBuckets /\ n <= Len(buckets) + 1
  BY MinOfTwo, ThroughputAssumption
<1>2. \A i \in 1..n : i # 1 => i - 1 \in 1..Len(buckets)
  BY <1>1
<1>3. Prepend(buckets, b) = s
  BY DEF Prepend
<1> HIDE DEF n
<1>4. \A i \in 1..n : (IF i = 1 THEN b ELSE buckets[i - 1]) \in Buckets
  BY <1>2
<1>5. s \in Seq(Buckets) /\ Len(s) = n
  BY <1>1, <1>4
<1>6. s[1] = b
  BY <1>1
<1>7. \A i \in 2..n : i - 1 \in DOMAIN buckets /\ s[i] = buckets[i - 1]
  BY <1>1, <1>2
<1> HIDE DEF s
<1> QED
  BY <1>1, <1>3, <1>5, <1>6, <1>7

----------------------------------------------------------------------------
(***************************************************************************)
(* Type correctness.                                                       *)
(***************************************************************************)

\* Every action but Start and GetThroughput leaves the buckets, or clears them.
THEOREM TypeCorrect == Spec => []TypeOK
<1>1. Init => TypeOK
  BY ThroughputAssumption DEF Init, TypeOK
<1>2. TypeOK /\ [Next]_vars => TypeOK'
  <2> SUFFICES ASSUME TypeOK, [Next]_vars PROVE TypeOK'
    OBVIOUS
  <2> USE ThroughputAssumption
  <2>1. ASSUME NEW c \in Collectors, Start(c) PROVE TypeOK'
    <3>1. PICK n \in 0..AggregationBuckets :
             throughputs' = [throughputs EXCEPT ![c] = Initial(Clock(c) - Delay, n)]
      BY <2>1 DEF Start
    <3>2. Clock(c) - Delay \in Int
      BY DEF TypeOK, Clock
    <3>3. /\ Initial(Clock(c) - Delay, n) \in Seq(Buckets)
          /\ Len(Initial(Clock(c) - Delay, n)) <= AggregationBuckets
      <4>1. \A i \in 1..n : Window(Clock(c) - Delay, i) \in Buckets
        BY <3>2, WindowType DEF TypeOK
      <4> QED
        BY <4>1 DEF Initial
    <3>4. throughputs' \in [Collectors -> Seq(Buckets)]
      BY <3>1, <3>3 DEF TypeOK
    <3>5. \A d \in Collectors : Len(throughputs[d]') <= AggregationBuckets
      BY <3>1, <3>3 DEF TypeOK
    <3>6. faults' \in 0..MaxFaults
      BY <2>1 DEF Start, Fault, TypeOK
    <3>7. lastChecked' \in [Collectors -> Int] /\ next' \in [Collectors -> Int]
      BY <2>1, <3>2 DEF Start, TypeOK
    <3> QED
      BY <2>1, <3>4, <3>5, <3>6, <3>7 DEF Start, TypeOK, store
  <2>2. ASSUME NEW c \in Collectors, SaveThroughput(c) PROVE TypeOK'
    <3>1. Clock(c) \in Int
      BY DEF TypeOK, Clock
    <3>2. RowsOf(c) \subseteq Rows
      BY <3>1 DEF RowsOf, Rows, TypeOK
    <3>3. Rearmed(c) \in Int
      BY DEF Rearmed, TypeOK
    <3> QED
      BY <2>2, <3>2, <3>3 DEF SaveThroughput, TypeOK, postAggregator
  <2>3. ASSUME NEW c \in Collectors, RunCalculation(c) PROVE TypeOK'
    BY <2>3 DEF RunCalculation, TypeOK, Clock, store
  <2>4. ASSUME NEW c \in Collectors, GetThroughput(c) PROVE TypeOK'
    <3>1. Bucket(stored, lastChecked[c], end[c]) \in Buckets
      BY BucketType DEF TypeOK
    <3>2. throughputs[c] \in Seq(Buckets)
      BY DEF TypeOK
    <3> DEFINE s == Prepend(throughputs[c], Bucket(stored, lastChecked[c], end[c]))
    <3>3. s \in Seq(Buckets) /\ Len(s) <= AggregationBuckets
      <4> HIDE DEF TypeOK
      <4>1. /\ s \in Seq(Buckets)
            /\ Len(s) \in 1..AggregationBuckets
        BY <3>1, <3>2, PrependShape
      <4> QED
        BY <4>1
    <3>4. throughputs' = [throughputs EXCEPT ![c] = s]
      BY <2>4 DEF GetThroughput
    <3> HIDE DEF s
    <3> QED
      BY <2>4, <3>3, <3>4 DEF GetThroughput, TypeOK, store
  <2>5. ASSUME NEW c \in Collectors, GetThroughputFails(c) PROVE TypeOK'
    BY <2>5 DEF GetThroughputFails, Fault, TypeOK, store
  <2>6. ASSUME NEW c \in Collectors, Stop(c) PROVE TypeOK'
    BY <2>6 DEF Stop, Fault, TypeOK, store
  <2>7. ASSUME NEW c \in Collectors, NEW s \in Spans, RecordThroughput(c, s)
        PROVE  TypeOK'
    BY <2>7 DEF RecordThroughput, TypeOK, store, postAggregator
  <2>8. ASSUME NEW r \in inFlight, Land(r) PROVE TypeOK'
    BY <2>8 DEF Land, TypeOK, postAggregator
  <2>9. ASSUME NEW r \in inFlight, Lose(r) PROVE TypeOK'
    BY <2>9 DEF Lose, Fault, TypeOK, postAggregator
  <2>10. ASSUME Tick PROVE TypeOK'
    BY <2>10 DEF Tick, TypeOK, store, postAggregator
  <2>11. ASSUME UNCHANGED vars PROVE TypeOK'
    BY <2>11 DEF vars, TypeOK, store, postAggregator
  <2> QED
    BY <2>1, <2>2, <2>3, <2>4, <2>5, <2>6, <2>7, <2>8, <2>9, <2>10, <2>11 DEF Next
<1> QED
  BY <1>1, <1>2, PTL DEF Spec

----------------------------------------------------------------------------
(***************************************************************************)
(* How a step changes the buckets and the store.                           *)
(***************************************************************************)

\* A collector's buckets stay, or go when it stops, or come from a start or a
\* successful read.
LEMMA BucketSteps ==
  ASSUME TypeOK, [Next]_vars, NEW c \in Collectors
  PROVE  \/ throughputs'[c] = throughputs[c] /\ lastChecked'[c] = lastChecked[c]
         \/ throughputs'[c] = <<>>
         \/ Start(c)
         \/ GetThroughput(c)
<1>1. ASSUME NEW d \in Collectors, Start(d) PROVE d = c \/ (throughputs'[c] = throughputs[c] /\ lastChecked'[c] = lastChecked[c])
  BY <1>1 DEF Start, TypeOK
<1>2. ASSUME NEW d \in Collectors, GetThroughput(d) PROVE d = c \/ (throughputs'[c] = throughputs[c] /\ lastChecked'[c] = lastChecked[c])
  BY <1>2 DEF GetThroughput, TypeOK
<1>3. ASSUME NEW d \in Collectors, Stop(d) PROVE \/ throughputs'[c] = <<>>
                                                 \/ throughputs'[c] = throughputs[c] /\ lastChecked'[c] = lastChecked[c]
  BY <1>3 DEF Stop, TypeOK
<1> QED
  BY <1>1, <1>2, <1>3
     DEF Next, vars, SaveThroughput, RunCalculation, GetThroughputFails,
         RecordThroughput, Land, Lose, Tick, postAggregator

\* Rows do not leave the store, and one that is on its way there was, or has
\* just been saved.
LEMMA RowSteps ==
  ASSUME TypeOK, [Next]_vars
  PROVE  /\ stored \subseteq stored'
         /\ \/ stored' \cup inFlight' \subseteq stored \cup inFlight
            \/ \E c \in Collectors :
                 /\ SaveThroughput(c)
                 /\ stored' \cup inFlight' = stored \cup inFlight \cup RowsOf(c)
BY DEF Next, vars, SaveThroughput, RunCalculation, GetThroughputFails, GetThroughput,
       Start, Stop, RecordThroughput, Land, Lose, Tick, store

----------------------------------------------------------------------------
(***************************************************************************)
(* The windows are contiguous.                                             *)
(***************************************************************************)

\* The buckets of initializeThroughput.
LEMMA InitialShape ==
  ASSUME TypeOK, NEW c \in Collectors, Start(c)
  PROVE  \E n \in 0..AggregationBuckets :
           /\ throughputs'[c] = Initial(Clock(c) - Delay, n)
           /\ DOMAIN throughputs'[c] = 1..n /\ Len(throughputs'[c]) = n
           /\ \A i \in 1..n :
                /\ i \in Nat \ {0}
                /\ throughputs'[c][i] = Window(Clock(c) - Delay, i)
           /\ lastChecked'[c] = Clock(c) - Delay
           /\ Clock(c) - Delay \in Int
<1>1. PICK n \in 0..AggregationBuckets :
         throughputs' = [throughputs EXCEPT ![c] = Initial(Clock(c) - Delay, n)]
  BY DEF Start
<1>2. throughputs'[c] = Initial(Clock(c) - Delay, n)
  BY <1>1 DEF TypeOK
<1>3. n \in Nat /\ \A i \in 1..n : i \in Nat \ {0}
  BY ThroughputAssumption
<1>4. /\ DOMAIN Initial(Clock(c) - Delay, n) = 1..n
      /\ Len(Initial(Clock(c) - Delay, n)) = n
      /\ \A i \in 1..n : Initial(Clock(c) - Delay, n)[i] = Window(Clock(c) - Delay, i)
  BY <1>3 DEF Initial
<1>5. Clock(c) - Delay \in Int
  BY ThroughputAssumption DEF TypeOK, Clock
<1>6. lastChecked'[c] = Clock(c) - Delay
  BY DEF Start, TypeOK
<1> QED
  BY <1>2, <1>3, <1>4, <1>5, <1>6

\* The buckets after a successful read.
LEMMA ReadShape ==
  ASSUME TypeOK, NEW c \in Collectors, GetThroughput(c)
  PROVE  /\ throughputs'[c] \in Seq(Buckets)
         /\ Len(throughputs'[c]) \in Nat \ {0}
         /\ Len(throughputs'[c]) <= Len(throughputs[c]) + 1
         /\ throughputs'[c][1] = Bucket(stored, lastChecked[c], end[c])
         /\ throughputs'[c][1].from = lastChecked[c] /\ throughputs'[c][1].to = end[c]
         /\ \A i \in 2..Len(throughputs'[c]) :
              i - 1 \in DOMAIN throughputs[c] /\ throughputs'[c][i] = throughputs[c][i - 1]
         /\ lastChecked'[c] = end[c]
<1>1. /\ Bucket(stored, lastChecked[c], end[c]) \in Buckets
      /\ Bucket(stored, lastChecked[c], end[c]).from = lastChecked[c]
      /\ Bucket(stored, lastChecked[c], end[c]).to = end[c]
      /\ throughputs[c] \in Seq(Buckets)
  BY BucketType DEF TypeOK
<1>2. throughputs'[c] = Prepend(throughputs[c], Bucket(stored, lastChecked[c], end[c]))
  BY DEF GetThroughput, TypeOK
<1>3. lastChecked'[c] = end[c]
  BY DEF GetThroughput, TypeOK
<1>4. 1..AggregationBuckets \subseteq Nat \ {0}
  BY ThroughputAssumption
<1> DEFINE b == Bucket(stored, lastChecked[c], end[c])
           s == throughputs[c]
<1> HIDE DEF b, s
<1>5. /\ Prepend(s, b) \in Seq(Buckets)
      /\ Len(Prepend(s, b)) \in 1..AggregationBuckets
      /\ Len(Prepend(s, b)) <= Len(s) + 1
      /\ Prepend(s, b)[1] = b
      /\ \A i \in 2..Len(Prepend(s, b)) :
           i - 1 \in DOMAIN s /\ Prepend(s, b)[i] = s[i - 1]
  BY <1>1, PrependShape DEF b, s
<1> QED
  BY <1>1, <1>2, <1>3, <1>4, <1>5 DEF b, s

\* The windows leave no gap and do not overlap.
THEOREM Contiguous == Spec => []WindowsContiguous
<1>1. Init => WindowsContiguous
  BY DEF Init, WindowsContiguous
<1>2. TypeOK /\ WindowsContiguous /\ [Next]_vars => WindowsContiguous'
  <2> SUFFICES ASSUME TypeOK, WindowsContiguous, [Next]_vars, NEW c \in Collectors
               PROVE  /\ throughputs'[c] # <<>> => throughputs'[c][1].to = lastChecked'[c]
                      /\ \A i \in 1..Len(throughputs'[c]) - 1 :
                           throughputs'[c][i].from = throughputs'[c][i + 1].to
    BY DEF WindowsContiguous
  <2>1. CASE throughputs'[c] = throughputs[c] /\ lastChecked'[c] = lastChecked[c]
    BY <2>1 DEF WindowsContiguous
  <2>2. CASE throughputs'[c] = <<>>
    BY <2>2
  <2>3. CASE Start(c)
    <3> DEFINE time == Clock(c) - Delay
    <3>1. PICK n \in 0..AggregationBuckets :
             /\ DOMAIN throughputs'[c] = 1..n /\ Len(throughputs'[c]) = n
             /\ \A i \in 1..n : i \in Nat \ {0} /\ throughputs'[c][i] = Window(time, i)
             /\ lastChecked'[c] = time /\ time \in Int
             /\ throughputs'[c] = Initial(time, n)
      BY <2>3, InitialShape
    <3>2. stored \subseteq Rows
      BY DEF TypeOK
    <3> HIDE DEF time
    <3>3. \A i \in 1..n : /\ throughputs'[c][i].from = time - i * CalculationInterval
                          /\ throughputs'[c][i].to = time - (i - 1) * CalculationInterval
      <4> TAKE i \in 1..n
      <4>1. /\ Window(time, i).from = time - i * CalculationInterval
            /\ Window(time, i).to = time - (i - 1) * CalculationInterval
        BY <3>1, <3>2, WindowType
      <4> QED
        BY <3>1, <4>1
    <3>4. throughputs'[c] # <<>> => throughputs'[c][1].to = lastChecked'[c]
      <4>1. ASSUME throughputs'[c] # <<>> PROVE 1 \in 1..n
        BY <4>1, <3>1 DEF Initial
      <4>2. (1 - 1) * CalculationInterval = 0
        BY ThroughputAssumption
      <4> QED
        BY <3>1, <3>3, <4>1, <4>2
    <3>5. ASSUME NEW i \in 1..Len(throughputs'[c]) - 1
          PROVE  throughputs'[c][i].from = throughputs'[c][i + 1].to
      <4>1. i \in 1..n /\ i + 1 \in 1..n /\ (i + 1) - 1 = i
        BY <3>1, ThroughputAssumption
      <4> QED
        BY <3>3, <4>1
    <3> QED
      BY <3>4, <3>5
  <2>4. CASE GetThroughput(c)
    <3>1. throughputs'[c][1].to = lastChecked'[c]
      BY <2>4, ReadShape
    <3>2. ASSUME NEW i \in 1..Len(throughputs'[c]) - 1
          PROVE  throughputs'[c][i].from = throughputs'[c][i + 1].to
      <4>1. /\ i \in Nat \ {0} /\ i + 1 \in 2..Len(throughputs'[c])
            /\ i \in DOMAIN throughputs[c] /\ throughputs'[c][i + 1] = throughputs[c][i]
            /\ throughputs[c] \in Seq(Buckets)
        <5>1. i \in Nat \ {0} /\ i + 1 \in 2..Len(throughputs'[c]) /\ (i + 1) - 1 = i
          BY <2>4, ReadShape
        <5> QED
          BY <2>4, <5>1, ReadShape DEF TypeOK
      <4>2. CASE i = 1
        <5>1. throughputs[c][1].to = lastChecked[c]
          BY <4>1, <4>2 DEF WindowsContiguous
        <5> QED
          BY <2>4, <4>1, <4>2, <5>1, ReadShape
      <4>3. CASE i # 1
        <5>1. /\ i - 1 \in 1..Len(throughputs[c]) - 1 /\ (i - 1) + 1 = i
              /\ i \in 2..Len(throughputs'[c])
          BY <4>1, <4>3, <2>4, ReadShape
        <5>2. throughputs'[c][i] = throughputs[c][i - 1]
          BY <2>4, <5>1, ReadShape
        <5> QED
          BY <4>1, <5>1, <5>2 DEF WindowsContiguous
      <4> QED
        BY <4>2, <4>3
    <3> QED
      BY <3>1, <3>2
  <2> QED
    BY <2>1, <2>2, <2>3, <2>4, BucketSteps
<1> QED
  BY <1>1, <1>2, TypeCorrect, PTL DEF Spec

----------------------------------------------------------------------------
(***************************************************************************)
(* The windows are exact.  No row has been on its way for too long, and    *)
(* every collector reads behind its own clock: so what is still on its way *)
(* is later than any window.                                               *)
(***************************************************************************)

\* A row on its way is no older than MaxLatency.
Prompt == \A r \in inFlight : now - MaxLatency <= r.ts - Skew[r.by]

\* A collector has read up to the present minus the delay, at most.
Behind ==
    \A c \in Collectors :
      /\ pc[c] # "off" => lastChecked[c] <= Clock(c) - Delay
      /\ pc[c] = "off" => throughputs[c] = <<>>
      /\ pc[c] = "reading" => lastChecked[c] <= end[c] /\ end[c] <= Clock(c) - Delay

\* The windows lie before lastChecked, and none of them before its successor.
Ordered ==
    \A c \in Collectors :
      /\ \A i \in DOMAIN throughputs[c] :
           /\ throughputs[c][i].from <= throughputs[c][i].to
           /\ throughputs[c][i].to <= lastChecked[c]
      /\ \A i, j \in DOMAIN throughputs[c] :
           i < j => throughputs[c][j].to <= throughputs[c][i].from

TimeInv == TypeOK /\ Prompt /\ Behind /\ Ordered

\* No step lets a row be late.
LEMMA PromptStep ==
  ASSUME TypeOK, Prompt, [Next]_vars
  PROVE  Prompt'
<1> USE ThroughputAssumption
<1>1. ASSUME NEW c \in Collectors, SaveThroughput(c) PROVE Prompt'
  <2>1. \A r \in RowsOf(c) : r.ts = Clock(c) /\ r.by = c
    BY DEF RowsOf
  <2>2. inFlight' = inFlight \cup RowsOf(c) /\ now' = now
    BY <1>1 DEF SaveThroughput
  <2>3. \A r \in RowsOf(c) : now - MaxLatency <= r.ts - Skew[r.by]
    BY <2>1 DEF Clock, TypeOK
  <2> QED
    BY <2>2, <2>3 DEF Prompt
<1>2. ASSUME Tick PROVE Prompt'
  <2> SUFFICES ASSUME NEW r \in inFlight PROVE (now + 1) - MaxLatency <= r.ts - Skew[r.by]
    BY <1>2 DEF Tick, Prompt, store
  <2>1. r.ts \in Int /\ Skew[r.by] \in Int /\ now \in Int
    BY DEF TypeOK, Rows
  <2>2. now - (r.ts - Skew[r.by]) < MaxLatency
    BY <1>2 DEF Tick
  <2> QED
    BY <2>1, <2>2
<1> QED
  BY <1>1, <1>2
     DEF Next, vars, Prompt, RunCalculation, GetThroughputFails, GetThroughput,
         Start, Stop, RecordThroughput, Land, Lose, store

\* No step lets a collector read past the present minus the delay.
LEMMA BehindStep ==
  ASSUME TypeOK, Behind, [Next]_vars
  PROVE  Behind'
<1> USE ThroughputAssumption
<1> SUFFICES ASSUME NEW d \in Collectors
             PROVE  /\ pc'[d] # "off" => lastChecked'[d] <= Clock(d)' - Delay
                    /\ pc'[d] = "off" => throughputs'[d] = <<>>
                    /\ pc'[d] = "reading" => /\ lastChecked'[d] <= end'[d]
                                             /\ end'[d] <= Clock(d)' - Delay
  BY DEF Behind
<1>0. /\ Clock(d) \in Int /\ lastChecked[d] \in Int /\ end[d] \in Int
      /\ now \in Nat /\ Skew[d] \in Nat /\ Delay \in Nat
      /\ Clock(d)' = now' + Skew[d] /\ Clock(d) = now + Skew[d]
  BY DEF TypeOK, Clock
<1>9. /\ pc[d] # "off" => lastChecked[d] <= Clock(d) - Delay
      /\ pc[d] = "off" => throughputs[d] = <<>>
      /\ pc[d] = "reading" => lastChecked[d] <= end[d] /\ end[d] <= Clock(d) - Delay
  BY DEF Behind
<1>1. ASSUME NEW c \in Collectors, Start(c)
      PROVE  \/ /\ pc'[d] = "idle" /\ lastChecked'[d] = Clock(d) - Delay /\ now' = now
             \/ /\ pc'[d] = pc[d] /\ lastChecked'[d] = lastChecked[d] /\ now' = now
                /\ end'[d] = end[d] /\ throughputs'[d] = throughputs[d]
  BY <1>1 DEF Start, TypeOK
<1>2. ASSUME NEW c \in Collectors, SaveThroughput(c)
      PROVE  /\ (pc'[d] = "inserting" /\ pc[d] # "off") \/ pc'[d] = pc[d]
             /\ lastChecked'[d] = lastChecked[d] /\ now' = now
             /\ end'[d] = end[d] /\ throughputs'[d] = throughputs[d]
  BY <1>2 DEF SaveThroughput, TypeOK, postAggregator
<1>3. ASSUME NEW c \in Collectors, RunCalculation(c)
      PROVE  /\ \/ pc'[d] = "reading" /\ pc[d] # "off" /\ end'[d] = Clock(d) - Delay
                \/ pc'[d] = pc[d] /\ end'[d] = end[d]
             /\ lastChecked'[d] = lastChecked[d] /\ now' = now
             /\ throughputs'[d] = throughputs[d]
  BY <1>3 DEF RunCalculation, TypeOK
<1>4. ASSUME NEW c \in Collectors, GetThroughput(c)
      PROVE  \/ pc'[d] = "idle" /\ pc[d] = "reading" /\ lastChecked'[d] = end[d] /\ now' = now
             \/ /\ pc'[d] = pc[d] /\ lastChecked'[d] = lastChecked[d] /\ now' = now
                /\ end'[d] = end[d] /\ throughputs'[d] = throughputs[d]
  BY <1>4 DEF GetThroughput, TypeOK
<1>5. ASSUME NEW c \in Collectors, GetThroughputFails(c)
      PROVE  /\ lastChecked'[d] = lastChecked[d] /\ now' = now
             /\ throughputs'[d] = throughputs[d]
             /\ \/ pc'[d] = "idle" /\ pc[d] = "reading"
                \/ pc'[d] = pc[d] /\ end'[d] = end[d]
  BY <1>5 DEF GetThroughputFails, TypeOK
<1>6. ASSUME NEW c \in Collectors, Stop(c)
      PROVE  \/ pc'[d] = "off" /\ throughputs'[d] = <<>>
             \/ /\ pc'[d] = pc[d] /\ lastChecked'[d] = lastChecked[d] /\ now' = now
                /\ end'[d] = end[d] /\ throughputs'[d] = throughputs[d]
  BY <1>6 DEF Stop, TypeOK
<1>7. ASSUME Tick
      PROVE  /\ pc' = pc /\ lastChecked'[d] = lastChecked[d] /\ now' = now + 1
             /\ end'[d] = end[d] /\ throughputs'[d] = throughputs[d]
  BY <1>7 DEF Tick, postAggregator
<1>8. ASSUME \/ UNCHANGED vars
             \/ \E r \in inFlight : Land(r) \/ Lose(r)
             \/ \E c \in Collectors : \E s \in Spans : RecordThroughput(c, s)
      PROVE  /\ pc' = pc /\ lastChecked'[d] = lastChecked[d] /\ now' = now
             /\ end'[d] = end[d] /\ throughputs'[d] = throughputs[d]
  BY <1>8 DEF vars, Land, Lose, RecordThroughput, postAggregator
<1> QED
  BY <1>0, <1>9, <1>1, <1>2, <1>3, <1>4, <1>5, <1>6, <1>7, <1>8 DEF Next

\* A new window is put before the others, which end where it starts.
LEMMA OrderedStep ==
  ASSUME TimeInv, [Next]_vars
  PROVE  Ordered'
<1> USE ThroughputAssumption
<1>0. TypeOK /\ Behind /\ Ordered
  BY DEF TimeInv
<1> SUFFICES ASSUME NEW c \in Collectors
             PROVE  /\ \A i \in DOMAIN throughputs'[c] :
                         /\ throughputs'[c][i].from <= throughputs'[c][i].to
                         /\ throughputs'[c][i].to <= lastChecked'[c]
                    /\ \A i, j \in DOMAIN throughputs'[c] :
                         i < j => throughputs'[c][j].to <= throughputs'[c][i].from
  BY DEF Ordered
<1>1. CASE throughputs'[c] = throughputs[c] /\ lastChecked'[c] = lastChecked[c]
  BY <1>0, <1>1 DEF Ordered
<1>2. CASE throughputs'[c] = <<>>
  BY <1>2
<1>3. CASE Start(c)
  <2> DEFINE time == Clock(c) - Delay
  <2>1. PICK n \in 0..AggregationBuckets :
           /\ DOMAIN throughputs'[c] = 1..n
           /\ \A i \in 1..n : i \in Nat \ {0} /\ throughputs'[c][i] = Window(time, i)
           /\ lastChecked'[c] = time /\ time \in Int
    BY <1>0, <1>3, InitialShape
  <2>2. stored \subseteq Rows
    BY <1>0 DEF TypeOK
  <2> HIDE DEF time
  <2>3. ASSUME NEW i \in 1..n
        PROVE  /\ throughputs'[c][i].from = time - i * CalculationInterval
               /\ throughputs'[c][i].to = time - (i - 1) * CalculationInterval
               /\ throughputs'[c][i].from <= throughputs'[c][i].to
               /\ throughputs'[c][i].to <= time
    <3>1. i \in Nat \ {0} /\ throughputs'[c][i] = Window(time, i)
      BY <2>1
    <3>2. /\ Window(time, i).from = time - i * CalculationInterval
          /\ Window(time, i).to = time - (i - 1) * CalculationInterval
          /\ Window(time, i).from <= Window(time, i).to
          /\ Window(time, i).to <= time
      BY <2>1, <2>2, <3>1, WindowType
    <3> QED
      BY <3>1, <3>2
  <2>4. ASSUME NEW i \in 1..n, NEW j \in 1..n, i < j
        PROVE  throughputs'[c][j].to <= throughputs'[c][i].from
    <3>1. i \in Nat /\ j - 1 \in Nat /\ i <= j - 1
      BY <2>1, <2>4
    <3>2. i * CalculationInterval <= (j - 1) * CalculationInterval
      BY <3>1, IntervalsMonotone
    <3>3. i * CalculationInterval \in Nat /\ (j - 1) * CalculationInterval \in Nat
      BY <3>1, Intervals
    <3>4. /\ throughputs'[c][i].from = time - i * CalculationInterval
          /\ throughputs'[c][j].to = time - (j - 1) * CalculationInterval
      BY <2>3
    <3> QED
      BY <2>1, <3>2, <3>3, <3>4
  <2> QED
    BY <2>1, <2>3, <2>4
<1>4. CASE GetThroughput(c)
  <2> DEFINE s == throughputs[c]
             t == throughputs'[c]
  <2>1. /\ t \in Seq(Buckets) /\ s \in Seq(Buckets) /\ lastChecked[c] \in Int /\ end[c] \in Int
        /\ lastChecked[c] <= end[c] /\ lastChecked'[c] = end[c]
        /\ t[1].from = lastChecked[c] /\ t[1].to = end[c]
        /\ \A i \in 2..Len(t) : i - 1 \in DOMAIN s /\ t[i] = s[i - 1]
    BY <1>0, <1>4, ReadShape DEF Behind, GetThroughput, TypeOK
  <2>2. /\ \A i \in DOMAIN s : /\ s[i].from \in Int /\ s[i].to \in Int
                               /\ s[i].from <= s[i].to /\ s[i].to <= lastChecked[c]
        /\ \A i, j \in DOMAIN s : i < j => s[j].to <= s[i].from
    <3>1. \A i \in DOMAIN s : s[i] \in Buckets
      BY <2>1
    <3> QED
      BY <1>0, <3>1 DEF Ordered, Buckets
  <2> HIDE DEF s, t
  <2>3. DOMAIN t = 1..Len(t) /\ Len(t) \in Nat
    BY <2>1
  <2>4. \A i \in DOMAIN t : t[i].from <= t[i].to /\ t[i].to <= end[c]
    <3> TAKE i \in DOMAIN t
    <3>1. CASE i = 1
      BY <2>1, <3>1
    <3>2. CASE i # 1
      <4>1. i \in 2..Len(t)
        BY <2>3, <3>2
      <4>2. i - 1 \in DOMAIN s /\ t[i] = s[i - 1]
        BY <2>1, <4>1
      <4> QED
        BY <2>1, <2>2, <4>2
    <3> QED
      BY <3>1, <3>2
  <2>5. \A i, j \in DOMAIN t : i < j => t[j].to <= t[i].from
    <3> TAKE i, j \in DOMAIN t
    <3> HAVE i < j
    <3>1. j \in 2..Len(t) /\ j - 1 \in DOMAIN s /\ t[j] = s[j - 1]
      <4>1. j \in 2..Len(t)
        BY <2>3
      <4> QED
        BY <2>1, <4>1
    <3>2. CASE i = 1
      BY <2>1, <2>2, <3>1, <3>2
    <3>3. CASE i # 1
      <4>1. i \in 2..Len(t)
        BY <2>3, <3>3
      <4>2. i - 1 \in DOMAIN s /\ t[i] = s[i - 1]
        BY <2>1, <4>1
      <4>3. i - 1 < j - 1
        BY <3>1, <4>1
      <4> QED
        BY <2>2, <3>1, <4>2, <4>3
    <3> QED
      BY <3>2, <3>3
  <2> QED
    BY <2>1, <2>4, <2>5 DEF t
<1> QED
  BY <1>0, <1>1, <1>2, <1>3, <1>4, BucketSteps

\* What a collector knows of time holds always.
THEOREM TimeInvariant == Spec => []TimeInv
<1>1. Init => TimeInv
  <2>1. Init => TypeOK
    BY ThroughputAssumption DEF Init, TypeOK
  <2>2. Init => Prompt
    BY DEF Init, Prompt
  <2>3. Init => Behind
    BY DEF Init, Behind
  <2>4. Init => Ordered
    BY DEF Init, Ordered
  <2> QED
    BY <2>1, <2>2, <2>3, <2>4 DEF TimeInv
<1>2. TypeOK' /\ TimeInv /\ [Next]_vars => TimeInv'
  BY PromptStep, BehindStep, OrderedStep DEF TimeInv
<1> QED
  BY <1>1, <1>2, TypeCorrect, PTL DEF Spec

\* In a settled configuration, a row on its way is later than any window of any
\* collector, and than the one that a collector is about to read.
LEMMA InFlightIsLater ==
  ASSUME TimeInv, Settled, NEW r \in inFlight, NEW c \in Collectors
  PROVE  /\ \A i \in DOMAIN throughputs[c] : throughputs[c][i].to < r.ts
         /\ pc[c] = "reading" => end[c] < r.ts
         /\ pc[c] = "off" \/ Clock(c) - Delay < r.ts
<1> USE ThroughputAssumption
<1>1. /\ now \in Nat /\ r.ts \in Int /\ Skew[r.by] \in Nat /\ Skew[c] \in Nat
      /\ lastChecked[c] \in Int /\ end[c] \in Int /\ MaxLatency \in Nat /\ Delay \in Nat
  BY DEF TimeInv, TypeOK, Rows
<1>2. now - MaxLatency <= r.ts - Skew[r.by]
  BY DEF TimeInv, Prompt
<1>3. Delay > MaxLatency + Skew[c]
  BY DEF Settled
<1>4. now + Skew[c] - Delay < r.ts
  BY <1>1, <1>2, <1>3
<1>5. \A i \in DOMAIN throughputs[c] : throughputs[c][i].to \in Int
  <2>1. throughputs[c] \in Seq(Buckets)
    BY DEF TimeInv, TypeOK
  <2>2. \A i \in DOMAIN throughputs[c] : throughputs[c][i] \in Buckets
    BY <2>1
  <2> QED
    BY <2>2 DEF Buckets
<1> QED
  BY <1>1, <1>4, <1>5 DEF TimeInv, Behind, Ordered, Clock

\* Rows later than a window do not count in it.
LEMMA LaterRowsDoNotCount ==
  ASSUME NEW old \in SUBSET Rows, NEW new \in SUBSET Rows, NEW from \in Int, NEW to \in Int,
         \A r \in (new \ old) \cup (old \ new) : to < r.ts
  PROVE  Counted(new, from, to) = Counted(old, from, to)
<1>1. \A r \in new \cup old : r.ts \in Int
  BY DEF Rows
<1>2. {q \in new : Within(q.ts, from, to)} = {q \in old : Within(q.ts, from, to)}
  BY <1>1 DEF Within
<1> QED
  BY <1>2 DEF Counted

\* What a step adds to the rows, or takes from them, is later than any window.
LEMMA RowChangesAreLater ==
  ASSUME TimeInv, Settled, [Next]_vars, NEW c \in Collectors,
         NEW r \in ((stored' \cup inFlight') \ (stored \cup inFlight))
                     \cup ((stored \cup inFlight) \ (stored' \cup inFlight'))
  PROVE  /\ \A i \in DOMAIN throughputs[c] : throughputs[c][i].to < r.ts
         /\ pc[c] = "reading" => end[c] < r.ts
<1> USE ThroughputAssumption
<1>1. TypeOK
  BY DEF TimeInv
<1>2. CASE r \in inFlight
  BY <1>2, InFlightIsLater
<1>3. CASE r \notin inFlight
  <2>1. stored \subseteq stored'
    BY <1>1, RowSteps
  <2>2. PICK d \in Collectors : SaveThroughput(d) /\ r \in RowsOf(d)
    BY <1>1, <1>3, <2>1, RowSteps
  <2>3. r.ts = Clock(d) /\ now \in Nat /\ Skew[d] \in Nat /\ Skew[c] \in Nat
    BY <1>1, <2>2 DEF RowsOf, TypeOK
  <2>4. Clock(c) - Delay < r.ts
    BY <2>3 DEF Settled, Clock
  <2>5. \A i \in DOMAIN throughputs[c] :
          throughputs[c][i].to \in Int /\ throughputs[c][i].to <= Clock(c) - Delay
    <3>1. throughputs[c] \in Seq(Buckets)
      BY <1>1 DEF TypeOK
    <3>2. \A i \in DOMAIN throughputs[c] : throughputs[c][i].to \in Int
      <4>1. \A i \in DOMAIN throughputs[c] : throughputs[c][i] \in Buckets
        BY <3>1
      <4> QED
        BY <4>1 DEF Buckets
    <3>3. CASE pc[c] = "off"
      BY <3>3 DEF TimeInv, Behind
    <3>4. CASE pc[c] # "off"
      <4>1. /\ lastChecked[c] <= Clock(c) - Delay /\ lastChecked[c] \in Int
            /\ Clock(c) - Delay \in Int
        BY <1>1, <2>3, <3>4 DEF TimeInv, Behind, TypeOK, Clock
      <4> QED
        BY <3>2, <4>1 DEF TimeInv, Ordered
    <3> QED
      BY <3>3, <3>4
  <2>6. pc[c] = "reading" => end[c] <= Clock(c) - Delay /\ end[c] \in Int
    BY <1>1 DEF TimeInv, Behind, TypeOK
  <2>7. Clock(c) - Delay \in Int /\ r.ts \in Int
    BY <2>3 DEF Clock
  <2> QED
    BY <2>4, <2>5, <2>6, <2>7
<1> QED
  BY <1>2, <1>3

\* Every bucket counts what all collectors saved in its window.
THEOREM Exact == Spec => []WindowsExact
<1>1. Init => WindowsExact
  BY DEF Init, WindowsExact
<1>2. TimeInv /\ TypeOK' /\ WindowsExact /\ [Next]_vars => WindowsExact'
  <2> SUFFICES ASSUME TimeInv, TypeOK', WindowsExact, [Next]_vars, Settled,
                      NEW c \in Collectors, NEW i \in DOMAIN throughputs'[c]
               PROVE  throughputs'[c][i].spans =
                        Counted(stored' \cup inFlight',
                                throughputs'[c][i].from, throughputs'[c][i].to)
    BY DEF WindowsExact, Settled, Counted
  <2> DEFINE rows == stored \cup inFlight
             rowsN == stored' \cup inFlight'
  <2>0. TypeOK /\ rows \in SUBSET Rows /\ rowsN \in SUBSET Rows
    BY DEF TimeInv, TypeOK, Rows
  <2>1. \A k \in DOMAIN throughputs[c] :
          /\ throughputs[c][k].from \in Int /\ throughputs[c][k].to \in Int
          /\ throughputs[c][k].spans = Counted(rows, throughputs[c][k].from, throughputs[c][k].to)
    <3>1. throughputs[c] \in Seq(Buckets)
      BY <2>0 DEF TypeOK
    <3>2. \A k \in DOMAIN throughputs[c] : throughputs[c][k] \in Buckets
      BY <3>1
    <3> QED
      BY <3>2 DEF Buckets, WindowsExact
  <2>2. \A k \in DOMAIN throughputs[c] :
          throughputs[c][k].spans = Counted(rowsN, throughputs[c][k].from, throughputs[c][k].to)
    <3> TAKE k \in DOMAIN throughputs[c]
    <3>1. \A r \in (rowsN \ rows) \cup (rows \ rowsN) : throughputs[c][k].to < r.ts
      BY RowChangesAreLater
    <3> HIDE DEF rows, rowsN
    <3>2. Counted(rowsN, throughputs[c][k].from, throughputs[c][k].to)
            = Counted(rows, throughputs[c][k].from, throughputs[c][k].to)
      BY <2>0, <2>1, <3>1, LaterRowsDoNotCount
    <3> QED
      BY <2>1, <3>2
  <2>3. CASE throughputs'[c] = throughputs[c]
    BY <2>2, <2>3
  <2>4. CASE throughputs'[c] = <<>>
    BY <2>4
  <2>5. CASE Start(c)
    <3> DEFINE time == Clock(c) - Delay
    <3>1. PICK n \in 0..AggregationBuckets :
             /\ DOMAIN throughputs'[c] = 1..n
             /\ \A k \in 1..n : k \in Nat \ {0} /\ throughputs'[c][k] = Window(time, k)
             /\ time \in Int
      BY <2>0, <2>5, InitialShape
    <3>2. pc[c] = "off" /\ rowsN = rows
      BY <2>5 DEF Start, store
    <3> DEFINE w == Window(time, i)
    <3>3. /\ w \in Buckets /\ w.to <= time
          /\ w.spans = Counted(stored, w.from, w.to)
      BY <2>0, <3>1, WindowType DEF TypeOK
    <3>4. \A r \in inFlight : time < r.ts
      <4> TAKE r \in inFlight
      <4>1. now \in Nat /\ r.ts \in Int /\ Skew[r.by] \in Nat /\ Skew[c] \in Nat
        BY <2>0, ThroughputAssumption DEF TypeOK, Rows
      <4>2. now - MaxLatency <= r.ts - Skew[r.by] /\ Delay > MaxLatency + Skew[c]
        BY DEF TimeInv, Prompt, Settled
      <4> QED
        BY <4>1, <4>2, ThroughputAssumption DEF Clock
    <3>5. w.from \in Int /\ w.to \in Int
      BY <3>3 DEF Buckets
    <3>6. \A r \in (rows \ stored) \cup (stored \ rows) : w.to < r.ts
      <4>1. \A r \in inFlight : r.ts \in Int
        BY <2>0 DEF TypeOK, Rows
      <4> HIDE DEF time, w
      <4> QED
        BY <3>1, <3>3, <3>4, <3>5, <4>1
    <3>7. stored \in SUBSET Rows
      BY <2>0 DEF TypeOK
    <3> HIDE DEF rows, rowsN, w, time
    <3>8. Counted(rows, w.from, w.to) = Counted(stored, w.from, w.to)
      BY <2>0, <3>5, <3>6, <3>7, LaterRowsDoNotCount
    <3> QED
      BY <3>1, <3>2, <3>3, <3>8 DEF w, rowsN
  <2>6. CASE GetThroughput(c)
    <3> DEFINE t == throughputs'[c]
    <3>1. /\ t \in Seq(Buckets)
          /\ t[1] = Bucket(stored, lastChecked[c], end[c])
          /\ \A k \in 2..Len(t) : k - 1 \in DOMAIN throughputs[c] /\ t[k] = throughputs[c][k - 1]
      BY <2>0, <2>6, ReadShape
    <3>2. CASE i = 1
      <4>1. /\ lastChecked[c] \in Int /\ end[c] \in Int /\ stored \in SUBSET Rows
            /\ pc[c] = "reading" /\ rowsN = rows
        BY <2>0, <2>6 DEF TypeOK, GetThroughput, store
      <4>2. \A r \in (rows \ stored) \cup (stored \ rows) : end[c] < r.ts
        BY <4>1, InFlightIsLater
      <4>3. /\ t[1].from = lastChecked[c] /\ t[1].to = end[c]
            /\ t[1].spans = Counted(stored, lastChecked[c], end[c])
        BY <3>1, <4>1, BucketType
      <4> HIDE DEF rows, rowsN, t
      <4>4. Counted(rows, lastChecked[c], end[c]) = Counted(stored, lastChecked[c], end[c])
        BY <2>0, <4>1, <4>2, LaterRowsDoNotCount
      <4> QED
        BY <3>2, <4>1, <4>3, <4>4 DEF rowsN, t
    <3>3. CASE i # 1
      <4>1. i \in 2..Len(t)
        BY <3>1, <3>3
      <4> QED
        BY <2>2, <3>1, <4>1
    <3> QED
      BY <3>2, <3>3
  <2> QED
    BY <2>0, <2>3, <2>4, <2>5, <2>6, BucketSteps
<1> QED
  BY <1>1, <1>2, TimeInvariant, TypeCorrect, PTL DEF Spec

----------------------------------------------------------------------------
(***************************************************************************)
(* No span is counted twice.  It is in one open interval or one row, and a *)
(* bucket has its spans from rows of the store that lie in its window.     *)
(***************************************************************************)

\* A span is in one open interval or in one row, at most.
OneOwner ==
    /\ \A c \in Collectors : current[c] \subseteq seen
    /\ \A c, d \in Collectors : c # d => current[c] \cap current[d] = {}
    /\ \A r \in stored \cup inFlight :
         /\ r.spans \subseteq seen
         /\ \A c \in Collectors : r.spans \cap current[c] = {}
         /\ \A q \in stored \cup inFlight : q # r => q.spans \cap r.spans = {}

\* What a window counts is in the store.
FromStore ==
    \A c \in Collectors : \A i \in DOMAIN throughputs[c] :
      throughputs[c][i].spans \subseteq
        Counted(stored, throughputs[c][i].from, throughputs[c][i].to)

\* A span moves from an interval to one row.
LEMMA OneOwnerStep ==
  ASSUME TypeOK, OneOwner, [Next]_vars
  PROVE  OneOwner'
<1>1. ASSUME NEW c \in Collectors, NEW s \in Spans, RecordThroughput(c, s)
      PROVE  OneOwner'
  <2>1. /\ s \notin seen /\ seen' = seen \cup {s}
        /\ stored' = stored /\ inFlight' = inFlight
        /\ current'[c] = current[c] \cup {s}
        /\ \A d \in Collectors : d # c => current'[d] = current[d]
    BY <1>1 DEF RecordThroughput, store, TypeOK
  <2> QED
    BY <2>1 DEF OneOwner
<1>2. ASSUME NEW c \in Collectors, SaveThroughput(c) PROVE OneOwner'
  <2>1. /\ seen' = seen /\ stored' = stored /\ inFlight' = inFlight \cup RowsOf(c)
        /\ current'[c] = {}
        /\ \A d \in Collectors : d # c => current'[d] = current[d]
    BY <1>2 DEF SaveThroughput, TypeOK
  <2>2. \A r \in RowsOf(c) : r.spans = current[c] /\ \A q \in RowsOf(c) : q = r
    BY DEF RowsOf
  <2>3. \A r \in stored' \cup inFlight' : r \in stored \cup inFlight \/ r \in RowsOf(c)
    BY <2>1
  <2>4. ASSUME NEW r \in stored' \cup inFlight'
        PROVE  r.spans \subseteq seen /\ \A d \in Collectors : r.spans \cap current'[d] = {}
    BY <2>1, <2>2, <2>3 DEF OneOwner
  <2>5. ASSUME NEW r \in stored' \cup inFlight', NEW q \in stored' \cup inFlight', q # r
        PROVE  q.spans \cap r.spans = {}
    BY <2>2, <2>3, <2>5 DEF OneOwner
  <2> QED
    BY <2>1, <2>4, <2>5 DEF OneOwner
<1>3. ASSUME NEW c \in Collectors, Stop(c) PROVE OneOwner'
  <2>1. /\ seen' = seen /\ stored' = stored /\ inFlight' = inFlight
        /\ \A d \in Collectors : current'[d] \subseteq current[d]
    BY <1>3 DEF Stop, store, TypeOK
  <2> QED
    BY <2>1 DEF OneOwner
<1>4. ASSUME stored' \cup inFlight' \subseteq stored \cup inFlight,
             current' = current, seen' = seen
      PROVE  OneOwner'
  BY <1>4 DEF OneOwner
<1> QED
  BY <1>1, <1>2, <1>3, <1>4
     DEF Next, vars, store, Start, RunCalculation, GetThroughput, GetThroughputFails,
         Land, Lose, Tick

\* A window counts rows of the store, which never loses one.
LEMMA FromStoreStep ==
  ASSUME TypeOK, FromStore, [Next]_vars
  PROVE  FromStore'
<1>1. stored \subseteq stored' /\ stored \subseteq Rows
  BY RowSteps DEF TypeOK
<1>2. \A from, to : Counted(stored, from, to) \subseteq Counted(stored', from, to)
  BY <1>1 DEF Counted
<1> SUFFICES ASSUME NEW c \in Collectors, NEW i \in DOMAIN throughputs'[c]
             PROVE  throughputs'[c][i].spans \subseteq
                      Counted(stored', throughputs'[c][i].from, throughputs'[c][i].to)
  BY DEF FromStore, Counted
<1>3. CASE throughputs'[c] = throughputs[c]
  BY <1>2, <1>3 DEF FromStore
<1>4. CASE throughputs'[c] = <<>>
  BY <1>4
<1>5. CASE Start(c)
  <2>1. PICK n \in 0..AggregationBuckets :
           /\ DOMAIN throughputs'[c] = 1..n
           /\ \A k \in 1..n : /\ k \in Nat \ {0}
                              /\ throughputs'[c][k] = Window(Clock(c) - Delay, k)
           /\ Clock(c) - Delay \in Int
    BY <1>5, InitialShape
  <2>2. i \in Nat \ {0} /\ throughputs'[c][i] = Window(Clock(c) - Delay, i)
    BY <2>1
  <2> DEFINE w == Window(Clock(c) - Delay, i)
  <2>3. w.spans = Counted(stored, w.from, w.to)
    BY <1>1, <2>1, <2>2, WindowType
  <2> HIDE DEF w
  <2> QED
    BY <1>2, <2>2, <2>3 DEF w
<1>6. CASE GetThroughput(c)
  <2> DEFINE t == throughputs'[c]
             b == Bucket(stored, lastChecked[c], end[c])
  <2>1. /\ t \in Seq(Buckets) /\ t[1] = b
        /\ \A k \in 2..Len(t) : k - 1 \in DOMAIN throughputs[c] /\ t[k] = throughputs[c][k - 1]
    BY <1>6, ReadShape
  <2>2. /\ lastChecked[c] \in Int /\ end[c] \in Int /\ stored \in SUBSET Rows
    BY DEF TypeOK
  <2>3. b.spans = Counted(stored, b.from, b.to)
    BY <2>2, BucketType
  <2> HIDE DEF t, b
  <2>4. CASE i = 1
    BY <1>2, <2>1, <2>3, <2>4 DEF t
  <2>5. CASE i # 1
    <3>1. i \in 2..Len(t)
      BY <2>1, <2>5 DEF t
    <3> QED
      BY <1>2, <2>1, <3>1 DEF FromStore, t
  <2> QED
    BY <2>4, <2>5
<1> QED
  BY <1>3, <1>4, <1>5, <1>6, BucketSteps

\* A span is counted in one bucket of a collector, and in no open interval.
THEOREM Once == Spec => []CountedOnce
<1>1. Init => OneOwner /\ FromStore
  BY DEF Init, OneOwner, FromStore
<1>2. TypeOK /\ OneOwner /\ FromStore /\ [Next]_vars => (OneOwner /\ FromStore)'
  BY OneOwnerStep, FromStoreStep
<1>3. TimeInv /\ OneOwner /\ FromStore => CountedOnce
  <2> SUFFICES ASSUME TimeInv, OneOwner, FromStore, NEW c \in Collectors,
                      NEW i \in DOMAIN throughputs[c]
               PROVE  /\ \A j \in DOMAIN throughputs[c] :
                           i # j => throughputs[c][i].spans \cap throughputs[c][j].spans = {}
                      /\ \A d \in Collectors : throughputs[c][i].spans \cap current[d] = {}
    BY DEF CountedOnce
  <2>1. \A k \in DOMAIN throughputs[c] : \A s \in throughputs[c][k].spans :
          \E r \in stored : /\ s \in r.spans /\ throughputs[c][k].from < r.ts
                            /\ r.ts <= throughputs[c][k].to
    BY DEF FromStore, Counted, Within
  <2>2. \A d \in Collectors : throughputs[c][i].spans \cap current[d] = {}
    BY <2>1 DEF OneOwner
  <2>3. ASSUME NEW j \in DOMAIN throughputs[c], i # j,
               NEW s \in throughputs[c][i].spans \cap throughputs[c][j].spans
        PROVE  FALSE
    <3>1. PICK r \in stored : /\ s \in r.spans /\ throughputs[c][i].from < r.ts
                              /\ r.ts <= throughputs[c][i].to
      BY <2>1, <2>3
    <3>2. PICK q \in stored : /\ s \in q.spans /\ throughputs[c][j].from < q.ts
                              /\ q.ts <= throughputs[c][j].to
      BY <2>1, <2>3
    <3>3. q = r
      BY <3>1, <3>2 DEF OneOwner
    <3>4. /\ throughputs[c][i].from \in Int /\ throughputs[c][i].to \in Int
          /\ throughputs[c][j].from \in Int /\ throughputs[c][j].to \in Int
          /\ r.ts \in Int /\ i \in Int /\ j \in Int
      <4>1. throughputs[c] \in Seq(Buckets) /\ r \in Rows
        BY DEF TimeInv, TypeOK
      <4>2. throughputs[c][i] \in Buckets /\ throughputs[c][j] \in Buckets
        BY <4>1
      <4> QED
        BY <4>1, <4>2 DEF Buckets, Rows
    <3>5. \/ throughputs[c][j].to <= throughputs[c][i].from
          \/ throughputs[c][i].to <= throughputs[c][j].from
      BY <2>3, <3>4 DEF TimeInv, Ordered
    <3> QED
      BY <3>1, <3>2, <3>3, <3>4, <3>5
  <2> QED
    BY <2>2, <2>3
<1> QED
  BY <1>1, <1>2, <1>3, TypeCorrect, TimeInvariant, PTL DEF Spec

=============================================================================
