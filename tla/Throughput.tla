----------------------------- MODULE Throughput -----------------------------
(***************************************************************************)
(* The throughput that adaptive sampling calculates from, in several       *)
(* collectors over one sampling store.  Each collector's aggregator counts *)
(* root spans and, at every tick of its ticker, saves the counts of the    *)
(* interval as a row; its post-aggregator then reads the rows of all       *)
(* collectors, a window at a time and Delay behind the clock.  A row takes *)
(* up to MaxLatency to appear in the store, and the clocks differ.  What   *)
(* leaders and providers do is module SamplingProvider.                    *)
(***************************************************************************)
EXTENDS Integers, Sequences, FiniteSetsExt

CONSTANTS
    Collectors,            \* the processes, each with its host's clock
    Spans,                 \* the root spans that arrive, each at one collector
    CalculationInterval,   \* the period of the ticker
    Delay,                 \* how far behind its clock a collector reads
    AggregationBuckets,    \* the buckets that a collector keeps
    MaxLatency,            \* the ticks that a row takes to land, at most
    Skew,                  \* how far each collector's clock is ahead of time
    MaxTime,               \* bound: the last tick
    MaxFaults              \* bound: failed storage calls, and exits

\* newPostAggregator refuses an interval or a number of buckets of zero.
ASSUME ThroughputAssumption ==
    /\ CalculationInterval \in Nat \ {0} /\ AggregationBuckets \in Nat \ {0}
    /\ Delay \in Nat /\ MaxLatency \in Nat /\ Skew \in [Collectors -> Nat]
    /\ MaxTime \in Nat /\ MaxFaults \in Nat

VARIABLES
    now,          \* the time
    pc,           \* what the aggregation loop does
    next,         \* when its ticker fires next, or has fired
    current,      \* a.currentThroughput: the spans of the interval
    lastChecked,  \* p.lastCheckedTime
    end,          \* endTime of runCalculation, while it reads
    throughputs,  \* p.throughputs, latest first: windows and their spans
    inFlight,     \* the rows on their way to the store
    stored,       \* the rows in it
    faults,       \* the faults so far
    seen          \* history: the spans that have arrived

store == <<inFlight, stored>>
postAggregator == <<lastChecked, end, throughputs>>
vars == <<now, pc, next, current, postAggregator, store, faults, seen>>

Clock(c) == now + Skew[c]

\* A fault of some kind, out of those that are left.
Fault == faults < MaxFaults /\ faults' = faults + 1

----------------------------------------------------------------------------
(* The store. *)

\* ts > start and ts <= end
Within(t, from, to) == from < t /\ t <= to

\* What GetThroughput and aggregateThroughput make of the rows in a window.
Counted(rows, from, to) == UNION {r.spans : r \in {q \in rows : Within(q.ts, from, to)}}

Bucket(rows, from, to) == [from |-> from, to |-> to, spans |-> Counted(rows, from, to)]

\* A row appears in the store, or is lost: saveThroughput ignores the error of
\* InsertThroughput.
Land(r) ==
    /\ inFlight' = inFlight \ {r} /\ stored' = stored \cup {r}
    /\ UNCHANGED <<now, pc, next, current, postAggregator, faults, seen>>

Lose(r) ==
    /\ Fault
    /\ inFlight' = inFlight \ {r}
    /\ UNCHANGED <<now, pc, next, current, postAggregator, stored, seen>>

----------------------------------------------------------------------------
(* The collectors. *)

Init ==
    /\ now = 1
    /\ pc = [c \in Collectors |-> "off"]
    /\ next = [c \in Collectors |-> 0]
    /\ current = [c \in Collectors |-> {}]
    /\ lastChecked = [c \in Collectors |-> 0] /\ end = [c \in Collectors |-> 0]
    /\ throughputs = [c \in Collectors |-> <<>>]
    /\ inFlight = {} /\ stored = {}
    /\ faults = 0 /\ seen = {}

\* The i-th window of initializeThroughput, counted back from a time.
Window(time, i) ==
    Bucket(stored, time - i * CalculationInterval, time - (i - 1) * CalculationInterval)

Initial(time, n) == [i \in 1..n |-> Window(time, i)]

\* The process starts, and initializeThroughput reads the windows before the one
\* that the loop will read first, until one is empty or cannot be read.
Start(c) ==
    /\ pc[c] = "off"
    /\ LET time == Clock(c) - Delay
       IN  /\ lastChecked' = [lastChecked EXCEPT ![c] = time]
           /\ \E n \in 0..AggregationBuckets :
                /\ \A i \in 1..n : Window(time, i).spans # {}
                /\ IF n = AggregationBuckets \/ Window(time, n + 1).spans = {}
                   THEN UNCHANGED faults
                   ELSE Fault
                /\ throughputs' = [throughputs EXCEPT ![c] = Initial(time, n)]
    /\ pc' = [pc EXCEPT ![c] = "idle"]
    /\ next' = [next EXCEPT ![c] = now + CalculationInterval]
    /\ UNCHANGED <<now, current, end, store, seen>>

\* A root span arrives, and would wait while the loop holds the lock.
RecordThroughput(c, s) ==
    /\ pc[c] = "idle" /\ s \notin seen
    /\ current' = [current EXCEPT ![c] = @ \cup {s}]
    /\ seen' = seen \cup {s}
    /\ UNCHANGED <<now, pc, next, postAggregator, store, faults>>

\* The row of an interval.  One without spans would count nothing.
RowsOf(c) ==
    IF current[c] = {} THEN {} ELSE {[ts |-> Clock(c), by |-> c, spans |-> current[c]]}

\* The next tick: those that fire while the loop is busy leave one behind.
Rearmed(c) == next[c] + CalculationInterval * ((now - next[c]) \div CalculationInterval + 1)

\* Seeded fault: the counts go on into the next interval.
SaveThroughputKept(c) ==
    /\ pc[c] = "idle" /\ next[c] <= now
    /\ next' = [next EXCEPT ![c] = Rearmed(c)]
    /\ inFlight' = inFlight \cup RowsOf(c)
    /\ pc' = [pc EXCEPT ![c] = "inserting"]
    /\ UNCHANGED <<now, current, postAggregator, stored, faults, seen>>

\* The ticker has fired: the loop takes the lock, the counts of the interval
\* leave for the store, and the next interval starts from none.
SaveThroughput(c) ==
    /\ pc[c] = "idle" /\ next[c] <= now
    /\ next' = [next EXCEPT ![c] = Rearmed(c)]
    /\ inFlight' = inFlight \cup RowsOf(c)
    /\ current' = [current EXCEPT ![c] = {}]
    /\ pc' = [pc EXCEPT ![c] = "inserting"]
    /\ UNCHANGED <<now, postAggregator, stored, faults, seen>>

\* Seeded fault: the calculation takes in what has only just been saved.
RunCalculationUndelayed(c) ==
    /\ pc[c] = "inserting"
    /\ end' = [end EXCEPT ![c] = Clock(c)]
    /\ pc' = [pc EXCEPT ![c] = "reading"]
    /\ UNCHANGED <<now, next, current, lastChecked, throughputs, store, faults, seen>>

\* InsertThroughput returns, whatever became of the row.
RunCalculation(c) ==
    /\ pc[c] = "inserting"
    /\ end' = [end EXCEPT ![c] = Clock(c) - Delay]
    /\ pc' = [pc EXCEPT ![c] = "reading"]
    /\ UNCHANGED <<now, next, current, lastChecked, throughputs, store, faults, seen>>

\* Seeded fault: the oldest bucket is not dropped.
PrependKept(buckets, b) == <<b>> \o buckets

\* prependThroughputBucket
Prepend(buckets, b) ==
    [i \in 1..Min({Len(buckets) + 1, AggregationBuckets}) |->
       IF i = 1 THEN b ELSE buckets[i - 1]]

\* GetThroughput returns the rows since the last one that succeeded.  (A leader
\* goes on to calculate and to save under the same lock: a longer wait for spans
\* and ticks, which are not bound to come any sooner.)
GetThroughput(c) ==
    /\ pc[c] = "reading"
    /\ throughputs' = [throughputs EXCEPT
                         ![c] = Prepend(@, Bucket(stored, lastChecked[c], end[c]))]
    /\ lastChecked' = [lastChecked EXCEPT ![c] = end[c]]
    /\ end' = [end EXCEPT ![c] = 0]
    /\ pc' = [pc EXCEPT ![c] = "idle"]
    /\ UNCHANGED <<now, next, current, store, faults, seen>>

\* Seeded fault: the interval that could not be read is given up.
GetThroughputSkips(c) ==
    /\ pc[c] = "reading"
    /\ Fault
    /\ lastChecked' = [lastChecked EXCEPT ![c] = end[c]]
    /\ end' = [end EXCEPT ![c] = 0]
    /\ pc' = [pc EXCEPT ![c] = "idle"]
    /\ UNCHANGED <<now, next, current, throughputs, store, seen>>

\* It fails, and the next one covers this interval too.
GetThroughputFails(c) ==
    /\ pc[c] = "reading"
    /\ Fault
    /\ end' = [end EXCEPT ![c] = 0]
    /\ pc' = [pc EXCEPT ![c] = "idle"]
    /\ UNCHANGED <<now, next, current, lastChecked, throughputs, store, seen>>

\* The process exits.  Close stops the loop without a last save, so that what
\* the interval has counted is gone, as it is after a crash.
Stop(c) ==
    /\ pc[c] # "off"
    /\ Fault
    /\ pc' = [pc EXCEPT ![c] = "off"]
    /\ next' = [next EXCEPT ![c] = 0]
    /\ current' = [current EXCEPT ![c] = {}]
    /\ lastChecked' = [lastChecked EXCEPT ![c] = 0]
    /\ end' = [end EXCEPT ![c] = 0]
    /\ throughputs' = [throughputs EXCEPT ![c] = <<>>]
    /\ UNCHANGED <<now, store, seen>>

\* Time passes, but not for a row that has been under way for MaxLatency.
Tick ==
    /\ now < MaxTime
    /\ \A r \in inFlight : now - (r.ts - Skew[r.by]) < MaxLatency
    /\ now' = now + 1
    /\ UNCHANGED <<pc, next, current, postAggregator, store, faults, seen>>

Next ==
    \/ \E c \in Collectors :
         \/ Start(c) \/ SaveThroughput(c) \/ RunCalculation(c)
         \/ GetThroughput(c) \/ GetThroughputFails(c) \/ Stop(c)
         \/ \E s \in Spans : RecordThroughput(c, s)
    \/ \E r \in inFlight : Land(r) \/ Lose(r)
    \/ Tick

Spec == Init /\ [][Next]_vars

----------------------------------------------------------------------------
(* Properties. *)

Rows == [ts : Int, by : Collectors, spans : SUBSET Spans]
Buckets == [from : Int, to : Int, spans : SUBSET Spans]

TypeOK ==
    /\ now \in Nat
    /\ pc \in [Collectors -> {"off", "idle", "inserting", "reading"}]
    /\ next \in [Collectors -> Int]
    /\ current \in [Collectors -> SUBSET Spans]
    /\ lastChecked \in [Collectors -> Int] /\ end \in [Collectors -> Int]
    /\ throughputs \in [Collectors -> Seq(Buckets)]
    /\ \A c \in Collectors : Len(throughputs[c]) <= AggregationBuckets
    /\ inFlight \subseteq Rows /\ stored \subseteq Rows
    /\ faults \in 0..MaxFaults /\ seen \subseteq Spans

\* The delay covers the latency of a row and the difference of two clocks.
Settled == \A c \in Collectors : Delay > MaxLatency + Skew[c]

\* Every bucket of every collector counts what all collectors together saved in
\* its window, no more and no less, and no row still on its way belongs there.
\* So "each of them is ready to assume the role of the leader", as the package's
\* README says: no two disagree on the past, whatever reads have failed and
\* whenever a process was started.
WindowsExact ==
    Settled =>
      \A c \in Collectors : \A i \in DOMAIN throughputs[c] :
        LET b == throughputs[c][i]
        IN  b.spans = Counted(stored \cup inFlight, b.from, b.to)

\* The windows leave no gap and do not overlap, over failed reads, ticks that
\* were dropped, and the windows that were filled in at the start.
WindowsContiguous ==
    \A c \in Collectors :
      /\ throughputs[c] # <<>> => throughputs[c][1].to = lastChecked[c]
      /\ \A i \in 1..Len(throughputs[c]) - 1 :
           throughputs[c][i].from = throughputs[c][i + 1].to

\* A span that a collector counts is counted in one of its buckets, and no open
\* interval will count it again: the throughput is never inflated.
CountedOnce ==
    \A c \in Collectors : \A i \in DOMAIN throughputs[c] :
      /\ \A j \in DOMAIN throughputs[c] :
           i # j => throughputs[c][i].spans \cap throughputs[c][j].spans = {}
      /\ \A d \in Collectors : throughputs[c][i].spans \cap current[d] = {}
=============================================================================
