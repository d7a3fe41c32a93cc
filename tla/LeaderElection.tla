--------------------------- MODULE LeaderElection ---------------------------
(***************************************************************************)
(* leaderelection.DistributedElectionParticipant over the Cassandra lock:  *)
(* collectors compete for one lease, the leader renews it, a participant   *)
(* that is closed forfeits it, and one that dies leaves it to expire.      *)
(* Time passes in Tick, for the lease, the tickers and the calls alike.  A *)
(* lightweight transaction is evaluated in one step, Serve, between the    *)
(* request and the answer; an error can replace either.                    *)
(***************************************************************************)
EXTENDS Integers

CONSTANTS
    Participants,                  \* the processes, each with an owner id of its own
    None,                          \* no owner
    Second,                        \* the ticks in a second
    LeaderLeaseRefreshInterval,    \* in ticks
    FollowerLeaseRefreshInterval,  \* in ticks, and the ttl of the lease
    MaxLatency,                    \* the ticks that one Acquire takes at most
    MaxFaults                      \* bound: errors of the lock, and crashes

ASSUME ElectionAssumption ==
    /\ None \notin Participants
    /\ Second \in Nat \ {0}
    \* time.NewTicker takes no other interval
    /\ LeaderLeaseRefreshInterval \in Nat \ {0}
    /\ FollowerLeaseRefreshInterval \in Nat \ {0}
    /\ MaxLatency \in Nat
    /\ MaxFaults \in Nat

VARIABLES
    lease,     \* the row of the lock: its owner, and the ticks it has left
    pc,        \* where each participant stands
    reply,     \* the answer to its statement, "none" until it is evaluated
    isLeader,  \* p.isLeader
    closing,   \* p.closeChan is closed
    sleep,     \* the ticks until its ticker fires
    age,       \* the ticks since its Acquire began
    faults,    \* the faults so far
    \* History, read by the properties alone:
    since,     \* for a leader, the ticks since Acquire last returned true
    failed     \* its last call returned an error

vars == <<lease, pc, reply, isLeader, closing, sleep, age, faults, since, failed>>

----------------------------------------------------------------------------
(* The lock. *)

Forever == -1
NoLease == [owner |-> None, left |-> 0]

\* Seeded fault: the lease is asked for until the next renewal, and no longer.
leaseTTLShort == Second * (LeaderLeaseRefreshInterval \div Second)

\* Seeded fault: the statements leave out USING TTL.
leaseTTLNone == Forever

\* int(ttl.Seconds()) whole seconds, and TTL 0 is how CQL spells no expiry.
leaseTTL ==
    LET ttlSec == FollowerLeaseRefreshInterval \div Second
    IN  IF ttlSec = 0 THEN Forever ELSE Second * ttlSec

\* Seeded fault: the ttl is not cut to whole seconds.
GrantedUncut(p) == [owner |-> p, left |-> FollowerLeaseRefreshInterval]

\* The row that a participant's statement writes.
Granted(p) == [owner |-> p, left |-> leaseTTL]

\* The lease a tick later.
aged(l) ==
    IF l.left > 1 THEN [l EXCEPT !.left = @ - 1]
    ELSE IF l.left = 1 THEN NoLease
    ELSE l

\* The answer to p's statement: whether it applied and, where it did not, who
\* owns the row.
Answer(p) ==
    CASE pc[p] = "insert" -> IF lease.owner = None THEN "applied"
                             ELSE IF lease.owner = p THEN "mine"
                             ELSE "refused"
      [] OTHER            -> IF lease.owner = p THEN "applied" ELSE "refused"

\* Seeded fault: a lease that is found to be one's own is not extended.
confirmsUnextended(p) == reply[p] = "applied" \/ (pc[p] = "insert" /\ reply[p] = "mine")

\* Acquire returns true: the statement, an INSERT or an UPDATE, was applied.
confirms(p) == reply[p] = "applied"

----------------------------------------------------------------------------
(* The participants. *)

Acquiring(p) == pc[p] \in {"insert", "update"}

\* acquireLock's result, the time to the next attempt.
interval(leads) ==
    IF leads THEN LeaderLeaseRefreshInterval ELSE FollowerLeaseRefreshInterval

\* since counts no further than the longest lease.
Horizon == IF leaseTTL = Forever THEN 0 ELSE leaseTTL

Init ==
    /\ lease = NoLease
    /\ pc = [p \in Participants |-> "new"]
    /\ reply = [p \in Participants |-> "none"]
    /\ isLeader = [p \in Participants |-> FALSE]
    /\ closing = [p \in Participants |-> FALSE]
    /\ sleep = [p \in Participants |-> 0] /\ age = [p \in Participants |-> 0]
    /\ faults = 0
    /\ since = [p \in Participants |-> Horizon]
    /\ failed = [p \in Participants |-> FALSE]

\* The loop calls Acquire: when it starts, and whenever its ticker fires.
Attempt(p) ==
    /\ pc[p] = "new" \/ (pc[p] = "sleeping" /\ sleep[p] = 0)
    /\ pc' = [pc EXCEPT ![p] = "insert"]
    /\ UNCHANGED <<lease, reply, isLeader, closing, sleep, age, faults, since, failed>>

\* Cassandra evaluates p's statement.
Serve(p) ==
    /\ Acquiring(p) \/ pc[p] = "delete"
    /\ reply[p] = "none"
    /\ reply' = [reply EXCEPT ![p] = Answer(p)]
    /\ lease' = IF Answer(p) # "applied" THEN lease
                ELSE IF pc[p] = "delete" THEN NoLease
                ELSE Granted(p)
    /\ UNCHANGED <<pc, isLeader, closing, sleep, age, faults, since, failed>>

\* INSERT found the lease to be p's own: extendLease.
ExtendLease(p) ==
    /\ pc[p] = "insert" /\ reply[p] = "mine"
    /\ pc' = [pc EXCEPT ![p] = "update"]
    /\ reply' = [reply EXCEPT ![p] = "none"]
    /\ UNCHANGED <<lease, isLeader, closing, sleep, age, faults, since, failed>>

\* Acquire returns without an error, and says who leads.
Acquired(p) ==
    /\ Acquiring(p)
    /\ confirms(p) \/ (pc[p] = "insert" /\ reply[p] = "refused")
    /\ isLeader' = [isLeader EXCEPT ![p] = confirms(p)]
    /\ sleep' = [sleep EXCEPT ![p] = interval(confirms(p))]
    /\ pc' = [pc EXCEPT ![p] = "sleeping"]
    /\ reply' = [reply EXCEPT ![p] = "none"]
    /\ age' = [age EXCEPT ![p] = 0]
    /\ since' = [since EXCEPT ![p] = IF confirms(p) THEN 0 ELSE Horizon]
    /\ failed' = [failed EXCEPT ![p] = FALSE]
    /\ UNCHANGED <<lease, closing, faults>>

\* Acquire returns an error, and isLeader stays what it was: the request or its
\* answer is lost, or the lease has expired between INSERT and UPDATE.
AcquireFails(p) ==
    /\ Acquiring(p)
    /\ \/ faults < MaxFaults /\ faults' = faults + 1
       \/ pc[p] = "update" /\ reply[p] = "refused" /\ UNCHANGED faults
    /\ sleep' = [sleep EXCEPT ![p] = interval(isLeader[p])]
    /\ pc' = [pc EXCEPT ![p] = "sleeping"]
    /\ reply' = [reply EXCEPT ![p] = "none"]
    /\ age' = [age EXCEPT ![p] = 0]
    /\ failed' = [failed EXCEPT ![p] = TRUE]
    /\ UNCHANGED <<lease, isLeader, closing, since>>

\* Close closes closeChan, and waits for the loop to return.
Close(p) ==
    /\ pc[p] \notin {"new", "closed", "crashed"} /\ ~closing[p]
    /\ closing' = [closing EXCEPT ![p] = TRUE]
    /\ UNCHANGED <<lease, pc, reply, isLeader, sleep, age, faults, since, failed>>

\* Seeded fault: Close does not wait for the loop, and so for Acquire.
loopEndsEarly(p) == closing[p] /\ (pc[p] = "sleeping" \/ Acquiring(p))

\* The loop looks at closeChan only between two attempts.
loopEnds(p) == closing[p] /\ pc[p] = "sleeping"

\* The rest of Close: what was the leader forfeits the lease.
Resign(p) ==
    /\ loopEnds(p)
    /\ isLeader' = [isLeader EXCEPT ![p] = FALSE]
    /\ pc' = [pc EXCEPT ![p] = IF isLeader[p] THEN "delete" ELSE "closed"]
    /\ reply' = [reply EXCEPT ![p] = "none"]
    /\ sleep' = [sleep EXCEPT ![p] = 0]
    /\ age' = [age EXCEPT ![p] = 0]
    /\ since' = [since EXCEPT ![p] = Horizon]
    /\ UNCHANGED <<lease, closing, faults, failed>>

\* Forfeit returns; whether it succeeded, or the row was not p's any more, is
\* only logged.
Forfeited(p) ==
    /\ pc[p] = "delete" /\ reply[p] # "none"
    /\ pc' = [pc EXCEPT ![p] = "closed"]
    /\ UNCHANGED <<lease, reply, isLeader, closing, sleep, age, faults, since, failed>>

\* Forfeit returns an error, before or after the row is deleted.
ForfeitFails(p) ==
    /\ pc[p] = "delete"
    /\ faults < MaxFaults /\ faults' = faults + 1
    /\ pc' = [pc EXCEPT ![p] = "closed"]
    /\ failed' = [failed EXCEPT ![p] = TRUE]
    /\ UNCHANGED <<lease, reply, isLeader, closing, sleep, age, since>>

\* The process dies.
Crash(p) ==
    /\ pc[p] \notin {"new", "closed", "crashed"}
    /\ faults < MaxFaults /\ faults' = faults + 1
    /\ pc' = [pc EXCEPT ![p] = "crashed"]
    /\ isLeader' = [isLeader EXCEPT ![p] = FALSE]
    /\ reply' = [reply EXCEPT ![p] = "none"]
    /\ sleep' = [sleep EXCEPT ![p] = 0]
    /\ age' = [age EXCEPT ![p] = 0]
    /\ since' = [since EXCEPT ![p] = Horizon]
    /\ UNCHANGED <<lease, closing, failed>>

\* A tick passes.  No Acquire lasts longer than MaxLatency, and a ticker that
\* has fired is served at once: the delay of the goroutine counts as latency.
Tick ==
    /\ \A p \in Participants :
         /\ Acquiring(p) => age[p] < MaxLatency
         /\ pc[p] = "sleeping" => sleep[p] > 0
    /\ lease' = aged(lease)
    /\ age' = [p \in Participants |-> IF Acquiring(p) THEN age[p] + 1 ELSE age[p]]
    /\ sleep' = [p \in Participants |->
                   IF pc[p] = "sleeping" THEN sleep[p] - 1 ELSE sleep[p]]
    /\ since' = [p \in Participants |->
                   IF since[p] < Horizon THEN since[p] + 1 ELSE since[p]]
    /\ UNCHANGED <<pc, reply, isLeader, closing, faults, failed>>

Step(p) ==
    \/ Attempt(p) \/ Serve(p) \/ ExtendLease(p) \/ Acquired(p)
    \/ Resign(p) \/ Forfeited(p)

Next ==
    \/ \E p \in Participants :
         Step(p) \/ AcquireFails(p) \/ Close(p) \/ ForfeitFails(p) \/ Crash(p)
    \/ Tick

Spec == Init /\ [][Next]_vars

\* Clocks go on, goroutines are scheduled and statements are answered.  The
\* bound on the faults ends the outages.
FairSpec ==
    /\ Spec
    /\ WF_vars(Tick)
    /\ \A p \in Participants :
         WF_vars(pc[p] # "new" /\ (Step(p) \/ AcquireFails(p)))

----------------------------------------------------------------------------
(* Properties. *)

TypeOK ==
    /\ lease \in [owner : Participants \cup {None}, left : 0..Horizon \cup {Forever}]
    /\ (lease.owner = None) = (lease.left = 0)
    /\ pc \in [Participants -> {"new", "sleeping", "insert", "update", "delete",
                                "closed", "crashed"}]
    /\ reply \in [Participants -> {"none", "applied", "mine", "refused"}]
    /\ isLeader \in [Participants -> BOOLEAN]
    /\ closing \in [Participants -> BOOLEAN]
    /\ sleep \in [Participants -> Nat]
    /\ age \in [Participants -> 0..MaxLatency]
    /\ faults \in 0..MaxFaults
    /\ since \in [Participants -> 0..Horizon]
    /\ failed \in [Participants -> BOOLEAN]

\* A participant that keeps isLeader through errors is right to, for as long as
\* the lease of its last success outlives the answer: no one else holds the
\* lock.  An Acquire that believes the lease before it has extended it, or a
\* renewal that the lock has not confirmed, breaks this.
LeaseBacksLeader ==
    \A p \in Participants :
      isLeader[p] /\ since[p] < leaseTTL - MaxLatency => lease.owner = p

\* The renewal comes in time: a leader's interval and two calls, one slow to
\* answer and the next slow to be evaluated, are shorter than the lease.
Timely ==
    Second * (FollowerLeaseRefreshInterval \div Second)
      > LeaderLeaseRefreshInterval + 2 * MaxLatency

\* Two participants lead at once only if the last attempt of one has failed:
\* expiry, renewal, resignation and take-over alone never overlap.
UniqueLeader ==
    Timely =>
      \A p, q \in Participants :
        isLeader[p] /\ isLeader[q] /\ ~failed[p] /\ ~failed[q] => p = q

\* Closing leaves no lease behind, whatever attempt it interrupts, so that the
\* followers need not wait for it to expire; unless a call has failed.
CleanCloseReleases ==
    \A p \in Participants : pc[p] = "closed" /\ ~failed[p] => lease.owner # p

\* The participants that compete.
Running == {p \in Participants : pc[p] \notin {"new", "closed", "crashed"} /\ ~closing[p]}

\* Someone takes over: while participants compete, one of them comes to lead
\* and to hold the lease, whatever crashes, errors and resignations came before.
LeaderEmerges ==
    Running # {} ~>
      (Running = {} \/ \E p \in Participants : isLeader[p] /\ lease.owner = p)

\* The README of adaptive sampling says that "only one of those should be
\* combining the output of all aggregators", by leader election.
OneLeader == \A p, q \in Participants : isLeader[p] /\ isLeader[q] => p = q
=============================================================================
