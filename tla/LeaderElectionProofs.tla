------------------------ MODULE LeaderElectionProofs ------------------------
(***************************************************************************)
(* Proofs about LeaderElection, for any participants, intervals, latencies *)
(* and number of faults.                                                   *)
(***************************************************************************)
EXTENDS LeaderElection, TLAPS

USE ElectionAssumption

(***************************************************************************)
(* The inductive invariant.  A positive answer on its way vouches for the  *)
(* lease, until the lease may have expired ...                             *)
(***************************************************************************)
AnswersAreBacked ==
    \A p \in Participants :
      Acquiring(p) /\ reply[p] = "applied" /\ age[p] < leaseTTL =>
        lease.owner = p /\ lease.left >= leaseTTL - age[p]

\* ... and so does a recent success.
LeadersAreBacked ==
    \A p \in Participants :
      isLeader[p] /\ since[p] < leaseTTL - MaxLatency =>
        lease.owner = p /\ lease.left >= leaseTTL - MaxLatency - since[p]

\* A leader whose last attempt has not failed succeeded within an interval and
\* a call's time.
LeadersAreRecent ==
    \A p \in Participants :
      isLeader[p] /\ ~failed[p] =>
        /\ pc[p] = "sleeping" => since[p] + sleep[p] <= LeaderLeaseRefreshInterval
        /\ Acquiring(p) => since[p] <= LeaderLeaseRefreshInterval + age[p]

\* What is known of answers and leadership in each state of the loop.
Standing ==
    \A p \in Participants :
      /\ isLeader[p] => pc[p] = "sleeping" \/ Acquiring(p)
      /\ pc[p] \in {"new", "sleeping"} => reply[p] = "none" /\ age[p] = 0

\* Who neither leads nor is about to, and has met no error, has no lease.
OthersHoldNothing ==
    \A p \in Participants :
      /\ ~isLeader[p] /\ ~failed[p] /\ pc[p] \notin {"delete", "crashed"}
           /\ ~(Acquiring(p) /\ reply[p] = "applied")
         => lease.owner # p
      /\ pc[p] = "insert" /\ reply[p] = "refused" => lease.owner # p
      /\ pc[p] = "delete" /\ reply[p] # "none" => lease.owner # p

IInv == /\ TypeOK /\ Standing
        /\ AnswersAreBacked /\ LeadersAreBacked /\ LeadersAreRecent
        /\ OthersHoldNothing

\* The ttl is no expiry at all, or a positive number of ticks; and a timely
\* configuration has the latter.
LEMMA TTLFacts ==
    /\ leaseTTL = Forever \/ leaseTTL \in Nat \ {0}
    /\ leaseTTL \in Int /\ Horizon \in Nat /\ leaseTTL <= Horizon
    /\ leaseTTL \in 0..Horizon \cup {Forever} /\ leaseTTL # 0
    /\ Timely => leaseTTL > LeaderLeaseRefreshInterval + 2 * MaxLatency
<1>1. leaseTTL = Forever \/ leaseTTL \in Nat \ {0}
  BY DEF leaseTTL, Forever
<1>2. Timely => leaseTTL > LeaderLeaseRefreshInterval + 2 * MaxLatency
  <2>1. CASE FollowerLeaseRefreshInterval \div Second = 0
    BY <2>1 DEF Timely
  <2>2. CASE FollowerLeaseRefreshInterval \div Second # 0
    BY <2>2 DEF Timely, leaseTTL
  <2> QED
    BY <2>1, <2>2
<1> QED
  BY <1>1, <1>2 DEF Horizon, Forever

\* A lease that has two ticks left survives the next one.
LEMMA AgedLease ==
    ASSUME TypeOK
    PROVE  /\ aged(lease) \in [owner : Participants \cup {None},
                               left : 0..Horizon \cup {Forever}]
           /\ (aged(lease).owner = None) = (aged(lease).left = 0)
           /\ lease.left >= 2 => /\ aged(lease).owner = lease.owner
                                 /\ aged(lease).left = lease.left - 1
           /\ \A p \in Participants : lease.owner # p => aged(lease).owner # p
  BY TTLFacts DEF TypeOK, aged, NoLease, Forever

LEMMA InitEstablishes == Init => IInv
  BY TTLFacts DEF Init, IInv, TypeOK, Standing, AnswersAreBacked, LeadersAreBacked,
                  LeadersAreRecent, OthersHoldNothing, Acquiring, NoLease, interval, Forever

LEMMA StepPreservesType == TypeOK /\ [Next]_vars => TypeOK'
<1> SUFFICES ASSUME TypeOK, [Next]_vars PROVE TypeOK'
  OBVIOUS
<1> USE TTLFacts DEF TypeOK
<1>1. ASSUME NEW p \in Participants, Attempt(p) PROVE TypeOK'
  BY <1>1 DEF Attempt
<1>2. ASSUME NEW p \in Participants, Serve(p) PROVE TypeOK'
  <2>1. Answer(p) \in {"none", "applied", "mine", "refused"}
    BY DEF Answer
  <2>2. /\ lease' \in [owner : Participants \cup {None}, left : 0..Horizon \cup {Forever}]
        /\ (lease'.owner = None) = (lease'.left = 0)
    BY <1>2 DEF Serve, Granted, NoLease
  <2> QED
    BY <1>2, <2>1, <2>2 DEF Serve
<1>3. ASSUME NEW p \in Participants, ExtendLease(p) PROVE TypeOK'
  BY <1>3 DEF ExtendLease
<1>4. ASSUME NEW p \in Participants, Acquired(p) PROVE TypeOK'
  <2>1. confirms(p) \in BOOLEAN
    BY DEF confirms
  <2>2. interval(confirms(p)) \in Nat
    BY <2>1 DEF interval
  <2>3. /\ isLeader' \in [Participants -> BOOLEAN]
        /\ failed' \in [Participants -> BOOLEAN]
        /\ pc' \in [Participants -> {"new", "sleeping", "insert", "update", "delete",
                                     "closed", "crashed"}]
        /\ reply' \in [Participants -> {"none", "applied", "mine", "refused"}]
    BY <1>4, <2>1 DEF Acquired
  <2>4. /\ sleep' \in [Participants -> Nat]
        /\ age' \in [Participants -> 0..MaxLatency]
        /\ since' \in [Participants -> 0..Horizon]
    BY <1>4, <2>2 DEF Acquired
  <2> QED
    BY <1>4, <2>3, <2>4 DEF Acquired
<1>5. ASSUME NEW p \in Participants, AcquireFails(p) PROVE TypeOK'
  <2>1. interval(isLeader[p]) \in Nat
    BY DEF interval
  <2>2. faults' \in 0..MaxFaults
    BY <1>5 DEF AcquireFails
  <2>3. /\ sleep' \in [Participants -> Nat]
        /\ age' \in [Participants -> 0..MaxLatency]
    BY <1>5, <2>1 DEF AcquireFails
  <2>4. /\ failed' \in [Participants -> BOOLEAN]
        /\ pc' \in [Participants -> {"new", "sleeping", "insert", "update", "delete",
                                     "closed", "crashed"}]
        /\ reply' \in [Participants -> {"none", "applied", "mine", "refused"}]
    BY <1>5 DEF AcquireFails
  <2> QED
    BY <1>5, <2>2, <2>3, <2>4 DEF AcquireFails
<1>6. ASSUME NEW p \in Participants, Close(p) PROVE TypeOK'
  BY <1>6 DEF Close
<1>7. ASSUME NEW p \in Participants, Resign(p) PROVE TypeOK'
  BY <1>7 DEF Resign, interval
<1>8. ASSUME NEW p \in Participants, Forfeited(p) PROVE TypeOK'
  BY <1>8 DEF Forfeited
<1>9. ASSUME NEW p \in Participants, ForfeitFails(p) PROVE TypeOK'
  <2>1. faults' \in 0..MaxFaults
    BY <1>9 DEF ForfeitFails
  <2>2. /\ failed' \in [Participants -> BOOLEAN]
        /\ pc' \in [Participants -> {"new", "sleeping", "insert", "update", "delete",
                                     "closed", "crashed"}]
    BY <1>9 DEF ForfeitFails
  <2> QED
    BY <1>9, <2>1, <2>2 DEF ForfeitFails
<1>10. ASSUME NEW p \in Participants, Crash(p) PROVE TypeOK'
  BY <1>10 DEF Crash, interval
<1>11. CASE Tick
  <2>1. /\ age' \in [Participants -> 0..MaxLatency]
        /\ since' \in [Participants -> 0..Horizon]
    BY <1>11 DEF Tick
  <2>2. sleep' \in [Participants -> Nat]
    BY <1>11 DEF Tick, interval
  <2> QED
    BY <1>11, <2>1, <2>2, AgedLease DEF Tick
<1>12. CASE UNCHANGED vars
  BY <1>12 DEF vars
<1> QED
  BY <1>1, <1>2, <1>3, <1>4, <1>5, <1>6, <1>7, <1>8, <1>9, <1>10, <1>11, <1>12 DEF Next, Step

LEMMA StepPreservesStanding == TypeOK /\ Standing /\ [Next]_vars => Standing'
<1> SUFFICES ASSUME TypeOK, Standing, [Next]_vars PROVE Standing'
  OBVIOUS
<1> USE DEF TypeOK, Standing, Acquiring
<1>1. ASSUME NEW p \in Participants,
             Attempt(p) \/ Serve(p) \/ ExtendLease(p) \/ Close(p) \/ Forfeited(p)
      PROVE  Standing'
  BY <1>1 DEF Attempt, Serve, ExtendLease, Close, Forfeited
<1>2. ASSUME NEW p \in Participants,
             Acquired(p) \/ AcquireFails(p) \/ Resign(p) \/ ForfeitFails(p) \/ Crash(p)
      PROVE  Standing'
  BY <1>2 DEF Acquired, AcquireFails, Resign, ForfeitFails, Crash
<1>3. CASE Tick
  BY <1>3 DEF Tick
<1>4. CASE UNCHANGED vars
  BY <1>4 DEF vars
<1> QED
  BY <1>1, <1>2, <1>3, <1>4 DEF Next, Step

(***************************************************************************)
(* A statement takes no lease from its owner, unless the owner deletes it. *)
(***************************************************************************)
LEMMA ServeKeepsOwner ==
    ASSUME TypeOK, NEW p \in Participants, Serve(p), NEW q \in Participants
    PROVE  /\ lease.owner = q /\ (q = p => pc[p] # "delete") =>
                 lease'.owner = q /\ (lease' = lease \/ lease'.left = leaseTTL)
           /\ q # p => (lease.owner = q) = (lease'.owner = q)
           /\ (Acquiring(p) /\ reply'[p] = "applied") => lease' = Granted(p)
           /\ pc[p] = "insert" /\ reply'[p] = "refused" => lease'.owner # p
           /\ pc[p] = "delete" => lease'.owner # p
           /\ lease.owner # p /\ ~(Acquiring(p) /\ reply'[p] = "applied") => lease'.owner # p
  BY DEF Serve, Answer, TypeOK, Granted, NoLease, Acquiring

LEMMA StepPreservesBacking == IInv /\ [Next]_vars => AnswersAreBacked' /\ LeadersAreBacked'
<1> SUFFICES ASSUME IInv, [Next]_vars PROVE AnswersAreBacked' /\ LeadersAreBacked'
  OBVIOUS
<1> USE DEF IInv
<1>1. ASSUME NEW p \in Participants,
             Attempt(p) \/ ExtendLease(p) \/ Close(p) \/ Forfeited(p)
      PROVE  AnswersAreBacked' /\ LeadersAreBacked'
  BY <1>1 DEF Attempt, ExtendLease, Close, Forfeited, TypeOK, Standing, AnswersAreBacked,
              LeadersAreBacked, Acquiring
<1>2. ASSUME NEW p \in Participants, Serve(p) PROVE AnswersAreBacked' /\ LeadersAreBacked'
  <2>1. /\ UNCHANGED <<pc, isLeader, age, since>>
        /\ \A q \in Participants : q # p => reply'[q] = reply[q]
    BY <1>2 DEF Serve, TypeOK
  <2>2. AnswersAreBacked'
    <3> SUFFICES ASSUME NEW q \in Participants, Acquiring(q), reply'[q] = "applied",
                        age[q] < leaseTTL
                 PROVE  lease'.owner = q /\ lease'.left >= leaseTTL - age[q]
      BY <2>1 DEF AnswersAreBacked, Acquiring
    <3>1. CASE q = p
      <4>1. lease' = Granted(p)
        BY <1>2, <3>1, ServeKeepsOwner
      <4> QED
        BY <3>1, <4>1, TTLFacts DEF Granted, TypeOK
    <3>2. CASE q # p
      <4>1. lease.owner = q /\ lease.left >= leaseTTL - age[q]
        BY <2>1, <3>2 DEF AnswersAreBacked
      <4>2. lease'.owner = q /\ (lease' = lease \/ lease'.left = leaseTTL)
        BY <1>2, <3>2, <4>1, ServeKeepsOwner
      <4> QED
        BY <4>1, <4>2, TTLFacts DEF TypeOK
    <3> QED
      BY <3>1, <3>2
  <2>3. LeadersAreBacked'
    <3> SUFFICES ASSUME NEW q \in Participants, isLeader[q],
                        since[q] < leaseTTL - MaxLatency
                 PROVE  /\ lease'.owner = q
                        /\ lease'.left >= leaseTTL - MaxLatency - since[q]
      BY <2>1 DEF LeadersAreBacked
    <3>1. lease.owner = q /\ lease.left >= leaseTTL - MaxLatency - since[q]
      BY DEF LeadersAreBacked
    <3>2. q = p => pc[p] # "delete"
      BY DEF Standing, Acquiring
    <3>3. lease'.owner = q /\ (lease' = lease \/ lease'.left = leaseTTL)
      BY <1>2, <3>1, <3>2, ServeKeepsOwner
    <3> QED
      BY <3>1, <3>3, TTLFacts DEF TypeOK
  <2> QED
    BY <2>2, <2>3
<1>3. ASSUME NEW p \in Participants, Acquired(p) PROVE AnswersAreBacked' /\ LeadersAreBacked'
  <2>1. AnswersAreBacked'
    BY <1>3 DEF Acquired, AnswersAreBacked, Acquiring, TypeOK
  <2>2. confirms(p) /\ 0 < leaseTTL - MaxLatency =>
          lease.owner = p /\ lease.left >= leaseTTL - MaxLatency
    <3> SUFFICES ASSUME confirms(p), 0 < leaseTTL - MaxLatency
                 PROVE  lease.owner = p /\ lease.left >= leaseTTL - MaxLatency
      OBVIOUS
    <3>1. age[p] \in 0..MaxLatency /\ age[p] < leaseTTL
      BY TTLFacts DEF TypeOK
    <3>2. lease.owner = p /\ lease.left >= leaseTTL - age[p]
      BY <1>3, <3>1 DEF Acquired, confirms, AnswersAreBacked
    <3>3. lease.left \in Int
      BY TTLFacts DEF TypeOK, Forever
    <3> QED
      BY <3>1, <3>2, <3>3, TTLFacts
  <2>3. ASSUME NEW q \in Participants, isLeader'[q], since'[q] < leaseTTL - MaxLatency
        PROVE  lease'.owner = q /\ lease'.left >= leaseTTL - MaxLatency - since'[q]
    <3>1. CASE q = p
      BY <1>3, <2>2, <2>3, <3>1, TTLFacts DEF Acquired, TypeOK
    <3>2. CASE q # p
      BY <1>3, <2>3, <3>2 DEF Acquired, LeadersAreBacked, TypeOK
    <3> QED
      BY <3>1, <3>2
  <2> QED
    BY <2>1, <2>3 DEF LeadersAreBacked
<1>4. ASSUME NEW p \in Participants,
             AcquireFails(p) \/ Resign(p) \/ ForfeitFails(p) \/ Crash(p)
      PROVE  AnswersAreBacked' /\ LeadersAreBacked'
  <2>1. AnswersAreBacked'
    BY <1>4 DEF AcquireFails, Resign, ForfeitFails, Crash, AnswersAreBacked, Acquiring, TypeOK
  <2>2. LeadersAreBacked'
    BY <1>4 DEF AcquireFails, Resign, ForfeitFails, Crash, LeadersAreBacked, TypeOK
  <2> QED
    BY <2>1, <2>2
<1>5. CASE Tick
  <2>1. lease' = aged(lease) /\ UNCHANGED <<pc, reply, isLeader>>
    BY <1>5 DEF Tick
  <2>2. ASSUME NEW q \in Participants, Acquiring(q), reply[q] = "applied", age'[q] < leaseTTL
        PROVE  lease'.owner = q /\ lease'.left >= leaseTTL - age'[q]
    <3>1. age'[q] = age[q] + 1 /\ age[q] \in Nat
      BY <1>5, <2>2 DEF Tick, TypeOK
    <3>2. lease.owner = q /\ lease.left >= leaseTTL - age[q] /\ lease.left >= 2
      BY <2>2, <3>1, TTLFacts DEF AnswersAreBacked, TypeOK, Forever
    <3>3. lease'.owner = q /\ lease'.left = lease.left - 1 /\ lease.left \in Int
      BY <2>1, <3>2, AgedLease, TTLFacts DEF TypeOK, Forever
    <3> QED
      BY <3>1, <3>2, <3>3, TTLFacts
  <2>3. ASSUME NEW q \in Participants, isLeader[q], since'[q] < leaseTTL - MaxLatency
        PROVE  lease'.owner = q /\ lease'.left >= leaseTTL - MaxLatency - since'[q]
    <3>1. since'[q] = since[q] + 1 /\ since[q] \in Nat
      BY <1>5, <2>3, TTLFacts DEF Tick, TypeOK
    <3>2. lease.owner = q /\ lease.left >= leaseTTL - MaxLatency - since[q] /\ lease.left >= 2
      BY <2>3, <3>1, TTLFacts DEF LeadersAreBacked, TypeOK, Forever
    <3>3. lease'.owner = q /\ lease'.left = lease.left - 1 /\ lease.left \in Int
      BY <2>1, <3>2, AgedLease, TTLFacts DEF TypeOK, Forever
    <3> QED
      BY <3>1, <3>2, <3>3, TTLFacts
  <2> QED
    BY <2>1, <2>2, <2>3 DEF AnswersAreBacked, LeadersAreBacked, Acquiring
<1>6. CASE UNCHANGED vars
  BY <1>6 DEF vars, AnswersAreBacked, LeadersAreBacked, Acquiring
<1> QED
  BY <1>1, <1>2, <1>3, <1>4, <1>5, <1>6 DEF Next, Step

LEMMA StepPreservesRecency == IInv /\ [Next]_vars => LeadersAreRecent'
<1> SUFFICES ASSUME IInv, [Next]_vars PROVE LeadersAreRecent'
  OBVIOUS
<1> USE DEF IInv, LeadersAreRecent, TypeOK
<1>1. ASSUME NEW p \in Participants, Attempt(p) PROVE LeadersAreRecent'
  BY <1>1 DEF Attempt, Standing, Acquiring, interval
<1>2. ASSUME NEW p \in Participants,
             Serve(p) \/ ExtendLease(p) \/ Close(p) \/ Forfeited(p)
      PROVE  LeadersAreRecent'
  BY <1>2 DEF Serve, ExtendLease, Close, Forfeited, Standing, Acquiring
<1>3. ASSUME NEW p \in Participants, Acquired(p) PROVE LeadersAreRecent'
  <2>1. isLeader'[p] => since'[p] = 0 /\ sleep'[p] = LeaderLeaseRefreshInterval
    BY <1>3 DEF Acquired, confirms, interval
  <2>2. pc'[p] = "sleeping"
    BY <1>3 DEF Acquired
  <2>3. ASSUME NEW q \in Participants, q # p
        PROVE  /\ isLeader'[q] = isLeader[q] /\ failed'[q] = failed[q] /\ pc'[q] = pc[q]
               /\ since'[q] = since[q] /\ sleep'[q] = sleep[q] /\ age'[q] = age[q]
    BY <1>3, <2>3 DEF Acquired
  <2> QED
    BY <2>1, <2>2, <2>3 DEF Acquiring
<1>4. ASSUME NEW p \in Participants,
             AcquireFails(p) \/ Resign(p) \/ ForfeitFails(p) \/ Crash(p)
      PROVE  LeadersAreRecent'
  BY <1>4 DEF AcquireFails, Resign, ForfeitFails, Crash, Standing, Acquiring
<1>5. CASE Tick
  <2>1. ASSUME NEW q \in Participants PROVE since'[q] <= since[q] + 1 /\ since'[q] \in Nat
    BY <1>5, TTLFacts DEF Tick
  <2>2. ASSUME NEW q \in Participants, pc[q] = "sleeping" PROVE sleep'[q] = sleep[q] - 1
    BY <1>5, <2>2 DEF Tick
  <2>3. ASSUME NEW q \in Participants, Acquiring(q) PROVE age'[q] = age[q] + 1
    BY <1>5, <2>3 DEF Tick
  <2>4. UNCHANGED <<pc, isLeader, failed>>
    BY <1>5 DEF Tick
  <2> QED
    BY <2>1, <2>2, <2>3, <2>4, TTLFacts DEF Acquiring, interval
<1>6. CASE UNCHANGED vars
  BY <1>6 DEF vars, Acquiring
<1> QED
  BY <1>1, <1>2, <1>3, <1>4, <1>5, <1>6 DEF Next, Step

LEMMA StepPreservesRelease == IInv /\ [Next]_vars => OthersHoldNothing'
<1> SUFFICES ASSUME IInv, [Next]_vars PROVE OthersHoldNothing'
  OBVIOUS
<1> USE DEF IInv, TypeOK, Standing, OthersHoldNothing, Acquiring
<1>1. ASSUME NEW p \in Participants,
             Attempt(p) \/ ExtendLease(p) \/ Close(p) \/ Forfeited(p)
      PROVE  OthersHoldNothing'
  BY <1>1 DEF Attempt, ExtendLease, Close, Forfeited
<1>2. ASSUME NEW p \in Participants, Serve(p) PROVE OthersHoldNothing'
  <2>1. /\ UNCHANGED <<pc, isLeader, failed>>
        /\ \A q \in Participants : q # p => reply'[q] = reply[q]
    BY <1>2 DEF Serve
  <2> QED
    <3>1. ASSUME NEW q \in Participants, q # p PROVE (lease.owner = q) = (lease'.owner = q)
      BY <1>2, <3>1, ServeKeepsOwner
    <3>2. /\ pc[p] = "insert" /\ reply'[p] = "refused" => lease'.owner # p
          /\ pc[p] = "delete" => lease'.owner # p
          /\ lease.owner # p /\ ~(Acquiring(p) /\ reply'[p] = "applied") => lease'.owner # p
      BY <1>2, ServeKeepsOwner
    <3>3. reply[p] = "none"
      BY <1>2 DEF Serve
    <3> QED
      BY <2>1, <3>1, <3>2, <3>3
<1>3. ASSUME NEW p \in Participants, Acquired(p) PROVE OthersHoldNothing'
  <2>1. ~isLeader'[p] => lease.owner # p
    BY <1>3 DEF Acquired, confirms
  <2>2. pc'[p] = "sleeping" /\ lease' = lease
    BY <1>3 DEF Acquired
  <2>3. ASSUME NEW q \in Participants, q # p
        PROVE  /\ isLeader'[q] = isLeader[q] /\ failed'[q] = failed[q]
               /\ pc'[q] = pc[q] /\ reply'[q] = reply[q]
    BY <1>3, <2>3 DEF Acquired
  <2> QED
    BY <2>1, <2>2, <2>3
<1>4. ASSUME NEW p \in Participants,
             AcquireFails(p) \/ Resign(p) \/ ForfeitFails(p) \/ Crash(p)
      PROVE  OthersHoldNothing'
  <2>1. CASE AcquireFails(p) \/ ForfeitFails(p)
    BY <2>1 DEF AcquireFails, ForfeitFails
  <2>2. CASE Resign(p)
    <3>1. /\ pc'[p] \in {"delete", "closed"} /\ reply'[p] = "none"
          /\ pc'[p] = "closed" => ~isLeader[p] /\ pc[p] = "sleeping"
      BY <2>2 DEF Resign, loopEnds
    <3>2. ASSUME NEW q \in Participants, q # p
          PROVE  isLeader'[q] = isLeader[q] /\ pc'[q] = pc[q] /\ reply'[q] = reply[q]
      BY <2>2, <3>2 DEF Resign
    <3>3. lease' = lease /\ failed' = failed
      BY <2>2 DEF Resign
    <3> QED
      BY <3>1, <3>2, <3>3
  <2>3. CASE Crash(p)
    BY <2>3 DEF Crash
  <2> QED
    BY <1>4, <2>1, <2>2, <2>3
<1>5. CASE Tick
  BY <1>5, AgedLease DEF Tick
<1>6. CASE UNCHANGED vars
  BY <1>6 DEF vars
<1> QED
  BY <1>1, <1>2, <1>3, <1>4, <1>5, <1>6 DEF Next, Step

LEMMA Invariance == Spec => []IInv
<1>1. IInv /\ [Next]_vars => IInv'
  BY StepPreservesType, StepPreservesStanding, StepPreservesBacking, StepPreservesRecency,
     StepPreservesRelease DEF IInv
<1> QED
  BY <1>1, InitEstablishes, PTL DEF Spec

\* Time, the lease and the participants have their types: no age runs past its
\* bound.
THEOREM TypesHold == Spec => []TypeOK
  BY Invariance, PTL DEF IInv

(***************************************************************************)
(* The leader that keeps its post through errors holds the lease, until    *)
(* the lease of its last success may have run out.                         *)
(***************************************************************************)
THEOREM LeadersHoldTheLease == Spec => []LeaseBacksLeader
<1>1. IInv => LeaseBacksLeader
  BY DEF IInv, LeadersAreBacked, LeaseBacksLeader
<1> QED
  BY <1>1, Invariance, PTL

(***************************************************************************)
(* Two participants lead at once only if the last attempt of one failed,   *)
(* whatever the intervals and latencies, as long as the renewal is timely. *)
(***************************************************************************)
THEOREM LeaderIsUnique == Spec => []UniqueLeader
<1>1. IInv => UniqueLeader
  <2> SUFFICES ASSUME IInv, Timely, NEW p \in Participants, isLeader[p], ~failed[p]
               PROVE  lease.owner = p
    BY DEF UniqueLeader
  <2>1. since[p] <= LeaderLeaseRefreshInterval + MaxLatency
    BY DEF IInv, TypeOK, Standing, LeadersAreRecent, Acquiring, interval
  <2>2. since[p] < leaseTTL - MaxLatency
    BY <2>1, TTLFacts DEF IInv, TypeOK
  <2> QED
    BY <2>2 DEF IInv, LeadersAreBacked
<1> QED
  BY <1>1, Invariance, PTL

(***************************************************************************)
(* A participant that is closed, and has met no error, has no lease.       *)
(***************************************************************************)
THEOREM ClosingReleases == Spec => []CleanCloseReleases
<1>1. IInv => CleanCloseReleases
  BY DEF IInv, TypeOK, Standing, OthersHoldNothing, CleanCloseReleases, Acquiring
<1> QED
  BY <1>1, Invariance, PTL
=============================================================================
