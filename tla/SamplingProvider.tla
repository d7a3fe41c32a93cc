-------------------------- MODULE SamplingProvider --------------------------
(***************************************************************************)
(* What adaptive sampling makes of the throughput: the post-aggregator of  *)
(* a collector that leads calculates probabilities and saves them, and the *)
(* provider of every collector serves those that it last loaded.           *)
(* Probabilities are told apart by the order in which they were saved.     *)
(***************************************************************************)
EXTENDS Integers, FiniteSetsExt

CONSTANTS
    Collectors,  \* the processes
    MaxSaves,    \* bound: calculations
    MaxFaults    \* bound: failed storage calls, exits, changes of leaders

VARIABLES
    running,     \* the collectors that run
    leaders,     \* those whose participant says IsLeader
    saving,      \* the probabilities that each post-aggregator is saving, if any
    latest,      \* the latest in the store
    served,      \* those from which each provider answers
    calculated,  \* the calculations so far
    faults       \* the faults so far

vars == <<running, leaders, saving, latest, served, calculated, faults>>

None == 0

Fault == faults < MaxFaults /\ faults' = faults + 1

Init ==
    /\ running = {} /\ leaders = {}
    /\ saving = [c \in Collectors |-> None]
    /\ latest = None /\ served = [c \in Collectors |-> None]
    /\ calculated = 0 /\ faults = 0

\* Start loads the latest probabilities; a failure leaves the provider without.
Start(c) ==
    /\ c \notin running
    /\ running' = running \cup {c}
    /\ \/ served' = [served EXCEPT ![c] = latest] /\ UNCHANGED faults
       \/ served' = [served EXCEPT ![c] = None] /\ Fault
    /\ UNCHANGED <<leaders, saving, latest, calculated>>

\* IsLeader changes: module LeaderElection says when, and when two can lead.
Elect(S) ==
    /\ S # leaders
    /\ leaders' = S
    /\ IF leaders = {} THEN UNCHANGED faults ELSE Fault
    /\ UNCHANGED <<running, saving, latest, served, calculated>>

\* The end of runCalculation in a collector that leads.
RunCalculation(c) ==
    /\ c \in leaders /\ saving[c] = None
    /\ calculated < MaxSaves /\ calculated' = calculated + 1
    /\ saving' = [saving EXCEPT ![c] = calculated + 1]
    /\ UNCHANGED <<running, leaders, latest, served, faults>>

\* saveProbabilitiesAndQPS returns, its row in the store or not.
SaveProbabilities(c) ==
    /\ saving[c] # None
    /\ saving' = [saving EXCEPT ![c] = None]
    /\ \/ latest' = Max({latest, saving[c]}) /\ UNCHANGED faults
       \/ UNCHANGED latest /\ Fault
    /\ UNCHANGED <<running, leaders, served, calculated>>

\* A round of runUpdateProbabilitiesLoop, which a collector that leads skips;
\* generateStrategyResponses follows.
LoadProbabilities(c) ==
    /\ c \in running \ leaders
    /\ served' = [served EXCEPT ![c] = latest]
    /\ UNCHANGED <<running, leaders, saving, latest, calculated, faults>>

\* The process exits.
Stop(c) ==
    /\ c \in running
    /\ Fault
    /\ running' = running \ {c} /\ leaders' = leaders \ {c}
    /\ saving' = [saving EXCEPT ![c] = None]
    /\ served' = [served EXCEPT ![c] = None]
    /\ UNCHANGED <<latest, calculated>>

Next ==
    \/ \E c \in Collectors :
         \/ Start(c) \/ RunCalculation(c) \/ SaveProbabilities(c)
         \/ LoadProbabilities(c) \/ Stop(c)
    \/ \E S \in SUBSET running : Elect(S)

Spec == Init /\ [][Next]_vars

\* The loops of a collector that runs go on.
FairSpec ==
    /\ Spec
    /\ \A c \in Collectors :
         /\ WF_vars(RunCalculation(c)) /\ WF_vars(SaveProbabilities(c))
         /\ WF_vars(LoadProbabilities(c))

----------------------------------------------------------------------------
(* Properties. *)

\* The README of adaptive sampling says of the provider: "It periodically reads
\* the computed sampling probabilities from storage and translates them into
\* sampling strategy output".  The one of a collector that leads does not: while
\* its own post-aggregator publishes, it goes on serving what it had before.
ProvidersCatchUp ==
    \A c \in Collectors : \A n \in 1..MaxSaves :
      latest = n ~> c \notin running \/ served[c] >= n
=============================================================================
