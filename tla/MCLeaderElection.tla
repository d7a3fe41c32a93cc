-------------------------- MODULE MCLeaderElection --------------------------
(* Two participants.  A second has two ticks, the ttl is not a whole number  *)
(* of seconds, and what is left of it is two ticks longer than the longest   *)
(* time between two renewals.                                                *)
EXTENDS LeaderElection, TLC

CONSTANTS c1, c2

MCParticipants == {c1, c2}
ParticipantSymmetry == Permutations(MCParticipants)
=============================================================================
