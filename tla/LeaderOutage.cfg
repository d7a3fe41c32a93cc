SPECIFICATION Spec
CONSTANTS
    c1 = c1
    c2 = c2
    Participants <- MCParticipants
    None = None
    Second = 2
    LeaderLeaseRefreshInterval = 2
    FollowerLeaseRefreshInterval = 7
    MaxLatency = 1
    MaxFaults = 3
SYMMETRY ParticipantSymmetry
INVARIANTS
    OneLeader
