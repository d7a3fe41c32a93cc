SPECIFICATION FairSpec
CONSTANTS
    part1 = part1
    part2 = part2
    client = client
    server = server
    plain = plain
    nan = nan
    k1 = k1
    k2 = k2
    k3 = k3
    Partitions <- MCPartitions
    Spans <- MCSpans
    Log <- MCLog
    Keys <- MCKeys
    Key <- MCKey
    Rejectable <- MCRejectable
    Unencodable <- MCUnencodable
    Modes = {"fail", "drop", "connector"}
    MaxFaults = 2
INVARIANTS
    TypeOK
    MarkedIsDisposed
    DeadLetteredOnce
PROPERTIES
    DeliversAtLeastOnce
    PartitionsDrain
CHECK_DEADLOCK FALSE
