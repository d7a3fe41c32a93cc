SPECIFICATION FairSpec
CONSTANTS
    Collectors = {c1, c2}
    MaxSaves = 3
    MaxFaults = 2
CHECK_DEADLOCK FALSE
PROPERTIES
    ProvidersCatchUp
