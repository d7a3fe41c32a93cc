SPECIFICATION Spec
CONSTANTS
    c1 = c1
    c2 = c2
    s1 = s1
    s2 = s2
    Collectors <- MCCollectors
    Spans <- MCSpans
    CalculationInterval = 1
    Delay = 3
    AggregationBuckets = 2
    MaxLatency = 1
    Skew <- MCSkew
    MaxTime = 5
    MaxFaults = 1
CHECK_DEADLOCK FALSE
SYMMETRY SpanSymmetry
INVARIANTS
    TypeOK
    WindowsExact
    WindowsContiguous
    CountedOnce
