SPECIFICATION Spec
CONSTANTS
    w1 = w1
    w2 = w2
    r1 = r1
    A = A
    B = B
    C = C
    NoId = NoId
    a1 = a1
    a2 = a2
    b1 = b1
    c1 = c1
    e1 = e1
    Writers <- MCWriters
    Readers <- MCReaders
    TraceIDs <- MCTraceIDs
    Empty = NoId
    Spans <- MCSpans
    TraceOf <- MCTraceOf
    MaxTraces = 3
    Depths <- MCDepths
    Matching <- MCMatching
    MaxPurges = 1
SYMMETRY MCSymmetry
INVARIANTS
    TypeOK
    RingHoldsTheNewest
    IndexMatchesRing
    NothingMixed
    ReadYourWrites
PROPERTIES
    SearchIsExact
    KeepsTheNewest
