SPECIFICATION Spec
CONSTANTS
    t1 = t1
    t2 = t2
    show = show
    query = query
    s1 = s1
    s2 = s2
    c1 = c1
    Turns = {t1, t2}
    Tools = {show, query}
    UITools <- Declared
    SessionIds = {s1, s2}
    Calls = {c1}
    None = None
    MaxActs = 2
SYMMETRY Symmetry
INVARIANTS
    TypeOK
    TextBracketed
    RunBracketed
    UICallsWhole
    DeclaredToolsAreKnown
    NothingLeftBehind
CHECK_DEADLOCK FALSE
