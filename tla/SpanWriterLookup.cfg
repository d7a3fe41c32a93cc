SPECIFICATION Spec
CONSTANTS
    client = client
    server = server
    nan = nan
    p1 = p1
    p2 = p2
    k1 = k1
    k2 = k2
    c1 = c1
    c2 = c2
    Callers <- MCCallers
    Spans <- MCSpans
    Pairs <- MCPairs
    Docs <- MCDocs
    Rejectable <- MCRejectable
    UnknownDoc = UnknownDoc
    Pair <- MCPair
    Keys <- MCKeys
    Key <- MCKey
    Unencodable <- MCUnencodable
    Batches <- MCBatches
SYMMETRY CallerSymmetry
INVARIANTS
    RejectedLookupIsSentAgain
