SPECIFICATION Spec
CONSTANTS
    good = good
    invalid = invalid
    huge = huge
    cyclic = cyclic
    Docs <- MCDocs
    Rejectable <- MCRejectable
    UnknownDoc = UnknownDoc
    Unencodable <- MCUnencodable
    Size <- MCSize
    MaxBytes = 4
    MaxLen = 3
    Results <- MCResults
INVARIANTS
    TypeOK
    EveryDocumentAccounted
    InsertsAreStored
    CountersMatchVerdict
    RequestBounded
PROPERTIES
    HonestVerdict
