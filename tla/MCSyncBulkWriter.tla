-------------------------- MODULE MCSyncBulkWriter --------------------------
(* SyncBulkWriter on four documents: a healthy one, one that the backend     *)
(* rejects, one that exceeds the request cap by itself, and one that cannot  *)
(* be encoded.                                                               *)
EXTENDS SyncBulkWriter, TLC

CONSTANTS good, invalid, huge, cyclic

MCDocs == {good, invalid, huge, cyclic}
MCRejectable == {invalid}
MCUnencodable == {cyclic}
MCSize == (good :> 2) @@ (invalid :> 2) @@ (huge :> 5) @@ (cyclic :> 1)

Result(entries, status, error, named) ==
    [entries |-> entries, status |-> status, error |-> error, named |-> named]

MCResults == {
    Result(1, 201, FALSE, TRUE),    \* stored
    Result(1, 409, TRUE, TRUE),     \* already there
    Result(1, 429, TRUE, TRUE),     \* backpressure
    Result(1, 400, TRUE, TRUE),     \* a mapping error
    Result(1, 400, TRUE, FALSE),    \* the same, without the _id
    Result(1, 507, TRUE, TRUE),     \* a server error outside the retried list
    Result(1, 0, FALSE, FALSE),     \* no status
    Result(2, 201, FALSE, TRUE)}    \* two action entries
=============================================================================
