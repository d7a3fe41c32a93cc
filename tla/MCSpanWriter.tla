---------------------------- MODULE MCSpanWriter ----------------------------
(* SpanWriter with two callers and three spans: a client and a server span   *)
(* that share their ids, and one that cannot be encoded.  The backend        *)
(* rejects the server span, and the lookup document of the client span.      *)
EXTENDS SpanWriter, TLC

CONSTANTS c1, c2, client, server, nan, p1, p2, k1, k2

MCCallers == {c1, c2}
CallerSymmetry == Permutations(MCCallers)

MCSpans == {client, server, nan}
MCPairs == {p1, p2}
MCDocs == MCSpans \cup MCPairs
MCRejectable == {server, p1}
MCUnencodable == {nan}
MCBatches == {{client, server}, {client, nan}}
MCPair == (client :> p1) @@ (server :> p2) @@ (nan :> p2)
MCKeys == {k1, k2}
MCKey == (client :> k1) @@ (server :> k1) @@ (nan :> k2)
=============================================================================
