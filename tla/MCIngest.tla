------------------------------ MODULE MCIngest ------------------------------
(* Two partitions.  The backend rejects a server span, whose client sibling  *)
(* comes in the other partition's record, and the two can share a batch.     *)
EXTENDS Ingest, TLC

CONSTANTS part1, part2, client, server, plain, nan, k1, k2, k3

MCPartitions == {part1, part2}
MCSpans == {client, server, plain, nan}
MCLog == (part1 :> <<{server, plain}, {nan}>>) @@ (part2 :> <<{client}>>)
MCKeys == {k1, k2, k3}
MCKey == (client :> k1) @@ (server :> k1) @@ (plain :> k2) @@ (nan :> k3)
MCRejectable == {server}
MCUnencodable == {nan}
=============================================================================
