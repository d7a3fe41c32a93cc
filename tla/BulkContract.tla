---------------------------- MODULE BulkContract ----------------------------
(***************************************************************************)
(* What esclient.BatchWriter promises of WriteBatch in synchronous mode    *)
(* (RFC 0007, section 4.3): the call's error is a durability verdict on    *)
(* the whole batch.  Nothing is said of chunks, requests or statuses.      *)
(***************************************************************************)
EXTENDS BulkVerdict

VARIABLES
    drop,      \* the writer discards the documents the backend rejects
    batch,     \* the documents of the current or last call
    stored,    \* the documents the backend holds
    verdict    \* the last call's verdict, "none" while a call is running

vars == <<drop, batch, stored, verdict>>

Running == verdict.kind = "none"

Init ==
    /\ drop \in BOOLEAN
    /\ batch = {}
    /\ stored = {}
    /\ verdict = Plain("ok")

\* A caller hands over a batch.  An empty one is settled at once.
Call ==
    /\ ~Running
    /\ batch' \in SUBSET Docs
    /\ verdict' = Plain(IF batch' = {} THEN "ok" ELSE "none")
    /\ UNCHANGED <<drop, stored>>

\* The backend stores a document: one of the batch, another writer's, or one
\* of an earlier request that was given up on.
Store ==
    /\ \E d \in Docs : stored' = stored \cup {d}
    /\ UNCHANGED <<drop, batch, verdict>>

\* The call returns a verdict that tells the truth.
Return ==
    /\ Running
    /\ verdict' \in HonestVerdicts(batch, stored, drop)
    /\ UNCHANGED <<drop, batch, stored>>

Next == Call \/ Store \/ Return

Spec == Init /\ [][Next]_vars
=============================================================================
