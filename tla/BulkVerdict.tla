---------------------------- MODULE BulkVerdict ----------------------------
(***************************************************************************)
(* The vocabulary that a batch writer and its callers share: documents,    *)
(* the verdict of one WriteBatch call, and what an honest verdict implies  *)
(* about the backend.                                                      *)
(***************************************************************************)

CONSTANTS
    Docs,         \* documents, identified by the _id they are written under
    Rejectable,   \* the documents the backend may reject with a terminal status
    UnknownDoc    \* an _id in a response that names no document of the batch

ASSUME DocsAssumption ==
    /\ Rejectable \subseteq Docs
    /\ UnknownDoc \notin Docs

(***************************************************************************)
(* "ok" is a nil error; "rejected" an error in which errors.As finds a     *)
(* *BulkWriteError, which lists what the backend rejected terminally;      *)
(* "failed" is any other error; "none" is no verdict yet.                  *)
(***************************************************************************)
Plain(kind) == [kind |-> kind, terminal |-> {}, transient |-> FALSE]

Rejections(docs) == [kind      : {"rejected"},
                     terminal  : SUBSET (docs \cup {UnknownDoc}),
                     transient : BOOLEAN]

Verdicts == {Plain("none"), Plain("ok"), Plain("failed")} \cup Rejections(Docs)

(***************************************************************************)
(* What a caller may conclude from verdict v on the documents in batch,    *)
(* when the backend holds the documents in stored.  Success means that     *)
(* every document is stored, unless the writer drops the ones the backend  *)
(* rejects.  A non-transient rejection means that every document it does   *)
(* not list is stored: its caller acknowledges them.  A rejection lists    *)
(* only documents of the batch that the backend rejects, or an unknown id. *)
(***************************************************************************)
Honest(v, batch, stored, drop) ==
    /\ v.kind = "ok" =>
         batch \ stored \subseteq (IF drop THEN Rejectable ELSE {})
    /\ v.kind = "rejected" =>
         /\ v.terminal \subseteq (batch \cap Rejectable) \cup {UnknownDoc}
         /\ drop => v.terminal = {} /\ v.transient
         /\ ~v.transient /\ UnknownDoc \notin v.terminal =>
              batch \ stored \subseteq v.terminal

HonestVerdicts(batch, stored, drop) ==
    {v \in {Plain("ok"), Plain("failed")} \cup Rejections(batch \cap Rejectable) :
        Honest(v, batch, stored, drop)}
=============================================================================
