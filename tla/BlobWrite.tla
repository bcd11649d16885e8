------------------------------ MODULE BlobWrite -------------------------------
(* Connection::write_blob (src/src/blob.rs): create a blob, put its        *)
(* segments through pipeline_requests, then close it, or cancel it when    *)
(* the writing failed.  Segment i is request i of the pipeline.            *)
EXTENDS Pipeline

VARIABLES call,      \* "create", "write", "close", "cancel" or "done"
          writer,    \* server: "none", or the blob is "open", "closed", "cancelled"
                     \* or "kept": open, its cancel refused
          result     \* what the call returns: "none" yet, "id", "error"

blobVars == <<call, writer, result>>
allVars == <<vars, blobVars>>

BlobInit == Init /\ call = "create" /\ writer = "none" /\ result = "none"

(* create_blob; after a refusal there is nothing to cancel. *)
Create ==
    /\ call = "create"
    /\ \/ call' = "write" /\ writer' = "open" /\ UNCHANGED result
       \/ call' = "done" /\ result' = "error" /\ UNCHANGED writer
    /\ UNCHANGED vars

(* Mutant: the result of BlobWriter::write is not looked at. *)
WrittenAnyhow ==
    /\ call = "write" /\ pc = "done"
    /\ call' = "close"
    /\ UNCHANGED <<vars, writer, result>>

(* BlobWriter::write returns. *)
Written ==
    /\ call = "write" /\ pc = "done"
    /\ call' = IF firstErr = 0 /\ ~broken THEN "close" ELSE "cancel"
    /\ UNCHANGED <<vars, writer, result>>

(* BlobWriter::close consumes the writer, accepted or refused. *)
CloseBlob ==
    /\ call = "close" /\ call' = "done"
    /\ \/ writer' = "closed" /\ result' = "id"
       \/ result' = "error" /\ UNCHANGED writer
    /\ UNCHANGED vars

(* BlobWriter::cancel, whose result is ignored, a refusal too: the error is *)
(* the write's.                                                             *)
CancelBlob ==
    /\ call = "cancel" /\ call' = "done"
    /\ writer' \in IF broken THEN {writer} ELSE {"cancelled", "kept"}
    /\ result' = "error"
    /\ UNCHANGED vars

(* The stream breaks in one of the single requests. *)
ExchangeBreaks ==
    /\ call \in {"create", "close", "cancel"} /\ ~broken
    /\ MarkBroken
    /\ call' = "done" /\ result' = "error"
    /\ UNCHANGED <<pc, left, outstanding, firstErr, writer>>

Caller ==
    \/ Create \/ Written \/ CloseBlob \/ CancelBlob
    \/ call = "write" /\ Client /\ UNCHANGED blobVars

BlobServer == Server /\ UNCHANGED blobVars

BlobNext ==
    \/ Caller \/ BlobServer \/ ExchangeBreaks
    \/ call = "write" /\ LinkFails /\ UNCHANGED blobVars

BlobSpec == BlobInit /\ [][BlobNext]_allVars

(* The caller's thread runs, and the server serves what it gets and writes *)
(* its answers as long as somebody reads them.                             *)
BlobFairSpec == BlobSpec /\ WF_allVars(Caller) /\ WF_allVars(BlobServer)

-------------------------------------------------------------------------------
Complete == left = 0 /\ replies = [i \in 1..enqueued |-> [kind |-> "ok"]]

(* An id is returned only for a closed blob that has every segment.  On a  *)
(* connection that works, a blob is left open in the server only if all    *)
(* segments were accepted and the close itself was refused, or the server  *)
(* refused to cancel it.                                                   *)
WrittenWhole ==
    /\ result = "id" => writer = "closed" /\ Complete
    /\ call = "done" /\ writer = "open" /\ ~broken => Complete

(* The call ends, if the server keeps serving. *)
Returns == <>(call = "done")
===============================================================================
