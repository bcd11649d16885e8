------------------------------- MODULE BlobRead -------------------------------
(***************************************************************************)
(* Connection::read_blob (src/src/blob.rs): open a blob, read it to its    *)
(* end with op_get_segment requests sent ahead, close it.  The end of the  *)
(* blob shows only in an answer, so requests go past it; their answers     *)
(* are drained and dropped.                                                *)
(*                                                                         *)
(* The content of a blob is its blocks, numbered 1..NBlocks; an answer     *)
(* carries one of them or none.                                            *)
(***************************************************************************)
EXTENDS Wire

CONSTANT NBlocks   \* answers that carry data

ASSUME BlobAssumption == NBlocks \in Nat

VARIABLES stage,       \* "open", "fill", "flush", "read", "close" or "done"
          alive,       \* the blob's handle is alive in the server
          given,       \* blocks the server has given
          told,        \* the server has reported the end of the blob
          window, pending, \* the window so far, and requests in flight
          stop, eof,
          failed,      \* first_err is set
          out,         \* blocks appended to `out`
          closeRefused, \* history: the server refused to close the blob
          outcome      \* what the call returns: "none" yet, "data", "error"

local == <<window, pending, stop, eof, failed, out>>
blob == <<given, told>>
ending == <<closeRefused, outcome>>
readVars == <<wire, stage, alive, blob, local, ending>>

(* Answers: a block, a block that is the last (SEG_EOF set), the end       *)
(* without data, nothing, isc_segstr_eof, any other error.                 *)
Segment == [kind : {"block", "last"}, block : 1..NBlocks]
         \cup [kind : {"eof", "empty", "past", "error"}, block : {0}]

ReadInit ==
    /\ WireInit
    /\ stage = "open"
    /\ alive = FALSE
    /\ given = 0
    /\ told = FALSE
    /\ window = 1
    /\ pending = 0
    /\ stop = FALSE
    /\ eof = FALSE
    /\ failed = FALSE
    /\ out = <<>>
    /\ closeRefused = FALSE
    /\ outcome = "none"

------------------------------------------------------------------------------
(* The server.                                                             *)

Bare(kind) == [kind |-> kind, block |-> 0]

(* op_get_segment: blocks in order, then the end, reported with the last   *)
(* block or after it, there perhaps only by having no data; later requests *)
(* get isc_segstr_eof or nothing.  Any request may fail.                   *)
ServeSegment ==
    /\ \/ /\ given < NBlocks
          /\ Serve([kind |-> "block", block |-> given + 1])
          /\ given' = given + 1
          /\ UNCHANGED told
       \/ /\ given + 1 = NBlocks
          /\ Serve([kind |-> "last", block |-> NBlocks])
          /\ given' = NBlocks
          /\ told' = TRUE
       \/ /\ given = NBlocks
          /\ \E kind \in IF told THEN {"empty", "past"} ELSE {"eof", "empty"} :
                 Serve(Bare(kind))
          /\ told' = TRUE
          /\ UNCHANGED given
       \/ /\ Serve(Bare("error"))
          /\ UNCHANGED blob
    /\ UNCHANGED <<stage, alive, local, ending>>

AnswerSegment ==
    /\ Answer
    /\ UNCHANGED <<stage, alive, blob, local, ending>>

------------------------------------------------------------------------------
(* The caller.                                                             *)

(* open_blob; when the server refuses it there is nothing to close. *)
Open ==
    /\ stage = "open"
    /\ \/ stage' = "fill" /\ alive' = TRUE /\ UNCHANGED outcome
       \/ stage' = "done" /\ outcome' = "error" /\ UNCHANGED alive
    /\ UNCHANGED <<wire, blob, local, closeRefused>>

(* The loop of read_to_end: enqueue up to `window` requests ... *)
AskSegments ==
    /\ stage = "fill"
    /\ LET n == IF stop THEN 0 ELSE window - pending
       IN Enqueue(n) /\ pending' = pending + n
    /\ stage' = "flush"
    /\ UNCHANGED <<alive, blob, window, stop, eof, failed, out, ending>>

(* ... flush them ... *)
FlushRequest ==
    /\ stage = "flush"
    /\ Write
    /\ UNCHANGED <<stage, alive, blob, local, ending>>

RequestsFlushed ==
    /\ stage = "flush"
    /\ written = enqueued
    /\ stage' = IF pending = 0 THEN "close" ELSE "read"
    /\ UNCHANGED <<wire, alive, blob, local, ending>>

(* ... and read one answer. *)
ReadOne(r) ==
    /\ stage = "read"
    /\ Drain(r)
    /\ pending' = pending - 1
    /\ UNCHANGED <<alive, blob, ending>>

(* An answer to a request sent past the end, or after an error. *)
ReadExcess ==
    /\ stop
    /\ \E r \in Segment : ReadOne(r) /\ r.kind \notin {"past", "error"}
    /\ stage' = "fill"
    /\ UNCHANGED <<window, stop, eof, failed, out>>

(* Mutant: the loop ends at the end of the blob, answers in flight or not. *)
ReadLastReturning ==
    /\ ~stop
    /\ \E r \in Segment : ReadOne(r) /\ r.kind \in {"last", "eof"}
                        /\ out' = IF r.block = 0 THEN out ELSE Append(out, r.block)
    /\ stop' = TRUE
    /\ eof' = TRUE
    /\ stage' = "close"
    /\ UNCHANGED <<window, failed>>

ReadLast ==
    /\ ~stop
    /\ \E r \in Segment : ReadOne(r) /\ r.kind \in {"last", "eof"}
                        /\ out' = IF r.block = 0 THEN out ELSE Append(out, r.block)
    /\ stop' = TRUE
    /\ eof' = TRUE
    /\ stage' = "fill"
    /\ UNCHANGED <<window, failed>>

ReadBlock ==
    /\ ~stop
    /\ \E r \in Segment : ReadOne(r) /\ r.kind = "block" /\ out' = Append(out, r.block)
    /\ window' = Window
    /\ stage' = "fill"
    /\ UNCHANGED <<stop, eof, failed>>

(* No data and no SEG_EOF. *)
ReadEmpty ==
    /\ ~stop
    /\ ReadOne(Bare("empty"))
    /\ stop' = TRUE
    /\ stage' = "fill"
    /\ UNCHANGED <<window, eof, failed, out>>

(* Mutant: isc_segstr_eof past the end counts as an error. *)
ReadErrorStrict ==
    /\ \E r \in Segment : ReadOne(r) /\ r.kind \in {"past", "error"}
    /\ failed' = TRUE
    /\ stop' = TRUE
    /\ stage' = "fill"
    /\ UNCHANGED <<window, eof, out>>

(* An error ends the asking; isc_segstr_eof after the end is none. *)
ReadError ==
    /\ \E r \in Segment :
         /\ ReadOne(r)
         /\ r.kind \in {"past", "error"}
         /\ failed' = (failed \/ ~(stop /\ r.kind = "past"))
    /\ stop' = TRUE
    /\ stage' = "fill"
    /\ UNCHANGED <<window, eof, out>>

(* The stream breaks: read_to_end returns at once, and read_blob goes on   *)
(* to a close that fails as well.                                          *)
ReadLinkFails ==
    /\ \/ stage = "flush" /\ written < enqueued
       \/ stage \in {"open", "read", "close"}
    /\ MarkBroken
    /\ stage' = "done"
    /\ outcome' = "error"
    /\ UNCHANGED <<alive, blob, local, closeRefused>>

Outcome == IF failed THEN "error" ELSE "data"

Closed ==
    /\ alive' = FALSE
    /\ outcome' = Outcome
    /\ UNCHANGED closeRefused

(* `done` is set before op_close_blob is sent, so Drop does not warn.      *)
CloseRefused ==
    /\ closeRefused' = TRUE
    /\ outcome' = "error"
    /\ UNCHANGED alive

(* Mutant: the error of the reading is returned before the close. *)
CloseIfRead ==
    /\ stage = "close"
    /\ \/ ~failed /\ (Closed \/ CloseRefused)
       \/ failed /\ outcome' = "error" /\ UNCHANGED <<alive, closeRefused>>
    /\ stage' = "done"
    /\ UNCHANGED <<wire, blob, local>>

(* Blob::close, whatever the reading gave.  The server accepts or refuses; *)
(* its refusal is the outcome only when the reading had no error.          *)
Close ==
    /\ stage = "close"
    /\ Closed \/ CloseRefused
    /\ stage' = "done"
    /\ UNCHANGED <<wire, blob, local>>

Reader == Open \/ AskSegments \/ FlushRequest \/ RequestsFlushed \/ ReadExcess \/ ReadLast
          \/ ReadBlock \/ ReadEmpty \/ ReadError \/ Close

ReadNext == Reader \/ ServeSegment \/ AnswerSegment \/ ReadLinkFails

ReadSpec == ReadInit /\ [][ReadNext]_readVars

------------------------------------------------------------------------------
(* Types; the window opens once, and what is in flight fits in it. *)
ReadTypeOK ==
    /\ stage \in {"open", "fill", "flush", "read", "close", "done"}
    /\ window \in {1, Window}
    /\ pending \in 0..window
    /\ replies \in Seq(Segment)
    /\ given \in 0..NBlocks
    /\ out \in Seq(1..NBlocks)
    /\ {alive, told, stop, eof, failed, closeRefused, broken} \subseteq BOOLEAN
    /\ outcome \in {"none", "data", "error"}

(* The call returns all blocks of the blob in order, unless an answer was  *)
(* an error or the close was refused; isc_segstr_eof for a request sent    *)
(* past the end is none.  is_eof() holds only when all of them were read.  *)
OutcomeRight ==
    LET whole == [i \in 1..NBlocks |-> i]
    IN /\ eof => out = whole
       /\ stage = "done" /\ ~broken /\ replies # <<>> =>
            IF closeRefused \/ \E i \in 1..Len(replies) : replies[i].kind = "error"
            THEN outcome = "error"
            ELSE outcome = "data" /\ out = whole

(* When the blob is closed every answer of the reading was drained: the    *)
(* close reads its own.                                                    *)
AnswersDrained == stage = "close" => Quiet

(* read_blob asks the server to close whatever it opened, even if the      *)
(* reading failed: a handle is left alive only if the server refused, and  *)
(* then the caller gets an error, never the data.                          *)
HandleReleased ==
    stage = "done" /\ ~broken /\ alive => closeRefused /\ outcome = "error"

(* A blob that fits in one answer costs one request, and another at most   *)
(* Window - 1 more than the answers that bring its data and its end.       *)
RequestsBounded ==
    /\ enqueued <= NBlocks + Window
    /\ replies # <<>> /\ replies[1].kind # "block" => enqueued = 1
==============================================================================
