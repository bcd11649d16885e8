------------------------------- MODULE Pipeline -------------------------------
(***************************************************************************)
(* pipeline_requests (src/src/wire/response.rs): requests are sent ahead   *)
(* of their responses, at most Window of them in flight, and the first     *)
(* refusal stops the sending while the responses in flight are drained.    *)
(* Blob writes, the three messages of Batch::execute and the SET BIND      *)
(* statements of a new connection all go through it.                       *)
(***************************************************************************)
EXTENDS Wire

CONSTANT MaxItems   \* bound on the length of `items`

(* The comment over the function: the window limits what piles up in the   *)
(* TCP buffers.  In packets: it exceeds what they hold by at most the      *)
(* request the server is working on.                                       *)
ASSUME PipelineAssumption ==
    /\ MaxItems \in Nat
    /\ Window <= ReqCap + RespCap + 1

VARIABLES pc,          \* "fill", "flush", "read" or "done"
          left,        \* items not taken yet
          outstanding,
          firstErr     \* number of the request of first_err, 0 for None

vars == <<wire, pc, left, outstanding, firstErr>>

Reply == [kind : {"ok", "error"}]

Init ==
    /\ WireInit
    /\ pc = "fill"
    /\ left \in 0..MaxItems
    /\ outstanding = 0
    /\ firstErr = 0

------------------------------------------------------------------------------
(* How many items the inner loop takes. *)
Room == IF firstErr # 0 THEN 0
        ELSE IF left < Window - outstanding THEN left
        ELSE Window - outstanding

Take(n) ==
    /\ pc = "fill"
    /\ Enqueue(n)
    /\ left' = left - n
    /\ outstanding' = outstanding + n
    /\ pc' = "flush"
    /\ UNCHANGED firstErr

(* Mutant: the loop does not look at first_err. *)
RefillAfterError ==
    Take(IF left < Window - outstanding THEN left ELSE Window - outstanding)

(* Mutant: no window. *)
RefillAll == Take(IF firstErr = 0 THEN left ELSE 0)

(* The inner loop. *)
Refill == Take(Room)

(* stream.flush(), packet by packet *)
FlushSome ==
    /\ pc = "flush"
    /\ Write
    /\ UNCHANGED <<pc, left, outstanding, firstErr>>

(* The flush is over. *)
Flushed ==
    /\ pc = "flush"
    /\ written = enqueued
    /\ pc' = IF outstanding = 0 THEN "done" ELSE "read"
    /\ UNCHANGED <<wire, left, outstanding, firstErr>>

ReadOk ==
    /\ pc = "read"
    /\ Drain([kind |-> "ok"])
    /\ outstanding' = outstanding - 1
    /\ pc' = "fill"
    /\ UNCHANGED <<left, firstErr>>

(* Mutant: the refusal is returned at once. *)
ReadRefusalReturning ==
    /\ pc = "read"
    /\ Drain([kind |-> "error"])
    /\ outstanding' = outstanding - 1
    /\ firstErr' = drained + 1
    /\ pc' = "done"
    /\ UNCHANGED left

(* Mutant: first_err is overwritten by a later refusal. *)
ReadRefusalReplacing ==
    /\ pc = "read"
    /\ Drain([kind |-> "error"])
    /\ outstanding' = outstanding - 1
    /\ firstErr' = drained + 1
    /\ pc' = "fill"
    /\ UNCHANGED left

(* Mutant: the refusal does not count as an answer. *)
ReadRefusalUncounted ==
    /\ pc = "read"
    /\ Drain([kind |-> "error"])
    /\ firstErr' = IF firstErr = 0 THEN drained + 1 ELSE firstErr
    /\ pc' = "fill"
    /\ UNCHANGED <<left, outstanding>>

ReadRefusal ==
    /\ pc = "read"
    /\ Drain([kind |-> "error"])
    /\ outstanding' = outstanding - 1
    /\ firstErr' = IF firstErr = 0 THEN drained + 1 ELSE firstErr
    /\ pc' = "fill"
    /\ UNCHANGED left

(* The flush or the read fails, or the packet read is not a response: the  *)
(* function returns at once, with the stream broken.                       *)
LinkFails ==
    /\ \/ pc = "flush" /\ written < enqueued
       \/ pc = "read"
    /\ MarkBroken
    /\ pc' = "done"
    /\ UNCHANGED <<left, outstanding, firstErr>>

ServeRequest ==
    /\ \E r \in Reply : Serve(r)
    /\ UNCHANGED <<pc, left, outstanding, firstErr>>

AnswerRequest ==
    /\ Answer
    /\ UNCHANGED <<pc, left, outstanding, firstErr>>

Client == Refill \/ FlushSome \/ Flushed \/ ReadOk \/ ReadRefusal
Server == ServeRequest \/ AnswerRequest

Next == Client \/ Server \/ LinkFails

Spec == Init /\ [][Next]_vars

------------------------------------------------------------------------------
(* Types; the window bounds what is in flight, and packets move in order.  *)
TypeOK ==
    /\ pc \in {"fill", "flush", "read", "done"}
    /\ left \in 0..MaxItems
    /\ outstanding \in 0..Window
    /\ enqueued \in Nat
    /\ written \in Nat
    /\ replies \in Seq(Reply)
    /\ answered \in Nat
    /\ drained \in Nat
    /\ broken \in BOOLEAN
    /\ firstErr \in Nat

(* When the call returns with the stream whole, every request sent was     *)
(* answered and every answer read, also after a refusal: the next call     *)
(* will not read an answer of this one.                                    *)
NothingInFlight == pc = "done" /\ ~broken => Quiet

(* Ok means that every item was sent and accepted; an error is that of the *)
(* earliest request refused.                                               *)
FirstErrorReported ==
    pc = "done" /\ ~broken =>
        IF firstErr = 0
        THEN left = 0 /\ \A i \in 1..enqueued : replies[i].kind = "ok"
        ELSE /\ replies[firstErr].kind = "error"
             /\ \A i \in 1..(firstErr - 1) : replies[i].kind = "ok"

(* A refusal lets at most Window - 1 later requests go out: those the      *)
(* server will still execute after the one that failed.                    *)
BoundedOverrun ==
    \A i \in 1..Len(replies) :
        replies[i].kind = "error" => enqueued <= i + Window - 1

(* The client never waits to write while the server waits to answer: the   *)
(* deadlock that the comment over the function describes.                  *)
NeverWedged == pc = "flush" => ~Wedged
===============================================================================
