---------------------------- MODULE PipelineProofs ----------------------------
(***************************************************************************)
(* Proofs about Pipeline for every window, every number of items and every *)
(* capacity of the TCP buffers that PipelineAssumption admits, and about   *)
(* write_blob, which is made of it.                                        *)
(*                                                                         *)
(* The counters of Wire are in order and the capacities bound what lies    *)
(* between them; `outstanding` is what lies between the first and the      *)
(* last, which the window bounds.  That is all NeverWedged needs.  The     *)
(* errors need the answers read so far: first_err is the earliest refusal  *)
(* among them, and it was noticed with at most Window in flight.           *)
(***************************************************************************)
EXTENDS BlobWrite, SequenceTheorems, TLAPS

(* Where the packets are. *)
InOrder ==
    /\ drained <= answered
    /\ answered <= Len(replies)
    /\ Len(replies) <= answered + 1
    /\ Len(replies) <= written
    /\ written <= enqueued
    /\ outstanding = enqueued - drained

(* What the place in the loop says. *)
AtPc ==
    /\ pc \in {"fill", "read"} => written = enqueued
    /\ pc = "read" => outstanding > 0
    /\ pc = "flush" /\ outstanding = 0 => left = 0 \/ firstErr # 0
    /\ pc = "done" /\ ~broken =>
         /\ outstanding = 0
         /\ left = 0 \/ firstErr # 0

(* first_err is the earliest refusal read so far, and nothing was sent     *)
(* after it was noticed.                                                   *)
ErrorsSeen ==
    /\ firstErr = 0 => \A i \in 1..drained : replies[i].kind = "ok"
    /\ firstErr # 0 =>
         /\ firstErr <= drained
         /\ replies[firstErr].kind = "error"
         /\ \A i \in 1..(firstErr - 1) : replies[i].kind = "ok"
         /\ enqueued <= firstErr + Window - 1

Inv == TypeOK /\ InOrder /\ AtPc /\ ErrorsSeen

LEMMA Bounds ==
    /\ Window \in Nat /\ Window > 0
    /\ ReqCap \in Nat /\ RespCap \in Nat
    /\ Window <= ReqCap + RespCap + 1
    /\ MaxItems \in Nat
BY PipelineAssumption, WireAssumption

(* The inner loop takes no more than is left, nor than fits in the window, *)
(* and it takes something if it may.                                       *)
LEMMA RoomFits ==
    ASSUME TypeOK
    PROVE  /\ Room \in Nat
           /\ Room <= left
           /\ outstanding + Room <= Window
           /\ firstErr # 0 => Room = 0
           /\ outstanding + Room = 0 => left = 0 \/ firstErr # 0
BY Bounds DEF Room, TypeOK

LEMMA InvInit == Init => Inv
<1> SUFFICES ASSUME Init
             PROVE  Inv
  OBVIOUS
<1> USE DEF Init, WireInit
<1>1. replies \in Seq(Reply) /\ Len(replies) = 0
  OBVIOUS
<1>2. TypeOK
  <2>1. left \in 0..MaxItems /\ outstanding \in 0..Window
    BY Bounds
  <2>2. QED
    BY <1>1, <2>1 DEF TypeOK
<1>3. InOrder
  BY <1>1 DEF InOrder
<1>4. AtPc
  BY DEF AtPc
<1>5. ErrorsSeen
  BY DEF ErrorsSeen
<1>6. QED
  BY <1>2, <1>3, <1>4, <1>5 DEF Inv

LEMMA InvNext == Inv /\ [Next]_vars => Inv'
<1> SUFFICES ASSUME Inv, [Next]_vars
             PROVE  Inv'
  OBVIOUS
<1>0. TypeOK /\ InOrder /\ AtPc /\ ErrorsSeen /\ Len(replies) \in Nat
  BY DEF Inv, TypeOK
<1>1. CASE Refill
  <2> USE DEF Refill, Take, Enqueue
  <2>1. TypeOK'
    BY <1>0, <1>1, RoomFits, Bounds DEF TypeOK
  <2>2. InOrder'
    BY <1>0, <1>1, RoomFits DEF InOrder, TypeOK
  <2>3. AtPc'
    BY <1>0, <1>1, RoomFits DEF AtPc, TypeOK
  <2>4. ErrorsSeen'
    BY <1>0, <1>1, RoomFits, Bounds DEF ErrorsSeen, TypeOK
  <2>5. QED
    BY <2>1, <2>2, <2>3, <2>4 DEF Inv
<1>2. CASE FlushSome
  <2> USE DEF FlushSome, Write
  <2>1. TypeOK'
    BY <1>0, <1>2 DEF TypeOK
  <2>2. InOrder'
    BY <1>0, <1>2 DEF InOrder, TypeOK
  <2>3. AtPc' /\ ErrorsSeen'
    BY <1>0, <1>2 DEF AtPc, ErrorsSeen
  <2>4. QED
    BY <2>1, <2>2, <2>3 DEF Inv
<1>3. CASE Flushed
  <2> USE DEF Flushed, wire
  <2>1. TypeOK' /\ InOrder' /\ ErrorsSeen'
    BY <1>0, <1>3 DEF TypeOK, InOrder, ErrorsSeen
  <2>2. AtPc'
    BY <1>0, <1>3 DEF AtPc, TypeOK
  <2>3. QED
    BY <2>1, <2>2 DEF Inv
<1>4. CASE ReadOk
  <2> USE DEF ReadOk, Drain
  <2>1. TypeOK'
    BY <1>0, <1>4, Bounds DEF TypeOK, AtPc
  <2>2. InOrder' /\ AtPc'
    BY <1>0, <1>4 DEF InOrder, AtPc, TypeOK
  <2>3. ErrorsSeen'
    BY <1>0, <1>4, Bounds DEF ErrorsSeen, TypeOK
  <2>4. QED
    BY <2>1, <2>2, <2>3 DEF Inv
<1>5. CASE ReadRefusal
  <2> USE DEF ReadRefusal, Drain
  <2>1. TypeOK'
    BY <1>0, <1>5, Bounds DEF TypeOK, AtPc
  <2>2. InOrder' /\ AtPc'
    BY <1>0, <1>5 DEF InOrder, AtPc, TypeOK
  <2>3. enqueued <= drained + 1 + Window - 1
    BY <1>0, Bounds DEF InOrder, TypeOK
  <2>4. ErrorsSeen'
    BY <1>0, <1>5, <2>3, Bounds DEF ErrorsSeen, TypeOK
  <2>5. QED
    BY <2>1, <2>2, <2>4 DEF Inv
<1>6. CASE ServeRequest
  <2>1. PICK r \in Reply : Serve(r)
    BY <1>6 DEF ServeRequest
  <2>2. /\ replies' \in Seq(Reply)
        /\ Len(replies') = Len(replies) + 1
        /\ \A i \in 1..Len(replies) : replies'[i] = replies[i]
    BY <1>0, <2>1, AppendProperties DEF Serve, TypeOK
  <2>3. TypeOK' /\ InOrder' /\ AtPc'
    BY <1>0, <1>6, <2>1, <2>2
    DEF ServeRequest, Serve, TypeOK, InOrder, AtPc
  <2>4. ErrorsSeen'
    BY <1>0, <1>6, <2>1, <2>2
    DEF ServeRequest, Serve, TypeOK, InOrder, ErrorsSeen
  <2>5. QED
    BY <2>3, <2>4 DEF Inv
<1>7. CASE AnswerRequest
  BY <1>0, <1>7 DEF AnswerRequest, Answer, Inv, TypeOK, InOrder, AtPc, ErrorsSeen
<1>8. CASE LinkFails
  BY <1>0, <1>8 DEF LinkFails, MarkBroken, Inv, TypeOK, InOrder, AtPc, ErrorsSeen
<1>9. CASE UNCHANGED vars
  BY <1>0, <1>9 DEF vars, wire, Inv, TypeOK, InOrder, AtPc, ErrorsSeen
<1>10. QED
  BY <1>1, <1>2, <1>3, <1>4, <1>5, <1>6, <1>7, <1>8, <1>9 DEF Next, Client, Server

LEMMA InvHolds == Spec => []Inv
BY InvInit, InvNext, PTL DEF Spec

(* Types, and the window as a bound of what is in flight. *)
THEOREM TypeCorrect == Spec => []TypeOK
<1>1. Inv => TypeOK
  BY DEF Inv
<1>2. QED
  BY <1>1, InvHolds, PTL

(* No answer of a pipeline that returned is left in the stream. *)
THEOREM StreamLeftClean == Spec => []NothingInFlight
<1>1. Inv => NothingInFlight
  BY DEF Inv, NothingInFlight, Quiet, TypeOK, InOrder, AtPc
<1>2. QED
  BY <1>1, InvHolds, PTL

(* Ok means that everything was accepted, an error is the earliest one. *)
THEOREM EarliestError == Spec => []FirstErrorReported
<1>1. Inv => FirstErrorReported
  BY DEF Inv, FirstErrorReported, TypeOK, InOrder, AtPc, ErrorsSeen
<1>2. QED
  BY <1>1, InvHolds, PTL

(* At most Window - 1 requests follow one that is refused. *)
THEOREM OverrunBounded == Spec => []BoundedOverrun
<1>1. Inv => BoundedOverrun
  <2> SUFFICES ASSUME Inv, NEW i \in 1..Len(replies), replies[i].kind = "error"
               PROVE  enqueued <= i + Window - 1
    BY DEF BoundedOverrun
  <2>1. CASE i > drained
    BY <2>1, Bounds DEF Inv, TypeOK, InOrder
  <2>2. CASE i <= drained
    BY <2>2, Bounds DEF Inv, TypeOK, InOrder, ErrorsSeen
  <2>3. QED
    BY <2>1, <2>2 DEF Inv, TypeOK, InOrder
<1>2. QED
  BY <1>1, InvHolds, PTL

(* Client and server never wait for each other. *)
THEOREM DeadlockFree == Spec => []NeverWedged
<1>1. Inv => NeverWedged
  <2> SUFFICES ASSUME Inv, Wedged
               PROVE  FALSE
    BY DEF NeverWedged
  <2>1. /\ enqueued >= Len(replies) + ReqCap + 1
        /\ Len(replies) >= drained + RespCap + 1
    BY Bounds DEF Wedged, Inv, TypeOK, InOrder
  <2>2. outstanding > Window
    BY <2>1, Bounds DEF Inv, TypeOK, InOrder
  <2>3. QED
    BY <2>2, Bounds DEF Inv, TypeOK
<1>2. QED
  BY <1>1, InvHolds, PTL

-------------------------------------------------------------------------------
(* write_blob: what was proved of the pipeline holds inside the call, and  *)
(* the id is that of a whole blob.                                         *)

(* Where every segment is known to have been accepted. *)
Accepted ==
    \/ call = "close"
    \/ result = "id"
    \/ call = "done" /\ writer = "open" /\ ~broken

AtCall ==
    /\ Accepted => pc = "done" /\ firstErr = 0 /\ ~broken
    /\ result = "id" => writer = "closed" /\ call = "done"
    /\ call = "create" => writer = "none"

BlobInv == Inv /\ AtCall

(* A pipeline that returned without an error has sent everything. *)
LEMMA WholeAtEnd ==
    ASSUME Inv, pc = "done", firstErr = 0, ~broken
    PROVE  Complete
<1>1. /\ left = 0 /\ enqueued \in Nat /\ drained = enqueued
      /\ Len(replies) = enqueued /\ replies \in Seq(Reply)
  BY DEF Inv, TypeOK, InOrder, AtPc
<1>2. ASSUME NEW i \in 1..enqueued
      PROVE  replies[i] = [kind |-> "ok"]
  <2>1. replies[i] \in Reply /\ replies[i].kind = "ok"
    BY <1>1, ElementOfSeq DEF Inv, ErrorsSeen
  <2>2. QED
    BY <2>1 DEF Reply
<1>3. replies = [i \in 1..Len(replies) |-> replies[i]]
  BY <1>1
<1>4. QED
  BY <1>1, <1>2, <1>3 DEF Complete

(* Every step of the call is a step of the pipeline, a stutter of it, or   *)
(* breaks the stream.                                                      *)
LEMMA PipelineKept == Inv /\ [BlobNext]_allVars => Inv'
<1> SUFFICES ASSUME Inv, [BlobNext]_allVars
             PROVE  Inv'
  OBVIOUS
<1>1. CASE ExchangeBreaks
  BY <1>1 DEF ExchangeBreaks, MarkBroken, Inv, TypeOK, InOrder, AtPc, ErrorsSeen
<1>2. CASE ~ExchangeBreaks
  <2>1. [Next]_vars
    BY <1>2 DEF BlobNext, Caller, Create, Written, CloseBlob, CancelBlob, BlobServer,
                Next, allVars
  <2>2. QED
    BY <2>1, InvNext
<1>3. QED
  BY <1>1, <1>2

LEMMA AtCallKept == BlobInv /\ [BlobNext]_allVars => AtCall'
<1> SUFFICES ASSUME BlobInv, [BlobNext]_allVars
             PROVE  AtCall'
  OBVIOUS
<1> USE DEF AtCall, Accepted
<1>0. AtCall
  BY DEF BlobInv
<1>1. CASE Create
  BY <1>0, <1>1 DEF Create, vars, wire
<1>2. CASE Written
  BY <1>0, <1>2 DEF Written, vars, wire
<1>3. CASE CloseBlob
  BY <1>0, <1>3 DEF CloseBlob, vars, wire
<1>4. CASE CancelBlob
  BY <1>0, <1>4 DEF CancelBlob, vars, wire
<1>5. CASE ExchangeBreaks
  BY <1>0, <1>5 DEF ExchangeBreaks, MarkBroken
<1>6. CASE call = "write" /\ UNCHANGED blobVars
  BY <1>0, <1>6 DEF blobVars
<1>7. CASE BlobServer
  <2>1. UNCHANGED <<pc, firstErr, broken, call, writer, result>>
    BY <1>7 DEF BlobServer, Server, ServeRequest, AnswerRequest, Serve, Answer, blobVars
  <2>2. QED
    BY <1>0, <2>1
<1>8. CASE UNCHANGED allVars
  BY <1>0, <1>8 DEF allVars, vars, wire, blobVars
<1>9. QED
  BY <1>1, <1>2, <1>3, <1>4, <1>5, <1>6, <1>7, <1>8 DEF BlobNext, Caller

LEMMA BlobInvHolds == BlobSpec => []BlobInv
<1>1. BlobInit => BlobInv
  BY InvInit DEF BlobInit, BlobInv, AtCall, Accepted
<1>2. BlobInv /\ [BlobNext]_allVars => BlobInv'
  BY PipelineKept, AtCallKept DEF BlobInv
<1>3. QED
  BY <1>1, <1>2, PTL DEF BlobSpec

(* write_blob returns an id only for a blob that has every segment, and    *)
(* leaves a blob open only when the close or the cancel was refused.       *)
THEOREM BlobWrittenWhole == BlobSpec => []WrittenWhole
<1>1. BlobInv => WrittenWhole
  BY WholeAtEnd DEF BlobInv, AtCall, Accepted, WrittenWhole
<1>2. QED
  BY <1>1, BlobInvHolds, PTL

(* However write_blob ends on a stream that works, the next call will not  *)
(* read an answer of this one.                                             *)
THEOREM WriteLeavesStreamClean == BlobSpec => []NothingInFlight
<1>1. Inv => NothingInFlight
  BY DEF Inv, NothingInFlight, Quiet, TypeOK, InOrder, AtPc
<1>2. BlobInv => NothingInFlight
  BY <1>1 DEF BlobInv
<1>3. QED
  BY <1>2, BlobInvHolds, PTL
===============================================================================
