--------------------------------- MODULE Wire ---------------------------------
(***************************************************************************)
(* The connection as a pipeline sees it: FbStream (src/src/wire/stream.rs) *)
(* with its send buffer, the TCP buffers of both directions and a server   *)
(* that serves requests in order and does not read the next one before it  *)
(* has written the answer of the last.                                     *)
(*                                                                         *)
(* Packets are counted, not spelled: request number i of a call is         *)
(* enqueued, written to the socket, served, answered and its answer        *)
(* drained, so five counters say where every request is.  TCP holds        *)
(* ReqCap requests one way and RespCap responses the other; whoever writes *)
(* into a full buffer waits.                                               *)
(***************************************************************************)
EXTENDS Integers, Sequences

CONSTANTS ReqCap, RespCap,
          Window      \* most requests a client keeps in flight

ASSUME WireAssumption ==
    /\ ReqCap \in Nat \ {0}
    /\ RespCap \in Nat \ {0}
    /\ Window \in Nat \ {0}

VARIABLES enqueued,   \* requests put in FbStream::wbuf
          written,    \* requests that write_all has put in the socket
          replies,    \* what the server decided on the requests it has read
          answered,   \* responses it has put in the socket
          drained,    \* responses the client has read
          broken      \* FbStream::broken

wire == <<enqueued, written, replies, answered, drained, broken>>

WireInit ==
    /\ enqueued = 0
    /\ written = 0
    /\ replies = <<>>
    /\ answered = 0
    /\ drained = 0
    /\ broken = FALSE

(* FbStream::enqueue, n times *)
Enqueue(n) ==
    /\ enqueued' = enqueued + n
    /\ UNCHANGED <<written, replies, answered, drained, broken>>

(* write_all inside FbStream::flush gets one more request out. *)
Write ==
    /\ written < enqueued
    /\ written - Len(replies) < ReqCap
    /\ written' = written + 1
    /\ UNCHANGED <<enqueued, replies, answered, drained, broken>>

(* read_response returns answer r. *)
Drain(r) ==
    /\ drained < answered
    /\ r = replies[drained + 1]
    /\ drained' = drained + 1
    /\ UNCHANGED <<enqueued, written, replies, answered, broken>>

(* Where FbStream::flush and fill set `broken`, and read_response on an    *)
(* unexpected packet.                                                      *)
MarkBroken ==
    /\ broken' = TRUE
    /\ UNCHANGED <<enqueued, written, replies, answered, drained>>

(* The server reads the next request and decides its answer ... *)
Serve(r) ==
    /\ Len(replies) = answered
    /\ Len(replies) < written
    /\ replies' = Append(replies, r)
    /\ UNCHANGED <<enqueued, written, answered, drained, broken>>

(* ... and writes it when there is room. *)
Answer ==
    /\ answered < Len(replies)
    /\ answered - drained < RespCap
    /\ answered' = answered + 1
    /\ UNCHANGED <<enqueued, written, replies, drained, broken>>

(* No packet of this conversation is anywhere. *)
Quiet == drained = enqueued

(* Each side waits for the other to read. *)
Wedged ==
    /\ written < enqueued
    /\ written - Len(replies) = ReqCap
    /\ answered < Len(replies)
    /\ answered - drained = RespCap
===============================================================================
