---------------------------- MODULE BlobReadProofs ----------------------------
(***************************************************************************)
(* Proofs about BlobRead for a blob of any length and any window.          *)
(*                                                                         *)
(* As long as nothing stops the asking, every answer read was a block, and *)
(* answer i was block i; the first answer that is none of these stops it,  *)
(* and it is an error or comes right after the last block.  What comes     *)
(* later no longer touches `out`.                                          *)
(***************************************************************************)
EXTENDS BlobRead, SequenceTheorems, TLAPS

InOrder ==
    /\ drained <= answered
    /\ answered <= Len(replies)
    /\ Len(replies) <= written
    /\ written <= enqueued
    /\ pending = enqueued - drained

Counters == /\ enqueued \in Nat /\ written \in Nat
            /\ answered \in Nat /\ drained \in Nat

(* The answers before number i are blocks. *)
Plain(i) == \A j \in 1..(i - 1) : replies[j].kind = "block"

(* What the server's answers look like up to the first that is no block. *)
Shape ==
    /\ \A i \in 1..Len(replies) : Plain(i) =>
         /\ replies[i].kind # "past"
         /\ replies[i].kind = "block" => replies[i].block = i
         /\ replies[i].kind = "last" => replies[i].block = i /\ i = NBlocks
         /\ replies[i].kind \in {"eof", "empty"} => i = NBlocks + 1 /\ replies[i].block = 0
    /\ Plain(Len(replies) + 1) => given = Len(replies) /\ ~told

Failed(n) == \E i \in 1..n : replies[i].kind = "error"

(* The client before and after it stops asking. *)
Progress ==
    /\ ~stop => /\ Plain(drained + 1)
                /\ Len(out) = drained
                /\ ~eof
    /\ \A i \in 1..Len(out) : out[i] = i
    /\ stop /\ ~Failed(drained) => Len(out) = NBlocks
    /\ eof => Len(out) = NBlocks
    /\ failed <=> Failed(drained)
    /\ drained = 0 => window = 1

AtPc ==
    /\ stage = "open" => enqueued = 0 /\ ~alive
    /\ stage \in {"fill", "read"} => written = enqueued
    /\ stage = "read" => pending > 0
    /\ stage = "flush" /\ pending = 0 => stop
    /\ stage = "close" => stop /\ pending = 0
    /\ stage # "done" => ~closeRefused
    /\ stage = "done" /\ ~broken =>
         /\ alive => closeRefused
         /\ closeRefused => outcome = "error"
         /\ \/ enqueued = 0 /\ ~closeRefused
            \/ /\ stop /\ pending = 0
               /\ outcome = IF failed \/ closeRefused THEN "error" ELSE "data"

Inv == ReadTypeOK /\ Counters /\ InOrder /\ Shape /\ Progress /\ AtPc /\ RequestsBounded

LEMMA Bounds == NBlocks \in Nat /\ Window \in Nat /\ Window > 0
BY BlobAssumption, WireAssumption

(* An answer is known by its kind and its block. *)
LEMMA ReplyTyped ==
    ASSUME NEW r \in Segment
    PROVE  /\ r.kind \in {"block", "last", "eof", "empty", "past", "error"}
           /\ r.kind \in {"block", "last"} => r.block \in 1..NBlocks
           /\ r.kind \notin {"block", "last"} => r.block = 0
BY DEF Segment

LEMMA InvInit == ReadInit => Inv
<1> SUFFICES ASSUME ReadInit
             PROVE  Inv
  OBVIOUS
<1> USE DEF ReadInit, WireInit
<1>1. replies \in Seq(Segment) /\ out \in Seq(1..NBlocks)
      /\ Len(replies) = 0 /\ Len(out) = 0
  OBVIOUS
<1>2. window \in {1, Window} /\ pending \in 0..window /\ given \in 0..NBlocks
  BY Bounds
<1>3. ReadTypeOK
  BY <1>1, <1>2 DEF ReadTypeOK
<1>4. Counters /\ InOrder /\ AtPc
  BY <1>1 DEF Counters, InOrder, AtPc
<1>5. Shape
  BY <1>1 DEF Shape
<1>6. Progress
  BY <1>1 DEF Progress, Plain, Failed
<1>7. RequestsBounded
  BY Bounds DEF RequestsBounded
<1>8. QED
  BY <1>3, <1>4, <1>5, <1>6, <1>7 DEF Inv

(* The server appends answer r. *)
Served(r) ==
    /\ replies' = Append(replies, r)
    /\ \/ /\ given < NBlocks /\ r.kind = "block" /\ r.block = given + 1
          /\ given' = given + 1 /\ told' = told
       \/ /\ given + 1 = NBlocks /\ r.kind = "last" /\ r.block = NBlocks
          /\ given' = NBlocks /\ told' = TRUE
       \/ /\ given = NBlocks /\ r.block = 0
          /\ r.kind \in {"empty", "past", "eof"} /\ (r.kind = "past" => told)
          /\ told' = TRUE /\ given' = given
       \/ /\ r.kind = "error" /\ given' = given /\ told' = told

LEMMA ServeCases == ReadTypeOK /\ ServeSegment => \E r \in Segment : Served(r)
<1> SUFFICES ASSUME ReadTypeOK, ServeSegment
             PROVE  \E r \in Segment : Served(r)
  OBVIOUS
<1>1. CASE given < NBlocks /\ Serve([kind |-> "block", block |-> given + 1])
           /\ given' = given + 1 /\ told' = told
  <2>1. [kind |-> "block", block |-> given + 1] \in Segment
    BY <1>1, Bounds DEF ReadTypeOK, Segment
  <2>2. Served([kind |-> "block", block |-> given + 1])
    BY <1>1 DEF Serve, Served
  <2>3. QED
    BY <2>1, <2>2
<1>2. CASE given + 1 = NBlocks /\ Serve([kind |-> "last", block |-> NBlocks])
           /\ given' = NBlocks /\ told' = TRUE
  <2>1. [kind |-> "last", block |-> NBlocks] \in Segment
    BY <1>2, Bounds DEF ReadTypeOK, Segment
  <2>2. Served([kind |-> "last", block |-> NBlocks])
    BY <1>2 DEF Serve, Served
  <2>3. QED
    BY <2>1, <2>2
<1>3. ASSUME NEW kind \in IF told THEN {"empty", "past"} ELSE {"eof", "empty"},
             given = NBlocks, Serve(Bare(kind)), told' = TRUE, given' = given
      PROVE  \E r \in Segment : Served(r)
  <2>1. Bare(kind) \in Segment
    BY <1>3 DEF Segment, Bare
  <2>2. Served(Bare(kind))
    BY <1>3 DEF Serve, Served, Bare
  <2>3. QED
    BY <2>1, <2>2
<1>4. CASE Serve(Bare("error")) /\ UNCHANGED blob
  <2>1. Bare("error") \in Segment
    BY DEF Segment, Bare
  <2>2. Served(Bare("error"))
    BY <1>4 DEF Serve, Served, Bare, blob
  <2>3. QED
    BY <2>1, <2>2
<1>5. QED
  BY <1>1, <1>2, <1>3, <1>4 DEF ServeSegment

LEMMA InvServe == Inv /\ ServeSegment => Inv'
<1> SUFFICES ASSUME Inv, ServeSegment
             PROVE  Inv'
  OBVIOUS
<1> DEFINE n == Len(replies)
<1>0. /\ ReadTypeOK /\ Counters /\ InOrder /\ Shape /\ Progress /\ AtPc /\ RequestsBounded
      /\ n \in Nat /\ Len(out) \in Nat
  BY DEF Inv, ReadTypeOK
<1>1. /\ UNCHANGED <<stage, alive, window, pending, stop, eof, failed, out, closeRefused, outcome>>
      /\ UNCHANGED <<enqueued, written, answered, drained, broken>>
      /\ n < written
  BY DEF ServeSegment, Serve, local, ending
<1>2. PICK r \in Segment : Served(r)
  BY <1>0, ServeCases
<1>3. /\ replies' \in Seq(Segment)
      /\ Len(replies') = n + 1
      /\ \A i \in 1..n : replies'[i] = replies[i]
      /\ replies'[n + 1] = r
  BY <1>0, <1>2, AppendProperties DEF Served, ReadTypeOK
<1>4. ReadTypeOK' /\ Counters' /\ InOrder' /\ AtPc'
  <2>1. given' \in 0..NBlocks /\ told' \in BOOLEAN
    <3>1. told \in BOOLEAN /\ given \in 0..NBlocks
      BY <1>0 DEF ReadTypeOK
    <3>2. given' \in 0..NBlocks
      BY <1>2, <3>1, Bounds DEF Served
    <3>3. told' = told \/ told' = TRUE
      BY <1>2 DEF Served
    <3>4. QED
      BY <3>1, <3>2, <3>3
  <2>2. ReadTypeOK'
    BY <1>0, <1>1, <1>3, <2>1 DEF ReadTypeOK
  <2>3. QED
    BY <1>0, <1>1, <1>3, <2>2 DEF Counters, InOrder, AtPc
<1>5. /\ \A i \in 1..(n + 1) : Plain(i)' <=> Plain(i)
      /\ Plain(n + 1)' <=> Plain(n + 1) /\ r.kind = "block"
  BY <1>0, <1>3 DEF Plain
<1>6. Shape'
  <2>1. ASSUME Plain(n + 1)
        PROVE  /\ r.kind # "past"
               /\ r.kind = "block" => r.block = n + 1 /\ given' = n + 1 /\ ~told'
               /\ r.kind = "last" => r.block = n + 1 /\ n + 1 = NBlocks
               /\ r.kind \in {"eof", "empty"} => n + 1 = NBlocks + 1 /\ r.block = 0
    <3>1. given = n /\ ~told
      BY <1>0, <2>1 DEF Shape
    <3>2. QED
      BY <1>0, <1>2, <3>1, Bounds DEF Served
  <2>2. ASSUME NEW i \in 1..n, Plain(i)'
        PROVE  /\ replies'[i].kind # "past"
               /\ replies'[i].kind = "block" => replies'[i].block = i
               /\ replies'[i].kind = "last" => replies'[i].block = i /\ i = NBlocks
               /\ replies'[i].kind \in {"eof", "empty"} =>
                    i = NBlocks + 1 /\ replies'[i].block = 0
    BY <1>0, <1>3, <1>5, <2>2 DEF Shape
  <2>3. QED
    BY <1>0, <1>3, <1>5, <2>1, <2>2 DEF Shape
<1>7. Progress'
  <2>1. drained \in 0..n
    BY <1>0 DEF InOrder, Counters
  <2>2. /\ Plain(drained + 1)' <=> Plain(drained + 1)
        /\ Failed(drained)' <=> Failed(drained)
    BY <1>0, <1>1, <1>3, <2>1 DEF Plain, Failed
  <2>3. QED
    BY <1>0, <1>1, <2>2 DEF Progress
<1>8. RequestsBounded'
  <2>1. CASE n = 0
    <3>1. enqueued = 1
      BY <1>0, <1>1, <2>1 DEF InOrder, Counters, Progress, ReadTypeOK
    <3>2. QED
      BY <1>0, <1>1, <3>1 DEF RequestsBounded
  <2>2. CASE n > 0
    <3>1. replies'[1] = replies[1] /\ replies # <<>>
      BY <1>0, <1>3, <2>2 DEF ReadTypeOK
    <3>2. QED
      BY <1>0, <1>1, <3>1 DEF RequestsBounded
  <2>3. QED
    BY <1>0, <2>1, <2>2
<1>9. QED
  BY <1>4, <1>6, <1>7, <1>8 DEF Inv

(* Sending. *)
LEMMA InvRefill == Inv /\ AskSegments => Inv'
<1> SUFFICES ASSUME Inv, AskSegments
             PROVE  Inv'
  OBVIOUS
<1> DEFINE n == IF stop THEN 0 ELSE window - pending
<1>0. ReadTypeOK /\ Counters /\ InOrder /\ Shape /\ Progress /\ AtPc /\ RequestsBounded
  BY DEF Inv
<1>1. /\ UNCHANGED <<written, replies, answered, drained, broken>>
      /\ UNCHANGED <<alive, given, told, window, stop, eof, failed, out, closeRefused, outcome>>
      /\ stage = "fill" /\ stage' = "flush"
      /\ enqueued' = enqueued + n /\ pending' = pending + n
  BY DEF AskSegments, Enqueue, blob, ending
<1>2. n \in Nat /\ (stop \/ pending + n = window) /\ window \in Nat /\ window > 0
      /\ (stop => n = 0) /\ pending \in Nat /\ window <= Window
  BY <1>0, Bounds DEF ReadTypeOK
<1> HIDE DEF n
<1>3. ReadTypeOK'
  BY <1>0, <1>1, <1>2, Bounds DEF ReadTypeOK
<1>4. Counters' /\ InOrder' /\ AtPc'
  BY <1>0, <1>1, <1>2, <1>3 DEF Counters, InOrder, AtPc, ReadTypeOK
<1>5. Shape' /\ Progress'
  BY <1>0, <1>1 DEF Shape, Progress, Plain, Failed
<1>6. RequestsBounded'
  <2>1. CASE stop
    BY <1>0, <1>1, <1>2, <2>1 DEF RequestsBounded, Counters
  <2>2. CASE ~stop
    <3>1. drained <= NBlocks
      <4>1. CASE drained = 0
        BY <4>1, Bounds
      <4>2. CASE drained > 0
        <5>1. drained \in 1..Len(replies) /\ Plain(drained) /\ replies[drained].kind = "block"
          BY <1>0, <2>2, <4>2 DEF InOrder, Counters, Progress, Plain, ReadTypeOK
        <5>2. replies[drained] \in Segment
          BY <1>0, <5>1, ElementOfSeq DEF ReadTypeOK
        <5>3. QED
          BY <1>0, <5>1, <5>2, ReplyTyped, Bounds DEF Shape
      <4>3. QED
        BY <1>0, <4>1, <4>2 DEF Counters
    <3>2. enqueued + n = drained + window
      BY <1>0, <1>2, <2>2 DEF InOrder, Counters, ReadTypeOK
    <3>3. ASSUME replies # <<>>, replies[1].kind # "block"
          PROVE  enqueued + n = 1
      <4>1. drained = 0
        BY <1>0, <2>2, <3>3 DEF Progress, Plain, Counters
      <4>2. QED
        BY <1>0, <3>2, <4>1 DEF Progress
    <3>4. QED
      BY <1>0, <1>1, <1>2, <3>1, <3>2, <3>3, Bounds DEF RequestsBounded, Counters
  <2>3. QED
    BY <1>0, <2>1, <2>2 DEF ReadTypeOK
<1>7. QED
  BY <1>3, <1>4, <1>5, <1>6 DEF Inv

(* The answer that is read, and what it does to the state of the reading. *)
LEMMA InvRead ==
    ASSUME Inv, ReadExcess \/ ReadLast \/ ReadBlock \/ ReadEmpty \/ ReadError
    PROVE  Inv'
<1>0. /\ ReadTypeOK /\ Counters /\ InOrder /\ Shape /\ Progress /\ AtPc /\ RequestsBounded
      /\ Len(replies) \in Nat /\ Len(out) \in Nat
  BY DEF Inv, ReadTypeOK
<1>1. PICK r \in Segment : ReadOne(r)
                         /\ (ReadExcess => r.kind \notin {"past", "error"})
                         /\ (ReadLast => /\ r.kind \in {"last", "eof"}
                                         /\ out' = IF r.block = 0 THEN out ELSE Append(out, r.block))
                         /\ (ReadBlock => r.kind = "block" /\ out' = Append(out, r.block))
                         /\ (ReadEmpty => r.kind = "empty")
                         /\ (ReadError => /\ r.kind \in {"past", "error"}
                                          /\ failed' = (failed \/ ~(stop /\ r.kind = "past")))
  <2>1. CASE ReadEmpty
    <3>1. Bare("empty") \in Segment
      BY DEF Bare, Segment
    <3>2. QED
      BY <2>1, <3>1 DEF ReadEmpty, ReadExcess, ReadLast, ReadBlock, ReadError, ReadOne, Drain, Bare
  <2>2. CASE ReadExcess
    BY <2>2 DEF ReadEmpty, ReadExcess, ReadLast, ReadBlock, ReadError, ReadOne, Drain, Bare
  <2>3. CASE ReadLast
    BY <2>3 DEF ReadEmpty, ReadExcess, ReadLast, ReadBlock, ReadError, ReadOne, Drain, Bare
  <2>4. CASE ReadBlock
    BY <2>4 DEF ReadEmpty, ReadExcess, ReadLast, ReadBlock, ReadError, ReadOne, Drain, Bare
  <2>5. CASE ReadError
    BY <2>5 DEF ReadEmpty, ReadExcess, ReadLast, ReadBlock, ReadError, ReadOne, Drain, Bare
  <2>6. QED
    BY <2>1, <2>2, <2>3, <2>4, <2>5
<1>2. /\ UNCHANGED <<enqueued, written, replies, answered, broken, alive, given, told, closeRefused, outcome>>
      /\ stage = "read" /\ stage' = "fill"
      /\ drained < answered /\ r = replies[drained + 1] /\ drained' = drained + 1
      /\ pending' = pending - 1
  BY <1>1 DEF ReadOne, Drain, blob, ending, ReadEmpty, ReadExcess, ReadLast, ReadBlock, ReadError
<1>3. /\ r.kind \in {"block", "last", "eof", "empty", "past", "error"}
      /\ r.kind \in {"block", "last"} => r.block \in 1..NBlocks
      /\ r.kind \notin {"block", "last"} => r.block = 0
  BY ReplyTyped
<1>4. /\ Plain(drained + 2) <=> Plain(drained + 1) /\ r.kind = "block"
      /\ Failed(drained + 1) <=> Failed(drained) \/ r.kind = "error"
  <2>1. drained \in Nat /\ replies[drained + 1] = r
    BY <1>0, <1>2 DEF Counters
  <2>2. \A j : j \in 1..(drained + 1) <=> j \in 1..drained \/ j = drained + 1
    BY <2>1
  <2>3. 1..(drained + 2 - 1) = 1..(drained + 1) /\ 1..(drained + 1 - 1) = 1..drained
    BY <2>1
  <2>4. QED
    BY <2>1, <2>2, <2>3 DEF Plain, Failed
<1>5. ASSUME ~stop
      PROVE  /\ ~Failed(drained) /\ ~failed /\ ~eof /\ Len(out) = drained
             /\ r.kind # "past"
             /\ r.kind \in {"block", "last"} => r.block = drained + 1
             /\ r.kind = "last" => drained + 1 = NBlocks
             /\ r.kind \in {"eof", "empty"} => drained = NBlocks
  <2>1. Plain(drained + 1) /\ drained + 1 \in 1..Len(replies)
    BY <1>0, <1>2, <1>5 DEF Progress, InOrder, Counters
  <2>2. ~Failed(drained)
    BY <1>0, <2>1 DEF Plain, Failed, Counters
  <2>3. QED
    BY <1>0, <1>2, <1>5, <2>1, <2>2, Bounds DEF Progress, Shape, Counters
<1>6. Counters' /\ InOrder' /\ AtPc' /\ Shape' /\ RequestsBounded'
  BY <1>0, <1>2 DEF Counters, InOrder, AtPc, Shape, Plain, RequestsBounded, ReadTypeOK
<1>7. ASSUME NEW b \in 1..NBlocks, out' = Append(out, b)
      PROVE  /\ out' \in Seq(1..NBlocks) /\ Len(out') = Len(out) + 1
             /\ \A i \in 1..Len(out) : out'[i] = out[i]
             /\ out'[Len(out) + 1] = b
  BY <1>0, <1>7, AppendProperties DEF ReadTypeOK
<1>8. ReadTypeOK'
  <2>1. out' \in Seq(1..NBlocks)
    BY <1>0, <1>1, <1>3, <1>7 DEF ReadExcess, ReadLast, ReadBlock, ReadEmpty, ReadError, ReadTypeOK
  <2>2. window' \in {1, Window} /\ pending' \in 0..window'
    BY <1>0, <1>2, Bounds DEF ReadExcess, ReadLast, ReadBlock, ReadEmpty, ReadError, ReadTypeOK, AtPc
  <2>3. {stop', eof', failed'} \subseteq BOOLEAN
    BY <1>0, <1>1 DEF ReadExcess, ReadLast, ReadBlock, ReadEmpty, ReadError, ReadTypeOK
  <2>4. QED
    BY <1>0, <1>2, <2>1, <2>2, <2>3 DEF ReadTypeOK
<1>9. Plain(drained + 1)' <=> Plain(drained + 2)
  BY <1>0, <1>2 DEF Plain, Counters
<1>10. Failed(drained)' <=> Failed(drained + 1)
  BY <1>2 DEF Failed
<1>11. drained' # 0
  BY <1>0, <1>2 DEF Counters
<1>12. Progress'
  <2>1. CASE ReadExcess
    BY <1>0, <1>1, <1>4, <1>10, <1>11, <2>1 DEF ReadExcess, Progress
  <2>2. CASE ReadLast
    <3>1. ~stop /\ stop' /\ r.kind \in {"last", "eof"} /\ failed' = failed
      BY <1>1, <2>2 DEF ReadLast
    <3>2. /\ Len(out') = NBlocks
          /\ \A i \in 1..Len(out') : out'[i] = i
      <4>1. CASE r.kind = "last"
        <5>1. r.block = drained + 1 /\ r.block \in 1..NBlocks /\ r.block # 0
              /\ drained + 1 = NBlocks /\ Len(out) = drained
          BY <1>0, <1>3, <1>5, <3>1, <4>1 DEF Counters
        <5>2. out' = Append(out, r.block)
          BY <1>1, <2>2, <5>1
        <5>3. QED
          BY <1>0, <1>7, <5>1, <5>2 DEF Progress, Counters
      <4>2. CASE r.kind = "eof"
        <5>1. out' = out /\ Len(out) = NBlocks
          BY <1>0, <1>1, <1>3, <1>5, <2>2, <3>1, <4>2
        <5>2. QED
          BY <1>0, <5>1 DEF Progress
      <4>3. QED
        BY <3>1, <4>1, <4>2
    <3>3. ~Failed(drained)' /\ ~failed'
      BY <1>4, <1>5, <1>10, <3>1
    <3>4. QED
      BY <1>11, <3>1, <3>2, <3>3 DEF Progress
  <2>3. CASE ReadBlock
    BY <1>0, <1>1, <1>2, <1>3, <1>4, <1>5, <1>7, <1>9, <1>10, <1>11, <2>3
    DEF ReadBlock, Progress, Counters
  <2>4. CASE ReadEmpty
    BY <1>0, <1>1, <1>4, <1>5, <1>10, <1>11, <2>4 DEF ReadEmpty, Progress
  <2>5. CASE ReadError
    BY <1>0, <1>1, <1>4, <1>5, <1>10, <1>11, <2>5 DEF ReadError, Progress, ReadTypeOK
  <2>6. QED
    BY <2>1, <2>2, <2>3, <2>4, <2>5
<1>13. QED
  BY <1>6, <1>8, <1>12 DEF Inv

LEMMA InvNext == Inv /\ [ReadNext]_readVars => Inv'
<1> SUFFICES ASSUME Inv, [ReadNext]_readVars
             PROVE  Inv'
  OBVIOUS
<1>0. /\ ReadTypeOK /\ Counters /\ InOrder /\ Shape /\ Progress /\ AtPc /\ RequestsBounded
      /\ Len(replies) \in Nat
  BY DEF Inv, ReadTypeOK
<1>1. CASE UNCHANGED <<replies, given, told, window, stop, eof, failed, out, pending,
                       enqueued, drained>>
           /\ ReadTypeOK' /\ Counters' /\ InOrder' /\ AtPc'
  BY <1>0, <1>1 DEF Inv, Shape, Plain, Progress, Failed, RequestsBounded
<1>2. CASE Open \/ Close
  <2>1. /\ UNCHANGED <<wire, blob, local>>
        /\ alive' \in BOOLEAN /\ closeRefused' \in BOOLEAN /\ outcome' \in {"none", "data", "error"}
        /\ stage' \in {"fill", "done"}
    BY <1>0, <1>2 DEF Open, Close, Closed, CloseRefused, Outcome, ReadTypeOK
  <2>2. ReadTypeOK' /\ Counters' /\ InOrder'
    BY <1>0, <2>1 DEF wire, blob, local, ending, ReadTypeOK, Counters, InOrder
  <2>3. AtPc'
    BY <1>0, <1>2, <2>1 DEF Open, Close, Closed, CloseRefused, Outcome, wire, local, ending, AtPc, Counters, InOrder
  <2>4. QED
    BY <1>0, <1>1, <2>1, <2>2, <2>3 DEF wire, blob, local
<1>3. CASE FlushRequest
  BY <1>0, <1>1, <1>3
  DEF FlushRequest, Write, blob, local, ending, ReadTypeOK, Counters, InOrder, AtPc
<1>4. CASE RequestsFlushed
  BY <1>0, <1>1, <1>4
  DEF RequestsFlushed, wire, blob, local, ending, ReadTypeOK, Counters, InOrder, AtPc
<1>5. CASE AnswerSegment
  BY <1>0, <1>1, <1>5
  DEF AnswerSegment, Answer, blob, local, ending, ReadTypeOK, Counters, InOrder, AtPc
<1>6. CASE ReadLinkFails
  BY <1>0, <1>1, <1>6
  DEF ReadLinkFails, MarkBroken, blob, local, ending, ReadTypeOK, Counters, InOrder, AtPc
<1>7. CASE UNCHANGED readVars
  BY <1>0, <1>1, <1>7
  DEF readVars, wire, blob, local, ending, ReadTypeOK, Counters, InOrder, AtPc
<1>8. QED
  BY <1>2, <1>3, <1>4, <1>5, <1>6, <1>7, InvServe, InvRefill, InvRead DEF ReadNext, Reader

LEMMA InvHolds == ReadSpec => []Inv
BY InvInit, InvNext, PTL DEF ReadSpec

(* Types, and a window that bounds what is in flight. *)
THEOREM TypeCorrect == ReadSpec => []ReadTypeOK
<1>1. Inv => ReadTypeOK
  BY DEF Inv
<1>2. QED
  BY <1>1, InvHolds, PTL

(* All blocks in order, or an error because an answer was one. *)
THEOREM BlobWhole == ReadSpec => []OutcomeRight
<1>1. Inv => OutcomeRight
  <2> SUFFICES ASSUME Inv
               PROVE  OutcomeRight
    OBVIOUS
  <2>0. /\ ReadTypeOK /\ Counters /\ InOrder /\ Progress /\ AtPc
        /\ Len(replies) \in Nat
    BY DEF Inv, ReadTypeOK
  <2>1. Len(out) = NBlocks => out = [i \in 1..NBlocks |-> i]
    BY <2>0 DEF Progress, ReadTypeOK
  <2>2. ASSUME stage = "done", ~broken, replies # <<>>
        PROVE  /\ stop /\ drained = Len(replies)
               /\ outcome = IF failed \/ closeRefused THEN "error" ELSE "data"
    <3>1. Len(replies) > 0
      BY <2>0, <2>2 DEF ReadTypeOK
    <3>2. QED
      BY <2>0, <2>2, <3>1 DEF AtPc, InOrder, Counters
  <2>3. QED
    BY <2>0, <2>1, <2>2 DEF OutcomeRight, Progress, Failed
<1>2. QED
  BY <1>1, InvHolds, PTL

(* The close of the blob reads its own answer. *)
THEOREM CloseReadsItsAnswer == ReadSpec => []AnswersDrained
<1>1. Inv => AnswersDrained
  BY DEF Inv, AnswersDrained, Quiet, AtPc, InOrder, Counters
<1>2. QED
  BY <1>1, InvHolds, PTL

(* A handle is left behind only if the server refused to close it, which   *)
(* the caller is told.                                                     *)
THEOREM HandlesReleased == ReadSpec => []HandleReleased
<1>1. Inv => HandleReleased
  BY DEF Inv, HandleReleased, AtPc
<1>2. QED
  BY <1>1, InvHolds, PTL

(* The bound on the requests. *)
THEOREM RequestBound == ReadSpec => []RequestsBounded
<1>1. Inv => RequestsBounded
  BY DEF Inv
<1>2. QED
  BY <1>1, InvHolds, PTL
===============================================================================
