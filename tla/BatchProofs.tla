----------------------------- MODULE BatchProofs -----------------------------
(***************************************************************************)
(* Theorems about a Batch, for any number of rows and BLOBs, any size of   *)
(* packets and a refusal at any request.                                   *)
(***************************************************************************)
EXTENDS Batch, SequenceLemmas

(* A Batch the caller has is one the server has, or its statement is gone, *)
(* unless an op_batch_create was refused.                                  *)
HandleInv ==
    /\ ~createRefused /\ open => srvBatch \/ ~srvStmt
    /\ ~createRefused /\ ~open => ~srvStmt

(* A refusal before the last packet changes no handle. *)
LEMMA EarlyStops ==
    BpbRefused \/ BlobsRefused \/ RegsRefused \/ RowsRefused =>
        UNCHANGED <<open, bpb, srvStmt, srvBatch, createRefused>>
  BY DEF BpbRefused, BlobsRefused, RegsRefused, RowsRefused, StopsEarly

(* The three ends of the last packet and the exec. *)
LEMMA Ran ==
    ASSUME Run
    PROVE  /\ blobs' = << >> /\ UNCHANGED <<open, bpb, blobStream>>
           /\ \/ \E renewed \in BOOLEAN : blobStream /\ Renew(renewed)
              \/ ~blobStream /\ UNCHANGED <<bpbWaits, bpbRefused, srvStmt, srvBatch,
                                            srvSegmented, createRefused>>
<1>1. blobs' = << >> /\ UNCHANGED <<open, bpb, blobStream>>
  BY DEF Run, Emptied
<1>2. ASSUME NEW accepted, NEW last, RunPackets(accepted, last)
      PROVE  \/ \E renewed \in BOOLEAN : blobStream /\ Renew(renewed)
             \/ ~blobStream /\ UNCHANGED <<bpbWaits, bpbRefused, srvStmt, srvBatch,
                                           srvSegmented, createRefused>>
  <2>1. PICK renewed \in BOOLEAN :
            IF blobStream THEN Renew(renewed)
            ELSE UNCHANGED <<nextId, bpbWaits, bpbRefused, srvStmt, srvBatch,
                             srvSegmented, createRefused>>
    BY <1>2 DEF RunPackets
  <2>2. QED
    BY <2>1
<1>3. \E accepted, last : RunPackets(accepted, last)
  BY DEF Run
<1>4. QED
  BY <1>1, <1>2, <1>3

LEMMA HandleInductive == HandleInv /\ [Next]_vars => HandleInv'
<1> SUFFICES ASSUME HandleInv, [Next]_vars
             PROVE  HandleInv'
  OBVIOUS
<1>1. CASE Create
  BY <1>1 DEF Create, HandleInv
<1>2. CASE SetDefaultBpb \/ NewBlob \/ Add
  BY <1>2 DEF SetDefaultBpb, NewBlob, Add, Remembered, server, HandleInv
<1>3. CASE Cancel
  BY <1>3 DEF Cancel, Emptied, Remembered, HandleInv
<1>4. CASE Close
  BY <1>4 DEF Close, HandleInv
<1>5. CASE Execute
  <2>1. CASE BpbRefused \/ BlobsRefused \/ RegsRefused \/ RowsRefused
    BY <2>1, EarlyStops DEF HandleInv
  <2>2. ASSUME Run, NEW renewed \in BOOLEAN, Renew(renewed), UNCHANGED open
        PROVE  HandleInv'
    BY <1>5, <2>2 DEF Execute, Renew, HandleInv
  <2>3. CASE Run
    BY <2>2, <2>3, Ran DEF HandleInv
  <2>4. QED
    BY <1>5, <2>1, <2>3 DEF Execute
<1>6. CASE UNCHANGED vars
  BY <1>6 DEF vars, client, server, history, HandleInv
<1>7. QED
  BY <1>1, <1>2, <1>3, <1>4, <1>5, <1>6 DEF Next

(***************************************************************************)
(* No statement of a batch is left in the server, whatever was refused in  *)
(* executes, renewals and the close, but for a refused op_batch_create.    *)
(***************************************************************************)
THEOREM NoStatementLost == Spec => []StatementReleased
<1>1. Init => HandleInv
  BY DEF Init, HandleInv
<1>2. HandleInv => StatementReleased
  BY DEF HandleInv, StatementReleased
<1>3. QED
  BY <1>1, <1>2, HandleInductive, PTL DEF Spec

-------------------------------------------------------------------------------
(* The framing of BLOBs.  The batch has no BPB without a BLOB column.      *)
Framed ==
    /\ blobs \in Seq([id : Nat, content : Nat, segmented : BOOLEAN])
    /\ nextId \in Nat /\ contents \in Nat
    /\ \A i \in 1..Len(blobs) : blobs[i].segmented = (bpb = "segmented")
    /\ srvBatch /\ ~bpbRefused => bpbWaits \/ srvSegmented = (bpb = "segmented")

LEMMA FramedByBpb ==
    Framed /\ srvBatch /\ ~bpbRefused => SegmentedNext = (bpb = "segmented")
  BY DEF Framed, SegmentedNext

LEMMA FramedInductive == Framed /\ [Next]_vars => Framed'
<1> SUFFICES ASSUME Framed, [Next]_vars
             PROVE  Framed'
  OBVIOUS
<1> DEFINE B == [id : Nat, content : Nat, segmented : BOOLEAN]
<1>0. << >> \in Seq(B) /\ Len(<< >>) = 0
  BY EmptySeq
<1>1. CASE Create
  <2>1. /\ blobs' = << >> /\ nextId' = 1 /\ contents' = 0
        /\ srvSegmented' = FALSE /\ bpb' = "none"
    BY <1>1 DEF Create, Anew
  <2>2. srvSegmented' = (bpb' = "segmented")
    BY <2>1
  <2>3. QED
    BY <1>0, <2>1, <2>2 DEF Framed
<1>2. CASE SetDefaultBpb
  <2>1. blobs = << >> /\ bpbWaits' = TRUE /\ UNCHANGED <<blobs, nextId, contents>>
    BY <1>2 DEF SetDefaultBpb, waiting, given
  <2>2. \A i \in 1..Len(blobs') : FALSE
    BY <1>0, <2>1
  <2>3. QED
    BY <1>0, <2>1, <2>2 DEF Framed
<1>3. CASE NewBlob
  <2>1. nextId' \in Nat /\ contents' \in Nat
    BY <1>3 DEF NewBlob, Framed
  <2>2. CASE UNCHANGED blobs
    BY <1>3, <2>1, <2>2 DEF NewBlob, server, Framed
  <2>3. CASE blobs' = Append(blobs, [id |-> nextId, content |-> contents + 1,
                                     segmented |-> bpb = "segmented"])
    <3> DEFINE b == [id |-> nextId, content |-> contents + 1, segmented |-> bpb = "segmented"]
    <3>1. b \in B /\ blobs \in Seq(B)
      BY DEF Framed
    <3>2. /\ blobs' \in Seq(B)
          /\ Len(blobs) \in Nat /\ Len(blobs') = Len(blobs) + 1
          /\ \A i \in 1..Len(blobs) : blobs'[i] = blobs[i]
          /\ blobs'[Len(blobs) + 1] = b
      BY <2>3, <3>1, AppendProperties, LenProperties
    <3>3. ASSUME NEW i \in 1..Len(blobs')
          PROVE  blobs'[i].segmented = (bpb = "segmented")
      <4>1. i \in 1..Len(blobs) \/ i = Len(blobs) + 1
        BY <3>2
      <4>2. CASE i \in 1..Len(blobs)
        BY <3>2, <4>2 DEF Framed
      <4>3. CASE i = Len(blobs) + 1
        <5>1. blobs'[i] = b
          BY <3>2, <4>3
        <5>2. QED
          BY <5>1
      <4>4. QED
        BY <4>1, <4>2, <4>3
    <3>4. QED
      BY <1>3, <2>1, <3>2, <3>3 DEF NewBlob, server, Framed
  <2>4. QED
    BY <1>3, <2>2, <2>3 DEF NewBlob
<1>4. CASE Add
  BY <1>4 DEF Add, server, Framed
<1>5. CASE Cancel
  BY <1>0, <1>5 DEF Cancel, Emptied, given, Framed
<1>6. CASE Close
  BY <1>0, <1>6 DEF Close, Anew, Framed
<1>7. CASE Execute
  <2>1. CASE BpbRefused
    BY <1>0, <2>1 DEF BpbRefused, StopsEarly, given, Framed
  <2>2. CASE BlobsRefused \/ RegsRefused \/ RowsRefused
    <3>1. /\ blobs' = << >> /\ srvSegmented' = SegmentedNext
          /\ UNCHANGED <<bpb, nextId, contents, bpbRefused, srvBatch>>
      BY <2>2 DEF BlobsRefused, RegsRefused, RowsRefused, StopsEarly, given
    <3>2. srvBatch /\ ~bpbRefused => srvSegmented' = (bpb = "segmented")
      BY <3>1, FramedByBpb
    <3>3. QED
      BY <1>0, <3>1, <3>2 DEF Framed
  <2>3. CASE Run
    <3>1. blobs' = << >> /\ UNCHANGED <<bpb, contents>>
      BY <2>3 DEF Run, Emptied, given
    <3>2. nextId' \in Nat
      <4>1. ASSUME NEW accepted, NEW last, RunPackets(accepted, last)
            PROVE  nextId' \in {nextId, 1}
        <5>1. \/ \E renewed \in BOOLEAN : Renew(renewed)
              \/ UNCHANGED nextId
          BY <4>1 DEF RunPackets
        <5>2. QED
          BY <5>1 DEF Renew
      <4>2. \E accepted, last : RunPackets(accepted, last)
        BY <2>3 DEF Run
      <4>3. QED
        BY <4>1, <4>2 DEF Framed
    <3>3. ASSUME NEW renewed \in BOOLEAN, Renew(renewed)
          PROVE  srvBatch' => bpbWaits' \/ srvSegmented' = (bpb = "segmented")
      BY <3>3 DEF Renew
    <3>4. srvBatch' /\ ~bpbRefused' => bpbWaits' \/ srvSegmented' = (bpb = "segmented")
      <4>1. CASE \E renewed \in BOOLEAN : Renew(renewed)
        BY <3>3, <4>1
      <4>2. CASE UNCHANGED <<bpbWaits, bpbRefused, srvBatch, srvSegmented>>
        BY <4>2 DEF Framed
      <4>3. QED
        BY <2>3, <4>1, <4>2, Ran
    <3>5. QED
      BY <1>0, <3>1, <3>2, <3>4 DEF Framed
  <2>4. QED
    BY <1>7, <2>1, <2>2, <2>3 DEF Execute
<1>8. CASE UNCHANGED vars
  BY <1>8 DEF vars, client, waiting, given, server, history, Framed
<1>9. QED
  BY <1>1, <1>2, <1>3, <1>4, <1>5, <1>6, <1>7, <1>8 DEF Next

LEMMA FramedInit == Init => Framed
<1>1. << >> \in Seq([id : Nat, content : Nat, segmented : BOOLEAN]) /\ Len(<< >>) = 0
  BY EmptySeq
<1>2. QED
  BY <1>1 DEF Init, Empty, Framed

(***************************************************************************)
(* A BLOB that waits is framed the way the server will read it, through    *)
(* refused streams and renewals that forget the BPB, unless the server     *)
(* refused that BPB (the second part of RightBlob).                        *)
(***************************************************************************)
THEOREM BlobsFramedRight ==
    Spec => [](srvBatch /\ ~bpbRefused =>
                   \A i \in 1..Len(blobs) : blobs[i].segmented = SegmentedNext)
<1>1. Framed => (srvBatch /\ ~bpbRefused =>
                     \A i \in 1..Len(blobs) : blobs[i].segmented = SegmentedNext)
  BY FramedByBpb DEF Framed
<1>2. QED
  BY <1>1, FramedInit, FramedInductive, PTL DEF Spec

-------------------------------------------------------------------------------
(* Types, with what bounds the numbers.                                    *)
RunRow == [n : 1..MaxRows, want : BlobRef \cup {NoBlob}, seen : SUBSET (1..MaxBlobs)]

Types ==
    /\ TypeOK
    /\ ran \in Seq(RunRow)
    /\ Len(pending) <= rows
    /\ nextId <= contents + 1

(* What a batch knows as BLOBs, and what it makes of rows that it runs.    *)
Known == srvBlobs \cup Sent \cup ToSet(regs)

RunOf(told, known) ==
    [i \in 1..Len(told) |-> [n |-> told[i].n, want |-> told[i].blob,
                             seen |-> Seen(told[i], known)]]

(* The rows of some packets are rows. *)
LEMMA RowsOfType ==
    ASSUME TypeOK, NEW packets
    PROVE  /\ RowsOf(packets) \in Seq(BatchRow)
           /\ srvRows \o RowsOf(packets) \in Seq(BatchRow)
<1>1. pending \in Seq(BatchRow) /\ srvRows \in Seq(BatchRow)
  BY DEF TypeOK
<1>2. RowsOf(packets) \in Seq(BatchRow)
  BY <1>1, WhereType DEF RowsOf
<1>3. QED
  BY <1>1, <1>2, ConcatProperties

(* What is known are BLOBs with their contents. *)
LEMMA KnownType == TypeOK => Known \subseteq BlobRef
<1> SUFFICES ASSUME TypeOK
             PROVE  Known \subseteq BlobRef
  OBVIOUS
<1>1. ASSUME NEW b \in ToSet(blobs)
      PROVE  [id |-> b.id, content |-> b.content] \in BlobRef
  <2>1. b \in BlobToSend
    BY <1>1, ElementOfSeq, LenProperties DEF TypeOK, ToSet
  <2>2. QED
    BY <2>1 DEF BlobToSend, BlobRef
<1>2. \A b \in ToSet(regs) : b \in BlobRef
  BY ElementOfSeq, LenProperties DEF TypeOK, ToSet
<1>3. QED
  BY <1>1, <1>2 DEF TypeOK, Known, Sent

(* The last row that ran has a number. *)
LEMMA LastRanType ==
    ASSUME ran \in Seq(RunRow)
    PROVE  /\ LastRan \in Seq(RunRow)
           /\ \A i \in 1..Len(LastRan) : i = 1 /\ \E j \in 1..Len(ran) : LastRan[i] = ran[j]
<1>1. CASE ran = << >>
  BY <1>1, EmptySeq DEF LastRan
<1>2. CASE ran # << >>
  <2>1. Len(ran) \in 1..Len(ran) /\ ran[Len(ran)] \in RunRow
    BY <1>2, EmptySeq, ElementOfSeq
  <2>2. LastRan = << ran[Len(ran)] >>
    BY <1>2 DEF LastRan, Last
  <2>3. QED
    BY <2>1, <2>2
<1>3. QED
  BY <1>1, <1>2

(* What an exec makes of the rows it is told. *)
LEMMA RunOfType ==
    ASSUME NEW told \in Seq(BatchRow), NEW known \in SUBSET BlobRef
    PROVE  /\ RunOf(told, known) \in Seq(RunRow)
           /\ Len(RunOf(told, known)) = Len(told)
           /\ \A i \in 1..Len(told) : /\ RunOf(told, known)[i].n = told[i].n
                                      /\ RunOf(told, known)[i].want = told[i].blob
                                      /\ RunOf(told, known)[i].seen = Seen(told[i], known)
<1>1. Len(told) \in Nat
  BY LenProperties
<1>2. ASSUME NEW i \in 1..Len(told)
      PROVE  [n |-> told[i].n, want |-> told[i].blob, seen |-> Seen(told[i], known)] \in RunRow
  <2>1. told[i] \in BatchRow
    BY ElementOfSeq
  <2>2. Seen(told[i], known) \subseteq 1..MaxBlobs
    BY DEF Seen, BlobRef
  <2>3. QED
    BY <2>1, <2>2 DEF BatchRow, RunRow
<1>3. RunOf(told, known) \in [1..Len(told) -> RunRow]
  BY <1>2 DEF RunOf
<1>4. QED
  BY <1>1, <1>3 DEF RunOf

(* What the end of an execute leaves, whichever of its requests failed:    *)
(* nothing waits; the rows `have` were in the server, and some of them ran *)
(* and are gone, or none ran and they may still be there.                  *)
LEMMA RunEnds ==
    ASSUME TypeOK, Run
    PROVE  /\ pending' = << >> /\ blobs' = << >> /\ regs' = << >> /\ srvBlobs' = {}
           /\ UNCHANGED <<open, blobStream, bpb, rows, contents>>
           /\ \/ nextId' = 1 /\ srvRows' = << >>
              \/ nextId' = nextId
           /\ {bpbWaits', bpbRefused', srvStmt', srvBatch', srvSegmented', createRefused'}
                  \subseteq BOOLEAN
           /\ srvBatch' => srvStmt'
           /\ \E packets :
                LET have == srvRows \o RowsOf(packets)
                IN  \/ /\ srvRows' = << >>
                       /\ \E k \in 0..Len(have) :
                             ran' = LastRan \o RunOf(SubSeq(have, 1, k), Known)
                    \/ srvRows' \in {<< >>, have} /\ ran' = LastRan
<1>1. /\ pending' = << >> /\ blobs' = << >> /\ regs' = << >>
      /\ UNCHANGED <<open, blobStream, bpb, rows, contents>>
  BY DEF Run, Emptied, given
<1>2. PICK packets, last : RunPackets(packets, last)
  BY DEF Run
<1> DEFINE have == srvRows \o RowsOf(packets)
<1>3. PICK renewed \in BOOLEAN, failures \in BOOLEAN, executed \in BOOLEAN :
        /\ IF executed
           THEN \E told : Runs(have, Known, told, failures)
           ELSE ran' = LastRan
        /\ IF blobStream
           THEN Renew(renewed)
           ELSE /\ IF executed
                   THEN srvRows' = <<>> /\ srvBlobs' = {}
                   ELSE /\ srvRows' \in {<<>>} \cup {h \in {have} : ExecKeepsRows}
                        /\ srvBlobs' = {}
                /\ UNCHANGED <<nextId, bpbWaits, bpbRefused, srvStmt, srvBatch,
                               srvSegmented, createRefused>>
  BY <1>2 DEF RunPackets, Known
<1> HIDE DEF have
<1>4. /\ srvBlobs' = {}
      /\ \/ nextId' = 1 /\ srvRows' = << >>
         \/ nextId' = nextId
      /\ srvRows' \in {<< >>, have} /\ (executed => srvRows' = << >>)
  BY <1>3 DEF Renew
<1>5. {bpbWaits', bpbRefused', srvStmt', srvBatch', srvSegmented', createRefused'}
          \subseteq BOOLEAN
  BY <1>3 DEF Renew, TypeOK
<1>6. srvBatch' => srvStmt'
  BY <1>3 DEF Renew, TypeOK
<1>7. executed => \E k \in 0..Len(have) :
                     ran' = LastRan \o RunOf(SubSeq(have, 1, k), Known)
  BY <1>3 DEF Runs, RunOf
<1>8. ~executed => ran' = LastRan
  BY <1>3
<1>9. QED
  BY <1>1, <1>4, <1>5, <1>6, <1>7, <1>8 DEF have

(* A row that is added has a packet; the bounds on rows and BLOBs hold.    *)
LEMMA PacketOfRow ==
    ASSUME NEW k \in Nat
    PROVE  (k \div PerPacket) + 1 \in 1..(k + 1)
<1>1. PerPacket \in Nat \ {0}
  BY BatchAssumption
<1>2. k \div PerPacket \in 0..k
  BY <1>1
<1>3. QED
  BY <1>2

(* What a call that empties the batch has to leave right.                  *)
LEMMA EmptiedTypes ==
    ASSUME Types,
           pending' = << >>, blobs' = << >>, regs' = << >>,
           UNCHANGED <<open, blobStream, bpb, rows, contents>>, nextId' \in {nextId, 1},
           srvRows' \in Seq(BatchRow), ran' \in Seq(RunRow),
           srvBlobs' \subseteq BlobRef, ~blobStream => srvBlobs' = {},
           {bpbWaits', bpbRefused', srvStmt', srvBatch', srvSegmented', createRefused'}
               \subseteq BOOLEAN,
           srvBatch' => srvStmt'
    PROVE  Types'
<1>1. /\ << >> \in Seq(BatchRow) /\ << >> \in Seq(BlobToSend) /\ << >> \in Seq(BlobRef)
      /\ Len(<< >>) = 0 /\ MaxBlobs \in Nat /\ 1 \in Id
  BY EmptySeq, BatchAssumption DEF Id
<1>2. QED
  BY <1>1 DEF Types, TypeOK

(* Every step keeps the types. *)
LEMMA TypesInductive == Types /\ [Next]_vars => Types'
<1> SUFFICES ASSUME Types, [Next]_vars
             PROVE  Types'
  OBVIOUS
<1>0. /\ << >> \in Seq(BatchRow) /\ << >> \in Seq(BlobToSend) /\ << >> \in Seq(BlobRef)
      /\ << >> \in Seq(RunRow) /\ Len(<< >>) = 0
      /\ MaxRows \in Nat /\ MaxBlobs \in Nat /\ 1 \in Id
      /\ LastRan \in Seq(RunRow)
  BY EmptySeq, BatchAssumption, LastRanType DEF Id, Types
<1> USE DEF Types, TypeOK
<1>1. CASE Create
  <2>1. {open', blobStream', srvStmt', srvBatch', createRefused'} \subseteq BOOLEAN
        /\ {bpbWaits', srvSegmented', bpbRefused'} \subseteq BOOLEAN
    BY <1>1 DEF Create, Anew
  <2>2. /\ pending' = << >> /\ blobs' = << >> /\ regs' = << >> /\ nextId' = 1
        /\ bpb' = "none" /\ rows' = 0 /\ contents' = 0 /\ srvRows' = << >>
        /\ srvBlobs' = {} /\ ran' = << >> /\ srvStmt' = TRUE
    BY <1>1 DEF Create, Anew
  <2>3. QED
    BY <1>0, <2>1, <2>2
<1>2. CASE SetDefaultBpb
  BY <1>0, <1>2 DEF SetDefaultBpb, Remembered, waiting, given, server
<1>3. CASE NewBlob
  <2>1. /\ nextId' = nextId + 1 /\ contents' = contents + 1 /\ contents < MaxBlobs
        /\ nextId \in Id /\ contents \in 0..MaxBlobs /\ nextId <= contents + 1
    BY <1>3 DEF NewBlob
  <2>2. nextId' \in Id /\ contents' \in 1..MaxBlobs /\ nextId' <= contents' + 1
    BY <1>0, <2>1 DEF Id
  <2>3. [id |-> nextId, content |-> contents + 1, segmented |-> bpb = "segmented"] \in BlobToSend
    BY <2>1, <2>2 DEF BlobToSend
  <2>4. [id |-> nextId, content |-> contents + 1] \in BlobRef
    BY <2>1, <2>2 DEF BlobRef
  <2>5. blobs' \in Seq(BlobToSend) /\ regs' \in Seq(BlobRef)
    <3>1. /\ Append(blobs, [id |-> nextId, content |-> contents + 1,
                            segmented |-> bpb = "segmented"]) \in Seq(BlobToSend)
          /\ Append(regs, [id |-> nextId, content |-> contents + 1]) \in Seq(BlobRef)
      BY <2>3, <2>4, AppendProperties
    <3>2. QED
      BY <1>3, <3>1 DEF NewBlob
  <2>6. QED
    BY <1>0, <1>3, <2>2, <2>5 DEF NewBlob, Remembered, server
<1>4. CASE Add
  <2>1. PICK b \in {NoBlob} \cup Known :
          pending' = Append(pending, [n |-> rows + 1, blob |-> b,
                                      packet |-> (Len(pending) \div PerPacket) + 1])
    BY <1>4 DEF Add, Known
  <2>2. Len(pending) \in Nat /\ Len(pending) + 1 \in 1..MaxRows /\ rows + 1 \in 1..MaxRows
    BY <1>0, <1>4, LenProperties DEF Add
  <2>3. (Len(pending) \div PerPacket) + 1 \in 1..MaxRows
    <3>1. (Len(pending) \div PerPacket) + 1 \in 1..(Len(pending) + 1)
      BY <2>2, PacketOfRow
    <3> HIDE DEF Types, TypeOK
    <3>2. QED
      BY <1>0, <2>2, <3>1
  <2>4. [n |-> rows + 1, blob |-> b, packet |-> (Len(pending) \div PerPacket) + 1] \in BatchRow
    BY <2>2, <2>3, KnownType DEF BatchRow
  <2>5. pending' \in Seq(BatchRow) /\ Len(pending') = Len(pending) + 1
    BY <2>1, <2>4, AppendProperties
  <2>6. QED
    BY <1>0, <1>4, <2>2, <2>5 DEF Add, Remembered, server
<1>5. CASE Cancel
  <2>1. /\ pending' = << >> /\ blobs' = << >> /\ regs' = << >> /\ ran' = LastRan
        /\ UNCHANGED <<open, blobStream, bpb, rows, contents, nextId, bpbWaits, srvStmt,
                       srvBatch, srvSegmented, bpbRefused, createRefused>>
    BY <1>5 DEF Cancel, Emptied, Remembered, given
  <2>2. srvRows' \in {srvRows, << >>} /\ srvBlobs' \in {srvBlobs, {}}
    BY <1>5 DEF Cancel
  <2>3. {bpbWaits', bpbRefused', srvStmt', srvBatch', srvSegmented', createRefused'}
            \subseteq BOOLEAN
        /\ (srvBatch' => srvStmt')
    BY <2>1
  <2>4. /\ srvRows' \in Seq(BatchRow) /\ srvBlobs' \subseteq BlobRef
        /\ (~blobStream => srvBlobs' = {})
    BY <1>0, <2>2
  <2> HIDE DEF Types, TypeOK
  <2>5. QED
    BY <1>0, <2>1, <2>3, <2>4, EmptiedTypes
<1>6. CASE Close
  <2>1. {open', blobStream', srvStmt', srvBatch', createRefused'} \subseteq BOOLEAN
        /\ {bpbWaits', srvSegmented', bpbRefused'} \subseteq BOOLEAN
        /\ (srvBatch' => srvStmt')
    BY <1>6 DEF Close, Anew
  <2>2. /\ pending' = << >> /\ blobs' = << >> /\ regs' = << >> /\ nextId' = 1
        /\ bpb' = "none" /\ rows' = 0 /\ contents' = 0 /\ srvRows' = << >>
        /\ srvBlobs' = {} /\ ran' = << >>
    BY <1>6 DEF Close, Anew
  <2>3. QED
    BY <1>0, <2>1, <2>2
<1>7. CASE Execute
  <2>1. Known \subseteq BlobRef /\ Sent \subseteq Known /\ ToSet(regs) \subseteq Known
        /\ SegmentedNext \in BOOLEAN
    BY KnownType DEF Known, SegmentedNext
  <2>2. ~blobStream => Known = {}
    BY <1>0 DEF Known, Sent, ToSet
  <2>3. CASE BpbRefused \/ BlobsRefused \/ RegsRefused
    <3>1. srvBlobs' \subseteq srvBlobs \cup Known
      BY <2>1, <2>3 DEF BpbRefused, BlobsRefused, RegsRefused, SomeOf
    <3>2. regs' \in {regs, << >>} /\ srvSegmented' \in BOOLEAN /\ bpbRefused' \in BOOLEAN
          /\ UNCHANGED <<pending, nextId, srvRows>> /\ StopsEarly
      BY <2>1, <2>3 DEF BpbRefused, BlobsRefused, RegsRefused
    <3>3. QED
      BY <1>0, <2>1, <2>2, <3>1, <3>2 DEF StopsEarly, given
  <2>4. CASE RowsRefused
    <3>1. PICK A : srvRows' = srvRows \o RowsOf(A)
      BY <2>4 DEF RowsRefused
    <3>2. srvRows' \in Seq(BatchRow)
      BY <3>1, RowsOfType
    <3>3. srvBlobs' \subseteq srvBlobs \cup Known
      BY <2>4 DEF RowsRefused, Known
    <3>4. /\ pending' = << >> /\ blobs' = << >> /\ regs' = << >> /\ ran' = LastRan
          /\ bpbWaits' = FALSE /\ srvSegmented' = SegmentedNext
          /\ UNCHANGED <<open, blobStream, bpb, rows, contents, nextId, srvStmt, srvBatch,
                         bpbRefused, createRefused>>
      BY <2>4 DEF RowsRefused, StopsEarly, given
    <3>5. /\ srvBlobs' \subseteq BlobRef /\ (~blobStream => srvBlobs' = {})
          /\ (srvBatch' => srvStmt')
      BY <2>1, <2>2, <3>3, <3>4
    <3>6. {bpbWaits', bpbRefused', srvStmt', srvBatch', srvSegmented', createRefused'}
              \subseteq BOOLEAN
      BY <2>1, <3>4
    <3> HIDE DEF Types, TypeOK
    <3>7. QED
      BY <1>0, <3>2, <3>4, <3>5, <3>6, EmptiedTypes
  <2>5. CASE Run
    <3>1. PICK packets :
             LET have == srvRows \o RowsOf(packets)
             IN  \/ /\ srvRows' = << >>
                    /\ \E k \in 0..Len(have) :
                          ran' = LastRan \o RunOf(SubSeq(have, 1, k), Known)
                 \/ srvRows' \in {<< >>, have} /\ ran' = LastRan
      BY <2>5, RunEnds
    <3> DEFINE have == srvRows \o RowsOf(packets)
    <3>2. have \in Seq(BatchRow)
      BY RowsOfType
    <3> HIDE DEF have
    <3>3. ASSUME NEW k \in 0..Len(have)
          PROVE  LastRan \o RunOf(SubSeq(have, 1, k), Known) \in Seq(RunRow)
      <4>1. SubSeq(have, 1, k) \in Seq(BatchRow)
        BY <3>2, SubSeqProperties, ElementOfSeq
      <4>2. QED
        BY <1>0, <2>1, <4>1, RunOfType, ConcatProperties
    <3>4. srvRows' \in Seq(BatchRow) /\ ran' \in Seq(RunRow)
      BY <1>0, <3>1, <3>2, <3>3 DEF have
    <3>5. /\ pending' = << >> /\ blobs' = << >> /\ regs' = << >> /\ srvBlobs' = {}
          /\ UNCHANGED <<open, blobStream, bpb, rows, contents>>
          /\ nextId' \in {nextId, 1}
          /\ {bpbWaits', bpbRefused', srvStmt', srvBatch', srvSegmented', createRefused'}
                 \subseteq BOOLEAN
          /\ srvBatch' => srvStmt'
      BY <2>5, RunEnds
    <3> HIDE DEF Types, TypeOK
    <3>6. QED
      BY <3>4, <3>5, EmptiedTypes
  <2>6. QED
    BY <1>7, <2>3, <2>4, <2>5 DEF Execute
<1>8. CASE UNCHANGED vars
  BY <1>8 DEF vars, client, waiting, given, server, history
<1>9. QED
  BY <1>1, <1>2, <1>3, <1>4, <1>5, <1>6, <1>7, <1>8 DEF Next

(* A new Batch has them. *)
LEMMA TypesInit == Init => Types
<1>1. /\ << >> \in Seq(BatchRow) /\ << >> \in Seq(BlobToSend) /\ << >> \in Seq(BlobRef)
      /\ << >> \in Seq(RunRow) /\ Len(<< >>) = 0
      /\ MaxRows \in Nat /\ MaxBlobs \in Nat /\ 1 \in Id
  BY EmptySeq, BatchAssumption DEF Id
<1> SUFFICES ASSUME Init
             PROVE  Types
  OBVIOUS
<1>2. /\ {open, blobStream, srvStmt, srvBatch, createRefused} \subseteq BOOLEAN
      /\ {bpbWaits, srvSegmented, bpbRefused} \subseteq BOOLEAN
      /\ (srvBatch => srvStmt)
  BY DEF Init, Empty
<1>3. /\ pending = << >> /\ srvRows = << >> /\ blobs = << >> /\ regs = << >>
      /\ ran = << >> /\ srvBlobs = {} /\ nextId = 1 /\ bpb = "none"
      /\ rows = 0 /\ contents = 0
  BY DEF Init, Empty
<1>4. QED
  BY <1>1, <1>2, <1>3 DEF Types, TypeOK

(***************************************************************************)
(* The type invariant, for any number of rows and BLOBs; with it, a batch  *)
(* without a BLOB column never has a BLOB, and one in the server never     *)
(* outlives its statement.                                                 *)
(***************************************************************************)
THEOREM BatchTypes == Spec => []TypeOK
<1>1. Types => TypeOK
  BY DEF Types
<1>2. QED
  BY <1>1, TypesInit, TypesInductive, PTL DEF Spec

-------------------------------------------------------------------------------
(* The order of rows.  The numbers of the rows of s grow, after `low` and  *)
(* up to `high`.                                                           *)
Rising(s, low, high) ==
    /\ \A i \in 1..Len(s) : s[i].n \in (low + 1)..high
    /\ \A i, j \in 1..Len(s) : i < j => s[i].n < s[j].n

(* No rows at all. *)
LEMMA RisingEmpty == \A low, high : Rising(<< >>, low, high)
  BY EmptySeq DEF Rising

(* The bounds may be wider. *)
LEMMA RisingWider ==
    ASSUME NEW S, NEW s \in Seq(S), NEW a \in Nat, NEW b \in Nat, NEW c \in Nat, NEW d \in Nat,
           a <= b, c <= d, Rising(s, b, c)
    PROVE  Rising(s, a, d)
  BY LenProperties DEF Rising

(* Later rows after earlier ones. *)
LEMMA RisingConcat ==
    ASSUME NEW S, NEW s \in Seq(S), NEW t \in Seq(S), NEW a \in Nat, NEW b \in Nat, NEW c \in Nat,
           a <= b, b <= c, Rising(s, a, b), Rising(t, b, c)
    PROVE  Rising(s \o t, a, c)
<1> DEFINE st == s \o t
           m == Len(s)
<1>1. m \in Nat /\ Len(t) \in Nat
  BY LenProperties
<1>2. /\ Len(st) = m + Len(t)
      /\ \A i \in 1..Len(st) : st[i] = IF i <= m THEN s[i] ELSE t[i - m]
  BY ConcatProperties
<1> HIDE DEF st, m
<1>3. /\ \A i \in 1..m : s[i].n \in (a + 1)..b
      /\ \A i, j \in 1..m : i < j => s[i].n < s[j].n
      /\ \A i \in 1..Len(t) : t[i].n \in (b + 1)..c
      /\ \A i, j \in 1..Len(t) : i < j => t[i].n < t[j].n
  BY DEF Rising, m
<1>4. ASSUME NEW i \in 1..Len(st)
      PROVE  /\ i <= m => st[i].n \in (a + 1)..b /\ st[i] = s[i] /\ i \in 1..m
             /\ ~(i <= m) => /\ st[i].n \in (b + 1)..c
                             /\ st[i] = t[i - m] /\ i - m \in 1..Len(t)
  BY <1>1, <1>2, <1>3
<1>5. ASSUME NEW i \in 1..Len(st), NEW j \in 1..Len(st), i < j
      PROVE  st[i].n < st[j].n
  <2>1. CASE j <= m
    <3>1. i \in 1..m /\ j \in 1..m /\ st[i] = s[i] /\ st[j] = s[j]
      BY <1>1, <1>2, <1>5, <2>1
    <3>2. QED
      BY <1>5, <1>3, <3>1
  <2>2. CASE ~(i <= m)
    <3>1. /\ i - m \in 1..Len(t) /\ j - m \in 1..Len(t) /\ i - m < j - m
          /\ st[i] = t[i - m] /\ st[j] = t[j - m]
      BY <1>1, <1>2, <1>5, <2>2
    <3>2. QED
      BY <1>3, <3>1
  <2>3. CASE i <= m /\ ~(j <= m)
    BY <1>4, <2>3
  <2>4. QED
    BY <1>1, <1>2, <1>5, <2>1, <2>2, <2>3
<1>6. ASSUME NEW i \in 1..Len(st)
      PROVE  st[i].n \in (a + 1)..c
  BY <1>1, <1>2, <1>4
<1>7. QED
  BY <1>5, <1>6 DEF Rising, st

(* Some of the rows, by their places. *)
LEMMA RisingWhere ==
    ASSUME NEW S, NEW s \in Seq(S), NEW T, NEW low \in Nat, NEW high \in Nat, Rising(s, low, high)
    PROVE  Rising(Where(s, T), low, high)
<1>1. PICK h : Places(h, s, T)
  BY WherePlaces
<1>2. /\ \A k \in 1..Len(Where(s, T)) : h[k] \in 1..Len(s) /\ Where(s, T)[k] = s[h[k]]
      /\ \A k, l \in 1..Len(Where(s, T)) : k < l => h[k] < h[l]
  BY <1>1 DEF Places
<1>3. QED
  BY <1>2 DEF Rising

(* The first of the rows. *)
LEMMA RisingPrefix ==
    ASSUME NEW S, NEW s \in Seq(S), NEW k \in 0..Len(s), NEW low, NEW high, Rising(s, low, high)
    PROVE  Rising(SubSeq(s, 1, k), low, high)
<1>1. Len(s) \in Nat /\ \A i \in 1..k : s[i] \in S
  BY ElementOfSeq, LenProperties
<1>2. /\ Len(SubSeq(s, 1, k)) = k
      /\ \A i \in 1..k : SubSeq(s, 1, k)[i] = s[i]
  BY <1>1, SubSeqProperties
<1>3. QED
  BY <1>1, <1>2 DEF Rising

(* The next row. *)
LEMMA RisingAppend ==
    ASSUME NEW S, NEW s \in Seq(S), NEW e \in S, NEW low \in Nat, NEW high \in Nat, low <= high,
           Rising(s, low, high), e.n = high + 1
    PROVE  Rising(Append(s, e), low, high + 1)
<1>1. /\ Len(s) \in Nat /\ Len(Append(s, e)) = Len(s) + 1
      /\ \A i \in 1..Len(s) : Append(s, e)[i] = s[i]
      /\ Append(s, e)[Len(s) + 1] = e
  BY AppendProperties, LenProperties
<1>2. \A i \in 1..(Len(s) + 1) : i \in 1..Len(s) \/ i = Len(s) + 1
  BY <1>1
<1>3. \A i \in 1..(Len(s) + 1) : /\ Append(s, e)[i].n \in (low + 1)..(high + 1)
                                 /\ i <= Len(s) => Append(s, e)[i].n \in (low + 1)..high
  BY <1>1, <1>2 DEF Rising
<1>4. ASSUME NEW i \in 1..(Len(s) + 1), NEW j \in 1..(Len(s) + 1), i < j
      PROVE  Append(s, e)[i].n < Append(s, e)[j].n
  <2>1. i \in 1..Len(s)
    BY <1>1, <1>4
  <2>2. CASE j \in 1..Len(s)
    BY <1>1, <1>4, <2>1, <2>2 DEF Rising
  <2>3. CASE j = Len(s) + 1
    BY <1>1, <1>3, <2>1, <2>3
  <2>4. QED
    BY <1>2, <2>2, <2>3
<1>5. QED
  BY <1>1, <1>3, <1>4 DEF Rising

(* The last row that ran, by itself. *)
LEMMA RisingLastRan ==
    ASSUME ran \in Seq(RunRow), NEW high, Rising(ran, 0, high)
    PROVE  Rising(LastRan, 0, high)
<1>1. \A i \in 1..Len(LastRan) : i = 1 /\ \E j \in 1..Len(ran) : LastRan[i] = ran[j]
  BY LastRanType
<1>2. QED
  BY <1>1 DEF Rising

(* What an exec makes of rows keeps their order. *)
LEMMA RisingRunOf ==
    ASSUME NEW told \in Seq(BatchRow), NEW known \in SUBSET BlobRef, NEW low, NEW high,
           Rising(told, low, high)
    PROVE  Rising(RunOf(told, known), low, high)
<1>1. /\ Len(RunOf(told, known)) = Len(told)
      /\ \A i \in 1..Len(told) : RunOf(told, known)[i].n = told[i].n
  BY RunOfType
<1>2. QED
  BY <1>1 DEF Rising

(* The rows run, those in the server and those that wait follow each other. *)
InOrder ==
    \E a, b \in 0..rows :
        /\ a <= b
        /\ Rising(ran, 0, a)
        /\ Rising(srvRows, a, b)
        /\ Rising(pending, b, rows)

(* Every step keeps the order of the rows. *)
LEMMA InOrderInductive == Types /\ InOrder /\ [Next]_vars => InOrder'
<1> SUFFICES ASSUME Types, InOrder, [Next]_vars
             PROVE  InOrder'
  OBVIOUS
<1>0. PICK a \in 0..rows, b \in 0..rows :
        /\ a <= b
        /\ Rising(ran, 0, a)
        /\ Rising(srvRows, a, b)
        /\ Rising(pending, b, rows)
  BY DEF InOrder
<1>1. /\ rows \in Nat /\ a \in Nat /\ b \in Nat
      /\ pending \in Seq(BatchRow) /\ srvRows \in Seq(BatchRow)
      /\ ran \in Seq(RunRow) /\ LastRan \in Seq(RunRow)
      /\ Rising(LastRan, 0, a)
  BY <1>0, BatchAssumption, RisingLastRan, LastRanType DEF Types, TypeOK
<1>2. CASE Create \/ Close
  <2>1. rows' = 0 /\ ran' = << >> /\ srvRows' = << >> /\ pending' = << >>
    BY <1>2 DEF Create, Close, Anew
  <2>2. QED
    BY <2>1, RisingEmpty DEF InOrder
<1>3. ASSUME UNCHANGED <<rows, pending, srvRows>>, ran' = LastRan
      PROVE  InOrder'
  BY <1>0, <1>1, <1>3 DEF InOrder
<1>4. CASE SetDefaultBpb \/ NewBlob
  BY <1>3, <1>4 DEF SetDefaultBpb, NewBlob, Remembered, waiting, given, server
<1>5. CASE Add
  <2>1. PICK blob :
          pending' = Append(pending, [n |-> rows + 1, blob |-> blob,
                                      packet |-> (Len(pending) \div PerPacket) + 1])
    BY <1>5 DEF Add
  <2> DEFINE row == [n |-> rows + 1, blob |-> blob,
                     packet |-> (Len(pending) \div PerPacket) + 1]
             S == BatchRow \cup {row}
  <2>2. pending \in Seq(S) /\ row \in S /\ row.n = rows + 1
    BY <1>1, SeqMonotonic
  <2> HIDE DEF row, S
  <2>3. Rising(Append(pending, row), b, rows + 1)
    BY <1>0, <1>1, <2>2, RisingAppend
  <2>4. rows' = rows + 1 /\ ran' = LastRan /\ UNCHANGED srvRows
    BY <1>5 DEF Add, Remembered, server
  <2>5. a \in 0..rows' /\ b \in 0..rows' /\ pending' = Append(pending, row)
    BY <1>0, <1>1, <2>1, <2>4 DEF row
  <2>6. QED
    BY <1>0, <1>1, <2>3, <2>4, <2>5 DEF InOrder
<1>6. CASE Cancel
  <2>1. /\ rows' = rows /\ ran' = LastRan /\ pending' = << >>
        /\ srvRows' \in {srvRows, << >>}
    BY <1>6 DEF Cancel, Emptied, Remembered, given
  <2>2. Rising(srvRows', a, b) /\ Rising(pending', b, rows)
    BY <1>0, <2>1, RisingEmpty
  <2>3. QED
    BY <1>0, <1>1, <2>1, <2>2 DEF InOrder
<1>7. CASE Execute
  <2>1. ASSUME NEW packets
        PROVE  Rising(srvRows \o RowsOf(packets), a, rows)
    <3>1. Rising(RowsOf(packets), b, rows)
      BY <1>0, <1>1, RisingWhere DEF RowsOf
    <3>2. RowsOf(packets) \in Seq(BatchRow)
      BY RowsOfType DEF Types
    <3>3. QED
      BY <1>0, <1>1, <3>1, <3>2, RisingConcat
  <2>2. CASE BpbRefused \/ BlobsRefused \/ RegsRefused
    BY <1>3, <2>2 DEF BpbRefused, BlobsRefused, RegsRefused, StopsEarly, given
  <2>3. CASE RowsRefused
    <3>1. /\ rows' = rows /\ ran' = LastRan /\ pending' = << >>
          /\ \E A : srvRows' = srvRows \o RowsOf(A)
      BY <2>3 DEF RowsRefused, StopsEarly, given
    <3>2. Rising(srvRows', a, rows) /\ Rising(pending', rows, rows)
      BY <2>1, <3>1, RisingEmpty
    <3>3. QED
      BY <1>0, <1>1, <3>1, <3>2 DEF InOrder
  <2>4. CASE Run
    <3>1. PICK packets :
             LET have == srvRows \o RowsOf(packets)
             IN  \/ /\ srvRows' = << >>
                    /\ \E k \in 0..Len(have) :
                          ran' = LastRan \o RunOf(SubSeq(have, 1, k), Known)
                 \/ srvRows' \in {<< >>, have} /\ ran' = LastRan
      BY <2>4, RunEnds DEF Types
    <3> DEFINE have == srvRows \o RowsOf(packets)
    <3>2. have \in Seq(BatchRow) /\ Rising(have, a, rows)
      BY <2>1, RowsOfType DEF Types
    <3>3. rows' = rows /\ pending' = << >>
      BY <2>4, RunEnds DEF Types
    <3> HIDE DEF have
    <3>4. ASSUME NEW k \in 0..Len(have), srvRows' = << >>,
                 ran' = LastRan \o RunOf(SubSeq(have, 1, k), Known)
          PROVE  InOrder'
      <4>1. SubSeq(have, 1, k) \in Seq(BatchRow)
        BY <3>2, SubSeqProperties, ElementOfSeq
      <4>2. Rising(SubSeq(have, 1, k), a, rows)
        BY <3>2, RisingPrefix
      <4>3. /\ RunOf(SubSeq(have, 1, k), Known) \in Seq(RunRow)
            /\ Rising(RunOf(SubSeq(have, 1, k), Known), a, rows)
        BY <4>1, <4>2, RunOfType, RisingRunOf, KnownType DEF Types
      <4>4. Rising(ran', 0, rows)
        BY <1>0, <1>1, <3>4, <4>3, RisingConcat
      <4>5. Rising(srvRows', rows, rows) /\ Rising(pending', rows, rows)
        BY <3>3, <3>4, RisingEmpty
      <4>6. QED
        BY <1>1, <3>3, <4>4, <4>5 DEF InOrder
    <3>5. ASSUME srvRows' \in {<< >>, have}, ran' = LastRan
          PROVE  InOrder'
      <4>1. Rising(srvRows', a, rows) /\ Rising(pending', rows, rows)
        BY <3>2, <3>3, <3>5, RisingEmpty
      <4>2. QED
        BY <1>0, <1>1, <3>3, <3>5, <4>1 DEF InOrder
    <3>6. QED
      BY <3>1, <3>4, <3>5 DEF have
  <2>5. QED
    BY <1>7, <2>2, <2>3, <2>4 DEF Execute
<1>8. CASE UNCHANGED vars
  BY <1>0, <1>8 DEF vars, client, waiting, given, server, history, InOrder
<1>9. QED
  BY <1>2, <1>4, <1>5, <1>6, <1>7, <1>8 DEF Next

(***************************************************************************)
(* A row is in one place and is run once at most, in the order of the      *)
(* adds, whatever was refused before: the rows that ran, those the server  *)
(* kept and those that wait make one growing sequence.                     *)
(***************************************************************************)
THEOREM RowsRunOnceInOrder == Spec => []RunOnceInOrder
<1>1. Init => InOrder
  BY RisingEmpty DEF Init, Empty, InOrder
<1>2. Types /\ InOrder => RunOnceInOrder
  <2> SUFFICES ASSUME Types, InOrder
               PROVE  RunOnceInOrder
    OBVIOUS
  <2> DEFINE S == RunRow \cup BatchRow
             all == ran \o srvRows \o pending
  <2>1. ran \in Seq(S) /\ srvRows \in Seq(S) /\ pending \in Seq(S) /\ rows \in Nat
    BY BatchAssumption, SeqMonotonic DEF Types, TypeOK
  <2> HIDE DEF S
  <2>2. all \in Seq(S) /\ Rising(all, 0, rows)
    <3>1. PICK a \in 0..rows, b \in 0..rows :
            /\ a <= b
            /\ Rising(ran, 0, a)
            /\ Rising(srvRows, a, b)
            /\ Rising(pending, b, rows)
      BY DEF InOrder
    <3>2. ran \o srvRows \in Seq(S) /\ a \in Nat /\ b \in Nat
      BY <2>1, ConcatProperties
    <3>3. Rising(ran \o srvRows, 0, b)
      BY <2>1, <3>1, <3>2, RisingConcat
    <3>4. Rising(all, 0, rows) /\ all \in Seq(S)
      <4>1. 0 \in Nat /\ 0 <= b /\ b <= rows
        BY <2>1, <3>1
      <4>2. (ran \o srvRows) \o pending \in Seq(S)
        BY <2>1, <3>2, ConcatProperties
      <4>3. Rising((ran \o srvRows) \o pending, 0, rows)
        BY <2>1, <3>1, <3>2, <3>3, <4>1, RisingConcat
      <4>4. QED
        BY <4>2, <4>3
    <3>5. QED
      BY <3>4
  <2>3. Len(all) \in Nat
    BY <2>2, LenProperties
  <2> HIDE DEF all
  <2>4. /\ Len(Numbers(all)) = Len(all)
        /\ \A i \in 1..Len(all) : Numbers(all)[i] = all[i].n
    BY <2>3 DEF Numbers
  <2>5. \A i, j \in 1..Len(Numbers(all)) : i < j => Numbers(all)[i] < Numbers(all)[j]
    BY <2>2, <2>4 DEF Rising
  <2>6. QED
    BY <2>5 DEF all, RunOnceInOrder
<1>3. QED
  BY <1>1, <1>2, TypesInit, TypesInductive, InOrderInductive, PTL DEF Spec

-------------------------------------------------------------------------------
(* The contents of BLOBs.  Every id below nextId means one content, to the *)
(* client, the server and the rows that refer to it.                       *)
BlobsOf(s) == {s[i].blob : i \in 1..Len(s)}

RowBlobs == BlobsOf(srvRows) \cup BlobsOf(pending)

OneContent ==
    /\ \A k \in Known : k.id < nextId
    /\ \A j, k \in Known : j.id = k.id => j = k
    /\ \A b \in RowBlobs : b.id < nextId /\ \A k \in Known : k.id = b.id => k = b

SeenRight == \A i \in 1..Len(ran) : ran[i].seen \subseteq {ran[i].want.content}

(* The BLOBs of the rows of an exec are BLOBs of rows. *)
LEMMA BlobsOfHave ==
    ASSUME TypeOK, NEW packets
    PROVE  BlobsOf(srvRows \o RowsOf(packets)) \subseteq RowBlobs
<1> DEFINE r == RowsOf(packets)
<1>1. srvRows \in Seq(BatchRow) /\ pending \in Seq(BatchRow) /\ r \in Seq(BatchRow)
  BY RowsOfType DEF TypeOK
<1>2. PICK h : Places(h, pending, {i \in 1..Len(pending) : pending[i].packet \in packets})
  BY <1>1, WherePlaces
<1>3. \A i \in 1..Len(r) : h[i] \in 1..Len(pending) /\ r[i] = pending[h[i]]
  BY <1>2 DEF Places, RowsOf
<1>4. BlobsOf(r) \subseteq RowBlobs
  BY <1>3 DEF BlobsOf, RowBlobs
<1> HIDE DEF r
<1>5. /\ Len(srvRows) \in Nat /\ Len(r) \in Nat
      /\ Len(srvRows \o r) = Len(srvRows) + Len(r)
      /\ \A i \in 1..(Len(srvRows) + Len(r)) :
            (srvRows \o r)[i] = IF i <= Len(srvRows) THEN srvRows[i] ELSE r[i - Len(srvRows)]
  BY <1>1, ConcatProperties, LenProperties
<1>6. ASSUME NEW i \in 1..Len(srvRows \o r)
      PROVE  (srvRows \o r)[i].blob \in RowBlobs
  <2>1. CASE i <= Len(srvRows)
    BY <1>5, <2>1 DEF BlobsOf, RowBlobs
  <2>2. CASE ~(i <= Len(srvRows))
    <3>1. i - Len(srvRows) \in 1..Len(r) /\ (srvRows \o r)[i] = r[i - Len(srvRows)]
      BY <1>5, <2>2
    <3>2. QED
      BY <1>4, <3>1 DEF BlobsOf
  <2>3. QED
    BY <2>1, <2>2
<1>7. QED
  BY <1>6 DEF BlobsOf, r

(* What is known and referred to may only become less, ...                 *)
LEMMA FewerBlobs ==
    ASSUME OneContent, Known' \subseteq Known, RowBlobs' \subseteq RowBlobs, nextId' = nextId
    PROVE  OneContent'
  BY DEF OneContent

(* Without BLOBs to send, only what the server has is known. *)
LEMMA KnownEmptied ==
    ASSUME blobs' = << >>, regs' = << >>
    PROVE  Known' = srvBlobs'
<1>1. Sent' = {} /\ ToSet(regs)' = {}
  BY DEF Sent, ToSet
<1>2. QED
  BY <1>1 DEF Known

(* No rows, no BLOBs in them. *)
LEMMA NoRowBlobs == BlobsOf(<< >>) = {}
  BY EmptySeq DEF BlobsOf

(* ... ids may start again when nothing has one, ...                       *)
LEMMA NoBlobs ==
    ASSUME blobs' = << >>, regs' = << >>, srvBlobs' = {}, pending' = << >>, srvRows' = << >>
    PROVE  OneContent'
<1>1. Known' = {} /\ RowBlobs' = {}
  BY KnownEmptied, NoRowBlobs DEF RowBlobs
<1>2. QED
  BY <1>1 DEF OneContent

(* ... and a new BLOB has an id of its own.                                *)
LEMMA OneMoreBlob ==
    ASSUME Types, OneContent, NewBlob
    PROVE  OneContent'
<1> DEFINE new == [id |-> nextId, content |-> contents + 1]
<1>1. /\ blobs \in Seq(BlobToSend) /\ regs \in Seq(BlobRef) /\ nextId \in Id /\ contents \in Nat
      /\ nextId' = nextId + 1 /\ UNCHANGED <<pending, srvRows, srvBlobs>> /\ new \in BlobRef
      /\ contents' = contents + 1
  BY BatchAssumption DEF Types, TypeOK, NewBlob, server, Id, BlobRef
<1>2. Known' \subseteq Known \cup {new}
  <2>1. CASE /\ blobs' = Append(blobs, [id |-> nextId, content |-> contents + 1,
                                        segmented |-> bpb = "segmented"])
             /\ regs' = regs
    <3> DEFINE b == [id |-> nextId, content |-> contents + 1, segmented |-> bpb = "segmented"]
    <3>1. /\ Len(blobs) \in Nat /\ Len(blobs') = Len(blobs) + 1
          /\ DOMAIN blobs = 1..Len(blobs) /\ DOMAIN blobs' = 1..(Len(blobs) + 1)
          /\ \A i \in 1..Len(blobs) : blobs'[i] = blobs[i]
          /\ blobs'[Len(blobs) + 1] = b
      <4>1. b \in BlobToSend
        BY <1>1 DEF BlobToSend, BlobRef
      <4>2. Append(blobs, b) \in Seq(BlobToSend)
        BY <1>1, <4>1, AppendProperties
      <4>3. QED
        BY <1>1, <2>1, <4>1, <4>2, AppendProperties, LenProperties
    <3>2. \A i \in 1..(Len(blobs) + 1) : i \in 1..Len(blobs) \/ i = Len(blobs) + 1
      BY <3>1
    <3>3. ToSet(blobs)' \subseteq ToSet(blobs) \cup {b}
      BY <3>1, <3>2 DEF ToSet
    <3>4. b.id = nextId /\ b.content = contents + 1
      OBVIOUS
    <3>5. Sent' \subseteq Sent \cup {new}
      BY <3>3, <3>4 DEF Sent
    <3>6. QED
      BY <1>1, <2>1, <3>5 DEF Known
  <2>2. CASE regs' = Append(regs, new) /\ blobs' = blobs
    <3>1. /\ Len(regs) \in Nat /\ DOMAIN regs = 1..Len(regs)
          /\ DOMAIN regs' = 1..(Len(regs) + 1)
          /\ \A i \in 1..Len(regs) : regs'[i] = regs[i]
          /\ regs'[Len(regs) + 1] = new
      <4>1. Append(regs, new) \in Seq(BlobRef)
        BY <1>1, AppendProperties
      <4>2. QED
        BY <1>1, <2>2, <4>1, AppendProperties, LenProperties
    <3> HIDE DEF new
    <3>2. \A i \in 1..(Len(regs) + 1) : i \in 1..Len(regs) \/ i = Len(regs) + 1
      BY <3>1
    <3>3. ToSet(regs)' \subseteq ToSet(regs) \cup {new}
      BY <3>1, <3>2 DEF ToSet
    <3>4. QED
      BY <1>1, <2>2, <3>3 DEF Known, Sent
  <2>3. QED
    BY <2>1, <2>2 DEF NewBlob
<1>3. RowBlobs' = RowBlobs
  BY <1>1 DEF RowBlobs
<1>4. new.id = nextId /\ nextId \in Nat /\ \A k \in Known : k.id \in Nat
  BY <1>1, KnownType DEF Id, BlobRef, Types
<1>5. \A b \in RowBlobs : b.id \in Nat
  <2>1. \A i \in 1..Len(pending) : pending[i] \in BatchRow
    BY ElementOfSeq DEF Types, TypeOK
  <2>2. \A i \in 1..Len(srvRows) : srvRows[i] \in BatchRow
    BY ElementOfSeq DEF Types, TypeOK
  <2>3. \A r \in BatchRow : r.blob.id \in Nat
    BY DEF BatchRow, BlobRef, NoBlob, Id
  <2>4. QED
    BY <2>1, <2>2, <2>3 DEF RowBlobs, BlobsOf
<1> HIDE DEF new
<1>6. \A k \in Known' : k.id < nextId'
  BY <1>1, <1>2, <1>4 DEF OneContent
<1>7. \A j, k \in Known' : j.id = k.id => j = k
  BY <1>2, <1>4 DEF OneContent
<1>8. ASSUME NEW b \in RowBlobs'
      PROVE  b.id < nextId' /\ \A k \in Known' : k.id = b.id => k = b
  BY <1>1, <1>2, <1>3, <1>4, <1>5 DEF OneContent
<1>9. QED
  BY <1>6, <1>7, <1>8 DEF OneContent

(* Every step keeps the contents of BLOBs. *)
LEMMA OneContentInductive == Types /\ OneContent /\ [Next]_vars => OneContent'
<1> SUFFICES ASSUME Types, OneContent, [Next]_vars
             PROVE  OneContent'
  OBVIOUS
<1>0. Sent \subseteq Known /\ ToSet(regs) \subseteq Known /\ srvBlobs \subseteq Known
  BY DEF Known
<1>1. CASE Create \/ Close
  BY <1>1, NoBlobs DEF Create, Close, Anew
<1>2. ASSUME UNCHANGED <<blobs, regs, srvBlobs, pending, srvRows, nextId>>
      PROVE  OneContent'
  <2>1. Known' = Known /\ RowBlobs' = RowBlobs
    BY <1>2 DEF Known, Sent, RowBlobs
  <2>2. QED
    BY <1>2, <2>1, FewerBlobs
<1>3. CASE SetDefaultBpb
  BY <1>2, <1>3 DEF SetDefaultBpb, waiting, server
<1>4. CASE NewBlob
  BY <1>4, OneMoreBlob
<1>5. CASE Add
  <2>1. PICK b \in {NoBlob} \cup Known :
          pending' = Append(pending, [n |-> rows + 1, blob |-> b,
                                      packet |-> (Len(pending) \div PerPacket) + 1])
    BY <1>5 DEF Add, Known
  <2> DEFINE row == [n |-> rows + 1, blob |-> b,
                     packet |-> (Len(pending) \div PerPacket) + 1]
             S == BatchRow \cup {row}
  <2>2. pending \in Seq(S) /\ row \in S /\ row.blob = b
    BY SeqMonotonic DEF Types, TypeOK
  <2>3. pending' = Append(pending, row)
    BY <2>1
  <2> HIDE DEF row, S
  <2>4. /\ Len(pending) \in Nat /\ Len(pending') = Len(pending) + 1
        /\ \A i \in 1..Len(pending) : pending'[i] = pending[i]
        /\ pending'[Len(pending) + 1] = row
    BY <2>2, <2>3, AppendProperties, LenProperties
  <2>5. \A i \in 1..(Len(pending) + 1) : i \in 1..Len(pending) \/ i = Len(pending) + 1
    BY <2>4
  <2>6. BlobsOf(pending') \subseteq BlobsOf(pending) \cup {b}
    BY <2>2, <2>4, <2>5 DEF BlobsOf
  <2>7. UNCHANGED <<blobs, regs, srvBlobs, srvRows, nextId>>
    BY <1>5 DEF Add, server
  <2>8. Known' = Known /\ RowBlobs' \subseteq RowBlobs \cup {b}
    BY <2>6, <2>7 DEF Known, Sent, RowBlobs
  <2>9. b.id < nextId /\ \A k \in Known : k.id = b.id => k = b
    <3>1. CASE b \in Known
      BY <3>1 DEF OneContent
    <3>2. CASE b = NoBlob
      <4>1. \A k \in Known : k.id # 0
        BY KnownType DEF Types, BlobRef, Id
      <4>2. b.id = 0 /\ 0 < nextId
        BY <3>2, BatchAssumption DEF NoBlob, Types, TypeOK, Id
      <4>3. QED
        BY <4>1, <4>2
    <3>3. QED
      BY <3>1, <3>2
  <2>10. QED
    BY <2>7, <2>8, <2>9 DEF OneContent
<1>6. CASE Cancel
  <2>1. /\ blobs' = << >> /\ regs' = << >> /\ pending' = << >> /\ nextId' = nextId
        /\ srvBlobs' \in {srvBlobs, {}} /\ srvRows' \in {srvRows, << >>}
    BY <1>6 DEF Cancel, Emptied
  <2>2. Known' \subseteq Known /\ RowBlobs' \subseteq RowBlobs
    BY <1>0, <2>1, KnownEmptied, NoRowBlobs DEF RowBlobs
  <2>3. QED
    BY <2>1, <2>2, FewerBlobs
<1>7. CASE Execute
  <2>1. CASE BpbRefused \/ BlobsRefused \/ RegsRefused
    <3>1. /\ blobs' = << >> /\ regs' \in {regs, << >>}
          /\ UNCHANGED <<pending, srvRows, nextId>>
      BY <2>1 DEF BpbRefused, BlobsRefused, RegsRefused, StopsEarly
    <3>2. srvBlobs' \subseteq Known
      BY <1>0, <2>1 DEF BpbRefused, BlobsRefused, RegsRefused, SomeOf
    <3>3. Sent' = {} /\ ToSet(regs)' \subseteq Known
      BY <1>0, <3>1 DEF Sent, ToSet
    <3>4. Known' \subseteq Known /\ RowBlobs' = RowBlobs
      BY <3>1, <3>2, <3>3 DEF Known, RowBlobs
    <3>5. QED
      BY <3>1, <3>4, FewerBlobs
  <2>2. CASE RowsRefused
    <3>1. /\ blobs' = << >> /\ regs' = << >> /\ pending' = << >> /\ nextId' = nextId
          /\ srvBlobs' = srvBlobs \cup Sent \cup ToSet(regs)
          /\ \E A : srvRows' = srvRows \o RowsOf(A)
      BY <2>2 DEF RowsRefused, StopsEarly
    <3>2. Known' = Known
      BY <3>1, KnownEmptied DEF Known
    <3>3. RowBlobs' \subseteq RowBlobs
      BY <3>1, BlobsOfHave, NoRowBlobs DEF Types, RowBlobs
    <3>4. QED
      BY <3>1, <3>2, <3>3, FewerBlobs
  <2>3. CASE Run
    <3>1. /\ pending' = << >> /\ blobs' = << >> /\ regs' = << >> /\ srvBlobs' = {}
          /\ \/ nextId' = 1 /\ srvRows' = << >>
             \/ nextId' = nextId
          /\ \E packets : srvRows' \in {<< >>, srvRows \o RowsOf(packets)}
      BY <2>3, RunEnds DEF Types
    <3>2. Known' \subseteq Known
      BY <3>1, KnownEmptied
    <3>3. RowBlobs' \subseteq RowBlobs
      BY <3>1, BlobsOfHave, NoRowBlobs DEF Types, RowBlobs
    <3>4. QED
      BY <3>1, <3>2, <3>3, FewerBlobs, NoBlobs
  <2>4. QED
    BY <1>7, <2>1, <2>2, <2>3 DEF Execute
<1>8. CASE UNCHANGED vars
  BY <1>2, <1>8 DEF vars, client, waiting, server
<1>9. QED
  BY <1>1, <1>3, <1>4, <1>5, <1>6, <1>7, <1>8 DEF Next

(* A row that runs gets what its id means, which is what it meant.         *)
LEMMA SeenRightKept == Types /\ OneContent /\ SeenRight /\ [Next]_vars => SeenRight'
<1> SUFFICES ASSUME Types, OneContent, SeenRight, [Next]_vars
             PROVE  SeenRight'
  OBVIOUS
<1>1. /\ ran \in Seq(RunRow) /\ LastRan \in Seq(RunRow) /\ Known \in SUBSET BlobRef
      /\ \A i \in 1..Len(LastRan) : \E j \in 1..Len(ran) : LastRan[i] = ran[j]
  BY LastRanType, KnownType DEF Types
<1>2. ASSUME ran' = LastRan
      PROVE  SeenRight'
  BY <1>1, <1>2 DEF SeenRight
<1>3. CASE Create \/ Close
  <2>1. ran' = << >>
    BY <1>3 DEF Create, Close, Anew
  <2>2. \A i \in 1..Len(ran') : FALSE
    BY <2>1, EmptySeq
  <2>3. QED
    BY <2>2 DEF SeenRight
<1>4. CASE SetDefaultBpb \/ NewBlob \/ Add \/ Cancel
  BY <1>2, <1>4 DEF SetDefaultBpb, NewBlob, Add, Cancel, Remembered
<1>5. CASE Execute
  <2>1. CASE BpbRefused \/ BlobsRefused \/ RegsRefused \/ RowsRefused
    BY <1>2, <2>1 DEF BpbRefused, BlobsRefused, RegsRefused, RowsRefused, StopsEarly
  <2>2. ASSUME NEW packets, NEW k \in 0..Len(srvRows \o RowsOf(packets)),
               ran' = LastRan \o RunOf(SubSeq(srvRows \o RowsOf(packets), 1, k), Known)
        PROVE  SeenRight'
    <3> DEFINE have == srvRows \o RowsOf(packets)
               told == SubSeq(have, 1, k)
               now == RunOf(told, Known)
    <3>1. have \in Seq(BatchRow) /\ BlobsOf(have) \subseteq RowBlobs
      BY RowsOfType, BlobsOfHave DEF Types
    <3>2. k \in 0..Len(have) /\ Len(have) \in Nat
      BY <3>1, LenProperties
    <3> HIDE DEF have
    <3>3. /\ told \in Seq(BatchRow) /\ Len(told) = k
          /\ \A i \in 1..k : told[i] = have[i] /\ told[i] \in BatchRow
      BY <3>1, <3>2, SubSeqProperties, ElementOfSeq
    <3>4. \A i \in 1..k : told[i].blob \in RowBlobs
      BY <3>1, <3>2, <3>3 DEF BlobsOf
    <3> HIDE DEF told
    <3>5. /\ now \in Seq(RunRow) /\ Len(now) = k
          /\ \A i \in 1..k : now[i].want = told[i].blob /\ now[i].seen = Seen(told[i], Known)
      BY <1>1, <3>3, RunOfType
    <3> HIDE DEF now
    <3>6. \A i \in 1..k : now[i].seen \subseteq {now[i].want.content}
      <4>1. ASSUME NEW i \in 1..k
            PROVE  \A b \in Known : b.id = told[i].blob.id => b = told[i].blob
        BY <3>4 DEF OneContent
      <4>2. QED
        BY <3>5, <4>1 DEF Seen
    <3>7. /\ Len(LastRan) \in Nat /\ k \in Nat /\ Len(ran') = Len(LastRan) + k
          /\ \A i \in 1..(Len(LastRan) + k) :
                ran'[i] = IF i <= Len(LastRan) THEN LastRan[i] ELSE now[i - Len(LastRan)]
      <4>1. ran' = LastRan \o now
        BY <2>2 DEF have, told, now
      <4>2. QED
        BY <1>1, <3>2, <3>5, <4>1, ConcatProperties, LenProperties
    <3>8. ASSUME NEW i \in 1..Len(ran')
          PROVE  ran'[i].seen \subseteq {ran'[i].want.content}
      <4>1. CASE i <= Len(LastRan)
        BY <1>1, <3>7, <4>1 DEF SeenRight
      <4>2. CASE ~(i <= Len(LastRan))
        <5>1. i - Len(LastRan) \in 1..k /\ ran'[i] = now[i - Len(LastRan)]
          BY <3>7, <4>2
        <5>2. QED
          BY <3>6, <5>1
      <4>3. QED
        BY <4>1, <4>2
    <3>9. QED
      BY <3>8 DEF SeenRight
  <2>3. CASE Run
    BY <1>2, <2>2, <2>3, RunEnds DEF Types
  <2>4. QED
    BY <1>5, <2>1, <2>3 DEF Execute
<1>6. CASE UNCHANGED vars
  BY <1>6 DEF vars, history, SeenRight
<1>7. QED
  BY <1>3, <1>4, <1>5, <1>6 DEF Next

(* All BLOBs to send are framed as the server takes the next one. *)
LEMMA FramedRight ==
    Framed /\ srvBatch /\ ~bpbRefused => \A b \in ToSet(blobs) : b.segmented = SegmentedNext
<1> SUFFICES ASSUME Framed, srvBatch, ~bpbRefused, NEW b \in ToSet(blobs)
             PROVE  b.segmented = SegmentedNext
  OBVIOUS
<1>1. DOMAIN blobs = 1..Len(blobs)
  BY LenProperties DEF Framed
<1>2. PICK i \in 1..Len(blobs) : b = blobs[i]
  BY <1>1 DEF ToSet
<1>3. QED
  BY <1>2, FramedByBpb DEF Framed

(***************************************************************************)
(* A row never gets another BLOB than the one the caller meant, although   *)
(* ids start again with every renewal of the batch; and every BLOB that    *)
(* waits is framed the way the server will read it.                        *)
(***************************************************************************)
THEOREM RowsGetTheirBlobs == Spec => []RightBlob
<1>1. Init => OneContent /\ SeenRight
  <2> SUFFICES ASSUME Init
               PROVE  OneContent /\ SeenRight
    OBVIOUS
  <2>1. /\ blobs = << >> /\ regs = << >> /\ srvBlobs = {} /\ pending = << >>
        /\ srvRows = << >> /\ ran = << >>
    BY DEF Init, Empty
  <2>2. Known = {} /\ RowBlobs = {}
    BY <2>1, NoRowBlobs DEF Known, Sent, ToSet, RowBlobs
  <2>3. \A i \in 1..Len(ran) : FALSE
    BY <2>1, EmptySeq
  <2>4. QED
    BY <2>2, <2>3 DEF OneContent, SeenRight
<1>2. SeenRight /\ Framed => RightBlob
  BY FramedRight DEF SeenRight, RightBlob
<1>3. QED
  BY <1>1, <1>2, FramedInit, TypesInit, TypesInductive, OneContentInductive, SeenRightKept,
     FramedInductive, PTL DEF Spec

-------------------------------------------------------------------------------
(* The packets of the rows that wait are all of them.                      *)
LEMMA AllRows == TypeOK => RowsOf(Packets) = pending
<1> SUFFICES ASSUME TypeOK
             PROVE  RowsOf(Packets) = pending
  OBVIOUS
<1>1. pending \in Seq(BatchRow)
  BY DEF TypeOK
<1>2. 1..Len(pending) \subseteq {i \in 1..Len(pending) : pending[i].packet \in Packets}
  BY DEF Packets
<1>3. QED
  BY <1>1, <1>2, WhereAll DEF RowsOf

(* The end of joined sequences is the second. *)
LEMMA SuffixOfConcat ==
    ASSUME NEW S, NEW s \in Seq(S), NEW t \in Seq(S)
    PROVE  IsSuffix(t, s \o t)
<1> DEFINE st == s \o t
           m == Len(s)
           k == Len(t)
<1>1. m \in Nat /\ k \in Nat /\ \A i \in 1..k : t[i] \in S
  BY ElementOfSeq, LenProperties
<1>2. /\ st \in Seq(S) /\ Len(st) = m + k
      /\ \A i \in 1..(m + k) : st[i] = IF i <= m THEN s[i] ELSE t[i - m]
  BY ConcatProperties
<1>3. \A i \in 1..(m + k) : st[i] \in S
  BY <1>2, ElementOfSeq
<1> DEFINE n == Len(st)
<1> HIDE DEF st, m, k, n
<1>4. /\ n = m + k
      /\ \A i \in 1..k : /\ (k - i) + 1 \in 1..k /\ (n - i) + 1 \in 1..n
                          /\ ~((n - i) + 1 <= m) /\ ((n - i) + 1) - m = (k - i) + 1
  BY <1>1, <1>2 DEF n
<1>5. ASSUME NEW i \in 1..k
      PROVE  st[(n - i) + 1] = t[(k - i) + 1]
  BY <1>2, <1>4
<1>6. /\ Reverse(t) \in Seq(S) /\ Len(Reverse(t)) = k
      /\ \A i \in 1..k : Reverse(t)[i] = t[(k - i) + 1]
  <2>1. Reverse(t) = [i \in 1..k |-> t[(k - i) + 1]]
    BY DEF Reverse, k
  <2>2. [i \in 1..k |-> t[(k - i) + 1]] \in [1..k -> S]
    BY <1>1, <1>4
  <2>3. QED
    BY <1>1, <2>1, <2>2
<1>7. /\ Reverse(st) \in Seq(S) /\ Len(Reverse(st)) = n
      /\ \A i \in 1..n : Reverse(st)[i] = st[(n - i) + 1]
  <2>1. Reverse(st) = [i \in 1..n |-> st[(n - i) + 1]]
    BY DEF Reverse, n
  <2>2. \A i \in 1..n : st[(n - i) + 1] \in S
    BY <1>1, <1>3, <1>4
  <2>3. [i \in 1..n |-> st[(n - i) + 1]] \in [1..n -> S]
    BY <2>2
  <2>4. QED
    BY <1>1, <1>4, <2>1, <2>3
<1>8. SubSeq(Reverse(t), 1, k) = SubSeq(Reverse(st), 1, k)
  <2>1. ASSUME NEW i \in 1..k
        PROVE  Reverse(t)[i] \in S /\ Reverse(st)[i] = Reverse(t)[i]
    <3>1. Reverse(t)[i] \in S
      BY <1>6, ElementOfSeq
    <3>2. i \in 1..n
      BY <1>1, <1>4
    <3>3. QED
      BY <1>5, <1>6, <1>7, <3>1, <3>2
  <2>2. /\ SubSeq(Reverse(t), 1, k) \in Seq(S) /\ SubSeq(Reverse(st), 1, k) \in Seq(S)
        /\ Len(SubSeq(Reverse(t), 1, k)) = k /\ Len(SubSeq(Reverse(st), 1, k)) = k
        /\ \A i \in 1..k : /\ SubSeq(Reverse(t), 1, k)[i] = Reverse(t)[i]
                           /\ SubSeq(Reverse(st), 1, k)[i] = Reverse(st)[i]
    BY <1>1, <2>1, SubSeqProperties
  <2>3. QED
    BY <2>1, <2>2, SeqEqual
<1>9. QED
  BY <1>1, <1>4, <1>6, <1>7, <1>8 DEF IsSuffix, IsPrefix, st

(* A report of success, and the rows of the exec. *)
LEMMA SuccessOfRun ==
    ASSUME TypeOK, Run
    PROVE  SuccessRanAll'
<1> SUFFICES ASSUME result'.ok, ~result'.failures
             PROVE  IsSuffix(result'.asked, result'.told)
  BY DEF SuccessRanAll
<1>1. ASSUME NEW packets, NEW last, RunPackets(packets, last)
      PROVE  /\ last
             /\ srvBatch
             /\ result'.asked = pending
             /\ result'.told = srvRows \o RowsOf(packets)
  <2> DEFINE have == srvRows \o RowsOf(packets)
  <2>1. PICK renewed \in BOOLEAN, failures \in BOOLEAN, executed \in BOOLEAN :
          \E told :
            /\ IF executed
               THEN srvBatch /\ Runs(have, Known, told, failures)
               ELSE told = <<>> /\ ~failures /\ ran' = LastRan
            /\ result' = [ok |-> executed /\ renewed /\ last, failures |-> failures,
                          asked |-> pending, told |-> told]
    BY <1>1 DEF RunPackets, Known
  <2> HIDE DEF have
  <2>2. PICK told :
          /\ IF executed
             THEN srvBatch /\ Runs(have, Known, told, failures)
             ELSE told = <<>> /\ ~failures /\ ran' = LastRan
          /\ result' = [ok |-> executed /\ renewed /\ last, failures |-> failures,
                        asked |-> pending, told |-> told]
    BY <2>1
  <2>3. executed /\ last /\ ~failures /\ result'.asked = pending /\ result'.told = told
    BY <2>2
  <2>4. told = have
    BY <2>2, <2>3 DEF Runs
  <2>5. QED
    BY <2>2, <2>3, <2>4 DEF have
<1>2. srvBatch /\ RunPackets(Packets, TRUE)
  BY <1>1 DEF Run
<1>3. result'.asked = pending /\ result'.told = srvRows \o pending
  BY <1>1, <1>2, AllRows
<1>4. pending \in Seq(BatchRow) /\ srvRows \in Seq(BatchRow)
  BY DEF TypeOK
<1>5. QED
  BY <1>3, <1>4, SuffixOfConcat

(***************************************************************************)
(* When execute reports success and no failure, every row that waited has  *)
(* been run, after those the server had kept of earlier calls.             *)
(***************************************************************************)
THEOREM SuccessMeansAllRan == Spec => []SuccessRanAll
<1>1. Init => SuccessRanAll
  BY DEF Init, Empty, NoResult, SuccessRanAll
<1>2. Types /\ SuccessRanAll /\ [Next]_vars => SuccessRanAll'
  <2> SUFFICES ASSUME Types, SuccessRanAll, [Next]_vars
               PROVE  SuccessRanAll'
    OBVIOUS
  <2>1. ASSUME result' \in {NoResult, Refused}
        PROVE  SuccessRanAll'
    BY <2>1 DEF NoResult, Refused, SuccessRanAll
  <2>2. CASE Create \/ Close
    BY <2>1, <2>2 DEF Create, Close, Anew
  <2>3. CASE SetDefaultBpb \/ NewBlob \/ Add \/ Cancel
    BY <2>1, <2>3 DEF SetDefaultBpb, NewBlob, Add, Cancel, Remembered
  <2>4. CASE Execute
    <3>1. CASE BpbRefused \/ BlobsRefused \/ RegsRefused \/ RowsRefused
      BY <2>1, <3>1 DEF BpbRefused, BlobsRefused, RegsRefused, RowsRefused, StopsEarly
    <3>2. CASE Run
      BY <3>2, SuccessOfRun DEF Types
    <3>3. QED
      BY <2>4, <3>1, <3>2 DEF Execute
  <2>5. CASE UNCHANGED vars
    BY <2>5 DEF vars, history, SuccessRanAll
  <2>6. QED
    BY <2>2, <2>3, <2>4, <2>5 DEF Next
<1>3. QED
  BY <1>1, <1>2, TypesInit, TypesInductive, PTL DEF Spec
===============================================================================
