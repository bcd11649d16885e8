--------------------------------- MODULE Batch ---------------------------------
(***************************************************************************)
(* A Batch (src/src/batch.rs) and its counterpart in the server.  Rows and *)
(* BLOBs pile up in the client; execute sends the BLOBs, then the          *)
(* registrations of BLOBs that exist already, then the rows in packets,    *)
(* and runs them.  The server keeps what it accepted until it runs it.     *)
(*                                                                         *)
(* A call is one action, with one disjunct for each place where the server *)
(* may refuse.  A pipeline that the server refuses somewhere may have had  *)
(* any other of its packets accepted (see Pipeline).  A connection that    *)
(* breaks takes the batch with it and is left to Session.                  *)
(*                                                                         *)
(* Rows are numbered as they are added, BLOB contents as they are given;   *)
(* a row that refers to a BLOB has its id and, as history, the content the *)
(* caller meant.  Of a BPB, the type of BLOB it asks for is kept: it says  *)
(* how the bytes of a BLOB are framed on one side and read on the other.   *)
(***************************************************************************)
EXTENDS Naturals, Sequences, SequencesExt, Selections

CONSTANTS PerPacket,            \* rows that fill a packet
          MaxRows, MaxBlobs,    \* bounds on what one batch is given
          ExecKeepsRows         \* the server may keep the rows of an exec
                                \* that it refuses

ASSUME BatchAssumption ==
    /\ PerPacket \in Nat \ {0}
    /\ MaxRows \in Nat
    /\ MaxBlobs \in Nat
    /\ ExecKeepsRows \in BOOLEAN

VARIABLES open,        \* the caller has the Batch
          blobStream,  \* the statement has a BLOB column
          pending,     \* rows not sent
          blobs,       \* BLOBs not sent: pending_blobs and blob_packets
          regs,        \* pending_regblobs
          nextId,      \* next_blob_id
          bpb,         \* bpb_definido, and with it blob_segmented
          bpbWaits,    \* default_bpb is still to be sent
          rows,        \* history: rows added
          contents,    \* history: BLOB contents given
          srvStmt,     \* the statement is alive in the server
          srvBatch,    \* and so is the batch on it
          srvRows,     \* rows in the server's batch
          srvBlobs,    \* its BLOBs
          srvSegmented, \* it reads BLOBs as segments
          ran,         \* history: rows run by the last execute, with the
                       \* content they got, after the last row run before
          result,      \* history: what it was asked and told
          createRefused, \* history: the server refused an op_batch_create
          bpbRefused   \* history: and a BPB since the batch was made

waiting == <<pending, blobs, regs>>
client == <<open, blobStream, waiting, nextId, bpb, bpbWaits>>
server == <<srvStmt, srvBatch, srvRows, srvBlobs, srvSegmented>>
given  == <<rows, contents>>
history == <<ran, result, createRefused, bpbRefused>>
vars   == <<client, given, server, history>>

Id == 1..(MaxBlobs + 1)
BlobRef == [id : Id, content : 1..MaxBlobs]
NoBlob == [id |-> 0, content |-> 0]
BlobToSend == [id : Id, content : 1..MaxBlobs, segmented : BOOLEAN]
BatchRow == [n : 1..MaxRows, blob : BlobRef \cup {NoBlob}, packet : 1..MaxRows]
NoResult == [ok |-> FALSE, failures |-> FALSE, asked |-> <<>>, told |-> <<>>]

(* The fields of a new Batch, and what the server has of it. *)
Empty ==
    /\ pending = <<>>
    /\ blobs = <<>>
    /\ regs = <<>>
    /\ nextId = 1
    /\ bpb = "none"
    /\ bpbWaits = FALSE
    /\ rows = 0
    /\ contents = 0
    /\ srvRows = <<>>
    /\ srvBlobs = {}
    /\ srvSegmented = FALSE
    /\ bpbRefused = FALSE
    /\ ran = <<>>
    /\ result = NoResult

Anew ==
    /\ pending' = <<>>
    /\ blobs' = <<>>
    /\ regs' = <<>>
    /\ nextId' = 1
    /\ bpb' = "none"
    /\ bpbWaits' = FALSE
    /\ rows' = 0
    /\ contents' = 0
    /\ srvRows' = <<>>
    /\ srvBlobs' = {}
    /\ srvSegmented' = FALSE
    /\ bpbRefused' = FALSE
    /\ ran' = <<>>
    /\ result' = NoResult

Init ==
    /\ open = FALSE
    /\ blobStream = FALSE
    /\ srvStmt = FALSE
    /\ srvBatch = FALSE
    /\ createRefused = FALSE
    /\ Empty

------------------------------------------------------------------------------
(* create_batch_with; the prepare before it may be refused as well, and    *)
(* then nothing happens.                                                   *)
Create ==
    /\ ~open
    /\ blobStream' \in BOOLEAN
    /\ srvStmt' = TRUE
    /\ srvBatch' \in BOOLEAN
    /\ open' = srvBatch'
    /\ createRefused' = ~srvBatch'
    /\ Anew

(* What a call that runs no rows leaves of the history. *)
LastRan == IF ran = <<>> THEN <<>> ELSE << Last(ran) >>

Remembered ==
    /\ ran' = LastRan
    /\ result' = NoResult
    /\ UNCHANGED createRefused

(* Mutant: the BPB changes under BLOBs that are framed already. *)
SetDefaultBpbAnyTime ==
    /\ open
    /\ blobStream
    /\ bpb' \in {"stream", "segmented"}
    /\ bpbWaits' = TRUE
    /\ UNCHANGED <<open, blobStream, waiting, nextId, given, server, bpbRefused>>
    /\ Remembered

(* set_default_bpb and set_segmented, refused while BLOBs wait. *)
SetDefaultBpb ==
    /\ open
    /\ blobStream
    /\ blobs = <<>>
    /\ bpb' \in {"stream", "segmented"}
    /\ bpbWaits' = TRUE
    /\ UNCHANGED <<open, blobStream, waiting, nextId, given, server, bpbRefused>>
    /\ Remembered

(* add_blob and register_blob: a new id for a content. *)
NewBlob ==
    /\ open
    /\ blobStream
    /\ contents < MaxBlobs
    /\ contents' = contents + 1
    /\ nextId' = nextId + 1
    /\ \/ /\ blobs' = Append(blobs, [id |-> nextId, content |-> contents + 1,
                                    segmented |-> bpb = "segmented"])
          /\ UNCHANGED regs
       \/ /\ regs' = Append(regs, [id |-> nextId, content |-> contents + 1])
          /\ UNCHANGED blobs
    /\ UNCHANGED <<open, blobStream, pending, bpb, bpbWaits, rows, server, bpbRefused>>
    /\ Remembered

(* What the server keeps of the BLOBs that wait. *)
Sent == {[id |-> b.id, content |-> b.content] : b \in ToSet(blobs)}

(* add and add_ref, with the cut of the packet: a row refers to a BLOB     *)
(* whose id is in use, or to none.  A row that does not encode leaves no   *)
(* trace.                                                                  *)
Add ==
    /\ open
    /\ rows < MaxRows
    /\ rows' = rows + 1
    /\ \E b \in {NoBlob} \cup Sent \cup ToSet(regs) \cup srvBlobs :
          pending' = Append(pending, [n |-> rows + 1, blob |-> b,
                                      packet |-> (Len(pending) \div PerPacket) + 1])
    /\ UNCHANGED <<open, blobStream, blobs, regs, nextId, bpb, bpbWaits, contents, server,
                   bpbRefused>>
    /\ Remembered

------------------------------------------------------------------------------
(* execute.                                                                *)

Refused == [ok |-> FALSE, failures |-> FALSE, asked |-> pending, told |-> <<>>]

Packets == {pending[i].packet : i \in 1..Len(pending)}

(* The packets sent before the last one, which goes out with the exec. *)
Ahead == {p \in Packets : \E q \in Packets : p < q}

RowsOf(packets) ==
    Where(pending, {i \in 1..Len(pending) : pending[i].packet \in packets})

(* What a pipeline leaves in the server when it refuses some packet. *)
SomeOf(S) == IF srvBatch THEN SUBSET S \ {S} ELSE {{}}

(* The first requests of execute: the BPB and the BLOBs. *)
Streams == bpbWaits \/ blobs # <<>>

(* How the server reads BLOBs once the BPB that waits has come. *)
SegmentedNext == IF bpbWaits THEN bpb = "segmented" ELSE srvSegmented

(* An execute that ends before the last packet. *)
StopsEarly ==
    /\ bpbWaits' = FALSE
    /\ blobs' = <<>>
    /\ ran' = LastRan
    /\ result' = Refused
    /\ UNCHANGED <<open, blobStream, bpb, given, srvStmt, srvBatch, createRefused>>

(* The BPB is refused: BLOBs after it come all the same. *)
BpbRefused ==
    /\ bpbWaits
    /\ \E A \in {{}} \cup {B \in SUBSET Sent : srvBatch} : srvBlobs' = srvBlobs \cup A
    /\ bpbRefused' = TRUE
    /\ UNCHANGED <<pending, regs, nextId, srvRows, srvSegmented>>
    /\ StopsEarly

(* The BLOB stream is refused: the rows stay, the BLOBs are gone. *)
BlobsRefused ==
    /\ blobs # <<>>
    /\ bpbWaits => srvBatch
    /\ \E A \in SomeOf(Sent) : srvBlobs' = srvBlobs \cup A
    /\ srvSegmented' = SegmentedNext
    /\ UNCHANGED <<pending, regs, nextId, srvRows, bpbRefused>>
    /\ StopsEarly

(* A registration is refused: the rows stay. *)
RegsRefused ==
    /\ regs # <<>>
    /\ Streams => srvBatch
    /\ \E A \in SomeOf(ToSet(regs)) : srvBlobs' = srvBlobs \cup Sent \cup A
    /\ regs' = <<>>
    /\ srvSegmented' = SegmentedNext
    /\ UNCHANGED <<pending, nextId, srvRows, bpbRefused>>
    /\ StopsEarly

(* Mutant: the rows stay for another try. *)
RowsRefusedKept ==
    /\ Ahead # {}
    /\ Streams \/ regs # <<>> => srvBatch
    /\ \E A \in SomeOf(Ahead) : srvRows' = srvRows \o RowsOf(A)
    /\ srvBlobs' = srvBlobs \cup Sent \cup ToSet(regs)
    /\ regs' = <<>>
    /\ srvSegmented' = SegmentedNext
    /\ UNCHANGED <<pending, nextId, bpbRefused>>
    /\ StopsEarly

(* A packet of rows before the last is refused: the rows are gone from the *)
(* client, and those of the other packets are in the server.               *)
RowsRefused ==
    /\ Ahead # {}
    /\ Streams \/ regs # <<>> => srvBatch
    /\ \E A \in SomeOf(Ahead) : srvRows' = srvRows \o RowsOf(A)
    /\ srvBlobs' = srvBlobs \cup Sent \cup ToSet(regs)
    /\ pending' = <<>>
    /\ regs' = <<>>
    /\ srvSegmented' = SegmentedNext
    /\ UNCHANGED <<nextId, bpbRefused>>
    /\ StopsEarly

(* The contents that the server knows under the id of a row's BLOB. *)
Seen(r, known) == {b.content : b \in {k \in known : k.id = r.blob.id}}

(* Rows of `have` are run, all of them or, without multierror, up to one   *)
(* that fails; a row whose BLOB is not known fails.                        *)
Runs(have, known, told, failures) ==
    /\ \E k \in 0..Len(have) : told = SubSeq(have, 1, k)
    /\ \/ failures
       \/ told = have /\ \A r \in ToSet(have) : r.blob = NoBlob \/ Seen(r, known) # {}
    /\ ran' = LastRan
              \o [i \in 1..Len(told) |-> [n |-> told[i].n, want |-> told[i].blob,
                                         seen |-> Seen(told[i], known)]]

(* renovar_no_servidor: release and free, prepare again, create again,     *)
(* where each may be refused.                                              *)
Renew(renewed) ==
    /\ srvBlobs' = {}
    /\ srvRows' = <<>>
    /\ srvSegmented' = FALSE
    /\ \/ /\ srvBatch
          /\ renewed
          /\ nextId' = 1
          /\ bpbWaits' = (bpb # "none")
          /\ bpbRefused' = FALSE
          /\ UNCHANGED <<srvStmt, srvBatch, createRefused>>
       \/ (* no batch to release, or the prepare refused *)
          /\ ~renewed
          /\ bpbWaits' = FALSE
          /\ srvStmt' = FALSE
          /\ srvBatch' = FALSE
          /\ UNCHANGED <<nextId, bpbRefused, createRefused>>
       \/ (* the create refused *)
          /\ srvBatch
          /\ ~renewed
          /\ bpbWaits' = FALSE
          /\ srvBatch' = FALSE
          /\ createRefused' = TRUE
          /\ UNCHANGED <<nextId, bpbRefused, srvStmt>>

(* The last packet and the exec, from the rows of the packets accepted.    *)
(* The error of the packet is the result even though the exec ran the rows *)
(* before it, and so is the error of the renewal.                          *)
RunPackets(accepted, last) ==
    LET known == srvBlobs \cup Sent \cup ToSet(regs)
        have  == srvRows \o RowsOf(accepted)
    IN \E renewed \in BOOLEAN, failures \in BOOLEAN, executed \in BOOLEAN :
         \E told \in {SubSeq(have, 1, k) : k \in 0..Len(have)} :
           /\ IF executed
              THEN srvBatch /\ Runs(have, known, told, failures)
              ELSE told = <<>> /\ ~failures /\ ran' = LastRan
           /\ IF blobStream
              THEN Renew(renewed)
              ELSE /\ renewed
                   /\ IF executed
                      THEN srvRows' = <<>> /\ srvBlobs' = {}
                      ELSE /\ srvRows' \in {<<>>} \cup {h \in {have} : ExecKeepsRows}
                           /\ srvBlobs' = {}
                   /\ UNCHANGED <<nextId, bpbWaits, bpbRefused, srvStmt, srvBatch,
                                  srvSegmented, createRefused>>
           /\ result' = [ok |-> executed /\ renewed /\ last, failures |-> failures,
                         asked |-> pending, told |-> told]

Emptied ==
    /\ pending' = <<>>
    /\ blobs' = <<>>
    /\ regs' = <<>>
    /\ UNCHANGED <<open, blobStream, bpb, given>>

(* Mutant: only packets that are full are sent. *)
RunFullPackets ==
    /\ srvBatch
    /\ RunPackets({p \in Packets : Len(RowsOf({p})) = PerPacket}, TRUE)
    /\ Emptied

Run ==
    /\ \/ srvBatch /\ RunPackets(Packets, TRUE)
       \/ Packets # {} /\ RunPackets(IF srvBatch THEN Ahead ELSE {}, FALSE)
       \/ ~srvBatch /\ Packets = {} /\ RunPackets({}, TRUE)
    /\ Streams \/ regs # <<>> \/ Ahead # {} => srvBatch
    /\ Emptied

Execute ==
    /\ open
    /\ BpbRefused \/ BlobsRefused \/ RegsRefused \/ RowsRefused \/ Run

------------------------------------------------------------------------------
(* cancel; the server refuses it only when it has no batch. *)
Cancel ==
    /\ open
    /\ Emptied
    /\ IF srvBatch THEN srvRows' = <<>> /\ srvBlobs' = {} ELSE UNCHANGED <<srvRows, srvBlobs>>
    /\ UNCHANGED <<nextId, bpbWaits, srvStmt, srvBatch, srvSegmented, bpbRefused>>
    /\ Remembered

(* Mutant: the statement is not freed. *)
CloseReleasing ==
    /\ open
    /\ open' = FALSE
    /\ srvBatch' = FALSE
    /\ UNCHANGED <<blobStream, srvStmt, createRefused>>
    /\ Anew

(* close: when the release is refused the statement is not freed. *)
Close ==
    /\ open
    /\ open' = FALSE
    /\ IF srvBatch THEN srvBatch' = FALSE /\ srvStmt' = FALSE
                   ELSE UNCHANGED <<srvBatch, srvStmt>>
    /\ UNCHANGED <<blobStream, createRefused>>
    /\ Anew

Next == Create \/ SetDefaultBpb \/ NewBlob \/ Add \/ Execute \/ Cancel \/ Close

Spec == Init /\ [][Next]_vars

------------------------------------------------------------------------------
(* Types; BLOBs are only in batches with a BLOB column. *)
TypeOK ==
    /\ {open, blobStream, srvStmt, srvBatch, createRefused} \subseteq BOOLEAN
    /\ {bpbWaits, srvSegmented, bpbRefused} \subseteq BOOLEAN
    /\ {pending, srvRows} \subseteq Seq(BatchRow)
    /\ blobs \in Seq(BlobToSend)
    /\ regs \in Seq(BlobRef)
    /\ nextId \in Id
    /\ bpb \in {"none", "stream", "segmented"}
    /\ rows \in 0..MaxRows
    /\ contents \in 0..MaxBlobs
    /\ srvBlobs \subseteq BlobRef
    /\ ~blobStream => /\ bpb = "none"
                      /\ blobs = <<>> /\ regs = <<>> /\ srvBlobs = {}
    /\ srvBatch => srvStmt

Numbers(s) == [i \in 1..Len(s) |-> s[i].n]

(* A row is in one place and is run once at most, and rows are run in the  *)
(* order they were added, whatever calls were refused before.              *)
RunOnceInOrder ==
    LET all == Numbers(ran \o srvRows \o pending)
    IN \A i, j \in 1..Len(all) : i < j => all[i] < all[j]

(* A row never gets another BLOB than the one the caller meant, although   *)
(* ids start again at 1 with every renewal; and a BLOB is framed the way   *)
(* the server will read it, although the renewed batch has forgotten the   *)
(* BPB, unless the server refused that BPB.                                *)
RightBlob ==
    /\ \A i \in 1..Len(ran) : ran[i].seen \subseteq {ran[i].want.content}
    /\ srvBatch /\ ~bpbRefused => \A b \in ToSet(blobs) : b.segmented = SegmentedNext

(* When execute reports success and no failure, every row that was pending *)
(* has been run.                                                           *)
SuccessRanAll ==
    result.ok /\ ~result.failures => IsSuffix(result.asked, result.told)

(* A statement of a batch that is closed, or was never made, is not left   *)
(* in the server, unless the server refused its op_batch_create.           *)
StatementReleased == ~open /\ ~createRefused => ~srvStmt

(* What execute reports is about the rows it was asked to run: row i of    *)
(* the report is the i-th that was pending.                                *)
ReportMatchesRows == result.ok => IsPrefix(result.told, result.asked)
===============================================================================
