# Verification of firebird-wire

firebird-wire is a synchronous Firebird driver in Rust that speaks the wire
protocol over TCP. This directory holds TLA+ models of its stateful parts, TLC
configurations that check them on small instances, and TLAPS proofs of their
main properties for every value of the constants. Paths below are relative to
the repository; `src/` in a path of the form `src/pool.rs` is the crate's
source directory.

## 1. Inventory

Layers, from the bottom: `FbStream` (one socket with buffers, ciphers and the
flag `broken`), `read_response` and `pipeline_requests` over it, `Connection`
(an attachment) over these, then `Transaction`, `Statement`, `Blob` and `Batch`,
which are bare server handles whose calls borrow the `Connection` mutably, and
`Pool`, which lends connections to threads.

| Component (source) | State | Operations | Interacts with | Hard behaviour | What makes it correct |
|---|---|---|---|---|---|
| Pool (`pool.rs`) | permit counter under a mutex with a condition variable; queue of idle connections under another mutex; guards | `get`, `discard`, drop of the guard | threads; `Connection::connect`, `is_healthy`, drop | two mutexes and a condvar, timeouts racing notifications, connection attempts that fail, order of return and release | permits conserved, at most `max_size` sockets, no lost wakeup, one owner per connection, every wait ends |
| Stream (`wire/stream.rs`) | write and read buffers, ciphers, `broken` | `enqueue`, `flush`, `fill`, readers | everything | I/O errors, an abandoned packet | a healthy stream is in step with the server |
| Pipelining (`wire/response.rs`) | requests outstanding, first error | `read_response`, `pipeline_requests` | stream; batch, blob write, `native_data_types` | both sides blocked on full TCP buffers; a refusal in mid-flight | no deadlock, all answers drained, earliest error reported |
| Connection in use (`connection.rs`) | attachment handle, stream | `ping`, `exec_immediate`, `close`, `is_healthy` | pool | desynchronisation | health tells the truth |
| Handshake and attach (`connection.rs`, `config.rs`) | SRP session, how the attach will authenticate, rounds, key, cipher | `connect`, `create_database`, service attach, the SET BIND pipeline | server, stream, ciphers, pipelining | four branches on the accept, three crypt postures, rounds the server may ask for without end, a cipher that changes in the middle of an exchange | both ends change cipher at the same packet; the posture decides the outcome; opening ends |
| Transactions (`transaction.rs`) | server handle | `begin`, `commit`, `rollback`, retaining forms, `TransactionBuilder` | connection; closes cursors | a commit refused, and the rollback after it | no transaction lives on in the server unless its rollback was refused or its value dropped |
| Statements (`statement.rs`) | handle, `cursor_open`, prefetch buffer, `exhausted` | `prepare`, `execute`, `fetch`, `fetch_scroll`, `close`, `drop_statement` | server's cursor, transactions | prefetch against the server's position; cursors that die with their transaction; a prepare refused between two requests; a refused drop | rows in order, none skipped or repeated; no cursor or handle lost |
| BLOBs (`blob.rs`) | handle, `eof` | open, read, create, write, close, cancel | stream, pipelining | reading ahead past an end that only an answer tells; a refused segment with others behind it; a refused close | the whole content or an error; handle closed or cancelled |
| Batch (`batch.rs`) | pending rows, BLOBs and registrations, packet cuts, next BLOB id, default BPB, handle | `add`, `add_blob`, `register_blob`, `set_default_bpb`, `execute` with renewal, `cancel`, `close` | pipelining, server's batch | a refusal at any request of `execute`; ids that restart; a BPB the renewed batch forgets | every row once, in order, with its own BLOB, framed as the server reads it; nothing leaked |
| Events (`events.rs`) | auxiliary stream, counts | `listen_events`, `wait`, `cancel` | main connection and a second socket | one-shot registrations, posts between a notification and the next registration, echoes | no name lost or reported early; a post wakes the waiter |
| Services (`service.rs`) | stream, handle | `attach`, `start`, `info`, `collect_output`, `fetch_users`, every action, `close` | handshake | output cut anywhere | all output once; every action understood |
| Arrays (`array.rs`) | none | `array_desc`, `to_sdl`, `read_array`, `write_array` | connection, catalogue | bounds of any width, slices with fewer elements | each element at its subscripts |
| Rows and messages (`message.rs`, `blr.rs`, `wire/xdr.rs`) | row buffer of a Batch | `encode_row` and its forms, `decode_row`, `message_blr`, `input_blr` | statements, batch | a row refused half way, types whose input and output forms differ | the row read is the row written |
| Parameter buffers (`connection.rs`, `config.rs`, `transaction.rs`, `service.rs`, `events.rs`, `batch.rs`) | none | DPB, TPB, SPB, EPB, `op_connect` block | handshake, transactions, services | one-byte lengths, signs of short integers | the server reads what the caller set |
| Answers (`statement.rs`, `service.rs`, `batch.rs`, `error.rs`, `gds.rs`) | none | parsers of descriptions, counts, items, `op_batch_cs`, status vectors | all | answers cut at the buffer's end | meaning kept, or an error |
| Values (`value.rs`, `tz.rs`, `decfloat.rs`, `charset.rs`, `dos.rs`, `row.rs`) | none | conversions, typed reads | rows | calendars, zones, IEEE decimals | agree with the plain definition |
| Authentication and wire ciphers (`auth/`) | SRP values, cipher states | proofs, hashes, key streams | handshake | arithmetic | not modelled |

Concurrency exists in three places: threads around the pool, the client and the
server around a connection, and an event listener's second channel. A
`Connection` is never shared by threads without a lock, because every call takes
`&mut Connection`.

## 2. Modules

| Module | Models | Correspondence |
|---|---|---|
| `Pool` | `pool.rs` | One action per critical section. `available` and `idle` are the guarded fields; `pc` says between which sections a thread is; `conn` is what the thread owns, `expired` its deadline. `failed` is history: connections that met an error. |
| `ConnectionLimit` | abstract | Counts only: connections resting and lent, never more than the limit together, each moving between the two. `Pool` refines it. |
| `Session` | `connection.rs` after the attach, `transaction.rs`, `statement.rs` | One action per exchange and outcome: accepted, refused, broken. Calls of one exchange are one action; a refused `commit` goes on to its rollback, and `prepare` takes up to three exchanges, with `aborting`, `allocated` and `discarding` for where the call is between two of them. The client's values (`tx`, `stmt`) stand beside the server's objects (`srvTx`, `srvStmt`, `cur`). History: `unfinished`, `undescribed` and `unfreed` record what was left in the server and why; `last`, `refused` and `asked` what the caller was told. |
| `Scrolling` | directions of `fetch_scroll` | Places of a result set and where each direction and offset lands. `Session` moves the server's cursor by it, `ResultSet` the caller. |
| `ResultSet` | abstract | Reading the rows of a SELECT one by one: a fetch delivers the next row; a jump lands exactly where `Scrolling` says, a relative one counted from the last row that was read ahead, fewer than `FetchSize` rows after the caller's. `Session` refines it. |
| `Wire` | `FbStream` and TCP | Counters of requests enqueued, written, served and of answers written and drained, over socket buffers of `ReqCap` and `RespCap` packets. A base that other modules extend. |
| `Pipeline` | `pipeline_requests` | The loop fill, flush, read, one step per packet, interleaved with a server that serves in order and blocks when its answers are not read. |
| `BlobWrite` | `Connection::write_blob`, `BlobWriter` | create, the segments through `Pipeline`, then close or cancel. |
| `BlobRead` | `Connection::read_blob` | open, `Blob::read_to_end`, close accepted or refused, over `Wire`; the server hands out blocks and reports the end with the last block or after it. |
| `MCBlobs` | composition | `BlobWrite` or `BlobRead` over the same `Wire`; each behaviour follows one of them (`lane`). |
| `Batch` | `batch.rs` | One action per call; `execute` has a disjunct per place where the server may refuse. What a refused pipeline leaves in the server is what `Pipeline` shows: any of its other packets. Of a BPB, the type of BLOB it asks for is kept, which decides the framing of the bytes. |
| `Handshake` | `connection.rs` up to the attach | `connect_socket` address by address, the accept with its four branches, the rounds of `op_cont_auth` before and after the attach packet, `negotiate_crypt`, `op_crypt`, SET BIND. One packet at a time, each with the cipher state of its writer; a session key is the number of the challenge it came from. |
| `Attachment` | abstract | Opening ends refused, plain or encrypted, as the WireCrypt posture allows. `Handshake` refines its safety part. |
| `Events` | `events.rs` | The caller's calls, the loop of `wait` in its steps, the server's one-shot registration, the auxiliary channel as a queue, posts by other connections. `told` and `erred` are history. |
| `Service` | `service.rs` | `start`, one step per `op_service_info`, the end of the output, `close`. A byte of output knows its item, so a cut inside an item shows. |
| `MCAttach` | composition | `Handshake`, then `Events` on a database or `Service` on a service manager, as the target of the attach was. |
| `Xdr` | `wire/xdr.rs`, readers of `wire/stream.rs` | A byte knows the number it is part of and its place in it, so bytes read at a wrong offset never make a value. |
| `Message` | `message.rs`, `blr.rs` | Rows into a shared buffer behind a bitmap of nulls, the BLR that declares them, a reader that knows only the BLR, and the rows of a cursor read back. |
| `Slices` | `array.rs` | A description out of the catalogue, the SDL made of it, the server's reader of SDL, elements out and back. |
| `DecFloat` | `decfloat.rs` | Text to fields of an IEEE decimal and back; the server decodes declets by the standard's rules, the client by its inverted table. |
| `Answers` | parsers of `statement.rs`, `service.rs`, `batch.rs`, `blob.rs`, `error.rs` | The server renders an answer and cuts it at the client's buffer; the client parses it. |
| `Parameters` | builders of DPB, TPB, SPB, EPB, `op_connect` and batch parameters | The client builds; the server cuts the buffer apart knowing the form of each tag, and what it finds under the tags of a DPB, an SPB, a TPB, an EPB, the `op_connect` block and a batch is compared with what the caller set. `listen_events` builds nothing for an empty list or a name over 255 bytes (`Listened`). |
| `Values` | `value.rs`, `row.rs`, `tz.rs`, `charset.rs`, `dos.rs` | Conversions against the calendar counted day by day, the clock unit by unit, the charset character by character. |
| `Selections` | helpers | Parts of a sequence by place (`Where`) and by value (`Keep`), as joins of one element or none, for `Batch` and `Service`. |
| `MCCodecs` | inputs | The values of the last seven modules. They share nothing, so each behaviour follows one of them (`lane`). |

How they fit: `Pool` sees a connection as one that breaks or not; `Session`
shows what that flag is worth (finding 1). `Batch` uses a pipeline as one step
whose outcomes are those of `Pipeline`. `Session` takes a pipeline or a BLOB
call as an exchange that succeeds, is refused or breaks the stream, which is
what `StreamLeftClean` and `CloseReadsItsAnswer` justify. `Handshake` ends where
`Session`, `Events` and `Service` begin.

`MCSession` adds symmetry of handles. `*Proofs` modules hold the theorems.
Definitions with a comment `Mutant:` are plausible bugs, each put in the place of
the definition after it to show that a property notices; they are part of no
specification.

### Assumptions about what is outside the repository

* A thread blocked in the condvar may wake for no reason; `notify_one` wakes one
  blocked thread or, if there is none, nobody.
* The server serves a connection's requests in order, one answer each. It reads
  no further request while it cannot write an answer.
* It closes cursors with their transaction. It may refuse any request: to commit
  or roll back a live transaction, to prepare a text, to drop a statement, to close
  a blob. The caller's value is consumed all the same, so what then stays in the
  server is recorded (`unfinished`, `unfreed`, `closeRefused`, the writer "kept") and
  is all that may stay there. A refused `Statement::close` leaves everything as it was
  (a stutter).
* `op_fetch` sends up to the rows asked for and a terminator that says whether
  the cursor is at its end. A jump that is accepted lands where `Landing` says,
  which is the meaning of the directions in the server; whether a cursor is
  scrollable is left open, so any jump may be refused.
* `op_get_segment` hands out a BLOB's blocks in order, reports the end with the
  last block or after it, and answers later requests with `isc_segstr_eof` or
  with nothing. Any request may fail.
* The server keeps the packets a batch accepted until it runs, cancels or
  releases it, and a batch's BPB until it is released. Whether it keeps rows after
  refusing an exec is not known from the client: constant `ExecKeepsRows`; the
  run takes TRUE, which allows both.
* During the handshake the server may accept, refuse, ask for further rounds with
  or without a new challenge, name any plugin, and send packets that have no place
  there. It announces ciphers only where it holds a key, and turns its cipher on
  with the answer to `op_crypt`.
* An event registration is spent by one notification. The server notifies once a
  post goes beyond the baseline; it may answer a registration at once with the
  counts it has, which spends it as well. Notifications arrive in order.
* A service's output is cut into answers anywhere. It ends with an empty answer.
* A value has the numbers of its kind, and a column one of the types of
  `sql_type` or one the crate has no name for.
* The system tables have a type of Firebird for every column, scale and length in a
  SMALLINT, bounds of 32 bits and names of at most 63 characters (252 bytes); the
  `f32` of a Float element has 32 bits already.
* A value carries a time of a day, an offset within 1439 minutes and a zone id of 16
  bits, and a caller reads an integer into a type of at most 8 bytes.
* The server reads a message by its BLR, a slice by its SDL and a parameter
  buffer by the forms of its tags; the readers in `Message`, `Slices` and
  `Parameters` are written from what the builders' comments and tests say of
  the server.
* A connection that is lost takes everything on it along. Calls that are refused
  and change nothing on either side are stutters and are not written as actions.

## 3. Runs

| Run | Instance | Shows |
|---|---|---|
| `pool` | 3 threads, 3 connections, `MaxSize` 2, timeouts, `TimedSpec` | Permits, socket bound, single owners, the refinement of `ConnectionLimit`; `AcquireEnds`: with a timeout a call of `get` leaves the semaphore even if nobody returns a connection |
| `pool_patient` | 4 threads, 2 connections, `MaxSize` 2, no timeout, `PatientSpec` | `NoLostWakeup`; `WaiterServed`: a blocked thread gets its permit unless other calls come for ever |
| `session` | 2 transactions, 2 statements, 3 rows, batches of 2, jumps in every direction, by -2 and by 4 | `TxOwned`, `StmtOwned`, `ServerCursorKnown`: nothing stays in the server without an owner or a recorded refusal; `RowsInOrder`; refinement of `ResultSet` |
| `session_desync`, `session_jump`, `session_next` | the same | Findings 1, 2 and 5 (violations) |
| `blobs` | `write_blob` with up to 5 segments or `read_blob` of 3 blocks, window 3, socket buffers of one packet each way | Deadlock freedom and drained answers of both; the earliest error, bounded overrun, an id only for a whole blob, termination of the write; whole content or error and the close on every path of the read |
| `batch` | 5 rows in packets of 2, 2 BLOBs, a BPB, refusals everywhere | `RunOnceInOrder`, `RightBlob`, `SuccessRanAll`, `StatementReleased` |
| `batch_report` | the same, rows not kept after a refused exec | Finding 3 (violation) |
| `attach` | rounds limited to 2, one address, 3 announcements of ciphers; 2 event names posted twice each; output of 4 items in pieces of up to 3 bytes | `CipherAgreed`, `LegacyOnlyIfAllowed`, `PostureKept`, `OpeningEnds`; `NothingUntold`, `PostWakesWaiter`; `OutputComplete` |
| `codecs` | see `MCCodecs` | Six properties, one per module: `RowsArrive`, `ArraysArrive`, `DecFloatsArrive`, `AnswersUnderstood`, `ParametersUnderstood`, `ValuesAgree` |
| `batch_zone` | the same | Finding 4 (violation) |

Why the bounds are enough to be interesting:

* Pool: with two permits, two releases can fall between a wait and a wakeup, a
  thread can barge in front of a woken one, and a connection can rest while
  another is opened. The third identity in `Conn` would let the bound of two be
  broken, and does under the mutant `DropPermitFirst`. Four threads without a
  timeout let two sleep while two return.
* Session: three rows and batches of two give a full batch, a partial one, an
  empty one and jumps before, into and behind each. The offsets land before the first
  row, on every row and behind the last, from the front and from the back. The second statement and
  transaction give cursors that die with the other's transaction, and a call that
  runs while an earlier refusal has left something in the server.
* Pipeline: `Window = ReqCap + RespCap + 1` is the largest window that is safe for
  the buffers (one more deadlocks, as the mutant `RefillAll` shows), and five
  requests refill the window after answers.
* BlobRead: three blocks and a window of three let two requests run past the end, with
  room for one request and one answer in the sockets.
* Batch: five rows make two packets ahead of the last one, or one refused and one
  kept with rows still to add; two BLOBs let an id be reused after a renewal.
* Attach: two rounds reach the limit and one beyond in each of the two loops; a
  second challenge changes the key after a proof; `Offers` holds nothing, and two
  pairs of ciphers with different preferences. The code's limit of 8 rounds and any
  number of challenges are covered by the proofs. Two names and two posts let a
  name fire while another was already reported, and a post fall before, between
  and after two registrations. `Addresses` is 1: with two, one address fails in
  one way and the other in another, which only `SocketError` tells apart.
  What follows an attach depends on none of the handshake's state but the target,
  so `Opened` follows it from one way of opening for each target.
* Codecs: bounds on each side of every width of an SDL literal, texts and names on
  each side of 255 bytes, integers with a top byte that looks like a sign, every
  declet of three digits, exponents at the limits of both formats, info buffers cut
  at many lengths, all status vectors of up to four arguments, 800 days from the
  ends of years, centuries and eras, rows of two columns whose bytes would be read
  shifted, and a row of 33 columns for a second word of the bitmap.

`blobs` stops when the call returns, `attach` when an opening
failed or a service is closed, and `codecs` when a value has been read back, so
deadlock is not checked there; a blocked call would show as `NeverWedged`,
`Returns` or `OpeningEnds`. All other runs check deadlock.

### Fairness

* `ThreadsRun`: a runnable thread takes free mutexes and proceeds, and the clock
  passes deadlines. The operating system gives that. Nothing is assumed of users
  or servers, so `AcquireEnds` does not depend on them.
* `UsersAndServersProgress`: users return connections and connection attempts end.
  It is needed only for `WaiterServed`, where a thread waits without timeout for
  another user. The mutexes are not assumed fair: a thread may barge in, and
  `WaiterServed` exempts an endless sequence of such calls.
* `MCSpec` of `MCBlobs` (the fairness of `BlobFairSpec`): the caller's thread runs, and the server serves and writes
  while its answers are read. Nothing makes a link fail or a request succeed.
* `HandshakeFair`: the client's thread runs and the server answers what it was
  sent, whatever it answers. `ReadFails` is not fair: an opening must end without
  the help of a broken link. Reads of the handshake have no timeout, so a server
  that falls silent does block the caller (`src/wire/stream.rs:154`).
* `Progress` and `EventsServer` in `MCAttach`: the listener's thread runs, the
  server answers registrations and notifies. Nobody is obliged to post, wait or
  cancel.

### Findings

1. `session_desync`: `fetch_batch`, `fetch_scroll` and `execute_message` return
   `Error::protocol` on an unexpected op code without `mark_broken`; the stream
   is out of step and `is_healthy` says otherwise, against the comments at
   `src/wire/stream.rs:40` and `src/connection.rs:274`. The readers of arrays,
   events and `op_batch_cs` have the same form.
2. `session_jump`: `fetch_scroll` clears the prefetched rows before the server
   accepts the jump; after a refusal the next `fetch` skips them.
3. `batch_report`: when a packet of rows before the last is refused, `execute`
   returns with the rows of other packets in the server; they run with the next
   `execute`, whose `update_counts` and `message_index` are then about other rows.
   Each row still runs at most once and in order (`RunOnceInOrder`): the finding is
   about when, and about the report.
4. `batch_zone`: `create_batch_with` declares its rows with `message_blr`, in which a
   column WITH TIME ZONE has the extended form with an offset, and `encode_value`
   sends the base form without it, against `src/message.rs:277` and `src/blr.rs:20`.
   The server reads every value after such a column four bytes late.
5. `session_next`: `fetch_next` is documented as equal to `fetch` on a scrollable
   cursor (`src/statement.rs:457`). It is a jump of one row from the server's position;
   after a `fetch` that is the end of the batch read ahead, so the rows in the
   buffer are thrown away and skipped. The other relative jumps (`fetch_prior`,
   `fetch_relative`) start from there too; `ResultSet` says so, and that they are
   right when nothing is read ahead.

Notes made while translating, which no run is about:

* `src/blob.rs:24` says a segment travels with a length of two bytes in front;
  `BlobWriter::write` sends it bare, as its own comment says.
* `decfloat.rs` admits biased exponents from three times two to the power of the
  low bits on (`src/decfloat.rs:192`), which read back as other numbers, where
  `src/decfloat.rs:101` promises None. `DecFloatsArrive` leaves these out. A text with
  a large exponent does not always parse again, since `from_str` goes through a `u128`.
* `fill_template` substitutes markers inside values already substituted.
* `lock_timeout(n).no_wait()` emits both NOWAIT and a lock timeout;
  `ParametersUnderstood` takes the options set last.
* Lengths are cut to one or two bytes without a check in SDL names and the strings of
  service actions (event names are checked, `src/events.rs:54`); elements of SHORT and LONG arrays wrap, and a
  BOOLEAN element takes any other value as false.
* `win1252_byte` promises a question mark for what CP-1252 lacks
  (`src/charset.rs:266`), but its last arm takes every code point up to 255: the C1
  controls at positions the code page assigns pass as that byte and come back as
  another character, U+0080 as the euro. `ValuesAgree` exempts them (`Taken`).
* `offset_zone_id` beyond ±1439 minutes is another zone's id; a leap second of
  chrono makes a fraction of 10000 or more.
* For a column of a type it has no name for, `message_buffer_len` counts a field of 8
  bytes on a boundary of 8 (`src/message.rs:65`), while `push_type` declares a quad, whose
  boundary is 4. No type of Firebird is known to meet it; `RowsArrive` compares
  the lengths of all other messages (`HasUnknown`).
* `array_desc` keeps its prepared statement when the execute or the fetch fails.
* After a refused default BPB the batch goes on framing BLOBs for it until a renewal
  sends it again; `RightBlob` exempts that state (`bpbRefused`).

## 4. Proofs

All constants arbitrary within the named assumptions.

| Module | Theorems | Argument |
|---|---|---|
| `PoolProofs` (`PoolAssumption`: finitely many threads, `MaxSize` a natural) | `TypeCorrect`, `PermitConservation`, `SocketsBounded`, `WakeupsKept`, `ConnectionsOwned`, `PoolImplementsLimit` | Each step adds to or removes from `Holders` and `Committed` one thread at most (`HoldersStep`, `CommittedStep`), so cardinalities move with the counter. `ConnectionsBounded` is not inductive by itself: a connection is opened only with the queue empty, by a thread that holds a permit and no connection yet, so `BoundInv` adds permit conservation, and `Typed` that only holders of permits have connections; this is where the order return, then release is used (`RoomForConnect`). `NoLostWakeup` is inductive with the types: every release notifies, and every waiter has seen the counter at zero. `OneOwner` needs `OwnerInv`: a connection that met an error is marked broken as long as it lives. |
| `SessionProofs` (`SessionAssumption`: batches of at least one; `ScrollingAssumption`: at least one row, integer offsets) | `TypeCorrect`, `RowsDeliveredInOrder`, `PrefetchInvisible`, `TransactionsOwned`, `HandlesOwned`, `CursorsKnown` | `RowsInOrder` needs to know where the server's cursor stands relative to the buffer; `ReaderStep` shows it per statement, and `AbstractStep` maps each call to a step of `ResultSet` or a stutter: fetches by `AbstractFetch`, and jumps by `AbstractJump`, where the server's position is the caller's and the rows ahead of it together. `PrefetchInvisible` does not say that `fetch_next` is `fetch`, which is false (finding 5), but what it is: the landing of one row after the last one read ahead. Ownership is inductive once nothing is held twice: `TxKept` adds to `TxOwned` that the values, the rollback under way and what was left behind are disjoint, `HandlesKept` the same for handles and that at most one prepare is under way, and `CursorHeld` that a cursor belongs to a statement the caller has or let go of. |
| `PipelineProofs` (`PipelineAssumption`) | `TypeCorrect`, `StreamLeftClean`, `EarliestError`, `OverrunBounded`, `DeadlockFree` | `Inv` = types, `InOrder` (each counter is behind the one before it, and `outstanding` is what was enqueued and not drained), `AtPc` (what has been written at each point of the loop) and `ErrorsSeen` (`firstErr` is the first refusal among the drained answers, and what was sent after it fits in the window). |
| `PipelineProofs`, `BlobWrite` | `BlobWrittenWhole`, `WriteLeavesStreamClean` | The invariant above is that of `Pipeline`'s own `Spec`. Every step of `BlobWrite` is one of its steps, a stutter of it, or breaks the stream (`PipelineKept`), so its invariant holds inside the call; `AtCall` adds that the call closes the writer only where the pipeline has ended without an error, which means that all was accepted (`WholeAtEnd`). A blob can stay open in the server only by a refused close or cancel. |
| `BlobReadProofs` (`BlobAssumption`) | `TypeCorrect`, `BlobWhole`, `CloseReadsItsAnswer`, `HandlesReleased`, `RequestBound` | `Inv` says which sequences of answers a server can give (`Shape`), how the counters and the window relate, and what the client has made of the answers drained (`Progress`): before it stops, one block per answer; after it, all blocks or an error. `HandlesReleased`: the close is asked for on every path, so a handle stays alive only by a refusal (`closeRefused`), and then the caller has an error. |
| `AttachProofs`, `Handshake` (`HandshakeAssumption`) | `HashWithheld`, `PostureDecides`, `CiphersAgree` | `ClientInv` says where the client may be with which posture and cipher; the refinement of `Attachment` follows from it step by step. `CipherAgreed` is not inductive: `CipherInv` adds that one packet at most is under way (`OnePacket`), in which states the two ends have which cipher (`SameCipher`), and that wherever the client may come to ask for a cipher its key is the server's (`SameKey`), through any number of new challenges. |
| `AttachProofs`, `Events` (`EventsAssumption`) | `NoEventLost`, `NothingInvented` | `Inv`: the notifications on the channel are sorted and lie between the listener's counts and what was posted (`InOrder`), and at each point of `wait` the names the caller was not told of are exactly those in `fired` (`ToldAtPoint`). |
| `AttachProofs`, `Service` (`ServiceAssumption`: the items of an output have names of their own) | `OutputsComplete` | `Collecting`: while output is collected, `p` of its bytes were read, what is left are the others, `cut` names items that begin in the first `p` bytes, and what was decoded are the items that start and end among these (`Starts`), less the ones cut. A piece adds the items that are whole in it and no other (`PieceStarts`), because the bytes of an item follow each other (`Layout`, by induction over the items), so an item that a piece ends inside of is in `cut` before its last byte is read. |
| `BatchProofs` (`BatchAssumption`) | `NoStatementLost`, `BlobsFramedRight`, `BatchTypes`, `RowsRunOnceInOrder`, `RowsGetTheirBlobs`, `SuccessMeansAllRan` | Two small invariants over all calls and refusals: `HandleInv` (an open Batch has its handle in the server, or its statement was released by a failed renewal) and `Framed` (BLOBs that wait are framed as the server will read them, with the BPB in the server or still to be sent). `RunOnceInOrder` needs `InOrder`: the numbers of the rows that ran, of those in the server and of those pending lie in three successive intervals and rise in each; that the rows of some packets still rise is `RisingWhere`. `RightBlob` needs `OneContent`: every BLOB the client holds, the server holds or a row refers to has an id already given, and no id names two contents among them; the ids start again at 1 only where none of the three has any. `SuccessRanAll` holds because only a run in which no packet was refused reports success. |
| `CodecProofs`, `Message` (`RowsAssumption`: rows of values with the numbers of their kind; `ColumnsAssumption`: columns of known types or unknown, any length) | `RowsAlwaysArrive` | `RowsInv`: the buffer is the join of `RowUpTo` of the rows kept, each as wide as the columns and fitting them. `RowsArrive` is not inductive, because it speaks of what the readers see and not of where the bytes stand. A refused row is cut back to the length before it (`CutBack`), an accepted one is appended (`RowAppended`). Both readers walk by recursive functions whose values are shown to be the places at which the parts of the join begin (`StepsAgree`, `RowPlaces`), first within a row, then over the rows of a buffer; the bit of each column is the one that was set (`NullBits` is a sum of distinct powers of two); and a field read at its place gives the value back (`TextRead`, `VaryingRead`, `WordsRead`, `ServerReadsRow`, `ClientReadsRow`). `LengthsAgree` compares the two layouts field by field. |
| `CodecProofs`, `Slices` (`CatalogueAssumption`: what the system tables hold; `ElementsAssumption`: lists of values with the numbers of their kind) | `ArraysAlwaysArrive` | `ArrInv` says what stands where in each phase: the descriptor is that of a row of the catalogue, the slice is the join of the elements' bytes, each element fits, and what was stored or given back is what a reader finds in the join. Two arguments meet. The SDL: its parts stand at places that follow from the operands of the loops before them (`SdlPlaces`), the interpreter's walk visits these places and stops after the last loop (`PlacesAgree`, `LoopsFound`), and every literal reads back as its bound, for all of the 32 bits (`LiteralIs`: a signed byte, word or long, by its top byte). The elements: whatever type an element can be made for, it is as long as the server's stride (`StridesAgree`), it is read at the place where the join has it (`ElementPlacesAgree`, `ElementsRead`), as what the database stores (`FoundIsStored`), and comes back as the value it was (`StoredComesBack`). A slice of fewer elements than asked for is a prefix of the join, after which the list is filled with nulls. |
| `CodecProofs`, `Values` (`ValuesAssumption`: starts are calendar dates with their numbers, times are of a day, offsets and zone ids those a value carries, rows as wide as their columns) | `ConversionsAgree` | `CellInv`: a cell is as given or holds its conversion; a cell with a date holds a date of the calendar and its `DayNumber`, which counts years, leap days and months (`NextDay`: a day later is one more). Both conversions then agree with `DayNumber`: a date, its year begun in March, is an era, a century, a cycle of four years, a year and a day (`DateParts`), and each quotient the code takes is found by its bounds (`QuotientIs`), so that `YearOfEra` gives the year back on every day of an era (`YearOfEraIs`) and 153 its month (`MonthOfDay`). Clock, offsets and zones follow from divisions with a remainder, texts from the inverse of the tables on their repertoire, reads by name from the least index (`LeastIndex`). `MaxDays` is arbitrary, so the dates are all those after a start; the widths of the code's integers (`i64` inside, `i32` outside) are not part of it. |
| `SequenceLemmas` | lemmas only | What `FlattenSeq` and the selections of `Selections` yield for every sequence: types, appending, concatenation, order of places. They rest on induction over numbers and sequences (below). |

Induction. The theorems of `NaturalsInduction` take a predicate, which the provers
cannot instantiate. `NatSetInduction` takes a set instead and is proved from
`FS_Injection`: if `m` were missing from a set closed under successors, the numbers up
to `m` in it would be a finite set with an injection into itself that misses 0.
`SeqSetInduction` follows by the length. So a recursive function that is chosen, as the
one in `FlattenSeq`, can be shown to exist and to be unique (`JoinsExists`,
`JoinsUnique`), and its equations follow. `SelectSeq` is built into the prover
without a meaning, which is why `Selections` has its own two.

`PipelineAssumption` asks `Window <= ReqCap + RespCap + 1` in packets. The code
chooses its windows so that the packets of one window fit: small requests with
small answers (256 registrations), or few large requests whose answers are
small (the packets of rows and BLOB data). Buffer sizes are the
system's, so the theorem is conditional on them, as the comment over
`pipeline_requests` is.

Only model-checked:

* Liveness: `AcquireEnds`, `WaiterServed`, `Returns`, `OpeningEnds`, `PostWakesWaiter`.
  Temporal proofs under fairness are out of the prover's reach.
* Three properties of the codecs, `DecFloatsArrive`, `AnswersUnderstood` and
  `ParametersUnderstood`: each is about recursion over bytes or digits and long case
  tables (every declet, every tag), whose general proof would be longer than the code.

## 5. Abstractions

* `Pool`, `Session`, `Pipeline`, `BlobRead`, `Batch`, `Handshake`, `Events`: packets,
  rows, BLOB contents, keys and connections are numbers or model values; no bytes.
  That a description fails to parse is an outcome of `Prepare`; what parses is in
  `Answers`. Mutex poisoning is left out: no critical section panics, but for an
  absurd timeout.
* Time is left out of `Handshake`: `connect_timeout` is an attempt that ended as timed out.
* A statement or transaction handle used with another connection than its own is not
  modelled: handles are names, and each model has one connection.
* A byte is named by the number it is part of in `Xdr`, so arithmetic inside a number
  (the shift by the scale of a NUMERIC, big-endian words) is not checked, and what
  is checked is which bytes make which value. `Parameters`, `Answers` and `DecFloat`
  work on real bytes, lengths and digits.
* The message catalogue has two templates; the code page tables two characters each.
* `Parameters` leaves the password out of `ConnectConfig::validate`, and `Slices` the
  version byte of the SDL.

## 6. Not modelled

* `auth/`: SRP, DES, ChaCha and Arc4 are number theory and bit mixing. When a key exists,
  which challenge it comes from and when it is installed is in `Handshake`.
* `Blob::read_segment`, one block per call: `BlobRead` has the loop that replaces it, and a
  caller may mix both on one `Blob`.
* The cut of BLOB data at the boundaries of a batch's packets and the alignment of the
  BLOB stream: the server is told offsets, which would need bytes in `Batch`.
* Decimal text of scaled integers and of floats, `Display`: formatting.
* Names of charsets and their resolution, multi-byte charsets of `encoding_rs`: tables.
* The generated catalogue of messages and of time zones beyond their lookup.
* Constants, re-exports, tests, the example and the generator script.
