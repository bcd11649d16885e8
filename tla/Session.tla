------------------------------- MODULE Session -------------------------------
(***************************************************************************)
(* One connection in use: the calls of Connection, Transaction and         *)
(* Statement (src/src/connection.rs, transaction.rs, statement.rs) with    *)
(* the server's side of each.                                              *)
(*                                                                         *)
(* A call borrows the Connection mutably, so calls follow one another.  An *)
(* exchange (a request and its answer) is one action for each way it may   *)
(* end: the server accepts, the server refuses (an op_response with an     *)
(* error), or the exchange itself fails.  A commit that is refused and a   *)
(* prepare take further exchanges before the call returns; the state       *)
(* between two of them is that of `aborting`, `allocated` and              *)
(* `discarding`.  Exchanges fail in two ways: an I/O error, which FbStream *)
(* records in `broken`, or a packet with an op code the reader does not    *)
(* expect, whose body is left unread in the stream.                        *)
(*                                                                         *)
(* Transactions and statements are named by their server handles.  Rows    *)
(* are numbered 1..NRows in the order of the result set; a server cursor   *)
(* stands on a row, before the first (0) or after the last (NRows + 1).    *)
(***************************************************************************)
EXTENDS Scrolling, Sequences

CONSTANTS Tx, Stmt,     \* handles of transactions and of statements
          FetchSize,    \* Statement::fetch_size, at least 1
          NoCursor, NoStmt, Closed, Unknown

ASSUME SessionAssumption ==
    /\ FetchSize \in Nat \ {0}
    /\ {Closed, Unknown} \cap Nat = {}
    /\ Closed # Unknown
    /\ NoStmt \notin [kind : {"select", "returning", "dml"}, open : BOOLEAN,
                      buffered : Seq(Row), exhausted : BOOLEAN]
    /\ NoCursor \notin [tx : Tx, pos : Place]

VARIABLES broken,      \* FbStream::broken
          desync,      \* bytes of an unexpected packet are left in the stream
          tx,          \* live Transaction values of the caller
          srvTx,       \* transactions alive in the server
          aborting,    \* the commit in progress was refused, its rollback is next
          unfinished,  \* history: transactions the caller let go of, or whose
                       \* rollback the server refused
          stmt,        \* Statement values of the caller
          srvStmt,     \* statement handles alive in the server
          allocated,   \* prepare has the handle, op_prepare_statement is next
          discarding,  \* the prepare was refused, DSQL_drop is next
          undescribed, \* history: handles whose description did not parse
          unfreed,     \* history: handles whose Statement the caller let go
                       \* of, or whose DSQL_drop the server refused
          cur,         \* the server's cursor of each statement
          last,        \* history: the place the caller stands on
          refused,     \* history: statements whose last jump was refused
          asked        \* history: the jump of this step, NoMove if there is none

link    == <<broken, desync>>
txs     == <<tx, srvTx, aborting, unfinished>>
handles == <<srvStmt, allocated, discarding, undescribed, unfreed>>
reading == <<cur, last, refused>>
vars    == <<link, txs, stmt, handles, reading, asked>>

InSync == ~broken /\ ~desync

(* The next call may begin. *)
Ready == InSync /\ aborting = {} /\ allocated = {} /\ discarding = {}

Kind == {"select", "returning", "dml"}
Statement == [kind : Kind, open : BOOLEAN, buffered : Seq(Row),
              exhausted : BOOLEAN]

Prepared == {s \in Stmt : stmt[s] # NoStmt}

(* Rows a+1 .. b in order. *)
Rows(a, b) == [i \in 1..(IF b > a THEN b - a ELSE 0) |-> a + i]

Init ==
    /\ broken = FALSE
    /\ desync = FALSE
    /\ tx = {}
    /\ srvTx = {}
    /\ aborting = {}
    /\ unfinished = {}
    /\ stmt = [s \in Stmt |-> NoStmt]
    /\ srvStmt = {}
    /\ allocated = {}
    /\ discarding = {}
    /\ undescribed = {}
    /\ unfreed = {}
    /\ cur = [s \in Stmt |-> NoCursor]
    /\ last = [s \in Stmt |-> 0]
    /\ refused = {}
    /\ asked = NoMove

------------------------------------------------------------------------------
(* Exchanges that fail.  What a call did to its own value before is of no  *)
(* consequence: nothing is done with a lost connection but to replace it.  *)

(* A packet that the reader does not expect; its body stays unread.        *)
(* read_response marks the stream.  The loops of fetch_batch, fetch_scroll *)
(* and execute_message, which read the op code by themselves, only return  *)
(* Error::protocol.                                                        *)
AlienPacket(reader) ==
    /\ reader = "rows" =>
         Ready /\ \E s \in Prepared : stmt[s].open \/ stmt[s].kind = "returning"
    /\ desync' = TRUE
    /\ broken' = (reader = "response")
    /\ UNCHANGED <<txs, stmt, handles, reading>>

(* FbStream::flush or fill fails. *)
IoError ==
    /\ broken' = TRUE
    /\ UNCHANGED <<desync, txs, stmt, handles, reading>>

(* Any call may end so: those below, and ping, commit_retaining,           *)
(* rollback_retaining, exec_immediate and rows_affected, which change      *)
(* nothing here when they succeed or are refused.                          *)
ExchangeFails ==
    /\ InSync
    /\ \/ IoError
       \/ \E reader \in {"response", "rows"} : AlienPacket(reader)

(* The caller, or the pool for it, closes or drops the connection with its *)
(* values and opens another; the server frees what belonged to the old     *)
(* attachment.                                                             *)
Reconnect ==
    /\ broken' = FALSE
    /\ desync' = FALSE
    /\ tx' = {}
    /\ srvTx' = {}
    /\ aborting' = {}
    /\ unfinished' = {}
    /\ stmt' = [s \in Stmt |-> NoStmt]
    /\ srvStmt' = {}
    /\ allocated' = {}
    /\ discarding' = {}
    /\ undescribed' = {}
    /\ unfreed' = {}
    /\ cur' = [s \in Stmt |-> NoCursor]
    /\ last' = [s \in Stmt |-> 0]
    /\ refused' = {}

------------------------------------------------------------------------------
(* Transactions.                                                           *)

(* Connection::begin_with *)
Begin(x) ==
    /\ Ready
    /\ x \notin srvTx
    /\ tx' = tx \cup {x}
    /\ srvTx' = srvTx \cup {x}
    /\ UNCHANGED <<link, aborting, unfinished, stmt, handles, reading>>

(* The server ends x and closes the cursors opened in it. *)
EndInServer(x) ==
    /\ srvTx' = srvTx \ {x}
    /\ cur' = [s \in Stmt |-> IF cur[s] # NoCursor /\ cur[s].tx = x
                              THEN NoCursor ELSE cur[s]]

(* Transaction::commit consumes the value. *)
Commit(x) ==
    /\ Ready
    /\ x \in tx
    /\ tx' = tx \ {x}
    /\ EndInServer(x)
    /\ UNCHANGED <<link, aborting, unfinished, stmt, handles, last, refused>>

(* Mutant: the error of the commit is returned at once. *)
CommitRefusedReturning(x) ==
    /\ Ready
    /\ x \in tx
    /\ tx' = tx \ {x}
    /\ UNCHANGED <<link, srvTx, aborting, unfinished, stmt, handles, reading>>

(* The server refuses to commit: commit goes on to a rollback. *)
CommitRefused(x) ==
    /\ Ready
    /\ x \in tx
    /\ tx' = tx \ {x}
    /\ aborting' = {x}
    /\ UNCHANGED <<link, srvTx, unfinished, stmt, handles, reading>>

(* op_rollback is sent: by Transaction::rollback or after a refused commit.*)
RollingBack(x) ==
    /\ InSync
    /\ x \in aborting \/ (Ready /\ x \in tx)
    /\ tx' = tx \ {x}
    /\ aborting' = aborting \ {x}

Rollback(x) ==
    /\ RollingBack(x)
    /\ EndInServer(x)
    /\ UNCHANGED <<link, unfinished, stmt, handles, last, refused>>

(* Either way the value is consumed; Drop warns, as `finished` is not set. *)
RollbackRefused(x) ==
    /\ RollingBack(x)
    /\ unfinished' = unfinished \cup {x}
    /\ UNCHANGED <<link, srvTx, stmt, handles, reading>>

(* The value is dropped with the transaction unfinished: the same warning, *)
(* and nothing is sent.                                                    *)
LetTransactionGo(x) ==
    /\ Ready
    /\ x \in tx
    /\ tx' = tx \ {x}
    /\ unfinished' = unfinished \cup {x}
    /\ UNCHANGED <<link, srvTx, aborting, stmt, handles, reading>>

------------------------------------------------------------------------------
(* Statements.                                                             *)

Fresh(k) == [kind |-> k, open |-> FALSE, buffered |-> <<>>, exhausted |-> FALSE]

(* Connection::prepare, first request: op_allocate_statement. *)
Allocate(s) ==
    /\ Ready
    /\ tx # {}
    /\ s \notin srvStmt
    /\ srvStmt' = srvStmt \cup {s}
    /\ allocated' = {s}
    /\ UNCHANGED <<link, txs, stmt, discarding, undescribed, unfreed, reading>>

(* Second request: op_prepare_statement. *)
Preparing(s) ==
    /\ InSync
    /\ s \in allocated
    /\ allocated' = {}
    /\ UNCHANGED <<link, txs, srvStmt, unfreed, reading>>

Prepare(s) ==
    /\ Preparing(s)
    /\ \E k \in Kind : stmt' = [stmt EXCEPT ![s] = Fresh(k)]
    /\ UNCHANGED <<discarding, undescribed>>

(* The description is truncated, for want of room: prepare returns from    *)
(* the middle.                                                             *)
PrepareUndescribed(s) ==
    /\ Preparing(s)
    /\ undescribed' = undescribed \cup {s}
    /\ UNCHANGED <<stmt, discarding>>

(* Mutant: a refused prepare returns at once. *)
PrepareRefusedReturning(s) ==
    /\ Preparing(s)
    /\ UNCHANGED <<stmt, discarding, undescribed>>

(* The server refuses the text: prepare goes on to drop the handle. *)
PrepareRefused(s) ==
    /\ Preparing(s)
    /\ discarding' = {s}
    /\ UNCHANGED <<stmt, undescribed>>

(* The third request after a refusal: DSQL_drop. *)
Discard(s) ==
    /\ InSync
    /\ s \in discarding
    /\ discarding' = {}
    /\ srvStmt' = srvStmt \ {s}
    /\ UNCHANGED <<link, txs, stmt, allocated, undescribed, unfreed, reading>>

(* It is refused as well; prepare looks at neither answer. *)
DiscardRefused(s) ==
    /\ InSync
    /\ s \in discarding
    /\ discarding' = {}
    /\ unfreed' = unfreed \cup {s}
    /\ UNCHANGED <<link, txs, stmt, srvStmt, allocated, undescribed, reading>>

(* The Statement value of s is gone. *)
Consume(s) ==
    /\ Ready
    /\ s \in Prepared
    /\ stmt' = [stmt EXCEPT ![s] = NoStmt]
    /\ last' = [last EXCEPT ![s] = 0]
    /\ refused' = refused \ {s}
    /\ UNCHANGED <<link, txs, allocated, discarding, undescribed>>

(* Statement::drop_statement; with the handle goes its cursor. *)
DropStatement(s) ==
    /\ Consume(s)
    /\ srvStmt' = srvStmt \ {s}
    /\ cur' = [cur EXCEPT ![s] = NoCursor]
    /\ UNCHANGED unfreed

(* The drop is refused, or the value just dropped: handle and cursor stay  *)
(* in the server, and Drop warns.                                          *)
LetStatementGo(s) ==
    /\ Consume(s)
    /\ unfreed' = unfreed \cup {s}
    /\ UNCHANGED <<srvStmt, cur>>

Idle(r) == [r EXCEPT !.open = FALSE, !.buffered = <<>>, !.exhausted = FALSE]

(* Statement::close on an open cursor.  The server may have closed it with *)
(* its transaction; the error it then answers counts as success, and any   *)
(* other leaves all as it was.  Also an execute whose parameters do not    *)
(* encode: it has closed the old cursor.                                   *)
Close(s) ==
    /\ Ready
    /\ s \in Prepared
    /\ stmt[s].open
    /\ stmt' = [stmt EXCEPT ![s] = Idle(@)]
    /\ cur' = [cur EXCEPT ![s] = NoCursor]
    /\ UNCHANGED <<link, txs, handles, last, refused>>

(* The values of s after a cursor of x is opened. *)
OpenCursor(s, x) ==
    /\ cur' = [cur EXCEPT ![s] = [tx |-> x, pos |-> 0]]
    /\ last' = [last EXCEPT ![s] = 0]
    /\ refused' = refused \ {s}

(* Statement::execute_message: close, then op_execute or op_execute2.      *)
Execute(s, x) ==
    /\ Ready
    /\ s \in Prepared
    /\ x \in tx
    /\ \/ (* refused, or a statement without rows *)
          /\ stmt' = [stmt EXCEPT ![s] = Idle(@)]
          /\ cur' = [cur EXCEPT ![s] = NoCursor]
          /\ UNCHANGED <<last, refused>>
       \/ /\ stmt[s].kind = "select"
          /\ stmt' = [stmt EXCEPT ![s] = [Idle(@) EXCEPT !.open = TRUE]]
          /\ OpenCursor(s, x)
       \/ (* the row, if there is one, comes with the answer *)
          /\ stmt[s].kind = "returning"
          /\ \E rows \in {<<>>, <<1>>} :
                 stmt' = [stmt EXCEPT ![s] = [Idle(@) EXCEPT !.buffered = rows,
                                                          !.exhausted = TRUE]]
          /\ UNCHANGED reading
    /\ UNCHANGED <<link, txs, handles>>

(* fetch pops the first row of r, the value of s. *)
Deliver(s, r) ==
    /\ stmt' = [stmt EXCEPT ![s] = [r EXCEPT !.buffered = Tail(@)]]
    /\ last' = [last EXCEPT ![s] = Head(r.buffered)]

(* op_fetch from position p: the last row sent, whether the terminator has *)
(* status 100, and where the server's cursor is left.                      *)
LastSent(p)   == IF p + FetchSize > NRows THEN NRows ELSE p + FetchSize
Ends(p)       == p + FetchSize > NRows
PosAfter(p)   == IF Ends(p) THEN NRows + 1 ELSE p + FetchSize

(* Statement::fetch finds a row in the buffer. *)
FetchBuffered(s) ==
    /\ Ready
    /\ s \in Prepared
    /\ stmt[s].buffered # <<>>
    /\ Deliver(s, stmt[s])
    /\ UNCHANGED <<link, txs, handles, cur, refused>>

(* The buffer is empty and the cursor may have more. *)
NeedsBatch(s) ==
    /\ Ready
    /\ s \in Prepared
    /\ stmt[s].buffered = <<>>
    /\ stmt[s].open
    /\ ~stmt[s].exhausted
    /\ cur[s] # NoCursor   \* or else the server refuses and nothing changes

(* What fetch_batch leaves in the value of s when all goes well. *)
Filled(s) == [stmt[s] EXCEPT !.buffered = Rows(cur[s].pos, LastSent(cur[s].pos)),
                             !.exhausted = Ends(cur[s].pos)]

(* fetch returns None: the caller stands behind the last row. *)
TellEnd(s) == last' = [last EXCEPT ![s] = NRows + 1]

(* Mutant: the terminator of a batch is taken for the end of the cursor. *)
FetchBatchAsLast(s) ==
    /\ NeedsBatch(s)
    /\ LET r == [Filled(s) EXCEPT !.exhausted = TRUE]
       IN IF r.buffered = <<>>
          THEN stmt' = [stmt EXCEPT ![s] = r] /\ TellEnd(s)
          ELSE Deliver(s, r)
    /\ cur' = [cur EXCEPT ![s].pos = PosAfter(@)]
    /\ UNCHANGED <<link, txs, handles, refused>>

(* Mutant: an exhausted cursor is taken for a closed one. *)
FetchBatchClosing(s) ==
    /\ NeedsBatch(s)
    /\ LET r == [Filled(s) EXCEPT !.open = ~Ends(cur[s].pos)]
       IN IF r.buffered = <<>>
          THEN stmt' = [stmt EXCEPT ![s] = r] /\ TellEnd(s)
          ELSE Deliver(s, r)
    /\ cur' = [cur EXCEPT ![s].pos = PosAfter(@)]
    /\ UNCHANGED <<link, txs, handles, refused>>

(* Statement::fetch asks for a batch, drains it to its terminator and      *)
(* delivers its first row, or None when there was none.                    *)
FetchBatch(s) ==
    /\ NeedsBatch(s)
    /\ IF Filled(s).buffered = <<>>
       THEN stmt' = [stmt EXCEPT ![s] = Filled(s)] /\ TellEnd(s)
       ELSE Deliver(s, Filled(s))
    /\ cur' = [cur EXCEPT ![s].pos = PosAfter(@)]
    /\ UNCHANGED <<link, txs, handles, refused>>

(* The server breaks a batch off with an error after n rows, which stay in *)
(* the buffer although fetch returns the error.                            *)
FetchBatchFails(s) ==
    /\ NeedsBatch(s)
    /\ \E n \in cur[s].pos..LastSent(cur[s].pos) :
         /\ stmt' = [stmt EXCEPT ![s].buffered = Rows(cur[s].pos, n)]
         /\ cur' = [cur EXCEPT ![s].pos = n]
    /\ UNCHANGED <<link, txs, handles, last, refused>>

(* The buffer is empty and the cursor exhausted. *)
FetchEnd(s) ==
    /\ Ready
    /\ s \in Prepared
    /\ stmt[s].buffered = <<>>
    /\ stmt[s].open
    /\ stmt[s].exhausted
    /\ TellEnd(s)
    /\ UNCHANGED <<link, txs, stmt, handles, cur, refused>>

(* The server moves its cursor and sends the row there, if there is one. *)
Scrolled(s, m) ==
    /\ Ready
    /\ s \in Prepared
    /\ stmt[s].open
    /\ cur[s] # NoCursor
    /\ cur' = [cur EXCEPT ![s].pos = Landing(@, m)]
    /\ last' = [last EXCEPT ![s] = Landing(cur[s].pos, m)]
    /\ refused' = refused \ {s}
    /\ UNCHANGED <<link, txs, handles>>

(* Mutant: fetch_scroll keeps the rows prefetched before the jump. *)
FetchScrollKeepingRows(s, m) ==
    /\ Scrolled(s, m)
    /\ stmt' = [stmt EXCEPT ![s].exhausted = FALSE]

(* Statement::fetch_scroll *)
FetchScroll(s, m) ==
    /\ Scrolled(s, m)
    /\ stmt' = [stmt EXCEPT ![s].buffered = <<>>, ![s].exhausted = FALSE]

FetchNext(s) == FetchScroll(s, Bare("next"))

(* The server refuses the jump (a cursor that is not scrollable, or one    *)
(* that ended with its transaction).  The buffer was cleared before.       *)
FetchScrollRefused(s) ==
    /\ Ready
    /\ s \in Prepared
    /\ stmt[s].open
    /\ stmt' = [stmt EXCEPT ![s].buffered = <<>>]
    /\ refused' = refused \cup {s}
    /\ UNCHANGED <<link, txs, handles, cur, last>>

Fetch(s) ==
    \/ FetchBuffered(s)
    \/ FetchBatch(s)
    \/ FetchBatchFails(s)
    \/ FetchEnd(s)
    \/ FetchScrollRefused(s)

PrepareSteps(s) == Allocate(s) \/ Prepare(s) \/ PrepareUndescribed(s)
                   \/ PrepareRefused(s) \/ Discard(s) \/ DiscardRefused(s)

TransactionSteps(x) == Begin(x) \/ Commit(x) \/ CommitRefused(x) \/ Rollback(x)
                       \/ RollbackRefused(x) \/ LetTransactionGo(x)

(* Every step but a jump. *)
Step ==
    \/ ExchangeFails
    \/ Reconnect
    \/ \E x \in Tx : TransactionSteps(x)
    \/ \E s \in Stmt : PrepareSteps(s) \/ DropStatement(s) \/ LetStatementGo(s)
                       \/ Close(s) \/ Fetch(s)
    \/ \E s \in Stmt, x \in Tx : Execute(s, x)

Next ==
    \/ Step /\ asked' = NoMove
    \/ \E s \in Stmt, m \in Move : FetchScroll(s, m) /\ asked' = m

Spec == Init /\ [][Next]_vars

------------------------------------------------------------------------------
(* Types; only a SELECT has a cursor, and positions stay within one of the *)
(* rows.                                                                   *)
TypeOK ==
    /\ broken \in BOOLEAN
    /\ desync \in BOOLEAN
    /\ tx \subseteq Tx
    /\ srvTx \subseteq Tx
    /\ aborting \subseteq Tx
    /\ unfinished \subseteq Tx
    /\ srvStmt \subseteq Stmt
    /\ allocated \subseteq Stmt
    /\ discarding \subseteq Stmt
    /\ undescribed \subseteq Stmt
    /\ unfreed \subseteq Stmt
    /\ refused \subseteq Stmt
    /\ asked \in Move \cup {NoMove}
    /\ last \in [Stmt -> Place]
    /\ cur \in [Stmt -> [tx : Tx, pos : Place] \cup {NoCursor}]
    /\ stmt \in [Stmt -> Statement \cup {NoStmt}]
    /\ \A s \in Prepared : stmt[s].open => stmt[s].kind = "select"

(* A connection that is_healthy() reports sane has no unread bytes of an   *)
(* answer in its stream: FbStream::broken covers every desynchronisation.  *)
HealthyInSync == ~broken => ~desync

(* A transaction is alive in the server as long as its value can end it or *)
(* the rollback after its refused commit is under way, and later only if   *)
(* the caller let the value go or the server refused the rollback: a       *)
(* refused commit leaves none behind.                                      *)
TxOwned == srvTx = tx \cup aborting \cup unfinished

(* A statement handle is alive in the server as long as a Statement or a   *)
(* prepare under way has it, and later only if its description did not     *)
(* parse, the caller let it go or the server refused to drop it: a refused *)
(* prepare leaves none behind.                                             *)
StmtOwned ==
    srvStmt = UNION {Prepared, allocated, discarding, undescribed, unfreed}

(* The client knows of every cursor open in the server of a statement it   *)
(* has, so that execute closes it first and never gets "attempt to reopen  *)
(* an open cursor"; no cursor outlives its statement or its transaction.   *)
ServerCursorKnown ==
    \A s \in Stmt : cur[s] # NoCursor =>
        /\ s \in srvStmt
        /\ cur[s].tx \in srvTx
        /\ s \in Prepared => stmt[s].open

(* The rows the caller has yet to get, of a cursor it reads: the buffer    *)
(* holds the rows right after the last one delivered, up to where the      *)
(* server stands, and the end is believed only when they are the last.     *)
Reads(s) ==
    LET r == stmt[s]
        n == last[s] + Len(r.buffered)
    IN /\ r.buffered = Rows(last[s], n)
       /\ r.exhausted => n >= NRows
       /\ cur[s] # NoCursor => cur[s].pos = IF r.exhausted THEN NRows + 1 ELSE n

(* Prefetching is invisible: no row is skipped, repeated or kept from an   *)
(* earlier position, unless a jump was refused.                            *)
RowsInOrder ==
    \A s \in Prepared : stmt[s].open /\ s \notin refused => Reads(s)

(* The same after a refused jump: an error should move nothing. *)
RefusedJumpMovesNothing ==
    \A s \in Prepared : stmt[s].open => Reads(s)

(* statement.rs says of fetch_next that it equals fetch on a scrollable    *)
(* cursor: it gives the row after the last one delivered.                  *)
NextIsFetch ==
    [][\A s \in Stmt : FetchNext(s) /\ s \notin refused =>
                          last'[s] = Within(last[s] + 1)]_vars

(* Reading through the prefetch buffer implements ResultSet.               *)
Position(s) ==
    IF s \notin Prepared \/ ~stmt[s].open THEN Closed
    ELSE IF s \in refused THEN Unknown
    ELSE last[s]

AtEnd(s) ==
    s \in Prepared /\ stmt[s].open /\ stmt[s].exhausted /\ stmt[s].buffered = <<>>

Ahead(s) ==
    IF Position(s) \notin Place THEN 0
    ELSE IF stmt[s].exhausted THEN NRows + 1 - last[s]
    ELSE Len(stmt[s].buffered)

Reading == INSTANCE ResultSet
    WITH at <- [s \in Stmt |-> Position(s)],
         over <- [s \in Stmt |-> AtEnd(s)],
         ahead <- [s \in Stmt |-> Ahead(s)]

(* Fetches deliver every row once and in order and jumps land where        *)
(* ResultSet says, whatever is in the buffer.                              *)
ResultSetSpec == Reading!Spec
==============================================================================
