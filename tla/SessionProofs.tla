---------------------------- MODULE SessionProofs ----------------------------
(***************************************************************************)
(* Theorems about a connection in use, for any handles, any number of rows *)
(* and any fetch size.                                                     *)
(***************************************************************************)
EXTENDS Session, SequenceTheorems, TLAPS

LEMMA Bounds == NRows \in Nat \ {0} /\ FetchSize \in Nat \ {0}
BY SessionAssumption, ScrollingAssumption

(* Rows a+1 .. b are a sequence of rows, and fetching its head is reading  *)
(* the row after a.                                                        *)
LEMMA RowsType ==
    ASSUME NEW a \in Nat, NEW b \in 0..NRows
    PROVE  /\ Rows(a, b) \in Seq(Row)
           /\ Len(Rows(a, b)) = IF b > a THEN b - a ELSE 0
           /\ Rows(a, b) = <<>> <=> b <= a
<1> DEFINE n == IF b > a THEN b - a ELSE 0
<1>1. n \in Nat /\ \A i \in 1..n : a + i \in Row
  BY Bounds DEF Row
<1>2. Rows(a, b) \in [1..n -> Row]
  BY <1>1 DEF Rows
<1>3. Rows(a, b) \in Seq(Row) /\ Len(Rows(a, b)) = n
  BY <1>1, <1>2, SeqDef, LenProperties
<1>4. QED
  BY <1>3, EmptySeq

LEMMA RowsTail ==
    ASSUME NEW a \in Nat, NEW b \in 0..NRows, b > a
    PROVE  /\ Head(Rows(a, b)) = a + 1
           /\ Tail(Rows(a, b)) = Rows(a + 1, b)
<1>1. Rows(a, b) \in Seq(Row) /\ Len(Rows(a, b)) = b - a /\ Rows(a, b) # <<>>
  BY RowsType, Bounds
<1>2. Rows(a + 1, b) \in Seq(Row) /\ Len(Rows(a + 1, b)) = b - a - 1
  BY RowsType, Bounds
<1>3. Head(Rows(a, b)) = a + 1
  BY <1>1, Bounds DEF Rows
<1>4. /\ Tail(Rows(a, b)) \in Seq(Row)
      /\ Len(Tail(Rows(a, b))) = b - a - 1
      /\ \A i \in 1..(b - a - 1) : Tail(Rows(a, b))[i] = Rows(a, b)[i + 1]
  BY <1>1, HeadTailProperties, Bounds
<1>5. \A i \in 1..(b - a - 1) : Tail(Rows(a, b))[i] = Rows(a + 1, b)[i]
  BY <1>4, Bounds DEF Rows
<1>6. QED
  BY <1>1, <1>2, <1>3, <1>4, <1>5, SeqEqual, Bounds

(* A jump lands on a place, the same from anywhere if it is a fixed one.   *)
LEMMA Landings ==
    ASSUME NEW m \in Move
    PROVE  /\ \A p \in Int : Landing(p, m) \in Place
           /\ m \in Fixed => \A p, q : Landing(p, m) = Landing(q, m)
<1>1. /\ m.direction \in {"next", "prior", "first", "last", "absolute", "relative"}
      /\ m.direction \in {"absolute", "relative"} => m.n \in Int
  <2>1. CASE m \in {Bare(d) : d \in {"next", "prior", "first", "last"}}
    BY <2>1 DEF Bare
  <2>2. CASE m \in [direction : {"absolute", "relative"}, n : Offsets]
    BY <2>2, ScrollingAssumption
  <2>3. QED
    BY <2>1, <2>2 DEF Move
<1>2. \A p \in Int : Within(p) \in Place
  BY Bounds DEF Within, Place
<1>3. ASSUME NEW p \in Int
      PROVE  Landing(p, m) \in Place
  <2>1. /\ Within(p + 1) \in Place /\ Within(p - 1) \in Place
        /\ 1 \in Place /\ NRows \in Place
    BY <1>2, Bounds DEF Place
  <2>2. m.n \in Int => /\ Within(p + m.n) \in Place
                       /\ Within(IF m.n < 0 THEN NRows + 1 + m.n ELSE m.n) \in Place
    BY <1>2, Bounds
  <2>3. QED
    BY <1>1, <2>1, <2>2 DEF Landing
<1>4. m \in Fixed => \A p, q : Landing(p, m) = Landing(q, m)
  BY DEF Fixed, Landing
<1>5. QED
  BY <1>3, <1>4

------------------------------------------------------------------------------
(* Types.                                                                  *)

StmtTyped ==
    /\ stmt \in [Stmt -> Statement \cup {NoStmt}]
    /\ \A s \in Prepared : stmt[s].open => stmt[s].kind = "select"

Cursor == [tx : Tx, pos : Place]

(* A value of Statement is none of the absent ones, and the other way.     *)
LEMMA Absent == NoStmt \notin Statement /\ NoCursor \notin Cursor
BY SessionAssumption DEF Statement, Kind, Cursor

LEMMA StmtUpdate ==
    ASSUME StmtTyped, NEW s \in Stmt, NEW r \in Statement,
           r.open => r.kind = "select", stmt' = [stmt EXCEPT ![s] = r]
    PROVE  StmtTyped'
BY Absent DEF StmtTyped, Prepared

LEMMA PreparedStatement ==
    ASSUME TypeOK, NEW s \in Prepared
    PROVE  /\ s \in Stmt
           /\ stmt[s] \in Statement
           /\ stmt[s].open => stmt[s].kind = "select"
BY DEF TypeOK, Prepared

(* The rows of a batch are rows, wherever the cursor stands. *)
LEMMA BatchTyped ==
    ASSUME TypeOK, NEW s \in Stmt, NeedsBatch(s)
    PROVE  /\ cur[s] \in Cursor
           /\ cur[s].pos \in Place
           /\ LastSent(cur[s].pos) \in 0..NRows
           /\ PosAfter(cur[s].pos) \in Place
           /\ Filled(s) \in Statement
           /\ Filled(s).open /\ Filled(s).kind = "select"
           /\ Filled(s).buffered = Rows(cur[s].pos, LastSent(cur[s].pos))
           /\ Filled(s).exhausted = Ends(cur[s].pos)
<1>1. cur[s] \in Cursor
  BY DEF TypeOK, NeedsBatch, Cursor
<1>2. cur[s].pos \in Place
  BY <1>1 DEF Cursor
<1>3. LastSent(cur[s].pos) \in 0..NRows /\ PosAfter(cur[s].pos) \in Place
  BY <1>2, Bounds DEF LastSent, PosAfter, Ends, Place
<1>4. Rows(cur[s].pos, LastSent(cur[s].pos)) \in Seq(Row)
  <2>1. cur[s].pos \in Nat
    BY <1>2, Bounds DEF Place
  <2>2. QED
    BY <1>3, <2>1, RowsType
<1>5. stmt[s] \in Statement /\ stmt[s].open /\ stmt[s].kind = "select"
  BY PreparedStatement DEF NeedsBatch
<1>6. Ends(cur[s].pos) \in BOOLEAN
  BY DEF Ends
<1>7. QED
  BY <1>1, <1>2, <1>3, <1>4, <1>5, <1>6 DEF Filled, Statement

(* fetch pops a row. *)
LEMMA DeliverTyped ==
    ASSUME StmtTyped, NEW s \in Stmt, NEW r \in Statement,
           r.open => r.kind = "select", r.buffered # <<>>, Deliver(s, r),
           last \in [Stmt -> Place]
    PROVE  StmtTyped' /\ last' \in [Stmt -> Place]
<1>1. Head(r.buffered) \in Row /\ Tail(r.buffered) \in Seq(Row)
  BY HeadTailProperties DEF Statement
<1>2. [r EXCEPT !.buffered = Tail(@)] \in Statement
  BY <1>1 DEF Statement
<1>3. StmtTyped'
  BY <1>2, StmtUpdate DEF Deliver, Statement
<1>4. last' \in [Stmt -> Place]
  BY <1>1, Bounds DEF Deliver, Row, Place
<1>5. QED
  BY <1>3, <1>4

LEMMA OneRow == \A rows \in {<<>>, << 1 >>} : rows \in Seq(Row)
<1>1. 1 \in Row
  BY Bounds DEF Row
<1>2. Append(<<>>, 1) \in Seq(Row) /\ <<>> \in Seq(Row)
  BY <1>1, EmptySeq, AppendProperties
<1>3. <<1>> = Append(<<>>, 1)
  OBVIOUS
<1>4. QED
  BY <1>2, <1>3

LEMMA InitTyped == Init => TypeOK
<1> SUFFICES ASSUME Init
             PROVE  TypeOK
  OBVIOUS
<1>1. Prepared = {} /\ 0 \in Place
  BY Bounds DEF Init, Prepared, Place
<1>2. QED
  BY <1>1 DEF Init, TypeOK

LEMMA TypeInductive == TypeOK /\ [Next]_vars => TypeOK'
<1> SUFFICES ASSUME TypeOK, [Next]_vars
             PROVE  TypeOK'
  OBVIOUS
<1>0. StmtTyped
  BY DEF TypeOK, StmtTyped
<1>a. asked' \in Move \cup {NoMove}
  BY DEF Next, vars, TypeOK
<1> USE <1>a
<1>1. CASE ExchangeFails
  BY <1>1 DEF ExchangeFails, IoError, AlienPacket, TypeOK, txs, handles, reading, Prepared
<1>2. CASE Reconnect
  <2>0. 0 \in Place
    BY Bounds DEF Place
  <2>1. /\ last' \in [Stmt -> Place]
        /\ cur' \in [Stmt -> [tx : Tx, pos : Place] \cup {NoCursor}]
        /\ stmt' \in [Stmt -> Statement \cup {NoStmt}]
        /\ Prepared' = {}
    BY <1>2, <2>0 DEF Reconnect, Prepared
  <2>2. QED
    BY <1>2, <2>1 DEF Reconnect, TypeOK
<1>3. ASSUME NEW x \in Tx, TransactionSteps(x)
      PROVE  TypeOK'
  <2>1. CASE Begin(x)
    BY <1>3, <2>1 DEF Begin, TypeOK, link, handles, reading, Prepared
  <2>2. CASE Commit(x)
    BY <1>3, <2>2 DEF Commit, EndInServer, TypeOK, link, handles, Prepared
  <2>3. CASE CommitRefused(x)
    BY <1>3, <2>3 DEF CommitRefused, TypeOK, link, handles, reading, Prepared
  <2>4. CASE Rollback(x)
    BY <1>3, <2>4
       DEF Rollback, RollingBack, EndInServer, TypeOK, link, handles, Prepared
  <2>5. CASE RollbackRefused(x)
    BY <1>3, <2>5
       DEF RollbackRefused, RollingBack, TypeOK, link, handles, reading, Prepared
  <2>6. CASE LetTransactionGo(x)
    BY <1>3, <2>6 DEF LetTransactionGo, TypeOK, link, handles, reading, Prepared
  <2>7. QED
    BY <1>3, <2>1, <2>2, <2>3, <2>4, <2>5, <2>6 DEF TransactionSteps
<1>4. ASSUME NEW s \in Stmt, Prepare(s)
      PROVE  TypeOK'
  <2>1. PICK k \in Kind : stmt' = [stmt EXCEPT ![s] = Fresh(k)]
    BY <1>4 DEF Prepare
  <2>2. Fresh(k) \in Statement /\ ~Fresh(k).open
    BY EmptySeq DEF Fresh, Statement
  <2>3. StmtTyped'
    BY <1>0, <2>1, <2>2, StmtUpdate
  <2>4. QED
    BY <1>4, <2>3 DEF Prepare, Preparing, TypeOK, StmtTyped, link, txs, reading
<1>5. ASSUME NEW s \in Stmt,
             \/ Allocate(s) \/ PrepareUndescribed(s) \/ PrepareRefused(s)
             \/ Discard(s) \/ DiscardRefused(s)
      PROVE  TypeOK'
  BY <1>5 DEF Allocate, PrepareUndescribed, PrepareRefused, Preparing, Discard,
              DiscardRefused, TypeOK, link, txs, reading, Prepared
<1>6. ASSUME NEW s \in Stmt, DropStatement(s) \/ LetStatementGo(s)
      PROVE  TypeOK'
  <2>1. 0 \in Place
    BY Bounds DEF Place
  <2>2. /\ srvStmt' \subseteq Stmt /\ unfreed' \subseteq Stmt
        /\ cur' \in [Stmt -> [tx : Tx, pos : Place] \cup {NoCursor}]
    BY <1>6 DEF DropStatement, LetStatementGo, TypeOK
  <2>3. QED
    BY <1>6, <2>1, <2>2
       DEF DropStatement, LetStatementGo, Consume, TypeOK, link, txs, Prepared
<1>7. ASSUME NEW s \in Stmt, Close(s)
      PROVE  TypeOK'
  <2>1. Idle(stmt[s]) \in Statement /\ ~Idle(stmt[s]).open
    BY <1>7, PreparedStatement, EmptySeq DEF Close, Idle, Statement
  <2>2. StmtTyped'
    BY <1>0, <1>7, <2>1, StmtUpdate DEF Close
  <2>3. QED
    BY <1>7, <2>2 DEF Close, TypeOK, StmtTyped, link, txs, handles
<1>8. ASSUME NEW s \in Stmt, NEW x \in Tx, Execute(s, x)
      PROVE  TypeOK'
  <2>0. /\ cur' \in [Stmt -> [tx : Tx, pos : Place] \cup {NoCursor}]
        /\ last' \in [Stmt -> Place]
        /\ refused' \subseteq Stmt
        /\ UNCHANGED <<link, txs, handles>>
    <3>1. 0 \in Place
      BY Bounds DEF Place
    <3>2. QED
      BY <1>8, <3>1 DEF Execute, OpenCursor, TypeOK, reading
  <2>1. stmt[s] \in Statement
    BY <1>8, PreparedStatement DEF Execute
  <2>2. Idle(stmt[s]) \in Statement /\ ~Idle(stmt[s]).open
        /\ Idle(stmt[s]).kind = stmt[s].kind
    BY <2>1, EmptySeq DEF Idle, Statement
  <2>3. CASE stmt' = [stmt EXCEPT ![s] = Idle(@)]
    <3>1. StmtTyped'
      BY <1>0, <2>2, <2>3, StmtUpdate
    <3>2. QED
      BY <2>0, <3>1 DEF TypeOK, StmtTyped, link, txs, handles
  <2>4. CASE /\ stmt[s].kind = "select"
             /\ stmt' = [stmt EXCEPT ![s] = [Idle(@) EXCEPT !.open = TRUE]]
    <3>1. [Idle(stmt[s]) EXCEPT !.open = TRUE] \in Statement
          /\ [Idle(stmt[s]) EXCEPT !.open = TRUE].kind = "select"
      BY <2>2, <2>4 DEF Statement
    <3>2. StmtTyped'
      BY <1>0, <2>4, <3>1, StmtUpdate
    <3>3. QED
      BY <2>0, <3>2 DEF TypeOK, StmtTyped, link, txs, handles
  <2>5. ASSUME NEW rows \in {<<>>, << 1 >>},
               stmt' = [stmt EXCEPT ![s] = [Idle(@) EXCEPT !.buffered = rows,
                                                         !.exhausted = TRUE]]
        PROVE  TypeOK'
    <3>1. rows \in Seq(Row)
      BY OneRow
    <3>2. [Idle(stmt[s]) EXCEPT !.buffered = rows, !.exhausted = TRUE] \in Statement
          /\ ~[Idle(stmt[s]) EXCEPT !.buffered = rows, !.exhausted = TRUE].open
      BY <2>2, <3>1 DEF Statement
    <3>3. StmtTyped'
      BY <1>0, <2>5, <3>2, StmtUpdate
    <3>4. QED
      BY <2>0, <3>3 DEF TypeOK, StmtTyped, link, txs, handles
  <2>6. QED
    BY <1>8, <2>3, <2>4, <2>5 DEF Execute
<1>9. ASSUME NEW s \in Stmt, FetchBuffered(s)
      PROVE  TypeOK'
  <2>1. StmtTyped' /\ last' \in [Stmt -> Place]
    BY <1>0, <1>9, PreparedStatement, DeliverTyped DEF FetchBuffered, TypeOK
  <2>2. QED
    BY <1>9, <2>1 DEF FetchBuffered, TypeOK, StmtTyped, link, txs, handles
<1>10. ASSUME NEW s \in Stmt, FetchBatch(s)
       PROVE  TypeOK'
  <2>0. NeedsBatch(s)
    BY <1>10 DEF FetchBatch
  <2>1. cur' \in [Stmt -> Cursor \cup {NoCursor}]
    BY <1>10, <2>0, BatchTyped DEF FetchBatch, TypeOK, Cursor
  <2>2. StmtTyped' /\ last' \in [Stmt -> Place]
    <3>1. CASE Filled(s).buffered = <<>>
      <4>1. NRows + 1 \in Place
        BY Bounds DEF Place
      <4>2. QED
        BY <1>0, <1>10, <2>0, <3>1, <4>1, BatchTyped, StmtUpdate
           DEF FetchBatch, TellEnd, TypeOK
    <3>2. CASE Filled(s).buffered # <<>>
      BY <1>0, <1>10, <2>0, <3>2, BatchTyped, DeliverTyped DEF FetchBatch, TypeOK
    <3>3. QED
      BY <3>1, <3>2
  <2>3. QED
    BY <1>10, <2>1, <2>2 DEF FetchBatch, TypeOK, StmtTyped, Cursor, link, txs, handles
<1>11. ASSUME NEW s \in Stmt, FetchBatchFails(s)
       PROVE  TypeOK'
  <2>0. NeedsBatch(s)
    BY <1>11 DEF FetchBatchFails
  <2>1. PICK n \in cur[s].pos..LastSent(cur[s].pos) :
           /\ stmt' = [stmt EXCEPT ![s].buffered = Rows(cur[s].pos, n)]
           /\ cur' = [cur EXCEPT ![s].pos = n]
    BY <1>11 DEF FetchBatchFails
  <2>2. n \in 0..NRows /\ cur[s].pos \in Nat
    BY <2>0, BatchTyped, Bounds DEF Place
  <2>3. Rows(cur[s].pos, n) \in Seq(Row)
    BY <2>2, RowsType
  <2>4. /\ [stmt[s] EXCEPT !.buffered = Rows(cur[s].pos, n)] \in Statement
        /\ [stmt[s] EXCEPT !.buffered = Rows(cur[s].pos, n)].kind = "select"
    BY <2>0, <2>3, PreparedStatement DEF NeedsBatch, Statement
  <2>5. StmtTyped'
    BY <1>0, <2>1, <2>4, StmtUpdate
  <2>6. cur' \in [Stmt -> Cursor \cup {NoCursor}]
    <3>1. [cur[s] EXCEPT !.pos = n] \in Cursor
      BY <2>0, <2>2, BatchTyped, Bounds DEF Cursor, Place
    <3>2. QED
      BY <2>1, <3>1 DEF TypeOK, Cursor
  <2>7. QED
    BY <1>11, <2>5, <2>6 DEF FetchBatchFails, TypeOK, StmtTyped, Cursor, link, txs, handles
<1>12. ASSUME NEW s \in Stmt, NEW m \in Move, FetchScroll(s, m)
       PROVE  TypeOK'
  <2>1. [stmt[s] EXCEPT !.buffered = <<>>, !.exhausted = FALSE] \in Statement
        /\ [stmt[s] EXCEPT !.buffered = <<>>, !.exhausted = FALSE].kind = "select"
    BY <1>12, PreparedStatement, EmptySeq DEF FetchScroll, Scrolled, Statement
  <2>2. stmt' = [stmt EXCEPT ![s] = [stmt[s] EXCEPT !.buffered = <<>>, !.exhausted = FALSE]]
    BY <1>12 DEF FetchScroll, TypeOK
  <2>3. StmtTyped'
    BY <1>0, <2>1, <2>2, StmtUpdate
  <2>4. cur[s] \in Cursor /\ cur[s].pos \in Int
    BY <1>12, Bounds DEF FetchScroll, Scrolled, TypeOK, Cursor, Place
  <2>5. Landing(cur[s].pos, m) \in Place
    BY <2>4, Landings
  <2>6. [cur[s] EXCEPT !.pos = Landing(cur[s].pos, m)] \in Cursor
    BY <2>4, <2>5 DEF Cursor
  <2>7. /\ cur' \in [Stmt -> Cursor \cup {NoCursor}]
        /\ last' \in [Stmt -> Place]
    BY <1>12, <2>5, <2>6 DEF FetchScroll, Scrolled, TypeOK, Cursor
  <2>8. QED
    BY <1>12, <2>3, <2>7
       DEF FetchScroll, Scrolled, TypeOK, StmtTyped, Cursor, link, txs, handles
<1>13. ASSUME NEW s \in Stmt, FetchScrollRefused(s)
       PROVE  TypeOK'
  <2>1. [stmt[s] EXCEPT !.buffered = <<>>] \in Statement
        /\ [stmt[s] EXCEPT !.buffered = <<>>].kind = "select"
    BY <1>13, PreparedStatement, EmptySeq DEF FetchScrollRefused, Statement
  <2>2. StmtTyped'
    BY <1>0, <1>13, <2>1, StmtUpdate DEF FetchScrollRefused
  <2>3. QED
    BY <1>13, <2>2 DEF FetchScrollRefused, TypeOK, StmtTyped, link, txs, handles
<1>14. ASSUME NEW s \in Stmt, FetchEnd(s)
       PROVE  TypeOK'
  <2>1. NRows + 1 \in Place
    BY Bounds DEF Place
  <2>2. QED
    BY <1>14, <2>1 DEF FetchEnd, TellEnd, TypeOK, link, txs, handles, Prepared
<1>15. CASE UNCHANGED vars
  BY <1>15 DEF vars, link, txs, handles, reading, TypeOK, Prepared
<1>16. QED
  BY <1>1, <1>2, <1>3, <1>4, <1>5, <1>6, <1>7, <1>8, <1>9, <1>10, <1>11,
     <1>12, <1>13, <1>14, <1>15 DEF Next, Step, PrepareSteps, Fetch

(***************************************************************************)
(* Type correctness: buffers hold rows of the result set, positions stay   *)
(* within one of them, and only a SELECT has a cursor.                     *)
(***************************************************************************)
THEOREM TypeCorrect == Spec => []TypeOK
BY InitTyped, TypeInductive, PTL DEF Spec

------------------------------------------------------------------------------
(* Reading through the buffer.                                             *)

(* A step that touches no statement but s. *)
OnlyTouches(s) ==
    \A q \in Stmt \ {s} : /\ stmt'[q] = stmt[q]
                          /\ last'[q] = last[q]
                          /\ cur'[q] = cur[q]
                          /\ q \in refused' <=> q \in refused

LEMMA OneReader ==
    ASSUME RowsInOrder, NEW s \in Stmt, OnlyTouches(s),
           s \in Prepared' /\ stmt'[s].open /\ s \notin refused' => Reads(s)'
    PROVE  RowsInOrder'
<1> SUFFICES ASSUME NEW q \in Prepared', stmt'[q].open, q \notin refused'
             PROVE  Reads(q)'
  BY DEF RowsInOrder
<1>1. CASE q = s
  BY <1>1
<1>2. CASE q # s
  <2>1. q \in Stmt \ {s} /\ stmt'[q] # NoStmt
    BY <1>2 DEF Prepared
  <2>2. stmt'[q] = stmt[q] /\ last'[q] = last[q] /\ cur'[q] = cur[q]
    BY <2>1 DEF OnlyTouches
  <2>3. q \in Prepared /\ stmt[q].open /\ q \notin refused
    BY <2>1, <2>2 DEF OnlyTouches, Prepared
  <2>4. Reads(q)
    BY <2>3 DEF RowsInOrder
  <2>5. QED
    BY <2>2, <2>4 DEF Reads
<1>3. QED
  BY <1>1, <1>2

(* A reader whose buffer is not empty stands before the rows in it, and    *)
(* popping one makes it stand on the next.                                 *)
LEMMA PopReads ==
    ASSUME NEW a \in Nat, NEW b \in Seq(Row), b # <<>>,
           b = Rows(a, a + Len(b))
    PROVE  /\ a + Len(b) \in Row
           /\ a < a + Len(b)
           /\ Head(b) = a + 1
           /\ Tail(b) = Rows(a + 1, a + Len(b))
           /\ Len(Tail(b)) = Len(b) - 1
<1>1. Len(b) \in Nat \ {0} /\ b[Len(b)] \in Row
  BY EmptySeq, LenProperties
<1> DEFINE n == Len(b)
<1> HIDE DEF n
<1>2. b[n] = a + n
  <2>1. n \in 1..n /\ b = Rows(a, a + n) /\ n \in Nat \ {0}
    BY <1>1 DEF n
  <2>2. Rows(a, a + n)[n] = a + n
    BY <2>1 DEF Rows
  <2>3. QED
    BY <2>1, <2>2
<1> USE DEF n
<1>3. a + Len(b) \in Row /\ a < a + Len(b)
  BY <1>1, <1>2
<1>4. a + Len(b) \in 0..NRows
  BY <1>3, Bounds DEF Row
<1>5. QED
  BY <1>1, <1>3, <1>4, RowsTail, HeadTailProperties

(* The batch a reader in order is sent. *)
LEMMA BatchReads ==
    ASSUME TypeOK, NEW s \in Stmt, NeedsBatch(s), Reads(s)
    PROVE  /\ last[s] \in Place
           /\ cur[s].pos = last[s]
           /\ Rows(last[s], LastSent(last[s])) = <<>> => last[s] >= NRows /\ Ends(last[s])
<1>1. last[s] \in Place
  BY DEF TypeOK
<1>2. stmt[s].buffered = <<>> /\ ~stmt[s].exhausted /\ cur[s] # NoCursor
  BY DEF NeedsBatch
<1>3. cur[s].pos = last[s]
  BY <1>1, <1>2, Bounds, EmptySeq DEF Reads, Place
<1>4. ASSUME Rows(last[s], LastSent(last[s])) = <<>>
      PROVE  last[s] >= NRows /\ Ends(last[s])
  <2>1. LastSent(last[s]) \in 0..NRows
    BY <1>1, Bounds DEF LastSent, Place
  <2>2. last[s] \in Nat
    BY <1>1, Bounds DEF Place
  <2>3. LastSent(last[s]) <= last[s]
    BY <1>4, <2>1, <2>2, RowsType
  <2>4. QED
    BY <1>1, <2>3, Bounds DEF LastSent, Ends, Place
<1>5. QED
  BY <1>1, <1>3, <1>4

LEMMA EmptyRows == \A a \in Nat : Rows(a, a) = <<>>
<1> SUFFICES ASSUME NEW a \in Nat
             PROVE  Rows(a, a) = <<>>
  OBVIOUS
<1>1. Rows(a, a) \in [1..0 -> Nat]
  BY DEF Rows
<1>2. <<>> \in Seq(Nat) /\ Rows(a, a) \in Seq(Nat) /\ Len(Rows(a, a)) = 0
  BY <1>1, SeqDef, EmptySeq, LenProperties
<1>3. QED
  BY <1>2, EmptySeq

ReadInv == TypeOK /\ RowsInOrder

(* How far the server's cursor is ahead of a reader in order. *)
Surplus(s) ==
    IF stmt[s].exhausted THEN NRows + 1 - last[s] ELSE Len(stmt[s].buffered)

(* What a step on s does to its reader: the row after the last one is      *)
(* delivered, or the end is told where it is.                              *)
NextRow(s) == last'[s] = last[s] + 1 /\ last[s] + 1 \in Row
ToldEnd(s) ==
    /\ last[s] \in {NRows, NRows + 1}
    /\ last'[s] = NRows + 1
    /\ stmt'[s].exhausted
    /\ stmt'[s].buffered = <<>>

LEMMA ReaderStep ==
    ASSUME ReadInv, NEW s \in Stmt
    PROVE  /\ FetchBuffered(s) /\ stmt[s].open /\ s \notin refused =>
                /\ Reads(s)' /\ NextRow(s)
                /\ Surplus(s) > 0 /\ Surplus(s)' = Surplus(s) - 1
           /\ FetchBatch(s) /\ s \notin refused =>
                /\ Reads(s)'
                /\ \/ NextRow(s) /\ Surplus(s)' \in 0..(FetchSize - 1)
                   \/ ToldEnd(s)
           /\ FetchBatchFails(s) /\ s \notin refused =>
                Reads(s)' /\ Surplus(s)' \in 0..FetchSize
           /\ FetchEnd(s) /\ s \notin refused => Reads(s)' /\ ToldEnd(s)
           /\ \A m \in Move : FetchScroll(s, m) =>
                Reads(s)' /\ Surplus(s)' = 0
<1>0. /\ last[s] \in 0..(NRows + 1)
      /\ last \in [Stmt -> Place]
      /\ last[s] \in Nat
  BY Bounds DEF ReadInv, TypeOK, Place
<1>1. ASSUME FetchBuffered(s), stmt[s].open, s \notin refused
      PROVE  /\ Reads(s)' /\ NextRow(s)
             /\ Surplus(s) > 0 /\ Surplus(s)' = Surplus(s) - 1
  <2> DEFINE b == stmt[s].buffered
  <2>1. b \in Seq(Row) /\ b # <<>> /\ stmt[s] \in Statement
    BY <1>1, PreparedStatement DEF FetchBuffered, ReadInv, Statement
  <2>2. Reads(s)
    BY <1>1 DEF FetchBuffered, ReadInv, RowsInOrder
  <2>3. /\ last[s] + Len(b) \in Row
        /\ last[s] < last[s] + Len(b)
        /\ Head(b) = last[s] + 1
        /\ Tail(b) = Rows(last[s] + 1, last[s] + Len(b))
        /\ Len(Tail(b)) = Len(b) - 1
    BY <1>0, <2>1, <2>2, PopReads DEF Reads
  <2>4. /\ last'[s] = last[s] + 1
        /\ stmt'[s].buffered = Tail(b)
        /\ stmt'[s].exhausted = stmt[s].exhausted
        /\ cur'[s] = cur[s]
    BY <1>0, <1>1, <2>1, <2>3 DEF FetchBuffered, Deliver, ReadInv, TypeOK, Statement
  <2>5. Len(b) \in Nat /\ last'[s] + Len(Tail(b)) = last[s] + Len(b)
    BY <1>0, <2>1, <2>3, <2>4, LenProperties
  <2>6. Reads(s)'
    BY <2>2, <2>3, <2>4, <2>5 DEF Reads
  <2>7. last[s] + 1 \in Row
    BY <1>0, <2>3, <2>5, Bounds DEF Row
  <2>8. Surplus(s) > 0 /\ Surplus(s)' = Surplus(s) - 1
    <3>1. last[s] < NRows
      BY <1>0, <2>7, Bounds DEF Row
    <3>2. Len(b) \in Nat \ {0} /\ Len(Tail(b)) = Len(b) - 1
      BY <1>0, <2>3, <2>5
    <3>3. QED
      BY <1>0, <2>4, <3>1, <3>2, Bounds DEF Surplus
  <2>9. QED
    BY <2>4, <2>6, <2>7, <2>8 DEF NextRow
<1>2. ASSUME NeedsBatch(s), s \notin refused
      PROVE  /\ Reads(s)
             /\ cur[s].pos = last[s]
             /\ stmt[s].buffered = <<>>
             /\ ~stmt[s].exhausted
             /\ Rows(last[s], LastSent(last[s])) = <<>> =>
                    last[s] >= NRows /\ Ends(last[s])
  <2>1. Reads(s)
    BY <1>2 DEF NeedsBatch, ReadInv, RowsInOrder
  <2>2. QED
    BY <1>2, <2>1, BatchReads DEF NeedsBatch, ReadInv
<1>3. ASSUME FetchBatch(s), s \notin refused
      PROVE  /\ Reads(s)'
             /\ \/ NextRow(s) /\ Surplus(s)' \in 0..(FetchSize - 1)
                \/ ToldEnd(s)
  <2> DEFINE a == last[s]
             e == LastSent(a)
             b == Rows(a, e)
  <2>1. NeedsBatch(s)
    BY <1>3 DEF FetchBatch
  <2>2. /\ cur[s].pos = a /\ cur[s] \in Cursor
        /\ Filled(s) \in Statement
        /\ Filled(s).buffered = b
        /\ Filled(s).exhausted = Ends(a)
        /\ b = <<>> => a >= NRows /\ Ends(a)
    BY <1>2, <1>3, <2>1, BatchTyped DEF ReadInv
  <2>3. e \in 0..NRows /\ (Ends(a) => e = NRows) /\ (~Ends(a) => e = PosAfter(a))
    BY <1>0, Bounds DEF LastSent, PosAfter, Ends
  <2>4. b \in Seq(Row) /\ Len(b) = (IF e > a THEN e - a ELSE 0) /\ (b = <<>> <=> e <= a)
    BY <1>0, <2>3, RowsType
  <2>5. cur'[s] # NoCursor /\ cur'[s].pos = PosAfter(a)
        /\ (Ends(a) => PosAfter(a) = NRows + 1)
    <3>1. cur' = [cur EXCEPT ![s] = [cur[s] EXCEPT !.pos = PosAfter(a)]]
      BY <1>3, <2>2 DEF FetchBatch
    <3>2. PosAfter(a) \in Place
      BY <1>0, Bounds DEF PosAfter, Ends, Place
    <3>3. /\ [cur[s] EXCEPT !.pos = PosAfter(a)] \in Cursor
          /\ [cur[s] EXCEPT !.pos = PosAfter(a)].pos = PosAfter(a)
      BY <2>2, <3>2 DEF Cursor
    <3>4. QED
      BY <3>1, <3>3, Absent DEF ReadInv, TypeOK, PosAfter
  <2>6. CASE b = <<>>
    <3>1. stmt'[s] = Filled(s) /\ last'[s] = NRows + 1
      BY <1>0, <1>3, <2>2, <2>6 DEF FetchBatch, TellEnd, ReadInv, TypeOK
    <3>2. NRows + 1 \in Nat /\ stmt'[s].buffered = <<>>
      BY <2>2, <2>6, <3>1, Bounds
    <3>3. Len(stmt'[s].buffered) = 0
          /\ stmt'[s].buffered = Rows(NRows + 1, NRows + 1)
      BY <3>2, EmptyRows, EmptySeq
    <3>4. Ends(a) /\ stmt'[s].exhausted /\ a \in {NRows, NRows + 1}
      <4>1. Ends(a) /\ a >= NRows
        BY <2>2, <2>6
      <4>2. stmt'[s].exhausted
        BY <2>2, <3>1, <4>1
      <4>3. a \in {NRows, NRows + 1}
        BY <1>0, <4>1, Bounds
      <4>4. QED
        BY <4>1, <4>2, <4>3
    <3>5. Reads(s)'
      BY <2>5, <3>1, <3>3, <3>4, Bounds DEF Reads
    <3>6. QED
      BY <3>1, <3>2, <3>4, <3>5 DEF ToldEnd
  <2>7. CASE b # <<>>
    <3>1. e > a /\ e \in Nat
      BY <1>0, <2>3, <2>4, <2>7, Bounds
    <3>2. Head(b) = a + 1 /\ Tail(b) = Rows(a + 1, e)
      BY <1>0, <2>3, <3>1, RowsTail
    <3>3. Len(Tail(b)) = e - (a + 1)
      <4>1. Len(Tail(b)) = Len(b) - 1
        BY <2>4, <2>7, HeadTailProperties
      <4>2. QED
        BY <1>0, <2>4, <3>1, <4>1
    <3>4. /\ last'[s] = a + 1
          /\ stmt'[s].buffered = Rows(a + 1, e)
          /\ stmt'[s].exhausted = Ends(a)
      <4>1. Deliver(s, Filled(s))
        BY <1>3, <2>2, <2>7 DEF FetchBatch
      <4>2. last'[s] = a + 1
        BY <1>0, <2>2, <3>2, <4>1 DEF Deliver
      <4>3. stmt'[s] = [Filled(s) EXCEPT !.buffered = Rows(a + 1, e)]
        BY <2>2, <3>2, <4>1 DEF Deliver, ReadInv, TypeOK
      <4>4. QED
        BY <2>2, <4>2, <4>3 DEF Statement
    <3>5. last'[s] + Len(stmt'[s].buffered) = e
      <4>1. Len(stmt'[s].buffered) = e - (a + 1)
        BY <3>2, <3>3, <3>4
      <4>2. QED
        BY <1>0, <3>1, <3>4, <4>1
    <3>6. Reads(s)'
      BY <2>3, <2>5, <3>4, <3>5, Bounds DEF Reads
    <3>7. a + 1 \in Row
      BY <1>0, <2>3, <3>1, Bounds DEF Row
    <3>8. Surplus(s)' \in 0..(FetchSize - 1)
      <4>1. Len(stmt'[s].buffered) = e - (a + 1)
        BY <3>2, <3>3, <3>4
      <4>2. Ends(a) => NRows - a \in 0..(FetchSize - 1)
        BY <1>0, <2>3, <3>1, Bounds DEF Ends
      <4>3. ~Ends(a) => e - (a + 1) = FetchSize - 1
        BY <1>0, <2>3, Bounds DEF PosAfter
      <4>4. QED
        BY <1>0, <3>4, <4>1, <4>2, <4>3, Bounds DEF Surplus
    <3>9. QED
      BY <3>4, <3>6, <3>7, <3>8 DEF NextRow
  <2>8. QED
    BY <2>6, <2>7
<1>4. ASSUME FetchBatchFails(s), s \notin refused
      PROVE  Reads(s)' /\ Surplus(s)' \in 0..FetchSize
  <2>1. NeedsBatch(s)
    BY <1>4 DEF FetchBatchFails
  <2>2. cur[s].pos = last[s] /\ ~stmt[s].exhausted /\ cur[s] \in Cursor
        /\ stmt[s] \in Statement
    BY <1>2, <1>4, <2>1, BatchTyped, PreparedStatement DEF ReadInv, NeedsBatch
  <2>3. PICK n \in last[s]..LastSent(last[s]) :
           /\ stmt' = [stmt EXCEPT ![s].buffered = Rows(last[s], n)]
           /\ cur' = [cur EXCEPT ![s].pos = n]
    BY <1>4, <2>2 DEF FetchBatchFails
  <2>4. n \in 0..NRows /\ n >= last[s] /\ n <= last[s] + FetchSize
    BY <1>0, <2>3, Bounds DEF LastSent
  <2>5. Len(Rows(last[s], n)) = n - last[s]
    <3>1. Len(Rows(last[s], n)) = IF n > last[s] THEN n - last[s] ELSE 0
      BY <1>0, <2>4, RowsType
    <3>2. QED
      BY <1>0, <2>4, <3>1
  <2>6. /\ stmt'[s].buffered = Rows(last[s], n) /\ ~stmt'[s].exhausted
        /\ cur'[s].pos = n /\ last' = last
    <3>1. /\ [stmt[s] EXCEPT !.buffered = Rows(last[s], n)].buffered = Rows(last[s], n)
          /\ ~[stmt[s] EXCEPT !.buffered = Rows(last[s], n)].exhausted
          /\ [cur[s] EXCEPT !.pos = n].pos = n
      BY <2>2 DEF Statement, Cursor
    <3>2. QED
      BY <1>4, <2>3, <3>1 DEF FetchBatchFails, ReadInv, TypeOK
  <2>7. Reads(s)'
    BY <1>0, <2>4, <2>5, <2>6, Bounds DEF Reads
  <2>8. Surplus(s)' \in 0..FetchSize
    BY <1>0, <2>4, <2>5, <2>6, Bounds DEF Surplus
  <2>9. QED
    BY <2>7, <2>8
<1>5. ASSUME FetchEnd(s), s \notin refused
      PROVE  Reads(s)' /\ ToldEnd(s)
  <2>1. Reads(s) /\ stmt[s].exhausted /\ stmt[s].buffered = <<>>
    BY <1>5 DEF FetchEnd, ReadInv, RowsInOrder
  <2>2. stmt' = stmt /\ cur' = cur /\ last'[s] = NRows + 1
    BY <1>0, <1>5 DEF FetchEnd, TellEnd
  <2>3. last[s] >= NRows
    BY <1>0, <2>1, EmptySeq DEF Reads
  <2>4. Len(stmt'[s].buffered) = 0
        /\ stmt'[s].buffered = Rows(NRows + 1, NRows + 1)
    BY <2>1, <2>2, Bounds, EmptyRows, EmptySeq
  <2>5. Reads(s)'
    <3>1. last'[s] + Len(stmt'[s].buffered) = NRows + 1 /\ NRows + 1 >= NRows
      BY <2>2, <2>4, Bounds
    <3>2. cur'[s] # NoCursor => cur'[s].pos = NRows + 1
      BY <2>1, <2>2 DEF Reads
    <3>3. stmt'[s].exhausted
      BY <2>1, <2>2
    <3>4. QED
      BY <2>2, <2>4, <3>1, <3>2, <3>3 DEF Reads
  <2>6. last[s] \in {NRows, NRows + 1}
    BY <1>0, <2>3, Bounds
  <2>7. stmt'[s].exhausted /\ stmt'[s].buffered = <<>>
    BY <2>1, <2>2
  <2>8. QED
    BY <2>2, <2>5, <2>6, <2>7 DEF ToldEnd
<1>6. ASSUME NEW m \in Move, FetchScroll(s, m)
      PROVE  Reads(s)' /\ Surplus(s)' = 0
  <2> DEFINE p == Landing(cur[s].pos, m)
  <2>1. stmt[s] \in Statement /\ cur[s] \in Cursor
    BY <1>6, PreparedStatement DEF FetchScroll, Scrolled, ReadInv, TypeOK, Cursor
  <2>2. cur[s].pos \in Int
    BY <2>1, Bounds DEF Cursor, Place
  <2>3. p \in Place
    BY <2>2, Landings
  <2> HIDE DEF p
  <2>4. cur' = [cur EXCEPT ![s].pos = p] /\ last' = [last EXCEPT ![s] = p]
    BY <1>6 DEF FetchScroll, Scrolled, p
  <2>5. stmt'[s].buffered = <<>> /\ ~stmt'[s].exhausted
    BY <1>6, <2>1 DEF FetchScroll, ReadInv, TypeOK, Statement
  <2>6. cur'[s].pos = p /\ last'[s] = p /\ p \in Nat
    BY <1>0, <2>1, <2>3, <2>4, Bounds DEF ReadInv, TypeOK, Cursor, Place
  <2>7. stmt'[s].buffered = Rows(p, p) /\ Len(stmt'[s].buffered) = 0
    BY <2>5, <2>6, EmptyRows, EmptySeq
  <2>8. QED
    BY <2>5, <2>6, <2>7 DEF Reads, Surplus
<1>7. QED
  BY <1>1, <1>3, <1>4, <1>5, <1>6

(* Which statements the steps touch. *)
LEMMA Touched ==
    ASSUME TypeOK, NEW s \in Stmt
    PROVE  /\ Prepare(s) \/ DropStatement(s) \/ LetStatementGo(s) => OnlyTouches(s)
           /\ Close(s) \/ Fetch(s) => OnlyTouches(s)
           /\ \A m \in Move : FetchScroll(s, m) => OnlyTouches(s)
           /\ \A x \in Tx : Execute(s, x) => OnlyTouches(s)
<1> USE DEF OnlyTouches, TypeOK
<1>1. Prepare(s) \/ Close(s) => OnlyTouches(s)
  BY DEF Prepare, Preparing, Close, reading
<1>2. DropStatement(s) \/ LetStatementGo(s) => OnlyTouches(s)
  BY DEF DropStatement, LetStatementGo, Consume
<1>3. FetchBuffered(s) \/ FetchBatch(s) \/ FetchBatchFails(s) => OnlyTouches(s)
  BY DEF FetchBuffered, FetchBatch, FetchBatchFails, Deliver, TellEnd
<1>4. FetchEnd(s) \/ FetchScrollRefused(s) => OnlyTouches(s)
  BY DEF FetchEnd, TellEnd, FetchScrollRefused
<1>5. \A m \in Move : FetchScroll(s, m) => OnlyTouches(s)
  BY DEF FetchScroll, Scrolled
<1>6. \A x \in Tx : Execute(s, x) => OnlyTouches(s)
  BY DEF Execute, OpenCursor, reading
<1>7. QED
  BY <1>1, <1>2, <1>3, <1>4, <1>5, <1>6 DEF Fetch

(* What the steps that leave no cursor, or a new one, leave of s. *)
LEMMA Settled ==
    ASSUME TypeOK, NEW s \in Stmt
    PROVE  /\ Prepare(s) => stmt'[s] # NoStmt /\ ~stmt'[s].open
           /\ DropStatement(s) \/ LetStatementGo(s) => stmt'[s] = NoStmt
           /\ Close(s) => ~stmt'[s].open
           /\ \A x \in Tx : Execute(s, x) =>
                \/ ~stmt'[s].open
                \/ /\ s \in Prepared'
                   /\ stmt'[s].open
                   /\ stmt'[s].buffered = <<>>
                   /\ ~stmt'[s].exhausted
                   /\ last'[s] = 0
                   /\ cur'[s].pos = 0
                   /\ s \notin refused'
<1>1. Prepare(s) => stmt'[s] # NoStmt /\ ~stmt'[s].open
  <2>1. \A k \in Kind : Fresh(k) \in Statement /\ ~Fresh(k).open
    BY EmptySeq DEF Fresh, Statement
  <2>2. QED
    BY <2>1, Absent DEF Prepare, TypeOK
<1>2. DropStatement(s) \/ LetStatementGo(s) => stmt'[s] = NoStmt
  BY DEF DropStatement, LetStatementGo, Consume, TypeOK
<1>3. Close(s) => ~stmt'[s].open
  <2>1. s \in Prepared => ~Idle(stmt[s]).open
    BY PreparedStatement DEF Idle, Statement
  <2>2. QED
    BY <2>1 DEF Close, TypeOK
<1>4. ASSUME NEW x \in Tx, Execute(s, x)
      PROVE  \/ ~stmt'[s].open
             \/ /\ s \in Prepared'
                /\ stmt'[s].open
                /\ stmt'[s].buffered = <<>>
                /\ ~stmt'[s].exhausted
                /\ last'[s] = 0
                /\ cur'[s].pos = 0
                /\ s \notin refused'
  <2> DEFINE i == Idle(stmt[s])
  <2>1. stmt[s] \in Statement
    BY <1>4, PreparedStatement DEF Execute
  <2>2. /\ ~i.open
        /\ [i EXCEPT !.open = TRUE] \in Statement
        /\ [i EXCEPT !.open = TRUE].open
        /\ [i EXCEPT !.open = TRUE].buffered = <<>>
        /\ ~[i EXCEPT !.open = TRUE].exhausted
        /\ \A rows \in {<<>>, << 1 >>} :
              ~[i EXCEPT !.buffered = rows, !.exhausted = TRUE].open
    BY <2>1, EmptySeq DEF Idle, Statement
  <2>3. CASE stmt' = [stmt EXCEPT ![s] = Idle(@)]
    BY <2>2, <2>3 DEF TypeOK
  <2>4. CASE stmt' = [stmt EXCEPT ![s] = [Idle(@) EXCEPT !.open = TRUE]]
             /\ OpenCursor(s, x)
    BY <2>2, <2>4, Absent DEF OpenCursor, TypeOK, Prepared
  <2>5. ASSUME NEW rows \in {<<>>, << 1 >>},
               stmt' = [stmt EXCEPT ![s] = [Idle(@) EXCEPT !.buffered = rows,
                                                         !.exhausted = TRUE]]
        PROVE  ~stmt'[s].open
    BY <2>2, <2>5 DEF TypeOK
  <2>6. QED
    BY <1>4, <2>3, <2>4, <2>5 DEF Execute
<1>5. QED
  BY <1>1, <1>2, <1>3, <1>4

(* The steps that move no reader; some close cursors in the server.        *)
NoReader ==
    /\ UNCHANGED <<stmt, last, refused>>
    /\ \A s \in Stmt : cur'[s] = cur[s] \/ cur'[s] = NoCursor

LEMMA NotReading ==
    ASSUME TypeOK
    PROVE  /\ ExchangeFails => NoReader
           /\ \A x \in Tx : TransactionSteps(x) => NoReader
           /\ \A s \in Stmt : PrepareSteps(s) /\ ~Prepare(s) => NoReader
           /\ UNCHANGED vars => NoReader
<1>1. ExchangeFails \/ UNCHANGED vars => NoReader
  BY DEF ExchangeFails, IoError, AlienPacket, reading, vars, NoReader
<1>2. ASSUME NEW x \in Tx, EndInServer(x), UNCHANGED <<stmt, last, refused>>
      PROVE  NoReader
  BY <1>2 DEF EndInServer, NoReader, TypeOK
<1>3. ASSUME NEW x \in Tx, TransactionSteps(x)
      PROVE  NoReader
  <2>1. CASE Commit(x) \/ Rollback(x)
    BY <1>2, <2>1 DEF Commit, Rollback
  <2>2. CASE UNCHANGED <<stmt, reading>>
    BY <2>2 DEF reading, NoReader
  <2>3. QED
    BY <1>3, <2>1, <2>2
       DEF TransactionSteps, Begin, CommitRefused, RollbackRefused, LetTransactionGo
<1>4. \A s \in Stmt : PrepareSteps(s) /\ ~Prepare(s) => NoReader
  BY DEF PrepareSteps, Allocate, PrepareUndescribed, PrepareRefused, Preparing,
         Discard, DiscardRefused, reading, NoReader
<1>5. QED
  BY <1>1, <1>3, <1>4

LEMMA ReadInductive == ReadInv /\ [Next]_vars => ReadInv'
<1> SUFFICES ASSUME ReadInv, [Next]_vars
             PROVE  RowsInOrder'
  BY TypeInductive DEF ReadInv
<1>0. TypeOK /\ RowsInOrder
  BY DEF ReadInv
<1>1. CASE NoReader
  <2> USE DEF NoReader
  <2> SUFFICES ASSUME NEW s \in Prepared', stmt'[s].open, s \notin refused'
               PROVE  Reads(s)'
    BY DEF RowsInOrder
  <2>1. s \in Stmt /\ Reads(s)
    BY <1>0, <1>1 DEF RowsInOrder, Prepared
  <2>2. QED
    BY <1>1, <2>1 DEF Reads
<1>2. CASE Reconnect
  BY <1>2 DEF Reconnect, RowsInOrder, Prepared
<1>3. ASSUME NEW s \in Stmt,
             Prepare(s) \/ DropStatement(s) \/ LetStatementGo(s) \/ Close(s)
      PROVE  RowsInOrder'
  <2>1. OnlyTouches(s)
    BY <1>0, <1>3, Touched
  <2>2. stmt'[s] = NoStmt \/ ~stmt'[s].open
    BY <1>0, <1>3, Settled
  <2>3. QED
    BY <1>0, <2>1, <2>2, OneReader DEF Prepared
<1>4. ASSUME NEW s \in Stmt, NEW x \in Tx, Execute(s, x)
      PROVE  RowsInOrder'
  <2>1. OnlyTouches(s)
    BY <1>0, <1>4, Touched
  <2>2. CASE ~stmt'[s].open
    BY <1>0, <2>1, <2>2, OneReader
  <2>3. CASE /\ stmt'[s].buffered = <<>> /\ ~stmt'[s].exhausted
             /\ last'[s] = 0 /\ cur'[s].pos = 0
    <3>1. Len(stmt'[s].buffered) = 0 /\ stmt'[s].buffered = Rows(0, 0)
      BY <2>3, EmptyRows, EmptySeq
    <3>2. Reads(s)'
      BY <2>3, <3>1, Bounds DEF Reads
    <3>3. QED
      BY <1>0, <2>1, <3>2, OneReader
  <2>4. QED
    BY <1>0, <1>4, <2>2, <2>3, Settled
<1>5. ASSUME NEW s \in Stmt, Fetch(s)
      PROVE  RowsInOrder'
  <2>1. OnlyTouches(s)
    BY <1>0, <1>5, Touched
  <2>2. CASE FetchBatch(s) \/ FetchBatchFails(s) \/ FetchEnd(s)
    <3>1. refused' = refused
      BY <2>2 DEF FetchBatch, FetchBatchFails, FetchEnd
    <3>2. QED
      BY <1>0, <2>1, <2>2, <3>1, ReaderStep, OneReader
  <2>3. CASE FetchBuffered(s)
    <3>1. stmt[s] \in Statement /\ refused' = refused
      BY <1>0, <2>3, PreparedStatement DEF FetchBuffered
    <3>2. [stmt[s] EXCEPT !.buffered = Tail(@)].open = stmt[s].open
      BY <3>1 DEF Statement
    <3>3. stmt'[s].open = stmt[s].open
      BY <1>0, <2>3, <3>2 DEF FetchBuffered, Deliver, TypeOK
    <3>4. QED
      BY <1>0, <2>1, <2>3, <3>1, <3>3, ReaderStep, OneReader
  <2>4. CASE FetchScrollRefused(s)
    BY <1>0, <2>1, <2>4, OneReader DEF FetchScrollRefused
  <2>5. QED
    BY <1>5, <2>2, <2>3, <2>4 DEF Fetch
<1>6. ASSUME NEW s \in Stmt, NEW m \in Move, FetchScroll(s, m)
      PROVE  RowsInOrder'
  BY <1>0, <1>6, Touched, ReaderStep, OneReader
<1>7. QED
  BY <1>0, <1>1, <1>2, <1>3, <1>4, <1>5, <1>6, NotReading
     DEF Next, Step, PrepareSteps

(***************************************************************************)
(* The buffer always holds the rows after the last one delivered, up to    *)
(* where the server stands, and the end is believed only with the last     *)
(* row, whatever batches, partial batches and jumps came before, unless a  *)
(* jump was refused.                                                       *)
(***************************************************************************)
THEOREM RowsDeliveredInOrder == Spec => []RowsInOrder
<1>1. Init => ReadInv
  BY InitTyped DEF Init, ReadInv, RowsInOrder, Prepared
<1>2. ReadInv => RowsInOrder
  BY DEF ReadInv
<1>3. QED
  BY <1>1, <1>2, ReadInductive, PTL DEF Spec

------------------------------------------------------------------------------
(* Prefetching implements reading row by row.                              *)

(* A step on s changes the abstract state of s only. *)
LEMMA AbstractUpdate ==
    ASSUME NEW s \in Stmt, OnlyTouches(s),
           NEW p, p = Position(s)', NEW o, o = AtEnd(s)', NEW k, k = Ahead(s)'
    PROVE  Reading!Set(s, p, o, k)
<1>1. ASSUME NEW q \in Stmt \ {s}
      PROVE  Position(q)' = Position(q) /\ AtEnd(q)' = AtEnd(q) /\ Ahead(q)' = Ahead(q)
  <2>1. Position(q)' = Position(q)
    BY <1>1 DEF OnlyTouches, Position, Prepared
  <2>2. AtEnd(q)' = AtEnd(q)
    BY <1>1 DEF OnlyTouches, AtEnd, Prepared
  <2>3. Ahead(q)' = Ahead(q)
    BY <1>1, <2>1 DEF OnlyTouches, Ahead
  <2>4. QED
    BY <2>1, <2>2, <2>3
<1>2. QED
  BY <1>1 DEF Reading!Set

(* ResultSet numbers the rows and lands where Session does. *)
LEMMA SameScrolling ==
    /\ Reading!Place = Place /\ Reading!Move = Move /\ Reading!Fixed = Fixed
    /\ Reading!NoMove = NoMove
    /\ \A p, m : Reading!Landing(p, m) = Landing(p, m)
<1>1. \A d : Reading!Bare(d) = Bare(d)
  BY DEF Reading!Bare, Bare
<1>2. Reading!Place = Place /\ Reading!Move = Move /\ Reading!NoMove = NoMove
  BY <1>1 DEF Reading!Place, Place, Reading!Move, Move, Reading!NoMove, NoMove
<1>3. Reading!Fixed = Fixed
  BY <1>2 DEF Reading!Fixed, Fixed
<1>4. \A p : Reading!Within(p) = Within(p)
  BY DEF Reading!Within, Within
<1>5. \A p, m : Reading!Landing(p, m) = Landing(p, m)
  BY <1>4 DEF Reading!Landing, Landing
<1>6. QED
  BY <1>2, <1>3, <1>5

Reader == <<[s \in Stmt |-> Position(s)], [s \in Stmt |-> AtEnd(s)],
            [s \in Stmt |-> Ahead(s)]>>

(* A step that moves no reader. *)
LEMMA AbstractStutter ==
    ASSUME UNCHANGED <<stmt, last, refused>>
    PROVE  UNCHANGED Reader
BY DEF Reader, Position, AtEnd, Ahead, Prepared

LEMMA Positions == Closed \notin Place /\ Unknown \notin Place /\ Closed # Unknown
BY SessionAssumption, Bounds DEF Place

(* Closed readers and those whose jump failed; and readers in order.       *)
LEMMA NoReaderAhead ==
    ASSUME NEW s \in Stmt
    PROVE  /\ s \notin Prepared \/ ~stmt[s].open =>
                Position(s) = Closed /\ AtEnd(s) = FALSE /\ Ahead(s) = 0
           /\ s \in Prepared /\ stmt[s].open /\ s \in refused =>
                Position(s) = Unknown /\ Ahead(s) = 0
BY Positions DEF Position, AtEnd, Ahead

LEMMA ReaderAhead ==
    ASSUME TypeOK, NEW s \in Prepared, stmt[s].open, s \notin refused
    PROVE  Position(s) = last[s] /\ last[s] \in Place /\ Ahead(s) = Surplus(s)
<1>1. Position(s) = last[s] /\ last[s] \in Place
  BY DEF Position, TypeOK, Prepared
<1>2. QED
  BY <1>1 DEF Ahead, Surplus

(* What a fetch leaves alone in the value of s. *)
LEMMA FetchKeeps ==
    ASSUME TypeOK, NEW s \in Stmt, Fetch(s)
    PROVE  /\ s \in Prepared /\ s \in Prepared'
           /\ stmt'[s].open = stmt[s].open
           /\ FetchBatchFails(s) => stmt'[s].exhausted = stmt[s].exhausted
<1>1. s \in Prepared /\ stmt[s] \in Statement
  BY PreparedStatement
     DEF Fetch, FetchBuffered, FetchBatch, FetchBatchFails, NeedsBatch,
         FetchEnd, FetchScrollRefused
<1> DEFINE Kept == s \in Prepared' /\ stmt'[s].open = stmt[s].open
<1>2. ASSUME NEW r \in Statement, stmt' = [stmt EXCEPT ![s] = r],
             r.open = stmt[s].open
      PROVE  Kept
  BY <1>2, Absent DEF TypeOK, Prepared
<1>3. ASSUME NEW r \in Statement, Deliver(s, r), r.buffered # <<>>,
             r.open = stmt[s].open
      PROVE  Kept
  <2>1. Tail(r.buffered) \in Seq(Row)
    BY <1>3, HeadTailProperties DEF Statement
  <2>2. [r EXCEPT !.buffered = Tail(@)] \in Statement
        /\ [r EXCEPT !.buffered = Tail(@)].open = stmt[s].open
    BY <1>3, <2>1 DEF Statement
  <2>3. QED
    BY <1>2, <1>3, <2>2 DEF Deliver
<1>4. ASSUME FetchBuffered(s)
      PROVE  Kept
  BY <1>1, <1>3, <1>4 DEF FetchBuffered
<1>5. ASSUME FetchBatch(s)
      PROVE  Kept
  BY <1>1, <1>2, <1>3, <1>5, BatchTyped DEF FetchBatch, NeedsBatch
<1>6. ASSUME FetchBatchFails(s)
      PROVE  Kept /\ stmt'[s].exhausted = stmt[s].exhausted
  <2>1. NeedsBatch(s)
    BY <1>6 DEF FetchBatchFails
  <2>2. PICK n \in cur[s].pos..LastSent(cur[s].pos) :
           stmt' = [stmt EXCEPT ![s].buffered = Rows(cur[s].pos, n)]
    BY <1>6 DEF FetchBatchFails
  <2>3. n \in 0..NRows /\ cur[s].pos \in Nat
    BY <2>1, BatchTyped, Bounds DEF Place
  <2>4. Rows(cur[s].pos, n) \in Seq(Row)
    BY <2>3, RowsType
  <2>5. /\ [stmt[s] EXCEPT !.buffered = Rows(cur[s].pos, n)] \in Statement
        /\ [stmt[s] EXCEPT !.buffered = Rows(cur[s].pos, n)].open = stmt[s].open
        /\ [stmt[s] EXCEPT !.buffered = Rows(cur[s].pos, n)].exhausted
              = stmt[s].exhausted
    BY <1>1, <2>4 DEF Statement
  <2>6. QED
    BY <1>2, <2>2, <2>5 DEF TypeOK
<1>7. ASSUME FetchEnd(s)
      PROVE  Kept
  BY <1>1, <1>7 DEF FetchEnd, Prepared
<1>8. ASSUME FetchScrollRefused(s)
      PROVE  Kept
  <2>1. [stmt[s] EXCEPT !.buffered = <<>>] \in Statement
        /\ [stmt[s] EXCEPT !.buffered = <<>>].open = stmt[s].open
    BY <1>1, EmptySeq DEF Statement
  <2>2. QED
    BY <1>2, <1>8, <2>1 DEF FetchScrollRefused
<1>9. QED
  BY <1>1, <1>4, <1>5, <1>6, <1>7, <1>8 DEF Fetch

LEMMA ScrollKeeps ==
    ASSUME TypeOK, NEW s \in Stmt, NEW m \in Move, FetchScroll(s, m)
    PROVE  /\ s \in Prepared /\ s \in Prepared'
           /\ stmt[s].open /\ stmt'[s].open /\ ~stmt'[s].exhausted
<1>1. s \in Prepared /\ stmt[s] \in Statement /\ stmt[s].open
  BY PreparedStatement DEF FetchScroll, Scrolled
<1>2. [stmt[s] EXCEPT !.buffered = <<>>, !.exhausted = FALSE] \in Statement
      /\ [stmt[s] EXCEPT !.buffered = <<>>, !.exhausted = FALSE].open = stmt[s].open
      /\ ~[stmt[s] EXCEPT !.buffered = <<>>, !.exhausted = FALSE].exhausted
  BY <1>1, EmptySeq DEF Statement
<1>3. stmt' = [stmt EXCEPT ![s] = [stmt[s] EXCEPT !.buffered = <<>>, !.exhausted = FALSE]]
  BY DEF FetchScroll, TypeOK
<1>4. QED
  BY <1>1, <1>2, <1>3, Absent DEF TypeOK, Prepared

(* A step of ResultSet that is no jump, but for `asked`. *)
ReadStep ==
    \/ UNCHANGED Reader
    \/ \E s \in Stmt :
          \/ Reading!Open(s) \/ Reading!Close(s) \/ Reading!Advance(s)
          \/ Reading!End(s) \/ Reading!Break(s) \/ Reading!Wander(s)
    \/ Reading!Restart

LEMMA AbstractFetch ==
    ASSUME ReadInv, ReadInv', NEW s \in Stmt, Fetch(s)
    PROVE  ReadStep
<1>0. TypeOK /\ TypeOK' /\ RowsInOrder
  BY DEF ReadInv
<1>1. OnlyTouches(s) /\ s \in Prepared /\ s \in Prepared' /\ stmt'[s].open = stmt[s].open
  BY <1>0, Touched, FetchKeeps
<1>2. CASE ~stmt[s].open
  <2>1. Position(s)' = Closed /\ AtEnd(s)' = FALSE /\ Ahead(s)' = 0
    <3>1. ~stmt'[s].open
      BY <1>1, <1>2
    <3>2. QED
      BY <3>1, Positions DEF Position, AtEnd, Ahead
  <2>2. Reading!Close(s)
    BY <1>1, <2>1, AbstractUpdate DEF Reading!Close
  <2>3. QED
    BY <2>2 DEF ReadStep
<1>3. CASE stmt[s].open /\ s \in refused'
  <2>1. Position(s) # Closed
    BY <1>0, <1>1, <1>3, Positions DEF Position, TypeOK
  <2>2. Position(s)' = Unknown /\ Ahead(s)' = 0
    BY <1>1, <1>3, Positions DEF Position, Ahead
  <2>3. PICK o \in BOOLEAN : o = AtEnd(s)'
    BY DEF AtEnd
  <2>4. Reading!Wander(s)
    BY <1>1, <2>1, <2>2, <2>3, AbstractUpdate DEF Reading!Wander
  <2>5. QED
    BY <2>4 DEF ReadStep
<1>4. CASE stmt[s].open /\ s \notin refused'
  <2>1. s \notin refused /\ ~FetchScrollRefused(s)
    BY <1>4 DEF Fetch, FetchBuffered, FetchBatch, FetchBatchFails, FetchEnd,
                FetchScrollRefused
  <2>2. Position(s) = last[s] /\ last[s] \in Place /\ Ahead(s) = Surplus(s)
    BY <1>0, <1>1, <1>4, <2>1, ReaderAhead
  <2>3. Position(s)' = last'[s] /\ last'[s] \in Place /\ Ahead(s)' = Surplus(s)'
    BY <1>0, <1>1, <1>4 DEF TypeOK, Prepared, Position, Ahead, Surplus
  <2>4. ASSUME NextRow(s), NEW k \in Int, k = Ahead(s)',
               k \in Reading!AheadOfNext(s)
        PROVE  ReadStep
    <3>1. last[s] \in 0..(NRows - 1) /\ last'[s] = last[s] + 1
      BY <2>2, <2>4, Bounds DEF NextRow, Row, Place
    <3>2. AtEnd(s)' => last[s] + 1 = NRows
      <4> SUFFICES ASSUME AtEnd(s)'
                   PROVE  last[s] + 1 = NRows
        OBVIOUS
      <4>1. Reads(s)'
        BY <1>1, <1>4 DEF ReadInv, RowsInOrder
      <4>2. stmt'[s].exhausted /\ stmt'[s].buffered = <<>>
        BY DEF AtEnd
      <4>3. last'[s] + 0 >= NRows
        BY <4>1, <4>2, EmptySeq DEF Reads
      <4>4. QED
        BY <3>1, <4>3, Bounds
    <3>3. PICK o \in BOOLEAN : o = AtEnd(s)'
      BY DEF AtEnd
    <3>4. (o /\ last[s] + 1 = NRows) = o
      BY <3>2, <3>3
    <3>5. Reading!Set(s, last[s] + 1, o, k)
      BY <1>1, <2>3, <2>4, <3>1, <3>3, AbstractUpdate
    <3>6. Reading!Advance(s)
      BY <2>2, <2>4, <3>1, <3>4, <3>5 DEF Reading!Advance
    <3>7. QED
      BY <3>6 DEF ReadStep
  <2>5. ASSUME ToldEnd(s)
        PROVE  ReadStep
    <3>1. AtEnd(s)' = TRUE
      BY <1>1, <1>4, <2>5 DEF ToldEnd, AtEnd
    <3>2. Ahead(s)' = 0 /\ Position(s)' = NRows + 1
      BY <2>3, <2>5, Bounds DEF ToldEnd, Surplus
    <3>3. Reading!End(s)
      BY <1>1, <2>2, <2>5, <3>1, <3>2, AbstractUpdate DEF Reading!End, ToldEnd
    <3>4. QED
      BY <3>3 DEF ReadStep
  <2>6. CASE FetchBuffered(s)
    <3>1. NextRow(s) /\ Surplus(s) > 0 /\ Surplus(s)' = Surplus(s) - 1
      BY <1>4, <2>1, <2>6, ReaderStep
    <3>2. Surplus(s)' \in Int
      <4>1. stmt'[s] \in Statement
        BY <1>0, <1>1 DEF TypeOK, Prepared
      <4>2. Len(stmt'[s].buffered) \in Nat
        BY <4>1, LenProperties DEF Statement
      <4>3. QED
        BY <2>3, <4>2, Bounds DEF Surplus, Place
    <3>3. Surplus(s)' \in Reading!AheadOfNext(s)
      BY <2>2, <3>1 DEF Reading!AheadOfNext
    <3>4. QED
      BY <2>3, <2>4, <3>1, <3>2, <3>3
  <2>7. CASE FetchBatch(s)
    <3>1. CASE NextRow(s) /\ Surplus(s)' \in 0..(FetchSize - 1)
      <4>1. Ahead(s) = 0
        BY <2>2, <2>7, EmptySeq DEF FetchBatch, NeedsBatch, Surplus
      <4>2. Surplus(s)' \in Reading!AheadOfNext(s) /\ Surplus(s)' \in Int
        BY <3>1, <4>1 DEF Reading!AheadOfNext
      <4>3. QED
        BY <2>3, <2>4, <3>1, <4>2
    <3>2. QED
      BY <2>1, <2>5, <2>7, <3>1, ReaderStep
  <2>8. CASE FetchEnd(s)
    BY <2>1, <2>5, <2>8, ReaderStep
  <2>9. CASE FetchBatchFails(s)
    <3>1. stmt'[s].exhausted = stmt[s].exhausted /\ ~stmt[s].exhausted
          /\ stmt[s].buffered = <<>> /\ last' = last
      BY <1>0, <2>9, FetchKeeps DEF FetchBatchFails, NeedsBatch
    <3>2. AtEnd(s)' = FALSE /\ Position(s)' = Position(s) /\ Ahead(s) = 0
      BY <2>2, <2>3, <3>1, EmptySeq DEF AtEnd, Surplus
    <3>3. Ahead(s)' \in 0..FetchSize /\ Position(s) # Closed
      BY <2>1, <2>2, <2>3, <2>9, ReaderStep, Positions
    <3>4. Reading!Break(s)
      BY <1>1, <3>2, <3>3, AbstractUpdate DEF Reading!Break
    <3>5. QED
      BY <3>4 DEF ReadStep
  <2>10. QED
    BY <2>1, <2>6, <2>7, <2>8, <2>9 DEF Fetch
<1>5. QED
  BY <1>2, <1>3, <1>4

(* A jump lands where ResultSet says: the server's cursor stands at the    *)
(* last row read ahead.                                                    *)
LEMMA AbstractJump ==
    ASSUME ReadInv, ReadInv', NEW s \in Stmt, NEW m \in Move, FetchScroll(s, m)
    PROVE  Reading!Jump(s, m) \/ Reading!JumpFromUnknown(s, m)
<1> DEFINE p == Landing(cur[s].pos, m)
<1>0. TypeOK /\ TypeOK' /\ RowsInOrder
  BY DEF ReadInv
<1>1. /\ OnlyTouches(s) /\ s \in Prepared /\ s \in Prepared'
      /\ stmt[s].open /\ stmt'[s].open /\ ~stmt'[s].exhausted
  BY <1>0, Touched, ScrollKeeps
<1>2. cur[s] # NoCursor /\ cur[s].pos \in Int /\ s \notin refused'
  BY <1>0, Bounds DEF FetchScroll, Scrolled, TypeOK, Place
<1>3. p \in Place /\ last'[s] = p
  BY <1>0, <1>2, Landings DEF FetchScroll, Scrolled, TypeOK
<1> HIDE DEF p
<1>4. Position(s)' = p /\ AtEnd(s)' = FALSE
  BY <1>1, <1>2, <1>3 DEF Position, AtEnd
<1>5. Ahead(s)' = 0
  BY <1>3, <1>4, ReaderStep DEF Ahead, Surplus
<1>6. Reading!Set(s, p, FALSE, 0)
  BY <1>1, <1>4, <1>5, AbstractUpdate
<1>7. Position(s) # Closed
  BY <1>0, <1>1, Positions DEF Position, TypeOK
<1>8. CASE s \in refused
  <2>1. Position(s) = Unknown
    BY <1>1, <1>8 DEF Position
  <2>2. CASE m \in Fixed
    <3>1. p = Landing(Position(s) + Ahead(s), m)
      BY <2>2, Landings DEF p
    <3>2. QED
      BY <1>6, <1>7, <2>2, <3>1, SameScrolling DEF Reading!Jump
  <2>3. CASE m \notin Fixed
    BY <1>3, <1>6, <2>1, <2>3, SameScrolling DEF Reading!JumpFromUnknown
  <2>4. QED
    BY <2>2, <2>3
<1>9. CASE s \notin refused
  <2>1. Position(s) = last[s] /\ last[s] \in Place /\ Ahead(s) = Surplus(s)
    BY <1>0, <1>1, <1>9, ReaderAhead
  <2>2. cur[s].pos = last[s] + Surplus(s)
    <3>1. Reads(s)
      BY <1>0, <1>1, <1>9 DEF RowsInOrder
    <3>2. QED
      BY <1>2, <2>1, <3>1, Bounds DEF Reads, Surplus, Place
  <2>3. p = Landing(Position(s) + Ahead(s), m)
    BY <2>1, <2>2 DEF p
  <2>4. Position(s) # Unknown
    BY <2>1, Positions
  <2>5. QED
    BY <1>6, <1>7, <2>3, <2>4, SameScrolling DEF Reading!Jump
<1>10. QED
  BY <1>8, <1>9

LEMMA AbstractStep ==
    ReadInv /\ [Next]_vars =>
        [Reading!Next]_<<[s \in Stmt |-> Position(s)], [s \in Stmt |-> AtEnd(s)],
                         [s \in Stmt |-> Ahead(s)], asked>>
<1> SUFFICES ASSUME ReadInv, [Next]_vars
             PROVE  Reading!Next \/ UNCHANGED <<Reader, asked>>
  BY DEF Reader
<1>0. TypeOK /\ RowsInOrder /\ ReadInv'
  BY ReadInductive DEF ReadInv
<1>1. NoReader => ReadStep
  BY AbstractStutter DEF NoReader, ReadStep
<1>2. ASSUME Reconnect
      PROVE  ReadStep
  <2>1. Prepared' = {}
    BY <1>2 DEF Reconnect, Prepared
  <2>2. \A s \in Stmt : Position(s)' = Closed /\ AtEnd(s)' = FALSE /\ Ahead(s)' = 0
    BY <2>1, Positions DEF Position, AtEnd, Ahead
  <2>3. Reading!Restart
    BY <2>2 DEF Reading!Restart
  <2>4. QED
    BY <2>3 DEF ReadStep
<1>3. ASSUME NEW s \in Stmt,
             Prepare(s) \/ DropStatement(s) \/ LetStatementGo(s) \/ Close(s)
      PROVE  ReadStep
  <2>1. stmt'[s] = NoStmt \/ ~stmt'[s].open
    BY <1>0, <1>3, Settled
  <2>2. Position(s)' = Closed /\ AtEnd(s)' = FALSE /\ Ahead(s)' = 0
    BY <2>1, Positions DEF Position, AtEnd, Ahead, Prepared
  <2>3. Reading!Close(s)
    BY <1>0, <1>3, <2>2, Touched, AbstractUpdate DEF Reading!Close
  <2>4. QED
    BY <2>3 DEF ReadStep
<1>4. ASSUME NEW s \in Stmt, NEW x \in Tx, Execute(s, x)
      PROVE  ReadStep
  <2>1. OnlyTouches(s)
    BY <1>0, <1>4, Touched
  <2>2. CASE ~stmt'[s].open
    <3>1. Position(s)' = Closed /\ AtEnd(s)' = FALSE /\ Ahead(s)' = 0
      BY <2>2, Positions DEF Position, AtEnd, Ahead
    <3>2. QED
      BY <2>1, <3>1, AbstractUpdate DEF Reading!Close, ReadStep
  <2>3. CASE /\ s \in Prepared' /\ stmt'[s].open /\ ~stmt'[s].exhausted
             /\ stmt'[s].buffered = <<>>
             /\ last'[s] = 0 /\ s \notin refused'
    <3>1. Position(s)' = 0 /\ AtEnd(s)' = FALSE
      BY <2>3 DEF Position, AtEnd
    <3>2. Ahead(s)' = 0
      BY <2>3, <3>1, EmptySeq DEF Ahead
    <3>3. QED
      BY <2>1, <3>1, <3>2, AbstractUpdate DEF Reading!Open, ReadStep
  <2>4. QED
    BY <1>0, <1>4, <2>2, <2>3, Settled
<1>5. ASSUME NEW s \in Stmt, Fetch(s)
      PROVE  ReadStep
  BY <1>0, <1>5, AbstractFetch
<1>6. Step => ReadStep
  BY <1>0, <1>1, <1>2, <1>3, <1>4, <1>5, NotReading DEF Step, PrepareSteps
<1>7. CASE Step /\ asked' = NoMove
  BY <1>6, <1>7, SameScrolling DEF ReadStep, Reader, Reading!Next
<1>8. ASSUME NEW s \in Stmt, NEW m \in Move, FetchScroll(s, m), asked' = m
      PROVE  Reading!Next
  BY <1>0, <1>8, AbstractJump, SameScrolling DEF Reading!Next
<1>9. CASE UNCHANGED vars
  BY <1>9, AbstractStutter DEF vars, reading
<1>10. QED
  BY <1>7, <1>8, <1>9 DEF Next

(***************************************************************************)
(* Reading through the prefetch buffer implements ResultSet: fetches give  *)
(* every row once and in order however they are batched, and a jump lands  *)
(* where it should counted from the last row read ahead, unless one before *)
(* was refused.  It does not say that fetch_next is fetch: with rows read  *)
(* ahead it is not, see the run session_next.                              *)
(***************************************************************************)
THEOREM PrefetchInvisible == Spec => ResultSetSpec
<1>1. Init => ReadInv
  BY InitTyped DEF Init, ReadInv, RowsInOrder, Prepared
<1>2. Init => Reading!Init
  <2>1. Init => /\ Prepared = {}
                /\ \A s \in Stmt :
                      Position(s) = Closed /\ AtEnd(s) = FALSE /\ Ahead(s) = 0
    BY Positions DEF Init, Position, AtEnd, Ahead, Prepared
  <2>2. QED
    BY <2>1, SameScrolling DEF Init, Reading!Init
<1>3. QED
  BY <1>1, <1>2, ReadInductive, AbstractStep, PTL
     DEF Spec, ResultSetSpec, Reading!Spec

------------------------------------------------------------------------------
(* Transactions, handles and cursors: who holds what the server keeps.     *)

(* No transaction and no handle is held twice. *)
TxKept ==
    /\ TxOwned
    /\ tx \cap aborting = {} /\ tx \cap unfinished = {} /\ aborting \cap unfinished = {}

TakenUp == allocated \cup discarding
LetGo == undescribed \cup unfreed

HandlesKept ==
    /\ srvStmt = Prepared \cup TakenUp \cup LetGo
    /\ Prepared \cap TakenUp = {} /\ Prepared \cap LetGo = {} /\ TakenUp \cap LetGo = {}
    /\ allocated \cap discarding = {} /\ undescribed \cap unfreed = {}
    /\ \A s, q \in TakenUp : s = q

(* A cursor belongs to a statement the caller has or let go of. *)
CursorHeld ==
    \A s \in Stmt : cur[s] # NoCursor => s \in Prepared \cup unfreed

LEMMA TxKeptInductive == TxKept /\ [Next]_vars => TxKept'
<1> SUFFICES ASSUME TxKept, [Next]_vars
             PROVE  TxKept'
  OBVIOUS
<1> USE DEF TxKept, TxOwned
<1>1. ASSUME NEW x \in Tx, TransactionSteps(x)
      PROVE  TxKept'
  <2>1. CASE Begin(x)
    BY <2>1 DEF Begin
  <2>2. CASE Commit(x)
    BY <2>2 DEF Commit, EndInServer
  <2>3. CASE CommitRefused(x)
    BY <2>3 DEF CommitRefused, Ready
  <2>4. CASE Rollback(x)
    BY <2>4 DEF Rollback, RollingBack, EndInServer
  <2>5. CASE RollbackRefused(x)
    BY <2>5 DEF RollbackRefused, RollingBack
  <2>6. CASE LetTransactionGo(x)
    BY <2>6 DEF LetTransactionGo
  <2>7. QED
    BY <1>1, <2>1, <2>2, <2>3, <2>4, <2>5, <2>6 DEF TransactionSteps
<1>2. CASE Reconnect
  BY <1>2 DEF Reconnect
<1>3. CASE UNCHANGED txs
  BY <1>3 DEF txs
<1>4. ASSUME NEW s \in Stmt, PrepareSteps(s)
      PROVE  UNCHANGED txs
  BY <1>4 DEF PrepareSteps, Allocate, Preparing, Prepare, PrepareUndescribed,
              PrepareRefused, Discard, DiscardRefused
<1>5. ASSUME NEW s \in Stmt, DropStatement(s) \/ LetStatementGo(s) \/ Close(s)
      PROVE  UNCHANGED txs
  BY <1>5 DEF DropStatement, LetStatementGo, Consume, Close
<1>6. ASSUME NEW s \in Stmt, Fetch(s)
      PROVE  UNCHANGED txs
  BY <1>6 DEF Fetch, FetchBuffered, FetchBatch, FetchBatchFails, FetchEnd,
              FetchScrollRefused
<1>7. ASSUME NEW s \in Stmt,
             \/ \E x \in Tx : Execute(s, x)
             \/ \E m \in Move : FetchScroll(s, m)
      PROVE  UNCHANGED txs
  BY <1>7 DEF Execute, FetchScroll, Scrolled
<1>8. ExchangeFails \/ UNCHANGED vars => UNCHANGED txs
  BY DEF ExchangeFails, IoError, AlienPacket, vars
<1>9. QED
  BY <1>1, <1>2, <1>3, <1>4, <1>5, <1>6, <1>7, <1>8 DEF Next, Step

(***************************************************************************)
(* A transaction lives in the server only while its value can end it or    *)
(* the rollback after its refused commit is under way, or when the caller  *)
(* let the value go or the rollback was refused: a refused commit leaves   *)
(* none behind.                                                            *)
(***************************************************************************)
THEOREM TransactionsOwned == Spec => []TxOwned
<1>1. Init => TxKept
  BY DEF Init, TxKept, TxOwned
<1>2. TxKept => TxOwned
  BY DEF TxKept
<1>3. QED
  BY <1>1, <1>2, TxKeptInductive, PTL DEF Spec

CursorInv == /\ TypeOK /\ TxKept /\ HandlesKept
             /\ CursorHeld /\ ServerCursorKnown

(* Steps that keep every handle where it is. *)
LEMMA SamePrepared ==
    ASSUME HandlesKept, UNCHANGED handles, Prepared' = Prepared
    PROVE  HandlesKept'
BY DEF HandlesKept, TakenUp, LetGo, handles

(* Steps that leave the statements and the open cursors as they are.       *)
LEMMA SameCursors ==
    ASSUME CursorHeld, ServerCursorKnown, HandlesKept,
           UNCHANGED stmt, unfreed \subseteq unfreed',
           \A s \in Stmt : cur'[s] # NoCursor =>
               cur'[s] = cur[s] /\ cur[s].tx \in srvTx' /\ s \in srvStmt'
    PROVE  CursorHeld' /\ ServerCursorKnown'
BY DEF CursorHeld, ServerCursorKnown, Prepared

LEMMA ExecuteKeeps ==
    ASSUME TypeOK, NEW s \in Stmt, NEW x \in Tx, Execute(s, x)
    PROVE  /\ s \in Prepared /\ s \in Prepared'
           /\ \/ cur'[s] = NoCursor
              \/ cur'[s] = cur[s] /\ ~stmt[s].open
              \/ cur'[s].tx = x /\ stmt'[s].open
<1> DEFINE i == Idle(stmt[s])
<1>1. s \in Prepared /\ stmt[s] \in Statement
      /\ (stmt[s].open => stmt[s].kind = "select")
  BY PreparedStatement DEF Execute
<1>2. i \in Statement /\ [i EXCEPT !.open = TRUE] \in Statement
      /\ [i EXCEPT !.open = TRUE].open
  BY <1>1, EmptySeq DEF Idle, Statement
<1>3. CASE stmt' = [stmt EXCEPT ![s] = Idle(@)] /\ cur' = [cur EXCEPT ![s] = NoCursor]
  BY <1>1, <1>2, <1>3, Absent DEF TypeOK, Prepared
<1>4. CASE stmt' = [stmt EXCEPT ![s] = [Idle(@) EXCEPT !.open = TRUE]]
           /\ OpenCursor(s, x)
  BY <1>1, <1>2, <1>4, Absent DEF OpenCursor, TypeOK, Prepared
<1>5. ASSUME NEW rows \in {<<>>, << 1 >>}, cur' = cur, stmt[s].kind = "returning",
             stmt' = [stmt EXCEPT ![s] = [Idle(@) EXCEPT !.buffered = rows,
                                                       !.exhausted = TRUE]]
      PROVE  s \in Prepared' /\ cur'[s] = cur[s] /\ ~stmt[s].open
  <2>1. rows \in Seq(Row)
    BY OneRow
  <2>2. [i EXCEPT !.buffered = rows, !.exhausted = TRUE] \in Statement
    BY <1>2, <2>1 DEF Statement
  <2>3. QED
    BY <1>1, <1>5, <2>2, Absent DEF TypeOK, Prepared
<1>6. QED
  BY <1>1, <1>3, <1>4, <1>5 DEF Execute, reading

(* Transactions only end with their cursors. *)
LEMMA CursorsOfTransactions ==
    ASSUME CursorInv, NEW x \in Tx, TransactionSteps(x)
    PROVE  HandlesKept' /\ CursorHeld' /\ ServerCursorKnown'
<1> USE DEF CursorInv
<1>1. UNCHANGED <<stmt, handles>>
  BY DEF TransactionSteps, Begin, Commit, CommitRefused, Rollback, RollbackRefused,
         LetTransactionGo
<1>2. HandlesKept'
  BY <1>1, SamePrepared DEF Prepared
<1>3. \A s \in Stmt : cur'[s] # NoCursor => cur'[s] = cur[s] /\ cur[s].tx \in srvTx'
  <2>1. ASSUME EndInServer(x), NEW s \in Stmt, cur'[s] # NoCursor
        PROVE  cur'[s] = cur[s] /\ cur[s].tx \in srvTx'
    BY <2>1 DEF EndInServer, ServerCursorKnown
  <2>2. CASE cur' = cur /\ srvTx \subseteq srvTx'
    BY <2>2 DEF ServerCursorKnown
  <2>3. QED
    BY <2>1, <2>2
       DEF TransactionSteps, Begin, Commit, CommitRefused, Rollback, RollbackRefused,
           LetTransactionGo, reading
<1>4. QED
  BY <1>1, <1>2, <1>3, SameCursors DEF ServerCursorKnown, handles

(* The exchanges of prepare hand the handle on.                            *)
LEMMA HandlesOfPrepare ==
    ASSUME CursorInv, NEW s \in Stmt, PrepareSteps(s)
    PROVE  HandlesKept' /\ CursorHeld' /\ ServerCursorKnown'
<1> USE DEF CursorInv
<1> DEFINE Holds == HandlesKept' /\ CursorHeld' /\ ServerCursorKnown'
<1>1. s \notin Prepared \cup unfreed => cur[s] = NoCursor
  BY DEF CursorHeld
<1>2. CASE Allocate(s)
  <2>1. UNCHANGED <<txs, stmt, discarding, undescribed, unfreed, reading>>
        /\ srvStmt' = srvStmt \cup {s} /\ allocated' = {s} /\ s \notin srvStmt
        /\ allocated = {} /\ discarding = {} /\ Prepared' = Prepared
    BY <1>2 DEF Allocate, Ready, Prepared
  <2>2. HandlesKept'
    BY <2>1 DEF HandlesKept, TakenUp, LetGo
  <2>3. QED
    BY <2>1, <2>2, SameCursors DEF ServerCursorKnown, reading, txs
<1>3. ASSUME Preparing(s)
      PROVE  /\ UNCHANGED <<txs, srvStmt, unfreed, reading>>
             /\ allocated = {s} /\ discarding = {} /\ allocated' = {}
             /\ s \in srvStmt /\ s \notin Prepared \cup LetGo
  BY <1>3 DEF Preparing, HandlesKept, TakenUp
<1>4. CASE Prepare(s)
  <2>1. PICK k \in Kind : stmt' = [stmt EXCEPT ![s] = Fresh(k)]
    BY <1>4 DEF Prepare
  <2>2. Fresh(k) \in Statement
    BY EmptySeq DEF Fresh, Statement
  <2>3. Prepared' = Prepared \cup {s} /\ \A q \in Stmt \ {s} : stmt'[q] = stmt[q]
    BY <2>1, <2>2, Absent DEF Prepared, TypeOK
  <2>4. Preparing(s) /\ UNCHANGED <<discarding, undescribed>>
    BY <1>4 DEF Prepare
  <2>5. HandlesKept'
    BY <1>3, <2>3, <2>4 DEF HandlesKept, TakenUp, LetGo
  <2>6. cur[s] = NoCursor
    BY <1>1, <1>3, <2>4 DEF LetGo
  <2>7. CursorHeld' /\ ServerCursorKnown'
    BY <1>3, <2>3, <2>4, <2>6 DEF CursorHeld, ServerCursorKnown, reading, txs
  <2>8. QED
    BY <2>5, <2>7
<1>5. CASE PrepareUndescribed(s) \/ PrepareRefused(s)
  <2>1. Preparing(s) /\ stmt' = stmt /\ Prepared' = Prepared
    BY <1>5 DEF PrepareUndescribed, PrepareRefused, Prepared
  <2>2. HandlesKept'
    BY <1>3, <1>5, <2>1
       DEF PrepareUndescribed, PrepareRefused, HandlesKept, TakenUp, LetGo
  <2>3. QED
    BY <1>3, <2>1, <2>2, SameCursors DEF ServerCursorKnown, reading, txs
<1>6. CASE Discard(s) \/ DiscardRefused(s)
  <2>1. /\ s \in discarding /\ discarding' = {} /\ stmt' = stmt /\ Prepared' = Prepared
        /\ UNCHANGED <<txs, allocated, undescribed, reading>>
    BY <1>6 DEF Discard, DiscardRefused, Prepared
  <2>2. s \notin Prepared /\ s \notin unfreed /\ discarding = {s} /\ allocated = {}
    BY <2>1 DEF HandlesKept, TakenUp, LetGo
  <2>3. HandlesKept'
    BY <1>6, <2>1, <2>2 DEF Discard, DiscardRefused, HandlesKept, TakenUp, LetGo
  <2>4. /\ unfreed \subseteq unfreed'
        /\ \A q \in Stmt : q # s /\ q \in srvStmt => q \in srvStmt'
    BY <1>6 DEF Discard, DiscardRefused
  <2>5. cur[s] = NoCursor
    BY <1>1, <2>2
  <2>6. QED
    BY <2>1, <2>3, <2>4, <2>5, SameCursors DEF ServerCursorKnown, reading, txs
<1>7. QED
  BY <1>2, <1>4, <1>5, <1>6 DEF PrepareSteps

LEMMA HandlesOfStatements ==
    ASSUME CursorInv, NEW s \in Stmt, DropStatement(s) \/ LetStatementGo(s)
    PROVE  HandlesKept' /\ CursorHeld' /\ ServerCursorKnown'
<1> USE DEF CursorInv
<1>1. Consume(s) /\ s \in Prepared
  BY DEF DropStatement, LetStatementGo, Consume
<1>2. Prepared' = Prepared \ {s} /\ \A q \in Stmt \ {s} : stmt'[q] = stmt[q]
  BY <1>1 DEF Consume, Prepared, TypeOK
<1>3. UNCHANGED <<txs, allocated, discarding, undescribed>>
  BY <1>1 DEF Consume
<1>4. HandlesKept'
  BY <1>1, <1>2, <1>3 DEF DropStatement, LetStatementGo, HandlesKept, TakenUp, LetGo
<1>5. CASE DropStatement(s)
  <2>1. /\ srvStmt' = srvStmt \ {s} /\ unfreed' = unfreed
        /\ cur'[s] = NoCursor /\ \A q \in Stmt \ {s} : cur'[q] = cur[q]
    BY <1>5 DEF DropStatement, TypeOK
  <2>2. QED
    BY <1>2, <1>3, <1>4, <2>1 DEF CursorHeld, ServerCursorKnown, txs
<1>6. CASE LetStatementGo(s)
  BY <1>2, <1>3, <1>4, <1>6 DEF LetStatementGo, CursorHeld, ServerCursorKnown, txs
<1>7. QED
  BY <1>5, <1>6

(* The other calls: the handles stay, and s knows of its cursor.           *)
LEMMA CursorOfOne ==
    ASSUME CursorInv, NEW s \in Stmt, OnlyTouches(s),
           s \in Prepared, s \in Prepared', UNCHANGED <<txs, handles>>,
           cur'[s] # NoCursor => cur'[s].tx \in srvTx /\ stmt'[s].open
    PROVE  HandlesKept' /\ CursorHeld' /\ ServerCursorKnown'
<1> USE DEF CursorInv
<1>1. Prepared' = Prepared /\ s \in srvStmt
  BY DEF OnlyTouches, Prepared, HandlesKept
<1>2. HandlesKept'
  BY <1>1, SamePrepared
<1>3. QED
  BY <1>1, <1>2 DEF OnlyTouches, CursorHeld, ServerCursorKnown, txs, handles

LEMMA CursorInductive == CursorInv /\ [Next]_vars => CursorInv'
<1> SUFFICES ASSUME CursorInv, [Next]_vars
             PROVE  HandlesKept' /\ CursorHeld' /\ ServerCursorKnown'
  BY TypeInductive, TxKeptInductive DEF CursorInv
<1>0. TypeOK /\ ServerCursorKnown
  BY DEF CursorInv
<1>1. CASE UNCHANGED <<txs, stmt, handles, cur>>
  BY <1>1, SamePrepared, SameCursors
     DEF CursorInv, ServerCursorKnown, txs, handles, Prepared
<1>2. CASE ExchangeFails
  BY <1>1, <1>2 DEF ExchangeFails, IoError, AlienPacket, reading
<1>3. CASE Reconnect
  BY <1>3 DEF Reconnect, HandlesKept, TakenUp, LetGo, CursorHeld, ServerCursorKnown,
              Prepared
<1>4. ASSUME NEW s \in Stmt, Close(s)
      PROVE  HandlesKept' /\ CursorHeld' /\ ServerCursorKnown'
  <2>1. Idle(stmt[s]) \in Statement
    BY <1>0, <1>4, PreparedStatement, EmptySeq DEF Close, Idle, Statement
  <2>2. s \in Prepared /\ s \in Prepared'
    BY <1>0, <1>4, <2>1, Absent DEF Close, Prepared, TypeOK
  <2>3. cur'[s] = NoCursor /\ UNCHANGED <<txs, handles>>
    BY <1>0, <1>4 DEF Close, TypeOK
  <2>4. QED
    BY <1>0, <1>4, <2>2, <2>3, Touched, CursorOfOne
<1>5. ASSUME NEW s \in Stmt, NEW x \in Tx, Execute(s, x)
      PROVE  HandlesKept' /\ CursorHeld' /\ ServerCursorKnown'
  <2>1. x \in srvTx /\ UNCHANGED <<txs, handles>>
    BY <1>5 DEF Execute, CursorInv, TxKept, TxOwned
  <2>2. s \in Prepared => (stmt[s].open \/ cur[s] = NoCursor)
    BY <1>0 DEF ServerCursorKnown
  <2>3. cur'[s] # NoCursor => cur'[s].tx \in srvTx /\ stmt'[s].open
    BY <1>0, <1>5, <2>1, <2>2, ExecuteKeeps
  <2>4. QED
    BY <1>0, <1>5, <2>1, <2>3, Touched, ExecuteKeeps, CursorOfOne
<1>6. ASSUME NEW s \in Stmt, NEW p, cur[s] # NoCursor
      PROVE  [cur[s] EXCEPT !.pos = p].tx = cur[s].tx
  BY <1>0, <1>6 DEF TypeOK
<1>7. ASSUME NEW s \in Stmt, Fetch(s)
      PROVE  HandlesKept' /\ CursorHeld' /\ ServerCursorKnown'
  <2>1. UNCHANGED <<txs, handles>>
    BY <1>7 DEF Fetch, FetchBuffered, FetchBatch, FetchBatchFails, FetchEnd,
                FetchScrollRefused
  <2>2. cur'[s] = cur[s] \/ (cur[s] # NoCursor /\ cur'[s].tx = cur[s].tx)
    BY <1>0, <1>6, <1>7
       DEF Fetch, FetchBuffered, FetchBatch, FetchBatchFails, NeedsBatch, FetchEnd,
           FetchScrollRefused, TypeOK
  <2>3. QED
    BY <1>0, <1>7, <2>1, <2>2, Touched, FetchKeeps, CursorOfOne DEF ServerCursorKnown
<1>8. ASSUME NEW s \in Stmt, NEW m \in Move, FetchScroll(s, m)
      PROVE  HandlesKept' /\ CursorHeld' /\ ServerCursorKnown'
  <2>1. UNCHANGED <<txs, handles>> /\ cur[s] # NoCursor
        /\ cur' = [cur EXCEPT ![s] = [cur[s] EXCEPT !.pos = Landing(cur[s].pos, m)]]
    BY <1>8 DEF FetchScroll, Scrolled
  <2>2. cur'[s].tx = cur[s].tx
    BY <1>0, <1>6, <2>1 DEF TypeOK
  <2>3. QED
    BY <1>0, <1>8, <2>1, <2>2, Touched, ScrollKeeps, CursorOfOne DEF ServerCursorKnown
<1>9. CASE UNCHANGED vars
  BY <1>1, <1>9 DEF vars, reading
<1>10. QED
  BY <1>2, <1>3, <1>4, <1>5, <1>7, <1>8, <1>9, CursorsOfTransactions,
     HandlesOfPrepare, HandlesOfStatements DEF Next, Step

LEMMA CursorInitial == Init => CursorInv
<1>1. Init => Prepared = {}
  BY DEF Init, Prepared
<1>2. QED
  BY <1>1, InitTyped
     DEF Init, CursorInv, TxKept, TxOwned, HandlesKept, TakenUp, LetGo, CursorHeld,
         ServerCursorKnown

(***************************************************************************)
(* Every cursor of the server belongs to a live transaction, and its       *)
(* Statement, if the caller still has it, knows that it is open; so        *)
(* execute always closes before it opens.                                  *)
(***************************************************************************)
THEOREM CursorsKnown == Spec => []ServerCursorKnown
<1>1. CursorInv => ServerCursorKnown
  BY DEF CursorInv
<1>2. QED
  BY <1>1, CursorInitial, CursorInductive, PTL DEF Spec

(***************************************************************************)
(* Every statement handle of the server is that of a Statement or of a     *)
(* prepare under way, or its description did not parse, the caller let it  *)
(* go or the server refused to drop it: a refused prepare leaves none      *)
(* behind.                                                                 *)
(***************************************************************************)
THEOREM HandlesOwned == Spec => []StmtOwned
<1>1. CursorInv => StmtOwned
  BY DEF CursorInv, HandlesKept, TakenUp, LetGo, StmtOwned
<1>2. QED
  BY <1>1, CursorInitial, CursorInductive, PTL DEF Spec
==============================================================================
