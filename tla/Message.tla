------------------------------- MODULE Message --------------------------------
(* The row messages of src/src/message.rs: the parameters of a statement or  *)
(* of the rows of a Batch go out behind a bitmap of nulls, and the rows of a *)
(* cursor come back in the same form. The server knows where a value ends    *)
(* only from the BLR that src/src/blr.rs wrote for it.                       *)
(*                                                                           *)
(* Values and bytes are those of Xdr.                                        *)
EXTENDS Xdr

CONSTANTS ColumnLists,  \* the messages: sequences of [type, sub, length]
          Rows,         \* the rows callers pass: sequences of values
          MaxRows       \* bound of the exploration: rows in one buffer

VARIABLE msg    \* [path, charset, cols, buf, kept] of one message buffer

(* A column has one of the types of value.rs.                                *)
ColumnTypes ==
    {"SHORT", "LONG", "INT64", "INT128", "FLOAT", "DOUBLE", "TYPE_DATE", "TYPE_TIME",
     "TIMESTAMP", "BLOB", "QUAD", "ARRAY", "BOOLEAN", "NULL", "DEC16", "DEC34", "TIME_TZ",
     "TIMESTAMP_TZ", "TEXT", "VARYING", "unknown"}
ASSUME RowsAssumption == Rows \subseteq Seq(ValueSet)
ASSUME ColumnsAssumption ==
    ColumnLists \subseteq Seq([type : ColumnTypes, sub : Int, length : Nat])

-------------------------------------------------------------------------------
(* encode_value: what a column accepts, and the numbers it writes.           *)
Accepted ==
    [FLOAT |-> {"Float", "Double"}, DOUBLE |-> {"Float", "Double"},
     TYPE_DATE |-> {"Date", "Timestamp"}, TYPE_TIME |-> {"Time", "Timestamp"},
     TIMESTAMP |-> {"Timestamp"}, BOOLEAN |-> {"Bool"}, DEC34 |-> {"DecFloat"},
     BLOB |-> {"Blob"}, QUAD |-> {"Blob"}, ARRAY |-> {"Array"}, TIME_TZ |-> {"TimeTz"},
     TIMESTAMP_TZ |-> {"TimestampTz"}]

Fits(col, val, charset) ==
    \/ col.type = "SHORT" /\ AsI64(val) /\ val.v[1] <= 2
    \/ col.type = "LONG" /\ AsI64(val) /\ val.v[1] <= 4
    \/ col.type = "INT64" /\ AsI64(val)
    \/ col.type = "INT128" /\ (val.kind = "Int128" \/ AsI64(val))
    \/ /\ col.type \in {"TEXT", "VARYING"}
       /\ val.kind \in {"Text", "Bytes"}
       /\ Len(TextBytes(charset, val)) <= col.length
    \/ col.type = "DEC16" /\ val.kind = "DecFloat" /\ val.v[1] <= 16
    \/ col.type = "NULL"
    \/ col.type \in DOMAIN Accepted /\ val.kind \in Accepted[col.type]

Numbers(col, val) ==
    CASE col.type = "FLOAT" /\ val.kind = "Double" -> <<Rounded(val.v[1])>>
      [] col.type = "TYPE_DATE" -> <<val.v[1]>>
      [] col.type = "TYPE_TIME" -> <<val.v[Len(val.v)]>>
      [] col.type \in {"TIME_TZ", "TIMESTAMP_TZ"} -> Front(val.v)
      [] OTHER -> val.v
Width(type) ==
    CASE type \in {"INT64", "DOUBLE", "DEC16", "BLOB", "QUAD", "ARRAY"} -> 8
      [] type \in {"INT128", "DEC34"} -> 16
      [] type = "BOOLEAN" -> 1
      [] OTHER -> 4

encode_value(col, val, charset) ==
    LET bytes == TextBytes(charset, val)
    IN  CASE col.type = "VARYING" -> Word(Len(bytes), 4) \o bytes \o Pad(Len(bytes))
          [] col.type = "TEXT" ->
                bytes \o Blanks(col.length - Len(bytes)) \o Pad(col.length)
          [] col.type = "NULL" -> Zeros(col.length) \o Pad(col.length)
          [] OTHER -> Words(Numbers(col, val), Width(col.type))

null_bitmap_len(n) == align4((n + 7) \div 8)
NullBit(row, i) == IF i \in 1..Len(row) /\ IsNull(row[i]) THEN 1 ELSE 0
NullBits(row, b) ==
    LET Bit(k) == NullBit(row, 8 * (b - 1) + k)
    IN  Bit(1) + 2 * Bit(2) + 4 * Bit(3) + 8 * Bit(4) + 16 * Bit(5) + 32 * Bit(6) + 64 * Bit(7)
        + 128 * Bit(8)
Bitmap(row) == [b \in 1..null_bitmap_len(Len(row)) |-> ByteOf(NullBits(row, b), 1, 1)]

(* The values of a row go out one by one, up to the first that is refused.   *)
RefusedAt(cols, row, charset) ==
    {i \in 1..Len(cols) : ~IsNull(row[i]) /\ ~Fits(cols[i], row[i], charset)}
RowUpTo(cols, row, charset, n) ==
    Bitmap(row) \o FlattenSeq([i \in 1..n |->
        IF IsNull(row[i]) THEN <<>> ELSE encode_value(cols[i], row[i], charset)])

(* Mutant: the partial message of a refused row stays in the buffer.         *)
EncodeRowIntoPartially(out, cols, row, charset) ==
    LET refused == RefusedAt(cols, row, charset)
        written == IF refused = {} THEN Len(cols) ELSE Min(refused) - 1
    IN  [out |-> out \o RowUpTo(cols, row, charset, written), ok |-> refused = {}]

(* encode_row_values_into: appends the row, or leaves out as it was.         *)
EncodeRowInto(out, cols, row, charset) ==
    LET refused == RefusedAt(cols, row, charset)
        start == Len(out)
        written == IF refused = {} THEN Len(cols) ELSE Min(refused) - 1
        all == out \o RowUpTo(cols, row, charset, written)
    IN  IF refused = {} THEN [out |-> all, ok |-> TRUE]
        ELSE [out |-> SubSeq(all, 1, start), ok |-> FALSE]

-------------------------------------------------------------------------------
(* The BLR of a message: one descriptor per column. Execute declares its     *)
(* parameters with input_blr, a Batch with message_blr, the form of output.  *)
BlrOf ==
    [SHORT |-> "short", LONG |-> "long", INT64 |-> "int64", INT128 |-> "int128",
     FLOAT |-> "float", DOUBLE |-> "double", TYPE_DATE |-> "sql_date",
     TYPE_TIME |-> "sql_time", TIMESTAMP |-> "timestamp", BLOB |-> "blob2",
     BOOLEAN |-> "bool", DEC16 |-> "dec64", DEC34 |-> "dec128"]
PushType(col, forOutput) ==
    LET Plain(d) == [dtype |-> d, length |-> 0]
    IN  CASE col.type \in {"TEXT", "NULL"} -> [dtype |-> "text", length |-> col.length]
          [] col.type = "VARYING" -> [dtype |-> "varying", length |-> col.length]
          [] col.type = "TIME_TZ" -> Plain(IF forOutput THEN "ex_time_tz" ELSE "time_tz")
          [] col.type = "TIMESTAMP_TZ" ->
                Plain(IF forOutput THEN "ex_timestamp_tz" ELSE "timestamp_tz")
          [] col.type \in DOMAIN BlrOf -> Plain(BlrOf[col.type])
          [] OTHER -> Plain("quad")
message_blr(cols) == [i \in 1..Len(cols) |-> PushType(cols[i], TRUE)]
input_blr(cols) == [i \in 1..Len(cols) |-> PushType(cols[i], FALSE)]
DeclaredBlr == IF msg.path = "batch" THEN message_blr(msg.cols) ELSE input_blr(msg.cols)

(* The server's reader of a message, from the BLR alone.                     *)
WireWords(dtype) ==
    CASE dtype = "bool" -> [count |-> 1, width |-> 1]
      [] dtype \in {"short", "long", "float", "sql_date", "sql_time"} -> [count |-> 1, width |-> 4]
      [] dtype \in {"int64", "double", "dec64", "blob2", "quad"} -> [count |-> 1, width |-> 8]
      [] dtype \in {"int128", "dec128"} -> [count |-> 1, width |-> 16]
      [] dtype \in {"timestamp", "time_tz"} -> [count |-> 2, width |-> 4]
      [] dtype \in {"timestamp_tz", "ex_time_tz"} -> [count |-> 3, width |-> 4]
      [] OTHER -> [count |-> 4, width |-> 4]
ReadByBlr(buf, pos, d) ==
    CASE d.dtype = "text" -> ReadText(buf, pos, d.length)
      [] d.dtype = "varying" -> ReadVarying(buf, pos)
      [] OTHER -> ReadWords(buf, pos, WireWords(d.dtype).count, WireWords(d.dtype).width)

NullMark == << -7 >>
BitValue == <<1, 2, 4, 8, 16, 32, 64, 128>>
BitSet(buf, start, i) ==
    (ReadWord(At(buf, start + (i - 1) \div 8, 1)) \div BitValue[((i - 1) % 8) + 1]) % 2 = 1
SrvReadRow(buf, start, blr) ==
    LET n == Len(blr)
        next[i \in 0..n] ==        \* where the value of column i ends
            IF i = 0 THEN start + null_bitmap_len(n)
            ELSE IF BitSet(buf, start, i) THEN next[i - 1]
            ELSE ReadByBlr(buf, next[i - 1], blr[i]).next
    IN  [row |-> [i \in 1..n |-> IF BitSet(buf, start, i) THEN NullMark
                                  ELSE ReadByBlr(buf, next[i - 1], blr[i]).v],
         next |-> next[n]]
SrvReadRows(buf, blr, count) ==
    LET next[r \in 0..count] == IF r = 0 THEN 0 ELSE SrvReadRow(buf, next[r - 1], blr).next
    IN  [rows |-> [r \in 1..count |-> SrvReadRow(buf, next[r - 1], blr).row],
         next |-> next[count]]

-------------------------------------------------------------------------------
(* decode_row: the client's reader of the rows of a cursor.                  *)
KindOf == [SHORT |-> "Short", LONG |-> "Int", INT64 |-> "BigInt", INT128 |-> "Int128",
           DEC16 |-> "DecFloat", DEC34 |-> "DecFloat", FLOAT |-> "Float",
           DOUBLE |-> "Double", TYPE_DATE |-> "Date", TYPE_TIME |-> "Time",
           TIMESTAMP |-> "Timestamp", BLOB |-> "Blob", QUAD |-> "Blob",
           ARRAY |-> "Array", BOOLEAN |-> "Bool", TIME_TZ |-> "TimeTz",
           TIMESTAMP_TZ |-> "TimestampTz"]
xdr_len(col) ==
    CASE col.type \in {"TEXT", "NULL"} -> align4(col.length)
      [] col.type = "VARYING" -> 4 + align4(col.length)
      [] col.type = "TIMESTAMP" -> 8
      [] col.type = "TIME_TZ" -> 12
      [] col.type = "TIMESTAMP_TZ" -> 16
      [] col.type = "unknown" -> 8
      [] OTHER -> align4(Width(col.type))

text_or_bytes(col, raw) ==
    IF col.sub = 1 THEN [kind |-> "Bytes", v |-> raw]
    ELSE [kind |-> "Text",
          v |-> IF col.type = "TEXT" THEN TrimEnd(DecodedText(raw)) ELSE DecodedText(raw)]
ClientWords(type) ==
    CASE type = "TIMESTAMP" -> 2 [] type = "TIME_TZ" -> 3 [] type = "TIMESTAMP_TZ" -> 4
      [] OTHER -> 1
decode_value(buf, pos, col) ==
    CASE col.type = "TEXT" -> LET t == ReadText(buf, pos, col.length)
                              IN  [val |-> text_or_bytes(col, t.v), next |-> t.next]
      [] col.type = "VARYING" -> LET t == ReadVarying(buf, pos)
                                 IN  [val |-> text_or_bytes(col, t.v), next |-> t.next]
      [] col.type = "NULL" -> [val |-> NullValue,
                               next |-> pos + align4(col.length)]
      [] col.type \in DOMAIN KindOf ->
            LET w == ReadWords(buf, pos, ClientWords(col.type), Width(col.type))
            IN  [val |-> [kind |-> KindOf[col.type], v |-> Units(w.v)], next |-> w.next]
      [] OTHER -> [val |-> [kind |-> "Bytes", v |-> At(buf, pos, xdr_len(col))],
                   next |-> pos + xdr_len(col)]
decode_row(buf, cols) ==
    LET n == Len(cols)
        next[i \in 0..n] ==
            IF i = 0 THEN null_bitmap_len(n)
            ELSE IF BitSet(buf, 0, i) THEN next[i - 1]
            ELSE decode_value(buf, next[i - 1], cols[i]).next
    IN  [row |-> [i \in 1..n |-> IF BitSet(buf, 0, i) THEN NullValue
                                  ELSE decode_value(buf, next[i - 1], cols[i]).val],
         next |-> next[n]]

-------------------------------------------------------------------------------
(* message_buffer_len against the layout a server derives from the BLR.      *)
AlignUp(n, a) == ((n + a - 1) \div a) * a
type_size_align(col) ==
    CASE col.type \in {"TEXT", "NULL"} -> <<col.length, 1>>
      [] col.type = "VARYING" -> <<col.length + 2, 2>>
      [] col.type = "SHORT" -> <<2, 2>>
      [] col.type \in {"LONG", "FLOAT", "TYPE_DATE", "TYPE_TIME"} -> <<4, 4>>
      [] col.type \in {"TIMESTAMP", "BLOB", "QUAD", "ARRAY"} -> <<8, 4>>
      [] col.type \in {"INT128", "DEC34"} -> <<16, 8>>
      [] col.type = "BOOLEAN" -> <<1, 1>>
      [] col.type = "TIME_TZ" -> <<6, 4>>
      [] col.type = "TIMESTAMP_TZ" -> <<10, 4>>
      [] OTHER -> <<8, 8>>
(* Every field on its alignment, then the two bytes of its null indicator.   *)
Laid(fields) ==
    LET off[i \in 0..Len(fields)] ==
            IF i = 0 THEN 0
            ELSE AlignUp(AlignUp(off[i - 1], fields[i][2]) + fields[i][1], 2) + 2
    IN  off[Len(fields)]
message_buffer_len(cols) == Laid([i \in 1..Len(cols) |-> type_size_align(cols[i])])
SrvFieldSize(d) ==
    CASE d.dtype = "text" -> d.length [] d.dtype = "varying" -> d.length + 2
      [] d.dtype = "bool" -> 1 [] d.dtype = "short" -> 2
      [] OTHER -> WireWords(d.dtype).count * WireWords(d.dtype).width
SrvFieldAlign(d) ==
    CASE d.dtype \in {"text", "bool"} -> 1 [] d.dtype \in {"varying", "short"} -> 2
      [] d.dtype \in {"int64", "double", "dec64", "int128", "dec128"} -> 8
      [] OTHER -> 4
SrvMessageLen(blr) ==
    Laid([i \in 1..Len(blr) |-> << SrvFieldSize(blr[i]), SrvFieldAlign(blr[i]) >>])

-------------------------------------------------------------------------------
(* A statement's parameters, or a Batch: add after add into one buffer. The  *)
(* buffer of an execute holds one row.                                       *)
MessageInit ==
    \E path \in {"execute", "batch"}, charset \in Charsets, cols \in ColumnLists :
        msg = [path |-> path, charset |-> charset, cols |-> cols, buf |-> <<>>, kept |-> <<>>]

Add(row) ==
    /\ Len(msg.kept) < (IF msg.path = "batch" THEN MaxRows ELSE 1)
    /\ Len(row) = Len(msg.cols)
    /\ LET r == EncodeRowInto(msg.buf, msg.cols, row, msg.charset)
       IN  msg' = [msg EXCEPT !.buf = r.out,
                              !.kept = IF r.ok THEN Append(@, row) ELSE @]

MessageNext == \E row \in Rows : Add(row)
MessageSpec == MessageInit /\ [][MessageNext]_msg

-------------------------------------------------------------------------------
(* Reference: what the server should hold for a value, by the column.        *)
OffsetOf(zone) == zone + 3
Held(col, val, charset) ==
    LET text == TextBytes(charset, val)
    IN  IF IsNull(val) THEN NullMark
        ELSE CASE col.type = "TEXT" -> text \o Blanks(col.length - Len(text))
               [] col.type = "VARYING" -> text
               [] col.type = "NULL" -> Zeros(col.length)
               [] OTHER -> [i \in 1..Len(Numbers(col, val)) |-> Whole(Numbers(col, val)[i])]

HasZone(cols) == \E i \in 1..Len(cols) : cols[i].type \in {"TIME_TZ", "TIMESTAMP_TZ"}
(* A type the crate has no name for: its size and alignment are a guess.     *)
HasUnknown(cols) == \E i \in 1..Len(cols) : cols[i].type = "unknown"
ServerSeesRows ==
    msg.kept # <<>> =>
        LET read == SrvReadRows(msg.buf, DeclaredBlr, Len(msg.kept))
        IN  /\ read.next = Len(msg.buf)
            /\ \/ HasZone(msg.cols) \/ HasUnknown(msg.cols)
               \/ message_buffer_len(msg.cols) = SrvMessageLen(DeclaredBlr)
            /\ read.rows = [r \in 1..Len(msg.kept) |->
                               [i \in 1..Len(msg.cols) |->
                                   Held(msg.cols[i], msg.kept[r][i], msg.charset)]]

(* The server's row of a cursor: the value held, the offset of a zone with   *)
(* it, in the order of the output BLR.                                       *)
SrvItem(col, val, charset) ==
    CASE col.type \in {"TEXT", "VARYING", "NULL"} -> encode_value(col, val, charset)
      [] col.type \in {"TIME_TZ", "TIMESTAMP_TZ"} ->
            Words(Append(Numbers(col, val), OffsetOf(Last(Numbers(col, val)))), 4)
      [] OTHER -> Words(Numbers(col, val), Width(col.type))
SrvRow(cols, row, charset) ==
    Bitmap(row) \o FlattenSeq([i \in 1..Len(cols) |->
        IF IsNull(row[i]) THEN <<>> ELSE SrvItem(cols[i], row[i], charset)])

(* What the caller should find in the row of a cursor for what it put in.    *)
Returned(col, val, charset) ==
    IF IsNull(val) \/ col.type = "NULL" THEN NullValue
    ELSE CASE col.type \in {"TEXT", "VARYING"} /\ col.sub = 1 ->
                [kind |-> "Bytes", v |-> Held(col, val, charset)]
           [] col.type = "TEXT" /\ col.sub # 1 -> [kind |-> "Text", v |-> TrimEnd(val.v)]
           [] col.type = "VARYING" /\ col.sub # 1 -> [kind |-> "Text", v |-> val.v]
           [] col.type \in {"TIME_TZ", "TIMESTAMP_TZ"} ->
                [kind |-> val.kind, v |-> Append(Front(val.v), OffsetOf(Last(Front(val.v))))]
           [] OTHER -> [kind |-> KindOf[col.type], v |-> Numbers(col, val)]
CallerSeesRows ==
    \A r \in 1..Len(msg.kept) :
        LET back == SrvRow(msg.cols, msg.kept[r], msg.charset)
            read == decode_row(back, msg.cols)
        IN  /\ read.next = Len(back)
            /\ read.row = [i \in 1..Len(msg.cols) |->
                              Returned(msg.cols[i], msg.kept[r][i], msg.charset)]

(* The rows a buffer carries are the rows that were accepted, each value in  *)
(* its column, for the server that reads them by the BLR declared for the    *)
(* message and for the client that reads them back from a cursor; a row that *)
(* is refused half way (a wrong kind, a number or a text too wide) leaves no *)
(* byte behind. Columns with a time zone in a Batch are left out: see        *)
(* BatchZonesArrive. encode_row_values_into, decode_row, blr.rs.             *)
RowsArrive ==
    /\ (msg.path = "batch" /\ HasZone(msg.cols)) \/ ServerSeesRows
    /\ CallerSeesRows

(* A value WITH TIME ZONE travels as UTC and zone, and the server resolves   *)
(* the offset (message.rs, on the parameters of these types, and input_blr): *)
(* so it should be for the rows of a Batch.                                  *)
BatchZonesArrive == (msg.path = "batch" /\ HasZone(msg.cols)) => ServerSeesRows
==============================================================================
