------------------------------- MODULE Answers --------------------------------
(* How the answers of the server are read: the description of a prepared     *)
(* statement and its row counts (src/src/statement.rs), the items of the     *)
(* service manager (src/src/service.rs), the outcome of a Batch              *)
(* (src/src/batch.rs), the segments of a BLOB (src/src/blob.rs) and the      *)
(* status vector with the message made of it (src/src/error.rs).             *)
(*                                                                           *)
(* An info answer is a sequence of bytes that the server cuts where the      *)
(* client's buffer ends. Names and codes are small numbers; lengths and      *)
(* integers are bytes, least significant first, two of them.                 *)
EXTENDS Integers, Sequences, SequencesExt, FiniteSetsExt

CONSTANTS Descriptions,  \* prepared statements: [type, params, columns]
          Rooms,         \* sizes of the client's info buffer that are explored
          RowCounts,     \* [selected, inserted, updated, deleted]
          SvcTexts,      \* values of a service's string items
          Outcomes,      \* of a Batch: [counts, detailed], -1 for a failure
          SegmentLists,  \* the segments of a get_segment answer
          Vectors        \* status vectors: sequences of [arg, v]

VARIABLE ans    \* [kind, sent, room, read, got] of one answer

-------------------------------------------------------------------------------
(* Bytes: info items, and the loop all the parsers share.                    *)
END == 1
TRUNCATED == 2
LE(n) == <<(n + 65536) % 256, ((n + 65536) \div 256) % 256>>
read_le_int(b) == FoldRight(LAMBDA x, acc : acc * 256 + x, b, 0)
read_le_int_signed(b) ==
    IF b # <<>> /\ Last(b) >= 128 THEN read_le_int(b) - 256 ^ Len(b) ELSE read_le_int(b)
Item(tag, val) == <<tag>> \o LE(Len(val)) \o val
Loop(Step(_), start, n) == FoldLeft(LAMBDA acc, i : IF acc.stop THEN acc ELSE Step(acc),
                                    start, [i \in 1..n |-> i])
TagAt(data, i) == IF i <= Len(data) THEN data[i] ELSE 0

(* The server's side: whole items as long as they fit, then the end or the   *)
(* mark of truncation.                                                       *)
Rendered(items, room) ==
    LET Upto(k) == FlattenSeq(SubSeq(items, 1, k))
        fits == Max({k \in 0..Len(items) : k = 0 \/ Len(Upto(k)) < room})
    IN  Append(Upto(fits), IF fits = Len(items) THEN END ELSE TRUNCATED)

-------------------------------------------------------------------------------
(* The description of a prepared statement: tags of isc_info_sql_*.          *)
isql == [SELECT |-> 4, BIND |-> 5, DESCRIBE_VARS |-> 7, DESCRIBE_END |-> 8, SQLDA_SEQ |-> 9,
         TYPE |-> 11, SUB_TYPE |-> 12, SCALE |-> 13, LENGTH |-> 14, FIELD |-> 16, RELATION |-> 17,
         OWNER |-> 18, ALIAS |-> 19, STMT_TYPE |-> 21, RECORDS |-> 23]

SrvColumn(c, i) ==
    <<Item(isql.SQLDA_SEQ, LE(i)), Item(isql.TYPE, LE(c.type)), Item(isql.SUB_TYPE, LE(c.sub)),
      Item(isql.SCALE, LE(c.scale)), Item(isql.LENGTH, LE(c.length)), Item(isql.FIELD, c.field),
      Item(isql.RELATION, <<>>), Item(isql.ALIAS, c.alias), Item(isql.OWNER, <<>>), << isql.DESCRIBE_END >> >>
SrvBlock(tag, cols) ==
    << << tag >>, Item(isql.DESCRIBE_VARS, LE(Len(cols)))>>
    \o FlattenSeq([i \in 1..Len(cols) |-> SrvColumn(cols[i], i)])
SrvPrepare(d) ==
    <<Item(isql.STMT_TYPE, LE(d.type))>> \o SrvBlock(isql.BIND, d.params) \o SrvBlock(isql.SELECT, d.columns)

NoColumn == [index |-> -1, type |-> 0, sub |-> 0, scale |-> 0, length |-> 0,
             nullable |-> FALSE, field |-> <<>>, alias |-> <<>>]
apply_info_item(acc, tag, val) ==
    IF tag = isql.STMT_TYPE THEN [acc EXCEPT !.type = read_le_int(val)]
    ELSE IF tag = isql.SQLDA_SEQ THEN [acc EXCEPT !.cur = [NoColumn EXCEPT
                                      !.index = Max({0, read_le_int(val) - 1})]]
    ELSE IF acc.cur = NoColumn THEN acc
    ELSE [acc EXCEPT !.cur =
        CASE tag = isql.TYPE -> [@ EXCEPT !.type = read_le_int(val),
                                     !.nullable = read_le_int(val) % 2 = 1]
          [] tag = isql.SUB_TYPE -> [@ EXCEPT !.sub = read_le_int_signed(val)]
          [] tag = isql.SCALE -> [@ EXCEPT !.scale = read_le_int_signed(val)]
          [] tag = isql.LENGTH -> [@ EXCEPT !.length = read_le_int(val)]
          [] tag = isql.FIELD -> [@ EXCEPT !.field = val]
          [] tag = isql.ALIAS -> [@ EXCEPT !.alias = val]
          [] OTHER -> @]

DescribeEnds(acc) ==
    LET next == [acc EXCEPT !.i = @ + 1, !.cur = NoColumn]
    IN  IF acc.cur = NoColumn \/ acc.block = 0 THEN next
        ELSE IF acc.block = isql.BIND THEN [next EXCEPT !.params = Append(@, acc.cur)]
        ELSE [next EXCEPT !.columns = Append(@, acc.cur)]

(* Mutant: what came before the mark of truncation is taken as the whole.    *)
TruncationTolerant(acc) == [acc EXCEPT !.stop = TRUE]

(* What a truncated description does: refused as a whole.                    *)
Truncation(acc) == [acc EXCEPT !.stop = TRUE, !.ok = FALSE]

parse_prepare_response(data) ==
    LET Step(acc) ==
            LET i == acc.i
                tag == TagAt(data, i)
                len == read_le_int(SubSeq(data, i + 1, i + 2))
            IN  IF i > Len(data) \/ tag = END THEN [acc EXCEPT !.stop = TRUE]
                ELSE IF tag = TRUNCATED THEN Truncation(acc)
                ELSE IF tag \in {isql.SELECT, isql.BIND} THEN [acc EXCEPT !.i = i + 1, !.block = tag]
                ELSE IF tag = isql.DESCRIBE_END THEN DescribeEnds(acc)
                ELSE IF i + 2 > Len(data) \/ i + 2 + len > Len(data)
                THEN [acc EXCEPT !.stop = TRUE, !.ok = FALSE]
                ELSE apply_info_item([acc EXCEPT !.i = i + 3 + len], tag,
                                     SubSeq(data, i + 3, i + 2 + len))
        all == Loop(Step, [stop |-> FALSE, ok |-> TRUE, i |-> 1, type |-> 0, block |-> 0,
                           cur |-> NoColumn, params |-> <<>>, columns |-> <<>>], Len(data) + 1)
    IN  IF all.ok THEN [type |-> all.type, params |-> all.params, columns |-> all.columns]
        ELSE [type |-> -1, params |-> <<>>, columns |-> <<>>]

(* ColumnMeta::name, what Row looks columns up by.                           *)
name(c) == IF c.alias = <<>> THEN c.field ELSE c.alias

-------------------------------------------------------------------------------
(* The counts of isc_info_sql_records, through InfoItems; the client's       *)
(* buffer is a constant there.                                               *)
RECORDS_BUFFER_LEN == 64
Counters == <<13, 14, 15, 16>>     \* select, insert, update, delete
SrvRecords(c) ==
    << Item(isql.RECORDS, FlattenSeq([k \in 1..4 |-> Item(Counters[k], LE(c[k]))] \o << << END >> >>)) >>
InfoItems(data) ==
    LET Step(acc) ==
            LET len == read_le_int(SubSeq(data, acc.i + 1, acc.i + 2))
                end == acc.i + 2 + len
            IN  IF acc.i + 2 > Len(data) \/ TagAt(data, acc.i) = END \/ end > Len(data)
                THEN [acc EXCEPT !.stop = TRUE]
                ELSE [acc EXCEPT !.i = end + 1,
                                 !.items = Append(@, <<data[acc.i], SubSeq(data, acc.i + 3, end)>>)]
    IN  Loop(Step, [stop |-> FALSE, i |-> 1, items |-> <<>>], Len(data)).items
Counted(counts, item) ==
    [k \in 1..4 |-> IF item[1] = Counters[k] THEN read_le_int(item[2]) ELSE counts[k]]
parse_records(data) ==
    FoldLeft(LAMBDA counts, item : IF item[1] = isql.RECORDS
                                   THEN FoldLeft(Counted, counts, InfoItems(item[2])) ELSE counts,
             <<0, 0, 0, 0>>, InfoItems(data))

(* The items of the service manager: strings with a length, integers         *)
(* without one. An answer that is empty is the end of an output.             *)
LINE == 62
VERSION == 54
Complete(data) == data = <<>> \/ Last(data) # TRUNCATED
info_payload(data) == IF data # <<>> /\ Last(data) = END THEN Front(data) ELSE data
Refused == << -1 >>
parse_svc_string(data) ==
    LET p == info_payload(data)
        len == read_le_int(SubSeq(p, 2, 3))
    IN  IF ~Complete(data) THEN Refused
        ELSE IF p = <<>> THEN <<>>
        ELSE IF Len(p) < 3 \/ 3 + len > Len(p) \/ p[1] # LINE THEN Refused
        ELSE SubSeq(p, 4, 3 + len)
parse_svc_int(data) ==
    LET p == info_payload(data)
    IN  IF ~Complete(data) \/ Len(p) < 3 \/ p[1] # VERSION THEN Refused
        ELSE << read_le_int(SubSeq(p, 2, 3)) >>

-------------------------------------------------------------------------------
(* op_batch_cs: counts by row, the errors that come with a status vector, up *)
(* to the number asked for, and the rest as bare positions.                  *)
FAILED == -1
Failures(o) == SetToSortSeq({p \in 1..Len(o.counts) : o.counts[p] = FAILED}, <)
SrvBatchCs(o) ==
    LET k == Min({o.detailed, Len(Failures(o))})
    IN  [total |-> Len(o.counts), updates |-> o.counts,
         vectors |-> SubSeq(Failures(o), 1, k), errors |-> SubSeq(Failures(o), k + 1, Len(Failures(o)))]
read_batch_cs(cs) ==
    LET detailed == [i \in 1..Len(cs.vectors) |-> [index |-> cs.vectors[i], detail |-> TRUE]]
        Bare(list, pos) == IF \E i \in 1..Len(list) : list[i].index = pos THEN list
                           ELSE Append(list, [index |-> pos, detail |-> FALSE])
    IN  [total |-> cs.total, update_counts |-> cs.updates,
         errors |-> FoldLeft(Bare, detailed, cs.errors)]
all_succeeded(r) == r.errors = <<>> /\ ~Contains(r.update_counts, FAILED)
total_affected(r) == FoldLeft(LAMBDA n, c : IF c >= 0 THEN n + c ELSE n, 0, r.update_counts)

(* The segments of op_get_segment, each behind its length.                   *)
unpack_segments(data) ==
    LET Step(acc) ==
            LET end == Min({Len(data), acc.i + 1 + read_le_int(SubSeq(data, acc.i, acc.i + 1))})
            IN  IF acc.i + 1 > Len(data) THEN [acc EXCEPT !.stop = TRUE]
                ELSE [acc EXCEPT !.i = end + 1, !.out = @ \o SubSeq(data, acc.i + 2, end)]
    IN  Loop(Step, [stop |-> FALSE, i |-> 1, out |-> <<>>], Len(data)).out

-------------------------------------------------------------------------------
(* Status vectors. An argument of the kinds "str" and "number" fills a       *)
(* marker; texts are sequences of numbers, a negative one a marker @n.       *)
Templates == [c \in {335, 336} |-> IF c = 335 THEN <<70, -1, 71, -2>> ELSE <<80, -1>>]
gds_template(code) == IF code \in DOMAIN Templates THEN Templates[code] ELSE <<>>
gds_code(v) ==
    LET codes == {i \in 1..Len(v) : v[i].arg = "gds" /\ v[i].v # <<0>>}
    IN  IF codes = {} THEN 0 ELSE v[Min(codes)].v[1]
Value(arg) == arg.arg \in {"number", "str"}

Replaced(text, marker, value) ==
    FlattenSeq([i \in 1..Len(text) |-> IF text[i] = marker THEN value ELSE << text[i] >>])
fill_template(template, fill) ==
    FoldLeft(LAMBDA out, k : Replaced(out, -k, fill[k]),
             template, Reverse([k \in 1..Min({9, Len(fill)}) |-> k]))

Joined(parts, sep) ==
    FoldLeft(LAMBDA out, p : IF out = <<>> THEN p ELSE out \o << sep >> \o p, <<>>, parts)
SPACE == 32
SEMICOLON == 59
Formatted(code, fill) ==
    IF gds_template(code) # <<>> THEN << fill_template(gds_template(code), fill) >>
    ELSE IF fill # <<>> THEN << Joined(fill, SPACE) >> ELSE <<>>
Interpreted(v) ==
    FoldLeft(LAMBDA out, a : IF a.arg = "interpreted" /\ a.v # <<>> THEN Append(out, a.v) ELSE out,
             <<>>, v)

(* The loop over the vector: the values that follow a code are its own.      *)
message(v) ==
    LET Flush(acc) == IF acc.code = 0 THEN acc
                      ELSE [acc EXCEPT !.parts = @ \o Formatted(acc.code, acc.fill),
                                       !.code = 0, !.fill = <<>>]
        Step(acc, a) ==
            IF a.arg = "gds" /\ a.v # <<0>> THEN [Flush(acc) EXCEPT !.code = a.v[1]]
            ELSE IF ~Value(a) THEN Flush(acc)
            ELSE IF acc.code # 0 THEN [acc EXCEPT !.fill = Append(@, a.v)]
            ELSE [acc EXCEPT !.left = Append(@, a.v)]
        all == Flush(FoldLeft(Step, [code |-> 0, fill |-> <<>>, parts |-> <<>>, left |-> <<>>], v))
        parts == all.parts \o Interpreted(v)
    IN  IF parts # <<>> THEN Joined(parts, SEMICOLON)
        ELSE IF all.left # <<>> THEN Joined(all.left, SEMICOLON)
        ELSE << gds_code(v) >>

-------------------------------------------------------------------------------
AnswersInit ==
    \E kind \in {"prepare", "records", "line", "version", "batch", "segments", "status"} :
    \E sent \in CASE kind = "prepare" -> Descriptions [] kind = "records" -> RowCounts
                  [] kind = "line" -> SvcTexts [] kind = "version" -> {<<1>>, <<2>>}
                  [] kind = "batch" -> Outcomes [] kind = "segments" -> SegmentLists
                  [] OTHER -> Vectors :
    \E room \in CASE kind \in {"prepare", "line"} -> Rooms
                  [] kind = "records" -> {RECORDS_BUFFER_LEN} [] OTHER -> {0} :
        ans = [kind |-> kind, sent |-> sent, room |-> room, read |-> FALSE, got |-> <<>>]

(* The answer arrives and is read.                                           *)
ReadAnswer ==
    /\ ~ans.read
    /\ ans' = [ans EXCEPT !.read = TRUE, !.got =
          CASE ans.kind = "prepare" -> parse_prepare_response(Rendered(SrvPrepare(ans.sent), ans.room))
            [] ans.kind = "records" -> parse_records(Rendered(SrvRecords(ans.sent), ans.room))
            [] ans.kind = "line" -> parse_svc_string(Rendered(<<Item(LINE, ans.sent)>>, ans.room))
            [] ans.kind = "version" -> parse_svc_int(<<VERSION>> \o LE(ans.sent[1]) \o << END >>)
            [] ans.kind = "batch" -> read_batch_cs(SrvBatchCs(ans.sent))
            [] ans.kind = "segments" ->
                  unpack_segments(FlattenSeq([i \in 1..Len(ans.sent) |->
                                                 LE(Len(ans.sent[i])) \o ans.sent[i]]))
            [] OTHER -> message(ans.sent)]

-------------------------------------------------------------------------------
(* Reference definitions                                                     *)
ColumnOf(c, i) ==
    [index |-> i - 1, type |-> c.type, sub |-> c.sub, scale |-> c.scale, length |-> c.length,
     nullable |-> c.type % 2 = 1, field |-> c.field, alias |-> c.alias]
ColumnsOf(cols) == [i \in 1..Len(cols) |-> ColumnOf(cols[i], i)]
WholeIn(items) == Len(FlattenSeq(items)) < ans.room

PrepareUnderstood ==
    IF ans.got.type = -1 THEN ~WholeIn(SrvPrepare(ans.sent))
    ELSE ans.got = [type |-> ans.sent.type, params |-> ColumnsOf(ans.sent.params),
                    columns |-> ColumnsOf(ans.sent.columns)]

BatchUnderstood ==
    LET failed == {p \in 1..Len(ans.sent.counts) : ans.sent.counts[p] = FAILED}
        Reported(d) == {ans.got.errors[i].index : i \in {j \in 1..Len(ans.got.errors) :
                                                            ans.got.errors[j].detail = d}}
    IN  /\ Reported(TRUE) \cup Reported(FALSE) = failed
        /\ Len(ans.got.errors) = Cardinality(failed)
        /\ \A p \in Reported(TRUE), q \in Reported(FALSE) : p < q
        /\ all_succeeded(ans.got) <=> failed = {}
        /\ total_affected(ans.got) =
               MapThenSumSet(LAMBDA p : ans.sent.counts[p],
                             {p \in 1..Len(ans.sent.counts) : ans.sent.counts[p] > 0})

(* The message: every code's template with its own values in the place of    *)
(* its markers, each marker once.                                            *)
Filled(code, fill) ==
    LET t == gds_template(code)
    IN  IF t = <<>> THEN Joined(fill, SPACE)
        ELSE FlattenSeq([i \in 1..Len(t) |->
                IF t[i] < 0 /\ -t[i] <= Len(fill) THEN fill[-t[i]] ELSE << t[i] >>])
Own(v, i) ==
    LET last == Max({j \in i..Len(v) : \A k \in (i + 1)..j : Value(v[k])})
    IN  [k \in 1..(last - i) |-> v[i + k].v]
StatusUnderstood ==
    LET v == ans.sent
        codes == SetToSortSeq({i \in 1..Len(v) : v[i].arg = "gds" /\ v[i].v # <<0>>}, <)
        said == SelectSeq([c \in 1..Len(codes) |-> Filled(v[codes[c]].v[1], Own(v, codes[c]))]
                          \o Interpreted(v), LAMBDA p : p # <<>>)
    IN  said # <<>> => ans.got = Joined(said, SEMICOLON)

(* What the client makes of an answer is what the server meant by it: the    *)
(* whole description or an error when it did not fit the buffer, every       *)
(* count, every failed row of a Batch once, the bytes of a BLOB without the  *)
(* lengths between them, the values of an error next to their own code.      *)
(* parse_prepare_response, parse_records, read_svc_item, read_batch_cs,      *)
(* unpack_segments, StatusVector::message.                                   *)
AnswersUnderstood ==
    ans.read =>
        CASE ans.kind = "prepare" -> PrepareUnderstood
          [] ans.kind = "line" -> ans.got = ans.sent
                                  \/ (ans.got = Refused /\ ~WholeIn(<<Item(LINE, ans.sent)>>))
          [] ans.kind = "records" -> ans.got = ans.sent
          [] ans.kind = "version" -> ans.got = ans.sent
          [] ans.kind = "batch" -> BatchUnderstood
          [] ans.kind = "segments" -> ans.got = FlattenSeq(ans.sent)
          [] OTHER -> StatusUnderstood
==============================================================================
