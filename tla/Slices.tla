-------------------------------- MODULE Slices --------------------------------
(* ARRAY columns, src/src/array.rs: the description of a column read from    *)
(* the catalogue, the SDL program made of it, and the elements written with  *)
(* op_put_slice and read with op_get_slice. The server knows the type, the   *)
(* bounds and the number of elements only from the SDL.                      *)
EXTENDS Xdr

CONSTANTS Catalogue,    \* what the system tables say of a column
          ElementLists  \* what callers write: sequences of values

VARIABLE arr    \* [phase, charset, row, desc, sent, stored, back, got, left]

(* The system tables: SMALLINT scale and length, bounds of 32 bits, names of *)
(* at most 63 characters.                                                    *)
Unset == -99999
Between(lo, hi) == {n \in Int : lo <= n /\ n <= hi}
Bound == Between(-2147483647 - 1, 2147483647)
BlrTypes ==
    {"text", "varying", "short", "long", "int64", "int128", "float", "double", "d_float",
     "sql_date", "sql_time", "timestamp", "bool", "dec64", "dec128", "quad", "blob_id"}
ASSUME CatalogueAssumption ==
    /\ Catalogue \subseteq
           [relation : Seq(Int), field : Seq(Int), blr_type : BlrTypes, sub_type : Int,
            scale : Between(-128, 127) \cup {Unset}, length : Between(1, 32767), dims : Int,
            bounds : Seq(Bound \X Bound)]
    /\ \A row \in Catalogue : Len(row.relation) <= 252 /\ Len(row.field) <= 252
(* A Float is a number of 32 bits already.                                   *)
Elements == {val \in ValueSet : val.kind = "Float" => Rounded(val.v[1]) = val.v[1]}
ASSUME ElementsAssumption == ElementLists \subseteq Seq(Elements)

-------------------------------------------------------------------------------
(* ArrayDesc: dimensions are [lower, upper], both ends included.             *)
len(dim) == Max({0, dim.upper - dim.lower + 1})
element_count(desc) == FoldLeft(LAMBDA n, dim : n * len(dim), 1, desc.dimensions)
element_stride(desc) ==
    CASE desc.blr_type = "varying" -> desc.length + 2
      [] desc.blr_type = "text" -> desc.length
      [] desc.blr_type = "short" -> 2
      [] desc.blr_type \in {"long", "float", "sql_date", "sql_time"} -> 4
      [] desc.blr_type \in {"int64", "double", "d_float", "timestamp", "quad", "dec64"} -> 8
      [] desc.blr_type \in {"int128", "dec128"} -> 16
      [] desc.blr_type = "bool" -> 1
      [] OTHER -> Max({1, desc.length})
slice_len(desc) == element_count(desc) * element_stride(desc)

(* array_desc: two queries of the catalogue. A null there is 0, but 1 for a  *)
(* lower bound.                                                              *)
Or(x, default) == IF x = Unset THEN default ELSE x
array_desc(row) ==
    [relation |-> row.relation, field |-> row.field, blr_type |-> row.blr_type,
     sub_type |-> Or(row.sub_type, 0), scale |-> Or(row.scale, 0), length |-> row.length % 65536,
     dimensions |-> [i \in 1..Len(row.bounds) |->
                        [lower |-> Or(row.bounds[i][1], 1), upper |-> Or(row.bounds[i][2], 0)]]]

-------------------------------------------------------------------------------
(* to_sdl: an opcode is a string, its operands are bytes, least significant  *)
(* first. An element of the sequence is [code, v].                           *)
Scale == << 1, 256, 256 * 256, 256 * 256 * 256 >>
Low(n, k) == [i \in 1..k |-> (n \div Scale[i]) % 256]
(* Mutant: a bound above 127 is taken for one that fits a signed byte.       *)
put_sdl_literal_unsigned(n) ==
    IF n \in Between(-128, 255) THEN [code |-> "tiny_integer", v |-> Low(n, 1)]
    ELSE IF n \in Between(-32768, 32767) THEN [code |-> "short_integer", v |-> Low(n, 2)]
    ELSE [code |-> "long_integer", v |-> Low(n, 4)]

put_sdl_literal(n) ==
    IF n \in Between(-128, 127) THEN [code |-> "tiny_integer", v |-> Low(n, 1)]
    ELSE IF n \in Between(-32768, 32767) THEN [code |-> "short_integer", v |-> Low(n, 2)]
    ELSE [code |-> "long_integer", v |-> Low(n, 4)]

Code(c) == [code |-> c, v |-> <<>>]
Named(c, s) == [code |-> c, v |-> << Len(s) % 256 >> \o s]
Operand(desc) ==
    CASE desc.blr_type \in {"text", "varying"} -> Low(desc.length, 2)
      [] desc.blr_type \in {"short", "long", "int64", "int128", "quad"} -> Low(desc.scale, 1)
      [] OTHER -> <<>>
SdlLoop(desc, i) ==
    LET dim == desc.dimensions[i]
    IN  IF dim.lower = 1
        THEN << [code |-> "do1", v |-> << i - 1 >>], put_sdl_literal(dim.upper) >>
        ELSE << [code |-> "do2", v |-> << i - 1 >>], put_sdl_literal(dim.lower),
                put_sdl_literal(dim.upper) >>
to_sdl(desc) ==
    LET n == Len(desc.dimensions)
    IN  << [code |-> "struct", v |-> <<1>>], [code |-> desc.blr_type, v |-> Operand(desc)],
           Named("relation", desc.relation), Named("field", desc.field) >>
        \o FlattenSeq([i \in 1..n |-> SdlLoop(desc, i)])
        \o << [code |-> "element", v |-> <<1>>], [code |-> "scalar", v |-> << 0, n >>] >>
        \o [i \in 1..n |-> [code |-> "variable", v |-> << i - 1 >>]]
        \o << Code("eoc") >>

(* The server's interpreter: the descriptor, the names, the bounds of every  *)
(* loop as long as loops follow, and the subscripts of the element.          *)
SignedByte(b) == IF b >= 128 THEN b - 256 ELSE b
Literal(item) ==
    LET top == Len(item.v)
        Part(i) == IF i < top THEN item.v[i] * Scale[i]
                   ELSE IF i = top THEN SignedByte(item.v[i]) * Scale[i] ELSE 0
    IN  Part(1) + Part(2) + Part(3) + Part(4)
NameOf(item) == SubSeq(item.v, 2, item.v[1] + 1)
LoopItems(code) == CASE code = "do1" -> 2 [] code = "do2" -> 3 [] OTHER -> 0
Following(sdl, pos) == pos + LoopItems(sdl[pos].code)
SrvLoop(sdl, pos) ==
    IF sdl[pos].code = "do1" THEN [lower |-> 1, upper |-> Literal(sdl[pos + 1])]
    ELSE [lower |-> Literal(sdl[pos + 1]), upper |-> Literal(sdl[pos + 2])]
SrvLoops(sdl) ==
    LET next[k \in 0..Len(sdl)] ==        \* what follows k loops
            IF k = 0 THEN 5 ELSE Following(sdl, next[k - 1])
        n == Min({k \in 0..Len(sdl) : Following(sdl, next[k]) = next[k]})
    IN  [loops |-> [k \in 1..n |-> SrvLoop(sdl, next[k - 1])], next |-> next[n]]
SrvSubscripts(sdl, pos) == [i \in 1..sdl[pos + 1].v[2] |-> sdl[pos + 1 + i].v[1]]
SrvSlice(sdl) ==
    [blr_type |-> sdl[2].code,
     length |-> IF sdl[2].code \in {"text", "varying"} THEN sdl[2].v[1] + 256 * sdl[2].v[2] ELSE 0,
     scale |-> IF Len(sdl[2].v) = 1 THEN SignedByte(sdl[2].v[1]) ELSE 0,
     relation |-> NameOf(sdl[3]), field |-> NameOf(sdl[4]),
     dimensions |-> SrvLoops(sdl).loops, subscripts |-> SrvSubscripts(sdl, SrvLoops(sdl).next)]
(* The server's size of an element, by which it divides the slice's length.  *)
SrvStride(slice) ==
    CASE slice.blr_type = "text" -> slice.length [] slice.blr_type = "varying" -> slice.length + 2
      [] slice.blr_type = "bool" -> 1 [] slice.blr_type = "short" -> 2
      [] slice.blr_type \in {"long", "float", "sql_date", "sql_time"} -> 4
      [] slice.blr_type \in {"int128", "dec128"} -> 16 [] OTHER -> 8

-------------------------------------------------------------------------------
(* encode_element. SHORT and LONG keep the low bytes of a wider integer, and *)
(* BOOLEAN takes what is not true for false.                                 *)
ElementKinds ==
    [float |-> {"Float", "Double"}, double |-> {"Float", "Double"},
     d_float |-> {"Float", "Double"}, sql_date |-> {"Date", "Timestamp"},
     sql_time |-> {"Time", "Timestamp"}, timestamp |-> {"Timestamp"}, dec128 |-> {"DecFloat"}]
check_elem_len(bytes, desc) == Len(bytes) <= desc.length
Encodes(desc, val, charset) ==
    \/ desc.blr_type \in {"short", "long", "int64"} /\ AsI64(val)
    \/ desc.blr_type = "int128" /\ (val.kind = "Int128" \/ AsI64(val))
    \/ desc.blr_type = "bool"
    \/ /\ desc.blr_type \in {"text", "varying"}
       /\ val.kind \in {"Text", "Bytes"}
       /\ check_elem_len(TextBytes(charset, val), desc)
    \/ desc.blr_type = "dec64" /\ val.kind = "DecFloat" /\ val.v[1] <= 16
    \/ desc.blr_type \in DOMAIN ElementKinds /\ val.kind \in ElementKinds[desc.blr_type]

LowBytes(x, n) == IF x <= n THEN x ELSE 0
ElementNumbers(desc, val) ==
    CASE desc.blr_type = "short" -> << LowBytes(val.v[1], 2) >>
      [] desc.blr_type = "long" -> << LowBytes(val.v[1], 4) >>
      [] desc.blr_type = "bool" -> << IF val.kind = "Bool" THEN val.v[1] ELSE 0 >>
      [] desc.blr_type = "float" /\ val.kind = "Double" -> << Rounded(val.v[1]) >>
      [] desc.blr_type = "sql_date" -> << val.v[1] >>
      [] desc.blr_type = "sql_time" -> << Last(val.v) >>
      [] OTHER -> val.v
ElementWidth(type) ==
    CASE type \in {"int64", "double", "d_float", "dec64"} -> 8
      [] type \in {"int128", "dec128"} -> 16 [] type = "bool" -> 1 [] OTHER -> 4
encode_element(desc, val, charset) ==
    LET bytes == TextBytes(charset, val)
    IN  CASE desc.blr_type = "varying" -> Word(Len(bytes), 4) \o bytes \o Pad(Len(bytes))
          [] desc.blr_type = "text" ->
                bytes \o Blanks(desc.length - Len(bytes)) \o Pad(desc.length)
          [] OTHER -> Words(ElementNumbers(desc, val), ElementWidth(desc.blr_type))

ElementWords(type) == IF type = "timestamp" THEN 2 ELSE 1
ReadElement(buf, pos, desc) ==
    CASE desc.blr_type = "text" -> ReadText(buf, pos, desc.length)
      [] desc.blr_type = "varying" -> ReadVarying(buf, pos)
      [] OTHER -> ReadWords(buf, pos, ElementWords(desc.blr_type), ElementWidth(desc.blr_type))
ReadElements(buf, desc, count) ==
    LET next[i \in 0..count] == IF i = 0 THEN 0 ELSE ReadElement(buf, next[i - 1], desc).next
    IN  [list |-> [i \in 1..count |-> ReadElement(buf, next[i - 1], desc).v], next |-> next[count]]

(* decode_element, of the same bytes.                                        *)
ElementKind ==
    [short |-> "Short", long |-> "Int", int64 |-> "BigInt", int128 |-> "Int128",
     float |-> "Float", double |-> "Double", d_float |-> "Double", sql_date |-> "Date",
     sql_time |-> "Time", timestamp |-> "Timestamp", bool |-> "Bool", dec64 |-> "DecFloat",
     dec128 |-> "DecFloat"]
ElementText(desc, raw) ==
    IF desc.sub_type = 1 THEN [kind |-> "Bytes", v |-> raw]
    ELSE [kind |-> "Text", v |-> IF desc.blr_type = "text" THEN TrimEnd(DecodedText(raw))
                                 ELSE DecodedText(raw)]
decode_element(desc, raw) ==
    IF desc.blr_type \in {"text", "varying"} THEN ElementText(desc, raw)
    ELSE [kind |-> ElementKind[desc.blr_type], v |-> Units(raw)]

-------------------------------------------------------------------------------
SlicesInit ==
    \E row \in Catalogue, charset \in Charsets :
        arr = [phase |-> "new", charset |-> charset, row |-> row, desc |-> row, sent |-> <<>>,
               stored |-> <<>>, back |-> 0, got |-> <<>>, left |-> 0]

Describe ==
    /\ arr.phase = "new"
    /\ arr.row.dims > 0
    /\ arr' = [arr EXCEPT !.phase = "described", !.desc = array_desc(arr.row)]

(* write_array: all the elements, or an error before anything is sent. The   *)
(* server stores what it reads by the SDL.                                   *)
WriteArray(values) ==
    LET bytes == FlattenSeq([i \in 1..Len(values) |->
                    encode_element(arr.desc, values[i], arr.charset)])
        slice == SrvSlice(to_sdl(arr.desc))
        read == ReadElements(bytes, slice, slice_len(arr.desc) \div SrvStride(slice))
    IN  /\ arr.phase = "described"
        /\ Len(values) = element_count(arr.desc)
        /\ \A i \in 1..Len(values) : Encodes(arr.desc, values[i], arr.charset)
        /\ arr' = [arr EXCEPT !.phase = "written", !.sent = values, !.stored = read.list,
                              !.left = Len(bytes) - read.next]

(* How many elements the answer of op_get_slice has for the client.          *)
SentIn(xdr_length) == Min({element_count(arr.desc), xdr_length \div element_stride(arr.desc)})

(* read_array: the server sends the elements up to the last one stored, and  *)
(* the elements missing are nulls.                                           *)
ReadArray(k) ==
    LET count == element_count(arr.desc)
        bytes == FlattenSeq([i \in 1..k |-> encode_element(arr.desc, arr.sent[i], arr.charset)])
        sent == SentIn(k * SrvStride(SrvSlice(to_sdl(arr.desc))))
        read == ReadElements(bytes, arr.desc, sent)
    IN  /\ arr.phase = "written"
        /\ arr' = [arr EXCEPT !.phase = "read", !.left = Len(bytes) - read.next,
                !.back = k, !.got = [i \in 1..count |-> IF i <= sent THEN decode_element(arr.desc, read.list[i])
                                            ELSE NullValue]]

(* op_get_slice answered with op_response or with any other packet.          *)
ReadRefused ==
    /\ arr.phase = "written"
    /\ arr' = [arr EXCEPT !.phase = "refused"]

SlicesNext ==
    \/ Describe
    \/ \E values \in ElementLists : WriteArray(values)
    \/ \E k \in 0..Len(arr.sent) : ReadArray(k)
    \/ ReadRefused

SlicesSpec == SlicesInit /\ [][SlicesNext]_arr

-------------------------------------------------------------------------------
(* Reference: what an element holds once it is in the database.              *)
Exact(desc, val) ==
    CASE desc.blr_type \in {"short", "long"} -> val.v[1] <= ElementWidth(desc.blr_type) \div
                                                  (IF desc.blr_type = "short" THEN 2 ELSE 1)
      [] desc.blr_type = "bool" -> val.kind = "Bool"
      [] OTHER -> TRUE
Stored(desc, val, charset) ==
    LET text == TextBytes(charset, val)
    IN  CASE desc.blr_type = "text" -> text \o Blanks(desc.length - Len(text))
          [] desc.blr_type = "varying" -> text
          [] desc.blr_type = "float" -> << Whole(Rounded(val.v[1])) >>
          [] desc.blr_type = "sql_date" -> << Whole(Head(val.v)) >>
          [] desc.blr_type = "sql_time" -> << Whole(Last(val.v)) >>
          [] OTHER -> [i \in 1..Len(val.v) |-> Whole(val.v[i])]
GivenBack(desc, val, charset) ==
    CASE desc.blr_type \notin {"text", "varying"} ->
            [kind |-> ElementKind[desc.blr_type], v |-> Units(Stored(desc, val, charset))]
      [] desc.blr_type \in {"text", "varying"} /\ desc.sub_type = 1 ->
            [kind |-> "Bytes", v |-> Stored(desc, val, charset)]
      [] OTHER -> [kind |-> "Text",
                   v |-> IF desc.blr_type = "text" THEN TrimEnd(val.v) ELSE val.v]

SdlTellsArray ==
    LET slice == SrvSlice(to_sdl(arr.desc))
    IN  /\ slice.dimensions = [i \in 1..Len(arr.row.bounds) |->
                                  [lower |-> Or(arr.row.bounds[i][1], 1),
                                   upper |-> Or(arr.row.bounds[i][2], 0)]]
        /\ slice.relation = arr.row.relation /\ slice.field = arr.row.field
        /\ slice.blr_type = arr.row.blr_type
        /\ slice.scale \in {0, Or(arr.row.scale, 0)}
        /\ slice.subscripts = [i \in 1..Len(arr.row.bounds) |-> i - 1]

(* The elements of an array arrive, each at its subscripts: the SDL tells    *)
(* the server the bounds of the column whatever the width of a bound, the    *)
(* server finds as many elements as were written and each as it was given,   *)
(* the client reads no byte more or less than the slice has even when the    *)
(* server sends fewer elements than asked for, and fills up with nulls.      *)
(* An integer wider than the element, and a value that is no BOOLEAN, are    *)
(* cut in silence and left out here. to_sdl, write_array, read_array.        *)
ArraysArrive ==
    LET exact == \A i \in 1..Len(arr.sent) : Exact(arr.desc, arr.sent[i])
    IN  /\ arr.phase # "new" => SdlTellsArray
        /\ arr.phase \in {"written", "read"} => arr.left = 0
        /\ (arr.phase = "written" /\ exact) =>
               arr.stored = [i \in 1..Len(arr.sent) |->
                                Stored(arr.desc, arr.sent[i], arr.charset)]
        /\ (arr.phase = "read" /\ exact) =>
               arr.got = [i \in 1..Len(arr.sent) |->
                             IF i > arr.back THEN NullValue
                             ELSE GivenBack(arr.desc, arr.sent[i], arr.charset)]
==============================================================================
