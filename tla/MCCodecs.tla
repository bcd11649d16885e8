------------------------------- MODULE MCCodecs -------------------------------
(* What crosses the wire inside the packets: rows, parameter buffers, array  *)
(* slices, decimals, answers, and the values callers make of them. Nothing   *)
(* here touches the others, so a behaviour follows one of them, the lane it  *)
(* starts in.                                                                *)
EXTENDS Message, Slices, DecFloat, Answers, Parameters, Values

VARIABLE lane
vars == <<lane, msg, arr, dec, ans, par, cell>>

-------------------------------------------------------------------------------
(* Values, and the columns and rows that carry them.                         *)
Val(kind, v) == [kind |-> kind, v |-> v]
MCValues ==
    {NullValue, Val("Short", <<2>>), Val("Int", <<2>>), Val("Int", <<4>>), Val("BigInt", <<8>>),
     Val("Int128", <<8>>), Val("Int128", <<16>>), Val("Float", <<10>>), Val("Double", <<11>>),
     Val("Date", <<5>>), Val("Time", <<6>>), Val("Timestamp", <<5, 6>>), Val("Blob", <<9>>),
     Val("Array", <<9>>), Val("Bool", <<0>>), Val("Bool", <<1>>), Val("DecFloat", <<16>>),
     Val("DecFloat", <<34>>), Val("TimeTz", <<6, 3, 0>>), Val("TimestampTz", <<5, 6, 3, 0>>),
     Val("Text", <<>>), Val("Text", <<65, 32>>), Val("Text", <<233, 65>>),
     Val("Text", <<233, 65, 66, 66>>), Val("Bytes", <<0>>), Val("Bytes", <<1, 2, 3, 4>>)}
InPairs ==
    {NullValue, Val("Short", <<2>>), Val("Int", <<4>>), Val("Bool", <<1>>),
     Val("TimeTz", <<6, 3, 0>>), Val("TimestampTz", <<5, 6, 3, 0>>), Val("Text", <<65, 32>>),
     Val("Text", <<233, 65>>), Val("Bytes", <<1, 2, 3, 4>>)}

Col(type, sub, length) == [type |-> type, sub |-> sub, length |-> length]
FixedColumns ==
    {Col("SHORT", 0, 2), Col("LONG", 0, 4), Col("INT64", 0, 8), Col("INT128", 0, 16),
     Col("FLOAT", 0, 4), Col("DOUBLE", 0, 8), Col("TYPE_DATE", 0, 4), Col("TYPE_TIME", 0, 4),
     Col("TIMESTAMP", 0, 8), Col("BLOB", 0, 8), Col("QUAD", 0, 8), Col("ARRAY", 0, 8),
     Col("BOOLEAN", 0, 1), Col("NULL", 0, 3), Col("DEC16", 0, 8), Col("DEC34", 0, 16),
     Col("TIME_TZ", 0, 6), Col("TIMESTAMP_TZ", 0, 10), Col("unknown", 0, 5)}
TextColumns == {Col("TEXT", 0, 3), Col("TEXT", 1, 5), Col("VARYING", 0, 5), Col("VARYING", 1, 4)}
Pairs ==
    {<<Col("TEXT", 0, 3), Col("SHORT", 0, 2)>>, <<Col("VARYING", 0, 5), Col("BOOLEAN", 0, 1)>>,
     <<Col("BOOLEAN", 0, 1), Col("VARYING", 1, 4)>>, <<Col("TIME_TZ", 0, 6), Col("TEXT", 0, 3)>>,
     <<Col("TIMESTAMP_TZ", 0, 10), Col("SHORT", 0, 2)>>}
(* More columns than a word of the bitmap has bits.                          *)
WideRow == [i \in 1..33 |-> Col("BOOLEAN", 0, 1)]
WideValues(null) == [i \in 1..33 |-> IF i % null = 0 THEN NullValue ELSE Val("Bool", << i % 2 >>)]
MCColumnLists == {<<c>> : c \in FixedColumns \cup TextColumns} \cup Pairs \cup {WideRow}
MCRows == {<<v>> : v \in MCValues} \cup {<<v, w>> : v \in InPairs, w \in InPairs}
          \cup {WideValues(9), WideValues(33)}

(* Arrays: bounds at the edges of every literal of the SDL.                  *)
ArrayOf(type, sub, length, bounds) ==
    [relation |-> <<74>>, field |-> <<76, 82>>, blr_type |-> type, sub_type |-> sub,
     scale |-> -2, length |-> length, dims |-> Len(bounds), bounds |-> bounds]
Bounds ==
    {<< <<1, 2>> >>, << <<127, 128>> >>, << <<-1, 0>> >>, << <<-129, -128>> >>, << <<200, 201>> >>,
     << <<40000, 40001>> >>, << <<-40000, -39999>> >>, << <<32767, 32768>> >>,
     << <<1, 1>>, <<3, 4>> >>}
ElementTypes ==
    {"short", "long", "int64", "int128", "float", "double", "d_float", "sql_date", "sql_time",
     "timestamp", "bool", "dec64", "dec128", "quad", "blob_id"}
MCCatalogue ==
    {ArrayOf(t, 0, 8, << <<0, 1>> >>) : t \in ElementTypes}
    \cup {ArrayOf("varying", 0, 4, b) : b \in Bounds}
    \cup {ArrayOf("text", s, 5, << <<1, 2>> >>) : s \in {0, 1}}
    \cup {ArrayOf("long", 0, 4, b) : b \in {<< <<1, 2>>, <<1, 2>> >>, << <<2, 1>> >>, <<>>}}
    \cup {ArrayOf("varying", 1, 4, << <<1, 2>> >>), ArrayOf("long", 0, 4, << <<Unset, 1>> >>),
          [ArrayOf("int64", Unset, 8, << <<1, 2>> >>) EXCEPT !.scale = Unset]}
MCElementLists ==
    {<<v, w>> : v \in MCValues, w \in MCValues}
    \cup {<<>>, <<Val("Int", <<4>>)>>, [i \in 1..4 |-> Val("Int", << i >>)]}

-------------------------------------------------------------------------------
(* Decimals: every declet, the widths and exponents at their limits.         *)
Said(negative, int, frac, exp) ==
    [negative |-> negative, special |-> "", int |-> int, frac |-> frac, exp |-> exp]
MCTexts ==
    {Said(FALSE, <<a, b, c>>, <<>>, 0) : a \in 0..9, b \in 0..9, c \in 0..9}
    \cup {Said(TRUE, <<m>> \o [i \in 1..n |-> d], <<5>>, e) :
             m \in {1, 7, 8, 9}, n \in {13, 14, 15, 31, 32, 33}, d \in {0, 9},
             e \in {-6176, -6175, -398, -397, 0, 369, 370, 371, 6111, 6112, 6113}}
    \cup {Said(FALSE, i, f, e) : i \in {<<>>, <<0>>, <<1, 2>>}, f \in {<<>>, <<0>>, <<0, 5>>},
                                 e \in {-2, 0, 1, 30, 40}}
    \cup {[Said(n, <<>>, <<>>, 0) EXCEPT !.special = s] : s \in {"Infinity", "NaN"}, n \in BOOLEAN}

(* Answers.                                                                  *)
Described(type, sub, scale, length, field, alias) ==
    [type |-> type, sub |-> sub, scale |-> scale, length |-> length, field |-> field,
     alias |-> alias]
MCDescriptions ==
    {[type |-> 1, params |-> p, columns |-> c] :
        p \in {<<>>, <<Described(497, 0, -2, 4, <<>>, <<>>)>>},
        c \in {<<>>, <<Described(520, 1, 3, 8, <<66, 67>>, <<68>>)>>,
               <<Described(448, 1, 0, 300, <<65, 2>>, <<>>), Described(581, -1, -4, 8, <<66>>, <<1>>)>>}}
MCRooms == {1, 4, 5, 6, 7, 8, 20, 60, 65, 66, 80, 130, 150, 170, 200, 300}
MCRowCounts == {<<0, 0, 0, 0>>, <<1, 2, 3, 4>>, <<0, 300, 1, 0>>}
MCSvcTexts == {<<>>, <<1>>, <<2>>, <<65, 1>>, <<65, 66, 2>>}
MCOutcomes ==
    {[counts |-> c, detailed |-> d] : c \in UNION {[1..n -> {-2, -1, 0, 3}] : n \in 0..3}, d \in 0..2}
MCSegmentLists == {<<>>, << <<>> >>, << <<1>>, <<>>, <<2, 0>> >>}
StatusArgs ==
    {[arg |-> "gds", v |-> << c >>] : c \in {0, 9, 335, 336}}
    \cup {[arg |-> "str", v |-> <<65>>], [arg |-> "number", v |-> <<66>>],
          [arg |-> "interpreted", v |-> <<73>>], [arg |-> "warning", v |-> <<335>>]}
MCVectors == UNION {[1..n -> StatusArgs] : n \in 0..4}

(* Parameter buffers: strings around the 255 bytes of a clumplet.            *)
Repeated(n) == [i \in 1..n |-> 97]
MCProfiles ==
    {[user |-> u, role |-> r, charset |-> <<85>>, timezone |-> <<>>, workers |-> w, timeout |-> t,
      page |-> 32768] :
        u \in {<<65>>, Repeated(255), Repeated(256)}, r \in {<<>>, <<114>>}, w \in {None, 200},
        t \in {None, 0, 15, 40000}}
MCAuthForms ==
    {[form |-> "proof", data |-> Repeated(64)], [form |-> "start", data |-> Repeated(255)],
     [form |-> "start", data |-> Repeated(256)], [form |-> "deferred", data |-> <<>>],
     [form |-> "done", data |-> <<>>]}
MCCalls ==
    {[op |-> o, db |-> d, text |-> t, n |-> n] :
        o \in DOMAIN svc_action,
        d \in {<<>>, <<100>>}, t \in {<<>>, <<50, 53>>, Repeated(300)}, n \in {0, 1, 255, 5000}}
MCEventLists ==
    {[names |-> <<>>, counts |-> <<>>], [names |-> << <<97>>, <<97, 98>> >>, counts |-> <<0, 300>>],
     [names |-> <<Repeated(255), <<98>> >>, counts |-> <<7, 1>>],
     [names |-> <<<<98>>, Repeated(256)>>, counts |-> <<1, 7>>]}
MCKeys == {1, 253, 254, 255, 256, 508, 509}
MCBatchOptions ==
    [record_counts : BOOLEAN, multierror : BOOLEAN, buffer_bytes : {None, 70000},
     detailed_errors : {None, 0}, blob : BOOLEAN]

-------------------------------------------------------------------------------
(* Dates around the ends of years, centuries and eras; times and offsets at  *)
(* their limits.                                                             *)
Since(day, y, m, d) == [day |-> day, civil |-> Civil(y, m, d)]
MCStarts ==
    {Since(0, 1970, 1, 1), Since(-40587, 1858, 11, 17), Since(10897, 1999, 11, 2),
     Since(-25567, 1900, 1, 1), Since(-573431, 400, 1, 1), Since(-719528, 0, 1, 1),
     Since(-865625, -400, 1, 1)}
MCTimes == {0, 1, 9999, 10000, 599999, 600000, 35999999, 36000000, 432000000, 863999999}
MCOffsets == {-1439, -720, -90, -1, 0, 1, 59, 60, 330, 1439}
MCZoneIds == {0, 1438, 1439, 1440, 2878, 2879, 30000, 64897, 64898, 65535}
MCStrings ==
    {[charset |-> c, text |-> t] : c \in {"latin1", "win1252", "dos"},
        t \in {<<65>>, <<233, 8364>>, <<199, 255, 256>>, <<376, 913, 127>>, <<128, 129, 159>>}}
Types ==
    {[name |-> "integer", width |-> w, nullable |-> b] : w \in {1, 2, 4, 8}, b \in BOOLEAN}
    \cup {[name |-> t, width |-> 0, nullable |-> b] : b \in BOOLEAN,
             t \in {"i128", "f64", "Float", "Text", "Bytes", "Bool", "CivilDate", "CivilTime",
                    "Timestamp", "DecFloat", "TimeTz"}}
Selectors ==
    {[index |-> i, name |-> <<>>] : i \in 1..3} \cup {[index |-> 0, name |-> << n >>] : n \in {65, 97, 98}}
MCLookups ==
    {[columns |-> << <<65>>, <<97>> >>, values |-> <<v, Val("Date", <<5>>)>>, by |-> by, type |-> t] :
        v \in {NullValue, Val("Short", <<1>>), Val("Int", <<4>>), Val("Int128", <<16>>),
               Val("Double", <<11>>), Val("Text", <<65>>), Val("Timestamp", <<5, 6>>)},
        by \in Selectors, t \in Types}
Native(native, v, name_, width) ==
    [native |-> native, v |-> v, type |-> [name |-> name_, width |-> width, nullable |-> FALSE]]
MCNatives ==
    {Native("i16", <<2>>, "integer", 2), Native("i32", <<4>>, "integer", 4),
     Native("i64", <<8>>, "integer", 8), Native("i128", <<16>>, "i128", 0),
     Native("f32", <<10>>, "f64", 0), Native("f64", <<11>>, "f64", 0)}
    \cup {Native(n, <<1, 2, 3>>, ValueOf[n], 0) :
             n \in {"bool", "f32", "str", "bytes", "DecFloat", "TimeTz", "TimestampTz"}}

-------------------------------------------------------------------------------
(* A lane that is not followed stands in one of its initial states.          *)
Starting(name_, LaneInit, idle) == IF lane = name_ THEN LaneInit ELSE idle
Init ==
    /\ lane \in {"message", "slices", "decfloat", "answers", "parameters", "values"}
    /\ Starting("message", MessageInit,
           msg = [path |-> "execute", charset |-> "utf8", cols |-> <<>>, buf |-> <<>>, kept |-> <<>>])
    /\ Starting("slices", SlicesInit, arr = [phase |-> "new", sent |-> <<>>])
    /\ Starting("decfloat", DecFloatInit, dec = [phase |-> "parsed", val |-> Invalid])
    /\ Starting("answers", AnswersInit, ans = [kind |-> "version", read |-> FALSE])
    /\ Starting("parameters", ParametersInit, par = [kind |-> "tpb", built |-> FALSE])
    /\ Starting("values", ValuesInit, cell = [kind |-> "time", out |-> <<>>])

Next ==
    \/ lane = "message" /\ MessageNext /\ UNCHANGED <<lane, arr, dec, ans, par, cell>>
    \/ lane = "slices" /\ SlicesNext /\ UNCHANGED <<lane, msg, dec, ans, par, cell>>
    \/ lane = "decfloat" /\ DecFloatNext /\ UNCHANGED <<lane, msg, arr, ans, par, cell>>
    \/ lane = "answers" /\ ReadAnswer /\ UNCHANGED <<lane, msg, arr, dec, par, cell>>
    \/ lane = "parameters" /\ ParametersNext /\ UNCHANGED <<lane, msg, arr, dec, ans, cell>>
    \/ lane = "values" /\ ValuesNext /\ UNCHANGED <<lane, msg, arr, dec, ans, par>>

Spec == Init /\ [][Next]_vars
==============================================================================
