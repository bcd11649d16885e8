-------------------------------- MODULE Values --------------------------------
(* Values as callers see them, src/src/value.rs, row.rs, tz.rs, charset.rs:  *)
(* civil dates and times against the integers on the wire, time zones, text  *)
(* in the connection's charset, and columns read from a row by name and as a *)
(* type of the language.                                                     *)
(*                                                                           *)
(* Numbers are as in Xdr; characters are code points.                        *)
EXTENDS Xdr

CONSTANTS Starts,     \* dates with their day number, [day, civil]
          MaxDays,    \* bound of the exploration: days counted from a start
          Times,      \* times of the day in units of 1/10000 s
          Offsets,    \* offsets of zones in minutes
          ZoneIds,    \* zone ids of values
          Strings,    \* [charset, text]
          Lookups,    \* [columns, values, by, type] of calls to Row::get
          Natives     \* [native, v, type] of parameters read back

VARIABLE cell   \* [kind, in, out]

-------------------------------------------------------------------------------
(* Days since 1970-01-01 and civil dates. Division is Rust's, toward zero.   *)
Quot(a, b) == IF a >= 0 THEN a \div b ELSE -((-a) \div b)
Civil(y, m, d) == [year |-> y, month |-> m, day |-> d]

(* Mutant: without the correction at the last day of an era.                 *)
YearOfEraShort(doe) == Quot(doe - Quot(doe, 1460) + Quot(doe, 36524), 365)

(* The year of the era from the day of the era.                              *)
YearOfEra(doe) ==
    Quot(doe - Quot(doe, 1460) + Quot(doe, 36524) - Quot(doe, 146096), 365)

civil_from_unix_days(days) ==
    LET z == days + 719468
        era == Quot(IF z >= 0 THEN z ELSE z - 146096, 146097)
        doe == z - era * 146097
        yoe == YearOfEra(doe)
        doy == doe - (365 * yoe + Quot(yoe, 4) - Quot(yoe, 100))
        mp == Quot(5 * doy + 2, 153)
        month == IF mp < 10 THEN mp + 3 ELSE mp - 9
        y == yoe + era * 400
    IN  Civil(IF month <= 2 THEN y + 1 ELSE y, month, doy - Quot(153 * mp + 2, 5) + 1)

unix_days_from_civil(c) ==
    LET y == IF c.month <= 2 THEN c.year - 1 ELSE c.year
        era == Quot(IF y >= 0 THEN y ELSE y - 399, 400)
        yoe == y - era * 400
        doy == Quot(153 * (IF c.month > 2 THEN c.month - 3 ELSE c.month + 9) + 2, 5) + c.day - 1
        doe == yoe * 365 + Quot(yoe, 4) - Quot(yoe, 100) + doy
    IN  era * 146097 + doe - 719468

(* The calendar: a day later, from a start.                                  *)
Leap(y) == y % 4 = 0 /\ (y % 100 # 0 \/ y % 400 = 0)
MonthLength(y, m) ==
    CASE m = 2 -> IF Leap(y) THEN 29 ELSE 28 [] m \in {4, 6, 9, 11} -> 30 [] OTHER -> 31
DayAfter(c) ==
    IF c.day < MonthLength(c.year, c.month) THEN [c EXCEPT !.day = @ + 1]
    ELSE IF c.month < 12 THEN Civil(c.year, c.month + 1, 1) ELSE Civil(c.year + 1, 1, 1)
IsDate(c) ==
    /\ c \in [year : Int, month : 1..12, day : 1..31]
    /\ c.day <= MonthLength(c.year, c.month)

(* The day number of a date: the years before it, the months, the days.      *)
DaysBefore == <<0, 31, 59, 90, 120, 151, 181, 212, 243, 273, 304, 334>>
DayNumber(c) ==
    LET y == c.year - 1
    IN  y * 365 + (y \div 4) - (y \div 100) + (y \div 400) + DaysBefore[c.month]
        + (IF c.month > 2 /\ Leap(c.year) THEN 1 ELSE 0) + c.day - 719163

-------------------------------------------------------------------------------
(* Times: units of the day, the civil time and the nanoseconds of chrono.    *)
SEC == 10000
DAY == 24 * 3600 * SEC
as_civil_time(t) ==
    LET secs == t \div SEC
    IN  [hour |-> secs \div 3600, minute |-> (secs % 3600) \div 60, second |-> secs % 60,
         frac |-> t % SEC]
nanos(c) == c.frac * 100000
to_fb_time(c) == (c.hour * 3600 + c.minute * 60 + c.second) * SEC + c.frac
ThroughChrono(c) == [c EXCEPT !.frac = nanos(c) \div 100000]

(* Wall clock time: the time in UTC and the offset, with the day's carry.    *)
local(date, time, offset) ==
    LET total == time + offset * 60 * SEC
    IN  [date |-> date + (total \div DAY), time |-> total % DAY]

-------------------------------------------------------------------------------
(* Zones: names count down from the highest id, offsets up from the lowest.  *)
MAX_NAMED_ZONE == 65535
ZONE_NAMES == 638
OFFSET_BASE == 1439
MIN_OFFSET == -1439
MAX_OFFSET == 1439
NoZone == <<>>
zone_name(id) == IF MAX_NAMED_ZONE - id < ZONE_NAMES THEN << MAX_NAMED_ZONE - id + 1 >> ELSE NoZone
offset_minutes(id) ==
    IF id - OFFSET_BASE \in MIN_OFFSET..MAX_OFFSET THEN << id - OFFSET_BASE >> ELSE NoZone
offset_zone_id(minutes) == (minutes + OFFSET_BASE + 65536) % 65536
format_offset(minutes) ==
    LET m == IF minutes < 0 THEN -minutes ELSE minutes
    IN  [sign |-> minutes < 0, hours |-> m \div 60, minutes |-> m % 60]
zone_label(id) ==
    IF zone_name(id) # NoZone THEN << "name", zone_name(id)[1] >>
    ELSE IF offset_minutes(id) # NoZone THEN << "offset", format_offset(offset_minutes(id)[1]) >>
    ELSE << "zone", id >>

-------------------------------------------------------------------------------
(* Charsets of one byte: 8364 is the euro, 913 a letter of a DOS table.      *)
win1252_char(b) == CASE b = 128 -> 8364 [] b = 159 -> 376 [] OTHER -> b
win1252_byte(c) ==
    CASE c = 8364 -> 128 [] c = 376 -> 159 [] c <= 255 -> c [] OTHER -> 63
DosTable == [b \in 128..255 |-> IF b = 128 THEN 199 ELSE IF b = 130 THEN 233 ELSE 700 + b]
dos_byte(c) ==
    LET bytes == {b \in 128..255 : DosTable[b] = c}
    IN  IF c < 128 THEN c ELSE IF bytes = {} THEN 63 ELSE Min(bytes)
encode_char(charset, c) ==
    CASE charset = "latin1" -> IF c <= 255 THEN c ELSE 63
      [] charset = "win1252" -> win1252_byte(c)
      [] OTHER -> dos_byte(c)
decode_byte(charset, b) ==
    CASE charset = "latin1" -> b
      [] charset = "win1252" -> win1252_char(b)
      [] OTHER -> IF b < 128 THEN b ELSE DosTable[b]

-------------------------------------------------------------------------------
(* Row::get: the column by position or by name, then from_value.             *)
Upper(s) == [i \in 1..Len(s) |-> IF s[i] \in 97..122 THEN s[i] - 32 ELSE s[i]]
Nothing == [ok |-> FALSE, value |-> NullValue]
Just(v) == [ok |-> TRUE, value |-> v]
resolve(columns, by) ==
    LET named == {i \in 1..Len(columns) : Upper(columns[i]) = Upper(by.name)}
    IN  IF by.name = <<>> THEN {by.index} \cap 1..Len(columns)
        ELSE IF named = {} THEN {} ELSE {Min(named)}

(* A parameter: the kind of value that each type of the language becomes.    *)
ValueOf ==
    [bool |-> "Bool", i16 |-> "Short", i32 |-> "Int", i64 |-> "BigInt", i128 |-> "Int128",
     f32 |-> "Float", f64 |-> "Double", str |-> "Text", bytes |-> "Bytes",
     DecFloat |-> "DecFloat", TimeTz |-> "TimeTz", TimestampTz |-> "TimestampTz"]
into(native, v) == [kind |-> ValueOf[native], v |-> v]

(* A type is [name, width, nullable], the name that of the values it takes.  *)
from_value(v, type) ==
    IF type.nullable /\ IsNull(v) THEN Just(v) ELSE
    CASE type.name = "integer" ->
            IF AsI64(v) /\ v.v[1] <= type.width THEN Just(v) ELSE Nothing
      [] type.name = "i128" -> IF v.kind \in DOMAIN IntBytes THEN Just(v) ELSE Nothing
      [] type.name = "f64" -> IF v.kind \in {"Float", "Double"} THEN Just(v) ELSE Nothing
      [] type.name = "CivilDate" ->
            IF v.kind \in {"Date", "Timestamp"} THEN Just([v EXCEPT !.v = << Head(@) >>]) ELSE Nothing
      [] type.name = "CivilTime" ->
            IF v.kind \in {"Time", "Timestamp"} THEN Just([v EXCEPT !.v = << Last(@) >>]) ELSE Nothing
      [] OTHER -> IF v.kind = type.name THEN Just(v) ELSE Nothing
get(columns, values, by, type) ==
    LET at == resolve(columns, by)
    IN  IF at = {} THEN Nothing ELSE from_value(values[CHOOSE i \in at : TRUE], type)

-------------------------------------------------------------------------------
(* What the callers can hold: calendar dates, times of a day, the offsets    *)
(* and ids that values carry, text, rows as wide as their columns, numbers   *)
(* that fit the type they are given in.                                      *)
TypeNames(native) ==
    CASE native \in {"i16", "i32", "i64"} -> {"integer"}
      [] native = "i128" -> {"i128", "Int128"}
      [] native \in {"f32", "f64"} -> {"f64", ValueOf[native]}
      [] OTHER -> {ValueOf[native]}
IsNumber(v) == v.kind \in DOMAIN IntBytes
ASSUME ValuesAssumption ==
    /\ \A s \in Starts : IsDate(s.civil) /\ s.day = DayNumber(s.civil)
    /\ Times \subseteq 0..(DAY - 1)
    /\ Offsets \subseteq MIN_OFFSET..MAX_OFFSET
    /\ ZoneIds \subseteq 0..MAX_NAMED_ZONE
    /\ Strings \subseteq [charset : {"latin1", "win1252", "dos"}, text : Seq(Nat)]
    /\ \A l \in Lookups :
          /\ l.columns \in Seq(Seq(Nat))
          /\ Len(l.values) = Len(l.columns)
          /\ \A i \in 1..Len(l.values) : IsNumber(l.values[i]) => l.values[i].v[1] \in Nat
          /\ l.type.width \in 0..8
    /\ \A n \in Natives :
          /\ n.native \in DOMAIN ValueOf
          /\ n.type.width \in 0..8
          /\ n.type.name \in TypeNames(n.native)
          /\ n.type.name = "integer" => n.v[1] \in 0..n.type.width

-------------------------------------------------------------------------------
Cell(kind, in) == cell = [kind |-> kind, in |-> in, out |-> <<>>]
ValuesInit ==
    \/ \E s \in Starts : cell = [kind |-> "date", in |-> s, out |-> << s.day, s.civil >>]
    \/ \E t \in Times : Cell("time", t)
    \/ \E t \in Times, o \in Offsets : Cell("local", [time |-> t, offset |-> o])
    \/ \E o \in Offsets : Cell("offset", o)
    \/ \E id \in ZoneIds : Cell("zone", id)
    \/ \E s \in Strings : Cell("text", s)
    \/ \E l \in Lookups : Cell("get", l)
    \/ \E n \in Natives : Cell("native", n)

Tomorrow ==
    /\ cell.kind = "date"
    /\ cell.out[1] < cell.in.day + MaxDays
    /\ cell' = [cell EXCEPT !.out = << @[1] + 1, DayAfter(@[2]) >>]

Conversion(kind, x) ==
    CASE kind = "time" -> << as_civil_time(x) >>
      [] kind = "local" -> << local(0, x.time, x.offset) >>
      [] kind = "offset" -> << offset_zone_id(x) >>
      [] kind = "zone" -> << zone_label(x) >>
      [] kind = "text" ->
            [i \in 1..Len(x.text) |-> decode_byte(x.charset, encode_char(x.charset, x.text[i]))]
      [] kind = "native" -> << from_value(into(x.native, x.v), x.type) >>
      [] OTHER -> << get(x.columns, x.values, x.by, x.type) >>
Convert ==
    /\ cell.kind # "date" /\ cell.out = <<>>
    /\ cell' = [cell EXCEPT !.out = Conversion(cell.kind, cell.in)]
ValuesNext == Tomorrow \/ Convert
ValuesSpec == ValuesInit /\ [][ValuesNext]_cell

-------------------------------------------------------------------------------
DateAgrees ==
    /\ civil_from_unix_days(cell.out[1]) = cell.out[2]
    /\ unix_days_from_civil(cell.out[2]) = cell.out[1]
TimeAgrees(c) ==
    /\ c.hour \in 0..23 /\ c.minute \in 0..59 /\ c.second \in 0..59
    /\ to_fb_time(c) = cell.in /\ ThroughChrono(c) = c
LocalAgrees(l) ==
    /\ l.time \in 0..(DAY - 1) /\ l.date \in -1..1
    /\ l.date * DAY + l.time - cell.in.time = cell.in.offset * 60 * SEC
OffsetAgrees(id) ==
    LET label == format_offset(cell.in)
        m == label.hours * 60 + label.minutes
    IN  /\ offset_minutes(id) = << cell.in >>
        /\ zone_label(id) = << "offset", label >>
        /\ label.minutes < 60
        /\ cell.in = (IF label.sign THEN -m ELSE m)
ZoneAgrees(label) ==
    label[1] = (CASE cell.in <= 2878 -> "offset" [] cell.in >= 64898 -> "name"
                  [] OTHER -> "zone")
Repertoire(charset) == {decode_byte(charset, b) : b \in 0..255}
(* The controls of C1 whose bytes win1252 gives to other characters: the      *)
(* code sends that byte, where charset.rs:266 promises a question mark.       *)
Taken(charset) == IF charset = "win1252" THEN {128, 159} ELSE {}
TextAgrees ==
    \A i \in 1..Len(cell.out) :
        LET c == cell.in.text[i]
        IN  c \notin Taken(cell.in.charset) =>
                cell.out[i] = (IF c \in Repertoire(cell.in.charset) THEN c ELSE 63)

(* What a typed read gives is the column's own number, date or text, never   *)
(* a part of it that fits.                                                   *)
Carries(type, v) ==
    CASE type.name = "integer" -> v.kind \in DOMAIN IntBytes /\ v.v[1] <= type.width
      [] type.name = "i128" -> v.kind \in DOMAIN IntBytes
      [] type.name = "f64" -> v.kind \in {"Float", "Double"}
      [] type.name = "CivilDate" -> v.kind \in {"Date", "Timestamp"}
      [] type.name = "CivilTime" -> v.kind \in {"Time", "Timestamp"}
      [] OTHER -> v.kind = type.name
ColumnMeant(columns, by) ==
    {i \in 1..Len(columns) :
        IF by.name = <<>> THEN i = by.index
        ELSE /\ Upper(columns[i]) = Upper(by.name)
             /\ \A j \in 1..(i - 1) : Upper(columns[j]) # Upper(by.name)}
GetAgrees(got) ==
    LET l == cell.in
        meant == ColumnMeant(l.columns, l.by)
        Same(i) == l.type.name \notin {"CivilDate", "CivilTime"} => got.value = l.values[i]
    IN  IF got.ok THEN meant # {} /\ \A i \in meant : Same(i)
        ELSE \A i \in meant : ~Carries(l.type, l.values[i])

(* The conversions agree with the calendar and the clock counted day by day  *)
(* and unit by unit: every date and its day number, every time, the wall     *)
(* clock of a zone, the label of a zone, the characters of a charset (a      *)
(* question mark for one it lacks), a column read from a row as a type that  *)
(* can hold it, a parameter read as the type it was given in.                *)
(* civil_from_unix_days, unix_days_from_civil, local, zone_label, Charset,   *)
(* Row::get, From and FromValue.                                             *)
ValuesAgree ==
    cell.out # <<>> =>
    CASE cell.kind = "date" -> DateAgrees
      [] cell.kind = "time" -> TimeAgrees(cell.out[1])
      [] cell.kind = "local" -> LocalAgrees(cell.out[1])
      [] cell.kind = "offset" -> OffsetAgrees(cell.out[1])
      [] cell.kind = "zone" -> ZoneAgrees(cell.out[1])
      [] cell.kind = "text" -> TextAgrees
      [] cell.kind = "native" -> cell.out[1].ok /\ cell.out[1].value.v = cell.in.v
      [] OTHER -> GetAgrees(cell.out[1])
==============================================================================
