--------------------------------- MODULE Xdr ----------------------------------
(* Values and their bytes in XDR, src/src/wire/xdr.rs: what the rows of      *)
(* src/src/message.rs and the slices of src/src/array.rs are made of.        *)
(*                                                                           *)
(* A value is [kind, v], v a sequence of numbers; an integer is named by the *)
(* bytes it needs. A byte is a number that says which byte of which number   *)
(* it is (ByteOf), so bytes read at a wrong offset never read as a value.    *)
EXTENDS Integers, Sequences, SequencesExt, FiniteSetsExt

CONSTANT Charsets       \* connection charsets: "utf8", "single"

(* A value has the numbers of its kind. *)
Arity ==
    [Null |-> 0, Short |-> 1, Int |-> 1, BigInt |-> 1, Int128 |-> 1, Float |-> 1, Double |-> 1,
     Date |-> 1, Time |-> 1, Timestamp |-> 2, Blob |-> 1, Array |-> 1, Bool |-> 1,
     DecFloat |-> 1, TimeTz |-> 3, TimestampTz |-> 4]
ValueSet ==
    {val \in [kind : DOMAIN Arity \cup {"Text", "Bytes"}, v : Seq(Int)] :
        val.kind \in DOMAIN Arity => Len(val.v) = Arity[val.kind]}

-------------------------------------------------------------------------------
(* Writing: words, most significant byte first, and padding to four bytes.   *)
ByteOf(x, n, k) == x * 1000 + n * 20 + k
Word(x, n) == [k \in 1..n |-> ByteOf(x, n, k)]
Byte(c) == Word(c, 1)
Whole(x) == x * 1000
Garbled == -1
align4(n) == ((n + 3) \div 4) * 4
Zeros(n) == [k \in 1..n |-> ByteOf(0, 1, 1)]
Blanks(n) == [k \in 1..n |-> ByteOf(32, 1, 1)]
Pad(n) == Zeros(align4(n) - n)

(* Characters above 127 take two bytes in UTF-8.                             *)
CharBytes(charset, c) == IF charset = "utf8" /\ c > 127 THEN Word(c, 2) ELSE Byte(c)
TextBytes(charset, val) ==
    FlattenSeq([i \in 1..Len(val.v) |->
        IF val.kind = "Text" THEN CharBytes(charset, val.v[i]) ELSE Byte(val.v[i])])
Words(numbers, width) ==
    FlattenSeq([i \in 1..Len(numbers) |-> Word(numbers[i], width) \o Pad(width)])

(* Values that cross as integers, and a DOUBLE narrowed to a FLOAT.          *)
IntBytes == [Short |-> 2, Int |-> 4, BigInt |-> 8, Int128 |-> 16]
AsI64(val) == val.kind \in DOMAIN IntBytes /\ val.v[1] <= 8
Rounded(f) == (f \div 2) * 2
IsNull(val) == val.kind = "Null"
NullValue == [kind |-> "Null", v |-> <<>>]

-------------------------------------------------------------------------------
(* Reading: at a position of the buffer, with the position that follows.     *)
At(buf, pos, n) == [k \in 1..n |-> IF pos + k <= Len(buf) THEN buf[pos + k] ELSE Garbled]
ReadWord(bytes) ==
    LET x == bytes[1] \div 1000
    IN  IF bytes = Word(x, Len(bytes)) THEN x ELSE Garbled
ReadText(buf, pos, n) == [v |-> At(buf, pos, n), next |-> pos + align4(n)]
ReadVarying(buf, pos) ==
    LET n == ReadWord(At(buf, pos, 4))
    IN  IF n \in 0..Len(buf) THEN ReadText(buf, pos + 4, n)
        ELSE [v |-> <<Garbled>>, next |-> Len(buf)]
ReadWords(buf, pos, count, width) ==
    [v |-> [i \in 1..count |-> Whole(ReadWord(At(buf, pos + (i - 1) * align4(width), width)))],
     next |-> pos + count * align4(width)]

Units(v) == [i \in 1..Len(v) |-> v[i] \div 1000]
(* Decoding in the connection's charset; a blank is a byte of its own.       *)
DecodedText(raw) ==
    FlattenSeq([i \in 1..Len(raw) |-> IF raw[i] % 1000 = 42 THEN <<>> ELSE << raw[i] \div 1000 >>])
TrimEnd(s) == SubSeq(s, 1, Max({0} \cup {i \in 1..Len(s) : s[i] # 32}))
==============================================================================
