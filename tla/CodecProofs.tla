------------------------------ MODULE CodecProofs ------------------------------
(***************************************************************************)
(* What crosses the wire inside the packets: for every list of columns and *)
(* rows, the messages of src/src/message.rs by the BLR of blr.rs and the   *)
(* XDR of wire/xdr.rs; for every date, time, zone, text and row, the       *)
(* conversions of src/src/value.rs, row.rs, tz.rs and charset.rs; and for  *)
(* every array column and list of elements, the slices of src/src/array.rs *)
(* and the SDL that asks for them.                                         *)
(***************************************************************************)
EXTENDS Message, Slices, Values, SequenceLemmas


-------------------------------------------------------------------------------
(* Where the parts of joined sequences are.                                  *)
Ahead(seqs, i) == Len(FlattenSeq(SubSeq(seqs, 1, i)))

(* A beginning of a sequence, and one element more. *)
LEMMA PrefixSnoc ==
    ASSUME NEW S, NEW s \in Seq(S), NEW i \in 1..Len(s)
    PROVE  /\ SubSeq(s, 1, i - 1) \in Seq(S) /\ SubSeq(s, 1, i) \in Seq(S)
           /\ SubSeq(s, 1, i) = Append(SubSeq(s, 1, i - 1), s[i])
<1>1. Len(s) \in Nat /\ s[i] \in S /\ i - 1 \in Int /\ \A j \in 1..Len(s) : s[j] \in S
  BY LenProperties, ElementOfSeq
<1>2. SubSeq(s, 1, i - 1) \in Seq(S)
  BY <1>1, SubSeqProperties
<1>3. SubSeq(s, 1, i) = SubSeq(s, 1, i - 1) \o << s[i] >>
  BY <1>1, SubSeqRecursiveSecond
<1>4. SubSeq(s, 1, i - 1) \o << s[i] >> = Append(SubSeq(s, 1, i - 1), s[i])
  BY <1>1, <1>2, AppendIsConcat
<1>5. Append(SubSeq(s, 1, i - 1), s[i]) \in Seq(S)
  BY <1>1, <1>2, AppendProperties
<1>6. QED
  BY <1>2, <1>3, <1>4, <1>5

(* The lengths ahead of each part add up. *)
LEMMA AheadSteps ==
    ASSUME NEW S, NEW seqs \in Seq(Seq(S))
    PROVE  /\ Ahead(seqs, 0) = 0
           /\ \A i \in 0..Len(seqs) : Ahead(seqs, i) \in Nat
           /\ \A i \in 1..Len(seqs) : Ahead(seqs, i) = Ahead(seqs, i - 1) + Len(seqs[i])
           /\ Ahead(seqs, Len(seqs)) = Len(FlattenSeq(seqs))
<1>1. SubSeq(seqs, 1, 0) = <<>> /\ Len(<<>>) = 0
  BY SubSeqEmpty, EmptySeq
<1>2. Ahead(seqs, 0) = 0
  BY <1>1, FlattenEmpty DEF Ahead
<1>3. ASSUME NEW i \in 1..Len(seqs)
      PROVE  Ahead(seqs, i) \in Nat /\ Ahead(seqs, i) = Ahead(seqs, i - 1) + Len(seqs[i])
  <2>1. /\ SubSeq(seqs, 1, i - 1) \in Seq(Seq(S)) /\ SubSeq(seqs, 1, i) \in Seq(Seq(S))
        /\ SubSeq(seqs, 1, i) = Append(SubSeq(seqs, 1, i - 1), seqs[i])
    BY PrefixSnoc
  <2>2. seqs[i] \in Seq(S)
    BY ElementOfSeq
  <2>3. FlattenSeq(SubSeq(seqs, 1, i)) = FlattenSeq(SubSeq(seqs, 1, i - 1)) \o seqs[i]
    BY <2>1, <2>2, FlattenSnoc
  <2>4. FlattenSeq(SubSeq(seqs, 1, i - 1)) \in Seq(S) /\ FlattenSeq(SubSeq(seqs, 1, i)) \in Seq(S)
    BY <2>1, FlattenType
  <2>5. Len(FlattenSeq(SubSeq(seqs, 1, i)))
            = Len(FlattenSeq(SubSeq(seqs, 1, i - 1))) + Len(seqs[i])
    BY <2>2, <2>3, <2>4, ConcatProperties
  <2>6. QED
    BY <2>4, <2>5, LenProperties DEF Ahead
<1>4. Ahead(seqs, Len(seqs)) = Len(FlattenSeq(seqs))
  BY SubSeqFull DEF Ahead
<1>5. Len(seqs) \in Nat
  BY LenProperties
<1>6. QED
  BY <1>2, <1>3, <1>4, <1>5

(* The bytes that stand in a buffer behind a position.                       *)
Placed(buf, pos, bytes) ==
    \A k \in 1..Len(bytes) : pos + k \in 1..Len(buf) /\ buf[pos + k] = bytes[k]

(* Everything stands at the beginning of itself. *)
LEMMA PlacedSelf ==
    ASSUME NEW S, NEW s \in Seq(S)
    PROVE  Placed(s, 0, s)
  BY LenProperties DEF Placed

(* Of two sequences joined, the second stands behind the first. *)
LEMMA PlacedConcat ==
    ASSUME NEW S, NEW a \in Seq(S), NEW b \in Seq(S), NEW buf, NEW pos \in Int,
           Placed(buf, pos, a \o b)
    PROVE  Placed(buf, pos, a) /\ Placed(buf, pos + Len(a), b)
<1>1. /\ Len(a) \in Nat /\ Len(b) \in Nat /\ Len(a \o b) = Len(a) + Len(b)
      /\ \A i \in 1..Len(a) + Len(b) :
             (a \o b)[i] = IF i <= Len(a) THEN a[i] ELSE b[i - Len(a)]
  BY ConcatProperties, LenProperties
<1>2. \A i \in 1..Len(a) + Len(b) :
          /\ pos + i \in 1..Len(buf)
          /\ buf[pos + i] = IF i <= Len(a) THEN a[i] ELSE b[i - Len(a)]
  BY <1>1 DEF Placed
<1>3. Placed(buf, pos, a)
  BY <1>1, <1>2 DEF Placed
<1>4. ASSUME NEW k \in 1..Len(b)
      PROVE  (pos + Len(a)) + k \in 1..Len(buf) /\ buf[(pos + Len(a)) + k] = b[k]
  <2>1. /\ Len(a) + k \in 1..Len(a) + Len(b) /\ ~(Len(a) + k <= Len(a))
        /\ (Len(a) + k) - Len(a) = k /\ pos + (Len(a) + k) = (pos + Len(a)) + k
    BY <1>1
  <2>2. QED
    BY <1>2, <2>1
<1>5. QED
  BY <1>3, <1>4 DEF Placed

(* Of many, each stands behind those ahead of it. *)
LEMMA PlacedFlatten ==
    ASSUME NEW S, NEW seqs \in Seq(Seq(S)), NEW buf, NEW pos \in Int,
           Placed(buf, pos, FlattenSeq(seqs)), NEW i \in 1..Len(seqs)
    PROVE  Placed(buf, pos + Ahead(seqs, i - 1), seqs[i])
<1> DEFINE before == SubSeq(seqs, 1, i - 1)
           here == SubSeq(seqs, 1, i)
           after == SubSeq(seqs, i + 1, Len(seqs))
<1>1. Len(seqs) \in Nat /\ seqs[i] \in Seq(S) /\ \A j \in 1..Len(seqs) : seqs[j] \in Seq(S)
  BY LenProperties, ElementOfSeq
<1>2. before \in Seq(Seq(S)) /\ here \in Seq(Seq(S)) /\ here = Append(before, seqs[i])
  BY PrefixSnoc
<1>3. after \in Seq(Seq(S))
  <2>1. i + 1 \in Int /\ \A j \in (i + 1)..Len(seqs) : seqs[j] \in Seq(S)
    BY <1>1
  <2>2. QED
    BY <1>1, <2>1, SubSeqProperties
<1>4. here \o after = seqs
  <2>1. 1 \in 1..Len(seqs) + 1 /\ i \in (1 - 1)..Len(seqs) /\ Len(seqs) \in i..Len(seqs)
    BY <1>1
  <2>2. here \o after = SubSeq(seqs, 1, Len(seqs))
    BY <2>1, ConcatAdjacentSubSeq
  <2>3. QED
    BY <2>2, SubSeqFull
<1>5. FlattenSeq(seqs) = (FlattenSeq(before) \o seqs[i]) \o FlattenSeq(after)
  <2>1. FlattenSeq(here \o after) = FlattenSeq(here) \o FlattenSeq(after)
    BY <1>2, <1>3, FlattenConcat
  <2>2. FlattenSeq(Append(before, seqs[i])) = FlattenSeq(before) \o seqs[i]
    BY <1>1, <1>2, FlattenSnoc
  <2>3. QED
    BY <1>2, <1>4, <2>1, <2>2
<1>6. FlattenSeq(before) \in Seq(S) /\ FlattenSeq(after) \in Seq(S)
  BY <1>2, <1>3, FlattenType
<1>7. FlattenSeq(before) \o seqs[i] \in Seq(S)
  BY <1>1, <1>6, ConcatProperties
<1>8. Placed(buf, pos, FlattenSeq(before) \o seqs[i])
  BY <1>5, <1>6, <1>7, PlacedConcat
<1>9. Placed(buf, pos + Len(FlattenSeq(before)), seqs[i])
  BY <1>1, <1>6, <1>8, PlacedConcat
<1>10. QED
  BY <1>9 DEF Ahead

(* A reader takes what stands at its position. *)
LEMMA PlacedAt ==
    ASSUME NEW S, NEW bytes \in Seq(S), NEW buf \in Seq(S), NEW pos \in Int, Placed(buf, pos, bytes)
    PROVE  At(buf, pos, Len(bytes)) = bytes
<1>1. Len(bytes) \in Nat /\ bytes = [k \in 1..Len(bytes) |-> bytes[k]] /\ Len(buf) \in Nat
  BY LenProperties
<1>2. ASSUME NEW k \in 1..Len(bytes)
      PROVE  (IF pos + k <= Len(buf) THEN buf[pos + k] ELSE Garbled) = bytes[k]
  BY <1>1 DEF Placed
<1>3. QED
  BY <1>1, <1>2 DEF At

-------------------------------------------------------------------------------
(* Words, and what a reader of words finds.                                  *)

(* Bytes joined. *)
LEMMA BytesJoin ==
    ASSUME NEW a \in Seq(Int), NEW b \in Seq(Int)
    PROVE  a \o b \in Seq(Int) /\ Len(a \o b) = Len(a) + Len(b) /\ Len(a) \in Nat /\ Len(b) \in Nat
  BY ConcatProperties, LenProperties

(* They join in any order. *)
LEMMA BytesAssociate ==
    ASSUME NEW a \in Seq(Int), NEW b \in Seq(Int), NEW c \in Seq(Int)
    PROVE  (a \o b) \o c = a \o (b \o c)
  BY ConcatAssociative

(* The second of two stands behind the first. *)
LEMMA BytesPlaced ==
    ASSUME NEW a \in Seq(Int), NEW b \in Seq(Int), NEW buf, NEW pos \in Int,
           Placed(buf, pos, a \o b)
    PROVE  Placed(buf, pos, a) /\ Placed(buf, pos + Len(a), b)
  BY PlacedConcat

(* A word has as many bytes as its width. *)
LEMMA WordType ==
    ASSUME NEW x \in Int, NEW n \in Nat
    PROVE  Word(x, n) \in Seq(Int) /\ Len(Word(x, n)) = n /\ \A k \in 1..n : Word(x, n)[k] = ByteOf(x, n, k)
<1>1. \A k \in 1..n : ByteOf(x, n, k) \in Int
  BY DEF ByteOf
<1>2. [k \in 1..n |-> ByteOf(x, n, k)] \in Seq(Int) /\ Len([k \in 1..n |-> ByteOf(x, n, k)]) = n
  BY <1>1
<1>3. QED
  BY <1>2 DEF Word

(* A word read is the number written. *)
LEMMA WordRead ==
    ASSUME NEW x \in Int, NEW n \in 1..16
    PROVE  ReadWord(Word(x, n)) = x
<1>1. Word(x, n)[1] = x * 1000 + (n * 20 + 1) /\ Len(Word(x, n)) = n
  <2>1. n \in Nat /\ 1 \in 1..n
    OBVIOUS
  <2>2. Word(x, n)[1] = ByteOf(x, n, 1) /\ Len(Word(x, n)) = n
    BY <2>1, WordType
  <2>3. QED
    BY <2>2 DEF ByteOf
<1>2. (x * 1000 + (n * 20 + 1)) \div 1000 = x
  OBVIOUS
<1>3. QED
  BY <1>1, <1>2 DEF ReadWord

(* Padding reaches the next multiple of four. *)
LEMMA PadType ==
    ASSUME NEW n \in Nat
    PROVE  /\ align4(n) \in Nat /\ align4(n) - n \in 0..3
           /\ Pad(n) \in Seq(Int) /\ Len(Pad(n)) = align4(n) - n
<1>1. PICK q \in Int : q = (n + 3) \div 4
  OBVIOUS
<1>2. 4 * q <= n + 3 /\ n + 3 < 4 * q + 4
  BY <1>1
<1>3. align4(n) \in Nat /\ align4(n) - n \in 0..3
  BY <1>1, <1>2 DEF align4
<1>4. \A m \in Nat : Zeros(m) \in Seq(Int) /\ Len(Zeros(m)) = m
  BY DEF Zeros, ByteOf
<1>5. align4(n) - n \in Nat
  BY <1>3
<1>6. QED
  BY <1>3, <1>4, <1>5 DEF Pad

(* Zeros and blanks are bytes. *)
LEMMA FillType ==
    ASSUME NEW n \in Nat
    PROVE  /\ Zeros(n) \in Seq(Int) /\ Len(Zeros(n)) = n
           /\ Blanks(n) \in Seq(Int) /\ Len(Blanks(n)) = n
  BY DEF Zeros, Blanks, ByteOf

(* The words of a list of numbers, each padded. *)
Padded(numbers, width) == [i \in 1..Len(numbers) |-> Word(numbers[i], width) \o Pad(width)]

(* All of them have the same length. *)
LEMMA PaddedType ==
    ASSUME NEW numbers \in Seq(Int), NEW width \in Nat
    PROVE  /\ Padded(numbers, width) \in Seq(Seq(Int))
           /\ Len(Padded(numbers, width)) = Len(numbers)
           /\ \A i \in 1..Len(numbers) :
                  /\ Padded(numbers, width)[i] = Word(numbers[i], width) \o Pad(width)
                  /\ Len(Padded(numbers, width)[i]) = align4(width)
           /\ Words(numbers, width) = FlattenSeq(Padded(numbers, width))
           /\ Words(numbers, width) \in Seq(Int)
<1>1. Len(numbers) \in Nat /\ \A i \in 1..Len(numbers) : numbers[i] \in Int
  BY LenProperties, ElementOfSeq
<1>2. ASSUME NEW i \in 1..Len(numbers)
      PROVE  /\ Word(numbers[i], width) \o Pad(width) \in Seq(Int)
             /\ Len(Word(numbers[i], width) \o Pad(width)) = align4(width)
  <2>1. /\ Word(numbers[i], width) \in Seq(Int) /\ Len(Word(numbers[i], width)) = width
        /\ Pad(width) \in Seq(Int) /\ Len(Pad(width)) = align4(width) - width
        /\ align4(width) \in Nat
    BY <1>1, WordType, PadType
  <2>2. /\ Word(numbers[i], width) \o Pad(width) \in Seq(Int)
        /\ Len(Word(numbers[i], width) \o Pad(width))
               = Len(Word(numbers[i], width)) + Len(Pad(width))
    BY <2>1, BytesJoin
  <2>3. width + (align4(width) - width) = align4(width)
    BY <2>1
  <2>4. QED
    BY <2>1, <2>2, <2>3
<1>3. /\ Padded(numbers, width) \in Seq(Seq(Int)) /\ Len(Padded(numbers, width)) = Len(numbers)
      /\ \A i \in 1..Len(numbers) : Padded(numbers, width)[i] = Word(numbers[i], width) \o Pad(width)
  BY <1>1, <1>2 DEF Padded
<1>4. Words(numbers, width) = FlattenSeq(Padded(numbers, width))
  BY DEF Words, Padded
<1>5. QED
  BY <1>2, <1>3, <1>4, FlattenType

(* Parts of one length lie at its multiples. *)
LEMMA AheadUniform ==
    ASSUME NEW S, NEW seqs \in Seq(Seq(S)), NEW w \in Nat,
           \A i \in 1..Len(seqs) : Len(seqs[i]) = w
    PROVE  \A i \in 0..Len(seqs) : Ahead(seqs, i) = i * w
<1> DEFINE Done == {i \in Nat : i <= Len(seqs) => Ahead(seqs, i) = i * w}
<1>1. Len(seqs) \in Nat
  BY LenProperties
<1>2. 0 \in Done
  BY AheadSteps
<1>3. ASSUME NEW i \in Nat, i \in Done
      PROVE  i + 1 \in Done
  <2>1. SUFFICES ASSUME i + 1 <= Len(seqs)
                 PROVE  Ahead(seqs, i + 1) = (i + 1) * w
    OBVIOUS
  <2>2. Ahead(seqs, i) = i * w /\ i + 1 \in 1..Len(seqs) /\ (i + 1) - 1 = i
    BY <1>1, <1>3, <2>1
  <2>3. Ahead(seqs, i + 1) = Ahead(seqs, (i + 1) - 1) + Len(seqs[i + 1])
    BY <2>2, AheadSteps
  <2>4. i * w + w = (i + 1) * w
    OBVIOUS
  <2>5. QED
    BY <2>2, <2>3, <2>4
<1>4. Nat \subseteq Done
  BY <1>2, <1>3, NatSetInduction
<1>5. QED
  BY <1>1, <1>4

(* The numbers written are the numbers read, and the reader stops behind     *)
(* their last byte.                                                          *)
LEMMA WordsRead ==
    ASSUME NEW numbers \in Seq(Int), NEW width \in 1..16, NEW buf \in Seq(Int), NEW pos \in Int,
           Placed(buf, pos, Words(numbers, width))
    PROVE  ReadWords(buf, pos, Len(numbers), width)
               = [v |-> [i \in 1..Len(numbers) |-> Whole(numbers[i])],
                  next |-> pos + Len(Words(numbers, width))]
<1> DEFINE seqs == Padded(numbers, width)
           n == Len(numbers)
<1>1. n \in Nat /\ width \in Nat /\ \A i \in 1..n : numbers[i] \in Int
  BY LenProperties, ElementOfSeq
<1>2. /\ seqs \in Seq(Seq(Int)) /\ Len(seqs) = n /\ Words(numbers, width) = FlattenSeq(seqs)
      /\ \A i \in 1..n : /\ seqs[i] = Word(numbers[i], width) \o Pad(width)
                         /\ Len(seqs[i]) = align4(width)
      /\ align4(width) \in Nat
  BY <1>1, PaddedType, PadType
<1> HIDE DEF seqs
<1>3. \A i \in 0..n : Ahead(seqs, i) = i * align4(width)
  BY <1>2, AheadUniform
<1>4. Len(Words(numbers, width)) = n * align4(width)
  BY <1>1, <1>2, <1>3, AheadSteps
<1>5. ASSUME NEW i \in 1..n
      PROVE  ReadWord(At(buf, pos + (i - 1) * align4(width), width)) = numbers[i]
  <2>1. Placed(buf, pos + Ahead(seqs, i - 1), seqs[i])
    BY <1>2, PlacedFlatten
  <2>2. i - 1 \in 0..n /\ (i - 1) * align4(width) \in Int
    BY <1>1, <1>2
  <2>3. Ahead(seqs, i - 1) = (i - 1) * align4(width)
    BY <1>3, <2>2
  <2>4. pos + (i - 1) * align4(width) \in Int
    BY <2>2
  <2>5. Placed(buf, pos + (i - 1) * align4(width), Word(numbers[i], width) \o Pad(width))
    BY <1>2, <2>1, <2>3
  <2>6. /\ Word(numbers[i], width) \in Seq(Int) /\ Len(Word(numbers[i], width)) = width
        /\ Pad(width) \in Seq(Int)
    BY <1>1, WordType, PadType
  <2>7. Placed(buf, pos + (i - 1) * align4(width), Word(numbers[i], width))
    BY <2>4, <2>5, <2>6, BytesPlaced
  <2>8. At(buf, pos + (i - 1) * align4(width), width) = Word(numbers[i], width)
    BY <2>4, <2>6, <2>7, PlacedAt
  <2>9. QED
    BY <1>1, <2>8, WordRead
<1>6. [i \in 1..n |-> Whole(ReadWord(At(buf, pos + (i - 1) * align4(width), width)))]
          = [i \in 1..n |-> Whole(numbers[i])]
  BY <1>5
<1>7. QED
  BY <1>4, <1>6 DEF ReadWords

(* Bytes with their padding are read whole. *)
LEMMA TextRead ==
    ASSUME NEW bytes \in Seq(Int), NEW buf \in Seq(Int), NEW pos \in Int,
           Placed(buf, pos, bytes \o Pad(Len(bytes)))
    PROVE  /\ ReadText(buf, pos, Len(bytes))
                  = [v |-> bytes, next |-> pos + Len(bytes \o Pad(Len(bytes)))]
           /\ Len(bytes \o Pad(Len(bytes))) = align4(Len(bytes))
<1>1. /\ Len(bytes) \in Nat /\ Pad(Len(bytes)) \in Seq(Int) /\ align4(Len(bytes)) \in Nat
      /\ Len(Pad(Len(bytes))) = align4(Len(bytes)) - Len(bytes)
  BY LenProperties, PadType
<1>2. Len(bytes \o Pad(Len(bytes))) = align4(Len(bytes))
  <2>1. Len(bytes \o Pad(Len(bytes))) = Len(bytes) + Len(Pad(Len(bytes)))
    BY <1>1, BytesJoin
  <2>2. QED
    BY <1>1, <2>1
<1>3. At(buf, pos, Len(bytes)) = bytes
  BY <1>1, BytesPlaced, PlacedAt
<1>4. QED
  BY <1>2, <1>3 DEF ReadText

(* So are bytes behind their length. *)
LEMMA VaryingRead ==
    ASSUME NEW bytes \in Seq(Int), NEW buf \in Seq(Int), NEW pos \in Nat,
           Placed(buf, pos, Word(Len(bytes), 4) \o bytes \o Pad(Len(bytes)))
    PROVE  ReadVarying(buf, pos)
               = [v |-> bytes, next |-> pos + Len(Word(Len(bytes), 4) \o bytes \o Pad(Len(bytes)))]
<1> DEFINE n == Len(bytes)
<1>1. /\ n \in Nat /\ Len(buf) \in Nat /\ Pad(n) \in Seq(Int)
      /\ Word(n, 4) \in Seq(Int) /\ Len(Word(n, 4)) = 4
  <2>1. n \in Nat /\ n \in Int /\ 4 \in Nat /\ Len(buf) \in Nat
    BY LenProperties
  <2>2. Pad(n) \in Seq(Int)
    BY <2>1, PadType
  <2>3. Word(n, 4) \in Seq(Int) /\ Len(Word(n, 4)) = 4
    BY <2>1, WordType
  <2>4. QED
    BY <2>1, <2>2, <2>3
<1>2. bytes \o Pad(n) \in Seq(Int) /\ Len(bytes \o Pad(n)) \in Nat
  BY <1>1, BytesJoin
<1>3. Word(n, 4) \o bytes \o Pad(n) = Word(n, 4) \o (bytes \o Pad(n))
  BY <1>1, BytesAssociate
<1>4. Placed(buf, pos, Word(n, 4)) /\ Placed(buf, pos + 4, bytes \o Pad(n))
  <2>0. Placed(buf, pos, Word(n, 4) \o (bytes \o Pad(n)))
    BY <1>3
  <2>1. pos \in Int
    OBVIOUS
  <2>2. Placed(buf, pos, Word(n, 4)) /\ Placed(buf, pos + Len(Word(n, 4)), bytes \o Pad(n))
    BY <1>1, <1>2, <2>0, <2>1, BytesPlaced
  <2>3. QED
    BY <1>1, <2>2
<1>5. ReadWord(At(buf, pos, 4)) = n
  <2>1. At(buf, pos, Len(Word(n, 4))) = Word(n, 4)
    BY <1>1, <1>4, PlacedAt
  <2>2. ReadWord(Word(n, 4)) = n
    BY <1>1, WordRead
  <2>3. QED
    BY <1>1, <2>1, <2>2
<1>6. n \in 0..Len(buf)
  <2>1. Placed(buf, pos + 4, bytes)
    BY <1>1, <1>4, BytesPlaced
  <2>2. n = 0 \/ (pos + 4) + n \in 1..Len(buf)
    BY <1>1, <2>1 DEF Placed
  <2>3. QED
    BY <1>1, <2>2
<1>7. ReadText(buf, pos + 4, n) = [v |-> bytes, next |-> (pos + 4) + Len(bytes \o Pad(n))]
  BY <1>1, <1>4, TextRead
<1>8. Len(Word(n, 4) \o (bytes \o Pad(n))) = 4 + Len(bytes \o Pad(n))
  BY <1>1, <1>2, BytesJoin
<1>9. (pos + 4) + Len(bytes \o Pad(n)) = pos + (4 + Len(bytes \o Pad(n)))
  BY <1>2
<1>10. QED
  BY <1>3, <1>5, <1>6, <1>7, <1>8, <1>9 DEF ReadVarying

-------------------------------------------------------------------------------
(* Texts, encoded and decoded.                                               *)
CharOf(b) == IF b % 1000 = 42 THEN <<>> ELSE << b \div 1000 >>
Chars(raw) == [i \in 1..Len(raw) |-> CharOf(raw[i])]

(* Every byte is a character or none. *)
LEMMA CharsType ==
    ASSUME NEW raw \in Seq(Int)
    PROVE  /\ Chars(raw) \in Seq(Seq(Int)) /\ Len(Chars(raw)) = Len(raw)
           /\ \A i \in 1..Len(raw) : Chars(raw)[i] = CharOf(raw[i])
           /\ DecodedText(raw) = FlattenSeq(Chars(raw)) /\ DecodedText(raw) \in Seq(Int)
<1>1. Len(raw) \in Nat /\ \A i \in 1..Len(raw) : raw[i] \in Int
  BY LenProperties, ElementOfSeq
<1>2. \A x \in Int : << x >> \in Seq(Int)
  OBVIOUS
<1>3. ASSUME NEW i \in 1..Len(raw)
      PROVE  CharOf(raw[i]) \in Seq(Int)
  <2>1. PICK b \in Int : b = raw[i]
    BY <1>1
  <2>2. b \div 1000 \in Int
    BY <2>1
  <2>3. CharOf(b) \in Seq(Int)
    BY <1>2, <2>2, EmptySeq DEF CharOf
  <2>4. QED
    BY <2>1, <2>3
<1>4. /\ Chars(raw) \in Seq(Seq(Int)) /\ Len(Chars(raw)) = Len(raw)
      /\ \A i \in 1..Len(raw) : Chars(raw)[i] = CharOf(raw[i])
  BY <1>1, <1>3 DEF Chars
<1>5. DecodedText(raw) = FlattenSeq(Chars(raw))
  BY DEF DecodedText, Chars, CharOf
<1>6. QED
  BY <1>4, <1>5, FlattenType

(* Each character by itself. *)
LEMMA CharsAt ==
    ASSUME NEW raw \in Seq(Int), NEW i \in 1..Len(raw)
    PROVE  Chars(raw)[i] = CharOf(raw[i])
  BY CharsType

(* As many as there are bytes. *)
LEMMA CharsLen ==
    ASSUME NEW raw \in Seq(Int)
    PROVE  Chars(raw) \in Seq(Seq(Int)) /\ Len(Chars(raw)) = Len(raw)
  BY CharsType

(* And joined they are the text. *)
LEMMA CharsJoin ==
    ASSUME NEW raw \in Seq(Int)
    PROVE  DecodedText(raw) = FlattenSeq(Chars(raw)) /\ DecodedText(raw) \in Seq(Int)
  BY CharsType

(* Bytes decode piece by piece. *)
LEMMA DecodedConcat ==
    ASSUME NEW a \in Seq(Int), NEW b \in Seq(Int)
    PROVE  DecodedText(a \o b) = DecodedText(a) \o DecodedText(b)
<1>1. /\ Len(a) \in Nat /\ Len(b) \in Nat /\ a \o b \in Seq(Int) /\ Len(a \o b) = Len(a) + Len(b)
      /\ \A i \in 1..Len(a) + Len(b) :
             (a \o b)[i] = IF i <= Len(a) THEN a[i] ELSE b[i - Len(a)]
  BY LenProperties, ConcatProperties
<1>2. /\ Chars(a) \in Seq(Seq(Int)) /\ Len(Chars(a)) = Len(a)
      /\ Chars(b) \in Seq(Seq(Int)) /\ Len(Chars(b)) = Len(b)
      /\ Chars(a \o b) \in Seq(Seq(Int)) /\ Len(Chars(a \o b)) = Len(a) + Len(b)
  BY <1>1, CharsLen
<1>3. /\ Chars(a) \o Chars(b) \in Seq(Seq(Int)) /\ Len(Chars(a) \o Chars(b)) = Len(a) + Len(b)
      /\ \A i \in 1..Len(a) + Len(b) :
             (Chars(a) \o Chars(b))[i] = IF i <= Len(a) THEN Chars(a)[i] ELSE Chars(b)[i - Len(a)]
  <2>1. PICK u \in Seq(Seq(Int)), v \in Seq(Seq(Int)) : u = Chars(a) /\ v = Chars(b)
    BY <1>2
  <2>2. /\ u \o v \in Seq(Seq(Int)) /\ Len(u \o v) = Len(u) + Len(v)
        /\ \A i \in 1..Len(u) + Len(v) : (u \o v)[i] = IF i <= Len(u) THEN u[i] ELSE v[i - Len(u)]
    BY ConcatProperties
  <2>3. Len(u) = Len(a) /\ Len(v) = Len(b)
    BY <1>2, <2>1
  <2>4. QED
    BY <2>1, <2>2, <2>3
<1>4. ASSUME NEW i \in 1..Len(a) + Len(b)
      PROVE  Chars(a \o b)[i] = (Chars(a) \o Chars(b))[i]
  <2>1. Chars(a \o b)[i] = CharOf((a \o b)[i])
    <3>1. PICK u : u = a \o b
      OBVIOUS
    <3>2. u \in Seq(Int) /\ i \in 1..Len(u)
      BY <1>1, <3>1
    <3>3. Chars(u)[i] = CharOf(u[i])
      BY <3>2, CharsAt
    <3>4. QED
      BY <3>1, <3>3
  <2>2. CASE i <= Len(a)
    <3>1. i \in 1..Len(a) /\ (a \o b)[i] = a[i] /\ (Chars(a) \o Chars(b))[i] = Chars(a)[i]
      BY <1>1, <1>3, <2>2
    <3>2. Chars(a)[i] = CharOf(a[i])
      BY <3>1, CharsAt
    <3>3. QED
      BY <2>1, <3>1, <3>2
  <2>3. CASE i > Len(a)
    <3>1. /\ i - Len(a) \in 1..Len(b) /\ (a \o b)[i] = b[i - Len(a)]
          /\ (Chars(a) \o Chars(b))[i] = Chars(b)[i - Len(a)]
      BY <1>1, <1>3, <2>3
    <3>2. Chars(b)[i - Len(a)] = CharOf(b[i - Len(a)])
      BY <3>1, CharsAt
    <3>3. QED
      BY <2>1, <3>1, <3>2
  <2>4. i <= Len(a) \/ i > Len(a)
    BY <1>1
  <2>5. QED
    BY <2>2, <2>3, <2>4
<1>5. Chars(a \o b) = Chars(a) \o Chars(b)
  BY <1>2, <1>3, <1>4, SeqEqual
<1>6. FlattenSeq(Chars(a) \o Chars(b)) = FlattenSeq(Chars(a)) \o FlattenSeq(Chars(b))
  BY <1>2, FlattenConcat
<1>7. QED
  BY <1>1, <1>5, <1>6, CharsJoin

(* A character's bytes, one or two, decode to it. *)
LEMMA DecodedChar ==
    ASSUME NEW c \in Int, NEW n \in 1..2
    PROVE  DecodedText(Word(c, n)) = << c >>
<1>1. /\ Word(c, n) \in Seq(Int) /\ Len(Word(c, n)) = n
      /\ Word(c, n)[1] = c * 1000 + (n * 20 + 1)
      /\ n = 2 => Word(c, n)[2] = c * 1000 + 42
  <2>1. n \in Nat /\ 1 \in 1..n /\ (n = 2 => 2 \in 1..n)
    OBVIOUS
  <2>2. /\ Word(c, n) \in Seq(Int) /\ Len(Word(c, n)) = n
        /\ Word(c, n)[1] = ByteOf(c, n, 1) /\ (n = 2 => Word(c, n)[2] = ByteOf(c, n, 2))
    BY <2>1, WordType
  <2>3. QED
    BY <2>2 DEF ByteOf
<1>2. /\ (c * 1000 + (n * 20 + 1)) \div 1000 = c /\ ((c * 1000 + (n * 20 + 1)) % 1000) # 42
      /\ (c * 1000 + 42) % 1000 = 42
  OBVIOUS
<1>3. << c >> \in Seq(Int) /\ <<>> \in Seq(Int) /\ << << c >> >> \in Seq(Seq(Int))
  <2>1. << c >> \in Seq(Int) /\ <<>> \in Seq(Int)
    BY EmptySeq
  <2>2. QED
    BY <2>1
<1>4. FlattenSeq(<< << c >> >>) = << c >>
  BY <1>3, FlattenOne
<1>5. CASE n = 1
  <2>1. Chars(Word(c, n)) = << << c >> >>
    BY <1>1, <1>2, <1>5 DEF Chars, CharOf
  <2>2. QED
    BY <1>1, <1>4, <2>1, CharsType
<1>6. CASE n = 2
  <2>1. Chars(Word(c, n)) = << << c >>, <<>> >>
    <3>1. PICK w \in Seq(Int) : w = Word(c, n)
      BY <1>1
    <3>2. /\ Len(w) = 2 /\ w[1] = c * 1000 + (n * 20 + 1) /\ w[2] = c * 1000 + 42
          /\ w[1] \in Int /\ w[2] \in Int /\ 1 \in 1..Len(w) /\ 2 \in 1..Len(w)
      BY <1>1, <1>6, <3>1
    <3>3. ASSUME NEW k \in 1..Len(w)
          PROVE  (k = 1 => Chars(w)[k] = << c >>) /\ (k = 2 => Chars(w)[k] = <<>>)
      <4>1. Chars(w)[k] = CharOf(w[k])
        BY CharsAt
      <4>2. (k = 1 => w[k] = c * 1000 + (n * 20 + 1)) /\ (k = 2 => w[k] = c * 1000 + 42)
        BY <3>2
      <4>3. CharOf(c * 1000 + (n * 20 + 1)) = << c >> /\ CharOf(c * 1000 + 42) = <<>>
        BY <1>2 DEF CharOf
      <4>4. QED
        BY <4>1, <4>2, <4>3
    <3>4. Chars(w)[1] = << c >> /\ Chars(w)[2] = <<>>
      BY <3>2, <3>3
    <3>5. << << c >>, <<>> >> \in Seq(Seq(Int)) /\ Len(<< << c >>, <<>> >>) = 2
      BY <1>3
    <3>6. \A i \in 1..2 : Chars(w)[i] = << << c >>, <<>> >>[i]
      BY <3>4
    <3>7. Chars(w) \in Seq(Seq(Int)) /\ Len(Chars(w)) = 2
      BY <3>2, CharsLen
    <3>8. Chars(w) = << << c >>, <<>> >>
      BY <3>5, <3>6, <3>7, SeqEqual
    <3>9. QED
      BY <3>1, <3>8
  <2>2. << << c >>, <<>> >> = Append(<< << c >> >>, <<>>)
    OBVIOUS
  <2>3. FlattenSeq(Append(<< << c >> >>, <<>>)) = << c >> \o <<>>
    BY <1>3, <1>4, FlattenSnoc
  <2>4. QED
    BY <1>1, <1>3, <2>1, <2>2, <2>3, CharsJoin, ConcatEmptySeq
<1>7. QED
  BY <1>5, <1>6

(* The characters of a text, each in its bytes.                              *)
Pieces(charset, kind, v) ==
    [i \in 1..Len(v) |-> IF kind = "Text" THEN CharBytes(charset, v[i]) ELSE Byte(v[i])]

(* A text decodes to its characters, a string of bytes to its bytes. *)
LEMMA TextDecodes ==
    ASSUME NEW charset, NEW val, val.v \in Seq(Int)
    PROVE  /\ TextBytes(charset, val) \in Seq(Int)
           /\ DecodedText(TextBytes(charset, val)) = val.v
<1> DEFINE kind == val.kind
           Piece(c) == IF kind = "Text" THEN CharBytes(charset, c) ELSE Byte(c)
           Ps(v) == Pieces(charset, kind, v)
           Good == {v \in Seq(Int) : /\ FlattenSeq(Ps(v)) \in Seq(Int)
                                     /\ DecodedText(FlattenSeq(Ps(v))) = v}
<1>1. ASSUME NEW c \in Int
      PROVE  Piece(c) \in Seq(Int) /\ DecodedText(Piece(c)) = << c >>
  <2>1. 1 \in 1..2 /\ 2 \in 1..2 /\ 1 \in Nat /\ 2 \in Nat
    OBVIOUS
  <2>2. Piece(c) = Word(c, 1) \/ Piece(c) = Word(c, 2)
    BY DEF CharBytes, Byte
  <2>3. /\ Word(c, 1) \in Seq(Int) /\ Word(c, 2) \in Seq(Int)
        /\ DecodedText(Word(c, 1)) = << c >> /\ DecodedText(Word(c, 2)) = << c >>
    BY <2>1, WordType, DecodedChar
  <2>4. QED
    BY <2>2, <2>3
<1> HIDE DEF Piece
<1>2. ASSUME NEW v \in Seq(Int)
      PROVE  Ps(v) \in Seq(Seq(Int)) /\ Len(Ps(v)) = Len(v) /\ \A i \in 1..Len(v) : Ps(v)[i] = Piece(v[i])
  <2>1. Len(v) \in Nat /\ \A i \in 1..Len(v) : Piece(v[i]) \in Seq(Int)
    BY <1>1, LenProperties, ElementOfSeq
  <2>2. Ps(v) = [i \in 1..Len(v) |-> Piece(v[i])]
    BY DEF Pieces, Piece
  <2>3. QED
    BY <2>1, <2>2
<1> HIDE DEF Ps
<1>3. <<>> \in Good
  <2>1. <<>> \in Seq(Int) /\ Len(<<>>) = 0
    BY EmptySeq
  <2>2. Ps(<<>>) = <<>>
    BY <1>2, <2>1, EmptySeq
  <2>3. Chars(<<>>) = <<>>
    BY <2>1, CharsLen, EmptySeq
  <2>4. QED
    BY <2>1, <2>2, <2>3, CharsJoin, FlattenEmpty
<1>4. ASSUME NEW v \in Seq(Int), NEW c \in Int, v \in Good
      PROVE  Append(v, c) \in Good
  <2>1. /\ Append(v, c) \in Seq(Int) /\ Len(Append(v, c)) = Len(v) + 1 /\ Len(v) \in Nat
        /\ \A i \in 1..Len(v) : Append(v, c)[i] = v[i]
        /\ Append(v, c)[Len(v) + 1] = c
    BY AppendProperties, LenProperties
  <2>2. Piece(c) \in Seq(Int) /\ DecodedText(Piece(c)) = << c >>
    BY <1>1
  <2>3. /\ Append(Ps(v), Piece(c)) \in Seq(Seq(Int)) /\ Len(Append(Ps(v), Piece(c))) = Len(v) + 1
        /\ \A i \in 1..Len(v) : Append(Ps(v), Piece(c))[i] = Ps(v)[i]
        /\ Append(Ps(v), Piece(c))[Len(v) + 1] = Piece(c)
    BY <1>2, <2>2, AppendProperties
  <2>4. ASSUME NEW i \in 1..Len(v) + 1
        PROVE  Ps(Append(v, c))[i] = Append(Ps(v), Piece(c))[i]
    <3>1. Ps(Append(v, c))[i] = Piece(Append(v, c)[i])
      BY <1>2, <2>1
    <3>2. CASE i \in 1..Len(v)
      BY <1>2, <2>1, <2>3, <3>1, <3>2
    <3>3. CASE i = Len(v) + 1
      BY <2>1, <2>3, <3>1, <3>3
    <3>4. i \in 1..Len(v) \/ i = Len(v) + 1
      BY <2>1
    <3>5. QED
      BY <3>2, <3>3, <3>4
  <2>5. Ps(Append(v, c)) = Append(Ps(v), Piece(c))
    <3>1. Ps(Append(v, c)) \in Seq(Seq(Int)) /\ Len(Ps(Append(v, c))) = Len(v) + 1
      BY <1>2, <2>1
    <3>2. QED
      BY <2>3, <2>4, <3>1, SeqEqual
  <2>6. FlattenSeq(Ps(Append(v, c))) = FlattenSeq(Ps(v)) \o Piece(c)
    BY <1>2, <2>2, <2>5, FlattenSnoc
  <2>7. FlattenSeq(Ps(v)) \in Seq(Int) /\ DecodedText(FlattenSeq(Ps(v))) = v
    BY <1>4
  <2>8. FlattenSeq(Ps(v)) \o Piece(c) \in Seq(Int)
    BY <2>2, <2>7, BytesJoin
  <2>9. DecodedText(FlattenSeq(Ps(v)) \o Piece(c)) = v \o << c >>
    BY <2>2, <2>7, DecodedConcat
  <2>10. v \o << c >> = Append(v, c)
    BY AppendIsConcat
  <2>11. QED
    BY <2>1, <2>6, <2>8, <2>9, <2>10
<1>5. Seq(Int) \subseteq Good
  BY <1>3, <1>4, SeqSetInduction
<1>6. TextBytes(charset, val) = FlattenSeq(Ps(val.v))
  BY DEF TextBytes, Ps, Pieces
<1>7. QED
  BY <1>5, <1>6

(* The blanks behind a text decode to blanks. *)
LEMMA BlanksDecode ==
    ASSUME NEW n \in Nat
    PROVE  DecodedText(Blanks(n)) \in Seq({32})
<1>1. /\ Blanks(n) \in Seq(Int) /\ Len(Blanks(n)) = n
      /\ \A i \in 1..n : Blanks(n)[i] = 32021
  BY FillType DEF Blanks, ByteOf
<1>2. 32021 \div 1000 = 32 /\ (32021 % 1000) # 42
  OBVIOUS
<1>3. << 32 >> \in Seq({32})
  OBVIOUS
<1>4. Chars(Blanks(n)) = [i \in 1..n |-> << 32 >>]
  BY <1>1, <1>2 DEF Chars, CharOf
<1>5. Chars(Blanks(n)) \in Seq(Seq({32}))
  BY <1>3, <1>4
<1>6. QED
  BY <1>1, <1>5, CharsType, FlattenType

(* A set of numbers up to a bound has a greatest. *)
LEMMA GreatestIs ==
    ASSUME NEW n \in Nat, NEW T, T \subseteq 0..n, T # {}
    PROVE  Max(T) \in T /\ \A y \in T : Max(T) >= y
<1> DEFINE Done == {k \in Nat : \A U : (U \subseteq 0..k /\ U # {}) => \E x \in U : \A y \in U : x >= y}
<1>1. 0 \in Done
  OBVIOUS
<1>2. ASSUME NEW k \in Nat, k \in Done
      PROVE  k + 1 \in Done
  <2>1. SUFFICES ASSUME NEW U, U \subseteq 0..(k + 1), U # {}
                 PROVE  \E x \in U : \A y \in U : x >= y
    OBVIOUS
  <2>2. CASE k + 1 \in U
    BY <2>1, <2>2
  <2>3. CASE k + 1 \notin U
    <3>1. U \subseteq 0..k
      BY <2>1, <2>3
    <3>2. QED
      BY <1>2, <2>1, <3>1
  <2>4. QED
    BY <2>2, <2>3
<1>3. Nat \subseteq Done
  BY <1>1, <1>2, NatSetInduction
<1>4. \E x \in T : \A y \in T : x >= y
  BY <1>3
<1>5. QED
  BY <1>4 DEF Max

(* Blanks at the end make no difference to the text without them. *)
LEMMA TrimBlanks ==
    ASSUME NEW s \in Seq(Int), NEW t \in Seq({32})
    PROVE  TrimEnd(s \o t) = TrimEnd(s)
<1> DEFINE Said(u) == {0} \cup {i \in 1..Len(u) : u[i] # 32}
<1>1. t \in Seq(Int) /\ Len(t) \in Nat /\ Len(s) \in Nat /\ \A i \in 1..Len(t) : t[i] = 32
  BY SeqMonotonic, LenProperties, ElementOfSeq
<1>2. /\ Len(s \o t) = Len(s) + Len(t)
      /\ \A i \in 1..Len(s) + Len(t) : (s \o t)[i] = IF i <= Len(s) THEN s[i] ELSE t[i - Len(s)]
  BY <1>1, ConcatProperties
<1>3. Said(s \o t) = Said(s)
  <2>1. ASSUME NEW i \in 1..Len(s) + Len(t), (s \o t)[i] # 32
        PROVE  i \in 1..Len(s) /\ s[i] # 32
    BY <1>1, <1>2, <2>1
  <2>2. ASSUME NEW i \in 1..Len(s), s[i] # 32
        PROVE  i \in 1..Len(s) + Len(t) /\ (s \o t)[i] # 32
    BY <1>1, <1>2, <2>2
  <2>3. QED
    BY <1>2, <2>1, <2>2
<1>4. Said(s) \subseteq 0..Len(s) /\ Said(s) # {}
  BY <1>1
<1> DEFINE m == Max(Said(s))
<1>5. m \in 0..Len(s)
  BY <1>1, <1>4, GreatestIs
<1>6. TrimEnd(s \o t) = SubSeq(s \o t, 1, m) /\ TrimEnd(s) = SubSeq(s, 1, m)
  BY <1>3 DEF TrimEnd
<1> HIDE DEF m
<1>7. CASE m = 0
  BY <1>6, <1>7, SubSeqEmpty
<1>8. CASE m # 0
  <2>1. 1 \in 1..Len(s) /\ m \in 1..Len(s)
    BY <1>1, <1>5, <1>8
  <2>2. SubSeq(s \o t, 1, m) = SubSeq(s, 1, m)
    BY <1>1, <2>1, SubSeqOfConcat1
  <2>3. QED
    BY <1>6, <2>2
<1>9. QED
  BY <1>7, <1>8

-------------------------------------------------------------------------------
(* Columns of numbers.                                                       *)
Columns == [type : ColumnTypes, sub : Int, length : Nat]
Texts == {"TEXT", "VARYING", "NULL"}
Zones == {"TIME_TZ", "TIMESTAMP_TZ"}

(* What a column of numbers accepts, with as many numbers as its type has    *)
(* words.                                                                    *)
LEMMA AcceptedKinds ==
    ASSUME NEW col \in Columns, NEW val \in ValueSet, NEW charset,
           Fits(col, val, charset), col.type \notin Texts
    PROVE  /\ col.type # "unknown"
           /\ col.type \in {"SHORT", "LONG", "INT64"} => val.kind \in {"Short", "Int", "BigInt", "Int128"}
           /\ col.type = "INT128" => val.kind \in {"Short", "Int", "BigInt", "Int128"}
           /\ col.type \in {"FLOAT", "DOUBLE"} => val.kind \in {"Float", "Double"}
           /\ col.type = "TYPE_DATE" => val.kind \in {"Date", "Timestamp"}
           /\ col.type = "TYPE_TIME" => val.kind \in {"Time", "Timestamp"}
           /\ col.type = "TIMESTAMP" => val.kind = "Timestamp"
           /\ col.type = "BOOLEAN" => val.kind = "Bool"
           /\ col.type \in {"DEC16", "DEC34"} => val.kind = "DecFloat"
           /\ col.type \in {"BLOB", "QUAD"} => val.kind = "Blob"
           /\ col.type = "ARRAY" => val.kind = "Array"
           /\ col.type = "TIME_TZ" => val.kind = "TimeTz"
           /\ col.type = "TIMESTAMP_TZ" => val.kind = "TimestampTz"
  BY DEF Fits, Accepted, AsI64, IntBytes, Texts, Columns, ColumnTypes

(* As many numbers as its kind has. *)
LEMMA KindArity ==
    ASSUME NEW val \in ValueSet
    PROVE  /\ val.v \in Seq(Int)
           /\ val.kind \in {"Short", "Int", "BigInt", "Int128", "Float", "Double", "Date", "Time",
                            "Blob", "Array", "Bool", "DecFloat"} => Len(val.v) = 1
           /\ val.kind = "Timestamp" => Len(val.v) = 2
           /\ val.kind = "TimeTz" => Len(val.v) = 3
           /\ val.kind = "TimestampTz" => Len(val.v) = 4
<1>1. val.v \in Seq(Int)
  BY DEF ValueSet
<1>2. val.kind \in DOMAIN Arity => Len(val.v) = Arity[val.kind]
  BY DEF ValueSet
<1>3. ASSUME val.kind \in {"Short", "Int", "BigInt", "Int128", "Float", "Double", "Date", "Time",
                          "Blob", "Array", "Bool", "DecFloat"}
      PROVE  Len(val.v) = 1
  <2>1. val.kind \in DOMAIN Arity
    BY <1>3 DEF Arity
  <2>2. Arity[val.kind] = 1
    BY <1>3 DEF Arity
  <2>3. QED
    BY <1>2, <2>1, <2>2
<1>4. ASSUME val.kind \in {"Timestamp", "TimeTz", "TimestampTz"}
      PROVE  Len(val.v) = CASE val.kind = "Timestamp" -> 2 [] val.kind = "TimeTz" -> 3 [] OTHER -> 4
  <2>1. val.kind \in DOMAIN Arity
    BY <1>4 DEF Arity
  <2>2. Arity[val.kind] = CASE val.kind = "Timestamp" -> 2 [] val.kind = "TimeTz" -> 3 [] OTHER -> 4
    BY <1>4 DEF Arity
  <2>3. QED
    BY <1>2, <2>1, <2>2
<1>5. QED
  BY <1>1, <1>3, <1>4

(* The words of a column's values, for the server. *)
WordCount(type) ==
    CASE type \in {"TIMESTAMP", "TIME_TZ"} -> 2 [] type = "TIMESTAMP_TZ" -> 3 [] OTHER -> 1

(* A value's numbers are as many as its column has words. *)
LEMMA NumbersAre ==
    ASSUME NEW col \in Columns, NEW val \in ValueSet, NEW charset,
           Fits(col, val, charset), col.type \notin Texts
    PROVE  Numbers(col, val) \in Seq(Int) /\ Len(Numbers(col, val)) = WordCount(col.type)
<1> DEFINE v == val.v
           n == Len(v)
<1>1. v \in Seq(Int) /\ n \in Nat /\ \A i \in 1..n : v[i] \in Int
  BY KindArity, LenProperties, ElementOfSeq
<1>2. \A x \in Int : << x >> \in Seq(Int) /\ Len(<< x >>) = 1
  OBVIOUS
<1> HIDE DEF v
<1>3. CASE col.type = "FLOAT" /\ val.kind = "Double"
  <2>1. n = 1
    BY <1>3, KindArity DEF v
  <2>2. v[1] \in Int
    BY <1>1, <2>1
  <2>3. Rounded(v[1]) \in Int
    BY <2>2 DEF Rounded
  <2>4. Numbers(col, val) = << Rounded(v[1]) >>
    BY <1>3 DEF Numbers, v
  <2>5. WordCount(col.type) = 1
    BY <1>3 DEF WordCount
  <2>6. QED
    BY <1>2, <2>3, <2>4, <2>5
<1>4. CASE col.type = "TYPE_DATE"
  <2>1. n \in 1..2
    BY <1>4, AcceptedKinds, KindArity DEF v
  <2>2. v[1] \in Int
    BY <1>1, <2>1
  <2>3. Numbers(col, val) = << v[1] >>
    BY <1>4 DEF Numbers, v
  <2>4. WordCount(col.type) = 1
    BY <1>4 DEF WordCount
  <2>5. QED
    BY <1>2, <2>2, <2>3, <2>4
<1>5. CASE col.type = "TYPE_TIME"
  <2>1. n \in 1..2
    BY <1>5, AcceptedKinds, KindArity DEF v
  <2>2. v[n] \in Int
    BY <1>1, <2>1
  <2>3. Numbers(col, val) = << v[n] >>
    BY <1>5 DEF Numbers, v
  <2>4. WordCount(col.type) = 1
    BY <1>5 DEF WordCount
  <2>5. QED
    BY <1>2, <2>2, <2>3, <2>4
<1>6. CASE col.type \in Zones
  <2>1. n = WordCount(col.type) + 1 /\ WordCount(col.type) \in Nat
    <3>1. (col.type = "TIME_TZ" => n = 3) /\ (col.type = "TIMESTAMP_TZ" => n = 4)
      BY AcceptedKinds, KindArity DEF v
    <3>2. (col.type = "TIME_TZ" => WordCount(col.type) = 2)
          /\ (col.type = "TIMESTAMP_TZ" => WordCount(col.type) = 3)
      BY DEF WordCount
    <3>3. CASE col.type = "TIME_TZ"
      BY <3>1, <3>2, <3>3
    <3>4. CASE col.type = "TIMESTAMP_TZ"
      BY <3>1, <3>2, <3>4
    <3>5. QED
      BY <1>6, <3>3, <3>4 DEF Zones
  <2>2. SubSeq(v, 1, n - 1) \in Seq(Int) /\ Len(SubSeq(v, 1, n - 1)) = n - 1
    <3>1. n - 1 \in Int /\ \A i \in 1..(n - 1) : v[i] \in Int
      BY <1>1, <2>1
    <3>2. n - 1 \in Nat /\ (1 <= n - 1 => (n - 1) - 1 + 1 = n - 1) /\ (~(1 <= n - 1) => n - 1 = 0)
      BY <2>1
    <3>3. QED
      BY <3>1, <3>2, SubSeqProperties
  <2>3. Numbers(col, val) = SubSeq(v, 1, n - 1)
    BY <1>6 DEF Numbers, v, Front, Zones
  <2>4. QED
    BY <2>1, <2>2, <2>3
<1>7. CASE /\ ~(col.type = "FLOAT" /\ val.kind = "Double") /\ col.type \notin Zones
           /\ col.type \notin {"TYPE_DATE", "TYPE_TIME"}
  <2>1. Numbers(col, val) = v
    BY <1>7 DEF Numbers, v, Zones
  <2>2. col.type = "TIMESTAMP" => n = WordCount(col.type)
    BY AcceptedKinds, KindArity DEF v, WordCount
  <2>3. col.type # "TIMESTAMP" => n = 1 /\ WordCount(col.type) = 1
    BY <1>7, AcceptedKinds, KindArity DEF v, WordCount, Zones, Texts, Columns, ColumnTypes
  <2>4. QED
    BY <1>1, <2>1, <2>2, <2>3
<1>8. QED
  BY <1>3, <1>4, <1>5, <1>6, <1>7

(* The descriptor of a column of numbers tells as many words, and as wide,   *)
(* as are written: for a column with a time zone, only the one of input_blr. *)
LEMMA DeclaredWords ==
    ASSUME NEW col \in Columns, col.type \notin Texts, col.type # "unknown", NEW out \in BOOLEAN,
           out => col.type \notin Zones
    PROVE  /\ PushType(col, out).dtype \notin {"text", "varying"}
           /\ WireWords(PushType(col, out).dtype)
                  = [count |-> WordCount(col.type), width |-> Width(col.type)]
           /\ Width(col.type) \in {1, 4, 8, 16}
<1>1. col.type \in {"SHORT", "LONG", "INT64", "INT128", "FLOAT", "DOUBLE", "TYPE_DATE", "TYPE_TIME"}
      => /\ PushType(col, out).dtype \notin {"text", "varying"}
         /\ WireWords(PushType(col, out).dtype)
                = [count |-> WordCount(col.type), width |-> Width(col.type)]
  BY DEF PushType, BlrOf, WireWords, WordCount, Width
<1>2. col.type \in {"TIMESTAMP", "BLOB", "QUAD", "ARRAY", "BOOLEAN", "DEC16", "DEC34"}
      => /\ PushType(col, out).dtype \notin {"text", "varying"}
         /\ WireWords(PushType(col, out).dtype)
                = [count |-> WordCount(col.type), width |-> Width(col.type)]
  BY DEF PushType, BlrOf, WireWords, WordCount, Width
<1>3. col.type \in Zones
      => /\ PushType(col, out).dtype \notin {"text", "varying"}
         /\ WireWords(PushType(col, out).dtype)
                = [count |-> WordCount(col.type), width |-> Width(col.type)]
  BY DEF PushType, BlrOf, WireWords, WordCount, Width, Zones
<1>4. Width(col.type) \in {1, 4, 8, 16}
  BY DEF Width
<1>5. QED
  BY <1>1, <1>2, <1>3, <1>4 DEF Columns, ColumnTypes, Texts, Zones

-------------------------------------------------------------------------------
(* A value in its column, for the server.                                    *)

(* The bytes a text column gets are no longer than the column. *)
LEMMA TextFits ==
    ASSUME NEW col \in Columns, NEW val \in ValueSet, NEW charset,
           Fits(col, val, charset), col.type \in {"TEXT", "VARYING"}
    PROVE  /\ TextBytes(charset, val) \in Seq(Int) /\ Len(TextBytes(charset, val)) \in Nat
           /\ col.length \in Nat /\ Len(TextBytes(charset, val)) <= col.length
           /\ DecodedText(TextBytes(charset, val)) = val.v
<1>1. val.v \in Seq(Int)
  BY KindArity
<1>2. TextBytes(charset, val) \in Seq(Int) /\ DecodedText(TextBytes(charset, val)) = val.v
  BY <1>1, TextDecodes
<1>3. Len(TextBytes(charset, val)) <= col.length
  <2>1. CASE col.type = "TEXT"
    BY <2>1 DEF Fits, Accepted
  <2>2. CASE col.type = "VARYING"
    BY <2>2 DEF Fits, Accepted
  <2>3. QED
    BY <2>1, <2>2
<1>4. col.length \in Nat
  BY DEF Columns
<1>5. QED
  BY <1>2, <1>3, <1>4, LenProperties

(* A text of a fixed length: the text and blanks to the length.              *)
Filled(length, text) == text \o Blanks(length - Len(text))

(* It has that length. *)
LEMMA FilledType ==
    ASSUME NEW length \in Nat, NEW text \in Seq(Int), Len(text) <= length
    PROVE  Filled(length, text) \in Seq(Int) /\ Len(Filled(length, text)) = length
<1>1. Len(text) \in Nat /\ length - Len(text) \in Nat
  BY LenProperties
<1>2. /\ Blanks(length - Len(text)) \in Seq(Int)
      /\ Len(Blanks(length - Len(text))) = length - Len(text)
  BY <1>1, FillType
<1>3. /\ Filled(length, text) \in Seq(Int)
      /\ Len(Filled(length, text)) = Len(text) + Len(Blanks(length - Len(text)))
  BY <1>2, BytesJoin DEF Filled
<1>4. Len(text) + (length - Len(text)) = length
  BY <1>1
<1>5. QED
  BY <1>2, <1>3, <1>4

(* Every form of encode_value.                                               *)
LEMMA EncodeForms ==
    ASSUME NEW col, NEW val, NEW charset
    PROVE  LET text == TextBytes(charset, val)
           IN  /\ col.type = "VARYING" => encode_value(col, val, charset)
                                              = Word(Len(text), 4) \o text \o Pad(Len(text))
               /\ col.type = "TEXT" => encode_value(col, val, charset)
                                           = Filled(col.length, text) \o Pad(col.length)
               /\ col.type = "NULL" => encode_value(col, val, charset)
                                           = Zeros(col.length) \o Pad(col.length)
               /\ col.type \notin Texts => encode_value(col, val, charset)
                                               = Words(Numbers(col, val), Width(col.type))
  BY DEF encode_value, Filled, Texts

(* The descriptors of texts. *)
LEMMA TextDescriptor ==
    ASSUME NEW col, NEW out
    PROVE  /\ col.type \in {"TEXT", "NULL"} =>
                  PushType(col, out) = [dtype |-> "text", length |-> col.length]
           /\ col.type = "VARYING" =>
                  PushType(col, out) = [dtype |-> "varying", length |-> col.length]
<1>1. ASSUME col.type \in {"TEXT", "NULL"}
      PROVE  PushType(col, out) = [dtype |-> "text", length |-> col.length]
  BY <1>1 DEF PushType, BlrOf
<1>2. ASSUME col.type = "VARYING"
      PROVE  PushType(col, out) = [dtype |-> "varying", length |-> col.length]
  BY <1>2 DEF PushType, BlrOf
<1>3. QED
  BY <1>1, <1>2

(* encode_value writes bytes. *)
LEMMA EncodeType ==
    ASSUME NEW col \in Columns, NEW val \in ValueSet, NEW charset, Fits(col, val, charset)
    PROVE  encode_value(col, val, charset) \in Seq(Int)
<1> DEFINE text == TextBytes(charset, val)
<1>1. CASE col.type = "VARYING"
  <2>1. text \in Seq(Int) /\ Len(text) \in Nat
    BY <1>1, TextFits
  <2>2. Pad(Len(text)) \in Seq(Int)
    BY <2>1, PadType
  <2>3. Word(Len(text), 4) \in Seq(Int)
    <3>1. Len(text) \in Int /\ 4 \in Nat
      BY <2>1
    <3>2. QED
      BY <3>1, WordType
  <2>4. Word(Len(text), 4) \o text \in Seq(Int)
    BY <2>1, <2>3, BytesJoin
  <2>5. (Word(Len(text), 4) \o text) \o Pad(Len(text)) \in Seq(Int)
    BY <2>2, <2>4, BytesJoin
  <2>6. QED
    BY <1>1, <2>5, EncodeForms
<1>2. CASE col.type = "TEXT"
  <2>1. text \in Seq(Int) /\ Len(text) <= col.length /\ col.length \in Nat
    BY <1>2, TextFits
  <2>2. Filled(col.length, text) \in Seq(Int)
    BY <2>1, FilledType
  <2>3. Pad(col.length) \in Seq(Int)
    BY <2>1, PadType
  <2>4. Filled(col.length, text) \o Pad(col.length) \in Seq(Int)
    BY <2>2, <2>3, BytesJoin
  <2>5. QED
    BY <1>2, <2>4, EncodeForms
<1>3. CASE col.type = "NULL"
  <2>1. col.length \in Nat
    BY DEF Columns
  <2>2. Zeros(col.length) \in Seq(Int) /\ Pad(col.length) \in Seq(Int)
    BY <2>1, FillType, PadType
  <2>3. Zeros(col.length) \o Pad(col.length) \in Seq(Int)
    BY <2>2, BytesJoin
  <2>4. QED
    BY <1>3, <2>3, EncodeForms
<1>4. CASE col.type \notin Texts
  <2>1. Numbers(col, val) \in Seq(Int)
    BY <1>4, NumbersAre
  <2>2. Width(col.type) \in Nat
    BY DEF Width
  <2>3. Words(Numbers(col, val), Width(col.type)) \in Seq(Int)
    BY <2>1, <2>2, PaddedType
  <2>4. QED
    BY <1>4, <2>3, EncodeForms
<1>5. QED
  BY <1>1, <1>2, <1>3, <1>4 DEF Texts

(* The server that knows the descriptor reads the value the column holds and *)
(* stops where it ends.                                                      *)
LEMMA ServerReads ==
    ASSUME NEW col \in Columns, NEW val \in ValueSet, NEW charset, Fits(col, val, charset),
           ~IsNull(val), NEW out \in BOOLEAN, out => col.type \notin Zones,
           NEW buf \in Seq(Int), NEW pos \in Nat,
           Placed(buf, pos, encode_value(col, val, charset))
    PROVE  ReadByBlr(buf, pos, PushType(col, out))
               = [v |-> Held(col, val, charset), next |-> pos + Len(encode_value(col, val, charset))]
<1> DEFINE text == TextBytes(charset, val)
           d == PushType(col, out)
<1>1. CASE col.type = "VARYING"
  <2>1. text \in Seq(Int)
    BY <1>1, TextFits
  <2>2. encode_value(col, val, charset) = Word(Len(text), 4) \o text \o Pad(Len(text))
    BY <1>1, EncodeForms
  <2>3. ReadVarying(buf, pos)
            = [v |-> text, next |-> pos + Len(Word(Len(text), 4) \o text \o Pad(Len(text)))]
    BY <2>1, <2>2, VaryingRead
  <2>4. d.dtype = "varying"
    BY <1>1, TextDescriptor
  <2>5. ReadByBlr(buf, pos, d) = ReadVarying(buf, pos)
    BY <2>4 DEF ReadByBlr
  <2>6. Held(col, val, charset) = text
    BY <1>1 DEF Held
  <2>7. QED
    BY <2>2, <2>3, <2>5, <2>6
<1>2. CASE col.type = "TEXT"
  <2>1. Filled(col.length, text) \in Seq(Int) /\ Len(Filled(col.length, text)) = col.length
    BY <1>2, TextFits, FilledType
  <2>2. encode_value(col, val, charset) = Filled(col.length, text) \o Pad(Len(Filled(col.length, text)))
    BY <1>2, <2>1, EncodeForms
  <2>3. ReadText(buf, pos, Len(Filled(col.length, text)))
            = [v |-> Filled(col.length, text),
               next |-> pos + Len(Filled(col.length, text) \o Pad(Len(Filled(col.length, text))))]
    <3>1. PICK bytes \in Seq(Int) : bytes = Filled(col.length, text)
      BY <2>1
    <3>2. Placed(buf, pos, bytes \o Pad(Len(bytes)))
      BY <2>2, <3>1
    <3>3. ReadText(buf, pos, Len(bytes)) = [v |-> bytes, next |-> pos + Len(bytes \o Pad(Len(bytes)))]
      BY <3>2, TextRead
    <3>4. QED
      BY <3>1, <3>3
  <2>4. d.dtype = "text" /\ d.length = col.length
    BY <1>2, TextDescriptor
  <2>5. ReadByBlr(buf, pos, d) = ReadText(buf, pos, col.length)
    BY <2>4 DEF ReadByBlr
  <2>6. Held(col, val, charset) = Filled(col.length, text)
    BY <1>2 DEF Held, Filled
  <2>7. QED
    BY <2>1, <2>2, <2>3, <2>5, <2>6
<1>3. CASE col.type = "NULL"
  <2>1. Zeros(col.length) \in Seq(Int) /\ Len(Zeros(col.length)) = col.length
    BY FillType DEF Columns
  <2>2. encode_value(col, val, charset) = Zeros(col.length) \o Pad(Len(Zeros(col.length)))
    BY <1>3, <2>1, EncodeForms
  <2>3. ReadText(buf, pos, Len(Zeros(col.length)))
            = [v |-> Zeros(col.length),
               next |-> pos + Len(Zeros(col.length) \o Pad(Len(Zeros(col.length))))]
    <3>1. PICK bytes \in Seq(Int) : bytes = Zeros(col.length)
      BY <2>1
    <3>2. Placed(buf, pos, bytes \o Pad(Len(bytes)))
      BY <2>2, <3>1
    <3>3. ReadText(buf, pos, Len(bytes)) = [v |-> bytes, next |-> pos + Len(bytes \o Pad(Len(bytes)))]
      BY <3>2, TextRead
    <3>4. QED
      BY <3>1, <3>3
  <2>4. d.dtype = "text" /\ d.length = col.length
    BY <1>3, TextDescriptor
  <2>5. ReadByBlr(buf, pos, d) = ReadText(buf, pos, col.length)
    BY <2>4 DEF ReadByBlr
  <2>6. Held(col, val, charset) = Zeros(col.length)
    BY <1>3 DEF Held
  <2>7. QED
    BY <2>1, <2>2, <2>3, <2>5, <2>6
<1>4. CASE col.type \notin Texts
  <2> DEFINE ns == Numbers(col, val)
             w == Width(col.type)
  <2>1. ns \in Seq(Int) /\ Len(ns) = WordCount(col.type)
    BY <1>4, NumbersAre
  <2>2. col.type # "unknown"
    BY <1>4, AcceptedKinds
  <2>3. /\ d.dtype \notin {"text", "varying"}
        /\ WireWords(d.dtype) = [count |-> WordCount(col.type), width |-> w]
        /\ w \in {1, 4, 8, 16}
    BY <1>4, <2>2, DeclaredWords
  <2>4. encode_value(col, val, charset) = Words(ns, w)
    BY <1>4, EncodeForms
  <2>5. ReadWords(buf, pos, Len(ns), w)
            = [v |-> [i \in 1..Len(ns) |-> Whole(ns[i])], next |-> pos + Len(Words(ns, w))]
    <3>1. w \in 1..16 /\ pos \in Int /\ Placed(buf, pos, Words(ns, w))
      BY <2>3, <2>4
    <3>2. QED
      BY <2>1, <3>1, WordsRead
  <2>6. ReadByBlr(buf, pos, d) = ReadWords(buf, pos, Len(ns), w)
    BY <2>1, <2>3 DEF ReadByBlr
  <2>7. Held(col, val, charset) = [i \in 1..Len(ns) |-> Whole(ns[i])]
    BY <1>4 DEF Held, Texts
  <2>8. QED
    BY <2>4, <2>5, <2>6, <2>7
<1>5. QED
  BY <1>1, <1>2, <1>3, <1>4 DEF Texts

-------------------------------------------------------------------------------
(* The bitmap of nulls.                                                      *)

(* Each of eight bits is found again in their sum. *)
LEMMA BitFound ==
    ASSUME NEW a \in 0..1, NEW b \in 0..1, NEW c \in 0..1, NEW d \in 0..1,
           NEW e \in 0..1, NEW f \in 0..1, NEW g \in 0..1, NEW h \in 0..1,
           NEW s \in Int, s = a + 2 * b + 4 * c + 8 * d + 16 * e + 32 * f + 64 * g + 128 * h
    PROVE  /\ (s \div 1) % 2 = a /\ (s \div 2) % 2 = b /\ (s \div 4) % 2 = c /\ (s \div 8) % 2 = d
           /\ (s \div 16) % 2 = e /\ (s \div 32) % 2 = f /\ (s \div 64) % 2 = g /\ (s \div 128) % 2 = h
<1>1. (s \div 1) % 2 = a /\ (s \div 2) % 2 = b
  OBVIOUS
<1>2. (s \div 4) % 2 = c /\ (s \div 8) % 2 = d
  OBVIOUS
<1>3. (s \div 16) % 2 = e /\ (s \div 32) % 2 = f
  OBVIOUS
<1>4. (s \div 64) % 2 = g /\ (s \div 128) % 2 = h
  OBVIOUS
<1>5. QED
  BY <1>1, <1>2, <1>3, <1>4

(* A bit of a byte tells of one column. *)
LEMMA NullBitFound ==
    ASSUME NEW row, NEW b \in Int, NEW k \in 1..8
    PROVE  /\ NullBits(row, b) \in Int
           /\ (NullBits(row, b) \div BitValue[k]) % 2 = NullBit(row, 8 * (b - 1) + k)
<1> DEFINE Bit(j) == NullBit(row, 8 * (b - 1) + j)
<1>1. \A j \in 1..8 : Bit(j) \in 0..1
  BY DEF NullBit
<1> HIDE DEF Bit
<1>2. NullBits(row, b) = Bit(1) + 2 * Bit(2) + 4 * Bit(3) + 8 * Bit(4) + 16 * Bit(5) + 32 * Bit(6)
                         + 64 * Bit(7) + 128 * Bit(8)
  BY DEF NullBits, Bit
<1>3. PICK x1 \in 0..1, x2 \in 0..1, x3 \in 0..1, x4 \in 0..1, x5 \in 0..1, x6 \in 0..1,
           x7 \in 0..1, x8 \in 0..1 :
               /\ Bit(1) = x1 /\ Bit(2) = x2 /\ Bit(3) = x3 /\ Bit(4) = x4
               /\ Bit(5) = x5 /\ Bit(6) = x6 /\ Bit(7) = x7 /\ Bit(8) = x8
  BY <1>1
<1>4. PICK s \in Int : s = x1 + 2 * x2 + 4 * x3 + 8 * x4 + 16 * x5 + 32 * x6 + 64 * x7 + 128 * x8
  OBVIOUS
<1>5. NullBits(row, b) = s
  BY <1>2, <1>3, <1>4
<1>6. /\ (s \div 1) % 2 = x1 /\ (s \div 2) % 2 = x2 /\ (s \div 4) % 2 = x3 /\ (s \div 8) % 2 = x4
      /\ (s \div 16) % 2 = x5 /\ (s \div 32) % 2 = x6 /\ (s \div 64) % 2 = x7
      /\ (s \div 128) % 2 = x8
  BY <1>4, BitFound
<1>7. (s \div BitValue[k]) % 2 = Bit(k)
  <2>1. k = 1 \/ k = 2 \/ k = 3 \/ k = 4 \/ k = 5 \/ k = 6 \/ k = 7 \/ k = 8
    OBVIOUS
  <2>2. /\ BitValue[1] = 1 /\ BitValue[2] = 2 /\ BitValue[3] = 4 /\ BitValue[4] = 8
        /\ BitValue[5] = 16 /\ BitValue[6] = 32 /\ BitValue[7] = 64 /\ BitValue[8] = 128
    BY DEF BitValue
  <2>3. QED
    BY <1>3, <1>6, <2>1, <2>2
<1>8. QED
  BY <1>5, <1>7 DEF Bit

(* There is a bit for every column. *)
LEMMA BitmapType ==
    ASSUME NEW row, Len(row) \in Nat
    PROVE  /\ null_bitmap_len(Len(row)) \in Nat /\ 8 * null_bitmap_len(Len(row)) >= Len(row)
           /\ Bitmap(row) \in Seq(Int) /\ Len(Bitmap(row)) = null_bitmap_len(Len(row))
           /\ \A b \in 1..null_bitmap_len(Len(row)) :
                  Bitmap(row)[b] = ByteOf(NullBits(row, b), 1, 1)
<1>1. PICK q \in Nat : q = (Len(row) + 7) \div 8 /\ 8 * q >= Len(row)
  <2>1. PICK q \in Int : q = (Len(row) + 7) \div 8
    OBVIOUS
  <2>2. 8 * q <= Len(row) + 7 /\ Len(row) + 7 < 8 * q + 8
    BY <2>1
  <2>3. QED
    BY <2>1, <2>2
<1>2. null_bitmap_len(Len(row)) = align4(q)
  BY <1>1 DEF null_bitmap_len
<1>3. align4(q) \in Nat /\ align4(q) - q \in 0..3
  BY PadType
<1>4. null_bitmap_len(Len(row)) \in Nat /\ 8 * null_bitmap_len(Len(row)) >= Len(row)
  BY <1>1, <1>2, <1>3
<1>5. ASSUME NEW b \in 1..null_bitmap_len(Len(row))
      PROVE  ByteOf(NullBits(row, b), 1, 1) \in Int
  <2>1. b \in Int /\ 1 \in 1..8
    BY <1>4
  <2>2. NullBits(row, b) \in Int
    BY <2>1, NullBitFound
  <2>3. QED
    BY <2>2 DEF ByteOf
<1>6. QED
  BY <1>4, <1>5 DEF Bitmap

(* Who reads the bitmap at its place finds the nulls of the row. *)
LEMMA NullsRead ==
    ASSUME NEW row, Len(row) \in Nat, NEW buf \in Seq(Int), NEW start \in Int,
           Placed(buf, start, Bitmap(row)), NEW i \in 1..Len(row)
    PROVE  BitSet(buf, start, i) <=> IsNull(row[i])
<1> DEFINE n == null_bitmap_len(Len(row))
<1>1. PICK q \in Int, k \in 1..8 : /\ q = (i - 1) \div 8 /\ k = ((i - 1) % 8) + 1
                                  /\ i = 8 * q + k /\ 0 <= q
  <2>1. PICK j \in Nat : j = i - 1
    OBVIOUS
  <2>2. PICK q \in Int, r \in Int : q = j \div 8 /\ r = j % 8
    BY <2>1
  <2>3. j = 8 * q + r /\ 0 <= r /\ r < 8 /\ 0 <= q
    BY <2>1, <2>2
  <2>4. r + 1 \in 1..8 /\ i = 8 * q + (r + 1)
    BY <2>1, <2>3
  <2>5. QED
    BY <2>1, <2>2, <2>3, <2>4
<1>2. /\ n \in Nat /\ 8 * n >= Len(row) /\ Bitmap(row) \in Seq(Int) /\ Len(Bitmap(row)) = n
      /\ \A b \in 1..n : Bitmap(row)[b] = ByteOf(NullBits(row, b), 1, 1)
  BY BitmapType
<1> HIDE DEF n
<1>3. q + 1 \in 1..n
  BY <1>1, <1>2
<1>4. (start + q) + 1 \in 1..Len(buf) /\ buf[(start + q) + 1] = ByteOf(NullBits(row, q + 1), 1, 1)
  <2>1. start + (q + 1) \in 1..Len(buf) /\ buf[start + (q + 1)] = Bitmap(row)[q + 1]
    BY <1>2, <1>3 DEF Placed
  <2>2. start + (q + 1) = (start + q) + 1
    BY <1>1
  <2>3. QED
    BY <1>2, <1>3, <2>1, <2>2
<1>5. PICK x \in Int : x = NullBits(row, q + 1) /\ (x \div BitValue[k]) % 2 = NullBit(row, 8 * q + k)
  <2>1. q + 1 \in Int /\ (q + 1) - 1 = q
    BY <1>1
  <2>2. /\ NullBits(row, q + 1) \in Int
        /\ (NullBits(row, q + 1) \div BitValue[k]) % 2 = NullBit(row, 8 * ((q + 1) - 1) + k)
    BY <2>1, NullBitFound
  <2>3. QED
    BY <2>1, <2>2
<1>6. At(buf, start + q, 1) = Word(x, 1)
  <2>1. (start + q) + 1 <= Len(buf)
    BY <1>4, LenProperties
  <2>2. At(buf, start + q, 1) = [j \in 1..1 |-> ByteOf(x, 1, 1)]
    BY <1>4, <1>5, <2>1 DEF At
  <2>3. Word(x, 1) = [j \in 1..1 |-> ByteOf(x, 1, 1)]
    BY DEF Word
  <2>4. QED
    BY <2>2, <2>3
<1>7. ReadWord(At(buf, start + q, 1)) = x
  <2>1. 1 \in 1..16
    OBVIOUS
  <2>2. QED
    BY <1>6, <2>1, WordRead
<1>8. BitSet(buf, start, i) <=> (x \div BitValue[k]) % 2 = 1
  BY <1>1, <1>7 DEF BitSet
<1>9. NullBit(row, 8 * q + k) = 1 <=> IsNull(row[i])
  BY <1>1 DEF NullBit
<1>10. QED
  BY <1>5, <1>8, <1>9

-------------------------------------------------------------------------------
(* A row, for the server.                                                    *)

(* Two readers that step alike from one position stop at the same positions. *)
LEMMA StepsAgree ==
    ASSUME NEW n \in Nat, NEW f, NEW g, f[0] = g[0],
           \A i \in 1..n : f[i - 1] = g[i - 1] => f[i] = g[i]
    PROVE  \A i \in 0..n : f[i] = g[i]
<1> DEFINE Done == {k \in Nat : k <= n => f[k] = g[k]}
<1>1. 0 \in Done
  OBVIOUS
<1>2. ASSUME NEW k \in Nat, k \in Done
      PROVE  k + 1 \in Done
  <2>1. SUFFICES ASSUME k + 1 <= n
                 PROVE  f[k + 1] = g[k + 1]
    OBVIOUS
  <2>2. k + 1 \in 1..n /\ (k + 1) - 1 = k /\ f[k] = g[k]
    BY <1>2, <2>1
  <2>3. f[(k + 1) - 1] = g[(k + 1) - 1] => f[k + 1] = g[k + 1]
    BY <2>2
  <2>4. QED
    BY <2>2, <2>3
<1>3. Nat \subseteq Done
  BY <1>1, <1>2, NatSetInduction
<1>4. QED
  BY <1>3

(* The positions the server's reader of a row passes.                        *)
SrvNext(p, buf, start, blr) ==
    p = [i \in 0..Len(blr) |->
            IF i = 0 THEN start + null_bitmap_len(Len(blr))
            ELSE IF BitSet(buf, start, i) THEN p[i - 1]
            ELSE ReadByBlr(buf, p[i - 1], blr[i]).next]

(* There is one such list of positions. *)
LEMMA SrvRowReads ==
    ASSUME NEW p, NEW buf, NEW start, NEW blr, Len(blr) \in Nat, SrvNext(p, buf, start, blr)
    PROVE  SrvReadRow(buf, start, blr)
               = [row |-> [i \in 1..Len(blr) |-> IF BitSet(buf, start, i) THEN NullMark
                                                 ELSE ReadByBlr(buf, p[i - 1], blr[i]).v],
                  next |-> p[Len(blr)]]
<1> DEFINE n == Len(blr)
<1>1. PICK q : /\ SrvNext(q, buf, start, blr)
               /\ SrvReadRow(buf, start, blr)
                      = [row |-> [i \in 1..n |-> IF BitSet(buf, start, i) THEN NullMark
                                                 ELSE ReadByBlr(buf, q[i - 1], blr[i]).v],
                         next |-> q[n]]
  BY DEF SrvReadRow, SrvNext
<1>2. p[0] = q[0]
  <2>1. 0 \in 0..n
    OBVIOUS
  <2>2. p[0] = start + null_bitmap_len(n) /\ q[0] = start + null_bitmap_len(n)
    BY <1>1, <2>1 DEF SrvNext
  <2>3. QED
    BY <2>2
<1>3. ASSUME NEW i \in 1..n, p[i - 1] = q[i - 1]
      PROVE  p[i] = q[i]
  <2>1. i \in 0..n /\ i # 0
    OBVIOUS
  <2>2. p[i] = IF BitSet(buf, start, i) THEN p[i - 1] ELSE ReadByBlr(buf, p[i - 1], blr[i]).next
    BY <2>1 DEF SrvNext
  <2>3. q[i] = IF BitSet(buf, start, i) THEN q[i - 1] ELSE ReadByBlr(buf, q[i - 1], blr[i]).next
    BY <1>1, <2>1 DEF SrvNext
  <2>4. QED
    BY <1>3, <2>2, <2>3
<1>4. \A i \in 0..n : p[i] = q[i]
  BY <1>2, <1>3, StepsAgree
<1>5. p[n] = q[n] /\ \A i \in 1..n : p[i - 1] = q[i - 1]
  BY <1>4
<1>6. QED
  BY <1>1, <1>5

(* The values of a row as they are written, none for a null.                 *)
Items(cols, row, charset) ==
    [i \in 1..Len(cols) |-> IF IsNull(row[i]) THEN <<>> ELSE encode_value(cols[i], row[i], charset)]
RowBytes(cols, row, charset) == Bitmap(row) \o FlattenSeq(Items(cols, row, charset))

(* A row that is accepted. *)
Accepts(cols, row, charset) ==
    /\ row \in Seq(ValueSet) /\ Len(row) = Len(cols)
    /\ \A i \in 1..Len(cols) : ~IsNull(row[i]) => Fits(cols[i], row[i], charset)

(* Its items are bytes. *)
LEMMA ItemsType ==
    ASSUME NEW cols \in Seq(Columns), NEW row, NEW charset, Accepts(cols, row, charset)
    PROVE  /\ Items(cols, row, charset) \in Seq(Seq(Int)) /\ Len(Items(cols, row, charset)) = Len(cols)
           /\ FlattenSeq(Items(cols, row, charset)) \in Seq(Int)
           /\ RowBytes(cols, row, charset) \in Seq(Int)
           /\ \A i \in 1..Len(cols) :
                  Items(cols, row, charset)[i] = IF IsNull(row[i]) THEN <<>>
                                                 ELSE encode_value(cols[i], row[i], charset)
<1>1. Len(cols) \in Nat /\ \A i \in 1..Len(cols) : cols[i] \in Columns
  BY LenProperties, ElementOfSeq
<1>2. row \in Seq(ValueSet) /\ Len(row) = Len(cols) /\ \A i \in 1..Len(cols) : row[i] \in ValueSet
  BY ElementOfSeq DEF Accepts
<1>3. ASSUME NEW i \in 1..Len(cols)
      PROVE  (IF IsNull(row[i]) THEN <<>> ELSE encode_value(cols[i], row[i], charset)) \in Seq(Int)
  <2>1. CASE IsNull(row[i])
    BY <2>1, EmptySeq
  <2>2. CASE ~IsNull(row[i])
    <3>1. cols[i] \in Columns /\ row[i] \in ValueSet /\ Fits(cols[i], row[i], charset)
      BY <1>1, <1>2, <2>2 DEF Accepts
    <3>2. QED
      BY <2>2, <3>1, EncodeType
  <2>3. QED
    BY <2>1, <2>2
<1>4. /\ Items(cols, row, charset) \in Seq(Seq(Int)) /\ Len(Items(cols, row, charset)) = Len(cols)
      /\ \A i \in 1..Len(cols) :
             Items(cols, row, charset)[i] = IF IsNull(row[i]) THEN <<>>
                                            ELSE encode_value(cols[i], row[i], charset)
  BY <1>1, <1>3 DEF Items
<1>5. FlattenSeq(Items(cols, row, charset)) \in Seq(Int)
  BY <1>4, FlattenType
<1>6. Bitmap(row) \in Seq(Int)
  <2>1. Len(row) \in Nat
    BY <1>1, <1>2
  <2>2. QED
    BY <2>1, BitmapType
<1>7. RowBytes(cols, row, charset) \in Seq(Int)
  BY <1>5, <1>6, BytesJoin DEF RowBytes
<1>8. QED
  BY <1>4, <1>5, <1>7

(* Where the value of column i of a row ends, in a buffer where the row      *)
(* begins at start.                                                          *)
EndOf(row, items, start, i) == (start + null_bitmap_len(Len(row))) + Ahead(items, i)

(* The bitmap of a row tells its nulls, and its values stand one behind the  *)
(* other.                                                                    *)
RowStands(row, items, buf, start) ==
    /\ EndOf(row, items, start, 0) = start + null_bitmap_len(Len(row))
    /\ EndOf(row, items, start, Len(row)) = start + Len(Bitmap(row) \o FlattenSeq(items))
    /\ \A i \in 0..Len(row) : EndOf(row, items, start, i) \in Nat
    /\ \A i \in 1..Len(row) :
           /\ BitSet(buf, start, i) <=> IsNull(row[i])
           /\ Placed(buf, EndOf(row, items, start, i - 1), items[i])
           /\ EndOf(row, items, start, i) = EndOf(row, items, start, i - 1) + Len(items[i])
           /\ IsNull(row[i]) => EndOf(row, items, start, i) = EndOf(row, items, start, i - 1)

(* So it is for a row wherever its bytes stand.                              *)
LEMMA RowPlaces ==
    ASSUME NEW row, Len(row) \in Nat, NEW items \in Seq(Seq(Int)), Len(items) = Len(row),
           \A i \in 1..Len(row) : IsNull(row[i]) => items[i] = <<>>,
           NEW buf \in Seq(Int), NEW start \in Nat,
           Placed(buf, start, Bitmap(row) \o FlattenSeq(items))
    PROVE  RowStands(row, items, buf, start)
<1> DEFINE n == Len(row)
           head == null_bitmap_len(n)
<1>1. FlattenSeq(items) \in Seq(Int)
  BY FlattenType
<1>2. /\ head \in Nat /\ Bitmap(row) \in Seq(Int) /\ Len(Bitmap(row)) = head
  BY BitmapType
<1>3. /\ Placed(buf, start, Bitmap(row)) /\ Placed(buf, start + head, FlattenSeq(items))
      /\ Len(Bitmap(row) \o FlattenSeq(items)) = head + Len(FlattenSeq(items))
  <2>1. start \in Int
    OBVIOUS
  <2>2. Placed(buf, start, Bitmap(row)) /\ Placed(buf, start + Len(Bitmap(row)), FlattenSeq(items))
    BY <1>1, <1>2, <2>1, BytesPlaced
  <2>3. Len(Bitmap(row) \o FlattenSeq(items)) = Len(Bitmap(row)) + Len(FlattenSeq(items))
    BY <1>1, <1>2, BytesJoin
  <2>4. QED
    BY <1>2, <2>2, <2>3
<1>4. /\ Ahead(items, 0) = 0 /\ \A i \in 0..n : Ahead(items, i) \in Nat
      /\ \A i \in 1..n : Ahead(items, i) = Ahead(items, i - 1) + Len(items[i])
      /\ Ahead(items, n) = Len(FlattenSeq(items))
  BY AheadSteps
<1> HIDE DEF head
<1>5. \A i \in 0..n : EndOf(row, items, start, i) = (start + head) + Ahead(items, i)
  BY DEF EndOf, head
<1>6. \A i \in 0..n : EndOf(row, items, start, i) \in Nat
  <2>1. \A i \in 0..n : (start + head) + Ahead(items, i) \in Nat
    BY <1>2, <1>4
  <2>2. QED
    BY <1>5, <2>1
<1>7. EndOf(row, items, start, 0) = start + null_bitmap_len(n)
  <2>1. 0 \in 0..n /\ (start + head) + 0 = start + head
    BY <1>2
  <2>2. QED
    BY <1>4, <1>5, <2>1 DEF head
<1>8. EndOf(row, items, start, n) = start + Len(Bitmap(row) \o FlattenSeq(items))
  <2>1. n \in 0..n
    OBVIOUS
  <2>2. Len(FlattenSeq(items)) \in Nat
    BY <1>1, LenProperties
  <2>3. (start + head) + Len(FlattenSeq(items)) = start + (head + Len(FlattenSeq(items)))
    BY <1>2, <2>2
  <2>4. QED
    BY <1>3, <1>4, <1>5, <2>1, <2>3
<1>9. ASSUME NEW i \in 1..n
      PROVE  /\ BitSet(buf, start, i) <=> IsNull(row[i])
             /\ Placed(buf, EndOf(row, items, start, i - 1), items[i])
             /\ EndOf(row, items, start, i) = EndOf(row, items, start, i - 1) + Len(items[i])
             /\ IsNull(row[i]) => EndOf(row, items, start, i) = EndOf(row, items, start, i - 1)
  <2>1. i - 1 \in 0..n /\ i \in 0..n /\ start \in Int /\ start + head \in Int
    BY <1>2
  <2>2. Len(items[i]) \in Nat
    BY ElementOfSeq, LenProperties
  <2>3. (start + head) + (Ahead(items, i - 1) + Len(items[i]))
            = ((start + head) + Ahead(items, i - 1)) + Len(items[i])
    <3>1. Ahead(items, i - 1) \in Nat
      BY <1>4, <2>1
    <3>2. QED
      BY <1>2, <2>2, <3>1
  <2>4. EndOf(row, items, start, i) = EndOf(row, items, start, i - 1) + Len(items[i])
    BY <1>4, <1>5, <2>1, <2>3
  <2>5. IsNull(row[i]) => EndOf(row, items, start, i) = EndOf(row, items, start, i - 1)
    <3>1. IsNull(row[i]) => Len(items[i]) = 0
      BY EmptySeq
    <3>2. EndOf(row, items, start, i - 1) + 0 = EndOf(row, items, start, i - 1)
      BY <1>6, <2>1
    <3>3. QED
      BY <2>4, <3>1, <3>2
  <2>6. BitSet(buf, start, i) <=> IsNull(row[i])
    BY <1>3, <2>1, NullsRead
  <2>7. Placed(buf, (start + head) + Ahead(items, i - 1), items[i])
    BY <1>3, <2>1, PlacedFlatten
  <2>8. QED
    BY <1>5, <2>1, <2>4, <2>5, <2>6, <2>7
<1>10. QED
  BY <1>6, <1>7, <1>8, <1>9 DEF RowStands

(* The BLR declared for a message; with zones only in the form of input.     *)
Declares(blr, cols, out) ==
    /\ Len(blr) = Len(cols) /\ \A i \in 1..Len(cols) : blr[i] = PushType(cols[i], out)
    /\ out => \A i \in 1..Len(cols) : cols[i].type \notin Zones

(* The server reads an accepted row value by value: at every column the      *)
(* reader stands where the value begins.                                     *)
LEMMA ServerReadsRow ==
    ASSUME NEW cols \in Seq(Columns), NEW row, NEW charset, Accepts(cols, row, charset),
           NEW blr, NEW out \in BOOLEAN, Declares(blr, cols, out),
           NEW buf \in Seq(Int), NEW start \in Nat, Placed(buf, start, RowBytes(cols, row, charset))
    PROVE  SrvReadRow(buf, start, blr)
               = [row |-> [i \in 1..Len(cols) |-> Held(cols[i], row[i], charset)],
                  next |-> start + Len(RowBytes(cols, row, charset))]
<1> DEFINE n == Len(cols)
           items == Items(cols, row, charset)
           E(i) == EndOf(row, items, start, i)
           p == [i \in 0..n |-> E(i)]
<1>0. Len(blr) = n /\ \A i \in 1..n : blr[i] = PushType(cols[i], out)
  BY DEF Declares
<1>1. /\ n \in Nat /\ \A i \in 1..n : cols[i] \in Columns
      /\ Len(row) = n /\ \A i \in 1..n : row[i] \in ValueSet
      /\ \A i \in 1..n : ~IsNull(row[i]) => Fits(cols[i], row[i], charset)
  BY LenProperties, ElementOfSeq DEF Accepts
<1>2. /\ items \in Seq(Seq(Int)) /\ Len(items) = n /\ RowBytes(cols, row, charset) = Bitmap(row) \o FlattenSeq(items)
      /\ \A i \in 1..n : items[i] = IF IsNull(row[i]) THEN <<>>
                                    ELSE encode_value(cols[i], row[i], charset)
  BY ItemsType DEF RowBytes
<1> HIDE DEF items
<1>3. /\ E(0) = start + null_bitmap_len(n)
      /\ E(n) = start + Len(RowBytes(cols, row, charset))
      /\ \A i \in 0..n : E(i) \in Nat
      /\ \A i \in 1..n :
             /\ BitSet(buf, start, i) <=> IsNull(row[i])
             /\ Placed(buf, E(i - 1), items[i])
             /\ E(i) = E(i - 1) + Len(items[i])
             /\ IsNull(row[i]) => E(i) = E(i - 1)
  <2>1. /\ Len(row) \in Nat /\ Len(items) = Len(row)
        /\ \A i \in 1..Len(row) : IsNull(row[i]) => items[i] = <<>>
        /\ Placed(buf, start, Bitmap(row) \o FlattenSeq(items))
    BY <1>1, <1>2
  <2>2. /\ E(0) = start + null_bitmap_len(Len(row))
        /\ E(Len(row)) = start + Len(Bitmap(row) \o FlattenSeq(items))
        /\ \A i \in 0..Len(row) : E(i) \in Nat
        /\ \A i \in 1..Len(row) :
               /\ BitSet(buf, start, i) <=> IsNull(row[i])
               /\ Placed(buf, E(i - 1), items[i])
               /\ E(i) = E(i - 1) + Len(items[i])
               /\ IsNull(row[i]) => E(i) = E(i - 1)
    <3>1. RowStands(row, items, buf, start)
      BY <1>2, <2>1, RowPlaces
    <3>2. QED
      BY <3>1 DEF RowStands
  <2> HIDE DEF E
  <2>3. QED
    BY <1>1, <1>2, <2>2
<1>4. ASSUME NEW i \in 1..n, ~IsNull(row[i])
      PROVE  ReadByBlr(buf, E(i - 1), blr[i]) = [v |-> Held(cols[i], row[i], charset), next |-> E(i)]
  <2>1. items[i] = encode_value(cols[i], row[i], charset)
    BY <1>2, <1>4
  <2>2. cols[i] \in Columns /\ row[i] \in ValueSet /\ Fits(cols[i], row[i], charset)
    BY <1>1, <1>4
  <2>3. i - 1 \in 0..n
    BY <1>1
  <2>4. E(i - 1) \in Nat /\ Placed(buf, E(i - 1), items[i]) /\ E(i) = E(i - 1) + Len(items[i])
    BY <1>3, <2>3
  <2>5. out => cols[i].type \notin Zones
    BY DEF Declares
  <2> HIDE DEF E
  <2>6. ReadByBlr(buf, E(i - 1), PushType(cols[i], out))
            = [v |-> Held(cols[i], row[i], charset), next |-> E(i - 1) + Len(items[i])]
    <3>1. PICK pos \in Nat, col \in Columns, val \in ValueSet :
              pos = E(i - 1) /\ col = cols[i] /\ val = row[i]
      BY <2>2, <2>4
    <3>2. /\ Placed(buf, pos, encode_value(col, val, charset)) /\ Fits(col, val, charset)
          /\ ~IsNull(val) /\ (out => col.type \notin Zones)
      BY <1>4, <2>1, <2>2, <2>4, <2>5, <3>1
    <3>3. ReadByBlr(buf, pos, PushType(col, out))
              = [v |-> Held(col, val, charset), next |-> pos + Len(encode_value(col, val, charset))]
      BY <3>2, ServerReads
    <3>4. QED
      BY <2>1, <3>1, <3>3
  <2>7. QED
    BY <1>0, <2>4, <2>6
<1>5. ASSUME NEW i \in 1..n, IsNull(row[i])
      PROVE  Held(cols[i], row[i], charset) = NullMark
  BY <1>5 DEF Held
<1> HIDE DEF E
<1>6. \A i \in 0..n : p[i] = E(i)
  OBVIOUS
<1>7. SrvNext(p, buf, start, blr)
  <2>1. ASSUME NEW i \in 0..n
        PROVE  E(i) = IF i = 0 THEN start + null_bitmap_len(n)
                      ELSE IF BitSet(buf, start, i) THEN p[i - 1]
                      ELSE ReadByBlr(buf, p[i - 1], blr[i]).next
    <3>1. CASE i = 0
      BY <1>3, <3>1
    <3>2. CASE i # 0
      <4>1. i \in 1..n /\ i - 1 \in 0..n
        BY <1>1, <3>2
      <4>2. p[i - 1] = E(i - 1)
        BY <1>6, <4>1
      <4> HIDE DEF p
      <4>3. CASE IsNull(row[i])
        BY <1>3, <3>2, <4>1, <4>2, <4>3
      <4>4. CASE ~IsNull(row[i])
        <5>1. ReadByBlr(buf, E(i - 1), blr[i])
                  = [v |-> Held(cols[i], row[i], charset), next |-> E(i)]
          BY <1>4, <4>1, <4>4
        <5>2. ReadByBlr(buf, p[i - 1], blr[i]).next = E(i)
          BY <4>2, <5>1
        <5>3. QED
          BY <1>3, <3>2, <4>1, <4>4, <5>2
      <4>5. QED
        BY <4>3, <4>4
    <3>3. QED
      BY <3>1, <3>2
  <2>2. p = [i \in 0..n |-> IF i = 0 THEN start + null_bitmap_len(n)
                            ELSE IF BitSet(buf, start, i) THEN p[i - 1]
                            ELSE ReadByBlr(buf, p[i - 1], blr[i]).next]
    BY <2>1
  <2>3. QED
    BY <1>0, <2>2 DEF SrvNext
<1> HIDE DEF p
<1>8. SrvReadRow(buf, start, blr)
           = [row |-> [i \in 1..n |-> IF BitSet(buf, start, i) THEN NullMark
                                      ELSE ReadByBlr(buf, p[i - 1], blr[i]).v],
              next |-> p[n]]
  <2>1. Len(blr) \in Nat
    BY <1>0, <1>1
  <2>2. QED
    BY <1>0, <1>7, <2>1, SrvRowReads
<1>9. ASSUME NEW i \in 1..n
      PROVE  (IF BitSet(buf, start, i) THEN NullMark ELSE ReadByBlr(buf, p[i - 1], blr[i]).v)
                  = Held(cols[i], row[i], charset)
  <2>1. p[i - 1] = E(i - 1)
    BY <1>1, <1>6
  <2>2. CASE IsNull(row[i])
    BY <1>3, <1>5, <2>2
  <2>3. CASE ~IsNull(row[i])
    <3>1. ReadByBlr(buf, E(i - 1), blr[i])
              = [v |-> Held(cols[i], row[i], charset), next |-> E(i)]
      BY <1>4, <2>3
    <3>2. QED
      BY <1>3, <2>1, <2>3, <3>1
  <2>4. QED
    BY <2>2, <2>3
<1>10. p[n] = start + Len(RowBytes(cols, row, charset))
  BY <1>1, <1>3, <1>6
<1>11. QED
  BY <1>8, <1>9, <1>10

(* The positions at which the server's rows end.                             *)
SrvRowsNext(p, buf, blr, count) ==
    p = [r \in 0..count |-> IF r = 0 THEN 0 ELSE SrvReadRow(buf, p[r - 1], blr).next]

(* There is one such list too. *)
LEMMA SrvRowsRead ==
    ASSUME NEW p, NEW buf, NEW blr, NEW count \in Nat, SrvRowsNext(p, buf, blr, count)
    PROVE  SrvReadRows(buf, blr, count)
               = [rows |-> [r \in 1..count |-> SrvReadRow(buf, p[r - 1], blr).row],
                  next |-> p[count]]
<1>1. PICK q : /\ SrvRowsNext(q, buf, blr, count)
               /\ SrvReadRows(buf, blr, count)
                      = [rows |-> [r \in 1..count |-> SrvReadRow(buf, q[r - 1], blr).row],
                         next |-> q[count]]
  BY DEF SrvReadRows, SrvRowsNext
<1>2. p[0] = q[0]
  <2>1. 0 \in 0..count
    OBVIOUS
  <2>2. p[0] = 0 /\ q[0] = 0
    BY <1>1, <2>1 DEF SrvRowsNext
  <2>3. QED
    BY <2>2
<1>3. ASSUME NEW i \in 1..count, p[i - 1] = q[i - 1]
      PROVE  p[i] = q[i]
  <2>1. i \in 0..count /\ i # 0
    OBVIOUS
  <2>2. p[i] = SrvReadRow(buf, p[i - 1], blr).next
    BY <2>1 DEF SrvRowsNext
  <2>3. q[i] = SrvReadRow(buf, q[i - 1], blr).next
    BY <1>1, <2>1 DEF SrvRowsNext
  <2>4. QED
    BY <1>3, <2>2, <2>3
<1>4. \A i \in 0..count : p[i] = q[i]
  BY <1>2, <1>3, StepsAgree
<1>5. p[count] = q[count] /\ \A i \in 1..count : p[i - 1] = q[i - 1]
  BY <1>4
<1>6. QED
  BY <1>1, <1>5

(* The rows of a buffer, each as its bytes.                                  *)
RowsBytes(cols, kept, charset) == [r \in 1..Len(kept) |-> RowBytes(cols, kept[r], charset)]

(* Each of them accepted, they are bytes. *)
LEMMA RowsBytesType ==
    ASSUME NEW cols \in Seq(Columns), NEW charset, NEW kept, Len(kept) \in Nat,
           \A r \in 1..Len(kept) : Accepts(cols, kept[r], charset)
    PROVE  /\ RowsBytes(cols, kept, charset) \in Seq(Seq(Int))
           /\ Len(RowsBytes(cols, kept, charset)) = Len(kept)
           /\ FlattenSeq(RowsBytes(cols, kept, charset)) \in Seq(Int)
           /\ \A r \in 1..Len(kept) :
                  RowsBytes(cols, kept, charset)[r] = RowBytes(cols, kept[r], charset)
<1>1. \A r \in 1..Len(kept) : RowBytes(cols, kept[r], charset) \in Seq(Int)
  BY ItemsType
<1>2. /\ RowsBytes(cols, kept, charset) \in Seq(Seq(Int))
      /\ Len(RowsBytes(cols, kept, charset)) = Len(kept)
      /\ \A r \in 1..Len(kept) :
             RowsBytes(cols, kept, charset)[r] = RowBytes(cols, kept[r], charset)
  BY <1>1 DEF RowsBytes
<1>3. QED
  BY <1>2, FlattenType

(* The server reads all the rows of a buffer, to its last byte.              *)
LEMMA ServerReadsRows ==
    ASSUME NEW cols \in Seq(Columns), NEW charset, NEW kept, Len(kept) \in Nat,
           \A r \in 1..Len(kept) : Accepts(cols, kept[r], charset),
           NEW blr, NEW out \in BOOLEAN, Declares(blr, cols, out),
           NEW buf, buf = FlattenSeq(RowsBytes(cols, kept, charset))
    PROVE  SrvReadRows(buf, blr, Len(kept))
               = [rows |-> [r \in 1..Len(kept) |->
                               [i \in 1..Len(cols) |-> Held(cols[i], kept[r][i], charset)]],
                  next |-> Len(buf)]
<1> DEFINE count == Len(kept)
           rows == RowsBytes(cols, kept, charset)
           read(r) == [i \in 1..Len(cols) |-> Held(cols[i], kept[r][i], charset)]
           p == [r \in 0..count |-> Ahead(rows, r)]
<1>1. /\ rows \in Seq(Seq(Int)) /\ Len(rows) = count /\ buf \in Seq(Int)
      /\ \A r \in 1..count : rows[r] = RowBytes(cols, kept[r], charset)
  BY RowsBytesType
<1> HIDE DEF rows
<1>2. buf = FlattenSeq(rows)
  BY DEF rows
<1>3. /\ Ahead(rows, 0) = 0 /\ \A r \in 0..count : Ahead(rows, r) \in Nat
      /\ \A r \in 1..count : Ahead(rows, r) = Ahead(rows, r - 1) + Len(rows[r])
      /\ Ahead(rows, count) = Len(buf)
  BY <1>1, <1>2, AheadSteps
<1>4. ASSUME NEW r \in 1..count
      PROVE  /\ r - 1 \in 0..count /\ p[r - 1] = Ahead(rows, r - 1)
             /\ SrvReadRow(buf, p[r - 1], blr) = [row |-> read(r), next |-> Ahead(rows, r)]
  <2>1. r - 1 \in 0..count
    OBVIOUS
  <2>2. Placed(buf, 0, FlattenSeq(rows))
    BY <1>1, <1>2, PlacedSelf
  <2>3. Placed(buf, 0 + Ahead(rows, r - 1), rows[r])
    BY <1>1, <2>2, PlacedFlatten
  <2>4. PICK start \in Nat : start = Ahead(rows, r - 1)
    BY <1>3, <2>1
  <2>5. 0 + Ahead(rows, r - 1) = start
    BY <2>4
  <2>6. Placed(buf, start, RowBytes(cols, kept[r], charset))
    BY <1>1, <2>3, <2>5
  <2>7. PICK row : row = kept[r]
    OBVIOUS
  <2>8. Accepts(cols, row, charset) /\ Placed(buf, start, RowBytes(cols, row, charset))
    BY <2>6, <2>7
  <2>9. SrvReadRow(buf, start, blr)
            = [row |-> [i \in 1..Len(cols) |-> Held(cols[i], row[i], charset)],
               next |-> start + Len(RowBytes(cols, row, charset))]
    BY <1>1, <2>8, ServerReadsRow
  <2>10. start + Len(RowBytes(cols, row, charset)) = Ahead(rows, r)
    BY <1>1, <1>3, <2>4, <2>7
  <2>11. QED
    BY <2>1, <2>4, <2>7, <2>9, <2>10
<1> HIDE DEF read
<1>5. SrvRowsNext(p, buf, blr, count)
  <2>1. ASSUME NEW r \in 0..count
        PROVE  Ahead(rows, r) = IF r = 0 THEN 0 ELSE SrvReadRow(buf, p[r - 1], blr).next
    <3>1. CASE r = 0
      BY <1>3, <3>1
    <3>2. CASE r # 0
      <4>1. r \in 1..count
        BY <3>2
      <4>2. SrvReadRow(buf, p[r - 1], blr) = [row |-> read(r), next |-> Ahead(rows, r)]
        BY <1>4, <4>1
      <4> HIDE DEF p
      <4>3. SrvReadRow(buf, p[r - 1], blr).next = Ahead(rows, r)
        BY <4>2
      <4>4. QED
        BY <3>2, <4>3
    <3>3. QED
      BY <3>1, <3>2
  <2>2. QED
    BY <2>1 DEF SrvRowsNext
<1>6. p[count] = Len(buf)
  BY <1>3
<1> HIDE DEF p
<1>7. SrvReadRows(buf, blr, count)
          = [rows |-> [r \in 1..count |-> SrvReadRow(buf, p[r - 1], blr).row], next |-> p[count]]
  BY <1>5, SrvRowsRead
<1>8. ASSUME NEW r \in 1..count
      PROVE  SrvReadRow(buf, p[r - 1], blr).row = read(r)
  <2>1. SrvReadRow(buf, p[r - 1], blr) = [row |-> read(r), next |-> Ahead(rows, r)]
    BY <1>4
  <2>2. QED
    BY <2>1
<1>9. QED
  BY <1>6, <1>7, <1>8 DEF read

-------------------------------------------------------------------------------
(* The layout declared for a message, and what the server derives.           *)

(* A column's size and alignment are those of its descriptor.                *)
LEMMA FieldsAgree ==
    ASSUME NEW col \in Columns, col.type # "unknown", col.type \notin Zones, NEW out
    PROVE  type_size_align(col)
               = << SrvFieldSize(PushType(col, out)), SrvFieldAlign(PushType(col, out)) >>
<1> DEFINE d == PushType(col, out)
<1>1. CASE col.type \in {"TEXT", "NULL"}
  <2>1. d.dtype = "text" /\ d.length = col.length
    BY <1>1, TextDescriptor
  <2>2. SrvFieldSize(d) = col.length /\ SrvFieldAlign(d) = 1
    BY <2>1 DEF SrvFieldSize, SrvFieldAlign
  <2>3. type_size_align(col) = << col.length, 1 >>
    BY <1>1 DEF type_size_align
  <2>4. QED
    BY <2>2, <2>3
<1>2. CASE col.type = "VARYING"
  <2>1. d.dtype = "varying" /\ d.length = col.length
    BY <1>2, TextDescriptor
  <2>2. SrvFieldSize(d) = col.length + 2 /\ SrvFieldAlign(d) = 2
    BY <2>1 DEF SrvFieldSize, SrvFieldAlign
  <2>3. type_size_align(col) = << col.length + 2, 2 >>
    BY <1>2 DEF type_size_align
  <2>4. QED
    BY <2>2, <2>3
<1>3. CASE col.type \notin Texts
  <2>1. d.dtype = (IF col.type \in DOMAIN BlrOf THEN BlrOf[col.type] ELSE "quad")
    BY <1>3 DEF PushType, Texts, Zones
  <2>2. CASE col.type \in {"SHORT", "BOOLEAN"}
    <3>1. d.dtype = (IF col.type = "SHORT" THEN "short" ELSE "bool")
      BY <2>1, <2>2 DEF BlrOf
    <3>2. SrvFieldSize(d) = (IF col.type = "SHORT" THEN 2 ELSE 1)
          /\ SrvFieldAlign(d) = (IF col.type = "SHORT" THEN 2 ELSE 1)
      BY <2>2, <3>1 DEF SrvFieldSize, SrvFieldAlign
    <3>3. type_size_align(col) = IF col.type = "SHORT" THEN << 2, 2 >> ELSE << 1, 1 >>
      BY <2>2 DEF type_size_align
    <3>4. QED
      BY <3>2, <3>3
  <2>3. CASE col.type \in {"LONG", "FLOAT", "TYPE_DATE", "TYPE_TIME"}
    <3>1. d.dtype \in {"long", "float", "sql_date", "sql_time"}
      BY <2>1, <2>3 DEF BlrOf
    <3>2. WireWords(d.dtype) = [count |-> 1, width |-> 4]
      BY <3>1 DEF WireWords
    <3>3. SrvFieldSize(d) = 4 /\ SrvFieldAlign(d) = 4
      BY <3>1, <3>2 DEF SrvFieldSize, SrvFieldAlign
    <3>4. type_size_align(col) = << 4, 4 >>
      BY <2>3 DEF type_size_align
    <3>5. QED
      BY <3>3, <3>4
  <2>4. CASE col.type \in {"TIMESTAMP", "BLOB", "QUAD", "ARRAY"}
    <3>1. d.dtype \in {"timestamp", "blob2", "quad"}
      BY <2>1, <2>4 DEF BlrOf
    <3>2. WireWords(d.dtype) \in {[count |-> 1, width |-> 8], [count |-> 2, width |-> 4]}
      BY <3>1 DEF WireWords
    <3>3. SrvFieldSize(d) = 8 /\ SrvFieldAlign(d) = 4
      BY <3>1, <3>2 DEF SrvFieldSize, SrvFieldAlign
    <3>4. type_size_align(col) = << 8, 4 >>
      BY <2>4 DEF type_size_align
    <3>5. QED
      BY <3>3, <3>4
  <2>5. CASE col.type \in {"INT128", "DEC34"}
    <3>1. d.dtype \in {"int128", "dec128"}
      BY <2>1, <2>5 DEF BlrOf
    <3>2. WireWords(d.dtype) = [count |-> 1, width |-> 16]
      BY <3>1 DEF WireWords
    <3>3. SrvFieldSize(d) = 16 /\ SrvFieldAlign(d) = 8
      BY <3>1, <3>2 DEF SrvFieldSize, SrvFieldAlign
    <3>4. type_size_align(col) = << 16, 8 >>
      BY <2>5 DEF type_size_align
    <3>5. QED
      BY <3>3, <3>4
  <2>6. CASE col.type \in {"INT64", "DOUBLE", "DEC16"}
    <3>1. d.dtype \in {"int64", "double", "dec64"}
      BY <2>1, <2>6 DEF BlrOf
    <3>2. WireWords(d.dtype) = [count |-> 1, width |-> 8]
      BY <3>1 DEF WireWords
    <3>3. SrvFieldSize(d) = 8 /\ SrvFieldAlign(d) = 8
      BY <3>1, <3>2 DEF SrvFieldSize, SrvFieldAlign
    <3>4. type_size_align(col) = << 8, 8 >>
      BY <2>6 DEF type_size_align
    <3>5. QED
      BY <3>3, <3>4
  <2>7. QED
    BY <1>3, <2>2, <2>3, <2>4, <2>5, <2>6 DEF Columns, ColumnTypes, Texts, Zones
<1>4. QED
  BY <1>1, <1>2, <1>3 DEF Texts

(* The length a message declares is the length the server computes.          *)
LEMMA LengthsAgree ==
    ASSUME NEW cols \in Seq(Columns), NEW blr, NEW out,
           Len(blr) = Len(cols), \A i \in 1..Len(cols) : blr[i] = PushType(cols[i], out),
           ~HasZone(cols), ~HasUnknown(cols)
    PROVE  message_buffer_len(cols) = SrvMessageLen(blr)
<1>1. ASSUME NEW i \in 1..Len(cols)
      PROVE  type_size_align(cols[i]) = << SrvFieldSize(blr[i]), SrvFieldAlign(blr[i]) >>
  <2>1. cols[i] \in Columns /\ cols[i].type # "unknown" /\ cols[i].type \notin Zones
    BY ElementOfSeq DEF HasZone, HasUnknown, Zones
  <2>2. QED
    BY <2>1, FieldsAgree
<1>2. [i \in 1..Len(cols) |-> type_size_align(cols[i])]
          = [i \in 1..Len(blr) |-> << SrvFieldSize(blr[i]), SrvFieldAlign(blr[i]) >>]
  BY <1>1
<1>3. QED
  BY <1>2 DEF message_buffer_len, SrvMessageLen

-------------------------------------------------------------------------------
(* A value in its column, for the client that reads a cursor.                *)

(* The numbers the server sends for a value: the offset of a zone with it.   *)
Sent(col, val) ==
    IF col.type \in Zones THEN Append(Numbers(col, val), OffsetOf(Last(Numbers(col, val))))
    ELSE Numbers(col, val)

(* They are as many as the client reads. *)
LEMMA SentType ==
    ASSUME NEW col \in Columns, NEW val \in ValueSet, NEW charset,
           Fits(col, val, charset), col.type \notin Texts
    PROVE  /\ Sent(col, val) \in Seq(Int) /\ Len(Sent(col, val)) = ClientWords(col.type)
           /\ SrvItem(col, val, charset) = Words(Sent(col, val), Width(col.type))
<1> DEFINE ns == Numbers(col, val)
           n == Len(ns)
<1>1. ns \in Seq(Int) /\ n = WordCount(col.type) /\ n \in 1..3
  <2>1. ns \in Seq(Int) /\ n = WordCount(col.type)
    BY NumbersAre
  <2>2. WordCount(col.type) \in 1..3
    BY DEF WordCount
  <2>3. QED
    BY <2>1, <2>2
<1>2. CASE col.type \in Zones
  <2>1. ns[n] \in Int
    BY <1>1, ElementOfSeq
  <2>2. Last(ns) = ns[n] /\ OffsetOf(ns[n]) \in Int
    BY <2>1 DEF Last, OffsetOf
  <2> HIDE DEF ns
  <2>3. Append(ns, OffsetOf(ns[n])) \in Seq(Int) /\ Len(Append(ns, OffsetOf(ns[n]))) = n + 1
    BY <1>1, <2>2, AppendProperties
  <2>4. Sent(col, val) = Append(ns, OffsetOf(ns[n]))
    BY <1>2, <2>2 DEF Sent, ns
  <2>5. n + 1 = ClientWords(col.type)
    <3>1. CASE col.type = "TIME_TZ"
      BY <1>1, <3>1 DEF WordCount, ClientWords
    <3>2. CASE col.type = "TIMESTAMP_TZ"
      BY <1>1, <3>2 DEF WordCount, ClientWords
    <3>3. QED
      BY <1>2, <3>1, <3>2 DEF Zones
  <2>6. SrvItem(col, val, charset) = Words(Sent(col, val), 4)
    BY <1>2 DEF SrvItem, Sent, Zones
  <2>7. Width(col.type) = 4
    BY <1>2 DEF Width, Zones
  <2>8. QED
    BY <2>3, <2>4, <2>5, <2>6, <2>7
<1>3. CASE col.type \notin Zones
  <2>1. Sent(col, val) = ns
    BY <1>3 DEF Sent
  <2>2. WordCount(col.type) = ClientWords(col.type)
    BY <1>3 DEF WordCount, ClientWords, Zones
  <2>3. SrvItem(col, val, charset) = Words(ns, Width(col.type))
    BY <1>3 DEF SrvItem, Texts, Zones
  <2>4. QED
    BY <1>1, <2>1, <2>2, <2>3
<1>4. QED
  BY <1>2, <1>3

(* The units of the words are the numbers. *)
LEMMA UnitsWhole ==
    ASSUME NEW ns \in Seq(Int)
    PROVE  Units([i \in 1..Len(ns) |-> Whole(ns[i])]) = ns
<1> DEFINE w == [i \in 1..Len(ns) |-> Whole(ns[i])]
<1>1. Len(ns) \in Nat /\ ns = [i \in 1..Len(ns) |-> ns[i]]
  BY LenProperties
<1>2. Len(w) = Len(ns)
  BY <1>1
<1>3. ASSUME NEW i \in 1..Len(ns)
      PROVE  w[i] \div 1000 = ns[i]
  <2>1. PICK x \in Int : x = ns[i]
    BY ElementOfSeq
  <2>2. (x * 1000) \div 1000 = x
    BY <2>1
  <2>3. w[i] = x * 1000
    BY <2>1 DEF Whole
  <2>4. QED
    BY <2>1, <2>2, <2>3
<1> HIDE DEF w
<1>4. [i \in 1..Len(w) |-> w[i] \div 1000] = [i \in 1..Len(ns) |-> ns[i]]
  BY <1>2, <1>3
<1>5. Units(w) = ns
  BY <1>1, <1>4 DEF Units
<1>6. QED
  BY <1>5 DEF w

(* The two forms of a text the client returns.                               *)
LEMMA TextReturned ==
    ASSUME NEW col \in Columns, NEW val \in ValueSet, NEW charset, Fits(col, val, charset),
           ~IsNull(val), col.type \in {"TEXT", "VARYING"}
    PROVE  text_or_bytes(col, Held(col, val, charset)) = Returned(col, val, charset)
<1> DEFINE text == TextBytes(charset, val)
           raw == Held(col, val, charset)
<1>1. text \in Seq(Int) /\ Len(text) <= col.length /\ DecodedText(text) = val.v /\ val.v \in Seq(Int)
  BY TextFits, KindArity
<1>2. CASE col.sub = 1
  <2>1. Returned(col, val, charset) = [kind |-> "Bytes", v |-> raw]
    BY <1>2 DEF Returned
  <2>2. text_or_bytes(col, raw) = [kind |-> "Bytes", v |-> raw]
    BY <1>2 DEF text_or_bytes
  <2>3. QED
    BY <2>1, <2>2
<1>3. CASE col.sub # 1 /\ col.type = "TEXT"
  <2>1. raw = text \o Blanks(col.length - Len(text))
    BY <1>3 DEF Held
  <2>2. col.length - Len(text) \in Nat
    BY <1>1, LenProperties DEF Columns
  <2>3. /\ Blanks(col.length - Len(text)) \in Seq(Int)
        /\ DecodedText(Blanks(col.length - Len(text))) \in Seq({32})
    BY <2>2, FillType, BlanksDecode
  <2>4. DecodedText(raw) = DecodedText(text) \o DecodedText(Blanks(col.length - Len(text)))
    BY <1>1, <2>1, <2>3, DecodedConcat
  <2>5. TrimEnd(DecodedText(raw)) = TrimEnd(val.v)
    BY <1>1, <2>3, <2>4, TrimBlanks
  <2>6. text_or_bytes(col, raw) = [kind |-> "Text", v |-> TrimEnd(DecodedText(raw))]
    BY <1>3 DEF text_or_bytes
  <2>7. Returned(col, val, charset) = [kind |-> "Text", v |-> TrimEnd(val.v)]
    BY <1>3 DEF Returned
  <2>8. QED
    BY <2>5, <2>6, <2>7
<1>4. CASE col.sub # 1 /\ col.type = "VARYING"
  <2>1. raw = text
    BY <1>4 DEF Held
  <2>2. text_or_bytes(col, raw) = [kind |-> "Text", v |-> DecodedText(raw)]
    BY <1>4 DEF text_or_bytes
  <2>3. Returned(col, val, charset) = [kind |-> "Text", v |-> val.v]
    BY <1>4 DEF Returned
  <2>4. QED
    BY <1>1, <2>1, <2>2, <2>3
<1>5. QED
  BY <1>2, <1>3, <1>4

(* What comes back for the numbers.                                          *)
LEMMA NumbersReturned ==
    ASSUME NEW col \in Columns, NEW val \in ValueSet, NEW charset, Fits(col, val, charset),
           ~IsNull(val), col.type \notin Texts
    PROVE  /\ col.type \in DOMAIN KindOf
           /\ Returned(col, val, charset) = [kind |-> KindOf[col.type], v |-> Sent(col, val)]
<1>1. col.type # "unknown"
  BY AcceptedKinds
<1>2. col.type \in DOMAIN KindOf
  BY <1>1 DEF KindOf, Columns, ColumnTypes, Texts
<1>3. CASE col.type \in Zones
  <2>1. val.kind = KindOf[col.type]
    <3>1. CASE col.type = "TIME_TZ"
      <4>1. val.kind = "TimeTz"
        BY <3>1, AcceptedKinds
      <4>2. QED
        BY <3>1, <4>1 DEF KindOf
    <3>2. CASE col.type = "TIMESTAMP_TZ"
      <4>1. val.kind = "TimestampTz"
        BY <3>2, AcceptedKinds
      <4>2. QED
        BY <3>2, <4>1 DEF KindOf
    <3>3. QED
      BY <1>3, <3>1, <3>2 DEF Zones
  <2>2. Numbers(col, val) = Front(val.v)
    BY <1>3 DEF Numbers, Zones
  <2>3. Returned(col, val, charset)
            = [kind |-> val.kind, v |-> Append(Front(val.v), OffsetOf(Last(Front(val.v))))]
    BY <1>3 DEF Returned, Zones
  <2>4. QED
    BY <1>2, <1>3, <2>1, <2>2, <2>3 DEF Sent
<1>4. CASE col.type \notin Zones
  <2>1. Returned(col, val, charset) = [kind |-> KindOf[col.type], v |-> Numbers(col, val)]
    BY <1>4 DEF Returned, Zones, Texts
  <2>2. QED
    BY <1>2, <1>4, <2>1 DEF Sent
<1>5. QED
  BY <1>2, <1>3, <1>4

(* The client reads from the item of a value what the caller should find.    *)
LEMMA ClientReads ==
    ASSUME NEW col \in Columns, NEW val \in ValueSet, NEW charset, Fits(col, val, charset),
           ~IsNull(val), NEW buf \in Seq(Int), NEW pos \in Nat,
           Placed(buf, pos, SrvItem(col, val, charset))
    PROVE  decode_value(buf, pos, col)
               = [val |-> Returned(col, val, charset), next |-> pos + Len(SrvItem(col, val, charset))]
<1> DEFINE text == TextBytes(charset, val)
           item == SrvItem(col, val, charset)
<1>0. col.type \in Texts => item = encode_value(col, val, charset)
  BY DEF SrvItem, Texts
<1>1. CASE col.type = "VARYING"
  <2>1. text \in Seq(Int)
    BY <1>1, TextFits
  <2>2. item = Word(Len(text), 4) \o text \o Pad(Len(text))
    BY <1>0, <1>1, EncodeForms DEF Texts
  <2>3. ReadVarying(buf, pos)
            = [v |-> text, next |-> pos + Len(Word(Len(text), 4) \o text \o Pad(Len(text)))]
    BY <2>1, <2>2, VaryingRead
  <2>4. decode_value(buf, pos, col)
            = [val |-> text_or_bytes(col, ReadVarying(buf, pos).v), next |-> ReadVarying(buf, pos).next]
    BY <1>1 DEF decode_value, KindOf
  <2>5. Held(col, val, charset) = text
    BY <1>1 DEF Held
  <2>6. text_or_bytes(col, text) = Returned(col, val, charset)
    BY <1>1, <2>5, TextReturned
  <2>7. QED
    BY <2>2, <2>3, <2>4, <2>6
<1>2. CASE col.type = "TEXT"
  <2>1. PICK bytes \in Seq(Int) : bytes = Filled(col.length, text) /\ Len(bytes) = col.length
    BY <1>2, TextFits, FilledType
  <2>2. item = bytes \o Pad(Len(bytes))
    BY <1>0, <1>2, <2>1, EncodeForms DEF Texts
  <2>3. ReadText(buf, pos, Len(bytes)) = [v |-> bytes, next |-> pos + Len(bytes \o Pad(Len(bytes)))]
    BY <2>2, TextRead
  <2>4. decode_value(buf, pos, col)
            = [val |-> text_or_bytes(col, ReadText(buf, pos, col.length).v),
               next |-> ReadText(buf, pos, col.length).next]
    BY <1>2 DEF decode_value, KindOf
  <2>5. Held(col, val, charset) = bytes
    BY <1>2, <2>1 DEF Held, Filled
  <2>6. text_or_bytes(col, bytes) = Returned(col, val, charset)
    BY <1>2, <2>5, TextReturned
  <2>7. QED
    BY <2>1, <2>2, <2>3, <2>4, <2>6
<1>3. CASE col.type = "NULL"
  <2>1. PICK bytes \in Seq(Int) : bytes = Zeros(col.length) /\ Len(bytes) = col.length
    BY FillType DEF Columns
  <2>2. item = bytes \o Pad(Len(bytes))
    BY <1>0, <1>3, <2>1, EncodeForms DEF Texts
  <2>3. Len(item) = align4(col.length)
    <3>1. pos \in Int /\ Placed(buf, pos, bytes \o Pad(Len(bytes)))
      BY <2>2
    <3>2. Len(bytes \o Pad(Len(bytes))) = align4(Len(bytes))
      BY <3>1, TextRead
    <3>3. QED
      BY <2>1, <2>2, <3>2
  <2>4. decode_value(buf, pos, col) = [val |-> NullValue, next |-> pos + align4(col.length)]
    BY <1>3 DEF decode_value, KindOf
  <2>5. Returned(col, val, charset) = NullValue
    BY <1>3 DEF Returned
  <2>6. QED
    BY <2>3, <2>4, <2>5
<1>4. CASE col.type \notin Texts
  <2>1. PICK ns \in Seq(Int) : /\ ns = Sent(col, val) /\ Len(ns) = ClientWords(col.type)
                               /\ item = Words(ns, Width(col.type))
    BY <1>4, SentType
  <2>2. PICK w \in 1..16 : w = Width(col.type)
    BY DEF Width
  <2>3. ReadWords(buf, pos, Len(ns), w)
            = [v |-> [i \in 1..Len(ns) |-> Whole(ns[i])], next |-> pos + Len(Words(ns, w))]
    <3>1. pos \in Int /\ Placed(buf, pos, Words(ns, w))
      BY <2>1, <2>2
    <3>2. QED
      BY <3>1, WordsRead
  <2>4. Units([i \in 1..Len(ns) |-> Whole(ns[i])]) = ns
    BY UnitsWhole
  <2>5. /\ col.type \in DOMAIN KindOf
        /\ Returned(col, val, charset) = [kind |-> KindOf[col.type], v |-> ns]
    BY <1>4, <2>1, NumbersReturned
  <2>6. decode_value(buf, pos, col)
            = [val |-> [kind |-> KindOf[col.type], v |-> Units(ReadWords(buf, pos, Len(ns), w).v)],
               next |-> ReadWords(buf, pos, Len(ns), w).next]
    BY <1>4, <2>1, <2>2, <2>5 DEF decode_value, Texts
  <2>7. QED
    BY <2>1, <2>2, <2>3, <2>4, <2>5, <2>6
<1>5. QED
  BY <1>1, <1>2, <1>3, <1>4 DEF Texts

(* What the server sends for a value are bytes. *)
LEMMA SrvItemType ==
    ASSUME NEW col \in Columns, NEW val \in ValueSet, NEW charset, Fits(col, val, charset)
    PROVE  SrvItem(col, val, charset) \in Seq(Int)
<1>1. CASE col.type \in Texts
  <2>1. SrvItem(col, val, charset) = encode_value(col, val, charset)
    BY <1>1 DEF SrvItem, Texts
  <2>2. QED
    BY <2>1, EncodeType
<1>2. CASE col.type \notin Texts
  <2>1. Sent(col, val) \in Seq(Int) /\ Width(col.type) \in Nat
    BY <1>2, SentType DEF Width
  <2>2. SrvItem(col, val, charset) = Words(Sent(col, val), Width(col.type))
    BY <1>2, SentType
  <2>3. QED
    BY <2>1, <2>2, PaddedType
<1>3. QED
  BY <1>1, <1>2

-------------------------------------------------------------------------------
(* A row of a cursor, for the client.                                        *)

(* The positions the client's reader of a row passes.                        *)
ClientNext(p, buf, cols) ==
    p = [i \in 0..Len(cols) |->
            IF i = 0 THEN null_bitmap_len(Len(cols))
            ELSE IF BitSet(buf, 0, i) THEN p[i - 1]
            ELSE decode_value(buf, p[i - 1], cols[i]).next]

(* There is one such list of positions. *)
LEMMA DecodeRowReads ==
    ASSUME NEW p, NEW buf, NEW cols, Len(cols) \in Nat, ClientNext(p, buf, cols)
    PROVE  decode_row(buf, cols)
               = [row |-> [i \in 1..Len(cols) |-> IF BitSet(buf, 0, i) THEN NullValue
                                                  ELSE decode_value(buf, p[i - 1], cols[i]).val],
                  next |-> p[Len(cols)]]
<1> DEFINE n == Len(cols)
<1>1. PICK q : /\ ClientNext(q, buf, cols)
               /\ decode_row(buf, cols)
                      = [row |-> [i \in 1..n |-> IF BitSet(buf, 0, i) THEN NullValue
                                                 ELSE decode_value(buf, q[i - 1], cols[i]).val],
                         next |-> q[n]]
  BY DEF decode_row, ClientNext
<1>2. p[0] = q[0]
  <2>1. 0 \in 0..n
    OBVIOUS
  <2>2. p[0] = null_bitmap_len(n) /\ q[0] = null_bitmap_len(n)
    BY <1>1, <2>1 DEF ClientNext
  <2>3. QED
    BY <2>2
<1>3. ASSUME NEW i \in 1..n, p[i - 1] = q[i - 1]
      PROVE  p[i] = q[i]
  <2>1. i \in 0..n /\ i # 0
    OBVIOUS
  <2>2. p[i] = IF BitSet(buf, 0, i) THEN p[i - 1] ELSE decode_value(buf, p[i - 1], cols[i]).next
    BY <2>1 DEF ClientNext
  <2>3. q[i] = IF BitSet(buf, 0, i) THEN q[i - 1] ELSE decode_value(buf, q[i - 1], cols[i]).next
    BY <1>1, <2>1 DEF ClientNext
  <2>4. QED
    BY <1>3, <2>2, <2>3
<1>4. \A i \in 0..n : p[i] = q[i]
  BY <1>2, <1>3, StepsAgree
<1>5. p[n] = q[n] /\ \A i \in 1..n : p[i - 1] = q[i - 1]
  BY <1>4
<1>6. QED
  BY <1>1, <1>5

(* The client reads an accepted row that comes back, to its last byte.       *)
LEMMA ClientReadsRow ==
    ASSUME NEW cols \in Seq(Columns), NEW row, NEW charset, Accepts(cols, row, charset)
    PROVE  decode_row(SrvRow(cols, row, charset), cols)
               = [row |-> [i \in 1..Len(cols) |-> Returned(cols[i], row[i], charset)],
                  next |-> Len(SrvRow(cols, row, charset))]
<1> DEFINE n == Len(cols)
           items == [i \in 1..n |-> IF IsNull(row[i]) THEN <<>> ELSE SrvItem(cols[i], row[i], charset)]
           buf == SrvRow(cols, row, charset)
           E(i) == EndOf(row, items, 0, i)
           p == [i \in 0..n |-> E(i)]
<1>1. /\ n \in Nat /\ \A i \in 1..n : cols[i] \in Columns
      /\ Len(row) = n /\ \A i \in 1..n : row[i] \in ValueSet
      /\ \A i \in 1..n : ~IsNull(row[i]) => Fits(cols[i], row[i], charset)
  BY LenProperties, ElementOfSeq DEF Accepts
<1>2. ASSUME NEW i \in 1..n
      PROVE  (IF IsNull(row[i]) THEN <<>> ELSE SrvItem(cols[i], row[i], charset)) \in Seq(Int)
  <2>1. CASE IsNull(row[i])
    BY <2>1, EmptySeq
  <2>2. CASE ~IsNull(row[i])
    <3>1. SrvItem(cols[i], row[i], charset) \in Seq(Int)
      BY <1>1, <2>2, SrvItemType
    <3>2. QED
      BY <2>2, <3>1
  <2>3. QED
    BY <2>1, <2>2
<1>3. /\ items \in Seq(Seq(Int)) /\ Len(items) = n
      /\ \A i \in 1..n : items[i] = IF IsNull(row[i]) THEN <<>>
                                    ELSE SrvItem(cols[i], row[i], charset)
  BY <1>1, <1>2
<1>4. buf = Bitmap(row) \o FlattenSeq(items)
  BY DEF SrvRow
<1> HIDE DEF items, buf
<1>5. buf \in Seq(Int) /\ Placed(buf, 0, buf)
  <2>1. Bitmap(row) \in Seq(Int) /\ FlattenSeq(items) \in Seq(Int)
    <3>1. Len(row) \in Nat
      BY <1>1
    <3>2. QED
      BY <1>3, <3>1, BitmapType, FlattenType
  <2>2. buf \in Seq(Int)
    BY <1>4, <2>1, BytesJoin
  <2>3. QED
    BY <2>2, PlacedSelf
<1>6. /\ E(0) = null_bitmap_len(n) /\ E(n) = Len(buf)
      /\ \A i \in 0..n : E(i) \in Nat
      /\ \A i \in 1..n :
             /\ BitSet(buf, 0, i) <=> IsNull(row[i])
             /\ Placed(buf, E(i - 1), items[i])
             /\ E(i) = E(i - 1) + Len(items[i])
             /\ IsNull(row[i]) => E(i) = E(i - 1)
  <2>1. /\ Len(row) \in Nat /\ Len(items) = Len(row)
        /\ \A i \in 1..Len(row) : IsNull(row[i]) => items[i] = <<>>
        /\ Placed(buf, 0, Bitmap(row) \o FlattenSeq(items))
    BY <1>1, <1>3, <1>4, <1>5
  <2>2. RowStands(row, items, buf, 0)
    BY <1>3, <1>5, <2>1, RowPlaces
  <2>3. /\ E(0) = 0 + null_bitmap_len(n) /\ E(n) = 0 + Len(buf)
        /\ \A i \in 0..n : E(i) \in Nat
        /\ \A i \in 1..n :
               /\ BitSet(buf, 0, i) <=> IsNull(row[i])
               /\ Placed(buf, E(i - 1), items[i])
               /\ E(i) = E(i - 1) + Len(items[i])
               /\ IsNull(row[i]) => E(i) = E(i - 1)
    BY <1>1, <1>4, <2>2 DEF RowStands
  <2> HIDE DEF E
  <2>4. null_bitmap_len(n) \in Nat /\ Len(buf) \in Nat
    BY <1>1, <1>5, <2>1, BitmapType, LenProperties
  <2>5. QED
    BY <2>3, <2>4
<1>7. ASSUME NEW i \in 1..n, ~IsNull(row[i])
      PROVE  decode_value(buf, E(i - 1), cols[i])
                 = [val |-> Returned(cols[i], row[i], charset), next |-> E(i)]
  <2>1. items[i] = SrvItem(cols[i], row[i], charset)
    BY <1>3, <1>7
  <2>2. cols[i] \in Columns /\ row[i] \in ValueSet /\ Fits(cols[i], row[i], charset)
    BY <1>1, <1>7
  <2>3. i - 1 \in 0..n
    BY <1>1
  <2>4. E(i - 1) \in Nat /\ Placed(buf, E(i - 1), items[i]) /\ E(i) = E(i - 1) + Len(items[i])
    BY <1>6, <2>3
  <2> HIDE DEF E
  <2>5. PICK pos \in Nat, col \in Columns, val \in ValueSet :
            pos = E(i - 1) /\ col = cols[i] /\ val = row[i]
    BY <2>2, <2>4
  <2>6. /\ Placed(buf, pos, SrvItem(col, val, charset)) /\ Fits(col, val, charset)
        /\ ~IsNull(val)
    BY <1>7, <2>1, <2>2, <2>4, <2>5
  <2>7. decode_value(buf, pos, col)
            = [val |-> Returned(col, val, charset), next |-> pos + Len(SrvItem(col, val, charset))]
    BY <1>5, <2>6, ClientReads
  <2>8. QED
    BY <2>1, <2>4, <2>5, <2>7
<1>8. ASSUME NEW i \in 1..n, IsNull(row[i])
      PROVE  Returned(cols[i], row[i], charset) = NullValue
  BY <1>8 DEF Returned
<1> HIDE DEF E
<1>9. \A i \in 0..n : p[i] = E(i)
  OBVIOUS
<1>10. ClientNext(p, buf, cols)
  <2>1. ASSUME NEW i \in 0..n
        PROVE  E(i) = IF i = 0 THEN null_bitmap_len(n)
                      ELSE IF BitSet(buf, 0, i) THEN p[i - 1]
                      ELSE decode_value(buf, p[i - 1], cols[i]).next
    <3>1. CASE i = 0
      BY <1>6, <3>1
    <3>2. CASE i # 0
      <4>1. i \in 1..n /\ i - 1 \in 0..n
        BY <1>1, <3>2
      <4>2. p[i - 1] = E(i - 1)
        BY <1>9, <4>1
      <4> HIDE DEF p
      <4>3. CASE IsNull(row[i])
        BY <1>6, <3>2, <4>1, <4>2, <4>3
      <4>4. CASE ~IsNull(row[i])
        <5>1. decode_value(buf, E(i - 1), cols[i])
                  = [val |-> Returned(cols[i], row[i], charset), next |-> E(i)]
          BY <1>7, <4>1, <4>4
        <5>2. decode_value(buf, p[i - 1], cols[i]).next = E(i)
          BY <4>2, <5>1
        <5>3. QED
          BY <1>6, <3>2, <4>1, <4>4, <5>2
      <4>5. QED
        BY <4>3, <4>4
    <3>3. QED
      BY <3>1, <3>2
  <2>2. p = [i \in 0..n |-> IF i = 0 THEN null_bitmap_len(n)
                            ELSE IF BitSet(buf, 0, i) THEN p[i - 1]
                            ELSE decode_value(buf, p[i - 1], cols[i]).next]
    BY <2>1
  <2>3. QED
    BY <2>2 DEF ClientNext
<1> HIDE DEF p
<1>11. decode_row(buf, cols)
           = [row |-> [i \in 1..n |-> IF BitSet(buf, 0, i) THEN NullValue
                                      ELSE decode_value(buf, p[i - 1], cols[i]).val],
              next |-> p[n]]
  BY <1>1, <1>10, DecodeRowReads
<1>12. ASSUME NEW i \in 1..n
       PROVE  (IF BitSet(buf, 0, i) THEN NullValue ELSE decode_value(buf, p[i - 1], cols[i]).val)
                  = Returned(cols[i], row[i], charset)
  <2>1. p[i - 1] = E(i - 1)
    BY <1>1, <1>9
  <2>2. CASE IsNull(row[i])
    BY <1>6, <1>8, <2>2
  <2>3. CASE ~IsNull(row[i])
    <3>1. decode_value(buf, E(i - 1), cols[i])
              = [val |-> Returned(cols[i], row[i], charset), next |-> E(i)]
      BY <1>7, <2>3
    <3>2. QED
      BY <1>6, <2>1, <2>3, <3>1
  <2>4. QED
    BY <2>2, <2>3
<1>13. p[n] = Len(buf)
  BY <1>1, <1>6, <1>9
<1>14. QED
  BY <1>11, <1>12, <1>13 DEF buf

-------------------------------------------------------------------------------
(* One more row.                                                             *)

(* The first of the refused columns.                                         *)
LEMMA LeastIs ==
    ASSUME NEW n \in Nat, NEW T, T \subseteq 0..n, T # {}
    PROVE  Min(T) \in T /\ \A y \in T : Min(T) <= y
<1> DEFINE Done == {k \in Nat : \A U : (U \subseteq 0..k /\ U # {}) => \E x \in U : \A y \in U : x <= y}
<1>1. 0 \in Done
  OBVIOUS
<1>2. ASSUME NEW k \in Nat, k \in Done
      PROVE  k + 1 \in Done
  <2>1. SUFFICES ASSUME NEW U, U \subseteq 0..(k + 1), U # {}
                 PROVE  \E x \in U : \A y \in U : x <= y
    OBVIOUS
  <2>2. CASE U = {k + 1}
    BY <2>2
  <2>3. CASE U # {k + 1}
    <3>1. U \ {k + 1} \subseteq 0..k /\ U \ {k + 1} # {}
      BY <2>1, <2>3
    <3>2. PICK x \in U \ {k + 1} : \A y \in U \ {k + 1} : x <= y
      BY <1>2, <3>1
    <3>3. x <= k + 1
      BY <3>1, <3>2
    <3>4. QED
      BY <3>2, <3>3
  <2>4. QED
    BY <2>2, <2>3
<1>3. Nat \subseteq Done
  BY <1>1, <1>2, NatSetInduction
<1>4. \E x \in T : \A y \in T : x <= y
  BY <1>3
<1>5. QED
  BY <1>4 DEF Min

(* What is cut off behind a sequence leaves the sequence.                    *)
LEMMA CutBack ==
    ASSUME NEW a \in Seq(Int), NEW b \in Seq(Int)
    PROVE  SubSeq(a \o b, 1, Len(a)) = a
<1>1. /\ Len(a) \in Nat /\ Len(b) \in Nat /\ a \o b \in Seq(Int) /\ Len(a \o b) = Len(a) + Len(b)
      /\ \A i \in 1..Len(a) : (a \o b)[i] = a[i]
  BY ConcatProperties, LenProperties
<1> DEFINE c == a \o b
           s == SubSeq(c, 1, Len(a))
<1>2. \A i \in 1..Len(a) : c[i] \in Int
  <2>1. \A i \in 1..Len(a) : a[i] \in Int
    BY ElementOfSeq
  <2>2. QED
    BY <1>1, <2>1
<1> HIDE DEF c
<1>3. s \in Seq(Int) /\ Len(s) = Len(a) /\ \A i \in 1..Len(a) : s[i] = c[i]
  <2>1. CASE Len(a) = 0
    <3>1. s = <<>>
      BY <2>1 DEF SubSeq
    <3>2. QED
      BY <2>1, <3>1, EmptySeq
  <2>2. CASE Len(a) # 0
    <3>1. 1 \in Int /\ Len(a) \in Int /\ 1 <= Len(a)
      BY <1>1, <2>2
    <3>2. /\ s \in Seq(Int) /\ Len(s) = Len(a) - 1 + 1
          /\ \A i \in 1..(Len(a) - 1 + 1) : s[i] = c[1 + i - 1]
      BY <1>2, <3>1, SubSeqProperties
    <3>3. Len(a) - 1 + 1 = Len(a) /\ \A i \in 1..Len(a) : 1 + i - 1 = i
      BY <1>1
    <3>4. QED
      BY <3>2, <3>3
  <2>3. QED
    BY <2>1, <2>2
<1>4. \A i \in 1..Len(a) : s[i] = a[i]
  BY <1>1, <1>3 DEF c
<1>5. s = a
  <2> HIDE DEF s
  <2>1. QED
    BY <1>3, <1>4, SeqEqual
<1>6. QED
  BY <1>5 DEF c

(* A row that is accepted is appended whole, one that is refused leaves the  *)
(* buffer as it was.                                                         *)
LEMMA RowAppended ==
    ASSUME NEW out \in Seq(Int), NEW cols \in Seq(Columns), NEW row \in Seq(ValueSet),
           Len(row) = Len(cols), NEW charset
    PROVE  LET r == EncodeRowInto(out, cols, row, charset)
           IN  \/ /\ r.ok /\ Accepts(cols, row, charset)
                  /\ r.out = out \o RowBytes(cols, row, charset)
               \/ ~r.ok /\ r.out = out
<1> DEFINE refused == RefusedAt(cols, row, charset)
           n == Len(cols)
<1>1. /\ n \in Nat /\ \A i \in 1..n : cols[i] \in Columns /\ row[i] \in ValueSet
      /\ refused \subseteq 1..n
      /\ \A i \in 1..n : i \notin refused => IsNull(row[i]) \/ Fits(cols[i], row[i], charset)
  BY LenProperties, ElementOfSeq DEF RefusedAt
<1>2. CASE refused = {}
  <2>1. Accepts(cols, row, charset)
    BY <1>1, <1>2 DEF Accepts
  <2>2. EncodeRowInto(out, cols, row, charset) = [out |-> out \o RowUpTo(cols, row, charset, n), ok |-> TRUE]
    BY <1>2 DEF EncodeRowInto
  <2>3. RowUpTo(cols, row, charset, n) = RowBytes(cols, row, charset)
    BY DEF RowUpTo, RowBytes, Items
  <2>4. QED
    BY <2>1, <2>2, <2>3
<1>3. CASE refused # {}
  <2> DEFINE m == Min(refused) - 1
  <2>1. Min(refused) \in refused /\ \A y \in refused : Min(refused) <= y
    <3>1. refused \subseteq 0..n
      BY <1>1
    <3>2. QED
      BY <1>1, <1>3, <3>1, LeastIs
  <2> HIDE DEF refused
  <2>2. m \in Nat /\ m < n /\ \A i \in 1..m : i \in 1..n /\ i \notin refused
    <3>1. PICK k \in 1..n : k = Min(refused) /\ \A y \in refused : k <= y
      BY <1>1, <2>1
    <3>2. m = k - 1
      BY <3>1
    <3> HIDE DEF m
    <3>3. m \in Nat /\ m < n /\ \A i \in 1..m : i \in 1..n /\ ~(k <= i)
      BY <1>1, <3>2
    <3>4. QED
      BY <3>1, <3>3
  <2> HIDE DEF m
  <2> DEFINE items == [i \in 1..m |-> IF IsNull(row[i]) THEN <<>>
                                      ELSE encode_value(cols[i], row[i], charset)]
  <2>3. ASSUME NEW i \in 1..m
        PROVE  (IF IsNull(row[i]) THEN <<>> ELSE encode_value(cols[i], row[i], charset)) \in Seq(Int)
    <3>1. CASE IsNull(row[i])
      BY <3>1, EmptySeq
    <3>2. CASE ~IsNull(row[i])
      <4>1. cols[i] \in Columns /\ row[i] \in ValueSet /\ Fits(cols[i], row[i], charset)
        BY <1>1, <2>2, <3>2
      <4>2. encode_value(cols[i], row[i], charset) \in Seq(Int)
        BY <4>1, EncodeType
      <4>3. QED
        BY <3>2, <4>2
    <3>3. QED
      BY <3>1, <3>2
  <2>4. items \in Seq(Seq(Int))
    BY <2>2, <2>3
  <2> HIDE DEF items
  <2>5. FlattenSeq(items) \in Seq(Int)
    BY <2>4, FlattenType
  <2>6. Bitmap(row) \in Seq(Int)
    <3>1. Len(row) \in Nat
      BY <1>1
    <3>2. QED
      BY <3>1, BitmapType
  <2>7. PICK x \in Seq(Int) : x = RowUpTo(cols, row, charset, m)
    BY <2>5, <2>6, BytesJoin DEF RowUpTo, items
  <2>8. EncodeRowInto(out, cols, row, charset)
            = [out |-> SubSeq(out \o RowUpTo(cols, row, charset, m), 1, Len(out)), ok |-> FALSE]
    BY <1>3 DEF EncodeRowInto, refused, m
  <2>9. SubSeq(out \o x, 1, Len(out)) = out
    BY <2>7, CutBack
  <2>10. QED
    BY <2>7, <2>8, <2>9
<1>4. QED
  BY <1>2, <1>3

-------------------------------------------------------------------------------
(* The message.                                                              *)

(* What holds of a buffer after every add: it has the bytes of the rows kept *)
(* and no other, and every row kept was accepted. RowsArrive alone is not    *)
(* inductive: a buffer with the rows of another charset, or with bytes no    *)
(* reader has come to yet, would satisfy parts of it.                        *)
RowsInv ==
    /\ msg \in [path : {"execute", "batch"}, charset : Charsets, cols : ColumnLists,
                buf : Seq(Int), kept : Seq(Rows)]
    /\ \A r \in 1..Len(msg.kept) : Accepts(msg.cols, msg.kept[r], msg.charset)
    /\ msg.buf = FlattenSeq(RowsBytes(msg.cols, msg.kept, msg.charset))

(* The empty buffer has it. *)
LEMMA RowsStart == MessageInit => RowsInv
<1>1. SUFFICES ASSUME NEW path \in {"execute", "batch"}, NEW charset \in Charsets,
                      NEW cols \in ColumnLists,
                      msg = [path |-> path, charset |-> charset, cols |-> cols,
                             buf |-> <<>>, kept |-> <<>>]
               PROVE  RowsInv
  BY DEF MessageInit
<1>2. <<>> \in Seq(Int) /\ <<>> \in Seq(Rows) /\ Len(<<>>) = 0
  BY EmptySeq
<1>3. RowsBytes(cols, <<>>, charset) = <<>>
  BY <1>2 DEF RowsBytes
<1>4. FlattenSeq(RowsBytes(cols, <<>>, charset)) = <<>>
  BY <1>3, FlattenEmpty
<1>5. 1..Len(<<>>) = {}
  BY <1>2
<1>6. QED
  BY <1>1, <1>2, <1>4, <1>5 DEF RowsInv

(* One row more in the list is its bytes more in the buffer.                 *)
LEMMA RowsBytesAppend ==
    ASSUME NEW cols \in Seq(Columns), NEW charset, NEW kept \in Seq(Rows), NEW row \in Rows,
           \A r \in 1..Len(kept) : Accepts(cols, kept[r], charset), Accepts(cols, row, charset)
    PROVE  /\ Append(kept, row) \in Seq(Rows)
           /\ \A r \in 1..Len(Append(kept, row)) : Accepts(cols, Append(kept, row)[r], charset)
           /\ FlattenSeq(RowsBytes(cols, Append(kept, row), charset))
                  = FlattenSeq(RowsBytes(cols, kept, charset)) \o RowBytes(cols, row, charset)
<1> DEFINE n == Len(kept)
           longer == Append(kept, row)
           seqs == RowsBytes(cols, kept, charset)
           e == RowBytes(cols, row, charset)
<1>1. /\ longer \in Seq(Rows) /\ n \in Nat /\ Len(longer) = n + 1
      /\ \A r \in 1..n : longer[r] = kept[r]
      /\ longer[n + 1] = row
  BY AppendProperties, LenProperties
<1> HIDE DEF longer
<1>2. ASSUME NEW r \in 1..(n + 1)
      PROVE  r \in 1..n \/ r = n + 1
  BY <1>1
<1>3. \A r \in 1..Len(longer) : Accepts(cols, longer[r], charset)
  BY <1>1, <1>2
<1>4. /\ seqs \in Seq(Seq(Int)) /\ Len(seqs) = n
      /\ \A r \in 1..n : seqs[r] = RowBytes(cols, kept[r], charset)
  BY <1>1, RowsBytesType
<1>5. e \in Seq(Int)
  BY ItemsType
<1>6. /\ RowsBytes(cols, longer, charset) \in Seq(Seq(Int))
      /\ Len(RowsBytes(cols, longer, charset)) = n + 1
      /\ \A r \in 1..(n + 1) : RowsBytes(cols, longer, charset)[r] = RowBytes(cols, longer[r], charset)
  <2>1. Len(longer) \in Nat
    BY <1>1
  <2>2. QED
    BY <1>1, <1>3, <2>1, RowsBytesType
<1> HIDE DEF seqs, e
<1>7. /\ Append(seqs, e) \in Seq(Seq(Int)) /\ Len(Append(seqs, e)) = n + 1
      /\ \A r \in 1..n : Append(seqs, e)[r] = seqs[r]
      /\ Append(seqs, e)[n + 1] = e
  BY <1>4, <1>5, AppendProperties
<1>8. ASSUME NEW r \in 1..(n + 1)
      PROVE  RowsBytes(cols, longer, charset)[r] = Append(seqs, e)[r]
  BY <1>1, <1>2, <1>4, <1>6, <1>7 DEF e
<1>9. RowsBytes(cols, longer, charset) = Append(seqs, e)
  BY <1>6, <1>7, <1>8, SeqEqual
<1>10. FlattenSeq(Append(seqs, e)) = FlattenSeq(seqs) \o e
  BY <1>4, <1>5, FlattenSnoc
<1>11. QED
  BY <1>1, <1>3, <1>9, <1>10 DEF seqs, e, longer

(* Every add keeps it. *)
LEMMA RowsStep == RowsInv /\ [MessageNext]_msg => RowsInv'
<1>1. SUFFICES ASSUME RowsInv, [MessageNext]_msg
               PROVE  RowsInv'
  OBVIOUS
<1>2. CASE UNCHANGED msg
  BY <1>1, <1>2 DEF RowsInv
<1>3. ASSUME NEW row \in Rows, Add(row)
      PROVE  RowsInv'
  <2> DEFINE r == EncodeRowInto(msg.buf, msg.cols, row, msg.charset)
  <2>1. /\ msg.cols \in Seq(Columns) /\ row \in Seq(ValueSet) /\ Len(row) = Len(msg.cols)
        /\ msg.buf \in Seq(Int) /\ msg.kept \in Seq(Rows)
    BY <1>1, <1>3, RowsAssumption, ColumnsAssumption DEF RowsInv, Add, Columns
  <2>2. msg' = [msg EXCEPT !.buf = r.out, !.kept = IF r.ok THEN Append(@, row) ELSE @]
    BY <1>3 DEF Add
  <2>3. \/ /\ r.ok /\ Accepts(msg.cols, row, msg.charset)
           /\ r.out = msg.buf \o RowBytes(msg.cols, row, msg.charset)
        \/ ~r.ok /\ r.out = msg.buf
    <3>1. PICK cols \in Seq(Columns), values \in Seq(ValueSet), buf \in Seq(Int) :
              cols = msg.cols /\ values = row /\ buf = msg.buf
      BY <2>1
    <3>2. Len(values) = Len(cols)
      BY <2>1, <3>1
    <3>3. \/ /\ EncodeRowInto(buf, cols, values, msg.charset).ok /\ Accepts(cols, values, msg.charset)
             /\ EncodeRowInto(buf, cols, values, msg.charset).out
                    = buf \o RowBytes(cols, values, msg.charset)
          \/ /\ ~EncodeRowInto(buf, cols, values, msg.charset).ok
             /\ EncodeRowInto(buf, cols, values, msg.charset).out = buf
      BY <3>2, RowAppended
    <3>4. QED
      BY <3>1, <3>3
  <2> HIDE DEF r
  <2>4. CASE /\ r.ok /\ Accepts(msg.cols, row, msg.charset)
             /\ r.out = msg.buf \o RowBytes(msg.cols, row, msg.charset)
    <3>1. PICK cols \in Seq(Columns), kept \in Seq(Rows), buf \in Seq(Int), charset \in Charsets :
              cols = msg.cols /\ kept = msg.kept /\ buf = msg.buf /\ charset = msg.charset
      BY <1>1, <2>1 DEF RowsInv
    <3>2. /\ \A q \in 1..Len(kept) : Accepts(cols, kept[q], charset)
          /\ buf = FlattenSeq(RowsBytes(cols, kept, charset))
          /\ Accepts(cols, row, charset)
      BY <1>1, <2>4, <3>1 DEF RowsInv
    <3>3. /\ Append(kept, row) \in Seq(Rows)
          /\ \A q \in 1..Len(Append(kept, row)) : Accepts(cols, Append(kept, row)[q], charset)
          /\ FlattenSeq(RowsBytes(cols, Append(kept, row), charset))
                 = buf \o RowBytes(cols, row, charset)
      BY <3>2, RowsBytesAppend
    <3>4. buf \o RowBytes(cols, row, charset) \in Seq(Int)
      BY <3>2, ItemsType, BytesJoin
    <3>5. msg' = [msg EXCEPT !.buf = buf \o RowBytes(cols, row, charset), !.kept = Append(kept, row)]
      BY <2>2, <2>4, <3>1
    <3>6. /\ msg' \in [path : {"execute", "batch"}, charset : Charsets, cols : ColumnLists,
                       buf : Seq(Int), kept : Seq(Rows)]
          /\ msg'.cols = cols /\ msg'.charset = charset /\ msg'.kept = Append(kept, row)
          /\ msg'.buf = buf \o RowBytes(cols, row, charset)
      BY <1>1, <3>1, <3>3, <3>4, <3>5 DEF RowsInv
    <3>7. QED
      BY <3>3, <3>6 DEF RowsInv
  <2>5. CASE ~r.ok /\ r.out = msg.buf
    <3>1. msg' = msg
      BY <1>1, <2>2, <2>5 DEF RowsInv
    <3>2. QED
      BY <1>1, <3>1 DEF RowsInv
  <2>6. QED
    BY <2>3, <2>4, <2>5
<1>4. QED
  BY <1>1, <1>2, <1>3 DEF MessageNext

(* The server finds the rows, the client finds them again.                   *)
LEMMA RowsInvArrive == RowsInv => RowsArrive
<1>1. SUFFICES ASSUME RowsInv
               PROVE  RowsArrive
  OBVIOUS
<1>2. PICK cols \in Seq(Columns), kept \in Seq(Rows), buf \in Seq(Int), charset \in Charsets :
          cols = msg.cols /\ kept = msg.kept /\ buf = msg.buf /\ charset = msg.charset
  BY <1>1, ColumnsAssumption DEF RowsInv, Columns
<1>3. /\ Len(kept) \in Nat /\ \A r \in 1..Len(kept) : Accepts(cols, kept[r], charset)
      /\ buf = FlattenSeq(RowsBytes(cols, kept, charset))
      /\ msg.path \in {"execute", "batch"}
  BY <1>1, <1>2, LenProperties DEF RowsInv
<1>4. ASSUME ~(msg.path = "batch" /\ HasZone(cols))
      PROVE  ServerSeesRows
  <2> DEFINE out == msg.path = "batch"
             blr == DeclaredBlr
  <2>1. Len(blr) = Len(cols) /\ \A i \in 1..Len(cols) : blr[i] = PushType(cols[i], out)
    <3>1. Len(cols) \in Nat
      BY LenProperties
    <3>2. CASE msg.path = "batch"
      <4>1. blr = message_blr(cols) /\ out = TRUE
        BY <1>2, <3>2 DEF DeclaredBlr
      <4> HIDE DEF blr, out
      <4>2. QED
        BY <3>1, <4>1 DEF message_blr
    <3>3. CASE msg.path # "batch"
      <4>1. blr = input_blr(cols) /\ out = FALSE
        BY <1>2, <3>3 DEF DeclaredBlr
      <4> HIDE DEF blr, out
      <4>2. Len(blr) = Len(cols) /\ \A i \in 1..Len(cols) : blr[i] = PushType(cols[i], FALSE)
        BY <3>1, <4>1 DEF input_blr
      <4>3. QED
        BY <4>1, <4>2
    <3>4. QED
      BY <3>2, <3>3
  <2>2. Declares(blr, cols, out) /\ out \in BOOLEAN
    BY <1>4, <2>1 DEF Declares, HasZone, Zones
  <2> HIDE DEF blr, out
  <2>3. SrvReadRows(buf, blr, Len(kept))
            = [rows |-> [r \in 1..Len(kept) |->
                            [i \in 1..Len(cols) |-> Held(cols[i], kept[r][i], charset)]],
               next |-> Len(buf)]
    BY <1>3, <2>2, ServerReadsRows
  <2>4. HasZone(cols) \/ HasUnknown(cols) \/ message_buffer_len(cols) = SrvMessageLen(blr)
    BY <2>1, LengthsAgree
  <2>5. QED
    BY <1>2, <2>3, <2>4 DEF ServerSeesRows, blr
<1>5. CallerSeesRows
  <2>1. ASSUME NEW r \in 1..Len(kept)
        PROVE  decode_row(SrvRow(cols, kept[r], charset), cols)
                   = [row |-> [i \in 1..Len(cols) |-> Returned(cols[i], kept[r][i], charset)],
                      next |-> Len(SrvRow(cols, kept[r], charset))]
    BY <1>3, ClientReadsRow
  <2>2. ASSUME NEW r \in 1..Len(msg.kept)
        PROVE  LET back == SrvRow(msg.cols, msg.kept[r], msg.charset)
                   read == decode_row(back, msg.cols)
               IN  /\ read.next = Len(back)
                   /\ read.row = [i \in 1..Len(msg.cols) |->
                                     Returned(msg.cols[i], msg.kept[r][i], msg.charset)]
    <3>1. r \in 1..Len(kept)
      BY <1>2
    <3>2. decode_row(SrvRow(cols, kept[r], charset), cols)
              = [row |-> [i \in 1..Len(cols) |-> Returned(cols[i], kept[r][i], charset)],
                 next |-> Len(SrvRow(cols, kept[r], charset))]
      BY <2>1, <3>1
    <3>3. QED
      BY <1>2, <3>2
  <2>3. QED
    BY <2>2 DEF CallerSeesRows
<1>6. QED
  BY <1>2, <1>4, <1>5 DEF RowsArrive

(***************************************************************************)
(* For every list of columns, charset and rows, and as many rows as one    *)
(* cares to add: the buffer of a message carries the rows it accepted, for *)
(* the server that knows the BLR and for the client that reads them back.  *)
(***************************************************************************)
THEOREM RowsAlwaysArrive == MessageSpec => []RowsArrive
<1>1. MessageInit => RowsInv
  BY RowsStart
<1>2. RowsInv /\ [MessageNext]_msg => RowsInv'
  BY RowsStep
<1>3. RowsInv => RowsArrive
  BY RowsInvArrive
<1>4. QED
  BY <1>1, <1>2, <1>3, PTL DEF MessageSpec


-------------------------------------------------------------------------------
(* Rust's division is the floor where nothing is negative. *)
LEMMA QuotNat ==
    ASSUME NEW a \in Nat, NEW b \in Nat
    PROVE  Quot(a, b) = a \div b
  BY DEF Quot

(* A quotient is found by its bounds. *)
LEMMA QuotientIs ==
    ASSUME NEW a \in Int, NEW b \in Int, NEW q \in Int, b > 0, b * q <= a, a < b * q + b
    PROVE  a \div b = q
  OBVIOUS

(* The era of a year or of a day, counted from March of the year 0.          *)
LEMMA EraIs ==
    ASSUME NEW n \in Int, NEW e \in Int, NEW x \in Int,
           n > 0, n * e <= x, x < n * e + n
    PROVE  Quot(IF x >= 0 THEN x ELSE x - (n - 1), n) = e
<1>1. CASE x >= 0
  <2>1. x \div n = e
    BY QuotientIs
  <2>2. QED
    BY <1>1, <2>1 DEF Quot
<1>2. CASE x < 0
  <2>1. ((n - 1) - x) \div n = -e
    <3>1. n * (-e) = -(n * e)
      OBVIOUS
    <3>2. QED
      BY <3>1, QuotientIs
  <2>2. x - (n - 1) < 0 /\ -(x - (n - 1)) = (n - 1) - x
    BY <1>2
  <2>3. QED
    BY <1>2, <2>1, <2>2 DEF Quot
<1>3. QED
  BY <1>1, <1>2

(* The year of an era: c centuries, k cycles of four years, r years. The     *)
(* years begin in March, and the last day of the fourth year of a cycle is   *)
(* the 29th of February.                                                     *)
YearIn(c, k, r) == 100 * c + 4 * k + r
DayIn(c, k, r, d) == 36524 * c + 1461 * k + 365 * r + d
Parts(c, k, r) == c \in 0..3 /\ k \in 0..24 /\ r \in 0..3
IsDayOf(c, k, r, d) ==
    d \in Int /\ 0 <= d /\ d <= 365 /\ (d = 365 => r = 3 /\ (k # 24 \/ c = 3))

(* Every year of an era has its century, cycle and year. *)
LEMMA YearParts ==
    ASSUME NEW y \in Int, 0 <= y, y < 400
    PROVE  \E c \in 0..3, k \in 0..24, r \in 0..3 : Parts(c, k, r) /\ y = YearIn(c, k, r)
<1>1. \E c \in 0..3, k \in 0..24, r \in 0..3 : y = 100 * c + 4 * k + r
  OBVIOUS
<1>2. PICK c \in 0..3, k \in 0..24, r \in 0..3 : y = 100 * c + 4 * k + r
  BY <1>1
<1>3. Parts(c, k, r) /\ y = YearIn(c, k, r)
  BY <1>2 DEF Parts, YearIn
<1>4. QED
  BY <1>3

(* The quotients of a year by 4 and by 100. *)
LEMMA YearQuotients ==
    ASSUME NEW c, NEW k, NEW r, Parts(c, k, r)
    PROVE  /\ YearIn(c, k, r) \in Int /\ 0 <= YearIn(c, k, r) /\ YearIn(c, k, r) < 400
           /\ YearIn(c, k, r) \div 4 = 25 * c + k
           /\ YearIn(c, k, r) \div 100 = c
  BY DEF YearIn, Parts

(* The quotients the conversion takes of the day of the era: carry tells     *)
(* whether the year crosses a multiple of 1460 days, last the last day.      *)
Quotients(doe, c, k, d, carry, last) ==
    /\ 0 <= d - carry /\ d - carry < 365
    /\ doe \div 1460 = 25 * c + k + carry
    /\ doe \div 36524 = c + last
    /\ doe \div 146096 = last

(* Every day of an era has such a carry and such a last. *)
LEMMA DayQuotients ==
    ASSUME NEW c, NEW k, NEW r, NEW d, Parts(c, k, r), IsDayOf(c, k, r, d),
           NEW doe, doe = DayIn(c, k, r, d)
    PROVE  /\ doe \in Int /\ 0 <= doe /\ doe <= 146096
           /\ \E carry, last \in 0..1 : Quotients(doe, c, k, d, carry, last)
<1>1. /\ c \in Int /\ 0 <= c /\ c <= 3
      /\ k \in Int /\ 0 <= k /\ k <= 24
      /\ r \in Int /\ 0 <= r /\ r <= 3
      /\ d \in Int /\ 0 <= d /\ d <= 365
      /\ d = 365 => r = 3 /\ (k # 24 \/ c = 3)
      /\ doe \in Int /\ doe = 36524 * c + 1461 * k + 365 * r + d
  BY DEF Parts, IsDayOf, DayIn
<1>2. doe \in Int /\ 0 <= doe /\ doe <= 146096
  BY <1>1
<1>3. PICK s \in Int : s = 24 * c + k + 365 * r + d
  BY <1>1
<1>4. PICK carry \in 0..1 : carry = 1 <=> s >= 1460
  BY <1>3
<1>5. 0 <= d - carry /\ d - carry < 365
  BY <1>1, <1>3, <1>4
<1>6. doe \div 1460 = 25 * c + k + carry
  <2>1. 1460 * (25 * c + k + carry) <= doe /\ doe < 1460 * (25 * c + k + carry) + 1460
    BY <1>1, <1>3, <1>4
  <2>2. 25 * c + k + carry \in Int
    BY <1>1
  <2>3. QED
    BY <1>2, <2>1, <2>2, QuotientIs
<1>7. PICK last \in 0..1 : doe \div 36524 = c + last /\ doe \div 146096 = last
  <2>1. PICK rest \in Int : rest = 1461 * k + 365 * r + d
    BY <1>1
  <2>2. 0 <= rest /\ rest <= 36524 /\ (rest = 36524 => c = 3) /\ doe = 36524 * c + rest
    BY <1>1, <2>1
  <2>3. CASE rest = 36524
    <3>1. doe \div 36524 = c + 1 /\ doe \div 146096 = 1
      BY <1>1, <2>2, <2>3
    <3>2. QED
      BY <3>1
  <2>4. CASE rest < 36524
    <3>1. doe \div 36524 = c + 0 /\ doe \div 146096 = 0
      BY <1>1, <2>2, <2>4
    <3>2. QED
      BY <3>1
  <2>5. QED
    BY <2>1, <2>2, <2>3, <2>4
<1>8. Quotients(doe, c, k, d, carry, last)
  BY <1>5, <1>6, <1>7 DEF Quotients
<1>9. QED
  BY <1>2, <1>8

(* YearOfEra gives the year back, on every day of an era. *)
LEMMA YearOfEraIs ==
    ASSUME NEW c, NEW k, NEW r, NEW d, Parts(c, k, r), IsDayOf(c, k, r, d)
    PROVE  /\ DayIn(c, k, r, d) \in Int
           /\ 0 <= DayIn(c, k, r, d) /\ DayIn(c, k, r, d) < 146097
           /\ YearOfEra(DayIn(c, k, r, d)) = YearIn(c, k, r)
<1>1. c \in Int /\ k \in Int /\ r \in Int /\ d \in Int
  BY DEF Parts, IsDayOf
<1>2. PICK doe : doe = DayIn(c, k, r, d)
  OBVIOUS
<1>3. /\ doe \in Int /\ 0 <= doe /\ doe <= 146096
      /\ \E carry, last \in 0..1 : Quotients(doe, c, k, d, carry, last)
  BY <1>2, DayQuotients
<1>4. PICK carry \in 0..1, last \in 0..1 : Quotients(doe, c, k, d, carry, last)
  BY <1>3
<1>5. PICK n \in Int : n = doe - (25 * c + k + carry) + (c + last) - last
  BY <1>1, <1>3
<1>6. n = 365 * YearIn(c, k, r) + (d - carry) /\ YearIn(c, k, r) \in Int /\ n >= 0
  <2>1. doe = 36524 * c + 1461 * k + 365 * r + d
    BY <1>2 DEF DayIn
  <2>2. n = 365 * YearIn(c, k, r) + (d - carry)
    BY <1>1, <1>5, <2>1 DEF YearIn
  <2>3. YearIn(c, k, r) \in Int /\ 0 <= YearIn(c, k, r)
    BY YearQuotients
  <2>4. QED
    BY <1>1, <1>4, <2>2, <2>3 DEF Quotients
<1>7. YearOfEra(doe) = n \div 365
  <2>1. YearOfEra(doe) = Quot(n, 365)
    BY <1>3, <1>4, <1>5 DEF YearOfEra, Quot, Quotients
  <2>2. QED
    BY <1>6, <2>1 DEF Quot
<1>8. n \div 365 = YearIn(c, k, r)
  BY <1>1, <1>4, <1>6, QuotientIs DEF Quotients
<1>9. QED
  BY <1>2, <1>3, <1>7, <1>8

-------------------------------------------------------------------------------
(* The calendar counted from March: the months begin at the days of          *)
(* MonthStart, and the year of a date is the one its March belongs to.       *)
MarchMonth(m) == IF m > 2 THEN m - 3 ELSE m + 9
MarchYear(date) == IF date.month <= 2 THEN date.year - 1 ELSE date.year
MonthStart(m) == Quot(153 * MarchMonth(m) + 2, 5)
DayOfMarchYear(date) == MonthStart(date.month) + date.day - 1
YearDays(y) == 365 * y + (y \div 4) - (y \div 100) + (y \div 400)

(* Rust's division finds the first day of every month. *)
LEMMA MonthStarts ==
    ASSUME NEW m \in 1..12
    PROVE  MonthStart(m) = CASE m = 1 -> 306 [] m = 2 -> 337 [] m = 3 -> 0 [] m = 4 -> 31
                             [] m = 5 -> 61 [] m = 6 -> 92 [] m = 7 -> 122 [] m = 8 -> 153
                             [] m = 9 -> 184 [] m = 10 -> 214 [] m = 11 -> 245 [] m = 12 -> 275
  BY DEF MonthStart, MarchMonth, Quot

(* The table of days before a month agrees with it. *)
LEMMA DaysBeforeStarts ==
    ASSUME NEW m \in 1..12
    PROVE  /\ DaysBefore[m] \in Int /\ MonthStart(m) \in Int
           /\ DaysBefore[m] = MonthStart(m) + (IF m > 2 THEN 59 ELSE -306)
  BY MonthStarts DEF DaysBefore

(* The longest a month can be. *)
LEMMA MonthLengths ==
    ASSUME NEW y \in Int, NEW m \in 1..12
    PROVE  /\ MonthLength(y, m) \in Int
           /\ m = 2 => MonthLength(y, m) = IF Leap(y) THEN 29 ELSE 28
           /\ m \in {4, 6, 9, 11} => MonthLength(y, m) = 30
           /\ m \in {1, 3, 5, 7, 8, 10, 12} => MonthLength(y, m) = 31
  BY DEF MonthLength

(* A year is a day longer when it is a leap year. *)
LEMMA LeapDay ==
    ASSUME NEW y \in Int
    PROVE  /\ YearDays(y) \in Int
           /\ YearDays(y) = YearDays(y - 1) + 365 + (IF Leap(y) THEN 1 ELSE 0)
<1>1. /\ y \div 4 = ((y - 1) \div 4) + (IF y % 4 = 0 THEN 1 ELSE 0)
      /\ y \div 100 = ((y - 1) \div 100) + (IF y % 100 = 0 THEN 1 ELSE 0)
      /\ y \div 400 = ((y - 1) \div 400) + (IF y % 400 = 0 THEN 1 ELSE 0)
  OBVIOUS
<1>2. (y % 400 = 0 => y % 100 = 0) /\ (y % 100 = 0 => y % 4 = 0)
  OBVIOUS
<1>3. QED
  BY <1>1, <1>2 DEF YearDays, Leap

(* The years before one in an era. *)
LEMMA EraDays ==
    ASSUME NEW e \in Int, NEW c, NEW k, NEW r, Parts(c, k, r),
           NEW d \in Int
    PROVE  YearDays(400 * e + YearIn(c, k, r)) + d = 146097 * e + DayIn(c, k, r, d)
<1>1. PICK y \in Int : y = 400 * e + 100 * c + 4 * k + r
  BY DEF Parts
<1>2. c \in 0..3 /\ k \in 0..24 /\ r \in 0..3
  BY DEF Parts
<1>3. y \div 4 = 100 * e + 25 * c + k /\ y \div 100 = 4 * e + c /\ y \div 400 = e
  <2>1. y \div 4 = 100 * e + 25 * c + k
    BY <1>1, <1>2
  <2>2. y \div 100 = 4 * e + c
    BY <1>1, <1>2
  <2>3. y \div 400 = e
    BY <1>1, <1>2
  <2>4. QED
    BY <2>1, <2>2, <2>3
<1>4. y = 400 * e + YearIn(c, k, r)
  BY <1>1, <1>2 DEF YearIn
<1>5. YearDays(y) + d = 146097 * e + DayIn(c, k, r, d)
  BY <1>1, <1>2, <1>3 DEF YearDays, DayIn
<1>6. QED
  BY <1>4, <1>5

(* A day number, counted from March. *)
LEMMA NumberFromMarch ==
    ASSUME NEW date, IsDate(date)
    PROVE  /\ MarchYear(date) \in Int /\ DayOfMarchYear(date) \in Int
           /\ DayNumber(date) = YearDays(MarchYear(date)) + DayOfMarchYear(date) - 719468
<1>1. date.year \in Int /\ date.month \in 1..12 /\ date.day \in Int
  BY DEF IsDate
<1>2. PICK before \in Int, start \in Int :
        /\ before = DaysBefore[date.month] /\ start = MonthStart(date.month)
        /\ before = start + (IF date.month > 2 THEN 59 ELSE -306)
  BY <1>1, DaysBeforeStarts
<1>3. PICK y \in Int : y = date.year
  BY <1>1
<1>4. /\ YearDays(y) \in Int /\ YearDays(y - 1) \in Int
      /\ YearDays(y) = YearDays(y - 1) + 365 + (IF Leap(y) THEN 1 ELSE 0)
  BY <1>3, LeapDay
<1>5. DayNumber(date) = YearDays(y - 1) + before
         + (IF date.month > 2 /\ Leap(y) THEN 1 ELSE 0) + date.day - 719163
  BY <1>1, <1>2, <1>3 DEF DayNumber, YearDays
<1>6. QED
  BY <1>1, <1>2, <1>3, <1>4, <1>5 DEF MarchYear, DayOfMarchYear

(* The day of the year in March's year: the last is a leap year's. *)
LEMMA DayOfMarchYearBounds ==
    ASSUME NEW date, IsDate(date), NEW c, NEW k, NEW r, Parts(c, k, r), NEW e \in Int,
           MarchYear(date) = 400 * e + YearIn(c, k, r)
    PROVE  IsDayOf(c, k, r, DayOfMarchYear(date))
<1>1. PICK y \in Int, m \in 1..12, d \in Int :
        /\ y = date.year /\ m = date.month /\ d = date.day
        /\ 1 <= d /\ d <= MonthLength(y, m)
  BY DEF IsDate
<1>2. PICK n \in Int : n = DayOfMarchYear(date)
  BY NumberFromMarch
<1>3. n = MonthStart(m) + d - 1
  BY <1>1, <1>2 DEF DayOfMarchYear
<1>4. 0 <= n /\ n <= 365 /\ (n = 365 => m = 2 /\ Leap(y))
  <2>1. CASE m = 2
    <3>1. MonthStart(m) = 337 /\ MonthLength(y, m) = IF Leap(y) THEN 29 ELSE 28
      BY <1>1, <2>1, MonthStarts, MonthLengths
    <3>2. QED
      BY <1>1, <1>3, <2>1, <3>1
  <2>2. CASE m = 1 \/ m > 2
    <3>1. /\ MonthStart(m) \in Int /\ MonthStart(m) >= 0 /\ MonthStart(m) <= 306
          /\ MonthLength(y, m) \in Int /\ MonthLength(y, m) <= 31
      BY <1>1, <2>2, MonthStarts, MonthLengths
    <3>2. QED
      BY <1>1, <1>3, <2>2, <3>1
  <2>3. QED
    BY <1>1, <2>1, <2>2
<1>5. ASSUME m = 2, Leap(y)
      PROVE  r = 3 /\ (k # 24 \/ c = 3)
  <2>1. y = 400 * e + (100 * c + 4 * k + r) + 1
    BY <1>1, <1>5 DEF MarchYear, YearIn
  <2>2. c \in 0..3 /\ k \in 0..24 /\ r \in 0..3
    BY DEF Parts
  <2>3. r = 3
    BY <1>5, <2>1, <2>2 DEF Leap
  <2>4. ASSUME k = 24
        PROVE  c = 3
    <3>1. y = 400 * e + 100 * (c + 1)
      BY <2>1, <2>2, <2>3, <2>4
    <3>2. y % 100 = 0
      BY <2>2, <3>1
    <3>3. y % 400 = 0
      BY <1>5, <3>2 DEF Leap
    <3>4. QED
      BY <2>2, <3>1, <3>3
  <2>5. QED
    BY <2>3, <2>4
<1>6. QED
  BY <1>2, <1>4, <1>5 DEF IsDayOf

(* The month and the day of the month, from the day of March's year. *)
DayOfMonth(y, m, d, n) ==
    /\ y \in Int /\ m \in 1..12 /\ d \in Int
    /\ 1 <= d /\ d <= MonthLength(y, m)
    /\ n = MonthStart(m) + d - 1

(* Dividing by 153 finds the month, and the month's start the day. *)
LEMMA MonthOfDay ==
    ASSUME NEW y, NEW m, NEW d, NEW n, DayOfMonth(y, m, d, n)
    PROVE  /\ Quot(5 * n + 2, 153) = MarchMonth(m)
           /\ n - Quot(153 * MarchMonth(m) + 2, 5) + 1 = d
           /\ m = IF MarchMonth(m) < 10 THEN MarchMonth(m) + 3 ELSE MarchMonth(m) - 9
<1> USE DEF DayOfMonth
<1>1. MonthStart(m) \in Int /\ MonthStart(m) >= 0 /\ n \in Nat
  BY MonthStarts
<1>2. MarchMonth(m) \in 0..11 /\ (5 * n + 2) \in Nat
  BY <1>1 DEF MarchMonth
<1>3. 153 * MarchMonth(m) <= 5 * n + 2 /\ 5 * n + 2 < 153 * MarchMonth(m) + 153
  BY MonthStarts, MonthLengths DEF MarchMonth
<1>4. Quot(5 * n + 2, 153) = (5 * n + 2) \div 153
  BY <1>2 DEF Quot
<1>5. Quot(5 * n + 2, 153) = MarchMonth(m)
  <2>1. PICK q \in Int, x \in Int :
          q = MarchMonth(m) /\ x = 5 * n + 2 /\ 153 * q <= x /\ x < 153 * q + 153
    BY <1>1, <1>2, <1>3
  <2>2. 153 > 0 /\ 153 * q <= x /\ x < 153 * q + 153
    BY <2>1
  <2>3. x \div 153 = q
    BY <2>2, QuotientIs
  <2>4. QED
    BY <1>4, <2>1, <2>3
<1>6. n - Quot(153 * MarchMonth(m) + 2, 5) + 1 = d
  BY <1>1 DEF MonthStart
<1>7. m = IF MarchMonth(m) < 10 THEN MarchMonth(m) + 3 ELSE MarchMonth(m) - 9
  BY DEF MarchMonth
<1>8. QED
  BY <1>5, <1>6, <1>7

(* The parts of a date: its era, the year in it, the day of that year. *)
LEMMA DateParts ==
    ASSUME NEW date, IsDate(date)
    PROVE  \E e \in Int, c \in 0..3, k \in 0..24, r \in 0..3 :
              /\ Parts(c, k, r)
              /\ MarchYear(date) = 400 * e + YearIn(c, k, r)
              /\ IsDayOf(c, k, r, DayOfMarchYear(date))
              /\ DayNumber(date) = 146097 * e + DayIn(c, k, r, DayOfMarchYear(date)) - 719468
<1>1. PICK y \in Int, n \in Int : y = MarchYear(date) /\ n = DayOfMarchYear(date)
  BY NumberFromMarch
<1>2. PICK e \in Int, a \in Int : y = 400 * e + a /\ 0 <= a /\ a < 400
  <2>1. /\ y \div 400 \in Int /\ y - 400 * (y \div 400) \in Int
        /\ 0 <= y - 400 * (y \div 400) /\ y - 400 * (y \div 400) < 400
    OBVIOUS
  <2>2. y = 400 * (y \div 400) + (y - 400 * (y \div 400))
    OBVIOUS
  <2>3. QED
    BY <2>1, <2>2
<1>3. PICK c \in 0..3, k \in 0..24, r \in 0..3 : Parts(c, k, r) /\ a = YearIn(c, k, r)
  <2>1. a \in Int /\ 0 <= a /\ a < 400
    BY <1>2
  <2>2. \E c \in 0..3, k \in 0..24, r \in 0..3 : Parts(c, k, r) /\ a = YearIn(c, k, r)
    BY <2>1, YearParts
  <2>3. QED
    BY <2>2
<1>4. IsDayOf(c, k, r, DayOfMarchYear(date))
  <2>1. MarchYear(date) = 400 * e + YearIn(c, k, r)
    BY <1>1, <1>2, <1>3
  <2>2. QED
    BY <1>2, <1>3, <2>1, DayOfMarchYearBounds
<1>5. YearDays(y) + n = 146097 * e + DayIn(c, k, r, n)
  BY <1>2, <1>3, EraDays
<1>6. DayNumber(date) = YearDays(y) + n - 719468
  BY <1>1, NumberFromMarch
<1>7. DayNumber(date) = 146097 * e + DayIn(c, k, r, n) - 719468
  <2>1. DayIn(c, k, r, n) \in Int
    BY <1>1, <1>3, <1>4, YearOfEraIs
  <2>2. YearDays(y) \in Int
    BY LeapDay
  <2>3. QED
    BY <1>5, <1>6, <2>1, <2>2
<1>8. QED
  BY <1>1, <1>2, <1>3, <1>4, <1>7

(* From the date to its day number. *)
LEMMA DaysFromCivil ==
    ASSUME NEW date, IsDate(date)
    PROVE  unix_days_from_civil(date) = DayNumber(date)
<1>1. PICK e \in Int, c \in 0..3, k \in 0..24, r \in 0..3 :
        /\ Parts(c, k, r)
        /\ MarchYear(date) = 400 * e + YearIn(c, k, r)
        /\ DayNumber(date) = 146097 * e + DayIn(c, k, r, DayOfMarchYear(date)) - 719468
  BY DateParts
<1>2. PICK y \in Int, a \in Int, n \in Int, m \in 1..12 :
        /\ y = MarchYear(date) /\ a = YearIn(c, k, r) /\ n = DayOfMarchYear(date)
        /\ m = date.month
        /\ 0 <= a /\ a < 400
  <2>1. MarchYear(date) \in Int /\ DayOfMarchYear(date) \in Int
    BY NumberFromMarch
  <2>2. /\ YearIn(c, k, r) \in Int
        /\ 0 <= YearIn(c, k, r) /\ YearIn(c, k, r) < 400
    BY <1>1, YearQuotients
  <2>3. date.month \in 1..12
    BY DEF IsDate
  <2>4. QED
    BY <2>1, <2>2, <2>3
<1>3. Quot(IF y >= 0 THEN y ELSE y - 399, 400) = e
  <2>1. y = 400 * e + a
    BY <1>1, <1>2
  <2>2. Quot(IF y >= 0 THEN y ELSE y - (400 - 1), 400) = e
    BY <1>2, <2>1, EraIs
  <2>3. QED
    BY <2>2
<1>4. y - e * 400 = a
  BY <1>1, <1>2
<1>5. Quot(a, 4) = 25 * c + k /\ Quot(a, 100) = c
  BY <1>1, <1>2, YearQuotients DEF Quot
<1>6. n = Quot(153 * (IF m > 2 THEN m - 3 ELSE m + 9) + 2, 5) + date.day - 1
  BY <1>2 DEF DayOfMarchYear, MonthStart, MarchMonth
<1>7. y = IF m <= 2 THEN date.year - 1 ELSE date.year
  BY <1>2 DEF MarchYear
<1>8. unix_days_from_civil(date)
        = e * 146097 + (a * 365 + Quot(a, 4) - Quot(a, 100) + n) - 719468
  BY <1>2, <1>3, <1>4, <1>6, <1>7 DEF unix_days_from_civil
<1>9. a * 365 + (25 * c + k) - c + n = DayIn(c, k, r, n)
  BY <1>1, <1>2 DEF YearIn, DayIn, Parts
<1>10. DayIn(c, k, r, n) \in Int
  BY <1>1, <1>2 DEF DayIn, Parts
<1>11. QED
  BY <1>1, <1>2, <1>5, <1>8, <1>9, <1>10

(* From the day number to the date. *)
LEMMA CivilFromDays ==
    ASSUME NEW date, IsDate(date)
    PROVE  civil_from_unix_days(DayNumber(date)) = date
<1>1. PICK e \in Int, c \in 0..3, k \in 0..24, r \in 0..3 :
        /\ Parts(c, k, r)
        /\ MarchYear(date) = 400 * e + YearIn(c, k, r)
        /\ IsDayOf(c, k, r, DayOfMarchYear(date))
        /\ DayNumber(date) = 146097 * e + DayIn(c, k, r, DayOfMarchYear(date)) - 719468
  BY DateParts
<1> DEFINE a == YearIn(c, k, r)
           n == DayOfMarchYear(date)
           m == date.month
           days == DayNumber(date)
           doe == DayIn(c, k, r, n)
           y == date.year
           d == date.day
<1>2. /\ a \in Int /\ n \in Int /\ m \in 1..12 /\ days \in Int /\ doe \in Int
      /\ y \in Int /\ d \in Int
      /\ 0 <= doe /\ doe < 146097
      /\ n = MonthStart(m) + d - 1 /\ 1 <= d /\ d <= MonthLength(y, m)
      /\ days = 146097 * e + doe - 719468
      /\ (IF m <= 2 THEN y - 1 ELSE y) = 400 * e + a
  <2>1. n \in Int
    BY NumberFromMarch
  <2>2. doe \in Int /\ 0 <= doe /\ doe < 146097
    BY <1>1, YearOfEraIs
  <2>3. days = 146097 * e + doe - 719468
    BY <1>1
  <2>4. a \in Int
    BY <1>1, YearQuotients
  <2>5. m \in 1..12 /\ y \in Int /\ d \in Int /\ 1 <= d /\ d <= MonthLength(y, m)
    BY DEF IsDate
  <2>6. n = MonthStart(m) + d - 1
    BY DEF DayOfMarchYear
  <2>7. (IF m <= 2 THEN y - 1 ELSE y) = 400 * e + a
    BY <1>1 DEF MarchYear
  <2> HIDE DEF a, n, m, days, doe, y, d
  <2>8. QED
    BY <2>1, <2>2, <2>3, <2>4, <2>5, <2>6, <2>7
<1>3. YearOfEra(doe) = a
  BY <1>1, YearOfEraIs
<1>4. doe - (365 * a + Quot(a, 4) - Quot(a, 100)) = n
  <2>1. Quot(a, 4) = 25 * c + k /\ Quot(a, 100) = c
    BY <1>1, YearQuotients DEF Quot
  <2>2. QED
    BY <1>1, <1>2, <2>1 DEF YearIn, DayIn, Parts
<1> HIDE DEF a, n, m, days, doe, y, d
<1>5. PICK z \in Int : z = days + 719468 /\ z = 146097 * e + doe
  BY <1>2
<1>6. Quot(IF z >= 0 THEN z ELSE z - 146096, 146097) = e
  <2>1. Quot(IF z >= 0 THEN z ELSE z - (146097 - 1), 146097) = e
    BY <1>2, <1>5, EraIs
  <2>2. QED
    BY <2>1
<1>7. z - e * 146097 = doe
  BY <1>2, <1>5
<1>8. /\ Quot(5 * n + 2, 153) = MarchMonth(m)
      /\ n - Quot(153 * MarchMonth(m) + 2, 5) + 1 = d
      /\ m = IF MarchMonth(m) < 10 THEN MarchMonth(m) + 3 ELSE MarchMonth(m) - 9
  <2>1. DayOfMonth(y, m, d, n)
    BY <1>2 DEF DayOfMonth
  <2>2. QED
    BY <2>1, MonthOfDay
<1>9. y = IF m <= 2 THEN (a + e * 400) + 1 ELSE a + e * 400
  BY <1>2
<1>10. civil_from_unix_days(days) = Civil(y, m, d)
  BY <1>2, <1>3, <1>4, <1>5, <1>6, <1>7, <1>8, <1>9 DEF civil_from_unix_days
<1>11. Civil(y, m, d) = date
  BY DEF Civil, IsDate, y, m, d
<1>12. QED
  BY <1>10, <1>11 DEF days

(* The next day of the calendar is a date, and its number the next number. *)
LEMMA NextDay ==
    ASSUME NEW date, IsDate(date)
    PROVE  IsDate(DayAfter(date)) /\ DayNumber(DayAfter(date)) = DayNumber(date) + 1
<1> DEFINE y == date.year
           m == date.month
           d == date.day
<1>1. /\ y \in Int /\ m \in 1..12 /\ d \in 1..31
      /\ date = Civil(y, m, d) /\ d <= MonthLength(y, m)
      /\ y = date.year /\ m = date.month /\ d = date.day
  BY DEF Civil, IsDate
<1> HIDE DEF y, m, d
<1>2. /\ MonthLength(y, m) \in Int
      /\ m = 2 => MonthLength(y, m) = IF Leap(y) THEN 29 ELSE 28
      /\ m \in {4, 6, 9, 11} => MonthLength(y, m) = 30
      /\ m \in {1, 3, 5, 7, 8, 10, 12} => MonthLength(y, m) = 31
  BY <1>1, MonthLengths
<1>3. MonthLength(y, m) <= 31
  BY <1>1, <1>2
<1> DEFINE number(year, month, day) ==
             YearDays(year - 1) + DaysBefore[month]
               + (IF month > 2 /\ Leap(year) THEN 1 ELSE 0) + day - 719163
<1>4. ASSUME NEW year \in Int, NEW month \in 1..12, NEW day \in Int
      PROVE  DayNumber(Civil(year, month, day)) = number(year, month, day)
  BY DaysBeforeStarts DEF DayNumber, Civil, YearDays
<1>5. DayNumber(date) = number(y, m, d)
  <2> HIDE DEF number
  <2>1. DayNumber(Civil(y, m, d)) = number(y, m, d)
    BY <1>1, <1>4
  <2>2. QED
    BY <1>1, <2>1
<1>6. CASE d < MonthLength(y, m)
  <2>1. DayAfter(date) = Civil(y, m, d + 1)
    BY <1>1, <1>6 DEF DayAfter, Civil
  <2>2. IsDate(Civil(y, m, d + 1))
    BY <1>1, <1>2, <1>3, <1>6 DEF IsDate, Civil
  <2>3. number(y, m, d + 1) = number(y, m, d) + 1
    <3>1. YearDays(y - 1) \in Int /\ DaysBefore[m] \in Int /\ d \in Int
      BY <1>1, DaysBeforeStarts, LeapDay
    <3>2. QED
      BY <3>1
  <2> HIDE DEF number
  <2>4. DayNumber(Civil(y, m, d + 1)) = number(y, m, d + 1)
    <3>1. y \in Int /\ m \in 1..12 /\ d + 1 \in Int
      BY <1>1
    <3>2. QED
      BY <1>4, <3>1
  <2>5. QED
    BY <1>5, <2>1, <2>2, <2>3, <2>4
<1>7. CASE d = MonthLength(y, m) /\ m < 12
  <2>1. DayAfter(date) = Civil(y, m + 1, 1)
    BY <1>1, <1>7 DEF DayAfter, Civil
  <2>2. IsDate(Civil(y, m + 1, 1))
    BY <1>1, <1>7, MonthLengths DEF IsDate, Civil
  <2>3. number(y, m + 1, 1) = number(y, m, d) + 1
    <3>1. YearDays(y - 1) \in Int /\ DaysBefore[m] \in Int /\ m \in 1..11
      BY <1>1, <1>7, DaysBeforeStarts, LeapDay
    <3>2. DaysBefore[m + 1] = DaysBefore[m] + (IF m = 2 THEN 28
                                               ELSE IF m \in {4, 6, 9, 11} THEN 30 ELSE 31)
      BY <3>1 DEF DaysBefore
    <3>3. CASE m = 2
      <4>1. d = (IF Leap(y) THEN 29 ELSE 28) /\ DaysBefore[m + 1] = DaysBefore[m] + 28
        BY <1>2, <1>7, <3>2, <3>3
      <4>2. m + 1 > 2 /\ ~(m > 2)
        BY <3>3
      <4>3. CASE Leap(y)
        BY <1>1, <3>1, <4>1, <4>2, <4>3
      <4>4. CASE ~Leap(y)
        BY <1>1, <3>1, <4>1, <4>2, <4>4
      <4>5. QED
        BY <4>3, <4>4
    <3>4. CASE m # 2
      <4>1. d = (IF m \in {4, 6, 9, 11} THEN 30 ELSE 31)
        BY <1>2, <1>7, <3>1, <3>4
      <4>2. DaysBefore[m + 1] = DaysBefore[m] + d
        BY <3>2, <3>4, <4>1
      <4>3. m + 1 > 2 <=> m > 2
        BY <3>1, <3>4
      <4>4. QED
        BY <1>1, <3>1, <4>2, <4>3
    <3>5. QED
      BY <3>3, <3>4
  <2> HIDE DEF number
  <2>4. DayNumber(Civil(y, m + 1, 1)) = number(y, m + 1, 1)
    <3>1. y \in Int /\ m + 1 \in 1..12 /\ 1 \in Int
      BY <1>1, <1>7
    <3>2. QED
      BY <1>4, <3>1
  <2>5. QED
    BY <1>5, <2>1, <2>2, <2>3, <2>4
<1>8. CASE d = MonthLength(y, m) /\ m = 12
  <2>1. DayAfter(date) = Civil(y + 1, 1, 1)
    BY <1>1, <1>8 DEF DayAfter, Civil
  <2>2. IsDate(Civil(y + 1, 1, 1))
    BY <1>1, MonthLengths DEF IsDate, Civil
  <2>3. number(y + 1, 1, 1) = number(y, m, d) + 1
    <3>1. /\ YearDays(y) \in Int /\ YearDays(y - 1) \in Int
          /\ YearDays(y) = YearDays(y - 1) + 365 + (IF Leap(y) THEN 1 ELSE 0)
          /\ (y + 1) - 1 = y
      BY <1>1, LeapDay
    <3>2. d = 31 /\ DaysBefore[12] = 334 /\ DaysBefore[1] = 0
      BY <1>2, <1>8 DEF DaysBefore
    <3>3. QED
      BY <1>8, <3>1, <3>2
  <2> HIDE DEF number
  <2>4. DayNumber(Civil(y + 1, 1, 1)) = number(y + 1, 1, 1)
    <3>1. y + 1 \in Int /\ 1 \in 1..12 /\ 1 \in Int
      BY <1>1
    <3>2. QED
      BY <1>4, <3>1
  <2>5. QED
    BY <1>5, <2>1, <2>2, <2>3, <2>4
<1>9. QED
  BY <1>1, <1>2, <1>6, <1>7, <1>8

-------------------------------------------------------------------------------
(* An interval by its bounds: the provers are lost in long literal ones.     *)
Within(x, lo, hi) == x \in Int /\ lo <= x /\ x <= hi

(* Membership of an interval and its bounds. *)
LEMMA Intervals ==
    ASSUME NEW lo \in Int, NEW hi \in Int, NEW x
    PROVE  x \in lo..hi <=> Within(x, lo, hi)
  BY DEF Within

(* The constants of times and zones. *)
LEMMA SmallNumbers ==
    /\ SEC = 10000 /\ DAY = 864000000
    /\ OFFSET_BASE = 1439 /\ MIN_OFFSET = -1439 /\ MAX_OFFSET = 1439
    /\ MAX_NAMED_ZONE = 65535 /\ ZONE_NAMES = 638
  BY DEF SEC, DAY, OFFSET_BASE, MIN_OFFSET, MAX_OFFSET, MAX_NAMED_ZONE, ZONE_NAMES

(* What is given of these, by its bounds. *)
LEMMA InputRanges ==
    /\ \A t \in Times : Within(t, 0, DAY - 1)
    /\ \A o \in Offsets : Within(o, MIN_OFFSET, MAX_OFFSET)
    /\ \A id \in ZoneIds : Within(id, 0, MAX_NAMED_ZONE)
<1>1. DAY - 1 \in Int /\ MIN_OFFSET \in Int /\ MAX_OFFSET \in Int /\ MAX_NAMED_ZONE \in Int
  BY SmallNumbers
<1>2. Times \subseteq 0..(DAY - 1)
  BY ValuesAssumption
<1>3. Offsets \subseteq MIN_OFFSET..MAX_OFFSET
  BY ValuesAssumption
<1>4. ZoneIds \subseteq 0..MAX_NAMED_ZONE
  BY ValuesAssumption
<1>5. ASSUME NEW t \in Times
      PROVE  Within(t, 0, DAY - 1)
  <2>1. t \in 0..(DAY - 1)
    BY <1>2
  <2>2. QED
    BY <1>1, <2>1, Intervals
<1>6. ASSUME NEW o \in Offsets
      PROVE  Within(o, MIN_OFFSET, MAX_OFFSET)
  <2>1. o \in MIN_OFFSET..MAX_OFFSET
    BY <1>3
  <2>2. QED
    BY <1>1, <2>1, Intervals
<1>7. ASSUME NEW id \in ZoneIds
      PROVE  Within(id, 0, MAX_NAMED_ZONE)
  <2>1. id \in 0..MAX_NAMED_ZONE
    BY <1>4
  <2>2. QED
    BY <1>1, <2>1, Intervals
<1>8. QED
  BY <1>5, <1>6, <1>7

(* Times of a day and their parts. *)
LEMMA TimeParts ==
    ASSUME NEW t, Within(t, 0, DAY - 1)
    PROVE  /\ as_civil_time(t).hour \in 0..23 /\ as_civil_time(t).minute \in 0..59
           /\ as_civil_time(t).second \in 0..59
           /\ to_fb_time(as_civil_time(t)) = t
           /\ ThroughChrono(as_civil_time(t)) = as_civil_time(t)
<1>1. t \in Int /\ 0 <= t /\ t < 864000000
  BY SmallNumbers DEF Within
<1> DEFINE secs == t \div SEC
           h == secs \div 3600
           m == (secs % 3600) \div 60
           s == secs % 60
           f == t % SEC
<1>2. as_civil_time(t) = [hour |-> h, minute |-> m, second |-> s, frac |-> f]
  BY DEF as_civil_time
<1>3. secs \in Int /\ f \in Int /\ t = 10000 * secs + f /\ 0 <= f /\ f < 10000
  BY <1>1, SmallNumbers
<1>4. 0 <= secs /\ secs < 86400
  <2> HIDE DEF secs, f
  <2>1. QED
    BY <1>1, <1>3
<1> HIDE DEF secs, f
<1>5. /\ h \in Int /\ m \in Int /\ s \in Int
      /\ secs = 3600 * h + 60 * m + s
      /\ 0 <= m /\ m < 60 /\ 0 <= s /\ s < 60 /\ 0 <= h /\ h < 24
  BY <1>3, <1>4
<1> HIDE DEF h, m, s
<1>6. to_fb_time(as_civil_time(t)) = t
  BY <1>2, <1>3, <1>5, SmallNumbers DEF to_fb_time
<1>7. (f * 100000) \div 100000 = f
  BY <1>3
<1>8. ThroughChrono(as_civil_time(t)) = as_civil_time(t)
  BY <1>2, <1>7 DEF ThroughChrono, nanos
<1>9. QED
  BY <1>2, <1>5, <1>6, <1>8

(* The wall clock of a zone, with the carry to the day before or after. *)
LEMMA WallClock ==
    ASSUME NEW t, NEW o, Within(t, 0, DAY - 1), Within(o, MIN_OFFSET, MAX_OFFSET)
    PROVE  /\ Within(local(0, t, o).time, 0, DAY - 1)
           /\ local(0, t, o).date \in -1..1
           /\ local(0, t, o).date * DAY + local(0, t, o).time - t = o * 60 * SEC
<1>1. /\ t \in Int /\ 0 <= t /\ t < 864000000
      /\ o \in Int /\ -1439 <= o /\ o <= 1439
  BY SmallNumbers DEF Within
<1>2. PICK total \in Int :
        /\ total = t + o * 60 * 10000
        /\ -864000000 < total /\ total < 2 * 864000000
  BY <1>1
<1>3. PICK days \in Int, rest \in Int :
        /\ days = total \div 864000000 /\ rest = total % 864000000
        /\ total = 864000000 * days + rest
        /\ 0 <= rest /\ rest < 864000000
  BY <1>2
<1>4. days \in -1..1
  BY <1>2, <1>3
<1>5. local(0, t, o) = [date |-> days, time |-> rest]
  BY <1>2, <1>3, SmallNumbers DEF local
<1>6. Within(rest, 0, DAY - 1)
  BY <1>3, SmallNumbers DEF Within
<1>7. days * DAY + rest - t = o * 60 * SEC
  BY <1>1, <1>2, <1>3, SmallNumbers
<1>8. QED
  BY <1>4, <1>5, <1>6, <1>7

-------------------------------------------------------------------------------
(* An offset, the id that stands for it and the label of that id. *)
LEMMA OffsetLabel ==
    ASSUME NEW o, Within(o, MIN_OFFSET, MAX_OFFSET)
    PROVE  /\ offset_minutes(offset_zone_id(o)) = << o >>
           /\ zone_label(offset_zone_id(o)) = << "offset", format_offset(o) >>
           /\ format_offset(o).minutes < 60
           /\ o = LET m == format_offset(o).hours * 60 + format_offset(o).minutes
                  IN  IF format_offset(o).sign THEN -m ELSE m
<1>1. o \in Int /\ -1439 <= o /\ o <= 1439
  BY SmallNumbers DEF Within
<1>2. offset_zone_id(o) = o + 1439
  BY <1>1, SmallNumbers DEF offset_zone_id
<1>3. offset_minutes(o + 1439) = << o >>
  <2>1. (o + 1439) - OFFSET_BASE = o
    BY <1>1, SmallNumbers
  <2>2. o \in MIN_OFFSET..MAX_OFFSET
    BY <1>1, SmallNumbers, Intervals
  <2>3. QED
    BY <2>1, <2>2 DEF offset_minutes
<1>4. zone_name(o + 1439) = NoZone
  BY <1>1, SmallNumbers DEF zone_name
<1>5. zone_label(o + 1439) = << "offset", format_offset(o) >>
  BY <1>3, <1>4 DEF zone_label, NoZone
<1>6. PICK m \in Int : m = (IF o < 0 THEN -o ELSE o) /\ 0 <= m
  BY <1>1
<1>7. format_offset(o) = [sign |-> o < 0, hours |-> m \div 60, minutes |-> m % 60]
  BY <1>6 DEF format_offset
<1>8. m = (m \div 60) * 60 + (m % 60) /\ m % 60 < 60
  BY <1>6
<1>9. /\ format_offset(o).minutes = m % 60 /\ format_offset(o).hours = m \div 60
      /\ format_offset(o).sign = (o < 0)
  <2> DEFINE below == o < 0
  <2>1. format_offset(o) = [sign |-> below, hours |-> m \div 60, minutes |-> m % 60]
    BY <1>7
  <2> HIDE DEF below
  <2>2. /\ format_offset(o).minutes = m % 60 /\ format_offset(o).hours = m \div 60
        /\ format_offset(o).sign = below
    BY <2>1
  <2>3. QED
    BY <2>2 DEF below
<1>10. o = IF format_offset(o).sign THEN -m ELSE m
  <2>1. CASE o < 0
    <3>1. format_offset(o).sign
      BY <1>9, <2>1
    <3>2. o = -m
      BY <1>1, <1>6, <2>1
    <3>3. QED
      BY <3>1, <3>2
  <2>2. CASE ~(o < 0)
    <3>1. ~format_offset(o).sign
      BY <1>9, <2>2
    <3>2. o = m
      BY <1>1, <1>6, <2>2
    <3>3. QED
      BY <3>1, <3>2
  <2>3. QED
    BY <2>1, <2>2
<1>11. QED
  BY <1>2, <1>3, <1>5, <1>6, <1>8, <1>9, <1>10

(* The kind of label of every id. *)
LEMMA ZoneLabel ==
    ASSUME NEW id, Within(id, 0, MAX_NAMED_ZONE)
    PROVE  zone_label(id)[1] = (CASE id <= 2878 -> "offset" [] id >= 64898 -> "name"
                                  [] OTHER -> "zone")
<1>1. id \in Int /\ 0 <= id /\ id <= 65535
  BY SmallNumbers DEF Within
<1>2. zone_name(id) # NoZone <=> id >= 64898
  BY <1>1, SmallNumbers DEF zone_name, NoZone
<1>3. offset_minutes(id) # NoZone <=> id <= 2878
  <2>1. id - OFFSET_BASE \in MIN_OFFSET..MAX_OFFSET <=> id <= 2878
    <3>1. PICK x \in Int : x = id - OFFSET_BASE /\ x = id - 1439
      BY <1>1, SmallNumbers
    <3>2. MIN_OFFSET \in Int /\ MAX_OFFSET \in Int
      BY SmallNumbers
    <3>3. x \in MIN_OFFSET..MAX_OFFSET <=> Within(x, MIN_OFFSET, MAX_OFFSET)
      BY <3>2, Intervals
    <3>4. QED
      BY <1>1, <3>1, <3>3, SmallNumbers DEF Within
  <2>2. QED
    BY <2>1 DEF offset_minutes, NoZone
<1>4. CASE id <= 2878
  BY <1>1, <1>2, <1>3, <1>4 DEF zone_label
<1>5. CASE id >= 64898
  BY <1>1, <1>2, <1>5 DEF zone_label
<1>6. CASE 2878 < id /\ id < 64898
  BY <1>1, <1>2, <1>3, <1>6 DEF zone_label
<1>7. QED
  BY <1>1, <1>4, <1>5, <1>6

-------------------------------------------------------------------------------
(* A character that the charset has comes back, another is a question mark. *)
LEMMA Latin1Character ==
    ASSUME NEW c \in Nat
    PROVE  decode_byte("latin1", encode_char("latin1", c))
             = IF c \in Repertoire("latin1") THEN c ELSE 63
<1>1. ASSUME NEW b \in 0..255
      PROVE  decode_byte("latin1", b) = b
  BY DEF decode_byte
<1>2. c \in Repertoire("latin1") <=> c <= 255
  BY <1>1 DEF Repertoire
<1>3. encode_char("latin1", c) = IF c <= 255 THEN c ELSE 63
  BY DEF encode_char
<1>4. QED
  BY <1>1, <1>2, <1>3

(* The same for win1252, but for the controls whose bytes it gives away. *)
LEMMA Win1252Character ==
    ASSUME NEW c \in Nat, c \notin Taken("win1252")
    PROVE  decode_byte("win1252", encode_char("win1252", c))
             = IF c \in Repertoire("win1252") THEN c ELSE 63
<1>1. c # 128 /\ c # 159
  BY DEF Taken
<1>2. ASSUME NEW b \in 0..255
      PROVE  decode_byte("win1252", b) = IF b = 128 THEN 8364 ELSE IF b = 159 THEN 376 ELSE b
  BY DEF decode_byte, win1252_char
<1>3. c \in Repertoire("win1252") <=> c = 8364 \/ c = 376 \/ c <= 255
  <2>1. ASSUME c \in Repertoire("win1252")
        PROVE  c = 8364 \/ c = 376 \/ c <= 255
    BY <1>2, <2>1 DEF Repertoire
  <2>2. CASE c = 8364
    BY <1>2, <2>2 DEF Repertoire
  <2>3. CASE c = 376
    BY <1>2, <2>3 DEF Repertoire
  <2>4. CASE c <= 255
    <3>1. c \in 0..255 /\ decode_byte("win1252", c) = c
      BY <1>1, <1>2, <2>4
    <3>2. QED
      BY <3>1 DEF Repertoire
  <2>5. QED
    BY <2>1, <2>2, <2>3, <2>4
<1>4. encode_char("win1252", c)
        = IF c = 8364 THEN 128 ELSE IF c = 376 THEN 159 ELSE IF c <= 255 THEN c ELSE 63
  BY DEF encode_char, win1252_byte
<1>5. QED
  BY <1>1, <1>2, <1>3, <1>4

(* The same for a code page of DOS, searched backwards. *)
LEMMA DosCharacter ==
    ASSUME NEW c \in Nat
    PROVE  decode_byte("dos", encode_char("dos", c))
             = IF c \in Repertoire("dos") THEN c ELSE 63
<1>1. ASSUME NEW b \in 0..255
      PROVE  decode_byte("dos", b)
               = IF b < 128 THEN b ELSE IF b = 128 THEN 199 ELSE IF b = 130 THEN 233 ELSE 700 + b
  BY DEF decode_byte, DosTable
<1>2. encode_char("dos", c) = dos_byte(c)
  BY DEF encode_char
<1>3. CASE c < 128
  <2>1. dos_byte(c) = c /\ decode_byte("dos", c) = c /\ c \in 0..255
    BY <1>1, <1>3 DEF dos_byte
  <2>2. QED
    BY <1>2, <2>1 DEF Repertoire
<1> DEFINE bytes == {b \in 128..255 : DosTable[b] = c}
<1>4. ASSUME NEW b \in 128..255
      PROVE  DosTable[b] = decode_byte("dos", b)
  BY DEF decode_byte
<1>5. CASE c >= 128 /\ bytes = {}
  <2>1. dos_byte(c) = 63
    BY <1>5 DEF dos_byte
  <2>2. c \notin Repertoire("dos")
    <3>1. ASSUME NEW b \in 0..255, decode_byte("dos", b) = c
          PROVE  FALSE
      <4>1. CASE b < 128
        BY <1>1, <1>5, <3>1, <4>1
      <4>2. CASE b >= 128
        <5>1. b \in 128..255 /\ DosTable[b] = c
          BY <1>4, <3>1, <4>2
        <5>2. QED
          BY <1>5, <5>1
      <4>3. QED
        BY <4>1, <4>2
    <3>2. QED
      BY <3>1 DEF Repertoire
  <2>3. decode_byte("dos", 63) = 63
    BY <1>1
  <2>4. QED
    BY <1>2, <2>1, <2>2, <2>3
<1>6. CASE c >= 128 /\ bytes # {}
  <2>1. PICK b \in 128..255 : DosTable[b] = c
    BY <1>6
  <2>2. ASSUME NEW a \in 128..255, DosTable[a] = c
        PROVE  a = b
    <3>1. decode_byte("dos", a) = c
      BY <1>4, <2>2
    <3>2. decode_byte("dos", b) = c
      BY <1>4, <2>1
    <3>3. QED
      BY <1>1, <3>1, <3>2
  <2>3. bytes = {b}
    BY <2>1, <2>2
  <2>4. dos_byte(c) = Min(bytes)
    BY <1>6 DEF dos_byte
  <2> HIDE DEF bytes
  <2>5. Min({b}) = b
    BY DEF Min
  <2>6. decode_byte("dos", b) = c /\ c \in Repertoire("dos")
    BY <1>4, <2>1 DEF Repertoire
  <2>7. QED
    BY <1>2, <2>3, <2>4, <2>5, <2>6
<1>7. QED
  BY <1>3, <1>5, <1>6

(* The same for whichever charset. *)
LEMMA TextComesBack ==
    ASSUME NEW charset \in {"latin1", "win1252", "dos"}, NEW c \in Nat, c \notin Taken(charset)
    PROVE  decode_byte(charset, encode_char(charset, c))
             = IF c \in Repertoire(charset) THEN c ELSE 63
  BY Latin1Character, Win1252Character, DosCharacter

-------------------------------------------------------------------------------
(* A set of indexes that is not empty has a least. *)
LEMMA LeastIndex ==
    ASSUME NEW n \in Nat, NEW S \in SUBSET (1..n), S # {}
    PROVE  Min(S) \in S /\ \A i \in S : Min(S) <= i
<1>1. \E x \in S : \A i \in S : x <= i
  <2> SUFFICES ASSUME \A x \in S : \E i \in S : i < x
               PROVE  FALSE
    OBVIOUS
  <2> DEFINE T == {k \in Nat : \A i \in S : i > k}
  <2>1. 0 \in T
    OBVIOUS
  <2>2. ASSUME NEW k \in Nat, k \in T
        PROVE  k + 1 \in T
    <3>1. ASSUME NEW i \in S
          PROVE  i > k + 1
      <4>1. PICK j \in S : j < i
        OBVIOUS
      <4>2. j > k /\ i \in Int /\ j \in Int
        BY <2>2
      <4>3. QED
        BY <4>1, <4>2
    <3>2. QED
      BY <3>1
  <2>3. Nat \subseteq T
    <3> HIDE DEF T
    <3>1. QED
      BY <2>1, <2>2, NatSetInduction
  <2>4. PICK i : i \in S
    OBVIOUS
  <2>5. i \in Nat /\ i \in T
    BY <2>3, <2>4
  <2>6. QED
    BY <2>4, <2>5
<1>2. QED
  BY <1>1, Zenon DEF Min

-------------------------------------------------------------------------------
(* Row::get reads the column that the name means: the first of that name. *)
LEMMA ResolveIsMeant ==
    ASSUME NEW columns, Len(columns) \in Nat, NEW by
    PROVE  /\ resolve(columns, by) = ColumnMeant(columns, by)
           /\ \A i, j \in ColumnMeant(columns, by) : i = j
<1> DEFINE named == {i \in 1..Len(columns) : Upper(columns[i]) = Upper(by.name)}
<1>1. CASE by.name = <<>>
  BY <1>1 DEF resolve, ColumnMeant
<1>2. CASE by.name # <<>> /\ named = {}
  <2>1. resolve(columns, by) = {}
    BY <1>2 DEF resolve
  <2>2. ColumnMeant(columns, by) = {}
    BY <1>2 DEF ColumnMeant
  <2>3. QED
    BY <2>1, <2>2
<1>3. CASE by.name # <<>> /\ named # {}
  <2>1. resolve(columns, by) = {Min(named)}
    BY <1>3 DEF resolve
  <2>2. Min(named) \in named /\ \A i \in named : Min(named) <= i
    <3>1. PICK n \in Nat : n = Len(columns)
      OBVIOUS
    <3>2. named \in SUBSET (1..n)
      BY <3>1
    <3> HIDE DEF named
    <3>3. QED
      BY <1>3, <3>2, LeastIndex
  <2>3. ASSUME NEW i \in ColumnMeant(columns, by)
        PROVE  i = Min(named)
    <3>1. /\ i \in 1..Len(columns) /\ i \in named
          /\ \A j \in 1..(i - 1) : j \notin named
      BY <1>3 DEF ColumnMeant
    <3>2. Min(named) \in 1..Len(columns) /\ Min(named) <= i
      BY <2>2, <3>1
    <3> HIDE DEF named
    <3>3. QED
      BY <2>2, <3>1, <3>2
  <2>4. Min(named) \in ColumnMeant(columns, by)
    <3>1. Min(named) \in 1..Len(columns) /\ Upper(columns[Min(named)]) = Upper(by.name)
      BY <2>2
    <3>2. ASSUME NEW j \in 1..(Min(named) - 1), Upper(columns[j]) = Upper(by.name)
          PROVE  FALSE
      <4>1. j \in 1..Len(columns) /\ j < Min(named)
        BY <3>1
      <4>2. j \in named
        BY <3>2, <4>1
      <4> HIDE DEF named
      <4>3. QED
        BY <2>2, <3>1, <4>1, <4>2
    <3>3. \A j \in 1..(Min(named) - 1) : Upper(columns[j]) # Upper(by.name)
      BY <3>2
    <3> HIDE DEF named
    <3>4. QED
      BY <1>3, <3>1, <3>3 DEF ColumnMeant
  <2> HIDE DEF named
  <2>5. QED
    BY <2>1, <2>3, <2>4
<1>4. QED
  BY <1>1, <1>2, <1>3

(* A typed read gives the value, and refuses none the type can hold. *)
LEMMA TypedRead ==
    ASSUME NEW v, NEW type, IsNumber(v) => v.v[1] \in Nat, type.width \in 0..8
    PROVE  /\ from_value(v, type).ok =>
                 (type.name \notin {"CivilDate", "CivilTime"} => from_value(v, type).value = v)
           /\ ~from_value(v, type).ok => ~Carries(type, v)
<1>1. Just(v).ok /\ Just(v).value = v /\ ~Nothing.ok
  BY DEF Just, Nothing
<1>2. CASE type.nullable /\ IsNull(v)
  BY <1>1, <1>2 DEF from_value
<1>3. CASE ~(type.nullable /\ IsNull(v)) /\ type.name = "integer"
  <2>1. from_value(v, type) = IF AsI64(v) /\ v.v[1] <= type.width THEN Just(v) ELSE Nothing
    BY <1>3 DEF from_value
  <2>2. Carries(type, v) <=> IsNumber(v) /\ v.v[1] <= type.width
    BY <1>3 DEF Carries, IsNumber
  <2>3. IsNumber(v) /\ v.v[1] <= type.width => AsI64(v)
    BY DEF AsI64, IsNumber
  <2>4. QED
    BY <1>1, <2>1, <2>2, <2>3
<1>4. CASE ~(type.nullable /\ IsNull(v)) /\ type.name = "i128"
  BY <1>1, <1>4 DEF from_value, Carries
<1>5. CASE ~(type.nullable /\ IsNull(v)) /\ type.name = "f64"
  BY <1>1, <1>5 DEF from_value, Carries
<1>6. CASE ~(type.nullable /\ IsNull(v)) /\ type.name \in {"CivilDate", "CivilTime"}
  <2>1. ASSUME NEW w
        PROVE  Just(w).ok
    BY DEF Just
  <2>2. CASE type.name = "CivilDate"
    BY <1>1, <1>6, <2>1, <2>2 DEF from_value, Carries
  <2>3. CASE type.name = "CivilTime"
    BY <1>1, <1>6, <2>1, <2>3 DEF from_value, Carries
  <2>4. QED
    BY <1>6, <2>2, <2>3
<1>7. CASE /\ ~(type.nullable /\ IsNull(v))
           /\ type.name \notin {"integer", "i128", "f64", "CivilDate", "CivilTime"}
  <2>1. from_value(v, type) = IF v.kind = type.name THEN Just(v) ELSE Nothing
    BY <1>7 DEF from_value
  <2>2. Carries(type, v) <=> v.kind = type.name
    BY <1>7 DEF Carries
  <2>3. QED
    BY <1>1, <2>1, <2>2
<1>8. QED
  BY <1>2, <1>3, <1>4, <1>5, <1>6, <1>7

(* A parameter read back as the type it was given in. *)
LEMMA NativeComesBack ==
    ASSUME NEW n \in Natives
    PROVE  LET got == from_value(into(n.native, n.v), n.type)
           IN  got.ok /\ got.value.v = n.v
<1> DEFINE v == into(n.native, n.v)
<1>1. /\ n.native \in DOMAIN ValueOf /\ n.type.width \in 0..8
      /\ n.type.name \in TypeNames(n.native)
      /\ n.type.name = "integer" => n.v[1] \in 0..n.type.width
  BY ValuesAssumption
<1>2. v.kind = ValueOf[n.native] /\ v.v = n.v
  BY DEF into
<1>3. Just(v).ok /\ Just(v).value = v
  BY DEF Just
<1>4. from_value(v, n.type) = Just(v)
  <2>1. ~IsNull(v)
    BY <1>1, <1>2 DEF IsNull, ValueOf
  <2>2. CASE n.native \in {"i16", "i32", "i64"}
    <3>1. n.type.name = "integer" /\ v.kind \in {"Short", "Int", "BigInt"}
      BY <1>1, <1>2, <2>2 DEF TypeNames, ValueOf
    <3>2. AsI64(v) /\ v.v[1] <= n.type.width
      BY <1>1, <1>2, <3>1 DEF AsI64, IntBytes
    <3> HIDE DEF v
    <3>3. QED
      BY <2>1, <3>1, <3>2 DEF from_value
  <2>3. CASE n.native = "i128"
    <3>1. n.type.name \in {"i128", "Int128"} /\ v.kind = "Int128"
      BY <1>1, <1>2, <2>3 DEF TypeNames, ValueOf
    <3> HIDE DEF v
    <3>2. QED
      BY <2>1, <3>1 DEF from_value, IntBytes
  <2>4. CASE n.native \in {"f32", "f64"}
    <3>1. n.type.name \in {"f64", v.kind} /\ v.kind \in {"Float", "Double"}
      BY <1>1, <1>2, <2>4 DEF TypeNames, ValueOf
    <3> HIDE DEF v
    <3>2. QED
      BY <2>1, <3>1 DEF from_value
  <2>5. CASE n.native \in {"bool", "str", "bytes", "DecFloat", "TimeTz", "TimestampTz"}
    <3>1. /\ n.type.name = v.kind
          /\ v.kind \in {"Bool", "Text", "Bytes", "DecFloat", "TimeTz", "TimestampTz"}
      BY <1>1, <1>2, <2>5 DEF TypeNames, ValueOf
    <3> HIDE DEF v
    <3>2. QED
      BY <2>1, <3>1 DEF from_value
  <2>6. QED
    BY <1>1, <2>2, <2>3, <2>4, <2>5 DEF ValueOf
<1>5. QED
  BY <1>2, <1>3, <1>4

-------------------------------------------------------------------------------
(* The states of a cell: as it was given, or with the conversion made; a     *)
(* date with its day number.                                                 *)
Given(kind, x) == [kind |-> kind, in |-> x, out |-> <<>>]
Made(kind, x) == [kind |-> kind, in |-> x, out |-> Conversion(kind, x)]
Holds(kind, x) == cell = Given(kind, x) \/ cell = Made(kind, x)
HoldsDate ==
    \E s \in Starts : \E date :
        IsDate(date) /\ cell = [kind |-> "date", in |-> s, out |-> << DayNumber(date), date >>]
CellInv ==
    \/ HoldsDate
    \/ \E t \in Times : Holds("time", t)
    \/ \E t \in Times, o \in Offsets : Holds("local", [time |-> t, offset |-> o])
    \/ \E o \in Offsets : Holds("offset", o)
    \/ \E id \in ZoneIds : Holds("zone", id)
    \/ \E s \in Strings : Holds("text", s)
    \/ \E l \in Lookups : Holds("get", l)
    \/ \E n \in Natives : Holds("native", n)

(* A step makes the conversion, once, and no date. *)
LEMMA MadeOnce ==
    ASSUME NEW kind, NEW x, kind # "date", Holds(kind, x), [ValuesNext]_cell
    PROVE  Holds(kind, x)'
<1>1. cell.kind = kind /\ cell.in = x
  BY DEF Holds, Given, Made
<1>2. CASE UNCHANGED cell
  BY <1>2 DEF Holds, Given, Made
<1>3. CASE Convert
  <2>1. cell = Given(kind, x) \/ (cell = Made(kind, x) /\ Conversion(kind, x) = <<>>)
    BY <1>3 DEF Convert, Holds, Made
  <2>2. cell' = [cell EXCEPT !.out = Conversion(kind, x)]
    BY <1>1, <1>3 DEF Convert
  <2>3. cell' = Made(kind, x)
    BY <2>1, <2>2 DEF Given, Made
  <2>4. QED
    BY <2>3 DEF Holds
<1>4. ~Tomorrow
  BY <1>1 DEF Tomorrow
<1>5. QED
  BY <1>2, <1>3, <1>4 DEF ValuesNext

(* A day later is a date with its number. *)
LEMMA DateStep ==
    ASSUME HoldsDate, [ValuesNext]_cell
    PROVE  HoldsDate'
<1> PICK s \in Starts : \E date :
        IsDate(date) /\ cell = [kind |-> "date", in |-> s, out |-> << DayNumber(date), date >>]
  BY DEF HoldsDate
<1>1. PICK date :
        IsDate(date) /\ cell = [kind |-> "date", in |-> s, out |-> << DayNumber(date), date >>]
  OBVIOUS
<1>2. CASE UNCHANGED cell
  BY <1>1, <1>2 DEF HoldsDate
<1>3. CASE Tomorrow
  <2>1. cell' = [cell EXCEPT !.out = << cell.out[1] + 1, DayAfter(cell.out[2]) >>]
    BY <1>3 DEF Tomorrow
  <2>2. cell.out[1] = DayNumber(date) /\ cell.out[2] = date
    BY <1>1
  <2>3. DayNumber(DayAfter(date)) = DayNumber(date) + 1 /\ IsDate(DayAfter(date))
    BY <1>1, NextDay
  <2>4. cell' = [kind |-> "date", in |-> s,
                 out |-> << DayNumber(DayAfter(date)), DayAfter(date) >>]
    BY <1>1, <2>1, <2>2, <2>3
  <2>5. QED
    BY <2>3, <2>4 DEF HoldsDate
<1>4. ~Convert
  BY <1>1 DEF Convert
<1>5. QED
  BY <1>2, <1>3, <1>4 DEF ValuesNext

(* What the callers hold at the start are such states. *)
LEMMA CellInit == ASSUME ValuesInit PROVE CellInv
<1>1. ASSUME NEW s \in Starts, cell = [kind |-> "date", in |-> s, out |-> << s.day, s.civil >>]
      PROVE  HoldsDate
  <2>1. IsDate(s.civil) /\ s.day = DayNumber(s.civil)
    BY ValuesAssumption
  <2>2. QED
    BY <1>1, <2>1 DEF HoldsDate
<1>2. ASSUME NEW kind, NEW x, Cell(kind, x)
      PROVE  Holds(kind, x)
  BY <1>2 DEF Cell, Holds, Given
<1>3. QED
  BY <1>1, <1>2 DEF ValuesInit, CellInv

(* Every step leads from such a state to such a state. *)
LEMMA CellStep == ASSUME CellInv, [ValuesNext]_cell PROVE CellInv'
<1>1. CASE HoldsDate
  BY <1>1, DateStep DEF CellInv
<1>2. CASE \E t \in Times : Holds("time", t)
  BY <1>2, MadeOnce DEF CellInv
<1>3. CASE \E t \in Times, o \in Offsets : Holds("local", [time |-> t, offset |-> o])
  BY <1>3, MadeOnce DEF CellInv
<1>4. CASE \E o \in Offsets : Holds("offset", o)
  BY <1>4, MadeOnce DEF CellInv
<1>5. CASE \E id \in ZoneIds : Holds("zone", id)
  BY <1>5, MadeOnce DEF CellInv
<1>6. CASE \E s \in Strings : Holds("text", s)
  BY <1>6, MadeOnce DEF CellInv
<1>7. CASE \E l \in Lookups : Holds("get", l)
  BY <1>7, MadeOnce DEF CellInv
<1>8. CASE \E n \in Natives : Holds("native", n)
  BY <1>8, MadeOnce DEF CellInv
<1>9. \/ HoldsDate
      \/ \E t \in Times : Holds("time", t)
      \/ \E t \in Times, o \in Offsets : Holds("local", [time |-> t, offset |-> o])
      \/ \E o \in Offsets : Holds("offset", o)
      \/ \E id \in ZoneIds : Holds("zone", id)
      \/ \E s \in Strings : Holds("text", s)
      \/ \E l \in Lookups : Holds("get", l)
      \/ \E n \in Natives : Holds("native", n)
  BY DEF CellInv
<1>10. QED
  BY <1>1, <1>2, <1>3, <1>4, <1>5, <1>6, <1>7, <1>8, <1>9

-------------------------------------------------------------------------------
(* What is made of a cell agrees with it, kind by kind. *)
LEMMA DatesAgree == ASSUME HoldsDate PROVE ValuesAgree
<1> PICK s \in Starts : \E date :
        IsDate(date) /\ cell = [kind |-> "date", in |-> s, out |-> << DayNumber(date), date >>]
  BY DEF HoldsDate
<1>1. PICK date :
        IsDate(date) /\ cell = [kind |-> "date", in |-> s, out |-> << DayNumber(date), date >>]
  OBVIOUS
<1>2. civil_from_unix_days(DayNumber(date)) = date /\ unix_days_from_civil(date) = DayNumber(date)
  BY <1>1, CivilFromDays, DaysFromCivil
<1>3. cell.kind = "date" /\ cell.out[1] = DayNumber(date) /\ cell.out[2] = date
  BY <1>1
<1>4. DateAgrees
  BY <1>2, <1>3 DEF DateAgrees
<1>5. QED
  BY <1>3, <1>4 DEF ValuesAgree

(* A cell that waits for its conversion. *)
LEMMA GivenAgrees == ASSUME NEW kind, NEW x, cell = Given(kind, x) PROVE ValuesAgree
  BY DEF Given, ValuesAgree

(* Times of a day. *)
LEMMA TimesAgree ==
    ASSUME NEW t \in Times, cell = Made("time", t)
    PROVE  ValuesAgree
<1>1. cell.kind = "time" /\ cell.in = t /\ cell.out[1] = as_civil_time(t)
  BY DEF Made, Conversion
<1>2. Within(t, 0, DAY - 1)
  BY InputRanges
<1> DEFINE c == as_civil_time(t)
<1>3. /\ c.hour \in 0..23 /\ c.minute \in 0..59 /\ c.second \in 0..59
      /\ to_fb_time(c) = t /\ ThroughChrono(c) = c
  BY <1>2, TimeParts
<1> HIDE DEF c
<1>4. TimeAgrees(c)
  BY <1>1, <1>3 DEF TimeAgrees
<1>5. QED
  BY <1>1, <1>4 DEF ValuesAgree, c

(* The wall clock of a zone. *)
LEMMA LocalsAgree ==
    ASSUME NEW t \in Times, NEW o \in Offsets,
           cell = Made("local", [time |-> t, offset |-> o])
    PROVE  ValuesAgree
<1>1. /\ cell.kind = "local" /\ cell.in.time = t /\ cell.in.offset = o
      /\ cell.out[1] = local(0, t, o)
  BY DEF Made, Conversion
<1>2. Within(t, 0, DAY - 1) /\ Within(o, MIN_OFFSET, MAX_OFFSET)
  BY InputRanges
<1>3. /\ Within(local(0, t, o).time, 0, DAY - 1)
      /\ local(0, t, o).date \in -1..1
      /\ local(0, t, o).date * DAY + local(0, t, o).time - t = o * 60 * SEC
  BY <1>2, WallClock
<1>4. local(0, t, o).time \in 0..(DAY - 1)
  <2>1. DAY - 1 \in Int
    BY SmallNumbers
  <2>2. QED
    BY <1>3, <2>1, Intervals
<1>5. LocalAgrees(cell.out[1])
  BY <1>1, <1>3, <1>4 DEF LocalAgrees
<1>6. QED
  BY <1>1, <1>5 DEF ValuesAgree

(* The id and the label of an offset. *)
LEMMA OffsetsAgree ==
    ASSUME NEW o \in Offsets, cell = Made("offset", o)
    PROVE  ValuesAgree
<1>1. cell.kind = "offset" /\ cell.in = o /\ cell.out[1] = offset_zone_id(o)
  BY DEF Made, Conversion
<1>2. Within(o, MIN_OFFSET, MAX_OFFSET)
  BY InputRanges
<1>3. OffsetAgrees(cell.out[1])
  BY <1>1, <1>2, OffsetLabel DEF OffsetAgrees
<1>4. QED
  BY <1>1, <1>3 DEF ValuesAgree

(* The label of an id. *)
LEMMA ZonesAgree ==
    ASSUME NEW id \in ZoneIds, cell = Made("zone", id)
    PROVE  ValuesAgree
<1>1. cell.kind = "zone" /\ cell.in = id /\ cell.out[1] = zone_label(id)
  BY DEF Made, Conversion
<1>2. Within(id, 0, MAX_NAMED_ZONE)
  BY InputRanges
<1>3. ZoneAgrees(cell.out[1])
  BY <1>1, <1>2, ZoneLabel DEF ZoneAgrees
<1>4. QED
  BY <1>1, <1>3 DEF ValuesAgree

(* Text. *)
LEMMA TextsAgree ==
    ASSUME NEW s \in Strings, cell = Made("text", s)
    PROVE  ValuesAgree
<1>1. /\ s.charset \in {"latin1", "win1252", "dos"}
      /\ Len(s.text) \in Nat /\ \A i \in 1..Len(s.text) : s.text[i] \in Nat
  BY ValuesAssumption
<1>2. cell.kind = "text" /\ cell.in = s
  BY DEF Made
<1>3. cell.out = [i \in 1..Len(s.text) |->
                     decode_byte(s.charset, encode_char(s.charset, s.text[i]))]
  BY DEF Made, Conversion
<1>4. Len(cell.out) = Len(s.text)
  BY <1>1, <1>3
<1>5. ASSUME NEW i \in 1..Len(cell.out), s.text[i] \notin Taken(s.charset)
      PROVE  cell.out[i] = (IF s.text[i] \in Repertoire(s.charset) THEN s.text[i] ELSE 63)
  <2>1. s.text[i] \in Nat /\ i \in 1..Len(s.text)
    BY <1>1, <1>4
  <2>2. cell.out[i] = decode_byte(s.charset, encode_char(s.charset, s.text[i]))
    BY <1>3, <2>1
  <2>3. QED
    BY <1>1, <1>5, <2>1, <2>2, TextComesBack
<1>6. TextAgrees
  BY <1>2, <1>5 DEF TextAgrees
<1>7. QED
  BY <1>2, <1>6 DEF ValuesAgree

(* Parameters read back. *)
LEMMA NativesAgree ==
    ASSUME NEW n \in Natives, cell = Made("native", n)
    PROVE  ValuesAgree
<1>1. /\ cell.kind = "native" /\ cell.in = n
      /\ cell.out[1] = from_value(into(n.native, n.v), n.type)
  BY DEF Made, Conversion
<1>2. QED
  BY <1>1, NativeComesBack DEF ValuesAgree

(* Columns read from a row. *)
LEMMA ReadsAgree ==
    ASSUME NEW l \in Lookups, cell = Made("get", l)
    PROVE  ValuesAgree
<1> DEFINE got == get(l.columns, l.values, l.by, l.type)
           meant == ColumnMeant(l.columns, l.by)
<1>1. cell.kind = "get" /\ cell.in = l /\ cell.out[1] = got
  BY DEF Made, Conversion
<1>2. /\ Len(l.columns) \in Nat /\ Len(l.values) = Len(l.columns)
      /\ \A i \in 1..Len(l.values) : IsNumber(l.values[i]) => l.values[i].v[1] \in Nat
      /\ l.type.width \in 0..8
  BY ValuesAssumption
<1>3. resolve(l.columns, l.by) = meant /\ \A i, j \in meant : i = j
  BY <1>2, ResolveIsMeant
<1>4. got = IF meant = {} THEN Nothing
            ELSE from_value(l.values[CHOOSE i \in meant : TRUE], l.type)
  BY <1>3 DEF get
<1>5. ASSUME NEW i \in meant
      PROVE  /\ got = from_value(l.values[i], l.type)
             /\ IsNumber(l.values[i]) => l.values[i].v[1] \in Nat
  <2>1. (CHOOSE j \in meant : TRUE) = i
    BY <1>3
  <2>2. i \in 1..Len(l.values)
    BY <1>2 DEF ColumnMeant
  <2> HIDE DEF got, meant
  <2>3. meant # {}
    BY <1>5
  <2>4. got = from_value(l.values[CHOOSE j \in meant : TRUE], l.type)
    BY <1>4, <2>3
  <2>5. got = from_value(l.values[i], l.type)
    BY <2>1, <2>4
  <2>6. QED
    BY <1>2, <2>2, <2>5
<1>6. got.ok => meant # {}
  BY <1>4 DEF Nothing
<1>7. ASSUME NEW i \in meant, got.ok, l.type.name \notin {"CivilDate", "CivilTime"}
      PROVE  got.value = l.values[i]
  BY <1>2, <1>5, <1>7, TypedRead
<1>8. ASSUME NEW i \in meant, ~got.ok
      PROVE  ~Carries(l.type, l.values[i])
  BY <1>2, <1>5, <1>8, TypedRead
<1>9. ColumnMeant(cell.in.columns, cell.in.by) = meant
  BY <1>1
<1> HIDE DEF got, meant
<1>10. GetAgrees(got)
  BY <1>1, <1>6, <1>7, <1>8, <1>9 DEF GetAgrees
<1>11. QED
  BY <1>1, <1>10 DEF ValuesAgree

-------------------------------------------------------------------------------
(***************************************************************************)
(* For every date of the calendar, time of a day, offset, zone id, text in *)
(* a charset of one byte, read of a row and parameter: the conversions of  *)
(* value.rs, tz.rs, charset.rs and row.rs agree with the calendar, the     *)
(* clock and the types.                                                    *)
(***************************************************************************)
THEOREM ConversionsAgree == ValuesSpec => []ValuesAgree
<1>1. ValuesInit => CellInv
  BY CellInit
<1>2. CellInv /\ [ValuesNext]_cell => CellInv'
  BY CellStep
<1>3. CellInv => ValuesAgree
  <2>1. ASSUME NEW kind, NEW x, Holds(kind, x), cell = Made(kind, x) => ValuesAgree
        PROVE  ValuesAgree
    BY <2>1, GivenAgrees DEF Holds
  <2>2. (\E t \in Times : Holds("time", t)) => ValuesAgree
    BY <2>1, TimesAgree
  <2>3. (\E t \in Times, o \in Offsets : Holds("local", [time |-> t, offset |-> o]))
          => ValuesAgree
    BY <2>1, LocalsAgree
  <2>4. (\E o \in Offsets : Holds("offset", o)) => ValuesAgree
    BY <2>1, OffsetsAgree
  <2>5. (\E id \in ZoneIds : Holds("zone", id)) => ValuesAgree
    BY <2>1, ZonesAgree
  <2>6. (\E s \in Strings : Holds("text", s)) => ValuesAgree
    BY <2>1, TextsAgree
  <2>7. (\E l \in Lookups : Holds("get", l)) => ValuesAgree
    BY <2>1, ReadsAgree
  <2>8. (\E n \in Natives : Holds("native", n)) => ValuesAgree
    BY <2>1, NativesAgree
  <2>9. HoldsDate => ValuesAgree
    BY DatesAgree
  <2>10. QED
    BY <2>2, <2>3, <2>4, <2>5, <2>6, <2>7, <2>8, <2>9 DEF CellInv
<1>4. QED
  BY <1>1, <1>2, <1>3, PTL DEF ValuesSpec

-------------------------------------------------------------------------------
(* The SDL of an array.                                                      *)
Codes ==
    BlrTypes \cup {"struct", "relation", "field", "do1", "do2", "tiny_integer", "short_integer",
                   "long_integer", "element", "scalar", "variable", "eoc"}
Item == [code : Codes, v : Seq(Int)]

(* The low bytes of a number. *)
LEMMA LowType ==
    ASSUME NEW n \in Int, NEW k \in 0..4
    PROVE  /\ Low(n, k) \in Seq(Int) /\ Len(Low(n, k)) = k
           /\ \A i \in 1..k : Low(n, k)[i] = (n \div Scale[i]) % 256
           /\ \A i \in 1..k : Low(n, k)[i] \in Int
<1>1. ASSUME NEW i \in 1..k
      PROVE  (n \div Scale[i]) % 256 \in Int
  <2>1. PICK s \in {1, 256, 256 * 256, 256 * 256 * 256} : s = Scale[i]
    BY DEF Scale
  <2>2. (n \div s) % 256 \in Int
    BY <2>1
  <2>3. QED
    BY <2>1, <2>2
<1>2. QED
  BY <1>1 DEF Low

(* A signed byte is read back. *)
LEMMA SignedByteIs ==
    ASSUME NEW n \in Between(-128, 127)
    PROVE  SignedByte(n % 256) = n
BY DEF SignedByte, Between

(* Division with a remainder. *)
LEMMA ByteOff ==
    ASSUME NEW n \in Int
    PROVE  \E q \in Int, r \in Between(0, 255) : q = n \div 256 /\ r = n % 256 /\ n = 256 * q + r
<1>1. n \div 256 \in Int /\ n % 256 \in Int /\ n = 256 * (n \div 256) + (n % 256)
      /\ 0 <= n % 256 /\ n % 256 <= 255
  OBVIOUS
<1>2. n % 256 \in Between(0, 255)
  BY <1>1 DEF Between
<1>3. QED
  BY <1>1, <1>2

(* The bytes of a number, the last one with its sign. *)
OneByte(n) == SignedByte(n % 256)
TwoBytes(n) == (n % 256) + SignedByte((n \div 256) % 256) * 256
FourBytes(n) ==
    (n % 256) + ((n \div 256) % 256) * 256 + ((n \div (256 * 256)) % 256) * (256 * 256)
        + SignedByte((n \div (256 * 256 * 256)) % 256) * (256 * 256 * 256)

(* A number is the sum of its bytes. *)
LEMMA SignedBytes ==
    ASSUME NEW n \in Int
    PROVE  /\ n \in Between(-128, 127) => OneByte(n) = n
           /\ n \in Between(-32768, 32767) => TwoBytes(n) = n
           /\ n \in Bound => FourBytes(n) = n
<1>1. PICK q \in Int, r \in Int : q = n \div 256 /\ r = n % 256 /\ n = 256 * q + r
                                  /\ 0 <= r /\ r <= 255
  BY ByteOff DEF Between
<1>2. PICK q2 \in Int, r2 \in Int : q2 = q \div 256 /\ r2 = q % 256 /\ q = 256 * q2 + r2
                                    /\ 0 <= r2 /\ r2 <= 255
  BY ByteOff DEF Between
<1>3. PICK q3 \in Int, r3 \in Int : q3 = q2 \div 256 /\ r3 = q2 % 256 /\ q2 = 256 * q3 + r3
                                    /\ 0 <= r3 /\ r3 <= 255
  BY ByteOff DEF Between
<1>4. n \div (256 * 256) = q2
  <2>1. 256 * 256 * q2 <= n /\ n < 256 * 256 * q2 + 256 * 256
    BY <1>1, <1>2
  <2>2. 256 * 256 \in Int /\ 256 * 256 > 0
    OBVIOUS
  <2>3. QED
    BY <2>1, <2>2, QuotientIs
<1>5. n \div (256 * 256 * 256) = q3
  <2>1. 256 * 256 * 256 * q3 <= n /\ n < 256 * 256 * 256 * q3 + 256 * 256 * 256
    BY <1>1, <1>2, <1>3
  <2>2. 256 * 256 * 256 \in Int /\ 256 * 256 * 256 > 0
    OBVIOUS
  <2>3. QED
    BY <2>1, <2>2, QuotientIs
<1>6. n \in Between(-128, 127) => OneByte(n) = n
  BY SignedByteIs DEF OneByte
<1>7. ASSUME n \in Between(-32768, 32767)
      PROVE  TwoBytes(n) = n
  <2>1. q \in Between(-128, 127)
    BY <1>1, <1>7, SMT DEF Between
  <2>2. SignedByte(q % 256) = q
    BY <2>1, SignedByteIs
  <2>3. QED
    BY <1>1, <2>2 DEF TwoBytes
<1>8. ASSUME n \in Bound
      PROVE  FourBytes(n) = n
  <2>1. q3 \in Between(-128, 127)
    BY <1>1, <1>2, <1>3, <1>8, SMT DEF Between, Bound
  <2>2. SignedByte(q3 % 256) = q3
    BY <2>1, SignedByteIs
  <2>3. FourBytes(n) = r + r2 * 256 + r3 * (256 * 256) + q3 * (256 * 256 * 256)
    BY <1>1, <1>2, <1>3, <1>4, <1>5, <2>2 DEF FourBytes
  <2>4. QED
    BY <1>1, <1>2, <1>3, <2>3
<1>9. QED
  BY <1>6, <1>7, <1>8

(* Each of them. *)
LEMMA LowAt ==
    ASSUME NEW n \in Int
    PROVE  /\ \A k \in 1..4 : Low(n, k)[1] = n % 256
           /\ \A k \in 2..4 : Low(n, k)[2] = (n \div 256) % 256
           /\ \A k \in 3..4 : Low(n, k)[3] = (n \div (256 * 256)) % 256
           /\ Low(n, 4)[4] = (n \div (256 * 256 * 256)) % 256
<1>1. /\ Scale[1] = 1 /\ Scale[2] = 256 /\ Scale[3] = 256 * 256 /\ Scale[4] = 256 * 256 * 256
  BY DEF Scale
<1>2. \A k \in 0..4 : \A i \in 1..k : Low(n, k)[i] = (n \div Scale[i]) % 256
  BY LowType
<1>3. \A k \in 1..4 : Low(n, k)[1] = n % 256
  <2>1. \A k \in 1..4 : Low(n, k)[1] = (n \div Scale[1]) % 256
    BY <1>2
  <2>2. n \div 1 = n
    OBVIOUS
  <2>3. QED
    BY <1>1, <2>1, <2>2
<1>4. \A k \in 2..4 : Low(n, k)[2] = (n \div Scale[2]) % 256
  BY <1>2
<1>5. \A k \in 3..4 : Low(n, k)[3] = (n \div Scale[3]) % 256
  BY <1>2
<1>6. Low(n, 4)[4] = (n \div Scale[4]) % 256
  BY <1>2
<1>7. QED
  BY <1>1, <1>3, <1>4, <1>5, <1>6

(* The low byte, and the low two. *)
LEMMA LowBytesAre ==
    ASSUME NEW n \in Int
    PROVE  /\ Low(n, 1) \in Seq(Int) /\ Len(Low(n, 1)) = 1 /\ Low(n, 1)[1] = n % 256
           /\ Low(n, 2) \in Seq(Int) /\ Len(Low(n, 2)) = 2
           /\ Low(n, 2)[1] = n % 256 /\ Low(n, 2)[2] = (n \div 256) % 256
<1>1. Scale[1] = 1 /\ Scale[2] = 256 /\ n \div 1 = n
  BY DEF Scale
<1>2. /\ Low(n, 1) \in Seq(Int) /\ Len(Low(n, 1)) = 1
      /\ \A i \in 1..1 : Low(n, 1)[i] = (n \div Scale[i]) % 256
  BY LowType
<1>3. /\ Low(n, 2) \in Seq(Int) /\ Len(Low(n, 2)) = 2
      /\ \A i \in 1..2 : Low(n, 2)[i] = (n \div Scale[i]) % 256
  BY LowType
<1>4. /\ Low(n, 1)[1] = (n \div Scale[1]) % 256 /\ Low(n, 2)[1] = (n \div Scale[1]) % 256
      /\ Low(n, 2)[2] = (n \div Scale[2]) % 256
  BY <1>2, <1>3
<1>5. QED
  BY <1>1, <1>2, <1>3, <1>4

(* An opcode and its operands. *)
LEMMA ItemIs ==
    ASSUME NEW c \in Codes, NEW v \in Seq(Int)
    PROVE  [code |-> c, v |-> v] \in Item
BY DEF Item

(* A literal of one, two or four bytes. *)
LEMMA LiteralParts ==
    ASSUME NEW c, NEW w \in Seq(Int)
    PROVE  /\ Len(w) = 1 => Literal([code |-> c, v |-> w]) = SignedByte(w[1])
           /\ Len(w) = 2 => Literal([code |-> c, v |-> w]) = w[1] + SignedByte(w[2]) * 256
           /\ Len(w) = 4 => Literal([code |-> c, v |-> w])
                                = w[1] + w[2] * 256 + w[3] * (256 * 256)
                                      + SignedByte(w[4]) * (256 * 256 * 256)
<1> DEFINE part(i) == IF i < Len(w) THEN w[i] * Scale[i]
                      ELSE IF i = Len(w) THEN SignedByte(w[i]) * Scale[i] ELSE 0
<1>1. Literal([code |-> c, v |-> w]) = part(1) + part(2) + part(3) + part(4)
  BY DEF Literal
<1>2. /\ Scale[1] = 1 /\ Scale[2] = 256 /\ Scale[3] = 256 * 256 /\ Scale[4] = 256 * 256 * 256
  BY DEF Scale
<1>3. \A i \in 1..Len(w) : w[i] \in Int /\ SignedByte(w[i]) \in Int
  BY ElementOfSeq DEF SignedByte
<1>4. ASSUME Len(w) = 1
      PROVE  Literal([code |-> c, v |-> w]) = SignedByte(w[1])
  <2>1. PICK s \in Int : s = SignedByte(w[1])
    BY <1>3, <1>4
  <2>2. part(1) = s /\ part(2) = 0 /\ part(3) = 0 /\ part(4) = 0
    BY <1>2, <1>4, <2>1
  <2> HIDE DEF part
  <2>3. QED
    BY <1>1, <2>1, <2>2
<1>5. ASSUME Len(w) = 2
      PROVE  Literal([code |-> c, v |-> w]) = w[1] + SignedByte(w[2]) * 256
  <2>1. PICK s \in Int, b \in Int : s = SignedByte(w[2]) /\ b = w[1]
    BY <1>3, <1>5
  <2>2. part(1) = b /\ part(2) = s * 256 /\ part(3) = 0 /\ part(4) = 0
    BY <1>2, <1>5, <2>1
  <2> HIDE DEF part
  <2>3. QED
    BY <1>1, <2>1, <2>2
<1>6. ASSUME Len(w) = 4
      PROVE  Literal([code |-> c, v |-> w]) = w[1] + w[2] * 256 + w[3] * (256 * 256)
                                                  + SignedByte(w[4]) * (256 * 256 * 256)
  <2>1. PICK s \in Int, b \in Int, d \in Int, e \in Int :
            s = SignedByte(w[4]) /\ b = w[1] /\ d = w[2] /\ e = w[3]
    BY <1>3, <1>6
  <2>2. part(1) = b /\ part(2) = d * 256 /\ part(3) = e * (256 * 256)
        /\ part(4) = s * (256 * 256 * 256)
    BY <1>2, <1>6, <2>1
  <2> HIDE DEF part
  <2>3. QED
    BY <1>1, <2>1, <2>2
<1>7. QED
  BY <1>4, <1>5, <1>6

(* The server finds in a literal the number written. *)
LEMMA LiteralIs ==
    ASSUME NEW n \in Int, n \in Bound
    PROVE  put_sdl_literal(n) \in Item /\ Literal(put_sdl_literal(n)) = n
<1>1. n \in Int /\ n \div 1 = n
  BY SMT DEF Bound, Between
<1>a. /\ \A k \in 1..4 : Low(n, k)[1] = n % 256
      /\ \A k \in 2..4 : Low(n, k)[2] = (n \div 256) % 256
      /\ \A k \in 3..4 : Low(n, k)[3] = (n \div (256 * 256)) % 256
      /\ Low(n, 4)[4] = (n \div (256 * 256 * 256)) % 256
  BY <1>1, LowAt
<1> DEFINE item == put_sdl_literal(n)
<1>2. /\ Scale[1] = 1 /\ Scale[2] = 256 /\ Scale[3] = 256 * 256 /\ Scale[4] = 256 * 256 * 256
  BY DEF Scale
<1>3. ASSUME NEW x \in Int
      PROVE  SignedByte(x % 256) \in Int
  BY DEF SignedByte
<1>4. CASE n \in Between(-128, 127)
  <2>1. item = [code |-> "tiny_integer", v |-> Low(n, 1)]
    BY <1>4 DEF put_sdl_literal
  <2>2. /\ Low(n, 1) \in Seq(Int) /\ Len(Low(n, 1)) = 1 /\ Low(n, 1)[1] = n % 256
    <3>1. Low(n, 1) \in Seq(Int) /\ Len(Low(n, 1)) = 1
      BY <1>1, LowType
    <3>2. 1 \in 1..4
      OBVIOUS
    <3>3. QED
      BY <1>a, <3>1, <3>2
  <2>3. Literal(item) = SignedByte(Low(n, 1)[1])
    BY <2>1, <2>2, LiteralParts
  <2>4. SignedByte(n % 256) = n
    BY <1>1, <1>4, SignedBytes DEF OneByte
  <2>5. Literal(item) = n
    BY <1>1, <2>2, <2>3, <2>4
  <2>6. item \in Item
    BY <2>1, <2>2 DEF Item, Codes
  <2>7. QED
    BY <2>5, <2>6
<1>5. CASE n \notin Between(-128, 127) /\ n \in Between(-32768, 32767)
  <2>1. item = [code |-> "short_integer", v |-> Low(n, 2)]
    BY <1>5 DEF put_sdl_literal
  <2>2. /\ Low(n, 2) \in Seq(Int) /\ Len(Low(n, 2)) = 2
        /\ Low(n, 2)[1] = n % 256 /\ Low(n, 2)[2] = (n \div 256) % 256
    <3>1. Low(n, 2) \in Seq(Int) /\ Len(Low(n, 2)) = 2
      BY <1>1, LowType
    <3>2. 2 \in 1..4 /\ 2 \in 2..4
      OBVIOUS
    <3>3. QED
      BY <1>a, <3>1, <3>2
  <2>3. Literal(item) = Low(n, 2)[1] + SignedByte(Low(n, 2)[2]) * 256
    BY <2>1, <2>2, LiteralParts
  <2>4. n % 256 \in Int /\ SignedByte((n \div 256) % 256) \in Int
    BY <1>1, <1>3
  <2>5. Literal(item) = TwoBytes(n)
    BY <2>2, <2>3, <2>4 DEF TwoBytes
  <2>6. item \in Item
    BY <2>1, <2>2 DEF Item, Codes
  <2>7. QED
    BY <1>1, <1>5, <2>5, <2>6, SignedBytes
<1>6. CASE n \notin Between(-128, 127) /\ n \notin Between(-32768, 32767)
  <2>1. item = [code |-> "long_integer", v |-> Low(n, 4)]
    BY <1>6 DEF put_sdl_literal
  <2>2. /\ Low(n, 4) \in Seq(Int) /\ Len(Low(n, 4)) = 4
        /\ Low(n, 4)[1] = n % 256 /\ Low(n, 4)[2] = (n \div 256) % 256
        /\ Low(n, 4)[3] = (n \div (256 * 256)) % 256
        /\ Low(n, 4)[4] = (n \div (256 * 256 * 256)) % 256
    <3>1. Low(n, 4) \in Seq(Int) /\ Len(Low(n, 4)) = 4
      BY <1>1, LowType
    <3>2. 4 \in 1..4 /\ 4 \in 2..4 /\ 4 \in 3..4
      OBVIOUS
    <3>3. QED
      BY <1>a, <3>1, <3>2
  <2>3. Literal(item) = Low(n, 4)[1] + Low(n, 4)[2] * 256 + Low(n, 4)[3] * (256 * 256)
                            + SignedByte(Low(n, 4)[4]) * (256 * 256 * 256)
    BY <2>1, <2>2, LiteralParts
  <2>4. Low(n, 4)[1] \in Int
    BY <1>1, <2>2
  <2>5. Literal(item) = FourBytes(n)
    BY <2>2, <2>3, <2>4 DEF FourBytes
  <2>6. item \in Item
    BY <2>1, <2>2 DEF Item, Codes
  <2>7. QED
    BY <1>1, <2>5, <2>6, SignedBytes
<1>7. QED
  BY <1>4, <1>5, <1>6

(* What array_desc makes of a row of the catalogue.                          *)
Dimensions == [lower : Bound, upper : Bound]
ArrayDescs ==
    [relation : Seq(Int), field : Seq(Int), blr_type : BlrTypes, sub_type : Int,
     scale : Between(-128, 127), length : Between(1, 32767), dimensions : Seq(Dimensions)]

(* The description of a column, of the catalogue's types. *)
LEMMA DescType ==
    ASSUME NEW row \in Catalogue
    PROVE  /\ array_desc(row) \in ArrayDescs
           /\ array_desc(row).relation = row.relation /\ array_desc(row).field = row.field
           /\ array_desc(row).blr_type = row.blr_type /\ array_desc(row).scale = Or(row.scale, 0)
           /\ array_desc(row).dimensions
                  = [i \in 1..Len(row.bounds) |-> [lower |-> Or(row.bounds[i][1], 1),
                                                   upper |-> Or(row.bounds[i][2], 0)]]
           /\ Len(array_desc(row).dimensions) = Len(row.bounds)
           /\ Len(row.relation) <= 252 /\ Len(row.field) <= 252
<1>1. /\ row \in [relation : Seq(Int), field : Seq(Int), blr_type : BlrTypes, sub_type : Int,
                  scale : Between(-128, 127) \cup {Unset}, length : Between(1, 32767), dims : Int,
                  bounds : Seq(Bound \X Bound)]
      /\ Len(row.relation) <= 252 /\ Len(row.field) <= 252
  BY CatalogueAssumption
<1>2. /\ row.relation \in Seq(Int) /\ row.field \in Seq(Int) /\ row.blr_type \in BlrTypes
      /\ row.sub_type \in Int /\ row.scale \in Between(-128, 127) \cup {Unset} /\ row.length \in Between(1, 32767)
      /\ row.bounds \in Seq(Bound \X Bound)
  BY <1>1
<1>3. Or(row.sub_type, 0) \in Int /\ Or(row.scale, 0) \in Between(-128, 127)
  <2>1. 0 \in Between(-128, 127) /\ 0 \in Int
    BY DEF Between
  <2>2. QED
    BY <1>2, <2>1 DEF Or
<1>4. row.length % 65536 \in Between(1, 32767)
  <2>1. PICK n \in Int : n = row.length /\ 1 <= n /\ n <= 32767
    BY <1>2, SMT DEF Between
  <2>2. n % 65536 = n
    BY <2>1, SMT
  <2>3. QED
    BY <1>2, <2>1, <2>2
<1> DEFINE dims == [i \in 1..Len(row.bounds) |-> [lower |-> Or(row.bounds[i][1], 1),
                                                 upper |-> Or(row.bounds[i][2], 0)]]
<1>5. Len(row.bounds) \in Nat /\ \A i \in 1..Len(row.bounds) : row.bounds[i] \in Bound \X Bound
  BY <1>2, LenProperties, ElementOfSeq
<1>6. ASSUME NEW i \in 1..Len(row.bounds)
      PROVE  [lower |-> Or(row.bounds[i][1], 1), upper |-> Or(row.bounds[i][2], 0)] \in Dimensions
  <2>1. row.bounds[i][1] \in Bound /\ row.bounds[i][2] \in Bound
    BY <1>5
  <2>2. 0 \in Bound /\ 1 \in Bound
    BY SMT DEF Bound, Between
  <2>3. QED
    BY <2>1, <2>2 DEF Or, Dimensions
<1>7. dims \in Seq(Dimensions) /\ Len(dims) = Len(row.bounds)
  BY <1>5, <1>6
<1> HIDE DEF dims
<1>8. array_desc(row) = [relation |-> row.relation, field |-> row.field, blr_type |-> row.blr_type,
                         sub_type |-> Or(row.sub_type, 0), scale |-> Or(row.scale, 0),
                         length |-> row.length % 65536, dimensions |-> dims]
  BY DEF array_desc, dims
<1>9. array_desc(row) \in ArrayDescs
  BY <1>2, <1>3, <1>4, <1>7, <1>8 DEF ArrayDescs
<1>10. /\ array_desc(row).relation = row.relation /\ array_desc(row).field = row.field
       /\ array_desc(row).blr_type = row.blr_type /\ array_desc(row).scale = Or(row.scale, 0)
       /\ array_desc(row).dimensions = dims
  BY <1>8
<1>11. QED
  BY <1>1, <1>7, <1>9, <1>10 DEF dims

(* The parts of the SDL. *)
SdlHead(desc) ==
    << [code |-> "struct", v |-> <<1>>], [code |-> desc.blr_type, v |-> Operand(desc)],
       Named("relation", desc.relation), Named("field", desc.field) >>
SdlLoops(desc) == [i \in 1..Len(desc.dimensions) |-> SdlLoop(desc, i)]
SdlElement(desc) ==
    << [code |-> "element", v |-> <<1>>],
       [code |-> "scalar", v |-> << 0, Len(desc.dimensions) >>] >>
SdlSubscripts(desc) ==
    [i \in 1..Len(desc.dimensions) |-> [code |-> "variable", v |-> << i - 1 >>]]

(* A name behind its length. *)
LEMMA NamedIs ==
    ASSUME NEW c \in Codes, NEW s \in Seq(Int), Len(s) <= 252
    PROVE  /\ Named(c, s) \in Item
           /\ NameOf(Named(c, s)) = s
<1>1. Len(s) \in Nat /\ Len(s) % 256 = Len(s)
  <2>1. PICK n \in Nat : n = Len(s)
    BY LenProperties
  <2>2. n % 256 = n
    BY <2>1
  <2>3. QED
    BY <2>1, <2>2
<1>2. /\ << Len(s) % 256 >> \in Seq(Int) /\ Len(<< Len(s) % 256 >>) = 1
      /\ << Len(s) % 256 >>[1] = Len(s)
  BY <1>1
<1>3. PICK v \in Seq(Int) : /\ v = << Len(s) % 256 >> \o s /\ Len(v) = Len(s) + 1
                            /\ v[1] = Len(s) /\ \A i \in 1..Len(s) : v[i + 1] = s[i]
  <2>1. /\ << Len(s) % 256 >> \o s \in Seq(Int)
        /\ Len(<< Len(s) % 256 >> \o s) = 1 + Len(s)
        /\ \A i \in 1..1 + Len(s) :
               (<< Len(s) % 256 >> \o s)[i] = IF i <= 1 THEN << Len(s) % 256 >>[i] ELSE s[i - 1]
    BY <1>2, ConcatProperties
  <2>2. PICK v \in Seq(Int) : v = << Len(s) % 256 >> \o s
    BY <2>1
  <2>3. Len(v) = Len(s) + 1
    BY <1>1, <2>1, <2>2
  <2>4. v[1] = Len(s)
    BY <1>1, <1>2, <2>1, <2>2
  <2>5. ASSUME NEW i \in 1..Len(s)
        PROVE  v[i + 1] = s[i]
    <3>1. i + 1 \in 1..1 + Len(s) /\ ~(i + 1 <= 1) /\ (i + 1) - 1 = i
      BY <1>1
    <3>2. QED
      BY <2>1, <2>2, <3>1
  <2>6. QED
    BY <2>2, <2>3, <2>4, <2>5
<1>4. Named(c, s) = [code |-> c, v |-> v]
  BY <1>3 DEF Named
<1>5. SubSeq(v, 2, Len(s) + 1) = s
  <2>1. /\ SubSeq(v, 2, Len(s) + 1) \in Seq(Int) /\ Len(SubSeq(v, 2, Len(s) + 1)) = Len(s)
        /\ \A i \in 1..Len(s) : SubSeq(v, 2, Len(s) + 1)[i] = v[i + 1]
    BY <1>1, <1>3
  <2>2. \A i \in 1..Len(s) : SubSeq(v, 2, Len(s) + 1)[i] = s[i]
    BY <1>3, <2>1
  <2>3. QED
    BY <2>1, <2>2, SeqEqual
<1>6. QED
  BY <1>1, <1>3, <1>4, <1>5 DEF Item, NameOf

(* The operand of a type is bytes. *)
LEMMA OperandIs ==
    ASSUME NEW desc \in ArrayDescs
    PROVE  /\ Operand(desc) \in Seq(Int)
           /\ desc.blr_type \in {"text", "varying"} =>
                  /\ Len(Operand(desc)) = 2
                  /\ Operand(desc)[1] + 256 * Operand(desc)[2] = desc.length
           /\ Len(Operand(desc)) = 1 => SignedByte(Operand(desc)[1]) = desc.scale
<1>1. desc.length \in Between(1, 32767) /\ desc.scale \in Between(-128, 127)
  BY DEF ArrayDescs
<1>2. PICK n \in Int : n = desc.length
  BY <1>1 DEF Between
<1>3. PICK s \in Int : s = desc.scale
  BY <1>1 DEF Between
<1>5. /\ Low(n, 2) \in Seq(Int) /\ Len(Low(n, 2)) = 2
      /\ Low(n, 2)[1] = n % 256 /\ Low(n, 2)[2] = (n \div 256) % 256
  BY LowBytesAre
<1>6. Low(s, 1) \in Seq(Int) /\ Len(Low(s, 1)) = 1 /\ Low(s, 1)[1] = s % 256
  BY LowBytesAre
<1>7. (n % 256) + 256 * ((n \div 256) % 256) = n
  <2>1. PICK q \in Int, r \in Int : q = n \div 256 /\ r = n % 256 /\ n = 256 * q + r
                                    /\ 0 <= r /\ r <= 255
    BY ByteOff DEF Between
  <2>2. 0 <= q /\ q <= 255
    BY <1>1, <1>2, <2>1, SMT DEF Between
  <2>3. q % 256 = q
    BY <2>2
  <2>4. QED
    BY <2>1, <2>3
<1>8. SignedByte(s % 256) = s
  BY <1>1, <1>3, SignedByteIs
<1>9. CASE desc.blr_type \in {"text", "varying"}
  <2>1. Operand(desc) = Low(n, 2)
    BY <1>2, <1>9 DEF Operand
  <2>2. Operand(desc) \in Seq(Int) /\ Len(Operand(desc)) = 2
    BY <1>5, <2>1
  <2>3. Operand(desc)[1] + 256 * Operand(desc)[2] = n
    BY <1>5, <1>7, <2>1
  <2>4. QED
    BY <1>2, <1>9, <2>2, <2>3
<1>10. CASE desc.blr_type \in {"short", "long", "int64", "int128", "quad"}
  <2>1. Operand(desc) = Low(s, 1)
    BY <1>3, <1>10 DEF Operand
  <2>2. QED
    BY <1>3, <1>6, <1>8, <1>10, <2>1
<1>11. CASE desc.blr_type \notin {"text", "varying", "short", "long", "int64", "int128", "quad"}
  <2>1. Operand(desc) = <<>>
    BY <1>11 DEF Operand
  <2>2. QED
    BY <1>11, <2>1
<1>12. QED
  BY <1>9, <1>10, <1>11

(* A loop over a dimension: its opcode says how many items it has, and its   *)
(* literals are the bounds.                                                  *)
LoopTells(loop, dim) ==
    /\ loop \in Seq(Item) /\ Len(loop) \in 2..3 /\ loop[1].code \in {"do1", "do2"}
    /\ LoopItems(loop[1].code) = Len(loop)
    /\ loop[1].code = "do1" => dim.lower = 1 /\ Literal(loop[2]) = dim.upper
    /\ loop[1].code = "do2" => Literal(loop[2]) = dim.lower /\ Literal(loop[3]) = dim.upper

(* The loop written for a dimension is one. *)
LEMMA LoopIs ==
    ASSUME NEW desc \in ArrayDescs, NEW i \in 1..Len(desc.dimensions)
    PROVE  LoopTells(SdlLoop(desc, i), desc.dimensions[i])
<1>1. PICK dim \in Dimensions : dim = desc.dimensions[i]
  <2>1. desc.dimensions \in Seq(Dimensions)
    BY DEF ArrayDescs
  <2>2. QED
    BY <2>1, ElementOfSeq
<1>2. PICK lower \in Int, upper \in Int :
          dim.lower = lower /\ dim.upper = upper /\ lower \in Bound /\ upper \in Bound
  BY SMT DEF Dimensions, Bound, Between
<1>3. PICK a \in Item, b \in Item :
          a = put_sdl_literal(lower) /\ b = put_sdl_literal(upper)
          /\ Literal(a) = lower /\ Literal(b) = upper
  BY <1>2, LiteralIs
<1>4. << i - 1 >> \in Seq(Int)
  OBVIOUS
<1>5. CASE lower = 1
  <2>1. PICK d \in Item : d = [code |-> "do1", v |-> << i - 1 >>] /\ d.code = "do1"
    <3>1. [code |-> "do1", v |-> << i - 1 >>] \in Item
      BY <1>4 DEF Item, Codes
    <3>2. QED
      BY <3>1
  <2>2. SdlLoop(desc, i) = << d, b >>
    BY <1>1, <1>2, <1>3, <1>5, <2>1 DEF SdlLoop
  <2>3. << d, b >> \in Seq(Item) /\ Len(<< d, b >>) = 2 /\ << d, b >>[1] = d /\ << d, b >>[2] = b
    OBVIOUS
  <2>4. LoopItems(d.code) = 2
    BY <2>1 DEF LoopItems
  <2>5. QED
    BY <1>1, <1>2, <1>3, <1>5, <2>1, <2>2, <2>3, <2>4 DEF LoopTells
<1>6. CASE lower # 1
  <2>1. PICK d \in Item : d = [code |-> "do2", v |-> << i - 1 >>] /\ d.code = "do2"
    <3>1. [code |-> "do2", v |-> << i - 1 >>] \in Item
      BY <1>4 DEF Item, Codes
    <3>2. QED
      BY <3>1
  <2>2. SdlLoop(desc, i) = << d, a, b >>
    BY <1>1, <1>2, <1>3, <1>6, <2>1 DEF SdlLoop
  <2>3. /\ << d, a, b >> \in Seq(Item) /\ Len(<< d, a, b >>) = 3 /\ << d, a, b >>[1] = d
        /\ << d, a, b >>[2] = a /\ << d, a, b >>[3] = b
    OBVIOUS
  <2>4. LoopItems(d.code) = 3
    BY <2>1 DEF LoopItems
  <2>5. QED
    BY <1>1, <1>2, <1>3, <1>6, <2>1, <2>2, <2>3, <2>4 DEF LoopTells
<1>7. QED
  BY <1>5, <1>6

(* A loop that stands in the program is read as its dimension. *)
LEMMA LoopRead ==
    ASSUME NEW sdl, NEW pos \in Int, NEW loop, NEW dim \in Dimensions, LoopTells(loop, dim),
           Placed(sdl, pos - 1, loop)
    PROVE  SrvLoop(sdl, pos) = dim /\ Following(sdl, pos) = pos + Len(loop) /\ Len(loop) \in 2..3
<1>1. Len(loop) \in 2..3 /\ loop[1].code \in {"do1", "do2"} /\ LoopItems(loop[1].code) = Len(loop)
  BY DEF LoopTells
<1>2. /\ sdl[pos] = loop[1] /\ sdl[pos + 1] = loop[2]
      /\ Len(loop) = 3 => sdl[pos + 2] = loop[3]
  <2>1. \A k \in 1..Len(loop) : sdl[(pos - 1) + k] = loop[k]
    BY DEF Placed
  <2>2. (pos - 1) + 1 = pos /\ (pos - 1) + 2 = pos + 1 /\ (pos - 1) + 3 = pos + 2
    OBVIOUS
  <2>3. 1 \in 1..Len(loop) /\ 2 \in 1..Len(loop) /\ (Len(loop) = 3 => 3 \in 1..Len(loop))
    BY <1>1
  <2>4. sdl[(pos - 1) + 1] = loop[1] /\ sdl[(pos - 1) + 2] = loop[2]
    BY <2>1, <2>3
  <2>5. Len(loop) = 3 => sdl[(pos - 1) + 3] = loop[3]
    BY <2>1, <2>3
  <2>6. QED
    BY <2>2, <2>4, <2>5
<1>3. Following(sdl, pos) = pos + Len(loop)
  BY <1>1, <1>2 DEF Following
<1>4. dim = [lower |-> dim.lower, upper |-> dim.upper]
  BY DEF Dimensions
<1>5. CASE loop[1].code = "do1"
  BY <1>1, <1>2, <1>3, <1>4, <1>5 DEF SrvLoop, LoopTells
<1>6. CASE loop[1].code = "do2"
  <2>1. Len(loop) = 3
    BY <1>1, <1>6 DEF LoopItems
  <2>2. sdl[pos].code # "do1"
    BY <1>2, <1>6
  <2>3. Literal(sdl[pos + 1]) = dim.lower /\ Literal(sdl[pos + 2]) = dim.upper
    BY <1>2, <1>6, <2>1 DEF LoopTells
  <2>4. QED
    BY <1>1, <1>3, <1>4, <2>2, <2>3 DEF SrvLoop
<1>7. QED
  BY <1>1, <1>5, <1>6

(* The parts of the SDL are items.                                           *)
LEMMA SdlTypes ==
    ASSUME NEW desc \in ArrayDescs, Len(desc.relation) <= 252, Len(desc.field) <= 252
    PROVE  /\ Len(desc.dimensions) \in Nat
           /\ SdlHead(desc) \in Seq(Item) /\ Len(SdlHead(desc)) = 4
           /\ SdlLoops(desc) \in Seq(Seq(Item)) /\ Len(SdlLoops(desc)) = Len(desc.dimensions)
           /\ \A i \in 1..Len(desc.dimensions) : LoopTells(SdlLoops(desc)[i], desc.dimensions[i])
           /\ SdlElement(desc) \in Seq(Item) /\ Len(SdlElement(desc)) = 2
           /\ SdlSubscripts(desc) \in Seq(Item) /\ Len(SdlSubscripts(desc)) = Len(desc.dimensions)
           /\ << Code("eoc") >> \in Seq(Item) /\ Len(<< Code("eoc") >>) = 1
<1>1. /\ desc.dimensions \in Seq(Dimensions) /\ desc.relation \in Seq(Int)
      /\ desc.field \in Seq(Int) /\ desc.blr_type \in BlrTypes
  BY DEF ArrayDescs
<1>2. PICK n \in Nat : n = Len(desc.dimensions)
  BY <1>1, LenProperties
<1>3. SdlHead(desc) \in Seq(Item) /\ Len(SdlHead(desc)) = 4
  <2>1. [code |-> "struct", v |-> <<1>>] \in Item
    BY DEF Item, Codes
  <2>2. [code |-> desc.blr_type, v |-> Operand(desc)] \in Item
    BY <1>1, OperandIs DEF Item, Codes
  <2>3. Named("relation", desc.relation) \in Item /\ Named("field", desc.field) \in Item
    BY <1>1, NamedIs DEF Codes
  <2>4. QED
    BY <2>1, <2>2, <2>3 DEF SdlHead
<1>4. ASSUME NEW i \in 1..n
      PROVE  LoopTells(SdlLoop(desc, i), desc.dimensions[i]) /\ SdlLoop(desc, i) \in Seq(Item)
  BY <1>2, LoopIs DEF LoopTells
<1>5. SdlLoops(desc) = [i \in 1..n |-> SdlLoop(desc, i)]
  BY <1>2 DEF SdlLoops
<1>6. SdlLoops(desc) \in Seq(Seq(Item)) /\ Len(SdlLoops(desc)) = n
  BY <1>4, <1>5
<1>7. \A i \in 1..n : LoopTells(SdlLoops(desc)[i], desc.dimensions[i])
  BY <1>4, <1>5
<1>8. SdlElement(desc) \in Seq(Item) /\ Len(SdlElement(desc)) = 2
  <2>1. [code |-> "element", v |-> <<1>>] \in Item
    BY DEF Item, Codes
  <2>2. [code |-> "scalar", v |-> << 0, n >>] \in Item
    BY DEF Item, Codes
  <2>3. QED
    BY <1>2, <2>1, <2>2 DEF SdlElement
<1>9. SdlSubscripts(desc) \in Seq(Item) /\ Len(SdlSubscripts(desc)) = n
  <2>1. \A i \in 1..n : [code |-> "variable", v |-> << i - 1 >>] \in Item
    BY DEF Item, Codes
  <2>2. SdlSubscripts(desc) = [i \in 1..n |-> [code |-> "variable", v |-> << i - 1 >>]]
    BY <1>2 DEF SdlSubscripts
  <2>3. QED
    BY <2>1, <2>2
<1>10. << Code("eoc") >> \in Seq(Item) /\ Len(<< Code("eoc") >>) = 1
  <2>1. Code("eoc") \in Item
    BY DEF Code, Item, Codes
  <2>2. QED
    BY <2>1
<1>11. QED
  BY <1>2, <1>3, <1>6, <1>7, <1>8, <1>9, <1>10

(* Where the parts of the SDL stand.                                         *)
SdlStands(desc, sdl) ==
    LET loops == SdlLoops(desc)
        n == Len(desc.dimensions)
        after == 4 + Ahead(loops, n)
    IN  /\ Placed(sdl, 0, SdlHead(desc))
        /\ \A i \in 1..n : Placed(sdl, 4 + Ahead(loops, i - 1), loops[i])
        /\ Placed(sdl, after, SdlElement(desc)) /\ Placed(sdl, after + 2, SdlSubscripts(desc))
        /\ Len(sdl) = after + 3 + n

(* The SDL of an array has its parts where they belong. *)
LEMMA SdlPlaces ==
    ASSUME NEW desc \in ArrayDescs, Len(desc.relation) <= 252, Len(desc.field) <= 252
    PROVE  SdlStands(desc, to_sdl(desc))
<1> DEFINE sdl == to_sdl(desc)
<1>1. PICK head \in Seq(Item), loops \in Seq(Seq(Item)), element \in Seq(Item),
           subs \in Seq(Item), end \in Seq(Item), n \in Nat :
          /\ head = SdlHead(desc) /\ loops = SdlLoops(desc) /\ element = SdlElement(desc)
          /\ subs = SdlSubscripts(desc) /\ end = << Code("eoc") >> /\ n = Len(desc.dimensions)
          /\ Len(head) = 4 /\ Len(loops) = n /\ Len(element) = 2 /\ Len(subs) = n /\ Len(end) = 1
  BY SdlTypes
<1>2. PICK middle \in Seq(Item) : middle = FlattenSeq(loops)
  BY <1>1, FlattenType
<1>3. sdl = head \o middle \o element \o subs \o end
  BY <1>1, <1>2 DEF to_sdl, SdlHead, SdlLoops, SdlElement, SdlSubscripts
<1>4. Len(middle) = Ahead(loops, n) /\ Ahead(loops, n) \in Nat
  BY <1>1, <1>2, AheadSteps
<1>5. PICK a \in Seq(Item), b \in Seq(Item), c \in Seq(Item), d \in Seq(Item) :
          /\ a = head \o middle /\ b = a \o element /\ c = b \o subs /\ d = c \o end
  BY ConcatProperties
<1>6. sdl = d
  BY <1>3, <1>5
<1>7. /\ Len(a) = 4 + Ahead(loops, n) /\ Len(b) = 4 + Ahead(loops, n) + 2
      /\ Len(c) = 4 + Ahead(loops, n) + 2 + n /\ Len(d) = 4 + Ahead(loops, n) + 2 + n + 1
  <2>1. Len(a) = Len(head) + Len(middle)
    BY <1>5, ConcatProperties
  <2>2. Len(b) = Len(a) + Len(element)
    BY <1>5, ConcatProperties
  <2>3. Len(c) = Len(b) + Len(subs)
    BY <1>5, ConcatProperties
  <2>4. Len(d) = Len(c) + Len(end)
    BY <1>5, ConcatProperties
  <2>5. QED
    BY <1>1, <1>4, <2>1, <2>2, <2>3, <2>4
<1>8. Placed(d, 0, c)
  <2>1. Placed(d, 0, d) /\ 0 \in Int
    BY PlacedSelf
  <2>2. Placed(d, 0, c \o end)
    BY <1>5, <2>1
  <2>3. QED
    BY <2>1, <2>2, PlacedConcat
<1>9. Placed(d, 0, b) /\ Placed(d, 0 + Len(b), subs)
  <2>1. Placed(d, 0, b \o subs) /\ 0 \in Int
    BY <1>5, <1>8
  <2>2. QED
    BY <2>1, PlacedConcat
<1>10. Placed(d, 0, a \o element) /\ Placed(d, 4 + Ahead(loops, n) + 2, subs)
  <2>2. 0 + Len(b) = 4 + Ahead(loops, n) + 2
    BY <1>4, <1>7
  <2>3. QED
    BY <1>5, <1>9, <2>2
<1>11. Placed(d, 0, head \o middle) /\ Placed(d, 4 + Ahead(loops, n), element)
  <2>1. Placed(d, 0, a) /\ Placed(d, 0 + Len(a), element)
    BY <1>10, PlacedConcat
  <2>2. 0 + Len(a) = 4 + Ahead(loops, n)
    BY <1>4, <1>7
  <2>3. QED
    BY <1>5, <2>1, <2>2
<1>12. Placed(d, 0, head) /\ Placed(d, 4, FlattenSeq(loops))
  <2>1. Placed(d, 0, head) /\ Placed(d, 0 + Len(head), middle)
    BY <1>11, PlacedConcat
  <2>2. 0 + Len(head) = 4
    BY <1>1
  <2>3. QED
    BY <1>2, <2>1, <2>2
<1>13. \A i \in 1..n : Placed(d, 4 + Ahead(loops, i - 1), loops[i])
  BY <1>1, <1>12, PlacedFlatten
<1>14. Len(d) = (4 + Ahead(loops, n)) + 3 + n
  <2>1. PICK m \in Nat : m = Ahead(loops, n)
    BY <1>4
  <2>2. Len(d) = 4 + m + 2 + n + 1
    BY <1>7, <2>1
  <2>3. 4 + m + 2 + n + 1 = 4 + m + 3 + n
    OBVIOUS
  <2>4. Len(d) = 4 + m + 3 + n
    BY ONLY <2>2, <2>3
  <2>5. QED
    BY <2>1, <2>4
<1> HIDE DEF sdl
<1>15. SdlStands(desc, sdl)
  BY <1>1, <1>6, <1>10, <1>11, <1>12, <1>13, <1>14 DEF SdlStands
<1>16. QED
  BY <1>15 DEF sdl

(* The positions the interpreter passes: one for every loop, then the same.  *)
SrvPlaces(p, sdl, count) ==
    p = [k \in 0..count |-> IF k = 0 THEN 5 ELSE Following(sdl, p[k - 1])]

(* There is one such list of positions. *)
LEMMA PlacesAgree ==
    ASSUME NEW p, NEW q, NEW sdl, NEW count \in Nat,
           SrvPlaces(p, sdl, count), SrvPlaces(q, sdl, count)
    PROVE  \A i \in 0..count : p[i] = q[i]
<1>1. p[0] = q[0]
  <2>1. 0 \in 0..count
    OBVIOUS
  <2>2. p[0] = 5 /\ q[0] = 5
    BY <2>1 DEF SrvPlaces
  <2>3. QED
    BY <2>2
<1>2. ASSUME NEW i \in 1..count, p[i - 1] = q[i - 1]
      PROVE  p[i] = q[i]
  <2>1. i \in 0..count /\ i # 0
    OBVIOUS
  <2>2. p[i] = Following(sdl, p[i - 1])
    BY <2>1 DEF SrvPlaces
  <2>3. q[i] = Following(sdl, q[i - 1])
    BY <2>1 DEF SrvPlaces
  <2>4. QED
    BY <1>2, <2>2, <2>3
<1>3. QED
  BY <1>1, <1>2, StepsAgree

(* It stops at the first position that nothing follows. *)
LEMMA LoopsRead ==
    ASSUME NEW p, NEW sdl, Len(sdl) \in Nat, SrvPlaces(p, sdl, Len(sdl)), NEW n \in 0..Len(sdl),
           \A k \in 0..Len(sdl) : Following(sdl, p[k]) = p[k] <=> n <= k
    PROVE  SrvLoops(sdl) = [loops |-> [k \in 1..n |-> SrvLoop(sdl, p[k - 1])], next |-> p[n]]
<1> DEFINE Last_(q) == Min({k \in 0..Len(sdl) : Following(sdl, q[k]) = q[k]})
<1>1. PICK q : /\ SrvPlaces(q, sdl, Len(sdl))
               /\ SrvLoops(sdl) = [loops |-> [k \in 1..Last_(q) |-> SrvLoop(sdl, q[k - 1])],
                                   next |-> q[Last_(q)]]
  BY DEF SrvLoops, SrvPlaces
<1>4. \A i \in 0..Len(sdl) : p[i] = q[i]
  BY <1>1, PlacesAgree
<1>5. {k \in 0..Len(sdl) : Following(sdl, q[k]) = q[k]} = n..Len(sdl)
  <2>1. \A k \in 0..Len(sdl) : Following(sdl, q[k]) = q[k] <=> n <= k
    BY <1>4
  <2>2. QED
    BY <2>1
<1>6. Last_(q) = n
  <2>1. n..Len(sdl) \subseteq 0..Len(sdl) /\ n..Len(sdl) # {} /\ n \in n..Len(sdl)
    OBVIOUS
  <2>2. Min(n..Len(sdl)) \in n..Len(sdl) /\ \A y \in n..Len(sdl) : Min(n..Len(sdl)) <= y
    BY <2>1, LeastIs
  <2>3. Min(n..Len(sdl)) = n
    BY <2>1, <2>2
  <2>4. QED
    BY <1>5, <2>3
<1>7. p[n] = q[n] /\ \A k \in 1..n : p[k - 1] = q[k - 1]
  BY <1>4
<1> HIDE DEF Last_
<1>8. QED
  BY <1>1, <1>6, <1>7

(* The interpreter finds the dimensions, and what follows the loops. *)
LEMMA LoopsFound ==
    ASSUME NEW desc \in ArrayDescs, Len(desc.relation) <= 252, Len(desc.field) <= 252
    PROVE  SrvLoops(to_sdl(desc))
               = [loops |-> desc.dimensions,
                  next |-> 5 + Ahead(SdlLoops(desc), Len(desc.dimensions))]
<1>1. PICK loops \in Seq(Seq(Item)), n \in Nat :
          /\ loops = SdlLoops(desc) /\ n = Len(desc.dimensions) /\ Len(loops) = n
          /\ \A i \in 1..n : LoopTells(loops[i], desc.dimensions[i])
  BY SdlTypes
<1>2. PICK sdl : sdl = to_sdl(desc)
  OBVIOUS
<1>3. /\ \A i \in 1..n : Placed(sdl, 4 + Ahead(loops, i - 1), loops[i])
      /\ Placed(sdl, 4 + Ahead(loops, n), SdlElement(desc))
      /\ Len(sdl) = 4 + Ahead(loops, n) + 3 + n
  BY <1>1, <1>2, SdlPlaces DEF SdlStands
<1>4. /\ Ahead(loops, 0) = 0 /\ \A i \in 0..n : Ahead(loops, i) \in Nat
      /\ \A i \in 1..n : Ahead(loops, i) = Ahead(loops, i - 1) + Len(loops[i])
  BY <1>1, AheadSteps
<1>5. Len(sdl) \in Nat /\ n \in 0..Len(sdl)
  BY <1>3, <1>4
<1>6. desc.dimensions \in Seq(Dimensions) /\ \A i \in 1..n : desc.dimensions[i] \in Dimensions
  <2>1. desc.dimensions \in Seq(Dimensions)
    BY DEF ArrayDescs
  <2>2. QED
    BY <1>1, <2>1, ElementOfSeq
<1>7. ASSUME NEW i \in 1..n
      PROVE  /\ SrvLoop(sdl, 5 + Ahead(loops, i - 1)) = desc.dimensions[i]
             /\ Following(sdl, 5 + Ahead(loops, i - 1)) = 5 + Ahead(loops, i)
             /\ Len(loops[i]) \in 2..3
  <2>1. PICK a \in Nat : a = Ahead(loops, i - 1)
    BY <1>4
  <2>2. PICK dim \in Dimensions, loop \in {loops[i]} : dim = desc.dimensions[i] /\ loop = loops[i]
    BY <1>6
  <2>3. LoopTells(loop, dim) /\ 5 + a \in Int /\ (5 + a) - 1 = 4 + a
    BY <1>1, <2>2
  <2>4. Placed(sdl, (5 + a) - 1, loop)
    BY <1>3, <2>1, <2>2, <2>3
  <2>5. /\ SrvLoop(sdl, 5 + a) = dim /\ Following(sdl, 5 + a) = (5 + a) + Len(loop)
        /\ Len(loop) \in 2..3
    BY <2>3, <2>4, LoopRead
  <2>6. Ahead(loops, i) = a + Len(loop)
    BY <1>4, <2>1, <2>2
  <2>7. (5 + a) + Len(loop) = 5 + (a + Len(loop))
    BY <2>5
  <2>8. QED
    BY <2>1, <2>2, <2>5, <2>6, <2>7
<1>8. Following(sdl, 5 + Ahead(loops, n)) = 5 + Ahead(loops, n)
  <2>1. PICK a \in Nat : a = Ahead(loops, n)
    BY <1>4
  <2>2. Len(SdlElement(desc)) = 2 /\ SdlElement(desc)[1].code = "element"
    BY DEF SdlElement
  <2>3. sdl[(4 + a) + 1] = SdlElement(desc)[1] /\ (4 + a) + 1 = 5 + a
    BY <1>3, <2>1, <2>2 DEF Placed
  <2>4. sdl[5 + a].code = "element"
    BY <2>2, <2>3
  <2>5. LoopItems(sdl[5 + a].code) = 0
    BY <2>4 DEF LoopItems
  <2>6. QED
    BY <2>1, <2>5 DEF Following
<1> DEFINE at(k) == 5 + Ahead(loops, IF k <= n THEN k ELSE n)
           p == [k \in 0..Len(sdl) |-> at(k)]
<1>9. at(0) = 5
  BY <1>4
<1>10. ASSUME NEW k \in 0..Len(sdl)
       PROVE  /\ at(k) \in Int
              /\ k < n => Following(sdl, at(k)) = at(k + 1) /\ at(k + 1) # at(k)
              /\ n <= k => Following(sdl, at(k)) = at(k) /\ at(k + 1) = at(k)
  <2>1. CASE k < n
    <3>1. k + 1 \in 1..n /\ (k + 1) - 1 = k /\ k \in 0..n /\ ~(n <= k)
      BY <2>1
    <3>2. at(k) = 5 + Ahead(loops, k) /\ at(k + 1) = 5 + Ahead(loops, k + 1)
      BY <3>1
    <3>3. /\ Following(sdl, 5 + Ahead(loops, k)) = 5 + Ahead(loops, k + 1)
          /\ Len(loops[k + 1]) \in 2..3
      BY <1>7, <3>1
    <3>4. /\ Ahead(loops, k) \in Nat
          /\ Ahead(loops, k + 1) = Ahead(loops, k) + Len(loops[k + 1])
      BY <1>4, <3>1
    <3>5. 5 + Ahead(loops, k + 1) # 5 + Ahead(loops, k) /\ 5 + Ahead(loops, k) \in Int
      <4>1. PICK a \in Nat, l \in 2..3 : a = Ahead(loops, k) /\ l = Len(loops[k + 1])
        BY <3>3, <3>4
      <4>2. 5 + (a + l) # 5 + a /\ 5 + a \in Int
        OBVIOUS
      <4>3. Ahead(loops, k + 1) = a + l
        BY <3>4, <4>1
      <4>4. QED
        BY <4>1, <4>2, <4>3
    <3> HIDE DEF at
    <3>6. QED
      BY <3>1, <3>2, <3>3, <3>5
  <2>2. CASE n <= k
    <3>1. (IF k <= n THEN k ELSE n) = n /\ (IF k + 1 <= n THEN k + 1 ELSE n) = n /\ ~(k < n)
      BY <2>2
    <3>2. at(k) = 5 + Ahead(loops, n) /\ at(k + 1) = 5 + Ahead(loops, n)
      BY <3>1
    <3>3. 5 + Ahead(loops, n) \in Int
      BY <1>4
    <3> HIDE DEF at
    <3>4. QED
      BY <1>8, <3>1, <3>2, <3>3
  <2>3. k < n \/ n <= k
    OBVIOUS
  <2>4. QED
    BY <2>1, <2>2, <2>3
<1>11. \A i \in 1..n : at(i - 1) = 5 + Ahead(loops, i - 1)
  OBVIOUS
<1>12. at(n) = 5 + Ahead(loops, n)
  OBVIOUS
<1> HIDE DEF at
<1>13. SrvPlaces(p, sdl, Len(sdl))
  <2>1. ASSUME NEW k \in 0..Len(sdl)
        PROVE  at(k) = IF k = 0 THEN 5 ELSE Following(sdl, p[k - 1])
    <3>1. CASE k = 0
      BY <1>9, <3>1
    <3>2. CASE k # 0
      <4>1. PICK j \in 0..Len(sdl) : j = k - 1 /\ k = j + 1
        BY <1>5, <3>2
      <4>2. p[j] = at(j)
        OBVIOUS
      <4>3. Following(sdl, at(j)) = at(j + 1)
        <5>1. j < n \/ n <= j
          OBVIOUS
        <5>2. QED
          BY <1>10, <5>1
      <4>4. QED
        BY <3>2, <4>1, <4>2, <4>3
    <3>3. QED
      BY <3>1, <3>2
  <2>2. p = [k \in 0..Len(sdl) |-> IF k = 0 THEN 5 ELSE Following(sdl, p[k - 1])]
    BY <2>1
  <2>3. QED
    BY <2>2 DEF SrvPlaces
<1>14. \A k \in 0..Len(sdl) : p[k] = at(k)
  OBVIOUS
<1> HIDE DEF p
<1>15. \A k \in 0..Len(sdl) : Following(sdl, p[k]) = p[k] <=> n <= k
  <2>1. ASSUME NEW k \in 0..Len(sdl)
        PROVE  Following(sdl, p[k]) = p[k] <=> n <= k
    <3>1. k < n \/ n <= k
      OBVIOUS
    <3>2. p[k] = at(k)
      BY <1>14
    <3>3. QED
      BY <1>10, <3>1, <3>2
  <2>2. QED
    BY <2>1
<1>16. SrvLoops(sdl) = [loops |-> [k \in 1..n |-> SrvLoop(sdl, p[k - 1])], next |-> p[n]]
  BY <1>5, <1>13, <1>15, LoopsRead
<1>17. p[n] = 5 + Ahead(loops, n)
  BY <1>5, <1>12, <1>14
<1>18. [k \in 1..n |-> SrvLoop(sdl, p[k - 1])] = desc.dimensions
  <2>1. ASSUME NEW k \in 1..n
        PROVE  SrvLoop(sdl, p[k - 1]) = desc.dimensions[k]
    <3>1. p[k - 1] = at(k - 1)
      BY <1>5, <1>14
    <3>2. QED
      BY <1>7, <1>11, <3>1
  <2>2. desc.dimensions = [k \in 1..n |-> desc.dimensions[k]]
    BY <1>1, <1>6
  <2>3. QED
    BY <2>1, <2>2
<1>19. QED
  BY <1>1, <1>2, <1>16, <1>17, <1>18

(* What the server makes of the SDL of a description.                        *)
Tells(slice, desc) ==
    /\ slice.blr_type = desc.blr_type
    /\ slice.relation = desc.relation /\ slice.field = desc.field
    /\ slice.dimensions = desc.dimensions
    /\ slice.subscripts = [i \in 1..Len(desc.dimensions) |-> i - 1]
    /\ slice.scale \in {0, desc.scale}
    /\ desc.blr_type \in {"text", "varying"} => slice.length = desc.length

(* It is the description. *)
LEMMA SliceTells ==
    ASSUME NEW desc \in ArrayDescs, Len(desc.relation) <= 252, Len(desc.field) <= 252
    PROVE  Tells(SrvSlice(to_sdl(desc)), desc)
<1>1. PICK sdl : sdl = to_sdl(desc)
  OBVIOUS
<1>2. PICK n \in Nat : n = Len(desc.dimensions)
  BY SdlTypes
<1>3. PICK after \in Nat : after = 4 + Ahead(SdlLoops(desc), n)
  <2>1. Ahead(SdlLoops(desc), n) \in Nat
    BY <1>2, SdlTypes, AheadSteps
  <2>2. QED
    BY <2>1
<1>4. SrvLoops(sdl) = [loops |-> desc.dimensions, next |-> after + 1]
  <2>1. PICK m \in Nat : m = Ahead(SdlLoops(desc), n)
    BY <1>2, SdlTypes, AheadSteps
  <2>2. 5 + m = (4 + m) + 1
    OBVIOUS
  <2>3. QED
    BY <1>1, <1>2, <1>3, <2>1, <2>2, LoopsFound
<1>5. /\ Placed(sdl, 0, SdlHead(desc)) /\ Placed(sdl, after, SdlElement(desc))
      /\ Placed(sdl, after + 2, SdlSubscripts(desc))
  BY <1>1, <1>2, <1>3, SdlPlaces DEF SdlStands
<1>6. /\ sdl[2] = [code |-> desc.blr_type, v |-> Operand(desc)]
      /\ sdl[3] = Named("relation", desc.relation) /\ sdl[4] = Named("field", desc.field)
  <2>1. /\ Len(SdlHead(desc)) = 4
        /\ SdlHead(desc)[2] = [code |-> desc.blr_type, v |-> Operand(desc)]
        /\ SdlHead(desc)[3] = Named("relation", desc.relation)
        /\ SdlHead(desc)[4] = Named("field", desc.field)
    BY DEF SdlHead
  <2>2. \A k \in 1..4 : sdl[0 + k] = SdlHead(desc)[k]
    BY <1>5, <2>1 DEF Placed
  <2>3. sdl[0 + 2] = SdlHead(desc)[2] /\ sdl[0 + 3] = SdlHead(desc)[3] /\ sdl[0 + 4] = SdlHead(desc)[4]
    BY <2>2
  <2>4. 0 + 2 = 2 /\ 0 + 3 = 3 /\ 0 + 4 = 4
    OBVIOUS
  <2>5. QED
    BY <2>1, <2>3, <2>4
<1>7. sdl[after + 2].v[2] = n
  <2>1. Len(SdlElement(desc)) = 2 /\ SdlElement(desc)[2].v = << 0, n >>
    BY <1>2 DEF SdlElement
  <2>2. 2 \in 1..Len(SdlElement(desc))
    BY <2>1
  <2>3. sdl[after + 2] = SdlElement(desc)[2]
    BY <1>5, <2>2 DEF Placed
  <2>4. QED
    BY <2>1, <2>3
<1>8. ASSUME NEW i \in 1..n
      PROVE  sdl[(after + 2) + i].v[1] = i - 1
  <2>1. Len(SdlSubscripts(desc)) = n /\ SdlSubscripts(desc)[i].v = << i - 1 >>
    BY <1>2 DEF SdlSubscripts
  <2>2. sdl[(after + 2) + i] = SdlSubscripts(desc)[i]
    BY <1>5, <2>1 DEF Placed
  <2>3. QED
    BY <2>1, <2>2
<1>9. SrvSubscripts(sdl, after + 1) = [i \in 1..n |-> i - 1]
  <2>1. (after + 1) + 1 = after + 2
    OBVIOUS
  <2>2. \A i \in 1..n : sdl[((after + 1) + 1) + i].v[1] = i - 1
    BY <1>8, <2>1
  <2>3. sdl[(after + 1) + 1].v[2] = n
    BY <1>7, <2>1
  <2>4. QED
    BY <2>2, <2>3 DEF SrvSubscripts
<1>10. NameOf(sdl[3]) = desc.relation /\ NameOf(sdl[4]) = desc.field
  <2>1. desc.relation \in Seq(Int) /\ desc.field \in Seq(Int)
    BY DEF ArrayDescs
  <2>2. "relation" \in Codes /\ "field" \in Codes
    BY DEF Codes
  <2>3. QED
    BY <1>6, <2>1, <2>2, NamedIs
<1>11. sdl[2].code = desc.blr_type /\ sdl[2].v = Operand(desc)
  BY <1>6
<1> DEFINE slice == SrvSlice(sdl)
<1>12. /\ slice.blr_type = sdl[2].code
       /\ slice.length = IF sdl[2].code \in {"text", "varying"}
                         THEN sdl[2].v[1] + 256 * sdl[2].v[2] ELSE 0
       /\ slice.scale = IF Len(sdl[2].v) = 1 THEN SignedByte(sdl[2].v[1]) ELSE 0
       /\ slice.relation = NameOf(sdl[3]) /\ slice.field = NameOf(sdl[4])
       /\ slice.dimensions = SrvLoops(sdl).loops
       /\ slice.subscripts = SrvSubscripts(sdl, SrvLoops(sdl).next)
  BY DEF SrvSlice
<1> HIDE DEF slice
<1>13. slice.dimensions = desc.dimensions
  BY <1>4, <1>12
<1>14. slice.subscripts = [i \in 1..n |-> i - 1]
  BY <1>4, <1>9, <1>12
<1>15. desc.blr_type \in {"text", "varying"} => slice.length = desc.length
  BY <1>11, <1>12, OperandIs
<1>16. slice.scale \in {0, desc.scale}
  BY <1>11, <1>12, OperandIs
<1>17. Tells(slice, desc)
  BY <1>2, <1>10, <1>11, <1>12, <1>13, <1>14, <1>15, <1>16 DEF Tells
<1>18. QED
  BY <1>1, <1>17 DEF slice

(* The elements of an array.                                                 *)

(* What an element can be made of. *)
LEMMA ElementKindsAre ==
    ASSUME NEW desc, NEW val, NEW charset, Encodes(desc, val, charset),
           desc.blr_type \in BlrTypes, desc.blr_type \notin {"text", "varying"}
    PROVE  /\ desc.blr_type \notin {"quad", "blob_id"}
           /\ desc.blr_type \in {"short", "long", "int64", "int128"} =>
                  val.kind \in {"Short", "Int", "BigInt", "Int128"}
           /\ desc.blr_type \in {"float", "double", "d_float"} => val.kind \in {"Float", "Double"}
           /\ desc.blr_type = "sql_date" => val.kind \in {"Date", "Timestamp"}
           /\ desc.blr_type = "sql_time" => val.kind \in {"Time", "Timestamp"}
           /\ desc.blr_type = "timestamp" => val.kind = "Timestamp"
           /\ desc.blr_type \in {"dec64", "dec128"} => val.kind = "DecFloat"
BY DEF Encodes, ElementKinds, AsI64, IntBytes, BlrTypes

(* The numbers of an element, as many as its type has. *)
LEMMA ElementNumbersAre ==
    ASSUME NEW desc, NEW val \in ValueSet, NEW charset, Encodes(desc, val, charset),
           desc.blr_type \in BlrTypes, desc.blr_type \notin {"text", "varying"}
    PROVE  /\ ElementNumbers(desc, val) \in Seq(Int)
           /\ Len(ElementNumbers(desc, val)) = ElementWords(desc.blr_type)
           /\ ElementWidth(desc.blr_type) \in {1, 4, 8, 16}
<1> DEFINE v == val.v
           n == Len(v)
           ns == ElementNumbers(desc, val)
<1>1. v \in Seq(Int) /\ n \in Nat /\ \A i \in 1..n : v[i] \in Int
  BY KindArity, LenProperties, ElementOfSeq
<1>2. \A x \in Int : << x >> \in Seq(Int) /\ Len(<< x >>) = 1
  OBVIOUS
<1>a. ElementWidth(desc.blr_type) \in {1, 4, 8, 16}
  BY DEF ElementWidth
<1>b. desc.blr_type # "timestamp" => ElementWords(desc.blr_type) = 1
  BY DEF ElementWords
<1> HIDE DEF v
<1>3. CASE desc.blr_type \in {"short", "long"}
  <2>1. n = 1
    BY <1>3, ElementKindsAre, KindArity DEF v
  <2>2. v[1] \in Int
    BY <1>1, <2>1
  <2>3. LowBytes(v[1], 2) \in Int /\ LowBytes(v[1], 4) \in Int
    BY <2>2 DEF LowBytes
  <2>4. ns = << LowBytes(v[1], 2) >> \/ ns = << LowBytes(v[1], 4) >>
    BY <1>3 DEF ElementNumbers, v
  <2>5. QED
    BY <1>2, <1>3, <1>a, <1>b, <2>3, <2>4
<1>4. CASE desc.blr_type = "bool"
  <2>1. val.kind = "Bool" => v[1] \in Int
    BY <1>1, KindArity DEF v
  <2>2. (IF val.kind = "Bool" THEN v[1] ELSE 0) \in Int
    BY <2>1
  <2>3. ns = << IF val.kind = "Bool" THEN v[1] ELSE 0 >>
    BY <1>4 DEF ElementNumbers, v
  <2>4. QED
    BY <1>2, <1>4, <1>a, <1>b, <2>2, <2>3
<1>5. CASE desc.blr_type = "float" /\ val.kind = "Double"
  <2>1. n = 1
    BY <1>5, KindArity DEF v
  <2>2. Rounded(v[1]) \in Int
    BY <1>1, <2>1 DEF Rounded
  <2>3. ns = << Rounded(v[1]) >>
    BY <1>5 DEF ElementNumbers, v
  <2>4. QED
    BY <1>2, <1>5, <1>a, <1>b, <2>2, <2>3
<1>6. CASE desc.blr_type = "sql_date"
  <2>1. n \in 1..2
    BY <1>6, ElementKindsAre, KindArity DEF v
  <2>2. v[1] \in Int
    BY <1>1, <2>1
  <2>3. ns = << v[1] >>
    BY <1>6 DEF ElementNumbers, v
  <2>4. QED
    BY <1>2, <1>6, <1>a, <1>b, <2>2, <2>3
<1>7. CASE desc.blr_type = "sql_time"
  <2>1. n \in 1..2
    BY <1>7, ElementKindsAre, KindArity DEF v
  <2>2. v[n] \in Int
    <3>1. n \in 1..n
      BY <2>1
    <3>2. QED
      BY <1>1, <3>1
  <2>3. ns = << v[n] >>
    BY <1>7 DEF ElementNumbers, v, Last
  <2>4. QED
    BY <1>2, <1>7, <1>a, <1>b, <2>2, <2>3
<1>8. CASE /\ desc.blr_type \notin {"short", "long", "bool", "sql_date", "sql_time"}
           /\ ~(desc.blr_type = "float" /\ val.kind = "Double")
  <2>1. ns = v
    BY <1>8 DEF ElementNumbers, v
  <2>2. desc.blr_type # "timestamp" =>
            val.kind \in {"Short", "Int", "BigInt", "Int128", "Float", "Double", "DecFloat"}
    BY <1>8, ElementKindsAre DEF BlrTypes
  <2>3. desc.blr_type # "timestamp" => n = 1
    BY <2>2, KindArity DEF v
  <2>4. desc.blr_type = "timestamp" => n = 2
    BY ElementKindsAre, KindArity DEF v
  <2>5. n = ElementWords(desc.blr_type)
    BY <2>3, <2>4 DEF ElementWords
  <2>6. QED
    BY <1>1, <1>a, <2>1, <2>5
<1>9. QED
  BY <1>3, <1>4, <1>5, <1>6, <1>7, <1>8

(* What the bytes of an element hold. *)
Found(desc, val, charset) ==
    LET text == TextBytes(charset, val)
        numbers == ElementNumbers(desc, val)
    IN  CASE desc.blr_type = "text" -> Filled(desc.length, text)
          [] desc.blr_type = "varying" -> text
          [] OTHER -> [i \in 1..Len(numbers) |-> Whole(numbers[i])]

(* A text that an element takes. *)
LEMMA ElementTextFits ==
    ASSUME NEW desc \in ArrayDescs, NEW val \in ValueSet, NEW charset,
           Encodes(desc, val, charset), desc.blr_type \in {"text", "varying"}
    PROVE  /\ TextBytes(charset, val) \in Seq(Int) /\ Len(TextBytes(charset, val)) \in Nat
           /\ desc.length \in Nat /\ Len(TextBytes(charset, val)) <= desc.length
           /\ DecodedText(TextBytes(charset, val)) = val.v /\ val.v \in Seq(Int)
<1>1. val.v \in Seq(Int)
  BY KindArity
<1>2. TextBytes(charset, val) \in Seq(Int) /\ DecodedText(TextBytes(charset, val)) = val.v
  BY <1>1, TextDecodes
<1>3. Len(TextBytes(charset, val)) <= desc.length
  BY DEF Encodes, check_elem_len, ElementKinds
<1>4. desc.length \in Nat
  <2>1. desc.length \in Between(1, 32767)
    BY DEF ArrayDescs
  <2>2. QED
    BY <2>1, SMT DEF Between
<1>5. QED
  BY <1>1, <1>2, <1>3, <1>4, LenProperties

(* The forms of an element. *)
LEMMA ElementForms ==
    ASSUME NEW desc, NEW val, NEW charset
    PROVE  LET text == TextBytes(charset, val)
           IN  /\ desc.blr_type = "varying" => encode_element(desc, val, charset)
                                                   = Word(Len(text), 4) \o text \o Pad(Len(text))
               /\ desc.blr_type = "text" => encode_element(desc, val, charset)
                                                = Filled(desc.length, text) \o Pad(desc.length)
               /\ desc.blr_type \notin {"text", "varying"} =>
                      encode_element(desc, val, charset)
                          = Words(ElementNumbers(desc, val), ElementWidth(desc.blr_type))
BY DEF encode_element, Filled

(* Whoever knows type and length reads what the element holds, and stops     *)
(* where it ends.                                                            *)
LEMMA ElementRead ==
    ASSUME NEW desc \in ArrayDescs, NEW val \in ValueSet, NEW charset, Encodes(desc, val, charset),
           NEW d, d.blr_type = desc.blr_type,
           desc.blr_type \in {"text", "varying"} => d.length = desc.length,
           NEW buf \in Seq(Int), NEW pos \in Nat,
           Placed(buf, pos, encode_element(desc, val, charset))
    PROVE  ReadElement(buf, pos, d)
               = [v |-> Found(desc, val, charset),
                  next |-> pos + Len(encode_element(desc, val, charset))]
<1> DEFINE text == TextBytes(charset, val)
<1>1. CASE desc.blr_type = "varying"
  <2>1. text \in Seq(Int)
    BY <1>1, ElementTextFits
  <2>2. encode_element(desc, val, charset) = Word(Len(text), 4) \o text \o Pad(Len(text))
    BY <1>1, ElementForms
  <2>3. ReadVarying(buf, pos)
            = [v |-> text, next |-> pos + Len(Word(Len(text), 4) \o text \o Pad(Len(text)))]
    BY <2>1, <2>2, VaryingRead
  <2>4. ReadElement(buf, pos, d) = ReadVarying(buf, pos)
    BY <1>1 DEF ReadElement
  <2>5. Found(desc, val, charset) = text
    BY <1>1 DEF Found
  <2>6. QED
    BY <2>2, <2>3, <2>4, <2>5
<1>2. CASE desc.blr_type = "text"
  <2>1. PICK bytes \in Seq(Int) : bytes = Filled(desc.length, text) /\ Len(bytes) = desc.length
    BY <1>2, ElementTextFits, FilledType
  <2>2. encode_element(desc, val, charset) = bytes \o Pad(Len(bytes))
    BY <1>2, <2>1, ElementForms
  <2>3. Placed(buf, pos, bytes \o Pad(Len(bytes)))
    BY <2>2
  <2>4. ReadText(buf, pos, Len(bytes)) = [v |-> bytes, next |-> pos + Len(bytes \o Pad(Len(bytes)))]
    BY <2>3, TextRead
  <2>5. ReadElement(buf, pos, d) = ReadText(buf, pos, desc.length)
    BY <1>2 DEF ReadElement
  <2>6. Found(desc, val, charset) = bytes
    BY <1>2, <2>1 DEF Found
  <2>7. QED
    BY <2>1, <2>2, <2>4, <2>5, <2>6
<1>3. CASE desc.blr_type \notin {"text", "varying"}
  <2>1. desc.blr_type \in BlrTypes
    BY DEF ArrayDescs
  <2>2. PICK ns \in Seq(Int), w \in 1..16 :
            /\ ns = ElementNumbers(desc, val) /\ w = ElementWidth(desc.blr_type)
            /\ Len(ns) = ElementWords(desc.blr_type)
    BY <1>3, <2>1, ElementNumbersAre
  <2>3. encode_element(desc, val, charset) = Words(ns, w)
    BY <1>3, <2>2, ElementForms
  <2>4. pos \in Int /\ Placed(buf, pos, Words(ns, w))
    BY <2>3
  <2>5. ReadWords(buf, pos, Len(ns), w)
            = [v |-> [i \in 1..Len(ns) |-> Whole(ns[i])], next |-> pos + Len(Words(ns, w))]
    BY <2>4, WordsRead
  <2>6. ReadElement(buf, pos, d) = ReadWords(buf, pos, Len(ns), w)
    BY <1>3, <2>2 DEF ReadElement
  <2>7. Found(desc, val, charset) = [i \in 1..Len(ns) |-> Whole(ns[i])]
    BY <1>3, <2>2 DEF Found
  <2>8. QED
    BY <2>3, <2>5, <2>6, <2>7
<1>4. QED
  BY <1>1, <1>2, <1>3

(* An element is bytes. *)
LEMMA ElementType ==
    ASSUME NEW desc \in ArrayDescs, NEW val \in ValueSet, NEW charset, Encodes(desc, val, charset)
    PROVE  encode_element(desc, val, charset) \in Seq(Int)
<1> DEFINE text == TextBytes(charset, val)
<1>1. CASE desc.blr_type = "varying"
  <2>1. PICK bytes \in Seq(Int), n \in Nat : bytes = text /\ n = Len(text)
    BY <1>1, ElementTextFits
  <2>2. Word(n, 4) \in Seq(Int) /\ Pad(n) \in Seq(Int)
    <3>1. n \in Int /\ 4 \in Nat
      OBVIOUS
    <3>2. Word(n, 4) \in Seq(Int)
      BY <3>1, WordType
    <3>3. Pad(n) \in Seq(Int)
      BY PadType
    <3>4. QED
      BY <3>2, <3>3
  <2>3. Word(n, 4) \o bytes \in Seq(Int)
    BY <2>2, BytesJoin
  <2>4. Word(n, 4) \o bytes \o Pad(n) \in Seq(Int)
    BY <2>2, <2>3, BytesJoin
  <2>5. QED
    BY <1>1, <2>1, <2>4, ElementForms
<1>2. CASE desc.blr_type = "text"
  <2>1. PICK bytes \in Seq(Int), n \in Nat : bytes = Filled(desc.length, text) /\ n = desc.length
    BY <1>2, ElementTextFits, FilledType
  <2>2. Pad(n) \in Seq(Int)
    BY PadType
  <2>3. bytes \o Pad(n) \in Seq(Int)
    BY <2>2, BytesJoin
  <2>4. QED
    BY <1>2, <2>1, <2>3, ElementForms
<1>3. CASE desc.blr_type \notin {"text", "varying"}
  <2>1. desc.blr_type \in BlrTypes
    BY DEF ArrayDescs
  <2>2. PICK ns \in Seq(Int), w \in {1, 4, 8, 16} :
            ns = ElementNumbers(desc, val) /\ w = ElementWidth(desc.blr_type)
    BY <1>3, <2>1, ElementNumbersAre
  <2>3. w \in Nat
    OBVIOUS
  <2>4. Words(ns, w) \in Seq(Int)
    BY <2>3, PaddedType
  <2>5. QED
    BY <1>3, <2>2, <2>4, ElementForms
<1>4. QED
  BY <1>1, <1>2, <1>3

(* An exact element holds what is stored.                                    *)
LEMMA FoundIsStored ==
    ASSUME NEW desc \in ArrayDescs, NEW val \in Elements, NEW charset,
           Encodes(desc, val, charset), Exact(desc, val)
    PROVE  Found(desc, val, charset) = Stored(desc, val, charset)
<1> DEFINE v == val.v
           n == Len(v)
           ns == ElementNumbers(desc, val)
           type == desc.blr_type
<1>1. val \in ValueSet /\ (val.kind = "Float" => Rounded(v[1]) = v[1]) /\ type \in BlrTypes
  BY DEF Elements, ArrayDescs
<1>2. v \in Seq(Int) /\ n \in Nat
  BY <1>1, KindArity, LenProperties
<1>3. ASSUME NEW x
      PROVE  [i \in 1..Len(<< x >>) |-> Whole(<< x >>[i])] = << Whole(x) >>
  <2>1. [i \in 1..Len(<< x >>) |-> Whole(<< x >>[i])] = [i \in 1..1 |-> Whole(x)]
    OBVIOUS
  <2>2. << Whole(x) >> = [i \in 1..1 |-> Whole(x)]
    OBVIOUS
  <2>3. QED
    BY <2>1, <2>2
<1>4. ASSUME n = 1
      PROVE  v = << v[1] >>
  <2>1. v = [i \in 1..n |-> v[i]]
    BY <1>2
  <2>2. v = [i \in 1..1 |-> v[1]]
    BY <1>4, <2>1
  <2>3. << v[1] >> = [i \in 1..1 |-> v[1]]
    OBVIOUS
  <2>4. QED
    BY <2>2, <2>3
<1>5. type \notin {"text", "varying"} =>
          Found(desc, val, charset) = [i \in 1..Len(ns) |-> Whole(ns[i])]
  BY DEF Found
<1>6. CASE type = "text"
  BY <1>6 DEF Found, Stored, Filled
<1>7. CASE type = "varying"
  BY <1>7 DEF Found, Stored
<1>8. CASE type = "float"
  <2>1. Stored(desc, val, charset) = << Whole(Rounded(v[1])) >>
    BY <1>8 DEF Stored
  <2>2. val.kind \in {"Float", "Double"} /\ n = 1
    BY <1>1, <1>8, ElementKindsAre, KindArity
  <2>3. ns = << Rounded(v[1]) >>
    <3>1. CASE val.kind = "Double"
      BY <1>8, <3>1 DEF ElementNumbers
    <3>2. CASE val.kind = "Float"
      <4>1. ns = v
        BY <1>8, <3>2 DEF ElementNumbers
      <4>2. QED
        BY <1>1, <1>4, <2>2, <3>2, <4>1
    <3>3. QED
      BY <2>2, <3>1, <3>2
  <2>4. QED
    BY <1>3, <1>5, <1>8, <2>1, <2>3
<1>9. CASE type = "sql_date"
  <2>1. Stored(desc, val, charset) = << Whole(Head(v)) >>
    BY <1>9 DEF Stored
  <2>2. n \in 1..2
    BY <1>1, <1>9, ElementKindsAre, KindArity
  <2>3. Head(v) = v[1]
    BY <1>2, <2>2
  <2>4. ns = << v[1] >>
    BY <1>9 DEF ElementNumbers
  <2>5. QED
    BY <1>3, <1>5, <1>9, <2>1, <2>3, <2>4
<1>10. CASE type = "sql_time"
  <2>1. Stored(desc, val, charset) = << Whole(Last(v)) >>
    BY <1>10 DEF Stored
  <2>2. ns = << Last(v) >>
    BY <1>10 DEF ElementNumbers
  <2>3. QED
    BY <1>3, <1>5, <1>10, <2>1, <2>2
<1>11. CASE type \notin {"text", "varying", "float", "sql_date", "sql_time"}
  <2>1. Stored(desc, val, charset) = [i \in 1..n |-> Whole(v[i])]
    BY <1>11 DEF Stored
  <2>2. ns = v
    <3>1. CASE type \in {"short", "long"}
      <4>1. n = 1
        BY <1>1, <3>1, ElementKindsAre, KindArity
      <4>2. type = "short" => v[1] <= 2
        <5>1. ASSUME type = "short"
              PROVE  v[1] <= 4 \div 2
          BY <5>1 DEF Exact, ElementWidth
        <5>2. 4 \div 2 = 2
          OBVIOUS
        <5>3. QED
          BY <5>1, <5>2
      <4>3. type = "long" => v[1] <= 4
        <5>1. ASSUME type = "long"
              PROVE  v[1] <= 4 \div 1
          BY <5>1 DEF Exact, ElementWidth
        <5>2. 4 \div 1 = 4
          OBVIOUS
        <5>3. QED
          BY <5>1, <5>2
      <4>4. ns = << v[1] >>
        BY <3>1, <4>2, <4>3 DEF ElementNumbers, LowBytes
      <4>5. QED
        BY <1>4, <4>1, <4>4
    <3>2. CASE type = "bool"
      <4>1. val.kind = "Bool"
        BY <3>2 DEF Exact
      <4>2. n = 1
        BY <1>1, <4>1, KindArity
      <4>3. ns = << v[1] >>
        BY <3>2, <4>1 DEF ElementNumbers
      <4>4. QED
        BY <1>4, <4>2, <4>3
    <3>3. CASE type \notin {"short", "long", "bool"}
      BY <1>11, <3>3 DEF ElementNumbers
    <3>4. QED
      BY <3>1, <3>2, <3>3
  <2>3. QED
    BY <1>5, <1>11, <2>1, <2>2
<1>12. QED
  BY <1>6, <1>7, <1>8, <1>9, <1>10, <1>11

(* What is stored comes back to the caller.                                  *)
LEMMA StoredComesBack ==
    ASSUME NEW desc \in ArrayDescs, NEW val \in ValueSet, NEW charset, Encodes(desc, val, charset)
    PROVE  decode_element(desc, Stored(desc, val, charset)) = GivenBack(desc, val, charset)
<1> DEFINE text == TextBytes(charset, val)
           raw == Stored(desc, val, charset)
<1>1. CASE desc.blr_type \notin {"text", "varying"}
  BY <1>1 DEF decode_element, GivenBack
<1>2. CASE desc.blr_type \in {"text", "varying"} /\ desc.sub_type = 1
  BY <1>2 DEF decode_element, GivenBack, ElementText
<1>3. CASE desc.blr_type = "text" /\ desc.sub_type # 1
  <2>1. /\ text \in Seq(Int) /\ DecodedText(text) = val.v /\ val.v \in Seq(Int)
        /\ Len(text) \in Nat /\ desc.length \in Nat /\ Len(text) <= desc.length
    BY <1>3, ElementTextFits
  <2>2. PICK k \in Nat : k = desc.length - Len(text)
    BY <2>1
  <2>3. raw = text \o Blanks(k)
    BY <1>3, <2>2 DEF Stored
  <2>4. Blanks(k) \in Seq(Int) /\ DecodedText(Blanks(k)) \in Seq({32})
    BY FillType, BlanksDecode
  <2>5. DecodedText(raw) = val.v \o DecodedText(Blanks(k))
    BY <2>1, <2>3, <2>4, DecodedConcat
  <2>6. TrimEnd(DecodedText(raw)) = TrimEnd(val.v)
    BY <2>1, <2>4, <2>5, TrimBlanks
  <2>7. decode_element(desc, raw) = [kind |-> "Text", v |-> TrimEnd(DecodedText(raw))]
    BY <1>3 DEF decode_element, ElementText
  <2>8. GivenBack(desc, val, charset) = [kind |-> "Text", v |-> TrimEnd(val.v)]
    BY <1>3 DEF GivenBack
  <2>9. QED
    BY <2>6, <2>7, <2>8
<1>4. CASE desc.blr_type = "varying" /\ desc.sub_type # 1
  <2>1. DecodedText(text) = val.v
    BY <1>4, ElementTextFits
  <2>2. raw = text
    BY <1>4 DEF Stored
  <2>3. decode_element(desc, raw) = [kind |-> "Text", v |-> DecodedText(raw)]
    BY <1>4 DEF decode_element, ElementText
  <2>4. GivenBack(desc, val, charset) = [kind |-> "Text", v |-> val.v]
    BY <1>4 DEF GivenBack
  <2>5. QED
    BY <2>1, <2>2, <2>3, <2>4
<1>5. QED
  BY <1>1, <1>2, <1>3, <1>4

(* The positions a reader of elements passes.                                *)
ElementPlaces(p, buf, desc, count) ==
    p = [i \in 0..count |-> IF i = 0 THEN 0 ELSE ReadElement(buf, p[i - 1], desc).next]

(* There is one such list of positions. *)
LEMMA ElementPlacesAgree ==
    ASSUME NEW p, NEW q, NEW buf, NEW desc, NEW count \in Nat,
           ElementPlaces(p, buf, desc, count), ElementPlaces(q, buf, desc, count)
    PROVE  \A i \in 0..count : p[i] = q[i]
<1>1. p[0] = q[0]
  <2>1. 0 \in 0..count
    OBVIOUS
  <2>2. p[0] = 0 /\ q[0] = 0
    BY <2>1 DEF ElementPlaces
  <2>3. QED
    BY <2>2
<1>2. ASSUME NEW i \in 1..count, p[i - 1] = q[i - 1]
      PROVE  p[i] = q[i]
  <2>1. i \in 0..count /\ i # 0
    OBVIOUS
  <2>2. p[i] = ReadElement(buf, p[i - 1], desc).next
    BY <2>1 DEF ElementPlaces
  <2>3. q[i] = ReadElement(buf, q[i - 1], desc).next
    BY <2>1 DEF ElementPlaces
  <2>4. QED
    BY <1>2, <2>2, <2>3
<1>3. QED
  BY <1>1, <1>2, StepsAgree

(* So the elements are read at these positions. *)
LEMMA ElementsReadAt ==
    ASSUME NEW p, NEW buf, NEW desc, NEW count \in Nat, ElementPlaces(p, buf, desc, count)
    PROVE  ReadElements(buf, desc, count)
               = [list |-> [i \in 1..count |-> ReadElement(buf, p[i - 1], desc).v],
                  next |-> p[count]]
<1>1. PICK q : /\ ElementPlaces(q, buf, desc, count)
               /\ ReadElements(buf, desc, count)
                      = [list |-> [i \in 1..count |-> ReadElement(buf, q[i - 1], desc).v],
                         next |-> q[count]]
  BY DEF ReadElements, ElementPlaces
<1>2. \A i \in 0..count : p[i] = q[i]
  BY <1>1, ElementPlacesAgree
<1>3. p[count] = q[count] /\ \A i \in 1..count : p[i - 1] = q[i - 1]
  BY <1>2
<1>4. QED
  BY <1>1, <1>3

(* The first elements of an array, each as its bytes.                        *)
ElementsBytes(desc, values, charset, k) ==
    [i \in 1..k |-> encode_element(desc, values[i], charset)]

(* Values that an array takes.                                               *)
TakesAll(desc, values, charset) ==
    /\ values \in Seq(Elements)
    /\ \A i \in 1..Len(values) : Encodes(desc, values[i], charset)

(* Its elements are bytes. *)
LEMMA ElementsBytesType ==
    ASSUME NEW desc \in ArrayDescs, NEW values, NEW charset, TakesAll(desc, values, charset),
           NEW k \in 0..Len(values)
    PROVE  /\ ElementsBytes(desc, values, charset, k) \in Seq(Seq(Int))
           /\ Len(ElementsBytes(desc, values, charset, k)) = k
           /\ \A i \in 1..k : /\ values[i] \in Elements /\ values[i] \in ValueSet
                              /\ Encodes(desc, values[i], charset)
                              /\ ElementsBytes(desc, values, charset, k)[i]
                                     = encode_element(desc, values[i], charset)
<1>1. Len(values) \in Nat /\ k \in Nat /\ 1..k \subseteq 1..Len(values)
  BY LenProperties DEF TakesAll
<1>2. ASSUME NEW i \in 1..k
      PROVE  /\ values[i] \in Elements /\ values[i] \in ValueSet
             /\ Encodes(desc, values[i], charset)
             /\ encode_element(desc, values[i], charset) \in Seq(Int)
  <2>1. i \in 1..Len(values)
    BY <1>1
  <2>2. values[i] \in Elements /\ Encodes(desc, values[i], charset)
    BY <2>1, ElementOfSeq DEF TakesAll
  <2>3. values[i] \in ValueSet
    BY <2>2 DEF Elements
  <2>4. QED
    BY <2>2, <2>3, ElementType
<1>3. ElementsBytes(desc, values, charset, k) = [i \in 1..k |-> encode_element(desc, values[i], charset)]
  BY DEF ElementsBytes
<1>4. QED
  BY <1>1, <1>2, <1>3

(* Whoever knows type and length reads every element, and all the bytes.     *)
LEMMA ElementsRead ==
    ASSUME NEW desc \in ArrayDescs, NEW values, NEW charset, TakesAll(desc, values, charset),
           NEW k \in 0..Len(values), NEW d, d.blr_type = desc.blr_type,
           desc.blr_type \in {"text", "varying"} => d.length = desc.length
    PROVE  LET bytes == FlattenSeq(ElementsBytes(desc, values, charset, k))
           IN  ReadElements(bytes, d, k)
                   = [list |-> [i \in 1..k |-> Found(desc, values[i], charset)], next |-> Len(bytes)]
<1>1. PICK parts \in Seq(Seq(Int)) :
          /\ parts = ElementsBytes(desc, values, charset, k) /\ Len(parts) = k
          /\ \A i \in 1..k : /\ values[i] \in ValueSet /\ Encodes(desc, values[i], charset)
                             /\ parts[i] = encode_element(desc, values[i], charset)
  BY ElementsBytesType
<1>2. PICK buf \in Seq(Int) : buf = FlattenSeq(parts)
  BY FlattenType
<1>3. k \in Nat
  BY LenProperties DEF TakesAll
<1>4. /\ Ahead(parts, 0) = 0 /\ Ahead(parts, k) = Len(buf)
      /\ \A i \in 0..k : Ahead(parts, i) \in Nat
      /\ \A i \in 1..k : Ahead(parts, i) = Ahead(parts, i - 1) + Len(parts[i])
  BY <1>1, <1>2, AheadSteps
<1>5. ASSUME NEW i \in 1..k
      PROVE  ReadElement(buf, Ahead(parts, i - 1), d)
                 = [v |-> Found(desc, values[i], charset), next |-> Ahead(parts, i)]
  <2>1. PICK a \in Nat : a = Ahead(parts, i - 1)
    <3>1. i - 1 \in 0..k
      BY <1>3
    <3>2. QED
      BY <1>4, <3>1
  <2>2. Placed(buf, 0, FlattenSeq(parts)) /\ 0 \in Int
    BY <1>2, PlacedSelf
  <2>3. Placed(buf, 0 + a, parts[i])
    BY <1>1, <2>1, <2>2, PlacedFlatten
  <2>4. 0 + a = a
    OBVIOUS
  <2>5. Placed(buf, a, encode_element(desc, values[i], charset))
    BY <1>1, <2>3, <2>4
  <2>6. ReadElement(buf, a, d)
            = [v |-> Found(desc, values[i], charset),
               next |-> a + Len(encode_element(desc, values[i], charset))]
    BY <1>1, <2>5, ElementRead
  <2>7. QED
    BY <1>1, <1>4, <2>1, <2>6
<1> DEFINE p == [i \in 0..k |-> Ahead(parts, i)]
<1>6. ElementPlaces(p, buf, d, k)
  <2>1. ASSUME NEW i \in 0..k
        PROVE  Ahead(parts, i) = IF i = 0 THEN 0 ELSE ReadElement(buf, p[i - 1], d).next
    <3>1. CASE i = 0
      BY <1>4, <3>1
    <3>2. CASE i # 0
      <4>1. i \in 1..k /\ i - 1 \in 0..k
        BY <1>3, <3>2
      <4>2. p[i - 1] = Ahead(parts, i - 1)
        BY <4>1
      <4>3. ReadElement(buf, p[i - 1], d)
                = [v |-> Found(desc, values[i], charset), next |-> Ahead(parts, i)]
        BY <1>5, <4>1, <4>2
      <4>4. ReadElement(buf, p[i - 1], d).next = Ahead(parts, i)
        BY <4>3
      <4>5. QED
        BY <3>2, <4>4
    <3>3. QED
      BY <3>1, <3>2
  <2>2. p = [i \in 0..k |-> IF i = 0 THEN 0 ELSE ReadElement(buf, p[i - 1], d).next]
    BY <2>1
  <2>3. QED
    BY <2>2 DEF ElementPlaces
<1>7. p[k] = Len(buf) /\ \A i \in 1..k : p[i - 1] = Ahead(parts, i - 1)
  BY <1>3, <1>4
<1> HIDE DEF p
<1>8. ReadElements(buf, d, k)
          = [list |-> [i \in 1..k |-> ReadElement(buf, p[i - 1], d).v], next |-> p[k]]
  BY <1>3, <1>6, ElementsReadAt
<1>9. [i \in 1..k |-> ReadElement(buf, p[i - 1], d).v] = [i \in 1..k |-> Found(desc, values[i], charset)]
  <2>1. ASSUME NEW i \in 1..k
        PROVE  ReadElement(buf, p[i - 1], d).v = Found(desc, values[i], charset)
    <3>1. ReadElement(buf, p[i - 1], d)
              = [v |-> Found(desc, values[i], charset), next |-> Ahead(parts, i)]
      BY <1>5, <1>7
    <3>2. QED
      BY <3>1
  <2>2. QED
    BY <2>1
<1>10. QED
  BY <1>1, <1>2, <1>7, <1>8, <1>9

(* The sizes of an element, for the client and for the server that knows the *)
(* column, are the same for every type an element can be made for.           *)
LEMMA StridesAgree ==
    ASSUME NEW desc \in ArrayDescs, NEW slice, Tells(slice, desc)
    PROVE  /\ element_stride(desc) \in Nat \ {0} /\ SrvStride(slice) \in Nat \ {0}
           /\ desc.blr_type \notin {"quad", "blob_id"} => SrvStride(slice) = element_stride(desc)
<1>1. PICK n \in Nat : n = desc.length /\ n >= 1
  <2>1. desc.length \in Between(1, 32767)
    BY DEF ArrayDescs
  <2>2. QED
    BY <2>1, SMT DEF Between
<1>2. desc.blr_type \in BlrTypes /\ slice.blr_type = desc.blr_type
  BY DEF ArrayDescs, Tells
<1>3. CASE desc.blr_type \in {"text", "varying"}
  <2>1. slice.length = n
    BY <1>1, <1>3 DEF Tells
  <2>2. desc.blr_type = "text" => element_stride(desc) = n /\ SrvStride(slice) = n
    BY <1>1, <1>2, <2>1 DEF element_stride, SrvStride
  <2>3. desc.blr_type = "varying" => element_stride(desc) = n + 2 /\ SrvStride(slice) = n + 2
    BY <1>1, <1>2, <2>1 DEF element_stride, SrvStride
  <2>4. QED
    BY <1>1, <1>3, <2>2, <2>3
<1>4. CASE desc.blr_type = "blob_id"
  <2>1. element_stride(desc) = Max({1, n})
    BY <1>1, <1>4 DEF element_stride
  <2>2. {1, n} \subseteq 0..n /\ {1, n} # {}
    BY <1>1
  <2>3. Max({1, n}) \in {1, n}
    BY <2>2, GreatestIs
  <2>4. SrvStride(slice) = 8
    BY <1>2, <1>4 DEF SrvStride
  <2>5. QED
    BY <1>1, <1>4, <2>1, <2>3, <2>4
<1>5. CASE desc.blr_type \notin {"text", "varying", "blob_id"}
  <2>1. element_stride(desc) = SrvStride(slice) /\ SrvStride(slice) \in {1, 2, 4, 8, 16}
    BY <1>2, <1>5 DEF element_stride, SrvStride, BlrTypes
  <2>2. QED
    BY <2>1
<1>6. QED
  BY <1>3, <1>4, <1>5

(* As many elements as there were.                                           *)
LEMMA CountIs ==
    ASSUME NEW k \in Nat, NEW s \in Nat \ {0}, NEW t \in Nat \ {0}, k # 0 => s = t
    PROVE  (k * s) \div t = k
<1>1. CASE k = 0
  <2>1. k * s = 0 /\ 0 \div t = 0
    BY <1>1
  <2>2. QED
    BY <1>1, <2>1
<1>2. CASE k # 0
  <2>1. t * k <= k * t /\ k * t < t * k + t /\ k * t \in Int
    OBVIOUS
  <2>2. (k * t) \div t = k
    BY <2>1, QuotientIs
  <2>3. QED
    BY <1>2, <2>2
<1>3. QED
  BY <1>1, <1>2

(* An array that has elements has a type they can be made for. *)
LEMMA TypeTaken ==
    ASSUME NEW desc \in ArrayDescs, NEW values, NEW charset, TakesAll(desc, values, charset),
           Len(values) # 0
    PROVE  desc.blr_type \notin {"quad", "blob_id"}
<1>1. Len(values) \in Nat /\ 1 \in 1..Len(values)
  BY LenProperties DEF TakesAll
<1>2. Encodes(desc, values[1], charset)
  BY <1>1 DEF TakesAll
<1>3. QED
  BY <1>2 DEF Encodes, ElementKinds

(* The states of an array: what the catalogue says of the column; then its   *)
(* description; then what was written, which the column takes and the server *)
(* holds; then what was read of it.                                          *)
ArrayState(phase, charset, row, desc, sent, stored, back, got) ==
    [phase |-> phase, charset |-> charset, row |-> row, desc |-> desc, sent |-> sent,
     stored |-> stored, back |-> back, got |-> got, left |-> 0]
Listed(desc, sent, charset) == [i \in 1..Len(sent) |-> Found(desc, sent[i], charset)]
Fetched(desc, sent, charset, k) ==
    [i \in 1..Len(sent) |->
        IF i <= k THEN decode_element(desc, Found(desc, sent[i], charset)) ELSE NullValue]
Filling(desc, sent, charset) ==
    TakesAll(desc, sent, charset) /\ Len(sent) = element_count(desc)
ArrInv ==
    LET row == arr.row
        charset == arr.charset
        desc == array_desc(row)
        sent == arr.sent
    IN  /\ row \in Catalogue
        /\ \/ arr = ArrayState("new", charset, row, row, <<>>, <<>>, 0, <<>>)
           \/ arr = ArrayState("described", charset, row, desc, <<>>, <<>>, 0, <<>>)
           \/ /\ Filling(desc, sent, charset) /\ arr.phase \in {"written", "refused"}
              /\ arr = ArrayState(arr.phase, charset, row, desc, sent,
                                  Listed(desc, sent, charset), 0, <<>>)
           \/ /\ Filling(desc, sent, charset) /\ arr.back \in 0..Len(sent)
              /\ arr = ArrayState("read", charset, row, desc, sent, Listed(desc, sent, charset),
                                  arr.back, Fetched(desc, sent, charset, arr.back))

(* A description is that of a column, and the server is told it. *)
LEMMA DescTells ==
    ASSUME NEW row \in Catalogue
    PROVE  /\ array_desc(row) \in ArrayDescs
           /\ Tells(SrvSlice(to_sdl(array_desc(row))), array_desc(row))
<1>1. PICK desc \in ArrayDescs :
          desc = array_desc(row) /\ Len(desc.relation) <= 252 /\ Len(desc.field) <= 252
  <2>1. /\ array_desc(row) \in ArrayDescs
        /\ array_desc(row).relation = row.relation /\ array_desc(row).field = row.field
        /\ Len(row.relation) <= 252 /\ Len(row.field) <= 252
    BY DescType
  <2>2. QED
    BY <2>1
<1>2. Tells(SrvSlice(to_sdl(desc)), desc)
  BY <1>1, SliceTells
<1>3. QED
  BY <1>1, <1>2

(* An array starts new. *)
LEMMA ArrStart == SlicesInit => ArrInv
<1>1. ASSUME SlicesInit
      PROVE  ArrInv
  <2>1. PICK row \in Catalogue, charset \in Charsets :
            arr = ArrayState("new", charset, row, row, <<>>, <<>>, 0, <<>>)
    BY <1>1 DEF SlicesInit, ArrayState
  <2>2. arr.row = row /\ arr.charset = charset
    BY <2>1 DEF ArrayState
  <2>3. QED
    BY <2>1, <2>2 DEF ArrInv
<1>2. QED
  BY <1>1

(* The server reads as many elements as were written, and all the bytes. *)
LEMMA ServerReadsArray ==
    ASSUME NEW desc \in ArrayDescs, NEW slice, Tells(slice, desc), NEW values, NEW charset,
           Filling(desc, values, charset)
    PROVE  LET bytes == FlattenSeq([i \in 1..Len(values) |->
                            encode_element(desc, values[i], charset)])
               read == ReadElements(bytes, slice, slice_len(desc) \div SrvStride(slice))
           IN  /\ read.list = Listed(desc, values, charset)
               /\ Len(bytes) - read.next = 0
<1>1. PICK n \in Nat : n = Len(values) /\ n = element_count(desc)
  BY LenProperties DEF Filling, TakesAll
<1>2. TakesAll(desc, values, charset) /\ n \in 0..Len(values)
  BY <1>1 DEF Filling
<1>3. PICK s \in Nat \ {0}, t \in Nat \ {0} :
          s = element_stride(desc) /\ t = SrvStride(slice) /\ (n # 0 => s = t)
  BY <1>1, <1>2, StridesAgree, TypeTaken
<1>4. (n * s) \div t = n
  BY <1>3, CountIs
<1>5. slice_len(desc) \div SrvStride(slice) = n
  BY <1>1, <1>3, <1>4 DEF slice_len
<1>6. PICK buf : buf = FlattenSeq(ElementsBytes(desc, values, charset, n))
  OBVIOUS
<1>7. Len(buf) \in Nat
  <2>1. PICK parts \in Seq(Seq(Int)) : parts = ElementsBytes(desc, values, charset, n)
    BY <1>2, ElementsBytesType
  <2>2. FlattenSeq(parts) \in Seq(Int)
    BY <2>1, FlattenType
  <2>3. QED
    BY <1>6, <2>1, <2>2, LenProperties
<1>8. ReadElements(buf, slice, n)
          = [list |-> [i \in 1..n |-> Found(desc, values[i], charset)], next |-> Len(buf)]
  BY <1>2, <1>6, ElementsRead DEF Tells
<1>9. buf = FlattenSeq([i \in 1..Len(values) |-> encode_element(desc, values[i], charset)])
  BY <1>1, <1>6 DEF ElementsBytes
<1>10. ReadElements(buf, slice, n).list = Listed(desc, values, charset)
  BY <1>1, <1>8 DEF Listed
<1>11. Len(buf) - ReadElements(buf, slice, n).next = 0
  BY <1>7, <1>8
<1>12. QED
  BY <1>5, <1>9, <1>10, <1>11

(* What the client makes of k elements, by the size it takes them to have.   *)
ReadsBack(desc, slice, values, charset, k) ==
    LET count == element_count(desc)
        bytes == FlattenSeq([i \in 1..k |-> encode_element(desc, values[i], charset)])
        sent == Min({count, (k * SrvStride(slice)) \div element_stride(desc)})
        read == ReadElements(bytes, desc, sent)
    IN  /\ [i \in 1..count |-> IF i <= sent THEN decode_element(desc, read.list[i])
                               ELSE NullValue]
               = Fetched(desc, values, charset, k)
        /\ Len(bytes) - read.next = 0

(* It reads the elements that came, and all their bytes. *)
LEMMA ClientReadsArray ==
    ASSUME NEW desc \in ArrayDescs, NEW slice, Tells(slice, desc), NEW values, NEW charset,
           Filling(desc, values, charset), NEW k \in 0..Len(values)
    PROVE  ReadsBack(desc, slice, values, charset, k)
<1>1. PICK n \in Nat : n = Len(values) /\ n = element_count(desc)
  BY LenProperties DEF Filling, TakesAll
<1>2. TakesAll(desc, values, charset) /\ k \in Nat /\ k \in 0..n
  BY <1>1 DEF Filling
<1>3. PICK s \in Nat \ {0}, t \in Nat \ {0} :
          s = element_stride(desc) /\ t = SrvStride(slice) /\ (n # 0 => s = t)
  BY <1>1, <1>2, StridesAgree, TypeTaken
<1>4. (k * t) \div s = k
  <2>1. k # 0 => t = s
    BY <1>2, <1>3
  <2>2. QED
    BY <1>2, <1>3, <2>1, CountIs
<1>5. Min({element_count(desc), (k * SrvStride(slice)) \div element_stride(desc)}) = k
  <2>1. {n, k} \subseteq 0..n /\ {n, k} # {}
    BY <1>2
  <2>2. Min({n, k}) \in {n, k} /\ \A y \in {n, k} : Min({n, k}) <= y
    BY <2>1, LeastIs
  <2>3. Min({n, k}) = k
    BY <1>2, <2>2
  <2>4. QED
    BY <1>1, <1>3, <1>4, <2>3
<1>6. PICK buf : buf = FlattenSeq(ElementsBytes(desc, values, charset, k))
  OBVIOUS
<1>7. Len(buf) \in Nat
  <2>1. PICK parts \in Seq(Seq(Int)) : parts = ElementsBytes(desc, values, charset, k)
    BY <1>2, ElementsBytesType
  <2>2. FlattenSeq(parts) \in Seq(Int)
    BY <2>1, FlattenType
  <2>3. QED
    BY <1>6, <2>1, <2>2, LenProperties
<1>8. ReadElements(buf, desc, k)
          = [list |-> [i \in 1..k |-> Found(desc, values[i], charset)], next |-> Len(buf)]
  BY <1>2, <1>6, ElementsRead
<1>9. buf = FlattenSeq([i \in 1..k |-> encode_element(desc, values[i], charset)])
  BY <1>6 DEF ElementsBytes
<1>10. [i \in 1..n |-> IF i <= k THEN decode_element(desc, ReadElements(buf, desc, k).list[i])
                       ELSE NullValue]
           = Fetched(desc, values, charset, k)
  <2>1. ASSUME NEW i \in 1..n, i <= k
        PROVE  ReadElements(buf, desc, k).list[i] = Found(desc, values[i], charset)
    <3>1. i \in 1..k
      BY <1>2, <2>1
    <3>2. QED
      BY <1>8, <3>1
  <2>2. QED
    BY <1>1, <2>1 DEF Fetched
<1>11. Len(buf) - ReadElements(buf, desc, k).next = 0
  BY <1>7, <1>8
<1>12. QED
  BY <1>1, <1>5, <1>9, <1>10, <1>11 DEF ReadsBack

(* Every step keeps it. *)
LEMMA ArrStep == ArrInv /\ [SlicesNext]_arr => ArrInv'
<1> SUFFICES ASSUME ArrInv, [SlicesNext]_arr
             PROVE  ArrInv'
  OBVIOUS
<1>1. PICK row, charset, desc, sent :
          /\ row = arr.row /\ charset = arr.charset /\ desc = array_desc(row) /\ sent = arr.sent
          /\ row \in Catalogue
  BY DEF ArrInv
<1>2. desc \in ArrayDescs /\ Tells(SrvSlice(to_sdl(desc)), desc)
  BY <1>1, DescTells
<1> DEFINE New == arr = ArrayState("new", charset, row, row, <<>>, <<>>, 0, <<>>)
           Described == arr = ArrayState("described", charset, row, desc, <<>>, <<>>, 0, <<>>)
           Written(phase) == arr = ArrayState(phase, charset, row, desc, sent,
                                              Listed(desc, sent, charset), 0, <<>>)
           Reads == arr = ArrayState("read", charset, row, desc, sent, Listed(desc, sent, charset),
                                     arr.back, Fetched(desc, sent, charset, arr.back))
<1>3. \/ New
      \/ Described
      \/ Filling(desc, sent, charset) /\ (Written("written") \/ Written("refused"))
      \/ Reads
  BY <1>1 DEF ArrInv
<1>4. CASE UNCHANGED arr
  BY <1>4 DEF ArrInv
<1>5. CASE Describe
  <2>1. New
    BY <1>3, <1>5 DEF Describe, ArrayState
  <2>2. arr' = ArrayState("described", charset, row, desc, <<>>, <<>>, 0, <<>>)
    <3>1. arr' = [arr EXCEPT !.phase = "described", !.desc = desc]
      BY <1>1, <1>5 DEF Describe
    <3>2. QED
      BY <2>1, <3>1 DEF ArrayState
  <2>3. arr'.row = row /\ arr'.charset = charset
    BY <2>2 DEF ArrayState
  <2>4. QED
    BY <1>1, <2>2, <2>3 DEF ArrInv
<1>6. ASSUME NEW values \in ElementLists, WriteArray(values)
      PROVE  ArrInv'
  <2>1. Described
    BY <1>3, <1>6 DEF WriteArray, ArrayState
  <2>2. arr.desc = desc /\ arr.charset = charset
    BY <2>1 DEF ArrayState
  <2>3. Filling(desc, values, charset)
    <3>1. values \in Seq(Elements)
      BY ElementsAssumption
    <3>2. /\ Len(values) = element_count(desc)
          /\ \A i \in 1..Len(values) : Encodes(desc, values[i], charset)
      BY <1>6, <2>2 DEF WriteArray
    <3>3. QED
      BY <3>1, <3>2 DEF Filling, TakesAll
  <2> DEFINE bytes == FlattenSeq([i \in 1..Len(values) |->
                          encode_element(desc, values[i], charset)])
             slice == SrvSlice(to_sdl(desc))
             read == ReadElements(bytes, slice, slice_len(desc) \div SrvStride(slice))
  <2>4. read.list = Listed(desc, values, charset) /\ Len(bytes) - read.next = 0
    BY <1>2, <2>3, ServerReadsArray
  <2>5. arr' = [arr EXCEPT !.phase = "written", !.sent = values, !.stored = read.list,
                           !.left = Len(bytes) - read.next]
    BY <1>6, <2>2 DEF WriteArray
  <2> HIDE DEF bytes, slice, read
  <2>6. arr' = ArrayState("written", charset, row, desc, values, Listed(desc, values, charset),
                          0, <<>>)
    BY <2>1, <2>4, <2>5 DEF ArrayState
  <2>7. arr'.row = row /\ arr'.charset = charset /\ arr'.sent = values /\ arr'.phase = "written"
    BY <2>6 DEF ArrayState
  <2>8. QED
    BY <1>1, <2>3, <2>6, <2>7 DEF ArrInv
<1>7. ASSUME NEW k \in 0..Len(arr.sent), ReadArray(k)
      PROVE  ArrInv'
  <2>1. Filling(desc, sent, charset) /\ Written("written")
    BY <1>3, <1>7 DEF ReadArray, ArrayState
  <2>2. arr.desc = desc /\ arr.charset = charset /\ arr.sent = sent /\ k \in 0..Len(sent)
    BY <1>1, <1>7, <2>1 DEF ArrayState
  <2> DEFINE count == element_count(desc)
             slice == SrvSlice(to_sdl(desc))
             bytes == FlattenSeq([i \in 1..k |-> encode_element(desc, sent[i], charset)])
             came == Min({count, (k * SrvStride(slice)) \div element_stride(desc)})
             read == ReadElements(bytes, desc, came)
             got == [i \in 1..count |-> IF i <= came THEN decode_element(desc, read.list[i])
                                        ELSE NullValue]
  <2>3. got = Fetched(desc, sent, charset, k) /\ Len(bytes) - read.next = 0
    <3>1. k \in 0..Len(sent) /\ Filling(desc, sent, charset)
      BY <2>1, <2>2
    <3>2. PICK s : s = SrvSlice(to_sdl(desc)) /\ Tells(s, desc)
      BY <1>2
    <3>3. ReadsBack(desc, s, sent, charset, k)
      BY <1>2, <3>1, <3>2, ClientReadsArray
    <3>4. QED
      BY <3>2, <3>3 DEF ReadsBack
  <2>4. arr' = [arr EXCEPT !.phase = "read", !.left = Len(bytes) - read.next, !.back = k,
                           !.got = got]
    BY <1>7, <2>2 DEF ReadArray, SentIn
  <2> HIDE DEF count, slice, bytes, came, read, got
  <2>5. arr' = ArrayState("read", charset, row, desc, sent, Listed(desc, sent, charset), k,
                          Fetched(desc, sent, charset, k))
    BY <2>1, <2>3, <2>4 DEF ArrayState
  <2>6. arr'.row = row /\ arr'.charset = charset /\ arr'.sent = sent /\ arr'.back = k
    BY <2>5 DEF ArrayState
  <2>7. QED
    BY <1>1, <2>1, <2>2, <2>5, <2>6 DEF ArrInv
<1>8. CASE ReadRefused
  <2>1. Filling(desc, sent, charset) /\ Written("written")
    BY <1>3, <1>8 DEF ReadRefused, ArrayState
  <2>2. arr' = ArrayState("refused", charset, row, desc, sent, Listed(desc, sent, charset), 0, <<>>)
    BY <1>8, <2>1 DEF ReadRefused, ArrayState
  <2>3. arr'.row = row /\ arr'.charset = charset /\ arr'.sent = sent /\ arr'.phase = "refused"
    BY <2>2 DEF ArrayState
  <2>4. QED
    BY <1>1, <2>1, <2>2, <2>3 DEF ArrInv
<1>9. QED
  BY <1>4, <1>5, <1>6, <1>7, <1>8 DEF SlicesNext

(* In every such state the array has arrived.                                *)
LEMMA ArrInvArrives == ArrInv => ArraysArrive
<1> SUFFICES ASSUME ArrInv
             PROVE  ArraysArrive
  OBVIOUS
<1>1. PICK row, charset, desc, sent :
          /\ row = arr.row /\ charset = arr.charset /\ desc = array_desc(row) /\ sent = arr.sent
          /\ row \in Catalogue
  BY DEF ArrInv
<1>2. desc \in ArrayDescs /\ Tells(SrvSlice(to_sdl(desc)), desc)
  BY <1>1, DescTells
<1> DEFINE exact == \A i \in 1..Len(sent) : Exact(desc, sent[i])
<1>3. ASSUME arr.desc = desc
      PROVE  SdlTellsArray
  <2>1. /\ desc.relation = row.relation /\ desc.field = row.field
        /\ desc.blr_type = row.blr_type /\ desc.scale = Or(row.scale, 0)
        /\ desc.dimensions = [i \in 1..Len(row.bounds) |-> [lower |-> Or(row.bounds[i][1], 1),
                                                            upper |-> Or(row.bounds[i][2], 0)]]
        /\ Len(desc.dimensions) = Len(row.bounds)
    BY <1>1, DescType
  <2>2. PICK slice : slice = SrvSlice(to_sdl(desc)) /\ Tells(slice, desc)
    BY <1>2
  <2>3. slice.subscripts = [i \in 1..Len(row.bounds) |-> i - 1]
    BY <2>1, <2>2 DEF Tells
  <2>4. slice.dimensions = [i \in 1..Len(row.bounds) |-> [lower |-> Or(row.bounds[i][1], 1),
                                                          upper |-> Or(row.bounds[i][2], 0)]]
    BY <2>1, <2>2 DEF Tells
  <2>5. /\ slice.relation = row.relation /\ slice.field = row.field
        /\ slice.blr_type = row.blr_type /\ slice.scale \in {0, Or(row.scale, 0)}
    BY <2>1, <2>2 DEF Tells
  <2>6. QED
    BY <1>1, <1>3, <2>2, <2>3, <2>4, <2>5 DEF SdlTellsArray
<1>4. ASSUME Filling(desc, sent, charset), exact, NEW i \in 1..Len(sent)
      PROVE  /\ Found(desc, sent[i], charset) = Stored(desc, sent[i], charset)
             /\ decode_element(desc, Found(desc, sent[i], charset))
                    = GivenBack(desc, sent[i], charset)
  <2>1. sent[i] \in Elements /\ Encodes(desc, sent[i], charset)
    BY <1>4, ElementOfSeq DEF Filling, TakesAll
  <2>2. sent[i] \in ValueSet
    BY <2>1 DEF Elements
  <2>3. PICK val \in Elements : val = sent[i] /\ val \in ValueSet
    BY <2>1, <2>2
  <2>4. Encodes(desc, val, charset) /\ Exact(desc, val)
    BY <1>4, <2>1, <2>3
  <2>5. Found(desc, val, charset) = Stored(desc, val, charset)
    BY <1>2, <2>4, FoundIsStored
  <2>6. decode_element(desc, Stored(desc, val, charset)) = GivenBack(desc, val, charset)
    BY <1>2, <2>3, <2>4, StoredComesBack
  <2>7. QED
    BY <2>3, <2>5, <2>6
<1>5. ASSUME Filling(desc, sent, charset), exact
      PROVE  Listed(desc, sent, charset) = [i \in 1..Len(sent) |-> Stored(desc, sent[i], charset)]
  BY <1>4, <1>5 DEF Listed
<1>6. ASSUME Filling(desc, sent, charset), exact, NEW k \in 0..Len(sent)
      PROVE  Fetched(desc, sent, charset, k)
                 = [i \in 1..Len(sent) |-> IF i > k THEN NullValue
                                           ELSE GivenBack(desc, sent[i], charset)]
  <2>1. Len(sent) \in Nat
    BY <1>6, LenProperties DEF Filling, TakesAll
  <2>2. \A i \in 1..Len(sent) : (i <= k) <=> ~(i > k)
    BY <2>1
  <2>3. \A i \in 1..Len(sent) : decode_element(desc, Found(desc, sent[i], charset))
                                    = GivenBack(desc, sent[i], charset)
    BY <1>4, <1>6
  <2>4. QED
    BY <2>2, <2>3 DEF Fetched
<1> HIDE DEF exact
<1>7. CASE arr = ArrayState("new", charset, row, row, <<>>, <<>>, 0, <<>>)
  <2>1. arr.phase = "new"
    BY <1>7 DEF ArrayState
  <2>2. QED
    BY <2>1 DEF ArraysArrive
<1>8. CASE arr = ArrayState("described", charset, row, desc, <<>>, <<>>, 0, <<>>)
  <2>1. arr.phase = "described" /\ arr.desc = desc
    BY <1>8 DEF ArrayState
  <2>2. QED
    BY <1>3, <2>1 DEF ArraysArrive
<1>9. CASE /\ Filling(desc, sent, charset) /\ arr.phase \in {"written", "refused"}
           /\ arr = ArrayState(arr.phase, charset, row, desc, sent, Listed(desc, sent, charset),
                               0, <<>>)
  <2>1. arr.desc = desc /\ arr.stored = Listed(desc, sent, charset) /\ arr.left = 0
    BY <1>9 DEF ArrayState
  <2>2. SdlTellsArray
    BY <1>3, <2>1
  <2>3. exact => arr.stored = [i \in 1..Len(arr.sent) |-> Stored(arr.desc, arr.sent[i], arr.charset)]
    BY <1>1, <1>5, <1>9, <2>1
  <2>4. exact <=> \A i \in 1..Len(arr.sent) : Exact(arr.desc, arr.sent[i])
    BY <1>1, <2>1 DEF exact
  <2>5. QED
    BY <1>9, <2>1, <2>2, <2>3, <2>4 DEF ArraysArrive
<1>10. CASE /\ Filling(desc, sent, charset) /\ arr.back \in 0..Len(sent)
            /\ arr = ArrayState("read", charset, row, desc, sent, Listed(desc, sent, charset),
                                arr.back, Fetched(desc, sent, charset, arr.back))
  <2>1. /\ arr.phase = "read" /\ arr.desc = desc /\ arr.left = 0
        /\ arr.got = Fetched(desc, sent, charset, arr.back)
    BY <1>10 DEF ArrayState
  <2>2. SdlTellsArray
    BY <1>3, <2>1
  <2>3. exact => arr.got = [i \in 1..Len(arr.sent) |->
                               IF i > arr.back THEN NullValue
                               ELSE GivenBack(arr.desc, arr.sent[i], arr.charset)]
    BY <1>1, <1>6, <1>10, <2>1
  <2>4. exact <=> \A i \in 1..Len(arr.sent) : Exact(arr.desc, arr.sent[i])
    BY <1>1, <2>1 DEF exact
  <2>5. QED
    BY <2>1, <2>2, <2>3, <2>4 DEF ArraysArrive
<1>11. QED
  BY <1>1, <1>7, <1>8, <1>9, <1>10 DEF ArrInv

(* Whatever the catalogue says of a column and whatever values its elements  *)
(* are given, the server finds the bounds and every element in the slice,    *)
(* and the caller reads them back (array_desc, write_array, read_array).     *)
THEOREM ArraysAlwaysArrive == SlicesSpec => []ArraysArrive
<1>1. SlicesInit => ArrInv
  BY ArrStart
<1>2. ArrInv /\ [SlicesNext]_arr => ArrInv'
  BY ArrStep
<1>3. ArrInv => ArraysArrive
  BY ArrInvArrives
<1>4. QED
  BY <1>1, <1>2, <1>3, PTL DEF SlicesSpec
==============================================================================
