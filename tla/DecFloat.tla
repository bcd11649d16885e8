------------------------------- MODULE DecFloat -------------------------------
(* DECFLOAT(16) and DECFLOAT(34), src/src/decfloat.rs: from a text to the    *)
(* IEEE 754 decimal the server stores, and back.                             *)
(*                                                                           *)
(* A coefficient is its sequence of digits without leading zeros. A text is  *)
(* [negative, special, int, frac, exp], digits before and after the point.   *)
(* The bits of a decimal are their fields: the sign, the five bits of the    *)
(* combination, the low bits of the exponent and the declets.                *)
EXTENDS Integers, Sequences, SequencesExt, FiniteSetsExt

CONSTANTS Texts     \* what callers parse
VARIABLE dec        \* [phase, width, text, val, bits, stored, got]

-------------------------------------------------------------------------------
(* from_str and Display. MaxDigits stands for the range of a u128.           *)
MaxDigits == 38
Digits(n) == [i \in 1..n |-> 0]
Stripped(d) ==
    LET first == Min({i \in 1..Len(d) : d[i] # 0} \cup {Len(d)})
    IN  SubSeq(d, first, Len(d))
finite(negative, coefficient, exponent) ==
    [kind |-> "Finite", negative |-> negative, coefficient |-> coefficient, exponent |-> exponent]
special(kind, negative) ==
    [kind |-> kind, negative |-> negative, coefficient |-> <<0>>, exponent |-> 0]
Invalid == special("Invalid", FALSE)

from_str(t) ==
    LET digits == t.int \o t.frac
    IN  CASE t.special = "Infinity" -> special("Infinity", t.negative)
          [] t.special = "NaN" -> special("NaN", FALSE)
          [] digits = <<>> \/ Len(Stripped(digits)) > MaxDigits -> Invalid
          [] OTHER -> finite(t.negative, Stripped(digits), t.exp - Len(t.frac))

Plain(negative, int, frac) ==
    [negative |-> negative, special |-> "", int |-> int, frac |-> frac, exp |-> 0]
render_finite(v) ==
    LET d == v.coefficient
        point == Len(d) + v.exponent
    IN  IF v.exponent >= 0 THEN Plain(v.negative, d \o Digits(v.exponent), <<>>)
        ELSE IF point > 0 THEN Plain(v.negative, SubSeq(d, 1, point), SubSeq(d, point + 1, Len(d)))
        ELSE Plain(v.negative, <<0>>, Digits(-point) \o d)
to_string(v) ==
    IF v.kind = "Finite" THEN render_finite(v)
    ELSE [Plain(v.negative /\ v.kind = "Infinity", <<>>, <<>>) EXCEPT !.special = v.kind]

-------------------------------------------------------------------------------
(* Three digits in ten bits.                                                 *)
Bit(x, k) == (x \div 2 ^ k) % 2
FromBits(bits) == FoldLeft(LAMBDA acc, b : 2 * acc + b, 0, bits)
bcd_to_dpd(d2, d1, d0) ==
    LET b == Bit(d2, 2)   c == Bit(d2, 1)   d == Bit(d2, 0)
        f == Bit(d1, 2)   g == Bit(d1, 1)   h == Bit(d1, 0)
        j == Bit(d0, 2)   k == Bit(d0, 1)   m == Bit(d0, 0)
        aei == << Bit(d2, 3), Bit(d1, 3), Bit(d0, 3) >>
    IN  FromBits(
            CASE aei = <<0, 0, 0>> -> <<b, c, d, f, g, h, 0, j, k, m>>
              [] aei = <<0, 0, 1>> -> <<b, c, d, f, g, h, 1, 0, 0, m>>
              [] aei = <<0, 1, 0>> -> <<b, c, d, j, k, h, 1, 0, 1, m>>
              [] aei = <<0, 1, 1>> -> <<b, c, d, 1, 0, h, 1, 1, 1, m>>
              [] aei = <<1, 0, 0>> -> <<j, k, d, f, g, h, 1, 1, 0, m>>
              [] aei = <<1, 0, 1>> -> <<f, g, d, 0, 1, h, 1, 1, 1, m>>
              [] aei = <<1, 1, 0>> -> <<j, k, d, 0, 0, h, 1, 1, 1, m>>
              [] OTHER -> <<0, 0, d, 1, 1, h, 1, 1, 1, m>>)
DpdOf == [n \in 0..999 |-> bcd_to_dpd(n \div 100, (n \div 10) % 10, n % 10)]
(* The inverse of the encoder; a code it never makes is read as 0.           *)
DPD_DECODE == [code \in 0..1023 |-> Max({0} \cup {n \in 0..999 : DpdOf[n] = code})]

(* What the server reads in a declet, from the standard's table.             *)
SrvDeclet(code) ==
    LET b == [i \in 0..9 |-> Bit(code, 9 - i)]
        High(k) == 8 + b[k]
        Top(last) == 4 * b[0] + 2 * b[1] + b[last]
        Mid(last) == 4 * b[3] + 2 * b[4] + b[last]
    IN  CASE b[6] = 0 -> <<Top(2), Mid(5), 4 * b[7] + 2 * b[8] + b[9]>>
          [] <<b[7], b[8]>> = <<0, 0>> -> <<Top(2), Mid(5), High(9)>>
          [] <<b[7], b[8]>> = <<0, 1>> -> <<Top(2), High(5), Mid(9)>>
          [] <<b[7], b[8]>> = <<1, 0>> -> <<High(2), Mid(5), Top(9)>>
          [] <<b[3], b[4]>> = <<0, 0>> -> <<High(2), High(5), Top(9)>>
          [] <<b[3], b[4]>> = <<0, 1>> -> <<High(2), Top(5), High(9)>>
          [] <<b[3], b[4]>> = <<1, 0>> -> <<Top(2), High(5), High(9)>>
          [] OTHER -> <<High(2), High(5), High(9)>>

-------------------------------------------------------------------------------
(* encode and decode.                                                        *)
ecbits(width) == IF width = 64 THEN 8 ELSE 12
declets(width) == IF width = 64 THEN 5 ELSE 11
bias(width) == IF width = 64 THEN 398 ELSE 6176
total_digits(width) == 3 * declets(width) + 1
Refusal == <<>>

(* The exponents that encode admits.                                         *)
max_biased(width) == 2 ^ (ecbits(width) + 2) - 1
(* Mutant: the first digit is 8 or 9 in the bits of 0 to 7.                  *)
combination_plain(msd, top2) == top2 * 8 + (msd % 8)

combination(msd, top2) == IF msd <= 7 THEN top2 * 8 + msd ELSE 24 + top2 * 2 + (msd % 2)

encode(v, width) ==
    LET biased == v.exponent + bias(width)
        padded == Digits(total_digits(width) - Len(v.coefficient)) \o v.coefficient
        Declet(i) == padded[3 * i - 1] * 100 + padded[3 * i] * 10 + padded[3 * i + 1]
    IN  IF Len(v.coefficient) > total_digits(width) \/ biased \notin 0..max_biased(width)
        THEN Refusal
        ELSE << [sign |-> v.negative, combo |-> combination(padded[1], biased \div 2 ^ ecbits(width)),
                 econ |-> biased % 2 ^ ecbits(width),
                 coefficient |-> [i \in 1..declets(width) |-> DpdOf[Declet(i)]]] >>
special_bits(v, width) ==
    [sign |-> v.negative, combo |-> IF v.kind = "Infinity" THEN 30 ELSE 31, econ |-> 0,
     coefficient |-> Digits(declets(width))]
encode_bits(v, width) ==
    IF v.kind = "Finite" THEN encode(v, width) ELSE << special_bits(v, width) >>

Decoded(bits, width, Declet(_)) ==
    LET large == bits.combo \div 8 = 3
        msd == IF large THEN 8 + (bits.combo % 2) ELSE bits.combo % 8
        top2 == IF large THEN (bits.combo \div 2) % 4 ELSE bits.combo \div 8
    IN  IF bits.combo >= 30
        THEN special(IF bits.combo = 30 THEN "Infinity" ELSE "NaN", bits.sign)
        ELSE finite(bits.sign,
                    Stripped(<< msd >> \o FlattenSeq([i \in 1..declets(width) |->
                                                         Declet(bits.coefficient[i])])),
                    top2 * 2 ^ ecbits(width) + bits.econ - bias(width))
dpd_to_int(code) ==
    LET n == DPD_DECODE[code] IN <<n \div 100, (n \div 10) % 10, n % 10>>
decode(bits, width) == Decoded(bits, width, dpd_to_int)
SrvDecode(bits, width) == Decoded(bits, width, SrvDeclet)

-------------------------------------------------------------------------------
DecFloatInit ==
    \E t \in Texts, width \in {64, 128} :
        dec = [phase |-> "parsed", width |-> width, val |-> from_str(t), text |-> t,
               bits |-> Refusal, stored |-> Invalid, got |-> Invalid]

(* As a parameter, and back in a row of a cursor.                            *)
SendDecFloat ==
    LET bits == encode_bits(dec.val, dec.width)
    IN  /\ dec.phase = "parsed" /\ dec.val # Invalid
        /\ bits # Refusal
        /\ dec' = [dec EXCEPT !.phase = "sent", !.bits = bits,
                              !.stored = SrvDecode(bits[1], dec.width)]
RefuseDecFloat ==
    /\ dec.phase = "parsed" /\ dec.val # Invalid
    /\ encode_bits(dec.val, dec.width) = Refusal
    /\ dec' = [dec EXCEPT !.phase = "refused"]
FetchDecFloat ==
    /\ dec.phase = "sent"
    /\ dec' = [dec EXCEPT !.phase = "fetched", !.got = decode(dec.bits[1], dec.width)]
DecFloatNext == SendDecFloat \/ RefuseDecFloat \/ FetchDecFloat

-------------------------------------------------------------------------------
(* Reference: what the text says, digit by digit, and what a width can hold. *)
Meant(t) ==
    CASE t.special # "" -> special(t.special, t.negative /\ t.special = "Infinity")
      [] OTHER -> finite(t.negative, Stripped(t.int \o t.frac), t.exp - Len(t.frac))
FormatHolds(v, width) ==
    \/ v.kind # "Finite"
    \/ /\ Len(v.coefficient) <= total_digits(width)
       /\ v.exponent + bias(width) \in 0..(3 * 2 ^ ecbits(width) - 1)
Zero(v) == v.coefficient = <<0>>
Trimmed(v) ==
    LET last == Max({i \in 1..Len(v.coefficient) : v.coefficient[i] # 0} \cup {1})
    IN  finite(v.negative, SubSeq(v.coefficient, 1, last),
               v.exponent + Len(v.coefficient) - last)
SameNumber(a, b) ==
    IF a.kind # "Finite" \/ Zero(a) THEN a.kind = b.kind /\ a.negative = b.negative
                                        /\ a.coefficient = b.coefficient
    ELSE Trimmed(a) = Trimmed(b)

(* A decimal arrives as it was written: every digit, the exponent with its   *)
(* trailing zeros, infinities and NaN, in the server that decodes by the     *)
(* standard and in the client that decodes by the inverted table; what the   *)
(* format holds is not refused, and the text of what was fetched is the same *)
(* number. The exponents that encode admits beyond the format's own are left *)
(* out. from_str, encode, decode, render_finite.                             *)
DecFloatsArrive ==
    /\ dec.val # Invalid => dec.val = Meant(dec.text)
    /\ (dec.phase \in {"sent", "fetched"} /\ FormatHolds(dec.val, dec.width)) =>
           dec.stored = dec.val
    /\ dec.phase = "refused" => ~FormatHolds(dec.val, dec.width)
    /\ (dec.phase = "fetched" /\ FormatHolds(dec.val, dec.width)) =>
           LET again == from_str(to_string(dec.got))
           IN  dec.got = dec.val /\ (again = Invalid \/ SameNumber(again, dec.val))
==============================================================================
