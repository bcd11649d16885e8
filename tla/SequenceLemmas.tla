---------------------------- MODULE SequenceLemmas ----------------------------
(***************************************************************************)
(* Lemmas about sequences joined, picked and kept, with the induction they *)
(* need: the library's induction theorems take a predicate, which the      *)
(* provers cannot instantiate, and these take a set.                       *)
(***************************************************************************)
EXTENDS Selections, Integers, FiniteSets, FiniteSetTheorems, FunctionTheorems,
        SequenceTheorems, TLAPS

(* Induction over the numbers, for a set instead of a predicate: a number   *)
(* missing from S would make n |-> n + 1 an injection of a finite set into  *)
(* itself that is not onto.                                                 *)
LEMMA NatSetInduction ==
    ASSUME NEW S, 0 \in S, \A n \in Nat : n \in S => n + 1 \in S
    PROVE  Nat \subseteq S
<1> SUFFICES ASSUME NEW m \in Nat, m \notin S
             PROVE  FALSE
  OBVIOUS
<1> DEFINE U == {n \in 0..m : n \in S}
           f == [n \in U |-> n + 1]
<1>1. IsFiniteSet(U)
  <2>1. IsFiniteSet(0..m)
    BY FS_Interval
  <2>2. U \in SUBSET (0..m)
    OBVIOUS
  <2> HIDE DEF U
  <2>3. QED
    BY <2>1, <2>2, FS_Subset
<1>2. f \in [U -> U]
  OBVIOUS
<1>3. f \in Injection(U, U)
  BY <1>2 DEF Injection, IsInjective
<1>4. f \in Surjection(U, U)
  BY <1>1, <1>3, FS_Injection
<1>5. \E n \in U : f[n] = 0
  <2>1. 0 \in U
    OBVIOUS
  <2> HIDE DEF U, f
  <2>2. QED
    BY <2>1, <1>4 DEF Surjection
<1>6. QED
  BY <1>5

-------------------------------------------------------------------------------
(* The recursive function of FlattenSeq exists, and is the only one.         *)
Joins(f, seqs, n) ==
    f = [i \in 1..n |-> IF i = 1 THEN seqs[i] ELSE f[i - 1] \o seqs[i]]

(* A value of that function. *)
LEMMA JoinsAt ==
    ASSUME NEW f, NEW seqs, NEW n \in Nat, Joins(f, seqs, n), NEW i \in 1..n
    PROVE  f[i] = IF i = 1 THEN seqs[i] ELSE f[i - 1] \o seqs[i]
  BY DEF Joins

(* It exists for every number of sequences. *)
LEMMA JoinsExists ==
    ASSUME NEW seqs, NEW n \in Nat
    PROVE  \E f : Joins(f, seqs, n)
<1> DEFINE Done == {k \in Nat : \E f : Joins(f, seqs, k)}
<1>1. 0 \in Done
  <2>1. Joins([i \in 1..0 |-> 0], seqs, 0)
    BY DEF Joins
  <2>2. QED
    BY <2>1
<1>2. ASSUME NEW k \in Nat, k \in Done
      PROVE  k + 1 \in Done
  <2>1. PICK f : Joins(f, seqs, k)
    BY <1>2
  <2> DEFINE g == [i \in 1..(k + 1) |->
                      IF i <= k THEN f[i]
                      ELSE IF i = 1 THEN seqs[i] ELSE f[i - 1] \o seqs[i]]
  <2>2. Joins(g, seqs, k + 1)
    <3>1. ASSUME NEW i \in 1..(k + 1)
          PROVE  g[i] = IF i = 1 THEN seqs[i] ELSE g[i - 1] \o seqs[i]
      <4>1. CASE i <= k
        <5>1. f[i] = IF i = 1 THEN seqs[i] ELSE f[i - 1] \o seqs[i]
          BY <2>1, <4>1, JoinsAt
        <5>2. g[i] = f[i] /\ (i # 1 => g[i - 1] = f[i - 1])
          BY <4>1
        <5>3. QED
          BY <5>1, <5>2
      <4>2. CASE i = k + 1
        BY <4>2
      <4>3. QED
        BY <4>1, <4>2
    <3>2. QED
      BY <3>1 DEF Joins
  <2>3. QED
    BY <2>2
<1> HIDE DEF Done
<1>3. Nat \subseteq Done
  BY <1>1, <1>2, NatSetInduction
<1>4. QED
  BY <1>3 DEF Done

(* Sequences with a common beginning join alike that far. *)
LEMMA JoinsUnique ==
    ASSUME NEW s, NEW t, NEW f, NEW g, NEW m \in Nat, NEW n \in Nat, n <= m,
           Joins(f, s, m), Joins(g, t, n), \A i \in 1..n : s[i] = t[i]
    PROVE  \A i \in 1..n : f[i] = g[i]
<1> DEFINE Done == {k \in Nat : k \in 1..n => f[k] = g[k]}
<1>1. 0 \in Done
  OBVIOUS
<1>2. ASSUME NEW k \in Nat, k \in Done
      PROVE  k + 1 \in Done
  <2> SUFFICES ASSUME k + 1 \in 1..n
               PROVE  f[k + 1] = g[k + 1]
    OBVIOUS
  <2>1. f[k + 1] = IF k + 1 = 1 THEN s[k + 1] ELSE f[k + 1 - 1] \o s[k + 1]
    BY JoinsAt
  <2>2. g[k + 1] = IF k + 1 = 1 THEN t[k + 1] ELSE g[k + 1 - 1] \o t[k + 1]
    BY JoinsAt
  <2>3. k + 1 - 1 = k /\ s[k + 1] = t[k + 1] /\ (k # 0 => f[k] = g[k])
    BY <1>2
  <2>4. QED
    BY <2>1, <2>2, <2>3
<1> HIDE DEF Done
<1>3. Nat \subseteq Done
  BY <1>1, <1>2, NatSetInduction
<1>4. QED
  BY <1>3 DEF Done

(* What FlattenSeq chooses is such a function. *)
LEMMA FlattenIsJoins ==
    ASSUME NEW seqs, Len(seqs) \in Nat \ {0}
    PROVE  \E f : Joins(f, seqs, Len(seqs)) /\ FlattenSeq(seqs) = f[Len(seqs)]
<1> DEFINE F == CHOOSE f : f = [i \in 1..Len(seqs) |-> IF i = 1 THEN seqs[i] ELSE f[i - 1] \o seqs[i]]
<1>1. Joins(F, seqs, Len(seqs))
  BY JoinsExists DEF Joins
<1>2. FlattenSeq(seqs) = F[Len(seqs)]
  BY DEF FlattenSeq
<1>3. QED
  BY <1>1, <1>2

(* Nothing to join. *)
LEMMA FlattenEmpty == FlattenSeq(<<>>) = <<>>
  BY DEF FlattenSeq

(* One sequence more to join. *)
LEMMA FlattenAppend ==
    ASSUME NEW S, NEW seqs \in Seq(S), NEW e \in S
    PROVE  FlattenSeq(Append(seqs, e)) = IF seqs = <<>> THEN e ELSE FlattenSeq(seqs) \o e
<1> DEFINE n == Len(seqs)
           longer == Append(seqs, e)
<1>1. /\ n \in Nat /\ Len(longer) = n + 1 /\ longer[n + 1] = e
      /\ \A i \in 1..n : longer[i] = seqs[i]
  BY AppendProperties, LenProperties
<1> HIDE DEF longer
<1>2. PICK f : Joins(f, longer, n + 1) /\ FlattenSeq(longer) = f[n + 1]
  BY <1>1, FlattenIsJoins
<1>3. f[n + 1] = IF n + 1 = 1 THEN e ELSE f[n] \o e
  BY <1>1, <1>2, JoinsAt, n + 1 - 1 = n
<1>4. CASE n = 0
  BY <1>2, <1>3, <1>4, seqs = <<>> DEF longer
<1>5. CASE n # 0
  <2>1. PICK g : Joins(g, seqs, n) /\ FlattenSeq(seqs) = g[n]
    BY <1>1, <1>5, FlattenIsJoins
  <2>2. f[n] = g[n]
    BY <1>1, <1>2, <1>5, <2>1, JoinsUnique
  <2>3. seqs # <<>>
    BY <1>5
  <2>4. QED
    BY <1>2, <1>3, <1>5, <2>1, <2>2, <2>3 DEF longer
<1>6. QED
  BY <1>4, <1>5

(* Induction over the sequences of a set, by their length. *)
LEMMA SeqSetInduction ==
    ASSUME NEW S, NEW P, <<>> \in P,
           \A s \in Seq(S), e \in S : s \in P => Append(s, e) \in P
    PROVE  Seq(S) \subseteq P
<1> DEFINE Done == {k \in Nat : \A s \in Seq(S) : Len(s) = k => s \in P}
<1>1. 0 \in Done
  <2>1. ASSUME NEW s \in Seq(S), Len(s) = 0
        PROVE  s = <<>>
    BY <2>1, EmptySeq
  <2>2. QED
    BY <2>1
<1>2. ASSUME NEW k \in Nat, k \in Done
      PROVE  k + 1 \in Done
  <2> SUFFICES ASSUME NEW s \in Seq(S), Len(s) = k + 1
               PROVE  s \in P
    OBVIOUS
  <2>1. s # <<>>
    BY EmptySeq
  <2>2. PICK t \in Seq(S), e \in S : s = Append(t, e)
    BY <2>1, SequenceEmptyOrAppend
  <2>3. Len(t) = k
    BY <2>2, AppendProperties, LenProperties
  <2>4. QED
    BY <1>2, <2>2, <2>3
<1> HIDE DEF Done
<1>3. Nat \subseteq Done
  BY <1>1, <1>2, NatSetInduction
<1>4. QED
  BY <1>3, LenProperties DEF Done

(* Joined sequences are a sequence of the same elements. *)
LEMMA FlattenType ==
    ASSUME NEW S, NEW seqs \in Seq(Seq(S))
    PROVE  FlattenSeq(seqs) \in Seq(S)
<1> DEFINE P == {s \in Seq(Seq(S)) : FlattenSeq(s) \in Seq(S)}
<1>1. <<>> \in P
  BY FlattenEmpty, EmptySeq
<1>2. ASSUME NEW s \in Seq(Seq(S)), NEW e \in Seq(S), s \in P
      PROVE  Append(s, e) \in P
  <2>1. Append(s, e) \in Seq(Seq(S))
    BY AppendProperties
  <2>2. FlattenSeq(Append(s, e)) \in {e, FlattenSeq(s) \o e}
    BY FlattenAppend
  <2>3. FlattenSeq(s) \o e \in Seq(S)
    BY <1>2, ConcatProperties
  <2>4. QED
    BY <2>1, <2>2, <2>3
<1> HIDE DEF P
<1>3. QED
  BY <1>1, <1>2, SeqSetInduction DEF P

(* With types, the empty sequence is no exception. *)
LEMMA FlattenSnoc ==
    ASSUME NEW S, NEW seqs \in Seq(Seq(S)), NEW e \in Seq(S)
    PROVE  FlattenSeq(Append(seqs, e)) = FlattenSeq(seqs) \o e
<1>1. CASE seqs = <<>>
  BY <1>1, FlattenAppend, FlattenEmpty, ConcatEmptySeq
<1>2. CASE seqs # <<>>
  BY <1>2, FlattenAppend
<1>3. QED
  BY <1>1, <1>2

-------------------------------------------------------------------------------
(* What is picked of a sequence by its places.                               *)
Picked(s, T) == [i \in 1..Len(s) |-> IF i \in T THEN <<s[i]>> ELSE <<>>]

(* Where joins sequences of one element or none. *)
LEMMA PickedType ==
    ASSUME NEW S, NEW s \in Seq(S), NEW T
    PROVE  Picked(s, T) \in Seq(Seq(S)) /\ Len(Picked(s, T)) = Len(s)
<1>1. Len(s) \in Nat /\ \A i \in 1..Len(s) : s[i] \in S
  BY ElementOfSeq, LenProperties
<1>2. \A x \in S : <<x>> \in Seq(S)
  OBVIOUS
<1>3. <<>> \in Seq(S)
  BY EmptySeq
<1>4. \A i \in 1..Len(s) : (IF i \in T THEN <<s[i]>> ELSE <<>>) \in Seq(S)
  BY <1>1, <1>2, <1>3
<1>5. Picked(s, T) \in [1..Len(s) -> Seq(S)]
  BY <1>4 DEF Picked
<1>6. QED
  BY <1>1, <1>5

(* Where, with its argument named. *)
LEMMA WhereIsFlat == ASSUME NEW s, NEW T PROVE Where(s, T) = FlattenSeq(Picked(s, T))
  BY DEF Where, Picked

(* What is picked has the elements of the sequence. *)
LEMMA WhereType ==
    ASSUME NEW S, NEW s \in Seq(S), NEW T
    PROVE  Where(s, T) \in Seq(S)
  BY WhereIsFlat, PickedType, FlattenType

(* Nothing to pick from. *)
LEMMA WhereEmpty == \A T : Where(<<>>, T) = <<>>
  BY FlattenEmpty DEF Where

(* An element more is picked if its place is. *)
LEMMA WhereAppend ==
    ASSUME NEW S, NEW s \in Seq(S), NEW e \in S, NEW T
    PROVE  Where(Append(s, e), T)
               = IF Len(s) + 1 \in T THEN Append(Where(s, T), e) ELSE Where(s, T)
<1> DEFINE n == Len(s)
           last == IF n + 1 \in T THEN <<e>> ELSE <<>>
<1>1. /\ n \in Nat /\ Append(s, e) \in Seq(S)
      /\ Len(Append(s, e)) = n + 1 /\ Append(s, e)[n + 1] = e
      /\ \A i \in 1..n : Append(s, e)[i] = s[i]
  BY AppendProperties, LenProperties
<1>2. last \in Seq(S)
  BY EmptySeq
<1>3. Picked(Append(s, e), T) = Append(Picked(s, T), last)
  <2>1. /\ Picked(s, T) \in Seq(Seq(S)) /\ Len(Picked(s, T)) = n
        /\ Picked(Append(s, e), T) \in Seq(Seq(S)) /\ Len(Picked(Append(s, e), T)) = n + 1
    BY <1>1, PickedType
  <2>2. /\ Append(Picked(s, T), last) \in Seq(Seq(S))
        /\ Len(Append(Picked(s, T), last)) = n + 1
        /\ \A i \in 1..n : Append(Picked(s, T), last)[i] = Picked(s, T)[i]
        /\ Append(Picked(s, T), last)[n + 1] = last
    BY <1>2, <2>1, AppendProperties
  <2>3. ASSUME NEW i \in 1..(n + 1)
        PROVE  Picked(Append(s, e), T)[i] = Append(Picked(s, T), last)[i]
    <3>1. Picked(Append(s, e), T)[i] = IF i \in T THEN <<Append(s, e)[i]>> ELSE <<>>
      BY <1>1 DEF Picked
    <3>2. CASE i \in 1..n
      <4>1. Picked(s, T)[i] = IF i \in T THEN <<s[i]>> ELSE <<>>
        BY <3>2 DEF Picked
      <4>2. QED
        BY <1>1, <2>2, <3>1, <3>2, <4>1
    <3>3. CASE i = n + 1
      <4>1. Append(Picked(s, T), last)[i] = last
        BY <2>2, <3>3
      <4>2. Append(s, e)[i] = e
        BY <1>1, <3>3
      <4>3. QED
        BY <3>1, <3>3, <4>1, <4>2
    <3>4. i \in 1..n \/ i = n + 1
      BY <1>1
    <3> HIDE DEF last, n
    <3>5. QED
      BY <3>2, <3>3, <3>4
  <2> HIDE DEF last
  <2>4. QED
    BY <2>1, <2>2, <2>3, SeqEqual
<1>4. Where(Append(s, e), T) = Where(s, T) \o last
  <2> HIDE DEF last
  <2>1. QED
    BY <1>2, <1>3, PickedType, FlattenSnoc, WhereIsFlat
<1>5. Where(s, T) \in Seq(S)
  BY WhereType
<1>6. QED
  BY <1>4, <1>5, ConcatEmptySeq, AppendIsConcat

(* Picking every place picks the sequence. *)
LEMMA WhereAll ==
    ASSUME NEW S, NEW s \in Seq(S), NEW T, 1..Len(s) \subseteq T
    PROVE  Where(s, T) = s
<1> DEFINE P == {t \in Seq(S) : \A U : 1..Len(t) \subseteq U => Where(t, U) = t}
<1>1. <<>> \in P
  BY WhereEmpty, EmptySeq
<1>2. ASSUME NEW t \in Seq(S), NEW e \in S, t \in P
      PROVE  Append(t, e) \in P
  <2> SUFFICES ASSUME NEW U, 1..Len(Append(t, e)) \subseteq U
               PROVE  Where(Append(t, e), U) = Append(t, e)
    BY AppendProperties
  <2>1. Len(Append(t, e)) = Len(t) + 1 /\ Len(t) \in Nat
    BY AppendProperties, LenProperties
  <2>2. Where(t, U) = t
    BY <1>2, <2>1
  <2>3. QED
    BY <2>1, <2>2, WhereAppend
<1> HIDE DEF P
<1>3. s \in P
  BY <1>1, <1>2, SeqSetInduction
<1>4. QED
  BY <1>3 DEF P

(* What was picked, by its places: they grow. *)
Places(h, s, T) ==
    LET w == Where(s, T)
    IN  /\ h \in [1..Len(w) -> 1..Len(s)]
        /\ \A k \in 1..Len(w) : h[k] \in T /\ w[k] = s[h[k]]
        /\ \A k, l \in 1..Len(w) : k < l => h[k] < h[l]

(* Each element picked is one at a place of T, in the order of places. *)
LEMMA WherePlaces ==
    ASSUME NEW S, NEW s \in Seq(S), NEW T
    PROVE  \E h : Places(h, s, T)
<1> DEFINE P == {t \in Seq(S) : \E h : Places(h, t, T)}
<1>1. <<>> \in P
  <2>1. Places([k \in {} |-> 0], <<>>, T)
    BY WhereEmpty, EmptySeq DEF Places
  <2>2. QED
    BY <2>1, EmptySeq
<1>2. ASSUME NEW t \in Seq(S), NEW e \in S, t \in P
      PROVE  Append(t, e) \in P
  <2> DEFINE u == Append(t, e)
             w == Where(t, T)
             n == Len(t)
  <2>1. PICK h : Places(h, t, T)
    BY <1>2
  <2>2. /\ u \in Seq(S) /\ Len(u) = n + 1 /\ u[n + 1] = e /\ n \in Nat
        /\ \A i \in 1..n : u[i] = t[i]
    BY AppendProperties, LenProperties
  <2>3. w \in Seq(S) /\ Len(w) \in Nat
    BY WhereType, LenProperties
  <2>4. CASE n + 1 \notin T
    <3>1. Where(u, T) = w
      BY <2>4, WhereAppend
    <3> HIDE DEF u
    <3>2. Places(h, u, T)
      BY <2>1, <2>2, <2>3, <3>1 DEF Places
    <3>3. QED
      BY <2>2, <3>2 DEF u
  <2>5. CASE n + 1 \in T
    <3> DEFINE m == Len(w)
               g == [k \in 1..(m + 1) |-> IF k <= m THEN h[k] ELSE n + 1]
    <3>1. Where(u, T) = Append(w, e)
      BY <2>5, WhereAppend
    <3>2. /\ Len(Append(w, e)) = m + 1 /\ Append(w, e)[m + 1] = e
          /\ \A k \in 1..m : Append(w, e)[k] = w[k]
      BY <2>3, AppendProperties
    <3>3. \A k \in 1..m : h[k] \in 1..n /\ h[k] \in T /\ w[k] = t[h[k]]
      BY <2>1 DEF Places
    <3>4. \A k, l \in 1..m : k < l => h[k] < h[l]
      BY <2>1 DEF Places
    <3> HIDE DEF u, w, n
    <3>5. g \in [1..(m + 1) -> 1..(n + 1)]
      BY <2>2, <2>3, <3>3
    <3>6. \A k \in 1..(m + 1) : g[k] \in T /\ Append(w, e)[k] = u[g[k]]
      <4>1. ASSUME NEW k \in 1..m
            PROVE  g[k] \in T /\ Append(w, e)[k] = u[g[k]]
        <5>1. g[k] = h[k] /\ u[h[k]] = t[h[k]]
          BY <2>2, <2>3, <3>3
        <5>2. QED
          BY <3>2, <3>3, <5>1
      <4>2. g[m + 1] = n + 1
        BY <2>3
      <4>3. g[m + 1] \in T /\ Append(w, e)[m + 1] = u[g[m + 1]]
        BY <2>2, <2>5, <3>2, <4>2
      <4>4. \A k \in 1..(m + 1) : k \in 1..m \/ k = m + 1
        BY <2>3
      <4> HIDE DEF g, m
      <4>5. QED
        BY <4>1, <4>3, <4>4
    <3>7. \A k, l \in 1..(m + 1) : k < l => g[k] < g[l]
      BY <2>2, <2>3, <3>3, <3>4
    <3> HIDE DEF g
    <3>8. Places(g, u, T)
      BY <2>2, <3>1, <3>2, <3>5, <3>6, <3>7 DEF Places
    <3>9. QED
      BY <2>2, <3>8 DEF u
  <2>6. QED
    BY <2>4, <2>5
<1> HIDE DEF P
<1>3. s \in P
  BY <1>1, <1>2, SeqSetInduction
<1>4. QED
  BY <1>3 DEF P

-------------------------------------------------------------------------------
(* Joining joins, and joining nothing.                                       *)
LEMMA FlattenConcat ==
    ASSUME NEW S, NEW a \in Seq(Seq(S)), NEW b \in Seq(Seq(S))
    PROVE  FlattenSeq(a \o b) = FlattenSeq(a) \o FlattenSeq(b)
<1> DEFINE P == {c \in Seq(Seq(S)) : FlattenSeq(a \o c) = FlattenSeq(a) \o FlattenSeq(c)}
<1>0. <<>> \in Seq(Seq(S)) /\ FlattenSeq(a) \in Seq(S)
  BY EmptySeq, FlattenType
<1>1. <<>> \in P
  BY <1>0, FlattenEmpty, ConcatEmptySeq
<1>2. ASSUME NEW c \in Seq(Seq(S)), NEW e \in Seq(S), c \in P
      PROVE  Append(c, e) \in P
  <2>1. a \o Append(c, e) = Append(a \o c, e)
    <3>1. <<e>> \in Seq(Seq(S)) /\ a \o c \in Seq(Seq(S))
      BY ConcatProperties
    <3>2. Append(c, e) = c \o <<e>> /\ Append(a \o c, e) = (a \o c) \o <<e>>
      BY <3>1, AppendIsConcat
    <3>3. QED
      BY <3>1, <3>2, ConcatAssociative
  <2>2. FlattenSeq(Append(a \o c, e)) = FlattenSeq(a \o c) \o e
    BY ConcatProperties, FlattenSnoc
  <2>3. FlattenSeq(a \o c) = FlattenSeq(a) \o FlattenSeq(c)
    BY <1>2
  <2>4. (FlattenSeq(a) \o FlattenSeq(c)) \o e = FlattenSeq(a) \o (FlattenSeq(c) \o e)
    BY <1>0, FlattenType, ConcatAssociative
  <2>5. FlattenSeq(Append(c, e)) = FlattenSeq(c) \o e /\ Append(c, e) \in Seq(Seq(S))
    BY FlattenSnoc, AppendProperties
  <2>6. QED
    BY <2>1, <2>2, <2>3, <2>4, <2>5
<1> HIDE DEF P
<1>3. b \in P
  BY <1>1, <1>2, SeqSetInduction
<1>4. QED
  BY <1>3 DEF P

(* A sequence by itself. *)
LEMMA FlattenOne ==
    ASSUME NEW S, NEW e \in Seq(S)
    PROVE  FlattenSeq(<<e>>) = e
<1>1. <<>> \in Seq(Seq(S)) /\ <<e>> = Append(<<>>, e)
  BY EmptySeq
<1>2. QED
  BY <1>1, FlattenAppend

(* Empty sequences, however many. *)
LEMMA FlattenNothing ==
    ASSUME NEW seqs \in Seq({<<>>})
    PROVE  FlattenSeq(seqs) = <<>>
<1> DEFINE P == {s \in Seq({<<>>}) : FlattenSeq(s) = <<>>}
<1>1. <<>> \in P
  BY EmptySeq, FlattenEmpty
<1>2. ASSUME NEW s \in Seq({<<>>}), NEW e \in {<<>>}, s \in P
      PROVE  Append(s, e) \in P
  <2>1. Append(s, e) \in Seq({<<>>}) /\ e = <<>>
    BY AppendProperties
  <2>2. FlattenSeq(Append(s, e)) \in {e, FlattenSeq(s) \o e}
    BY FlattenAppend
  <2>3. <<>> \o <<>> = <<>>
    BY EmptySeq, ConcatEmptySeq
  <2>4. QED
    BY <1>2, <2>1, <2>2, <2>3
<1> HIDE DEF P
<1>3. seqs \in P
  BY <1>1, <1>2, SeqSetInduction
<1>4. QED
  BY <1>3 DEF P

-------------------------------------------------------------------------------
(* What is kept of a sequence, element by element.                           *)
Kept(s, V) == [i \in 1..Len(s) |-> IF s[i] \in V THEN <<s[i]>> ELSE <<>>]

(* Keep joins sequences of one element or none. *)
LEMMA KeptType ==
    ASSUME NEW S, NEW s \in Seq(S), NEW V
    PROVE  Kept(s, V) \in Seq(Seq(S)) /\ Len(Kept(s, V)) = Len(s)
<1>1. Len(s) \in Nat /\ \A i \in 1..Len(s) : s[i] \in S
  BY ElementOfSeq, LenProperties
<1>2. \A x \in S : <<x>> \in Seq(S)
  OBVIOUS
<1>3. <<>> \in Seq(S)
  BY EmptySeq
<1>4. \A i \in 1..Len(s) : (IF s[i] \in V THEN <<s[i]>> ELSE <<>>) \in Seq(S)
  BY <1>1, <1>2, <1>3
<1>5. Kept(s, V) \in [1..Len(s) -> Seq(S)]
  BY <1>4 DEF Kept
<1>6. QED
  BY <1>1, <1>5

(* Keep, with its argument named. *)
LEMMA KeepIsFlat == ASSUME NEW s, NEW V PROVE Keep(s, V) = FlattenSeq(Kept(s, V))
  BY DEF Keep, Kept

(* What is kept has the elements of the sequence. *)
LEMMA KeepType ==
    ASSUME NEW S, NEW s \in Seq(S), NEW V
    PROVE  Keep(s, V) \in Seq(S)
  BY KeepIsFlat, KeptType, FlattenType

(* Nothing to keep. *)
LEMMA KeepEmpty == \A V : Keep(<<>>, V) = <<>>
  BY FlattenEmpty DEF Keep

(* What is kept of two sequences is what is kept of each. *)
LEMMA KeepConcat ==
    ASSUME NEW S, NEW s \in Seq(S), NEW t \in Seq(S), NEW V
    PROVE  Keep(s \o t, V) = Keep(s, V) \o Keep(t, V)
<1> DEFINE st == s \o t
           a == Kept(s, V)
           b == Kept(t, V)
           c == Kept(st, V)
           m == Len(s)
           n == Len(t)
<1>1. /\ m \in Nat /\ n \in Nat /\ st \in Seq(S) /\ Len(st) = m + n
      /\ \A i \in 1..(m + n) : st[i] = IF i <= m THEN s[i] ELSE t[i - m]
  BY ConcatProperties, LenProperties
<1>2. /\ a \in Seq(Seq(S)) /\ Len(a) = m
      /\ b \in Seq(Seq(S)) /\ Len(b) = n
      /\ c \in Seq(Seq(S)) /\ Len(c) = m + n
  BY <1>1, KeptType
<1>3. /\ \A i \in 1..m : a[i] = IF s[i] \in V THEN <<s[i]>> ELSE <<>>
      /\ \A i \in 1..n : b[i] = IF t[i] \in V THEN <<t[i]>> ELSE <<>>
      /\ \A i \in 1..(m + n) : c[i] = IF st[i] \in V THEN <<st[i]>> ELSE <<>>
  BY <1>1 DEF Kept
<1> HIDE DEF a, b, c, st, m, n
<1>4. /\ a \o b \in Seq(Seq(S)) /\ Len(a \o b) = m + n
      /\ \A i \in 1..(m + n) : (a \o b)[i] = IF i <= m THEN a[i] ELSE b[i - m]
  BY <1>2, ConcatProperties
<1>5. ASSUME NEW i \in 1..(m + n)
      PROVE  c[i] = (a \o b)[i]
  <2>1. CASE i <= m
    <3>1. i \in 1..m
      BY <1>1, <2>1
    <3>2. QED
      BY <1>1, <1>3, <1>4, <2>1, <3>1
  <2>2. CASE ~(i <= m)
    <3>1. i - m \in 1..n
      BY <1>1, <2>2
    <3>2. QED
      BY <1>1, <1>3, <1>4, <2>2, <3>1
  <2>3. QED
    BY <2>1, <2>2
<1>6. c = a \o b
  BY <1>2, <1>4, <1>5, SeqEqual
<1>7. FlattenSeq(c) = FlattenSeq(a) \o FlattenSeq(b)
  BY <1>2, <1>6, FlattenConcat
<1>8. QED
  BY <1>7, KeepIsFlat DEF a, b, c, st

(* Everything is kept. *)
LEMMA KeepAll ==
    ASSUME NEW S, NEW s \in Seq(S), NEW V, S \subseteq V
    PROVE  Keep(s, V) = s
<1>1. \A i \in 1..Len(s) : s[i] \in V
  BY ElementOfSeq
<1>2. Kept(s, V) = Picked(s, 1..Len(s))
  BY <1>1 DEF Kept, Picked
<1>3. QED
  BY <1>2, KeepIsFlat, WhereIsFlat, WhereAll

(* What is kept of joined sequences is what is kept of each, joined.         *)
KeepEach(seqs, V) == [i \in 1..Len(seqs) |-> Keep(seqs[i], V)]

(* What is kept of each sequence is a sequence of its elements. *)
LEMMA KeepEachType ==
    ASSUME NEW S, NEW a \in Seq(Seq(S)), NEW V
    PROVE  /\ KeepEach(a, V) \in Seq(Seq(S)) /\ Len(KeepEach(a, V)) = Len(a)
           /\ \A i \in 1..Len(a) : KeepEach(a, V)[i] = Keep(a[i], V)
<1> DEFINE T == Seq(S)
           n == Len(a)
<1>1. n \in Nat /\ \A i \in 1..n : Keep(a[i], V) \in T
  BY ElementOfSeq, LenProperties, KeepType
<1>2. KeepEach(a, V) = [i \in 1..n |-> Keep(a[i], V)]
  BY DEF KeepEach
<1> HIDE DEF T, n
<1>3. KeepEach(a, V) \in Seq(T) /\ Len(KeepEach(a, V)) = n
  BY <1>1, <1>2
<1>4. QED
  BY <1>2, <1>3 DEF T, n

(* Keeping and joining, in either order. *)
LEMMA KeepFlatten ==
    ASSUME NEW S, NEW seqs \in Seq(Seq(S)), NEW V
    PROVE  Keep(FlattenSeq(seqs), V) = FlattenSeq(KeepEach(seqs, V))
<1> DEFINE All(a) == KeepEach(a, V)
           P == {a \in Seq(Seq(S)) : Keep(FlattenSeq(a), V) = FlattenSeq(All(a))}
<1>1. <<>> \in P
  <2>1. <<>> \in Seq(Seq(S)) /\ All(<<>>) = <<>>
    BY EmptySeq DEF KeepEach
  <2> HIDE DEF All
  <2>2. QED
    BY <2>1, FlattenEmpty, KeepEmpty
<1>2. ASSUME NEW a \in Seq(Seq(S))
      PROVE  /\ All(a) \in Seq(Seq(S)) /\ Len(All(a)) = Len(a)
             /\ \A i \in 1..Len(a) : All(a)[i] = Keep(a[i], V)
  BY KeepEachType
<1>3. ASSUME NEW a \in Seq(Seq(S)), NEW e \in Seq(S), a \in P
      PROVE  Append(a, e) \in P
  <2> DEFINE ae == Append(a, e)
             k == Keep(e, V)
  <2>1. /\ Len(a) \in Nat /\ ae \in Seq(Seq(S)) /\ Len(ae) = Len(a) + 1
        /\ \A i \in 1..Len(a) : ae[i] = a[i]
        /\ ae[Len(a) + 1] = e
    BY AppendProperties, LenProperties
  <2>2. k \in Seq(S) /\ k = Keep(e, V)
    BY KeepType
  <2>3. Keep(FlattenSeq(a), V) = FlattenSeq(All(a)) /\ FlattenSeq(a) \in Seq(S)
    BY <1>3, FlattenType
  <2>4. /\ All(ae) \in Seq(Seq(S)) /\ Len(All(ae)) = Len(a) + 1
        /\ \A i \in 1..(Len(a) + 1) : All(ae)[i] = Keep(ae[i], V)
    BY <1>2, <2>1
  <2>5. /\ All(a) \in Seq(Seq(S)) /\ Len(All(a)) = Len(a)
        /\ \A i \in 1..Len(a) : All(a)[i] = Keep(a[i], V)
    BY <1>2
  <2> HIDE DEF All, P
  <2>6. /\ Append(All(a), k) \in Seq(Seq(S)) /\ Len(Append(All(a), k)) = Len(a) + 1
        /\ \A i \in 1..Len(a) : Append(All(a), k)[i] = All(a)[i]
        /\ Append(All(a), k)[Len(a) + 1] = k
    BY <2>2, <2>5, AppendProperties
  <2>7. \A i \in 1..(Len(a) + 1) : i \in 1..Len(a) \/ i = Len(a) + 1
    BY <2>1
  <2> HIDE DEF ae, k
  <2>8. \A i \in 1..(Len(a) + 1) : All(ae)[i] = Append(All(a), k)[i]
    BY <2>1, <2>2, <2>4, <2>5, <2>6, <2>7
  <2>9. All(ae) = Append(All(a), k)
    BY <2>4, <2>6, <2>8, SeqEqual
  <2>10. FlattenSeq(All(ae)) = FlattenSeq(All(a)) \o k
    BY <2>2, <2>5, <2>9, FlattenSnoc
  <2>11. Keep(FlattenSeq(ae), V) = Keep(FlattenSeq(a), V) \o k
    <3>1. FlattenSeq(ae) = FlattenSeq(a) \o e
      BY FlattenSnoc DEF ae
    <3> DEFINE x == FlattenSeq(a)
    <3>2. x \in Seq(S) /\ e \in Seq(S)
      BY <2>3
    <3> HIDE DEF x
    <3>3. Keep(x \o e, V) = Keep(x, V) \o Keep(e, V)
      BY <3>2, KeepConcat
    <3>4. QED
      BY <2>2, <3>1, <3>3 DEF x
  <2>12. QED
    BY <2>1, <2>3, <2>10, <2>11 DEF P, ae
<1> HIDE DEF P
<1>4. seqs \in P
  BY <1>1, <1>3, SeqSetInduction
<1>5. QED
  BY <1>4 DEF P
===============================================================================
