------------------------------ MODULE Selections ------------------------------
(***************************************************************************)
(* Parts of a sequence, in its order.                                      *)
(***************************************************************************)
EXTENDS Sequences, SequencesExt

(* The elements of s at the places T. *)
Where(s, T) == FlattenSeq([i \in 1..Len(s) |-> IF i \in T THEN <<s[i]>> ELSE <<>>])

(* The elements of s that are in V. *)
Keep(s, V) == FlattenSeq([i \in 1..Len(s) |-> IF s[i] \in V THEN <<s[i]>> ELSE <<>>])
===============================================================================
