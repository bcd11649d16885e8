------------------------------ MODULE MCSession ------------------------------
(* A connection for TLC: handles are model values, alike but for names. *)
EXTENDS Session, TLC

Symmetric == Permutations(Tx) \cup Permutations(Stmt)

(* Backwards from the end or from the current row, and past the last row. *)
MCOffsets == {-2, 4}
==============================================================================
