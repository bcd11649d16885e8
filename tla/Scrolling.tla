------------------------------ MODULE Scrolling -------------------------------
(* Positions in a result set, and where a jump of Statement::fetch_scroll    *)
(* (src/src/statement.rs) lands: rows are numbered from 1, 0 stands before   *)
(* the first and NRows + 1 after the last.                                   *)
EXTENDS Integers

CONSTANTS NRows,    \* rows in the result of every SELECT
          Offsets   \* the offsets callers give

ASSUME ScrollingAssumption == NRows \in Nat \ {0} /\ Offsets \subseteq Int

Row == 1..NRows
Place == 0..(NRows + 1)

(* A direction and an offset, which only two directions use. *)
Bare(direction) == [direction |-> direction, n |-> 0]
Move == {Bare(d) : d \in {"next", "prior", "first", "last"}}
        \cup [direction : {"absolute", "relative"}, n : Offsets]
NoMove == Bare("none")

(* Where these land does not depend on where the cursor stands. *)
Fixed == {m \in Move : m.direction \in {"first", "last", "absolute"}}

Within(p) == IF p < 0 THEN 0 ELSE IF p > NRows + 1 THEN NRows + 1 ELSE p

(* Numbered rows count from 1, or from -1 backwards. *)
Landing(p, m) ==
    CASE m.direction = "next"     -> Within(p + 1)
      [] m.direction = "prior"    -> Within(p - 1)
      [] m.direction = "first"    -> 1
      [] m.direction = "last"     -> NRows
      [] m.direction = "absolute" -> Within(IF m.n < 0 THEN NRows + 1 + m.n ELSE m.n)
      [] m.direction = "relative" -> Within(p + m.n)
===============================================================================
