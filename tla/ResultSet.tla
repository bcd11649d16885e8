------------------------------ MODULE ResultSet ------------------------------
(***************************************************************************)
(* What a caller may rely on when it reads the rows of a SELECT            *)
(* (Statement::fetch, fetch_scroll and close): every fetch delivers the    *)
(* row after the one it stands on, and the end is announced only to a      *)
(* caller who stands on the last row or behind it.  A jump to the first,   *)
(* the last or a numbered row lands on it.  A jump relative to the current *)
(* row (next, prior, relative) starts from the last row that was read      *)
(* ahead, fewer than FetchSize rows after the caller's, or, once the end   *)
(* was read, from behind the last row.  So it is right only when nothing   *)
(* is read ahead: after open, a jump, the end, or a batch used up.         *)
(* After a jump that failed the position is not known.                     *)
(***************************************************************************)
EXTENDS Scrolling

CONSTANTS Stmt,        \* the prepared statements
          FetchSize,   \* rows asked for at a time
          Closed, Unknown   \* positions: no cursor, a failed jump

VARIABLES at,     \* the place the caller stands on
          over,   \* the next fetch returns None
          ahead,  \* how far the reading is ahead of the caller
          asked   \* the jump the last call made, NoMove if it made none

Set(s, p, o, k) ==
    /\ at' = [at EXCEPT ![s] = p]
    /\ over' = [over EXCEPT ![s] = o]
    /\ ahead' = [ahead EXCEPT ![s] = k]

Init ==
    /\ at = [s \in Stmt |-> Closed]
    /\ over = [s \in Stmt |-> FALSE]
    /\ ahead = [s \in Stmt |-> 0]
    /\ asked = NoMove

Open(s) == Set(s, 0, FALSE, 0)

Close(s) == Set(s, Closed, FALSE, 0)

(* How far the reading is ahead of the next row: one step less than of     *)
(* this one or, when nothing is read ahead, by the rest of a new batch.    *)
AheadOfNext(s) ==
    IF ahead[s] > 0 THEN {ahead[s] - 1} ELSE 0..(FetchSize - 1)

(* A row is delivered; it may be known already that it is the last one.    *)
Advance(s) ==
    /\ at[s] \in 0..(NRows - 1)
    /\ \E o \in BOOLEAN, k \in AheadOfNext(s) :
         Set(s, at[s] + 1, o /\ at[s] + 1 = NRows, k)

End(s) ==
    /\ at[s] \in {NRows, NRows + 1}
    /\ Set(s, NRows + 1, TRUE, 0)

(* A batch is broken off; what arrived of it is read ahead. *)
Break(s) ==
    /\ at[s] # Closed
    /\ ahead[s] = 0
    /\ \E k \in 0..FetchSize : Set(s, at[s], FALSE, k)

Jump(s, m) ==
    /\ at[s] # Closed
    /\ m \in Fixed \/ at[s] # Unknown
    /\ Set(s, Landing(at[s] + ahead[s], m), FALSE, 0)

JumpFromUnknown(s, m) ==
    /\ at[s] = Unknown
    /\ m \notin Fixed
    /\ \E p \in Place : Set(s, p, FALSE, 0)

(* A jump fails, or rows are read from an unknown position. *)
Wander(s) ==
    /\ at[s] # Closed
    /\ \E o \in BOOLEAN : Set(s, Unknown, o, 0)

(* The connection is replaced. *)
Restart ==
    /\ at' = [s \in Stmt |-> Closed]
    /\ over' = [s \in Stmt |-> FALSE]
    /\ ahead' = [s \in Stmt |-> 0]

Next ==
    \/ /\ asked' = NoMove
       /\ \/ UNCHANGED <<at, over, ahead>>
          \/ \E s \in Stmt : Open(s) \/ Close(s) \/ Advance(s) \/ End(s)
                            \/ Break(s) \/ Wander(s)
          \/ Restart
    \/ \E m \in Move : /\ asked' = m
                       /\ \E s \in Stmt : Jump(s, m) \/ JumpFromUnknown(s, m)

Spec == Init /\ [][Next]_<<at, over, ahead, asked>>
==============================================================================
