--------------------------- MODULE ConnectionLimit ---------------------------
(***************************************************************************)
(* What the connection pool promises of the server's sockets, and nothing  *)
(* of how: PoolConfig::max_size bounds the number open at any time, those  *)
(* that rest in the pool and those a user has together.                    *)
(***************************************************************************)
EXTENDS Naturals

CONSTANT MaxSize    \* PoolConfig::max_size

VARIABLES resting,  \* how many connections wait in the pool
          lent      \* how many a user has, or waits to see opened

limitVars == <<resting, lent>>

Init == resting = 0 /\ lent = 0

(* A new socket is opened only below the limit. *)
Open ==
    /\ resting + lent < MaxSize
    /\ lent' = lent + 1
    /\ UNCHANGED resting

Reuse ==
    /\ resting > 0
    /\ resting' = resting - 1
    /\ lent' = lent + 1

GiveBack ==
    /\ lent > 0
    /\ resting' = resting + 1
    /\ lent' = lent - 1

Close ==
    /\ lent > 0
    /\ lent' = lent - 1
    /\ UNCHANGED resting

(* A connection found dead in the pool is dropped. *)
Evict ==
    /\ resting > 0
    /\ resting' = resting - 1
    /\ UNCHANGED lent

Next == Open \/ Reuse \/ GiveBack \/ Close \/ Evict

Spec == Init /\ [][Next]_limitVars
==============================================================================
