-------------------------------- MODULE Pool --------------------------------
(***************************************************************************)
(* The connection pool of src/src/pool.rs: PermitPool (a counting          *)
(* semaphore made of a Mutex and a Condvar), Pool::get, the queue of idle  *)
(* connections and the guard PooledConnection.                             *)
(*                                                                         *)
(* Threads interleave at the granularity of the code's critical sections:  *)
(* one action per section under the mutex `available`, one per section     *)
(* under the mutex `idle`, one for the connection attempt, which holds no  *)
(* lock.  A thread inside a call is at the point pc[t]:                    *)
(*                                                                         *)
(*   "out"         not in a call and without a connection                  *)
(*   "acquire"     PermitPool::acquire entered, the mutex not yet taken    *)
(*   "waiting"     blocked in Condvar::wait or wait_timeout                *)
(*   "woken"       notified, timed out or woken spuriously; it has the     *)
(*                 mutex to take and the condition to test again           *)
(*   "permit"      has a permit, about to look at the idle queue           *)
(*   "connecting"  found the queue empty, inside Connection::connect       *)
(*   "using"       holds a PooledConnection                                *)
(*   "releasing"   its connection is returned or closed, the Permit is     *)
(*                 about to be dropped                                     *)
(*                                                                         *)
(* A connection's identity is a member of Conn, used again once closed:    *)
(* nothing refers to a closed connection.                                  *)
(***************************************************************************)
EXTENDS Naturals, Sequences, FiniteSets

CONSTANTS Thread,    \* the threads that share the pool
          Conn,      \* identities of connections
          NoConn,    \* the absence of a connection
          MaxSize,   \* PoolConfig::max_size
          Timed      \* acquisition_timeout is Some (TRUE) or None (FALSE)

ASSUME PoolAssumption ==
    /\ IsFiniteSet(Thread)
    /\ MaxSize \in Nat
    /\ Timed \in BOOLEAN
    /\ NoConn \notin Conn

VARIABLES available,  \* PermitPool::available, guarded by its mutex
          idle,       \* PoolState::idle, guarded by its mutex
          pc,         \* where each thread is
          conn,       \* the connection a thread has, or is opening
          expired,    \* the deadline of the thread's acquire has passed
          broken,     \* connections whose FbStream::broken flag is set
          failed      \* history: connections on which an operation met an
                      \* I/O error

vars == <<available, idle, pc, conn, expired, broken, failed>>

Acquiring == {"acquire", "waiting", "woken"}
Holding   == {"permit", "connecting", "using", "releasing"}

At(p) == {t \in Thread : pc[t] = p}

(* The threads that own a Permit, and those that own a connection. *)
Holders   == {t \in Thread : pc[t] \in Holding}
Committed == {t \in Thread : conn[t] # NoConn}

IdleConns == {idle[i] : i \in 1..Len(idle)}
OpenConns == IdleConns \cup {conn[t] : t \in Committed}

Goto(t, p) == pc' = [pc EXCEPT ![t] = p]

Init ==
    /\ available = MaxSize
    /\ idle = <<>>
    /\ pc = [t \in Thread |-> "out"]
    /\ conn = [t \in Thread |-> NoConn]
    /\ expired = [t \in Thread |-> FALSE]
    /\ broken = {}
    /\ failed = {}

------------------------------------------------------------------------------
(* PermitPool.                                                             *)

(* Pool::get is called. *)
BeginGet(t) ==
    /\ pc[t] = "out"
    /\ Goto(t, "acquire")
    /\ expired' = [expired EXCEPT ![t] = FALSE]
    /\ UNCHANGED <<available, idle, conn, broken, failed>>

(* The clock passes the deadline of a call.  The deadline is computed with *)
(* the mutex held, but a timeout of zero has passed by the first test.     *)
Expire(t) ==
    /\ Timed
    /\ pc[t] \in Acquiring
    /\ ~expired[t]
    /\ expired' = [expired EXCEPT ![t] = TRUE]
    /\ UNCHANGED <<available, idle, pc, conn, broken, failed>>

(* Mutant: `if *available == 0` in place of `while`. *)
TakePermitAfterAnyWake(t) ==
    /\ \/ pc[t] = "acquire" /\ available > 0
       \/ pc[t] = "woken"
    /\ available' = available - 1
    /\ Goto(t, "permit")
    /\ UNCHANGED <<idle, conn, expired, broken, failed>>

(* The mutex is free and the thread tests its condition: for the first     *)
(* time, or again after Condvar::wait returned.                            *)
TakePermit(t) ==
    /\ pc[t] \in {"acquire", "woken"}
    /\ available > 0
    /\ available' = available - 1
    /\ Goto(t, "permit")
    /\ UNCHANGED <<idle, conn, expired, broken, failed>>

(* Mutant: every turn of the loop waits for the whole timeout again. *)
WaitAnewForPermit(t) ==
    /\ pc[t] \in {"acquire", "woken"}
    /\ available = 0
    /\ Goto(t, "waiting")
    /\ expired' = [expired EXCEPT ![t] = FALSE]
    /\ UNCHANGED <<available, idle, conn, broken, failed>>

WaitForPermit(t) ==
    /\ pc[t] \in {"acquire", "woken"}
    /\ available = 0
    /\ ~expired[t]
    /\ Goto(t, "waiting")
    /\ UNCHANGED <<available, idle, conn, expired, broken, failed>>

(* Err(Error::Timeout) *)
GiveUp(t) ==
    /\ pc[t] \in {"acquire", "woken"}
    /\ available = 0
    /\ expired[t]
    /\ Goto(t, "out")
    /\ UNCHANGED <<available, idle, conn, expired, broken, failed>>

(* wait_timeout returns because its time is over. *)
Elapse(t) ==
    /\ pc[t] = "waiting"
    /\ expired[t]
    /\ Goto(t, "woken")
    /\ UNCHANGED <<available, idle, conn, expired, broken, failed>>

(* A wait may return although nobody notified it (std::sync::Condvar). *)
SpuriousWake(t) ==
    /\ pc[t] = "waiting"
    /\ Goto(t, "woken")
    /\ UNCHANGED <<available, idle, conn, expired, broken, failed>>

(* Mutant: notify only when the pool was exhausted. *)
ReleaseNotifyingFromZero(t, p) ==
    /\ available' = available + 1
    /\ IF At("waiting") = {} \/ available > 0
       THEN Goto(t, p)
       ELSE \E w \in At("waiting") :
                pc' = [pc EXCEPT ![t] = p, ![w] = "woken"]

(* Mutant: no notify_one. *)
ReleaseSilently(t, p) ==
    /\ available' = available + 1
    /\ Goto(t, p)

(* PermitPool::release: the increment and notify_one in one section.  The  *)
(* thread goes on to p; one of the waiting threads, if any, is notified.   *)
ReleasePermit(t, p) ==
    /\ available' = available + 1
    /\ IF At("waiting") = {}
       THEN Goto(t, p)
       ELSE \E w \in At("waiting") :
                pc' = [pc EXCEPT ![t] = p, ![w] = "woken"]

------------------------------------------------------------------------------
(* Pool::get, with the permit.                                             *)

(* Mutant: front() in place of pop_front(). *)
PeekIdle(t) ==
    /\ pc[t] = "permit"
    /\ idle # <<>>
    /\ Head(idle) \notin broken
    /\ conn' = [conn EXCEPT ![t] = Head(idle)]
    /\ Goto(t, "using")
    /\ UNCHANGED <<available, idle, expired, broken, failed>>

(* pop_idle gives a connection: one that passes conn_is_alive is reused, a *)
(* dead one is closed and the loop goes on with the permit.                *)
PopIdle(t) ==
    /\ pc[t] = "permit"
    /\ idle # <<>>
    /\ idle' = Tail(idle)
    /\ IF Head(idle) \in broken
       THEN /\ broken' = broken \ {Head(idle)}
            /\ failed' = failed \ {Head(idle)}
            /\ UNCHANGED <<pc, conn>>
       ELSE /\ conn' = [conn EXCEPT ![t] = Head(idle)]
            /\ Goto(t, "using")
            /\ UNCHANGED <<broken, failed>>
    /\ UNCHANGED <<available, expired>>

(* pop_idle gives None: Connection::connect starts on a fresh connection. *)
StartConnect(t) ==
    /\ pc[t] = "permit"
    /\ idle = <<>>
    /\ \E c \in Conn \ OpenConns : conn' = [conn EXCEPT ![t] = c]
    /\ Goto(t, "connecting")
    /\ UNCHANGED <<available, idle, expired, broken, failed>>

ConnectOk(t) ==
    /\ pc[t] = "connecting"
    /\ Goto(t, "using")
    /\ UNCHANGED <<available, idle, conn, expired, broken, failed>>

(* Mutant: the permit is forgotten when the connection attempt fails. *)
ConnectFailsKeepingPermit(t) ==
    /\ pc[t] = "connecting"
    /\ conn' = [conn EXCEPT ![t] = NoConn]
    /\ Goto(t, "out")
    /\ UNCHANGED <<available, idle, expired, broken, failed>>

(* The `?` leaves get: the permit is dropped, hence released. *)
ConnectFails(t) ==
    /\ pc[t] = "connecting"
    /\ conn' = [conn EXCEPT ![t] = NoConn]
    /\ Goto(t, "releasing")
    /\ UNCHANGED <<available, idle, expired, broken, failed>>

------------------------------------------------------------------------------
(* PooledConnection.                                                       *)

(* An operation of the user meets an I/O error, or finds the socket closed *)
(* by the server while it rested in the pool: FbStream sets the flag.  An  *)
(* operation that succeeds leaves the pool's state alone.                  *)
OperationFails(t) ==
    /\ pc[t] = "using"
    /\ broken' = broken \cup {conn[t]}
    /\ failed' = failed \cup {conn[t]}
    /\ UNCHANGED <<available, idle, pc, conn, expired>>

(* PooledConnection::discard closes the connection; Drop then finds None. *)
Discard(t) ==
    /\ pc[t] = "using"
    /\ broken' = broken \ {conn[t]}
    /\ failed' = failed \ {conn[t]}
    /\ conn' = [conn EXCEPT ![t] = NoConn]
    /\ Goto(t, "releasing")
    /\ UNCHANGED <<available, idle, expired>>

(* Mutant: no is_healthy test. *)
ReturnAnyConn(t) ==
    /\ idle' = Append(idle, conn[t])
    /\ conn' = [conn EXCEPT ![t] = NoConn]
    /\ UNCHANGED <<broken, failed>>

(* return_conn closes an unhealthy connection and queues a healthy one.    *)
ReturnConn(t) ==
    /\ IF conn[t] \in broken
       THEN /\ UNCHANGED idle
            /\ broken' = broken \ {conn[t]}
            /\ failed' = failed \ {conn[t]}
       ELSE /\ idle' = Append(idle, conn[t])
            /\ UNCHANGED <<broken, failed>>
    /\ conn' = [conn EXCEPT ![t] = NoConn]

(* Mutant: the permit is dropped first. *)
DropPermitFirst(t) ==
    \/ /\ pc[t] = "using"
       /\ ReleasePermit(t, "releasing")
       /\ UNCHANGED <<idle, conn, expired, broken, failed>>
    \/ /\ pc[t] = "releasing"
       /\ conn[t] # NoConn
       /\ ReturnConn(t)
       /\ Goto(t, "out")
       /\ UNCHANGED <<available, expired>>

(* PooledConnection::drop, in its two steps: the connection is returned,   *)
(* then the permit is dropped.                                             *)
DropGuard(t) ==
    \/ /\ pc[t] = "using"
       /\ ReturnConn(t)
       /\ Goto(t, "releasing")
       /\ UNCHANGED <<available, expired>>
    \/ /\ pc[t] = "releasing"
       /\ ReleasePermit(t, "out")
       /\ UNCHANGED <<idle, conn, expired, broken, failed>>

------------------------------------------------------------------------------
GetSteps(t) ==
    TakePermit(t) \/ WaitForPermit(t) \/ GiveUp(t) \/ Elapse(t)
        \/ PopIdle(t) \/ StartConnect(t)

Connecting(t) == ConnectOk(t) \/ ConnectFails(t)

Next ==
    \E t \in Thread :
        \/ BeginGet(t) \/ Expire(t) \/ SpuriousWake(t)
        \/ GetSteps(t) \/ Connecting(t)
        \/ OperationFails(t) \/ Discard(t) \/ DropGuard(t)

Spec == Init /\ [][Next]_vars

------------------------------------------------------------------------------
(* Properties.                                                             *)

TypeOK ==
    /\ available \in Nat
    /\ idle \in Seq(Conn)
    /\ pc \in [Thread -> {"out"} \cup Acquiring \cup Holding]
    /\ conn \in [Thread -> Conn \cup {NoConn}]
    /\ expired \in [Thread -> BOOLEAN]
    /\ broken \subseteq Conn
    /\ failed \subseteq Conn

(* No path of get, discard or drop loses a permit or releases one twice:   *)
(* the counter of PermitPool and the permits owned by threads always make  *)
(* up max_size.                                                            *)
PermitsConserved == available + Cardinality(Holders) = MaxSize

(* PoolConfig::max_size is the greatest number of sockets open at a time,  *)
(* idle, in use and being opened together.  A permit is released after the *)
(* connection is in the queue, never before, or a thread that takes it     *)
(* could open one socket too many.                                         *)
ConnectionsBounded == Len(idle) + Cardinality(Committed) <= MaxSize

(* While a thread is blocked in the Condvar, every free permit has a woken *)
(* thread that will test the condition: no release is lost between a       *)
(* notify_one, a timeout and a thread that barges in.                      *)
NoLostWakeup ==
    At("waiting") # {} => available <= Cardinality(At("woken"))

(* A connection has one owner: it is in the idle queue once, or one thread *)
(* has it, never both; and one on which an operation met an I/O error is   *)
(* never back in the queue (the comment in Pool::return_conn).             *)
OneOwner ==
    /\ \A i, j \in 1..Len(idle) : idle[i] = idle[j] => i = j
    /\ \A t \in Committed : conn[t] \notin IdleConns
    /\ \A t, u \in Committed : conn[t] = conn[u] => t = u
    /\ IdleConns \cap failed = {}

(* The pool implements what it promises. *)
Limit == INSTANCE ConnectionLimit
             WITH resting <- Len(idle), lent <- Cardinality(Committed)
LimitSpec == Limit!Spec

------------------------------------------------------------------------------
(* Liveness.                                                               *)

(* A runnable thread gets the mutexes and runs; the clock advances.  No    *)
(* user needs to return its connection and no server to answer.            *)
ThreadsRun ==
    \A t \in Thread :
        /\ WF_vars(GetSteps(t))
        /\ WF_vars(pc[t] = "releasing" /\ DropGuard(t))
        /\ WF_vars(Expire(t))

(* The users are done with their connections some day and every connection *)
(* attempt succeeds or fails.                                              *)
UsersAndServersProgress ==
    \A t \in Thread : WF_vars(DropGuard(t) \/ Discard(t)) /\ WF_vars(Connecting(t))

TimedSpec   == Spec /\ ThreadsRun
PatientSpec == Spec /\ ThreadsRun /\ UsersAndServersProgress

(* With an acquisition_timeout the wait for a permit ends, whatever the    *)
(* other users do.                                                         *)
AcquireEnds ==
    \A t \in Thread : pc[t] \in Acquiring ~> pc[t] \notin Acquiring

(* Without a timeout a blocked thread gets its permit, unless other        *)
(* threads call get again and again for ever: a release reaches a waiter,  *)
(* and a waiter that loses the race for the permit is notified again.      *)
WaiterServed ==
    \A t \in Thread :
        \/ []<>(\E u \in Thread \ {t} : pc[u] = "acquire")
        \/ (pc[t] = "waiting") ~> (pc[t] = "permit")

==============================================================================
