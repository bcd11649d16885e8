------------------------------ MODULE PoolProofs ------------------------------
(***************************************************************************)
(* Theorems about the pool for any finite set of threads, any set of       *)
(* connections and any max_size, with and without a timeout.               *)
(***************************************************************************)
EXTENDS Pool, FiniteSetTheorems, SequenceTheorems, TLAPS

(* A thread has a connection exactly from the start of the attempt to the  *)
(* drop of its guard: what Append puts in the queue is a connection.       *)
ConnAtPoint ==
    \A t \in Thread : conn[t] # NoConn <=> pc[t] \in {"connecting", "using"}

Typed == TypeOK /\ ConnAtPoint

LEMMA TypedInductive == Typed /\ [Next]_vars => Typed'
<1> SUFFICES ASSUME Typed, [Next]_vars
             PROVE  Typed'
  OBVIOUS
<1> USE PoolAssumption DEF Typed, TypeOK, ConnAtPoint, Acquiring, Holding, Goto
<1>1. ASSUME NEW t \in Thread, BeginGet(t) \/ Expire(t) \/ SpuriousWake(t)
      PROVE  Typed'
  BY <1>1 DEF BeginGet, Expire, SpuriousWake
<1>2. ASSUME NEW t \in Thread, TakePermit(t)
      PROVE  Typed'
  BY <1>2 DEF TakePermit
<1>3. ASSUME NEW t \in Thread, WaitForPermit(t) \/ GiveUp(t) \/ Elapse(t)
      PROVE  Typed'
  BY <1>3 DEF WaitForPermit, GiveUp, Elapse
<1>4. ASSUME NEW t \in Thread, PopIdle(t)
      PROVE  Typed'
  <2>1. Head(idle) \in Conn /\ Tail(idle) \in Seq(Conn)
    BY <1>4, HeadTailProperties DEF PopIdle
  <2>2. QED
    BY <1>4, <2>1 DEF PopIdle
<1>5. ASSUME NEW t \in Thread, StartConnect(t) \/ ConnectOk(t) \/ ConnectFails(t)
      PROVE  Typed'
  BY <1>5 DEF StartConnect, ConnectOk, ConnectFails
<1>6. ASSUME NEW t \in Thread, OperationFails(t) \/ Discard(t)
      PROVE  Typed'
  BY <1>6 DEF OperationFails, Discard
<1>7. ASSUME NEW t \in Thread, DropGuard(t)
      PROVE  Typed'
  <2>1. CASE pc[t] = "releasing"
    BY <1>7, <2>1 DEF DropGuard, ReleasePermit, At
  <2>2. CASE pc[t] = "using"
    <3>1. conn[t] \in Conn /\ Append(idle, conn[t]) \in Seq(Conn)
      BY <2>2, AppendProperties
    <3>2. QED
      BY <1>7, <2>2, <3>1 DEF DropGuard, ReturnConn
  <2>3. QED
    BY <1>7, <2>1, <2>2 DEF DropGuard
<1>8. CASE UNCHANGED vars
  BY <1>8 DEF vars
<1>9. QED
  BY <1>1, <1>2, <1>3, <1>4, <1>5, <1>6, <1>7, <1>8
     DEF Next, GetSteps, Connecting

(***************************************************************************)
(* Type correctness.  The counter is a usize: the loop of acquire keeps it *)
(* from going below zero; and what a guard puts in the queue is a          *)
(* connection.                                                             *)
(***************************************************************************)
THEOREM TypeCorrect == Spec => []TypeOK
<1>1. Init => Typed
  BY PoolAssumption DEF Init, Typed, TypeOK, ConnAtPoint, Acquiring, Holding
<1>2. Typed => TypeOK
  BY DEF Typed
<1>3. QED
  BY <1>1, <1>2, TypedInductive, PTL DEF Spec

------------------------------------------------------------------------------
(* Counting threads.                                                       *)

LEMMA ThreadSets ==
    ASSUME NEW S \in SUBSET Thread
    PROVE  /\ IsFiniteSet(S)
           /\ Cardinality(S) \in Nat
           /\ S = {} <=> Cardinality(S) = 0
           /\ \A t \in Thread : t \notin S =>
                  Cardinality(S \cup {t}) = Cardinality(S) + 1
           /\ \A t \in S : Cardinality(S \ {t}) = Cardinality(S) - 1
<1>1. IsFiniteSet(S)
  BY PoolAssumption, FS_Subset
<1>2. QED
  BY <1>1, FS_CardinalityType, FS_EmptySet, FS_AddElement, FS_RemoveElement

(* What a step does to the set of threads that own a permit. *)
LEMMA HoldersStep ==
    ASSUME Typed, NEW t \in Thread
    PROVE  /\ BeginGet(t) \/ Expire(t) \/ SpuriousWake(t) => Holders' = Holders
           /\ WaitForPermit(t) \/ GiveUp(t) \/ Elapse(t) => Holders' = Holders
           /\ PopIdle(t) \/ StartConnect(t) \/ Connecting(t) => Holders' = Holders
           /\ OperationFails(t) \/ Discard(t) => Holders' = Holders
           /\ TakePermit(t) => t \notin Holders /\ Holders' = Holders \cup {t}
           /\ DropGuard(t) /\ pc[t] = "using" => Holders' = Holders
           /\ DropGuard(t) /\ pc[t] = "releasing" =>
                  t \in Holders /\ Holders' = Holders \ {t}
<1> USE DEF Typed, TypeOK, Holders, Holding, Acquiring, Goto
<1>1. BeginGet(t) \/ Expire(t) \/ SpuriousWake(t) => Holders' = Holders
  BY DEF BeginGet, Expire, SpuriousWake
<1>2. WaitForPermit(t) \/ GiveUp(t) \/ Elapse(t) => Holders' = Holders
  BY DEF WaitForPermit, GiveUp, Elapse
<1>3. PopIdle(t) \/ StartConnect(t) \/ Connecting(t) => Holders' = Holders
  BY DEF PopIdle, StartConnect, Connecting, ConnectOk, ConnectFails
<1>4. OperationFails(t) \/ Discard(t) => Holders' = Holders
  BY DEF OperationFails, Discard
<1>5. TakePermit(t) => t \notin Holders /\ Holders' = Holders \cup {t}
  BY DEF TakePermit
<1>6. DropGuard(t) /\ pc[t] = "using" => Holders' = Holders
  BY DEF DropGuard
<1>7. DropGuard(t) /\ pc[t] = "releasing" =>
          t \in Holders /\ Holders' = Holders \ {t}
  BY DEF DropGuard, ReleasePermit, At
<1>8. QED
  BY <1>1, <1>2, <1>3, <1>4, <1>5, <1>6, <1>7

PermitInv == Typed /\ PermitsConserved

LEMMA PermitInductive == PermitInv /\ [Next]_vars => PermitInv'
<1> SUFFICES ASSUME PermitInv, [Next]_vars
             PROVE  PermitsConserved'
  BY TypedInductive DEF PermitInv
<1>0. Typed /\ available \in Nat /\ MaxSize \in Nat /\ Holders \in SUBSET Thread
  BY PoolAssumption DEF PermitInv, Typed, TypeOK, Holders
<1> USE DEF PermitInv, PermitsConserved
<1>1. ASSUME UNCHANGED <<available, Holders>>
      PROVE  PermitsConserved'
  BY <1>1
<1>2. ASSUME NEW t \in Thread, TakePermit(t)
      PROVE  PermitsConserved'
  BY <1>0, <1>2, HoldersStep, ThreadSets DEF TakePermit
<1>3. ASSUME NEW t \in Thread, DropGuard(t), pc[t] = "releasing"
      PROVE  PermitsConserved'
  BY <1>0, <1>3, HoldersStep, ThreadSets DEF DropGuard, ReleasePermit
<1>4. ASSUME NEW t \in Thread, DropGuard(t), pc[t] = "using"
      PROVE  PermitsConserved'
  BY <1>0, <1>1, <1>4, HoldersStep DEF DropGuard
<1>5. ASSUME NEW t \in Thread,
             BeginGet(t) \/ Expire(t) \/ SpuriousWake(t)
                \/ WaitForPermit(t) \/ GiveUp(t) \/ Elapse(t)
      PROVE  PermitsConserved'
  BY <1>0, <1>1, <1>5, HoldersStep
     DEF BeginGet, Expire, SpuriousWake, WaitForPermit, GiveUp, Elapse
<1>6. ASSUME NEW t \in Thread,
             PopIdle(t) \/ StartConnect(t) \/ Connecting(t)
                \/ OperationFails(t) \/ Discard(t)
      PROVE  PermitsConserved'
  BY <1>0, <1>1, <1>6, HoldersStep
     DEF PopIdle, StartConnect, Connecting, ConnectOk, ConnectFails,
         OperationFails, Discard
<1>7. CASE UNCHANGED vars
  BY <1>1, <1>7 DEF vars, Holders
<1>8. QED
  BY <1>2, <1>3, <1>4, <1>5, <1>6, <1>7 DEF Next, GetSteps, DropGuard

(***************************************************************************)
(* No permit is lost or made up: whatever way out of get, discard or drop  *)
(* a thread takes, the permits owned and the counter add up to max_size.   *)
(***************************************************************************)
THEOREM PermitConservation == Spec => []PermitsConserved
<1>1. Init => PermitInv
  <2> SUFFICES ASSUME Init
               PROVE  PermitInv
    OBVIOUS
  <2>1. Typed
    BY PoolAssumption DEF Init, Typed, TypeOK, ConnAtPoint, Acquiring, Holding
  <2>2. Holders = {}
    BY DEF Init, Holders, Holding
  <2>3. QED
    BY <2>1, <2>2, FS_EmptySet, PoolAssumption DEF PermitInv, PermitsConserved, Init
<1>2. PermitInv => PermitsConserved
  BY DEF PermitInv
<1>3. QED
  BY <1>1, <1>2, PermitInductive, PTL DEF Spec
------------------------------------------------------------------------------
(* The number of open sockets.                                             *)

(* The steps that neither move nor open nor close a connection. *)
Quiet(t) ==
    \/ BeginGet(t) \/ Expire(t) \/ SpuriousWake(t) \/ TakePermit(t)
    \/ WaitForPermit(t) \/ GiveUp(t) \/ Elapse(t)
    \/ ConnectOk(t) \/ OperationFails(t)

(* What a step does to the idle queue and to the threads that own a        *)
(* connection.                                                             *)
LEMMA CommittedStep ==
    ASSUME Typed, NEW t \in Thread
    PROVE  /\ Quiet(t) \/ (DropGuard(t) /\ pc[t] = "releasing")
              => idle' = idle /\ Committed' = Committed
           /\ PopIdle(t) /\ Head(idle) \in broken
              => Len(idle) > 0 /\ Len(idle') = Len(idle) - 1 /\ Committed' = Committed
           /\ PopIdle(t) /\ Head(idle) \notin broken
              => /\ Len(idle) > 0 /\ Len(idle') = Len(idle) - 1
                 /\ t \notin Committed /\ Committed' = Committed \cup {t}
           /\ StartConnect(t)
              => /\ Len(idle) = 0 /\ idle' = idle
                 /\ t \notin Committed /\ Committed' = Committed \cup {t}
           /\ ConnectFails(t) \/ Discard(t)
              => idle' = idle /\ t \in Committed /\ Committed' = Committed \ {t}
           /\ DropGuard(t) /\ pc[t] = "using"
              => /\ Len(idle') = Len(idle) \/ Len(idle') = Len(idle) + 1
                 /\ t \in Committed /\ Committed' = Committed \ {t}
<1> USE PoolAssumption DEF Typed, TypeOK, ConnAtPoint, Committed, Holding, Acquiring, Goto
<1>1. Quiet(t) \/ (DropGuard(t) /\ pc[t] = "releasing")
        => idle' = idle /\ Committed' = Committed
  BY DEF Quiet, BeginGet, Expire, SpuriousWake, TakePermit, WaitForPermit, GiveUp, Elapse,
         ConnectOk, OperationFails, DropGuard
<1>2. ASSUME PopIdle(t)
      PROVE  /\ Len(idle) > 0 /\ Len(idle') = Len(idle) - 1
             /\ Head(idle) \in Conn
  BY <1>2, HeadTailProperties, EmptySeq DEF PopIdle
<1>3. PopIdle(t) /\ Head(idle) \in broken => Committed' = Committed
  BY DEF PopIdle
<1>4. PopIdle(t) /\ Head(idle) \notin broken =>
          t \notin Committed /\ Committed' = Committed \cup {t}
  BY <1>2 DEF PopIdle
<1>5. StartConnect(t) => /\ Len(idle) = 0 /\ idle' = idle
                         /\ t \notin Committed /\ Committed' = Committed \cup {t}
  BY DEF StartConnect
<1>6. ConnectFails(t) \/ Discard(t) =>
          idle' = idle /\ t \in Committed /\ Committed' = Committed \ {t}
  BY DEF ConnectFails, Discard
<1>7. ASSUME DropGuard(t), pc[t] = "using"
      PROVE  /\ Len(idle') = Len(idle) \/ Len(idle') = Len(idle) + 1
             /\ t \in Committed /\ Committed' = Committed \ {t}
  <2>1. conn[t] \in Conn
    BY <1>7
  <2>2. Len(Append(idle, conn[t])) = Len(idle) + 1
    BY <2>1, AppendProperties
  <2>3. QED
    BY <1>7, <2>1, <2>2 DEF DropGuard, ReturnConn
<1>8. QED
  BY <1>1, <1>2, <1>3, <1>4, <1>5, <1>6, <1>7

(* A thread about to open a socket has a permit that no open socket uses.  *)
LEMMA RoomForConnect ==
    ASSUME PermitInv, NEW t \in Thread, StartConnect(t)
    PROVE  Cardinality(Committed) < MaxSize
<1>1. Committed \in SUBSET Thread /\ Holders \in SUBSET Thread
  BY DEF Committed, Holders
<1>2. Committed \cup {t} \in SUBSET Holders
  BY DEF PermitInv, Typed, ConnAtPoint, Committed, Holders, Holding, StartConnect
<1>3. t \notin Committed
  BY CommittedStep DEF PermitInv
<1>4. Cardinality(Committed) + 1 <= Cardinality(Holders)
  <2>1. Cardinality(Committed \cup {t}) = Cardinality(Committed) + 1
    BY <1>1, <1>3, ThreadSets
  <2>2. Cardinality(Committed \cup {t}) <= Cardinality(Holders)
    BY <1>1, <1>2, ThreadSets, FS_Subset
  <2>3. QED
    BY <2>1, <2>2
<1>5. Cardinality(Holders) <= MaxSize
  BY <1>1, ThreadSets, PoolAssumption DEF PermitInv, PermitsConserved, Typed, TypeOK
<1>6. QED
  BY <1>1, <1>4, <1>5, ThreadSets, PoolAssumption

BoundInv == PermitInv /\ ConnectionsBounded

LEMMA BoundInductive == BoundInv /\ [Next]_vars => BoundInv'
<1> SUFFICES ASSUME BoundInv, [Next]_vars
             PROVE  ConnectionsBounded'
  BY PermitInductive DEF BoundInv
<1> DEFINE C == Cardinality(Committed)
<1>0. /\ Typed /\ PermitInv /\ MaxSize \in Nat /\ Len(idle) \in Nat /\ C \in Nat
      /\ Committed \in SUBSET Thread
  BY PoolAssumption, ThreadSets, LenProperties
     DEF BoundInv, PermitInv, Typed, TypeOK, Committed
<1> USE DEF BoundInv, ConnectionsBounded
<1>1. ASSUME UNCHANGED <<idle, Committed>>
      PROVE  ConnectionsBounded'
  BY <1>1
<1>2. ASSUME NEW t \in Thread, PopIdle(t)
      PROVE  ConnectionsBounded'
  BY <1>0, <1>2, CommittedStep, ThreadSets
<1>3. ASSUME NEW t \in Thread, StartConnect(t)
      PROVE  ConnectionsBounded'
  BY <1>0, <1>3, CommittedStep, ThreadSets, RoomForConnect
<1>4. ASSUME NEW t \in Thread, ConnectFails(t) \/ Discard(t)
      PROVE  ConnectionsBounded'
  BY <1>0, <1>4, CommittedStep, ThreadSets
<1>5. ASSUME NEW t \in Thread, DropGuard(t)
      PROVE  ConnectionsBounded'
  <2>1. CASE pc[t] = "using"
    BY <1>0, <1>5, <2>1, CommittedStep, ThreadSets
  <2>2. CASE pc[t] = "releasing"
    BY <1>0, <1>1, <1>5, <2>2, CommittedStep
  <2>3. QED
    BY <1>5, <2>1, <2>2 DEF DropGuard
<1>6. ASSUME NEW t \in Thread, Quiet(t)
      PROVE  ConnectionsBounded'
  <2>1. idle' = idle /\ Committed' = Committed
    BY <1>0, <1>6, CommittedStep
  <2>2. QED
    BY <1>1, <2>1
<1>7. CASE UNCHANGED vars
  BY <1>1, <1>7 DEF vars, Committed
<1>8. QED
  BY <1>2, <1>3, <1>4, <1>5, <1>6, <1>7 DEF Next, GetSteps, Connecting, Quiet

LEMMA BoundInit == Init => BoundInv
<1> SUFFICES ASSUME Init
             PROVE  BoundInv
  OBVIOUS
<1>1. Typed
  BY PoolAssumption DEF Init, Typed, TypeOK, ConnAtPoint, Acquiring, Holding
<1>2. Holders = {} /\ Committed = {} /\ Len(idle) = 0
  BY DEF Init, Holders, Holding, Committed
<1>3. QED
  BY <1>1, <1>2, FS_EmptySet, PoolAssumption
     DEF BoundInv, PermitInv, PermitsConserved, ConnectionsBounded, Init

(***************************************************************************)
(* max_size bounds the open sockets: idle, in use and being opened.  The   *)
(* code never compares their number with max_size; the bound follows from  *)
(* the permits, because every committed thread holds one until its         *)
(* connection has left it, and a socket is opened only on an empty queue.  *)
(***************************************************************************)
THEOREM SocketsBounded == Spec => []ConnectionsBounded
<1>1. BoundInv => ConnectionsBounded
  BY DEF BoundInv
<1>2. QED
  BY <1>1, BoundInit, BoundInductive, PTL DEF Spec

(***************************************************************************)
(* The pool implements ConnectionLimit: what was proved of the permits is  *)
(* what the abstract guard of Open asks for.                               *)
(***************************************************************************)
THEOREM PoolImplementsLimit == Spec => LimitSpec
<1>1. Init => Limit!Init
  <2> SUFFICES ASSUME Init
               PROVE  Limit!Init
    OBVIOUS
  <2>1. Committed = {} /\ Len(idle) = 0
    BY DEF Init, Committed
  <2>2. QED
    BY <2>1, FS_EmptySet DEF Limit!Init
<1>2. BoundInv /\ [Next]_vars => [Limit!Next]_(Limit!limitVars)
  <2> SUFFICES ASSUME BoundInv, [Next]_vars
               PROVE  [Limit!Next]_(Limit!limitVars)
    OBVIOUS
  <2>0. /\ Typed /\ PermitInv /\ Committed \in SUBSET Thread
        /\ Len(idle) \in Nat /\ Cardinality(Committed) \in Nat
    BY ThreadSets, LenProperties DEF BoundInv, PermitInv, Typed, TypeOK, Committed
  <2>1. ASSUME NEW t \in Thread, PopIdle(t)
        PROVE  Limit!Next
    <3>1. CASE Head(idle) \in broken
      BY <2>0, <2>1, <3>1, CommittedStep DEF Limit!Next, Limit!Evict
    <3>2. CASE Head(idle) \notin broken
      BY <2>0, <2>1, <3>2, CommittedStep, ThreadSets DEF Limit!Next, Limit!Reuse
    <3>3. QED
      BY <3>1, <3>2
  <2>2. ASSUME NEW t \in Thread, StartConnect(t)
        PROVE  Limit!Next
    <3>1. Len(idle) = 0 /\ Cardinality(Committed) < MaxSize
      BY <2>0, <2>2, CommittedStep, RoomForConnect
    <3>2. idle' = idle /\ Cardinality(Committed)' = Cardinality(Committed) + 1
      BY <2>0, <2>2, CommittedStep, ThreadSets
    <3>3. QED
      BY <2>0, <3>1, <3>2 DEF Limit!Next, Limit!Open
  <2>3. ASSUME NEW t \in Thread, ConnectFails(t) \/ Discard(t)
        PROVE  Limit!Next
    <3>1. /\ idle' = idle /\ Cardinality(Committed) > 0
          /\ Cardinality(Committed)' = Cardinality(Committed) - 1
      BY <2>0, <2>3, CommittedStep, ThreadSets
    <3>2. QED
      BY <3>1 DEF Limit!Next, Limit!Close
  <2>4. ASSUME NEW t \in Thread, DropGuard(t)
        PROVE  [Limit!Next]_(Limit!limitVars)
    <3>1. CASE pc[t] = "using"
      <4>1. /\ Cardinality(Committed) > 0
            /\ Cardinality(Committed)' = Cardinality(Committed) - 1
        BY <2>0, <2>4, <3>1, CommittedStep, ThreadSets
      <4>2. Len(idle)' = Len(idle) \/ Len(idle)' = Len(idle) + 1
        BY <2>0, <2>4, <3>1, CommittedStep
      <4>3. QED
        BY <4>1, <4>2 DEF Limit!Next, Limit!Close, Limit!GiveBack
    <3>2. CASE pc[t] = "releasing"
      BY <2>0, <2>4, <3>2, CommittedStep DEF Limit!limitVars
    <3>3. QED
      BY <2>4, <3>1, <3>2 DEF DropGuard
  <2>5. ASSUME NEW t \in Thread, Quiet(t)
        PROVE  UNCHANGED Limit!limitVars
    <3>1. idle' = idle /\ Committed' = Committed
      BY <2>0, <2>5, CommittedStep
    <3>2. QED
      BY <3>1 DEF Limit!limitVars
  <2>6. CASE UNCHANGED vars
    BY <2>6 DEF vars, Committed, Limit!limitVars
  <2>7. QED
    BY <2>1, <2>2, <2>3, <2>4, <2>5, <2>6 DEF Next, GetSteps, Connecting, Quiet
<1>3. QED
  BY <1>1, <1>2, BoundInit, BoundInductive, PTL
     DEF Spec, LimitSpec, Limit!Spec

------------------------------------------------------------------------------
(* The condition variable.                                                 *)

WakeInv == Typed /\ NoLostWakeup

LEMMA WakeInductive == WakeInv /\ [Next]_vars => WakeInv'
<1> SUFFICES ASSUME WakeInv, [Next]_vars
             PROVE  NoLostWakeup'
  BY TypedInductive DEF WakeInv
<1>0. /\ Typed /\ available \in Nat
      /\ At("waiting") \in SUBSET Thread /\ At("woken") \in SUBSET Thread
  BY DEF WakeInv, Typed, TypeOK, At
<1> USE DEF WakeInv, NoLostWakeup
<1>1. ASSUME UNCHANGED <<available, At("waiting"), At("woken")>>
      PROVE  NoLostWakeup'
  BY <1>1
<1>2. ASSUME NEW t \in Thread, TakePermit(t)
      PROVE  NoLostWakeup'
  <2>1. At("waiting")' = At("waiting") /\ available' = available - 1
    BY <1>0, <1>2 DEF TakePermit, Goto, At, Typed, TypeOK
  <2>2. CASE pc[t] = "acquire"
    <3>1. At("woken")' = At("woken")
      BY <1>0, <1>2, <2>2 DEF TakePermit, Goto, At, Typed, TypeOK
    <3>2. QED
      BY <1>0, <1>2, <2>1, <3>1, ThreadSets DEF TakePermit
  <2>3. CASE pc[t] = "woken"
    <3>1. t \in At("woken") /\ At("woken")' = At("woken") \ {t}
      BY <1>0, <1>2, <2>3 DEF TakePermit, Goto, At, Typed, TypeOK
    <3>2. QED
      BY <1>0, <1>2, <2>1, <3>1, ThreadSets DEF TakePermit
  <2>4. QED
    BY <1>2, <2>2, <2>3 DEF TakePermit
<1>3. ASSUME NEW t \in Thread, WaitForPermit(t) \/ GiveUp(t)
      PROVE  NoLostWakeup'
  <2>1. available' = 0
    BY <1>3 DEF WaitForPermit, GiveUp
  <2>2. At("woken")' \in SUBSET Thread
    BY DEF At
  <2>3. QED
    BY <2>1, <2>2, ThreadSets
<1>4. ASSUME NEW t \in Thread, Elapse(t) \/ SpuriousWake(t)
      PROVE  NoLostWakeup'
  <2>1. /\ t \in At("waiting") /\ t \notin At("woken")
        /\ At("woken")' = At("woken") \cup {t} /\ available' = available
    BY <1>0, <1>4 DEF Elapse, SpuriousWake, Goto, At, Typed, TypeOK
  <2>2. QED
    BY <1>0, <2>1, ThreadSets
<1>5. ASSUME NEW t \in Thread, DropGuard(t), pc[t] = "releasing"
      PROVE  NoLostWakeup'
  <2>1. available' = available + 1
    BY <1>5 DEF DropGuard, ReleasePermit
  <2>2. CASE At("waiting") = {}
    <3>1. At("waiting")' = {}
      BY <1>0, <1>5, <2>2 DEF DropGuard, ReleasePermit, Goto, At, Typed, TypeOK
    <3>2. QED
      BY <3>1
  <2>3. CASE At("waiting") # {}
    <3>1. PICK w \in At("waiting") : pc' = [pc EXCEPT ![t] = "out", ![w] = "woken"]
      BY <1>5, <2>3 DEF DropGuard, ReleasePermit
    <3>2. w \in Thread /\ w \notin At("woken") /\ At("woken")' = At("woken") \cup {w}
      BY <1>0, <1>5, <3>1 DEF At, Typed, TypeOK
    <3>3. QED
      BY <1>0, <2>1, <2>3, <3>2, ThreadSets
  <2>4. QED
    BY <2>2, <2>3
<1>6. ASSUME NEW t \in Thread,
             BeginGet(t) \/ Expire(t) \/ PopIdle(t) \/ StartConnect(t) \/ ConnectOk(t)
                \/ ConnectFails(t) \/ OperationFails(t) \/ Discard(t)
                \/ (DropGuard(t) /\ pc[t] = "using")
      PROVE  NoLostWakeup'
  <2>1. UNCHANGED <<available, At("waiting"), At("woken")>>
    BY <1>0, <1>6
       DEF BeginGet, Expire, PopIdle, StartConnect, ConnectOk, ConnectFails,
           OperationFails, Discard, DropGuard, Goto, At, Typed, TypeOK
  <2>2. QED
    BY <1>1, <2>1
<1>7. ASSUME NEW t \in Thread, DropGuard(t)
      PROVE  NoLostWakeup'
  <2>1. pc[t] = "using" \/ pc[t] = "releasing"
    BY <1>7 DEF DropGuard
  <2>2. QED
    BY <1>5, <1>6, <1>7, <2>1
<1>8. CASE UNCHANGED vars
  BY <1>1, <1>8 DEF vars, At
<1>9. QED
  BY <1>2, <1>3, <1>4, <1>6, <1>7, <1>8 DEF Next, GetSteps, Connecting

(***************************************************************************)
(* No wakeup is lost, for any number of threads and permits: a permit that *)
(* is free while somebody sleeps has a woken thread on its way to it.      *)
(***************************************************************************)
THEOREM WakeupsKept == Spec => []NoLostWakeup
<1>1. Init => WakeInv
  <2> SUFFICES ASSUME Init
               PROVE  WakeInv
    OBVIOUS
  <2>1. Typed
    BY PoolAssumption DEF Init, Typed, TypeOK, ConnAtPoint, Acquiring, Holding
  <2>2. At("waiting") = {}
    BY DEF Init, At
  <2>3. QED
    BY <2>1, <2>2 DEF WakeInv, NoLostWakeup
<1>2. WakeInv => NoLostWakeup
  BY DEF WakeInv
<1>3. QED
  BY <1>1, <1>2, WakeInductive, PTL DEF Spec

(***************************************************************************)
(* Ownership.  A connection that met an error is flagged, so neither       *)
(* return_conn nor pop_idle lets it through.                               *)
(***************************************************************************)
OwnerInv == Typed /\ OneOwner /\ failed \subseteq broken

LEMMA QueueSets == Typed => /\ Len(idle) \in Nat
                            /\ \A i \in 1..Len(idle) : idle[i] \in IdleConns
                            /\ \A c \in IdleConns : \E i \in 1..Len(idle) : c = idle[i]
  BY LenProperties DEF Typed, TypeOK, IdleConns

(* What leaves the queue at its head is nowhere else. *)
LEMMA HeadLeaves ==
    ASSUME OwnerInv, idle # << >>, idle' = Tail(idle)
    PROVE  /\ Head(idle) \in Conn /\ Head(idle) \in IdleConns
           /\ IdleConns' = IdleConns \ {Head(idle)}
           /\ \A i, j \in 1..Len(idle') : idle'[i] = idle'[j] => i = j
<1>1. /\ idle \in Seq(Conn) /\ Len(idle) \in Nat /\ 1 \in 1..Len(idle)
      /\ Head(idle) = idle[1] /\ Head(idle) \in Conn
  BY HeadTailProperties, LenProperties, EmptySeq DEF OwnerInv, Typed, TypeOK
<1>2. /\ Len(idle') = Len(idle) - 1
      /\ \A i \in 1..Len(idle') : idle'[i] = idle[i + 1] /\ i + 1 \in 1..Len(idle) /\ i + 1 # 1
  BY <1>1, HeadTailProperties
<1>3. \A i \in 1..Len(idle) : i = 1 \/ (i - 1 \in 1..Len(idle') /\ idle'[i - 1] = idle[i])
  BY <1>1, <1>2
<1>4. \A i, j \in 1..Len(idle) : idle[i] = idle[j] => i = j
  BY DEF OwnerInv, OneOwner
<1>5. IdleConns' = IdleConns \ {Head(idle)}
  <2>1. ASSUME NEW c \in IdleConns' PROVE c \in IdleConns /\ c # Head(idle)
    BY <1>1, <1>2, <1>4, <2>1 DEF IdleConns
  <2>2. ASSUME NEW c \in IdleConns, c # Head(idle) PROVE c \in IdleConns'
    BY <1>1, <1>3, <2>2 DEF IdleConns
  <2>3. QED
    BY <2>1, <2>2 DEF IdleConns
<1>6. ASSUME NEW i \in 1..Len(idle'), NEW j \in 1..Len(idle'), idle'[i] = idle'[j]
      PROVE  i = j
  <2>1. i + 1 = j + 1
    BY <1>2, <1>4, <1>6
  <2>2. QED
    BY <1>1, <1>2, <2>1
<1>7. QED
  BY <1>1, <1>5, <1>6 DEF IdleConns

(* What joins the queue at its end was in nobody's hands. *)
LEMMA TailJoins ==
    ASSUME OwnerInv, NEW c \in Conn, c \notin IdleConns, idle' = Append(idle, c)
    PROVE  /\ IdleConns' = IdleConns \cup {c}
           /\ \A i, j \in 1..Len(idle') : idle'[i] = idle'[j] => i = j
<1>1. /\ idle \in Seq(Conn) /\ Len(idle) \in Nat
  BY LenProperties DEF OwnerInv, Typed, TypeOK
<1>2. /\ Len(idle') = Len(idle) + 1
      /\ \A i \in 1..Len(idle) : idle'[i] = idle[i]
      /\ idle'[Len(idle) + 1] = c
  BY <1>1, AppendProperties
<1>3. \A i \in 1..Len(idle') : i \in 1..Len(idle) \/ i = Len(idle) + 1
  BY <1>1, <1>2
<1>4. \A i \in 1..Len(idle) : i \in 1..Len(idle') /\ idle[i] # c
  BY <1>1, <1>2 DEF IdleConns
<1>5. IdleConns' = IdleConns \cup {c}
  <2>1. Len(idle) + 1 \in 1..Len(idle')
    BY <1>1, <1>2
  <2>2. ASSUME NEW d \in IdleConns' PROVE d \in IdleConns \cup {c}
    BY <1>2, <1>3, <2>2 DEF IdleConns
  <2>3. ASSUME NEW d \in IdleConns \cup {c} PROVE d \in IdleConns'
    BY <1>2, <1>4, <2>1, <2>3 DEF IdleConns
  <2>4. QED
    BY <2>2, <2>3
<1>6. \A i, j \in 1..Len(idle) : idle[i] = idle[j] => i = j
  BY DEF OwnerInv, OneOwner
<1>7. QED
  BY <1>2, <1>3, <1>4, <1>5, <1>6

LEMMA OwnerInductive == OwnerInv /\ [Next]_vars => OwnerInv'
<1> SUFFICES ASSUME OwnerInv, [Next]_vars
             PROVE  OwnerInv'
  OBVIOUS
<1>0. Typed /\ Typed'
  BY TypedInductive DEF OwnerInv
<1>1. ASSUME UNCHANGED <<idle, conn, broken, failed>>
      PROVE  OwnerInv'
  BY <1>0, <1>1 DEF OwnerInv, OneOwner, IdleConns, Committed
<1>2. ASSUME NEW t \in Thread,
             BeginGet(t) \/ Expire(t) \/ SpuriousWake(t) \/ TakePermit(t)
                \/ WaitForPermit(t) \/ GiveUp(t) \/ Elapse(t) \/ ConnectOk(t)
      PROVE  OwnerInv'
  BY <1>1, <1>2
     DEF BeginGet, Expire, SpuriousWake, TakePermit, WaitForPermit, GiveUp, Elapse, ConnectOk
<1>3. ASSUME NEW t \in Thread, PopIdle(t)
      PROVE  OwnerInv'
  <2>1. /\ Head(idle) \in Conn /\ Head(idle) \in IdleConns
        /\ IdleConns' = IdleConns \ {Head(idle)}
        /\ \A i, j \in 1..Len(idle') : idle'[i] = idle'[j] => i = j
    BY <1>3, HeadLeaves DEF PopIdle
  <2>2. Head(idle) # NoConn
    BY <2>1, PoolAssumption
  <2>3. conn[t] = NoConn
    BY <1>0, <1>3 DEF PopIdle, Typed, ConnAtPoint
  <2>4. CASE Head(idle) \in broken
    BY <1>0, <1>3, <2>1, <2>4 DEF PopIdle, OwnerInv, OneOwner, Committed
  <2>5. CASE Head(idle) \notin broken
    <3>1. /\ conn' = [conn EXCEPT ![t] = Head(idle)]
          /\ UNCHANGED <<broken, failed>>
      BY <1>3, <2>5 DEF PopIdle
    <3>2. \A u \in Thread : conn'[u] = IF u = t THEN Head(idle) ELSE conn[u]
      BY <1>0, <3>1 DEF Typed, TypeOK
    <3>3. QED
      BY <1>0, <2>1, <2>2, <3>1, <3>2 DEF OwnerInv, OneOwner, Committed
  <2>6. QED
    BY <2>4, <2>5
<1>4. ASSUME NEW t \in Thread, StartConnect(t)
      PROVE  OwnerInv'
  <2>1. PICK c \in Conn \ OpenConns : conn' = [conn EXCEPT ![t] = c]
    BY <1>4 DEF StartConnect
  <2>2. \A u \in Thread : conn'[u] = IF u = t THEN c ELSE conn[u]
    BY <1>0, <2>1 DEF Typed, TypeOK
  <2>3. c \notin IdleConns /\ \A u \in Committed : conn[u] # c
    BY <2>1 DEF OpenConns
  <2>4. UNCHANGED <<idle, broken, failed>> /\ IdleConns' = IdleConns
    BY <1>4 DEF StartConnect, IdleConns
  <2>5. QED
    BY <1>0, <2>2, <2>3, <2>4 DEF OwnerInv, OneOwner, Committed
<1>5. ASSUME NEW t \in Thread, ConnectFails(t) \/ Discard(t)
      PROVE  OwnerInv'
  <2>1. /\ conn' = [conn EXCEPT ![t] = NoConn] /\ UNCHANGED idle
        /\ \/ UNCHANGED <<broken, failed>>
           \/ broken' = broken \ {conn[t]} /\ failed' = failed \ {conn[t]}
    BY <1>5 DEF ConnectFails, Discard
  <2>2. \A u \in Thread : conn'[u] = IF u = t THEN NoConn ELSE conn[u]
    BY <1>0, <2>1 DEF Typed, TypeOK
  <2>3. IdleConns' = IdleConns
    BY <2>1 DEF IdleConns
  <2>4. QED
    BY <1>0, <2>1, <2>2, <2>3 DEF OwnerInv, OneOwner, Committed
<1>6. ASSUME NEW t \in Thread, OperationFails(t)
      PROVE  OwnerInv'
  <2>1. t \in Committed
    BY <1>0, <1>6 DEF OperationFails, Typed, ConnAtPoint, Committed
  <2>2. conn[t] \notin IdleConns
    BY <2>1 DEF OwnerInv, OneOwner
  <2>3. IdleConns' = IdleConns
    BY <1>6 DEF OperationFails, IdleConns
  <2>4. QED
    BY <1>0, <1>6, <2>2, <2>3 DEF OperationFails, OwnerInv, OneOwner, Committed
<1>7. ASSUME NEW t \in Thread, DropGuard(t), pc[t] = "using"
      PROVE  OwnerInv'
  <2>1. ReturnConn(t)
    BY <1>7 DEF DropGuard
  <2>2. t \in Committed /\ conn[t] \in Conn /\ conn[t] \notin IdleConns
    BY <1>0, <1>7 DEF Typed, TypeOK, ConnAtPoint, Committed, OwnerInv, OneOwner
  <2>3. conn' = [conn EXCEPT ![t] = NoConn]
    BY <2>1 DEF ReturnConn
  <2>4. \A u \in Thread : conn'[u] = IF u = t THEN NoConn ELSE conn[u]
    BY <1>0, <2>3 DEF Typed, TypeOK
  <2>5. CASE conn[t] \in broken
    <3>1. /\ UNCHANGED idle /\ IdleConns' = IdleConns
          /\ broken' = broken \ {conn[t]} /\ failed' = failed \ {conn[t]}
      BY <2>1, <2>5 DEF ReturnConn, IdleConns
    <3>2. QED
      BY <1>0, <2>4, <3>1 DEF OwnerInv, OneOwner, Committed
  <2>6. CASE conn[t] \notin broken
    <3>1. idle' = Append(idle, conn[t]) /\ UNCHANGED <<broken, failed>>
      BY <2>1, <2>6 DEF ReturnConn
    <3>2. /\ IdleConns' = IdleConns \cup {conn[t]}
          /\ \A i, j \in 1..Len(idle') : idle'[i] = idle'[j] => i = j
      BY <2>2, <3>1, TailJoins
    <3>3. conn[t] \notin failed
      BY <2>6 DEF OwnerInv
    <3>4. \A u \in Committed' : u \in Committed /\ u # t /\ conn'[u] = conn[u]
      BY <2>4 DEF Committed
    <3>5. \A u \in Committed' : conn'[u] # conn[t]
      BY <2>2, <3>4 DEF OwnerInv, OneOwner
    <3>6. QED
      BY <1>0, <3>1, <3>2, <3>3, <3>4, <3>5 DEF OwnerInv, OneOwner
  <2>7. QED
    BY <2>5, <2>6
<1>8. ASSUME NEW t \in Thread, DropGuard(t)
      PROVE  OwnerInv'
  <2>1. CASE pc[t] = "using"
    BY <1>7, <1>8, <2>1
  <2>2. CASE pc[t] = "releasing"
    BY <1>1, <1>8, <2>2 DEF DropGuard
  <2>3. QED
    BY <1>8, <2>1, <2>2 DEF DropGuard
<1>9. CASE UNCHANGED vars
  BY <1>1, <1>9 DEF vars
<1>10. QED
  BY <1>2, <1>3, <1>4, <1>5, <1>6, <1>8, <1>9 DEF Next, GetSteps, Connecting

(***************************************************************************)
(* One owner: at any moment a connection is once in the idle queue or with *)
(* one thread, and one that met an I/O error is never in the queue.        *)
(***************************************************************************)
THEOREM ConnectionsOwned == Spec => []OneOwner
<1>1. Init => OwnerInv
  <2> SUFFICES ASSUME Init
               PROVE  OwnerInv
    OBVIOUS
  <2>1. Typed
    BY PoolAssumption DEF Init, Typed, TypeOK, ConnAtPoint, Acquiring, Holding
  <2>2. Len(idle) = 0 /\ Committed = {} /\ IdleConns = {}
    BY EmptySeq DEF Init, Committed, IdleConns
  <2>3. QED
    BY <2>1, <2>2 DEF Init, OwnerInv, OneOwner
<1>2. OwnerInv => OneOwner
  BY DEF OwnerInv
<1>3. QED
  BY <1>1, <1>2, OwnerInductive, PTL DEF Spec
==============================================================================
