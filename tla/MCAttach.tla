------------------------------ MODULE MCAttach ------------------------------
(* A client program: it opens an attachment with Handshake and then listens *)
(* to events on it, or runs services, as the target of the attach was.      *)
EXTENDS Handshake, Events, Service

vars == <<hsVars, evVars, svVars>>

(* What follows the attach depends on nothing the handshake leaves behind   *)
(* but the target, so it is followed from one way of opening only.          *)
Opened(target) ==
    /\ pc = "attached" /\ conf.target = target
    /\ conf.crypt = "Required" /\ ~conf.legacy /\ ~conf.native
    /\ auth = "proof" /\ rounds = 0 /\ cipher[1] = "ChaCha64" /\ chal = 1
    /\ tries.timedOut = FALSE /\ tries.failed = FALSE

Init == HandshakeInit /\ EventsInit /\ ServiceInit

Next ==
    \/ HandshakeNext /\ UNCHANGED <<evVars, svVars>>
    \/ Opened("database") /\ EventsNext /\ UNCHANGED <<hsVars, svVars>>
    \/ Opened("service") /\ ServiceNext /\ UNCHANGED <<hsVars, evVars>>

Spec == Init /\ [][Next]_vars
             /\ HandshakeFair
             /\ WF_evVars(Opened("database") /\ Progress)
             /\ WF_evVars(Opened("database") /\ EventsServer)

-------------------------------------------------------------------------------
MCOffers == {{}, {"ChaCha64", "Arc4"}, {"ChaCha", "Arc4"}}
MCOutputs ==
    {<<>>, <<[id |-> 1, n |-> 1], [id |-> 2, n |-> 2], [id |-> 3, n |-> 3],
             [id |-> 4, n |-> 2]>>}
==============================================================================
