------------------------------- MODULE Events -------------------------------
(* Database events: listen_events, the loop of EventListener::wait and      *)
(* cancel, between the caller, the server and the auxiliary channel.  A     *)
(* registration is spent by one notification.                               *)
EXTENDS Naturals, Sequences

CONSTANTS Name,         \* event names listened to
          MaxPosts      \* bound: posts of one name

ASSUME EventsAssumption == Name # {} /\ MaxPosts \in Nat

VARIABLES
    lsn,        \* the listener: off, idle, waiting, queued, cancelling
    counts,     \* counts last seen (the baseline)
    fired,      \* names found to have fired in this turn of the loop
    aux,        \* notifications on the auxiliary channel
    request,    \* op_que_events or op_cancel_events on the main connection
    answer,     \* its answer: none, ok or refused
    posted,     \* server: posts committed, by name
    reg,        \* server: baseline of the registration, NoReg without one
    told,       \* history: count up to which the caller was told
    erred       \* history: a wait of this listener ended in an error

evVars == <<lsn, counts, fired, aux, request, answer, posted, reg, told, erred>>

Counts == [Name -> Nat]
Zero == [n \in Name |-> 0]
NoReg == <<>>
Nothing == <<>>

(* parse_epb_counts and the filter of wait: names whose count grew. *)
Grown(new, old) == {n \in Name : new[n] > old[n]}

(* Some names may have been posted before anyone listened. *)
EventsInit ==
    /\ lsn = "off" /\ counts = Zero /\ fired = {} /\ aux = <<>>
    /\ request = Nothing /\ answer = "none" /\ reg = NoReg
    /\ posted \in [Name -> 0..1]
    /\ told = Zero /\ erred = FALSE

-------------------------------------------------------------------------------
(* The caller.                                                             *)

(* que_events: the baseline goes to the server on the main connection. *)
Queue(baseline) == request' = <<"que", baseline>> /\ answer' = "none"

(* listen_events, once the auxiliary socket is connected: the baseline is  *)
(* zero.  Any failure before that changes nothing here.                    *)
Listen ==
    /\ lsn = "off" /\ request = Nothing
    /\ lsn' = "listening" /\ counts' = Zero /\ fired' = {} /\ aux' = <<>>
    /\ told' = Zero /\ erred' = FALSE
    /\ Queue(Zero)
    /\ UNCHANGED <<posted, reg>>

(* The answer to the first op_que_events. *)
Listening ==
    /\ lsn = "listening" /\ answer # "none"
    /\ lsn' = IF answer = "ok" THEN "idle" ELSE "off"
    /\ answer' = "none"
    /\ UNCHANGED <<counts, fired, aux, request, posted, reg, told, erred>>

Wait ==
    /\ lsn = "idle"
    /\ lsn' = "waiting"
    /\ UNCHANGED <<counts, fired, aux, request, answer, posted, reg, told, erred>>

(* Mutant: register again only after news, not after an echo. *)
ReadEventQueueingNews ==
    /\ lsn = "waiting" /\ aux # <<>>
    /\ fired' = Grown(aux[1], counts)
    /\ counts' = aux[1] /\ aux' = Tail(aux)
    /\ IF fired' = {} THEN UNCHANGED <<lsn, request, answer>>
       ELSE lsn' = "queued" /\ Queue(aux[1])
    /\ UNCHANGED <<posted, reg, told, erred>>

(* wait: an op_event is read, its counts replace the baseline, and the     *)
(* events are registered again.                                            *)
ReadEvent ==
    /\ lsn = "waiting" /\ aux # <<>>
    /\ fired' = Grown(aux[1], counts)
    /\ counts' = aux[1] /\ aux' = Tail(aux)
    /\ lsn' = "queued"
    /\ Queue(aux[1])
    /\ UNCHANGED <<posted, reg, told, erred>>

(* Mutant: one name at a time. *)
ReportOne(names) == {CHOOSE n \in names : TRUE}

(* What wait returns. *)
Report(names) == names

(* The registration is answered: wait returns the names that fired, goes   *)
(* round again after an echo, or fails.                                    *)
Queued ==
    /\ lsn = "queued" /\ answer # "none"
    /\ answer' = "none" /\ fired' = {}
    /\ \/ /\ answer = "ok" /\ fired # {}
          /\ lsn' = "idle"
          /\ told' = [n \in Name |-> IF n \in Report(fired) THEN counts[n] ELSE told[n]]
          /\ UNCHANGED erred
       \/ /\ answer = "ok" /\ fired = {}
          /\ lsn' = "waiting" /\ UNCHANGED <<told, erred>>
       \/ /\ answer = "refused"
          /\ lsn' = "idle" /\ erred' = TRUE /\ UNCHANGED told
    /\ UNCHANGED <<counts, aux, request, posted, reg>>

(* The channel delivers something else or fails: wait returns an error. *)
AuxFails ==
    /\ lsn = "waiting"
    /\ lsn' = "idle" /\ erred' = TRUE
    /\ UNCHANGED <<counts, fired, aux, request, answer, posted, reg, told>>

(* cancel consumes the listener: whatever the answer, the channel closes. *)
Cancel ==
    /\ lsn = "idle"
    /\ lsn' = "cancelling" /\ request' = <<"cancel", Zero>> /\ answer' = "none"
    /\ aux' = <<>>
    /\ UNCHANGED <<counts, fired, posted, reg, told, erred>>

Cancelled ==
    /\ lsn = "cancelling" /\ answer # "none"
    /\ lsn' = "off" /\ answer' = "none"
    /\ UNCHANGED <<counts, fired, aux, request, posted, reg, told, erred>>

-------------------------------------------------------------------------------
(* The server and other connections.                                       *)

Post(n) ==
    /\ posted[n] < MaxPosts
    /\ posted' = [posted EXCEPT ![n] = @ + 1]
    /\ UNCHANGED <<lsn, counts, fired, aux, request, answer, reg, told, erred>>

(* The server takes the request or refuses it.  It may answer a            *)
(* registration with an echo, which spends it.                             *)
Serve ==
    /\ request # Nothing /\ request' = Nothing
    /\ \/ /\ request[1] = "cancel"
          /\ answer' = "ok" /\ reg' = NoReg /\ UNCHANGED aux
       \/ /\ request[1] = "que"
          /\ answer' = "ok"
          /\ \/ reg' = <<request[2]>> /\ UNCHANGED aux
             \/ reg' = NoReg /\ aux' = Append(aux, posted)
       \/ answer' = "refused" /\ UNCHANGED <<reg, aux>>
    /\ UNCHANGED <<lsn, counts, fired, posted, told, erred>>

(* A post beyond the baseline spends the registration. *)
Notify ==
    /\ reg # NoReg /\ Grown(posted, reg[1]) # {}
    /\ reg' = NoReg
    /\ aux' = IF lsn \in {"off", "cancelling"} THEN aux ELSE Append(aux, posted)
    /\ UNCHANGED <<lsn, counts, fired, request, answer, posted, told, erred>>

-------------------------------------------------------------------------------
Progress == Listening \/ ReadEvent \/ Queued \/ Cancelled
EventsServer == Serve \/ Notify

EventsNext ==
    \/ Listen \/ Wait \/ Cancel \/ AuxFails
    \/ Progress \/ EventsServer
    \/ \E n \in Name : Post(n)

EventsFair == WF_evVars(Progress) /\ WF_evVars(EventsServer)

EventsSpec == EventsInit /\ [][EventsNext]_evVars /\ EventsFair

-------------------------------------------------------------------------------
(* Properties.                                                             *)

(* Between two waits that did not fail, the caller has been told of every  *)
(* count the listener has seen: registering again from the new baseline    *)
(* loses no name.                                                          *)
NothingUntold == lsn = "idle" /\ ~erred => told = counts

(* A waiting caller is woken by any post it was not told of, also by one   *)
(* that came while the registration was spent, as long as no call fails.   *)
PostWakesWaiter ==
    \A n \in Name :
        (lsn = "waiting" /\ posted[n] > told[n] /\ ~erred)
            ~> (lsn = "idle" \/ erred)
==============================================================================
