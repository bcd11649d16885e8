------------------------------ MODULE Service -------------------------------
(* The service manager after its attach: start an action, then read its    *)
(* output piece by piece until an empty one (collect_output, fetch_users). *)
(* A byte is part i of the n bytes of an item: of a character of the text, *)
(* or of the record of a user.                                             *)
EXTENDS Naturals, Sequences, SequencesExt, Selections

CONSTANTS Outputs,      \* outputs of actions: sequences of items
          MaxChunk      \* bound: bytes in one answer to op_service_info

(* An item is a name and a number of bytes; the items of an output have    *)
(* names of their own, so that the properties can tell them apart.         *)
Item == [id : Nat \ {0}, n : Nat \ {0}]

ASSUME ServiceAssumption ==
    /\ MaxChunk \in Nat \ {0}
    /\ \A o \in Outputs :
          /\ o \in Seq(Item)
          /\ \A i, j \in 1..Len(o) : o[i].id = o[j].id => i = j

VARIABLES
    call,       \* what the client runs (text, users), or how the last ended
    payload,    \* fetch_users: the pieces joined so far
    out,        \* items decoded
    left,       \* server: bytes of the output not yet sent
    whole,      \* history: the items of the output
    cut         \* history: items split between two answers

svVars == <<call, payload, out, left, whole, cut>>

BytesOf(item) == [i \in 1..item.n |-> [id |-> item.id, i |-> i, n |-> item.n]]

Bytes(items) == FlattenSeq([j \in DOMAIN items |-> BytesOf(items[j])])

Ids(items) == [j \in DOMAIN items |-> items[j].id]

(* The item at the i-th byte, decoded where it starts: whole if all its    *)
(* bytes are there.  Bytes whose start is missing stand for themselves.    *)
Lost == 0
ItemAt(bytes, i) ==
    LET b == bytes[i]
    IN  IF b.i = 1 /\ i + b.n - 1 <= Len(bytes) THEN <<b.id>>
        ELSE IF b.i > 1 /\ i >= b.i THEN <<>>
        ELSE <<Lost>>

(* String::from_utf8_lossy, and parse_users of a whole list. *)
Decoded(bytes) == FlattenSeq([i \in DOMAIN bytes |-> ItemAt(bytes, i)])

ServiceInit ==
    /\ call = "none" /\ payload = <<>> /\ out = <<>>
    /\ left = <<>> /\ whole = <<>> /\ cut = {}

Between == call \in {"none", "done", "failed"}

(* start: the action runs; a refusal changes nothing. *)
Start(kind, output) ==
    /\ Between
    /\ call' = kind /\ payload' = <<>> /\ out' = <<>> /\ cut' = {}
    /\ whole' = Ids(output) /\ left' = Bytes(output)

(* Mutant: each piece is parsed by itself. *)
CollectParsing(chunk) ==
    out' = out \o Decoded(chunk) /\ UNCHANGED payload

(* collect_output decodes every piece; fetch_users joins them first. *)
Collect(chunk) ==
    IF call = "users"
    THEN payload' = payload \o chunk /\ UNCHANGED out
    ELSE out' = out \o Decoded(chunk) /\ UNCHANGED payload

(* One op_service_info and its answer, cut anywhere by the server. *)
ReadChunk ==
    /\ call \in {"text", "users"} /\ left # <<>>
    /\ \E k \in 1..MaxChunk :
          /\ k <= Len(left)
          /\ Collect(SubSeq(left, 1, k))
          /\ left' = SubSeq(left, k + 1, Len(left))
          /\ cut' = IF left[k].i < left[k].n THEN cut \cup {left[k].id} ELSE cut
    /\ UNCHANGED <<call, whole>>

(* The empty piece ends the loop; the list of users is decoded now. *)
ReadEnd ==
    /\ call \in {"text", "users"} /\ left = <<>>
    /\ call' = "done"
    /\ out' = IF call = "users" THEN Decoded(payload) ELSE out
    /\ UNCHANGED <<payload, left, whole, cut>>

(* An answer is an error or the link breaks: what was collected is gone.   *)
CollectFails ==
    /\ call \in {"text", "users"}
    /\ call' = "failed" /\ payload' = <<>> /\ out' = <<>>
    /\ UNCHANGED <<left, whole, cut>>

(* close: op_service_detach consumes the manager, whatever the answer. *)
Detach ==
    /\ Between /\ call' = "closed"
    /\ UNCHANGED <<payload, out, left, whole, cut>>

ServiceNext ==
    \/ \E kind \in {"text", "users"}, o \in Outputs : Start(kind, o)
    \/ ReadChunk \/ ReadEnd \/ CollectFails \/ Detach

ServiceSpec == ServiceInit /\ [][ServiceNext]_svVars

-------------------------------------------------------------------------------
(* Properties.                                                             *)

(* However the server cuts its output: fetch_users returns every user once *)
(* and in order; collect_output returns every character in order except    *)
(* those an answer ended inside of, and nothing that was not sent.         *)
OutputComplete ==
    call = "done" =>
        IF payload # <<>> THEN out = whole
        ELSE Keep(out, Nat \ {Lost}) = Keep(whole, Nat \ cut)
==============================================================================
