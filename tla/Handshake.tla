------------------------------ MODULE Handshake ------------------------------
(* Opening an attachment: connect_socket, handshake with its rounds of      *)
(* op_cont_auth, negotiate_crypt, the attach itself and, for a database,    *)
(* the SET BIND pipeline.  Client and server exchange one packet at a time. *)
(* A session key is the number of the SRP challenge it was derived from     *)
(* (0: none); a packet carries the cipher state of its writer in enc.       *)
EXTENDS Naturals, Sequences

CONSTANTS MaxRounds,    \* MAX_RODADAS_CONT_AUTH
          Addresses,    \* most addresses a host name resolves to
          Offers        \* sets of ciphers a server may announce

Ciphers == {"ChaCha", "ChaCha64", "Arc4"}

ASSUME HandshakeAssumption ==
    /\ MaxRounds \in Nat
    /\ Addresses \in Nat
    /\ Offers \subseteq SUBSET Ciphers

VARIABLES
    conf,     \* the fields of ConnectConfig the handshake reads, and the target
    pc,       \* where the client is
    tries,    \* addresses left, and what the attempts ended with
    error,    \* why the call failed
    auth,     \* how the attach packet will present the authentication
    rounds,   \* op_cont_auth received in this run of auth_rounds
    key,      \* session key the client holds
    cipher,   \* cipher and key installed in the client's stream
    toSrv, toCli,              \* the packet on its way, if any
    chal, sKey, sCipher        \* server: challenges sent, key, cipher in use

clientVars == <<pc, tries, error, auth, rounds, key, cipher>>
serverVars == <<chal, sKey, sCipher>>
hsVars == <<conf, clientVars, toSrv, toCli, serverVars>>

Plugins == {"Srp256", "Srp", "Legacy_Auth", "Other"}
SrpPlugins == {"Srp256", "Srp"}
AuthStates == {"proof", "pubkey", "hash", "deferred", "done"}
NoCipher == <<"none", 0>>
Reasons == {"none", "timeout", "io", "auth", "protocol", "server"}

(* A packet of the client: what it presents, and under which cipher. *)
Request(op, data) == [op |-> op, data |-> data, enc |-> cipher]

Configs ==
    [crypt : {"Disabled", "Enabled", "Required"}, legacy : BOOLEAN,
     target : {"database", "service"}, native : BOOLEAN]

HandshakeInit ==
    /\ conf \in Configs
    /\ pc = "connecting"
    /\ tries \in [left : 0..Addresses, timedOut : {FALSE}, failed : {FALSE}]
    /\ error = "none" /\ auth = "deferred" /\ rounds = 0 /\ key = 0
    /\ cipher = NoCipher /\ toSrv = <<>> /\ toCli = <<>>
    /\ chal = 0 /\ sKey = 0 /\ sCipher = NoCipher

-------------------------------------------------------------------------------
(* connect_socket: the addresses in turn.                                  *)

Fail(reason) == pc' = "failed" /\ error' = reason

(* TcpStream::connect succeeds and op_connect is sent. *)
ConnectOk ==
    /\ pc = "connecting" /\ tries.left > 0
    /\ tries' = [tries EXCEPT !.left = 0]
    /\ toSrv' = <<Request("connect", "pubkey")>>
    /\ pc' = "accept"
    /\ UNCHANGED <<conf, error, auth, rounds, key, cipher, toCli, serverVars>>

(* An address fails; only a timeout is remembered as such. *)
ConnectFails ==
    /\ pc = "connecting" /\ tries.left > 0
    /\ \/ tries' = [tries EXCEPT !.left = @ - 1, !.timedOut = TRUE]
       \/ tries' = [tries EXCEPT !.left = @ - 1, !.failed = TRUE]
    /\ UNCHANGED <<conf, pc, error, auth, rounds, key, cipher, toSrv, toCli,
                   serverVars>>

(* The error when no address is left; a name that resolves to none is a    *)
(* protocol error.                                                         *)
SocketError(t) ==
    IF t.failed THEN "io" ELSE IF t.timedOut THEN "timeout" ELSE "protocol"

ConnectGivesUp ==
    /\ pc = "connecting" /\ tries.left = 0
    /\ Fail(SocketError(tries))
    /\ UNCHANGED <<conf, tries, auth, rounds, key, cipher, toSrv, toCli,
                   serverVars>>

-------------------------------------------------------------------------------
(* negotiate_crypt.                                                        *)

(* Strongest cipher announced: ChaCha, then ChaCha64, then Arc4. *)
Preferred(offered) ==
    IF "ChaCha" \in offered THEN "ChaCha"
    ELSE IF "ChaCha64" \in offered THEN "ChaCha64" ELSE "Arc4"

(* Mutant: no cipher in common is plain text under every posture. *)
NegotiateForgivingly(k, offered) ==
    IF conf.crypt = "Disabled" \/ offered = {} THEN "plain"
    ELSE IF k = 0 THEN IF conf.crypt = "Required" THEN "fail" ELSE "plain"
    ELSE Preferred(offered)

Negotiate(k, offered) ==
    IF conf.crypt = "Disabled" THEN "plain"
    ELSE IF k = 0 \/ offered = {}
         THEN IF conf.crypt = "Required" THEN "fail" ELSE "plain"
    ELSE Preferred(offered)

SendAttach(how) ==
    /\ toSrv' = <<Request("attach", how)>>
    /\ pc' = "rounds"
    /\ rounds' = 0
    /\ UNCHANGED <<error, cipher>>

(* Mutant: the cipher is on for op_crypt itself. *)
SendCryptEncrypted(c, k) ==
    /\ toSrv' = <<[op |-> "crypt", data |-> c, enc |-> <<c, k>>]>>
    /\ cipher' = <<c, k>> /\ pc' = "cryptAnswer"
    /\ UNCHANGED <<error, rounds>>

(* op_crypt leaves in plain text; its answer is read under the cipher. *)
SendCrypt(c, k) ==
    /\ toSrv' = <<Request("crypt", c)>>
    /\ cipher' = <<c, k>> /\ pc' = "cryptAnswer"
    /\ UNCHANGED <<error, rounds>>

(* negotiate_crypt and, unless a cipher is asked for, the attach packet. *)
CryptThenAttach(how, k, offered) ==
    LET n == Negotiate(k, offered)
    IN  /\ auth' = how /\ key' = k
        /\ CASE n = "fail"  -> Fail("auth") /\ UNCHANGED <<rounds, cipher, toSrv>>
             [] n = "plain" -> SendAttach(how)
             [] OTHER       -> SendCrypt(n, k)

-------------------------------------------------------------------------------
(* The client reads one packet.                                            *)

Receives(state) == pc = state /\ toCli # <<>>
Packet == toCli[1]
Consume == toCli' = <<>> /\ UNCHANGED <<conf, tries, serverVars>>

(* A packet read under another cipher than it was written is garbage. *)
Readable == Packet.enc = cipher

(* read_accept: op_accept, op_accept_data and op_cond_accept go on. *)
AcceptError(m) ==
    CASE m.op \in {"accept", "accept_data", "cond_accept"} -> "none"
      [] m.op = "reject" -> "auth"
      [] m.op = "error" -> "server"
      [] OTHER -> "protocol"

(* compute_auth: the proof for a challenge. *)
Challenged(m) == m.chal # 0 /\ ~m.authed

(* Mutant: the hash is sent whatever legacy_auth says. *)
FirstMessageAnyPlugin(m) ==
    CASE m.authed \/ m.chal # 0 -> "none"
      [] m.plugin \in SrpPlugins -> "pubkey"
      [] m.plugin = "Legacy_Auth" -> "hash"
      [] OTHER -> "none"

(* initial_auth: what can be sent before a challenge. *)
FirstMessage(m) ==
    CASE m.authed \/ m.chal # 0 -> "none"
      [] m.plugin \in SrpPlugins -> "pubkey"
      [] m.plugin = "Legacy_Auth" /\ conf.legacy -> "hash"
      [] OTHER -> "none"

SendContAuth(data, k) ==
    /\ toSrv' = <<Request("cont_auth", data)>>
    /\ pc' = "authRounds" /\ key' = k /\ auth' = "done" /\ rounds' = 0
    /\ UNCHANGED <<error, cipher>>

(* read_accept and the four branches of handshake. *)
ReadAccept ==
    /\ Receives("accept") /\ Consume
    /\ LET m == Packet
           first == FirstMessage(m)
           continues == m.op = "cond_accept" /\ conf.crypt # "Disabled"
           refusal == IF AcceptError(m) # "none" THEN AcceptError(m)
                      ELSE IF Challenged(m) /\ m.plugin \notin SrpPlugins THEN "auth"
                      ELSE "none"
       IN  CASE refusal # "none" ->
                    /\ Fail(refusal)
                    /\ UNCHANGED <<auth, rounds, key, cipher, toSrv>>
             [] refusal = "none" /\ Challenged(m) ->
                    IF continues THEN SendContAuth("proof", m.chal)
                    ELSE CryptThenAttach("proof", m.chal, m.keys)
             [] refusal = "none" /\ ~Challenged(m) ->
                    IF first # "none" /\ continues THEN SendContAuth(first, 0)
                    ELSE CryptThenAttach(IF first = "none" THEN "deferred" ELSE first,
                                         0, m.keys)

(* responder_cont_auth: the answer to a round, "refuse" where the client    *)
(* ends the handshake instead.                                              *)
Answer(m) ==
    CASE m.plugin = "Legacy_Auth" -> IF conf.legacy THEN "hash" ELSE "refuse"
      [] m.plugin \in SrpPlugins -> IF m.chal = 0 THEN "pubkey" ELSE "proof"
      [] OTHER -> "refuse"

(* Mutant: the packet is consumed and the next one awaited. *)
AbsorbRound(m) ==
    /\ rounds' = rounds + 1
    /\ UNCHANGED <<pc, error, auth, key, cipher, toSrv>>

(* One op_cont_auth in auth_rounds. *)
AnswerRound(m) ==
    /\ rounds' = IF rounds < MaxRounds THEN rounds + 1 ELSE rounds
    /\ UNCHANGED <<auth, cipher>>
    /\ IF rounds = MaxRounds \/ Answer(m) = "refuse"
       THEN Fail("auth") /\ UNCHANGED <<key, toSrv>>
       ELSE /\ key' = IF Answer(m) = "proof" THEN m.chal ELSE key
            /\ toSrv' = <<Request("cont_auth", Answer(m))>>
            /\ UNCHANGED <<pc, error>>

(* auth_rounds, before the cipher (continue_auth) and after the attach     *)
(* packet (attach_response).                                               *)
ReadRound ==
    /\ \E state \in {"authRounds", "rounds"} : Receives(state)
    /\ Consume
    /\ LET m == Packet
       IN  CASE ~Readable \/ m.op \notin {"error", "cont_auth", "response"} ->
                    /\ Fail("protocol")
                    /\ UNCHANGED <<auth, rounds, key, cipher, toSrv>>
             [] Readable /\ m.op = "error" ->
                    Fail("server") /\ UNCHANGED <<auth, rounds, key, cipher, toSrv>>
             [] Readable /\ m.op = "cont_auth" -> AnswerRound(m)
             [] Readable /\ m.op = "response" /\ pc = "authRounds" ->
                    CryptThenAttach("done", key, m.keys)
             [] Readable /\ m.op = "response" /\ pc = "rounds" ->
                    /\ pc' = IF conf.target = "database" /\ conf.native
                             THEN "bind" ELSE "attached"
                    /\ UNCHANGED <<error, auth, rounds, key, cipher, toSrv>>

(* The answer to op_crypt; then the attach packet. *)
ReadCryptAnswer ==
    /\ Receives("cryptAnswer") /\ Consume
    /\ UNCHANGED <<auth, key>>
    /\ IF Readable /\ Packet.op = "response"
       THEN SendAttach(auth)
       ELSE /\ Fail(IF Readable /\ Packet.op = "error" THEN "server" ELSE "protocol")
            /\ UNCHANGED <<rounds, cipher, toSrv>>

(* begin, three SET BIND in one pipeline and the commit; after a refusal   *)
(* open_inner rolls back and drops the connection.                         *)
BindNativeTypes ==
    /\ pc = "bind"
    /\ \/ pc' = "attached" /\ UNCHANGED error
       \/ Fail("server")
    /\ UNCHANGED <<conf, tries, auth, rounds, key, cipher, toSrv, toCli, serverVars>>

(* The link breaks or the server goes away while the client reads. *)
ReadFails ==
    /\ pc \in {"accept", "authRounds", "rounds", "cryptAnswer"}
    /\ Fail("io")
    /\ UNCHANGED <<conf, tries, auth, rounds, key, cipher, toSrv, toCli, serverVars>>

Client ==
    \/ ConnectOk \/ ConnectFails \/ ConnectGivesUp
    \/ ReadAccept \/ ReadRound \/ ReadCryptAnswer \/ BindNativeTypes

-------------------------------------------------------------------------------
(* The server.  It may refuse anything, ask for further rounds, and        *)
(* announce ciphers only where it holds a key for them.                    *)

SrvReceives(op) == toSrv # <<>> /\ toSrv[1].op = op /\ pc # "failed"

Reply(op, plugin, c, keys) ==
    /\ toSrv' = <<>>
    /\ toCli' = <<[op |-> op, plugin |-> plugin, chal |-> c, keys |-> keys,
                   authed |-> FALSE, enc |-> sCipher]>>
    /\ UNCHANGED <<conf, clientVars>>

(* op_accept, op_accept_data or op_cond_accept, or a refusal. *)
SrvAccept ==
    /\ SrvReceives("connect")
    /\ \/ /\ \E op \in {"reject", "error", "alien"} : Reply(op, "Other", 0, {})
          /\ UNCHANGED serverVars
       \/ /\ toSrv' = <<>>
          /\ \E op \in {"accept", "accept_data", "cond_accept"}, p \in Plugins,
                c \in {0, 1}, a \in BOOLEAN, keys \in Offers :
                /\ c = 0 => keys = {}
                /\ op = "accept" => a /\ c = 0 /\ p = "Other"
                /\ toCli' = <<[op |-> op, plugin |-> p, chal |-> c, keys |-> keys,
                               authed |-> a, enc |-> sCipher]>>
                /\ chal' = c /\ sKey' = c
          /\ UNCHANGED <<conf, clientVars, sCipher>>

(* What the server does with authentication data: accept it, refuse it, or *)
(* ask for more, with or without a new challenge.  A key comes from a      *)
(* proof.                                                                  *)
SrvAuthenticate ==
    /\ \E op \in {"cont_auth", "attach"} : SrvReceives(op)
    /\ UNCHANGED sCipher
    /\ LET data == toSrv[1].data
       IN  \/ /\ data # "pubkey"
              /\ sKey' = IF data = "proof" \/ toSrv[1].op = "attach" THEN sKey ELSE 0
              /\ \E keys \in Offers : (sKey' = 0 => keys = {}) /\ Reply("response", "Other", 0, keys)
              /\ UNCHANGED chal
           \/ /\ \E op \in {"error", "alien"} : Reply(op, "Other", 0, {})
              /\ UNCHANGED <<chal, sKey>>
           \/ /\ \E p \in Plugins : Reply("cont_auth", p, 0, {})
              /\ UNCHANGED <<chal, sKey>>
           \/ /\ \E p \in SrpPlugins : Reply("cont_auth", p, chal + 1, {})
              /\ chal' = chal + 1 /\ sKey' = chal + 1

(* op_crypt: the cipher is on for the answer; a refusal is in plain text. *)
SrvCrypt ==
    /\ SrvReceives("crypt")
    /\ \/ /\ sCipher' = <<toSrv[1].data, sKey>>
          /\ toSrv' = <<>>
          /\ toCli' = <<[op |-> "response", plugin |-> "Other", chal |-> 0, keys |-> {},
                         authed |-> FALSE, enc |-> sCipher']>>
          /\ UNCHANGED <<conf, clientVars, chal, sKey>>
       \/ Reply("error", "Other", 0, {}) /\ UNCHANGED serverVars

Server == SrvAccept \/ SrvAuthenticate \/ SrvCrypt

HandshakeNext == Client \/ ReadFails \/ Server

HandshakeFair == WF_hsVars(Client) /\ WF_hsVars(Server)

HandshakeSpec == HandshakeInit /\ [][HandshakeNext]_hsVars /\ HandshakeFair

-------------------------------------------------------------------------------
(* Properties.                                                             *)

(* Both ends change ciphers at the same packet and under the same key:     *)
(* whatever a live client sends or is told, except the refusal that ends   *)
(* the handshake, is read under the cipher it was written with.            *)
CipherAgreed ==
    pc # "failed" =>
        /\ toSrv # <<>> => toSrv[1].enc = sCipher
        /\ toCli # <<>> /\ Packet.op # "error" => Readable

(* The password's legacy hash never leaves a client that disallows it,     *)
(* whichever of the paths the server leads it through.                     *)
LegacyOnlyIfAllowed ==
    toSrv # <<>> /\ toSrv[1].data = "hash" => conf.legacy

(* The outcome as the caller sees it. *)
Outcome ==
    CASE pc = "failed" -> "refused"
      [] pc = "attached" -> IF cipher = NoCipher THEN "plain" ELSE "secure"
      [] OTHER -> "opening"

Policy == INSTANCE Attachment WITH state <- Outcome, posture <- conf.crypt

(* The WireCrypt posture decides how an attachment may end: Required never *)
(* ends in plain text, Disabled never encrypted.                           *)
PostureKept == Policy!Safety

(* Opening an attachment ends, however many rounds the server asks for:    *)
(* client and server never both wait.                                      *)
OpeningEnds == <>(pc \in {"attached", "failed"})
==============================================================================
