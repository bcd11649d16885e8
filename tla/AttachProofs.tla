----------------------------- MODULE AttachProofs -----------------------------
(***************************************************************************)
(* Theorems about an attachment and what is run on it: how it is opened,   *)
(* for any number of rounds, addresses and challenges and any announcement *)
(* of ciphers; its event listener, for any names and any number of posts;  *)
(* the service manager, for any outputs cut in any pieces.                 *)
(***************************************************************************)
EXTENDS Handshake, Events, Service, SequenceLemmas

-------------------------------------------------------------------------------
(* What the two longest steps of the client amount to.                     *)

(* negotiate_crypt fails, goes on in plain text or asks for a cipher. *)
Refuses == pc' = "failed" /\ UNCHANGED <<cipher, toSrv>>
GoesPlain(how) ==
    /\ conf.crypt # "Required"
    /\ pc' = "rounds" /\ auth' = how /\ UNCHANGED cipher
    /\ toSrv' = <<Request("attach", how)>>
Encrypts(how, k, offered) ==
    /\ conf.crypt # "Disabled" /\ offered # {} /\ k # 0
    /\ pc' = "cryptAnswer" /\ auth' = how
    /\ \E c \in Ciphers : cipher' = <<c, k>> /\ toSrv' = <<Request("crypt", c)>>

LEMMA Negotiated ==
    ASSUME NEW how, NEW k, NEW offered, CryptThenAttach(how, k, offered),
           conf.crypt \in {"Disabled", "Enabled", "Required"}
    PROVE  /\ auth' = how /\ key' = k
           /\ Refuses \/ GoesPlain(how) \/ Encrypts(how, k, offered)
<1>1. auth' = how /\ key' = k
  BY DEF CryptThenAttach
<1>2. CASE Negotiate(k, offered) = "fail"
  BY <1>1, <1>2 DEF CryptThenAttach, Fail, Refuses
<1>3. CASE Negotiate(k, offered) = "plain"
  <2>1. SendAttach(how)
    BY <1>3 DEF CryptThenAttach
  <2>2. conf.crypt # "Required"
    BY <1>3 DEF Negotiate, Preferred
  <2>3. QED
    BY <1>1, <2>1, <2>2 DEF SendAttach, GoesPlain
<1>4. CASE Negotiate(k, offered) \notin {"fail", "plain"}
  <2>1. /\ conf.crypt # "Disabled" /\ offered # {} /\ k # 0
        /\ Negotiate(k, offered) = Preferred(offered)
    BY <1>4 DEF Negotiate
  <2>2. Preferred(offered) \in Ciphers
    BY DEF Preferred, Ciphers
  <2>3. SendCrypt(Preferred(offered), k)
    BY <1>4, <2>1 DEF CryptThenAttach
  <2>4. QED
    BY <1>1, <2>1, <2>2, <2>3 DEF SendCrypt, Encrypts
<1>5. QED
  BY <1>2, <1>3, <1>4

(* Authentication data a client may send, with the key it then holds. *)
MaySend(data, k, c) ==
    \/ data = "proof" /\ k = c /\ c # 0
    \/ data \in {"pubkey", "deferred"} /\ k = 0
    \/ data = "hash" /\ conf.legacy /\ k = 0

LEMMA AcceptRead ==
    ASSUME ReadAccept, conf.crypt \in {"Disabled", "Enabled", "Required"}
    PROVE  \/ pc' = "failed" /\ UNCHANGED <<auth, key, cipher, toSrv>>
           \/ \E data, k : MaySend(data, k, Packet.chal) /\ SendContAuth(data, k)
           \/ \E how, k : MaySend(how, k, Packet.chal) /\ CryptThenAttach(how, k, Packet.keys)
<1> DEFINE m == Packet
           first == FirstMessage(m)
           continues == m.op = "cond_accept" /\ conf.crypt # "Disabled"
<1>1. first \in {"none", "pubkey", "hash"} /\ (first = "hash" => conf.legacy)
  BY DEF FirstMessage
<1>2. CASE AcceptError(m) # "none" \/ (Challenged(m) /\ m.plugin \notin SrpPlugins)
  <2> DEFINE refusal == IF AcceptError(m) # "none" THEN AcceptError(m) ELSE "auth"
  <2>1. refusal # "none" /\ Fail(refusal) /\ UNCHANGED <<auth, rounds, key, cipher, toSrv>>
    BY <1>2 DEF ReadAccept
  <2>2. QED
    BY <2>1 DEF Fail
<1>3. CASE AcceptError(m) = "none" /\ Challenged(m) /\ m.plugin \in SrpPlugins
  <2>1. MaySend("proof", m.chal, m.chal)
    BY <1>3 DEF MaySend, Challenged
  <2>2. IF continues THEN SendContAuth("proof", m.chal)
        ELSE CryptThenAttach("proof", m.chal, m.keys)
    BY <1>3 DEF ReadAccept
  <2>3. QED
    BY <2>1, <2>2
<1>4. CASE AcceptError(m) = "none" /\ ~Challenged(m) /\ first # "none" /\ continues
  <2>1. MaySend(first, 0, m.chal)
    BY <1>1, <1>4 DEF MaySend
  <2>2. SendContAuth(first, 0)
    BY <1>4 DEF ReadAccept
  <2>3. QED
    BY <2>1, <2>2
<1>5. CASE AcceptError(m) = "none" /\ ~Challenged(m) /\ ~(first # "none" /\ continues)
  <2>1. MaySend(IF first = "none" THEN "deferred" ELSE first, 0, m.chal)
    BY <1>1 DEF MaySend
  <2>2. CryptThenAttach(IF first = "none" THEN "deferred" ELSE first, 0, m.keys)
    BY <1>5 DEF ReadAccept
  <2>3. QED
    BY <2>1, <2>2
<1>6. QED
  BY <1>2, <1>3, <1>4, <1>5

LEMMA RoundRead ==
    ASSUME ReadRound
    PROVE  \/ pc' = "failed" /\ UNCHANGED <<auth, key, cipher, toSrv>>
           \/ /\ Packet.op = "cont_auth" /\ UNCHANGED <<pc, auth, cipher>>
              /\ \E data \in {"hash", "pubkey", "proof"} :
                    /\ toSrv' = <<Request("cont_auth", data)>>
                    /\ data = "hash" => conf.legacy
                    /\ data = "proof" => Packet.chal # 0
                    /\ key' = IF data = "proof" THEN Packet.chal ELSE key
           \/ /\ pc = "authRounds" /\ Packet.op = "response"
              /\ CryptThenAttach("done", key, Packet.keys)
           \/ /\ pc = "rounds" /\ pc' \in {"bind", "attached"}
              /\ UNCHANGED <<auth, key, cipher, toSrv>>
<1> DEFINE m == Packet
<1>0. pc \in {"authRounds", "rounds"}
  BY DEF ReadRound, Receives
<1>1. CASE ~Readable \/ m.op \notin {"error", "cont_auth", "response"}
  BY <1>1 DEF ReadRound, Fail
<1>2. CASE Readable /\ m.op = "error"
  BY <1>2 DEF ReadRound, Fail
<1>3. CASE Readable /\ m.op = "cont_auth"
  <2>1. AnswerRound(m)
    BY <1>3 DEF ReadRound
  <2>2. CASE rounds = MaxRounds \/ Answer(m) = "refuse"
    BY <2>1, <2>2 DEF AnswerRound, Fail
  <2>3. CASE ~(rounds = MaxRounds \/ Answer(m) = "refuse")
    <3>1. /\ Answer(m) \in {"hash", "pubkey", "proof"}
          /\ Answer(m) = "hash" => conf.legacy
          /\ Answer(m) = "proof" => m.chal # 0
      BY <2>3 DEF Answer
    <3>2. QED
      BY <1>3, <2>1, <2>3, <3>1 DEF AnswerRound
  <2>4. QED
    BY <2>2, <2>3
<1>4. CASE Readable /\ m.op = "response" /\ pc = "authRounds"
  BY <1>4 DEF ReadRound
<1>5. CASE Readable /\ m.op = "response" /\ pc = "rounds"
  BY <1>5 DEF ReadRound
<1>6. QED
  BY <1>0, <1>1, <1>2, <1>3, <1>4, <1>5

-------------------------------------------------------------------------------
(* The posture and the cipher.                                             *)

Steps == {"connecting", "accept", "authRounds", "cryptAnswer", "rounds", "bind",
          "attached", "failed"}

(* Which ciphers a client may have at each point, and the way its          *)
(* authentication is presented.                                            *)
ClientInv ==
    /\ conf \in Configs
    /\ pc \in Steps
    /\ pc \in {"connecting", "accept", "authRounds"} => cipher = NoCipher
    /\ pc = "cryptAnswer" => cipher # NoCipher /\ conf.crypt # "Disabled"
    /\ pc \in {"rounds", "bind", "attached"} =>
           /\ cipher = NoCipher => conf.crypt # "Required"
           /\ cipher # NoCipher => conf.crypt # "Disabled"
    /\ auth = "hash" => conf.legacy
    /\ toSrv # << >> /\ toSrv[1].data = "hash" => conf.legacy

LEMMA ConfTypes ==
    ClientInv => conf.crypt \in {"Disabled", "Enabled", "Required"}
  BY DEF ClientInv, Configs

LEMMA CiphersAreSome ==
    ASSUME NEW c \in Ciphers, NEW k
    PROVE  << c, k >> # NoCipher /\ c # "hash"
  BY DEF Ciphers, NoCipher

(* The step from the answers of the accept or of the rounds. *)
LEMMA AttachKeeps ==
    ASSUME ClientInv, NEW how, NEW k, NEW offered, CryptThenAttach(how, k, offered),
           cipher = NoCipher, UNCHANGED conf, how = "hash" => conf.legacy
    PROVE  ClientInv'
<1>1. /\ auth' = how
      /\ Refuses \/ GoesPlain(how) \/ Encrypts(how, k, offered)
  BY Negotiated, ConfTypes
<1>2. CASE Refuses
  BY <1>1, <1>2 DEF Refuses, ClientInv, Steps
<1>3. CASE GoesPlain(how)
  BY <1>1, <1>3 DEF GoesPlain, ClientInv, Steps, Request
<1>4. CASE Encrypts(how, k, offered)
  <2>1. PICK c \in Ciphers : cipher' = << c, k >> /\ toSrv' = << Request("crypt", c) >>
    BY <1>4 DEF Encrypts
  <2>2. cipher' # NoCipher /\ toSrv'[1].data # "hash"
    BY <2>1, CiphersAreSome DEF Request
  <2>3. QED
    BY <1>1, <1>4, <2>2 DEF Encrypts, ClientInv, Steps
<1>5. QED
  BY <1>1, <1>2, <1>3, <1>4

LEMMA ClientInductive == ClientInv /\ [HandshakeNext]_hsVars => ClientInv'
<1> SUFFICES ASSUME ClientInv, [HandshakeNext]_hsVars
             PROVE  ClientInv'
  OBVIOUS
<1>1. CASE ConnectOk
  BY <1>1 DEF ConnectOk, ClientInv, Steps, Request
<1>2. CASE ConnectFails \/ ConnectGivesUp \/ BindNativeTypes \/ ReadFails
  BY <1>2 DEF ConnectFails, ConnectGivesUp, BindNativeTypes, ReadFails, Fail, ClientInv, Steps
<1>3. CASE ReadAccept
  <2>0. UNCHANGED conf /\ cipher = NoCipher
    BY <1>3 DEF ReadAccept, Consume, Receives, ClientInv
  <2>1. CASE pc' = "failed" /\ UNCHANGED <<auth, key, cipher, toSrv>>
    BY <2>0, <2>1 DEF ClientInv, Steps
  <2>2. ASSUME NEW data, NEW k, MaySend(data, k, Packet.chal), SendContAuth(data, k)
        PROVE  ClientInv'
    BY <2>0, <2>2 DEF MaySend, SendContAuth, Request, ClientInv, Steps
  <2>3. ASSUME NEW how, NEW k, MaySend(how, k, Packet.chal),
               CryptThenAttach(how, k, Packet.keys)
        PROVE  ClientInv'
    BY <2>0, <2>3, AttachKeeps DEF MaySend
  <2>4. QED
    BY <1>3, <2>1, <2>2, <2>3, AcceptRead, ConfTypes
<1>4. CASE ReadRound
  <2>0. UNCHANGED conf
    BY <1>4 DEF ReadRound, Consume
  <2>1. CASE pc' = "failed" /\ UNCHANGED <<auth, key, cipher, toSrv>>
    BY <2>0, <2>1 DEF ClientInv, Steps
  <2>2. ASSUME UNCHANGED <<pc, auth, cipher>>,
               NEW data \in {"hash", "pubkey", "proof"},
               toSrv' = << Request("cont_auth", data) >>, data = "hash" => conf.legacy
        PROVE  ClientInv'
    BY <2>0, <2>2 DEF Request, ClientInv
  <2>3. CASE pc = "authRounds" /\ CryptThenAttach("done", key, Packet.keys)
    BY <2>0, <2>3, AttachKeeps DEF ClientInv
  <2>4. CASE pc = "rounds" /\ pc' \in {"bind", "attached"} /\ UNCHANGED <<auth, key, cipher, toSrv>>
    BY <2>0, <2>4 DEF ClientInv, Steps
  <2>5. QED
    BY <1>4, <2>1, <2>2, <2>3, <2>4, RoundRead
<1>5. CASE ReadCryptAnswer
  BY <1>5 DEF ReadCryptAnswer, Receives, Consume, SendAttach, Fail, Request, ClientInv, Steps
<1>6. CASE Server
  <2>1. UNCHANGED <<conf, clientVars>> /\ toSrv' = << >>
    BY <1>6 DEF Server, SrvAccept, SrvAuthenticate, SrvCrypt, Reply
  <2>2. QED
    BY <2>1 DEF clientVars, ClientInv
<1>7. CASE UNCHANGED hsVars
  BY <1>7 DEF hsVars, clientVars, ClientInv
<1>8. QED
  BY <1>1, <1>2, <1>3, <1>4, <1>5, <1>6, <1>7 DEF HandshakeNext, Client

LEMMA ClientInit == HandshakeInit => ClientInv
  BY DEF HandshakeInit, ClientInv, Steps

(***************************************************************************)
(* The legacy hash of the password never leaves a client that disallows    *)
(* it, whatever the server asks for and in whichever round.                *)
(***************************************************************************)
THEOREM HashWithheld == HandshakeSpec => []LegacyOnlyIfAllowed
<1>1. ClientInv => LegacyOnlyIfAllowed
  BY DEF ClientInv, LegacyOnlyIfAllowed
<1>2. QED
  BY <1>1, ClientInit, ClientInductive, PTL DEF HandshakeSpec

(* A point is left for good once the call has ended. *)
LEMMA OutcomeStep ==
    ASSUME ClientInv, ClientInv', [HandshakeNext]_hsVars
    PROVE  [Policy!Open]_<<Outcome, conf.crypt>>
<1>1. UNCHANGED conf
  BY DEF HandshakeNext, Client, ConnectOk, ConnectFails, ConnectGivesUp, ReadAccept, ReadRound,
         ReadCryptAnswer, BindNativeTypes, ReadFails, Server, SrvAccept, SrvAuthenticate,
         SrvCrypt, Reply, Consume, hsVars
<1>2. CASE pc \in {"failed", "attached"}
  <2>1. UNCHANGED <<pc, cipher>>
    BY <1>2 DEF HandshakeNext, Client, ConnectOk, ConnectFails, ConnectGivesUp, ReadAccept,
         ReadRound, ReadCryptAnswer, BindNativeTypes, ReadFails, Server, SrvAccept,
         SrvAuthenticate, SrvCrypt, Reply, Receives, hsVars, clientVars
  <2>2. QED
    BY <1>1, <2>1 DEF Outcome
<1>3. CASE pc \notin {"failed", "attached"}
  <2>1. Outcome = "opening"
    BY <1>3 DEF Outcome
  <2>2. CASE pc' \notin {"failed", "attached"}
    BY <1>1, <2>1, <2>2 DEF Outcome
  <2>3. CASE pc' \in {"failed", "attached"}
    <3>1. Outcome' \in Policy!Allowed(conf.crypt)
      BY <1>1, <2>3 DEF Outcome, Policy!Allowed, ClientInv
    <3>2. QED
      BY <1>1, <2>1, <3>1 DEF Policy!Open
  <2>4. QED
    BY <2>2, <2>3
<1>4. QED
  BY <1>2, <1>3

(***************************************************************************)
(* The handshake implements the promise of Attachment: however the server  *)
(* accepts, it ends in plain text or encrypted only as the posture allows. *)
(***************************************************************************)
THEOREM PostureDecides == HandshakeSpec => PostureKept
<1>1. HandshakeInit => Policy!Init
  BY DEF HandshakeInit, Policy!Init, Outcome, Configs, Policy!Postures
<1>2. QED
  BY <1>1, ClientInit, ClientInductive, OutcomeStep, PTL
     DEF HandshakeSpec, PostureKept, Policy!Safety

-------------------------------------------------------------------------------
(* Both ends of the cipher.                                                *)

(* At most one packet is on its way, and what the client asked for is what *)
(* it waits for.                                                           *)
OnePacket ==
    /\ toSrv # << >> => toCli = << >>
    /\ pc = "connecting" => toSrv = << >> /\ toCli = << >>
    /\ pc \in {"bind", "attached"} => toSrv = << >>
    /\ toSrv # << >> =>
           /\ pc = "accept" => toSrv[1].op = "connect"
           /\ pc = "authRounds" => toSrv[1].op = "cont_auth"
           /\ pc = "rounds" => toSrv[1].op \in {"attach", "cont_auth"}
           /\ pc = "cryptAnswer" => toSrv[1].op = "crypt"

(* The two ends have one cipher, except between a request for one and its  *)
(* answer: then the server will take the one the client has.               *)
SameCipher ==
    /\ pc \notin {"cryptAnswer", "failed"} =>
           /\ sCipher = cipher
           /\ toSrv # << >> => toSrv[1].enc = cipher
           /\ toCli # << >> => toCli[1].enc = cipher
    /\ pc = "cryptAnswer" /\ toSrv # << >> =>
           /\ sCipher = NoCipher /\ toSrv[1].enc = NoCipher
           /\ cipher = << toSrv[1].data, sKey >>
    /\ pc = "cryptAnswer" /\ toCli # << >> =>
           toCli[1].op = "error" \/ (sCipher = cipher /\ toCli[1].enc = cipher)

(* Where the client may come to ask for a cipher, its key is the server's. *)
SameKey ==
    /\ pc \in {"accept", "authRounds", "rounds"} /\ toCli # << >> =>
           (toCli[1].chal # 0 => toCli[1].chal = sKey)
    /\ pc = "authRounds" /\ toSrv # << >> /\ toSrv[1].data = "proof" => key = sKey
    /\ pc = "authRounds" /\ toCli # << >> /\ toCli[1].op = "response" =>
           (toCli[1].keys # {} => key = sKey)

CipherInv == ClientInv /\ OnePacket /\ SameCipher /\ SameKey

(* CryptThenAttach under the server's key, or under no key. *)
LEMMA AttachAgrees ==
    ASSUME CipherInv, NEW how, NEW k, NEW offered, CryptThenAttach(how, k, offered),
           pc \in {"accept", "authRounds"}, toSrv = << >>, toCli' = << >>,
           UNCHANGED <<conf, serverVars>>, ClientInv',
           k # 0 /\ offered # {} => k = sKey
    PROVE  CipherInv'
<1>1. Refuses \/ GoesPlain(how) \/ Encrypts(how, k, offered)
  BY Negotiated, ConfTypes DEF CipherInv
<1>2. cipher = NoCipher /\ sCipher = NoCipher
  BY DEF CipherInv, ClientInv, SameCipher
<1>3. CASE Refuses
  BY <1>3 DEF Refuses, CipherInv, OnePacket, SameCipher, SameKey
<1>4. CASE GoesPlain(how)
  BY <1>2, <1>4 DEF GoesPlain, Request, serverVars, CipherInv, OnePacket, SameCipher, SameKey
<1>5. CASE Encrypts(how, k, offered)
  <2>1. PICK c \in Ciphers : cipher' = << c, k >> /\ toSrv' = << Request("crypt", c) >>
    BY <1>5 DEF Encrypts
  <2>2. toSrv'[1] = [op |-> "crypt", data |-> c, enc |-> cipher]
    BY <2>1 DEF Request
  <2>3. k = sKey /\ pc' = "cryptAnswer"
    BY <1>5 DEF Encrypts
  <2>4. QED
    BY <1>2, <2>1, <2>2, <2>3 DEF serverVars, CipherInv, OnePacket, SameCipher, SameKey
<1>6. QED
  BY <1>1, <1>3, <1>4, <1>5

LEMMA CipherInductive == CipherInv /\ [HandshakeNext]_hsVars => CipherInv'
<1> SUFFICES ASSUME CipherInv, [HandshakeNext]_hsVars
             PROVE  CipherInv'
  OBVIOUS
<1>0. ClientInv /\ ClientInv'
  BY ClientInductive DEF CipherInv
<1>1. CASE ConnectOk
  BY <1>0, <1>1
     DEF ConnectOk, Request, serverVars, CipherInv, OnePacket, SameCipher, SameKey, ClientInv
<1>2. CASE ConnectFails \/ ConnectGivesUp \/ ReadFails
  BY <1>0, <1>2
     DEF ConnectFails, ConnectGivesUp, ReadFails, Fail, serverVars,
         CipherInv, OnePacket, SameCipher, SameKey
<1>3. CASE BindNativeTypes
  BY <1>0, <1>3
     DEF BindNativeTypes, Fail, serverVars, CipherInv, OnePacket, SameCipher, SameKey
<1>4. CASE ReadAccept
  <2>0. /\ UNCHANGED <<conf, serverVars>> /\ pc = "accept" /\ toSrv = << >> /\ toCli' = << >>
        /\ cipher = NoCipher /\ sCipher = NoCipher
        /\ Packet.chal # 0 => Packet.chal = sKey
    BY <1>0, <1>4
       DEF ReadAccept, Receives, Consume, Packet, CipherInv, ClientInv, OnePacket, SameCipher,
           SameKey
  <2>1. CASE pc' = "failed" /\ UNCHANGED <<auth, key, cipher, toSrv>>
    BY <1>0, <2>0, <2>1 DEF CipherInv, OnePacket, SameCipher, SameKey
  <2>2. ASSUME NEW data, NEW k, MaySend(data, k, Packet.chal), SendContAuth(data, k)
        PROVE  CipherInv'
    <3>1. toSrv'[1] = [op |-> "cont_auth", data |-> data, enc |-> NoCipher]
      BY <2>0, <2>2 DEF SendContAuth, Request
    <3>2. data = "proof" => k = sKey
      BY <2>0, <2>2 DEF MaySend
    <3>3. QED
      BY <1>0, <2>0, <2>2, <3>1, <3>2
         DEF SendContAuth, serverVars, CipherInv, OnePacket, SameCipher, SameKey
  <2>3. ASSUME NEW how, NEW k, MaySend(how, k, Packet.chal),
               CryptThenAttach(how, k, Packet.keys)
        PROVE  CipherInv'
    <3>1. k # 0 => k = sKey
      BY <2>0, <2>3 DEF MaySend
    <3>2. QED
      BY <1>0, <2>0, <2>3, <3>1, AttachAgrees
  <2>4. QED
    BY <1>0, <1>4, <2>1, <2>2, <2>3, AcceptRead, ConfTypes
<1>5. CASE ReadRound
  <2>0. /\ UNCHANGED <<conf, serverVars>> /\ toSrv = << >> /\ toCli' = << >> /\ toCli # << >>
        /\ pc \in {"authRounds", "rounds"} /\ sCipher = cipher
    BY <1>5 DEF ReadRound, Receives, Consume, CipherInv, OnePacket, SameCipher
  <2>1. CASE pc' = "failed" /\ UNCHANGED <<auth, key, cipher, toSrv>>
    BY <1>0, <2>0, <2>1 DEF CipherInv, OnePacket, SameCipher, SameKey
  <2>2. ASSUME UNCHANGED <<pc, auth, cipher>>,
               NEW data \in {"hash", "pubkey", "proof"},
               toSrv' = << Request("cont_auth", data) >>,
               data = "proof" => Packet.chal # 0,
               key' = IF data = "proof" THEN Packet.chal ELSE key
        PROVE  CipherInv'
    <3>1. toSrv'[1] = [op |-> "cont_auth", data |-> data, enc |-> cipher] /\ toSrv' # << >>
      BY <2>2 DEF Request
    <3>2. data = "proof" => key' = sKey
      BY <2>0, <2>2 DEF Packet, CipherInv, SameKey
    <3>3. QED
      BY <1>0, <2>0, <2>2, <3>1, <3>2
         DEF serverVars, CipherInv, OnePacket, SameCipher, SameKey
  <2>3. CASE /\ pc = "authRounds" /\ Packet.op = "response"
             /\ CryptThenAttach("done", key, Packet.keys)
    <3>1. Packet.keys # {} => key = sKey
      BY <2>0, <2>3 DEF Packet, CipherInv, SameKey
    <3>2. QED
      BY <1>0, <2>0, <2>3, <3>1, AttachAgrees
  <2>4. CASE pc = "rounds" /\ pc' \in {"bind", "attached"} /\ UNCHANGED <<auth, key, cipher, toSrv>>
    BY <1>0, <2>0, <2>4 DEF serverVars, CipherInv, OnePacket, SameCipher, SameKey
  <2>5. QED
    BY <1>5, <2>1, <2>2, <2>3, <2>4, RoundRead
<1>6. CASE ReadCryptAnswer
  <2>0. /\ UNCHANGED <<conf, serverVars, key>> /\ toSrv = << >> /\ toCli' = << >>
        /\ pc = "cryptAnswer" /\ toCli # << >>
        /\ Packet.op = "error" \/ sCipher = cipher
    BY <1>6
       DEF ReadCryptAnswer, Receives, Consume, Packet, CipherInv, OnePacket, SameCipher
  <2>1. CASE Readable /\ Packet.op = "response"
    <3>1. SendAttach(auth)
      BY <1>6, <2>1 DEF ReadCryptAnswer
    <3>2. toSrv'[1] = [op |-> "attach", data |-> auth, enc |-> cipher] /\ toSrv' # << >>
      BY <3>1 DEF SendAttach, Request
    <3>3. QED
      BY <1>0, <2>0, <2>1, <3>1, <3>2
         DEF SendAttach, serverVars, CipherInv, OnePacket, SameCipher, SameKey
  <2>2. CASE ~(Readable /\ Packet.op = "response")
    <3>1. pc' = "failed" /\ UNCHANGED toSrv
      BY <1>6, <2>2 DEF ReadCryptAnswer, Fail
    <3>2. QED
      BY <1>0, <2>0, <3>1 DEF CipherInv, OnePacket, SameCipher, SameKey
  <2>3. QED
    BY <2>1, <2>2
<1>7. CASE SrvAccept
  <2>1. /\ toSrv # << >> /\ toSrv[1].op = "connect" /\ pc = "accept"
    BY <1>0, <1>7 DEF SrvAccept, SrvReceives, CipherInv, OnePacket, ClientInv, Steps
  <2>2. toSrv' = << >> /\ UNCHANGED <<conf, clientVars, sCipher>>
    BY <1>7 DEF SrvAccept, Reply, serverVars
  <2>3. toCli' # << >> /\ toCli'[1].enc = sCipher /\ (toCli'[1].chal # 0 => toCli'[1].chal = sKey')
    <3>1. ASSUME NEW op \in {"reject", "error", "alien"}, Reply(op, "Other", 0, {})
          PROVE  toCli' # << >> /\ toCli'[1].enc = sCipher /\ toCli'[1].chal = 0
      BY <3>1 DEF Reply
    <3>2. ASSUME NEW op, NEW p, NEW c, NEW a, NEW keys, sKey' = c,
                 toCli' = << [op |-> op, plugin |-> p, chal |-> c, keys |-> keys,
                              authed |-> a, enc |-> sCipher] >>
          PROVE  toCli' # << >> /\ toCli'[1].enc = sCipher /\ toCli'[1].chal = sKey'
      BY <3>2
    <3>3. CASE \E op \in {"reject", "error", "alien"} : Reply(op, "Other", 0, {})
      BY <3>1, <3>3
    <3>4. CASE \E op \in {"accept", "accept_data", "cond_accept"}, p \in Plugins,
                  c \in {0, 1}, a \in BOOLEAN, keys \in Offers :
                  /\ toCli' = << [op |-> op, plugin |-> p, chal |-> c, keys |-> keys,
                                  authed |-> a, enc |-> sCipher] >>
                  /\ sKey' = c
      BY <3>2, <3>4
    <3>5. QED
      BY <1>7, <3>3, <3>4 DEF SrvAccept
  <2>4. QED
    BY <1>0, <2>1, <2>2, <2>3 DEF clientVars, CipherInv, OnePacket, SameCipher, SameKey
<1>8. CASE SrvAuthenticate
  <2>1. /\ toSrv # << >> /\ toSrv[1].op \in {"cont_auth", "attach"}
        /\ pc \in {"authRounds", "rounds"}
    BY <1>0, <1>8 DEF SrvAuthenticate, SrvReceives, CipherInv, OnePacket, ClientInv, Steps
  <2>2. toSrv' = << >> /\ UNCHANGED <<conf, clientVars, sCipher>>
    BY <1>8 DEF SrvAuthenticate, Reply
  <2>3. toCli' # << >> /\ toCli'[1].enc = sCipher /\ (toCli'[1].chal # 0 => toCli'[1].chal = sKey')
    <3>1. ASSUME NEW op, NEW p, NEW c, NEW keys, Reply(op, p, c, keys)
          PROVE  toCli' # << >> /\ toCli'[1].enc = sCipher /\ toCli'[1].chal = c
      BY <3>1 DEF Reply
    <3>2. \/ \E op, p, keys : Reply(op, p, 0, keys)
          \/ sKey' = chal + 1 /\ \E op, p : Reply(op, p, chal + 1, {})
      BY <1>8 DEF SrvAuthenticate
    <3>3. QED
      BY <3>1, <3>2
  <2>4. ASSUME pc = "authRounds", toCli'[1].op = "response", toCli'[1].keys # {}
        PROVE  key = sKey'
    <3>1. /\ sKey' # 0
          /\ sKey' = IF toSrv[1].data = "proof" \/ toSrv[1].op = "attach" THEN sKey ELSE 0
      BY <1>8, <2>4 DEF SrvAuthenticate, Reply
    <3>2. toSrv[1].op = "cont_auth"
      BY <2>1, <2>4 DEF CipherInv, OnePacket
    <3>3. QED
      BY <2>1, <2>4, <3>1, <3>2 DEF CipherInv, SameKey
  <2>5. QED
    BY <1>0, <2>1, <2>2, <2>3, <2>4 DEF clientVars, CipherInv, OnePacket, SameCipher, SameKey
<1>9. CASE SrvCrypt
  <2>1. toSrv # << >> /\ toSrv[1].op = "crypt" /\ pc = "cryptAnswer"
    BY <1>0, <1>9 DEF SrvCrypt, SrvReceives, CipherInv, OnePacket, ClientInv, Steps
  <2>2. toSrv' = << >> /\ UNCHANGED <<conf, clientVars>>
    BY <1>9 DEF SrvCrypt, Reply
  <2>3. /\ toCli' # << >>
        /\ toCli'[1].op = "error" \/ (sCipher' = cipher /\ toCli'[1].enc = cipher)
    <3>1. cipher = << toSrv[1].data, sKey >>
      BY <2>1 DEF CipherInv, SameCipher
    <3>2. QED
      BY <1>9, <3>1 DEF SrvCrypt, Reply
  <2>4. QED
    BY <1>0, <2>1, <2>2, <2>3 DEF clientVars, CipherInv, OnePacket, SameCipher, SameKey
<1>10. CASE UNCHANGED hsVars
  BY <1>0, <1>10
     DEF hsVars, clientVars, serverVars, CipherInv, OnePacket, SameCipher, SameKey
<1>11. QED
  BY <1>1, <1>2, <1>3, <1>4, <1>5, <1>6, <1>7, <1>8, <1>9, <1>10
     DEF HandshakeNext, Client, Server

(***************************************************************************)
(* Both ends change ciphers at the same packet and under the same key,     *)
(* however many challenges there were: every packet is read under the      *)
(* cipher it was written with, but for the plain refusal of op_crypt.      *)
(***************************************************************************)
THEOREM CiphersAgree == HandshakeSpec => []CipherAgreed
<1>1. HandshakeInit => CipherInv
  BY ClientInit DEF HandshakeInit, CipherInv, OnePacket, SameCipher, SameKey
<1>2. CipherInv => CipherAgreed
  BY DEF CipherInv, ClientInv, Steps, OnePacket, SameCipher, CipherAgreed, Readable, Packet
<1>3. QED
  BY <1>1, <1>2, CipherInductive, PTL DEF HandshakeSpec

-------------------------------------------------------------------------------
(* Event listeners: Events.                                                *)

Typed ==
    /\ counts \in Counts /\ posted \in Counts /\ told \in Counts
    /\ aux \in Seq(Counts)
    /\ fired \subseteq Name
    /\ erred \in BOOLEAN

(* Notifications reach the listener in the order of the posts they tell of. *)
InOrder ==
    \A n \in Name :
        /\ counts[n] <= posted[n]
        /\ \A i \in 1..Len(aux) : counts[n] <= aux[i][n] /\ aux[i][n] <= posted[n]
        /\ \A i, j \in 1..Len(aux) : i <= j => aux[i][n] <= aux[j][n]

(* What the caller knows at each point of a call of wait. *)
ToldAtPoint ==
    /\ lsn \in {"listening", "idle", "waiting"} /\ ~erred => told = counts
    /\ lsn = "queued" /\ ~erred =>
           \A n \in Name : n \notin fired => told[n] = counts[n]

Inv == Typed /\ InOrder /\ ToldAtPoint

LEMMA InitInv == EventsInit => Inv
<1> SUFFICES ASSUME EventsInit
             PROVE  Inv
  OBVIOUS
<1>1. aux \in Seq(Counts) /\ Len(aux) = 0 /\ Zero \in Counts
  BY EmptySeq DEF EventsInit, Zero, Counts
<1>2. posted \in Counts /\ \A n \in Name : counts[n] = 0 /\ posted[n] \in Nat
  BY DEF EventsInit, Zero, Counts
<1>3. Typed /\ ToldAtPoint
  BY <1>1, <1>2 DEF EventsInit, Typed, ToldAtPoint
<1>4. InOrder
  <2>1. ASSUME NEW n \in Name PROVE counts[n] <= posted[n]
    <3>1. counts[n] = 0 /\ posted[n] \in Nat
      BY <1>2
    <3>2. QED
      BY <3>1
  <2>2. \A i \in 1..Len(aux) : FALSE
    BY <1>1
  <2>3. QED
    BY <2>1, <2>2 DEF InOrder
<1>5. QED
  BY <1>3, <1>4 DEF Inv

(* The counts of a notification bound those of the ones behind it. *)
LEMMA AfterRead ==
    ASSUME Inv, aux # << >>
    PROVE  /\ aux[1] \in Counts
           /\ Tail(aux) \in Seq(Counts)
           /\ Len(Tail(aux)) = Len(aux) - 1
           /\ \A i \in 1..Len(Tail(aux)) : Tail(aux)[i] = aux[i + 1] /\ i + 1 \in 1..Len(aux)
           /\ \A n \in Name : counts[n] <= aux[1][n] /\ aux[1][n] <= posted[n]
           /\ \A n \in Name : n \notin Grown(aux[1], counts) => aux[1][n] = counts[n]
<1>1. aux \in Seq(Counts) /\ Len(aux) \in Nat /\ Len(aux) > 0 /\ 1 \in 1..Len(aux)
  BY EmptySeq, LenProperties DEF Inv, Typed
<1>2. aux[1] \in Counts
  BY <1>1, ElementOfSeq
<1>3. /\ Tail(aux) \in Seq(Counts)
      /\ Len(Tail(aux)) = Len(aux) - 1
      /\ \A i \in 1..Len(Tail(aux)) : Tail(aux)[i] = aux[i + 1] /\ i + 1 \in 1..Len(aux)
  BY <1>1, HeadTailProperties
<1>4. \A n \in Name : counts[n] <= aux[1][n] /\ aux[1][n] <= posted[n]
  BY <1>1 DEF Inv, InOrder
<1>5. \A n \in Name : n \notin Grown(aux[1], counts) => aux[1][n] = counts[n]
  BY <1>2, <1>4 DEF Grown, Inv, Typed, Counts
<1>6. QED
  BY <1>2, <1>3, <1>4, <1>5

(* The server's notification: the counts as posted so far, at the end. *)
LEMMA Notified ==
    ASSUME Inv, aux' = Append(aux, posted), UNCHANGED <<counts, posted>>
    PROVE  aux' \in Seq(Counts) /\ InOrder'
<1>1. aux \in Seq(Counts) /\ posted \in Counts /\ counts \in Counts /\ Len(aux) \in Nat
  BY LenProperties DEF Inv, Typed
<1>2. /\ aux' \in Seq(Counts)
      /\ Len(aux') = Len(aux) + 1
      /\ \A i \in 1..Len(aux) : aux'[i] = aux[i]
      /\ aux'[Len(aux) + 1] = posted
  BY <1>1, AppendProperties
<1>3. ASSUME NEW n \in Name PROVE posted[n] \in Nat /\ posted[n] <= posted[n]
  BY <1>1 DEF Counts
<1>4. \A i \in 1..Len(aux') : i \in 1..Len(aux) \/ i = Len(aux) + 1
  BY <1>1, <1>2
<1>5. ASSUME NEW n \in Name, NEW i \in 1..Len(aux')
      PROVE  counts[n] <= aux'[i][n] /\ aux'[i][n] <= posted[n]
  BY <1>2, <1>3, <1>4 DEF Inv, InOrder
<1>6. ASSUME NEW n \in Name, NEW i \in 1..Len(aux'), NEW j \in 1..Len(aux'), i <= j
      PROVE  aux'[i][n] <= aux'[j][n]
  <2>1. CASE j = Len(aux) + 1
    BY <1>2, <1>5, <2>1
  <2>2. CASE j \in 1..Len(aux)
    <3>1. i \in 1..Len(aux)
      BY <1>1, <1>2, <1>6, <2>2
    <3>2. QED
      BY <1>2, <1>6, <2>2, <3>1 DEF Inv, InOrder
  <2>3. QED
    BY <1>4, <2>1, <2>2
<1>7. QED
  BY <1>2, <1>5, <1>6 DEF Inv, InOrder

LEMMA InvInductive == Inv /\ [EventsNext]_evVars => Inv'
<1> SUFFICES ASSUME Inv, [EventsNext]_evVars
             PROVE  Inv'
  OBVIOUS
<1>1. CASE Listen
  <2>1. aux' = << >> /\ counts' = Zero /\ Zero \in Counts /\ Len(aux') = 0 /\ aux' \in Seq(Counts)
    BY <1>1, EmptySeq DEF Listen, Zero, Counts
  <2>2. posted \in Counts /\ \A n \in Name : counts'[n] = 0 /\ posted[n] \in Nat
    BY <1>1 DEF Listen, Inv, Typed, Zero, Counts
  <2>3. Typed' /\ ToldAtPoint'
    BY <1>1, <2>1, <2>2 DEF Listen, Inv, Typed, ToldAtPoint
  <2>4. InOrder'
    BY <1>1, <2>1, <2>2 DEF Listen, InOrder
  <2>5. QED
    BY <2>3, <2>4 DEF Inv
<1>2. CASE Listening \/ Wait \/ AuxFails
  BY <1>2 DEF Listening, Wait, AuxFails, Inv, Typed, InOrder, ToldAtPoint
<1>3. CASE ReadEvent
  <2>1. Typed'
    BY <1>3, AfterRead DEF ReadEvent, Queue, Inv, Typed, Grown
  <2>2. InOrder'
    <3>1. ASSUME NEW n \in Name, NEW i \in 1..Len(aux')
          PROVE  counts'[n] <= aux'[i][n] /\ aux'[i][n] <= posted'[n]
      <4>1. aux'[i] = aux[i + 1] /\ i + 1 \in 1..Len(aux) /\ 1 \in 1..Len(aux) /\ 1 <= i + 1
        BY <1>3, AfterRead DEF ReadEvent
      <4>2. QED
        BY <1>3, <4>1 DEF ReadEvent, Inv, InOrder
    <3>2. ASSUME NEW n \in Name, NEW i \in 1..Len(aux'), NEW j \in 1..Len(aux'), i <= j
          PROVE  aux'[i][n] <= aux'[j][n]
      <4>1. /\ aux'[i] = aux[i + 1] /\ i + 1 \in 1..Len(aux)
            /\ aux'[j] = aux[j + 1] /\ j + 1 \in 1..Len(aux)
            /\ i + 1 <= j + 1
        BY <1>3, <3>2, AfterRead DEF ReadEvent
      <4>2. QED
        BY <4>1 DEF Inv, InOrder
    <3>3. \A n \in Name : counts'[n] <= posted'[n]
      BY <1>3, AfterRead DEF ReadEvent
    <3>4. QED
      BY <3>1, <3>2, <3>3 DEF InOrder
  <2>3. ToldAtPoint'
    BY <1>3, AfterRead DEF ReadEvent, Inv, ToldAtPoint
  <2>4. QED
    BY <2>1, <2>2, <2>3 DEF Inv
<1>4. CASE Queued
  <2>1. Typed' /\ InOrder'
    BY <1>4 DEF Queued, Inv, Typed, InOrder, Counts
  <2>2. ToldAtPoint'
    <3>1. CASE answer = "ok" /\ fired # {}
      <4>1. ~erred => told' = counts
        <5>1. \A n \in Name : ~erred => told'[n] = counts[n]
          BY <1>4, <3>1 DEF Queued, Report, Inv, ToldAtPoint
        <5>2. told' \in Counts /\ counts \in Counts
          BY <1>4, <2>1 DEF Inv, Typed
        <5>3. QED
          BY <5>1, <5>2 DEF Counts
      <4>2. QED
        BY <1>4, <3>1, <4>1 DEF Queued, ToldAtPoint
    <3>2. CASE answer = "ok" /\ fired = {}
      <4>1. ~erred => told = counts
        BY <1>4, <3>2 DEF Queued, Inv, Typed, ToldAtPoint, Counts
      <4>2. QED
        BY <1>4, <3>2, <4>1 DEF Queued, ToldAtPoint
    <3>3. CASE answer = "refused"
      BY <1>4, <3>3 DEF Queued, ToldAtPoint
    <3>4. QED
      BY <1>4, <3>1, <3>2, <3>3 DEF Queued
  <2>3. QED
    BY <2>1, <2>2 DEF Inv
<1>5. CASE Cancel
  <2>1. aux' = << >> /\ Zero \in Counts /\ Len(aux') = 0 /\ aux' \in Seq(Counts)
    BY <1>5, EmptySeq DEF Cancel, Zero, Counts
  <2>2. QED
    BY <1>5, <2>1 DEF Cancel, Inv, Typed, InOrder, ToldAtPoint
<1>6. CASE Cancelled
  BY <1>6 DEF Cancelled, Inv, Typed, InOrder, ToldAtPoint
<1>7. CASE Serve
  <2>1. CASE UNCHANGED aux
    BY <1>7, <2>1 DEF Serve, Inv, Typed, InOrder, ToldAtPoint, Nothing
  <2>2. CASE aux' = Append(aux, posted)
    <3>1. aux' \in Seq(Counts) /\ InOrder'
      BY <1>7, <2>2, Notified DEF Serve
    <3>2. QED
      BY <1>7, <3>1 DEF Serve, Inv, Typed, ToldAtPoint, Nothing
  <2>3. QED
    BY <1>7, <2>1, <2>2 DEF Serve
<1>8. CASE Notify
  <2>1. CASE UNCHANGED aux
    BY <1>8, <2>1 DEF Notify, Inv, Typed, InOrder, ToldAtPoint
  <2>2. CASE aux' = Append(aux, posted)
    <3>1. aux' \in Seq(Counts) /\ InOrder'
      BY <1>8, <2>2, Notified DEF Notify
    <3>2. QED
      BY <1>8, <3>1 DEF Notify, Inv, Typed, ToldAtPoint
  <2>3. QED
    BY <1>8, <2>1, <2>2 DEF Notify
<1>9. ASSUME NEW m \in Name, Post(m)
      PROVE  Inv'
  <2>1. posted' \in Counts /\ \A n \in Name : posted[n] <= posted'[n]
    BY <1>9 DEF Post, Inv, Typed, Counts
  <2>2. \A n \in Name : counts[n] \in Nat /\ posted[n] \in Nat /\ posted'[n] \in Nat
    BY <2>1 DEF Inv, Typed, Counts
  <2>3. ASSUME NEW n \in Name, NEW i \in 1..Len(aux)
        PROVE  aux[i][n] <= posted'[n]
    <3>1. aux[i] \in Counts
      BY ElementOfSeq DEF Inv, Typed
    <3>2. aux[i][n] \in Nat /\ aux[i][n] <= posted[n]
      BY <3>1 DEF Counts, Inv, InOrder
    <3>3. QED
      BY <2>1, <2>2, <3>2
  <2>4. \A n \in Name : counts[n] <= posted'[n]
    BY <2>1, <2>2 DEF Inv, InOrder
  <2>5. InOrder'
    BY <1>9, <2>3, <2>4 DEF Post, Inv, InOrder
  <2>6. QED
    BY <1>9, <2>1, <2>5 DEF Post, Inv, Typed, ToldAtPoint
<1>10. CASE UNCHANGED evVars
  BY <1>10 DEF evVars, Inv, Typed, InOrder, ToldAtPoint
<1>11. QED
  BY <1>1, <1>2, <1>3, <1>4, <1>5, <1>6, <1>7, <1>8, <1>9, <1>10
     DEF EventsNext, Progress, EventsServer

(***************************************************************************)
(* No event is lost: however posts, notifications and registrations fall   *)
(* between each other, a caller back from a wait that did not fail has     *)
(* been told of every count the listener has seen.                         *)
(***************************************************************************)
THEOREM NoEventLost == EventsSpec => []NothingUntold
<1>1. Inv => NothingUntold
  BY DEF Inv, ToldAtPoint, NothingUntold
<1>2. QED
  BY <1>1, InitInv, InvInductive, PTL DEF EventsSpec

(***************************************************************************)
(* The listener never believes in a post that did not happen.              *)
(***************************************************************************)
THEOREM NothingInvented == EventsSpec => [](\A n \in Name : counts[n] <= posted[n])
<1>1. Inv => \A n \in Name : counts[n] <= posted[n]
  BY DEF Inv, InOrder
<1>2. QED
  BY <1>1, InitInv, InvInductive, PTL DEF EventsSpec

-------------------------------------------------------------------------------
(* Outputs of services: Service.                                           *)

(* The bytes of an output: those of an item follow each other, and no      *)
(* other item has its name.                                                *)
Byte == [id : Nat \ {0}, i : Nat \ {0}, n : Nat \ {0}]

Distinct(items) == \A i, j \in 1..Len(items) : items[i].id = items[j].id => i = j

Layout(B) ==
    /\ \A q \in 1..Len(B) : /\ B[q].i \in 1..B[q].n /\ B[q].i <= q
                            /\ q - B[q].i + B[q].n <= Len(B)
    /\ \A q, t \in 1..Len(B) :
          /\ q - B[q].i < t /\ t <= q - B[q].i + B[q].n => B[t].id = B[q].id
          /\ B[t].id = B[q].id => t - B[t].i = q - B[q].i /\ B[t].n = B[q].n

(* The bytes of one item. *)
LEMMA BytesOfItem ==
    ASSUME NEW e \in Item
    PROVE  /\ BytesOf(e) \in Seq(Byte) /\ Len(BytesOf(e)) = e.n
           /\ \A i \in 1..e.n : BytesOf(e)[i] = [id |-> e.id, i |-> i, n |-> e.n]
<1>1. e.n \in Nat \ {0} /\ e.id \in Nat \ {0}
  BY DEF Item
<1>2. \A i \in 1..e.n : [id |-> e.id, i |-> i, n |-> e.n] \in Byte
  BY <1>1 DEF Byte
<1>3. BytesOf(e) \in [1..e.n -> Byte]
  BY <1>2 DEF BytesOf
<1>4. QED
  BY <1>1, <1>3 DEF BytesOf

AllBytes(items) == [j \in 1..Len(items) |-> BytesOf(items[j])]

(* Bytes joins the bytes of each item. *)
LEMMA AllBytesType ==
    ASSUME NEW items \in Seq(Item)
    PROVE  /\ AllBytes(items) \in Seq(Seq(Byte)) /\ Len(AllBytes(items)) = Len(items)
           /\ \A j \in 1..Len(items) : AllBytes(items)[j] = BytesOf(items[j])
           /\ Bytes(items) = FlattenSeq(AllBytes(items))
<1> DEFINE T == Seq(Byte)
           n == Len(items)
<1>1. n \in Nat /\ DOMAIN items = 1..n /\ \A j \in 1..n : BytesOf(items[j]) \in T
  BY ElementOfSeq, LenProperties, BytesOfItem
<1>2. AllBytes(items) = [j \in 1..n |-> BytesOf(items[j])]
  BY DEF AllBytes
<1> HIDE DEF T, n
<1>3. AllBytes(items) \in Seq(T) /\ Len(AllBytes(items)) = n
  BY <1>1, <1>2
<1>4. Bytes(items) = FlattenSeq(AllBytes(items))
  BY <1>1, <1>2 DEF Bytes
<1>5. QED
  BY <1>2, <1>3, <1>4 DEF T, n

(* No items, no bytes. *)
LEMMA BytesEmpty == Bytes(<<>>) = <<>>
<1>1. <<>> \in Seq(Item)
  BY EmptySeq
<1>2. AllBytes(<<>>) = <<>>
  BY EmptySeq DEF AllBytes
<1>3. QED
  BY <1>1, <1>2, AllBytesType, FlattenEmpty

(* The bytes of one item more. *)
LEMMA BytesAppend ==
    ASSUME NEW items \in Seq(Item), NEW e \in Item
    PROVE  Bytes(Append(items, e)) = Bytes(items) \o BytesOf(e)
<1> DEFINE longer == Append(items, e)
           n == Len(items)
           a == AllBytes(items)
           b == AllBytes(longer)
           last == BytesOf(e)
<1>1. /\ n \in Nat /\ longer \in Seq(Item) /\ Len(longer) = n + 1
      /\ \A j \in 1..n : longer[j] = items[j]
      /\ longer[n + 1] = e
  BY AppendProperties, LenProperties
<1>2. last \in Seq(Byte) /\ last = BytesOf(e)
  BY BytesOfItem
<1>3. /\ a \in Seq(Seq(Byte)) /\ Len(a) = n
      /\ \A j \in 1..n : a[j] = BytesOf(items[j])
      /\ Bytes(items) = FlattenSeq(a)
  BY AllBytesType
<1> HIDE DEF longer
<1>4. /\ b \in Seq(Seq(Byte)) /\ Len(b) = n + 1
      /\ \A j \in 1..(n + 1) : b[j] = BytesOf(longer[j])
      /\ Bytes(longer) = FlattenSeq(b)
  BY <1>1, AllBytesType
<1> HIDE DEF a, b, last, n
<1>5. /\ Append(a, last) \in Seq(Seq(Byte)) /\ Len(Append(a, last)) = n + 1
      /\ \A j \in 1..n : Append(a, last)[j] = a[j]
      /\ Append(a, last)[n + 1] = last
  BY <1>2, <1>3, AppendProperties
<1>6. \A j \in 1..(n + 1) : j \in 1..n \/ j = n + 1
  BY <1>1
<1>7. \A j \in 1..(n + 1) : b[j] = Append(a, last)[j]
  BY <1>1, <1>2, <1>3, <1>4, <1>5, <1>6
<1>8. b = Append(a, last)
  BY <1>4, <1>5, <1>7, SeqEqual
<1>9. FlattenSeq(b) = FlattenSeq(a) \o last
  BY <1>2, <1>3, <1>8, FlattenSnoc
<1>10. QED
  BY <1>2, <1>3, <1>4, <1>9 DEF longer

(* The bytes of an output are bytes. *)
LEMMA BytesType ==
    ASSUME NEW items \in Seq(Item)
    PROVE  Bytes(items) \in Seq(Byte)
  BY AllBytesType, FlattenType

(* The layout of one item after others, its bytes placed after m bytes.    *)
LEMMA LayoutConcat ==
    ASSUME NEW B \in Seq(Byte), Layout(B), NEW e \in Item,
           \A q \in 1..Len(B) : B[q].id # e.id
    PROVE  Layout(B \o BytesOf(e))
<1> DEFINE C == B \o BytesOf(e)
           m == Len(B)
           n == e.n
<1>1. m \in Nat /\ n \in Nat \ {0} /\ e.id \in Nat
  BY LenProperties DEF Item
<1>2. /\ C \in Seq(Byte) /\ Len(C) = m + n
      /\ \A q \in 1..(m + n) : C[q] = IF q <= m THEN B[q] ELSE BytesOf(e)[q - m]
  <2>1. BytesOf(e) \in Seq(Byte) /\ Len(BytesOf(e)) = n
    BY BytesOfItem
  <2>2. QED
    BY <2>1, ConcatProperties
<1>3. \A q \in 1..m : /\ B[q].i \in 1..B[q].n /\ B[q].i <= q
                      /\ q - B[q].i + B[q].n <= m
                      /\ B[q].i \in Nat /\ B[q].n \in Nat
                      /\ B[q].id # e.id
  <2>1. \A q \in 1..m : B[q] \in Byte
    BY ElementOfSeq
  <2>2. QED
    BY <2>1 DEF Layout, Byte
<1>4. \A q, t \in 1..m :
          /\ q - B[q].i < t /\ t <= q - B[q].i + B[q].n => B[t].id = B[q].id
          /\ B[t].id = B[q].id => t - B[t].i = q - B[q].i /\ B[t].n = B[q].n
  BY DEF Layout
<1>5. \A i \in 1..n : BytesOf(e)[i] = [id |-> e.id, i |-> i, n |-> n]
  BY BytesOfItem
<1> HIDE DEF C, m, n
<1>6. ASSUME NEW q \in 1..(m + n)
      PROVE  \/ q \in 1..m /\ C[q] = B[q]
             \/ q \in (m + 1)..(m + n) /\ C[q].id = e.id /\ C[q].i = q - m /\ C[q].n = n
  <2>1. CASE q <= m
    BY <1>1, <1>2, <2>1
  <2>2. CASE ~(q <= m)
    <3>1. q - m \in 1..n
      BY <1>1, <2>2
    <3>2. C[q] = [id |-> e.id, i |-> q - m, n |-> n]
      BY <1>2, <1>5, <2>2, <3>1
    <3>3. QED
      BY <1>1, <2>2, <3>2
  <2>3. QED
    BY <2>1, <2>2
<1>7. ASSUME NEW q \in 1..(m + n)
      PROVE  C[q].i \in 1..C[q].n /\ C[q].i <= q /\ q - C[q].i + C[q].n <= m + n
  <2>1. CASE q \in 1..m /\ C[q] = B[q]
    BY <1>1, <1>3, <2>1
  <2>2. CASE q \in (m + 1)..(m + n) /\ C[q].id = e.id /\ C[q].i = q - m /\ C[q].n = n
    BY <1>1, <2>2
  <2>3. QED
    BY <1>6, <2>1, <2>2
<1>8. ASSUME NEW q \in 1..(m + n), NEW t \in 1..(m + n)
      PROVE  /\ q - C[q].i < t /\ t <= q - C[q].i + C[q].n => C[t].id = C[q].id
             /\ C[t].id = C[q].id => t - C[t].i = q - C[q].i /\ C[t].n = C[q].n
  <2>1. CASE q \in 1..m /\ C[q] = B[q] /\ t \in 1..m /\ C[t] = B[t]
    BY <1>4, <2>1
  <2>2. CASE /\ q \in 1..m /\ C[q] = B[q]
             /\ t \in (m + 1)..(m + n) /\ C[t].id = e.id /\ C[t].i = t - m /\ C[t].n = n
    BY <1>1, <1>3, <2>2
  <2>3. CASE /\ t \in 1..m /\ C[t] = B[t]
             /\ q \in (m + 1)..(m + n) /\ C[q].id = e.id /\ C[q].i = q - m /\ C[q].n = n
    BY <1>1, <1>3, <2>3
  <2>4. CASE /\ t \in (m + 1)..(m + n) /\ C[t].id = e.id /\ C[t].i = t - m /\ C[t].n = n
             /\ q \in (m + 1)..(m + n) /\ C[q].id = e.id /\ C[q].i = q - m /\ C[q].n = n
    BY <1>1, <2>4
  <2>5. QED
    BY <1>6, <2>1, <2>2, <2>3, <2>4
<1>9. QED
  BY <1>2, <1>7, <1>8 DEF Layout, C

(* The bytes of every output are laid out so. *)
LEMMA BytesLayout ==
    ASSUME NEW items \in Seq(Item), Distinct(items)
    PROVE  Layout(Bytes(items))
<1> DEFINE Fine(o) == /\ Layout(Bytes(o))
                      /\ \A q \in 1..Len(Bytes(o)) : \E j \in 1..Len(o) : Bytes(o)[q].id = o[j].id
           P == {o \in Seq(Item) : Distinct(o) => Fine(o)}
<1>1. <<>> \in P
  BY EmptySeq, BytesEmpty DEF Layout
<1>2. ASSUME NEW o \in Seq(Item), NEW e \in Item, o \in P
      PROVE  Append(o, e) \in P
  <2> DEFINE oe == Append(o, e)
             B == Bytes(o)
             n == Len(o)
  <2>1. /\ n \in Nat /\ oe \in Seq(Item) /\ Len(oe) = n + 1
        /\ \A j \in 1..n : oe[j] = o[j]
        /\ oe[n + 1] = e
    BY AppendProperties, LenProperties
  <2> HIDE DEF oe
  <2> SUFFICES ASSUME Distinct(oe)
               PROVE  Fine(oe)
    BY <2>1 DEF oe
  <2>2. \A i, j \in 1..(n + 1) : oe[i].id = oe[j].id => i = j
    BY <2>1 DEF Distinct
  <2>3. Distinct(o) /\ \A j \in 1..n : o[j].id # e.id
    BY <2>1, <2>2 DEF Distinct
  <2>4. /\ Layout(B)
        /\ \A q \in 1..Len(B) : \E j \in 1..n : B[q].id = o[j].id
    BY <1>2, <2>3
  <2>5. B \in Seq(Byte) /\ Len(B) \in Nat
    BY BytesType, LenProperties
  <2>6. Bytes(oe) = B \o BytesOf(e)
    BY BytesAppend DEF oe
  <2> HIDE DEF B, n
  <2>7. Layout(Bytes(oe))
    BY <2>3, <2>4, <2>5, <2>6, LayoutConcat
  <2>8. /\ Len(Bytes(oe)) = Len(B) + e.n /\ e.n \in Nat
        /\ \A q \in 1..(Len(B) + e.n) :
              Bytes(oe)[q] = IF q <= Len(B) THEN B[q] ELSE BytesOf(e)[q - Len(B)]
    <3>1. BytesOf(e) \in Seq(Byte) /\ Len(BytesOf(e)) = e.n /\ e.n \in Nat
      BY BytesOfItem DEF Item
    <3>2. QED
      BY <2>5, <2>6, <3>1, ConcatProperties
  <2>9. ASSUME NEW q \in 1..(Len(B) + e.n)
        PROVE  \E j \in 1..(n + 1) : Bytes(oe)[q].id = oe[j].id
    <3>1. CASE q <= Len(B)
      <4>1. PICK j \in 1..n : B[q].id = o[j].id
        BY <2>4, <2>5, <3>1
      <4>2. j \in 1..(n + 1) /\ oe[j] = o[j] /\ Bytes(oe)[q] = B[q]
        BY <2>1, <2>8, <3>1
      <4>3. QED
        BY <4>1, <4>2
    <3>2. CASE ~(q <= Len(B))
      <4>1. q - Len(B) \in 1..e.n
        BY <2>5, <2>8, <3>2
      <4>2. Bytes(oe)[q].id = e.id
        <5>1. BytesOf(e)[q - Len(B)] = [id |-> e.id, i |-> q - Len(B), n |-> e.n]
          BY <4>1, BytesOfItem
        <5>2. Bytes(oe)[q] = BytesOf(e)[q - Len(B)]
          BY <2>8, <3>2
        <5>3. QED
          BY <5>1, <5>2
      <4>3. n + 1 \in 1..(n + 1)
        BY <2>1
      <4>4. QED
        BY <2>1, <4>2, <4>3
    <3>3. QED
      BY <3>1, <3>2
  <2>10. QED
    BY <2>1, <2>7, <2>8, <2>9
<1> HIDE DEF P
<1>3. items \in P
  BY <1>1, <1>2, SeqSetInduction
<1>4. QED
  BY <1>3 DEF P

-------------------------------------------------------------------------------
(* The names at the first bytes of items, but for those to skip: of all    *)
(* items, and of those that are whole within the first p bytes.            *)
Firsts(B, skip) ==
    [t \in 1..Len(B) |-> IF B[t].i = 1 /\ B[t].id \notin skip THEN <<B[t].id>> ELSE <<>>]

Starts(B, p, skip) ==
    [t \in 1..p |-> IF B[t].i = 1 /\ B[t].id \notin skip /\ t + B[t].n - 1 <= p
                    THEN <<B[t].id>> ELSE <<>>]

(* The sequences that Firsts joins. *)
LEMMA FirstsType ==
    ASSUME NEW B \in Seq(Byte), NEW skip
    PROVE  /\ Firsts(B, skip) \in Seq(Seq(Nat)) /\ Len(Firsts(B, skip)) = Len(B)
           /\ \A t \in 1..Len(B) :
                Firsts(B, skip)[t] = IF B[t].i = 1 /\ B[t].id \notin skip THEN <<B[t].id>> ELSE <<>>
<1> DEFINE n == Len(B)
           T == Seq(Nat)
<1>1. n \in Nat /\ \A t \in 1..n : B[t].id \in Nat
  <2>1. \A t \in 1..n : B[t] \in Byte
    BY ElementOfSeq
  <2>2. QED
    BY <2>1, LenProperties DEF Byte
<1>2. <<>> \in T /\ \A t \in 1..n : <<B[t].id>> \in T
  BY <1>1, EmptySeq
<1>3. Firsts(B, skip) = [t \in 1..n |-> IF B[t].i = 1 /\ B[t].id \notin skip
                                        THEN <<B[t].id>> ELSE <<>>]
  BY DEF Firsts
<1> HIDE DEF n, T
<1>4. Firsts(B, skip) \in Seq(T) /\ Len(Firsts(B, skip)) = n
  BY <1>1, <1>2, <1>3
<1>5. QED
  BY <1>3, <1>4 DEF n, T

(* The sequences that Starts joins. *)
LEMMA StartsType ==
    ASSUME NEW B \in Seq(Byte), NEW p \in 0..Len(B), NEW skip
    PROVE  /\ Starts(B, p, skip) \in Seq(Seq(Nat)) /\ Len(Starts(B, p, skip)) = p
           /\ \A t \in 1..p :
                Starts(B, p, skip)[t] = IF B[t].i = 1 /\ B[t].id \notin skip /\ t + B[t].n - 1 <= p
                                        THEN <<B[t].id>> ELSE <<>>
<1> DEFINE T == Seq(Nat)
<1>1. p \in Nat /\ \A t \in 1..p : B[t].id \in Nat
  <2>1. Len(B) \in Nat
    BY LenProperties
  <2>2. \A t \in 1..p : B[t] \in Byte
    BY <2>1, ElementOfSeq
  <2>3. QED
    BY <2>1, <2>2 DEF Byte
<1>2. <<>> \in T /\ \A t \in 1..p : <<B[t].id>> \in T
  BY <1>1, EmptySeq
<1>3. Starts(B, p, skip) = [t \in 1..p |->
            IF B[t].i = 1 /\ B[t].id \notin skip /\ t + B[t].n - 1 <= p
            THEN <<B[t].id>> ELSE <<>>]
  BY DEF Starts
<1> HIDE DEF T
<1>4. Starts(B, p, skip) \in Seq(T) /\ Len(Starts(B, p, skip)) = p
  BY <1>1, <1>2, <1>3
<1>5. QED
  BY <1>3, <1>4 DEF T

(* The first bytes of two stretches, one after the other. *)
LEMMA FirstsConcat ==
    ASSUME NEW B \in Seq(Byte), NEW C \in Seq(Byte), NEW skip
    PROVE  FlattenSeq(Firsts(B \o C, skip))
               = FlattenSeq(Firsts(B, skip)) \o FlattenSeq(Firsts(C, skip))
<1> DEFINE D == B \o C
           m == Len(B)
           n == Len(C)
           a == Firsts(B, skip)
           b == Firsts(C, skip)
           c == Firsts(D, skip)
<1>1. /\ m \in Nat /\ n \in Nat /\ D \in Seq(Byte) /\ Len(D) = m + n
      /\ \A t \in 1..(m + n) : D[t] = IF t <= m THEN B[t] ELSE C[t - m]
  BY ConcatProperties, LenProperties
<1> HIDE DEF D
<1>2. /\ a \in Seq(Seq(Nat)) /\ Len(a) = m
      /\ b \in Seq(Seq(Nat)) /\ Len(b) = n
      /\ c \in Seq(Seq(Nat)) /\ Len(c) = m + n
      /\ \A t \in 1..m : a[t] = IF B[t].i = 1 /\ B[t].id \notin skip THEN <<B[t].id>> ELSE <<>>
      /\ \A t \in 1..n : b[t] = IF C[t].i = 1 /\ C[t].id \notin skip THEN <<C[t].id>> ELSE <<>>
      /\ \A t \in 1..(m + n) : c[t] = IF D[t].i = 1 /\ D[t].id \notin skip
                                      THEN <<D[t].id>> ELSE <<>>
  BY <1>1, FirstsType
<1> HIDE DEF a, b, c, m, n
<1>3. /\ a \o b \in Seq(Seq(Nat)) /\ Len(a \o b) = m + n
      /\ \A t \in 1..(m + n) : (a \o b)[t] = IF t <= m THEN a[t] ELSE b[t - m]
  BY <1>2, ConcatProperties
<1>4. ASSUME NEW t \in 1..(m + n)
      PROVE  c[t] = (a \o b)[t]
  <2>1. CASE t <= m
    <3>1. t \in 1..m
      BY <1>1, <2>1
    <3>2. D[t] = B[t] /\ (a \o b)[t] = a[t]
      BY <1>1, <1>3, <2>1
    <3>3. a[t] = IF B[t].i = 1 /\ B[t].id \notin skip THEN <<B[t].id>> ELSE <<>>
      BY <1>2, <3>1
    <3>4. c[t] = IF D[t].i = 1 /\ D[t].id \notin skip THEN <<D[t].id>> ELSE <<>>
      BY <1>2
    <3>5. QED
      BY <3>2, <3>3, <3>4
  <2>2. CASE ~(t <= m)
    <3>1. t - m \in 1..n
      BY <1>1, <2>2
    <3>2. D[t] = C[t - m] /\ (a \o b)[t] = b[t - m]
      BY <1>1, <1>3, <2>2
    <3>3. b[t - m] = IF C[t - m].i = 1 /\ C[t - m].id \notin skip
                     THEN <<C[t - m].id>> ELSE <<>>
      BY <1>2, <3>1
    <3>4. c[t] = IF D[t].i = 1 /\ D[t].id \notin skip THEN <<D[t].id>> ELSE <<>>
      BY <1>2
    <3>5. QED
      BY <3>2, <3>3, <3>4
  <2>3. QED
    BY <2>1, <2>2
<1>5. c = a \o b
  BY <1>2, <1>3, <1>4, SeqEqual
<1>6. FlattenSeq(c) = FlattenSeq(a) \o FlattenSeq(b)
  BY <1>2, <1>5, FlattenConcat
<1>7. QED
  BY <1>6 DEF a, b, c, D

(* An item has one first byte. *)
LEMMA FirstsOfItem ==
    ASSUME NEW e \in Item, NEW skip
    PROVE  FlattenSeq(Firsts(BytesOf(e), skip)) = Keep(<<e.id>>, Nat \ skip)
<1> DEFINE C == BytesOf(e)
           n == e.n
           one == IF e.id \notin skip THEN <<e.id>> ELSE <<>>
           f == Firsts(C, skip)
           rest == [t \in 1..(n - 1) |-> <<>>]
<1>1. /\ n \in Nat \ {0} /\ e.id \in Nat
      /\ C \in Seq(Byte) /\ Len(C) = n
      /\ \A i \in 1..n : C[i] = [id |-> e.id, i |-> i, n |-> n]
  BY BytesOfItem DEF Item
<1>2. /\ f \in Seq(Seq(Nat)) /\ Len(f) = n
      /\ \A t \in 1..n : f[t] = IF C[t].i = 1 /\ C[t].id \notin skip THEN <<C[t].id>> ELSE <<>>
  BY <1>1, FirstsType
<1>3. ASSUME NEW t \in 1..n
      PROVE  C[t].i = t /\ C[t].id = e.id
  <2>1. C[t] = [id |-> e.id, i |-> t, n |-> n]
    BY <1>1
  <2> HIDE DEF C
  <2>2. QED
    BY <2>1
<1>4. one \in Seq(Nat) /\ <<one>> \in Seq(Seq(Nat)) /\ Len(<<one>>) = 1 /\ <<one>>[1] = one
  BY <1>1, EmptySeq
<1>5. /\ rest \in Seq({<<>>}) /\ Len(rest) = n - 1
      /\ \A t \in 1..(n - 1) : rest[t] = <<>>
  <2> DEFINE nil == <<>>
  <2>1. n - 1 \in Nat /\ rest = [t \in 1..(n - 1) |-> nil]
    BY <1>1
  <2> HIDE DEF nil, n, rest
  <2>2. rest \in Seq({nil}) /\ Len(rest) = n - 1 /\ \A t \in 1..(n - 1) : rest[t] = nil
    BY <2>1
  <2>3. QED
    BY <2>2 DEF nil
<1>6. rest \in Seq(Seq(Nat))
  <2> DEFINE T == Seq(Nat)
             E == {<<>>}
  <2>1. E \subseteq T /\ rest \in Seq(E)
    BY <1>5, EmptySeq
  <2> HIDE DEF T, E, rest
  <2>2. rest \in Seq(T)
    BY <2>1, SeqMonotonic
  <2>3. QED
    BY <2>2 DEF T
<1>7. Keep(<<e.id>>, Nat \ skip) = one
  <2>1. Keep(<<e.id>>, Nat \ skip) = FlattenSeq(Kept(<<e.id>>, Nat \ skip))
    BY KeepIsFlat
  <2>2. Kept(<<e.id>>, Nat \ skip) = <<one>>
    BY <1>1 DEF Kept
  <2>3. QED
    BY <1>4, <2>1, <2>2, FlattenOne
<1> HIDE DEF C, n, one, f, rest
<1>8. /\ <<one>> \o rest \in Seq(Seq(Nat)) /\ Len(<<one>> \o rest) = n
      /\ \A t \in 1..n : (<<one>> \o rest)[t] = IF t <= 1 THEN one ELSE rest[t - 1]
  <2>1. /\ <<one>> \o rest \in Seq(Seq(Nat)) /\ Len(<<one>> \o rest) = 1 + (n - 1)
        /\ \A t \in 1..(1 + (n - 1)) :
              (<<one>> \o rest)[t] = IF t <= 1 THEN <<one>>[t] ELSE rest[t - 1]
    BY <1>4, <1>5, <1>6, ConcatProperties
  <2>2. 1 + (n - 1) = n /\ \A t \in 1..n : t <= 1 => t = 1
    BY <1>1
  <2>3. QED
    BY <1>4, <2>1, <2>2
<1>9. ASSUME NEW t \in 1..n
      PROVE  f[t] = (<<one>> \o rest)[t]
  <2>1. CASE t = 1
    <3>1. C[t].i = 1 /\ C[t].id = e.id
      BY <1>3, <2>1
    <3>2. f[t] = one
      BY <1>2, <3>1 DEF one
    <3>3. QED
      BY <1>8, <2>1, <3>2
  <2>2. CASE t # 1
    <3>1. t - 1 \in 1..(n - 1) /\ ~(t <= 1)
      BY <1>1, <2>2
    <3>2. QED
      BY <1>2, <1>3, <1>5, <1>8, <2>2, <3>1
  <2>3. QED
    BY <2>1, <2>2
<1>10. f = <<one>> \o rest
  BY <1>2, <1>8, <1>9, SeqEqual
<1>11. FlattenSeq(f) = FlattenSeq(<<one>>) \o FlattenSeq(rest)
  BY <1>4, <1>6, <1>10, FlattenConcat
<1>12. FlattenSeq(f) = one
  BY <1>4, <1>5, <1>11, FlattenOne, FlattenNothing, ConcatEmptySeq
<1>13. QED
  BY <1>7, <1>12 DEF f, C

(* The first bytes of an output name its items, in their order.            *)
LEMMA FirstsAreItems ==
    ASSUME NEW items \in Seq(Item), NEW skip
    PROVE  /\ FlattenSeq(Firsts(Bytes(items), skip)) = Keep(Ids(items), Nat \ skip)
           /\ Ids(items) \in Seq(Nat \ {0})
<1> DEFINE V == Nat \ skip
           Fine(o) == /\ FlattenSeq(Firsts(Bytes(o), skip)) = Keep(Ids(o), V)
                      /\ Ids(o) \in Seq(Nat \ {0})
           P == {o \in Seq(Item) : Fine(o)}
<1>1. <<>> \in P
  <2>1. Ids(<<>>) = <<>> /\ Firsts(<<>>, skip) = <<>>
    BY EmptySeq DEF Ids, Firsts
  <2>2. QED
    BY <2>1, BytesEmpty, FlattenEmpty, KeepEmpty, EmptySeq
<1>2. ASSUME NEW o \in Seq(Item), NEW e \in Item, o \in P
      PROVE  Append(o, e) \in P
  <2>1. /\ Append(o, e) \in Seq(Item)
        /\ Bytes(Append(o, e)) = Bytes(o) \o BytesOf(e)
        /\ Bytes(o) \in Seq(Byte) /\ BytesOf(e) \in Seq(Byte)
    BY AppendProperties, BytesAppend, BytesType, BytesOfItem
  <2>2. FlattenSeq(Firsts(Bytes(Append(o, e)), skip))
            = FlattenSeq(Firsts(Bytes(o), skip)) \o Keep(<<e.id>>, V)
    <3>1. FlattenSeq(Firsts(Bytes(o) \o BytesOf(e), skip))
              = FlattenSeq(Firsts(Bytes(o), skip)) \o FlattenSeq(Firsts(BytesOf(e), skip))
      BY <2>1, FirstsConcat
    <3>2. FlattenSeq(Firsts(BytesOf(e), skip)) = Keep(<<e.id>>, V)
      BY FirstsOfItem
    <3>3. QED
      BY <2>1, <3>1, <3>2
  <2>3. Ids(o) \in Seq(Nat \ {0}) /\ e.id \in Nat \ {0}
    BY <1>2 DEF Item
  <2>4. Ids(Append(o, e)) = Append(Ids(o), e.id)
    <3> DEFINE oe == Append(o, e)
               n == Len(o)
               ids == Ids(o)
               longer == Append(ids, e.id)
    <3>1. /\ n \in Nat /\ DOMAIN o = 1..n /\ DOMAIN oe = 1..(n + 1)
          /\ \A j \in 1..n : oe[j] = o[j]
          /\ oe[n + 1] = e
      BY <2>1, AppendProperties, LenProperties
    <3>2. ids = [j \in 1..n |-> o[j].id] /\ Ids(oe) = [j \in 1..(n + 1) |-> oe[j].id]
      BY <3>1 DEF Ids
    <3>3. Len(ids) = n /\ ids \in Seq(Nat \ {0})
      BY <2>3, <3>1, <3>2
    <3>4. /\ longer \in Seq(Nat \ {0}) /\ Len(longer) = n + 1
          /\ DOMAIN longer = 1..(n + 1)
          /\ \A j \in 1..n : longer[j] = ids[j]
          /\ longer[n + 1] = e.id
      BY <2>3, <3>3, AppendProperties, LenProperties
    <3>5. \A j \in 1..(n + 1) : j \in 1..n \/ j = n + 1
      BY <3>1
    <3> HIDE DEF oe, n, ids, longer
    <3>6. \A j \in 1..(n + 1) : oe[j].id = longer[j]
      BY <3>1, <3>2, <3>4, <3>5
    <3>7. longer = [j \in 1..(n + 1) |-> longer[j]]
      BY <3>4
    <3>8. Ids(oe) = longer
      BY <3>2, <3>6, <3>7
    <3>9. QED
      BY <3>8 DEF oe, ids, longer
  <2>5. <<e.id>> \in Seq(Nat \ {0}) /\ Append(Ids(o), e.id) = Ids(o) \o <<e.id>>
    BY <2>3, AppendIsConcat
  <2>6. /\ Keep(Ids(o) \o <<e.id>>, V) = Keep(Ids(o), V) \o Keep(<<e.id>>, V)
        /\ Ids(o) \o <<e.id>> \in Seq(Nat \ {0})
    <3> DEFINE u == <<e.id>>
               ids == Ids(o)
    <3>1. ids \in Seq(Nat \ {0}) /\ u \in Seq(Nat \ {0})
      BY <2>3, <2>5
    <3> HIDE DEF u, ids
    <3>2. /\ Keep(ids \o u, V) = Keep(ids, V) \o Keep(u, V)
          /\ ids \o u \in Seq(Nat \ {0})
      BY <3>1, KeepConcat, ConcatProperties
    <3>3. QED
      BY <3>2 DEF u, ids
  <2>7. FlattenSeq(Firsts(Bytes(o), skip)) = Keep(Ids(o), V)
    BY <1>2
  <2> HIDE DEF V
  <2>8. QED
    BY <2>1, <2>2, <2>4, <2>5, <2>6, <2>7
<1> HIDE DEF P
<1>3. items \in P
  BY <1>1, <1>2, SeqSetInduction
<1>4. QED
  BY <1>3 DEF P

-------------------------------------------------------------------------------
(* What decoding a piece yields: the items that are whole in it, and       *)
(* something lost for every byte of another whose start or end is missing. *)
Items(bytes) == [t \in 1..Len(bytes) |-> ItemAt(bytes, t)]

(* The sequences that Decoded joins. *)
LEMMA ItemsType ==
    ASSUME NEW C \in Seq(Byte)
    PROVE  /\ Items(C) \in Seq(Seq(Nat)) /\ Len(Items(C)) = Len(C)
           /\ \A t \in 1..Len(C) : Items(C)[t] = ItemAt(C, t)
           /\ Decoded(C) = FlattenSeq(Items(C))
           /\ Decoded(C) \in Seq(Nat)
<1> DEFINE n == Len(C)
           T == Seq(Nat)
<1>1. n \in Nat /\ DOMAIN C = 1..n /\ \A t \in 1..n : C[t].id \in Nat
  <2>1. \A t \in 1..n : C[t] \in Byte
    BY ElementOfSeq
  <2>2. QED
    BY <2>1, LenProperties DEF Byte
<1>2. <<>> \in T /\ <<Lost>> \in T /\ \A t \in 1..n : <<C[t].id>> \in T
  BY <1>1, EmptySeq DEF Lost
<1> HIDE DEF T, n
<1>3. \A t \in 1..n : ItemAt(C, t) \in T
  BY <1>2 DEF ItemAt
<1>4. Items(C) = [t \in 1..n |-> ItemAt(C, t)]
  BY DEF Items, n
<1>5. Items(C) \in Seq(T) /\ Len(Items(C)) = n
  BY <1>1, <1>3, <1>4
<1>6. Decoded(C) = FlattenSeq(Items(C))
  BY <1>1, <1>4 DEF Decoded
<1>7. QED
  BY <1>4, <1>5, <1>6, FlattenType DEF T, n

(* Of what was decoded, names are kept and what was lost is not. *)
LEMMA KeepNamed ==
    /\ Keep(<<Lost>>, Nat \ {Lost}) = <<>>
    /\ \A k \in Nat \ {0} : Keep(<<k>>, Nat \ {Lost}) = <<k>>
<1>1. Keep(<<Lost>>, Nat \ {Lost}) = <<>>
  <2>1. Kept(<<Lost>>, Nat \ {Lost}) = << <<>> >>
    BY DEF Kept
  <2>2. <<>> \in Seq(Nat)
    BY EmptySeq
  <2>3. FlattenSeq(<< <<>> >>) = <<>>
    BY <2>2, FlattenOne
  <2>4. QED
    BY <2>1, <2>3, KeepIsFlat
<1>2. ASSUME NEW k \in Nat \ {0}
      PROVE  Keep(<<k>>, Nat \ {Lost}) = <<k>>
  <2> DEFINE u == <<k>>
             V == Nat \ {Lost}
  <2>1. u \in Seq(V)
    BY DEF Lost
  <2> HIDE DEF u, V
  <2>2. Keep(u, V) = u
    BY <2>1, KeepAll
  <2>3. QED
    BY <2>2 DEF u, V
<1>3. QED
  BY <1>1, <1>2

(* The names in a piece are those of the items that are whole in it. *)
LEMMA DecodedKept ==
    ASSUME NEW C \in Seq(Byte)
    PROVE  Keep(Decoded(C), Nat \ {Lost}) = FlattenSeq(Starts(C, Len(C), {}))
<1> DEFINE V == Nat \ {Lost}
           n == Len(C)
           f == Items(C)
           g == KeepEach(f, V)
           h == Starts(C, n, {})
<1>1. n \in Nat /\ \A t \in 1..n : C[t].id \in Nat \ {0}
  <2>1. \A t \in 1..n : C[t] \in Byte
    BY ElementOfSeq
  <2>2. QED
    BY <2>1, LenProperties DEF Byte
<1>2. /\ f \in Seq(Seq(Nat)) /\ Len(f) = n
      /\ \A t \in 1..n : f[t] = ItemAt(C, t)
      /\ Decoded(C) = FlattenSeq(f)
  BY ItemsType
<1>3. /\ h \in Seq(Seq(Nat)) /\ Len(h) = n
      /\ \A t \in 1..n : h[t] = IF C[t].i = 1 /\ C[t].id \notin {} /\ t + C[t].n - 1 <= n
                                THEN <<C[t].id>> ELSE <<>>
  BY <1>1, StartsType
<1> HIDE DEF f, h
<1>4. /\ g \in Seq(Seq(Nat)) /\ Len(g) = n
      /\ \A t \in 1..n : g[t] = Keep(f[t], V)
      /\ Keep(Decoded(C), V) = FlattenSeq(g)
  BY <1>2, KeepEachType, KeepFlatten
<1>5. ASSUME NEW t \in 1..n
      PROVE  g[t] = h[t]
  <2>1. CASE C[t].i = 1 /\ t + C[t].n - 1 <= n
    <3>1. f[t] = <<C[t].id>> /\ h[t] = <<C[t].id>>
      BY <1>2, <1>3, <2>1 DEF ItemAt
    <3>2. Keep(<<C[t].id>>, V) = <<C[t].id>>
      BY <1>1, KeepNamed
    <3>3. QED
      BY <1>4, <3>1, <3>2
  <2>2. CASE ~(C[t].i = 1 /\ t + C[t].n - 1 <= n)
    <3>1. f[t] \in {<<>>, <<Lost>>} /\ h[t] = <<>>
      BY <1>2, <1>3, <2>2 DEF ItemAt
    <3>2. Keep(f[t], V) = <<>>
      BY <3>1, KeepNamed, KeepEmpty
    <3>3. QED
      BY <1>4, <3>1, <3>2
  <2>3. QED
    BY <2>1, <2>2
<1> HIDE DEF g, n
<1>6. g = h
  BY <1>3, <1>4, <1>5, SeqEqual
<1>7. QED
  BY <1>4, <1>6 DEF h, n

(* Decoding the whole output gives every item.                             *)
LEMMA WholeDecoded ==
    ASSUME NEW o \in Seq(Item), Distinct(o)
    PROVE  Decoded(Bytes(o)) = Ids(o)
<1> DEFINE B == Bytes(o)
           n == Len(B)
           f == Items(B)
           h == Firsts(B, {})
<1>1. B \in Seq(Byte) /\ n \in Nat /\ Layout(B)
  BY BytesType, BytesLayout, LenProperties
<1> HIDE DEF B
<1>2. /\ f \in Seq(Seq(Nat)) /\ Len(f) = n
      /\ \A t \in 1..n : f[t] = ItemAt(B, t)
      /\ Decoded(B) = FlattenSeq(f)
  BY <1>1, ItemsType
<1>3. /\ h \in Seq(Seq(Nat)) /\ Len(h) = n
      /\ \A t \in 1..n : h[t] = IF B[t].i = 1 /\ B[t].id \notin {} THEN <<B[t].id>> ELSE <<>>
  BY <1>1, FirstsType
<1> HIDE DEF f, h
<1>4. ASSUME NEW t \in 1..n
      PROVE  f[t] = h[t]
  <2>1. /\ B[t].i \in 1..B[t].n /\ B[t].i <= t /\ t - B[t].i + B[t].n <= n
        /\ B[t].i \in Nat /\ B[t].n \in Nat
    <3>1. B[t] \in Byte
      BY <1>1, ElementOfSeq
    <3>2. QED
      BY <1>1, <3>1 DEF Layout, Byte
  <2>2. CASE B[t].i = 1
    <3>1. t + B[t].n - 1 <= Len(B)
      BY <1>1, <2>1, <2>2
    <3>2. f[t] = <<B[t].id>>
      BY <1>2, <2>2, <3>1 DEF ItemAt
    <3>3. QED
      BY <1>3, <2>2, <3>2
  <2>3. CASE B[t].i # 1
    <3>1. B[t].i > 1 /\ t >= B[t].i
      BY <1>1, <2>1, <2>3
    <3>2. f[t] = <<>>
      BY <1>2, <2>3, <3>1 DEF ItemAt
    <3>3. QED
      BY <1>3, <2>3, <3>2
  <2>4. QED
    BY <2>2, <2>3
<1> HIDE DEF n
<1>5. f = h
  BY <1>2, <1>3, <1>4, SeqEqual
<1>6. FlattenSeq(h) = Keep(Ids(o), Nat \ {}) /\ Ids(o) \in Seq(Nat \ {0})
  BY FirstsAreItems DEF h, B
<1>7. Keep(Ids(o), Nat \ {}) = Ids(o)
  BY <1>6, KeepAll
<1>8. QED
  BY <1>2, <1>5, <1>6, <1>7 DEF B

-------------------------------------------------------------------------------
(* While the client collects an output o, of which p bytes were read.      *)
Read(o, p) ==
    LET B == Bytes(o)
    IN  /\ p \in 0..Len(B)
        /\ whole = Ids(o)
        /\ left = SubSeq(B, p + 1, Len(B))
        /\ \A c \in cut : \E q \in 1..p : B[q].id = c
        /\ p > 0 /\ B[p].i < B[p].n => B[p].id \in cut
        /\ call = "text" => /\ payload = <<>> /\ out \in Seq(Nat)
                            /\ Keep(out, Nat \ {Lost}) = FlattenSeq(Starts(B, p, cut))
        /\ call = "users" => payload = SubSeq(B, 1, p)

Collecting == call \in {"text", "users"} => \E o \in Outputs, p \in Nat : Read(o, p)

(* What is known of an output and its bytes. *)
LEMMA OutputFacts ==
    ASSUME NEW o \in Outputs
    PROVE  /\ o \in Seq(Item) /\ Distinct(o)
           /\ Bytes(o) \in Seq(Byte) /\ Len(Bytes(o)) \in Nat
           /\ Layout(Bytes(o))
<1>1. o \in Seq(Item) /\ Distinct(o)
  BY ServiceAssumption DEF Distinct
<1>2. QED
  BY <1>1, BytesType, BytesLayout, LenProperties

(* A piece of k bytes after the first p: the items that start in it and    *)
(* end in it are those the longer output has more, and an item that it     *)
(* cuts is lost for good.                                                  *)
Continues(B, p, chunk, k, skip, more) ==
    /\ B \in Seq(Byte) /\ Layout(B) /\ p \in Nat /\ k \in Nat \ {0} /\ p + k <= Len(B)
    /\ chunk \in Seq(Byte) /\ Len(chunk) = k /\ \A i \in 1..k : chunk[i] = B[p + i]
    /\ \A c \in skip : \E q \in 1..p : B[q].id = c
    /\ p > 0 /\ B[p].i < B[p].n => B[p].id \in skip
    /\ more = IF B[p + k].i < B[p + k].n THEN skip \cup {B[p + k].id} ELSE skip

(* So a piece adds to what was read the items that are whole in it. *)
LEMMA PieceStarts ==
    ASSUME NEW B, NEW p, NEW chunk, NEW k, NEW skip, NEW more,
           Continues(B, p, chunk, k, skip, more)
    PROVE  FlattenSeq(Starts(B, p + k, more))
               = FlattenSeq(Starts(B, p, skip)) \o FlattenSeq(Starts(chunk, k, {}))
<1> DEFINE m == p + k
           n == Len(B)
           a == Starts(B, p, skip)
           b == Starts(chunk, k, {})
           c == Starts(B, m, more)
<1>0. /\ B \in Seq(Byte) /\ Layout(B) /\ p \in Nat /\ k \in Nat \ {0} /\ p + k <= Len(B)
      /\ chunk \in Seq(Byte) /\ Len(chunk) = k /\ \A i \in 1..k : chunk[i] = B[p + i]
      /\ \A e \in skip : \E q \in 1..p : B[q].id = e
      /\ p > 0 /\ B[p].i < B[p].n => B[p].id \in skip
      /\ more = IF B[p + k].i < B[p + k].n THEN skip \cup {B[p + k].id} ELSE skip
  BY DEF Continues
<1>1. n \in Nat /\ m \in Nat /\ p \in 0..n /\ m \in 1..n /\ k \in 0..Len(chunk)
  BY <1>0, LenProperties
<1>2. /\ a \in Seq(Seq(Nat)) /\ Len(a) = p
      /\ \A t \in 1..p : a[t] = IF B[t].i = 1 /\ B[t].id \notin skip /\ t + B[t].n - 1 <= p
                                THEN <<B[t].id>> ELSE <<>>
  BY <1>0, <1>1, StartsType
<1>3. /\ b \in Seq(Seq(Nat)) /\ Len(b) = k
      /\ \A t \in 1..k : b[t] = IF chunk[t].i = 1 /\ chunk[t].id \notin {} /\ t + chunk[t].n - 1 <= k
                                THEN <<chunk[t].id>> ELSE <<>>
  BY <1>0, <1>1, StartsType
<1>4. /\ c \in Seq(Seq(Nat)) /\ Len(c) = m
      /\ \A t \in 1..m : c[t] = IF B[t].i = 1 /\ B[t].id \notin more /\ t + B[t].n - 1 <= m
                                THEN <<B[t].id>> ELSE <<>>
  <2>1. B \in Seq(Byte) /\ m \in 0..Len(B)
    BY <1>0, <1>1
  <2> HIDE DEF m
  <2>2. QED
    BY <2>1, StartsType
<1>5. /\ \A q \in 1..n : /\ B[q].i \in 1..B[q].n /\ B[q].i <= q
                         /\ q - B[q].i + B[q].n <= n
                         /\ B[q].i \in Nat /\ B[q].n \in Nat
      /\ \A q, t \in 1..n :
            /\ q - B[q].i < t /\ t <= q - B[q].i + B[q].n => B[t].id = B[q].id
            /\ B[t].id = B[q].id => t - B[t].i = q - B[q].i /\ B[t].n = B[q].n
  <2>1. \A q \in 1..n : B[q] \in Byte
    BY <1>0, ElementOfSeq
  <2>2. QED
    BY <1>0, <2>1 DEF Layout, Byte
<1> HIDE DEF a, b, c, n
<1>6. /\ a \o b \in Seq(Seq(Nat)) /\ Len(a \o b) = m
      /\ \A t \in 1..m : (a \o b)[t] = IF t <= p THEN a[t] ELSE b[t - p]
  <2> DEFINE T == Seq(Nat)
  <2>1. a \in Seq(T) /\ b \in Seq(T)
    BY <1>0, <1>2, <1>3
  <2> HIDE DEF T
  <2>2. /\ a \o b \in Seq(T) /\ Len(a \o b) = Len(a) + Len(b)
        /\ \A t \in 1..(Len(a) + Len(b)) :
              (a \o b)[t] = IF t <= Len(a) THEN a[t] ELSE b[t - Len(a)]
    BY <1>0, <2>1, ConcatProperties
  <2>3. a \o b \in Seq(Seq(Nat))
    BY <1>0, <2>2 DEF T
  <2>4. Len(a) = p /\ Len(b) = k
    BY <1>0, <1>2, <1>3
  <2>5. QED
    BY <1>0, <2>2, <2>3, <2>4
<1>7. ASSUME NEW t \in 1..m
      PROVE  c[t] = (a \o b)[t]
  <2>1. t \in 1..n /\ m \in 1..n /\ t <= m
    BY <1>0, <1>1
  <2>2. CASE B[t].i # 1
    <3>1. c[t] = <<>>
      BY <1>0, <1>4, <2>2
    <3>2. CASE t <= p
      <4>1. t \in 1..p /\ (a \o b)[t] = a[t]
        BY <1>0, <1>1, <1>6, <3>2
      <4>2. QED
        BY <1>0, <1>2, <2>2, <3>1, <4>1
    <3>3. CASE ~(t <= p)
      <4>1. t - p \in 1..k /\ (a \o b)[t] = b[t - p] /\ p + (t - p) = t
        <5>1. p \in Nat /\ k \in Nat
          BY <1>0
        <5>2. t - p \in 1..k /\ p + (t - p) = t
          BY <3>3, <5>1
        <5>3. (a \o b)[t] = b[t - p]
          BY <1>6, <3>3
        <5>4. QED
          BY <5>2, <5>3
      <4>2. chunk[t - p] = B[t]
        BY <1>0, <4>1
      <4>3. b[t - p] = <<>>
        BY <1>0, <1>3, <2>2, <4>1, <4>2
      <4>4. QED
        BY <1>0, <3>1, <4>1, <4>3
    <3>4. QED
      BY <1>0, <3>2, <3>3
  <2>3. CASE B[t].i = 1
    <3> DEFINE id == B[t].id
               end == t + B[t].n - 1
    <3>0. B[t].n \in Nat /\ B[t].n >= 1 /\ t - 1 + B[t].n <= n
      BY <1>0, <1>5, <2>1, <2>3
    <3>1. end \in t..n /\ end \in Nat
      BY <1>0, <1>1, <2>1, <3>0
    <3>2. ASSUME NEW q \in 1..n, B[q].id = id
          PROVE  q - B[q].i = t - 1 /\ B[q].n = B[t].n /\ B[q].i \in 1..B[t].n
      BY <1>5, <2>1, <2>3, <3>2
    <3>3. ASSUME NEW q \in 1..n, t <= q, q <= end
          PROVE  B[q].id = id
      <4>1. t - B[t].i < q /\ q <= t - B[t].i + B[t].n
        BY <1>0, <1>5, <2>1, <2>3, <3>3
      <4>2. QED
        BY <1>0, <1>5, <2>1, <4>1
    <3>4. ASSUME end <= m
          PROVE  ~(B[m].i < B[m].n /\ B[m].id = id)
      <4>1. SUFFICES ASSUME B[m].id = id
                     PROVE  ~(B[m].i < B[m].n)
        BY <1>0
      <4>2. m - B[m].i = t - 1 /\ B[m].n = B[t].n /\ B[m].i \in 1..B[t].n
        BY <1>0, <2>1, <3>2, <4>1
      <4> DEFINE bi == B[m].i
                 bn == B[t].n
      <4>3. /\ m \in Nat /\ t \in Nat /\ bi \in Nat /\ bn \in Nat
            /\ m - bi = t - 1 /\ t + bn - 1 <= m /\ B[m].n = bn
        BY <1>0, <1>1, <2>1, <3>0, <3>4, <4>2
      <4> HIDE DEF m, bi, bn
      <4>4. bi >= bn
        BY <1>0, <4>3
      <4>5. ~(bi < bn)
        BY <1>0, <4>3, <4>4
      <4>6. QED
        BY <1>0, <4>3, <4>5 DEF bi
    <3>5. CASE t <= p
      <4>1. t \in 1..p /\ (a \o b)[t] = a[t]
        BY <1>0, <1>1, <1>6, <3>5
      <4>2. a[t] = IF id \notin skip /\ end <= p THEN <<id>> ELSE <<>>
        BY <1>0, <1>2, <2>3, <4>1
      <4>3. c[t] = IF id \notin more /\ end <= m THEN <<id>> ELSE <<>>
        BY <1>0, <1>4, <2>3
      <4>4. CASE end <= p
        <5>1. end <= m
          BY <1>0, <1>1, <3>1, <4>4
        <5>2. id \in more <=> id \in skip
          BY <1>0, <3>4, <5>1
        <5>3. QED
          BY <1>0, <4>1, <4>2, <4>3, <4>4, <5>1, <5>2
      <4>5. CASE ~(end <= p)
        <5>1. p \in 1..n /\ t <= p /\ p <= end /\ p > 0
          BY <1>0, <1>1, <3>1, <3>5, <4>5
        <5>2. B[p].id = id
          BY <1>0, <3>3, <5>1
        <5>3. B[p].i < B[p].n
          <6>1. p - B[p].i = t - 1 /\ B[p].n = B[t].n /\ B[p].i \in 1..B[t].n
            BY <1>0, <3>2, <5>1, <5>2
          <6>2. QED
            BY <1>0, <2>1, <3>0, <4>5, <5>1, <6>1
        <5>4. id \in skip /\ id \in more
          BY <1>0, <5>1, <5>2, <5>3
        <5>5. QED
          BY <1>0, <4>1, <4>2, <4>3, <5>4
      <4>6. QED
        BY <1>0, <4>4, <4>5
    <3>6. CASE ~(t <= p)
      <4>1. t - p \in 1..k /\ (a \o b)[t] = b[t - p] /\ p + (t - p) = t
        <5>1. p \in Nat /\ k \in Nat
          BY <1>0
        <5>2. t - p \in 1..k /\ p + (t - p) = t
          BY <3>6, <5>1
        <5>3. (a \o b)[t] = b[t - p]
          BY <1>6, <3>6
        <5>4. QED
          BY <5>2, <5>3
      <4>2. chunk[t - p] = B[t]
        BY <1>0, <4>1
      <4>3. b[t - p] = IF (t - p) + B[t].n - 1 <= k THEN <<id>> ELSE <<>>
        BY <1>0, <1>3, <2>3, <4>1, <4>2
      <4>4. (t - p) + B[t].n - 1 <= k <=> end <= m
        <5> DEFINE bn == B[t].n
        <5>1. t \in Nat /\ bn \in Nat
          BY <1>0, <2>1, <3>0
        <5> HIDE DEF bn
        <5>2. (t - p) + bn - 1 <= k <=> t + bn - 1 <= p + k
          BY <1>0, <5>1
        <5>3. QED
          BY <1>0, <5>2 DEF bn
      <4>5. id \notin skip
        <5>1. ASSUME NEW q \in 1..p, B[q].id = id
              PROVE  FALSE
          <6>1. q \in 1..n /\ q < t
            BY <1>0, <1>1, <3>6
          <6>2. QED
            <7>1. q - B[q].i = t - 1 /\ B[q].i \in 1..B[t].n
              BY <1>0, <3>2, <5>1, <6>1
            <7>2. QED
              BY <1>0, <2>1, <3>0, <6>1, <7>1
        <5>2. QED
          BY <1>0, <5>1
      <4>6. end <= m => id \notin more
        BY <1>0, <3>4, <4>5
      <4>7. c[t] = IF id \notin more /\ end <= m THEN <<id>> ELSE <<>>
        BY <1>0, <1>4, <2>3
      <4>8. QED
        BY <1>0, <4>1, <4>3, <4>4, <4>6, <4>7
    <3>7. QED
      BY <1>0, <3>5, <3>6
  <2>4. QED
    BY <1>0, <2>2, <2>3
<1> HIDE DEF m
<1>8. c = a \o b
  BY <1>0, <1>4, <1>6, <1>7, SeqEqual
<1>9. FlattenSeq(c) = FlattenSeq(a) \o FlattenSeq(b)
  BY <1>0, <1>2, <1>3, <1>8, FlattenConcat
<1>10. QED
  BY <1>0, <1>9 DEF a, b, c, m

(* What is left after p bytes, its first k bytes, and what they leave.     *)
PieceOf(B, p, l, k) ==
    /\ SubSeq(l, 1, k) \in Seq(Byte) /\ Len(SubSeq(l, 1, k)) = k
    /\ \A i \in 1..k : SubSeq(l, 1, k)[i] = B[p + i]
    /\ SubSeq(l, k + 1, Len(l)) = SubSeq(B, p + k + 1, Len(B))
    /\ SubSeq(B, 1, p) \o SubSeq(l, 1, k) = SubSeq(B, 1, p + k)

LEMMA Pieces ==
    ASSUME NEW B \in Seq(Byte), NEW p \in 0..Len(B), NEW l, l = SubSeq(B, p + 1, Len(B))
    PROVE  /\ l \in Seq(Byte) /\ Len(l) = Len(B) - p
           /\ \A i \in 1..(Len(B) - p) : l[i] = B[p + i]
           /\ \A k \in 1..(Len(B) - p) : PieceOf(B, p, l, k)
<1> DEFINE n == Len(B)
<1>1. n \in Nat /\ p \in Nat /\ p <= n /\ \A i \in 1..n : B[i] \in Byte
  BY LenProperties, ElementOfSeq
<1>2. l \in Seq(Byte) /\ Len(l) = n - p /\ \A i \in 1..(n - p) : l[i] = B[p + i]
  <2>1. p + 1 \in Int /\ n \in Int /\ \A i \in (p + 1)..n : B[i] \in Byte
    BY <1>1
  <2>2. /\ l \in Seq(Byte)
        /\ Len(l) = IF p + 1 <= n THEN n - (p + 1) + 1 ELSE 0
        /\ \A i \in 1..(n - (p + 1) + 1) : l[i] = B[(p + 1) + i - 1]
    BY <2>1, SubSeqProperties
  <2> HIDE DEF n
  <2>3. n - (p + 1) + 1 = n - p /\ \A i \in Int : (p + 1) + i - 1 = p + i
    BY <1>1
  <2>4. QED
    BY <1>1, <2>2, <2>3
<1>3. ASSUME NEW k \in 1..(n - p)
      PROVE  /\ SubSeq(l, 1, k) \in Seq(Byte) /\ Len(SubSeq(l, 1, k)) = k
             /\ \A i \in 1..k : SubSeq(l, 1, k)[i] = B[p + i]
             /\ SubSeq(l, k + 1, Len(l)) = SubSeq(B, p + k + 1, n)
             /\ SubSeq(B, 1, p) \o SubSeq(l, 1, k) = SubSeq(B, 1, p + k)
  <2> DEFINE c == SubSeq(l, 1, k)
             r == SubSeq(l, k + 1, Len(l))
             s == SubSeq(B, p + k + 1, n)
             a == SubSeq(B, 1, p)
             d == SubSeq(B, 1, p + k)
  <2>1. k \in Nat \ {0} /\ k <= n - p /\ p + k <= n /\ p + k \in Nat
    BY <1>1
  <2>2. \A i \in 1..(n - p) : l[i] \in Byte
    BY <1>1, <1>2
  <2>3. c \in Seq(Byte) /\ Len(c) = k /\ \A i \in 1..k : c[i] = B[p + i]
    <3>1. \A i \in 1..k : l[i] \in Byte /\ l[i] = B[p + i]
      BY <1>1, <1>2, <2>1, <2>2
    <3>2. /\ c \in Seq(Byte)
          /\ Len(c) = IF 1 <= k THEN k - 1 + 1 ELSE 0
          /\ \A i \in 1..(k - 1 + 1) : c[i] = l[1 + i - 1]
      BY <2>1, <3>1, SubSeqProperties
    <3> HIDE DEF c
    <3>3. k - 1 + 1 = k /\ 1 <= k /\ \A i \in 1..k : 1 + i - 1 = i
      BY <2>1
    <3>4. QED
      BY <3>1, <3>2, <3>3
  <2>4. r \in Seq(Byte) /\ Len(r) = n - p - k /\ \A i \in 1..(n - p - k) : r[i] = B[p + k + i]
    <3>1. k + 1 \in Int /\ n - p \in Int /\ \A i \in (k + 1)..(n - p) : l[i] \in Byte
      BY <1>1, <2>1, <2>2
    <3>2. /\ r \in Seq(Byte)
          /\ Len(r) = IF k + 1 <= n - p THEN (n - p) - (k + 1) + 1 ELSE 0
          /\ \A i \in 1..((n - p) - (k + 1) + 1) : r[i] = l[(k + 1) + i - 1]
      BY <1>2, <3>1, SubSeqProperties
    <3> HIDE DEF r, n
    <3>3. /\ (n - p) - (k + 1) + 1 = n - p - k
          /\ k + 1 <= n - p \/ n - p - k = 0
          /\ \A i \in 1..(n - p - k) : /\ (k + 1) + i - 1 = k + i /\ k + i \in 1..(n - p)
                                       /\ p + (k + i) = p + k + i
      BY <1>1, <2>1
    <3>4. \A i \in 1..(n - p - k) : r[i] = l[k + i] /\ l[k + i] = B[p + (k + i)]
      BY <1>2, <3>2, <3>3
    <3>5. QED
      BY <3>2, <3>3, <3>4
  <2>5. s \in Seq(Byte) /\ Len(s) = n - p - k /\ \A i \in 1..(n - p - k) : s[i] = B[p + k + i]
    <3>1. p + k + 1 \in Int /\ n \in Int /\ \A i \in (p + k + 1)..n : B[i] \in Byte
      BY <1>1, <2>1
    <3>2. /\ s \in Seq(Byte)
          /\ Len(s) = IF p + k + 1 <= n THEN n - (p + k + 1) + 1 ELSE 0
          /\ \A i \in 1..(n - (p + k + 1) + 1) : s[i] = B[(p + k + 1) + i - 1]
      BY <3>1, SubSeqProperties
    <3> HIDE DEF s, n
    <3>3. /\ n - (p + k + 1) + 1 = n - p - k
          /\ p + k + 1 <= n \/ n - p - k = 0
          /\ \A i \in 1..(n - p - k) : (p + k + 1) + i - 1 = p + k + i
      BY <1>1, <2>1
    <3>4. QED
      BY <3>2, <3>3
  <2>6. a \in Seq(Byte) /\ Len(a) = p /\ \A i \in 1..p : a[i] = B[i]
    <3>1. \A i \in 1..p : B[i] \in Byte
      BY <1>1
    <3>2. /\ a \in Seq(Byte)
          /\ Len(a) = IF 1 <= p THEN p - 1 + 1 ELSE 0
          /\ \A i \in 1..(p - 1 + 1) : a[i] = B[1 + i - 1]
      BY <1>1, <3>1, SubSeqProperties
    <3> HIDE DEF a
    <3>3. p - 1 + 1 = p /\ (1 <= p \/ p = 0) /\ \A i \in 1..p : 1 + i - 1 = i
      BY <1>1
    <3>4. QED
      BY <3>2, <3>3
  <2>7. d \in Seq(Byte) /\ Len(d) = p + k /\ \A i \in 1..(p + k) : d[i] = B[i]
    <3>1. \A i \in 1..(p + k) : B[i] \in Byte
      BY <1>1, <2>1
    <3>2. /\ d \in Seq(Byte)
          /\ Len(d) = IF 1 <= p + k THEN (p + k) - 1 + 1 ELSE 0
          /\ \A i \in 1..((p + k) - 1 + 1) : d[i] = B[1 + i - 1]
      BY <2>1, <3>1, SubSeqProperties
    <3> HIDE DEF d
    <3>3. (p + k) - 1 + 1 = p + k /\ 1 <= p + k /\ \A i \in 1..(p + k) : 1 + i - 1 = i
      BY <1>1, <2>1
    <3>4. QED
      BY <3>2, <3>3
  <2> HIDE DEF a, c, d, r, s, n
  <2>8. r = s
    <3>1. \A i \in 1..(n - p - k) : r[i] = s[i]
      BY <2>4, <2>5
    <3>2. QED
      BY <1>1, <2>1, <2>4, <2>5, <3>1, SeqEqual
  <2>9. a \o c = d
    <3>1. /\ a \o c \in Seq(Byte) /\ Len(a \o c) = Len(a) + Len(c)
          /\ \A i \in 1..(Len(a) + Len(c)) :
                (a \o c)[i] = IF i <= Len(a) THEN a[i] ELSE c[i - Len(a)]
      BY <2>3, <2>6, ConcatProperties
    <3>2. /\ Len(a \o c) = p + k
          /\ \A i \in 1..(p + k) : (a \o c)[i] = IF i <= p THEN a[i] ELSE c[i - p]
      BY <2>3, <2>6, <3>1
    <3>3. ASSUME NEW i \in 1..(p + k)
          PROVE  (a \o c)[i] = d[i]
      <4>1. CASE i <= p
        <5>1. i \in 1..p
          BY <1>1, <4>1
        <5>2. QED
          BY <2>6, <2>7, <3>2, <4>1, <5>1
      <4>2. CASE ~(i <= p)
        <5>1. i - p \in 1..k /\ p + (i - p) = i
          BY <1>1, <2>1, <4>2
        <5>2. QED
          BY <2>3, <2>7, <3>2, <4>2, <5>1
      <4>3. QED
        BY <4>1, <4>2
    <3>4. QED
      BY <2>1, <2>7, <3>1, <3>2, <3>3, SeqEqual
  <2>10. QED
    BY <2>3, <2>8, <2>9 DEF a, c, d, r, s, n
<1>4. QED
  BY <1>2, <1>3 DEF PieceOf

-------------------------------------------------------------------------------
(* One lemma per action.                                                   *)
LEMMA StartKept ==
    ASSUME NEW kind \in {"text", "users"}, NEW o \in Outputs, Start(kind, o)
    PROVE  Collecting'
<1> DEFINE B == Bytes(o)
<1>1. B \in Seq(Byte) /\ Len(B) \in Nat
  BY OutputFacts
<1>2. /\ call' = kind /\ payload' = <<>> /\ out' = <<>> /\ cut' = {}
      /\ whole' = Ids(o) /\ left' = B
  BY DEF Start
<1> HIDE DEF B
<1>3. 0 \in 0..Len(B) /\ 0 + 1 = 1 /\ SubSeq(B, 1, Len(B)) = B /\ SubSeq(B, 1, 0) = <<>>
  BY <1>1, SubSeqFull, SubSeqEmpty
<1>4. Keep(<<>>, Nat \ {Lost}) = FlattenSeq(Starts(B, 0, {}))
  <2>1. Starts(B, 0, {}) = <<>>
    BY EmptySeq DEF Starts
  <2>2. QED
    BY <2>1, KeepEmpty, FlattenEmpty
<1>5. <<>> \in Seq(Nat)
  BY EmptySeq
<1>6. Read(o, 0)'
  BY <1>2, <1>3, <1>4, <1>5 DEF Read, B
<1>7. QED
  BY <1>6 DEF Collecting

(* One more piece, wherever it was cut. *)
LEMMA ReadChunkKept ==
    ASSUME Collecting, ReadChunk
    PROVE  Collecting'
<1>1. PICK o \in Outputs, p \in Nat : Read(o, p)
  BY DEF Collecting, ReadChunk
<1>2. PICK k \in 1..MaxChunk :
          /\ k <= Len(left)
          /\ Collect(SubSeq(left, 1, k))
          /\ left' = SubSeq(left, k + 1, Len(left))
          /\ cut' = IF left[k].i < left[k].n THEN cut \cup {left[k].id} ELSE cut
  BY DEF ReadChunk
<1> DEFINE B == Bytes(o)
           n == Len(B)
           chunk == SubSeq(left, 1, k)
           m == p + k
<1>3. /\ B \in Seq(Byte) /\ n \in Nat /\ Layout(B)
      /\ \A q \in 1..n : B[q].id \in Nat
  <2>1. B \in Seq(Byte) /\ n \in Nat /\ Layout(B)
    BY OutputFacts
  <2>2. \A q \in 1..n : B[q] \in Byte
    BY <2>1, ElementOfSeq
  <2>3. QED
    BY <2>1, <2>2 DEF Byte
<1>4. /\ p \in 0..n /\ whole = Ids(o)
      /\ left = SubSeq(B, p + 1, n)
      /\ \A c \in cut : \E q \in 1..p : B[q].id = c
      /\ p > 0 /\ B[p].i < B[p].n => B[p].id \in cut
      /\ call = "text" => /\ payload = <<>> /\ out \in Seq(Nat)
                          /\ Keep(out, Nat \ {Lost}) = FlattenSeq(Starts(B, p, cut))
      /\ call = "users" => payload = SubSeq(B, 1, p)
  BY <1>1 DEF Read
<1> HIDE DEF B
<1>5. Len(left) = n - p /\ \A i \in 1..(n - p) : left[i] = B[p + i]
  BY <1>3, <1>4, Pieces
<1>6. k \in Nat \ {0} /\ k \in 1..(n - p) /\ m \in 1..n /\ m <= n
  BY <1>2, <1>3, <1>4, <1>5, ServiceAssumption
<1>7. /\ chunk \in Seq(Byte) /\ Len(chunk) = k
      /\ \A i \in 1..k : chunk[i] = B[p + i]
      /\ left' = SubSeq(B, m + 1, n)
      /\ SubSeq(B, 1, p) \o chunk = SubSeq(B, 1, m)
  <2>1. /\ chunk \in Seq(Byte) /\ Len(chunk) = k
        /\ \A i \in 1..k : chunk[i] = B[p + i]
        /\ SubSeq(left, k + 1, Len(left)) = SubSeq(B, p + k + 1, n)
        /\ SubSeq(B, 1, p) \o chunk = SubSeq(B, 1, p + k)
    <3>1. k \in 1..(Len(B) - p)
      BY <1>3, <1>4, <1>6
    <3>2. B \in Seq(Byte) /\ p \in 0..Len(B) /\ left = SubSeq(B, p + 1, Len(B))
      BY <1>3, <1>4
    <3>3. \A j \in 1..(Len(B) - p) : PieceOf(B, p, left, j)
      BY <3>2, Pieces
    <3>4. QED
      BY <3>1, <3>3 DEF PieceOf
  <2>2. QED
    BY <1>2, <2>1
<1>8. left[k] = B[m]
  BY <1>5, <1>6
<1>9. cut' = IF B[m].i < B[m].n THEN cut \cup {B[m].id} ELSE cut
  BY <1>2, <1>8
<1>10. call' = call /\ whole' = whole /\ call \in {"text", "users"}
  BY DEF ReadChunk
<1> HIDE DEF chunk, n
<1>11. ASSUME NEW c \in cut'
       PROVE  \E q \in 1..m : B[q].id = c
  <2>1. CASE c \in cut
    <3>1. PICK q \in 1..p : B[q].id = c
      BY <1>4, <2>1
    <3>2. q \in 1..m
      BY <1>6
    <3>3. QED
      BY <3>1, <3>2
  <2>2. CASE c \notin cut
    <3>1. c = B[m].id
      BY <1>9, <1>11, <2>2
    <3>2. m \in 1..m
      BY <1>6
    <3>3. QED
      BY <3>1, <3>2
  <2>3. QED
    BY <2>1, <2>2
<1>12. B[m].i < B[m].n => B[m].id \in cut'
  BY <1>9
<1>13. ASSUME call = "text"
       PROVE  /\ payload' = <<>> /\ out' \in Seq(Nat)
              /\ Keep(out', Nat \ {Lost}) = FlattenSeq(Starts(B, m, cut'))
  <2>1. out' = out \o Decoded(chunk) /\ payload' = payload
    BY <1>2, <1>13 DEF Collect, chunk
  <2>2. payload = <<>> /\ out \in Seq(Nat) /\ Keep(out, Nat \ {Lost}) = FlattenSeq(Starts(B, p, cut))
    BY <1>4, <1>13
  <2>3. Decoded(chunk) \in Seq(Nat)
    BY <1>7, ItemsType
  <2>4. Keep(out', Nat \ {Lost}) = Keep(out, Nat \ {Lost}) \o Keep(Decoded(chunk), Nat \ {Lost})
    BY <2>1, <2>2, <2>3, KeepConcat
  <2>5. Keep(Decoded(chunk), Nat \ {Lost}) = FlattenSeq(Starts(chunk, k, {}))
    BY <1>7, DecodedKept
  <2>6. FlattenSeq(Starts(B, m, cut'))
            = FlattenSeq(Starts(B, p, cut)) \o FlattenSeq(Starts(chunk, k, {}))
    <3>1. p \in Nat /\ m <= Len(B)
      BY <1>6 DEF n
    <3>2. QED
      <4> DEFINE more == cut'
      <4>1. /\ B \in Seq(Byte) /\ Layout(B) /\ p \in Nat /\ k \in Nat \ {0} /\ p + k <= Len(B)
            /\ chunk \in Seq(Byte) /\ Len(chunk) = k /\ \A i \in 1..k : chunk[i] = B[p + i]
        BY <1>3, <1>6, <1>7, <3>1
      <4>2. /\ \A c \in cut : \E q \in 1..p : B[q].id = c
            /\ p > 0 /\ B[p].i < B[p].n => B[p].id \in cut
            /\ more = IF B[p + k].i < B[p + k].n THEN cut \cup {B[p + k].id} ELSE cut
        BY <1>4, <1>9
      <4> HIDE DEF more
      <4>3. Continues(B, p, chunk, k, cut, more)
        BY <4>1, <4>2 DEF Continues
      <4>4. FlattenSeq(Starts(B, p + k, more))
                = FlattenSeq(Starts(B, p, cut)) \o FlattenSeq(Starts(chunk, k, {}))
        BY <4>3, PieceStarts
      <4>5. QED
        BY <4>4 DEF more
  <2>7. out' \in Seq(Nat)
    BY <2>1, <2>2, <2>3, ConcatProperties
  <2>8. QED
    BY <2>1, <2>2, <2>4, <2>5, <2>6, <2>7
<1>14. call = "users" => payload' = SubSeq(B, 1, m)
  BY <1>2, <1>4, <1>7 DEF Collect, chunk
<1>15. m \in 0..n /\ m \in Nat
  BY <1>6
<1> HIDE DEF m
<1>16. Read(o, m)'
  BY <1>4, <1>7, <1>10, <1>11, <1>12, <1>13, <1>14, <1>15 DEF Read, B, n
<1>17. QED
  BY <1>15, <1>16 DEF Collecting

(* When nothing is left, what was collected is decoded to what was sent.   *)
LEMMA ReadEndComplete ==
    ASSUME Collecting, ReadEnd
    PROVE  OutputComplete'
<1>1. PICK o \in Outputs, p \in Nat : Read(o, p)
  BY DEF Collecting, ReadEnd
<1> DEFINE B == Bytes(o)
           n == Len(B)
<1>2. /\ o \in Seq(Item) /\ Distinct(o)
      /\ B \in Seq(Byte) /\ n \in Nat /\ Layout(B)
  BY OutputFacts
<1>3. /\ p \in 0..n /\ whole = Ids(o)
      /\ left = SubSeq(B, p + 1, n)
      /\ \A c \in cut : \E q \in 1..p : B[q].id = c
      /\ call = "text" => /\ payload = <<>> /\ out \in Seq(Nat)
                          /\ Keep(out, Nat \ {Lost}) = FlattenSeq(Starts(B, p, cut))
      /\ call = "users" => payload = SubSeq(B, 1, p)
  BY <1>1 DEF Read
<1>4. /\ left = <<>> /\ call \in {"text", "users"}
      /\ out' = IF call = "users" THEN Decoded(payload) ELSE out
      /\ payload' = payload /\ whole' = whole /\ cut' = cut
  BY DEF ReadEnd
<1>5. p = n
  <2>1. Len(left) = n - p
    BY <1>2, <1>3, Pieces
  <2>2. Len(left) = 0
    BY <1>4, EmptySeq
  <2> HIDE DEF n
  <2>3. QED
    BY <1>2, <1>3, <2>1, <2>2
<1>6. CASE call = "users"
  <2>1. payload = B
    BY <1>2, <1>3, <1>5, <1>6, SubSeqFull
  <2>2. out' = whole
    BY <1>2, <1>3, <1>4, <1>6, <2>1, WholeDecoded
  <2>3. ASSUME payload = <<>>
        PROVE  Keep(out', Nat \ {Lost}) = Keep(whole', Nat \ cut')
    <3>1. n = 0
      BY <2>1, <2>3, EmptySeq
    <3>2. cut = {}
      BY <1>3, <1>5, <3>1
    <3>3. whole \in Seq(Nat \ {0})
      BY <1>2, <1>3, FirstsAreItems
    <3>4. Keep(whole, Nat \ {Lost}) = whole /\ Keep(whole, Nat \ {}) = whole
      BY <3>3, KeepAll DEF Lost
    <3>5. QED
      BY <1>4, <2>2, <3>2, <3>4
  <2>4. QED
    BY <1>4, <2>2, <2>3 DEF OutputComplete
<1>7. CASE call = "text"
  <2>1. /\ payload' = <<>> /\ out' = out
        /\ Keep(out, Nat \ {Lost}) = FlattenSeq(Starts(B, n, cut))
    BY <1>3, <1>4, <1>5, <1>7
  <2>2. \A t \in 1..n : B[t].i = 1 => t + B[t].n - 1 <= n
    <3>1. \A t \in 1..n : B[t] \in Byte
      BY <1>2, ElementOfSeq
    <3>2. \A t \in 1..n : t - B[t].i + B[t].n <= n /\ B[t].n \in Nat
      BY <1>2, <3>1 DEF Layout, Byte
    <3> HIDE DEF B, n
    <3>3. QED
      BY <1>2, <3>2
  <2>3. Starts(B, n, cut) = Firsts(B, cut)
    <3>1. \A t \in 1..n : B[t].i = 1 /\ B[t].id \notin cut /\ t + B[t].n - 1 <= n
                            <=> B[t].i = 1 /\ B[t].id \notin cut
      BY <2>2
    <3> HIDE DEF B
    <3>2. QED
      BY <3>1 DEF Starts, Firsts
  <2>4. FlattenSeq(Firsts(B, cut)) = Keep(Ids(o), Nat \ cut)
    BY <1>2, FirstsAreItems
  <2>5. QED
    BY <1>3, <1>4, <2>1, <2>3, <2>4 DEF OutputComplete
<1>8. QED
  BY <1>4, <1>6, <1>7

(* While a client collects, what it has decoded are the items that start   *)
(* and end in the pieces read, the ones cut left out; when it ends,        *)
(* nothing is left: that keeps the promise of collect_output and           *)
(* fetch_users.                                                            *)
LEMMA OutputInductive ==
    ASSUME Collecting, OutputComplete, [ServiceNext]_svVars
    PROVE  Collecting' /\ OutputComplete'
<1>1. ASSUME NEW kind \in {"text", "users"}, NEW o \in Outputs, Start(kind, o)
      PROVE  Collecting' /\ OutputComplete'
  <2>1. call' # "done"
    BY <1>1 DEF Start
  <2>2. QED
    BY <1>1, <2>1, StartKept DEF OutputComplete
<1>2. CASE ReadChunk
  <2>1. call' # "done"
    BY <1>2 DEF ReadChunk
  <2>2. QED
    BY <1>2, <2>1, ReadChunkKept DEF OutputComplete
<1>3. CASE ReadEnd
  <2>1. call' \notin {"text", "users"}
    BY <1>3 DEF ReadEnd
  <2>2. QED
    BY <1>3, <2>1, ReadEndComplete DEF Collecting
<1>4. CASE CollectFails
  BY <1>4 DEF CollectFails, Collecting, OutputComplete
<1>5. CASE Detach
  BY <1>5 DEF Detach, Collecting, OutputComplete
<1>6. CASE UNCHANGED svVars
  BY <1>6 DEF svVars, Collecting, OutputComplete, Read
<1>7. QED
  BY <1>1, <1>2, <1>3, <1>4, <1>5, <1>6 DEF ServiceNext

(* However the server cuts its output, fetch_users returns every user and  *)
(* collect_output every character but those that an answer ended inside    *)
(* of, in order and nothing else.                                          *)
THEOREM OutputsComplete == ServiceSpec => []OutputComplete
<1>1. ServiceInit => Collecting /\ OutputComplete
  BY DEF ServiceInit, Collecting, OutputComplete
<1>2. Collecting /\ OutputComplete /\ [ServiceNext]_svVars => Collecting' /\ OutputComplete'
  BY OutputInductive
<1>3. QED
  BY <1>1, <1>2, PTL DEF ServiceSpec
===============================================================================
