------------------------------ MODULE Parameters ------------------------------
(* The parameter buffers the client builds: the DPB of an attach and the     *)
(* block of op_connect (src/src/connection.rs, config.rs), the TPB of a      *)
(* transaction (transaction.rs), the SPB of a service and of its actions     *)
(* (service.rs), the block of an events registration (events.rs) and the     *)
(* parameters of a Batch (batch.rs), all of them sequences of tagged values  *)
(* that the server cuts apart again knowing only the form of each tag.       *)
(*                                                                           *)
(* Buffers are sequences of bytes.                                           *)
EXTENDS Integers, Sequences, SequencesExt, FiniteSetsExt

CONSTANTS Profiles,     \* [user, role, charset, timezone, workers, timeout, page]
          AuthForms,    \* how the handshake ended: [form, data]
          Calls,        \* calls of the service manager: [op, db, text, n]
          EventLists,   \* [names, counts] of a registration
          Keys,         \* lengths of the public key in hex
          BatchOptions  \* [record_counts, multierror, buffer_bytes, detailed_errors, blob]

VARIABLE par    \* [kind, sent, built, buf]

-------------------------------------------------------------------------------
(* Numbers and the forms of a tagged value.                                  *)
Byte4(n) == [k \in 1..4 |-> (n \div 256 ^ (k - 1)) % 256]
Unsigned(b) == FoldRight(LAMBDA x, acc : acc * 256 + x, b, 0)
(* The server extends the sign of the last byte.                             *)
Signed(b) ==
    IF b = <<>> THEN 0
    ELSE Unsigned(Front(b)) + (IF Last(b) >= 128 THEN Last(b) - 256 ELSE Last(b))
                              * 256 ^ (Len(b) - 1)
Str(tag, v) == [tag |-> tag, form |-> "string", v |-> v]
Num(tag, n) == [tag |-> tag, form |-> "int", v |-> << n >>]
Flag(tag) == [tag |-> tag, form |-> "flag", v |-> <<>>]
Small(tag, n) == [tag |-> tag, form |-> "byte", v |-> << n >>]
When(condition, arg) == IF condition THEN << arg >> ELSE <<>>
None == -1

(* Mutant: leading zero bytes are dropped whatever the byte below says.      *)
MinimalUnsigned(n) ==
    LET b == Byte4(n)
    IN  SubSeq(b, 1, Max({1} \cup {k \in 2..4 : b[k] # 0}))

(* ParameterBuffer::int: as few bytes as keep the sign.                      *)
Minimal(n) ==
    LET b == Byte4(n)
        Spare(k) == \/ b[k] = 0 /\ b[k - 1] < 128
                    \/ b[k] = 255 /\ b[k - 1] >= 128
    IN  SubSeq(b, 1, Max({1} \cup {k \in 2..4 : ~Spare(k)}))

(* ParameterBuffer::bytes, in the classic and in the wide form: a length of  *)
(* one byte keeps its low eight bits.                                        *)
Clumplet(wide, tag, v) ==
    <<tag>> \o (IF wide THEN Byte4(Len(v)) ELSE <<Len(v) % 256>>) \o v
Clumplets(wide, args) ==
    FlattenSeq([i \in 1..Len(args) |->
        IF args[i].form = "flag" THEN << args[i].tag >>
        ELSE Clumplet(wide, args[i].tag,
                      IF args[i].form = "int" THEN Minimal(args[i].v[1]) ELSE args[i].v)])

(* A parser takes an item at a step; no buffer here has more than MaxItems.  *)
MaxItems == 24
Steps(buf) == [k \in 1..Min({MaxItems, Len(buf)}) |-> k]

(* The server's reader: FormOf says what follows each tag.                   *)
SrvParse(buf, FormOf(_)) ==
    LET Taken(acc, len, skip) ==
            IF acc.i + skip + len > Len(buf) THEN [acc EXCEPT !.i = Len(buf) + 1, !.ok = FALSE]
            ELSE [acc EXCEPT !.i = @ + 1 + skip + len,
                     !.items = Append(@, <<buf[acc.i],
                                           SubSeq(buf, acc.i + 1 + skip, acc.i + skip + len)>>)]
        Width(form) == CASE form = "len1" -> 1 [] form = "len2" -> 2 [] OTHER -> 4
        Step(acc, k) ==
            LET form == FormOf(buf[acc.i])
            IN  IF acc.i > Len(buf) THEN acc
                ELSE CASE form = "flag" -> Taken(acc, 0, 0)
                       [] form = "byte" -> Taken(acc, 1, 0)
                       [] form = "int" -> Taken(acc, 4, 0)
                       [] OTHER -> Taken(acc, Unsigned(SubSeq(buf, acc.i + 1, acc.i + Width(form))),
                                         Width(form))
    IN  FoldLeft(Step, [i |-> 1, ok |-> TRUE, items |-> <<>>], Steps(buf))

-------------------------------------------------------------------------------
(* The DPB of attach and create, the SPB of the service manager.             *)
Dpb == [PAGE_SIZE |-> 4, USER_NAME |-> 28, LC_CTYPE |-> 48, CONNECT_TIMEOUT |-> 57,
        ROLE_NAME |-> 60, SQL_DIALECT |-> 63, PROCESS_ID |-> 71, PROCESS_NAME |-> 74,
        UTF8_FILENAME |-> 77, SPECIFIC_AUTH_DATA |-> 84, AUTH_PLUGIN_LIST |-> 85,
        AUTH_PLUGIN_NAME |-> 86, SESSION_TIME_ZONE |-> 91, PARALLEL_WORKERS |-> 100]
Spb == [USER_NAME |-> 28, SQL_ROLE_NAME |-> 60, DBNAME |-> 106, VERBOSE |-> 107,
        OPTIONS |-> 108, SPECIFIC_AUTH_DATA |-> 111, AUTH_PLUGIN_NAME |-> 116,
        AUTH_PLUGIN_LIST |-> 117]

(* ConnectConfig::validate: what goes in a clumplet fits one.                *)
check_clumplet_len(v) == Len(v) <= 255
validate(c) == \A v \in {c.user, c.charset, c.role, c.timezone} : check_clumplet_len(v)
needs_wide_pb(auth) == auth.form = "start" /\ Len(auth.data) > 255

AuthArgs(tags, auth) ==
    LET list == Str(tags.AUTH_PLUGIN_LIST, <<83, 76>>)
    IN  CASE auth.form \in {"proof", "start"} ->
                <<Str(tags.AUTH_PLUGIN_NAME, <<83>>), list, Str(tags.SPECIFIC_AUTH_DATA, auth.data)>>
          [] auth.form = "deferred" -> << list >>
          [] OTHER -> <<>>
build_dpb(c, auth, create) ==
    <<Num(Dpb.SQL_DIALECT, 3), Str(Dpb.UTF8_FILENAME, <<>>), Str(Dpb.LC_CTYPE, c.charset),
      Str(Dpb.USER_NAME, c.user)>>
    \o AuthArgs(Dpb, auth)
    \o When(c.role # <<>>, Str(Dpb.ROLE_NAME, c.role))
    \o When(c.timezone # <<>>, Str(Dpb.SESSION_TIME_ZONE, c.timezone))
    \o When(c.workers # None, Num(Dpb.PARALLEL_WORKERS, c.workers))
    \o When(c.timeout # None, Num(Dpb.CONNECT_TIMEOUT, Max({1, c.timeout})))
    \o When(create /\ c.page # None, Num(Dpb.PAGE_SIZE, c.page))
    \o <<Num(Dpb.PROCESS_ID, 40000), Str(Dpb.PROCESS_NAME, <<112>>)>>
build_attach_spb(c, auth) ==
    << Str(Spb.USER_NAME, c.user) >> \o AuthArgs(Spb, auth)
    \o When(c.role # <<>>, Str(Spb.SQL_ROLE_NAME, c.role))

(* The versions of the classic and of the wide form; the server knows them.  *)
Header == [dpb |-> <<1>>, spb |-> <<2, 2>>]
WideHeader == [dpb |-> <<2>>, spb |-> <<3>>]
Versioned(kind, auth, args) ==
    LET wide == needs_wide_pb(auth)
    IN  (IF wide THEN WideHeader[kind] ELSE Header[kind]) \o Clumplets(wide, args)
SrvAttachForm(wide) == IF wide THEN "len4" ELSE "len1"

(* The block of op_connect: the key in pieces of 254, each numbered.         *)
Cnct == [USER |-> 1, HOST |-> 4, SPECIFIC_DATA |-> 7, PLUGIN_NAME |-> 8, LOGIN |-> 9,
         PLUGIN_LIST |-> 10, CLIENT_CRYPT |-> 11]
CHUNK == 254
KeyOf(n) == [i \in 1..n |-> 48 + ((i * i) % 16)]
CnctKey(n) ==
    [c \in 1..((n + CHUNK - 1) \div CHUNK) |->
        Str(Cnct.SPECIFIC_DATA,
            << c - 1 >> \o SubSeq(KeyOf(n), (c - 1) * CHUNK + 1, Min({n, c * CHUNK})))]
build_cnct_block(c, n) ==
    <<Str(Cnct.LOGIN, c.user), Str(Cnct.PLUGIN_NAME, <<83>>), Str(Cnct.PLUGIN_LIST, <<83, 76>>),
      Str(Cnct.USER, <<111>>), Str(Cnct.HOST, <<104>>)>>
    \o CnctKey(n) \o << Str(Cnct.CLIENT_CRYPT, Byte4(1)) >>
SrvKey(items) ==
    FlattenSeq([i \in 1..Len(items) |-> IF items[i][1] = Cnct.SPECIFIC_DATA THEN Tail(items[i][2]) ELSE <<>>])

-------------------------------------------------------------------------------
(* The TPB: the methods of TransactionBuilder in any order, then build.      *)
Tpb == [CONSISTENCY |-> 1, CONCURRENCY |-> 2, WAIT |-> 6, NOWAIT |-> 7, READ |-> 8, WRITE |-> 9,
        READ_COMMITTED |-> 15, AUTOCOMMIT |-> 16, REC_VERSION |-> 17, NO_REC_VERSION |-> 18,
        NO_AUTO_UNDO |-> 20, LOCK_TIMEOUT |-> 21, READ_CONSISTENCY |-> 22]
TPB_VERSION3 == 3
TxTags ==
    [Snapshot |-> << Tpb.CONCURRENCY >>, SnapshotTableStability |-> << Tpb.CONSISTENCY >>,
     ReadCommittedRecordVersion |-> <<Tpb.READ_COMMITTED, Tpb.REC_VERSION>>,
     ReadCommittedNoRecordVersion |-> <<Tpb.READ_COMMITTED, Tpb.NO_REC_VERSION>>,
     ReadCommittedReadConsistency |-> <<Tpb.READ_COMMITTED, Tpb.READ_CONSISTENCY>>]
DefaultTx == [isolation |-> "Snapshot", access |-> "ReadWrite", lock |-> "Wait", timeout |-> None,
              no_auto_undo |-> FALSE, auto_commit |-> FALSE]
build(b) ==
    << Flag(IF b.access = "ReadWrite" THEN Tpb.WRITE ELSE Tpb.READ) >>
    \o [i \in 1..Len(TxTags[b.isolation]) |-> Flag(TxTags[b.isolation][i])]
    \o << Flag(IF b.lock = "Wait" THEN Tpb.WAIT ELSE Tpb.NOWAIT) >>
    \o When(b.timeout # None, Num(Tpb.LOCK_TIMEOUT, b.timeout))
    \o When(b.no_auto_undo, Flag(Tpb.NO_AUTO_UNDO))
    \o When(b.auto_commit, Flag(Tpb.AUTOCOMMIT))
SrvTpbForm(tag) == IF tag = Tpb.LOCK_TIMEOUT THEN "len1" ELSE "flag"

-------------------------------------------------------------------------------
(* The actions of the service manager: the code of the action, then strings  *)
(* behind two bytes of length, numbers of four bytes, modes of one byte and  *)
(* flags. The same tag is another argument in another action.                *)
svc_action ==
    [backup |-> 1, restore |-> 2, repair |-> 3, add_user |-> 4, delete_user |-> 5,
     modify_user |-> 6, display_user |-> 7, set_sweep_interval |-> 8, set_page_buffers |-> 8,
     set_forced_writes |-> 8, set_read_only |-> 8, shutdown |-> 8, bring_online |-> 8,
     statistics |-> 11, nbackup |-> 20, nrestore |-> 21, trace_start |-> 22, trace_stop |-> 23,
     trace_suspend |-> 24, trace_resume |-> 25, trace_list |-> 26, validate |-> 30]
svc_bkp == [FILE |-> 5]
svc_res == [REPLACE |-> 4096, CREATE |-> 8192]
svc_nbk == [LEVEL |-> 5, FILE |-> 6]
svc_val == [TAB_INCL |-> 1, IDX_INCL |-> 3]
svc_prp == [PAGE_BUFFERS |-> 5, SWEEP_INTERVAL |-> 6, WRITE_MODE |-> 12, ACCESS_MODE |-> 13,
            ATTACHMENTS_SHUTDOWN |-> 42, SHUTDOWN_MODE |-> 44, ONLINE_MODE |-> 45,
            WM_ASYNC |-> 37, WM_SYNC |-> 38, AM_READONLY |-> 39, AM_READWRITE |-> 40]
svc_trc == [ID |-> 1, NAME |-> 2, CFG |-> 3]
svc_sec == [USERID |-> 5, GROUPID |-> 6, USERNAME |-> 7, PASSWORD |-> 8, FIRSTNAME |-> 10,
            MIDDLENAME |-> 11, LASTNAME |-> 12, ADMIN |-> 13]

MaintenanceArgs(c) ==
    LET db == Str(Spb.DBNAME, c.db)
        options == When(c.n # 0, Num(Spb.OPTIONS, c.n))
        file == Str(svc_nbk.FILE, c.text)
    IN  CASE c.op = "backup" ->
                <<db, Str(svc_bkp.FILE, c.text)>> \o options \o << Flag(Spb.VERBOSE) >>
          [] c.op = "restore" ->
                <<Str(svc_bkp.FILE, c.text), db,
                  Num(Spb.OPTIONS, IF (c.n \div svc_res.REPLACE) % 4 = 0 THEN c.n + svc_res.CREATE
                                   ELSE c.n), Flag(Spb.VERBOSE)>>
          [] c.op = "statistics" -> << db >> \o options
          [] c.op = "nbackup" -> <<db, file, Num(svc_nbk.LEVEL, c.n)>> \o options
          [] c.op = "nrestore" -> <<db, file, file>> \o options
          [] c.op = "validate" -> << db >> \o When(c.text # <<>>, Str(svc_val.TAB_INCL, c.text))
                                  \o When(c.text # <<>>, Str(svc_val.IDX_INCL, c.text))
          [] OTHER -> <<db, Num(Spb.OPTIONS, c.n)>>
PropertyArgs(c) ==
    LET on == c.n # 0
    IN  << Str(Spb.DBNAME, c.db) >> \o
        CASE c.op = "set_sweep_interval" -> << Num(svc_prp.SWEEP_INTERVAL, c.n) >>
          [] c.op = "set_page_buffers" -> << Num(svc_prp.PAGE_BUFFERS, c.n) >>
          [] c.op = "set_forced_writes" ->
                << Small(svc_prp.WRITE_MODE, IF on THEN svc_prp.WM_SYNC ELSE svc_prp.WM_ASYNC) >>
          [] c.op = "set_read_only" ->
                << Small(svc_prp.ACCESS_MODE, IF on THEN svc_prp.AM_READONLY ELSE svc_prp.AM_READWRITE) >>
          [] c.op = "shutdown" ->
                <<Small(svc_prp.SHUTDOWN_MODE, c.n % 4), Num(svc_prp.ATTACHMENTS_SHUTDOWN, c.n)>>
          [] OTHER -> << Small(svc_prp.ONLINE_MODE, c.n % 4) >>
TraceArgs(c) ==
    CASE c.op = "trace_start" ->
            When(c.db # <<>>, Str(svc_trc.NAME, c.db)) \o << Str(svc_trc.CFG, c.text) >>
      [] c.op = "trace_list" -> <<>>
      [] OTHER -> << Num(svc_trc.ID, c.n) >>
build_user_spb(c) ==
    LET Text(t) == When(c.text # <<>>, Str(t, c.text))
    IN  << Str(svc_sec.USERNAME, c.db) >>
        \o Text(svc_sec.PASSWORD) \o Text(svc_sec.FIRSTNAME) \o Text(svc_sec.MIDDLENAME)
        \o Text(svc_sec.LASTNAME)
        \o When(c.n # 0, Num(svc_sec.USERID, c.n)) \o When(c.n # 0, Num(svc_sec.GROUPID, c.n))
        \o When(c.n # 0, Num(svc_sec.ADMIN, 1))
UserArgs(c) ==
    IF c.op \in {"add_user", "modify_user"} THEN build_user_spb(c)
    ELSE When(c.op = "delete_user" \/ c.db # <<>>, Str(svc_sec.USERNAME, c.db))
ActionArgs(c) ==
    CASE svc_action[c.op] \in {1, 2, 3, 11, 20, 21, 30} -> MaintenanceArgs(c)
      [] svc_action[c.op] \in 4..7 -> UserArgs(c)
      [] svc_action[c.op] = 8 -> PropertyArgs(c)
      [] OTHER -> TraceArgs(c)

ActionSpb(action, args) ==
    << action >> \o FlattenSeq([i \in 1..Len(args) |-> << args[i].tag >> \o
        CASE args[i].form = "string" -> SubSeq(Byte4(Len(args[i].v)), 1, 2) \o args[i].v
          [] args[i].form = "int" -> Byte4(args[i].v[1])
          [] OTHER -> args[i].v])
SrvActionInts(action) ==
    CASE action \in 20..21 -> {svc_nbk.LEVEL} [] action \in 22..26 -> {svc_trc.ID}
      [] action \in 4..7 -> {svc_sec.USERID, svc_sec.GROUPID, svc_sec.ADMIN}
      [] action = 8 -> {svc_prp.PAGE_BUFFERS, svc_prp.SWEEP_INTERVAL, svc_prp.ATTACHMENTS_SHUTDOWN}
      [] OTHER -> {}
SrvActionForm(action, tag) ==
    CASE tag = Spb.OPTIONS \/ tag \in SrvActionInts(action) -> "int"
      [] tag = Spb.VERBOSE -> "flag"
      [] action = 8 /\ tag # Spb.DBNAME -> "byte"
      [] OTHER -> "len2"

-------------------------------------------------------------------------------
(* The block of an events registration, read back by both sides.  Without a  *)
(* name, or with one too long for its byte of length, listen_events refuses. *)
Listened(names) ==
    names # <<>> /\ \A i \in 1..Len(names) : check_clumplet_len(names[i])
build_epb(e) ==
    <<1>> \o FlattenSeq([i \in 1..Len(e.names) |->
        << Len(e.names[i]) % 256 >> \o e.names[i] \o Byte4(e.counts[i])])
parse_epb_counts(epb, names) ==
    LET Step(acc, k) ==
            LET n == epb[acc.i]
                nameOf == SubSeq(epb, acc.i + 1, acc.i + n)
                count == Unsigned(SubSeq(epb, acc.i + n + 1, acc.i + n + 4))
                at == {x \in 1..Len(names) : names[x] = nameOf}
            IN  IF acc.i > Len(epb) \/ acc.i + n + 4 > Len(epb) THEN [acc EXCEPT !.i = Len(epb) + 1]
                ELSE [i |-> acc.i + n + 5,
                      counts |-> IF at = {} THEN acc.counts
                                 ELSE [acc.counts EXCEPT ![Min(at)] = count]]
    IN  FoldLeft(Step, [i |-> 2, counts |-> [x \in 1..Len(names) |-> 0]], Steps(epb)).counts

(* The parameters of op_batch_create: always lengths of four bytes.          *)
batch_tag == [MULTIERROR |-> 1, RECORD_COUNTS |-> 2, BUFFER_BYTES_SIZE |-> 3, BLOB_POLICY |-> 4,
              DETAILED_ERRORS |-> 5]
STREAM == 3
BatchArgs(o) ==
    When(o.record_counts, Str(batch_tag.RECORD_COUNTS, Byte4(1)))
    \o When(o.multierror, Str(batch_tag.MULTIERROR, Byte4(1)))
    \o When(o.buffer_bytes # None, Str(batch_tag.BUFFER_BYTES_SIZE, Byte4(o.buffer_bytes)))
    \o When(o.detailed_errors # None, Str(batch_tag.DETAILED_ERRORS, Byte4(o.detailed_errors)))
    \o When(o.blob, Str(batch_tag.BLOB_POLICY, Byte4(STREAM)))

-------------------------------------------------------------------------------
Start(kind, sent) == par = [kind |-> kind, sent |-> sent, built |-> FALSE, buf |-> <<>>]
ParametersInit ==
    \/ \E c \in Profiles, a \in AuthForms, create \in BOOLEAN :
          Start("dpb", [config |-> c, auth |-> a, create |-> create])
    \/ \E c \in Profiles, a \in AuthForms : Start("spb", [config |-> c, auth |-> a])
    \/ \E c \in Profiles, n \in Keys : Start("cnct", [config |-> c, key |-> n])
    \/ Start("tpb", DefaultTx)
    \/ \E c \in Calls : Start("action", c)
    \/ \E e \in EventLists : Start("epb", e)
    \/ \E o \in BatchOptions : Start("batch", o)

(* TransactionBuilder's methods.                                             *)
Choose(field, v) ==
    /\ par.kind = "tpb" /\ ~par.built
    /\ par' = [par EXCEPT !.sent[field] = v]
LockTimeout(n) ==
    /\ par.kind = "tpb" /\ ~par.built
    /\ par' = [par EXCEPT !.sent.lock = "Wait", !.sent.timeout = n]

Bytes(kind, s) ==
    CASE kind = "dpb" -> Versioned(kind, s.auth, build_dpb(s.config, s.auth, s.create))
      [] kind = "spb" -> Versioned(kind, s.auth, build_attach_spb(s.config, s.auth))
      [] kind = "cnct" -> Clumplets(FALSE, build_cnct_block(s.config, s.key))
      [] kind = "tpb" -> << TPB_VERSION3 >> \o Clumplets(FALSE, build(s))
      [] kind = "action" -> ActionSpb(svc_action[s.op], ActionArgs(s))
      [] kind = "epb" -> build_epb(s)
      [] OTHER -> <<1>> \o Clumplets(TRUE, BatchArgs(s))
Build ==
    /\ ~par.built
    /\ (par.kind \in {"dpb", "spb", "cnct"}) => validate(par.sent.config)
    /\ par.kind = "epb" => Listened(par.sent.names)
    /\ par' = [par EXCEPT !.built = TRUE, !.buf = Bytes(par.kind, par.sent)]

ParametersNext ==
    \/ \E i \in DOMAIN TxTags : Choose("isolation", i)
    \/ \E a \in {"ReadOnly", "ReadWrite"} : Choose("access", a)
    \/ Choose("lock", "NoWait")
    \/ Choose("no_auto_undo", TRUE) \/ Choose("auto_commit", TRUE)
    \/ \E n \in {1, 200, 40000} : LockTimeout(n)
    \/ Build

-------------------------------------------------------------------------------
(* What the server understands                                               *)
SrvTx(items) ==
    LET tags == {items[i][1] : i \in 1..Len(items)}
        timeouts == {i \in 1..Len(items) : items[i][1] = Tpb.LOCK_TIMEOUT}
    IN  [isolation |-> CHOOSE l \in DOMAIN TxTags :
                           Range(TxTags[l]) = tags \cap {1, 2, 15, 17, 18, 22},
         access |-> IF Tpb.READ \in tags THEN "ReadOnly" ELSE "ReadWrite",
         lock |-> IF Tpb.NOWAIT \in tags THEN "NoWait" ELSE "Wait",
         timeout |-> IF timeouts = {} THEN None ELSE Signed(items[Min(timeouts)][2]),
         no_auto_undo |-> Tpb.NO_AUTO_UNDO \in tags, auto_commit |-> Tpb.AUTOCOMMIT \in tags]
SrvEvent(buf, names) ==
    parse_epb_counts(buf, names)

Body(header) == SubSeq(par.buf, Len(header) + 1, Len(par.buf))
(* The values of a tag, the last of which counts. *)
Tagged(items, tag) == SelectSeq(items, LAMBDA item : item[1] = tag)
Says(items, tag, given, v) ==
    IF given THEN Tagged(items, tag) # <<>> /\ Last(Tagged(items, tag))[2] = v
    ELSE Tagged(items, tag) = <<>>
SaysNumber(items, tag, given, n) ==
    IF given THEN Tagged(items, tag) # <<>> /\ Signed(Last(Tagged(items, tag))[2]) = n
    ELSE Tagged(items, tag) = <<>>

SrvAuth(items, tags, auth) ==
    LET proves == auth.form \in {"proof", "start"}
    IN  /\ Says(items, tags.AUTH_PLUGIN_NAME, proves, <<83>>)
        /\ Says(items, tags.SPECIFIC_AUTH_DATA, proves, auth.data)
        /\ Says(items, tags.AUTH_PLUGIN_LIST, auth.form # "done", <<83, 76>>)
SrvDatabase(items, c, create) ==
    /\ Says(items, Dpb.USER_NAME, TRUE, c.user)
    /\ Says(items, Dpb.ROLE_NAME, c.role # <<>>, c.role)
    /\ Says(items, Dpb.LC_CTYPE, TRUE, c.charset)
    /\ Says(items, Dpb.SESSION_TIME_ZONE, c.timezone # <<>>, c.timezone)
    /\ SaysNumber(items, Dpb.SQL_DIALECT, TRUE, 3)
    /\ SaysNumber(items, Dpb.PARALLEL_WORKERS, c.workers # None, c.workers)
    /\ SaysNumber(items, Dpb.CONNECT_TIMEOUT, c.timeout # None, Max({1, c.timeout}))
    /\ SaysNumber(items, Dpb.PAGE_SIZE, create /\ c.page # None, c.page)
SrvManager(items, c) ==
    /\ Says(items, Spb.USER_NAME, TRUE, c.user)
    /\ Says(items, Spb.SQL_ROLE_NAME, c.role # <<>>, c.role)
SrvBatch(items, o) ==
    /\ SaysNumber(items, batch_tag.RECORD_COUNTS, o.record_counts, 1)
    /\ SaysNumber(items, batch_tag.MULTIERROR, o.multierror, 1)
    /\ SaysNumber(items, batch_tag.BUFFER_BYTES_SIZE, o.buffer_bytes # None, o.buffer_bytes)
    /\ SaysNumber(items, batch_tag.DETAILED_ERRORS, o.detailed_errors # None, o.detailed_errors)
    /\ SaysNumber(items, batch_tag.BLOB_POLICY, o.blob, STREAM)

(* What an action is asked to do, each argument there or not.                *)
SrvMaintenance(items, c) ==
    LET gbak == c.op \in {"backup", "restore"}
        files == Tagged(items, IF gbak THEN svc_bkp.FILE ELSE svc_nbk.FILE)
        create == c.op = "restore" /\ (c.n \div svc_res.REPLACE) % 4 = 0
        options == IF create THEN c.n + svc_res.CREATE ELSE c.n
        filters == c.op = "validate" /\ c.text # <<>>
    IN  /\ gbak \/ c.op \in {"nbackup", "nrestore"} =>
               /\ Len(files) = IF c.op = "nrestore" THEN 2 ELSE 1
               /\ \A i \in 1..Len(files) : files[i][2] = c.text
        /\ SaysNumber(items, Spb.OPTIONS,
                      c.op \in {"repair", "restore"} \/ (c.op # "validate" /\ c.n # 0), options)
        /\ Says(items, Spb.VERBOSE, gbak, <<>>)
        /\ c.op = "nbackup" => SaysNumber(items, svc_nbk.LEVEL, TRUE, c.n)
        /\ c.op = "validate" => /\ Says(items, svc_val.TAB_INCL, filters, c.text)
                                /\ Says(items, svc_val.IDX_INCL, filters, c.text)
SrvProperty(items, c) ==
    LET Is(tag, op, n) == SaysNumber(items, tag, c.op = op, n)
    IN  /\ Is(svc_prp.SWEEP_INTERVAL, "set_sweep_interval", c.n)
        /\ Is(svc_prp.PAGE_BUFFERS, "set_page_buffers", c.n)
        /\ Is(svc_prp.WRITE_MODE, "set_forced_writes", IF c.n = 0 THEN 37 ELSE 38)
        /\ Is(svc_prp.ACCESS_MODE, "set_read_only", IF c.n = 0 THEN 40 ELSE 39)
        /\ Is(svc_prp.SHUTDOWN_MODE, "shutdown", c.n % 4)
        /\ Is(svc_prp.ATTACHMENTS_SHUTDOWN, "shutdown", c.n)
        /\ Is(svc_prp.ONLINE_MODE, "bring_online", c.n % 4)
SrvTrace(items, c) ==
    LET starts == c.op = "trace_start"
    IN  /\ SaysNumber(items, svc_trc.ID, ~starts /\ c.op # "trace_list", c.n)
        /\ Says(items, svc_trc.NAME, starts /\ c.db # <<>>, c.db)
        /\ Says(items, svc_trc.CFG, starts, c.text)
SrvUser(items, c) ==
    LET sets == c.op \in {"add_user", "modify_user"}
    IN  /\ Says(items, svc_sec.USERNAME, c.op # "display_user" \/ c.db # <<>>, c.db)
        /\ \A tag \in {svc_sec.PASSWORD, svc_sec.FIRSTNAME, svc_sec.MIDDLENAME, svc_sec.LASTNAME} :
               Says(items, tag, sets /\ c.text # <<>>, c.text)
        /\ \A tag \in {svc_sec.USERID, svc_sec.GROUPID} :
               SaysNumber(items, tag, sets /\ c.n # 0, c.n)
        /\ SaysNumber(items, svc_sec.ADMIN, sets /\ c.n # 0, 1)
SrvAction(items, c) ==
    LET action == svc_action[c.op]
    IN  CASE action \in 4..7 -> SrvUser(items, c)
          [] action \in 22..26 -> SrvTrace(items, c)
          [] OTHER -> /\ Says(items, Spb.DBNAME, TRUE, c.db)
                      /\ IF action = 8 THEN SrvProperty(items, c) ELSE SrvMaintenance(items, c)

(* The buffer of an attach, in the form its first bytes announce.            *)
ReadAttach ==
    LET wide == IsPrefix(WideHeader[par.kind], par.buf)
        body == Body(IF wide THEN WideHeader[par.kind] ELSE Header[par.kind])
    IN  SrvParse(body, LAMBDA tag : SrvAttachForm(wide))

(* The server finds in every buffer exactly the arguments the caller gave,   *)
(* each with its value: a length that needs more than its one byte is        *)
(* refused before the buffer is built or moves the buffer to its wide form,  *)
(* a number keeps its sign in as few bytes as it has, a key longer than a    *)
(* clumplet comes together from its pieces, a transaction has the options    *)
(* set last, an events block the names it was given, an action of the        *)
(* service manager what its call was asked for. ParameterBuffer,             *)
(* ConnectConfig::validate, build_dpb, build_cnct_block,                     *)
(* TransactionBuilder::build, ActionSpb, listen_events, build_epb.           *)
ParametersUnderstood ==
    par.built =>
        LET s == par.sent
        IN  CASE par.kind = "dpb" -> /\ ReadAttach.ok
                                     /\ SrvAuth(ReadAttach.items, Dpb, s.auth)
                                     /\ SrvDatabase(ReadAttach.items, s.config, s.create)
              [] par.kind = "spb" -> /\ ReadAttach.ok
                                     /\ SrvAuth(ReadAttach.items, Spb, s.auth)
                                     /\ SrvManager(ReadAttach.items, s.config)
              [] par.kind = "cnct" ->
                    LET read == SrvParse(par.buf, LAMBDA tag : "len1")
                    IN  read.ok /\ SrvKey(read.items) = KeyOf(s.key)
              [] par.kind = "tpb" -> LET read == SrvParse(Body(<<1>>), SrvTpbForm)
                                     IN  read.ok /\ SrvTx(read.items) = s
              [] par.kind = "action" ->
                    LET read == SrvParse(Body(<<1>>), LAMBDA tag : SrvActionForm(par.buf[1], tag))
                    IN  read.ok /\ SrvAction(read.items, s)
              [] par.kind = "epb" -> SrvEvent(par.buf, s.names) = s.counts
              [] OTHER -> LET read == SrvParse(Body(<<1>>), LAMBDA tag : "len4")
                          IN  read.ok /\ SrvBatch(read.items, s)
==============================================================================
