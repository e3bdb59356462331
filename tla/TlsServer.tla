------------------------------- MODULE TlsServer -------------------------------
(***************************************************************************)
(* The server's handshake: craftls server/hs.rs, server/tls13.rs and       *)
(* server/tls12.rs.  A handler maps the endpoint and the message to the    *)
(* next endpoint; field st names the Rust state.                           *)
(*                                                                         *)
(* The store holds the session cache, a sequence of [id, val] pairs with   *)
(* the oldest first, and the ticketer: the generation of its current key,  *)
(* whether there is a previous one, and whether the switch time has passed *)
(* unnoticed.  A stateless ticket is [key, val], where key is the          *)
(* generation that sealed it; a stateful one is the cache's id.            *)
(***************************************************************************)
EXTENDS TlsEndpoint, FiniteSets

CONSTANT CacheCapacity      \* of the LimitedCache
ASSUME CacheAssumption == CacheCapacity \in Nat

\* the first element of a sequence that is in the set, as an Option
FirstIn(seq, set) ==
    LET hits == SelectSeq(seq, LAMBDA x : x \in set) IN
    IF hits = << >> THEN None ELSE Some(hits[1])

\* with cfg.refuse the application calls reject_early_data before the hello
ServerHs(cfg) ==
    [retry |-> FALSE, skip |-> 0, sec |-> None, fin |-> None, psk |-> None,
     ed |-> IF cfg.refuse THEN "Rejected" ELSE "New", cert |-> "none", ems |-> FALSE,
     resuming |-> FALSE, sid |-> None, sendTicket |-> FALSE, kx |-> None, ms |-> None,
     log |-> cfg.clientAuth # "none"]

EmptyServerStore(key) == [cache |-> << >>, key |-> key, prev |-> FALSE, due |-> FALSE]
NewServer(n, cfg, store, age) ==
    NewEndpoint("server", n, cfg, store, age, ServerHs(cfg), "ExpectClientHello")

(***************************************************************************)
(* Session storage and ticketer.                                           *)
(***************************************************************************)
\* LimitedCache::insert of a new key: the oldest entry leaves when the
\* capacity is reached
Put(e, id, val) ==
    LET all == Append(e.store.cache, [id |-> id, val |-> val]) IN
    IF ~e.cfg.cache THEN e
    ELSE [e EXCEPT !.store.cache = IF Len(all) = CacheCapacity THEN Tail(all) ELSE all]
Get(e, id) ==
    LET hits == {x \in Range(e.store.cache) : x.id = id} IN
    IF ~e.cfg.cache \/ hits = {} THEN None ELSE Some((CHOOSE x \in hits : TRUE).val)
Take(e, id) ==
    LET at == {i \in DOMAIN e.store.cache : e.store.cache[i].id = id} IN
    IF at = {} THEN e ELSE [e EXCEPT !.store.cache = RemoveAt(@, CHOOSE i \in at : TRUE)]

\* TicketSwitcher::maybe_roll, from every encrypt and decrypt: one step back,
\* however long ago the switch was due
MaybeRoll(e) ==
    IF e.store.due
    THEN [e EXCEPT !.store.key = @ + 1, !.store.prev = TRUE, !.store.due = FALSE] ELSE e
Encrypt(e, val) == [key |-> e.store.key, val |-> val]
Decrypt(e, ticket) ==
    LET keys == {e.store.key} \cup (IF e.store.prev THEN {e.store.key - 1} ELSE {}) IN
    IF e.cfg.ticketer /\ "key" \in DOMAIN ticket /\ ticket.key \in keys
    THEN Some(ticket.val) ELSE None

\* can_resume, for the one server name of this model
CanResume(suite, ems, val) == val.suite = suite /\ (val.ems = ems \/ val.ems)

SessionValue(e, v, secret, ems) ==
    [v |-> v, suite |-> e.suite, secret |-> secret, ems |-> ems,
     cert |-> e.cert, alpn |-> e.alpn]

(***************************************************************************)
(* What every ClientHello goes through.                                    *)
(***************************************************************************)
\* process_common: the server's first protocol that the client also named
ChooseAlpn(e, m) == FirstIn(e.cfg.alpn, Range(m.alpn))
NoAlpn(e, m) == m.alpn # << >> /\ e.cfg.alpn # << >> /\ ChooseAlpn(e, m) = None

ChooseVersion(e, m) ==
    LET common == m.vers \cap e.cfg.vers IN
    IF 13 \in common THEN 13 ELSE IF 12 \in common THEN 12 ELSE 0

\* the order of the client unless the server insists on its own
ChooseSuite(e, m, ver) ==
    LET ours == {x \in Range(e.cfg.suites) : SuiteVersion(x) = ver} IN
    IF e.cfg.ownOrder
    THEN FirstIn(e.cfg.suites, ours \cap Range(m.suites))
    ELSE FirstIn(m.suites, ours)

(***************************************************************************)
(* TLS 1.3: ClientHello.                                                   *)
(***************************************************************************)
HrrMsg(e, m, g) ==
    [t |-> "HelloRetryRequest", group |-> g, suite |-> e.suite, sid |-> m.sid, ok |-> TRUE]

EmitHelloRetryRequest(e, m, g) == Emit(RollupForHrr(e), HrrMsg(e, m, g), FALSE)

MaxEarlyDataSize(cfg) == IF cfg.maxEarly = 0 THEN DefaultTrialLen ELSE cfg.maxEarly

\* no usable share: ask for a group once, and skip early data that is
\* already under way
HelloRetry(e0, m) ==
    LET e == Hash(e0, m)
        group == FirstIn(e.cfg.groups, Range(m.groups))
        f == EmitCcs(EmitHelloRetryRequest(e, m, group[1])) IN
    IF group = None THEN Fatal(e, "HandshakeFailure")
    ELSE IF e.hs.retry THEN Fatal(e, "IllegalParameter")
    ELSE [f EXCEPT !.hs.retry = TRUE,
                   !.hs.skip = IF m.early THEN MaxEarlyDataSize(e.cfg) ELSE 0,
                   !.st = IF m.early THEN "ExpectAndSkipRejectedEarlyData"
                                     ELSE "ExpectClientHello"]

\* attempt_tls13_ticket_decryption: a stateful session leaves the cache
TicketData(e, ticket) ==
    IF e.cfg.ticketer THEN Decrypt(MaybeRoll(e), ticket) ELSE Get(e, ticket)
ConsumeTicket(e, m) ==
    IF m.psk = None THEN e
    ELSE IF e.cfg.ticketer THEN MaybeRoll(e) ELSE Take(e, m.psk[1].ticket)

\* the session an acceptable PSK offer stands for
Resumable(e, m) ==
    LET val == IF m.psk = None THEN None ELSE TicketData(e, m.psk[1].ticket) IN
    IF val # None /\ CanResume(e.suite, FALSE, val[1]) THEN val ELSE None

CheckBinder(e, m, val) ==
    m.psk[1].binder = BinderOf(val.secret, BinderHash(e))

ServerHelloMsg(ver, suite, m, psk, share) ==
    [t |-> "ServerHello", ver |-> ver, suite |-> suite, sid |-> m.sid, psk |-> psk,
     share |-> share, ok |-> TRUE]

\* emit_server_hello: with a PSK the client's early keys are in force until
\* the fate of the early data is decided
EmitServerHello13(e, m, share, val) ==
    LET psk == IF val = None THEN None ELSE Some(val[1].secret)
        f == Emit(e, ServerHelloMsg(13, e.suite, m, psk # None, Share(share.g, 1)), FALSE)
        kx == [n |-> e.n, g |-> share.g, c |-> share.i, s |-> 1]
        sec == Secret(e.suite, psk, kx, f.tr)
        g == IF psk = None THEN f ELSE SetDecrypter(f, EarlyKey(e.suite, psk, e.tr)) IN
    SetEncrypter([g EXCEPT !.hs.sec = Some(sec), !.hs.psk = psk], HandshakeKey("server", sec))

\* is_fresh: the age the client states agrees with the server's clock
IsFresh(m) == m.psk[1].age = "young"

\* decide_if_early_data_allowed
EarlyAllowed(e, m, val) ==
    /\ m.early
    /\ val # None
    /\ e.cfg.maxEarly > 0
    /\ ~e.cfg.ticketer
    /\ IsFresh(m)
    /\ val[1].v = e.ver
    /\ val[1].suite = e.suite
    /\ val[1].alpn = e.alpn
    /\ e.hs.ed # "Rejected"

EncryptedExtensionsMsg(alpn, early) ==
    [t |-> "EncryptedExtensions", alpn |-> alpn, early |-> early, ok |-> TRUE]

\* Mutant: the chosen protocol is left out of the extensions.
MutEmitEncryptedExtensions(e, m, early) ==
    Emit(e, EncryptedExtensionsMsg(None, early), TRUE)

EmitEncryptedExtensions(e, m, early) ==
    Emit(e, EncryptedExtensionsMsg(e.alpn, early), TRUE)

CertRequest == [t |-> "CertificateRequest", ok |-> TRUE]

EmitServerAuth13(e) ==
    LET f == IF e.cfg.clientAuth = "none" THEN e ELSE Emit(e, CertRequest, TRUE)
        g == Emit(f, CertificateMsg(e.cfg.cert), TRUE) IN
    Emit(g, CertVerifyMsg(e.cfg.cert, g.tr), TRUE)

SetHandshakeDecrypter(e) == SetDecrypter(e, HandshakeKey("client", e.hs.sec[1]))

\* early data: accepted under the early key, skipped by trial decryption if
\* it was asked for and refused, else the handshake key is next
SettleEarlyData(e, m, accepted) ==
    IF accepted
    THEN [e EXCEPT !.hs.ed = "Accepted"]
    ELSE [(IF m.early
           THEN SetTrialDecrypter(e, HandshakeKey("client", e.hs.sec[1]),
                                  MaxEarlyDataSize(e.cfg))
           ELSE SetHandshakeDecrypter(e)) EXCEPT !.hs.ed = "Rejected"]

\* emit_finished_tls13: the traffic keys of the server are in force at once
EmitServerFinished13(e) ==
    LET f == Emit(e, FinishedMsg(FinishOf("server", e.hs.sec[1], e.tr)), TRUE)
        sec == [e.hs.sec[1] EXCEPT !.hash = f.tr] IN
    SetEncrypter([f EXCEPT !.hs.fin = Some(sec)], TrafficKey("server", sec, 0))

ServerFlight13(e0, m, share, val) ==
    LET e == IF val = None THEN e0 ELSE [e0 EXCEPT !.cert = val[1].cert]
        hello == EmitServerHello13(Hash(e, m), m, share, val)
        f == [(IF e.hs.retry THEN hello ELSE EmitCcs(hello)) EXCEPT !.alpn = ChooseAlpn(e, m)]
        early == EarlyAllowed(f, m, val)
        g == EmitEncryptedExtensions(f, m, early)
        auth == val = None /\ e.cfg.clientAuth # "none"
        h == EmitServerFinished13(
                 SettleEarlyData(IF val = None THEN EmitServerAuth13(g) ELSE g, m, early))
    IN  IF NoAlpn(f, m) THEN Fatal(f, "NoApplicationProtocol")
        ELSE [(IF ~auth /\ e.cfg.halfRtt THEN StartOutgoingTraffic(h) ELSE h) EXCEPT
                !.st = IF auth THEN "ExpectClientCertificate"
                       ELSE IF early THEN "ExpectEarlyData" ELSE "ExpectClientFinished"]

FirstShare(shares, g) == SelectSeq(shares, LAMBDA s : s.g = g)[1]

\* CompleteClientHelloHandling of tls13.rs
ClientHello13(e, m) ==
    LET share == FirstIn(e.cfg.groups, {m.shares[i].g : i \in DOMAIN m.shares})
        chosen == FirstShare(m.shares, share[1])
        val == Resumable(e, m)
        f == ConsumeTicket(e, m) IN
    IF e.hs.retry /\ m.early THEN Fatal(e, "IllegalParameter")
    ELSE IF share = None THEN HelloRetry(e, m)
    ELSE IF val # None /\ ~CheckBinder(e, m, val[1]) THEN Fatal(f, "DecryptError")
    ELSE ServerFlight13(f, m, chosen, val)

(***************************************************************************)
(* TLS 1.3: the client's flight.                                           *)
(***************************************************************************)
\* verify_client_cert, and what an empty chain means
ClientCertificate(e, m, verified, skipped) ==
    LET f == Hash(e, m) IN
    IF m.cert = "none"
    THEN IF e.cfg.clientAuth = "required" THEN Fatal(f, "CertificateRequired")
         ELSE [f EXCEPT !.hs.log = FALSE, !.st = skipped]
    ELSE IF m.cert \notin e.cfg.trusts THEN Fatal(f, "BadCertificate")
    ELSE [f EXCEPT !.hs.cert = m.cert, !.st = verified]

ClientCertificateVerify(e, m) ==
    IF m.sig # [cert |-> e.hs.cert, hash |-> e.tr] THEN Fatal(e, "DecryptError")
    ELSE [Hash(e, m) EXCEPT !.cert = e.hs.cert, !.st = "ExpectClientFinished"]

\* ExpectEarlyData: the buffer of accepted early data, which the application
\* reads when the handshake is over, has the configured size
EarlyData(e, m) ==
    IF Len(e.early) = e.cfg.maxEarly THEN Unexpected(e)
    ELSE [e EXCEPT !.early = Append(@, m.i)]
EarlyDataEnds(e, m) ==
    [Hash(SetHandshakeDecrypter(e), m) EXCEPT !.st = "ExpectClientFinished"]

NewSessionTicketMsg(ticket, nonce, maxEarly) ==
    [t |-> "NewSessionTicket", ticket |-> ticket, nonce |-> nonce,
     maxEarly |-> maxEarly, ok |-> TRUE]

\* emit_ticket as often as send_tls13_tickets says: tickets sealed by the
\* ticketer, or the ids under which the cache keeps the sessions
Ticket13Value(e, i) == SessionValue(e, 13, TicketPsk(e.hs.fin[1], e.tr, i), FALSE)
CacheId(e, i) == [n |-> e.n, i |-> i]
Youngest(seq, n) == IF Len(seq) > n THEN SubSeq(seq, Len(seq) - n + 1, Len(seq)) ELSE seq
Ticket13Msg(e, i) ==
    IF e.cfg.ticketer THEN NewSessionTicketMsg(Encrypt(e, Ticket13Value(e, i)), i, 0)
    ELSE NewSessionTicketMsg(CacheId(e, i), i, e.cfg.maxEarly)
SendTickets13(e) ==
    [e EXCEPT !.out = @ \o [i \in 1..e.cfg.sendTickets |->
                               Sealed(e, "handshake", Ticket13Msg(e, i))]]
StoreSessions13(e) ==
    [e EXCEPT !.store.cache =
        Youngest(@ \o [i \in 1..e.cfg.sendTickets |->
                         [id |-> CacheId(e, i), val |-> Ticket13Value(e, i)]],
                 CacheCapacity - 1)]
EmitTickets13(e) ==
    IF e.cfg.sendTickets = 0 \/ (~e.cfg.ticketer /\ ~e.cfg.cache) THEN e
    ELSE SendTickets13(IF e.cfg.ticketer THEN MaybeRoll(e) ELSE StoreSessions13(e))

ClientFinished13(e, m) ==
    LET f == SetDecrypter(e, TrafficKey("client", e.hs.fin[1], 0)) IN
    IF m.verify # FinishOf("client", e.hs.sec[1], e.tr) THEN Fatal(f, "DecryptError")
    ELSE [StartTraffic(EmitTickets13(Hash(f, m))) EXCEPT !.st = "ExpectTraffic"]

ServerTraffic13(e, m) ==
    CASE m.t = "ApplicationData" -> TakeReceived(e, m)
      [] m.t = "KeyUpdate" -> HandleKeyUpdate(e, m)
      [] OTHER -> Unexpected(e)

(***************************************************************************)
(* TLS 1.2.                                                                *)
(***************************************************************************)
\* a ticket is tried alone: with it the session id means nothing
Session12(e, m) ==
    LET val == IF m.ticket # None THEN Decrypt(MaybeRoll(e), m.ticket[1])
               ELSE IF m.sid = None THEN None ELSE Get(e, m.sid[1]) IN
    IF val # None /\ CanResume(e.suite, m.ems, val[1]) THEN val ELSE None

\* process_tls12
SendsTicket12(e, m) == m.tickets /\ e.cfg.ticketer

EmitServerHello12(e, m, ocsp) ==
    LET f == [e EXCEPT !.alpn = ChooseAlpn(e, m), !.hs.sendTicket = SendsTicket12(e, m)] IN
    IF NoAlpn(e, m) THEN Fatal(f, "NoApplicationProtocol")
    ELSE Emit(f, [t |-> "ServerHello", ver |-> 12, suite |-> e.suite, sid |-> e.hs.sid,
                  alpn |-> f.alpn, ems |-> e.hs.ems, newTicket |-> f.hs.sendTicket,
                  status |-> ocsp, downgrade |-> 13 \in e.cfg.vers, ok |-> TRUE], FALSE)

NewSessionTicket12Msg(ticket) == [t |-> "NewSessionTicket", ok |-> TRUE, ticket |-> ticket]

\* emit_ticket: in the clear, and part of the hash
EmitTicket12(e0) ==
    LET e == MaybeRoll(e0)
        val == SessionValue(e, 12, e.hs.ms[1], e.hs.ems) IN
    IF ~e.hs.sendTicket THEN e0
    ELSE Emit(e, NewSessionTicket12Msg(Encrypt(e, val)), FALSE)

\* the end of the server's part: ticket, change of cipher, Finished
EmitFinale12(e) == EmitFinished12(StartEncrypting(EmitCcs(EmitTicket12(e))))

StartResumption(e, m, val) ==
    LET f == EmitServerHello12([e EXCEPT !.hs.sid = m.sid, !.hs.resuming = TRUE], m, FALSE)
        g == [StartEncryption12(f, val.secret) EXCEPT !.cert = val.cert,
                                                      !.hs.ms = Some(val.secret)]
    IN  IF val.ems /\ ~e.hs.ems THEN Fatal(e, "IllegalParameter")
        ELSE IF f.err # "none" THEN f
        ELSE [EmitFinale12(g) EXCEPT !.st = "ExpectClientCcs"]

ServerKxMsg(e, share) ==
    [t |-> "ServerKeyExchange", share |-> share, ok |-> TRUE,
     sig |-> [cert |-> e.cfg.cert, n |-> e.n, share |-> share]]

EmitServerKx12(e, share) == Emit(e, ServerKxMsg(e, share), FALSE)

CertificateStatusMsg == [t |-> "CertificateStatus", ok |-> TRUE]
EmitCertStatus(e) == IF e.cfg.ocsp THEN Emit(e, CertificateStatusMsg, FALSE) ELSE e

\* the end of the flight: emit_certificate_req and emit_server_hello_done
EmitServerDone12(e) ==
    LET f == IF e.cfg.clientAuth = "none" THEN e ELSE Emit(e, CertRequest, FALSE) IN
    Emit(f, [t |-> "ServerHelloDone", ok |-> TRUE], FALSE)

\* a full handshake gets a session id to be found by, unless the client
\* came with a ticket or nothing can be cached
FullHandshake12(e0, m, group) ==
    LET sid == IF e0.cfg.cache /\ m.ticket = None
               THEN Some([by |-> "server", n |-> e0.n]) ELSE None
        e == EmitServerHello12([e0 EXCEPT !.hs.sid = sid], m, e0.cfg.ocsp)
        f == EmitCertStatus(Emit(e, CertificateMsg(e.cfg.cert), FALSE))
        g == EmitServerKx12(f, Share(group, 1))
    IN  IF e.err # "none" THEN e
        ELSE [EmitServerDone12(g) EXCEPT
                !.hs.kx = Some(Share(group, 1)),
                !.st = IF e.cfg.clientAuth = "none" THEN "ExpectClientKx"
                                                    ELSE "ExpectClientCertificate12"]

\* CompleteClientHelloHandling of tls12.rs
ClientHello12(e, m) ==
    LET used == IF m.ticket # None /\ e.cfg.ticketer THEN MaybeRoll(e) ELSE e
        f == [Hash(used, m) EXCEPT !.hs.ems = m.ems]
        val == Session12(e, m)
        group == FirstIn(e.cfg.groups, Range(m.groups)) IN
    IF val # None THEN StartResumption(f, m, val[1])
    ELSE IF group = None THEN Fatal(f, "HandshakeFailure")
    ELSE FullHandshake12(f, m, group[1])

ClientKx(e, m) ==
    LET f == Hash(e, m)
        kx == [n |-> e.n, g |-> e.hs.kx[1].g, c |-> m.share.i, s |-> e.hs.kx[1].i]
        ms == MasterSecret(kx, e.hs.ems, f.tr) IN
    [StartEncryption12(f, ms) EXCEPT
            !.hs.ms = Some(ms),
            !.st = IF e.hs.cert = "none" THEN "ExpectClientCcs" ELSE "ExpectCertificateVerify12"]

\* the signature covers the log, which is kept while client auth is on
CertificateVerify12(e, m) ==
    IF ~e.hs.log THEN Fatal(e, "AccessDenied")
    ELSE IF m.sig # [cert |-> e.hs.cert, hash |-> e.tr] THEN Fatal(e, "DecryptError")
    ELSE [Hash(e, m) EXCEPT !.cert = e.hs.cert, !.st = "ExpectClientCcs"]

ClientCcs12(e) == [StartDecrypting(e) EXCEPT !.st = "ExpectClientFinished12"]

\* Mutant: the server never sends its own half of a full handshake.
MutClientFinished12(e, m) ==
    IF m.verify # Finish12("client", e.hs.ms[1], e.n, e.tr) THEN Fatal(e, "DecryptError")
    ELSE [StartTraffic(Hash(e, m)) EXCEPT !.st = "ExpectTraffic12"]

ClientFinished12(e, m) ==
    LET saved == IF ~e.hs.resuming /\ e.hs.sid # None
                 THEN Put(e, e.hs.sid[1], SessionValue(e, 12, e.hs.ms[1], e.hs.ems)) ELSE e
        f == Hash(saved, m) IN
    IF m.verify # Finish12("client", e.hs.ms[1], e.n, e.tr) THEN Fatal(e, "DecryptError")
    ELSE [StartTraffic(IF e.hs.resuming THEN f ELSE EmitFinale12(f)) EXCEPT
            !.st = "ExpectTraffic12"]

(***************************************************************************)
(* The state machine.                                                      *)
(***************************************************************************)
\* the hash of a retry goes on in the second hello
HashVaried(e, suite) == e.hs.retry /\ SuiteHash(suite) # SuiteHash(e.suite)

\* ExpectClientHello::with_certified_key
HandleClientHello(e, m) ==
    LET ver == ChooseVersion(e, m)
        suite == ChooseSuite(e, m, ver)
        f == [e EXCEPT !.ver = ver]
        g == [f EXCEPT !.suite = suite[1]] IN
    IF ver = 0 THEN Fatal(e, "ProtocolVersion")
    ELSE IF suite = None THEN Fatal(f, "HandshakeFailure")
    ELSE IF HashVaried(e, suite[1]) THEN Fatal(g, "IllegalParameter")
    ELSE IF ver = 13 THEN ClientHello13(g, m) ELSE ClientHello12(g, m)

\* ExpectAndSkipRejectedEarlyData: records that cannot be opened are skipped
\* while the allowance lasts, the next hello ends the state
Skips(e, m) ==
    /\ e.st = "ExpectAndSkipRejectedEarlyData"
    /\ m.t = "Opaque"
    /\ e.hs.skip >= EarlyRecordLen
Skipped(e) == [e EXCEPT !.hs.skip = @ - EarlyRecordLen]

ServerHandle(e, m) ==
    CASE Skips(e, m) -> Skipped(e)
      [] e.st \in {"ExpectClientHello", "ExpectAndSkipRejectedEarlyData"}
            /\ m.t = "ClientHello" -> HandleClientHello(e, m)
      [] e.st = "ExpectClientCertificate" /\ m.t = "Certificate" ->
             ClientCertificate(e, m, "ExpectClientCertificateVerify", "ExpectClientFinished")
      [] e.st = "ExpectClientCertificateVerify" /\ m.t = "CertificateVerify" ->
             ClientCertificateVerify(e, m)
      [] e.st = "ExpectEarlyData" /\ m.t = "ApplicationData" -> EarlyData(e, m)
      [] e.st = "ExpectEarlyData" /\ m.t = "EndOfEarlyData" -> EarlyDataEnds(e, m)
      [] e.st = "ExpectClientFinished" /\ m.t = "Finished" -> ClientFinished13(e, m)
      [] e.st = "ExpectTraffic" -> ServerTraffic13(e, m)
      [] e.st = "ExpectClientCertificate12" /\ m.t = "Certificate" ->
             ClientCertificate(e, m, "ExpectClientKx", "ExpectClientKx")
      [] e.st = "ExpectClientKx" /\ m.t = "ClientKeyExchange" -> ClientKx(e, m)
      [] e.st = "ExpectCertificateVerify12" /\ m.t = "CertificateVerify" ->
             CertificateVerify12(e, m)
      [] e.st = "ExpectClientCcs" /\ m.t = "ChangeCipherSpec" -> ClientCcs12(e)
      [] e.st = "ExpectClientFinished12" /\ m.t = "Finished" -> ClientFinished12(e, m)
      [] e.st = "ExpectTraffic12" /\ m.t = "ApplicationData" -> TakeReceived(e, m)
      [] OTHER -> Unexpected(e)
=============================================================================
