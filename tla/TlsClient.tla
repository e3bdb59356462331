------------------------------- MODULE TlsClient -------------------------------
(***************************************************************************)
(* The client's handshake: craftls client/hs.rs, client/tls13.rs and       *)
(* client/tls12.rs.  A handler maps the endpoint and the message to the    *)
(* next endpoint; field st names the Rust state.                           *)
(***************************************************************************)
EXTENDS CraftHello

CONSTANT MaxTls13Tickets    \* MAX_TLS13_TICKETS_PER_SERVER

ASSUME TicketsAssumption == MaxTls13Tickets \in Nat \ {0}

CanResumeFrom(suite, prev) == SuiteHash(suite) = SuiteHash(prev)

(***************************************************************************)
(* ClientSessionMemoryCache, for the one server of this model.             *)
(***************************************************************************)
EmptyStore == [hint |-> None, tls12 |-> None, tls13 |-> << >>]
SetKxHint(e, g) == [e EXCEPT !.store.hint = Some(g)]
SetTls12Session(e, v) == [e EXCEPT !.store.tls12 = Some(v)]
RemoveTls12Session(e) == [e EXCEPT !.store.tls12 = None]
InsertTls13Ticket(e, v) ==
    [e EXCEPT !.store.tls13 =
        IF Len(@) = MaxTls13Tickets THEN Append(Tail(@), v) ELSE Append(@, v)]

(***************************************************************************)
(* EarlyData.                                                              *)
(***************************************************************************)
EarlyEnabled(e) == e.hs.ed \in {"Ready", "Accepted"}
EarlyReject(e) == [e EXCEPT !.hs.ed = "Rejected"]
CanWriteEarly(e) == EarlyEnabled(e) /\ e.hs.left > 0

\* write_early_data of one unit
WriteEarlyData(e) ==
    SendMsg([e EXCEPT !.hs.left = @ - 1, !.written = @ + 1],
            "app", AppData("client", e.written + 1), TRUE)

(***************************************************************************)
(* Sending the ClientHello.                                                *)
(***************************************************************************)
InitialHs(cfg) ==
    [resuming |-> None, sid |-> None, fakeCcs |-> FALSE, share |-> None,
     alt |-> << >>, psk |-> None, suite |-> None, ed |-> "Disabled", left |-> 0,
     sec |-> None, auth |-> "none", cert |-> "none", log |-> cfg.auth # "none",
     ems |-> FALSE, mustTicket |-> FALSE, status |-> FALSE, kx |-> None,
     ms |-> None, ticket |-> None]

\* Retrieved::has_expired: every session of the store is of one age
HasExpired(e) == e.age = "expired"

\* find_session: a TLS 1.3 ticket is taken out of the store, a TLS 1.2
\* session is copied; neither is used once expired
FindSession(e) ==
    LET taken == e.store.tls13 # << >>
        found == IF taken THEN Some(Last(e.store.tls13)) ELSE e.store.tls12 IN
    [e EXCEPT !.store.tls13 = IF taken THEN Front(@) ELSE @,
              !.hs.resuming = IF HasExpired(e) THEN None ELSE found]

InitialKeyShare(e) ==
    LET g == IF e.store.hint # None /\ e.store.hint[1] \in Range(e.cfg.groups)
             THEN e.store.hint[1] ELSE e.cfg.groups[1] IN
    [e EXCEPT !.hs.share = Some(Share(g, 1))]

FreshSid(e) == Some([by |-> "client", n |-> e.n])

\* The session id echoes a TLS 1.2 session without ticket; with a ticket a
\* fresh id tells whether the server resumed
SessionId(e) ==
    IF e.hs.resuming # None /\ e.hs.resuming[1].v = 12 /\ e.hs.resuming[1].ticket = None
    THEN e.hs.resuming[1].sid
    ELSE IF 13 \in e.cfg.vers \/ (e.hs.resuming # None /\ e.hs.resuming[1].v = 12)
    THEN FreshSid(e) ELSE None

\* the TLS 1.3 session to offer: only one whose suite can carry on in the
\* suite a HelloRetryRequest fixed
Offered(e) ==
    IF /\ e.hs.resuming # None
       /\ e.hs.resuming[1].v = 13
       /\ 13 \in e.cfg.vers
       /\ e.hs.suite = None \/ CanResumeFrom(e.hs.suite[1], e.hs.resuming[1].suite)
    THEN e.hs.resuming ELSE None

\* tls13::prepare_resumption: the suite of the session and, in a first
\* hello, early data up to what the ticket allows
PrepareResumption(e) ==
    LET s == Offered(e)
        early == s # None /\ e.cfg.early /\ s[1].maxEarly > 0 /\ e.hs.suite = None IN
    [e EXCEPT !.suite = IF s # None THEN s[1].suite ELSE @,
              !.hs.ed = IF early THEN "Ready" ELSE @,
              !.hs.left = IF early THEN s[1].maxEarly ELSE @]

\* the ticket of a TLS 1.2 session, unless the fingerprint has no place for it
SessionTicketExt(e) ==
    LET r == e.hs.resuming IN
    IF r # None /\ r[1].v = 12 /\ r[1].ticket # None /\ 12 \in e.cfg.vers
       /\ e.cfg.tickets12 /\ Kept(e.cfg, "ticket")
    THEN r[1].ticket ELSE None

\* fill_in_psk_binder
PskBinder(e, s) == BinderOf(s.psk, BinderHash(e))
PskOffer(e, s) == [ticket |-> s.ticket, binder |-> PskBinder(e, s), age |-> e.age]

Hello(e, shares) ==
    LET s == Offered(e) IN
    [t |-> "ClientHello", ok |-> TRUE, n |-> e.n, sid |-> e.hs.sid,
     vers |-> e.cfg.vers,
     suites |-> Declared(e.cfg.fp.suites, e.cfg.suites),
     groups |-> Declared(e.cfg.fp.groups, e.cfg.groups),
     shares |-> IF 13 \in e.cfg.vers THEN shares ELSE << >>,
     alpn |-> e.cfg.alpn, ems |-> Kept(e.cfg, "ems"), ticket |-> SessionTicketExt(e),
     tickets |-> Kept(e.cfg, "ticket"),
     early |-> e.hs.ed = "Ready" /\ e.hs.suite = None /\ Kept(e.cfg, "early_data"),
     psk |-> IF s # None /\ Kept(e.cfg, "psk") THEN Some(PskOffer(e, s[1])) ELSE None]

\* derive_early_traffic_secret
StartEarlyTraffic(e, s) ==
    [SetEncrypter(EmitFakeCcs(e), EarlyKey(s.suite, Some(s.psk), e.tr))
        EXCEPT !.earlyTraffic = TRUE]

EmitClientHello(e0, hrr) ==
    LET e == PrepareResumption(e0)
        s == Offered(e)
        ks == IF 13 \notin e.cfg.vers THEN [shares |-> << >>, alt |-> << >>]
              ELSE IF hrr THEN RetryShares(e.hs.share[1])
              ELSE CraftShares(e.cfg, e.hs.share[1])
        f == [e EXCEPT !.hs.alt = @ \o ks.alt,
                       !.hs.psk = IF s # None THEN Some(s[1].psk) ELSE None]
        g == Emit(IF hrr THEN EmitFakeCcs(f) ELSE f, Hello(f, ks.shares), FALSE)
        h == IF s # None /\ EarlyEnabled(g) THEN StartEarlyTraffic(g, s[1]) ELSE g
    IN  [h EXCEPT !.st = IF 13 \in e.cfg.vers /\ ~hrr
                         THEN "ExpectServerHelloOrHelloRetryRequest"
                         ELSE "ExpectServerHello"]

\* start_handshake, from ClientConnection::new
StartHandshake(n, cfg, store, age) ==
    LET e == FindSession(NewEndpoint("client", n, cfg, store, age,
                                     InitialHs(cfg), "start"))
        f == IF 13 \in cfg.vers THEN InitialKeyShare(e) ELSE e
    IN  EmitClientHello([f EXCEPT !.hs.sid = SessionId(f)], FALSE)

(***************************************************************************)
(* ServerHello and HelloRetryRequest.                                      *)
(***************************************************************************)
\* a new share for the group, and the second hello with it
RetryHello(e, group) ==
    IF group \notin Range(e.cfg.groups) THEN Fatal(e, "IllegalParameter")
    ELSE IF ~Startable(e.cfg, group) THEN Fail(e, "FailedToGetRandomBytes")
    ELSE EmitClientHello([e EXCEPT !.hs.share = Some(Share(group, 2))], TRUE)

HandleHelloRetryRequest(e, m) ==
    LET f == [RollupForHrr([e EXCEPT !.ver = 13, !.suite = m.suite])
                EXCEPT !.hs.suite = Some(m.suite)]
        g == Hash(IF EarlyEnabled(f) THEN EarlyReject(f) ELSE f, m) IN
    IF m.group = e.hs.share[1].g \/ m.sid # e.hs.sid THEN Fatal(e, "IllegalParameter")
    ELSE IF m.suite \notin Range(e.cfg.suites)
    THEN Fatal([e EXCEPT !.ver = 13], "IllegalParameter")
    ELSE RetryHello(g, m.group)

\* process_alpn_protocol
AlpnOffered(e, alpn) == alpn = None \/ alpn[1] \in Range(e.cfg.alpn)

\* The pre-shared key of the connection once the server has chosen
ChosenPsk(e, m) == IF m.psk /\ e.hs.psk # None THEN e.hs.psk ELSE None

\* the server resumes: its suite must fit the session's, and be the
\* session's own when early data went out under it
BadResumption(e, m) ==
    /\ ChosenPsk(e, m) # None
    /\ \/ e.hs.resuming = None
       \/ ~CanResumeFrom(m.suite, e.hs.resuming[1].suite)
       \/ EarlyEnabled(e) /\ e.hs.resuming[1].suite # m.suite

\* derive_client_handshake_secrets
HandshakeSecrets(e, sec) ==
    LET f == SetDecrypter([e EXCEPT !.hs.sec = Some(sec)], HandshakeKey("server", sec)) IN
    IF EarlyEnabled(f) THEN f ELSE SetEncrypter(f, HandshakeKey("client", sec))

\* tls13::handle_server_hello
ServerHello13(e, m) ==
    LET ours == FindKeyShare(e.hs.alt, m.share.g, e.hs.share[1])
        psk == ChosenPsk(e, m)
        f == IF psk # None THEN e
             ELSE [EarlyReject(e) EXCEPT !.earlyTraffic = FALSE, !.hs.resuming = None]
        kx == [n |-> e.n, g |-> ours.g, c |-> ours.i, s |-> m.share.i]
        g == HandshakeSecrets(SetKxHint(f, m.share.g), Secret(m.suite, psk, kx, f.tr))
    IN  IF ours.g # m.share.g \/ BadResumption(e, m) THEN Fatal(e, "IllegalParameter")
        ELSE [EmitFakeCcs(g) EXCEPT !.st = "ExpectEncryptedExtensions"]

\* tls12 CompleteServerHelloHandling::handle_server_hello
ServerHello12(e, m) ==
    LET r == IF e.hs.resuming # None /\ e.hs.resuming[1].v = 12
             THEN e.hs.resuming ELSE None
        f == [e EXCEPT !.hs.ems = m.ems, !.hs.mustTicket = m.newTicket,
                       !.hs.status = m.status, !.hs.sid = m.sid]
        ms == r[1].ms
    IN  IF m.downgrade /\ 13 \in e.cfg.vers THEN Fatal(e, "IllegalParameter")
        ELSE IF r = None \/ e.hs.sid # m.sid
        THEN [f EXCEPT !.hs.resuming = None, !.st = "ExpectCertificate12"]
        ELSE IF r[1].suite # m.suite \/ r[1].ems # m.ems THEN Fail(f, "PeerMisbehaved")
        ELSE [StartEncryption12(f, ms) EXCEPT
                !.cert = r[1].cert, !.hs.ms = Some(ms),
                !.st = IF m.newTicket THEN "ExpectNewTicket" ELSE "ExpectCcs"]

\* the suite must be one of the version, and the one a retry fixed
SuiteMisfits(e, m) ==
    SuiteVersion(m.suite) # m.ver \/ (e.hs.suite # None /\ e.hs.suite[1] # m.suite)

\* the ServerHello is accepted: the rest is up to the version
CompleteServerHello(e, m) == IF m.ver = 13 THEN ServerHello13(e, m) ELSE ServerHello12(e, m)

\* ExpectServerHello
HandleServerHello(e, m) ==
    LET f == [e EXCEPT !.ver = m.ver, !.suite = m.suite,
                       !.alpn = IF m.ver = 12 THEN m.alpn ELSE @] IN
    IF m.ver \notin e.cfg.vers THEN Fatal(e, "ProtocolVersion")
    ELSE IF m.ver = 12 /\ EarlyEnabled(e) /\ e.earlyTraffic
    THEN Fail(e, "OfferedEarlyDataWithOldProtocolVersion")
    ELSE IF m.ver = 12 /\ ~AlpnOffered(e, m.alpn) THEN Fatal(f, "IllegalParameter")
    ELSE IF m.suite \notin Range(e.cfg.suites) THEN Fatal(f, "HandshakeFailure")
    ELSE IF SuiteMisfits(e, m) THEN Fatal(f, "IllegalParameter")
    ELSE CompleteServerHello(Hash(f, m), m)

(***************************************************************************)
(* TLS 1.3 after the ServerHello.                                          *)
(***************************************************************************)
SetHandshakeEncrypter(e) == SetEncrypter(e, HandshakeKey("client", e.hs.sec[1]))

EncryptedExtensions(e, m) ==
    LET f == [Hash(e, m) EXCEPT !.alpn = m.alpn]
        accepted == f.earlyTraffic /\ m.early
        rejected == f.earlyTraffic /\ ~m.early
        g == IF accepted THEN [f EXCEPT !.hs.ed = "Accepted"]
             ELSE IF rejected
             THEN SetHandshakeEncrypter([EarlyReject(f) EXCEPT !.earlyTraffic = FALSE])
             ELSE f
    IN  IF ~AlpnOffered(e, m.alpn) THEN Fatal(f, "IllegalParameter")
        ELSE IF e.hs.resuming # None
        THEN [g EXCEPT !.cert = e.hs.resuming[1].cert, !.st = "ExpectFinished"]
        ELSE IF m.early THEN Fail(f, "EarlyDataExtensionWithoutResumption")
        ELSE [f EXCEPT !.st = "ExpectCertificateOrCertReq"]

\* ClientAuthDetails::resolve
ResolveClientAuth(cfg) == IF cfg.auth = "none" THEN "empty" ELSE "verify"
CertificateRequest(e, m, next) ==
    [Hash(e, m) EXCEPT !.hs.auth = ResolveClientAuth(e.cfg), !.st = next]

Certificate(e, m, next) == [Hash(e, m) EXCEPT !.hs.cert = m.cert, !.st = next]

\* Mutant: the signature is checked but not the chain.
MutCertificateVerify(e, m) ==
    IF m.sig # [cert |-> e.hs.cert, hash |-> e.tr] THEN Fatal(e, "DecryptError")
    ELSE [Hash(e, m) EXCEPT !.cert = e.hs.cert, !.st = "ExpectFinished"]

CertificateVerify(e, m) ==
    IF e.hs.cert = "none" THEN Fail(e, "NoCertificatesPresented")
    ELSE IF e.hs.cert \notin e.cfg.trusts THEN Fatal(e, "BadCertificate")
    ELSE IF m.sig # [cert |-> e.hs.cert, hash |-> e.tr] THEN Fatal(e, "DecryptError")
    ELSE [Hash(e, m) EXCEPT !.cert = e.hs.cert, !.st = "ExpectFinished"]

EndOfEarlyData == [t |-> "EndOfEarlyData", ok |-> TRUE]

\* still under the early keys; the handshake keys follow
FinishEarlyData(e) ==
    IF e.earlyTraffic
    THEN SetHandshakeEncrypter([Emit(e, EndOfEarlyData, TRUE)
             EXCEPT !.earlyTraffic = FALSE, !.hs.ed = "AcceptedFinished"])
    ELSE e

EmitClientAuth13(e) ==
    LET f == Emit(e, CertificateMsg(e.cfg.auth), TRUE) IN
    IF e.hs.auth = "none" THEN e
    ELSE IF e.hs.auth = "empty" THEN Emit(e, CertificateMsg("none"), TRUE)
    ELSE Emit(f, CertVerifyMsg(e.cfg.auth, f.tr), TRUE)

EmitFinished13(e) ==
    Emit(e, FinishedMsg(FinishOf("client", e.hs.sec[1], e.tr)), TRUE)

\* ExpectFinished: the traffic secrets come from the hash up to the server's
\* Finished, the client's verify data from the hash up to its own messages
Finished13(e, m) ==
    LET f == Hash(e, m)
        sec == [e.hs.sec[1] EXCEPT !.hash = f.tr]
        g == RemoveTls12Session(EmitFinished13(EmitClientAuth13(FinishEarlyData(f))))
        h == SetEncrypter(SetDecrypter(g, TrafficKey("server", sec, 0)),
                          TrafficKey("client", sec, 0))
    IN  IF m.verify # FinishOf("server", e.hs.sec[1], e.tr) THEN Fatal(e, "DecryptError")
        ELSE [StartTraffic(h) EXCEPT !.hs.sec = Some(sec), !.st = "ExpectTraffic"]

Tls13ClientSessionValue(e, m) ==
    [v |-> 13, suite |-> e.suite, ticket |-> m.ticket, cert |-> e.cert,
     psk |-> TicketPsk(e.hs.sec[1], e.tr, m.nonce), maxEarly |-> m.maxEarly]
NewTicket13(e, m) == InsertTls13Ticket(e, Tls13ClientSessionValue(e, m))

Traffic13(e, m) ==
    CASE m.t = "ApplicationData" -> TakeReceived(e, m)
      [] m.t = "NewSessionTicket" -> NewTicket13(e, m)
      [] m.t = "KeyUpdate" -> HandleKeyUpdate(e, m)
      [] OTHER -> Unexpected(e)

(***************************************************************************)
(* TLS 1.2 after the ServerHello.                                          *)
(***************************************************************************)
Certificate12(e, m) ==
    Certificate(e, m, IF e.hs.status THEN "ExpectCertificateStatusOrServerKx"
                                     ELSE "ExpectServerKx")
CertificateStatus(e, m) == [Hash(e, m) EXCEPT !.st = "ExpectServerKx"]
CertificateRequest12(e, m) == CertificateRequest(e, m, "ExpectServerDone")
ServerKx(e, m) ==
    [Hash(e, m) EXCEPT !.hs.kx = Some([share |-> m.share, sig |-> m.sig]),
                       !.st = "ExpectServerDoneOrCertReq"]

ClientKxMsg(share) == [t |-> "ClientKeyExchange", share |-> share, ok |-> TRUE]

EmitCertificate12(e) ==
    IF e.hs.auth = "none" THEN e
    ELSE Emit(e, CertificateMsg(IF e.hs.auth = "verify" THEN e.cfg.auth ELSE "none"), FALSE)

\* the signature covers the whole log of the handshake, kept only if the
\* client had certificates to begin with
EmitCertVerify12(e) ==
    IF e.hs.auth # "verify" THEN e
    ELSE IF e.hs.log THEN Emit(e, CertVerifyMsg(e.cfg.auth, e.tr), FALSE)
    ELSE Fail(e, "General")

\* ExpectServerDone, once the certificate and the signature are verified
ServerDoneFlight(e) ==
    LET their == e.hs.kx[1].share
        f == Emit(EmitCertificate12(e), ClientKxMsg(Share(their.g, 3)), FALSE)
        ms == MasterSecret([n |-> e.n, g |-> their.g, c |-> 3, s |-> their.i],
                           e.hs.ems, f.tr)
        g == EmitCertVerify12(f)
        h == StartEncrypting(StartEncryption12([EmitCcs(g) EXCEPT !.hs.ms = Some(ms)], ms))
    IN  IF g.err # "none" THEN g
        ELSE [EmitFinished12(h) EXCEPT
                !.st = IF e.hs.mustTicket THEN "ExpectNewTicket" ELSE "ExpectCcs"]

ServerDone(e0, m) ==
    LET e == Hash(e0, m)
        cert == e.hs.cert
        kx == e.hs.kx[1] IN
    IF cert = "none" THEN Fail(e, "NoCertificatesPresented")
    ELSE IF cert \notin e.cfg.trusts THEN Fatal(e, "BadCertificate")
    ELSE IF kx.sig # [cert |-> cert, n |-> e.n, share |-> kx.share]
    THEN Fatal(e, "DecryptError")
    ELSE IF ~Startable(e.cfg, kx.share.g)
    THEN Fail(EmitCertificate12([e EXCEPT !.cert = cert]), "SelectedUnofferedKxGroup")
    ELSE ServerDoneFlight([e EXCEPT !.cert = cert])

NewTicket12(e, m) ==
    [Hash(e, m) EXCEPT !.hs.ticket = Some(m.ticket), !.st = "ExpectCcs"]

ExpectCcs12(e) == [StartDecrypting(e) EXCEPT !.st = "ExpectFinished12"]

Tls12ClientSessionValue(e, ticket) ==
    [v |-> 12, suite |-> e.suite, sid |-> e.hs.sid, ticket |-> ticket,
     ms |-> e.hs.ms[1], ems |-> e.hs.ems, cert |-> e.cert]

\* save_session: the new ticket, else the ticket of the resumed session
SaveSession(e) ==
    LET ticket == IF e.hs.ticket # None THEN e.hs.ticket
                  ELSE IF e.hs.resuming # None THEN e.hs.resuming[1].ticket ELSE None IN
    IF e.hs.sid = None /\ ticket = None THEN e
    ELSE SetTls12Session(e, Tls12ClientSessionValue(e, ticket))

Finished12(e, m) ==
    LET f == SaveSession(Hash(e, m))
        g == IF e.hs.resuming # None
             THEN EmitFinished12(StartEncrypting(EmitCcs(f))) ELSE f
    IN  IF m.verify # Finish12("server", e.hs.ms[1], e.n, e.tr) THEN Fatal(e, "DecryptError")
        ELSE [StartTraffic(g) EXCEPT !.st = "ExpectTraffic12"]

(***************************************************************************)
(* The state machine: which message each state accepts.                    *)
(***************************************************************************)
ClientHandle(e, m) ==
    CASE e.st = "ExpectServerHelloOrHelloRetryRequest" /\ m.t = "HelloRetryRequest" ->
             HandleHelloRetryRequest(e, m)
      [] e.st \in {"ExpectServerHelloOrHelloRetryRequest", "ExpectServerHello"}
            /\ m.t = "ServerHello" -> HandleServerHello(e, m)
      [] e.st = "ExpectEncryptedExtensions" /\ m.t = "EncryptedExtensions" ->
             EncryptedExtensions(e, m)
      [] e.st = "ExpectCertificateOrCertReq" /\ m.t = "CertificateRequest" ->
             CertificateRequest(e, m, "ExpectCertificate")
      [] e.st \in {"ExpectCertificateOrCertReq", "ExpectCertificate"}
            /\ m.t = "Certificate" -> Certificate(e, m, "ExpectCertificateVerify")
      [] e.st = "ExpectCertificateVerify" /\ m.t = "CertificateVerify" ->
             CertificateVerify(e, m)
      [] e.st = "ExpectFinished" /\ m.t = "Finished" -> Finished13(e, m)
      [] e.st = "ExpectTraffic" -> Traffic13(e, m)
      [] e.st = "ExpectCertificate12" /\ m.t = "Certificate" -> Certificate12(e, m)
      [] e.st = "ExpectCertificateStatusOrServerKx" /\ m.t = "CertificateStatus" ->
             CertificateStatus(e, m)
      [] e.st \in {"ExpectCertificateStatusOrServerKx", "ExpectServerKx"}
            /\ m.t = "ServerKeyExchange" -> ServerKx(e, m)
      [] e.st = "ExpectServerDoneOrCertReq" /\ m.t = "CertificateRequest" ->
             CertificateRequest12(e, m)
      [] e.st \in {"ExpectServerDoneOrCertReq", "ExpectServerDone"}
            /\ m.t = "ServerHelloDone" -> ServerDone(e, m)
      [] e.st = "ExpectNewTicket" /\ m.t = "NewSessionTicket" -> NewTicket12(e, m)
      [] e.st = "ExpectCcs" /\ m.t = "ChangeCipherSpec" -> ExpectCcs12(e)
      [] e.st = "ExpectFinished12" /\ m.t = "Finished" -> Finished12(e, m)
      [] e.st = "ExpectTraffic12" /\ m.t = "ApplicationData" -> TakeReceived(e, m)
      [] OTHER -> Unexpected(e)
=============================================================================
