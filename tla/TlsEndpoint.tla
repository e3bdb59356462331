----------------------------- MODULE TlsEndpoint -----------------------------
(***************************************************************************)
(* One end of a TLS connection as craftls keeps it: CommonState, the       *)
(* record layer, the handshake hash and the key schedule, as a record that *)
(* the handlers of TlsClient and TlsServer map to its next value.          *)
(*                                                                         *)
(* Cryptography is symbolic.  A key is the record of everything it was     *)
(* derived from, so two ends own the same key exactly when they derived it *)
(* from the same inputs, and a record opens under a key only if it was     *)
(* sealed under it.  A handshake hash is the sequence of the types of the  *)
(* messages that were hashed.  An Option is a sequence of length at most   *)
(* one.                                                                    *)
(*                                                                         *)
(* A protocol message is a record with its type in field t and with a flag *)
(* ok: it parses and its contents pass every check of the receiving code   *)
(* that does not depend on what the receiver negotiated (duplicate or      *)
(* unsolicited extensions, compression, point formats, empty lists).       *)
(***************************************************************************)
EXTENDS Integers, Sequences, SequencesExt

CONSTANTS Tls13MaxDroppedCcs,   \* TLS13_MAX_DROPPED_CCS
          EarlyRecordLen,       \* wire length of an early record of one unit
          DefaultTrialLen       \* skipped bytes allowed with no early data
                                \* configured (max_early_data_size)

None == << >>
Some(x) == <<x>>
Share(g, i) == [g |-> g, i |-> i]   \* key pair i of an end, in group g
Peer(side) == IF side = "client" THEN "server" ELSE "client"

(***************************************************************************)
(* Keys and secrets.  A PSK is an Option; kx is the agreed key exchange.   *)
(***************************************************************************)
EarlyKey(suite, psk, hash) ==
    [k |-> "early", suite |-> suite, psk |-> psk, hash |-> hash]
Secret(suite, psk, kx, hash) ==
    [suite |-> suite, psk |-> psk, kx |-> kx, hash |-> hash]
HandshakeKey(side, secret) == [k |-> "handshake", side |-> side, sec |-> secret]
TrafficKey(side, secret, gen) ==
    [k |-> "traffic", side |-> side, sec |-> secret, gen |-> gen]
BinderOf(psk, hash) == [k |-> "binder", psk |-> psk, hash |-> hash]
FinishOf(side, secret, hash) ==
    [k |-> "finished", side |-> side, sec |-> secret, hash |-> hash]
\* a binder covers the hello up to its list of binders
BinderHash(e) == Append(e.tr, "truncated")
TicketPsk(secret, hash, nonce) ==
    [n |-> secret.kx.n, kx |-> secret.kx, len |-> Len(hash), nonce |-> nonce]

\* tls12/mod.rs: the master secret depends on the hash of the handshake only
\* with extended master secret; the keys also depend on the two randoms,
\* which are fresh in every connection
MasterSecret(kx, ems, hash) == [kx |-> kx, ems |-> IF ems THEN hash ELSE << >>]
Tls12Key(side, suite, ms, n) ==
    [k |-> "tls12", side |-> side, suite |-> suite, ms |-> ms, n |-> n]
Finish12(side, ms, n, hash) ==
    [k |-> "finished12", side |-> side, ms |-> ms, n |-> n, hash |-> hash]

(***************************************************************************)
(* The endpoint.  hs holds what the handshake states carry from one to the *)
(* next; store is the session storage the configuration shares between     *)
(* connections; out is sendable_tls.                                       *)
(***************************************************************************)
NewEndpoint(side, n, cfg, store, age, hs, st) ==
    [side |-> side, n |-> n, cfg |-> cfg, store |-> store, age |-> age,
     hs |-> hs, st |-> st,
     ver |-> 0, suite |-> "none", alpn |-> None, cert |-> "none",
     enc |-> None, encOn |-> FALSE, dec |-> None, decOn |-> FALSE,
     hasDecrypted |-> FALSE, trial |-> -1,
     maySend |-> FALSE, mayRecv |-> FALSE, earlyTraffic |-> FALSE,
     sentFatal |-> FALSE, closeNotify |-> FALSE, eof |-> FALSE, ccs |-> 0,
     plain |-> << >>, queued |-> None, out |-> << >>, tr |-> << >>,
     err |-> "none", written |-> 0, received |-> << >>, early |-> << >>]

Tls13Suites == {"aes128", "chacha20", "aes256"}
SuiteVersion(suite) == IF suite \in Tls13Suites THEN 13 ELSE 12
SuiteHash(suite) == IF suite = "aes256" THEN "sha384" ELSE "sha256"

IsTls13(e) == e.ver = 13
IsHandshaking(e) == ~(e.maySend /\ e.mayRecv)

(***************************************************************************)
(* Record layer.                                                           *)
(***************************************************************************)
PrepareEncrypter(e, key) == [e EXCEPT !.enc = Some(key), !.encOn = FALSE]
PrepareDecrypter(e, key) == [e EXCEPT !.dec = Some(key), !.decOn = FALSE]
SetEncrypter(e, key) == [e EXCEPT !.enc = Some(key), !.encOn = TRUE]
SetDecrypter(e, key) == [e EXCEPT !.dec = Some(key), !.decOn = TRUE, !.trial = -1]
SetTrialDecrypter(e, key, len) ==
    [e EXCEPT !.dec = Some(key), !.decOn = TRUE, !.trial = len]
StartEncrypting(e) == [e EXCEPT !.encOn = TRUE]
StartDecrypting(e) == [e EXCEPT !.decOn = TRUE]

\* the record an encrypter makes, and whether a decrypter opens it
Sealed(e, typ, m) ==
    [typ |-> typ, m |-> m, key |-> IF e.encOn THEN e.enc ELSE None]
Opens(e, w) == w.key = e.dec
Plaintext(typ, m) == [typ |-> typ, m |-> m, key |-> None]

\* start_encryption_tls12: both directions are prepared, neither is in use
StartEncryption12(e, ms) ==
    PrepareDecrypter(
        PrepareEncrypter(e, Tls12Key(e.side, e.suite, ms, e.n)),
        Tls12Key(Peer(e.side), e.suite, ms, e.n))

(***************************************************************************)
(* Sending.                                                                *)
(***************************************************************************)
SendMsg(e, typ, m, mustEncrypt) ==
    [e EXCEPT !.out = Append(@, IF mustEncrypt THEN Sealed(e, typ, m)
                                               ELSE Plaintext(typ, m))]

Ccs == [t |-> "ChangeCipherSpec", ok |-> TRUE]
Alert(level, desc) == [t |-> "Alert", level |-> level, desc |-> desc, ok |-> TRUE]
AppData(side, i) == [t |-> "ApplicationData", side |-> side, i |-> i, ok |-> TRUE]

SendAlert(e, level, desc) == SendMsg(e, "alert", Alert(level, desc), e.encOn)

\* send_fatal_alert, and the error the handler returns with it
Fatal(e, desc) ==
    [SendAlert(e, "fatal", desc) EXCEPT !.sentFatal = TRUE, !.err = desc]
\* an error returned without an alert
Fail(e, err) == [e EXCEPT !.err = err]
Unexpected(e) == Fatal(e, "UnexpectedMessage")

SendCloseNotify(e) == SendAlert(e, "warning", "CloseNotify")

\* hash a message, and hash and send one
Hash(e, m) == [e EXCEPT !.tr = Append(@, m.t)]
Emit(e, m, mustEncrypt) == SendMsg(Hash(e, m), "handshake", m, mustEncrypt)
\* into_hrr_buffer and rollup_for_hrr
RollupForHrr(e) == [e EXCEPT !.tr = <<"message_hash">>]

CertificateMsg(cert) == [t |-> "Certificate", cert |-> cert, ok |-> TRUE]
CertVerifyMsg(cert, hash) ==
    [t |-> "CertificateVerify", sig |-> [cert |-> cert, hash |-> hash], ok |-> TRUE]
FinishedMsg(verify) == [t |-> "Finished", verify |-> verify, ok |-> TRUE]
EmitCcs(e) == SendMsg(e, "ccs", Ccs, FALSE)
EmitFinished12(e) ==
    Emit(e, FinishedMsg(Finish12(e.side, e.hs.ms[1], e.n, e.tr)), TRUE)

EmitFakeCcs(e) ==
    IF e.hs.fakeCcs THEN e
    ELSE [SendMsg(e, "ccs", Ccs, FALSE) EXCEPT !.hs.fakeCcs = TRUE]

\* Mutant: what was written during the handshake stays in its buffer.
MutStartOutgoingTraffic(e) == [e EXCEPT !.maySend = TRUE]

\* flush_plaintext: what was written during the handshake goes out in order
StartOutgoingTraffic(e) ==
    [e EXCEPT !.maySend = TRUE,
              !.out = @ \o [i \in 1..Len(e.plain) |->
                               Sealed(e, "app", AppData(e.side, e.plain[i]))],
              !.plain = << >>]
StartTraffic(e) == StartOutgoingTraffic([e EXCEPT !.mayRecv = TRUE])

\* perhaps_write_key_update
FlushKeyUpdate(e) == [e EXCEPT !.out = @ \o e.queued, !.queued = None]

\* Mutant: data goes out as soon as some key is in use.
MutWritePlaintext(e) ==
    LET f == [FlushKeyUpdate(e) EXCEPT !.written = @ + 1] IN
    IF f.encOn THEN SendMsg(f, "app", AppData(e.side, f.written), TRUE)
               ELSE [f EXCEPT !.plain = Append(@, f.written)]

\* send_some_plaintext, of one unit
WritePlaintext(e) ==
    LET f == [FlushKeyUpdate(e) EXCEPT !.written = @ + 1] IN
    IF f.maySend THEN SendMsg(f, "app", AppData(e.side, f.written), TRUE)
                 ELSE [f EXCEPT !.plain = Append(@, f.written)]

(***************************************************************************)
(* Traffic secrets.  handle_key_update is the same on both sides.          *)
(***************************************************************************)
NextKey(key) == TrafficKey(key.side, key.sec, key.gen + 1)
KeyUpdate(request) == [t |-> "KeyUpdate", request |-> request, ok |-> TRUE]

UpdateEncrypterAndNotify(e) ==
    SetEncrypter([e EXCEPT !.queued =
                      Some(Sealed(e, "handshake", KeyUpdate("NotRequested")))],
                 NextKey(e.enc[1]))
UpdateDecrypter(e) == SetDecrypter(e, NextKey(e.dec[1]))

HandleKeyUpdate(e, m) ==
    UpdateDecrypter(IF m.request = "Requested" /\ e.queued = None
                    THEN UpdateEncrypterAndNotify(e) ELSE e)

TakeReceived(e, m) == [e EXCEPT !.received = Append(@, m.i)]

(***************************************************************************)
(* Receiving.  A protected TLS 1.3 record travels with the type of         *)
(* application data; its contents are opaque to who cannot open it.        *)
(***************************************************************************)
WireType(w) == IF w.key # None /\ w.key[1].k # "tls12" THEN "app" ELSE w.typ
Opaque == [t |-> "Opaque", ok |-> TRUE]
WireLen(w) == EarlyRecordLen

AllowedPlaintext(e, w) ==
    \/ WireType(w) = "ccs"
    \/ /\ WireType(w) = "alert"
       /\ w.key = None
       /\ IsTls13(e)
       /\ ~e.hasDecrypted

\* MessageDeframer::pop with RecordLayer::decrypt_incoming: what becomes of
\* record w at the head of the buffer.  "pass" hands typ and m on,
\* "drop" discards rejected early data, "bad" is a DecryptError.
Deframe(e, w) ==
    LET pass(typ, m, f) == [r |-> "pass", typ |-> typ, m |-> m, e |-> f] IN
    IF AllowedPlaintext(e, w) \/ (~e.decOn /\ w.key = None) THEN pass(WireType(w), w.m, e)
    ELSE IF ~e.decOn THEN pass(WireType(w), Opaque, e)
    ELSE IF Opens(e, w)
    THEN pass(w.typ, w.m, [e EXCEPT !.hasDecrypted = TRUE,
                                    !.trial = IF w.typ = "handshake" THEN -1 ELSE @])
    ELSE [r |-> IF e.trial >= WireLen(w) THEN "drop" ELSE "bad", typ |-> "", m |-> Opaque,
          e |-> IF e.trial >= WireLen(w) THEN [e EXCEPT !.trial = @ - WireLen(w)] ELSE e]

ProcessAlert(e, a) ==
    IF a.desc = "CloseNotify" THEN [e EXCEPT !.closeNotify = TRUE]
    ELSE IF a.level = "fatal" THEN Fail(e, "AlertReceived")
    ELSE IF IsTls13(e) /\ a.desc # "UserCanceled" THEN Fatal(e, "DecodeError")
    ELSE e

\* Message::try_from: the typed payload, or an error of the codec
Parses(m) == m.ok
=============================================================================
