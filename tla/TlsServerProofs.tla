---------------------------- MODULE TlsServerProofs ----------------------------
(***************************************************************************)
(* Lemmas for the proofs about TlsConnection: what each handler of a server *)
(* does to the fields that matter.                                          *)
(***************************************************************************)
EXTENDS TlsProofs

(***************************************************************************)
(* A server's turn: the fields of the endpoint and of its handshake that   *)
(* may have changed.                                                       *)
(***************************************************************************)
ServerTurn(e, f, X, Y) ==
    ServerShaped(f) /\ Same(e, f, X) /\ SameBut(ServerHsFields, e.hs, f.hs, Y)

\* Turns add up.
LEMMA ServerTurns ==
    ASSUME NEW e, NEW f, NEW g, NEW X1, NEW Y1, NEW X2, NEW Y2, NEW X, NEW Y,
           ServerTurn(e, f, X1, Y1), ServerTurn(f, g, X2, Y2),
           X1 \cup X2 \subseteq X, Y1 \cup Y2 \subseteq Y
    PROVE  ServerTurn(e, g, X, Y)
<1>1. Same(e, g, X) BY DEF ServerTurn, Same, SameBut
<1>2. SameBut(ServerHsFields, e.hs, g.hs, Y) BY DEF ServerTurn, SameBut
<1>. QED BY <1>1, <1>2 DEF ServerTurn

\* A turn that changes nothing.
LEMMA ServerRests ==
    ASSUME NEW e, ServerShaped(e), NEW X, NEW Y
    PROVE  ServerTurn(e, e, X, Y)
  BY DEF ServerTurn, ServerShaped, Shaped, IsRecord, Same, SameBut

\* A turn that leaves the handshake, the store and the side alone.
LEMMA ServerQuiet ==
    ASSUME NEW e, ServerShaped(e), NEW f, NEW X, Shaped(f), Same(e, f, X),
           "hs" \notin X, "store" \notin X, "side" \notin X
    PROVE  ServerTurn(e, f, X, {})
<1>1. f.hs = e.hs /\ f.store = e.store /\ f.side = e.side
  BY DEF Same, SameBut, EndpointFields
<1>2. SameBut(ServerHsFields, e.hs, f.hs, {}) BY <1>1 DEF SameBut, ServerShaped, IsRecord
<1>. QED BY <1>1, <1>2 DEF ServerTurn, ServerShaped

\* A turn that leaves the buffers and the store alone.
LEMMA ServerNotes ==
    ASSUME NEW e, ServerShaped(e), NEW f, NEW X, NEW Y, Same(e, f, X),
           X \cap {"out", "plain", "queued", "side", "store"} = {},
           SameBut(ServerHsFields, e.hs, f.hs, Y)
    PROVE  ServerTurn(e, f, X, Y)
<1>1. f.store = e.store /\ f.side = e.side BY DEF Same, SameBut, EndpointFields
<1>2. "out" \notin X /\ "plain" \notin X /\ "queued" \notin X OBVIOUS
<1>3. Shaped(f) BY <1>2, SameShaped DEF ServerShaped
<1>4. IsRecord(f.hs, ServerHsFields) BY DEF SameBut, IsRecord
<1>. QED BY <1>1, <1>3, <1>4 DEF ServerTurn, ServerShaped

\* A server's turn changes the state it is in.
LEMMA ServerMoves ==
    ASSUME NEW e, ServerShaped(e), NEW st, NEW f, f = [e EXCEPT !.st = st]
    PROVE  ServerTurn(e, f, {"st"}, {}) /\ f.st = st /\ f.out = e.out /\ f.hs = e.hs
<1>1. Same(e, f, {"st"}) /\ f.st = st /\ f.out = e.out /\ f.hs = e.hs
  BY DEF ServerShaped, Shaped, IsRecord, Same, SameBut, EndpointFields
<1>2. Shaped(f) BY <1>1, SameShaped DEF ServerShaped
<1>3. "hs" \notin {"st"} /\ "store" \notin {"st"} /\ "side" \notin {"st"} OBVIOUS
<1>. QED BY <1>1, <1>2, <1>3, ServerQuiet

\* A message of the server's handshake in the clear, or under the key in use.
LEMMA ServerSays ==
    ASSUME NEW e, ServerShaped(e), NEW m
    PROVE  LET f == Emit(e, m, FALSE) IN
           /\ ServerTurn(e, f, {"out", "tr"}, {}) /\ f.tr = Append(e.tr, m.t)
           /\ Recs(f) = Recs(e) \cup {Plaintext("handshake", m)}
<1>. DEFINE f == Emit(e, m, FALSE)
<1>1. /\ Shaped(f) /\ Same(e, f, {"out", "tr"}) /\ f.tr = Append(e.tr, m.t)
      /\ Recs(f) = Recs(e) \cup {Plaintext("handshake", m)}
  BY EmitPlainFrame DEF ServerShaped
<1>. HIDE DEF f
<1>2. ServerTurn(e, f, {"out", "tr"}, {}) BY <1>1, ServerQuiet
<1>. QED BY <1>1, <1>2 DEF f

\* The same under the key in use.
LEMMA ServerSeals ==
    ASSUME NEW e, ServerShaped(e), NEW m
    PROVE  LET f == Emit(e, m, TRUE) IN
           /\ ServerTurn(e, f, {"out", "tr"}, {}) /\ f.tr = Append(e.tr, m.t)
           /\ Recs(f) = Recs(e) \cup {Sealed(e, "handshake", m)}
<1>. DEFINE f == Emit(e, m, TRUE)
<1>1. /\ Shaped(f) /\ Same(e, f, {"out", "tr"}) /\ f.tr = Append(e.tr, m.t)
      /\ Recs(f) = Recs(e) \cup {Sealed(e, "handshake", m)}
  BY EmitSealedFrame DEF ServerShaped
<1>. HIDE DEF f
<1>2. ServerTurn(e, f, {"out", "tr"}, {}) BY <1>1, ServerQuiet
<1>. QED BY <1>1, <1>2 DEF f

\* A change of cipher in the clear.
LEMMA ServerChanges ==
    ASSUME NEW e, ServerShaped(e)
    PROVE  LET f == EmitCcs(e) IN
           /\ ServerTurn(e, f, {"out"}, {}) /\ Recs(f) = Recs(e) \cup {Plaintext("ccs", Ccs)}
           /\ f.tr = e.tr
<1>. DEFINE f == EmitCcs(e)
<1>1. Shaped(f) /\ Same(e, f, {"out"}) /\ Recs(f) = Recs(e) \cup {Plaintext("ccs", Ccs)}
  BY PlainFrame DEF ServerShaped, EmitCcs
<1>. HIDE DEF f
<1>2. ServerTurn(e, f, {"out"}, {}) BY <1>1, ServerQuiet
<1>3. f.tr = e.tr BY <1>1 DEF Same, SameBut, EndpointFields
<1>. QED BY <1>1, <1>2, <1>3 DEF f

\* A server hashes a message.
LEMMA ServerHashes ==
    ASSUME NEW e, ServerShaped(e), NEW m
    PROVE  LET f == Hash(e, m) IN
           ServerTurn(e, f, {"tr"}, {}) /\ f.tr = Append(e.tr, m.t) /\ f.out = e.out
<1>. DEFINE f == Hash(e, m)
<1>1. Shaped(f) /\ Same(e, f, {"tr"}) /\ f.tr = Append(e.tr, m.t)
  BY HashFrame DEF ServerShaped
<1>. HIDE DEF f
<1>2. ServerTurn(e, f, {"tr"}, {}) BY <1>1, ServerQuiet
<1>3. f.out = e.out BY <1>1 DEF Same, SameBut, EndpointFields
<1>. QED BY <1>1, <1>2, <1>3 DEF f

\* A server sets a key of the sending direction.
LEMMA ServerEncrypts ==
    ASSUME NEW e, ServerShaped(e), NEW key
    PROVE  LET f == SetEncrypter(e, key) IN
           /\ ServerTurn(e, f, {"enc", "encOn"}, {}) /\ f.out = e.out
           /\ f.enc = <<key>> /\ f.encOn = TRUE
<1>. DEFINE f == SetEncrypter(e, key)
<1>1. Shaped(f) /\ Same(e, f, {"enc", "encOn"}) /\ f.enc = <<key>> /\ f.encOn = TRUE
  BY EncrypterFrame DEF ServerShaped
<1>. HIDE DEF f
<1>2. ServerTurn(e, f, {"enc", "encOn"}, {}) BY <1>1, ServerQuiet
<1>3. f.out = e.out BY <1>1 DEF Same, SameBut, EndpointFields
<1>. QED BY <1>1, <1>2, <1>3 DEF f

\* A server sets a key of the receiving direction.
LEMMA ServerDecrypts ==
    ASSUME NEW e, ServerShaped(e), NEW key, NEW len
    PROVE  LET X == {"dec", "decOn", "trial"} IN
           /\ ServerTurn(e, SetDecrypter(e, key), X, {}) /\ SetDecrypter(e, key).out = e.out
           /\ ServerTurn(e, SetTrialDecrypter(e, key, len), X, {})
           /\ SetTrialDecrypter(e, key, len).out = e.out
           /\ ServerTurn(e, StartDecrypting(e), X, {}) /\ StartDecrypting(e).out = e.out
<1>. DEFINE X == {"dec", "decOn", "trial"}
<1>1. ASSUME NEW f, Shaped(f), Same(e, f, X)
      PROVE  ServerTurn(e, f, X, {}) /\ f.out = e.out
  <2>1. ServerTurn(e, f, X, {}) BY <1>1, ServerQuiet
  <2>2. f.out = e.out BY <1>1 DEF Same, SameBut, EndpointFields
  <2>. QED BY <2>1, <2>2
<1>2. /\ Shaped(SetDecrypter(e, key)) /\ Same(e, SetDecrypter(e, key), X)
      /\ Shaped(SetTrialDecrypter(e, key, len)) /\ Same(e, SetTrialDecrypter(e, key, len), X)
      /\ Shaped(StartDecrypting(e)) /\ Same(e, StartDecrypting(e), X)
  BY DecrypterFrame DEF ServerShaped
<1>3. ServerTurn(e, SetDecrypter(e, key), X, {}) /\ SetDecrypter(e, key).out = e.out
  BY <1>1, <1>2
<1>4. ServerTurn(e, SetTrialDecrypter(e, key, len), X, {}) /\ SetTrialDecrypter(e, key, len).out = e.out
  BY <1>1, <1>2
<1>5. ServerTurn(e, StartDecrypting(e), X, {}) /\ StartDecrypting(e).out = e.out
  BY <1>1, <1>2
<1>. QED BY <1>3, <1>4, <1>5

\* A server that fails with an alert.
LEMMA ServerFatal ==
    ASSUME NEW e, ServerShaped(e), NEW desc, desc # "none"
    PROVE  LET f == Fatal(e, desc) IN
           /\ ServerTurn(e, f, {"out", "sentFatal", "err"}, {}) /\ Failed(f)
           /\ Adds(e, f, {"Alert"})
<1>. DEFINE f == Fatal(e, desc)
<1>1. /\ Shaped(f) /\ Same(e, f, {"out", "sentFatal", "err"}) /\ Failed(f)
      /\ \E w : Recs(f) = Recs(e) \cup {w} /\ w.typ = "alert" /\ w.m.t = "Alert"
  BY FatalFrame DEF ServerShaped
<1>. HIDE DEF f
<1>2. ServerTurn(e, f, {"out", "sentFatal", "err"}, {}) BY <1>1, ServerQuiet
<1>3. Adds(e, f, {"Alert"}) BY <1>1 DEF Adds
<1>. QED BY <1>1, <1>2, <1>3 DEF f

\* A server starts its traffic, or only its sending half: everything buffered
\* goes out.
LEMMA ServerStarts ==
    ASSUME NEW e, ServerShaped(e), NEW f, f \in {StartTraffic(e), StartOutgoingTraffic(e)}
    PROVE  /\ ServerTurn(e, f, {"maySend", "mayRecv", "out", "plain"}, {})
           /\ f.maySend = TRUE
           /\ Recs(f) = Recs(e) \cup {AppRecord(e, x) : x \in Range(e.plain)}
<1>1. ASSUME f = StartTraffic(e)
      PROVE  /\ Shaped(f) /\ Same(e, f, {"maySend", "mayRecv", "out", "plain"})
             /\ f.maySend = TRUE
             /\ Recs(f) = Recs(e) \cup {AppRecord(e, x) : x \in Range(e.plain)}
  BY <1>1, TrafficFrame DEF ServerShaped
<1>2. ASSUME f = StartOutgoingTraffic(e)
      PROVE  /\ Shaped(f) /\ Same(e, f, {"maySend", "mayRecv", "out", "plain"})
             /\ f.maySend = TRUE
             /\ Recs(f) = Recs(e) \cup {AppRecord(e, x) : x \in Range(e.plain)}
  <2>1. /\ Shaped(f) /\ Same(e, f, {"maySend", "out", "plain"})
        /\ f.maySend = TRUE
        /\ Recs(f) = Recs(e) \cup {AppRecord(e, x) : x \in Range(e.plain)}
    BY <1>2, OutgoingFrame DEF ServerShaped
  <2>. QED BY <2>1 DEF Same, SameBut
<1>3. Shaped(f) /\ Same(e, f, {"maySend", "mayRecv", "out", "plain"})
  BY <1>1, <1>2
<1>4. ServerTurn(e, f, {"maySend", "mayRecv", "out", "plain"}, {}) BY <1>3, ServerQuiet
<1>. QED BY <1>1, <1>2, <1>4
-------------------------------------------------------------------------------
(***************************************************************************)
(* The server's session storage.                                           *)
(***************************************************************************)
\* A session of the cache or of a ticket of the hello.
SessionFrom(e, m, val) ==
    \/ \E x \in Range(e.store.cache) : val = x.val
    \/ m.psk # None /\ "key" \in DOMAIN m.psk[1].ticket /\ val = m.psk[1].ticket.val
    \/ m.ticket # None /\ "key" \in DOMAIN m.ticket[1] /\ val = m.ticket[1].val

\* A turn that touches the store only and adds nothing to the cache.
Sheds(e, f) ==
    /\ ServerTurn(e, f, {"store"}, {}) /\ f.out = e.out /\ f.hs = e.hs
    /\ Range(f.store.cache) \subseteq Range(e.store.cache)

\* The store is all that changes.
LEMMA StoreTurn ==
    ASSUME NEW e, ServerShaped(e), NEW f, Same(e, f, {"store"}),
           IsRecord(f.store, ServerStoreFields), IsSeq(f.store.cache)
    PROVE  ServerTurn(e, f, {"store"}, {}) /\ f.out = e.out /\ f.hs = e.hs
<1>1. f.out = e.out /\ f.hs = e.hs /\ f.side = e.side
  BY DEF Same, SameBut, EndpointFields
<1>2. "out" \notin {"store"} /\ "plain" \notin {"store"} /\ "queued" \notin {"store"} OBVIOUS
<1>3. Shaped(f) BY <1>2, SameShaped DEF ServerShaped
<1>4. SameBut(ServerHsFields, e.hs, f.hs, {}) BY <1>1 DEF SameBut, ServerShaped, IsRecord
<1>. QED BY <1>1, <1>3, <1>4 DEF ServerTurn, ServerShaped

\* maybe_roll
LEMMA RollStep ==
    ASSUME NEW e, ServerShaped(e)
    PROVE  Sheds(e, MaybeRoll(e)) /\ MaybeRoll(e).store.cache = e.store.cache
<1>. DEFINE f == MaybeRoll(e)
            key == e.store.key + 1
            g == [e EXCEPT !.store.key = key, !.store.prev = TRUE, !.store.due = FALSE]
<1>1. Sheds(e, e) BY ServerRests DEF Sheds
<1>2. Sheds(e, g) /\ g.store.cache = e.store.cache
  <2>. HIDE DEF key
  <2>1. /\ Same(e, g, {"store"}) /\ g.store.cache = e.store.cache
        /\ IsRecord(g.store, ServerStoreFields)
    BY DEF ServerShaped, Shaped, IsRecord, Same, SameBut, EndpointFields, ServerStoreFields
  <2>2. IsSeq(g.store.cache) BY <2>1 DEF ServerShaped
  <2>. HIDE DEF g
  <2>3. ServerTurn(e, g, {"store"}, {}) /\ g.out = e.out /\ g.hs = e.hs
    BY <2>1, <2>2, StoreTurn
  <2>. QED BY <2>1, <2>3 DEF Sheds
<1>3. f = g \/ f = e BY DEF MaybeRoll
<1>. QED BY <1>1, <1>2, <1>3

\* A sequence without one of its elements.
LEMMA RemoveElements ==
    ASSUME NEW q, IsSeq(q), NEW k \in 1..Len(q)
    PROVE  IsSeq(RemoveAt(q, k)) /\ Range(RemoveAt(q, k)) \subseteq Range(q)
<1>1. Len(q) \in Nat BY SeqElements DEF IsSeq
<1>2. 1 \in Int /\ k - 1 \in Int /\ k + 1 \in Int /\ Len(q) \in Int BY <1>1
<1>3. k - 1 <= Len(q) /\ 1 >= 1 /\ k + 1 >= 1 /\ Len(q) <= Len(q) BY <1>1
<1>. DEFINE a == SubSeq(q, 1, k - 1)
            b == SubSeq(q, k + 1, Len(q))
<1>4. IsSeq(a) /\ Range(a) \subseteq Range(q) BY <1>2, <1>3, SubSeqElements
<1>5. IsSeq(b) /\ Range(b) \subseteq Range(q) BY <1>2, <1>3, SubSeqElements
<1>6. RemoveAt(q, k) = a \o b BY DEF RemoveAt
<1>. HIDE DEF a, b
<1>7. IsSeq(a \o b) /\ Range(a \o b) = Range(a) \cup Range(b)
  BY <1>4, <1>5, ConcatElements
<1>. QED BY <1>4, <1>5, <1>6, <1>7

\* A session leaves the cache.
LEMMA TakeStep ==
    ASSUME NEW e, ServerShaped(e), NEW id
    PROVE  Sheds(e, Take(e, id))
<1>. DEFINE at == {i \in DOMAIN e.store.cache : e.store.cache[i].id = id}
            k == CHOOSE i \in at : TRUE
            q == RemoveAt(e.store.cache, k)
            g == [e EXCEPT !.store.cache = q]
<1>1. Sheds(e, e) BY ServerRests DEF Sheds
<1>2. CASE at = {} BY <1>1, <1>2 DEF Take
<1>3. CASE at # {}
  <2>1. k \in DOMAIN e.store.cache BY <1>3
  <2>2. Take(e, id) = g BY <1>3 DEF Take
  <2>3. IsSeq(q) /\ Range(q) \subseteq Range(e.store.cache)
    <3>1. IsSeq(e.store.cache) BY DEF ServerShaped
    <3>2. k \in 1..Len(e.store.cache) BY <2>1, <3>1, SeqElements DEF IsSeq
    <3>. HIDE DEF k
    <3>. QED BY <3>1, <3>2, RemoveElements
  <2>. HIDE DEF q, k
  <2>4. /\ Same(e, g, {"store"}) /\ g.store.cache = q /\ IsRecord(g.store, ServerStoreFields)
    BY DEF ServerShaped, Shaped, IsRecord, Same, SameBut, EndpointFields, ServerStoreFields
  <2>. HIDE DEF g
  <2>5. ServerTurn(e, g, {"store"}, {}) /\ g.out = e.out /\ g.hs = e.hs
    BY <2>3, <2>4, StoreTurn
  <2>. QED BY <2>2, <2>3, <2>4, <2>5 DEF Sheds
<1>. QED BY <1>2, <1>3

\* A session of the cache.
LEMMA GetFrom ==
    ASSUME NEW e, NEW id, Get(e, id) # None
    PROVE  \E x \in Range(e.store.cache) : Get(e, id) = Some(x.val)
<1>. DEFINE hits == {x \in Range(e.store.cache) : x.id = id}
<1>1. hits # {} /\ Get(e, id) = Some((CHOOSE x \in hits : TRUE).val) BY DEF Get
<1>. QED BY <1>1

\* A session of a ticket.
LEMMA DecryptFrom ==
    ASSUME NEW e, NEW ticket, Decrypt(e, ticket) # None
    PROVE  "key" \in DOMAIN ticket /\ Decrypt(e, ticket) = Some(ticket.val)
  BY DEF Decrypt

\* The session of an acceptable offer, and what becomes of the store.
LEMMA ResumableStep ==
    ASSUME NEW e, ServerShaped(e), NEW m
    PROVE  /\ Resumable(e, m) # None => SessionFrom(e, m, Resumable(e, m)[1])
           /\ Sheds(e, ConsumeTicket(e, m))
<1>. DEFINE ticket == m.psk[1].ticket
            val == TicketData(e, ticket)
<1>1. CASE m.psk = None
  <2>1. Resumable(e, m) = None BY <1>1 DEF Resumable, None
  <2>2. ConsumeTicket(e, m) = e BY <1>1 DEF ConsumeTicket
  <2>3. Sheds(e, e) BY ServerRests DEF Sheds
  <2>. QED BY <2>1, <2>2, <2>3
<1>2. CASE m.psk # None
  <2>1. Resumable(e, m) # None => Resumable(e, m) = val /\ val # None
    <3>. DEFINE v == IF m.psk = None THEN None ELSE val
    <3>1. v = val BY <1>2
    <3>2. Resumable(e, m) = IF v # None /\ CanResume(e.suite, FALSE, v[1]) THEN v ELSE None
      BY DEF Resumable
    <3>. HIDE DEF v, val
    <3>. QED BY <3>1, <3>2
  <2>2. ConsumeTicket(e, m) = IF e.cfg.ticketer THEN MaybeRoll(e) ELSE Take(e, ticket)
    BY <1>2, Zenon DEF ConsumeTicket
  <2>3. Sheds(e, ConsumeTicket(e, m)) BY <2>2, RollStep, TakeStep
  <2>4. ASSUME val # None PROVE SessionFrom(e, m, val[1])
    <3>1. CASE e.cfg.ticketer
      <4>1. val = Decrypt(MaybeRoll(e), ticket) BY <3>1, Zenon DEF TicketData
      <4>2. "key" \in DOMAIN ticket /\ val = Some(ticket.val) BY <2>4, <4>1, DecryptFrom
      <4>. QED BY <1>2, <4>2 DEF SessionFrom, Some
    <3>2. CASE ~e.cfg.ticketer
      <4>1. val = Get(e, ticket) BY <3>2 DEF TicketData
      <4>2. \E x \in Range(e.store.cache) : val = Some(x.val) BY <2>4, <4>1, GetFrom
      <4>. QED BY <4>2 DEF SessionFrom, Some
    <3>. QED BY <3>1, <3>2
  <2>. QED BY <2>1, <2>3, <2>4
<1>. QED BY <1>1, <1>2

\* The same in TLS 1.2.
LEMMA Session12From ==
    ASSUME NEW e, NEW m, Session12(e, m) # None
    PROVE  SessionFrom(e, m, Session12(e, m)[1])
<1>. DEFINE val == IF m.ticket # None THEN Decrypt(MaybeRoll(e), m.ticket[1])
                   ELSE IF m.sid = None THEN None ELSE Get(e, m.sid[1])
<1>1. val # None /\ Session12(e, m) = val BY DEF Session12, None
<1>2. CASE m.ticket # None
  <2>1. val = Decrypt(MaybeRoll(e), m.ticket[1]) BY <1>2
  <2>2. "key" \in DOMAIN m.ticket[1] /\ val = Some(m.ticket[1].val)
    BY <1>1, <2>1, DecryptFrom
  <2>. QED BY <1>1, <1>2, <2>2 DEF SessionFrom, Some
<1>3. CASE m.ticket = None
  <2>1. val = Get(e, m.sid[1]) BY <1>1, <1>3
  <2>2. \E x \in Range(e.store.cache) : val = Some(x.val) BY <1>1, <2>1, GetFrom
  <2>. QED BY <1>1, <2>2 DEF SessionFrom, Some
<1>. QED BY <1>2, <1>3
-------------------------------------------------------------------------------
(***************************************************************************)
(* The server's flight of TLS 1.3.                                         *)
(***************************************************************************)
\* emit_server_hello
LEMMA ServerHello13Emitted ==
    ASSUME NEW e, ServerShaped(e), NEW m, NEW share, NEW val
    PROVE  LET f == EmitServerHello13(e, m, share, val) IN
           /\ ServerTurn(e, f, {"out", "tr", "dec", "decOn", "trial", "hs", "enc", "encOn"},
                         {"sec", "psk"})
           /\ f.hs.sec = <<f.hs.sec[1]>> /\ IsRecord(f.hs.sec[1], SecretFields)
           /\ f.hs.sec[1].psk = f.hs.psk
           /\ \A w \in Recs(f) :
                 \/ w \in Recs(e)
                 \/ /\ w.typ # "app" /\ w.m.t = "ServerHello" /\ w.m.ver = 13
                    /\ w.m.suite = e.suite
<1>. DEFINE psk == IF val = None THEN None ELSE Some(val[1].secret)
            sh == ServerHelloMsg(13, e.suite, m, psk # None, Share(share.g, 1))
            a == Emit(e, sh, FALSE)
            kx == [n |-> e.n, g |-> share.g, c |-> share.i, s |-> 1]
            sec == Secret(e.suite, psk, kx, a.tr)
            b == IF psk = None THEN a ELSE SetDecrypter(a, EarlyKey(e.suite, psk, e.tr))
            d == [b EXCEPT !.hs.sec = <<sec>>, !.hs.psk = psk]
            f == SetEncrypter(d, HandshakeKey("server", sec))
            X == {"out", "tr", "dec", "decOn", "trial", "hs", "enc", "encOn"}
            Y == {"sec", "psk"}
<1>1. EmitServerHello13(e, m, share, val) = f BY DEF EmitServerHello13, Some
<1>2. sh.t = "ServerHello" /\ sh.ver = 13 /\ sh.suite = e.suite BY DEF ServerHelloMsg
<1>3. IsRecord(sec, SecretFields) /\ sec.psk = psk /\ <<sec>>[1] = sec
  BY DEF Secret, IsRecord, SecretFields
<1>. HIDE DEF psk, sh, sec
<1>4. /\ ServerTurn(e, a, {"out", "tr"}, {})
      /\ Recs(a) = Recs(e) \cup {Plaintext("handshake", sh)}
  BY ServerSays
<1>. HIDE DEF a
<1>5. ServerTurn(a, b, {"dec", "decOn", "trial"}, {}) /\ b.out = a.out
  <2>1. ServerShaped(a) BY <1>4 DEF ServerTurn
  <2>2. ServerTurn(a, a, {"dec", "decOn", "trial"}, {}) BY <2>1, ServerRests
  <2>3. \A key : ServerTurn(a, SetDecrypter(a, key), {"dec", "decOn", "trial"}, {})
                 /\ SetDecrypter(a, key).out = a.out
    BY <2>1, ServerDecrypts
  <2>. QED BY <2>2, <2>3
<1>. HIDE DEF b
<1>6. /\ ServerTurn(b, d, {"hs"}, {"sec", "psk"}) /\ d.out = b.out
      /\ d.hs.sec = <<sec>> /\ d.hs.psk = psk
  <2>1. ServerShaped(b) BY <1>5 DEF ServerTurn
  <2>2. /\ Same(b, d, {"hs"}) /\ SameBut(ServerHsFields, b.hs, d.hs, {"sec", "psk"})
        /\ d.out = b.out /\ d.hs.sec = <<sec>> /\ d.hs.psk = psk
    BY <2>1 DEF ServerShaped, Shaped, IsRecord, Same, SameBut, EndpointFields, ServerHsFields
  <2>. HIDE DEF d
  <2>3. {"hs"} \cap {"out", "plain", "queued", "side", "store"} = {} OBVIOUS
  <2>. QED BY <2>1, <2>2, <2>3, ServerNotes
<1>. HIDE DEF d
<1>7. ServerTurn(d, f, {"enc", "encOn"}, {}) /\ f.out = d.out
  BY <1>6, ServerEncrypts DEF ServerTurn
<1>. HIDE DEF f
<1>8. ServerTurn(e, f, X, Y)
  <2>1. {"out", "tr"} \cup {"dec", "decOn", "trial"} \subseteq X /\ {} \cup {} \subseteq Y OBVIOUS
  <2>2. ServerTurn(e, b, X, Y) BY <1>4, <1>5, <2>1, ServerTurns
  <2>3. X \cup {"hs"} \subseteq X /\ Y \cup {"sec", "psk"} \subseteq Y OBVIOUS
  <2>4. ServerTurn(e, d, X, Y) BY <1>6, <2>2, <2>3, ServerTurns
  <2>5. X \cup {"enc", "encOn"} \subseteq X /\ Y \cup {} \subseteq Y OBVIOUS
  <2>. QED BY <1>7, <2>4, <2>5, ServerTurns
<1>9. f.hs = d.hs BY <1>7 DEF ServerTurn, Same, SameBut, EndpointFields
<1>10. Recs(f) = Recs(e) \cup {Plaintext("handshake", sh)}
  BY <1>4, <1>5, <1>6, <1>7 DEF Recs
<1>11. /\ f.hs.sec = <<f.hs.sec[1]>> /\ IsRecord(f.hs.sec[1], SecretFields)
       /\ f.hs.sec[1].psk = f.hs.psk
  BY <1>3, <1>6, <1>9
<1>12. \A w \in Recs(f) :
          \/ w \in Recs(e)
          \/ w.typ # "app" /\ w.m.t = "ServerHello" /\ w.m.ver = 13 /\ w.m.suite = e.suite
  BY <1>2, <1>10 DEF Plaintext
<1>. QED BY <1>1, <1>8, <1>11, <1>12

\* Records of a server's certificate and of its proof.
Credentials(e, w) ==
    /\ w.typ # "app"
    /\ \/ w.m.t \in {"CertificateRequest", "CertificateVerify"}
       \/ w.m.t = "Certificate" /\ w.m.cert = e.cfg.cert

\* emit_certificate_req_tls13, emit_certificate_tls13, emit_certificate_verify_tls13
LEMMA ServerAuth13Step ==
    ASSUME NEW e, ServerShaped(e)
    PROVE  LET f == EmitServerAuth13(e) IN
           /\ ServerTurn(e, f, {"out", "tr"}, {})
           /\ \A w \in Recs(f) : w \in Recs(e) \/ Credentials(e, w)
<1>. DEFINE a == IF e.cfg.clientAuth = "none" THEN e ELSE Emit(e, CertRequest, TRUE)
            cm == CertificateMsg(e.cfg.cert)
            b == Emit(a, cm, TRUE)
            vm == CertVerifyMsg(e.cfg.cert, b.tr)
            f == Emit(b, vm, TRUE)
            X == {"out", "tr"}
<1>1. EmitServerAuth13(e) = f BY DEF EmitServerAuth13
<1>2. /\ CertRequest.t = "CertificateRequest" /\ cm.t = "Certificate" /\ cm.cert = e.cfg.cert
      /\ vm.t = "CertificateVerify"
  BY DEF CertRequest, CertificateMsg, CertVerifyMsg
<1>. HIDE DEF cm, vm
<1>3. ServerTurn(e, a, X, {}) /\ \A w \in Recs(a) : w \in Recs(e) \/ Credentials(e, w)
  <2>1. ServerTurn(e, e, X, {}) BY ServerRests
  <2>. DEFINE x == Emit(e, CertRequest, TRUE)
  <2>2. ServerTurn(e, x, X, {}) /\ Recs(x) = Recs(e) \cup {Sealed(e, "handshake", CertRequest)}
    BY ServerSeals
  <2>3. Credentials(e, Sealed(e, "handshake", CertRequest)) BY <1>2 DEF Credentials, Sealed
  <2>. QED BY <2>1, <2>2, <2>3
<1>. HIDE DEF a
<1>4. ServerTurn(a, b, X, {}) /\ Recs(b) = Recs(a) \cup {Sealed(a, "handshake", cm)}
  BY <1>3, ServerSeals DEF ServerTurn
<1>. HIDE DEF b
<1>5. ServerTurn(b, f, X, {}) /\ Recs(f) = Recs(b) \cup {Sealed(b, "handshake", vm)}
  BY <1>4, ServerSeals DEF ServerTurn
<1>. HIDE DEF f
<1>6. X \cup X \subseteq X /\ {} \cup {} \subseteq {} OBVIOUS
<1>7. ServerTurn(e, b, X, {}) BY <1>3, <1>4, <1>6, ServerTurns
<1>8. ServerTurn(e, f, X, {}) BY <1>5, <1>6, <1>7, ServerTurns
<1>9. Credentials(e, Sealed(a, "handshake", cm)) /\ Credentials(e, Sealed(b, "handshake", vm))
  BY <1>2 DEF Credentials, Sealed
<1>. QED BY <1>1, <1>3, <1>4, <1>5, <1>8, <1>9

\* The fate of early data settles the key of the receiving direction.
LEMMA SettleStep ==
    ASSUME NEW e, ServerShaped(e), NEW m, NEW accepted
    PROVE  LET f == SettleEarlyData(e, m, accepted) IN
           /\ ServerTurn(e, f, {"dec", "decOn", "trial", "hs"}, {"ed"}) /\ f.out = e.out
<1>. DEFINE key == HandshakeKey("client", e.hs.sec[1])
            len == MaxEarlyDataSize(e.cfg)
            a == IF m.early THEN SetTrialDecrypter(e, key, len) ELSE SetDecrypter(e, key)
            b == IF accepted THEN e ELSE a
            ed == IF accepted THEN "Accepted" ELSE "Rejected"
            f == [b EXCEPT !.hs.ed = ed]
            X == {"dec", "decOn", "trial", "hs"}
<1>1. SettleEarlyData(e, m, accepted) = f BY DEF SettleEarlyData, SetHandshakeDecrypter
<1>. HIDE DEF key, len, ed
<1>2. ServerTurn(e, b, {"dec", "decOn", "trial"}, {}) /\ b.out = e.out
  <2>1. ServerTurn(e, e, {"dec", "decOn", "trial"}, {}) BY ServerRests
  <2>. QED BY <2>1, ServerDecrypts
<1>. HIDE DEF b
<1>3. ServerTurn(b, f, {"hs"}, {"ed"}) /\ f.out = b.out
  <2>1. ServerShaped(b) BY <1>2 DEF ServerTurn
  <2>2. Same(b, f, {"hs"}) /\ SameBut(ServerHsFields, b.hs, f.hs, {"ed"}) /\ f.out = b.out
    BY <2>1 DEF ServerShaped, Shaped, IsRecord, Same, SameBut, EndpointFields, ServerHsFields
  <2>. HIDE DEF f
  <2>3. {"hs"} \cap {"out", "plain", "queued", "side", "store"} = {} OBVIOUS
  <2>. QED BY <2>1, <2>2, <2>3, ServerNotes
<1>. HIDE DEF f
<1>4. {"dec", "decOn", "trial"} \cup {"hs"} \subseteq X /\ {} \cup {"ed"} \subseteq {"ed"} OBVIOUS
<1>5. ServerTurn(e, f, X, {"ed"}) BY <1>2, <1>3, <1>4, ServerTurns
<1>. QED BY <1>1, <1>2, <1>3, <1>5

\* A Finished of a TLS 1.3 server, with the secret it belongs to.
Finale13(w, f) ==
    /\ w.typ # "app" /\ w.m.t = "Finished" /\ w.m.verify.k = "finished"
    /\ f.hs.fin = <<[w.m.verify.sec EXCEPT !.hash = Append(w.m.verify.hash, "Finished")]>>

\* emit_finished_tls13
LEMMA ServerFinale13Step ==
    ASSUME NEW e, ServerShaped(e), IsRecord(e.hs.sec[1], SecretFields),
           e.hs.sec[1].psk = e.hs.psk
    PROVE  LET f == EmitServerFinished13(e) IN
           /\ ServerTurn(e, f, {"out", "tr", "hs", "enc", "encOn"}, {"fin"})
           /\ Keyed(f, {"traffic"})
           /\ f.hs.fin = <<f.hs.fin[1]>> /\ f.hs.fin[1].psk = f.hs.psk
           /\ \A w \in Recs(f) : w \in Recs(e) \/ Finale13(w, f)
<1>. DEFINE fm == FinishedMsg(FinishOf("server", e.hs.sec[1], e.tr))
            a == Emit(e, fm, TRUE)
            sec == [e.hs.sec[1] EXCEPT !.hash = a.tr]
            b == [a EXCEPT !.hs.fin = <<sec>>]
            key == TrafficKey("server", sec, 0)
            f == SetEncrypter(b, key)
<1>1. EmitServerFinished13(e) = f BY DEF EmitServerFinished13, Some
<1>2. /\ fm.t = "Finished" /\ fm.verify.k = "finished" /\ fm.verify.sec = e.hs.sec[1]
      /\ fm.verify.hash = e.tr
  BY DEF FinishedMsg, FinishOf
<1>3. key.k = "traffic" /\ <<key>>[1] = key /\ <<key>> # << >> BY DEF TrafficKey
<1>. HIDE DEF fm
<1>4. /\ ServerTurn(e, a, {"out", "tr"}, {}) /\ a.tr = Append(e.tr, "Finished")
      /\ Recs(a) = Recs(e) \cup {Sealed(e, "handshake", fm)}
  BY <1>2, ServerSeals
<1>. HIDE DEF a
<1>5. sec.psk = e.hs.psk /\ <<sec>>[1] = sec BY DEF IsRecord, SecretFields
<1>6. sec = [fm.verify.sec EXCEPT !.hash = Append(fm.verify.hash, "Finished")]
  BY <1>2, <1>4
<1>. HIDE DEF sec, key
<1>7. ServerTurn(a, b, {"hs"}, {"fin"}) /\ b.out = a.out /\ b.hs.fin = <<sec>>
  <2>1. ServerShaped(a) BY <1>4 DEF ServerTurn
  <2>2. /\ Same(a, b, {"hs"}) /\ SameBut(ServerHsFields, a.hs, b.hs, {"fin"})
        /\ b.out = a.out /\ b.hs.fin = <<sec>>
    BY <2>1 DEF ServerShaped, Shaped, IsRecord, Same, SameBut, EndpointFields, ServerHsFields
  <2>. HIDE DEF b
  <2>3. {"hs"} \cap {"out", "plain", "queued", "side", "store"} = {} OBVIOUS
  <2>. QED BY <2>1, <2>2, <2>3, ServerNotes
<1>. HIDE DEF b
<1>8. /\ ServerTurn(b, f, {"enc", "encOn"}, {}) /\ f.out = b.out
      /\ f.enc = <<key>> /\ f.encOn = TRUE
  BY <1>7, ServerEncrypts DEF ServerTurn
<1>. HIDE DEF f
<1>9. ServerTurn(e, f, {"out", "tr", "hs", "enc", "encOn"}, {"fin"})
  <2>1. {"out", "tr"} \cup {"hs"} \subseteq {"out", "tr", "hs"} OBVIOUS
  <2>2. {} \cup {"fin"} \subseteq {"fin"} /\ {"fin"} \cup {} \subseteq {"fin"} OBVIOUS
  <2>3. ServerTurn(e, b, {"out", "tr", "hs"}, {"fin"}) BY <1>4, <1>7, <2>1, <2>2, ServerTurns
  <2>4. {"out", "tr", "hs"} \cup {"enc", "encOn"} \subseteq {"out", "tr", "hs", "enc", "encOn"}
    OBVIOUS
  <2>. QED BY <1>8, <2>2, <2>3, <2>4, ServerTurns
<1>10. f.hs = b.hs /\ f.hs.psk = e.hs.psk
  <2>1. f.hs = b.hs BY <1>8 DEF ServerTurn, Same, SameBut, EndpointFields
  <2>2. f.hs.psk = e.hs.psk BY <1>9 DEF ServerTurn, SameBut, ServerHsFields
  <2>. QED BY <2>1, <2>2
<1>11. Recs(f) = Recs(e) \cup {Sealed(e, "handshake", fm)} BY <1>4, <1>7, <1>8 DEF Recs
<1>12. Finale13(Sealed(e, "handshake", fm), f) BY <1>2, <1>6, <1>7, <1>10 DEF Finale13, Sealed
<1>13. Keyed(f, {"traffic"}) BY <1>3, <1>8 DEF Keyed, None
<1>14. f.hs.fin = <<f.hs.fin[1]>> /\ f.hs.fin[1].psk = f.hs.psk BY <1>5, <1>7, <1>10
<1>. QED BY <1>1, <1>9, <1>11, <1>12, <1>13, <1>14

\* The opening of a flight: the hello and a change of cipher.
Opening13(e, w) ==
    /\ w.typ # "app"
    /\ \/ w.m.t = "ChangeCipherSpec"
       \/ w.m.t = "ServerHello" /\ w.m.ver = 13 /\ w.m.suite = e.suite

\* A record of a flight that answers m.
Flight13(e, f, m, w) ==
    \/ Opening13(e, w)
    \/ Credentials(e, w)
    \/ Finale13(w, f)
    \/ /\ w.typ # "app" /\ w.m.t = "EncryptedExtensions" /\ w.m.alpn = f.alpn
       /\ w.m.early => m.early
    \/ /\ w.typ = "app" /\ w.m.t = "ApplicationData"
       /\ w.key # None /\ w.key[1].k = "traffic"

\* A server that has sent its flight.
ServerFlies13(e, f, m, val) ==
    /\ ServerTurn(e, f, {"tr", "cert", "out", "dec", "decOn", "trial", "hs", "enc", "encOn",
                         "alpn", "maySend", "mayRecv", "plain", "st"},
                  {"sec", "psk", "ed", "fin"})
    /\ f.st \in {"ExpectClientCertificate", "ExpectEarlyData", "ExpectClientFinished"}
    /\ val = None => f.st = "ExpectClientCertificate" \/ e.cfg.clientAuth = "none"
    /\ val # None => f.cert = val[1].cert
    /\ f.hs.fin = <<f.hs.fin[1]>> /\ f.hs.fin[1].psk = f.hs.psk
    /\ Keyed(f, {"traffic"})
    /\ \A w \in Recs(f) : w \in Recs(e) \/ Flight13(e, f, m, w)

\* The flight after an acceptable ClientHello, unless there is no protocol in
\* common.
LEMMA Flight13Step ==
    ASSUME NEW e0, ServerShaped(e0), NEW m, NEW share, NEW val
    PROVE  LET f == ServerFlight13(e0, m, share, val) IN
           \/ ServerFlies13(e0, f, m, val)
           \/ \E x : /\ ServerTurn(e0, x, {"tr", "cert", "out", "dec", "decOn", "trial", "hs",
                                           "enc", "encOn", "alpn"}, {"sec", "psk"})
                     /\ f = Fatal(x, "NoApplicationProtocol")
                     /\ \A w \in Recs(x) : w \in Recs(e0) \/ Opening13(e0, w)
<1>. DEFINE cert == val[1].cert
            e == IF val = None THEN e0 ELSE [e0 EXCEPT !.cert = cert]
            b == Hash(e, m)
            hello == EmitServerHello13(b, m, share, val)
            d == IF e.hs.retry THEN hello ELSE EmitCcs(hello)
            alpn == ChooseAlpn(e, m)
            f == [d EXCEPT !.alpn = alpn]
            early == EarlyAllowed(f, m, val)
            em == EncryptedExtensionsMsg(f.alpn, early)
            g == Emit(f, em, TRUE)
            auth == val = None /\ e.cfg.clientAuth # "none"
            g2 == IF val = None THEN EmitServerAuth13(g) ELSE g
            g3 == SettleEarlyData(g2, m, early)
            h == EmitServerFinished13(g3)
            h2 == IF ~auth /\ e.cfg.halfRtt THEN StartOutgoingTraffic(h) ELSE h
            st == IF auth THEN "ExpectClientCertificate"
                  ELSE IF early THEN "ExpectEarlyData" ELSE "ExpectClientFinished"
            ok == [h2 EXCEPT !.st = st]
            X == {"tr", "cert", "out", "dec", "decOn", "trial", "hs", "enc", "encOn", "alpn",
                  "maySend", "mayRecv", "plain", "st"}
            Y == {"sec", "psk", "ed", "fin"}
            Z == {"tr", "cert", "out", "dec", "decOn", "trial", "hs", "enc", "encOn", "alpn"}
<1>1. ServerFlight13(e0, m, share, val)
        = IF NoAlpn(f, m) THEN Fatal(f, "NoApplicationProtocol") ELSE ok
  BY DEF ServerFlight13, EmitEncryptedExtensions
<1>2. early => m.early BY DEF EarlyAllowed
<1>3. /\ em.t = "EncryptedExtensions" /\ em.alpn = f.alpn
      /\ em.early => m.early
  <2>1. em.early = early BY DEF EncryptedExtensionsMsg
  <2>. QED BY <1>2, <2>1 DEF EncryptedExtensionsMsg
<1>4. /\ st \in {"ExpectClientCertificate", "ExpectEarlyData", "ExpectClientFinished"}
      /\ val = None => st = "ExpectClientCertificate" \/ e.cfg.clientAuth = "none"
  OBVIOUS
<1>. HIDE DEF early, em, st, alpn
<1>5. /\ ServerTurn(e0, e, {"cert"}, {}) /\ e.out = e0.out /\ e.cfg = e0.cfg
      /\ e.suite = e0.suite /\ (val # None => e.cert = cert)
  <2>1. ServerTurn(e0, e0, {"cert"}, {}) BY ServerRests
  <2>. DEFINE y == [e0 EXCEPT !.cert = cert]
  <2>2. Same(e0, y, {"cert"}) /\ y.out = e0.out /\ y.cfg = e0.cfg /\ y.suite = e0.suite /\ y.cert = cert
    BY DEF ServerShaped, Shaped, IsRecord, Same, SameBut, EndpointFields
  <2>. HIDE DEF y, cert
  <2>3. "out" \notin {"cert"} /\ "plain" \notin {"cert"} /\ "queued" \notin {"cert"}
        /\ "hs" \notin {"cert"} /\ "store" \notin {"cert"} /\ "side" \notin {"cert"} OBVIOUS
  <2>4. Shaped(y) BY <2>2, <2>3, SameShaped DEF ServerShaped
  <2>5. ServerTurn(e0, y, {"cert"}, {}) BY <2>2, <2>3, <2>4, ServerQuiet
  <2>6. e = IF val = None THEN e0 ELSE y BY DEF y
  <2>. QED BY <2>1, <2>2, <2>5, <2>6
<1>. HIDE DEF e, cert
<1>6. ServerTurn(e, b, {"tr"}, {}) /\ b.out = e.out BY <1>5, ServerHashes DEF ServerTurn
<1>. HIDE DEF b
<1>7. /\ ServerTurn(b, hello, {"out", "tr", "dec", "decOn", "trial", "hs", "enc", "encOn"},
                    {"sec", "psk"})
      /\ hello.hs.sec = <<hello.hs.sec[1]>> /\ IsRecord(hello.hs.sec[1], SecretFields)
      /\ hello.hs.sec[1].psk = hello.hs.psk
      /\ \A w \in Recs(hello) :
            \/ w \in Recs(b)
            \/ w.typ # "app" /\ w.m.t = "ServerHello" /\ w.m.ver = 13 /\ w.m.suite = b.suite
  BY <1>6, ServerHello13Emitted DEF ServerTurn
<1>. HIDE DEF hello
<1>8. /\ ServerTurn(e0, hello, Z, {"sec", "psk"}) /\ b.suite = e0.suite /\ Recs(b) = Recs(e0)
  <2>1. {"cert"} \cup {"tr"} \subseteq Z /\ {} \cup {} \subseteq {"sec", "psk"} OBVIOUS
  <2>2. ServerTurn(e0, b, Z, {"sec", "psk"}) BY <1>5, <1>6, <2>1, ServerTurns
  <2>3. /\ Z \cup {"out", "tr", "dec", "decOn", "trial", "hs", "enc", "encOn"} \subseteq Z
        /\ {"sec", "psk"} \cup {"sec", "psk"} \subseteq {"sec", "psk"} OBVIOUS
  <2>4. b.suite = e0.suite BY <2>2 DEF ServerTurn, Same, SameBut, EndpointFields
  <2>5. Recs(b) = Recs(e0) BY <1>5, <1>6 DEF Recs
  <2>. QED BY <1>7, <2>2, <2>3, <2>4, <2>5, ServerTurns
<1>9. /\ ServerTurn(hello, d, {"out"}, {})
      /\ \A w \in Recs(d) : w \in Recs(hello) \/ w = Plaintext("ccs", Ccs)
  <2>1. ServerShaped(hello) BY <1>7 DEF ServerTurn
  <2>2. ServerTurn(hello, hello, {"out"}, {}) BY <2>1, ServerRests
  <2>3. /\ ServerTurn(hello, EmitCcs(hello), {"out"}, {})
        /\ Recs(EmitCcs(hello)) = Recs(hello) \cup {Plaintext("ccs", Ccs)}
    BY <2>1, ServerChanges
  <2>. QED BY <2>2, <2>3
<1>. HIDE DEF d
<1>10. ServerTurn(d, f, {"alpn"}, {}) /\ f.out = d.out
  <2>1. ServerShaped(d) BY <1>9 DEF ServerTurn
  <2>2. Same(d, f, {"alpn"}) /\ f.out = d.out
    BY <2>1 DEF ServerShaped, Shaped, IsRecord, Same, SameBut, EndpointFields
  <2>. HIDE DEF f
  <2>3. "out" \notin {"alpn"} /\ "plain" \notin {"alpn"} /\ "queued" \notin {"alpn"}
        /\ "hs" \notin {"alpn"} /\ "store" \notin {"alpn"} /\ "side" \notin {"alpn"} OBVIOUS
  <2>4. Shaped(f) BY <2>1, <2>2, <2>3, SameShaped DEF ServerShaped
  <2>. QED BY <2>1, <2>2, <2>3, <2>4, ServerQuiet
<1>. HIDE DEF f
<1>11. /\ ServerTurn(e0, f, Z, {"sec", "psk"})
       /\ f.hs = hello.hs /\ f.cfg = e0.cfg /\ f.cert = e.cert
       /\ \A w \in Recs(f) : w \in Recs(e0) \/ Opening13(e0, w)
  <2>1. Z \cup {"out"} \subseteq Z /\ {"sec", "psk"} \cup {} \subseteq {"sec", "psk"}
        /\ Z \cup {"alpn"} \subseteq Z OBVIOUS
  <2>2. ServerTurn(e0, d, Z, {"sec", "psk"}) BY <1>8, <1>9, <2>1, ServerTurns
  <2>3. ServerTurn(e0, f, Z, {"sec", "psk"}) BY <1>10, <2>1, <2>2, ServerTurns
  <2>4. f.hs = d.hs /\ d.hs = hello.hs
    BY <1>9, <1>10 DEF ServerTurn, Same, SameBut, EndpointFields
  <2>5. f.cfg = e0.cfg BY <2>3 DEF ServerTurn, Same, SameBut, EndpointFields
  <2>6. f.cert = d.cert /\ d.cert = hello.cert /\ hello.cert = b.cert /\ b.cert = e.cert
    <3>1. f.cert = d.cert BY <1>10 DEF ServerTurn, Same, SameBut, EndpointFields
    <3>2. d.cert = hello.cert BY <1>9 DEF ServerTurn, Same, SameBut, EndpointFields
    <3>3. hello.cert = b.cert BY <1>7 DEF ServerTurn, Same, SameBut, EndpointFields
    <3>4. b.cert = e.cert BY <1>6 DEF ServerTurn, Same, SameBut, EndpointFields
    <3>. QED BY <3>1, <3>2, <3>3, <3>4
  <2>7. Recs(f) = Recs(d) BY <1>10 DEF Recs
  <2>8. \A w \in Recs(f) : w \in Recs(e0) \/ Opening13(e0, w)
    BY <1>7, <1>8, <1>9, <2>7 DEF Opening13, Plaintext, Ccs
  <2>. QED BY <2>3, <2>4, <2>5, <2>6, <2>8
<1>12. ServerTurn(f, g, {"out", "tr"}, {}) /\ Recs(g) = Recs(f) \cup {Sealed(f, "handshake", em)}
  BY <1>11, ServerSeals DEF ServerTurn
<1>. HIDE DEF g
<1>13. /\ ServerTurn(g, g2, {"out", "tr"}, {})
       /\ \A w \in Recs(g2) : w \in Recs(g) \/ Credentials(g, w)
  <2>1. ServerShaped(g) BY <1>12 DEF ServerTurn
  <2>2. ServerTurn(g, g, {"out", "tr"}, {}) BY <2>1, ServerRests
  <2>3. /\ ServerTurn(g, EmitServerAuth13(g), {"out", "tr"}, {})
        /\ \A w \in Recs(EmitServerAuth13(g)) : w \in Recs(g) \/ Credentials(g, w)
    BY <2>1, ServerAuth13Step
  <2>. QED BY <2>2, <2>3
<1>. HIDE DEF g2
<1>14. ServerTurn(g2, g3, {"dec", "decOn", "trial", "hs"}, {"ed"}) /\ g3.out = g2.out
  BY <1>13, SettleStep DEF ServerTurn
<1>. HIDE DEF g3
<1>15. /\ ServerTurn(e0, g3, Z, {"sec", "psk", "ed"})
       /\ IsRecord(g3.hs.sec[1], SecretFields) /\ g3.hs.sec[1].psk = g3.hs.psk
       /\ g3.alpn = f.alpn /\ g3.cert = e.cert /\ g.cfg = e0.cfg
  <2>1. Z \cup {"out", "tr"} \subseteq Z /\ {"sec", "psk"} \cup {} \subseteq {"sec", "psk"}
        /\ Z \cup {"dec", "decOn", "trial", "hs"} \subseteq Z
        /\ {"sec", "psk"} \cup {"ed"} \subseteq {"sec", "psk", "ed"} OBVIOUS
  <2>2. ServerTurn(e0, g, Z, {"sec", "psk"}) BY <1>11, <1>12, <2>1, ServerTurns
  <2>3. ServerTurn(e0, g2, Z, {"sec", "psk"}) BY <1>13, <2>1, <2>2, ServerTurns
  <2>4. ServerTurn(e0, g3, Z, {"sec", "psk", "ed"}) BY <1>14, <2>1, <2>3, ServerTurns
  <2>5. g3.hs.sec = g2.hs.sec /\ g3.hs.psk = g2.hs.psk
    BY <1>14 DEF ServerTurn, SameBut, ServerHsFields
  <2>6. g2.hs = f.hs /\ g2.alpn = f.alpn /\ g2.cert = f.cert
    BY <1>12, <1>13 DEF ServerTurn, Same, SameBut, EndpointFields
  <2>7. g3.alpn = g2.alpn /\ g3.cert = g2.cert
    BY <1>14 DEF ServerTurn, Same, SameBut, EndpointFields
  <2>8. g.cfg = e0.cfg BY <2>2 DEF ServerTurn, Same, SameBut, EndpointFields
  <2>. QED BY <1>7, <1>11, <2>4, <2>5, <2>6, <2>7, <2>8
<1>16. /\ ServerTurn(g3, h, {"out", "tr", "hs", "enc", "encOn"}, {"fin"})
       /\ Keyed(h, {"traffic"})
       /\ h.hs.fin = <<h.hs.fin[1]>> /\ h.hs.fin[1].psk = h.hs.psk
       /\ \A w \in Recs(h) : w \in Recs(g3) \/ Finale13(w, h)
  BY <1>14, <1>15, ServerFinale13Step DEF ServerTurn
<1>. HIDE DEF h
<1>17. /\ ServerTurn(h, h2, {"maySend", "mayRecv", "out", "plain"}, {})
       /\ \A w \in Recs(h2) : w \in Recs(h) \/ \E x : w = AppRecord(h, x)
  <2>1. ServerShaped(h) BY <1>16 DEF ServerTurn
  <2>2. ServerTurn(h, h, {"maySend", "mayRecv", "out", "plain"}, {}) BY <2>1, ServerRests
  <2>3. /\ ServerTurn(h, StartOutgoingTraffic(h), {"maySend", "mayRecv", "out", "plain"}, {})
        /\ Recs(StartOutgoingTraffic(h)) = Recs(h) \cup {AppRecord(h, x) : x \in Range(h.plain)}
    BY <2>1, ServerStarts
  <2>. QED BY <2>2, <2>3
<1>18. auth = (val = None /\ e0.cfg.clientAuth # "none") BY <1>5
<1>. HIDE DEF h2, auth
<1>19. ServerTurn(h2, ok, {"st"}, {}) /\ ok.st = st /\ ok.out = h2.out /\ ok.hs = h2.hs
  <2>1. ServerShaped(h2) BY <1>17 DEF ServerTurn
  <2>. QED BY <2>1, ServerMoves
<1>. HIDE DEF ok
<1>20. ServerTurn(e0, ok, X, Y)
  <2>1. Z \cup {"out", "tr", "hs", "enc", "encOn"} \subseteq X
        /\ {"sec", "psk", "ed"} \cup {"fin"} \subseteq Y
        /\ X \cup {"maySend", "mayRecv", "out", "plain"} \subseteq X /\ Y \cup {} \subseteq Y
        /\ X \cup {"st"} \subseteq X OBVIOUS
  <2>2. ServerTurn(e0, h, X, Y) BY <1>15, <1>16, <2>1, ServerTurns
  <2>3. ServerTurn(e0, h2, X, Y) BY <1>17, <2>1, <2>2, ServerTurns
  <2>. QED BY <1>19, <2>1, <2>3, ServerTurns
<1>21. ok.hs = h.hs /\ ok.enc = h.enc /\ ok.encOn = h.encOn /\ ok.alpn = h.alpn /\ ok.cert = h.cert
  BY <1>17, <1>19 DEF ServerTurn, Same, SameBut, EndpointFields
<1>22. h.alpn = f.alpn /\ h.cert = e.cert
  BY <1>15, <1>16 DEF ServerTurn, Same, SameBut, EndpointFields
<1>23. \A x : LET w == AppRecord(h, x) IN /\ w.typ = "app" /\ w.m.t = "ApplicationData"
                                          /\ w.key # None /\ w.key[1].k = "traffic"
  BY <1>16 DEF AppRecord, Sealed, Keyed, AppData
<1>24. \A w \in Recs(ok) : w \in Recs(e0) \/ Flight13(e0, ok, m, w)
  <2>1. ASSUME NEW w \in Recs(ok) PROVE w \in Recs(e0) \/ Flight13(e0, ok, m, w)
    <3>1. CASE \E x : w = AppRecord(h, x) BY <1>23, <3>1 DEF Flight13
    <3>2. CASE Finale13(w, h) BY <1>21, <3>2 DEF Flight13, Finale13
    <3>3. CASE Credentials(g, w) BY <1>15, <3>3 DEF Flight13, Credentials
    <3>4. CASE w = Sealed(f, "handshake", em)
      BY <1>3, <1>21, <1>22, <3>4 DEF Flight13, Sealed
    <3>5. CASE w \in Recs(f) BY <1>11, <3>5 DEF Flight13
    <3>6. Recs(ok) = Recs(h2) /\ Recs(g3) = Recs(g2) BY <1>14, <1>19 DEF Recs
    <3>. QED BY <1>12, <1>13, <1>16, <1>17, <2>1, <3>1, <3>2, <3>3, <3>4, <3>5, <3>6
  <2>. QED BY <2>1
<1>25. ServerFlies13(e0, ok, m, val)
  <2>1. val # None => ok.cert = val[1].cert BY <1>5, <1>21, <1>22 DEF cert
  <2>2. Keyed(ok, {"traffic"}) BY <1>16, <1>21 DEF Keyed
  <2>3. ok.hs.fin = <<ok.hs.fin[1]>> /\ ok.hs.fin[1].psk = ok.hs.psk BY <1>16, <1>21
  <2>. QED BY <1>4, <1>5, <1>19, <1>20, <1>24, <2>1, <2>2, <2>3 DEF ServerFlies13
<1>. QED BY <1>1, <1>11, <1>25
-------------------------------------------------------------------------------
(***************************************************************************)
(* What a server makes of a ClientHello.                                   *)
(***************************************************************************)
\* A server that refuses the hello, maybe after its own.
ServerRefuses(e, f) ==
    /\ ServerTurn(e, f, {"ver", "suite", "tr", "cert", "alpn", "store", "hs", "out", "err",
                         "sentFatal", "enc", "encOn", "dec", "decOn", "trial"},
                  {"sec", "psk", "ems", "sid", "resuming", "sendTicket"})
    /\ Failed(f) /\ Range(f.store.cache) \subseteq Range(e.store.cache)
    /\ \A w \in Recs(f) :
          \/ w \in Recs(e)
          \/ w.typ # "app" /\ w.m.t = "Alert"
          \/ f.ver = 13 /\ Opening13(f, w)

\* A server that asks for another group.
ServerRetries(e, f) ==
    /\ ServerTurn(e, f, {"ver", "suite", "tr", "out", "hs", "st"}, {"retry", "skip"})
    /\ f.hs.retry = TRUE /\ f.st \in ServerHelloStates
    /\ Adds(e, f, {"HelloRetryRequest", "ChangeCipherSpec"})

\* A server that chose TLS 1.3, and whose certificate it may have for the client.
ServerChose13(e, f, m) ==
    /\ ServerTurn(e, f, {"ver", "suite", "store", "tr", "cert", "out", "dec", "decOn", "trial",
                         "hs", "enc", "encOn", "alpn", "maySend", "mayRecv", "plain", "st"},
                  {"sec", "psk", "ed", "fin"})
    /\ f.ver = 13 /\ Range(f.store.cache) \subseteq Range(e.store.cache)
    /\ f.st \in {"ExpectClientCertificate", "ExpectEarlyData", "ExpectClientFinished"}
    /\ \/ f.st = "ExpectClientCertificate" \/ e.cfg.clientAuth = "none"
       \/ \E val : SessionFrom(e, m, val) /\ f.cert = val.cert
    /\ f.hs.fin = <<f.hs.fin[1]>> /\ f.hs.fin[1].psk = f.hs.psk
    /\ Keyed(f, {"traffic"})
    /\ m.early => ~e.hs.retry
    /\ \A w \in Recs(f) : w \in Recs(e) \/ Flight13(f, f, m, w)

\* A server that fails after a turn in which it did little else.
LEMMA ServerRefusesAfter ==
    ASSUME NEW e, NEW x, NEW desc, desc # "none",
           ServerTurn(e, x, {"ver", "suite", "tr", "cert", "alpn", "store", "hs", "out",
                             "enc", "encOn", "dec", "decOn", "trial"},
                      {"sec", "psk", "ems", "sid", "resuming", "sendTicket"}),
           Range(x.store.cache) \subseteq Range(e.store.cache),
           \A w \in Recs(x) : w \in Recs(e) \/ (x.ver = 13 /\ Opening13(x, w))
    PROVE  ServerRefuses(e, Fatal(x, desc))
<1>. DEFINE f == Fatal(x, desc)
            X == {"ver", "suite", "tr", "cert", "alpn", "store", "hs", "out", "enc", "encOn",
                  "dec", "decOn", "trial"}
            X2 == {"ver", "suite", "tr", "cert", "alpn", "store", "hs", "out", "err",
                   "sentFatal", "enc", "encOn", "dec", "decOn", "trial"}
            Y == {"sec", "psk", "ems", "sid", "resuming", "sendTicket"}
<1>1. ServerTurn(x, f, {"out", "sentFatal", "err"}, {}) /\ Failed(f) /\ Adds(x, f, {"Alert"})
  BY ServerFatal DEF ServerTurn
<1>. HIDE DEF f
<1>2. X \cup {"out", "sentFatal", "err"} \subseteq X2 /\ Y \cup {} \subseteq Y OBVIOUS
<1>3. ServerTurn(e, f, X2, Y) BY <1>1, <1>2, ServerTurns
<1>4. f.ver = x.ver /\ f.suite = x.suite /\ f.store = x.store
  BY <1>1 DEF ServerTurn, Same, SameBut, EndpointFields
<1>5. \A w \in Recs(f) : \/ w \in Recs(e)
                         \/ w.typ # "app" /\ w.m.t = "Alert"
                         \/ f.ver = 13 /\ Opening13(f, w)
  BY <1>1, <1>4 DEF Adds, Opening13
<1>6. ServerRefuses(e, f) BY <1>1, <1>3, <1>4, <1>5 DEF ServerRefuses
<1>. QED BY <1>6 DEF f

\* A server that fails at once.
LEMMA ServerRefusesNow ==
    ASSUME NEW e, ServerShaped(e), NEW desc, desc # "none"
    PROVE  ServerRefuses(e, Fatal(e, desc))
<1>. DEFINE X == {"ver", "suite", "tr", "cert", "alpn", "store", "hs", "out",
                  "enc", "encOn", "dec", "decOn", "trial"}
            Y == {"sec", "psk", "ems", "sid", "resuming", "sendTicket"}
<1>1. ServerTurn(e, e, X, Y) BY ServerRests
<1>2. Range(e.store.cache) \subseteq Range(e.store.cache)
      /\ \A w \in Recs(e) : w \in Recs(e) \/ (e.ver = 13 /\ Opening13(e, w)) OBVIOUS
<1>. QED BY <1>1, <1>2, ServerRefusesAfter

\* emit_hello_retry_request, unless the group was asked for before
LEMMA HelloRetryStep ==
    ASSUME NEW e0, ServerShaped(e0), NEW m
    PROVE  LET f == HelloRetry(e0, m) IN ServerRefuses(e0, f) \/ ServerRetries(e0, f)
<1>. DEFINE e == Hash(e0, m)
            group == FirstIn(e.cfg.groups, Range(m.groups))
            hm == HrrMsg(e, m, group[1])
            r == RollupForHrr(e)
            g == Emit(r, hm, FALSE)
            f == EmitCcs(g)
            skip == IF m.early THEN MaxEarlyDataSize(e.cfg) ELSE 0
            st == IF m.early THEN "ExpectAndSkipRejectedEarlyData" ELSE "ExpectClientHello"
            ok == [f EXCEPT !.hs.retry = TRUE, !.hs.skip = skip, !.st = st]
            F == {"tr"}
<1>1. HelloRetry(e0, m) = IF group = None THEN Fatal(e, "HandshakeFailure")
                          ELSE IF e.hs.retry THEN Fatal(e, "IllegalParameter") ELSE ok
  BY DEF HelloRetry, EmitHelloRetryRequest
<1>2. st \in ServerHelloStates BY DEF ServerHelloStates
<1>3. hm.t = "HelloRetryRequest" BY DEF HrrMsg
<1>. HIDE DEF group, hm, skip, st
<1>4. ServerTurn(e0, e, {"tr"}, {}) /\ e.out = e0.out BY ServerHashes
<1>. HIDE DEF e
<1>5. ServerTurn(e, r, {"tr"}, {}) /\ r.out = e.out
  <2>1. ServerShaped(e) BY <1>4 DEF ServerTurn
  <2>2. Same(e, r, {"tr"}) /\ r.out = e.out
    BY <2>1 DEF ServerShaped, Shaped, IsRecord, Same, SameBut, EndpointFields, RollupForHrr
  <2>. HIDE DEF r
  <2>3. "out" \notin {"tr"} /\ "plain" \notin {"tr"} /\ "queued" \notin {"tr"}
        /\ "hs" \notin {"tr"} /\ "store" \notin {"tr"} /\ "side" \notin {"tr"} OBVIOUS
  <2>4. Shaped(r) BY <2>1, <2>2, <2>3, SameShaped DEF ServerShaped
  <2>. QED BY <2>1, <2>2, <2>3, <2>4, ServerQuiet
<1>. HIDE DEF r
<1>6. ServerTurn(r, g, {"out", "tr"}, {}) /\ Recs(g) = Recs(r) \cup {Plaintext("handshake", hm)}
  BY <1>5, ServerSays DEF ServerTurn
<1>. HIDE DEF g
<1>7. ServerTurn(g, f, {"out"}, {}) /\ Recs(f) = Recs(g) \cup {Plaintext("ccs", Ccs)}
  BY <1>6, ServerChanges DEF ServerTurn
<1>. HIDE DEF f
<1>8. ServerTurn(f, ok, {"hs", "st"}, {"retry", "skip"}) /\ ok.out = f.out
      /\ ok.hs.retry = TRUE /\ ok.st = st
  <2>1. ServerShaped(f) BY <1>7 DEF ServerTurn
  <2>2. /\ Same(f, ok, {"hs", "st"}) /\ SameBut(ServerHsFields, f.hs, ok.hs, {"retry", "skip"})
        /\ ok.out = f.out /\ ok.hs.retry = TRUE /\ ok.st = st
    BY <2>1 DEF ServerShaped, Shaped, IsRecord, Same, SameBut, EndpointFields, ServerHsFields
  <2>. HIDE DEF ok
  <2>3. {"hs", "st"} \cap {"out", "plain", "queued", "side", "store"} = {} OBVIOUS
  <2>. QED BY <2>1, <2>2, <2>3, ServerNotes
<1>. HIDE DEF ok
<1>9. ServerRetries(e0, ok)
  <2>. DEFINE X == {"ver", "suite", "tr", "out", "hs", "st"}
              Y == {"retry", "skip"}
  <2>1. /\ {"tr"} \cup {"tr"} \subseteq X /\ X \cup {"out", "tr"} \subseteq X
        /\ X \cup {"out"} \subseteq X /\ X \cup {"hs", "st"} \subseteq X
        /\ {} \cup {} \subseteq Y /\ Y \cup {} \subseteq Y /\ Y \cup {"retry", "skip"} \subseteq Y
    OBVIOUS
  <2>2. ServerTurn(e0, r, X, Y) BY <1>4, <1>5, <2>1, ServerTurns
  <2>3. ServerTurn(e0, g, X, Y) BY <1>6, <2>1, <2>2, ServerTurns
  <2>4. ServerTurn(e0, f, X, Y) BY <1>7, <2>1, <2>3, ServerTurns
  <2>5. ServerTurn(e0, ok, X, Y) BY <1>8, <2>1, <2>4, ServerTurns
  <2>6. Recs(ok) = Recs(f) /\ Recs(r) = Recs(e0) BY <1>4, <1>5, <1>8 DEF Recs
  <2>7. Adds(e0, ok, {"HelloRetryRequest", "ChangeCipherSpec"})
    BY <1>3, <1>6, <1>7, <2>6 DEF Adds, Plaintext, Ccs
  <2>. QED BY <1>2, <1>8, <2>5, <2>7 DEF ServerRetries
<1>10. \A desc : desc # "none" => ServerRefuses(e0, Fatal(e, desc))
  <2>. DEFINE X == {"ver", "suite", "tr", "cert", "alpn", "store", "hs", "out",
                    "enc", "encOn", "dec", "decOn", "trial"}
              Y == {"sec", "psk", "ems", "sid", "resuming", "sendTicket"}
  <2>1. ServerTurn(e0, e, X, Y) BY <1>4 DEF ServerTurn, Same, SameBut
  <2>2. Recs(e) = Recs(e0) BY <1>4 DEF Recs
  <2>3. e.store = e0.store BY <1>4 DEF ServerTurn, Same, SameBut, EndpointFields
  <2>4. Range(e.store.cache) \subseteq Range(e0.store.cache)
        /\ \A w \in Recs(e) : w \in Recs(e0) \/ (e.ver = 13 /\ Opening13(e, w)) BY <2>2, <2>3
  <2>. QED BY <2>1, <2>4, ServerRefusesAfter
<1>. QED BY <1>1, <1>9, <1>10

\* CompleteClientHelloHandling of tls13.rs
LEMMA ClientHello13Step ==
    ASSUME NEW e, ServerShaped(e), e.ver = 13, NEW m
    PROVE  LET f == ClientHello13(e, m) IN
           ServerRefuses(e, f) \/ ServerRetries(e, f) \/ ServerChose13(e, f, m)
<1>. DEFINE share == FirstIn(e.cfg.groups, {m.shares[i].g : i \in DOMAIN m.shares})
            chosen == FirstShare(m.shares, share[1])
            val == Resumable(e, m)
            f == ConsumeTicket(e, m)
            ok == ServerFlight13(f, m, chosen, val)
<1>1. ClientHello13(e, m)
        = IF e.hs.retry /\ m.early THEN Fatal(e, "IllegalParameter")
          ELSE IF share = None THEN HelloRetry(e, m)
          ELSE IF val # None /\ ~CheckBinder(e, m, val[1]) THEN Fatal(f, "DecryptError")
          ELSE ok
  BY DEF ClientHello13
<1>2. /\ val # None => SessionFrom(e, m, val[1])
      /\ ServerTurn(e, f, {"store"}, {}) /\ f.out = e.out /\ f.hs = e.hs
      /\ Range(f.store.cache) \subseteq Range(e.store.cache)
  BY ResumableStep DEF Sheds
<1>. HIDE DEF share, chosen, val, f
<1>3. f.ver = 13 /\ f.suite = e.suite /\ f.cfg = e.cfg /\ ServerShaped(f) /\ Recs(f) = Recs(e)
  BY <1>2 DEF ServerTurn, Same, SameBut, EndpointFields, Recs
<1>4. ServerFlies13(f, ok, m, val)
      \/ \E x : /\ ServerTurn(f, x, {"tr", "cert", "out", "dec", "decOn", "trial", "hs",
                                      "enc", "encOn", "alpn"}, {"sec", "psk"})
                /\ ok = Fatal(x, "NoApplicationProtocol")
                /\ \A w \in Recs(x) : w \in Recs(f) \/ Opening13(f, w)
  BY <1>3, Flight13Step
<1>. HIDE DEF ok
<1>5. ServerRefuses(e, Fatal(e, "IllegalParameter")) BY ServerRefusesNow
<1>. DEFINE X == {"ver", "suite", "tr", "cert", "alpn", "store", "hs", "out",
                  "enc", "encOn", "dec", "decOn", "trial"}
            Y == {"sec", "psk", "ems", "sid", "resuming", "sendTicket"}
<1>6. ServerRefuses(e, Fatal(f, "DecryptError"))
  <2>1. ServerTurn(e, f, X, Y) BY <1>2 DEF ServerTurn, Same, SameBut
  <2>2. \A w \in Recs(f) : w \in Recs(e) \/ (f.ver = 13 /\ Opening13(f, w)) BY <1>3
  <2>. QED BY <1>2, <2>1, <2>2, ServerRefusesAfter
<1>7. ASSUME NEW x, ServerTurn(f, x, {"tr", "cert", "out", "dec", "decOn", "trial", "hs",
                                      "enc", "encOn", "alpn"}, {"sec", "psk"}),
             \A w \in Recs(x) : w \in Recs(f) \/ Opening13(f, w)
      PROVE  ServerRefuses(e, Fatal(x, "NoApplicationProtocol"))
  <2>1. {"store"} \cup {"tr", "cert", "out", "dec", "decOn", "trial", "hs", "enc", "encOn",
                        "alpn"} \subseteq X /\ {} \cup {"sec", "psk"} \subseteq Y OBVIOUS
  <2>2. ServerTurn(e, x, X, Y) BY <1>2, <1>7, <2>1, ServerTurns
  <2>3. x.ver = f.ver /\ x.suite = f.suite /\ x.store = f.store
    BY <1>7 DEF ServerTurn, Same, SameBut, EndpointFields
  <2>4. \A w \in Recs(x) : w \in Recs(e) \/ (x.ver = 13 /\ Opening13(x, w))
    BY <1>3, <1>7, <2>3 DEF Opening13
  <2>5. Range(x.store.cache) \subseteq Range(e.store.cache) BY <1>2, <2>3
  <2>. QED BY <2>2, <2>4, <2>5, ServerRefusesAfter
<1>8. ASSUME ServerFlies13(f, ok, m, val), ~(e.hs.retry /\ m.early)
      PROVE  ServerChose13(e, ok, m)
  <2>. DEFINE F == {"tr", "cert", "out", "dec", "decOn", "trial", "hs", "enc", "encOn", "alpn",
                    "maySend", "mayRecv", "plain", "st"}
              G == {"ver", "suite", "store", "tr", "cert", "out", "dec", "decOn", "trial",
                    "hs", "enc", "encOn", "alpn", "maySend", "mayRecv", "plain", "st"}
              H == {"sec", "psk", "ed", "fin"}
  <2>1. ServerTurn(f, ok, F, H) BY <1>8 DEF ServerFlies13
  <2>2. {"store"} \cup F \subseteq G /\ {} \cup H \subseteq H OBVIOUS
  <2>3. ServerTurn(e, ok, G, H) BY <1>2, <2>1, <2>2, ServerTurns
  <2>4. ok.ver = f.ver /\ ok.suite = f.suite /\ ok.store = f.store /\ ok.cfg = f.cfg
    BY <2>1 DEF ServerTurn, Same, SameBut, EndpointFields
  <2>5. ASSUME NEW w \in Recs(ok) PROVE w \in Recs(e) \/ Flight13(ok, ok, m, w)
    BY <1>3, <1>8, <2>4, <2>5 DEF ServerFlies13, Flight13, Opening13, Credentials
  <2>6. \/ ok.st = "ExpectClientCertificate" \/ e.cfg.clientAuth = "none"
        \/ \E v : SessionFrom(e, m, v) /\ ok.cert = v.cert
    BY <1>2, <1>3, <1>8 DEF ServerFlies13
  <2>. QED BY <1>2, <1>3, <1>8, <2>3, <2>4, <2>5, <2>6 DEF ServerChose13, ServerFlies13
<1>9. ServerRefuses(e, HelloRetry(e, m)) \/ ServerRetries(e, HelloRetry(e, m))
  BY HelloRetryStep
<1>. QED BY <1>1, <1>4, <1>5, <1>6, <1>7, <1>8, <1>9
-------------------------------------------------------------------------------
(***************************************************************************)
(* A server's flights of TLS 1.2.                                          *)
(***************************************************************************)
\* start_encryption_tls12: both directions are prepared.
LEMMA ServerPrepares12 ==
    ASSUME NEW e, ServerShaped(e), NEW ms
    PROVE  LET f == StartEncryption12(e, ms) IN
           /\ ServerTurn(e, f, {"enc", "encOn", "dec", "decOn"}, {}) /\ f.out = e.out
           /\ f.enc = <<f.enc[1]>> /\ f.enc[1].k = "tls12"
<1>. DEFINE f == StartEncryption12(e, ms)
            k == Tls12Key(e.side, e.suite, ms, e.n)
            k2 == Tls12Key(Peer(e.side), e.suite, ms, e.n)
            X == {"enc", "encOn", "dec", "decOn"}
<1>1. f = [[e EXCEPT !.enc = <<k>>, !.encOn = FALSE] EXCEPT !.dec = <<k2>>, !.decOn = FALSE]
  BY DEF StartEncryption12, PrepareEncrypter, PrepareDecrypter, Some
<1>2. k.k = "tls12" BY DEF Tls12Key
<1>. HIDE DEF k, k2, f
<1>3. Same(e, f, X) /\ f.out = e.out /\ f.enc = <<k>>
  <2>. DEFINE d == [e EXCEPT !.enc = <<k>>, !.encOn = FALSE]
  <2>1. Same(e, d, {"enc", "encOn"}) /\ IsRecord(d, EndpointFields)
    BY DEF ServerShaped, Shaped, IsRecord, Same, SameBut, EndpointFields
  <2>2. d.enc = <<k>> BY DEF ServerShaped, Shaped, IsRecord, EndpointFields
  <2>3. f = [d EXCEPT !.dec = <<k2>>, !.decOn = FALSE] BY <1>1
  <2>. HIDE DEF d
  <2>4. Same(d, f, {"dec", "decOn"})
    BY <2>1, <2>3 DEF IsRecord, Same, SameBut, EndpointFields
  <2>5. Same(e, f, X) BY <2>1, <2>4 DEF Same, SameBut, EndpointFields
  <2>6. f.out = e.out /\ f.enc = d.enc BY <2>4, <2>5 DEF Same, SameBut, EndpointFields
  <2>. QED BY <2>2, <2>5, <2>6
<1>4. "out" \notin X /\ "plain" \notin X /\ "queued" \notin X
      /\ "hs" \notin X /\ "store" \notin X /\ "side" \notin X OBVIOUS
<1>5. Shaped(f) BY <1>3, <1>4, SameShaped DEF ServerShaped
<1>6. ServerTurn(e, f, X, {}) BY <1>3, <1>4, <1>5, ServerQuiet
<1>. QED BY <1>2, <1>3, <1>6 DEF f

\* The server's keys come into force.
LEMMA ServerEncrypting ==
    ASSUME NEW e, ServerShaped(e)
    PROVE  LET f == StartEncrypting(e) IN
           /\ ServerTurn(e, f, {"encOn"}, {}) /\ f.out = e.out
           /\ f.encOn = TRUE /\ f.enc = e.enc
<1>. DEFINE f == StartEncrypting(e)
<1>1. Same(e, f, {"encOn"}) /\ f.out = e.out /\ f.encOn = TRUE /\ f.enc = e.enc
  BY DEF ServerShaped, Shaped, IsRecord, Same, SameBut, EndpointFields, StartEncrypting
<1>. HIDE DEF f
<1>2. "out" \notin {"encOn"} /\ "plain" \notin {"encOn"} /\ "queued" \notin {"encOn"}
      /\ "hs" \notin {"encOn"} /\ "store" \notin {"encOn"} /\ "side" \notin {"encOn"} OBVIOUS
<1>3. Shaped(f) BY <1>1, <1>2, SameShaped DEF ServerShaped
<1>4. ServerTurn(e, f, {"encOn"}, {}) BY <1>1, <1>2, <1>3, ServerQuiet
<1>. QED BY <1>1, <1>4 DEF f

\* A ticket of TLS 1.2 names the certificate of the connection.
Ticketed12(f, w) ==
    w.typ # "app" /\ w.m.t = "NewSessionTicket" /\ w.m.ticket.val.cert = f.cert

\* emit_ticket of tls12.rs
LEMMA Ticket12Step ==
    ASSUME NEW e0, ServerShaped(e0)
    PROVE  LET f == EmitTicket12(e0) IN
           /\ ServerTurn(e0, f, {"store", "out", "tr"}, {})
           /\ f.store.cache = e0.store.cache
           /\ \A w \in Recs(f) : w \in Recs(e0) \/ Ticketed12(f, w)
<1>. DEFINE e == MaybeRoll(e0)
            val == SessionValue(e, 12, e.hs.ms[1], e.hs.ems)
            tm == NewSessionTicket12Msg(Encrypt(e, val))
            f == Emit(e, tm, FALSE)
            X == {"store", "out", "tr"}
<1>1. EmitTicket12(e0) = IF ~e.hs.sendTicket THEN e0 ELSE f BY DEF EmitTicket12
<1>2. tm.t = "NewSessionTicket" /\ tm.ticket.val.cert = e.cert
  BY DEF NewSessionTicket12Msg, Encrypt, SessionValue
<1>. HIDE DEF tm
<1>3. ServerTurn(e0, e, {"store"}, {}) /\ e.out = e0.out /\ e.store.cache = e0.store.cache
  BY RollStep DEF Sheds
<1>. HIDE DEF e
<1>4. ServerTurn(e, f, {"out", "tr"}, {}) /\ Recs(f) = Recs(e) \cup {Plaintext("handshake", tm)}
  BY <1>3, ServerSays DEF ServerTurn
<1>. HIDE DEF f
<1>5. f.store = e.store /\ f.cert = e.cert
  BY <1>4 DEF ServerTurn, Same, SameBut, EndpointFields
<1>6. {"store"} \cup {"out", "tr"} \subseteq X /\ {} \cup {} \subseteq {} OBVIOUS
<1>7. ServerTurn(e0, f, X, {}) BY <1>3, <1>4, <1>6, ServerTurns
<1>8. Recs(e) = Recs(e0) BY <1>3 DEF Recs
<1>9. \A w \in Recs(f) : w \in Recs(e0) \/ Ticketed12(f, w)
  BY <1>2, <1>4, <1>5, <1>8 DEF Ticketed12, Plaintext
<1>10. ServerTurn(e0, e0, X, {}) BY ServerRests
<1>. QED BY <1>1, <1>3, <1>5, <1>7, <1>9, <1>10

\* A Finished of a TLS 1.2 server.
ServerFinale12(w, f) ==
    /\ w.typ # "app" /\ w.m.t = "Finished" /\ w.m.verify.k = "finished12"
    /\ w.m.verify.ms = f.hs.ms[1] /\ f.tr = Append(w.m.verify.hash, "Finished")

\* The end of the server's part of a TLS 1.2 handshake.
LEMMA ServerFinale12Step ==
    ASSUME NEW e, ServerShaped(e)
    PROVE  LET f == EmitFinale12(e) IN
           /\ ServerTurn(e, f, {"store", "out", "tr", "encOn"}, {})
           /\ f.store.cache = e.store.cache /\ f.encOn = TRUE
           /\ \A w \in Recs(f) : \/ w \in Recs(e)
                                 \/ Ticketed12(f, w)
                                 \/ w.typ # "app" /\ w.m.t = "ChangeCipherSpec"
                                 \/ ServerFinale12(w, f)
<1>. DEFINE a == EmitTicket12(e)
            b == EmitCcs(a)
            d == StartEncrypting(b)
            fm == FinishedMsg(Finish12(d.side, d.hs.ms[1], d.n, d.tr))
            f == Emit(d, fm, TRUE)
            X == {"store", "out", "tr", "encOn"}
<1>1. EmitFinale12(e) = f BY DEF EmitFinale12, EmitFinished12
<1>2. /\ fm.t = "Finished" /\ fm.verify.k = "finished12" /\ fm.verify.ms = d.hs.ms[1]
      /\ fm.verify.hash = d.tr
  BY DEF FinishedMsg, Finish12
<1>. HIDE DEF fm
<1>3. /\ ServerTurn(e, a, {"store", "out", "tr"}, {}) /\ a.store.cache = e.store.cache
      /\ \A w \in Recs(a) : w \in Recs(e) \/ Ticketed12(a, w)
  BY Ticket12Step
<1>. HIDE DEF a
<1>4. ServerTurn(a, b, {"out"}, {}) /\ Recs(b) = Recs(a) \cup {Plaintext("ccs", Ccs)}
  BY <1>3, ServerChanges DEF ServerTurn
<1>. HIDE DEF b
<1>5. ServerTurn(b, d, {"encOn"}, {}) /\ d.out = b.out /\ d.encOn = TRUE
  BY <1>4, ServerEncrypting DEF ServerTurn
<1>. HIDE DEF d
<1>6. /\ ServerTurn(d, f, {"out", "tr"}, {}) /\ f.tr = Append(d.tr, fm.t)
      /\ Recs(f) = Recs(d) \cup {Sealed(d, "handshake", fm)}
  BY <1>5, ServerSeals DEF ServerTurn
<1>. HIDE DEF f
<1>7. ServerTurn(e, f, X, {})
  <2>1. /\ {"store", "out", "tr"} \cup {"out"} \subseteq X /\ X \cup {"encOn"} \subseteq X
        /\ X \cup {"out", "tr"} \subseteq X /\ {} \cup {} \subseteq {} OBVIOUS
  <2>2. ServerTurn(e, b, X, {}) BY <1>3, <1>4, <2>1, ServerTurns
  <2>3. ServerTurn(e, d, X, {}) BY <1>5, <2>1, <2>2, ServerTurns
  <2>. QED BY <1>6, <2>1, <2>3, ServerTurns
<1>8. /\ f.store = a.store /\ f.encOn = TRUE /\ f.hs = d.hs /\ f.cert = a.cert
  BY <1>4, <1>5, <1>6 DEF ServerTurn, Same, SameBut, EndpointFields
<1>9. \A w \in Recs(f) : \/ w \in Recs(e)
                         \/ Ticketed12(f, w)
                         \/ w.typ # "app" /\ w.m.t = "ChangeCipherSpec"
                         \/ ServerFinale12(w, f)
  <2>1. Recs(d) = Recs(b) BY <1>5 DEF Recs
  <2>2. ServerFinale12(Sealed(d, "handshake", fm), f)
    BY <1>2, <1>6, <1>8 DEF ServerFinale12, Sealed
  <2>. QED BY <1>3, <1>4, <1>6, <1>8, <2>1, <2>2 DEF Ticketed12, Plaintext, Ccs
<1>. QED BY <1>1, <1>3, <1>7, <1>8, <1>9

\* The server's hello of TLS 1.2.
Opening12(f, w) ==
    /\ w.typ # "app" /\ w.m.t = "ServerHello" /\ w.m.ver = 12
    /\ w.m.suite = f.suite /\ w.m.alpn = f.alpn

\* emit_server_hello of tls12.rs, unless there is no protocol in common
LEMMA ServerHello12Emitted ==
    ASSUME NEW e, ServerShaped(e), NEW m, NEW ocsp
    PROVE  LET f == EmitServerHello12(e, m, ocsp) IN
           \/ \E x : /\ ServerTurn(e, x, {"alpn", "hs"}, {"sendTicket"}) /\ x.out = e.out
                     /\ f = Fatal(x, "NoApplicationProtocol")
           \/ /\ ServerTurn(e, f, {"alpn", "hs", "out", "tr"}, {"sendTicket"})
              /\ \A w \in Recs(f) : w \in Recs(e) \/ Opening12(f, w)
<1>. DEFINE alpn == ChooseAlpn(e, m)
            send == SendsTicket12(e, m)
            x == [e EXCEPT !.alpn = alpn, !.hs.sendTicket = send]
            hm == [t |-> "ServerHello", ver |-> 12, suite |-> x.suite, sid |-> x.hs.sid,
                   alpn |-> x.alpn, ems |-> x.hs.ems, newTicket |-> x.hs.sendTicket,
                   status |-> ocsp, downgrade |-> 13 \in x.cfg.vers, ok |-> TRUE]
            f == Emit(x, hm, FALSE)
            X == {"alpn", "hs", "out", "tr"}
            Y == {"sendTicket"}
<1>1. /\ Same(e, x, {"alpn", "hs"}) /\ SameBut(ServerHsFields, e.hs, x.hs, Y)
      /\ x.out = e.out /\ x.hs.sid = e.hs.sid /\ x.hs.ems = e.hs.ems
      /\ x.suite = e.suite /\ x.cfg = e.cfg
  <2>. HIDE DEF alpn, send
  <2>. QED BY DEF ServerShaped, Shaped, IsRecord, Same, SameBut, EndpointFields, ServerHsFields
<1>2. EmitServerHello12(e, m, ocsp) = IF NoAlpn(e, m) THEN Fatal(x, "NoApplicationProtocol") ELSE f
  <2>. DEFINE hm2 == [t |-> "ServerHello", ver |-> 12, suite |-> e.suite, sid |-> e.hs.sid,
                      alpn |-> x.alpn, ems |-> e.hs.ems, newTicket |-> x.hs.sendTicket,
                      status |-> ocsp, downgrade |-> 13 \in e.cfg.vers, ok |-> TRUE]
  <2>1. EmitServerHello12(e, m, ocsp)
          = IF NoAlpn(e, m) THEN Fatal(x, "NoApplicationProtocol") ELSE Emit(x, hm2, FALSE)
    BY DEF EmitServerHello12
  <2>. HIDE DEF x
  <2>2. hm2 = hm BY <1>1
  <2>. QED BY <2>1, <2>2
<1>3. hm.t = "ServerHello" /\ hm.ver = 12 /\ hm.suite = x.suite /\ hm.alpn = x.alpn OBVIOUS
<1>. HIDE DEF hm, x
<1>4. ServerTurn(e, x, {"alpn", "hs"}, Y)
  <2>1. {"alpn", "hs"} \cap {"out", "plain", "queued", "side", "store"} = {} OBVIOUS
  <2>. QED BY <1>1, <2>1, ServerNotes
<1>5. ServerTurn(x, f, {"out", "tr"}, {}) /\ Recs(f) = Recs(x) \cup {Plaintext("handshake", hm)}
  BY <1>4, ServerSays DEF ServerTurn
<1>. HIDE DEF f
<1>6. ServerTurn(e, f, X, Y)
  <2>1. {"alpn", "hs"} \cup {"out", "tr"} \subseteq X /\ Y \cup {} \subseteq Y OBVIOUS
  <2>. QED BY <1>4, <1>5, <2>1, ServerTurns
<1>7. f.suite = x.suite /\ f.alpn = x.alpn
  BY <1>5 DEF ServerTurn, Same, SameBut, EndpointFields
<1>8. Recs(x) = Recs(e) BY <1>1 DEF Recs
<1>9. \A w \in Recs(f) : w \in Recs(e) \/ Opening12(f, w)
  BY <1>3, <1>5, <1>7, <1>8 DEF Opening12, Plaintext
<1>. QED BY <1>1, <1>2, <1>4, <1>6, <1>9

\* What a server may have changed when it chose TLS 1.2.
Chosen12(e, f) ==
    /\ ServerTurn(e, f, {"ver", "suite", "store", "tr", "hs", "alpn", "out", "enc", "encOn",
                         "dec", "decOn", "cert", "st"},
                  {"ems", "sid", "sendTicket", "resuming", "ms", "kx"})
    /\ f.ver = 12 /\ Range(f.store.cache) \subseteq Range(e.store.cache)

\* A server that resumes a session of TLS 1.2.
ServerResumes12(e, f, val) ==
    /\ Chosen12(e, f)
    /\ f.st = "ExpectClientCcs" /\ f.hs.resuming = TRUE /\ f.hs.ms = <<f.hs.ms[1]>>
    /\ f.enc = <<f.enc[1]>> /\ f.enc[1].k = "tls12" /\ f.encOn = TRUE
    /\ f.cert = val.cert
    /\ \A w \in Recs(f) : \/ w \in Recs(e)
                          \/ Opening12(f, w)
                          \/ Ticketed12(f, w)
                          \/ w.typ # "app" /\ w.m.t = "ChangeCipherSpec"
                          \/ ServerFinale12(w, f)

\* A record of the server's flight in a full handshake of TLS 1.2.
Offer12(f, w) ==
    \/ Opening12(f, w)
    \/ /\ w.typ # "app"
       /\ \/ w.m.t \in {"CertificateStatus", "ServerKeyExchange", "CertificateRequest",
                        "ServerHelloDone"}
          \/ w.m.t = "Certificate" /\ w.m.cert = f.cfg.cert

\* A server that opens a full handshake of TLS 1.2.
ServerOffers12(e, f) ==
    /\ Chosen12(e, f)
    /\ f.hs.resuming = e.hs.resuming
    /\ \/ f.st = "ExpectClientCertificate12"
       \/ f.st = "ExpectClientKx" /\ e.cfg.clientAuth = "none"
    /\ \A w \in Recs(f) : w \in Recs(e) \/ Offer12(f, w)

\* A failure in the server's hello.
LEMMA ServerRefuses12 ==
    ASSUME NEW e, NEW a, NEW x,
           ServerTurn(e, a, {"hs"}, {"sid", "resuming"}), a.out = e.out,
           ServerTurn(a, x, {"alpn", "hs"}, {"sendTicket"}), x.out = a.out
    PROVE  ServerRefuses(e, Fatal(x, "NoApplicationProtocol"))
<1>. DEFINE X == {"ver", "suite", "tr", "cert", "alpn", "store", "hs", "out",
                  "enc", "encOn", "dec", "decOn", "trial"}
            Y == {"sec", "psk", "ems", "sid", "resuming", "sendTicket"}
<1>1. {"hs"} \cup {"alpn", "hs"} \subseteq X /\ {"sid", "resuming"} \cup {"sendTicket"} \subseteq Y
  OBVIOUS
<1>2. ServerTurn(e, x, X, Y) BY <1>1, ServerTurns
<1>3. a.store = e.store /\ x.store = a.store
  BY DEF ServerTurn, Same, SameBut, EndpointFields
<1>4. Recs(x) = Recs(e) BY DEF Recs
<1>5. Range(x.store.cache) \subseteq Range(e.store.cache)
      /\ \A w \in Recs(x) : w \in Recs(e) \/ (x.ver = 13 /\ Opening13(x, w)) BY <1>3, <1>4
<1>. QED BY <1>2, <1>5, ServerRefusesAfter

\* start_resumption
LEMMA ResumptionStep ==
    ASSUME NEW e, ServerShaped(e), ~Failed(e), e.ver = 12, NEW m, NEW val
    PROVE  LET f == StartResumption(e, m, val) IN
           ServerRefuses(e, f) \/ ServerResumes12(e, f, val)
<1>. DEFINE sid == m.sid
            a == [e EXCEPT !.hs.sid = sid, !.hs.resuming = TRUE]
            f == EmitServerHello12(a, m, FALSE)
            ms == val.secret
            cert == val.cert
            p == StartEncryption12(f, ms)
            g == [p EXCEPT !.cert = cert, !.hs.ms = <<ms>>]
            h == EmitFinale12(g)
            ok == [h EXCEPT !.st = "ExpectClientCcs"]
<1>1. StartResumption(e, m, val)
        = IF val.ems /\ ~e.hs.ems THEN Fatal(e, "IllegalParameter")
          ELSE IF f.err # "none" THEN f ELSE ok
  BY DEF StartResumption, Some
<1>. HIDE DEF sid, ms, cert
<1>2. ServerTurn(e, a, {"hs"}, {"sid", "resuming"}) /\ a.out = e.out /\ a.hs.resuming = TRUE
  <2>1. /\ Same(e, a, {"hs"}) /\ SameBut(ServerHsFields, e.hs, a.hs, {"sid", "resuming"})
        /\ a.out = e.out /\ a.hs.resuming = TRUE
    BY DEF ServerShaped, Shaped, IsRecord, Same, SameBut, EndpointFields, ServerHsFields
  <2>. HIDE DEF a
  <2>2. {"hs"} \cap {"out", "plain", "queued", "side", "store"} = {} OBVIOUS
  <2>. QED BY <2>1, <2>2, ServerNotes
<1>. HIDE DEF a
<1>3. \/ \E x : /\ ServerTurn(a, x, {"alpn", "hs"}, {"sendTicket"}) /\ x.out = a.out
                /\ f = Fatal(x, "NoApplicationProtocol")
      \/ /\ ServerTurn(a, f, {"alpn", "hs", "out", "tr"}, {"sendTicket"})
         /\ \A w \in Recs(f) : w \in Recs(a) \/ Opening12(f, w)
  <2>1. ServerShaped(a) BY <1>2 DEF ServerTurn
  <2>. QED BY <2>1, ServerHello12Emitted
<1>. HIDE DEF f
<1>4. ServerRefuses(e, Fatal(e, "IllegalParameter")) BY ServerRefusesNow
<1>5. ASSUME NEW x, ServerTurn(a, x, {"alpn", "hs"}, {"sendTicket"}), x.out = a.out,
             f = Fatal(x, "NoApplicationProtocol")
      PROVE  f.err # "none" /\ ServerRefuses(e, f)
  <2>1. ServerRefuses(e, f) BY <1>2, <1>5, ServerRefuses12
  <2>. QED BY <2>1 DEF ServerRefuses, Failed
<1>6. ASSUME ServerTurn(a, f, {"alpn", "hs", "out", "tr"}, {"sendTicket"}),
             \A w \in Recs(f) : w \in Recs(a) \/ Opening12(f, w)
      PROVE  f.err = "none" /\ ServerResumes12(e, ok, val)
  <2>1. f.err = "none"
    BY <1>2, <1>6 DEF ServerTurn, Same, SameBut, EndpointFields, Failed
  <2>2. /\ ServerTurn(f, p, {"enc", "encOn", "dec", "decOn"}, {}) /\ p.out = f.out
        /\ p.enc = <<p.enc[1]>> /\ p.enc[1].k = "tls12"
    BY <1>6, ServerPrepares12 DEF ServerTurn
  <2>. HIDE DEF p
  <2>3. /\ ServerTurn(p, g, {"cert", "hs"}, {"ms"}) /\ g.out = p.out /\ g.hs.ms = <<ms>>
        /\ g.cert = cert
    <3>1. ServerShaped(p) BY <2>2 DEF ServerTurn
    <3>2. /\ Same(p, g, {"cert", "hs"}) /\ SameBut(ServerHsFields, p.hs, g.hs, {"ms"})
          /\ g.out = p.out /\ g.hs.ms = <<ms>> /\ g.cert = cert
      BY <3>1 DEF ServerShaped, Shaped, IsRecord, Same, SameBut, EndpointFields, ServerHsFields
    <3>. HIDE DEF g
    <3>3. {"cert", "hs"} \cap {"out", "plain", "queued", "side", "store"} = {} OBVIOUS
    <3>. QED BY <3>1, <3>2, <3>3, ServerNotes
  <2>. HIDE DEF g
  <2>4. /\ ServerTurn(g, h, {"store", "out", "tr", "encOn"}, {})
        /\ h.store.cache = g.store.cache /\ h.encOn = TRUE
        /\ \A w \in Recs(h) : \/ w \in Recs(g)
                              \/ Ticketed12(h, w)
                              \/ w.typ # "app" /\ w.m.t = "ChangeCipherSpec"
                              \/ ServerFinale12(w, h)
    BY <2>3, ServerFinale12Step DEF ServerTurn
  <2>. HIDE DEF h
  <2>5. ServerTurn(h, ok, {"st"}, {}) /\ ok.st = "ExpectClientCcs" /\ ok.out = h.out /\ ok.hs = h.hs
    BY <2>4, ServerMoves DEF ServerTurn
  <2>. HIDE DEF ok
  <2>. DEFINE X == {"ver", "suite", "store", "tr", "hs", "alpn", "out", "enc", "encOn",
                    "dec", "decOn", "cert", "st"}
              Y == {"ems", "sid", "sendTicket", "resuming", "ms", "kx"}
  <2>6. ServerTurn(e, ok, X, Y)
    <3>1. /\ {"hs"} \cup {"alpn", "hs", "out", "tr"} \subseteq X
          /\ {"sid", "resuming"} \cup {"sendTicket"} \subseteq Y
          /\ X \cup {"enc", "encOn", "dec", "decOn"} \subseteq X /\ Y \cup {} \subseteq Y
          /\ X \cup {"cert", "hs"} \subseteq X /\ Y \cup {"ms"} \subseteq Y
          /\ X \cup {"store", "out", "tr", "encOn"} \subseteq X
          /\ X \cup {"st"} \subseteq X OBVIOUS
    <3>2. ServerTurn(e, f, X, Y) BY <1>2, <1>6, <3>1, ServerTurns
    <3>3. ServerTurn(e, p, X, Y) BY <2>2, <3>1, <3>2, ServerTurns
    <3>4. ServerTurn(e, g, X, Y) BY <2>3, <3>1, <3>3, ServerTurns
    <3>5. ServerTurn(e, h, X, Y) BY <2>4, <3>1, <3>4, ServerTurns
    <3>. QED BY <2>5, <3>1, <3>5, ServerTurns
  <2>7. /\ ok.ver = e.ver /\ ok.suite = f.suite /\ ok.alpn = f.alpn /\ ok.enc = p.enc
        /\ ok.encOn = h.encOn /\ ok.cert = g.cert /\ ok.hs = g.hs /\ ok.cert = h.cert
        /\ ok.store = h.store /\ g.store = e.store /\ ok.tr = h.tr
    <3>1. /\ f.ver = e.ver /\ f.store = e.store
      BY <1>2, <1>6 DEF ServerTurn, Same, SameBut, EndpointFields
    <3>2. /\ g.ver = f.ver /\ g.store = f.store /\ g.suite = f.suite /\ g.alpn = f.alpn
          /\ g.enc = p.enc
      BY <2>2, <2>3 DEF ServerTurn, Same, SameBut, EndpointFields
    <3>3. /\ h.ver = g.ver /\ h.suite = g.suite /\ h.alpn = g.alpn /\ h.enc = g.enc
          /\ h.cert = g.cert /\ h.hs = g.hs
      BY <2>4 DEF ServerTurn, Same, SameBut, EndpointFields
    <3>4. /\ ok.ver = h.ver /\ ok.suite = h.suite /\ ok.alpn = h.alpn /\ ok.enc = h.enc
          /\ ok.encOn = h.encOn /\ ok.cert = h.cert /\ ok.hs = h.hs /\ ok.store = h.store
          /\ ok.tr = h.tr
      BY <2>5 DEF ServerTurn, Same, SameBut, EndpointFields
    <3>. QED BY <3>1, <3>2, <3>3, <3>4
  <2>8. ok.hs.resuming = TRUE
    <3>1. g.hs.resuming = p.hs.resuming BY <2>3 DEF ServerTurn, SameBut, ServerHsFields
    <3>2. p.hs = f.hs BY <2>2 DEF ServerTurn, Same, SameBut, EndpointFields
    <3>3. f.hs.resuming = a.hs.resuming BY <1>6 DEF ServerTurn, SameBut, ServerHsFields
    <3>. QED BY <1>2, <2>7, <3>1, <3>2, <3>3
  <2>9. \A w \in Recs(ok) : \/ w \in Recs(e)
                            \/ Opening12(ok, w)
                            \/ Ticketed12(ok, w)
                            \/ w.typ # "app" /\ w.m.t = "ChangeCipherSpec"
                            \/ ServerFinale12(w, ok)
    <3>1. Recs(ok) = Recs(h) /\ Recs(g) = Recs(f) /\ Recs(a) = Recs(e)
      BY <1>2, <2>2, <2>3, <2>5 DEF Recs
    <3>. QED BY <1>6, <2>4, <2>5, <2>7, <3>1 DEF Opening12, Ticketed12, ServerFinale12
  <2>10. Range(ok.store.cache) \subseteq Range(e.store.cache) BY <2>4, <2>7
  <2>11. Chosen12(e, ok) BY <2>6, <2>7, <2>10 DEF Chosen12
  <2>12. ok.cert = val.cert BY <2>3, <2>7 DEF cert
  <2>. QED BY <2>1, <2>2, <2>3, <2>4, <2>5, <2>7, <2>8, <2>9, <2>11, <2>12 DEF ServerResumes12
<1>. QED BY <1>1, <1>3, <1>4, <1>5, <1>6

\* A message of the server's flight, in the clear.
LEMMA ServerOffersMsg ==
    ASSUME NEW e, ServerShaped(e), NEW m, m.t # "ServerHello",
           m.t = "Certificate" => m.cert = e.cfg.cert,
           m.t \in {"Certificate", "CertificateStatus", "ServerKeyExchange",
                    "CertificateRequest", "ServerHelloDone"}
    PROVE  LET f == Emit(e, m, FALSE) IN
           /\ ServerTurn(e, f, {"out", "tr"}, {})
           /\ \A w \in Recs(f) : w \in Recs(e) \/ Offer12(f, w)
<1>. DEFINE f == Emit(e, m, FALSE)
<1>1. ServerTurn(e, f, {"out", "tr"}, {}) /\ Recs(f) = Recs(e) \cup {Plaintext("handshake", m)}
  BY ServerSays
<1>. HIDE DEF f
<1>2. f.cfg = e.cfg BY <1>1 DEF ServerTurn, Same, SameBut, EndpointFields
<1>3. \A w \in Recs(f) : w \in Recs(e) \/ Offer12(f, w)
  BY <1>1, <1>2 DEF Offer12, Plaintext
<1>. QED BY <1>1, <1>3 DEF f

\* Offers after one another.
LEMMA OffersTogether ==
    ASSUME NEW e, NEW f, NEW g,
           ServerTurn(e, f, {"out", "tr"}, {}), ServerTurn(f, g, {"out", "tr"}, {}),
           \A w \in Recs(f) : w \in Recs(e) \/ Offer12(f, w),
           \A w \in Recs(g) : w \in Recs(f) \/ Offer12(g, w)
    PROVE  /\ ServerTurn(e, g, {"out", "tr"}, {})
           /\ \A w \in Recs(g) : w \in Recs(e) \/ Offer12(g, w)
<1>1. {"out", "tr"} \cup {"out", "tr"} \subseteq {"out", "tr"} /\ {} \cup {} \subseteq {} OBVIOUS
<1>2. ServerTurn(e, g, {"out", "tr"}, {}) BY <1>1, ServerTurns
<1>3. g.suite = f.suite /\ g.alpn = f.alpn /\ g.cfg = f.cfg
  BY DEF ServerTurn, Same, SameBut, EndpointFields
<1>. QED BY <1>2, <1>3 DEF Offer12, Opening12

\* The server's flight after its hello.
LEMMA ServerOffer12Step ==
    ASSUME NEW e, ServerShaped(e), NEW share
    PROVE  LET f == EmitServerDone12(EmitServerKx12(
                        EmitCertStatus(Emit(e, CertificateMsg(e.cfg.cert), FALSE)), share)) IN
           /\ ServerTurn(e, f, {"out", "tr"}, {})
           /\ \A w \in Recs(f) : w \in Recs(e) \/ Offer12(f, w)
<1>. DEFINE cm == CertificateMsg(e.cfg.cert)
            a == Emit(e, cm, FALSE)
            b == EmitCertStatus(a)
            d == EmitServerKx12(b, share)
            r == IF d.cfg.clientAuth = "none" THEN d ELSE Emit(d, CertRequest, FALSE)
            dm == [t |-> "ServerHelloDone", ok |-> TRUE]
            f == Emit(r, dm, FALSE)
            X == {"out", "tr"}
<1>1. EmitServerDone12(d) = f BY DEF EmitServerDone12
<1>2. ServerTurn(e, a, X, {}) /\ \A w \in Recs(a) : w \in Recs(e) \/ Offer12(a, w)
  <2>1. cm.t = "Certificate" /\ cm.cert = e.cfg.cert BY DEF CertificateMsg
  <2>. HIDE DEF cm
  <2>. QED BY <2>1, ServerOffersMsg
<1>. HIDE DEF a
<1>3. ServerTurn(a, b, X, {}) /\ \A w \in Recs(b) : w \in Recs(a) \/ Offer12(b, w)
  <2>1. ServerShaped(a) BY <1>2 DEF ServerTurn
  <2>2. ServerTurn(a, a, X, {}) BY <2>1, ServerRests
  <2>3. CertificateStatusMsg.t = "CertificateStatus" BY DEF CertificateStatusMsg
  <2>4. LET y == Emit(a, CertificateStatusMsg, FALSE) IN
        ServerTurn(a, y, X, {}) /\ \A w \in Recs(y) : w \in Recs(a) \/ Offer12(y, w)
    BY <2>1, <2>3, ServerOffersMsg
  <2>5. b = a \/ b = Emit(a, CertificateStatusMsg, FALSE) BY DEF EmitCertStatus
  <2>. QED BY <2>2, <2>4, <2>5
<1>. HIDE DEF b
<1>4. ServerTurn(b, d, X, {}) /\ \A w \in Recs(d) : w \in Recs(b) \/ Offer12(d, w)
  <2>1. ServerShaped(b) BY <1>3 DEF ServerTurn
  <2>2. ServerKxMsg(b, share).t = "ServerKeyExchange" BY DEF ServerKxMsg
  <2>. QED BY <2>1, <2>2, ServerOffersMsg DEF EmitServerKx12
<1>. HIDE DEF d
<1>5. ServerTurn(d, r, X, {}) /\ \A w \in Recs(r) : w \in Recs(d) \/ Offer12(r, w)
  <2>1. ServerShaped(d) BY <1>4 DEF ServerTurn
  <2>2. ServerTurn(d, d, X, {}) BY <2>1, ServerRests
  <2>3. CertRequest.t = "CertificateRequest" BY DEF CertRequest
  <2>4. LET y == Emit(d, CertRequest, FALSE) IN
        ServerTurn(d, y, X, {}) /\ \A w \in Recs(y) : w \in Recs(d) \/ Offer12(y, w)
    BY <2>1, <2>3, ServerOffersMsg
  <2>. QED BY <2>2, <2>4
<1>. HIDE DEF r
<1>6. ServerTurn(r, f, X, {}) /\ \A w \in Recs(f) : w \in Recs(r) \/ Offer12(f, w)
  <2>1. ServerShaped(r) BY <1>5 DEF ServerTurn
  <2>. QED BY <2>1, ServerOffersMsg
<1>. HIDE DEF f
<1>7. ServerTurn(e, b, X, {}) /\ \A w \in Recs(b) : w \in Recs(e) \/ Offer12(b, w)
  BY <1>2, <1>3, OffersTogether
<1>8. ServerTurn(e, d, X, {}) /\ \A w \in Recs(d) : w \in Recs(e) \/ Offer12(d, w)
  BY <1>4, <1>7, OffersTogether
<1>9. ServerTurn(e, r, X, {}) /\ \A w \in Recs(r) : w \in Recs(e) \/ Offer12(r, w)
  BY <1>5, <1>8, OffersTogether
<1>10. ServerTurn(e, f, X, {}) /\ \A w \in Recs(f) : w \in Recs(e) \/ Offer12(f, w)
  BY <1>6, <1>9, OffersTogether
<1>. QED BY <1>1, <1>10 DEF d, b, a

\* The flight of a full handshake.
LEMMA FullHandshakeStep ==
    ASSUME NEW e0, ServerShaped(e0), ~Failed(e0), e0.ver = 12, NEW m, NEW group
    PROVE  LET f == FullHandshake12(e0, m, group) IN
           ServerRefuses(e0, f) \/ ServerOffers12(e0, f)
<1>. DEFINE sid == IF e0.cfg.cache /\ m.ticket = None
                   THEN Some([by |-> "server", n |-> e0.n]) ELSE None
            a == [e0 EXCEPT !.hs.sid = sid]
            e == EmitServerHello12(a, m, e0.cfg.ocsp)
            share == Share(group, 1)
            h == EmitServerDone12(EmitServerKx12(
                        EmitCertStatus(Emit(e, CertificateMsg(e.cfg.cert), FALSE)), share))
            st == IF e0.cfg.clientAuth = "none" THEN "ExpectClientKx"
                                                ELSE "ExpectClientCertificate12"
            ok == [h EXCEPT !.hs.kx = <<share>>, !.st = st]
<1>1. FullHandshake12(e0, m, group)
        = IF e.err # "none" THEN e
          ELSE [h EXCEPT !.hs.kx = <<share>>,
                         !.st = IF e.cfg.clientAuth = "none" THEN "ExpectClientKx"
                                                             ELSE "ExpectClientCertificate12"]
  BY DEF FullHandshake12, Some
<1>2. \/ st = "ExpectClientCertificate12"
      \/ st = "ExpectClientKx" /\ e0.cfg.clientAuth = "none"
  OBVIOUS
<1>. HIDE DEF sid, share
<1>3. ServerTurn(e0, a, {"hs"}, {"sid"}) /\ a.out = e0.out
  <2>1. /\ Same(e0, a, {"hs"}) /\ SameBut(ServerHsFields, e0.hs, a.hs, {"sid"})
        /\ a.out = e0.out
    BY DEF ServerShaped, Shaped, IsRecord, Same, SameBut, EndpointFields, ServerHsFields
  <2>. HIDE DEF a
  <2>2. {"hs"} \cap {"out", "plain", "queued", "side", "store"} = {} OBVIOUS
  <2>. QED BY <2>1, <2>2, ServerNotes
<1>. HIDE DEF a
<1>4. \/ \E x : /\ ServerTurn(a, x, {"alpn", "hs"}, {"sendTicket"}) /\ x.out = a.out
                /\ e = Fatal(x, "NoApplicationProtocol")
      \/ /\ ServerTurn(a, e, {"alpn", "hs", "out", "tr"}, {"sendTicket"})
         /\ \A w \in Recs(e) : w \in Recs(a) \/ Opening12(e, w)
  <2>1. ServerShaped(a) BY <1>3 DEF ServerTurn
  <2>. QED BY <2>1, ServerHello12Emitted
<1>. HIDE DEF e
<1>5. ASSUME NEW x, ServerTurn(a, x, {"alpn", "hs"}, {"sendTicket"}), x.out = a.out,
             e = Fatal(x, "NoApplicationProtocol")
      PROVE  e.err # "none" /\ ServerRefuses(e0, e)
  <2>1. ServerTurn(e0, a, {"hs"}, {"sid", "resuming"}) BY <1>3 DEF ServerTurn, SameBut
  <2>2. ServerRefuses(e0, e) BY <1>3, <1>5, <2>1, ServerRefuses12
  <2>. QED BY <2>2 DEF ServerRefuses, Failed
<1>6. ASSUME ServerTurn(a, e, {"alpn", "hs", "out", "tr"}, {"sendTicket"}),
             \A w \in Recs(e) : w \in Recs(a) \/ Opening12(e, w)
      PROVE  e.err = "none" /\ e.cfg = e0.cfg /\ ServerOffers12(e0, ok)
  <2>1. e.err = "none" /\ e.cfg = e0.cfg
    BY <1>3, <1>6 DEF ServerTurn, Same, SameBut, EndpointFields, Failed
  <2>2. ServerTurn(e, h, {"out", "tr"}, {}) /\ \A w \in Recs(h) : w \in Recs(e) \/ Offer12(h, w)
    <3>1. ServerShaped(e) BY <1>6 DEF ServerTurn
    <3>. QED BY <3>1, ServerOffer12Step
  <2>. HIDE DEF h, st
  <2>3. ServerTurn(h, ok, {"hs", "st"}, {"kx"}) /\ ok.st = st /\ ok.out = h.out
    <3>1. ServerShaped(h) BY <2>2 DEF ServerTurn
    <3>2. /\ Same(h, ok, {"hs", "st"}) /\ SameBut(ServerHsFields, h.hs, ok.hs, {"kx"})
          /\ ok.out = h.out /\ ok.st = st
      BY <3>1 DEF ServerShaped, Shaped, IsRecord, Same, SameBut, EndpointFields, ServerHsFields
    <3>. HIDE DEF ok
    <3>3. {"hs", "st"} \cap {"out", "plain", "queued", "side", "store"} = {} OBVIOUS
    <3>. QED BY <3>1, <3>2, <3>3, ServerNotes
  <2>. HIDE DEF ok
  <2>. DEFINE X == {"ver", "suite", "store", "tr", "hs", "alpn", "out", "enc", "encOn",
                    "dec", "decOn", "cert", "st"}
              Y == {"ems", "sid", "sendTicket", "resuming", "ms", "kx"}
  <2>4. ServerTurn(e0, ok, X, Y)
    <3>1. /\ {"hs"} \cup {"alpn", "hs", "out", "tr"} \subseteq X
          /\ {"sid"} \cup {"sendTicket"} \subseteq Y
          /\ X \cup {"out", "tr"} \subseteq X /\ Y \cup {} \subseteq Y
          /\ X \cup {"hs", "st"} \subseteq X /\ Y \cup {"kx"} \subseteq Y OBVIOUS
    <3>2. ServerTurn(e0, e, X, Y) BY <1>3, <1>6, <3>1, ServerTurns
    <3>3. ServerTurn(e0, h, X, Y) BY <2>2, <3>1, <3>2, ServerTurns
    <3>. QED BY <2>3, <3>1, <3>3, ServerTurns
  <2>5. /\ ok.ver = e0.ver /\ ok.suite = h.suite /\ ok.alpn = h.alpn /\ ok.store = e0.store
        /\ h.suite = e.suite /\ h.alpn = e.alpn /\ ok.cfg = h.cfg
    <3>1. e.ver = e0.ver /\ e.store = e0.store
      BY <1>3, <1>6 DEF ServerTurn, Same, SameBut, EndpointFields
    <3>2. h.ver = e.ver /\ h.store = e.store /\ h.suite = e.suite /\ h.alpn = e.alpn
      BY <2>2 DEF ServerTurn, Same, SameBut, EndpointFields
    <3>3. /\ ok.ver = h.ver /\ ok.store = h.store /\ ok.suite = h.suite /\ ok.alpn = h.alpn
          /\ ok.cfg = h.cfg
      BY <2>3 DEF ServerTurn, Same, SameBut, EndpointFields
    <3>. QED BY <3>1, <3>2, <3>3
  <2>6. ok.hs.resuming = e0.hs.resuming
    <3>1. a.hs.resuming = e0.hs.resuming BY <1>3 DEF ServerTurn, SameBut, ServerHsFields
    <3>2. e.hs.resuming = a.hs.resuming BY <1>6 DEF ServerTurn, SameBut, ServerHsFields
    <3>3. h.hs.resuming = e.hs.resuming BY <2>2 DEF ServerTurn, SameBut, ServerHsFields
    <3>4. ok.hs.resuming = h.hs.resuming BY <2>3 DEF ServerTurn, SameBut, ServerHsFields
    <3>. QED BY <3>1, <3>2, <3>3, <3>4
  <2>7. \A w \in Recs(ok) : w \in Recs(e0) \/ Offer12(ok, w)
    <3>1. Recs(ok) = Recs(h) /\ Recs(a) = Recs(e0) BY <1>3, <2>3 DEF Recs
    <3>. QED BY <1>6, <2>2, <2>5, <3>1 DEF Opening12, Offer12
  <2>8. Chosen12(e0, ok) BY <2>4, <2>5 DEF Chosen12
  <2>. QED BY <1>2, <2>1, <2>3, <2>6, <2>7, <2>8 DEF ServerOffers12, st
<1>. HIDE DEF h
<1>7. e.cfg = e0.cfg =>
        ok = [h EXCEPT !.hs.kx = <<share>>,
                       !.st = IF e.cfg.clientAuth = "none" THEN "ExpectClientKx"
                                                           ELSE "ExpectClientCertificate12"]
  OBVIOUS
<1>. HIDE DEF ok
<1>. QED BY <1>1, <1>4, <1>5, <1>6, <1>7

\* A turn before a refusal.
LEMMA RefusesLater ==
    ASSUME NEW e, NEW a, NEW f,
           ServerTurn(e, a, {"ver", "suite", "store", "tr", "hs"}, {"ems"}), a.out = e.out,
           Range(a.store.cache) \subseteq Range(e.store.cache), ServerRefuses(a, f)
    PROVE  ServerRefuses(e, f)
<1>. DEFINE X == {"ver", "suite", "tr", "cert", "alpn", "store", "hs", "out", "err",
                  "sentFatal", "enc", "encOn", "dec", "decOn", "trial"}
            Y == {"sec", "psk", "ems", "sid", "resuming", "sendTicket"}
            X1 == {"ver", "suite", "store", "tr", "hs"}
<1>1. ServerTurn(a, f, X, Y) BY DEF ServerRefuses
<1>2. X1 \cup X \subseteq X /\ {"ems"} \cup Y \subseteq Y OBVIOUS
<1>3. ServerTurn(e, f, X, Y) BY <1>1, <1>2, ServerTurns
<1>4. Recs(a) = Recs(e) BY DEF Recs
<1>. QED BY <1>3, <1>4 DEF ServerRefuses

\* CompleteClientHelloHandling of tls12.rs
LEMMA ClientHello12Step ==
    ASSUME NEW e, ServerShaped(e), ~Failed(e), e.ver = 12, NEW m
    PROVE  LET f == ClientHello12(e, m) IN
           \/ ServerRefuses(e, f)
           \/ \E val : SessionFrom(e, m, val) /\ ServerResumes12(e, f, val)
           \/ ServerOffers12(e, f)
<1>. DEFINE used == IF m.ticket # None /\ e.cfg.ticketer THEN MaybeRoll(e) ELSE e
            g == Hash(used, m)
            ems == m.ems
            f == [g EXCEPT !.hs.ems = ems]
            val == Session12(e, m)
            group == FirstIn(e.cfg.groups, Range(m.groups))
            X == {"store", "tr", "hs"}
            Y == {"ems"}
<1>1. ClientHello12(e, m)
        = IF val # None THEN StartResumption(f, m, val[1])
          ELSE IF group = None THEN Fatal(f, "HandshakeFailure")
          ELSE FullHandshake12(f, m, group[1])
  BY DEF ClientHello12
<1>2. val # None => SessionFrom(e, m, val[1]) BY Session12From
<1>. HIDE DEF val, group, ems
<1>3. ServerTurn(e, used, {"store"}, {}) /\ used.out = e.out /\ used.store.cache = e.store.cache
  <2>1. ServerTurn(e, e, {"store"}, {}) BY ServerRests
  <2>2. /\ ServerTurn(e, MaybeRoll(e), {"store"}, {}) /\ MaybeRoll(e).out = e.out
        /\ MaybeRoll(e).store.cache = e.store.cache
    BY RollStep DEF Sheds
  <2>. QED BY <2>1, <2>2
<1>. HIDE DEF used
<1>4. ServerTurn(used, g, {"tr"}, {}) /\ g.out = used.out BY <1>3, ServerHashes DEF ServerTurn
<1>. HIDE DEF g
<1>5. ServerTurn(g, f, {"hs"}, {"ems"}) /\ f.out = g.out
  <2>1. ServerShaped(g) BY <1>4 DEF ServerTurn
  <2>2. /\ Same(g, f, {"hs"}) /\ SameBut(ServerHsFields, g.hs, f.hs, {"ems"}) /\ f.out = g.out
    BY <2>1 DEF ServerShaped, Shaped, IsRecord, Same, SameBut, EndpointFields, ServerHsFields
  <2>. HIDE DEF f
  <2>3. {"hs"} \cap {"out", "plain", "queued", "side", "store"} = {} OBVIOUS
  <2>. QED BY <2>1, <2>2, <2>3, ServerNotes
<1>. HIDE DEF f
<1>6. ServerTurn(e, f, X, Y)
  <2>1. /\ {"store"} \cup {"tr"} \subseteq X /\ {} \cup {} \subseteq Y
        /\ X \cup {"hs"} \subseteq X /\ Y \cup {"ems"} \subseteq Y OBVIOUS
  <2>2. ServerTurn(e, g, X, Y) BY <1>3, <1>4, <2>1, ServerTurns
  <2>. QED BY <1>5, <2>1, <2>2, ServerTurns
<1>7. /\ f.out = e.out /\ f.ver = 12 /\ ~Failed(f) /\ ServerShaped(f) /\ f.cfg = e.cfg
      /\ f.store.cache = e.store.cache /\ Recs(f) = Recs(e)
  <2>1. f.store = g.store /\ g.store = used.store
    BY <1>4, <1>5 DEF ServerTurn, Same, SameBut, EndpointFields
  <2>2. f.ver = e.ver /\ f.err = e.err /\ f.cfg = e.cfg
    BY <1>6 DEF ServerTurn, Same, SameBut, EndpointFields
  <2>. QED BY <1>3, <1>4, <1>5, <1>6, <2>1, <2>2 DEF ServerTurn, Failed, Recs
<1>8. f.hs.resuming = e.hs.resuming BY <1>6 DEF ServerTurn, SameBut, ServerHsFields
<1>9. ASSUME NEW g2, ServerRefuses(f, g2) PROVE ServerRefuses(e, g2)
  <2>1. ServerTurn(e, f, {"ver", "suite", "store", "tr", "hs"}, {"ems"})
    BY <1>6 DEF ServerTurn, Same, SameBut
  <2>2. Range(f.store.cache) \subseteq Range(e.store.cache) BY <1>7
  <2>. QED BY <1>7, <1>9, <2>1, <2>2, RefusesLater
<1>10. ASSUME NEW g2, Chosen12(f, g2) PROVE Chosen12(e, g2)
  <2>. DEFINE X2 == {"ver", "suite", "store", "tr", "hs", "alpn", "out", "enc", "encOn",
                     "dec", "decOn", "cert", "st"}
              Y2 == {"ems", "sid", "sendTicket", "resuming", "ms", "kx"}
  <2>1. ServerTurn(f, g2, X2, Y2) BY <1>10 DEF Chosen12
  <2>2. X \cup X2 \subseteq X2 /\ Y \cup Y2 \subseteq Y2 OBVIOUS
  <2>3. ServerTurn(e, g2, X2, Y2) BY <1>6, <2>1, <2>2, ServerTurns
  <2>. QED BY <1>7, <1>10, <2>3 DEF Chosen12
<1>11. CASE val # None
  <2>. DEFINE r == StartResumption(f, m, val[1])
  <2>1. ServerRefuses(f, r) \/ ServerResumes12(f, r, val[1]) BY <1>7, ResumptionStep
  <2>. HIDE DEF r
  <2>2. ServerResumes12(f, r, val[1]) => ServerResumes12(e, r, val[1])
    BY <1>7, <1>10 DEF ServerResumes12
  <2>. QED BY <1>1, <1>2, <1>9, <1>11, <2>1, <2>2 DEF r
<1>12. CASE val = None /\ group # None
  <2>. DEFINE r == FullHandshake12(f, m, group[1])
  <2>1. ServerRefuses(f, r) \/ ServerOffers12(f, r) BY <1>7, FullHandshakeStep
  <2>. HIDE DEF r
  <2>2. ServerOffers12(f, r) => ServerOffers12(e, r)
    BY <1>7, <1>8, <1>10 DEF ServerOffers12
  <2>. QED BY <1>1, <1>9, <1>12, <2>1, <2>2 DEF r
<1>13. CASE val = None /\ group = None
  <2>1. ServerRefuses(f, Fatal(f, "HandshakeFailure")) BY <1>7, ServerRefusesNow
  <2>. QED BY <1>1, <1>9, <1>13, <2>1
<1>. QED BY <1>11, <1>12, <1>13

\* What a server makes of a ClientHello.
ServerAnswers(e, f, m) ==
    \/ ServerRefuses(e, f)
    \/ ServerRetries(e, f)
    \/ ServerChose13(e, f, m)
    \/ \E val : SessionFrom(e, m, val) /\ ServerResumes12(e, f, val)
    \/ ServerOffers12(e, f)

\* ExpectClientHello::with_certified_key
LEMMA ServerHelloStep ==
    ASSUME NEW e, ServerShaped(e), ~Failed(e), NEW m
    PROVE  ServerAnswers(e, HandleClientHello(e, m), m)
<1>. DEFINE ver == ChooseVersion(e, m)
            suite == ChooseSuite(e, m, ver)
            f == [e EXCEPT !.ver = ver]
            chosen == suite[1]
            g == [f EXCEPT !.suite = chosen]
            X == {"ver", "suite"}
<1>1. HandleClientHello(e, m)
        = IF ver = 0 THEN Fatal(e, "ProtocolVersion")
          ELSE IF suite = None THEN Fatal(f, "HandshakeFailure")
          ELSE IF HashVaried(e, chosen) THEN Fatal(g, "IllegalParameter")
          ELSE IF ver = 13 THEN ClientHello13(g, m) ELSE ClientHello12(g, m)
  BY DEF HandleClientHello
<1>2. ver \in {0, 12, 13} BY DEF ChooseVersion
<1>. HIDE DEF ver, suite, chosen
<1>3. ServerTurn(e, f, X, {}) /\ f.out = e.out /\ f.store = e.store
  <2>1. Same(e, f, X) /\ f.out = e.out /\ f.store = e.store
    BY DEF ServerShaped, Shaped, IsRecord, Same, SameBut, EndpointFields
  <2>. HIDE DEF f
  <2>2. "out" \notin X /\ "plain" \notin X /\ "queued" \notin X
        /\ "hs" \notin X /\ "store" \notin X /\ "side" \notin X OBVIOUS
  <2>3. Shaped(f) BY <2>1, <2>2, SameShaped DEF ServerShaped
  <2>. QED BY <2>1, <2>2, <2>3, ServerQuiet
<1>4. ServerTurn(e, g, X, {}) /\ g.out = e.out /\ g.store = e.store /\ g.ver = ver
  <2>1. Same(e, g, X) /\ g.out = e.out /\ g.store = e.store /\ g.ver = ver
    BY DEF ServerShaped, Shaped, IsRecord, Same, SameBut, EndpointFields
  <2>. HIDE DEF g
  <2>2. "out" \notin X /\ "plain" \notin X /\ "queued" \notin X
        /\ "hs" \notin X /\ "store" \notin X /\ "side" \notin X OBVIOUS
  <2>3. Shaped(g) BY <2>1, <2>2, SameShaped DEF ServerShaped
  <2>. QED BY <2>1, <2>2, <2>3, ServerQuiet
<1>. HIDE DEF f, g
<1>5. ServerShaped(f) /\ ServerShaped(g) BY <1>3, <1>4 DEF ServerTurn
<1>6. /\ ~Failed(g) /\ g.hs = e.hs /\ g.cfg = e.cfg /\ Recs(g) = Recs(e)
  BY <1>4 DEF ServerTurn, Same, SameBut, EndpointFields, Failed, Recs
<1>7. ASSUME NEW a \in {f, g}, NEW r, ServerRefuses(a, r) PROVE ServerRefuses(e, r)
  <2>1. ServerTurn(e, a, {"ver", "suite", "store", "tr", "hs"}, {"ems"})
    BY <1>3, <1>4 DEF ServerTurn, Same, SameBut
  <2>2. a.out = e.out /\ Range(a.store.cache) \subseteq Range(e.store.cache) BY <1>3, <1>4
  <2>. QED BY <1>7, <2>1, <2>2, RefusesLater
<1>8. ASSUME NEW val, SessionFrom(g, m, val) PROVE SessionFrom(e, m, val)
  BY <1>4, <1>8 DEF SessionFrom
<1>9. ServerRefuses(e, Fatal(e, "ProtocolVersion")) BY ServerRefusesNow
<1>10. ServerRefuses(e, Fatal(f, "HandshakeFailure")) BY <1>5, <1>7, ServerRefusesNow
<1>11. ServerRefuses(e, Fatal(g, "IllegalParameter")) BY <1>5, <1>7, ServerRefusesNow
<1>12. ASSUME ver = 13 PROVE ServerAnswers(e, ClientHello13(g, m), m)
  <2>. DEFINE r == ClientHello13(g, m)
  <2>1. ServerRefuses(g, r) \/ ServerRetries(g, r) \/ ServerChose13(g, r, m)
    BY <1>4, <1>5, <1>12, ClientHello13Step
  <2>. HIDE DEF r
  <2>2. ASSUME ServerRetries(g, r) PROVE ServerRetries(e, r)
    <3>. DEFINE F == {"ver", "suite", "tr", "out", "hs", "st"}
                H == {"retry", "skip"}
    <3>1. ServerTurn(g, r, F, H) BY <2>2 DEF ServerRetries
    <3>2. X \cup F \subseteq F /\ {} \cup H \subseteq H OBVIOUS
    <3>3. ServerTurn(e, r, F, H) BY <1>4, <3>1, <3>2, ServerTurns
    <3>. QED BY <1>6, <2>2, <3>3 DEF ServerRetries, Adds
  <2>3. ASSUME ServerChose13(g, r, m) PROVE ServerChose13(e, r, m)
    <3>. DEFINE F == {"ver", "suite", "store", "tr", "cert", "out", "dec", "decOn", "trial",
                      "hs", "enc", "encOn", "alpn", "maySend", "mayRecv", "plain", "st"}
                H == {"sec", "psk", "ed", "fin"}
    <3>1. ServerTurn(g, r, F, H) BY <2>3 DEF ServerChose13
    <3>2. X \cup F \subseteq F /\ {} \cup H \subseteq H OBVIOUS
    <3>3. ServerTurn(e, r, F, H) BY <1>4, <3>1, <3>2, ServerTurns
    <3>. QED BY <1>4, <1>6, <1>8, <2>3, <3>3 DEF ServerChose13
  <2>4. ServerAnswers(e, r, m) BY <1>7, <2>1, <2>2, <2>3 DEF ServerAnswers
  <2>. QED BY <2>4 DEF r
<1>13. ASSUME ver = 12 PROVE ServerAnswers(e, ClientHello12(g, m), m)
  <2>. DEFINE r == ClientHello12(g, m)
              F == {"ver", "suite", "store", "tr", "hs", "alpn", "out", "enc", "encOn",
                    "dec", "decOn", "cert", "st"}
              H == {"ems", "sid", "sendTicket", "resuming", "ms", "kx"}
  <2>1. \/ ServerRefuses(g, r)
        \/ \E val : SessionFrom(g, m, val) /\ ServerResumes12(g, r, val)
        \/ ServerOffers12(g, r)
    BY <1>4, <1>5, <1>6, <1>13, ClientHello12Step
  <2>. HIDE DEF r
  <2>2. ASSUME Chosen12(g, r) PROVE Chosen12(e, r)
    <3>1. ServerTurn(g, r, F, H) BY <2>2 DEF Chosen12
    <3>2. X \cup F \subseteq F /\ {} \cup H \subseteq H OBVIOUS
    <3>3. ServerTurn(e, r, F, H) BY <1>4, <3>1, <3>2, ServerTurns
    <3>. QED BY <1>4, <2>2, <3>3 DEF Chosen12
  <2>3. ASSUME NEW val, ServerResumes12(g, r, val) PROVE ServerResumes12(e, r, val)
    BY <1>6, <2>2, <2>3 DEF ServerResumes12
  <2>4. ServerOffers12(g, r) => ServerOffers12(e, r) BY <1>6, <2>2 DEF ServerOffers12
  <2>5. ServerAnswers(e, r, m) BY <1>7, <1>8, <2>1, <2>3, <2>4 DEF ServerAnswers
  <2>. QED BY <2>5 DEF r
<1>14. ServerAnswers(e, Fatal(e, "ProtocolVersion"), m)
       /\ ServerAnswers(e, Fatal(f, "HandshakeFailure"), m)
       /\ ServerAnswers(e, Fatal(g, "IllegalParameter"), m)
  BY <1>9, <1>10, <1>11 DEF ServerAnswers
<1>. QED BY <1>1, <1>2, <1>12, <1>13, <1>14
-------------------------------------------------------------------------------
(***************************************************************************)
(* The handlers after the hello.                                           *)
(***************************************************************************)
\* A server that fails later on.
ServerFails(e, f) ==
    /\ ServerTurn(e, f, {"out", "sentFatal", "err", "tr", "dec", "decOn", "trial"}, {})
    /\ Failed(f) /\ Adds(e, f, {"Alert"})
    /\ e.st \notin {"ExpectClientCertificate", "ExpectClientCertificate12"} => f.tr = e.tr

\* A server that fails at once.
LEMMA ServerFailsNow ==
    ASSUME NEW e, ServerShaped(e), NEW desc, desc # "none"
    PROVE  ServerFails(e, Fatal(e, desc))
<1>. DEFINE f == Fatal(e, desc)
<1>1. ServerTurn(e, f, {"out", "sentFatal", "err"}, {}) /\ Failed(f) /\ Adds(e, f, {"Alert"})
  BY ServerFatal
<1>. HIDE DEF f
<1>2. ServerTurn(e, f, {"out", "sentFatal", "err", "tr", "dec", "decOn", "trial"}, {})
  BY <1>1 DEF ServerTurn, Same, SameBut
<1>3. f.tr = e.tr BY <1>1 DEF ServerTurn, Same, SameBut, EndpointFields
<1>4. ServerFails(e, f) BY <1>1, <1>2, <1>3 DEF ServerFails
<1>. QED BY <1>4 DEF f

\* A server that was given a certificate, or none when it may do without.
ServerPresents(e, f, m) ==
    /\ ServerTurn(e, f, {"tr", "hs", "st"}, {"cert", "log"}) /\ f.out = e.out
    /\ e.st \in {"ExpectClientCertificate", "ExpectClientCertificate12"}
    /\ \/ /\ e.cfg.clientAuth # "required" /\ f.hs.cert = e.hs.cert
          /\ f.st = IF e.st = "ExpectClientCertificate" THEN "ExpectClientFinished"
                                                        ELSE "ExpectClientKx"
       \/ /\ f.hs.cert # "none" /\ f.hs.cert \in e.cfg.trusts
          /\ f.st = IF e.st = "ExpectClientCertificate" THEN "ExpectClientCertificateVerify"
                                                        ELSE "ExpectClientKx"

\* ExpectCertificate::handle of the server, in both versions
LEMMA ClientCertificateStep ==
    ASSUME NEW e, ServerShaped(e), NEW m,
           NEW verified, NEW skipped,
           \/ /\ e.st = "ExpectClientCertificate" /\ verified = "ExpectClientCertificateVerify"
              /\ skipped = "ExpectClientFinished"
           \/ /\ e.st = "ExpectClientCertificate12" /\ verified = "ExpectClientKx"
              /\ skipped = "ExpectClientKx"
    PROVE  LET f == ClientCertificate(e, m, verified, skipped) IN
           ServerFails(e, f) \/ ServerPresents(e, f, m)
<1>. DEFINE h == Hash(e, m)
            cert == m.cert
            a == [h EXCEPT !.hs.log = FALSE, !.st = skipped]
            b == [h EXCEPT !.hs.cert = cert, !.st = verified]
<1>1. ClientCertificate(e, m, verified, skipped)
        = IF m.cert = "none"
          THEN IF e.cfg.clientAuth = "required" THEN Fatal(h, "CertificateRequired") ELSE a
          ELSE IF m.cert \notin e.cfg.trusts THEN Fatal(h, "BadCertificate") ELSE b
  BY DEF ClientCertificate
<1>2. ServerTurn(e, h, {"tr"}, {}) /\ h.out = e.out BY ServerHashes
<1>. HIDE DEF h
<1>3. ServerShaped(h) BY <1>2 DEF ServerTurn
<1>4. \A desc : desc # "none" => ServerFails(e, Fatal(h, desc))
  <2>1. ASSUME NEW desc, desc # "none" PROVE ServerFails(e, Fatal(h, desc))
    <3>. DEFINE f == Fatal(h, desc)
                X == {"out", "sentFatal", "err", "tr", "dec", "decOn", "trial"}
    <3>1. ServerTurn(h, f, {"out", "sentFatal", "err"}, {}) /\ Failed(f) /\ Adds(h, f, {"Alert"})
      BY <1>3, <2>1, ServerFatal
    <3>. HIDE DEF f
    <3>2. {"tr"} \cup {"out", "sentFatal", "err"} \subseteq X /\ {} \cup {} \subseteq {} OBVIOUS
    <3>3. ServerTurn(e, f, X, {}) BY <1>2, <3>1, <3>2, ServerTurns
    <3>4. Adds(e, f, {"Alert"}) BY <1>2, <3>1 DEF Adds, Recs
    <3>5. ServerFails(e, f) BY <3>1, <3>3, <3>4 DEF ServerFails
    <3>. QED BY <3>5 DEF f
  <2>. QED BY <2>1
<1>. HIDE DEF cert
<1>5. /\ ServerTurn(h, a, {"hs", "st"}, {"cert", "log"}) /\ a.out = h.out
      /\ a.st = skipped /\ a.hs.cert = h.hs.cert
  <2>1. /\ Same(h, a, {"hs", "st"}) /\ SameBut(ServerHsFields, h.hs, a.hs, {"cert", "log"})
        /\ a.out = h.out /\ a.st = skipped /\ a.hs.cert = h.hs.cert
    BY <1>3 DEF ServerShaped, Shaped, IsRecord, Same, SameBut, EndpointFields, ServerHsFields
  <2>. HIDE DEF a
  <2>2. {"hs", "st"} \cap {"out", "plain", "queued", "side", "store"} = {} OBVIOUS
  <2>. QED BY <1>3, <2>1, <2>2, ServerNotes
<1>6. /\ ServerTurn(h, b, {"hs", "st"}, {"cert", "log"}) /\ b.out = h.out
      /\ b.st = verified /\ b.hs.cert = cert
  <2>1. /\ Same(h, b, {"hs", "st"}) /\ SameBut(ServerHsFields, h.hs, b.hs, {"cert", "log"})
        /\ b.out = h.out /\ b.st = verified /\ b.hs.cert = cert
    BY <1>3 DEF ServerShaped, Shaped, IsRecord, Same, SameBut, EndpointFields, ServerHsFields
  <2>. HIDE DEF b
  <2>2. {"hs", "st"} \cap {"out", "plain", "queued", "side", "store"} = {} OBVIOUS
  <2>. QED BY <1>3, <2>1, <2>2, ServerNotes
<1>. HIDE DEF a, b
<1>7. {"tr"} \cup {"hs", "st"} \subseteq {"tr", "hs", "st"}
      /\ {} \cup {"cert", "log"} \subseteq {"cert", "log"} OBVIOUS
<1>8. ServerTurn(e, a, {"tr", "hs", "st"}, {"cert", "log"}) BY <1>2, <1>5, <1>7, ServerTurns
<1>9. ServerTurn(e, b, {"tr", "hs", "st"}, {"cert", "log"}) BY <1>2, <1>6, <1>7, ServerTurns
<1>10. h.hs.cert = e.hs.cert BY <1>2 DEF ServerTurn, SameBut, ServerHsFields
<1>11. e.cfg.clientAuth # "required" => ServerPresents(e, a, m)
  BY <1>2, <1>5, <1>8, <1>10 DEF ServerPresents
<1>12. m.cert # "none" /\ m.cert \in e.cfg.trusts => ServerPresents(e, b, m)
  BY <1>2, <1>6, <1>9 DEF ServerPresents, cert
<1>. QED BY <1>1, <1>4, <1>11, <1>12

\* A server that has the proof of the certificate it was given.
ServerBelieves(e, f) ==
    /\ ServerTurn(e, f, {"tr", "cert", "st"}, {}) /\ f.out = e.out /\ f.cert = e.hs.cert
    /\ \/ e.st = "ExpectClientCertificateVerify" /\ f.st = "ExpectClientFinished"
       \/ e.st = "ExpectCertificateVerify12" /\ f.st = "ExpectClientCcs"

\* ExpectCertificateVerify::handle of the server, in both versions
LEMMA ClientVerifyStep ==
    ASSUME NEW e, ServerShaped(e), NEW m
    PROVE  /\ e.st = "ExpectClientCertificateVerify" =>
                 LET f == ClientCertificateVerify(e, m) IN ServerFails(e, f) \/ ServerBelieves(e, f)
           /\ e.st = "ExpectCertificateVerify12" =>
                 LET f == CertificateVerify12(e, m) IN ServerFails(e, f) \/ ServerBelieves(e, f)
<1>. DEFINE h == Hash(e, m)
            cert == e.hs.cert
            a == [h EXCEPT !.cert = cert, !.st = "ExpectClientFinished"]
            b == [h EXCEPT !.cert = cert, !.st = "ExpectClientCcs"]
<1>1. ClientCertificateVerify(e, m) \in {Fatal(e, "DecryptError"), a}
  BY DEF ClientCertificateVerify
<1>2. CertificateVerify12(e, m) \in {Fatal(e, "AccessDenied"), Fatal(e, "DecryptError"), b}
  BY DEF CertificateVerify12
<1>3. ServerTurn(e, h, {"tr"}, {}) /\ h.out = e.out BY ServerHashes
<1>. HIDE DEF h, cert
<1>4. ServerShaped(h) BY <1>3 DEF ServerTurn
<1>5. /\ ServerTurn(h, a, {"cert", "st"}, {}) /\ a.out = h.out
      /\ a.cert = cert /\ a.st = "ExpectClientFinished"
  <2>1. /\ Same(h, a, {"cert", "st"}) /\ a.out = h.out /\ a.cert = cert
        /\ a.st = "ExpectClientFinished"
    BY <1>4 DEF ServerShaped, Shaped, IsRecord, Same, SameBut, EndpointFields
  <2>. HIDE DEF a
  <2>2. "out" \notin {"cert", "st"} /\ "plain" \notin {"cert", "st"} /\ "queued" \notin {"cert", "st"}
        /\ "hs" \notin {"cert", "st"} /\ "store" \notin {"cert", "st"} /\ "side" \notin {"cert", "st"}
    OBVIOUS
  <2>3. Shaped(a) BY <1>4, <2>1, <2>2, SameShaped DEF ServerShaped
  <2>. QED BY <1>4, <2>1, <2>2, <2>3, ServerQuiet
<1>6. /\ ServerTurn(h, b, {"cert", "st"}, {}) /\ b.out = h.out
      /\ b.cert = cert /\ b.st = "ExpectClientCcs"
  <2>1. /\ Same(h, b, {"cert", "st"}) /\ b.out = h.out /\ b.cert = cert
        /\ b.st = "ExpectClientCcs"
    BY <1>4 DEF ServerShaped, Shaped, IsRecord, Same, SameBut, EndpointFields
  <2>. HIDE DEF b
  <2>2. "out" \notin {"cert", "st"} /\ "plain" \notin {"cert", "st"} /\ "queued" \notin {"cert", "st"}
        /\ "hs" \notin {"cert", "st"} /\ "store" \notin {"cert", "st"} /\ "side" \notin {"cert", "st"}
    OBVIOUS
  <2>3. Shaped(b) BY <1>4, <2>1, <2>2, SameShaped DEF ServerShaped
  <2>. QED BY <1>4, <2>1, <2>2, <2>3, ServerQuiet
<1>. HIDE DEF a, b
<1>7. {"tr"} \cup {"cert", "st"} \subseteq {"tr", "cert", "st"} /\ {} \cup {} \subseteq {} OBVIOUS
<1>8. ServerTurn(e, a, {"tr", "cert", "st"}, {}) BY <1>3, <1>5, <1>7, ServerTurns
<1>9. ServerTurn(e, b, {"tr", "cert", "st"}, {}) BY <1>3, <1>6, <1>7, ServerTurns
<1>10. e.st = "ExpectClientCertificateVerify" => ServerBelieves(e, a)
  BY <1>3, <1>5, <1>8 DEF ServerBelieves, cert
<1>11. e.st = "ExpectCertificateVerify12" => ServerBelieves(e, b)
  BY <1>3, <1>6, <1>9 DEF ServerBelieves, cert
<1>12. ServerFails(e, Fatal(e, "DecryptError")) /\ ServerFails(e, Fatal(e, "AccessDenied"))
  BY ServerFailsNow
<1>. QED BY <1>1, <1>2, <1>10, <1>11, <1>12

\* A server that reads, skips, or changes what it receives with.
ServerReads(e, f) ==
    /\ ServerTurn(e, f, {"received", "early", "hs", "dec", "decOn", "trial", "tr", "st"}, {"skip"})
    /\ f.out = e.out
    /\ \/ f.st = e.st /\ f.tr = e.tr
       \/ e.st = "ExpectEarlyData" /\ f.st = "ExpectClientFinished"
       \/ e.st = "ExpectClientCcs" /\ f.st = "ExpectClientFinished12" /\ f.tr = e.tr

\* A server that changes no more than it may when it reads.
LEMMA ServerReadsQuietly ==
    ASSUME NEW e, ServerShaped(e), NEW f, NEW X,
           Same(e, f, X), X \subseteq {"received", "early", "dec", "decOn", "trial", "tr", "st"}
    PROVE  /\ ServerTurn(e, f, {"received", "early", "hs", "dec", "decOn", "trial", "tr", "st"},
                         {"skip"})
           /\ f.out = e.out
<1>. DEFINE Y == {"received", "early", "dec", "decOn", "trial", "tr", "st"}
<1>1. Same(e, f, Y) BY DEF Same, SameBut
<1>2. "out" \notin Y /\ "plain" \notin Y /\ "queued" \notin Y
      /\ "hs" \notin Y /\ "store" \notin Y /\ "side" \notin Y OBVIOUS
<1>3. Shaped(f) BY <1>1, <1>2, SameShaped DEF ServerShaped
<1>4. ServerTurn(e, f, Y, {}) BY <1>1, <1>2, <1>3, ServerQuiet
<1>5. f.out = e.out BY <1>1 DEF Same, SameBut, EndpointFields
<1>. QED BY <1>4, <1>5 DEF ServerTurn, Same, SameBut

\* What is read, and the handlers that only change the receiving direction.
LEMMA ServerReadsStep ==
    ASSUME NEW e, ServerShaped(e), NEW m
    PROVE  /\ ServerReads(e, TakeReceived(e, m))
           /\ ServerReads(e, EarlyData(e, m)) \/ ServerFails(e, EarlyData(e, m))
           /\ e.st = "ExpectEarlyData" => ServerReads(e, EarlyDataEnds(e, m))
           /\ e.st = "ExpectClientCcs" => ServerReads(e, ClientCcs12(e))
           /\ ServerReads(e, Skipped(e))
<1>1. ServerReads(e, TakeReceived(e, m))
  <2>. DEFINE x == Append(e.received, m.i)
              f == [e EXCEPT !.received = x]
  <2>1. TakeReceived(e, m) = f BY DEF TakeReceived
  <2>. HIDE DEF x
  <2>2. Same(e, f, {"received"}) /\ f.st = e.st /\ f.tr = e.tr
    BY DEF ServerShaped, Shaped, IsRecord, Same, SameBut, EndpointFields
  <2>. HIDE DEF f
  <2>3. {"received"} \subseteq {"received", "early", "dec", "decOn", "trial", "tr", "st"} OBVIOUS
  <2>. QED BY <2>1, <2>2, <2>3, ServerReadsQuietly DEF ServerReads
<1>2. ServerReads(e, EarlyData(e, m)) \/ ServerFails(e, EarlyData(e, m))
  <2>. DEFINE x == Append(e.early, m.i)
              f == [e EXCEPT !.early = x]
  <2>1. EarlyData(e, m) \in {f, Fatal(e, "UnexpectedMessage")} BY DEF EarlyData, Unexpected
  <2>. HIDE DEF x
  <2>2. Same(e, f, {"early"}) /\ f.st = e.st /\ f.tr = e.tr
    BY DEF ServerShaped, Shaped, IsRecord, Same, SameBut, EndpointFields
  <2>. HIDE DEF f
  <2>3. {"early"} \subseteq {"received", "early", "dec", "decOn", "trial", "tr", "st"} OBVIOUS
  <2>4. ServerReads(e, f) BY <2>2, <2>3, ServerReadsQuietly DEF ServerReads
  <2>. QED BY <2>1, <2>4, ServerFailsNow
<1>3. ASSUME e.st = "ExpectEarlyData" PROVE ServerReads(e, EarlyDataEnds(e, m))
  <2>. DEFINE d == SetHandshakeDecrypter(e)
              h == Hash(d, m)
              f == [h EXCEPT !.st = "ExpectClientFinished"]
              X == {"dec", "decOn", "trial", "tr", "st"}
  <2>1. EarlyDataEnds(e, m) = f BY DEF EarlyDataEnds
  <2>2. ServerTurn(e, d, {"dec", "decOn", "trial"}, {}) /\ d.out = e.out
    BY ServerDecrypts DEF SetHandshakeDecrypter
  <2>. HIDE DEF d
  <2>3. ServerTurn(d, h, {"tr"}, {}) /\ h.out = d.out BY <2>2, ServerHashes DEF ServerTurn
  <2>. HIDE DEF h
  <2>4. ServerTurn(h, f, {"st"}, {}) /\ f.st = "ExpectClientFinished" /\ f.out = h.out
    BY <2>3, ServerMoves DEF ServerTurn
  <2>. HIDE DEF f
  <2>5. {"dec", "decOn", "trial"} \cup {"tr"} \subseteq X /\ X \cup {"st"} \subseteq X
        /\ {} \cup {} \subseteq {} OBVIOUS
  <2>6. ServerTurn(e, h, X, {}) BY <2>2, <2>3, <2>5, ServerTurns
  <2>7. ServerTurn(e, f, X, {}) BY <2>4, <2>5, <2>6, ServerTurns
  <2>8. Same(e, f, X) /\ X \subseteq {"received", "early", "dec", "decOn", "trial", "tr", "st"}
    BY <2>7 DEF ServerTurn
  <2>. QED BY <1>3, <2>1, <2>4, <2>8, ServerReadsQuietly DEF ServerReads
<1>4. ASSUME e.st = "ExpectClientCcs" PROVE ServerReads(e, ClientCcs12(e))
  <2>. DEFINE d == StartDecrypting(e)
              f == [d EXCEPT !.st = "ExpectClientFinished12"]
              X == {"dec", "decOn", "trial", "st"}
  <2>1. ClientCcs12(e) = f BY DEF ClientCcs12
  <2>2. ServerTurn(e, d, {"dec", "decOn", "trial"}, {}) /\ d.out = e.out BY ServerDecrypts
  <2>. HIDE DEF d
  <2>3. ServerTurn(d, f, {"st"}, {}) /\ f.st = "ExpectClientFinished12" /\ f.out = d.out
    BY <2>2, ServerMoves DEF ServerTurn
  <2>. HIDE DEF f
  <2>4. {"dec", "decOn", "trial"} \cup {"st"} \subseteq X /\ {} \cup {} \subseteq {} OBVIOUS
  <2>5. ServerTurn(e, f, X, {}) BY <2>2, <2>3, <2>4, ServerTurns
  <2>6. Same(e, f, X) /\ X \subseteq {"received", "early", "dec", "decOn", "trial", "tr", "st"}
    BY <2>5 DEF ServerTurn
  <2>7. f.tr = e.tr BY <2>6 DEF Same, SameBut, EndpointFields
  <2>. QED BY <1>4, <2>1, <2>3, <2>6, <2>7, ServerReadsQuietly DEF ServerReads
<1>5. ServerReads(e, Skipped(e))
  <2>. DEFINE x == e.hs.skip - EarlyRecordLen
              f == [e EXCEPT !.hs.skip = x]
  <2>1. Skipped(e) = f
    BY DEF Skipped, ServerShaped, Shaped, IsRecord, EndpointFields, ServerHsFields
  <2>. HIDE DEF x
  <2>2. /\ Same(e, f, {"hs"}) /\ SameBut(ServerHsFields, e.hs, f.hs, {"skip"})
        /\ f.out = e.out /\ f.st = e.st /\ f.tr = e.tr
    BY DEF ServerShaped, Shaped, IsRecord, Same, SameBut, EndpointFields, ServerHsFields
  <2>. HIDE DEF f
  <2>3. {"hs"} \cap {"out", "plain", "queued", "side", "store"} = {} OBVIOUS
  <2>4. ServerTurn(e, f, {"hs"}, {"skip"}) BY <2>2, <2>3, ServerNotes
  <2>5. ServerTurn(e, f, {"received", "early", "hs", "dec", "decOn", "trial", "tr", "st"}, {"skip"})
    BY <2>4 DEF ServerTurn, Same, SameBut
  <2>6. ServerReads(e, f) BY <2>2, <2>5 DEF ServerReads
  <2>. QED BY <2>1, <2>6
<1>. QED BY <1>1, <1>2, <1>3, <1>4, <1>5

\* A server that was asked for new keys.
ServerRekeyed(e, f) ==
    /\ ServerTurn(e, f, {"queued", "enc", "encOn", "dec", "decOn", "trial"}, {}) /\ f.out = e.out
    /\ e.st = "ExpectTraffic"
    /\ \/ f.queued = e.queued /\ f.enc = e.enc /\ f.encOn = e.encOn
       \/ /\ Keyed(f, {"traffic"})
          /\ \A w \in Range(f.queued) : w.typ = "handshake" /\ w.m.t = "KeyUpdate"

\* ExpectTraffic::handle of the server
LEMMA ServerTraffic13Step ==
    ASSUME NEW e, ServerShaped(e), NEW m, e.st = "ExpectTraffic"
    PROVE  LET f == ServerTraffic13(e, m) IN
           ServerFails(e, f) \/ ServerReads(e, f) \/ ServerRekeyed(e, f)
<1>. DEFINE g == HandleKeyUpdate(e, m)
<1>1. ServerTraffic13(e, m) \in {TakeReceived(e, m), g, Fatal(e, "UnexpectedMessage")}
  BY DEF ServerTraffic13, Unexpected
<1>2. /\ Shaped(g) /\ Same(e, g, {"queued", "enc", "encOn", "dec", "decOn", "trial"})
      /\ \/ g.queued = e.queued /\ g.enc = e.enc /\ g.encOn = e.encOn
         \/ /\ g.encOn = TRUE /\ g.enc # None /\ g.enc[1].k = "traffic"
            /\ \A w \in Range(g.queued) : w.typ = "handshake" /\ w.m.t = "KeyUpdate"
  BY KeyUpdateFrame DEF ServerShaped
<1>. HIDE DEF g
<1>3. ServerTurn(e, g, {"queued", "enc", "encOn", "dec", "decOn", "trial"}, {})
  BY <1>2, ServerQuiet
<1>4. g.out = e.out BY <1>2 DEF Same, SameBut, EndpointFields
<1>5. ServerRekeyed(e, g) BY <1>2, <1>3, <1>4 DEF ServerRekeyed, Keyed
<1>6. ServerFails(e, Fatal(e, "UnexpectedMessage")) BY ServerFailsNow
<1>7. ServerReads(e, TakeReceived(e, m)) BY ServerReadsStep
<1>. QED BY <1>1, <1>5, <1>6, <1>7

\* A server that has the client's key share, of a full TLS 1.2 handshake.
ServerKeyed12(e, f) ==
    /\ ServerTurn(e, f, {"tr", "enc", "encOn", "dec", "decOn", "hs", "st"}, {"ms"})
    /\ f.out = e.out /\ f.hs.ms = <<f.hs.ms[1]>>
    /\ f.enc = <<f.enc[1]>> /\ f.enc[1].k = "tls12"
    /\ f.st = IF e.hs.cert = "none" THEN "ExpectClientCcs" ELSE "ExpectCertificateVerify12"

\* ExpectClientKx::handle
LEMMA ClientKxStep ==
    ASSUME NEW e, ServerShaped(e), NEW m
    PROVE  ServerKeyed12(e, ClientKx(e, m))
<1>. DEFINE h == Hash(e, m)
            kx == [n |-> e.n, g |-> e.hs.kx[1].g, c |-> m.share.i, s |-> e.hs.kx[1].i]
            ms == MasterSecret(kx, e.hs.ems, h.tr)
            p == StartEncryption12(h, ms)
            st == IF e.hs.cert = "none" THEN "ExpectClientCcs" ELSE "ExpectCertificateVerify12"
            f == [p EXCEPT !.hs.ms = <<ms>>, !.st = st]
            X == {"tr", "enc", "encOn", "dec", "decOn", "hs", "st"}
<1>1. ClientKx(e, m) = f BY DEF ClientKx, Some
<1>2. ServerTurn(e, h, {"tr"}, {}) /\ h.out = e.out BY ServerHashes
<1>. HIDE DEF ms, st, h
<1>3. /\ ServerTurn(h, p, {"enc", "encOn", "dec", "decOn"}, {}) /\ p.out = h.out
      /\ p.enc = <<p.enc[1]>> /\ p.enc[1].k = "tls12"
  BY <1>2, ServerPrepares12 DEF ServerTurn
<1>. HIDE DEF p
<1>4. /\ ServerTurn(p, f, {"hs", "st"}, {"ms"}) /\ f.out = p.out /\ f.hs.ms = <<ms>>
      /\ f.st = st /\ f.enc = p.enc
  <2>1. ServerShaped(p) BY <1>3 DEF ServerTurn
  <2>2. /\ Same(p, f, {"hs", "st"}) /\ SameBut(ServerHsFields, p.hs, f.hs, {"ms"})
        /\ f.out = p.out /\ f.hs.ms = <<ms>> /\ f.st = st /\ f.enc = p.enc
    BY <2>1 DEF ServerShaped, Shaped, IsRecord, Same, SameBut, EndpointFields, ServerHsFields
  <2>. HIDE DEF f
  <2>3. {"hs", "st"} \cap {"out", "plain", "queued", "side", "store"} = {} OBVIOUS
  <2>. QED BY <2>1, <2>2, <2>3, ServerNotes
<1>. HIDE DEF f
<1>5. ServerTurn(e, f, X, {"ms"})
  <2>1. {"tr"} \cup {"enc", "encOn", "dec", "decOn"} \subseteq X /\ {} \cup {} \subseteq {}
        /\ X \cup {"hs", "st"} \subseteq X /\ {} \cup {"ms"} \subseteq {"ms"} OBVIOUS
  <2>2. ServerTurn(e, p, X, {}) BY <1>2, <1>3, <2>1, ServerTurns
  <2>. QED BY <1>4, <2>1, <2>2, ServerTurns
<1>6. ServerKeyed12(e, f) BY <1>2, <1>3, <1>4, <1>5 DEF ServerKeyed12, st
<1>. QED BY <1>1, <1>6

\* A TLS 1.3 ticket that holds a session holds the certificate of the connection.
Ticketed13(e, w) ==
    /\ w.typ # "app" /\ w.m.t = "NewSessionTicket"
    /\ "key" \in DOMAIN w.m.ticket => w.m.ticket.val.cert = e.cert

\* What a server keeps of a connection holds its certificate.
KeepsCert(e, f) ==
    \A x \in Range(f.store.cache) : x \in Range(e.store.cache) \/ x.val.cert = e.cert

\* The youngest elements of a sequence.
LEMMA YoungestElements ==
    ASSUME NEW q, IsSeq(q), NEW n \in Int
    PROVE  IsSeq(Youngest(q, n)) /\ Range(Youngest(q, n)) \subseteq Range(q)
<1>1. Len(q) \in Nat BY SeqElements DEF IsSeq
<1>2. CASE Len(q) > n
  <2>1. Len(q) - n + 1 \in Int /\ Len(q) \in Int /\ Len(q) - n + 1 >= 1 /\ Len(q) <= Len(q)
    BY <1>1, <1>2
  <2>2. /\ IsSeq(SubSeq(q, Len(q) - n + 1, Len(q)))
        /\ Range(SubSeq(q, Len(q) - n + 1, Len(q))) \subseteq Range(q)
    BY <2>1, SubSeqElements
  <2>. QED BY <1>2, <2>2 DEF Youngest
<1>3. CASE ~(Len(q) > n) BY <1>3 DEF Youngest
<1>. QED BY <1>2, <1>3

\* The sessions of a connection go to the cache.
LEMMA StoreSessionsStep ==
    ASSUME NEW e, ServerShaped(e), e.cfg.sendTickets \in Nat
    PROVE  LET f == StoreSessions13(e) IN
           /\ ServerTurn(e, f, {"store"}, {}) /\ f.out = e.out /\ KeepsCert(e, f)
<1>. DEFINE n == e.cfg.sendTickets
            Entry(i) == [id |-> CacheId(e, i), val |-> Ticket13Value(e, i)]
            new == [i \in 1..n |-> Entry(i)]
            q == e.store.cache
            r == Youngest(q \o new, CacheCapacity - 1)
            f == [e EXCEPT !.store.cache = r]
<1>1. StoreSessions13(e) = f
  <2>1. e.store.cache = q OBVIOUS
  <2>. QED BY DEF StoreSessions13
<1>2. \A i : Entry(i).val.cert = e.cert BY DEF Ticket13Value, SessionValue
<1>. HIDE DEF Entry
<1>3. IsSeq(new) /\ Range(new) = {new[i] : i \in 1..n} BY FunctionElements
<1>4. \A x \in Range(new) : x.val.cert = e.cert BY <1>2, <1>3
<1>. HIDE DEF new, n
<1>5. IsSeq(q) BY DEF ServerShaped
<1>6. IsSeq(r) /\ \A x \in Range(r) : x \in Range(q) \/ x.val.cert = e.cert
  <2>1. IsSeq(q \o new) /\ Range(q \o new) = Range(q) \cup Range(new)
    BY <1>3, <1>5, ConcatElements
  <2>2. CacheCapacity - 1 \in Int BY CacheAssumption
  <2>3. IsSeq(r) /\ Range(r) \subseteq Range(q \o new) BY <2>1, <2>2, YoungestElements
  <2>. QED BY <1>4, <2>1, <2>3
<1>. HIDE DEF r
<1>7. /\ Same(e, f, {"store"}) /\ SameBut(ServerStoreFields, e.store, f.store, {"cache"})
      /\ f.store.cache = r
  BY DEF ServerShaped, Shaped, IsRecord, Same, SameBut, EndpointFields, ServerStoreFields
<1>. HIDE DEF f
<1>8. IsRecord(f.store, ServerStoreFields) BY <1>7 DEF SameBut, IsRecord
<1>9. ServerTurn(e, f, {"store"}, {}) /\ f.out = e.out BY <1>6, <1>7, <1>8, StoreTurn
<1>10. KeepsCert(e, f) BY <1>6, <1>7 DEF KeepsCert
<1>. QED BY <1>1, <1>9, <1>10

\* Tickets are sent.
LEMMA SendTicketsStep ==
    ASSUME NEW e, ServerShaped(e), e.cfg.sendTickets \in Nat
    PROVE  LET f == SendTickets13(e) IN
           /\ ServerTurn(e, f, {"out"}, {})
           /\ \A w \in Recs(f) : w \in Recs(e) \/ Ticketed13(e, w)
<1>. DEFINE n == e.cfg.sendTickets
            Rec(i) == Sealed(e, "handshake", Ticket13Msg(e, i))
            new == [i \in 1..n |-> Rec(i)]
            q == e.out
            r == q \o new
            f == [e EXCEPT !.out = r]
<1>1. SendTickets13(e) = f BY DEF SendTickets13
<1>2. \A i : Ticketed13(e, Rec(i))
  <2>1. ASSUME NEW i PROVE Ticketed13(e, Rec(i))
    <3>. DEFINE m == Ticket13Msg(e, i)
                val == Ticket13Value(e, i)
    <3>1. val.cert = e.cert BY DEF Ticket13Value, SessionValue
    <3>. HIDE DEF val
    <3>2. m.t = "NewSessionTicket" /\ m.ticket \in {Encrypt(e, val), CacheId(e, i)}
      BY DEF Ticket13Msg, NewSessionTicketMsg, val
    <3>3. Encrypt(e, val).val.cert = e.cert BY <3>1 DEF Encrypt
    <3>4. "key" \notin DOMAIN CacheId(e, i) BY DEF CacheId
    <3>. HIDE DEF m
    <3>5. Rec(i).typ = "handshake" /\ Rec(i).m = m BY DEF Sealed, m
    <3>. QED BY <3>2, <3>3, <3>4, <3>5 DEF Ticketed13
  <2>. QED BY <2>1
<1>. HIDE DEF Rec
<1>3. IsSeq(new) /\ Range(new) = {new[i] : i \in 1..n} BY FunctionElements
<1>4. \A w \in Range(new) : Ticketed13(e, w) BY <1>2, <1>3
<1>. HIDE DEF new
<1>5. IsSeq(q) BY DEF ServerShaped, Shaped
<1>6. IsSeq(r) /\ Range(r) = Range(q) \cup Range(new) BY <1>3, <1>5, ConcatElements
<1>. HIDE DEF r
<1>7. Same(e, f, {"out"}) /\ f.out = r
  BY DEF ServerShaped, Shaped, IsRecord, Same, SameBut, EndpointFields
<1>. HIDE DEF f
<1>8. IsSeq(f.out) BY <1>6, <1>7
<1>9. f.plain = e.plain /\ f.queued = e.queued BY <1>7 DEF Same, SameBut, EndpointFields
<1>10. Shaped(f) BY <1>7, <1>8, <1>9 DEF Shaped, ServerShaped, Same, SameBut, IsRecord
<1>11. "hs" \notin {"out"} /\ "store" \notin {"out"} /\ "side" \notin {"out"} OBVIOUS
<1>12. ServerTurn(e, f, {"out"}, {}) BY <1>7, <1>10, <1>11, ServerQuiet
<1>. QED BY <1>1, <1>4, <1>6, <1>7, <1>12 DEF Recs

\* emit_ticket of tls13.rs, as often as is configured
LEMMA Tickets13Step ==
    ASSUME NEW e, ServerShaped(e), e.cfg.sendTickets \in Nat
    PROVE  LET f == EmitTickets13(e) IN
           /\ ServerTurn(e, f, {"store", "out"}, {}) /\ KeepsCert(e, f)
           /\ \A w \in Recs(f) : w \in Recs(e) \/ Ticketed13(e, w)
<1>. DEFINE g == IF e.cfg.ticketer THEN MaybeRoll(e) ELSE StoreSessions13(e)
            f == SendTickets13(g)
<1>1. EmitTickets13(e) \in {e, f} BY DEF EmitTickets13
<1>2. ServerTurn(e, g, {"store"}, {}) /\ g.out = e.out /\ KeepsCert(e, g)
  <2>1. /\ ServerTurn(e, MaybeRoll(e), {"store"}, {}) /\ MaybeRoll(e).out = e.out
        /\ KeepsCert(e, MaybeRoll(e))
    BY RollStep DEF Sheds, KeepsCert
  <2>2. /\ ServerTurn(e, StoreSessions13(e), {"store"}, {}) /\ StoreSessions13(e).out = e.out
        /\ KeepsCert(e, StoreSessions13(e))
    BY StoreSessionsStep
  <2>. QED BY <2>1, <2>2
<1>. HIDE DEF g
<1>3. ServerShaped(g) /\ g.cfg = e.cfg /\ g.cert = e.cert
  BY <1>2 DEF ServerTurn, Same, SameBut, EndpointFields
<1>4. ServerTurn(g, f, {"out"}, {}) /\ \A w \in Recs(f) : w \in Recs(g) \/ Ticketed13(g, w)
  BY <1>3, SendTicketsStep
<1>. HIDE DEF f
<1>5. {"store"} \cup {"out"} \subseteq {"store", "out"} /\ {} \cup {} \subseteq {} OBVIOUS
<1>6. ServerTurn(e, f, {"store", "out"}, {}) BY <1>2, <1>4, <1>5, ServerTurns
<1>7. f.store = g.store /\ Recs(g) = Recs(e)
  BY <1>2, <1>4 DEF ServerTurn, Same, SameBut, EndpointFields, Recs
<1>8. KeepsCert(e, f) /\ \A w \in Recs(f) : w \in Recs(e) \/ Ticketed13(e, w)
  BY <1>2, <1>3, <1>4, <1>7 DEF KeepsCert, Ticketed13
<1>9. ServerTurn(e, e, {"store", "out"}, {}) /\ KeepsCert(e, e) BY ServerRests DEF KeepsCert
<1>. QED BY <1>1, <1>6, <1>8, <1>9

\* A unit that goes out under the key in use.
FlushedBy(e, w) ==
    /\ w.typ = "app" /\ w.m.t = "ApplicationData"
    /\ w.key = IF e.encOn THEN e.enc ELSE None

\* A server that finished a handshake of TLS 1.3.
ServerFinishes13(e, f, m) ==
    /\ ServerTurn(e, f, {"store", "out", "tr", "dec", "decOn", "trial", "maySend", "mayRecv",
                         "plain", "st"}, {})
    /\ f.st = "ExpectTraffic"
    /\ m.verify = FinishOf("client", e.hs.sec[1], e.tr) /\ f.tr = Append(e.tr, m.t)
    /\ KeepsCert(e, f)
    /\ \A w \in Recs(f) : w \in Recs(e) \/ Ticketed13(e, w) \/ FlushedBy(e, w)

\* ExpectFinished::handle of the server in TLS 1.3
LEMMA ClientFinished13Step ==
    ASSUME NEW e, ServerShaped(e), e.cfg.sendTickets \in Nat, NEW m
    PROVE  LET f == ClientFinished13(e, m) IN ServerFails(e, f) \/ ServerFinishes13(e, f, m)
<1>. DEFINE key == TrafficKey("client", e.hs.fin[1], 0)
            d == SetDecrypter(e, key)
            h == Hash(d, m)
            k == EmitTickets13(h)
            p == StartTraffic(k)
            f == [p EXCEPT !.st = "ExpectTraffic"]
            bad == Fatal(d, "DecryptError")
            X == {"store", "out", "tr", "dec", "decOn", "trial", "maySend", "mayRecv",
                  "plain", "st"}
<1>1. ClientFinished13(e, m)
        = IF m.verify # FinishOf("client", e.hs.sec[1], e.tr) THEN bad ELSE f
  BY DEF ClientFinished13
<1>2. ServerTurn(e, d, {"dec", "decOn", "trial"}, {}) /\ d.out = e.out BY ServerDecrypts
<1>. HIDE DEF d
<1>3. ServerFails(e, bad)
  <2>1. ServerTurn(d, bad, {"out", "sentFatal", "err"}, {}) /\ Failed(bad)
        /\ Adds(d, bad, {"Alert"})
    BY <1>2, ServerFatal DEF ServerTurn
  <2>. HIDE DEF bad
  <2>. DEFINE Z == {"out", "sentFatal", "err", "tr", "dec", "decOn", "trial"}
  <2>2. {"dec", "decOn", "trial"} \cup {"out", "sentFatal", "err"} \subseteq Z
        /\ {} \cup {} \subseteq {} OBVIOUS
  <2>3. ServerTurn(e, bad, Z, {}) BY <1>2, <2>1, <2>2, ServerTurns
  <2>4. bad.tr = d.tr /\ d.tr = e.tr
    BY <1>2, <2>1 DEF ServerTurn, Same, SameBut, EndpointFields
  <2>5. Adds(e, bad, {"Alert"}) BY <1>2, <2>1 DEF Adds, Recs
  <2>. QED BY <2>1, <2>3, <2>4, <2>5 DEF ServerFails
<1>4. ServerTurn(d, h, {"tr"}, {}) /\ h.out = d.out /\ h.tr = Append(d.tr, m.t)
  BY <1>2, ServerHashes DEF ServerTurn
<1>. HIDE DEF h
<1>5. /\ ServerShaped(h) /\ h.cfg = e.cfg /\ h.cert = e.cert /\ d.tr = e.tr
      /\ h.store = e.store /\ h.enc = e.enc /\ h.encOn = e.encOn
  <2>1. /\ d.cfg = e.cfg /\ d.cert = e.cert /\ d.tr = e.tr
        /\ d.store = e.store /\ d.enc = e.enc /\ d.encOn = e.encOn
    BY <1>2 DEF ServerTurn, Same, SameBut, EndpointFields
  <2>. QED BY <1>4, <2>1 DEF ServerTurn, Same, SameBut, EndpointFields
<1>6. /\ ServerTurn(h, k, {"store", "out"}, {}) /\ KeepsCert(h, k)
      /\ \A w \in Recs(k) : w \in Recs(h) \/ Ticketed13(h, w)
  BY <1>5, Tickets13Step
<1>. HIDE DEF k
<1>7. /\ ServerTurn(k, p, {"maySend", "mayRecv", "out", "plain"}, {})
      /\ Recs(p) = Recs(k) \cup {AppRecord(k, x) : x \in Range(k.plain)}
  BY <1>6, ServerStarts DEF ServerTurn
<1>. HIDE DEF p
<1>8. ServerTurn(p, f, {"st"}, {}) /\ f.st = "ExpectTraffic" /\ f.out = p.out
  BY <1>7, ServerMoves DEF ServerTurn
<1>. HIDE DEF f
<1>9. ServerTurn(e, f, X, {})
  <2>1. /\ {"dec", "decOn", "trial"} \cup {"tr"} \subseteq X /\ {} \cup {} \subseteq {}
        /\ X \cup {"store", "out"} \subseteq X
        /\ X \cup {"maySend", "mayRecv", "out", "plain"} \subseteq X
        /\ X \cup {"st"} \subseteq X OBVIOUS
  <2>2. ServerTurn(e, h, X, {}) BY <1>2, <1>4, <2>1, ServerTurns
  <2>3. ServerTurn(e, k, X, {}) BY <1>6, <2>1, <2>2, ServerTurns
  <2>4. ServerTurn(e, p, X, {}) BY <1>7, <2>1, <2>3, ServerTurns
  <2>. QED BY <1>8, <2>1, <2>4, ServerTurns
<1>10. f.tr = h.tr /\ f.store = k.store /\ k.enc = e.enc /\ k.encOn = e.encOn
  <2>1. f.tr = p.tr /\ f.store = p.store
    BY <1>8 DEF ServerTurn, Same, SameBut, EndpointFields
  <2>2. p.tr = k.tr /\ p.store = k.store
    BY <1>7 DEF ServerTurn, Same, SameBut, EndpointFields
  <2>3. k.tr = h.tr /\ k.enc = h.enc /\ k.encOn = h.encOn
    BY <1>6 DEF ServerTurn, Same, SameBut, EndpointFields
  <2>. QED BY <1>5, <2>1, <2>2, <2>3
<1>11. KeepsCert(e, f) BY <1>5, <1>6, <1>10 DEF KeepsCert
<1>12. \A w \in Recs(f) : w \in Recs(e) \/ Ticketed13(e, w) \/ FlushedBy(e, w)
  <2>1. Recs(f) = Recs(p) /\ Recs(h) = Recs(e) BY <1>2, <1>4, <1>8 DEF Recs
  <2>2. \A x : FlushedBy(e, AppRecord(k, x)) BY <1>10 DEF FlushedBy, AppRecord, Sealed, AppData
  <2>. QED BY <1>5, <1>6, <1>7, <2>1, <2>2 DEF Ticketed13
<1>13. m.verify = FinishOf("client", e.hs.sec[1], e.tr) => ServerFinishes13(e, f, m)
  BY <1>4, <1>5, <1>8, <1>9, <1>10, <1>11, <1>12 DEF ServerFinishes13
<1>. QED BY <1>1, <1>3, <1>13

\* LimitedCache::insert
LEMMA PutStep ==
    ASSUME NEW e, ServerShaped(e), NEW id, NEW val, val.cert = e.cert
    PROVE  LET f == Put(e, id, val) IN
           ServerTurn(e, f, {"store"}, {}) /\ f.out = e.out /\ KeepsCert(e, f)
<1>. DEFINE x == [id |-> id, val |-> val]
            q == e.store.cache
            all == Append(q, x)
            r == IF Len(all) = CacheCapacity THEN Tail(all) ELSE all
            f == [e EXCEPT !.store.cache = r]
<1>1. Put(e, id, val) \in {e, f} BY DEF Put
<1>2. x.val.cert = e.cert OBVIOUS
<1>. HIDE DEF x
<1>3. IsSeq(q) BY DEF ServerShaped
<1>4. IsSeq(all) /\ Range(all) = Range(q) \cup {x} BY <1>3, AppendElements
<1>5. all # << >>
  <2>1. x \in Range(all) BY <1>4
  <2>2. Range(<< >>) = {} BY EmptyElements
  <2>. HIDE DEF all
  <2>. QED BY <2>1, <2>2
<1>. HIDE DEF all
<1>6. IsSeq(r) /\ Range(r) \subseteq Range(all) BY <1>4, <1>5, TailElements
<1>. HIDE DEF r
<1>7. /\ Same(e, f, {"store"}) /\ SameBut(ServerStoreFields, e.store, f.store, {"cache"})
      /\ f.store.cache = r
  BY DEF ServerShaped, Shaped, IsRecord, Same, SameBut, EndpointFields, ServerStoreFields
<1>. HIDE DEF f
<1>8. IsRecord(f.store, ServerStoreFields) BY <1>7 DEF SameBut, IsRecord
<1>9. ServerTurn(e, f, {"store"}, {}) /\ f.out = e.out BY <1>6, <1>7, <1>8, StoreTurn
<1>10. KeepsCert(e, f) BY <1>2, <1>4, <1>6, <1>7 DEF KeepsCert
<1>11. ServerTurn(e, e, {"store"}, {}) /\ KeepsCert(e, e) BY ServerRests DEF KeepsCert
<1>. QED BY <1>1, <1>9, <1>10, <1>11

\* A server that finished a handshake of TLS 1.2.
ServerFinishes12(e, f, m) ==
    /\ ServerTurn(e, f, {"store", "out", "tr", "encOn", "maySend", "mayRecv", "plain", "st"}, {})
    /\ f.st = "ExpectTraffic12"
    /\ m.verify = Finish12("client", e.hs.ms[1], e.n, e.tr)
    /\ e.hs.resuming => f.tr = Append(e.tr, m.t) /\ f.encOn = e.encOn
    /\ ~e.hs.resuming => f.encOn = TRUE
    /\ KeepsCert(e, f)
    /\ \A w \in Recs(f) : \/ w \in Recs(e)
                          \/ /\ ~e.hs.resuming
                             /\ \/ Ticketed12(f, w)
                                \/ w.typ # "app" /\ w.m.t = "ChangeCipherSpec"
                                \/ ServerFinale12(w, f)
                          \/ FlushedBy(f, w)

\* ExpectFinished::handle of the server in TLS 1.2
LEMMA ClientFinished12Step ==
    ASSUME NEW e, ServerShaped(e), NEW m
    PROVE  LET f == ClientFinished12(e, m) IN ServerFails(e, f) \/ ServerFinishes12(e, f, m)
<1>. DEFINE val == SessionValue(e, 12, e.hs.ms[1], e.hs.ems)
            saved == IF ~e.hs.resuming /\ e.hs.sid # None THEN Put(e, e.hs.sid[1], val) ELSE e
            h == Hash(saved, m)
            k == IF e.hs.resuming THEN h ELSE EmitFinale12(h)
            p == StartTraffic(k)
            f == [p EXCEPT !.st = "ExpectTraffic12"]
            X == {"store", "out", "tr", "encOn", "maySend", "mayRecv", "plain", "st"}
<1>1. ClientFinished12(e, m)
        = IF m.verify # Finish12("client", e.hs.ms[1], e.n, e.tr) THEN Fatal(e, "DecryptError")
          ELSE f
  BY DEF ClientFinished12
<1>2. ServerFails(e, Fatal(e, "DecryptError")) BY ServerFailsNow
<1>3. val.cert = e.cert BY DEF SessionValue
<1>. HIDE DEF val
<1>4. ServerTurn(e, saved, {"store"}, {}) /\ saved.out = e.out /\ KeepsCert(e, saved)
  <2>1. ServerTurn(e, e, {"store"}, {}) /\ KeepsCert(e, e) BY ServerRests DEF KeepsCert
  <2>2. LET y == Put(e, e.hs.sid[1], val) IN
        ServerTurn(e, y, {"store"}, {}) /\ y.out = e.out /\ KeepsCert(e, y)
    BY <1>3, PutStep
  <2>. QED BY <2>1, <2>2
<1>. HIDE DEF saved
<1>5. ServerTurn(saved, h, {"tr"}, {}) /\ h.out = saved.out /\ h.tr = Append(saved.tr, m.t)
  BY <1>4, ServerHashes DEF ServerTurn
<1>. HIDE DEF h
<1>6. /\ h.cert = e.cert /\ saved.tr = e.tr /\ h.store = saved.store /\ h.encOn = e.encOn
      /\ Recs(h) = Recs(e)
  <2>1. saved.cert = e.cert /\ saved.tr = e.tr /\ saved.encOn = e.encOn
    BY <1>4 DEF ServerTurn, Same, SameBut, EndpointFields
  <2>2. h.cert = saved.cert /\ h.store = saved.store /\ h.encOn = saved.encOn
    BY <1>5 DEF ServerTurn, Same, SameBut, EndpointFields
  <2>. QED BY <1>4, <1>5, <2>1, <2>2 DEF Recs
<1>7. /\ ServerTurn(h, k, {"store", "out", "tr", "encOn"}, {})
      /\ k.store.cache = h.store.cache
      /\ e.hs.resuming => k.tr = h.tr /\ k.encOn = h.encOn
      /\ ~e.hs.resuming => k.encOn = TRUE
      /\ \A w \in Recs(k) : \/ w \in Recs(h)
                            \/ /\ ~e.hs.resuming
                               /\ \/ Ticketed12(k, w)
                                  \/ w.typ # "app" /\ w.m.t = "ChangeCipherSpec"
                                  \/ ServerFinale12(w, k)
  <2>1. ServerShaped(h) BY <1>5 DEF ServerTurn
  <2>2. ServerTurn(h, h, {"store", "out", "tr", "encOn"}, {}) BY <2>1, ServerRests
  <2>3. LET y == EmitFinale12(h) IN
        /\ ServerTurn(h, y, {"store", "out", "tr", "encOn"}, {})
        /\ y.store.cache = h.store.cache /\ y.encOn = TRUE
        /\ \A w \in Recs(y) : \/ w \in Recs(h)
                              \/ Ticketed12(y, w)
                              \/ w.typ # "app" /\ w.m.t = "ChangeCipherSpec"
                              \/ ServerFinale12(w, y)
    BY <2>1, ServerFinale12Step
  <2>4. CASE e.hs.resuming
    <3>1. k = h BY <2>4
    <3>. HIDE DEF k
    <3>. QED BY <2>2, <2>4, <3>1
  <2>5. CASE ~e.hs.resuming
    <3>1. k = EmitFinale12(h) BY <2>5
    <3>. HIDE DEF k
    <3>. QED BY <2>3, <2>5, <3>1
  <2>. QED BY <2>4, <2>5
<1>. HIDE DEF k
<1>8. /\ ServerTurn(k, p, {"maySend", "mayRecv", "out", "plain"}, {})
      /\ Recs(p) = Recs(k) \cup {AppRecord(k, x) : x \in Range(k.plain)}
  BY <1>7, ServerStarts DEF ServerTurn
<1>. HIDE DEF p
<1>9. ServerTurn(p, f, {"st"}, {}) /\ f.st = "ExpectTraffic12" /\ f.out = p.out
  BY <1>8, ServerMoves DEF ServerTurn
<1>. HIDE DEF f
<1>10. ServerTurn(e, f, X, {})
  <2>1. /\ {"store"} \cup {"tr"} \subseteq X /\ {} \cup {} \subseteq {}
        /\ X \cup {"store", "out", "tr", "encOn"} \subseteq X
        /\ X \cup {"maySend", "mayRecv", "out", "plain"} \subseteq X
        /\ X \cup {"st"} \subseteq X OBVIOUS
  <2>2. ServerTurn(e, h, X, {}) BY <1>4, <1>5, <2>1, ServerTurns
  <2>3. ServerTurn(e, k, X, {}) BY <1>7, <2>1, <2>2, ServerTurns
  <2>4. ServerTurn(e, p, X, {}) BY <1>8, <2>1, <2>3, ServerTurns
  <2>. QED BY <1>9, <2>1, <2>4, ServerTurns
<1>11. /\ f.tr = k.tr /\ f.store = k.store /\ f.enc = k.enc /\ f.encOn = k.encOn
       /\ f.hs = k.hs /\ f.cert = k.cert /\ f.side = k.side
  <2>1. /\ f.tr = p.tr /\ f.store = p.store /\ f.enc = p.enc /\ f.encOn = p.encOn
        /\ f.hs = p.hs /\ f.cert = p.cert
    BY <1>9 DEF ServerTurn, Same, SameBut, EndpointFields
  <2>2. /\ p.tr = k.tr /\ p.store = k.store /\ p.enc = k.enc /\ p.encOn = k.encOn
        /\ p.hs = k.hs /\ p.cert = k.cert
    BY <1>8 DEF ServerTurn, Same, SameBut, EndpointFields
  <2>3. f.side = "server" /\ k.side = "server" BY <1>7, <1>9 DEF ServerTurn, ServerShaped
  <2>. QED BY <2>1, <2>2, <2>3
<1>12. KeepsCert(e, f) BY <1>4, <1>6, <1>7, <1>11 DEF KeepsCert
<1>13. \A w \in Recs(f) : \/ w \in Recs(e)
                          \/ /\ ~e.hs.resuming
                             /\ \/ Ticketed12(f, w)
                                \/ w.typ # "app" /\ w.m.t = "ChangeCipherSpec"
                                \/ ServerFinale12(w, f)
                          \/ FlushedBy(f, w)
  <2>1. Recs(f) = Recs(p) BY <1>9 DEF Recs
  <2>2. \A x : FlushedBy(f, AppRecord(k, x)) BY <1>11 DEF FlushedBy, AppRecord, Sealed, AppData
  <2>. QED BY <1>6, <1>7, <1>8, <1>11, <2>1, <2>2 DEF Ticketed12, ServerFinale12
<1>14. /\ e.hs.resuming => f.tr = Append(e.tr, m.t) /\ f.encOn = e.encOn
       /\ ~e.hs.resuming => f.encOn = TRUE
  BY <1>5, <1>6, <1>7, <1>11
<1>15. m.verify = Finish12("client", e.hs.ms[1], e.n, e.tr) => ServerFinishes12(e, f, m)
  BY <1>9, <1>10, <1>12, <1>13, <1>14 DEF ServerFinishes12
<1>. QED BY <1>1, <1>2, <1>15

\* What a server may make of a message.
ServerActs(e, f, m) ==
    \/ m.t = "ClientHello" /\ e.st \in ServerHelloStates /\ ServerAnswers(e, f, m)
    \/ ServerFails(e, f)
    \/ ServerPresents(e, f, m)
    \/ ServerBelieves(e, f)
    \/ ServerReads(e, f)
    \/ ServerRekeyed(e, f)
    \/ e.st = "ExpectClientKx" /\ ServerKeyed12(e, f)
    \/ m.t = "Finished" /\ e.st = "ExpectClientFinished" /\ ServerFinishes13(e, f, m)
    \/ m.t = "Finished" /\ e.st = "ExpectClientFinished12" /\ ServerFinishes12(e, f, m)

\* State::handle of a server.
LEMMA ServerHandleStep ==
    ASSUME NEW e, ServerShaped(e), ~Failed(e), NEW m, e.cfg.sendTickets \in Nat
    PROVE  ServerActs(e, ServerHandle(e, m), m)
<1>. DEFINE f == ServerHandle(e, m)
<1>1. e.st \in ServerHelloStates =>
          \/ f = Skipped(e)
          \/ m.t = "ClientHello" /\ f = HandleClientHello(e, m)
          \/ f = Unexpected(e)
  <2>1. CASE m.t = "Opaque" /\ e.st = "ExpectAndSkipRejectedEarlyData"
    <3>1. f = Skipped(e) \/ f = Unexpected(e) BY <2>1 DEF ServerHandle
    <3>. QED BY <3>1
  <2>2. CASE m.t = "ClientHello" /\ e.st \in ServerHelloStates
    <3>1. f = HandleClientHello(e, m) BY <2>2 DEF ServerHandle, Skips, ServerHelloStates
    <3>. QED BY <2>2, <3>1
  <2>3. CASE /\ e.st \in ServerHelloStates /\ m.t # "ClientHello"
             /\ ~(m.t = "Opaque" /\ e.st = "ExpectAndSkipRejectedEarlyData")
    <3>1. f = Unexpected(e) BY <2>3 DEF ServerHandle, Skips, ServerHelloStates
    <3>. QED BY <3>1
  <2>. QED BY <2>1, <2>2, <2>3
<1>2. e.st = "ExpectClientCertificate" =>
          \/ f = ClientCertificate(e, m, "ExpectClientCertificateVerify", "ExpectClientFinished")
          \/ f = Unexpected(e)
  BY DEF ServerHandle, Skips
<1>3. e.st = "ExpectClientCertificateVerify" =>
          f = ClientCertificateVerify(e, m) \/ f = Unexpected(e)
  BY DEF ServerHandle, Skips
<1>4. e.st = "ExpectEarlyData" =>
          f = EarlyData(e, m) \/ f = EarlyDataEnds(e, m) \/ f = Unexpected(e)
  BY DEF ServerHandle, Skips
<1>5. e.st = "ExpectClientFinished" =>
          (m.t = "Finished" /\ f = ClientFinished13(e, m)) \/ f = Unexpected(e)
  BY DEF ServerHandle, Skips
<1>6. e.st = "ExpectTraffic" => f = ServerTraffic13(e, m)
  BY DEF ServerHandle, Skips
<1>7. e.st = "ExpectClientCertificate12" =>
          f = ClientCertificate(e, m, "ExpectClientKx", "ExpectClientKx") \/ f = Unexpected(e)
  BY DEF ServerHandle, Skips
<1>8. e.st = "ExpectClientKx" => f = ClientKx(e, m) \/ f = Unexpected(e)
  BY DEF ServerHandle, Skips
<1>9. e.st = "ExpectCertificateVerify12" => f = CertificateVerify12(e, m) \/ f = Unexpected(e)
  BY DEF ServerHandle, Skips
<1>10. e.st = "ExpectClientCcs" => f = ClientCcs12(e) \/ f = Unexpected(e)
  BY DEF ServerHandle, Skips
<1>11. e.st = "ExpectClientFinished12" =>
          (m.t = "Finished" /\ f = ClientFinished12(e, m)) \/ f = Unexpected(e)
  BY DEF ServerHandle, Skips
<1>12. e.st = "ExpectTraffic12" => f = TakeReceived(e, m) \/ f = Unexpected(e)
  BY DEF ServerHandle, Skips
<1>13. e.st \notin ServerHelloStates \cup Server13States \cup Server12States => f = Unexpected(e)
  BY DEF ServerHandle, Skips, ServerHelloStates, Server13States, Server12States, ServerLate12States
<1>. HIDE DEF f
<1>14. CASE e.st \in ServerHelloStates
  BY <1>1, <1>14, ServerHelloStep, ServerReadsStep, ServerFailsNow DEF ServerActs, Unexpected, f
<1>15. CASE e.st \in {"ExpectClientCertificate", "ExpectClientCertificate12"}
  BY <1>2, <1>7, <1>15, ClientCertificateStep, ServerFailsNow DEF ServerActs, Unexpected, f
<1>16. CASE e.st \in {"ExpectClientCertificateVerify", "ExpectCertificateVerify12"}
  BY <1>3, <1>9, <1>16, ClientVerifyStep, ServerFailsNow DEF ServerActs, Unexpected, f
<1>17. CASE e.st \in {"ExpectEarlyData", "ExpectClientCcs", "ExpectTraffic12"}
  BY <1>4, <1>10, <1>12, <1>17, ServerReadsStep, ServerFailsNow DEF ServerActs, Unexpected, f
<1>18. CASE e.st = "ExpectTraffic" BY <1>6, <1>18, ServerTraffic13Step DEF ServerActs, f
<1>19. CASE e.st = "ExpectClientKx"
  BY <1>8, <1>19, ClientKxStep, ServerFailsNow DEF ServerActs, Unexpected, f
<1>20. CASE e.st = "ExpectClientFinished"
  BY <1>5, <1>20, ClientFinished13Step, ServerFailsNow DEF ServerActs, Unexpected, f
<1>21. CASE e.st = "ExpectClientFinished12"
  BY <1>11, <1>21, ClientFinished12Step, ServerFailsNow DEF ServerActs, Unexpected, f
<1>22. CASE e.st \notin ServerHelloStates \cup Server13States \cup Server12States
  BY <1>13, <1>22, ServerFailsNow DEF ServerActs, Unexpected, f
<1>. QED
  BY <1>14, <1>15, <1>16, <1>17, <1>18, <1>19, <1>20, <1>21, <1>22
  DEF Server13States, Server12States, ServerLate12States
===============================================================================
