------------------------------- MODULE TlsProofs ------------------------------
(***************************************************************************)
(* Lemmas for the proofs about TlsConnection: what the helpers of an        *)
(* endpoint leave alone, what a client or a server keeps to, and what each  *)
(* handler of a client does.  TlsServerProofs goes on with the server.      *)
(*                                                                          *)
(* An endpoint is a record that passes through many small functions, so     *)
(* the proofs first say of each helper which fields it leaves alone, then   *)
(* of each handler what it does to the fields that matter, and only then    *)
(* that the invariants are kept.                                            *)
(***************************************************************************)
EXTENDS TlsConnection, SequenceTheorems, TLAPS

EndpointFields ==
    {"side", "n", "cfg", "store", "age", "hs", "st", "ver", "suite", "alpn", "cert",
     "enc", "encOn", "dec", "decOn", "hasDecrypted", "trial", "maySend", "mayRecv",
     "earlyTraffic", "sentFatal", "closeNotify", "eof", "ccs", "plain", "queued",
     "out", "tr", "err", "written", "received", "early"}
ClientHsFields ==
    {"resuming", "sid", "fakeCcs", "share", "alt", "psk", "suite", "ed", "left", "sec",
     "auth", "cert", "log", "ems", "mustTicket", "status", "kx", "ms", "ticket"}
ServerHsFields ==
    {"retry", "skip", "sec", "fin", "psk", "ed", "cert", "ems", "resuming", "sid",
     "sendTicket", "kx", "ms", "log"}
ClientStoreFields == {"hint", "tls12", "tls13"}
ServerStoreFields == {"cache", "key", "prev", "due"}

IsRecord(r, F) == r = [k \in F |-> r[k]]
IsSeq(q) == q \in Seq(Range(q))

\* b is a but for the fields in X, of a record with the fields F.
SameBut(F, a, b, X) == b = [k \in F |-> IF k \in X THEN b[k] ELSE a[k]]
Same(e, f, X) == SameBut(EndpointFields, e, f, X)

\* What an endpoint is made of.
Shaped(e) ==
    /\ IsRecord(e, EndpointFields)
    /\ IsSeq(e.out) /\ IsSeq(e.plain) /\ IsSeq(e.queued)
ClientShaped(e) ==
    /\ Shaped(e) /\ e.side = "client"
    /\ IsRecord(e.hs, ClientHsFields)
    /\ IsRecord(e.store, ClientStoreFields) /\ IsSeq(e.store.tls13)
ServerShaped(e) ==
    /\ Shaped(e) /\ e.side = "server"
    /\ IsRecord(e.hs, ServerHsFields)
    /\ IsRecord(e.store, ServerStoreFields) /\ IsSeq(e.store.cache)

\* The records an endpoint has under way.
Recs(e) == Range(e.out)
-------------------------------------------------------------------------------
(***************************************************************************)
(* Sequences, by their elements.                                           *)
(***************************************************************************)
\* The elements of a sequence of known elements.
LEMMA SeqElements ==
    ASSUME NEW S, NEW q \in Seq(S)
    PROVE  /\ IsSeq(q) /\ Range(q) \subseteq S
           /\ DOMAIN q = 1..Len(q) /\ Len(q) \in Nat
           /\ Range(q) = {q[i] : i \in 1..Len(q)}
<1>1. DOMAIN q = 1..Len(q) /\ Len(q) \in Nat /\ \A i \in 1..Len(q) : q[i] \in S
  BY ElementOfSeq, LenProperties
<1>2. Range(q) = {q[i] : i \in 1..Len(q)} BY <1>1 DEF Range
<1>3. q \in Seq(Range(q))
  <2>1. q = [i \in 1..Len(q) |-> q[i]] BY <1>1
  <2>2. \A i \in 1..Len(q) : q[i] \in Range(q) BY <1>2
  <2>. QED BY <1>1, <2>1, <2>2, IsASeq
<1>. QED BY <1>1, <1>2, <1>3 DEF IsSeq

\* Append adds one element.
LEMMA AppendElements ==
    ASSUME NEW q, IsSeq(q), NEW x
    PROVE  /\ IsSeq(Append(q, x)) /\ Range(Append(q, x)) = Range(q) \cup {x}
           /\ Append(q, x) # << >>
<1>. DEFINE S == Range(q) \cup {x}
<1>1. q \in Seq(S) /\ x \in S BY DEF IsSeq
<1>2. /\ Append(q, x) \in Seq(S) /\ Len(Append(q, x)) = Len(q) + 1
      /\ Append(q, x)[Len(q) + 1] = x
      /\ \A i \in 1..Len(q) : Append(q, x)[i] = q[i]
  BY <1>1, AppendProperties
<1>3. /\ DOMAIN q = 1..Len(q) /\ DOMAIN Append(q, x) = 1..(Len(q) + 1)
      /\ Len(q) \in Nat
  BY <1>1, <1>2
<1>4. Range(Append(q, x)) = S BY <1>2, <1>3 DEF Range
<1>. QED BY <1>4, <1>2, <1>3 DEF IsSeq

\* Concatenation joins the elements.
LEMMA ConcatElements ==
    ASSUME NEW p, NEW q, IsSeq(p), IsSeq(q)
    PROVE  IsSeq(p \o q) /\ Range(p \o q) = Range(p) \cup Range(q)
<1>. DEFINE S == Range(p) \cup Range(q)
<1>1. p \in Seq(S) /\ q \in Seq(S) BY DEF IsSeq
<1>2. /\ p \o q \in Seq(S) /\ Len(p \o q) = Len(p) + Len(q)
      /\ Len(p) \in Nat /\ Len(q) \in Nat
      /\ \A i \in 1..Len(p) : (p \o q)[i] = p[i]
      /\ \A i \in 1..Len(q) : (p \o q)[Len(p) + i] = q[i]
  BY <1>1, ConcatProperties, LenProperties
<1>3. /\ Range(p \o q) \subseteq S /\ IsSeq(p \o q)
      /\ \A i \in 1..Len(p \o q) : (p \o q)[i] \in Range(p \o q)
  <2>1. Range(p \o q) = {(p \o q)[i] : i \in 1..Len(p \o q)} BY <1>2, SeqElements
  <2>. QED BY <1>2, <2>1, SeqElements
<1>4. ASSUME NEW x \in Range(p) PROVE x \in Range(p \o q)
  <2>1. PICK i \in 1..Len(p) : x = p[i] BY <1>1, <1>4, SeqElements
  <2>2. i \in 1..Len(p \o q) BY <1>2
  <2>. QED BY <1>2, <1>3, <2>1, <2>2
<1>5. ASSUME NEW x \in Range(q) PROVE x \in Range(p \o q)
  <2>1. PICK i \in 1..Len(q) : x = q[i] BY <1>1, <1>5, SeqElements
  <2>2. Len(p) + i \in 1..Len(p \o q) BY <1>2
  <2>. QED BY <1>2, <1>3, <2>1, <2>2
<1>. QED BY <1>3, <1>4, <1>5

\* A function on 1..n is a sequence of its values.
LEMMA FunctionElements ==
    ASSUME NEW n \in Nat, NEW q, q = [i \in 1..n |-> q[i]]
    PROVE  IsSeq(q) /\ Range(q) = {q[i] : i \in 1..n} /\ Len(q) = n
<1>1. DOMAIN q = 1..n OBVIOUS
<1>2. Range(q) = {q[i] : i \in 1..n} BY <1>1 DEF Range
<1>3. q \in Seq(Range(q))
  <2>1. \A i \in 1..n : q[i] \in Range(q) BY <1>2
  <2>. QED BY <2>1, IsASeq
<1>. QED BY <1>1, <1>2, <1>3, LenProperties DEF IsSeq

\* The empty sequence has no elements.
LEMMA EmptyElements == IsSeq(<< >>) /\ Range(<< >>) = {}
<1>1. << >> \in Seq({}) OBVIOUS
<1>2. \A q \in Seq({}) : IsSeq(q) /\ Range(q) \subseteq {} BY SeqElements
<1>3. IsSeq(<< >>) /\ Range(<< >>) \subseteq {} BY <1>1, <1>2, Zenon
<1>. QED BY <1>3

\* An Option that is present has one.
LEMMA SomeElements ==
    ASSUME NEW x PROVE IsSeq(<<x>>) /\ Range(<<x>>) = {x}
<1>1. <<x>> \in Seq({x}) /\ DOMAIN <<x>> = 1..1 OBVIOUS
<1>2. Range(<<x>>) = {x} BY <1>1 DEF Range
<1>. QED BY <1>1, <1>2, SeqElements

\* The rest of a sequence.
LEMMA TailElements ==
    ASSUME NEW q, IsSeq(q), q # << >>
    PROVE  /\ IsSeq(Tail(q)) /\ Range(Tail(q)) \subseteq Range(q)
           /\ Head(q) \in Range(q)
<1>1. q \in Seq(Range(q)) BY DEF IsSeq
<1>2. Tail(q) \in Seq(Range(q)) /\ Head(q) \in Range(q) BY <1>1, HeadTailProperties
<1>. QED BY <1>2, SeqElements

\* Part of a sequence.
LEMMA SubSeqElements ==
    ASSUME NEW q, IsSeq(q), NEW a \in Int, NEW b \in Int, a >= 1, b <= Len(q)
    PROVE  IsSeq(SubSeq(q, a, b)) /\ Range(SubSeq(q, a, b)) \subseteq Range(q)
<1>1. q \in Seq(Range(q)) BY DEF IsSeq
<1>2. \A i \in a..b : q[i] \in Range(q) BY <1>1, ElementOfSeq, LenProperties
<1>3. SubSeq(q, a, b) \in Seq(Range(q)) BY <1>1, <1>2, SubSeqProperties, LenProperties
<1>. QED BY <1>3, SeqElements
-------------------------------------------------------------------------------
(***************************************************************************)
(* What the helpers of an endpoint leave alone.                            *)
(***************************************************************************)
\* Frames add up.
LEMMA SameTwice ==
    ASSUME NEW e, NEW f, NEW g, NEW X, NEW Y, Same(e, f, X), Same(f, g, Y)
    PROVE  Same(e, g, X \cup Y)
  BY DEF Same, SameBut

\* A frame may be read more coarsely.
LEMMA SameWider ==
    ASSUME NEW e, NEW f, NEW X, NEW Y, Same(e, f, X), X \subseteq Y
    PROVE  Same(e, f, Y)
  BY DEF Same, SameBut

\* An endpoint that lost nothing but fields other than its buffers is shaped.
LEMMA SameShaped ==
    ASSUME NEW e, Shaped(e), NEW f, NEW X, Same(e, f, X)
    PROVE  /\ IsRecord(f, EndpointFields)
           /\ (IsSeq(f.out) \/ "out" \notin X) /\ (IsSeq(f.plain) \/ "plain" \notin X)
                /\ (IsSeq(f.queued) \/ "queued" \notin X) => Shaped(f)
<1>1. IsRecord(f, EndpointFields) BY DEF Same, SameBut, IsRecord
<1>2. /\ "out" \notin X => f.out = e.out
      /\ "plain" \notin X => f.plain = e.plain
      /\ "queued" \notin X => f.queued = e.queued
  BY DEF Same, SameBut, EndpointFields
<1>. QED BY <1>1, <1>2 DEF Shaped

\* A record goes to the end of the buffer.
LEMMA PushFrame ==
    ASSUME NEW e, Shaped(e), NEW w, NEW f, f = [e EXCEPT !.out = Append(e.out, w)]
    PROVE  Shaped(f) /\ Same(e, f, {"out"}) /\ Recs(f) = Recs(e) \cup {w}
<1>2. Same(e, f, {"out"}) /\ f.out = Append(e.out, w)
  BY DEF Same, SameBut, Shaped, IsRecord, EndpointFields
<1>3. IsSeq(f.out) /\ Recs(f) = Recs(e) \cup {w}
  BY <1>2, AppendElements DEF Shaped, Recs
<1>4. "plain" \notin {"out"} /\ "queued" \notin {"out"} OBVIOUS
<1>5. Shaped(f) BY <1>2, <1>3, <1>4, SameShaped
<1>. QED BY <1>2, <1>3, <1>5

\* send_msg with the key in use, if there is one.
LEMMA SealFrame ==
    ASSUME NEW e, Shaped(e), NEW typ, NEW m
    PROVE  LET f == SendMsg(e, typ, m, TRUE) IN
           Shaped(f) /\ Same(e, f, {"out"}) /\ Recs(f) = Recs(e) \cup {Sealed(e, typ, m)}
<1>. DEFINE f == SendMsg(e, typ, m, TRUE)
<1>1. f = [e EXCEPT !.out = Append(e.out, Sealed(e, typ, m))] BY DEF SendMsg
<1>. HIDE DEF f
<1>2. Shaped(f) /\ Same(e, f, {"out"}) /\ Recs(f) = Recs(e) \cup {Sealed(e, typ, m)}
  BY <1>1, PushFrame
<1>. QED BY <1>2 DEF f

\* send_msg in the clear.
LEMMA PlainFrame ==
    ASSUME NEW e, Shaped(e), NEW typ, NEW m
    PROVE  LET f == SendMsg(e, typ, m, FALSE) IN
           Shaped(f) /\ Same(e, f, {"out"}) /\ Recs(f) = Recs(e) \cup {Plaintext(typ, m)}
<1>. DEFINE f == SendMsg(e, typ, m, FALSE)
<1>1. f = [e EXCEPT !.out = Append(e.out, Plaintext(typ, m))] BY DEF SendMsg
<1>. HIDE DEF f
<1>2. Shaped(f) /\ Same(e, f, {"out"}) /\ Recs(f) = Recs(e) \cup {Plaintext(typ, m)}
  BY <1>1, PushFrame
<1>. QED BY <1>2 DEF f

\* Hashing a message touches the hash only.
LEMMA HashFrame ==
    ASSUME NEW e, Shaped(e), NEW m
    PROVE  LET f == Hash(e, m) IN
           Shaped(f) /\ Same(e, f, {"tr"}) /\ f.tr = Append(e.tr, m.t)
<1>1. Same(e, Hash(e, m), {"tr"}) /\ Hash(e, m).tr = Append(e.tr, m.t)
  BY DEF Same, SameBut, Shaped, IsRecord, EndpointFields, Hash
<1>. QED BY <1>1, SameShaped

\* A handshake message is hashed and sent under the key in use.
LEMMA EmitSealedFrame ==
    ASSUME NEW e, Shaped(e), NEW m
    PROVE  LET f == Emit(e, m, TRUE) IN
           /\ Shaped(f) /\ Same(e, f, {"out", "tr"}) /\ f.tr = Append(e.tr, m.t)
           /\ Recs(f) = Recs(e) \cup {Sealed(e, "handshake", m)}
<1>. DEFINE g == Hash(e, m)
            f == Emit(e, m, TRUE)
<1>1. Shaped(g) /\ Same(e, g, {"tr"}) /\ g.tr = Append(e.tr, m.t) BY HashFrame
<1>2. g.out = e.out /\ Sealed(g, "handshake", m) = Sealed(e, "handshake", m)
  BY <1>1 DEF Same, SameBut, EndpointFields, Sealed
<1>. HIDE DEF g
<1>3. f = SendMsg(g, "handshake", m, TRUE) BY DEF Emit, g
<1>. HIDE DEF f
<1>4. /\ Shaped(f) /\ Same(g, f, {"out"})
      /\ Recs(f) = Recs(g) \cup {Sealed(g, "handshake", m)}
  BY <1>1, <1>3, SealFrame
<1>5. Same(e, f, {"out", "tr"}) /\ f.tr = g.tr
  <2>1. Same(e, f, {"tr"} \cup {"out"}) BY <1>1, <1>4, SameTwice
  <2>2. {"tr"} \cup {"out"} = {"out", "tr"} OBVIOUS
  <2>. QED BY <1>4, <2>1, <2>2 DEF Same, SameBut, EndpointFields
<1>. QED BY <1>1, <1>2, <1>4, <1>5 DEF Recs, f

\* The same in the clear.
LEMMA EmitPlainFrame ==
    ASSUME NEW e, Shaped(e), NEW m
    PROVE  LET f == Emit(e, m, FALSE) IN
           /\ Shaped(f) /\ Same(e, f, {"out", "tr"}) /\ f.tr = Append(e.tr, m.t)
           /\ Recs(f) = Recs(e) \cup {Plaintext("handshake", m)}
<1>. DEFINE g == Hash(e, m)
            f == Emit(e, m, FALSE)
<1>1. Shaped(g) /\ Same(e, g, {"tr"}) /\ g.tr = Append(e.tr, m.t) BY HashFrame
<1>2. g.out = e.out BY <1>1 DEF Same, SameBut, EndpointFields
<1>. HIDE DEF g
<1>3. f = SendMsg(g, "handshake", m, FALSE) BY DEF Emit, g
<1>. HIDE DEF f
<1>4. /\ Shaped(f) /\ Same(g, f, {"out"})
      /\ Recs(f) = Recs(g) \cup {Plaintext("handshake", m)}
  BY <1>1, <1>3, PlainFrame
<1>5. Same(e, f, {"out", "tr"}) /\ f.tr = g.tr
  <2>1. Same(e, f, {"tr"} \cup {"out"}) BY <1>1, <1>4, SameTwice
  <2>2. {"tr"} \cup {"out"} = {"out", "tr"} OBVIOUS
  <2>. QED BY <1>4, <2>1, <2>2 DEF Same, SameBut, EndpointFields
<1>. QED BY <1>1, <1>2, <1>4, <1>5 DEF Recs, f

\* An alert is a record of its own type.
LEMMA AlertFrame ==
    ASSUME NEW e, Shaped(e), NEW level, NEW desc
    PROVE  LET f == SendAlert(e, level, desc) IN
           /\ Shaped(f) /\ Same(e, f, {"out"})
           /\ \E w : Recs(f) = Recs(e) \cup {w} /\ w.typ = "alert" /\ w.m.t = "Alert"
<1>. DEFINE w == IF e.encOn THEN Sealed(e, "alert", Alert(level, desc))
                            ELSE Plaintext("alert", Alert(level, desc))
            f == SendAlert(e, level, desc)
<1>1. w.typ = "alert" /\ w.m.t = "Alert" BY DEF Sealed, Plaintext, Alert
<1>2. f = [e EXCEPT !.out = Append(e.out, w)] BY DEF SendAlert, SendMsg
<1>. HIDE DEF w, f
<1>3. Shaped(f) /\ Same(e, f, {"out"}) /\ Recs(f) = Recs(e) \cup {w} BY <1>2, PushFrame
<1>. QED BY <1>1, <1>3 DEF f

\* A fatal alert ends the connection with an error.
LEMMA FatalFrame ==
    ASSUME NEW e, Shaped(e), NEW desc, desc # "none"
    PROVE  LET f == Fatal(e, desc) IN
           /\ Shaped(f) /\ Same(e, f, {"out", "sentFatal", "err"}) /\ Failed(f)
           /\ \E w : Recs(f) = Recs(e) \cup {w} /\ w.typ = "alert" /\ w.m.t = "Alert"
<1>. DEFINE g == SendAlert(e, "fatal", desc)
            f == Fatal(e, desc)
<1>1. /\ Shaped(g) /\ Same(e, g, {"out"})
      /\ \E w : Recs(g) = Recs(e) \cup {w} /\ w.typ = "alert" /\ w.m.t = "Alert"
  BY AlertFrame
<1>. HIDE DEF g
<1>2. f = [g EXCEPT !.sentFatal = TRUE, !.err = desc] BY DEF Fatal, g
<1>3. Same(g, f, {"sentFatal", "err"}) /\ f.err = desc /\ f.out = g.out
  BY <1>1, <1>2 DEF Same, SameBut, Shaped, IsRecord, EndpointFields
<1>. HIDE DEF f
<1>4. Same(e, f, {"out"} \cup {"sentFatal", "err"}) BY <1>1, <1>3, SameTwice
<1>5. {"out"} \cup {"sentFatal", "err"} = {"out", "sentFatal", "err"} OBVIOUS
<1>6. Shaped(f) BY <1>1, <1>3, SameShaped
<1>. QED BY <1>1, <1>3, <1>4, <1>5, <1>6 DEF Recs, Failed, f

\* An error without an alert.
LEMMA FailFrame ==
    ASSUME NEW e, Shaped(e), NEW err, err # "none"
    PROVE  LET f == Fail(e, err) IN
           Shaped(f) /\ Same(e, f, {"err"}) /\ Failed(f) /\ Recs(f) = Recs(e)
<1>1. Same(e, Fail(e, err), {"err"}) /\ Fail(e, err).err = err
  BY DEF Same, SameBut, Shaped, IsRecord, EndpointFields, Fail
<1>2. Recs(Fail(e, err)) = Recs(e) BY <1>1 DEF Same, SameBut, EndpointFields, Recs
<1>. QED BY <1>1, <1>2, SameShaped DEF Failed

\* Keys are installed without touching anything but their direction.
LEMMA EncrypterFrame ==
    ASSUME NEW e, Shaped(e), NEW key
    PROVE  LET f == SetEncrypter(e, key)
               g == PrepareEncrypter(e, key)
               h == StartEncrypting(e) IN
           /\ Shaped(f) /\ Same(e, f, {"enc", "encOn"}) /\ f.enc = <<key>> /\ f.encOn = TRUE
           /\ Shaped(g) /\ Same(e, g, {"enc", "encOn"}) /\ g.enc = <<key>> /\ g.encOn = FALSE
           /\ Shaped(h) /\ Same(e, h, {"encOn"}) /\ h.encOn = TRUE
<1>1. LET f == SetEncrypter(e, key) IN
      Same(e, f, {"enc", "encOn"}) /\ f.enc = <<key>> /\ f.encOn = TRUE
  BY DEF Same, SameBut, Shaped, IsRecord, EndpointFields, SetEncrypter, Some
<1>2. LET g == PrepareEncrypter(e, key) IN
      Same(e, g, {"enc", "encOn"}) /\ g.enc = <<key>> /\ g.encOn = FALSE
  BY DEF Same, SameBut, Shaped, IsRecord, EndpointFields, PrepareEncrypter, Some
<1>3. LET h == StartEncrypting(e) IN Same(e, h, {"encOn"}) /\ h.encOn = TRUE
  BY DEF Same, SameBut, Shaped, IsRecord, EndpointFields, StartEncrypting
<1>. QED BY <1>1, <1>2, <1>3, SameShaped

\* The same for the receiving direction.
LEMMA DecrypterFrame ==
    ASSUME NEW e, Shaped(e), NEW key, NEW len
    PROVE  LET X == {"dec", "decOn", "trial"} IN
           /\ Shaped(SetDecrypter(e, key)) /\ Same(e, SetDecrypter(e, key), X)
           /\ Shaped(SetTrialDecrypter(e, key, len)) /\ Same(e, SetTrialDecrypter(e, key, len), X)
           /\ Shaped(PrepareDecrypter(e, key)) /\ Same(e, PrepareDecrypter(e, key), X)
           /\ Shaped(StartDecrypting(e)) /\ Same(e, StartDecrypting(e), X)
<1>. DEFINE X == {"dec", "decOn", "trial"}
<1>1. Same(e, SetDecrypter(e, key), X)
  BY DEF Same, SameBut, Shaped, IsRecord, EndpointFields, SetDecrypter
<1>2. Same(e, SetTrialDecrypter(e, key, len), X)
  BY DEF Same, SameBut, Shaped, IsRecord, EndpointFields, SetTrialDecrypter
<1>3. Same(e, PrepareDecrypter(e, key), X)
  BY DEF Same, SameBut, Shaped, IsRecord, EndpointFields, PrepareDecrypter
<1>4. Same(e, StartDecrypting(e), X)
  BY DEF Same, SameBut, Shaped, IsRecord, EndpointFields, StartDecrypting
<1>. QED BY <1>1, <1>2, <1>3, <1>4, SameShaped

\* start_encryption_tls12 prepares both directions.
LEMMA Encryption12Frame ==
    ASSUME NEW e, Shaped(e), NEW ms
    PROVE  LET f == StartEncryption12(e, ms) IN
           /\ Shaped(f) /\ Same(e, f, {"enc", "encOn", "dec", "decOn", "trial"})
           /\ f.enc # None /\ f.enc[1].k = "tls12" /\ f.encOn = FALSE
<1>. DEFINE key == Tls12Key(e.side, e.suite, ms, e.n)
            other == Tls12Key(Peer(e.side), e.suite, ms, e.n)
            g == PrepareEncrypter(e, key)
            f == PrepareDecrypter(g, other)
<1>0. key.k = "tls12" /\ <<key>>[1] = key /\ <<key>> # << >> BY DEF Tls12Key
<1>1. StartEncryption12(e, ms) = f BY DEF StartEncryption12
<1>. HIDE DEF key, other
<1>2. Shaped(g) /\ Same(e, g, {"enc", "encOn"}) /\ g.enc = <<key>> /\ g.encOn = FALSE
  BY EncrypterFrame
<1>. HIDE DEF g
<1>3. Shaped(f) /\ Same(g, f, {"dec", "decOn", "trial"}) BY <1>2, DecrypterFrame
<1>. HIDE DEF f
<1>4. Same(e, f, {"enc", "encOn"} \cup {"dec", "decOn", "trial"}) BY <1>2, <1>3, SameTwice
<1>5. {"enc", "encOn"} \cup {"dec", "decOn", "trial"}
      = {"enc", "encOn", "dec", "decOn", "trial"} OBVIOUS
<1>6. f.enc = g.enc /\ f.encOn = g.encOn BY <1>3 DEF Same, SameBut, EndpointFields
<1>. QED BY <1>0, <1>1, <1>2, <1>3, <1>4, <1>5, <1>6 DEF None

\* The record of one unit of application data.
AppRecord(e, x) == Sealed(e, "app", AppData(e.side, x))

\* flush_plaintext: what was buffered goes out under the key in use.
LEMMA OutgoingFrame ==
    ASSUME NEW e, Shaped(e)
    PROVE  LET f == StartOutgoingTraffic(e) IN
           /\ Shaped(f) /\ Same(e, f, {"maySend", "out", "plain"})
           /\ f.maySend = TRUE /\ f.plain = << >>
           /\ Recs(f) = Recs(e) \cup {AppRecord(e, x) : x \in Range(e.plain)}
<1>. DEFINE q == [i \in 1..Len(e.plain) |-> AppRecord(e, e.plain[i])]
            f == [e EXCEPT !.maySend = TRUE, !.out = e.out \o q, !.plain = << >>]
<1>1. StartOutgoingTraffic(e) = f BY DEF StartOutgoingTraffic, AppRecord
<1>2. e.plain \in Seq(Range(e.plain)) BY DEF Shaped, IsSeq
<1>3. Len(e.plain) \in Nat /\ Range(e.plain) = {e.plain[i] : i \in 1..Len(e.plain)}
  BY <1>2, SeqElements
<1>4. q = [i \in 1..Len(e.plain) |-> q[i]] /\ \A i \in 1..Len(e.plain) : q[i] = AppRecord(e, e.plain[i])
  OBVIOUS
<1>. HIDE DEF q
<1>5. IsSeq(q) /\ Range(q) = {q[i] : i \in 1..Len(e.plain)} BY <1>3, <1>4, FunctionElements
<1>6. Range(q) = {AppRecord(e, x) : x \in Range(e.plain)}
  <2>1. \A x \in Range(q) : x \in {AppRecord(e, y) : y \in Range(e.plain)}
    BY <1>3, <1>4, <1>5
  <2>2. ASSUME NEW y \in Range(e.plain) PROVE AppRecord(e, y) \in Range(q)
    <3>1. PICK i \in 1..Len(e.plain) : y = e.plain[i] BY <1>3
    <3>2. q[i] = AppRecord(e, y) BY <1>4, <3>1
    <3>. QED BY <1>5, <3>2
  <2>. QED BY <2>1, <2>2
<1>7. /\ Same(e, f, {"maySend", "out", "plain"})
      /\ f.maySend = TRUE /\ f.plain = << >> /\ f.out = e.out \o q
  BY DEF Same, SameBut, Shaped, IsRecord, EndpointFields
<1>. HIDE DEF f
<1>8. IsSeq(f.out) /\ Range(f.out) = Range(e.out) \cup Range(q)
  BY <1>5, <1>7, ConcatElements DEF Shaped
<1>9. IsSeq(f.plain) BY <1>7, EmptyElements
<1>10. "queued" \notin {"maySend", "out", "plain"} OBVIOUS
<1>11. Shaped(f) BY <1>7, <1>8, <1>9, <1>10, SameShaped
<1>. QED BY <1>1, <1>6, <1>7, <1>8, <1>11 DEF Recs

\* start_traffic opens the other direction too.
LEMMA TrafficFrame ==
    ASSUME NEW e, Shaped(e)
    PROVE  LET f == StartTraffic(e) IN
           /\ Shaped(f) /\ Same(e, f, {"maySend", "mayRecv", "out", "plain"})
           /\ f.maySend = TRUE /\ f.plain = << >>
           /\ Recs(f) = Recs(e) \cup {AppRecord(e, x) : x \in Range(e.plain)}
<1>. DEFINE g == [e EXCEPT !.mayRecv = TRUE]
            f == StartOutgoingTraffic(g)
<1>1. StartTraffic(e) = f BY DEF StartTraffic
<1>2. Same(e, g, {"mayRecv"})
  BY DEF Same, SameBut, Shaped, IsRecord, EndpointFields
<1>3. Shaped(g) BY <1>2, SameShaped
<1>4. /\ g.out = e.out /\ g.plain = e.plain /\ g.side = e.side /\ g.enc = e.enc
      /\ g.encOn = e.encOn
  BY <1>2 DEF Same, SameBut, EndpointFields
<1>. HIDE DEF g
<1>5. /\ Shaped(f) /\ Same(g, f, {"maySend", "out", "plain"})
      /\ f.maySend = TRUE /\ f.plain = << >>
      /\ Recs(f) = Recs(g) \cup {AppRecord(g, x) : x \in Range(g.plain)}
  BY <1>3, OutgoingFrame
<1>6. \A x : AppRecord(g, x) = AppRecord(e, x) BY <1>4 DEF AppRecord, Sealed
<1>. HIDE DEF f
<1>7. Same(e, f, {"mayRecv"} \cup {"maySend", "out", "plain"}) BY <1>2, <1>5, SameTwice
<1>8. {"mayRecv"} \cup {"maySend", "out", "plain"} = {"maySend", "mayRecv", "out", "plain"}
  OBVIOUS
<1>. QED BY <1>1, <1>4, <1>5, <1>6, <1>7, <1>8 DEF Recs

\* A key update may queue an answer and then moves the sending key on.
LEMMA KeyUpdateFrame ==
    ASSUME NEW e, Shaped(e), NEW m
    PROVE  LET f == HandleKeyUpdate(e, m) IN
           /\ Shaped(f) /\ Same(e, f, {"queued", "enc", "encOn", "dec", "decOn", "trial"})
           /\ \/ f.queued = e.queued /\ f.enc = e.enc /\ f.encOn = e.encOn
              \/ /\ f.encOn = TRUE /\ f.enc # None /\ f.enc[1].k = "traffic"
                 /\ \A w \in Range(f.queued) : w.typ = "handshake" /\ w.m.t = "KeyUpdate"
<1>. DEFINE u == Sealed(e, "handshake", KeyUpdate("NotRequested"))
            key == NextKey(e.enc[1])
            f0 == [e EXCEPT !.queued = <<u>>]
            f1 == SetEncrypter(f0, key)
            g == IF m.request = "Requested" /\ e.queued = None
                 THEN UpdateEncrypterAndNotify(e) ELSE e
            f == UpdateDecrypter(g)
<1>1. HandleKeyUpdate(e, m) = f BY DEF HandleKeyUpdate
<1>2. u.typ = "handshake" /\ u.m.t = "KeyUpdate" /\ key.k = "traffic" /\ <<key>>[1] = key
      /\ <<key>> # << >>
  BY DEF Sealed, KeyUpdate, NextKey, TrafficKey
<1>3. UpdateEncrypterAndNotify(e) = f1 BY DEF UpdateEncrypterAndNotify, Some
<1>. HIDE DEF u, key
<1>4. Same(e, f0, {"queued"}) /\ f0.queued = <<u>>
  BY DEF Same, SameBut, Shaped, IsRecord, EndpointFields
<1>. HIDE DEF f0
<1>5. IsSeq(f0.queued) /\ Range(f0.queued) = {u} BY <1>4, SomeElements
<1>6. Shaped(f0) BY <1>4, <1>5, SameShaped
<1>7. Shaped(f1) /\ Same(f0, f1, {"enc", "encOn"}) /\ f1.enc = <<key>> /\ f1.encOn = TRUE
  BY <1>6, EncrypterFrame
<1>. HIDE DEF f1
<1>8. Same(e, f1, {"queued", "enc", "encOn"}) /\ f1.queued = f0.queued
  <2>1. Same(e, f1, {"queued"} \cup {"enc", "encOn"}) BY <1>4, <1>7, SameTwice
  <2>2. {"queued"} \cup {"enc", "encOn"} = {"queued", "enc", "encOn"} OBVIOUS
  <2>. QED BY <1>7, <2>1, <2>2 DEF Same, SameBut, EndpointFields
<1>9. /\ Shaped(g) /\ Same(e, g, {"queued", "enc", "encOn"})
      /\ \/ g.queued = e.queued /\ g.enc = e.enc /\ g.encOn = e.encOn
         \/ /\ g.encOn = TRUE /\ g.enc # None /\ g.enc[1].k = "traffic"
            /\ \A w \in Range(g.queued) : w.typ = "handshake" /\ w.m.t = "KeyUpdate"
  <2>1. Same(e, e, {"queued", "enc", "encOn"}) BY DEF Same, SameBut, Shaped, IsRecord
  <2>2. CASE g = e BY <2>1, <2>2
  <2>3. CASE g = f1 BY <1>2, <1>5, <1>7, <1>8, <2>3 DEF None
  <2>. QED BY <1>3, <2>2, <2>3
<1>. HIDE DEF g
<1>10. Shaped(f) /\ Same(g, f, {"dec", "decOn", "trial"})
  BY <1>9, DecrypterFrame DEF UpdateDecrypter
<1>. HIDE DEF f
<1>11. f.queued = g.queued /\ f.enc = g.enc /\ f.encOn = g.encOn
  BY <1>10 DEF Same, SameBut, EndpointFields
<1>12. Same(e, f, {"queued", "enc", "encOn"} \cup {"dec", "decOn", "trial"})
  BY <1>9, <1>10, SameTwice
<1>13. {"queued", "enc", "encOn"} \cup {"dec", "decOn", "trial"}
       = {"queued", "enc", "encOn", "dec", "decOn", "trial"} OBVIOUS
<1>. QED BY <1>1, <1>9, <1>10, <1>11, <1>12, <1>13

\* perhaps_write_key_update and the buffer of one more unit.
LEMMA WriteFrame ==
    ASSUME NEW e, Shaped(e)
    PROVE  LET f == WritePlaintext(e) IN
           /\ Shaped(f) /\ Same(e, f, {"out", "queued", "written", "plain"})
           /\ f.queued = None /\ f.written = e.written + 1
           /\ \/ /\ e.maySend /\ f.plain = e.plain
                 /\ Recs(f) = Recs(e) \cup Range(e.queued) \cup {AppRecord(e, e.written + 1)}
              \/ /\ ~e.maySend /\ f.plain = Append(e.plain, e.written + 1)
                 /\ Recs(f) = Recs(e) \cup Range(e.queued)
<1>. DEFINE g == FlushKeyUpdate(e)
            h == [g EXCEPT !.written = e.written + 1]
            f == WritePlaintext(e)
            sent == SendMsg(h, "app", AppData(e.side, h.written), TRUE)
            kept == [h EXCEPT !.plain = Append(h.plain, h.written)]
<1>1. Same(e, g, {"out", "queued"}) /\ g.out = e.out \o e.queued /\ g.queued = None
  BY DEF Same, SameBut, Shaped, IsRecord, EndpointFields, FlushKeyUpdate
<1>2. IsSeq(g.out) /\ Range(g.out) = Range(e.out) \cup Range(e.queued) /\ IsSeq(g.queued)
  BY <1>1, ConcatElements, EmptyElements DEF Shaped, None
<1>3. f = IF h.maySend THEN sent ELSE kept
  <2>1. g.written = e.written BY <1>1 DEF Same, SameBut, EndpointFields
  <2>. QED BY <2>1 DEF WritePlaintext
<1>. HIDE DEF g
<1>4. Shaped(g)
  <2>1. "plain" \notin {"out", "queued"} OBVIOUS
  <2>. QED BY <1>1, <1>2, <2>1, SameShaped
<1>5. Same(g, h, {"written"}) /\ h.written = e.written + 1
  BY <1>4 DEF Same, SameBut, Shaped, IsRecord, EndpointFields
<1>. HIDE DEF h
<1>6. Shaped(h) BY <1>4, <1>5, SameShaped
<1>7. /\ Same(e, h, {"out", "queued", "written"}) /\ h.out = g.out /\ h.queued = None
      /\ h.side = e.side /\ h.plain = e.plain /\ h.enc = e.enc /\ h.encOn = e.encOn /\ h.maySend = e.maySend
  <2>1. Same(e, h, {"out", "queued"} \cup {"written"}) BY <1>1, <1>5, SameTwice
  <2>2. {"out", "queued"} \cup {"written"} = {"out", "queued", "written"} OBVIOUS
  <2>. QED BY <1>1, <1>5, <2>1, <2>2 DEF Same, SameBut, EndpointFields
<1>8. CASE h.maySend
  <2>1. f = sent BY <1>3, <1>8
  <2>. HIDE DEF f
  <2>2. /\ Shaped(f) /\ Same(h, f, {"out"})
        /\ Recs(f) = Recs(h) \cup {Sealed(h, "app", AppData(e.side, h.written))}
    BY <1>6, <2>1, SealFrame
  <2>3. Sealed(h, "app", AppData(e.side, h.written)) = AppRecord(e, e.written + 1)
    <3>1. \A m : Sealed(h, "app", m) = Sealed(e, "app", m) BY <1>7 DEF Sealed
    <3>. QED BY <1>5, <3>1 DEF AppRecord
  <2>4. Same(e, f, {"out", "queued", "written"} \cup {"out"}) BY <1>7, <2>2, SameTwice
  <2>5. {"out", "queued", "written"} \cup {"out"} \subseteq {"out", "queued", "written", "plain"}
    OBVIOUS
  <2>6. Same(e, f, {"out", "queued", "written", "plain"}) BY <2>4, <2>5, SameWider
  <2>7. f.plain = h.plain /\ f.queued = h.queued /\ f.written = h.written
    BY <2>2 DEF Same, SameBut, EndpointFields
  <2>. QED BY <1>2, <1>5, <1>7, <1>8, <2>2, <2>3, <2>6, <2>7 DEF Recs, f
<1>9. CASE ~h.maySend
  <2>1. f = kept BY <1>3, <1>9
  <2>. HIDE DEF f
  <2>2. Same(h, f, {"plain"}) /\ f.plain = Append(h.plain, h.written)
    BY <1>6, <2>1 DEF Same, SameBut, Shaped, IsRecord, EndpointFields
  <2>3. IsSeq(f.plain) BY <1>6, <2>2, AppendElements DEF Shaped
  <2>4. "out" \notin {"plain"} /\ "queued" \notin {"plain"} OBVIOUS
  <2>5. Shaped(f) BY <1>6, <2>2, <2>3, <2>4, SameShaped
  <2>6. Same(e, f, {"out", "queued", "written"} \cup {"plain"}) BY <1>7, <2>2, SameTwice
  <2>7. {"out", "queued", "written"} \cup {"plain"} = {"out", "queued", "written", "plain"}
    OBVIOUS
  <2>8. f.out = h.out /\ f.queued = h.queued /\ f.written = h.written
    BY <2>2 DEF Same, SameBut, EndpointFields
  <2>. QED BY <1>2, <1>5, <1>7, <1>9, <2>2, <2>5, <2>6, <2>7, <2>8 DEF Recs, f
<1>. QED BY <1>8, <1>9
-------------------------------------------------------------------------------
(***************************************************************************)
(* A client's turn: the fields of the endpoint and of its handshake that   *)
(* may have changed.                                                       *)
(***************************************************************************)
ClientTurn(e, f, X, Y) ==
    ClientShaped(f) /\ Same(e, f, X) /\ SameBut(ClientHsFields, e.hs, f.hs, Y)

\* Turns add up.
LEMMA ClientTurns ==
    ASSUME NEW e, NEW f, NEW g, NEW X1, NEW Y1, NEW X2, NEW Y2, NEW X, NEW Y,
           ClientTurn(e, f, X1, Y1), ClientTurn(f, g, X2, Y2),
           X1 \cup X2 \subseteq X, Y1 \cup Y2 \subseteq Y
    PROVE  ClientTurn(e, g, X, Y)
<1>1. Same(e, g, X) BY DEF ClientTurn, Same, SameBut
<1>2. SameBut(ClientHsFields, e.hs, g.hs, Y) BY DEF ClientTurn, SameBut
<1>. QED BY <1>1, <1>2 DEF ClientTurn

\* A turn that leaves the handshake, the store and the side alone.
LEMMA ClientQuiet ==
    ASSUME NEW e, ClientShaped(e), NEW f, NEW X, Shaped(f), Same(e, f, X),
           "hs" \notin X, "store" \notin X, "side" \notin X, NEW Y
    PROVE  ClientTurn(e, f, X, Y)
<1>1. f.hs = e.hs /\ f.store = e.store /\ f.side = e.side
  BY DEF Same, SameBut, EndpointFields
<1>2. SameBut(ClientHsFields, e.hs, f.hs, Y) BY <1>1 DEF SameBut, ClientShaped, IsRecord
<1>. QED BY <1>1, <1>2 DEF ClientTurn, ClientShaped

\* A turn that touches fields of the handshake only.
LEMMA ClientNotes ==
    ASSUME NEW e, ClientShaped(e), NEW f, NEW X, NEW Y, Same(e, f, X), 
           X \cap {"out", "plain", "queued", "side", "store"} = {},
           SameBut(ClientHsFields, e.hs, f.hs, Y)
    PROVE  ClientTurn(e, f, X, Y)
<1>1. f.store = e.store /\ f.side = e.side BY DEF Same, SameBut, EndpointFields
<1>2. "out" \notin X /\ "plain" \notin X /\ "queued" \notin X OBVIOUS
<1>3. Shaped(f) BY <1>2, SameShaped DEF ClientShaped
<1>4. IsRecord(f.hs, ClientHsFields) BY DEF SameBut, IsRecord
<1>. QED BY <1>1, <1>3, <1>4 DEF ClientTurn, ClientShaped

\* Every record of f was one of e, or is a handshake record of a type in T.
Adds(e, f, T) == \A w \in Recs(f) : w \in Recs(e) \/ (w.typ # "app" /\ w.m.t \in T)

\* emit_fake_ccs
LEMMA FakeCcsStep ==
    ASSUME NEW e, ClientShaped(e)
    PROVE  LET f == EmitFakeCcs(e) IN
           /\ ClientTurn(e, f, {"out", "hs"}, {"fakeCcs"})
           /\ Adds(e, f, {"ChangeCipherSpec"})
<1>. DEFINE g == SendMsg(e, "ccs", Ccs, FALSE)
            h == [g EXCEPT !.hs.fakeCcs = TRUE]
            f == EmitFakeCcs(e)
<1>1. Shaped(g) /\ Same(e, g, {"out"}) /\ Recs(g) = Recs(e) \cup {Plaintext("ccs", Ccs)}
  BY PlainFrame DEF ClientShaped
<1>2. f = e \/ f = h BY DEF EmitFakeCcs
<1>. HIDE DEF g
<1>3. ClientTurn(e, g, {"out"}, {}) BY <1>1, ClientQuiet
<1>4. ClientTurn(g, h, {"hs"}, {"fakeCcs"}) /\ h.out = g.out
  <2>1. Same(g, h, {"hs"}) /\ SameBut(ClientHsFields, g.hs, h.hs, {"fakeCcs"}) /\ h.out = g.out
    BY <1>3 DEF ClientTurn, ClientShaped, Shaped, IsRecord, Same, SameBut, EndpointFields,
                ClientHsFields
  <2>2. {"hs"} \cap {"out", "plain", "queued", "side", "store"} = {} OBVIOUS
  <2>. QED BY <1>3, <2>1, <2>2, ClientNotes DEF ClientTurn
<1>. HIDE DEF h, f
<1>5. ClientTurn(e, h, {"out", "hs"}, {"fakeCcs"})
  <2>1. {"out"} \cup {"hs"} \subseteq {"out", "hs"} /\ {} \cup {"fakeCcs"} \subseteq {"fakeCcs"}
    OBVIOUS
  <2>. QED BY <1>3, <1>4, <2>1, ClientTurns
<1>6. ClientTurn(e, e, {"out", "hs"}, {"fakeCcs"})
  BY DEF ClientTurn, ClientShaped, Shaped, IsRecord, Same, SameBut
<1>7. Adds(e, h, {"ChangeCipherSpec"}) /\ Adds(e, e, {"ChangeCipherSpec"})
  BY <1>1, <1>4 DEF Adds, Recs, Plaintext, Ccs
<1>8. ClientTurn(e, f, {"out", "hs"}, {"fakeCcs"}) /\ Adds(e, f, {"ChangeCipherSpec"})
  BY <1>2, <1>5, <1>6, <1>7
<1>. QED BY <1>8 DEF f
-------------------------------------------------------------------------------
(***************************************************************************)
(* The invariants.  Each end keeps one of its own as long as the messages  *)
(* it is given are such as the other end sends; V is the set of server     *)
(* configurations of the scenario, E the units given as early data.        *)
(***************************************************************************)
ClientHelloStates == {"ExpectServerHelloOrHelloRetryRequest", "ExpectServerHello"}
Client13States ==
    {"ExpectEncryptedExtensions", "ExpectCertificateOrCertReq", "ExpectCertificate",
     "ExpectCertificateVerify", "ExpectFinished", "ExpectTraffic"}
ClientFull12States ==
    {"ExpectCertificate12", "ExpectCertificateStatusOrServerKx", "ExpectServerKx",
     "ExpectServerDoneOrCertReq", "ExpectServerDone"}
ClientLate12States == {"ExpectNewTicket", "ExpectCcs", "ExpectFinished12", "ExpectTraffic12"}
ServerHelloStates == {"ExpectClientHello", "ExpectAndSkipRejectedEarlyData"}
Server13States ==
    {"ExpectClientCertificate", "ExpectClientCertificateVerify", "ExpectEarlyData",
     "ExpectClientFinished", "ExpectTraffic"}
ServerLate12States ==
    {"ExpectCertificateVerify12", "ExpectClientCcs", "ExpectClientFinished12",
     "ExpectTraffic12"}
Server12States == {"ExpectClientCertificate12", "ExpectClientKx"} \cup ServerLate12States
ServerFull12States ==
    {"ExpectClientCertificate12", "ExpectClientKx", "ExpectCertificateVerify12"}

\* Certificates a server insists on, and the one certificate of the servers.
Acceptable(V, cert) == \A v \in V : v.clientAuth = "required" => cert \in v.trusts
Identity(V, cert) == \A v \in V : cert = v.cert

TicketOk(V, ticket) == "key" \in DOMAIN ticket => Acceptable(V, ticket.val.cert)
SessionOk(V, e, x) ==
    /\ x.cert \in e.cfg.trusts /\ Identity(V, x.cert)
    /\ x.v = 13 => TicketOk(V, x.ticket)
    /\ x.v = 12 /\ x.ticket # None => TicketOk(V, x.ticket[1])

\* What the messages of a client and of a server say about credentials.
ClientMsgAuth(V, m) ==
    m.ok /\ m.t = "ClientHello" =>
        /\ m.psk # None => TicketOk(V, m.psk[1].ticket)
        /\ m.ticket # None => TicketOk(V, m.ticket[1])
ServerMsgAuth(V, m) ==
    /\ m.ok /\ m.t = "NewSessionTicket" => TicketOk(V, m.ticket)
    /\ m.ok /\ m.t = "Certificate" => Identity(V, m.cert)

ClientVerified == {"ExpectFinished", "ExpectTraffic"} \cup ClientLate12States
ClientAuth(V, e) ==
    /\ \A x \in Range(e.store.tls13) : SessionOk(V, e, x)
    /\ e.store.tls12 # None => SessionOk(V, e, e.store.tls12[1])
    /\ e.hs.resuming # None => SessionOk(V, e, e.hs.resuming[1])
    /\ e.st \in ClientLate12States /\ e.hs.resuming # None => e.hs.resuming[1].v = 12
    /\ e.hs.ticket # None => TicketOk(V, e.hs.ticket[1])
    /\ e.hs.cert # "none" => Identity(V, e.hs.cert)
    /\ e.st \in ClientVerified => e.cert \in e.cfg.trusts /\ Identity(V, e.cert)
    /\ e.received # << >> => Traffic(e)
    /\ \A w \in Recs(e) : ClientMsgAuth(V, w.m)

ServerPresented == {"ExpectClientCertificateVerify", "ExpectClientKx", "ExpectCertificateVerify12"}
ServerVerified ==
    {"ExpectEarlyData", "ExpectClientFinished", "ExpectTraffic", "ExpectClientCcs",
     "ExpectClientFinished12", "ExpectTraffic12"}
ServerAuth(V, e) ==
    /\ e.cfg \in V
    /\ \A x \in Range(e.store.cache) : Acceptable(V, x.val.cert)
    /\ e.st \in ServerPresented => /\ Acceptable(V, e.hs.cert)
                                   /\ e.cfg.clientAuth = "required" => e.hs.cert # "none"
    /\ e.st \in ServerVerified => Acceptable(V, e.cert)
    /\ \A w \in Recs(e) : ServerMsgAuth(V, w.m)

\* The keys application data may go out under, and early data.
Keyed(e, K) == e.encOn = TRUE /\ e.enc # None /\ e.enc[1].k \in K
AppOk(E, e, w) ==
    /\ w.key # None /\ w.key[1].k \in {"traffic", "tls12", "early"}
    /\ w.key[1].k = "early" <=> w.m.i \in E
    /\ "i" \in DOMAIN w.m /\ w.m.i \in 1..e.written
ClientData(E, e) ==
    /\ e.written \in Nat /\ E \subseteq 1..e.written
    /\ Range(e.plain) \subseteq (1..e.written) \ E
    /\ e.maySend => Traffic(e) /\ Keyed(e, {"traffic", "tls12"})
    /\ EarlyEnabled(e) => Keyed(e, {"early"}) /\ e.earlyTraffic = TRUE
    /\ e.hs.suite = None /\ e.earlyTraffic => EarlyEnabled(e)
    /\ e.st \in ClientFull12States => ~EarlyEnabled(e)
    /\ Traffic(e) => e.maySend
    /\ e.st \in ClientLate12States \ {"ExpectTraffic12"} =>
           /\ e.enc # None /\ e.enc[1].k = "tls12"
           /\ e.hs.resuming = None => e.encOn = TRUE
    /\ \A w \in Range(e.queued) : w.typ # "app" /\ w.m.t = "KeyUpdate"
    /\ \A w \in Recs(e) : w.typ = "app" => AppOk(E, e, w)

ServerData(e) ==
    /\ e.maySend => /\ e.st \in Server13States \cup {"ExpectTraffic12"}
                    /\ Keyed(e, {"traffic", "tls12"})
    /\ e.st \in Server13States => Keyed(e, {"traffic"})
    /\ e.st \in ServerLate12States \ {"ExpectTraffic12"} =>
           /\ e.enc # None /\ e.enc[1].k = "tls12"
           /\ e.hs.resuming => e.encOn = TRUE
    /\ \A w \in Range(e.queued) : w.typ # "app" /\ w.m.t = "KeyUpdate"
    /\ \A w \in Recs(e) :
          w.typ = "app" => w.key # None /\ w.key[1].k \in {"traffic", "tls12"}

\* A server that has chosen the parameters of the connection.
Committed(e) == e.st \notin ServerHelloStates \/ Failed(e)

SecretFields == {"suite", "psk", "kx", "hash"}
ClientAgree(e) ==
    /\ e.st \in Client13States =>
           /\ e.ver = 13 /\ e.hs.sec = <<e.hs.sec[1]>> /\ IsRecord(e.hs.sec[1], SecretFields)
           /\ e.hs.sec[1].psk # None <=> e.hs.resuming # None
    /\ e.st \in ClientFull12States => e.ver # 13 /\ e.hs.resuming = None
    /\ e.st \in ClientLate12States => e.ver # 13 /\ e.hs.ms = <<e.hs.ms[1]>>
    /\ \A w \in Recs(e) : w.m.ok /\ w.m.t = "Finished" =>
          LET v == w.m.verify IN
          \/ /\ v.k = "finished" /\ e.st = "ExpectTraffic"
             /\ e.tr = Append(v.hash, "Finished")
          \/ /\ v.k = "finished12" /\ e.st \in ClientLate12States
             /\ e.hs.resuming # None =>
                    e.st = "ExpectTraffic12" /\ e.tr = Append(v.hash, "Finished")

\* What a server's message says of the server that sent it.
ServerTells(e, m) ==
    /\ m.t = "HelloRetryRequest" => e.hs.retry
    /\ m.t = "ServerHello" =>
           /\ Committed(e) /\ m.ver \in {12, 13} /\ m.ver = e.ver /\ m.suite = e.suite
           /\ m.ver = 12 => m.alpn = e.alpn
    /\ m.t = "EncryptedExtensions" =>
           Committed(e) /\ m.alpn = e.alpn /\ (e.hs.retry => ~m.early)
    /\ m.t = "ServerHelloDone" => Committed(e) /\ ~e.hs.resuming
    /\ m.t = "Finished" =>
           LET v == m.verify IN
           /\ Committed(e)
           /\ \/ /\ v.k = "finished"
                 /\ e.hs.fin = <<[v.sec EXCEPT !.hash = Append(v.hash, "Finished")]>>
              \/ /\ v.k = "finished12" /\ e.st \in ServerLate12States
                 /\ e.hs.resuming \/ e.st = "ExpectTraffic12"
                 /\ e.hs.ms = <<v.ms>>
                 /\ ~(e.hs.resuming /\ e.st = "ExpectTraffic12") =>
                        e.tr = Append(v.hash, "Finished")
ServerAgree(e) ==
    /\ ~Committed(e) => ~e.hs.resuming /\ e.hs.psk = None
    /\ e.st \in Server13States =>
           /\ e.ver = 13 /\ ~e.hs.resuming
           /\ e.hs.fin = <<e.hs.fin[1]>> /\ e.hs.fin[1].psk = e.hs.psk
    /\ e.st \in Server12States => e.ver # 13 /\ e.hs.psk = None
    /\ e.st \in ServerFull12States => ~e.hs.resuming
    /\ e.st \in ServerLate12States => e.hs.ms = <<e.hs.ms[1]>>
    /\ \A w \in Recs(e) : w.m.ok => ServerTells(e, w.m)

\* The two ends, as far as they have come: client e and server x.
Pair(e, x) ==
    /\ e.n = x.n /\ x.side = "server"
    /\ e.hs.suite # None => x.hs.retry
    /\ e.st \notin ClientHelloStates => Committed(x) /\ e.ver = x.ver /\ e.suite = x.suite
    /\ e.st \notin ClientHelloStates \cup {"ExpectEncryptedExtensions"} => e.alpn = x.alpn
    /\ e.st = "ExpectTraffic" => e.hs.sec = x.hs.fin
    /\ x.st = "ExpectTraffic" => e.st = "ExpectTraffic" /\ e.tr = x.tr
    /\ e.st \in ClientLate12States /\ e.hs.resuming = None => ~x.hs.resuming
    /\ e.st = "ExpectTraffic12" /\ e.hs.resuming # None => x.hs.resuming
    /\ e.st = "ExpectTraffic12" => e.hs.ms = x.hs.ms
    /\ x.st = "ExpectTraffic12" /\ ~x.hs.resuming => e.hs.resuming = None
    /\ x.st = "ExpectTraffic12" /\ x.hs.resuming => e.st = "ExpectTraffic12" /\ e.tr = x.tr
    /\ e.st = "ExpectTraffic12" /\ ~x.hs.resuming => x.st = "ExpectTraffic12" /\ e.tr = x.tr
-------------------------------------------------------------------------------
(***************************************************************************)
(* What the handlers of the client do.                                     *)
(***************************************************************************)
\* A hello offers the ticket of the session to be resumed, or none.
HelloFrom(e, m) ==
    LET r == e.hs.resuming IN
    /\ m.psk # None => r # None /\ r[1].v = 13 /\ m.psk[1].ticket = r[1].ticket
    /\ m.ticket # None => r # None /\ r[1].v = 12 /\ m.ticket = r[1].ticket

\* The hello of a client.
LEMMA HelloOffers ==
    ASSUME NEW e, NEW shares
    PROVE  Hello(e, shares).t = "ClientHello" /\ HelloFrom(e, Hello(e, shares))
<1>1. Offered(e) # None => Offered(e) = e.hs.resuming /\ e.hs.resuming[1].v = 13
  BY DEF Offered
<1>2. SessionTicketExt(e) # None => /\ e.hs.resuming # None /\ e.hs.resuming[1].v = 12
                                    /\ SessionTicketExt(e) = e.hs.resuming[1].ticket
  BY DEF SessionTicketExt
<1>3. Hello(e, shares).psk # None =>
          Offered(e) # None /\ Hello(e, shares).psk[1].ticket = Offered(e)[1].ticket
  BY DEF Hello, PskOffer, Some, None
<1>4. Hello(e, shares).t = "ClientHello" /\ Hello(e, shares).ticket = SessionTicketExt(e)
  BY DEF Hello
<1>. QED BY <1>1, <1>2, <1>3, <1>4 DEF HelloFrom

\* prepare_resumption
LEMMA PrepareStep ==
    ASSUME NEW e, ClientShaped(e)
    PROVE  LET f == PrepareResumption(e) IN
           /\ ClientTurn(e, f, {"suite", "hs"}, {"ed", "left"})
           /\ \/ f.hs.ed = e.hs.ed
              \/ f.hs.ed = "Ready" /\ e.hs.suite = None /\ Offered(f) # None
           /\ f.out = e.out /\ f.tr = e.tr
<1>. DEFINE f == PrepareResumption(e)
            o == Offered(e)
            early == o # None /\ e.cfg.early /\ o[1].maxEarly > 0 /\ e.hs.suite = None
            suite == IF o # None THEN o[1].suite ELSE e.suite
            ed == IF early THEN "Ready" ELSE e.hs.ed
            left == IF early THEN o[1].maxEarly ELSE e.hs.left
<1>1. f = [e EXCEPT !.suite = suite, !.hs.ed = ed, !.hs.left = left]
  BY DEF PrepareResumption
<1>. HIDE DEF o, suite, ed, left, f
<1>2. /\ Same(e, f, {"suite", "hs"}) /\ SameBut(ClientHsFields, e.hs, f.hs, {"ed", "left"})
      /\ f.hs.ed = ed /\ f.out = e.out /\ f.tr = e.tr
  <2>1. Same(e, f, {"suite", "hs"})
    BY <1>1 DEF ClientShaped, Shaped, IsRecord, Same, SameBut, EndpointFields
  <2>2. f.hs = [e.hs EXCEPT !.ed = ed, !.left = left] /\ f.out = e.out /\ f.tr = e.tr
    BY <1>1 DEF ClientShaped, Shaped, IsRecord, EndpointFields
  <2>3. SameBut(ClientHsFields, e.hs, f.hs, {"ed", "left"}) /\ f.hs.ed = ed
    BY <2>2 DEF ClientShaped, IsRecord, SameBut, ClientHsFields
  <2>. QED BY <2>1, <2>2, <2>3
<1>3. {"suite", "hs"} \cap {"out", "plain", "queued", "side", "store"} = {} OBVIOUS
<1>4. ClientTurn(e, f, {"suite", "hs"}, {"ed", "left"}) BY <1>2, <1>3, ClientNotes
<1>5. Offered(f) = o
  <2>1. /\ f.hs.resuming = e.hs.resuming /\ f.cfg = e.cfg /\ f.hs.suite = e.hs.suite
    BY <1>2 DEF Same, SameBut, EndpointFields, ClientHsFields
  <2>. QED BY <2>1 DEF Offered, o
<1>. QED BY <1>2, <1>4, <1>5 DEF f, ed

\* A message of the client's handshake in the clear.
LEMMA ClientSays ==
    ASSUME NEW e, ClientShaped(e), NEW m
    PROVE  LET f == Emit(e, m, FALSE) IN
           /\ ClientTurn(e, f, {"out", "tr"}, {}) /\ f.tr = Append(e.tr, m.t)
           /\ Recs(f) = Recs(e) \cup {Plaintext("handshake", m)}
<1>. DEFINE f == Emit(e, m, FALSE)
<1>1. /\ Shaped(f) /\ Same(e, f, {"out", "tr"}) /\ f.tr = Append(e.tr, m.t)
      /\ Recs(f) = Recs(e) \cup {Plaintext("handshake", m)}
  BY EmitPlainFrame DEF ClientShaped
<1>. HIDE DEF f
<1>2. ClientTurn(e, f, {"out", "tr"}, {}) BY <1>1, ClientQuiet
<1>. QED BY <1>1, <1>2 DEF f

\* The same under the key in use.
LEMMA ClientSeals ==
    ASSUME NEW e, ClientShaped(e), NEW m
    PROVE  LET f == Emit(e, m, TRUE) IN
           /\ ClientTurn(e, f, {"out", "tr"}, {}) /\ f.tr = Append(e.tr, m.t)
           /\ Recs(f) = Recs(e) \cup {Sealed(e, "handshake", m)}
<1>. DEFINE f == Emit(e, m, TRUE)
<1>1. /\ Shaped(f) /\ Same(e, f, {"out", "tr"}) /\ f.tr = Append(e.tr, m.t)
      /\ Recs(f) = Recs(e) \cup {Sealed(e, "handshake", m)}
  BY EmitSealedFrame DEF ClientShaped
<1>. HIDE DEF f
<1>2. ClientTurn(e, f, {"out", "tr"}, {}) BY <1>1, ClientQuiet
<1>. QED BY <1>1, <1>2 DEF f
\* A client's turn changes the state it is in.
LEMMA ClientMoves ==
    ASSUME NEW e, ClientShaped(e), NEW st, NEW f, f = [e EXCEPT !.st = st]
    PROVE  ClientTurn(e, f, {"st"}, {}) /\ f.st = st /\ f.out = e.out
<1>1. Same(e, f, {"st"}) /\ f.st = st /\ f.out = e.out
  BY DEF ClientShaped, Shaped, IsRecord, Same, SameBut, EndpointFields
<1>2. Shaped(f) BY <1>1, SameShaped DEF ClientShaped
<1>. QED BY <1>1, <1>2, ClientQuiet

\* derive_early_traffic_secret
LEMMA EarlyTrafficStep ==
    ASSUME NEW e, ClientShaped(e), NEW x
    PROVE  LET f == StartEarlyTraffic(e, x) IN
           /\ ClientTurn(e, f, {"out", "hs", "enc", "encOn", "earlyTraffic"}, {"fakeCcs"})
           /\ Adds(e, f, {"ChangeCipherSpec"})
           /\ Keyed(f, {"early"}) /\ f.earlyTraffic = TRUE
<1>. DEFINE key == EarlyKey(x.suite, Some(x.psk), e.tr)
            g == EmitFakeCcs(e)
            h == SetEncrypter(g, key)
            f == StartEarlyTraffic(e, x)
<1>1. ClientTurn(e, g, {"out", "hs"}, {"fakeCcs"}) /\ Adds(e, g, {"ChangeCipherSpec"})
  BY FakeCcsStep
<1>2. key.k = "early" /\ <<key>>[1] = key /\ <<key>> # << >> BY DEF EarlyKey
<1>3. f = [h EXCEPT !.earlyTraffic = TRUE] BY DEF StartEarlyTraffic
<1>. HIDE DEF g, key
<1>4. Shaped(h) /\ Same(g, h, {"enc", "encOn"}) /\ h.enc = <<key>> /\ h.encOn = TRUE
  BY <1>1, EncrypterFrame DEF ClientTurn, ClientShaped
<1>. HIDE DEF h, f
<1>5. Same(h, f, {"earlyTraffic"}) /\ f.earlyTraffic = TRUE
  BY <1>3, <1>4 DEF Shaped, IsRecord, Same, SameBut, EndpointFields
<1>6. Shaped(f) BY <1>4, <1>5, SameShaped
<1>7. ClientTurn(g, h, {"enc", "encOn"}, {}) BY <1>1, <1>4, ClientQuiet DEF ClientTurn
<1>8. ClientTurn(h, f, {"earlyTraffic"}, {}) BY <1>5, <1>6, <1>7, ClientQuiet DEF ClientTurn
<1>9. ClientTurn(g, f, {"enc", "encOn", "earlyTraffic"}, {})
  <2>1. {"enc", "encOn"} \cup {"earlyTraffic"} \subseteq {"enc", "encOn", "earlyTraffic"}
    OBVIOUS
  <2>. QED BY <1>7, <1>8, <2>1, ClientTurns
<1>10. ClientTurn(e, f, {"out", "hs", "enc", "encOn", "earlyTraffic"}, {"fakeCcs"})
  <2>1. {"out", "hs"} \cup {"enc", "encOn", "earlyTraffic"}
        \subseteq {"out", "hs", "enc", "encOn", "earlyTraffic"} OBVIOUS
  <2>2. {"fakeCcs"} \cup {} \subseteq {"fakeCcs"} OBVIOUS
  <2>. QED BY <1>1, <1>9, <2>1, <2>2, ClientTurns
<1>11. f.out = g.out /\ f.enc = <<key>> /\ f.encOn = TRUE
  BY <1>4, <1>5 DEF Same, SameBut, EndpointFields
<1>12. Adds(e, f, {"ChangeCipherSpec"}) BY <1>1, <1>11 DEF Adds, Recs
<1>. QED BY <1>2, <1>5, <1>10, <1>11, <1>12 DEF Keyed, None, f

\* A client's new records: its hello and a change of cipher for middleboxes.
Greets(e, f) ==
    \A w \in Recs(f) :
        \/ w \in Recs(e)
        \/ w.typ # "app" /\ w.m.t = "ChangeCipherSpec"
        \/ w.typ # "app" /\ w.m.t = "ClientHello" /\ HelloFrom(e, w.m)

\* The first hello: early data is ready only with its key in use.
LEMMA FirstHelloStep ==
    ASSUME NEW e, ClientShaped(e), ~EarlyEnabled(e)
    PROVE  LET f == EmitClientHello(e, FALSE) IN
           /\ ClientTurn(e, f, {"suite", "hs", "out", "tr", "enc", "encOn", "earlyTraffic", "st"},
                         {"alt", "psk", "ed", "left", "fakeCcs"})
           /\ f.st \in ClientHelloStates
           /\ Greets(e, f)
           /\ \/ ~EarlyEnabled(f) /\ f.earlyTraffic = e.earlyTraffic
              \/ Keyed(f, {"early"}) /\ f.earlyTraffic = TRUE /\ EarlyEnabled(f)
<1>. DEFINE p == PrepareResumption(e)
            o == Offered(p)
            ks == IF 13 \notin p.cfg.vers THEN [shares |-> << >>, alt |-> << >>]
                  ELSE CraftShares(p.cfg, p.hs.share[1])
            alt == p.hs.alt \o ks.alt
            psk == IF o # None THEN Some(o[1].psk) ELSE None
            q == [p EXCEPT !.hs.alt = alt, !.hs.psk = psk]
            m == Hello(q, ks.shares)
            g == Emit(q, m, FALSE)
            h == IF o # None /\ EarlyEnabled(g) THEN StartEarlyTraffic(g, o[1]) ELSE g
            st == IF 13 \in p.cfg.vers THEN "ExpectServerHelloOrHelloRetryRequest"
                                       ELSE "ExpectServerHello"
            f == EmitClientHello(e, FALSE)
<1>1. f = [h EXCEPT !.st = st] BY DEF EmitClientHello
<1>2. /\ ClientTurn(e, p, {"suite", "hs"}, {"ed", "left"})
      /\ \/ p.hs.ed = e.hs.ed
         \/ p.hs.ed = "Ready" /\ e.hs.suite = None /\ o # None
      /\ p.out = e.out /\ p.tr = e.tr
  BY PrepareStep
<1>3. st \in ClientHelloStates BY DEF ClientHelloStates
<1>. HIDE DEF p, o, ks, alt, psk
<1>4. /\ ClientTurn(p, q, {"hs"}, {"alt", "psk"}) /\ q.out = p.out
      /\ q.hs.ed = p.hs.ed /\ q.hs.resuming = p.hs.resuming
  <2>1. ClientShaped(p) BY <1>2 DEF ClientTurn
  <2>2. /\ Same(p, q, {"hs"}) /\ SameBut(ClientHsFields, p.hs, q.hs, {"alt", "psk"})
        /\ q.out = p.out /\ q.hs.ed = p.hs.ed /\ q.hs.resuming = p.hs.resuming
    BY <2>1 DEF ClientShaped, Shaped, IsRecord, Same, SameBut, EndpointFields, ClientHsFields
  <2>. HIDE DEF q
  <2>3. {"hs"} \cap {"out", "plain", "queued", "side", "store"} = {} OBVIOUS
  <2>. QED BY <2>1, <2>2, <2>3, ClientNotes
<1>5. m.t = "ClientHello" /\ HelloFrom(q, m) BY HelloOffers
<1>. HIDE DEF q, m
<1>6. /\ ClientTurn(q, g, {"out", "tr"}, {}) /\ Recs(g) = Recs(q) \cup {Plaintext("handshake", m)}
  BY <1>4, ClientSays DEF ClientTurn
<1>. HIDE DEF g
<1>7. /\ ClientTurn(e, g, {"suite", "hs", "out", "tr"}, {"alt", "psk", "ed", "left"})
      /\ g.hs.ed = p.hs.ed
  <2>1. {"suite", "hs"} \cup {"hs"} \subseteq {"suite", "hs"} OBVIOUS
  <2>2. {"ed", "left"} \cup {"alt", "psk"} \subseteq {"alt", "psk", "ed", "left"} OBVIOUS
  <2>3. ClientTurn(e, q, {"suite", "hs"}, {"alt", "psk", "ed", "left"})
    BY <1>2, <1>4, <2>1, <2>2, ClientTurns
  <2>4. {"suite", "hs"} \cup {"out", "tr"} \subseteq {"suite", "hs", "out", "tr"} OBVIOUS
  <2>5. {"alt", "psk", "ed", "left"} \cup {} \subseteq {"alt", "psk", "ed", "left"} OBVIOUS
  <2>6. g.hs.ed = q.hs.ed BY <1>6 DEF ClientTurn, SameBut, ClientHsFields
  <2>. QED BY <1>4, <1>6, <2>3, <2>4, <2>5, <2>6, ClientTurns
<1>8. Greets(e, g)
  <2>1. q.hs.resuming = e.hs.resuming
    BY <1>2, <1>4 DEF ClientTurn, SameBut, ClientHsFields
  <2>2. HelloFrom(e, m) BY <1>5, <2>1 DEF HelloFrom
  <2>3. Recs(q) = Recs(e) BY <1>2, <1>4 DEF Recs
  <2>. QED BY <1>5, <1>6, <2>2, <2>3 DEF Greets, Plaintext
<1>9. /\ ClientTurn(e, h, {"suite", "hs", "out", "tr", "enc", "encOn", "earlyTraffic"},
                    {"alt", "psk", "ed", "left", "fakeCcs"})
      /\ Greets(e, h)
      /\ \/ ~EarlyEnabled(h) /\ h.earlyTraffic = e.earlyTraffic
         \/ Keyed(h, {"early"}) /\ h.earlyTraffic = TRUE /\ EarlyEnabled(h)
  <2>1. CASE o # None /\ EarlyEnabled(g)
    <3>1. h = StartEarlyTraffic(g, o[1]) BY <2>1
    <3>. HIDE DEF h
    <3>2. /\ ClientTurn(g, h, {"out", "hs", "enc", "encOn", "earlyTraffic"}, {"fakeCcs"})
          /\ Adds(g, h, {"ChangeCipherSpec"}) /\ Keyed(h, {"early"}) /\ h.earlyTraffic = TRUE
      BY <1>7, <3>1, EarlyTrafficStep DEF ClientTurn
    <3>3. {"suite", "hs", "out", "tr"} \cup {"out", "hs", "enc", "encOn", "earlyTraffic"}
          \subseteq {"suite", "hs", "out", "tr", "enc", "encOn", "earlyTraffic"} OBVIOUS
    <3>4. {"alt", "psk", "ed", "left"} \cup {"fakeCcs"}
          \subseteq {"alt", "psk", "ed", "left", "fakeCcs"} OBVIOUS
    <3>5. Greets(e, h) BY <1>8, <3>2 DEF Greets, Adds
    <3>6. EarlyEnabled(h)
      BY <2>1, <3>2 DEF EarlyEnabled, ClientTurn, SameBut, ClientHsFields
    <3>. QED BY <1>7, <3>2, <3>3, <3>4, <3>5, <3>6, ClientTurns
  <2>2. CASE ~(o # None /\ EarlyEnabled(g))
    <3>1. h = g BY <2>2
    <3>2. ~EarlyEnabled(g) BY <1>2, <1>7, <2>2 DEF EarlyEnabled
    <3>3. g.earlyTraffic = e.earlyTraffic
      BY <1>7 DEF ClientTurn, Same, SameBut, EndpointFields
    <3>4. ClientTurn(e, g, {"suite", "hs", "out", "tr", "enc", "encOn", "earlyTraffic"},
                    {"alt", "psk", "ed", "left", "fakeCcs"})
      BY <1>7 DEF ClientTurn, Same, SameBut
    <3>. QED BY <1>8, <3>1, <3>2, <3>3, <3>4
  <2>. QED BY <2>1, <2>2
<1>. HIDE DEF h, f, st
<1>10. ClientTurn(h, f, {"st"}, {}) /\ f.st = st /\ f.out = h.out
  <2>1. ClientShaped(h) BY <1>9 DEF ClientTurn
  <2>. QED BY <1>1, <2>1, ClientMoves
<1>11. ClientTurn(e, f, {"suite", "hs", "out", "tr", "enc", "encOn", "earlyTraffic", "st"},
                  {"alt", "psk", "ed", "left", "fakeCcs"})
  <2>1. {"suite", "hs", "out", "tr", "enc", "encOn", "earlyTraffic"} \cup {"st"}
        \subseteq {"suite", "hs", "out", "tr", "enc", "encOn", "earlyTraffic", "st"} OBVIOUS
  <2>2. {"alt", "psk", "ed", "left", "fakeCcs"} \cup {}
        \subseteq {"alt", "psk", "ed", "left", "fakeCcs"} OBVIOUS
  <2>. QED BY <1>9, <1>10, <2>1, <2>2, ClientTurns
<1>12. f.hs = h.hs /\ f.earlyTraffic = h.earlyTraffic /\ f.enc = h.enc /\ f.encOn = h.encOn
  BY <1>10 DEF ClientTurn, Same, SameBut, EndpointFields
<1>. QED BY <1>3, <1>9, <1>10, <1>11, <1>12 DEF f, EarlyEnabled, Keyed, Greets, Recs
\* The hello after a retry: no early data any more.
LEMMA SecondHelloStep ==
    ASSUME NEW e, ClientShaped(e), ~EarlyEnabled(e), e.hs.suite # None
    PROVE  LET f == EmitClientHello(e, TRUE) IN
           /\ ClientTurn(e, f, {"suite", "hs", "out", "tr", "st"},
                         {"alt", "psk", "ed", "left", "fakeCcs"})
           /\ f.st = "ExpectServerHello" /\ Greets(e, f) /\ f.hs.ed = e.hs.ed
<1>. DEFINE p == PrepareResumption(e)
            o == Offered(p)
            ks == IF 13 \notin p.cfg.vers THEN [shares |-> << >>, alt |-> << >>]
                  ELSE RetryShares(p.hs.share[1])
            alt == p.hs.alt \o ks.alt
            psk == IF o # None THEN Some(o[1].psk) ELSE None
            q == [p EXCEPT !.hs.alt = alt, !.hs.psk = psk]
            m == Hello(q, ks.shares)
            r == EmitFakeCcs(q)
            g == Emit(r, m, FALSE)
            h == IF o # None /\ EarlyEnabled(g) THEN StartEarlyTraffic(g, o[1]) ELSE g
            f == EmitClientHello(e, TRUE)
<1>1. f = [h EXCEPT !.st = "ExpectServerHello"] BY DEF EmitClientHello
<1>2. /\ ClientTurn(e, p, {"suite", "hs"}, {"ed", "left"})
      /\ p.hs.ed = e.hs.ed /\ p.out = e.out /\ p.tr = e.tr
  BY PrepareStep
<1>. HIDE DEF p, o, ks, alt, psk
<1>4. /\ ClientTurn(p, q, {"hs"}, {"alt", "psk"}) /\ q.out = p.out
      /\ q.hs.ed = p.hs.ed /\ q.hs.resuming = p.hs.resuming
  <2>1. ClientShaped(p) BY <1>2 DEF ClientTurn
  <2>2. /\ Same(p, q, {"hs"}) /\ SameBut(ClientHsFields, p.hs, q.hs, {"alt", "psk"})
        /\ q.out = p.out /\ q.hs.ed = p.hs.ed /\ q.hs.resuming = p.hs.resuming
    BY <2>1 DEF ClientShaped, Shaped, IsRecord, Same, SameBut, EndpointFields, ClientHsFields
  <2>. HIDE DEF q
  <2>3. {"hs"} \cap {"out", "plain", "queued", "side", "store"} = {} OBVIOUS
  <2>. QED BY <2>1, <2>2, <2>3, ClientNotes
<1>5. m.t = "ClientHello" /\ HelloFrom(q, m) BY HelloOffers
<1>. HIDE DEF q, m
<1>6. ClientTurn(q, r, {"out", "hs"}, {"fakeCcs"}) /\ Adds(q, r, {"ChangeCipherSpec"})
  BY <1>4, FakeCcsStep DEF ClientTurn
<1>. HIDE DEF r
<1>7. /\ ClientTurn(r, g, {"out", "tr"}, {}) /\ Recs(g) = Recs(r) \cup {Plaintext("handshake", m)}
  BY <1>6, ClientSays DEF ClientTurn
<1>. HIDE DEF g
<1>8. /\ ClientTurn(e, g, {"suite", "hs", "out", "tr"}, {"alt", "psk", "ed", "left", "fakeCcs"})
      /\ g.hs.ed = e.hs.ed
  <2>1. {"suite", "hs"} \cup {"hs"} \subseteq {"suite", "hs"} OBVIOUS
  <2>2. {"ed", "left"} \cup {"alt", "psk"} \subseteq {"alt", "psk", "ed", "left"} OBVIOUS
  <2>3. ClientTurn(e, q, {"suite", "hs"}, {"alt", "psk", "ed", "left"})
    BY <1>2, <1>4, <2>1, <2>2, ClientTurns
  <2>4. {"out", "hs"} \cup {"out", "tr"} \subseteq {"hs", "out", "tr"} OBVIOUS
  <2>5. {"fakeCcs"} \cup {} \subseteq {"fakeCcs"} OBVIOUS
  <2>6. ClientTurn(q, g, {"hs", "out", "tr"}, {"fakeCcs"})
    BY <1>6, <1>7, <2>4, <2>5, ClientTurns
  <2>7. {"suite", "hs"} \cup {"hs", "out", "tr"} \subseteq {"suite", "hs", "out", "tr"} OBVIOUS
  <2>8. {"alt", "psk", "ed", "left"} \cup {"fakeCcs"}
        \subseteq {"alt", "psk", "ed", "left", "fakeCcs"} OBVIOUS
  <2>9. g.hs.ed = q.hs.ed BY <2>6 DEF ClientTurn, SameBut, ClientHsFields
  <2>. QED BY <1>2, <1>4, <2>3, <2>6, <2>7, <2>8, <2>9, ClientTurns
<1>9. Greets(e, g)
  <2>1. q.hs.resuming = e.hs.resuming
    BY <1>2, <1>4 DEF ClientTurn, SameBut, ClientHsFields
  <2>2. HelloFrom(e, m) BY <1>5, <2>1 DEF HelloFrom
  <2>3. Recs(q) = Recs(e) BY <1>2, <1>4 DEF Recs
  <2>. QED BY <1>5, <1>6, <1>7, <2>2, <2>3 DEF Greets, Plaintext, Adds
<1>10. h = g BY <1>8 DEF EarlyEnabled
<1>. HIDE DEF h, f
<1>11. ClientTurn(g, f, {"st"}, {}) /\ f.st = "ExpectServerHello" /\ f.out = g.out
  <2>1. ClientShaped(g) BY <1>8 DEF ClientTurn
  <2>. QED BY <1>1, <1>10, <2>1, ClientMoves
<1>12. ClientTurn(e, f, {"suite", "hs", "out", "tr", "st"},
                  {"alt", "psk", "ed", "left", "fakeCcs"})
  <2>1. {"suite", "hs", "out", "tr"} \cup {"st"} \subseteq {"suite", "hs", "out", "tr", "st"}
    OBVIOUS
  <2>2. {"alt", "psk", "ed", "left", "fakeCcs"} \cup {}
        \subseteq {"alt", "psk", "ed", "left", "fakeCcs"} OBVIOUS
  <2>. QED BY <1>8, <1>11, <2>1, <2>2, ClientTurns
<1>13. f.hs = g.hs BY <1>11 DEF ClientTurn, Same, SameBut, EndpointFields
<1>. QED BY <1>8, <1>9, <1>11, <1>12, <1>13 DEF f, Greets, Recs

\* A client that fails with an alert.
LEMMA ClientFatal ==
    ASSUME NEW e, ClientShaped(e), NEW desc, desc # "none"
    PROVE  LET f == Fatal(e, desc) IN
           /\ ClientTurn(e, f, {"out", "sentFatal", "err"}, {}) /\ Failed(f)
           /\ Adds(e, f, {"Alert"})
<1>. DEFINE f == Fatal(e, desc)
<1>1. /\ Shaped(f) /\ Same(e, f, {"out", "sentFatal", "err"}) /\ Failed(f)
      /\ \E w : Recs(f) = Recs(e) \cup {w} /\ w.typ = "alert" /\ w.m.t = "Alert"
  BY FatalFrame DEF ClientShaped
<1>. HIDE DEF f
<1>2. ClientTurn(e, f, {"out", "sentFatal", "err"}, {}) BY <1>1, ClientQuiet
<1>3. Adds(e, f, {"Alert"}) BY <1>1 DEF Adds
<1>. QED BY <1>1, <1>2, <1>3 DEF f

\* A client that fails without one.
LEMMA ClientFail ==
    ASSUME NEW e, ClientShaped(e), NEW err, err # "none"
    PROVE  LET f == Fail(e, err) IN
           ClientTurn(e, f, {"err"}, {}) /\ Failed(f) /\ Adds(e, f, {})
<1>. DEFINE f == Fail(e, err)
<1>1. Shaped(f) /\ Same(e, f, {"err"}) /\ Failed(f) /\ Recs(f) = Recs(e)
  BY FailFrame DEF ClientShaped
<1>. HIDE DEF f
<1>2. ClientTurn(e, f, {"err"}, {}) BY <1>1, ClientQuiet
<1>. QED BY <1>1, <1>2 DEF f, Adds

\* How a client may have changed when it fails on a message.
ClientFails(e, f, m) ==
    /\ ClientTurn(e, f, {"out", "sentFatal", "err", "tr", "ver", "suite", "alpn", "cert", "hs"},
                  {"suite", "ed", "ems", "mustTicket", "status", "sid"})
    /\ Failed(f) /\ Adds(e, f, {"Alert", "Certificate", "ClientKeyExchange"})
    /\ f.hs.suite = e.hs.suite \/ (f.hs.suite # None /\ m.t = "HelloRetryRequest")
    /\ f.hs.ed = e.hs.ed \/ (f.hs.ed = "Rejected" /\ f.hs.suite # None)
    /\ e.st \notin ClientHelloStates => f.ver = e.ver /\ f.suite = e.suite /\ f.hs = e.hs
    /\ e.st \notin ClientHelloStates \cup {"ExpectEncryptedExtensions"} => f.alpn = e.alpn
    /\ e.st \in ClientVerified => f.cert = e.cert
    /\ Traffic(e) => f.tr = e.tr

\* A client that fails after a turn in which it did little else.
LEMMA ClientFatalAfter ==
    ASSUME NEW e, NEW g, NEW m, NEW desc, desc # "none",
           ClientTurn(e, g, {"tr", "ver", "suite", "alpn", "hs", "out", "cert"},
                      {"suite", "ed", "ems", "mustTicket", "status", "sid"}),
           Adds(e, g, {"Certificate", "ClientKeyExchange"}),
           g.hs.suite = e.hs.suite \/ (g.hs.suite # None /\ m.t = "HelloRetryRequest"),
           g.hs.ed = e.hs.ed \/ (g.hs.ed = "Rejected" /\ g.hs.suite # None),
           e.st \notin ClientHelloStates => g.ver = e.ver /\ g.suite = e.suite /\ g.hs = e.hs,
           e.st \notin ClientHelloStates \cup {"ExpectEncryptedExtensions"} => g.alpn = e.alpn,
           e.st \in ClientVerified => g.cert = e.cert,
           Traffic(e) => g.tr = e.tr
    PROVE  ClientFails(e, Fatal(g, desc), m) /\ ClientFails(e, Fail(g, desc), m)
<1>. DEFINE X == {"tr", "ver", "suite", "alpn", "hs", "out", "cert"}
            Y == {"suite", "ed", "ems", "mustTicket", "status", "sid"}
            Z == {"out", "sentFatal", "err", "tr", "ver", "suite", "alpn", "cert", "hs"}
<1>1. ASSUME NEW f, ClientTurn(g, f, {"out", "sentFatal", "err"}, {}), Failed(f),
             Adds(g, f, {"Alert"})
      PROVE  ClientFails(e, f, m)
  <2>1. X \cup {"out", "sentFatal", "err"} \subseteq Z /\ Y \cup {} \subseteq Y OBVIOUS
  <2>2. ClientTurn(e, f, Z, Y) BY <1>1, <2>1, ClientTurns
  <2>3. /\ f.hs = g.hs /\ f.ver = g.ver /\ f.suite = g.suite /\ f.alpn = g.alpn
        /\ f.cert = g.cert /\ f.tr = g.tr
    BY <1>1 DEF ClientTurn, Same, SameBut, EndpointFields
  <2>4. Adds(e, f, {"Alert", "Certificate", "ClientKeyExchange"}) BY <1>1 DEF Adds
  <2>. QED BY <1>1, <2>2, <2>3, <2>4 DEF ClientFails
<1>2. ClientShaped(g) BY DEF ClientTurn
<1>3. ClientFails(e, Fatal(g, desc), m) BY <1>1, <1>2, ClientFatal
<1>4. ClientFails(e, Fail(g, desc), m)
  <2>. DEFINE f == Fail(g, desc)
  <2>1. ClientTurn(g, f, {"err"}, {}) /\ Failed(f) /\ Adds(g, f, {}) BY <1>2, ClientFail
  <2>. HIDE DEF f
  <2>2. ClientTurn(g, f, {"out", "sentFatal", "err"}, {}) /\ Adds(g, f, {"Alert"})
    BY <2>1 DEF ClientTurn, Same, SameBut, Adds
  <2>3. ClientFails(e, f, m) BY <1>1, <2>1, <2>2
  <2>. QED BY <2>3 DEF f
<1>. QED BY <1>3, <1>4

\* A client that fails at once.
LEMMA ClientFailsNow ==
    ASSUME NEW e, ClientShaped(e), NEW m, NEW desc, desc # "none"
    PROVE  ClientFails(e, Fatal(e, desc), m) /\ ClientFails(e, Fail(e, desc), m)
<1>1. ClientTurn(e, e, {"tr", "ver", "suite", "alpn", "hs", "out", "cert"},
                 {"suite", "ed", "ems", "mustTicket", "status", "sid"})
  BY DEF ClientTurn, ClientShaped, Shaped, IsRecord, Same, SameBut
<1>2. Adds(e, e, {"Certificate", "ClientKeyExchange"}) BY DEF Adds
<1>. QED BY <1>1, <1>2, ClientFatalAfter
\* A client hashes a message.
LEMMA ClientHashes ==
    ASSUME NEW e, ClientShaped(e), NEW m
    PROVE  LET f == Hash(e, m) IN
           ClientTurn(e, f, {"tr"}, {}) /\ f.tr = Append(e.tr, m.t) /\ f.out = e.out
<1>. DEFINE f == Hash(e, m)
<1>1. Shaped(f) /\ Same(e, f, {"tr"}) /\ f.tr = Append(e.tr, m.t)
  BY HashFrame DEF ClientShaped
<1>. HIDE DEF f
<1>2. ClientTurn(e, f, {"tr"}, {}) BY <1>1, ClientQuiet
<1>3. f.out = e.out BY <1>1 DEF Same, SameBut, EndpointFields
<1>. QED BY <1>1, <1>2, <1>3 DEF f

\* A client that was asked for another group.
ClientRetries(e, f) ==
    /\ ClientTurn(e, f, {"ver", "suite", "tr", "hs", "out", "st"},
                  {"suite", "ed", "share", "alt", "psk", "left", "fakeCcs"})
    /\ f.st = "ExpectServerHello" /\ Greets(e, f)
    /\ f.hs.suite # None /\ ~EarlyEnabled(f)

\* ExpectServerHelloOrHelloRetryRequest::handle_hello_retry_request
LEMMA RetryStep ==
    ASSUME NEW e, ClientShaped(e), NEW m, m.t = "HelloRetryRequest",
           e.st \in ClientHelloStates
    PROVE  LET f == HandleHelloRetryRequest(e, m) IN ClientFails(e, f, m) \/ ClientRetries(e, f)
<1>. DEFINE suite == m.suite
            a == [e EXCEPT !.ver = 13, !.suite = suite, !.tr = <<"message_hash">>,
                           !.hs.suite = <<suite>>]
            b == [a EXCEPT !.hs.ed = "Rejected"]
            d == IF EarlyEnabled(a) THEN b ELSE a
            g == Hash(d, m)
            share == Share(m.group, 2)
            h == [g EXCEPT !.hs.share = <<share>>]
            f == HandleHelloRetryRequest(e, m)
            v == [e EXCEPT !.ver = 13]
            X == {"tr", "ver", "suite", "alpn", "hs", "out", "cert"}
            Y == {"suite", "ed", "ems", "mustTicket", "status", "sid"}
<1>0. <<suite>> # << >> OBVIOUS
<1>1. /\ ClientTurn(e, a, {"ver", "suite", "tr", "hs"}, {"suite", "ed"})
      /\ a.hs.suite = <<suite>> /\ a.hs.ed = e.hs.ed /\ a.out = e.out
  <2>. HIDE DEF suite
  <2>1. /\ Same(e, a, {"ver", "suite", "tr", "hs"})
        /\ SameBut(ClientHsFields, e.hs, a.hs, {"suite", "ed"})
        /\ a.hs.suite = <<suite>> /\ a.hs.ed = e.hs.ed /\ a.out = e.out
    <3>. DEFINE hs == [e.hs EXCEPT !.suite = <<suite>>]
    <3>1. IsRecord(e, EndpointFields) BY DEF ClientShaped, Shaped
    <3>2. a = [e EXCEPT !.ver = 13, !.suite = suite, !.tr = <<"message_hash">>, !.hs = hs]
      BY <3>1 DEF IsRecord, EndpointFields
    <3>. HIDE DEF a, hs
    <3>3. Same(e, a, {"ver", "suite", "tr", "hs"})
      BY <3>1, <3>2 DEF IsRecord, Same, SameBut, EndpointFields
    <3>4. a.hs = hs BY <3>1, <3>2 DEF IsRecord, EndpointFields
    <3>5. a.out = e.out BY <3>3 DEF Same, SameBut, EndpointFields
    <3>6. SameBut(ClientHsFields, e.hs, a.hs, {"suite", "ed"})
          /\ a.hs.suite = <<suite>> /\ a.hs.ed = e.hs.ed
      BY <3>4 DEF hs, ClientShaped, IsRecord, SameBut, ClientHsFields
    <3>. QED BY <3>3, <3>5, <3>6
  <2>. HIDE DEF a
  <2>2. {"ver", "suite", "tr", "hs"} \cap {"out", "plain", "queued", "side", "store"} = {} OBVIOUS
  <2>. QED BY <2>1, <2>2, ClientNotes
<1>2. RollupForHrr([e EXCEPT !.ver = 13, !.suite = m.suite])
      = [e EXCEPT !.ver = 13, !.suite = m.suite, !.tr = <<"message_hash">>]
  BY DEF RollupForHrr, ClientShaped, Shaped, IsRecord, EndpointFields
<1>3. f = IF m.group = e.hs.share[1].g \/ m.sid # e.hs.sid THEN Fatal(e, "IllegalParameter")
          ELSE IF m.suite \notin Range(e.cfg.suites) THEN Fatal(v, "IllegalParameter")
          ELSE RetryHello(g, m.group)
  <2>1. [[e EXCEPT !.ver = 13, !.suite = m.suite, !.tr = <<"message_hash">>]
           EXCEPT !.hs.suite = <<m.suite>>] = a
    BY DEF ClientShaped, Shaped, IsRecord, EndpointFields, ClientHsFields
  <2>2. [RollupForHrr([e EXCEPT !.ver = 13, !.suite = m.suite])
           EXCEPT !.hs.suite = Some(m.suite)] = a
    BY <1>2, <2>1 DEF Some
  <2>. HIDE DEF a
  <2>3. EarlyReject(a) = b BY DEF EarlyReject
  <2>. QED BY <2>2, <2>3 DEF HandleHelloRetryRequest
<1>. HIDE DEF a, suite
<1>4. /\ ClientTurn(a, b, {"hs"}, {"ed"}) /\ b.hs.ed = "Rejected" /\ b.out = a.out
      /\ b.hs.suite = a.hs.suite
  <2>1. ClientShaped(a) BY <1>1 DEF ClientTurn
  <2>2. /\ Same(a, b, {"hs"}) /\ SameBut(ClientHsFields, a.hs, b.hs, {"ed"})
        /\ b.hs.ed = "Rejected" /\ b.out = a.out /\ b.hs.suite = a.hs.suite
    BY <2>1 DEF ClientShaped, Shaped, IsRecord, Same, SameBut, EndpointFields, ClientHsFields
  <2>. HIDE DEF b
  <2>3. {"hs"} \cap {"out", "plain", "queued", "side", "store"} = {} OBVIOUS
  <2>. QED BY <2>1, <2>2, <2>3, ClientNotes
<1>. HIDE DEF b
<1>5. /\ ClientTurn(e, d, {"ver", "suite", "tr", "hs"}, {"suite", "ed"})
      /\ d.hs.suite # None /\ d.out = e.out /\ ~EarlyEnabled(d)
      /\ d.hs.ed \in {e.hs.ed, "Rejected"}
  <2>1. {"ver", "suite", "tr", "hs"} \cup {"hs"} \subseteq {"ver", "suite", "tr", "hs"} OBVIOUS
  <2>2. {"suite", "ed"} \cup {"ed"} \subseteq {"suite", "ed"} OBVIOUS
  <2>3. ClientTurn(e, b, {"ver", "suite", "tr", "hs"}, {"suite", "ed"})
    BY <1>1, <1>4, <2>1, <2>2, ClientTurns
  <2>4. ~EarlyEnabled(b) BY <1>4 DEF EarlyEnabled
  <2>. QED BY <1>0, <1>1, <1>4, <2>3, <2>4 DEF None
<1>. HIDE DEF d
<1>6. ClientTurn(d, g, {"tr"}, {}) /\ g.out = d.out BY <1>5, ClientHashes DEF ClientTurn
<1>. HIDE DEF g
<1>7. /\ ClientTurn(e, g, {"ver", "suite", "tr", "hs"}, {"suite", "ed"})
      /\ g.hs.suite # None /\ g.out = e.out /\ ~EarlyEnabled(g)
      /\ g.hs.ed \in {e.hs.ed, "Rejected"}
  <2>1. {"ver", "suite", "tr", "hs"} \cup {"tr"} \subseteq {"ver", "suite", "tr", "hs"} OBVIOUS
  <2>2. {"suite", "ed"} \cup {} \subseteq {"suite", "ed"} OBVIOUS
  <2>3. g.hs = d.hs BY <1>6 DEF ClientTurn, Same, SameBut, EndpointFields
  <2>. QED BY <1>5, <1>6, <2>1, <2>2, <2>3, ClientTurns DEF EarlyEnabled
<1>8. \A err : err # "none" => ClientFails(e, Fatal(g, err), m) /\ ClientFails(e, Fail(g, err), m)
  <2>1. ClientTurn(e, g, X, Y) BY <1>7 DEF ClientTurn, Same, SameBut
  <2>2. Adds(e, g, {"Certificate", "ClientKeyExchange"}) BY <1>7 DEF Adds, Recs
  <2>3. e.st \notin ClientVerified /\ ~Traffic(e)
    BY DEF ClientHelloStates, ClientVerified, Traffic, ClientLate12States
  <2>. QED BY <1>7, <2>1, <2>2, <2>3, ClientFatalAfter
<1>9. ClientFails(e, Fatal(v, "IllegalParameter"), m)
  <2>1. Same(e, v, {"ver"}) /\ v.out = e.out /\ v.hs = e.hs
    BY DEF ClientShaped, Shaped, IsRecord, Same, SameBut, EndpointFields
  <2>. HIDE DEF v
  <2>2. Shaped(v) BY <2>1, SameShaped DEF ClientShaped
  <2>3. ClientTurn(e, v, {"ver"}, {}) BY <2>1, <2>2, ClientQuiet
  <2>4. ClientTurn(e, v, X, Y) BY <2>3 DEF ClientTurn, Same, SameBut
  <2>5. Adds(e, v, {"Certificate", "ClientKeyExchange"}) BY <2>1 DEF Adds, Recs
  <2>6. e.st \notin ClientVerified /\ ~Traffic(e)
    BY DEF ClientHelloStates, ClientVerified, Traffic, ClientLate12States
  <2>. QED BY <2>1, <2>4, <2>5, <2>6, ClientFatalAfter
<1>10. ClientRetries(e, EmitClientHello(h, TRUE))
  <2>. DEFINE r == EmitClientHello(h, TRUE)
  <2>1. ClientTurn(g, h, {"hs"}, {"share"}) /\ h.out = g.out /\ h.hs.ed = g.hs.ed
        /\ h.hs.suite = g.hs.suite /\ h.hs.resuming = g.hs.resuming
    <3>. HIDE DEF share
    <3>1. ClientShaped(g) BY <1>7 DEF ClientTurn
    <3>2. /\ Same(g, h, {"hs"}) /\ SameBut(ClientHsFields, g.hs, h.hs, {"share"})
          /\ h.out = g.out /\ h.hs.ed = g.hs.ed
          /\ h.hs.suite = g.hs.suite /\ h.hs.resuming = g.hs.resuming
      BY <3>1 DEF ClientShaped, Shaped, IsRecord, Same, SameBut, EndpointFields, ClientHsFields
    <3>. HIDE DEF h
    <3>3. {"hs"} \cap {"out", "plain", "queued", "side", "store"} = {} OBVIOUS
    <3>. QED BY <3>1, <3>2, <3>3, ClientNotes
  <2>. HIDE DEF h
  <2>2. ClientShaped(h) /\ ~EarlyEnabled(h) /\ h.hs.suite # None
    BY <1>7, <2>1 DEF EarlyEnabled, ClientTurn
  <2>3. /\ ClientTurn(h, r, {"suite", "hs", "out", "tr", "st"},
                      {"alt", "psk", "ed", "left", "fakeCcs"})
        /\ r.st = "ExpectServerHello" /\ Greets(h, r) /\ r.hs.ed = h.hs.ed
    BY <2>2, SecondHelloStep
  <2>. HIDE DEF r
  <2>4. ClientTurn(e, h, {"ver", "suite", "tr", "hs"}, {"suite", "ed", "share"})
    <3>1. {"ver", "suite", "tr", "hs"} \cup {"hs"} \subseteq {"ver", "suite", "tr", "hs"} OBVIOUS
    <3>2. {"suite", "ed"} \cup {"share"} \subseteq {"suite", "ed", "share"} OBVIOUS
    <3>. QED BY <1>7, <2>1, <3>1, <3>2, ClientTurns
  <2>5. ClientTurn(e, r, {"ver", "suite", "tr", "hs", "out", "st"},
                   {"suite", "ed", "share", "alt", "psk", "left", "fakeCcs"})
    <3>1. {"ver", "suite", "tr", "hs"} \cup {"suite", "hs", "out", "tr", "st"}
          \subseteq {"ver", "suite", "tr", "hs", "out", "st"} OBVIOUS
    <3>2. {"suite", "ed", "share"} \cup {"alt", "psk", "ed", "left", "fakeCcs"}
          \subseteq {"suite", "ed", "share", "alt", "psk", "left", "fakeCcs"} OBVIOUS
    <3>. QED BY <2>3, <2>4, <3>1, <3>2, ClientTurns
  <2>6. Greets(e, r)
    <3>1. h.hs.resuming = e.hs.resuming BY <2>4 DEF ClientTurn, SameBut, ClientHsFields
    <3>2. Recs(h) = Recs(e) BY <1>7, <2>1 DEF Recs
    <3>. QED BY <2>3, <3>1, <3>2 DEF Greets, HelloFrom
  <2>7. r.hs.suite = h.hs.suite BY <2>3 DEF ClientTurn, SameBut, ClientHsFields
  <2>8. ClientRetries(e, r) BY <2>2, <2>3, <2>5, <2>6, <2>7 DEF ClientRetries, EarlyEnabled
  <2>. QED BY <2>8 DEF r
<1>11. RetryHello(g, m.group) \in
         {Fatal(g, "IllegalParameter"), Fail(g, "FailedToGetRandomBytes"), EmitClientHello(h, TRUE)}
  BY DEF RetryHello, Some
<1>12. ClientFails(e, Fatal(e, "IllegalParameter"), m) BY ClientFailsNow
<1>13. ClientFails(e, Fatal(g, "IllegalParameter"), m) BY <1>8
<1>14. ClientFails(e, Fail(g, "FailedToGetRandomBytes"), m) BY <1>8
<1>. HIDE DEF f
<1>15. ClientFails(e, f, m) \/ ClientRetries(e, f)
  BY <1>3, <1>9, <1>10, <1>11, <1>12, <1>13, <1>14
<1>. QED BY <1>15 DEF f
\* A client sets a key of the sending direction.
LEMMA ClientEncrypts ==
    ASSUME NEW e, ClientShaped(e), NEW key
    PROVE  LET f == SetEncrypter(e, key) IN
           /\ ClientTurn(e, f, {"enc", "encOn"}, {}) /\ f.out = e.out
           /\ f.enc = <<key>> /\ f.encOn = TRUE
<1>. DEFINE f == SetEncrypter(e, key)
<1>1. Shaped(f) /\ Same(e, f, {"enc", "encOn"}) /\ f.enc = <<key>> /\ f.encOn = TRUE
  BY EncrypterFrame DEF ClientShaped
<1>. HIDE DEF f
<1>2. ClientTurn(e, f, {"enc", "encOn"}, {}) BY <1>1, ClientQuiet
<1>3. f.out = e.out BY <1>1 DEF Same, SameBut, EndpointFields
<1>. QED BY <1>1, <1>2, <1>3 DEF f

\* A client sets a key of the receiving direction.
LEMMA ClientDecrypts ==
    ASSUME NEW e, ClientShaped(e), NEW key
    PROVE  LET f == SetDecrypter(e, key) IN
           ClientTurn(e, f, {"dec", "decOn", "trial"}, {}) /\ f.out = e.out
<1>. DEFINE f == SetDecrypter(e, key)
<1>1. Shaped(f) /\ Same(e, f, {"dec", "decOn", "trial"})
  BY DecrypterFrame DEF ClientShaped
<1>. HIDE DEF f
<1>2. ClientTurn(e, f, {"dec", "decOn", "trial"}, {}) BY <1>1, ClientQuiet
<1>3. f.out = e.out BY <1>1 DEF Same, SameBut, EndpointFields
<1>. QED BY <1>2, <1>3 DEF f

\* A client that got a ServerHello of TLS 1.3.
ClientChose13(e, f) ==
    /\ ClientTurn(e, f, {"ver", "suite", "alpn", "tr", "hs", "store", "dec", "decOn", "trial",
                         "enc", "encOn", "earlyTraffic", "out", "st"},
                  {"ed", "resuming", "sec", "fakeCcs"})
    /\ f.st = "ExpectEncryptedExtensions" /\ Adds(e, f, {"ChangeCipherSpec"})
    /\ f.store.tls12 = e.store.tls12 /\ f.store.tls13 = e.store.tls13
    /\ f.hs.sec = <<f.hs.sec[1]>> /\ IsRecord(f.hs.sec[1], SecretFields)
    /\ f.hs.sec[1].psk # None <=> f.hs.resuming # None
    /\ f.hs.resuming \in {None, e.hs.resuming}
    /\ \/ f.hs.ed = e.hs.ed /\ f.earlyTraffic = e.earlyTraffic
       \/ f.hs.ed = "Rejected" /\ f.earlyTraffic = FALSE
    /\ EarlyEnabled(f) => f.enc = e.enc /\ f.encOn = e.encOn

\* tls13::handle_server_hello
LEMMA ServerHello13Step ==
    ASSUME NEW e, ClientShaped(e), NEW m
    PROVE  LET f == ServerHello13(e, m) IN
           \/ f = Fatal(e, "IllegalParameter")
           \/ ClientChose13(e, f) /\ f.ver = e.ver /\ f.suite = e.suite /\ f.alpn = e.alpn
<1>. DEFINE ours == FindKeyShare(e.hs.alt, m.share.g, e.hs.share[1])
            psk == ChosenPsk(e, m)
            rej == [EarlyReject(e) EXCEPT !.earlyTraffic = FALSE, !.hs.resuming = None]
            a == IF psk # None THEN e ELSE rej
            grp == m.share.g
            b == SetKxHint(a, grp)
            kx == [n |-> e.n, g |-> ours.g, c |-> ours.i, s |-> m.share.i]
            sec == Secret(m.suite, psk, kx, a.tr)
            d == [b EXCEPT !.hs.sec = <<sec>>]
            d2 == SetDecrypter(d, HandshakeKey("server", sec))
            x == IF EarlyEnabled(d2) THEN d2 ELSE SetEncrypter(d2, HandshakeKey("client", sec))
            y == EmitFakeCcs(HandshakeSecrets(b, sec))
            f == ServerHello13(e, m)
            ok == [y EXCEPT !.st = "ExpectEncryptedExtensions"]
<1>1. /\ f = IF ours.g # m.share.g \/ BadResumption(e, m) THEN Fatal(e, "IllegalParameter") ELSE ok
      /\ psk # None => e.hs.resuming # None \/ BadResumption(e, m)
  <2>1. psk # None => e.hs.resuming # None \/ BadResumption(e, m) BY DEF BadResumption
  <2>2. f = IF ours.g # m.share.g \/ BadResumption(e, m) THEN Fatal(e, "IllegalParameter") ELSE ok
    BY DEF ServerHello13
  <2>. QED BY <2>1, <2>2
<1>2. IsRecord(sec, SecretFields) /\ sec.psk = psk /\ <<sec>>[1] = sec
  BY DEF Secret, IsRecord, SecretFields
<1>3. /\ ClientTurn(e, rej, {"hs", "earlyTraffic"}, {"ed", "resuming"}) /\ rej.out = e.out
      /\ rej.hs.ed = "Rejected" /\ rej.earlyTraffic = FALSE /\ rej.hs.resuming = None
  <2>1. /\ Same(e, rej, {"hs", "earlyTraffic"})
        /\ SameBut(ClientHsFields, e.hs, rej.hs, {"ed", "resuming"}) /\ rej.out = e.out
        /\ rej.hs.ed = "Rejected" /\ rej.earlyTraffic = FALSE /\ rej.hs.resuming = None
    BY DEF EarlyReject, ClientShaped, Shaped, IsRecord, Same, SameBut, EndpointFields,
           ClientHsFields
  <2>. HIDE DEF rej
  <2>2. {"hs", "earlyTraffic"} \cap {"out", "plain", "queued", "side", "store"} = {} OBVIOUS
  <2>. QED BY <2>1, <2>2, ClientNotes
<1>. HIDE DEF psk, ours, rej, grp
<1>4. /\ ClientTurn(e, a, {"hs", "earlyTraffic"}, {"ed", "resuming"}) /\ a.out = e.out
      /\ psk # None => a = e
      /\ psk = None => a.hs.ed = "Rejected" /\ a.earlyTraffic = FALSE /\ a.hs.resuming = None
  <2>1. ClientTurn(e, e, {"hs", "earlyTraffic"}, {"ed", "resuming"})
    BY DEF ClientTurn, ClientShaped, Shaped, IsRecord, Same, SameBut
  <2>. QED BY <1>3, <2>1
<1>. HIDE DEF a, sec
<1>5. /\ ClientTurn(a, b, {"store"}, {}) /\ b.out = a.out
      /\ b.store.tls12 = a.store.tls12 /\ b.store.tls13 = a.store.tls13
  <2>1. ClientShaped(a) BY <1>4 DEF ClientTurn
  <2>2. /\ Same(a, b, {"store"}) /\ SameBut(ClientStoreFields, a.store, b.store, {"hint"})
        /\ b.out = a.out /\ b.store.tls12 = a.store.tls12 /\ b.store.tls13 = a.store.tls13
        /\ b.hs = a.hs /\ b.side = a.side
    BY <2>1 DEF SetKxHint, Some, ClientShaped, Shaped, IsRecord, Same, SameBut,
                EndpointFields, ClientStoreFields
  <2>. HIDE DEF b
  <2>3. Shaped(b) BY <2>1, <2>2, SameShaped DEF ClientShaped
  <2>4. IsRecord(b.store, ClientStoreFields) BY <2>2 DEF SameBut, IsRecord
  <2>5. SameBut(ClientHsFields, a.hs, b.hs, {}) BY <2>1, <2>2 DEF SameBut, ClientShaped, IsRecord
  <2>. QED BY <2>1, <2>2, <2>3, <2>4, <2>5 DEF ClientTurn, ClientShaped
<1>. HIDE DEF b
<1>. HIDE DEF d
<1>17. HandshakeSecrets(b, sec) = x BY DEF HandshakeSecrets, Some, d
<1>. USE DEF d
<1>6. /\ ClientTurn(b, d, {"hs"}, {"sec"}) /\ d.out = b.out /\ d.hs.sec = <<sec>>
  <2>1. ClientShaped(b) BY <1>5 DEF ClientTurn
  <2>2. /\ Same(b, d, {"hs"}) /\ SameBut(ClientHsFields, b.hs, d.hs, {"sec"})
        /\ d.out = b.out /\ d.hs.sec = <<sec>>
    BY <2>1 DEF ClientShaped, Shaped, IsRecord, Same, SameBut, EndpointFields, ClientHsFields
  <2>. HIDE DEF d
  <2>3. {"hs"} \cap {"out", "plain", "queued", "side", "store"} = {} OBVIOUS
  <2>. QED BY <2>1, <2>2, <2>3, ClientNotes
<1>. HIDE DEF d
<1>7. ClientTurn(d, d2, {"dec", "decOn", "trial"}, {}) /\ d2.out = d.out
  BY <1>6, ClientDecrypts DEF ClientTurn
<1>. HIDE DEF d2
<1>8. /\ ClientTurn(d2, x, {"enc", "encOn"}, {}) /\ x.out = d2.out
      /\ EarlyEnabled(d2) => x = d2
  <2>1. /\ ClientTurn(d2, SetEncrypter(d2, HandshakeKey("client", sec)), {"enc", "encOn"}, {})
        /\ SetEncrypter(d2, HandshakeKey("client", sec)).out = d2.out
    BY <1>7, ClientEncrypts DEF ClientTurn
  <2>2. ClientTurn(d2, d2, {"enc", "encOn"}, {})
    BY <1>7 DEF ClientTurn, ClientShaped, Shaped, IsRecord, Same, SameBut
  <2>. QED BY <2>1, <2>2
<1>. HIDE DEF x
<1>9. ClientTurn(x, y, {"out", "hs"}, {"fakeCcs"}) /\ Adds(x, y, {"ChangeCipherSpec"})
  BY <1>8, <1>17, FakeCcsStep DEF ClientTurn
<1>. HIDE DEF y
<1>10. ClientTurn(y, ok, {"st"}, {}) /\ ok.st = "ExpectEncryptedExtensions" /\ ok.out = y.out
  <2>1. ClientShaped(y) BY <1>9 DEF ClientTurn
  <2>. QED BY <2>1, ClientMoves
<1>. HIDE DEF ok
<1>. DEFINE X == {"ver", "suite", "alpn", "tr", "hs", "store", "dec", "decOn", "trial",
                  "enc", "encOn", "earlyTraffic", "out", "st"}
            Y == {"ed", "resuming", "sec", "fakeCcs"}
<1>11. ClientTurn(e, ok, X, Y)
  <2>1. {"hs", "earlyTraffic"} \cup {"store"} \subseteq X OBVIOUS
  <2>2. {"ed", "resuming"} \cup {} \subseteq Y OBVIOUS
  <2>3. ClientTurn(e, b, X, Y) BY <1>4, <1>5, <2>1, <2>2, ClientTurns
  <2>4. X \cup {"hs"} \subseteq X /\ Y \cup {"sec"} \subseteq Y OBVIOUS
  <2>5. ClientTurn(e, d, X, Y) BY <1>6, <2>3, <2>4, ClientTurns
  <2>6. X \cup {"dec", "decOn", "trial"} \subseteq X /\ Y \cup {} \subseteq Y OBVIOUS
  <2>7. ClientTurn(e, d2, X, Y) BY <1>7, <2>5, <2>6, ClientTurns
  <2>8. X \cup {"enc", "encOn"} \subseteq X OBVIOUS
  <2>9. ClientTurn(e, x, X, Y) BY <1>8, <2>7, <2>6, <2>8, ClientTurns
  <2>10. X \cup {"out", "hs"} \subseteq X /\ Y \cup {"fakeCcs"} \subseteq Y OBVIOUS
  <2>11. ClientTurn(e, y, X, Y) BY <1>9, <2>9, <2>10, ClientTurns
  <2>12. X \cup {"st"} \subseteq X OBVIOUS
  <2>. QED BY <1>10, <2>11, <2>12, <2>6, ClientTurns
<1>12. Adds(e, ok, {"ChangeCipherSpec"})
  <2>1. Recs(x) = Recs(e) /\ Recs(ok) = Recs(y)
    BY <1>4, <1>5, <1>6, <1>7, <1>8, <1>10 DEF Recs
  <2>. QED BY <1>9, <2>1 DEF Adds
<1>13. /\ ok.ver = e.ver /\ ok.suite = e.suite /\ ok.alpn = e.alpn
       /\ ok.store.tls12 = e.store.tls12 /\ ok.store.tls13 = e.store.tls13
       /\ ok.earlyTraffic = a.earlyTraffic
  <2>1. b.ver = e.ver /\ b.suite = e.suite /\ b.alpn = e.alpn /\ a.store = e.store
        /\ b.earlyTraffic = a.earlyTraffic
    BY <1>4, <1>5 DEF ClientTurn, Same, SameBut, EndpointFields
  <2>2. d2.ver = b.ver /\ d2.suite = b.suite /\ d2.alpn = b.alpn /\ d2.store = b.store
        /\ d2.earlyTraffic = b.earlyTraffic
    BY <1>6, <1>7 DEF ClientTurn, Same, SameBut, EndpointFields
  <2>3. y.ver = d2.ver /\ y.suite = d2.suite /\ y.alpn = d2.alpn /\ y.store = d2.store
        /\ y.earlyTraffic = d2.earlyTraffic
    BY <1>8, <1>9 DEF ClientTurn, Same, SameBut, EndpointFields
  <2>4. ok.ver = y.ver /\ ok.suite = y.suite /\ ok.alpn = y.alpn /\ ok.store = y.store
        /\ ok.earlyTraffic = y.earlyTraffic
    BY <1>10 DEF ClientTurn, Same, SameBut, EndpointFields
  <2>. QED BY <1>5, <2>1, <2>2, <2>3, <2>4
<1>14. ok.hs.sec = <<sec>> /\ ok.hs.resuming = a.hs.resuming /\ ok.hs.ed = a.hs.ed
       /\ d2.hs.ed = a.hs.ed
  <2>1. d2.hs.sec = <<sec>> /\ d2.hs.resuming = a.hs.resuming /\ d2.hs.ed = a.hs.ed
    <3>1. d2.hs = d.hs BY <1>7 DEF ClientTurn, Same, SameBut, EndpointFields
    <3>2. b.hs = a.hs BY <1>5 DEF ClientTurn, Same, SameBut, EndpointFields
    <3>. QED BY <1>6, <3>1, <3>2 DEF ClientTurn, SameBut, ClientHsFields
  <2>2. x.hs = d2.hs BY <1>8 DEF ClientTurn, Same, SameBut, EndpointFields
  <2>3. y.hs.sec = x.hs.sec /\ y.hs.resuming = x.hs.resuming /\ y.hs.ed = x.hs.ed
    BY <1>9 DEF ClientTurn, SameBut, ClientHsFields
  <2>4. ok.hs = y.hs BY <1>10 DEF ClientTurn, Same, SameBut, EndpointFields
  <2>. QED BY <2>1, <2>2, <2>3, <2>4
<1>15. EarlyEnabled(ok) => ok.enc = e.enc /\ ok.encOn = e.encOn
  <2>1. ok.enc = x.enc /\ ok.encOn = x.encOn
    BY <1>9, <1>10 DEF ClientTurn, Same, SameBut, EndpointFields
  <2>2. b.enc = e.enc /\ b.encOn = e.encOn
    BY <1>4, <1>5 DEF ClientTurn, Same, SameBut, EndpointFields
  <2>3. d2.enc = b.enc /\ d2.encOn = b.encOn
    BY <1>6, <1>7 DEF ClientTurn, Same, SameBut, EndpointFields
  <2>. QED BY <1>8, <1>14, <2>1, <2>2, <2>3 DEF EarlyEnabled
<1>16. ASSUME psk # None => e.hs.resuming # None PROVE ClientChose13(e, ok)
  BY <1>2, <1>4, <1>10, <1>11, <1>12, <1>13, <1>14, <1>15, <1>16 DEF ClientChose13
<1>. QED BY <1>1, <1>13, <1>16
\* A client that got a ServerHello of TLS 1.2.
ClientChose12(e, f) ==
    /\ ClientTurn(e, f, {"ver", "suite", "alpn", "tr", "hs", "enc", "encOn", "dec", "decOn",
                         "trial", "cert", "st"},
                  {"ems", "mustTicket", "status", "sid", "resuming", "ms"})
    /\ f.out = e.out
    /\ \/ /\ f.st = "ExpectCertificate12" /\ f.hs.resuming = None
          /\ f.enc = e.enc /\ f.encOn = e.encOn
       \/ /\ f.st \in {"ExpectNewTicket", "ExpectCcs"}
          /\ e.hs.resuming # None /\ f.hs.resuming = e.hs.resuming
          /\ e.hs.resuming[1].v = 12
          /\ f.cert = e.hs.resuming[1].cert /\ f.hs.ms = <<f.hs.ms[1]>>
          /\ f.enc # None /\ f.enc[1].k = "tls12"

\* CompleteServerHelloHandling::handle_server_hello of tls12.rs
LEMMA ServerHello12Step ==
    ASSUME NEW e, ClientShaped(e), NEW m
    PROVE  LET f == ServerHello12(e, m) IN
           \/ f = Fatal(e, "IllegalParameter")
           \/ \E x : /\ ClientTurn(e, x, {"hs"}, {"ems", "mustTicket", "status", "sid"})
                     /\ x.out = e.out /\ f = Fail(x, "PeerMisbehaved")
           \/ ClientChose12(e, f) /\ f.ver = e.ver /\ f.suite = e.suite /\ f.alpn = e.alpn
<1>. DEFINE r == IF e.hs.resuming # None /\ e.hs.resuming[1].v = 12
                 THEN e.hs.resuming ELSE None
            x == [e EXCEPT !.hs.ems = m.ems, !.hs.mustTicket = m.newTicket,
                           !.hs.status = m.status, !.hs.sid = m.sid]
            ms == r[1].ms
            cert == r[1].cert
            full == [x EXCEPT !.hs.resuming = None, !.st = "ExpectCertificate12"]
            st == IF m.newTicket THEN "ExpectNewTicket" ELSE "ExpectCcs"
            k == StartEncryption12(x, ms)
            res == [k EXCEPT !.cert = cert, !.hs.ms = Some(ms), !.st = st]
            f == ServerHello12(e, m)
<1>1. f = IF m.downgrade /\ 13 \in e.cfg.vers THEN Fatal(e, "IllegalParameter")
          ELSE IF r = None \/ e.hs.sid # m.sid THEN full
          ELSE IF r[1].suite # m.suite \/ r[1].ems # m.ems THEN Fail(x, "PeerMisbehaved")
          ELSE res
  BY DEF ServerHello12
<1>2. r # None => e.hs.resuming # None /\ r = e.hs.resuming /\ e.hs.resuming[1].v = 12
  OBVIOUS
<1>3. st \in {"ExpectNewTicket", "ExpectCcs"} OBVIOUS
<1>4. ClientTurn(e, x, {"hs"}, {"ems", "mustTicket", "status", "sid"}) /\ x.out = e.out
  <2>. DEFINE ems == m.ems
              must == m.newTicket
              status == m.status
              sid == m.sid
  <2>. HIDE DEF ems, must, status, sid
  <2>1. x = [e EXCEPT !.hs.ems = ems, !.hs.mustTicket = must, !.hs.status = status,
                      !.hs.sid = sid]
    BY DEF ems, must, status, sid
  <2>. HIDE DEF x
  <2>2. /\ Same(e, x, {"hs"}) /\ x.out = e.out
        /\ SameBut(ClientHsFields, e.hs, x.hs, {"ems", "mustTicket", "status", "sid"})
    BY <2>1 DEF ClientShaped, Shaped, IsRecord, Same, SameBut, EndpointFields, ClientHsFields
  <2>3. {"hs"} \cap {"out", "plain", "queued", "side", "store"} = {} OBVIOUS
  <2>. QED BY <2>2, <2>3, ClientNotes
<1>. HIDE DEF x, r, ms, cert, st
<1>. DEFINE X == {"ver", "suite", "alpn", "tr", "hs", "enc", "encOn", "dec", "decOn",
                  "trial", "cert", "st"}
            Y == {"ems", "mustTicket", "status", "sid", "resuming", "ms"}
<1>5. /\ ClientTurn(x, full, {"hs", "st"}, {"resuming"}) /\ full.out = x.out
      /\ full.st = "ExpectCertificate12" /\ full.hs.resuming = None
      /\ full.enc = x.enc /\ full.encOn = x.encOn
      /\ full.ver = x.ver /\ full.suite = x.suite /\ full.alpn = x.alpn
  <2>1. ClientShaped(x) BY <1>4 DEF ClientTurn
  <2>2. /\ Same(x, full, {"hs", "st"}) /\ SameBut(ClientHsFields, x.hs, full.hs, {"resuming"})
        /\ full.out = x.out /\ full.st = "ExpectCertificate12" /\ full.hs.resuming = None
        /\ full.enc = x.enc /\ full.encOn = x.encOn
        /\ full.ver = x.ver /\ full.suite = x.suite /\ full.alpn = x.alpn
    BY <2>1 DEF ClientShaped, Shaped, IsRecord, Same, SameBut, EndpointFields, ClientHsFields
  <2>. HIDE DEF full
  <2>3. {"hs", "st"} \cap {"out", "plain", "queued", "side", "store"} = {} OBVIOUS
  <2>. QED BY <2>1, <2>2, <2>3, ClientNotes
<1>. HIDE DEF full
<1>6. x.enc = e.enc /\ x.encOn = e.encOn /\ x.ver = e.ver /\ x.suite = e.suite /\ x.alpn = e.alpn
      /\ x.hs.resuming = e.hs.resuming
  BY <1>4 DEF ClientTurn, Same, SameBut, EndpointFields, ClientHsFields
<1>7. ClientChose12(e, full)
  <2>1. {"hs"} \cup {"hs", "st"} \subseteq X OBVIOUS
  <2>2. {"ems", "mustTicket", "status", "sid"} \cup {"resuming"} \subseteq Y OBVIOUS
  <2>3. ClientTurn(e, full, X, Y) BY <1>4, <1>5, <2>1, <2>2, ClientTurns
  <2>. QED BY <1>4, <1>5, <1>6, <2>3 DEF ClientChose12
<1>8. /\ ClientTurn(x, k, {"enc", "encOn", "dec", "decOn", "trial"}, {}) /\ k.out = x.out
      /\ k.enc # None /\ k.enc[1].k = "tls12"
      /\ k.ver = x.ver /\ k.suite = x.suite /\ k.alpn = x.alpn /\ k.hs = x.hs
  <2>1. ClientShaped(x) BY <1>4 DEF ClientTurn
  <2>2. /\ Shaped(k) /\ Same(x, k, {"enc", "encOn", "dec", "decOn", "trial"})
        /\ k.enc # None /\ k.enc[1].k = "tls12"
    BY <2>1, Encryption12Frame DEF ClientShaped
  <2>. HIDE DEF k
  <2>3. ClientTurn(x, k, {"enc", "encOn", "dec", "decOn", "trial"}, {})
    BY <2>1, <2>2, ClientQuiet
  <2>. QED BY <2>2, <2>3 DEF Same, SameBut, EndpointFields
<1>. HIDE DEF k
<1>9. /\ ClientTurn(k, res, {"hs", "st", "cert"}, {"ms"}) /\ res.out = k.out
      /\ res.st = st /\ res.cert = cert /\ res.hs.ms = <<ms>> /\ res.hs.resuming = k.hs.resuming
      /\ res.enc = k.enc
      /\ res.ver = k.ver /\ res.suite = k.suite /\ res.alpn = k.alpn
  <2>1. ClientShaped(k) BY <1>8 DEF ClientTurn
  <2>2. /\ Same(k, res, {"hs", "st", "cert"}) /\ SameBut(ClientHsFields, k.hs, res.hs, {"ms"})
        /\ res.out = k.out
        /\ res.st = st /\ res.cert = cert /\ res.hs.ms = <<ms>> /\ res.hs.resuming = k.hs.resuming
        /\ res.enc = k.enc
        /\ res.ver = k.ver /\ res.suite = k.suite /\ res.alpn = k.alpn
    <3>1. Same(k, res, {"hs", "st", "cert"})
      BY <2>1 DEF ClientShaped, Shaped, IsRecord, Same, SameBut, EndpointFields
    <3>2. res.hs = [k.hs EXCEPT !.ms = Some(ms)] /\ res.st = st /\ res.cert = cert
      BY <2>1 DEF ClientShaped, Shaped, IsRecord, EndpointFields
    <3>. HIDE DEF res
    <3>3. SameBut(ClientHsFields, k.hs, res.hs, {"ms"})
          /\ res.hs.ms = <<ms>> /\ res.hs.resuming = k.hs.resuming
      BY <2>1, <3>2 DEF Some, ClientShaped, IsRecord, SameBut, ClientHsFields
    <3>4. /\ res.out = k.out /\ res.enc = k.enc
          /\ res.ver = k.ver /\ res.suite = k.suite /\ res.alpn = k.alpn
      BY <3>1 DEF Same, SameBut, EndpointFields
    <3>. QED BY <3>1, <3>2, <3>3, <3>4
  <2>. HIDE DEF res
  <2>3. {"hs", "st", "cert"} \cap {"out", "plain", "queued", "side", "store"} = {} OBVIOUS
  <2>. QED BY <2>1, <2>2, <2>3, ClientNotes
<1>. HIDE DEF res
<1>10. r # None => ClientChose12(e, res)
  <2>1. {"hs"} \cup {"enc", "encOn", "dec", "decOn", "trial"} \subseteq X OBVIOUS
  <2>2. {"ems", "mustTicket", "status", "sid"} \cup {} \subseteq Y OBVIOUS
  <2>3. ClientTurn(e, k, X, Y) BY <1>4, <1>8, <2>1, <2>2, ClientTurns
  <2>4. X \cup {"hs", "st", "cert"} \subseteq X /\ Y \cup {"ms"} \subseteq Y OBVIOUS
  <2>5. ClientTurn(e, res, X, Y) BY <1>9, <2>3, <2>4, ClientTurns
  <2>6. res.hs.ms = <<res.hs.ms[1]>> BY <1>9
  <2>7. r # None => res.cert = e.hs.resuming[1].cert BY <1>2, <1>9 DEF cert
  <2>. QED BY <1>2, <1>3, <1>4, <1>6, <1>8, <1>9, <2>5, <2>6, <2>7 DEF ClientChose12
<1>. HIDE DEF f
<1>11. \/ f = Fatal(e, "IllegalParameter")
       \/ f = Fail(x, "PeerMisbehaved")
       \/ ClientChose12(e, f) /\ f.ver = e.ver /\ f.suite = e.suite /\ f.alpn = e.alpn
  BY <1>1, <1>5, <1>6, <1>7, <1>8, <1>9, <1>10
<1>. QED BY <1>4, <1>11 DEF f
\* ExpectServerHello::handle
LEMMA HelloStep ==
    ASSUME NEW e, ClientShaped(e), NEW m, m.t = "ServerHello", m.ver \in {12, 13},
           e.st \in ClientHelloStates
    PROVE  LET f == HandleServerHello(e, m) IN
           \/ ClientFails(e, f, m)
           \/ m.ver = 13 /\ ClientChose13(e, f) /\ f.ver = 13 /\ f.suite = m.suite
           \/ /\ m.ver = 12 /\ ClientChose12(e, f) /\ f.ver = 12 /\ f.suite = m.suite
              /\ f.alpn = m.alpn /\ ~(EarlyEnabled(e) /\ e.earlyTraffic)
<1>. DEFINE ver == m.ver
            suite == m.suite
            alpn == IF m.ver = 12 THEN m.alpn ELSE e.alpn
            a == [e EXCEPT !.ver = ver, !.suite = suite, !.alpn = alpn]
            g == Hash(a, m)
            f == HandleServerHello(e, m)
            X == {"tr", "ver", "suite", "alpn", "hs", "out", "cert"}
            Y == {"suite", "ed", "ems", "mustTicket", "status", "sid"}
<1>1. f = IF m.ver \notin e.cfg.vers THEN Fatal(e, "ProtocolVersion")
          ELSE IF m.ver = 12 /\ EarlyEnabled(e) /\ e.earlyTraffic
          THEN Fail(e, "OfferedEarlyDataWithOldProtocolVersion")
          ELSE IF m.ver = 12 /\ ~AlpnOffered(e, m.alpn) THEN Fatal(a, "IllegalParameter")
          ELSE IF m.suite \notin Range(e.cfg.suites) THEN Fatal(a, "HandshakeFailure")
          ELSE IF SuiteMisfits(e, m) THEN Fatal(a, "IllegalParameter")
          ELSE CompleteServerHello(g, m)
  BY DEF HandleServerHello
<1>2. m.ver = 12 => alpn = m.alpn OBVIOUS
<1>. HIDE DEF ver, suite, alpn
<1>3. /\ ClientTurn(e, a, {"ver", "suite", "alpn"}, {}) /\ a.out = e.out /\ a.hs = e.hs
      /\ a.ver = ver /\ a.suite = suite /\ a.alpn = alpn
  <2>1. /\ Same(e, a, {"ver", "suite", "alpn"}) /\ a.out = e.out /\ a.hs = e.hs
        /\ a.ver = ver /\ a.suite = suite /\ a.alpn = alpn
    <3>1. Same(e, a, {"ver", "suite", "alpn"})
      BY DEF ClientShaped, Shaped, IsRecord, Same, SameBut, EndpointFields
    <3>2. a.ver = ver /\ a.suite = suite /\ a.alpn = alpn
      BY DEF ClientShaped, Shaped, IsRecord, EndpointFields
    <3>. HIDE DEF a
    <3>3. a.out = e.out /\ a.hs = e.hs BY <3>1 DEF Same, SameBut, EndpointFields
    <3>. QED BY <3>1, <3>2, <3>3
  <2>. HIDE DEF a
  <2>2. Shaped(a)
    <3>1. "plain" \notin {"ver", "suite", "alpn"} /\ "queued" \notin {"ver", "suite", "alpn"}
          /\ "out" \notin {"ver", "suite", "alpn"} OBVIOUS
    <3>. QED BY <2>1, <3>1, SameShaped DEF ClientShaped
  <2>3. ClientTurn(e, a, {"ver", "suite", "alpn"}, {}) BY <2>1, <2>2, ClientQuiet
  <2>. QED BY <2>1, <2>3
<1>. HIDE DEF a
<1>4. ClientTurn(a, g, {"tr"}, {}) /\ g.out = a.out BY <1>3, ClientHashes DEF ClientTurn
<1>. HIDE DEF g
<1>5. /\ ClientTurn(e, g, {"ver", "suite", "alpn", "tr"}, {}) /\ g.out = e.out /\ g.hs = e.hs
      /\ g.ver = ver /\ g.suite = suite /\ g.alpn = alpn /\ ClientShaped(g)
  <2>1. {"ver", "suite", "alpn"} \cup {"tr"} \subseteq {"ver", "suite", "alpn", "tr"}
        /\ {} \cup {} \subseteq {} OBVIOUS
  <2>2. ClientTurn(e, g, {"ver", "suite", "alpn", "tr"}, {}) BY <1>3, <1>4, <2>1, ClientTurns
  <2>3. g.hs = a.hs /\ g.ver = a.ver /\ g.suite = a.suite /\ g.alpn = a.alpn
    BY <1>4 DEF ClientTurn, Same, SameBut, EndpointFields
  <2>. QED BY <1>3, <1>4, <2>2, <2>3 DEF ClientTurn
<1>6. e.st \notin ClientVerified /\ ~Traffic(e)
  BY DEF ClientHelloStates, ClientVerified, Traffic, ClientLate12States
<1>7. ASSUME NEW x, ClientTurn(e, x, X, Y), x.out = e.out, NEW err, err # "none",
             x.hs.suite = e.hs.suite, x.hs.ed = e.hs.ed
      PROVE  ClientFails(e, Fatal(x, err), m) /\ ClientFails(e, Fail(x, err), m)
  <2>1. Adds(e, x, {"Certificate", "ClientKeyExchange"}) BY <1>7 DEF Adds, Recs
  <2>. QED BY <1>6, <1>7, <2>1, ClientFatalAfter
<1>8. ClientTurn(e, a, X, Y) /\ ClientTurn(e, g, X, Y)
  BY <1>3, <1>5 DEF ClientTurn, Same, SameBut
<1>9. \A err : err # "none" => ClientFails(e, Fatal(a, err), m) /\ ClientFails(e, Fatal(g, err), m)
  BY <1>3, <1>5, <1>7, <1>8
<1>10. ClientFails(e, Fatal(e, "ProtocolVersion"), m)
       /\ ClientFails(e, Fail(e, "OfferedEarlyDataWithOldProtocolVersion"), m)
  BY ClientFailsNow
<1>11. ClientFails(e, Fatal(a, "IllegalParameter"), m)
       /\ ClientFails(e, Fatal(a, "HandshakeFailure"), m)
       /\ ClientFails(e, Fatal(g, "IllegalParameter"), m)
  BY <1>9
<1>12. CASE f = ServerHello13(g, m) /\ m.ver = 13
  <2>. HIDE DEF f
  <2>1. \/ f = Fatal(g, "IllegalParameter")
        \/ ClientChose13(g, f) /\ f.ver = g.ver /\ f.suite = g.suite /\ f.alpn = g.alpn
    BY <1>5, <1>12, ServerHello13Step
  <2>2. CASE f = Fatal(g, "IllegalParameter") BY <1>11, <2>2 DEF f
  <2>3. CASE ClientChose13(g, f) /\ f.ver = g.ver /\ f.suite = g.suite /\ f.alpn = g.alpn
    <3>. DEFINE P == {"ver", "suite", "alpn", "tr", "hs", "store", "dec", "decOn", "trial",
                      "enc", "encOn", "earlyTraffic", "out", "st"}
                Q == {"ed", "resuming", "sec", "fakeCcs"}
    <3>1. {"ver", "suite", "alpn", "tr"} \cup P \subseteq P /\ {} \cup Q \subseteq Q OBVIOUS
    <3>2. ClientTurn(g, f, P, Q) BY <2>3 DEF ClientChose13
    <3>3. ClientTurn(e, f, P, Q) BY <1>5, <3>1, <3>2, ClientTurns
    <3>4. g.store = e.store /\ g.earlyTraffic = e.earlyTraffic /\ g.enc = e.enc
          /\ g.encOn = e.encOn
      BY <1>5 DEF ClientTurn, Same, SameBut, EndpointFields
    <3>5. ClientChose13(e, f)
      BY <1>5, <2>3, <3>3, <3>4 DEF ClientChose13, Adds, Recs
    <3>. QED BY <1>5, <1>12, <2>3, <3>5 DEF ver, suite, f
  <2>. QED BY <2>1, <2>2, <2>3
<1>13. CASE /\ f = ServerHello12(g, m) /\ m.ver = 12
            /\ ~(EarlyEnabled(e) /\ e.earlyTraffic)
  <2>. HIDE DEF f
  <2>1. \/ f = Fatal(g, "IllegalParameter")
        \/ \E x : /\ ClientTurn(g, x, {"hs"}, {"ems", "mustTicket", "status", "sid"})
                  /\ x.out = g.out /\ f = Fail(x, "PeerMisbehaved")
        \/ ClientChose12(g, f) /\ f.ver = g.ver /\ f.suite = g.suite /\ f.alpn = g.alpn
    BY <1>5, <1>13, ServerHello12Step
  <2>2. CASE f = Fatal(g, "IllegalParameter") BY <1>11, <2>2 DEF f
  <2>3. CASE \E x : /\ ClientTurn(g, x, {"hs"}, {"ems", "mustTicket", "status", "sid"})
                    /\ x.out = g.out /\ f = Fail(x, "PeerMisbehaved")
    <3>1. PICK x : /\ ClientTurn(g, x, {"hs"}, {"ems", "mustTicket", "status", "sid"})
                   /\ x.out = g.out /\ f = Fail(x, "PeerMisbehaved")
      BY <2>3
    <3>2. {"ver", "suite", "alpn", "tr"} \cup {"hs"} \subseteq X
          /\ {} \cup {"ems", "mustTicket", "status", "sid"} \subseteq Y OBVIOUS
    <3>3. ClientTurn(e, x, X, Y) BY <1>5, <3>1, <3>2, ClientTurns
    <3>4. x.hs.suite = g.hs.suite /\ x.hs.ed = g.hs.ed
      BY <3>1 DEF ClientTurn, SameBut, ClientHsFields
    <3>5. ClientFails(e, Fail(x, "PeerMisbehaved"), m) BY <1>5, <1>7, <3>1, <3>3, <3>4
    <3>. QED BY <3>1, <3>5 DEF f
  <2>4. CASE ClientChose12(g, f) /\ f.ver = g.ver /\ f.suite = g.suite /\ f.alpn = g.alpn
    <3>. DEFINE P == {"ver", "suite", "alpn", "tr", "hs", "enc", "encOn", "dec", "decOn",
                      "trial", "cert", "st"}
                Q == {"ems", "mustTicket", "status", "sid", "resuming", "ms"}
    <3>1. {"ver", "suite", "alpn", "tr"} \cup P \subseteq P /\ {} \cup Q \subseteq Q OBVIOUS
    <3>2. ClientTurn(g, f, P, Q) BY <2>4 DEF ClientChose12
    <3>3. ClientTurn(e, f, P, Q) BY <1>5, <3>1, <3>2, ClientTurns
    <3>4. g.enc = e.enc /\ g.encOn = e.encOn
      BY <1>5 DEF ClientTurn, Same, SameBut, EndpointFields
    <3>5. ClientChose12(e, f) BY <1>5, <2>4, <3>3, <3>4 DEF ClientChose12
    <3>. QED BY <1>2, <1>5, <1>13, <2>4, <3>5 DEF ver, suite, f
  <2>. QED BY <2>1, <2>2, <2>3, <2>4
<1>14. CompleteServerHello(g, m) = IF m.ver = 13 THEN ServerHello13(g, m) ELSE ServerHello12(g, m)
  BY DEF CompleteServerHello
<1>. QED BY <1>1, <1>10, <1>11, <1>12, <1>13, <1>14
\* A client that noted what a message said and waits for the next.
ClientGoesOn(e, f, m) ==
    /\ ClientTurn(e, f, {"tr", "hs", "st"}, {"auth", "cert", "kx", "ticket"}) /\ f.out = e.out
    /\ f.hs.cert = e.hs.cert \/ (m.t = "Certificate" /\ f.hs.cert = m.cert)
    /\ f.hs.ticket = e.hs.ticket
         \/ (m.t = "NewSessionTicket" /\ f.hs.ticket = <<m.ticket>>)
    /\ \/ /\ e.st \in Client13States \ {"ExpectTraffic"}
          /\ f.st \in {"ExpectCertificate", "ExpectCertificateVerify"}
          /\ e.st # "ExpectEncryptedExtensions"
       \/ e.st \in ClientFull12States /\ f.st \in ClientFull12States
       \/ e.st = "ExpectNewTicket" /\ f.st = "ExpectCcs"

\* The messages that are only noted.
LEMMA QuietSteps ==
    ASSUME NEW e, ClientShaped(e), NEW m
    PROVE  /\ e.st = "ExpectCertificateOrCertReq" =>
                 ClientGoesOn(e, CertificateRequest(e, m, "ExpectCertificate"), m)
           /\ e.st \in {"ExpectCertificateOrCertReq", "ExpectCertificate"} /\ m.t = "Certificate" =>
                 ClientGoesOn(e, Certificate(e, m, "ExpectCertificateVerify"), m)
           /\ e.st = "ExpectCertificate12" /\ m.t = "Certificate" =>
                 ClientGoesOn(e, Certificate12(e, m), m)
           /\ e.st = "ExpectCertificateStatusOrServerKx" =>
                 ClientGoesOn(e, CertificateStatus(e, m), m)
           /\ e.st \in {"ExpectCertificateStatusOrServerKx", "ExpectServerKx"} =>
                 ClientGoesOn(e, ServerKx(e, m), m)
           /\ e.st = "ExpectServerDoneOrCertReq" =>
                 ClientGoesOn(e, CertificateRequest12(e, m), m)
           /\ e.st = "ExpectNewTicket" /\ m.t = "NewSessionTicket" =>
                 ClientGoesOn(e, NewTicket12(e, m), m)
<1>. DEFINE P == {"tr", "hs", "st"}
            Q == {"auth", "cert", "kx", "ticket"}
            tr == Append(e.tr, m.t)
<1>. HIDE DEF tr
<1>0. P \cap {"out", "plain", "queued", "side", "store"} = {} OBVIOUS
<1>2. ASSUME NEW x
      PROVE  /\ LET h == [e.hs EXCEPT !.auth = x] IN
                /\ SameBut(ClientHsFields, e.hs, h, Q)
                /\ h.cert = e.hs.cert /\ h.ticket = e.hs.ticket
             /\ LET h == [e.hs EXCEPT !.kx = x] IN
                /\ SameBut(ClientHsFields, e.hs, h, Q)
                /\ h.cert = e.hs.cert /\ h.ticket = e.hs.ticket
             /\ LET h == [e.hs EXCEPT !.cert = x] IN
                /\ SameBut(ClientHsFields, e.hs, h, Q)
                /\ h.cert = x /\ h.ticket = e.hs.ticket
             /\ LET h == [e.hs EXCEPT !.ticket = x] IN
                /\ SameBut(ClientHsFields, e.hs, h, Q)
                /\ h.cert = e.hs.cert /\ h.ticket = x
  BY DEF ClientShaped, IsRecord, SameBut, ClientHsFields
<1>3. ASSUME NEW st, NEW x
      PROVE  /\ [Hash(e, m) EXCEPT !.hs.auth = x, !.st = st]
                = [e EXCEPT !.tr = tr, !.hs = [e.hs EXCEPT !.auth = x], !.st = st]
             /\ [Hash(e, m) EXCEPT !.hs.kx = x, !.st = st]
                = [e EXCEPT !.tr = tr, !.hs = [e.hs EXCEPT !.kx = x], !.st = st]
             /\ [Hash(e, m) EXCEPT !.hs.cert = x, !.st = st]
                = [e EXCEPT !.tr = tr, !.hs = [e.hs EXCEPT !.cert = x], !.st = st]
             /\ [Hash(e, m) EXCEPT !.hs.ticket = x, !.st = st]
                = [e EXCEPT !.tr = tr, !.hs = [e.hs EXCEPT !.ticket = x], !.st = st]
             /\ [Hash(e, m) EXCEPT !.st = st]
                = [e EXCEPT !.tr = tr, !.hs = e.hs, !.st = st]
  BY DEF Hash, tr, ClientShaped, Shaped, IsRecord, EndpointFields
<1>. USE DEF ClientGoesOn, ClientFull12States, Client13States
<1>4. ASSUME NEW st, \/ e.st = "ExpectCertificateOrCertReq" /\ st = "ExpectCertificate"
                     \/ e.st = "ExpectServerDoneOrCertReq" /\ st = "ExpectServerDone"
      PROVE  ClientGoesOn(e, CertificateRequest(e, m, st), m)
  <2>. DEFINE f == CertificateRequest(e, m, st)
              x == ResolveClientAuth(e.cfg)
              h == [e.hs EXCEPT !.auth = x]
  <2>1. f = [Hash(e, m) EXCEPT !.hs.auth = x, !.st = st] BY DEF CertificateRequest
  <2>. HIDE DEF f, x
  <2>2. f = [e EXCEPT !.tr = tr, !.hs = h, !.st = st] BY <1>3, <2>1
  <2>3. SameBut(ClientHsFields, e.hs, h, Q) /\ h.cert = e.hs.cert /\ h.ticket = e.hs.ticket
    BY <1>2
  <2>. HIDE DEF h
  <2>4. Same(e, f, P) /\ f.out = e.out /\ f.hs = h /\ f.st = st
    BY <2>2 DEF ClientShaped, Shaped, IsRecord, Same, SameBut, EndpointFields
  <2>5. ClientTurn(e, f, P, Q) BY <1>0, <2>3, <2>4, ClientNotes
  <2>6. ClientGoesOn(e, f, m) BY <1>4, <2>3, <2>5, <2>4
  <2>. QED BY <2>6 DEF f
<1>5. ASSUME m.t = "Certificate", NEW st,
             \/ /\ e.st \in {"ExpectCertificateOrCertReq", "ExpectCertificate"}
                /\ st = "ExpectCertificateVerify"
             \/ /\ e.st = "ExpectCertificate12"
                /\ st \in {"ExpectCertificateStatusOrServerKx", "ExpectServerKx"}
      PROVE  ClientGoesOn(e, Certificate(e, m, st), m)
  <2>. DEFINE f == Certificate(e, m, st)
              x == m.cert
              h == [e.hs EXCEPT !.cert = x]
  <2>1. f = [Hash(e, m) EXCEPT !.hs.cert = x, !.st = st] BY DEF Certificate
  <2>. HIDE DEF f, x
  <2>2. f = [e EXCEPT !.tr = tr, !.hs = h, !.st = st] BY <1>3, <2>1
  <2>3. SameBut(ClientHsFields, e.hs, h, Q) /\ h.cert = x /\ h.ticket = e.hs.ticket
    BY <1>2
  <2>. HIDE DEF h
  <2>4. Same(e, f, P) /\ f.out = e.out /\ f.hs = h /\ f.st = st
    BY <2>2 DEF ClientShaped, Shaped, IsRecord, Same, SameBut, EndpointFields
  <2>5. ClientTurn(e, f, P, Q) BY <1>0, <2>3, <2>4, ClientNotes
  <2>6. ClientGoesOn(e, f, m) BY <1>5, <2>3, <2>5, <2>4 DEF x
  <2>. QED BY <2>6 DEF f
<1>6. ASSUME m.t = "Certificate", e.st = "ExpectCertificate12"
      PROVE ClientGoesOn(e, Certificate12(e, m), m)
  <2>. DEFINE next == IF e.hs.status THEN "ExpectCertificateStatusOrServerKx" ELSE "ExpectServerKx"
  <2>1. next \in {"ExpectCertificateStatusOrServerKx", "ExpectServerKx"} OBVIOUS
  <2>2. Certificate12(e, m) = Certificate(e, m, next) BY DEF Certificate12
  <2>. HIDE DEF next
  <2>. QED BY <1>5, <1>6, <2>1, <2>2
<1>7. ASSUME e.st = "ExpectCertificateStatusOrServerKx"
      PROVE  ClientGoesOn(e, CertificateStatus(e, m), m)
  <2>. DEFINE f == CertificateStatus(e, m)
              h == e.hs
  <2>1. f = [Hash(e, m) EXCEPT !.st = "ExpectServerKx"] BY DEF CertificateStatus
  <2>. HIDE DEF f
  <2>2. f = [e EXCEPT !.tr = tr, !.hs = h, !.st = "ExpectServerKx"] BY <1>3, <2>1
  <2>3. SameBut(ClientHsFields, e.hs, h, Q) BY DEF ClientShaped, IsRecord, SameBut
  <2>4. Same(e, f, P) /\ f.out = e.out /\ f.hs = h /\ f.st = "ExpectServerKx"
    BY <2>2 DEF ClientShaped, Shaped, IsRecord, Same, SameBut, EndpointFields
  <2>5. ClientTurn(e, f, P, Q) BY <1>0, <2>3, <2>4, ClientNotes
  <2>6. ClientGoesOn(e, f, m) BY <1>7, <2>5, <2>4
  <2>. QED BY <2>6 DEF f
<1>8. ASSUME e.st \in {"ExpectCertificateStatusOrServerKx", "ExpectServerKx"}
      PROVE  ClientGoesOn(e, ServerKx(e, m), m)
  <2>. DEFINE f == ServerKx(e, m)
              x == Some([share |-> m.share, sig |-> m.sig])
              h == [e.hs EXCEPT !.kx = x]
  <2>1. f = [Hash(e, m) EXCEPT !.hs.kx = x, !.st = "ExpectServerDoneOrCertReq"] BY DEF ServerKx
  <2>. HIDE DEF f, x
  <2>2. f = [e EXCEPT !.tr = tr, !.hs = h, !.st = "ExpectServerDoneOrCertReq"] BY <1>3, <2>1
  <2>3. SameBut(ClientHsFields, e.hs, h, Q) /\ h.cert = e.hs.cert /\ h.ticket = e.hs.ticket
    BY <1>2
  <2>. HIDE DEF h
  <2>4. Same(e, f, P) /\ f.out = e.out /\ f.hs = h /\ f.st = "ExpectServerDoneOrCertReq"
    BY <2>2 DEF ClientShaped, Shaped, IsRecord, Same, SameBut, EndpointFields
  <2>5. ClientTurn(e, f, P, Q) BY <1>0, <2>3, <2>4, ClientNotes
  <2>6. ClientGoesOn(e, f, m) BY <1>8, <2>3, <2>5, <2>4
  <2>. QED BY <2>6 DEF f
<1>9. ASSUME e.st = "ExpectNewTicket", m.t = "NewSessionTicket"
      PROVE  ClientGoesOn(e, NewTicket12(e, m), m)
  <2>. DEFINE f == NewTicket12(e, m)
              x == Some(m.ticket)
              h == [e.hs EXCEPT !.ticket = x]
  <2>1. f = [Hash(e, m) EXCEPT !.hs.ticket = x, !.st = "ExpectCcs"] BY DEF NewTicket12
  <2>. HIDE DEF f, x
  <2>2. f = [e EXCEPT !.tr = tr, !.hs = h, !.st = "ExpectCcs"] BY <1>3, <2>1
  <2>3. SameBut(ClientHsFields, e.hs, h, Q) /\ h.cert = e.hs.cert /\ h.ticket = x
    BY <1>2
  <2>. HIDE DEF h
  <2>4. Same(e, f, P) /\ f.out = e.out /\ f.hs = h /\ f.st = "ExpectCcs"
    BY <2>2 DEF ClientShaped, Shaped, IsRecord, Same, SameBut, EndpointFields
  <2>5. ClientTurn(e, f, P, Q) BY <1>0, <2>3, <2>4, ClientNotes
  <2>6. ClientGoesOn(e, f, m) BY <1>9, <2>3, <2>5, <2>4 DEF x, Some
  <2>. QED BY <2>6 DEF f
<1>10. /\ e.st = "ExpectCertificateOrCertReq" =>
              ClientGoesOn(e, CertificateRequest(e, m, "ExpectCertificate"), m)
       /\ e.st = "ExpectServerDoneOrCertReq" => ClientGoesOn(e, CertificateRequest12(e, m), m)
       /\ e.st \in {"ExpectCertificateOrCertReq", "ExpectCertificate"} /\ m.t = "Certificate" =>
              ClientGoesOn(e, Certificate(e, m, "ExpectCertificateVerify"), m)
  BY <1>4, <1>5 DEF CertificateRequest12
<1>. HIDE DEF ClientGoesOn, ClientFull12States, Client13States
<1>. QED BY <1>6, <1>7, <1>8, <1>9, <1>10

\* A client that has the server's extensions.
ClientExtends(e, f, m) ==
    /\ ClientTurn(e, f, {"tr", "alpn", "hs", "enc", "encOn", "earlyTraffic", "cert", "st"}, {"ed"})
    /\ f.out = e.out /\ f.alpn = m.alpn
    /\ \/ /\ f.st = "ExpectCertificateOrCertReq" /\ e.hs.resuming = None
          /\ f.hs = e.hs /\ f.enc = e.enc /\ f.encOn = e.encOn
          /\ f.earlyTraffic = e.earlyTraffic
       \/ /\ f.st = "ExpectFinished" /\ e.hs.resuming # None
          /\ f.cert = e.hs.resuming[1].cert
          /\ \/ /\ e.earlyTraffic /\ m.early /\ f.hs.ed = "Accepted"
                /\ f.earlyTraffic = e.earlyTraffic /\ f.enc = e.enc /\ f.encOn = e.encOn
             \/ f.hs.ed = "Rejected" /\ f.earlyTraffic = FALSE
             \/ /\ f.hs = e.hs /\ f.enc = e.enc /\ f.encOn = e.encOn
                /\ f.earlyTraffic = e.earlyTraffic

\* ExpectEncryptedExtensions::handle
LEMMA ExtensionsStep ==
    ASSUME NEW e, ClientShaped(e), NEW m, e.st = "ExpectEncryptedExtensions"
    PROVE  LET f == EncryptedExtensions(e, m) IN
           ClientFails(e, f, m) \/ ClientExtends(e, f, m)
<1>. DEFINE alpn == m.alpn
            b == Hash(e, m)
            a == [b EXCEPT !.alpn = alpn]
            acc == [a EXCEPT !.hs.ed = "Accepted"]
            rej == [EarlyReject(a) EXCEPT !.earlyTraffic = FALSE]
            key == HandshakeKey("client", rej.hs.sec[1])
            enc == SetEncrypter(rej, key)
            g == IF a.earlyTraffic /\ m.early THEN acc
                 ELSE IF a.earlyTraffic /\ ~m.early THEN enc ELSE a
            cert == e.hs.resuming[1].cert
            res == [g EXCEPT !.cert = cert, !.st = "ExpectFinished"]
            full == [a EXCEPT !.st = "ExpectCertificateOrCertReq"]
            f == EncryptedExtensions(e, m)
            X == {"tr", "alpn", "hs", "enc", "encOn", "earlyTraffic", "cert", "st"}
            Y == {"ed"}
<1>1. f = IF ~AlpnOffered(e, m.alpn) THEN Fatal(a, "IllegalParameter")
          ELSE IF e.hs.resuming # None THEN res
          ELSE IF m.early THEN Fail(a, "EarlyDataExtensionWithoutResumption")
          ELSE full
  BY DEF EncryptedExtensions, SetHandshakeEncrypter
<1>2. /\ ClientTurn(e, b, {"tr"}, {}) /\ b.out = e.out BY ClientHashes
<1>. HIDE DEF b, alpn, key
<1>3. /\ ClientTurn(e, a, {"tr", "alpn"}, {}) /\ a.out = e.out /\ a.alpn = alpn /\ a.hs = e.hs
      /\ a.earlyTraffic = e.earlyTraffic /\ a.enc = e.enc /\ a.encOn = e.encOn
      /\ a.ver = e.ver /\ a.suite = e.suite /\ ClientShaped(a)
  <2>1. ClientShaped(b) BY <1>2 DEF ClientTurn
  <2>2. Same(b, a, {"alpn"}) /\ a.alpn = alpn
    BY <2>1 DEF ClientShaped, Shaped, IsRecord, Same, SameBut, EndpointFields
  <2>. HIDE DEF a
  <2>3. Shaped(a) BY <2>1, <2>2, SameShaped DEF ClientShaped
  <2>4. ClientTurn(b, a, {"alpn"}, {}) BY <2>1, <2>2, <2>3, ClientQuiet
  <2>5. {"tr"} \cup {"alpn"} \subseteq {"tr", "alpn"} /\ {} \cup {} \subseteq {} OBVIOUS
  <2>6. ClientTurn(e, a, {"tr", "alpn"}, {}) BY <1>2, <2>4, <2>5, ClientTurns
  <2>. QED BY <1>2, <2>2, <2>6 DEF ClientTurn, Same, SameBut, EndpointFields
<1>. HIDE DEF a
<1>4. /\ ClientTurn(a, acc, {"hs"}, Y) /\ acc.out = a.out /\ acc.hs.ed = "Accepted"
      /\ acc.earlyTraffic = a.earlyTraffic /\ acc.enc = a.enc /\ acc.encOn = a.encOn
      /\ acc.alpn = a.alpn
  <2>1. /\ Same(a, acc, {"hs"}) /\ SameBut(ClientHsFields, a.hs, acc.hs, Y)
        /\ acc.out = a.out /\ acc.hs.ed = "Accepted"
        /\ acc.earlyTraffic = a.earlyTraffic /\ acc.enc = a.enc /\ acc.encOn = a.encOn
        /\ acc.alpn = a.alpn
    BY <1>3 DEF ClientShaped, Shaped, IsRecord, Same, SameBut, EndpointFields, ClientHsFields
  <2>. HIDE DEF acc
  <2>2. {"hs"} \cap {"out", "plain", "queued", "side", "store"} = {} OBVIOUS
  <2>. QED BY <1>3, <2>1, <2>2, ClientNotes
<1>5. /\ ClientTurn(a, rej, {"hs", "earlyTraffic"}, Y) /\ rej.out = a.out
      /\ rej.hs.ed = "Rejected" /\ rej.earlyTraffic = FALSE
      /\ rej.alpn = a.alpn
  <2>1. /\ Same(a, rej, {"hs", "earlyTraffic"}) /\ SameBut(ClientHsFields, a.hs, rej.hs, Y)
        /\ rej.out = a.out /\ rej.hs.ed = "Rejected" /\ rej.earlyTraffic = FALSE
        /\ rej.alpn = a.alpn
    BY <1>3 DEF EarlyReject, ClientShaped, Shaped, IsRecord, Same, SameBut, EndpointFields,
                ClientHsFields
  <2>. HIDE DEF rej
  <2>2. {"hs", "earlyTraffic"} \cap {"out", "plain", "queued", "side", "store"} = {} OBVIOUS
  <2>. QED BY <1>3, <2>1, <2>2, ClientNotes
<1>. HIDE DEF acc, rej
<1>6. /\ ClientTurn(a, enc, {"hs", "earlyTraffic", "enc", "encOn"}, Y) /\ enc.out = a.out
      /\ enc.hs.ed = "Rejected" /\ enc.earlyTraffic = FALSE /\ enc.alpn = a.alpn
  <2>1. ClientTurn(rej, enc, {"enc", "encOn"}, {}) /\ enc.out = rej.out
    BY <1>5, ClientEncrypts DEF ClientTurn
  <2>. HIDE DEF enc
  <2>2. enc.hs = rej.hs /\ enc.earlyTraffic = rej.earlyTraffic /\ enc.alpn = rej.alpn
    BY <2>1 DEF ClientTurn, Same, SameBut, EndpointFields
  <2>3. {"hs", "earlyTraffic"} \cup {"enc", "encOn"} \subseteq {"hs", "earlyTraffic", "enc", "encOn"}
        /\ Y \cup {} \subseteq Y OBVIOUS
  <2>. QED BY <1>5, <2>1, <2>2, <2>3, ClientTurns
<1>. HIDE DEF enc
<1>7. /\ ClientTurn(e, g, X, Y) /\ g.out = e.out /\ g.alpn = alpn
      /\ \/ /\ e.earlyTraffic /\ m.early /\ g.hs.ed = "Accepted"
            /\ g.earlyTraffic = e.earlyTraffic /\ g.enc = e.enc /\ g.encOn = e.encOn
         \/ g.hs.ed = "Rejected" /\ g.earlyTraffic = FALSE
         \/ /\ g.hs = e.hs /\ g.enc = e.enc /\ g.encOn = e.encOn
            /\ g.earlyTraffic = e.earlyTraffic
  <2>1. /\ {"tr", "alpn"} \cup {"hs"} \subseteq X
        /\ {"tr", "alpn"} \cup {"hs", "earlyTraffic", "enc", "encOn"} \subseteq X
        /\ {} \cup Y \subseteq Y OBVIOUS
  <2>2. ClientTurn(e, acc, X, Y) BY <1>3, <1>4, <2>1, ClientTurns
  <2>3. ClientTurn(e, enc, X, Y) BY <1>3, <1>6, <2>1, ClientTurns
  <2>4. ClientTurn(e, a, X, Y) BY <1>3 DEF ClientTurn, Same, SameBut
  <2>. QED BY <1>3, <1>4, <1>6, <2>2, <2>3, <2>4
<1>. HIDE DEF g, cert
<1>8. e.hs.resuming # None => ClientExtends(e, res, m)
  <2>1. ClientShaped(g) BY <1>7 DEF ClientTurn
  <2>2. /\ Same(g, res, {"cert", "st"}) /\ res.cert = cert /\ res.st = "ExpectFinished"
        /\ res.out = g.out
    BY <2>1 DEF ClientShaped, Shaped, IsRecord, Same, SameBut, EndpointFields
  <2>. HIDE DEF res
  <2>3. Shaped(res)
    <3>1. "plain" \notin {"cert", "st"} /\ "queued" \notin {"cert", "st"}
          /\ "out" \notin {"cert", "st"} OBVIOUS
    <3>. QED BY <2>1, <2>2, <3>1, SameShaped DEF ClientShaped
  <2>4. ClientTurn(g, res, {"cert", "st"}, {}) BY <2>1, <2>2, <2>3, ClientQuiet
  <2>5. X \cup {"cert", "st"} \subseteq X /\ Y \cup {} \subseteq Y OBVIOUS
  <2>6. ClientTurn(e, res, X, Y) BY <1>7, <2>4, <2>5, ClientTurns
  <2>7. /\ res.hs = g.hs /\ res.enc = g.enc /\ res.encOn = g.encOn
        /\ res.earlyTraffic = g.earlyTraffic /\ res.alpn = g.alpn
    BY <2>2 DEF Same, SameBut, EndpointFields
  <2>. QED BY <1>7, <2>2, <2>6, <2>7 DEF ClientExtends, alpn, cert
<1>9. e.hs.resuming = None => ClientExtends(e, full, m)
  <2>1. ClientTurn(a, full, {"st"}, {}) /\ full.st = "ExpectCertificateOrCertReq" /\ full.out = a.out
    BY <1>3, ClientMoves
  <2>. HIDE DEF full
  <2>2. {"tr", "alpn"} \cup {"st"} \subseteq X /\ {} \cup {} \subseteq Y OBVIOUS
  <2>3. ClientTurn(e, full, X, Y) BY <1>3, <2>1, <2>2, ClientTurns
  <2>4. /\ full.hs = a.hs /\ full.enc = a.enc /\ full.encOn = a.encOn
        /\ full.earlyTraffic = a.earlyTraffic /\ full.alpn = a.alpn
    BY <2>1 DEF ClientTurn, Same, SameBut, EndpointFields
  <2>. QED BY <1>3, <2>1, <2>3, <2>4 DEF ClientExtends, alpn
<1>10. \A err : err # "none" => ClientFails(e, Fatal(a, err), m) /\ ClientFails(e, Fail(a, err), m)
  <2>1. ClientTurn(e, a, {"tr", "ver", "suite", "alpn", "hs", "out", "cert"},
                   {"suite", "ed", "ems", "mustTicket", "status", "sid"})
    BY <1>3 DEF ClientTurn, Same, SameBut
  <2>2. Adds(e, a, {"Certificate", "ClientKeyExchange"}) BY <1>3 DEF Adds, Recs
  <2>3. e.st \notin ClientVerified /\ ~Traffic(e)
    BY DEF ClientVerified, Traffic, ClientLate12States
  <2>. QED BY <1>3, <2>1, <2>2, <2>3, ClientFatalAfter
<1>11. ClientFails(e, Fatal(a, "IllegalParameter"), m)
       /\ ClientFails(e, Fail(a, "EarlyDataExtensionWithoutResumption"), m)
  BY <1>10
<1>. HIDE DEF f, res, full
<1>12. ClientFails(e, f, m) \/ ClientExtends(e, f, m) BY <1>1, <1>8, <1>9, <1>11
<1>. QED BY <1>12 DEF f

\* A client that verified the server, or the server's chain in the first place.
ClientVerifies(e, f) ==
    /\ ClientTurn(e, f, {"tr", "cert", "st"}, {}) /\ f.out = e.out
    /\ f.st = "ExpectFinished" /\ f.cert = e.hs.cert /\ e.hs.cert # "none"
    /\ e.hs.cert \in e.cfg.trusts

\* ExpectCertificateVerify::handle
LEMMA CertificateVerifyStep ==
    ASSUME NEW e, ClientShaped(e), NEW m
    PROVE  LET f == CertificateVerify(e, m) IN
           ClientFails(e, f, m) \/ ClientVerifies(e, f)
<1>. DEFINE b == Hash(e, m)
            cert == e.hs.cert
            ok == [b EXCEPT !.cert = cert, !.st = "ExpectFinished"]
            f == CertificateVerify(e, m)
<1>1. \/ f = Fail(e, "NoCertificatesPresented")
      \/ f = Fatal(e, "BadCertificate")
      \/ f = Fatal(e, "DecryptError")
      \/ f = ok /\ cert # "none" /\ cert \in e.cfg.trusts
  BY DEF CertificateVerify
<1>2. ClientTurn(e, b, {"tr"}, {}) /\ b.out = e.out BY ClientHashes
<1>. HIDE DEF b, cert
<1>3. ClientTurn(b, ok, {"cert", "st"}, {}) /\ ok.out = b.out /\ ok.cert = cert
      /\ ok.st = "ExpectFinished"
  <2>1. ClientShaped(b) BY <1>2 DEF ClientTurn
  <2>2. /\ Same(b, ok, {"cert", "st"}) /\ ok.cert = cert /\ ok.st = "ExpectFinished"
        /\ ok.out = b.out
    BY <2>1 DEF ClientShaped, Shaped, IsRecord, Same, SameBut, EndpointFields
  <2>. HIDE DEF ok
  <2>3. Shaped(ok)
    <3>1. "plain" \notin {"cert", "st"} /\ "queued" \notin {"cert", "st"}
          /\ "out" \notin {"cert", "st"} OBVIOUS
    <3>. QED BY <2>1, <2>2, <3>1, SameShaped DEF ClientShaped
  <2>4. ClientTurn(b, ok, {"cert", "st"}, {}) BY <2>1, <2>2, <2>3, ClientQuiet
  <2>. QED BY <2>2, <2>4
<1>. HIDE DEF ok
<1>4. ClientTurn(e, ok, {"tr", "cert", "st"}, {})
  <2>1. {"tr"} \cup {"cert", "st"} \subseteq {"tr", "cert", "st"} /\ {} \cup {} \subseteq {} OBVIOUS
  <2>. QED BY <1>2, <1>3, <2>1, ClientTurns
<1>5. cert # "none" /\ cert \in e.cfg.trusts => ClientVerifies(e, ok)
  BY <1>2, <1>3, <1>4 DEF ClientVerifies, cert
<1>6. /\ ClientFails(e, Fail(e, "NoCertificatesPresented"), m)
      /\ ClientFails(e, Fatal(e, "BadCertificate"), m)
      /\ ClientFails(e, Fatal(e, "DecryptError"), m)
  BY ClientFailsNow
<1>. HIDE DEF f
<1>7. ClientFails(e, f, m) \/ ClientVerifies(e, f) BY <1>1, <1>5, <1>6
<1>. QED BY <1>7 DEF f

\* ExpectCcs::handle: the server's keys are in use from here.
LEMMA ClientCcsStep ==
    ASSUME NEW e, ClientShaped(e)
    PROVE  LET f == ExpectCcs12(e) IN
           /\ ClientTurn(e, f, {"dec", "decOn", "trial", "st"}, {}) /\ f.out = e.out
           /\ f.st = "ExpectFinished12"
<1>. DEFINE b == StartDecrypting(e)
            f == [b EXCEPT !.st = "ExpectFinished12"]
<1>1. ExpectCcs12(e) = f BY DEF ExpectCcs12
<1>2. Shaped(b) /\ Same(e, b, {"dec", "decOn", "trial"}) BY DecrypterFrame DEF ClientShaped
<1>. HIDE DEF b
<1>3. ClientTurn(e, b, {"dec", "decOn", "trial"}, {}) /\ b.out = e.out
  BY <1>2, ClientQuiet DEF Same, SameBut, EndpointFields
<1>4. ClientTurn(b, f, {"st"}, {}) /\ f.st = "ExpectFinished12" /\ f.out = b.out
  <2>1. ClientShaped(b) BY <1>3 DEF ClientTurn
  <2>. QED BY <2>1, ClientMoves
<1>. HIDE DEF f
<1>5. {"dec", "decOn", "trial"} \cup {"st"} \subseteq {"dec", "decOn", "trial", "st"}
      /\ {} \cup {} \subseteq {} OBVIOUS
<1>6. ClientTurn(e, f, {"dec", "decOn", "trial", "st"}, {}) BY <1>3, <1>4, <1>5, ClientTurns
<1>. QED BY <1>1, <1>3, <1>4, <1>6

\* EndOfEarlyData closes the early data.
LEMMA FinishEarlyStep ==
    ASSUME NEW e, ClientShaped(e)
    PROVE  LET f == FinishEarlyData(e) IN
           /\ ClientTurn(e, f, {"out", "tr", "hs", "earlyTraffic", "enc", "encOn"}, {"ed"})
           /\ Adds(e, f, {"EndOfEarlyData"})
           /\ \/ f.hs.ed = "AcceptedFinished" /\ f.earlyTraffic = FALSE
              \/ ~e.earlyTraffic /\ f.hs.ed = e.hs.ed /\ f.earlyTraffic = e.earlyTraffic
<1>. DEFINE X == {"out", "tr", "hs", "earlyTraffic", "enc", "encOn"}
            a == Emit(e, EndOfEarlyData, TRUE)
            b == [a EXCEPT !.earlyTraffic = FALSE, !.hs.ed = "AcceptedFinished"]
            key == HandshakeKey("client", b.hs.sec[1])
            d == SetEncrypter(b, key)
            f == FinishEarlyData(e)
<1>1. f = IF e.earlyTraffic THEN d ELSE e BY DEF FinishEarlyData, SetHandshakeEncrypter
<1>2. EndOfEarlyData.t = "EndOfEarlyData" BY DEF EndOfEarlyData
<1>3. /\ ClientTurn(e, a, {"out", "tr"}, {})
      /\ Recs(a) = Recs(e) \cup {Sealed(e, "handshake", EndOfEarlyData)}
  BY ClientSeals
<1>. HIDE DEF a, key
<1>4. /\ ClientTurn(a, b, {"hs", "earlyTraffic"}, {"ed"}) /\ b.out = a.out
      /\ b.hs.ed = "AcceptedFinished" /\ b.earlyTraffic = FALSE
  <2>1. ClientShaped(a) BY <1>3 DEF ClientTurn
  <2>2. /\ Same(a, b, {"hs", "earlyTraffic"}) /\ SameBut(ClientHsFields, a.hs, b.hs, {"ed"})
        /\ b.out = a.out /\ b.hs.ed = "AcceptedFinished" /\ b.earlyTraffic = FALSE
    BY <2>1 DEF ClientShaped, Shaped, IsRecord, Same, SameBut, EndpointFields, ClientHsFields
  <2>. HIDE DEF b
  <2>3. {"hs", "earlyTraffic"} \cap {"out", "plain", "queued", "side", "store"} = {} OBVIOUS
  <2>. QED BY <2>1, <2>2, <2>3, ClientNotes
<1>. HIDE DEF b
<1>5. ClientTurn(b, d, {"enc", "encOn"}, {}) /\ d.out = b.out
  BY <1>4, ClientEncrypts DEF ClientTurn
<1>. HIDE DEF d
<1>6. ClientTurn(e, d, X, {"ed"})
  <2>1. {"out", "tr"} \cup {"hs", "earlyTraffic"} \subseteq X /\ {} \cup {"ed"} \subseteq {"ed"} OBVIOUS
  <2>2. ClientTurn(e, b, X, {"ed"}) BY <1>3, <1>4, <2>1, ClientTurns
  <2>3. X \cup {"enc", "encOn"} \subseteq X /\ {"ed"} \cup {} \subseteq {"ed"} OBVIOUS
  <2>. QED BY <1>5, <2>2, <2>3, ClientTurns
<1>7. d.hs = b.hs /\ d.earlyTraffic = b.earlyTraffic
  BY <1>5 DEF ClientTurn, Same, SameBut, EndpointFields
<1>8. Adds(e, d, {"EndOfEarlyData"})
  BY <1>2, <1>3, <1>4, <1>5 DEF Adds, Recs, Sealed
<1>9. ClientTurn(e, e, X, {"ed"}) BY DEF ClientTurn, ClientShaped, Shaped, IsRecord, Same, SameBut
<1>10. Adds(e, e, {"EndOfEarlyData"}) BY DEF Adds
<1>. HIDE DEF f
<1>11. /\ ClientTurn(e, f, X, {"ed"}) /\ Adds(e, f, {"EndOfEarlyData"})
       /\ \/ f.hs.ed = "AcceptedFinished" /\ f.earlyTraffic = FALSE
          \/ ~e.earlyTraffic /\ f.hs.ed = e.hs.ed /\ f.earlyTraffic = e.earlyTraffic
  BY <1>1, <1>4, <1>6, <1>7, <1>8, <1>9, <1>10
<1>. QED BY <1>11 DEF f

\* emit_certificate_tls13 and emit_certverify_tls13
LEMMA ClientAuth13Step ==
    ASSUME NEW e, ClientShaped(e)
    PROVE  LET f == EmitClientAuth13(e) IN
           ClientTurn(e, f, {"out", "tr"}, {}) /\ Adds(e, f, {"Certificate", "CertificateVerify"})
<1>. DEFINE T == {"Certificate", "CertificateVerify"}
            m1 == CertificateMsg(e.cfg.auth)
            m2 == CertificateMsg("none")
            a == Emit(e, m1, TRUE)
            m3 == CertVerifyMsg(e.cfg.auth, a.tr)
            b == Emit(e, m2, TRUE)
            d == Emit(a, m3, TRUE)
            f == EmitClientAuth13(e)
<1>1. f \in {e, b, d} BY DEF EmitClientAuth13
<1>2. m1.t \in T /\ m2.t \in T /\ m3.t \in T BY DEF CertificateMsg, CertVerifyMsg
<1>. HIDE DEF m1, m2
<1>3. ClientTurn(e, a, {"out", "tr"}, {}) /\ Recs(a) = Recs(e) \cup {Sealed(e, "handshake", m1)}
  BY ClientSeals
<1>4. ClientTurn(e, b, {"out", "tr"}, {}) /\ Recs(b) = Recs(e) \cup {Sealed(e, "handshake", m2)}
  BY ClientSeals
<1>. HIDE DEF a, b, m3
<1>5. ClientTurn(a, d, {"out", "tr"}, {}) /\ Recs(d) = Recs(a) \cup {Sealed(a, "handshake", m3)}
  BY <1>3, ClientSeals DEF ClientTurn
<1>. HIDE DEF d
<1>6. ClientTurn(e, d, {"out", "tr"}, {})
  <2>1. {"out", "tr"} \cup {"out", "tr"} \subseteq {"out", "tr"} /\ {} \cup {} \subseteq {} OBVIOUS
  <2>. QED BY <1>3, <1>5, <2>1, ClientTurns
<1>7. ClientTurn(e, e, {"out", "tr"}, {}) BY DEF ClientTurn, ClientShaped, Shaped, IsRecord, Same, SameBut
<1>8. Adds(e, e, T) /\ Adds(e, b, T) /\ Adds(e, d, T)
  BY <1>2, <1>3, <1>4, <1>5 DEF Adds, Sealed
<1>. HIDE DEF f
<1>9. ClientTurn(e, f, {"out", "tr"}, {}) /\ Adds(e, f, T) BY <1>1, <1>4, <1>6, <1>7, <1>8
<1>. QED BY <1>9 DEF f

\* A client whose store forgets the TLS 1.2 session, and nothing else.
LEMMA ForgetStep ==
    ASSUME NEW e, ClientShaped(e)
    PROVE  LET f == RemoveTls12Session(e) IN
           /\ ClientTurn(e, f, {"store"}, {}) /\ f.out = e.out
           /\ f.store.tls12 = None /\ f.store.tls13 = e.store.tls13
<1>. DEFINE f == RemoveTls12Session(e)
<1>1. /\ Same(e, f, {"store"}) /\ SameBut(ClientStoreFields, e.store, f.store, {"tls12"})
      /\ f.store.tls12 = None /\ f.store.tls13 = e.store.tls13
      /\ f.out = e.out /\ f.hs = e.hs /\ f.side = e.side
  BY DEF RemoveTls12Session, ClientShaped, Shaped, IsRecord, Same, SameBut,
         EndpointFields, ClientStoreFields
<1>. HIDE DEF f
<1>2. Shaped(f) BY <1>1, SameShaped DEF ClientShaped
<1>3. IsRecord(f.store, ClientStoreFields) BY <1>1 DEF SameBut, IsRecord
<1>4. SameBut(ClientHsFields, e.hs, f.hs, {}) BY <1>1 DEF SameBut, ClientShaped, IsRecord
<1>5. ClientTurn(e, f, {"store"}, {}) BY <1>1, <1>2, <1>3, <1>4 DEF ClientTurn, ClientShaped
<1>. QED BY <1>1, <1>5 DEF f

\* A client starts its traffic: everything buffered goes out.
LEMMA ClientStarts ==
    ASSUME NEW e, ClientShaped(e)
    PROVE  LET f == StartTraffic(e) IN
           /\ ClientTurn(e, f, {"maySend", "mayRecv", "out", "plain"}, {})
           /\ f.maySend = TRUE /\ f.plain = << >>
           /\ Recs(f) = Recs(e) \cup {AppRecord(e, x) : x \in Range(e.plain)}
<1>. DEFINE f == StartTraffic(e)
<1>1. /\ Shaped(f) /\ Same(e, f, {"maySend", "mayRecv", "out", "plain"})
      /\ f.maySend = TRUE /\ f.plain = << >>
      /\ Recs(f) = Recs(e) \cup {AppRecord(e, x) : x \in Range(e.plain)}
  BY TrafficFrame DEF ClientShaped
<1>. HIDE DEF f
<1>2. ClientTurn(e, f, {"maySend", "mayRecv", "out", "plain"}, {}) BY <1>1, ClientQuiet
<1>. QED BY <1>1, <1>2 DEF f

\* A unit of the client's buffer under a key in K.
Flushed(e, w, K) ==
    /\ w.typ = "app" /\ w.key # None /\ w.key[1].k \in K
    /\ \E x \in Range(e.plain) : w.m = AppData(e.side, x)

\* A client that finished a handshake of TLS 1.3.
ClientFinishes13(e, f, m) ==
    /\ ClientTurn(e, f, {"tr", "hs", "out", "plain", "store", "enc", "encOn", "dec", "decOn",
                         "trial", "earlyTraffic", "maySend", "mayRecv", "st"}, {"ed", "sec"})
    /\ f.st = "ExpectTraffic" /\ f.maySend = TRUE /\ f.plain = << >> /\ Keyed(f, {"traffic"})
    /\ \/ f.hs.ed = "AcceptedFinished" /\ f.earlyTraffic = FALSE
       \/ ~e.earlyTraffic /\ f.hs.ed = e.hs.ed /\ f.earlyTraffic = e.earlyTraffic
    /\ f.store.tls12 = None /\ f.store.tls13 = e.store.tls13
    /\ f.hs.sec = <<[e.hs.sec[1] EXCEPT !.hash = Append(e.tr, "Finished")]>>
    /\ m.verify = FinishOf("server", e.hs.sec[1], e.tr)
    /\ \A w \in Recs(f) :
          \/ w \in Recs(e)
          \/ w.typ # "app" /\ w.m.t \in {"EndOfEarlyData", "Certificate", "CertificateVerify"}
          \/ /\ w.typ # "app" /\ w.m.t = "Finished" /\ w.m.verify.k = "finished"
             /\ f.tr = Append(w.m.verify.hash, "Finished")
          \/ Flushed(e, w, {"traffic"})

\* ExpectFinished::handle
LEMMA Finished13Step ==
    ASSUME NEW e, ClientShaped(e), NEW m, m.t = "Finished"
    PROVE  LET f == Finished13(e, m) IN
           ClientFails(e, f, m) \/ ClientFinishes13(e, f, m)
<1>. DEFINE X == {"tr", "hs", "out", "plain", "store", "enc", "encOn", "dec", "decOn",
                  "trial", "earlyTraffic", "maySend", "mayRecv", "st"}
            Y == {"ed", "sec"}
            T == {"EndOfEarlyData", "Certificate", "CertificateVerify"}
            b == Hash(e, m)
            sec == [e.hs.sec[1] EXCEPT !.hash = b.tr]
            c1 == FinishEarlyData(b)
            c2 == EmitClientAuth13(c1)
            fin == FinishedMsg(FinishOf("client", c2.hs.sec[1], c2.tr))
            c3 == Emit(c2, fin, TRUE)
            c4 == RemoveTls12Session(c3)
            c5 == SetDecrypter(c4, TrafficKey("server", sec, 0))
            key == TrafficKey("client", sec, 0)
            c6 == SetEncrypter(c5, key)
            c7 == StartTraffic(c6)
            ok == [c7 EXCEPT !.hs.sec = <<sec>>, !.st = "ExpectTraffic"]
            f == Finished13(e, m)
<1>1. f = IF m.verify # FinishOf("server", e.hs.sec[1], e.tr) THEN Fatal(e, "DecryptError") ELSE ok
  BY DEF Finished13, EmitFinished13, Some
<1>2. ClientTurn(e, b, {"tr"}, {}) /\ b.out = e.out /\ b.tr = Append(e.tr, "Finished")
  BY ClientHashes
<1>. HIDE DEF b
<1>3. sec = [e.hs.sec[1] EXCEPT !.hash = Append(e.tr, "Finished")] BY <1>2
<1>4. key.k = "traffic" BY DEF TrafficKey
<1>. HIDE DEF sec, key
<1>5. /\ ClientTurn(b, c1, {"out", "tr", "hs", "earlyTraffic", "enc", "encOn"}, {"ed"})
      /\ Adds(b, c1, {"EndOfEarlyData"})
      /\ \/ c1.hs.ed = "AcceptedFinished" /\ c1.earlyTraffic = FALSE
         \/ ~b.earlyTraffic /\ c1.hs.ed = b.hs.ed /\ c1.earlyTraffic = b.earlyTraffic
  BY <1>2, FinishEarlyStep DEF ClientTurn
<1>. HIDE DEF c1
<1>6. ClientTurn(c1, c2, {"out", "tr"}, {}) /\ Adds(c1, c2, {"Certificate", "CertificateVerify"})
  BY <1>5, ClientAuth13Step DEF ClientTurn
<1>. HIDE DEF c2
<1>7. /\ fin.t = "Finished" /\ fin.verify.k = "finished" /\ fin.verify.hash = c2.tr
  BY DEF FinishedMsg, FinishOf
<1>. HIDE DEF fin
<1>8. /\ ClientTurn(c2, c3, {"out", "tr"}, {}) /\ c3.tr = Append(c2.tr, "Finished")
      /\ Recs(c3) = Recs(c2) \cup {Sealed(c2, "handshake", fin)}
  BY <1>6, <1>7, ClientSeals DEF ClientTurn
<1>. HIDE DEF c3
<1>9. /\ ClientTurn(c3, c4, {"store"}, {}) /\ c4.out = c3.out
      /\ c4.store.tls12 = None /\ c4.store.tls13 = c3.store.tls13
  BY <1>8, ForgetStep DEF ClientTurn
<1>. HIDE DEF c4
<1>10. ClientTurn(c4, c5, {"dec", "decOn", "trial"}, {}) /\ c5.out = c4.out
  BY <1>9, ClientDecrypts DEF ClientTurn
<1>. HIDE DEF c5
<1>11. /\ ClientTurn(c5, c6, {"enc", "encOn"}, {}) /\ c6.out = c5.out
       /\ c6.enc = <<key>> /\ c6.encOn = TRUE
  BY <1>10, ClientEncrypts DEF ClientTurn
<1>. HIDE DEF c6
<1>12. /\ ClientTurn(c6, c7, {"maySend", "mayRecv", "out", "plain"}, {})
       /\ c7.maySend = TRUE /\ c7.plain = << >>
       /\ Recs(c7) = Recs(c6) \cup {AppRecord(c6, x) : x \in Range(c6.plain)}
  BY <1>11, ClientStarts DEF ClientTurn
<1>. HIDE DEF c7
<1>13. /\ ClientTurn(c7, ok, {"hs", "st"}, {"sec"}) /\ ok.out = c7.out
       /\ ok.hs.sec = <<sec>> /\ ok.st = "ExpectTraffic" /\ ok.hs.ed = c7.hs.ed
  <2>1. ClientShaped(c7) BY <1>12 DEF ClientTurn
  <2>2. /\ Same(c7, ok, {"hs", "st"}) /\ SameBut(ClientHsFields, c7.hs, ok.hs, {"sec"})
        /\ ok.out = c7.out /\ ok.hs.sec = <<sec>> /\ ok.st = "ExpectTraffic"
        /\ ok.hs.ed = c7.hs.ed
    BY <2>1 DEF ClientShaped, Shaped, IsRecord, Same, SameBut, EndpointFields, ClientHsFields
  <2>. HIDE DEF ok
  <2>3. {"hs", "st"} \cap {"out", "plain", "queued", "side", "store"} = {} OBVIOUS
  <2>. QED BY <2>1, <2>2, <2>3, ClientNotes
<1>. HIDE DEF ok
<1>14. ClientTurn(e, ok, X, Y)
  <2>1. {"tr"} \cup {"out", "tr", "hs", "earlyTraffic", "enc", "encOn"} \subseteq X
        /\ {} \cup {"ed"} \subseteq Y OBVIOUS
  <2>2. ClientTurn(e, c1, X, Y) BY <1>2, <1>5, <2>1, ClientTurns
  <2>3. X \cup {"out", "tr"} \subseteq X /\ Y \cup {} \subseteq Y OBVIOUS
  <2>4. ClientTurn(e, c2, X, Y) BY <1>6, <2>2, <2>3, ClientTurns
  <2>5. ClientTurn(e, c3, X, Y) BY <1>8, <2>4, <2>3, ClientTurns
  <2>6. X \cup {"store"} \subseteq X OBVIOUS
  <2>7. ClientTurn(e, c4, X, Y) BY <1>9, <2>5, <2>3, <2>6, ClientTurns
  <2>8. X \cup {"dec", "decOn", "trial"} \subseteq X OBVIOUS
  <2>9. ClientTurn(e, c5, X, Y) BY <1>10, <2>7, <2>3, <2>8, ClientTurns
  <2>10. X \cup {"enc", "encOn"} \subseteq X OBVIOUS
  <2>11. ClientTurn(e, c6, X, Y) BY <1>11, <2>9, <2>3, <2>10, ClientTurns
  <2>12. X \cup {"maySend", "mayRecv", "out", "plain"} \subseteq X OBVIOUS
  <2>13. ClientTurn(e, c7, X, Y) BY <1>12, <2>11, <2>3, <2>12, ClientTurns
  <2>14. X \cup {"hs", "st"} \subseteq X /\ Y \cup {"sec"} \subseteq Y OBVIOUS
  <2>. QED BY <1>13, <2>13, <2>14, ClientTurns
<1>15. /\ c6.hs = c1.hs /\ c6.earlyTraffic = c1.earlyTraffic /\ c6.plain = c1.plain
       /\ c6.side = c1.side /\ c6.tr = c3.tr /\ c3.store = c1.store
       /\ c6.store = c4.store
  <2>1. /\ c3.hs = c1.hs /\ c3.earlyTraffic = c1.earlyTraffic /\ c3.plain = c1.plain
        /\ c3.side = c1.side /\ c3.store = c1.store
    BY <1>6, <1>8 DEF ClientTurn, Same, SameBut, EndpointFields
  <2>2. /\ c4.hs = c3.hs /\ c4.earlyTraffic = c3.earlyTraffic /\ c4.plain = c3.plain
        /\ c4.side = c3.side /\ c4.tr = c3.tr
    BY <1>9 DEF ClientTurn, Same, SameBut, EndpointFields
  <2>3. /\ c6.hs = c4.hs /\ c6.earlyTraffic = c4.earlyTraffic /\ c6.plain = c4.plain
        /\ c6.side = c4.side /\ c6.tr = c4.tr /\ c6.store = c4.store
    BY <1>10, <1>11 DEF ClientTurn, Same, SameBut, EndpointFields
  <2>. QED BY <2>1, <2>2, <2>3
<1>16. /\ c7.hs = c6.hs /\ c7.earlyTraffic = c6.earlyTraffic /\ c7.tr = c6.tr
       /\ c7.store = c6.store /\ c7.enc = c6.enc /\ c7.encOn = c6.encOn
  BY <1>12 DEF ClientTurn, Same, SameBut, EndpointFields
<1>17. /\ ok.earlyTraffic = c7.earlyTraffic /\ ok.tr = c7.tr /\ ok.store = c7.store
       /\ ok.enc = c7.enc /\ ok.encOn = c7.encOn /\ ok.maySend = c7.maySend
       /\ ok.plain = c7.plain
  BY <1>13 DEF ClientTurn, Same, SameBut, EndpointFields
<1>18. /\ b.earlyTraffic = e.earlyTraffic /\ b.hs = e.hs /\ b.plain = e.plain /\ b.side = e.side
       /\ b.store = e.store
  BY <1>2 DEF ClientTurn, Same, SameBut, EndpointFields
<1>19. c1.plain = b.plain /\ c1.side = b.side /\ c1.store = b.store
  BY <1>5 DEF ClientTurn, Same, SameBut, EndpointFields
<1>20. Keyed(ok, {"traffic"})
  BY <1>4, <1>11, <1>16, <1>17 DEF Keyed, None
<1>21. ASSUME NEW w \in Recs(ok)
       PROVE  \/ w \in Recs(e)
              \/ w.typ # "app" /\ w.m.t \in T
              \/ /\ w.typ # "app" /\ w.m.t = "Finished" /\ w.m.verify.k = "finished"
                 /\ ok.tr = Append(w.m.verify.hash, "Finished")
              \/ Flushed(e, w, {"traffic"})
  <2>1. Recs(ok) = Recs(c7) /\ Recs(c6) = Recs(c3) /\ Recs(b) = Recs(e)
    BY <1>2, <1>9, <1>10, <1>11, <1>13 DEF Recs
  <2>2. CASE w \in {AppRecord(c6, x) : x \in Range(c6.plain)}
    <3>1. PICK x \in Range(c6.plain) : w = AppRecord(c6, x) BY <2>2
    <3>2. w.typ = "app" /\ w.m = AppData(c6.side, x) /\ w.key = <<key>>
      BY <1>11, <3>1 DEF AppRecord, Sealed
    <3>. QED BY <1>4, <1>15, <1>18, <1>19, <3>1, <3>2 DEF Flushed, None
  <2>3. CASE w = Sealed(c2, "handshake", fin)
    <3>1. w.typ = "handshake" /\ w.m = fin BY <2>3 DEF Sealed
    <3>. QED BY <1>7, <1>8, <1>15, <1>16, <1>17, <3>1
  <2>4. CASE w \in Recs(c2) BY <1>5, <1>6, <2>1, <2>4 DEF Adds
  <2>. QED BY <1>8, <1>12, <1>21, <2>1, <2>2, <2>3, <2>4
<1>22. m.verify = FinishOf("server", e.hs.sec[1], e.tr) => ClientFinishes13(e, ok, m)
  <2>1. \/ ok.hs.ed = "AcceptedFinished" /\ ok.earlyTraffic = FALSE
        \/ ~e.earlyTraffic /\ ok.hs.ed = e.hs.ed /\ ok.earlyTraffic = e.earlyTraffic
    BY <1>5, <1>13, <1>15, <1>16, <1>17, <1>18
  <2>2. ok.store.tls12 = None /\ ok.store.tls13 = e.store.tls13
    BY <1>9, <1>15, <1>16, <1>17, <1>18, <1>19
  <2>. QED BY <1>3, <1>12, <1>13, <1>14, <1>17, <1>20, <1>21, <2>1, <2>2 DEF ClientFinishes13
<1>23. ClientFails(e, Fatal(e, "DecryptError"), m) BY ClientFailsNow
<1>. HIDE DEF f
<1>24. ClientFails(e, f, m) \/ ClientFinishes13(e, f, m) BY <1>1, <1>22, <1>23
<1>. QED BY <1>24 DEF f

\* A client in the state of traffic.
ClientTakes(e, f) ==
    ClientTurn(e, f, {"received"}, {}) /\ f.out = e.out /\ Traffic(e)
ClientStores(e, f, m) ==
    /\ ClientTurn(e, f, {"store"}, {}) /\ f.out = e.out
    /\ m.t = "NewSessionTicket" /\ e.st = "ExpectTraffic" /\ f.store.tls12 = e.store.tls12
    /\ \A x \in Range(f.store.tls13) :
          x \in Range(e.store.tls13) \/ (x.v = 13 /\ x.ticket = m.ticket /\ x.cert = e.cert)
ClientRekeyed(e, f) ==
    /\ ClientTurn(e, f, {"queued", "enc", "encOn", "dec", "decOn", "trial"}, {}) /\ f.out = e.out
    /\ e.st = "ExpectTraffic"
    /\ \/ f.queued = e.queued /\ f.enc = e.enc /\ f.encOn = e.encOn
       \/ /\ Keyed(f, {"traffic"})
          /\ \A w \in Range(f.queued) : w.typ = "handshake" /\ w.m.t = "KeyUpdate"

\* An application reads what arrives.
LEMMA ClientTakesStep ==
    ASSUME NEW e, ClientShaped(e), NEW m, Traffic(e)
    PROVE  ClientTakes(e, TakeReceived(e, m))
<1>. DEFINE x == Append(e.received, m.i)
            f == [e EXCEPT !.received = x]
<1>1. TakeReceived(e, m) = f BY DEF TakeReceived
<1>. HIDE DEF x
<1>2. Same(e, f, {"received"}) /\ f.out = e.out
  BY DEF ClientShaped, Shaped, IsRecord, Same, SameBut, EndpointFields
<1>. HIDE DEF f
<1>3. Shaped(f) BY <1>2, SameShaped DEF ClientShaped
<1>. QED BY <1>1, <1>2, <1>3, ClientQuiet DEF ClientTakes

\* insert_tls13_ticket: one more ticket, the oldest leaves when there are too many.
LEMMA NewTicketStep ==
    ASSUME NEW e, ClientShaped(e), NEW m, m.t = "NewSessionTicket", e.st = "ExpectTraffic"
    PROVE  ClientStores(e, NewTicket13(e, m), m)
<1>. DEFINE v == Tls13ClientSessionValue(e, m)
            q == e.store.tls13
            r == IF Len(q) = MaxTls13Tickets THEN Append(Tail(q), v) ELSE Append(q, v)
            f == [e EXCEPT !.store.tls13 = r]
<1>1. NewTicket13(e, m) = f BY DEF NewTicket13, InsertTls13Ticket
<1>2. v.v = 13 /\ v.ticket = m.ticket /\ v.cert = e.cert BY DEF Tls13ClientSessionValue
<1>. HIDE DEF v, q
<1>3. IsSeq(q) BY DEF ClientShaped, q
<1>4. IsSeq(r) /\ \A x \in Range(r) : x \in Range(q) \/ x = v
  <2>1. CASE Len(q) = MaxTls13Tickets
    <3>1. q # << >> BY <2>1, TicketsAssumption
    <3>2. IsSeq(Tail(q)) /\ Range(Tail(q)) \subseteq Range(q) BY <1>3, <3>1, TailElements
    <3>3. IsSeq(Append(Tail(q), v)) /\ Range(Append(Tail(q), v)) = Range(Tail(q)) \cup {v}
      BY <3>2, AppendElements
    <3>. QED BY <2>1, <3>2, <3>3
  <2>2. CASE Len(q) # MaxTls13Tickets
    <3>1. IsSeq(Append(q, v)) /\ Range(Append(q, v)) = Range(q) \cup {v} BY <1>3, AppendElements
    <3>. QED BY <2>2, <3>1
  <2>. QED BY <2>1, <2>2
<1>. HIDE DEF r
<1>5. /\ Same(e, f, {"store"}) /\ SameBut(ClientStoreFields, e.store, f.store, {"tls13"})
      /\ f.store.tls13 = r /\ f.store.tls12 = e.store.tls12
      /\ f.out = e.out /\ f.hs = e.hs /\ f.side = e.side
  BY DEF ClientShaped, Shaped, IsRecord, Same, SameBut, EndpointFields, ClientStoreFields
<1>. HIDE DEF f
<1>6. Shaped(f) BY <1>5, SameShaped DEF ClientShaped
<1>7. IsRecord(f.store, ClientStoreFields) BY <1>5 DEF SameBut, IsRecord
<1>8. SameBut(ClientHsFields, e.hs, f.hs, {}) BY <1>5 DEF SameBut, ClientShaped, IsRecord
<1>9. ClientTurn(e, f, {"store"}, {})
  BY <1>4, <1>5, <1>6, <1>7, <1>8 DEF ClientTurn, ClientShaped
<1>10. ClientStores(e, f, m) BY <1>2, <1>4, <1>5, <1>9 DEF ClientStores, q
<1>. QED BY <1>1, <1>10

\* ExpectTraffic::handle
LEMMA Traffic13Step ==
    ASSUME NEW e, ClientShaped(e), NEW m, e.st = "ExpectTraffic"
    PROVE  LET f == Traffic13(e, m) IN
           \/ ClientFails(e, f, m)
           \/ ClientTakes(e, f) \/ ClientStores(e, f, m) \/ ClientRekeyed(e, f)
<1>. DEFINE f == Traffic13(e, m)
<1>1. /\ m.t = "ApplicationData" => f = TakeReceived(e, m)
      /\ m.t = "NewSessionTicket" => f = NewTicket13(e, m)
      /\ m.t = "KeyUpdate" => f = HandleKeyUpdate(e, m)
      /\ m.t \notin {"ApplicationData", "NewSessionTicket", "KeyUpdate"} => f = Unexpected(e)
  BY DEF Traffic13
<1>2. ClientTakes(e, TakeReceived(e, m)) BY ClientTakesStep DEF Traffic
<1>3. m.t = "NewSessionTicket" => ClientStores(e, NewTicket13(e, m), m) BY NewTicketStep
<1>4. ClientRekeyed(e, HandleKeyUpdate(e, m))
  <2>. DEFINE g == HandleKeyUpdate(e, m)
  <2>1. /\ Shaped(g) /\ Same(e, g, {"queued", "enc", "encOn", "dec", "decOn", "trial"})
        /\ \/ g.queued = e.queued /\ g.enc = e.enc /\ g.encOn = e.encOn
           \/ /\ g.encOn = TRUE /\ g.enc # None /\ g.enc[1].k = "traffic"
              /\ \A w \in Range(g.queued) : w.typ = "handshake" /\ w.m.t = "KeyUpdate"
    BY KeyUpdateFrame DEF ClientShaped
  <2>. HIDE DEF g
  <2>2. ClientTurn(e, g, {"queued", "enc", "encOn", "dec", "decOn", "trial"}, {})
    BY <2>1, ClientQuiet
  <2>3. g.out = e.out BY <2>1 DEF Same, SameBut, EndpointFields
  <2>4. ClientRekeyed(e, g) BY <2>1, <2>2, <2>3 DEF ClientRekeyed, Keyed
  <2>. QED BY <2>4 DEF g
<1>5. ClientFails(e, Unexpected(e), m) BY ClientFailsNow DEF Unexpected
<1>. HIDE DEF f
<1>6. \/ ClientFails(e, f, m)
      \/ ClientTakes(e, f) \/ ClientStores(e, f, m) \/ ClientRekeyed(e, f)
  BY <1>1, <1>2, <1>3, <1>4, <1>5
<1>. QED BY <1>6 DEF f

\* emit_certificate of tls12.rs
LEMMA ClientCertificate12Step ==
    ASSUME NEW e, ClientShaped(e)
    PROVE  LET f == EmitCertificate12(e) IN
           ClientTurn(e, f, {"out", "tr"}, {}) /\ Adds(e, f, {"Certificate"})
<1>. DEFINE m == CertificateMsg(IF e.hs.auth = "verify" THEN e.cfg.auth ELSE "none")
            a == Emit(e, m, FALSE)
            f == EmitCertificate12(e)
<1>1. f \in {e, a} BY DEF EmitCertificate12
<1>2. m.t = "Certificate" BY DEF CertificateMsg
<1>. HIDE DEF m
<1>3. ClientTurn(e, a, {"out", "tr"}, {}) /\ Recs(a) = Recs(e) \cup {Plaintext("handshake", m)}
  BY ClientSays
<1>. HIDE DEF a
<1>4. ClientTurn(e, e, {"out", "tr"}, {}) BY DEF ClientTurn, ClientShaped, Shaped, IsRecord, Same, SameBut
<1>5. Adds(e, e, {"Certificate"}) /\ Adds(e, a, {"Certificate"})
  BY <1>2, <1>3 DEF Adds, Plaintext
<1>. HIDE DEF f
<1>6. ClientTurn(e, f, {"out", "tr"}, {}) /\ Adds(e, f, {"Certificate"}) BY <1>1, <1>3, <1>4, <1>5
<1>. QED BY <1>6 DEF f

\* A change of cipher in the clear.
LEMMA ClientChanges ==
    ASSUME NEW e, ClientShaped(e)
    PROVE  LET f == EmitCcs(e) IN
           ClientTurn(e, f, {"out"}, {}) /\ Adds(e, f, {"ChangeCipherSpec"})
<1>. DEFINE f == EmitCcs(e)
<1>1. Shaped(f) /\ Same(e, f, {"out"}) /\ Recs(f) = Recs(e) \cup {Plaintext("ccs", Ccs)}
  BY PlainFrame DEF ClientShaped, EmitCcs
<1>. HIDE DEF f
<1>2. ClientTurn(e, f, {"out"}, {}) BY <1>1, ClientQuiet
<1>3. Adds(e, f, {"ChangeCipherSpec"}) BY <1>1 DEF Adds, Plaintext, Ccs
<1>. QED BY <1>2, <1>3 DEF f

\* A Finished of TLS 1.2 that covers what was hashed so far.
Finale12(w, f) ==
    /\ w.typ # "app" /\ w.m.t = "Finished" /\ w.m.verify.k = "finished12"
    /\ f.tr = Append(w.m.verify.hash, "Finished")

\* emit_finished of tls12.rs, for a client
LEMMA ClientFinale12Step ==
    ASSUME NEW e, ClientShaped(e)
    PROVE  LET f == EmitFinished12(e) IN
           /\ ClientTurn(e, f, {"out", "tr"}, {})
           /\ \A w \in Recs(f) : w \in Recs(e) \/ Finale12(w, f)
<1>. DEFINE m == FinishedMsg(Finish12(e.side, e.hs.ms[1], e.n, e.tr))
            f == Emit(e, m, TRUE)
<1>1. EmitFinished12(e) = f BY DEF EmitFinished12
<1>2. m.t = "Finished" /\ m.verify.k = "finished12" /\ m.verify.hash = e.tr
  BY DEF FinishedMsg, Finish12
<1>. HIDE DEF m
<1>3. /\ ClientTurn(e, f, {"out", "tr"}, {}) /\ f.tr = Append(e.tr, "Finished")
      /\ Recs(f) = Recs(e) \cup {Sealed(e, "handshake", m)}
  BY <1>2, ClientSeals
<1>. HIDE DEF f
<1>4. \A w \in Recs(f) : w \in Recs(e) \/ Finale12(w, f)
  BY <1>2, <1>3 DEF Finale12, Sealed
<1>. QED BY <1>1, <1>3, <1>4

\* A client that has sent its flight of a full TLS 1.2 handshake.
ClientSpeaks12(e, f) ==
    /\ ClientTurn(e, f, {"tr", "cert", "out", "hs", "enc", "encOn", "dec", "decOn", "trial",
                         "st"}, {"ms"})
    /\ f.st \in {"ExpectNewTicket", "ExpectCcs"} /\ f.cert = e.cert
    /\ f.hs.ms = <<f.hs.ms[1]>>
    /\ f.enc # None /\ f.enc[1].k = "tls12" /\ f.encOn = TRUE
    /\ \A w \in Recs(f) :
          \/ w \in Recs(e)
          \/ w.typ # "app" /\ w.m.t \in {"Certificate", "ClientKeyExchange", "CertificateVerify",
                                         "ChangeCipherSpec"}
          \/ w.typ # "app" /\ w.m.t = "Finished" /\ w.m.verify.k = "finished12"

\* The flight after ServerHelloDone.
LEMMA FlightStep ==
    ASSUME NEW e, ClientShaped(e), ~Failed(e)
    PROVE  LET f == ServerDoneFlight(e) IN
           \/ ClientSpeaks12(e, f)
           \/ \E x : /\ ClientTurn(e, x, {"out", "tr"}, {}) /\ f = Fail(x, "General")
                     /\ Adds(e, x, {"Certificate", "ClientKeyExchange"})
<1>. DEFINE X == {"tr", "cert", "out", "hs", "enc", "encOn", "dec", "decOn", "trial", "st"}
            T == {"Certificate", "ClientKeyExchange", "CertificateVerify", "ChangeCipherSpec"}
            their == e.hs.kx[1].share
            a == EmitCertificate12(e)
            kxm == ClientKxMsg(Share(their.g, 3))
            b == Emit(a, kxm, FALSE)
            ms == MasterSecret([n |-> e.n, g |-> their.g, c |-> 3, s |-> their.i],
                               e.hs.ems, b.tr)
            cv == CertVerifyMsg(e.cfg.auth, b.tr)
            d == Emit(b, cv, FALSE)
            g == EmitCertVerify12(b)
            h1 == EmitCcs(g)
            h2 == [h1 EXCEPT !.hs.ms = <<ms>>]
            h3 == StartEncryption12(h2, ms)
            h4 == StartEncrypting(h3)
            h5 == EmitFinished12(h4)
            st == IF e.hs.mustTicket THEN "ExpectNewTicket" ELSE "ExpectCcs"
            ok == [h5 EXCEPT !.st = st]
            f == ServerDoneFlight(e)
<1>1. f = IF g.err # "none" THEN g ELSE ok BY DEF ServerDoneFlight, Some
<1>2. ClientTurn(e, a, {"out", "tr"}, {}) /\ Adds(e, a, {"Certificate"})
  BY ClientCertificate12Step
<1>3. kxm.t = "ClientKeyExchange" /\ cv.t = "CertificateVerify" BY DEF ClientKxMsg, CertVerifyMsg
<1>4. st \in {"ExpectNewTicket", "ExpectCcs"} OBVIOUS
<1>. HIDE DEF a, kxm, st
<1>5. /\ ClientTurn(a, b, {"out", "tr"}, {})
      /\ Recs(b) = Recs(a) \cup {Plaintext("handshake", kxm)}
  BY <1>2, ClientSays DEF ClientTurn
<1>. HIDE DEF b, ms, cv
<1>6. /\ ClientTurn(e, b, {"out", "tr"}, {}) /\ Adds(e, b, {"Certificate", "ClientKeyExchange"})
      /\ ClientShaped(b) /\ b.err = "none"
  <2>1. {"out", "tr"} \cup {"out", "tr"} \subseteq {"out", "tr"} /\ {} \cup {} \subseteq {} OBVIOUS
  <2>2. ClientTurn(e, b, {"out", "tr"}, {}) BY <1>2, <1>5, <2>1, ClientTurns
  <2>3. Adds(e, b, {"Certificate", "ClientKeyExchange"}) BY <1>2, <1>3, <1>5 DEF Adds, Plaintext
  <2>4. b.err = e.err BY <2>2 DEF ClientTurn, Same, SameBut, EndpointFields
  <2>. QED BY <2>2, <2>3, <2>4 DEF ClientTurn, Failed
<1>7. /\ ClientTurn(b, d, {"out", "tr"}, {}) /\ Recs(d) = Recs(b) \cup {Plaintext("handshake", cv)}
      /\ d.err = "none"
  <2>1. ClientTurn(b, d, {"out", "tr"}, {}) /\ Recs(d) = Recs(b) \cup {Plaintext("handshake", cv)}
    BY <1>6, ClientSays
  <2>. QED BY <1>6, <2>1 DEF ClientTurn, Same, SameBut, EndpointFields
<1>8. \/ g = Fail(b, "General")
      \/ g = d \/ g = b
  <2>1. b.cfg = e.cfg BY <1>6 DEF ClientTurn, Same, SameBut, EndpointFields
  <2>2. cv = CertVerifyMsg(b.cfg.auth, b.tr) BY <2>1 DEF cv
  <2>. QED BY <2>2 DEF EmitCertVerify12
<1>9. CASE g = Fail(b, "General")
  <2>1. Failed(g) BY <1>6, <1>9, ClientFail
  <2>2. f = g BY <1>1, <2>1 DEF Failed
  <2>. HIDE DEF f, g
  <2>. QED BY <1>6, <1>9, <2>2 DEF f
<1>10. CASE g = d \/ g = b
  <2>1. g.err = "none" BY <1>6, <1>7, <1>10
  <2>2. f = ok BY <1>1, <2>1
  <2>. HIDE DEF f
  <2>3. /\ ClientTurn(e, g, {"out", "tr"}, {})
        /\ Adds(e, g, {"Certificate", "ClientKeyExchange", "CertificateVerify"})
    <3>1. {"out", "tr"} \cup {"out", "tr"} \subseteq {"out", "tr"} /\ {} \cup {} \subseteq {} OBVIOUS
    <3>. HIDE DEF d, g
    <3>2. ClientTurn(e, d, {"out", "tr"}, {}) BY <1>6, <1>7, <3>1, ClientTurns
    <3>3. /\ Adds(e, d, {"Certificate", "ClientKeyExchange", "CertificateVerify"})
          /\ Adds(e, b, {"Certificate", "ClientKeyExchange", "CertificateVerify"})
      BY <1>3, <1>6, <1>7 DEF Adds, Plaintext
    <3>. QED BY <1>6, <1>10, <3>2, <3>3
  <2>. HIDE DEF g
  <2>4. ClientTurn(g, h1, {"out"}, {}) /\ Adds(g, h1, {"ChangeCipherSpec"})
    BY <2>3, ClientChanges DEF ClientTurn
  <2>. HIDE DEF h1
  <2>5. ClientTurn(h1, h2, {"hs"}, {"ms"}) /\ h2.out = h1.out /\ h2.hs.ms = <<ms>>
    <3>1. ClientShaped(h1) BY <2>4 DEF ClientTurn
    <3>2. /\ Same(h1, h2, {"hs"}) /\ SameBut(ClientHsFields, h1.hs, h2.hs, {"ms"})
          /\ h2.out = h1.out /\ h2.hs.ms = <<ms>>
      BY <3>1 DEF ClientShaped, Shaped, IsRecord, Same, SameBut, EndpointFields, ClientHsFields
    <3>. HIDE DEF h2
    <3>3. {"hs"} \cap {"out", "plain", "queued", "side", "store"} = {} OBVIOUS
    <3>. QED BY <3>1, <3>2, <3>3, ClientNotes
  <2>. HIDE DEF h2
  <2>6. /\ ClientTurn(h2, h3, {"enc", "encOn", "dec", "decOn", "trial"}, {}) /\ h3.out = h2.out
        /\ h3.enc # None /\ h3.enc[1].k = "tls12" /\ h3.hs = h2.hs
    <3>1. ClientShaped(h2) BY <2>5 DEF ClientTurn
    <3>2. /\ Shaped(h3) /\ Same(h2, h3, {"enc", "encOn", "dec", "decOn", "trial"})
          /\ h3.enc # None /\ h3.enc[1].k = "tls12"
      BY <3>1, Encryption12Frame DEF ClientShaped
    <3>. HIDE DEF h3
    <3>3. ClientTurn(h2, h3, {"enc", "encOn", "dec", "decOn", "trial"}, {})
      BY <3>1, <3>2, ClientQuiet
    <3>. QED BY <3>2, <3>3 DEF Same, SameBut, EndpointFields
  <2>. HIDE DEF h3
  <2>7. /\ ClientTurn(h3, h4, {"encOn"}, {}) /\ h4.out = h3.out /\ h4.encOn = TRUE
        /\ h4.enc = h3.enc /\ h4.hs = h3.hs
    <3>1. ClientShaped(h3) BY <2>6 DEF ClientTurn
    <3>2. Shaped(h4) /\ Same(h3, h4, {"encOn"}) /\ h4.encOn = TRUE
      BY <3>1, EncrypterFrame DEF ClientShaped
    <3>. HIDE DEF h4
    <3>3. ClientTurn(h3, h4, {"encOn"}, {}) BY <3>1, <3>2, ClientQuiet
    <3>. QED BY <3>2, <3>3 DEF Same, SameBut, EndpointFields
  <2>. HIDE DEF h4
  <2>8. /\ ClientTurn(h4, h5, {"out", "tr"}, {})
        /\ \A w \in Recs(h5) : w \in Recs(h4) \/ Finale12(w, h5)
    BY <2>7, ClientFinale12Step DEF ClientTurn
  <2>. HIDE DEF h5
  <2>9. ClientTurn(h5, ok, {"st"}, {}) /\ ok.st = st /\ ok.out = h5.out
    <3>1. ClientShaped(h5) BY <2>8 DEF ClientTurn
    <3>. QED BY <3>1, ClientMoves
  <2>. HIDE DEF ok
  <2>10. ClientTurn(e, ok, X, {"ms"})
    <3>1. {"out", "tr"} \cup {"out"} \subseteq X /\ {} \cup {} \subseteq {"ms"} OBVIOUS
    <3>2. ClientTurn(e, h1, X, {"ms"}) BY <2>3, <2>4, <3>1, ClientTurns
    <3>3. X \cup {"hs"} \subseteq X /\ {"ms"} \cup {"ms"} \subseteq {"ms"} OBVIOUS
    <3>4. ClientTurn(e, h2, X, {"ms"}) BY <2>5, <3>2, <3>3, ClientTurns
    <3>5. X \cup {"enc", "encOn", "dec", "decOn", "trial"} \subseteq X
          /\ {"ms"} \cup {} \subseteq {"ms"} OBVIOUS
    <3>6. ClientTurn(e, h3, X, {"ms"}) BY <2>6, <3>4, <3>5, ClientTurns
    <3>7. X \cup {"encOn"} \subseteq X OBVIOUS
    <3>8. ClientTurn(e, h4, X, {"ms"}) BY <2>7, <3>5, <3>6, <3>7, ClientTurns
    <3>9. X \cup {"out", "tr"} \subseteq X OBVIOUS
    <3>10. ClientTurn(e, h5, X, {"ms"}) BY <2>8, <3>5, <3>8, <3>9, ClientTurns
    <3>11. X \cup {"st"} \subseteq X OBVIOUS
    <3>. QED BY <2>9, <3>5, <3>10, <3>11, ClientTurns
  <2>11. /\ ok.hs = h5.hs /\ ok.enc = h5.enc /\ ok.encOn = h5.encOn /\ ok.cert = h5.cert
         /\ h5.hs = h4.hs /\ h5.enc = h4.enc /\ h5.encOn = h4.encOn /\ h5.cert = h4.cert
    BY <2>8, <2>9 DEF ClientTurn, Same, SameBut, EndpointFields
  <2>12. h4.cert = e.cert
    <3>1. h1.cert = e.cert BY <2>3, <2>4 DEF ClientTurn, Same, SameBut, EndpointFields
    <3>2. h2.cert = h1.cert BY <2>5 DEF ClientTurn, Same, SameBut, EndpointFields
    <3>3. h4.cert = h2.cert BY <2>6, <2>7 DEF ClientTurn, Same, SameBut, EndpointFields
    <3>. QED BY <3>1, <3>2, <3>3
  <2>13. ok.hs.ms = <<ok.hs.ms[1]>> BY <2>5, <2>6, <2>7, <2>11
  <2>14. ASSUME NEW w \in Recs(ok)
         PROVE  \/ w \in Recs(e)
                \/ w.typ # "app" /\ w.m.t \in T
                \/ w.typ # "app" /\ w.m.t = "Finished" /\ w.m.verify.k = "finished12"
    <3>1. Recs(ok) = Recs(h5) /\ Recs(h4) = Recs(h1)
      BY <2>5, <2>6, <2>7, <2>9 DEF Recs
    <3>. QED BY <2>3, <2>4, <2>8, <2>14, <3>1 DEF Adds, Finale12
  <2>15. ClientSpeaks12(e, ok)
    BY <1>4, <2>6, <2>7, <2>9, <2>10, <2>11, <2>12, <2>13, <2>14 DEF ClientSpeaks12
  <2>. QED BY <2>2, <2>15 DEF f
<1>. QED BY <1>8, <1>9, <1>10

\* A client that verified the server of a full TLS 1.2 handshake and answered.
ClientAnswers12(e, f) ==
    /\ ClientTurn(e, f, {"tr", "cert", "out", "hs", "enc", "encOn", "dec", "decOn", "trial",
                         "st"}, {"ms"})
    /\ f.st \in {"ExpectNewTicket", "ExpectCcs"} /\ f.cert = e.hs.cert
    /\ e.hs.cert # "none" /\ e.hs.cert \in e.cfg.trusts
    /\ f.hs.ms = <<f.hs.ms[1]>>
    /\ f.enc # None /\ f.enc[1].k = "tls12" /\ f.encOn = TRUE
    /\ \A w \in Recs(f) :
          \/ w \in Recs(e)
          \/ w.typ # "app" /\ w.m.t \in {"Certificate", "ClientKeyExchange", "CertificateVerify",
                                         "ChangeCipherSpec"}
          \/ w.typ # "app" /\ w.m.t = "Finished" /\ w.m.verify.k = "finished12"

\* ExpectServerDone::handle
LEMMA ServerDoneStep ==
    ASSUME NEW e, ClientShaped(e), NEW m, e.st \in ClientFull12States, ~Failed(e)
    PROVE  LET f == ServerDone(e, m) IN ClientFails(e, f, m) \/ ClientAnswers12(e, f)
<1>. DEFINE b == Hash(e, m)
            cert == b.hs.cert
            kx == b.hs.kx[1]
            v == [b EXCEPT !.cert = cert]
            a == EmitCertificate12(v)
            g == ServerDoneFlight(v)
            f == ServerDone(e, m)
            X == {"tr", "ver", "suite", "alpn", "hs", "out", "cert"}
            Y == {"suite", "ed", "ems", "mustTicket", "status", "sid"}
            Z == {"tr", "cert", "out", "hs", "enc", "encOn", "dec", "decOn", "trial", "st"}
<1>1. \/ f = Fail(b, "NoCertificatesPresented")
      \/ f = Fatal(b, "BadCertificate")
      \/ f = Fatal(b, "DecryptError")
      \/ f = Fail(a, "SelectedUnofferedKxGroup")
      \/ f = g /\ cert # "none" /\ cert \in b.cfg.trusts
  BY DEF ServerDone
<1>2. ClientTurn(e, b, {"tr"}, {}) /\ b.out = e.out BY ClientHashes
<1>. HIDE DEF b
<1>3. b.hs = e.hs /\ b.cfg = e.cfg /\ b.err = e.err
  BY <1>2 DEF ClientTurn, Same, SameBut, EndpointFields
<1>4. cert = e.hs.cert BY <1>3
<1>. HIDE DEF cert
<1>5. ClientTurn(b, v, {"cert"}, {}) /\ v.out = b.out /\ v.cert = cert /\ v.err = b.err
  <2>1. ClientShaped(b) BY <1>2 DEF ClientTurn
  <2>2. /\ Same(b, v, {"cert"}) /\ v.cert = cert /\ v.out = b.out /\ v.err = b.err
    BY <2>1 DEF ClientShaped, Shaped, IsRecord, Same, SameBut, EndpointFields
  <2>. HIDE DEF v
  <2>3. Shaped(v) BY <2>1, <2>2, SameShaped DEF ClientShaped
  <2>4. ClientTurn(b, v, {"cert"}, {}) BY <2>1, <2>2, <2>3, ClientQuiet
  <2>. QED BY <2>2, <2>4
<1>. HIDE DEF v
<1>6. ClientTurn(e, v, {"tr", "cert"}, {}) /\ Recs(v) = Recs(e) /\ ~Failed(v)
  <2>1. {"tr"} \cup {"cert"} \subseteq {"tr", "cert"} /\ {} \cup {} \subseteq {} OBVIOUS
  <2>. QED BY <1>2, <1>3, <1>5, <2>1, ClientTurns DEF Recs, Failed
<1>7. ASSUME NEW x, ClientTurn(e, x, {"tr", "cert", "out"}, {}), NEW err, err # "none",
             Adds(e, x, {"Certificate", "ClientKeyExchange"})
      PROVE  ClientFails(e, Fatal(x, err), m) /\ ClientFails(e, Fail(x, err), m)
  <2>1. ClientTurn(e, x, X, Y) BY <1>7 DEF ClientTurn, Same, SameBut
  <2>2. x.hs = e.hs /\ x.ver = e.ver /\ x.suite = e.suite /\ x.alpn = e.alpn
    BY <1>7 DEF ClientTurn, Same, SameBut, EndpointFields
  <2>3. e.st \notin ClientVerified /\ ~Traffic(e)
    BY DEF ClientFull12States, ClientVerified, Traffic, ClientLate12States
  <2>. QED BY <1>7, <2>1, <2>2, <2>3, ClientFatalAfter
<1>8. ClientTurn(e, b, {"tr", "cert", "out"}, {}) /\ Adds(e, b, {"Certificate", "ClientKeyExchange"})
  BY <1>2 DEF ClientTurn, Same, SameBut, Adds, Recs
<1>9. /\ ClientFails(e, Fail(b, "NoCertificatesPresented"), m)
      /\ ClientFails(e, Fatal(b, "BadCertificate"), m)
      /\ ClientFails(e, Fatal(b, "DecryptError"), m)
  BY <1>7, <1>8
<1>10. ASSUME NEW x, ClientTurn(v, x, {"out", "tr"}, {}), NEW err, err # "none",
              Adds(v, x, {"Certificate", "ClientKeyExchange"})
       PROVE  ClientFails(e, Fail(x, err), m)
  <2>1. {"tr", "cert"} \cup {"out", "tr"} \subseteq {"tr", "cert", "out"} /\ {} \cup {} \subseteq {} OBVIOUS
  <2>2. ClientTurn(e, x, {"tr", "cert", "out"}, {}) BY <1>6, <1>10, <2>1, ClientTurns
  <2>3. Adds(e, x, {"Certificate", "ClientKeyExchange"}) BY <1>6, <1>10 DEF Adds
  <2>. QED BY <1>7, <1>10, <2>2, <2>3
<1>11. ClientFails(e, Fail(a, "SelectedUnofferedKxGroup"), m)
  <2>1. ClientTurn(v, a, {"out", "tr"}, {}) /\ Adds(v, a, {"Certificate"})
    BY <1>6, ClientCertificate12Step DEF ClientTurn
  <2>. HIDE DEF a
  <2>2. Adds(v, a, {"Certificate", "ClientKeyExchange"}) BY <2>1 DEF Adds
  <2>. QED BY <1>10, <2>1, <2>2
<1>12. CASE f = g /\ cert # "none" /\ cert \in b.cfg.trusts
  <2>. HIDE DEF f
  <2>1. \/ ClientSpeaks12(v, g)
        \/ \E x : /\ ClientTurn(v, x, {"out", "tr"}, {}) /\ g = Fail(x, "General")
                  /\ Adds(v, x, {"Certificate", "ClientKeyExchange"})
    BY <1>6, FlightStep DEF ClientTurn
  <2>. HIDE DEF g
  <2>2. CASE ClientSpeaks12(v, g)
    <3>1. {"tr", "cert"} \cup Z \subseteq Z /\ {} \cup {"ms"} \subseteq {"ms"} OBVIOUS
    <3>2. ClientTurn(v, g, Z, {"ms"}) BY <2>2 DEF ClientSpeaks12
    <3>3. ClientTurn(e, g, Z, {"ms"}) BY <1>6, <3>1, <3>2, ClientTurns
    <3>4. ClientAnswers12(e, g)
      BY <1>3, <1>4, <1>5, <1>6, <1>12, <2>2, <3>3 DEF ClientSpeaks12, ClientAnswers12
    <3>. QED BY <1>12, <3>4 DEF f
  <2>3. CASE \E x : /\ ClientTurn(v, x, {"out", "tr"}, {}) /\ g = Fail(x, "General")
                    /\ Adds(v, x, {"Certificate", "ClientKeyExchange"})
    BY <1>10, <1>12, <2>3 DEF f
  <2>. QED BY <2>1, <2>2, <2>3
<1>. HIDE DEF f
<1>13. ClientFails(e, f, m) \/ ClientAnswers12(e, f) BY <1>1, <1>9, <1>11, <1>12 DEF f
<1>. QED BY <1>13 DEF f

\* save_session: a session of TLS 1.2 with the certificate of this connection.
LEMMA SaveStep ==
    ASSUME NEW e, ClientShaped(e)
    PROVE  LET f == SaveSession(e) IN
           /\ ClientTurn(e, f, {"store"}, {}) /\ f.out = e.out
           /\ f.store.tls13 = e.store.tls13
           /\ \/ f.store.tls12 = e.store.tls12
              \/ LET x == f.store.tls12[1] IN
                 /\ x.v = 12 /\ x.cert = e.cert
                 /\ \/ x.ticket = None
                    \/ x.ticket = e.hs.ticket
                    \/ e.hs.resuming # None /\ x.ticket = e.hs.resuming[1].ticket
<1>. DEFINE ticket == IF e.hs.ticket # None THEN e.hs.ticket
                      ELSE IF e.hs.resuming # None THEN e.hs.resuming[1].ticket ELSE None
            x == Tls12ClientSessionValue(e, ticket)
            g == [e EXCEPT !.store.tls12 = <<x>>]
            f == SaveSession(e)
<1>1. f \in {e, g} BY DEF SaveSession, SetTls12Session, Some
<1>2. x.v = 12 /\ x.cert = e.cert /\ x.ticket = ticket BY DEF Tls12ClientSessionValue
<1>3. \/ ticket = None \/ ticket = e.hs.ticket
      \/ e.hs.resuming # None /\ ticket = e.hs.resuming[1].ticket
  OBVIOUS
<1>. HIDE DEF ticket, x
<1>4. /\ Same(e, g, {"store"}) /\ SameBut(ClientStoreFields, e.store, g.store, {"tls12"})
      /\ g.store.tls12 = <<x>> /\ g.store.tls13 = e.store.tls13
      /\ g.out = e.out /\ g.hs = e.hs /\ g.side = e.side
  BY DEF ClientShaped, Shaped, IsRecord, Same, SameBut, EndpointFields, ClientStoreFields
<1>. HIDE DEF g
<1>5. Shaped(g) BY <1>4, SameShaped DEF ClientShaped
<1>6. IsRecord(g.store, ClientStoreFields) BY <1>4 DEF SameBut, IsRecord
<1>7. SameBut(ClientHsFields, e.hs, g.hs, {}) BY <1>4 DEF SameBut, ClientShaped, IsRecord
<1>8. ClientTurn(e, g, {"store"}, {}) BY <1>4, <1>5, <1>6, <1>7 DEF ClientTurn, ClientShaped
<1>9. ClientTurn(e, e, {"store"}, {}) BY DEF ClientTurn, ClientShaped, Shaped, IsRecord, Same, SameBut
<1>. HIDE DEF f
<1>10. CASE f = e BY <1>9, <1>10 DEF f
<1>11. CASE f = g
  <2>1. f.store.tls12[1] = x BY <1>4, <1>11
  <2>. QED BY <1>2, <1>3, <1>4, <1>8, <1>11, <2>1 DEF f
<1>. QED BY <1>1, <1>10, <1>11

\* A client that finished a handshake of TLS 1.2.
ClientFinishes12(e, f, m) ==
    /\ ClientTurn(e, f, {"tr", "store", "out", "plain", "encOn", "maySend", "mayRecv", "st"}, {})
    /\ f.st = "ExpectTraffic12" /\ f.maySend = TRUE /\ f.plain = << >> /\ Keyed(f, {"tls12"})
    /\ f.store.tls13 = e.store.tls13
    /\ \/ f.store.tls12 = e.store.tls12
       \/ LET x == f.store.tls12[1] IN
          /\ x.v = 12 /\ x.cert = e.cert
          /\ \/ x.ticket = None
             \/ x.ticket = e.hs.ticket
             \/ e.hs.resuming # None /\ x.ticket = e.hs.resuming[1].ticket
    /\ m.verify = Finish12("server", e.hs.ms[1], e.n, e.tr)
    /\ e.hs.resuming = None => f.tr = Append(e.tr, "Finished")
    /\ \A w \in Recs(f) :
          \/ w \in Recs(e)
          \/ w.typ # "app" /\ w.m.t = "ChangeCipherSpec"
          \/ e.hs.resuming # None /\ Finale12(w, f)
          \/ Flushed(e, w, {"tls12"})

\* ExpectFinished::handle of tls12.rs: the client's keys are in force by then,
\* or it resumes and they come into force here.
LEMMA Finished12Step ==
    ASSUME NEW e, ClientShaped(e), NEW m, m.t = "Finished",
           e.enc # None, e.enc[1].k = "tls12", e.hs.resuming = None => e.encOn = TRUE
    PROVE  LET f == Finished12(e, m) IN
           ClientFails(e, f, m) \/ ClientFinishes12(e, f, m)
<1>. DEFINE X == {"tr", "store", "out", "plain", "encOn", "maySend", "mayRecv", "st"}
            b == Hash(e, m)
            v == SaveSession(b)
            h1 == EmitCcs(v)
            h2 == StartEncrypting(h1)
            h3 == EmitFinished12(h2)
            g == IF e.hs.resuming # None THEN h3 ELSE v
            h == StartTraffic(g)
            ok == [h EXCEPT !.st = "ExpectTraffic12"]
            f == Finished12(e, m)
<1>1. f = IF m.verify # Finish12("server", e.hs.ms[1], e.n, e.tr) THEN Fatal(e, "DecryptError") ELSE ok
  BY DEF Finished12
<1>2. ClientTurn(e, b, {"tr"}, {}) /\ b.out = e.out /\ b.tr = Append(e.tr, "Finished")
  BY ClientHashes
<1>. HIDE DEF b
<1>3. /\ ClientTurn(b, v, {"store"}, {}) /\ v.out = b.out
      /\ v.store.tls13 = b.store.tls13
      /\ \/ v.store.tls12 = b.store.tls12
         \/ LET x == v.store.tls12[1] IN
            /\ x.v = 12 /\ x.cert = b.cert
            /\ \/ x.ticket = None
               \/ x.ticket = b.hs.ticket
               \/ b.hs.resuming # None /\ x.ticket = b.hs.resuming[1].ticket
  BY <1>2, SaveStep DEF ClientTurn
<1>. HIDE DEF v
<1>4. /\ b.store = e.store /\ b.cert = e.cert /\ b.hs = e.hs /\ b.plain = e.plain /\ b.side = e.side
      /\ b.enc = e.enc /\ b.encOn = e.encOn
  BY <1>2 DEF ClientTurn, Same, SameBut, EndpointFields
<1>5. /\ v.hs = e.hs /\ v.plain = e.plain /\ v.side = e.side /\ v.tr = b.tr
      /\ v.enc = e.enc /\ v.encOn = e.encOn
  BY <1>3, <1>4 DEF ClientTurn, Same, SameBut, EndpointFields
<1>6. ClientTurn(e, v, X, {})
  <2>1. {"tr"} \cup {"store"} \subseteq X /\ {} \cup {} \subseteq {} OBVIOUS
  <2>. QED BY <1>2, <1>3, <2>1, ClientTurns
<1>7. ClientTurn(v, h1, {"out"}, {}) /\ Adds(v, h1, {"ChangeCipherSpec"})
  BY <1>3, ClientChanges DEF ClientTurn
<1>. HIDE DEF h1
<1>8. /\ ClientTurn(h1, h2, {"encOn"}, {}) /\ h2.out = h1.out /\ h2.encOn = TRUE
  <2>1. ClientShaped(h1) BY <1>7 DEF ClientTurn
  <2>2. Shaped(h2) /\ Same(h1, h2, {"encOn"}) /\ h2.encOn = TRUE
    BY <2>1, EncrypterFrame DEF ClientShaped
  <2>. HIDE DEF h2
  <2>3. ClientTurn(h1, h2, {"encOn"}, {}) BY <2>1, <2>2, ClientQuiet
  <2>. QED BY <2>2, <2>3 DEF Same, SameBut, EndpointFields
<1>. HIDE DEF h2
<1>9. /\ ClientTurn(h2, h3, {"out", "tr"}, {})
      /\ \A w \in Recs(h3) : w \in Recs(h2) \/ Finale12(w, h3)
  BY <1>8, ClientFinale12Step DEF ClientTurn
<1>. HIDE DEF h3
<1>10. /\ h3.store = v.store /\ h3.plain = v.plain /\ h3.side = v.side /\ h3.enc = v.enc
       /\ h3.encOn = TRUE
  <2>1. h1.store = v.store /\ h1.plain = v.plain /\ h1.side = v.side /\ h1.enc = v.enc
    BY <1>7 DEF ClientTurn, Same, SameBut, EndpointFields
  <2>2. h2.store = h1.store /\ h2.plain = h1.plain /\ h2.side = h1.side /\ h2.enc = h1.enc
    BY <1>8 DEF ClientTurn, Same, SameBut, EndpointFields
  <2>3. h3.store = h2.store /\ h3.plain = h2.plain /\ h3.side = h2.side /\ h3.enc = h2.enc
        /\ h3.encOn = h2.encOn
    BY <1>9 DEF ClientTurn, Same, SameBut, EndpointFields
  <2>. QED BY <1>8, <2>1, <2>2, <2>3
<1>11. ClientTurn(e, h3, X, {})
  <2>1. X \cup {"out"} \subseteq X /\ X \cup {"encOn"} \subseteq X
        /\ X \cup {"out", "tr"} \subseteq X /\ {} \cup {} \subseteq {} OBVIOUS
  <2>2. ClientTurn(e, h1, X, {}) BY <1>6, <1>7, <2>1, ClientTurns
  <2>3. ClientTurn(e, h2, X, {}) BY <1>8, <2>1, <2>2, ClientTurns
  <2>. QED BY <1>9, <2>1, <2>3, ClientTurns
<1>12. /\ ClientTurn(e, g, X, {}) /\ g.store = v.store /\ g.plain = e.plain /\ g.side = e.side
       /\ g.enc = e.enc /\ g.encOn = TRUE
       /\ e.hs.resuming = None => g.tr = Append(e.tr, "Finished")
       /\ \A w \in Recs(g) : \/ w \in Recs(e)
                             \/ w.typ # "app" /\ w.m.t = "ChangeCipherSpec"
                             \/ e.hs.resuming # None /\ Finale12(w, g)
  <2>1. Recs(v) = Recs(e) /\ Recs(h2) = Recs(h1) BY <1>2, <1>3, <1>8 DEF Recs
  <2>2. CASE e.hs.resuming # None
    <3>1. g = h3 BY <2>2
    <3>. QED BY <1>5, <1>7, <1>9, <1>10, <1>11, <2>1, <2>2, <3>1 DEF Adds
  <2>3. CASE e.hs.resuming = None
    <3>1. g = v BY <2>3
    <3>. QED BY <1>2, <1>5, <1>6, <2>1, <2>3, <3>1
  <2>. QED BY <2>2, <2>3
<1>. HIDE DEF g
<1>13. /\ ClientTurn(g, h, {"maySend", "mayRecv", "out", "plain"}, {})
       /\ h.maySend = TRUE /\ h.plain = << >>
       /\ Recs(h) = Recs(g) \cup {AppRecord(g, x) : x \in Range(g.plain)}
  BY <1>12, ClientStarts DEF ClientTurn
<1>. HIDE DEF h
<1>14. ClientTurn(h, ok, {"st"}, {}) /\ ok.st = "ExpectTraffic12" /\ ok.out = h.out
  <2>1. ClientShaped(h) BY <1>13 DEF ClientTurn
  <2>. QED BY <2>1, ClientMoves
<1>. HIDE DEF ok
<1>15. ClientTurn(e, ok, X, {})
  <2>1. X \cup {"maySend", "mayRecv", "out", "plain"} \subseteq X
        /\ X \cup {"st"} \subseteq X /\ {} \cup {} \subseteq {} OBVIOUS
  <2>2. ClientTurn(e, h, X, {}) BY <1>12, <1>13, <2>1, ClientTurns
  <2>. QED BY <1>14, <2>1, <2>2, ClientTurns
<1>16. /\ ok.store = h.store /\ ok.enc = h.enc /\ ok.encOn = h.encOn /\ ok.tr = h.tr
       /\ ok.maySend = h.maySend /\ ok.plain = h.plain
       /\ h.store = g.store /\ h.enc = g.enc /\ h.encOn = g.encOn /\ h.tr = g.tr
  BY <1>13, <1>14 DEF ClientTurn, Same, SameBut, EndpointFields
<1>17. ASSUME NEW w \in Recs(ok)
       PROVE  \/ w \in Recs(e)
              \/ w.typ # "app" /\ w.m.t = "ChangeCipherSpec"
              \/ e.hs.resuming # None /\ Finale12(w, ok)
              \/ Flushed(e, w, {"tls12"})
  <2>1. Recs(ok) = Recs(h) BY <1>14 DEF Recs
  <2>2. CASE w \in {AppRecord(g, x) : x \in Range(g.plain)}
    <3>1. PICK x \in Range(g.plain) : w = AppRecord(g, x) BY <2>2
    <3>2. w.typ = "app" /\ w.m = AppData(g.side, x) /\ w.key = g.enc
      BY <1>12, <3>1 DEF AppRecord, Sealed
    <3>. QED BY <1>12, <3>1, <3>2 DEF Flushed
  <2>3. CASE w \in Recs(g) BY <1>12, <1>16, <2>3 DEF Finale12
  <2>. QED BY <1>13, <1>17, <2>1, <2>2, <2>3
<1>18. Keyed(ok, {"tls12"}) BY <1>12, <1>16 DEF Keyed
<1>19. m.verify = Finish12("server", e.hs.ms[1], e.n, e.tr) => ClientFinishes12(e, ok, m)
  <2>1. ok.store.tls13 = e.store.tls13 /\ ok.store = v.store BY <1>3, <1>4, <1>12, <1>16
  <2>2. \/ ok.store.tls12 = e.store.tls12
        \/ LET x == ok.store.tls12[1] IN
           /\ x.v = 12 /\ x.cert = e.cert
           /\ \/ x.ticket = None
              \/ x.ticket = e.hs.ticket
              \/ e.hs.resuming # None /\ x.ticket = e.hs.resuming[1].ticket
    BY <1>3, <1>4, <2>1
  <2>. QED BY <1>12, <1>13, <1>14, <1>15, <1>16, <1>17, <1>18, <2>1, <2>2 DEF ClientFinishes12
<1>20. ClientFails(e, Fatal(e, "DecryptError"), m) BY ClientFailsNow
<1>. HIDE DEF f
<1>21. ClientFails(e, f, m) \/ ClientFinishes12(e, f, m) BY <1>1, <1>19, <1>20
<1>. QED BY <1>21 DEF f

\* What a client may make of a message.
ClientActs(e, f, m) ==
    \/ ClientFails(e, f, m)
    \/ m.t = "HelloRetryRequest" /\ e.st \in ClientHelloStates /\ ClientRetries(e, f)
    \/ /\ m.t = "ServerHello" /\ e.st \in ClientHelloStates
       /\ \/ m.ver = 13 /\ ClientChose13(e, f) /\ f.ver = 13 /\ f.suite = m.suite
          \/ /\ m.ver = 12 /\ ClientChose12(e, f) /\ f.ver = 12 /\ f.suite = m.suite
             /\ f.alpn = m.alpn /\ ~(EarlyEnabled(e) /\ e.earlyTraffic)
    \/ /\ m.t = "EncryptedExtensions" /\ e.st = "ExpectEncryptedExtensions"
       /\ ClientExtends(e, f, m)
    \/ ClientGoesOn(e, f, m)
    \/ e.st = "ExpectCertificateVerify" /\ ClientVerifies(e, f)
    \/ m.t = "Finished" /\ e.st = "ExpectFinished" /\ ClientFinishes13(e, f, m)
    \/ ClientTakes(e, f)
    \/ ClientStores(e, f, m)
    \/ ClientRekeyed(e, f)
    \/ m.t = "ServerHelloDone" /\ e.st \in ClientFull12States /\ ClientAnswers12(e, f)
    \/ /\ e.st = "ExpectCcs" /\ f.st = "ExpectFinished12" /\ f.out = e.out
       /\ ClientTurn(e, f, {"dec", "decOn", "trial", "st"}, {})
    \/ m.t = "Finished" /\ e.st = "ExpectFinished12" /\ ClientFinishes12(e, f, m)

\* State::handle of a client.
LEMMA ClientHandleStep ==
    ASSUME NEW e, ClientShaped(e), ~Failed(e), NEW m,
           m.t = "ServerHello" => m.ver \in {12, 13},
           e.st = "ExpectFinished12" => /\ e.enc # None /\ e.enc[1].k = "tls12"
                                        /\ e.hs.resuming = None => e.encOn = TRUE
    PROVE  ClientActs(e, ClientHandle(e, m), m)
<1>. DEFINE f == ClientHandle(e, m)
<1>1. \/ f = Unexpected(e)
      \/ e.st \in ClientHelloStates /\ m.t = "HelloRetryRequest" /\ f = HandleHelloRetryRequest(e, m)
      \/ e.st \in ClientHelloStates /\ m.t = "ServerHello" /\ f = HandleServerHello(e, m)
      \/ /\ e.st = "ExpectEncryptedExtensions" /\ m.t = "EncryptedExtensions"
         /\ f = EncryptedExtensions(e, m)
      \/ e.st = "ExpectCertificateOrCertReq" /\ f = CertificateRequest(e, m, "ExpectCertificate")
      \/ /\ e.st \in {"ExpectCertificateOrCertReq", "ExpectCertificate"} /\ m.t = "Certificate"
         /\ f = Certificate(e, m, "ExpectCertificateVerify")
      \/ e.st = "ExpectCertificateVerify" /\ f = CertificateVerify(e, m)
      \/ e.st = "ExpectFinished" /\ m.t = "Finished" /\ f = Finished13(e, m)
      \/ e.st = "ExpectTraffic" /\ f = Traffic13(e, m)
      \/ e.st = "ExpectCertificate12" /\ m.t = "Certificate" /\ f = Certificate12(e, m)
      \/ e.st = "ExpectCertificateStatusOrServerKx" /\ f = CertificateStatus(e, m)
      \/ /\ e.st \in {"ExpectCertificateStatusOrServerKx", "ExpectServerKx"}
         /\ f = ServerKx(e, m)
      \/ e.st = "ExpectServerDoneOrCertReq" /\ f = CertificateRequest12(e, m)
      \/ e.st \in ClientFull12States /\ m.t = "ServerHelloDone" /\ f = ServerDone(e, m)
      \/ e.st = "ExpectNewTicket" /\ m.t = "NewSessionTicket" /\ f = NewTicket12(e, m)
      \/ e.st = "ExpectCcs" /\ f = ExpectCcs12(e)
      \/ e.st = "ExpectFinished12" /\ m.t = "Finished" /\ f = Finished12(e, m)
      \/ e.st = "ExpectTraffic12" /\ f = TakeReceived(e, m)
  <2>1. CASE e.st \in ClientHelloStates BY <2>1 DEF ClientHandle, ClientHelloStates
  <2>2. CASE e.st \in {"ExpectEncryptedExtensions", "ExpectCertificateOrCertReq",
                       "ExpectCertificate", "ExpectCertificateVerify", "ExpectFinished",
                       "ExpectTraffic"}
    <3>1. CASE e.st = "ExpectEncryptedExtensions" BY <3>1 DEF ClientHandle
    <3>2. CASE e.st = "ExpectCertificateOrCertReq" BY <3>2 DEF ClientHandle
    <3>3. CASE e.st = "ExpectCertificate" BY <3>3 DEF ClientHandle
    <3>4. CASE e.st = "ExpectCertificateVerify" BY <3>4 DEF ClientHandle
    <3>5. CASE e.st = "ExpectFinished" BY <3>5 DEF ClientHandle
    <3>6. CASE e.st = "ExpectTraffic" BY <3>6 DEF ClientHandle
    <3>. QED BY <2>2, <3>1, <3>2, <3>3, <3>4, <3>5, <3>6
  <2>3. CASE e.st \in {"ExpectCertificate12", "ExpectCertificateStatusOrServerKx",
                       "ExpectServerKx", "ExpectServerDoneOrCertReq", "ExpectServerDone"}
    BY <2>3 DEF ClientHandle, ClientFull12States
  <2>4. CASE e.st \in {"ExpectNewTicket", "ExpectCcs", "ExpectFinished12", "ExpectTraffic12"}
    BY <2>4 DEF ClientHandle
  <2>5. CASE e.st \notin ClientHelloStates \cup Client13States \cup ClientFull12States
                         \cup ClientLate12States
    BY <2>5 DEF ClientHandle, ClientHelloStates, Client13States, ClientFull12States,
                ClientLate12States
  <2>. QED BY <2>1, <2>2, <2>3, <2>4, <2>5
           DEF Client13States, ClientFull12States, ClientLate12States
<1>2. ClientFails(e, Unexpected(e), m) BY ClientFailsNow DEF Unexpected
<1>. HIDE DEF f
<1>3. CASE f = Unexpected(e) BY <1>2, <1>3 DEF ClientActs, f
<1>4. CASE e.st \in ClientHelloStates /\ m.t = "HelloRetryRequest" /\ f = HandleHelloRetryRequest(e, m)
  BY <1>4, RetryStep DEF ClientActs, f
<1>5. CASE e.st \in ClientHelloStates /\ m.t = "ServerHello" /\ f = HandleServerHello(e, m)
  BY <1>5, HelloStep DEF ClientActs, f
<1>6. CASE /\ e.st = "ExpectEncryptedExtensions" /\ m.t = "EncryptedExtensions"
           /\ f = EncryptedExtensions(e, m)
  BY <1>6, ExtensionsStep DEF ClientActs, f
<1>7. CASE \/ e.st = "ExpectCertificateOrCertReq" /\ f = CertificateRequest(e, m, "ExpectCertificate")
           \/ /\ e.st \in {"ExpectCertificateOrCertReq", "ExpectCertificate"} /\ m.t = "Certificate"
              /\ f = Certificate(e, m, "ExpectCertificateVerify")
           \/ e.st = "ExpectCertificate12" /\ m.t = "Certificate" /\ f = Certificate12(e, m)
           \/ e.st = "ExpectCertificateStatusOrServerKx" /\ f = CertificateStatus(e, m)
           \/ /\ e.st \in {"ExpectCertificateStatusOrServerKx", "ExpectServerKx"}
              /\ f = ServerKx(e, m)
           \/ e.st = "ExpectServerDoneOrCertReq" /\ f = CertificateRequest12(e, m)
           \/ e.st = "ExpectNewTicket" /\ m.t = "NewSessionTicket" /\ f = NewTicket12(e, m)
  <2>1. ClientGoesOn(e, f, m) BY <1>7, QuietSteps
  <2>. QED BY <2>1 DEF ClientActs, f
<1>8. CASE e.st = "ExpectCertificateVerify" /\ f = CertificateVerify(e, m)
  BY <1>8, CertificateVerifyStep DEF ClientActs, f
<1>9. CASE e.st = "ExpectFinished" /\ m.t = "Finished" /\ f = Finished13(e, m)
  BY <1>9, Finished13Step DEF ClientActs, f
<1>10. CASE e.st = "ExpectTraffic" /\ f = Traffic13(e, m)
  BY <1>10, Traffic13Step DEF ClientActs, f
<1>11. CASE e.st \in ClientFull12States /\ m.t = "ServerHelloDone" /\ f = ServerDone(e, m)
  BY <1>11, ServerDoneStep DEF ClientActs, f
<1>12. CASE e.st = "ExpectCcs" /\ f = ExpectCcs12(e)
  BY <1>12, ClientCcsStep DEF ClientActs, f
<1>13. CASE e.st = "ExpectFinished12" /\ m.t = "Finished" /\ f = Finished12(e, m)
  BY <1>13, Finished12Step DEF ClientActs, f
<1>14. CASE e.st = "ExpectTraffic12" /\ f = TakeReceived(e, m)
  BY <1>14, ClientTakesStep DEF ClientActs, f, Traffic
<1>. QED BY <1>1, <1>3, <1>4, <1>5, <1>6, <1>7, <1>8, <1>9, <1>10, <1>11, <1>12, <1>13, <1>14
===============================================================================
