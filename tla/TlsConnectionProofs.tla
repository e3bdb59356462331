-------------------------- MODULE TlsConnectionProofs --------------------------
(***************************************************************************)
(* Proofs about TlsConnection for any configurations of clients and         *)
(* servers, any number of connections, faults and writes: what a server     *)
(* keeps to, what each end does with a record it is given, then the two     *)
(* ends together, and what that means for their applications.               *)
(***************************************************************************)
EXTENDS TlsServerProofs

(***************************************************************************)
(* What a server keeps to.                                                 *)
(***************************************************************************)
\* The servers of one scenario, by DeploymentAssumption.
Deployment(V) ==
    \A a, b \in V :
        /\ a.sendTickets \in Nat
        /\ a.cert = b.cert
        /\ b.clientAuth = "required" => a.clientAuth = "required" /\ a.trusts = b.trusts

ServerSafe(V, e) == ServerAuth(V, e) /\ ServerData(e) /\ ServerAgree(e)

\* A record of a server may be under way.
ServerRec(V, e, w) ==
    /\ ServerMsgAuth(V, w.m)
    /\ w.m.ok => ServerTells(e, w.m)
    /\ w.typ = "app" => w.key # None /\ w.key[1].k \in {"traffic", "tls12"}

\* What e has told stays true of f.
ServerKeepsWord(e, f) ==
    /\ e.hs.retry => f.hs.retry
    /\ Committed(e) =>
           /\ Committed(f)
           /\ f.ver = e.ver /\ f.suite = e.suite /\ f.alpn = e.alpn
           /\ f.hs.fin = e.hs.fin /\ f.hs.resuming = e.hs.resuming /\ f.hs.retry = e.hs.retry
           /\ e.st \in ServerLate12States => f.st \in ServerLate12States /\ f.hs.ms = e.hs.ms
           /\ e.st = "ExpectTraffic12" => f.st = "ExpectTraffic12"
           /\ /\ e.st \in ServerLate12States
              /\ e.hs.resuming \/ e.st = "ExpectTraffic12"
              /\ ~(f.hs.resuming /\ f.st = "ExpectTraffic12")
              => f.tr = e.tr

\* A step of the server that was given m.
ServerSteady(e, f, m) ==
    /\ f.n = e.n /\ f.side = e.side /\ f.cfg = e.cfg
    /\ ServerKeepsWord(e, f)
    /\ Committed(e) => e.st = "ExpectClientKx" \/ f.hs.ms = e.hs.ms
    /\ f.st = "ExpectTraffic" =>
           \/ e.st = "ExpectTraffic" /\ f.tr = e.tr
           \/ /\ e.st = "ExpectClientFinished" /\ m.t = "Finished"
              /\ m.verify = FinishOf("client", e.hs.sec[1], e.tr)
              /\ f.tr = Append(e.tr, m.t)
    /\ f.st = "ExpectTraffic12" =>
           \/ e.st = "ExpectTraffic12" /\ f.tr = e.tr
           \/ /\ e.st = "ExpectClientFinished12" /\ m.t = "Finished"
              /\ m.verify = Finish12("client", e.hs.ms[1], e.n, e.tr)
              /\ e.hs.resuming => f.tr = Append(e.tr, m.t)

\* The certificates a configuration stands for.
LEMMA Insists ==
    ASSUME NEW V, Deployment(V), NEW cfg \in V
    PROVE  /\ cfg.clientAuth # "required" => \A cert : Acceptable(V, cert)
           /\ \A cert : cert \in cfg.trusts => Acceptable(V, cert)
           /\ Identity(V, cfg.cert)
<1>1. cfg.clientAuth # "required" => \A v \in V : v.clientAuth # "required"
  BY DEF Deployment
<1>2. \A v \in V : v.clientAuth = "required" => cfg.trusts = v.trusts BY DEF Deployment
<1>3. \A v \in V : cfg.cert = v.cert BY DEF Deployment
<1>. QED BY <1>1, <1>2, <1>3 DEF Acceptable, Identity

\* What was told is told still.
LEMMA TellsLater ==
    ASSUME NEW e, NEW f, ServerKeepsWord(e, f), NEW m, ServerTells(e, m)
    PROVE  ServerTells(f, m)
<1>1. m.t = "HelloRetryRequest" => f.hs.retry BY DEF ServerKeepsWord, ServerTells
<1>2. m.t = "ServerHello" =>
          /\ Committed(f) /\ m.ver \in {12, 13} /\ m.ver = f.ver /\ m.suite = f.suite
          /\ m.ver = 12 => m.alpn = f.alpn
  BY DEF ServerKeepsWord, ServerTells
<1>3. m.t = "EncryptedExtensions" => 
          Committed(f) /\ m.alpn = f.alpn /\ (f.hs.retry => ~m.early)
  BY DEF ServerKeepsWord, ServerTells
<1>4. m.t = "ServerHelloDone" => Committed(f) /\ ~f.hs.resuming
  BY DEF ServerKeepsWord, ServerTells
<1>5. ASSUME m.t = "Finished"
      PROVE  LET v == m.verify IN
             /\ Committed(f)
             /\ \/ /\ v.k = "finished"
                   /\ f.hs.fin = <<[v.sec EXCEPT !.hash = Append(v.hash, "Finished")]>>
                \/ /\ v.k = "finished12" /\ f.st \in ServerLate12States
                   /\ f.hs.resuming \/ f.st = "ExpectTraffic12"
                   /\ f.hs.ms = <<v.ms>>
                   /\ ~(f.hs.resuming /\ f.st = "ExpectTraffic12") =>
                          f.tr = Append(v.hash, "Finished")
  <2>. DEFINE v == m.verify
              fin == <<[v.sec EXCEPT !.hash = Append(v.hash, "Finished")]>>
              all == Append(v.hash, "Finished")
  <2>1. /\ Committed(e)
        /\ \/ v.k = "finished" /\ e.hs.fin = fin
           \/ /\ v.k = "finished12" /\ e.st \in ServerLate12States
              /\ e.hs.resuming \/ e.st = "ExpectTraffic12"
              /\ e.hs.ms = <<v.ms>>
              /\ ~(e.hs.resuming /\ e.st = "ExpectTraffic12") => e.tr = all
    BY <1>5 DEF ServerTells
  <2>. HIDE DEF v, fin, all
  <2>2. /\ Committed(f)
        /\ \/ v.k = "finished" /\ f.hs.fin = fin
           \/ /\ v.k = "finished12" /\ f.st \in ServerLate12States
              /\ f.hs.resuming \/ f.st = "ExpectTraffic12"
              /\ f.hs.ms = <<v.ms>>
              /\ ~(f.hs.resuming /\ f.st = "ExpectTraffic12") => f.tr = all
    BY <2>1 DEF ServerKeepsWord
  <2>. QED BY <2>2 DEF v, fin, all
<1>. QED BY <1>1, <1>2, <1>3, <1>4, <1>5 DEF ServerTells

\* So the records under way may stay.
LEMMA RecsLater ==
    ASSUME NEW V, NEW e, NEW f, ServerSafe(V, e), ServerKeepsWord(e, f)
    PROVE  \A w \in Recs(e) : ServerRec(V, f, w)
<1>1. ASSUME NEW w \in Recs(e) PROVE ServerRec(V, f, w)
  <2>1. ServerMsgAuth(V, w.m) BY DEF ServerSafe, ServerAuth
  <2>2. w.typ = "app" => w.key # None /\ w.key[1].k \in {"traffic", "tls12"}
    BY DEF ServerSafe, ServerData
  <2>3. w.m.ok => ServerTells(e, w.m) BY DEF ServerSafe, ServerAgree
  <2>4. w.m.ok => ServerTells(f, w.m) BY <2>3, TellsLater
  <2>. QED BY <2>1, <2>2, <2>4 DEF ServerRec
<1>. QED BY <1>1

\* A record of a message that says nothing of its sender.
LEMMA TellsNothing ==
    ASSUME NEW V, NEW f, NEW w, w.typ # "app",
           w.m.t \notin {"HelloRetryRequest", "ServerHello", "EncryptedExtensions",
                         "ServerHelloDone", "Finished", "NewSessionTicket", "Certificate"}
    PROVE  ServerRec(V, f, w)
  BY DEF ServerRec, ServerMsgAuth, ServerTells

\* The server fails.
LEMMA ServerFailsSafe ==
    ASSUME NEW V, NEW e, ServerSafe(V, e), ~Failed(e), NEW f, NEW m, ServerFails(e, f)
    PROVE  ServerSafe(V, f) /\ ServerSteady(e, f, m)
<1>1. /\ f.n = e.n /\ f.side = e.side /\ f.cfg = e.cfg /\ f.store = e.store /\ f.hs = e.hs
      /\ f.st = e.st /\ f.ver = e.ver /\ f.suite = e.suite /\ f.alpn = e.alpn
      /\ f.cert = e.cert /\ f.enc = e.enc /\ f.encOn = e.encOn /\ f.maySend = e.maySend
      /\ f.queued = e.queued
  BY DEF ServerFails, ServerTurn, Same, SameBut, EndpointFields
<1>2. Committed(f) BY DEF ServerFails, Committed
<1>3. e.st \in ServerLate12States \cup {"ExpectTraffic"} => f.tr = e.tr
  BY DEF ServerFails, ServerLate12States
<1>4. ServerKeepsWord(e, f) BY <1>1, <1>2, <1>3 DEF ServerKeepsWord
<1>5. ServerSteady(e, f, m) BY <1>1, <1>3, <1>4 DEF ServerSteady, ServerLate12States
<1>6. ASSUME NEW w \in Recs(f) PROVE ServerRec(V, f, w)
  <2>1. w \in Recs(e) \/ (w.typ # "app" /\ w.m.t = "Alert") BY DEF ServerFails, Adds
  <2>. QED BY <1>4, <2>1, RecsLater, TellsNothing
<1>7. ServerAuth(V, f) BY <1>1, <1>6 DEF ServerSafe, ServerAuth, ServerRec
<1>8. ServerData(f) BY <1>1, <1>6 DEF ServerSafe, ServerData, ServerRec, Keyed
<1>9. ServerAgree(f) BY <1>1, <1>2, <1>6 DEF ServerSafe, ServerAgree, ServerRec
<1>. QED BY <1>5, <1>7, <1>8, <1>9 DEF ServerSafe

\* The server is given a certificate or none.
LEMMA ServerPresentsSafe ==
    ASSUME NEW V, Deployment(V), NEW e, ServerSafe(V, e), ~Failed(e), NEW f, NEW m,
           ServerPresents(e, f, m)
    PROVE  ServerSafe(V, f) /\ ServerSteady(e, f, m)
<1>1. /\ f.n = e.n /\ f.side = e.side /\ f.cfg = e.cfg /\ f.store = e.store /\ f.out = e.out
      /\ f.ver = e.ver /\ f.suite = e.suite /\ f.alpn = e.alpn
      /\ f.cert = e.cert /\ f.enc = e.enc /\ f.encOn = e.encOn /\ f.maySend = e.maySend
      /\ f.queued = e.queued /\ f.err = e.err
  BY DEF ServerPresents, ServerTurn, Same, SameBut, EndpointFields
<1>2. /\ f.hs.retry = e.hs.retry /\ f.hs.fin = e.hs.fin /\ f.hs.resuming = e.hs.resuming
      /\ f.hs.ms = e.hs.ms /\ f.hs.psk = e.hs.psk
  BY DEF ServerPresents, ServerTurn, SameBut, ServerHsFields
<1>3. /\ e.st \in {"ExpectClientCertificate", "ExpectClientCertificate12"}
      /\ e.st = "ExpectClientCertificate" =>
            f.st \in {"ExpectClientFinished", "ExpectClientCertificateVerify"}
      /\ e.st = "ExpectClientCertificate12" => f.st = "ExpectClientKx"
  BY DEF ServerPresents
<1>4. Committed(e) /\ Committed(f) BY <1>3 DEF Committed, ServerHelloStates
<1>5. ServerKeepsWord(e, f) BY <1>1, <1>2, <1>3, <1>4 DEF ServerKeepsWord, ServerLate12States
<1>6. ServerSteady(e, f, m) BY <1>1, <1>2, <1>3, <1>5 DEF ServerSteady
<1>7. \A w \in Recs(f) : ServerRec(V, f, w) BY <1>1, <1>5, RecsLater DEF Recs
<1>8. ServerAuth(V, f)
  <2>1. e.cfg \in V BY DEF ServerSafe, ServerAuth
  <2>2. \/ e.cfg.clientAuth # "required" /\ \A cert : Acceptable(V, cert)
        \/ /\ f.hs.cert # "none" /\ Acceptable(V, f.hs.cert)
           /\ f.st # "ExpectClientFinished"
    BY <2>1, Insists DEF ServerPresents
  <2>3. f.st \in {"ExpectClientFinished", "ExpectClientCertificateVerify", "ExpectClientKx"}
    BY <1>3
  <2>4. f.st \in ServerVerified => f.st = "ExpectClientFinished" BY <2>3 DEF ServerVerified
  <2>. QED BY <1>1, <1>7, <2>1, <2>2, <2>4 DEF ServerSafe, ServerAuth, ServerRec
<1>9. ServerData(f)
  BY <1>1, <1>3, <1>7 DEF ServerSafe, ServerData, ServerRec, Keyed, Server13States, ServerLate12States
<1>10. ServerAgree(f)
  BY <1>1, <1>2, <1>3, <1>4, <1>7 
  DEF ServerSafe, ServerAgree, ServerRec, Server13States, Server12States, ServerLate12States,
      ServerFull12States
<1>. QED BY <1>6, <1>8, <1>9, <1>10 DEF ServerSafe

\* The server has the proof.
LEMMA ServerBelievesSafe ==
    ASSUME NEW V, NEW e, ServerSafe(V, e), ~Failed(e), NEW f, NEW m, ServerBelieves(e, f)
    PROVE  ServerSafe(V, f) /\ ServerSteady(e, f, m)
<1>1. /\ f.n = e.n /\ f.side = e.side /\ f.cfg = e.cfg /\ f.store = e.store /\ f.out = e.out
      /\ f.ver = e.ver /\ f.suite = e.suite /\ f.alpn = e.alpn /\ f.hs = e.hs
      /\ f.enc = e.enc /\ f.encOn = e.encOn /\ f.maySend = e.maySend
      /\ f.queued = e.queued /\ f.err = e.err
  BY DEF ServerBelieves, ServerTurn, Same, SameBut, EndpointFields
<1>2. \/ e.st = "ExpectClientCertificateVerify" /\ f.st = "ExpectClientFinished"
      \/ e.st = "ExpectCertificateVerify12" /\ f.st = "ExpectClientCcs"
  BY DEF ServerBelieves
<1>3. Committed(e) /\ Committed(f) BY <1>2 DEF Committed, ServerHelloStates
<1>4. e.st \in ServerLate12States => ~e.hs.resuming
  BY <1>2 DEF ServerSafe, ServerAgree, ServerLate12States, ServerFull12States
<1>5. ServerKeepsWord(e, f) BY <1>1, <1>2, <1>3, <1>4 DEF ServerKeepsWord, ServerLate12States
<1>6. ServerSteady(e, f, m) BY <1>1, <1>2, <1>5 DEF ServerSteady
<1>7. \A w \in Recs(f) : ServerRec(V, f, w) BY <1>1, <1>5, RecsLater DEF Recs
<1>8. ServerAuth(V, f)
  <2>1. f.cert = e.hs.cert BY DEF ServerBelieves
  <2>2. Acceptable(V, e.hs.cert) BY <1>2 DEF ServerSafe, ServerAuth, ServerPresented
  <2>. QED BY <1>1, <1>2, <1>7, <2>1, <2>2 DEF ServerSafe, ServerAuth, ServerRec, ServerPresented
<1>9. ServerData(f)
  BY <1>1, <1>2, <1>7 DEF ServerSafe, ServerData, ServerRec, Keyed, Server13States, ServerLate12States
<1>10. ServerAgree(f)
  BY <1>1, <1>2, <1>3, <1>7
  DEF ServerSafe, ServerAgree, ServerRec, Server13States, Server12States, ServerLate12States,
      ServerFull12States
<1>. QED BY <1>6, <1>8, <1>9, <1>10 DEF ServerSafe

\* The server reads.
LEMMA ServerReadsSafe ==
    ASSUME NEW V, NEW e, ServerSafe(V, e), ~Failed(e), NEW f, NEW m, ServerReads(e, f)
    PROVE  ServerSafe(V, f) /\ ServerSteady(e, f, m)
<1>1. /\ f.n = e.n /\ f.side = e.side /\ f.cfg = e.cfg /\ f.store = e.store /\ f.out = e.out
      /\ f.ver = e.ver /\ f.suite = e.suite /\ f.alpn = e.alpn /\ f.cert = e.cert
      /\ f.enc = e.enc /\ f.encOn = e.encOn /\ f.maySend = e.maySend
      /\ f.queued = e.queued /\ f.err = e.err
  BY DEF ServerReads, ServerTurn, Same, SameBut, EndpointFields
<1>2. /\ f.hs.retry = e.hs.retry /\ f.hs.fin = e.hs.fin /\ f.hs.resuming = e.hs.resuming
      /\ f.hs.ms = e.hs.ms /\ f.hs.psk = e.hs.psk /\ f.hs.cert = e.hs.cert
  BY DEF ServerReads, ServerTurn, SameBut, ServerHsFields
<1>3. \/ f.st = e.st /\ f.tr = e.tr
      \/ e.st = "ExpectEarlyData" /\ f.st = "ExpectClientFinished"
      \/ e.st = "ExpectClientCcs" /\ f.st = "ExpectClientFinished12" /\ f.tr = e.tr
  BY DEF ServerReads
<1>4. Committed(e) <=> Committed(f) BY <1>1, <1>3 DEF Committed, ServerHelloStates, Failed
<1>5. ServerKeepsWord(e, f) BY <1>1, <1>2, <1>3, <1>4 DEF ServerKeepsWord, ServerLate12States
<1>6. ServerSteady(e, f, m) BY <1>1, <1>2, <1>3, <1>5 DEF ServerSteady
<1>7. \A w \in Recs(f) : ServerRec(V, f, w) BY <1>1, <1>5, RecsLater DEF Recs
<1>8. ServerAuth(V, f)
  BY <1>1, <1>2, <1>3, <1>7 DEF ServerSafe, ServerAuth, ServerRec, ServerPresented, ServerVerified
<1>9. ServerData(f)
  BY <1>1, <1>2, <1>3, <1>7
  DEF ServerSafe, ServerData, ServerRec, Keyed, Server13States, ServerLate12States
<1>10. ServerAgree(f)
  BY <1>1, <1>2, <1>3, <1>4, <1>7
  DEF ServerSafe, ServerAgree, ServerRec, Server13States, Server12States, ServerLate12States,
      ServerFull12States
<1>. QED BY <1>6, <1>8, <1>9, <1>10 DEF ServerSafe

\* The server changes its keys.
LEMMA ServerRekeyedSafe ==
    ASSUME NEW V, NEW e, ServerSafe(V, e), ~Failed(e), NEW f, NEW m, ServerRekeyed(e, f)
    PROVE  ServerSafe(V, f) /\ ServerSteady(e, f, m)
<1>1. /\ f.n = e.n /\ f.side = e.side /\ f.cfg = e.cfg /\ f.store = e.store /\ f.out = e.out
      /\ f.ver = e.ver /\ f.suite = e.suite /\ f.alpn = e.alpn /\ f.cert = e.cert
      /\ f.hs = e.hs /\ f.maySend = e.maySend /\ f.err = e.err /\ f.st = e.st /\ f.tr = e.tr
  BY DEF ServerRekeyed, ServerTurn, Same, SameBut, EndpointFields
<1>2. e.st = "ExpectTraffic" BY DEF ServerRekeyed
<1>3. /\ Keyed(e, {"traffic"}) => Keyed(f, {"traffic"})
      /\ \A w \in Range(f.queued) : w \in Range(e.queued) \/ (w.typ # "app" /\ w.m.t = "KeyUpdate")
  BY DEF ServerRekeyed, Keyed
<1>4. Committed(e) /\ Committed(f) BY <1>1, <1>2 DEF Committed, ServerHelloStates
<1>5. ServerKeepsWord(e, f) BY <1>1, <1>2, <1>4 DEF ServerKeepsWord
<1>6. ServerSteady(e, f, m) BY <1>1, <1>2, <1>5 DEF ServerSteady
<1>7. \A w \in Recs(f) : ServerRec(V, f, w) BY <1>1, <1>5, RecsLater DEF Recs
<1>8. ServerAuth(V, f) BY <1>1, <1>7 DEF ServerSafe, ServerAuth, ServerRec
<1>9. ServerData(f)
  <2>1. Keyed(f, {"traffic"})
    BY <1>2, <1>3 DEF ServerSafe, ServerData, Server13States
  <2>2. Keyed(f, {"traffic", "tls12"}) BY <2>1 DEF Keyed
  <2>. QED BY <1>1, <1>2, <1>3, <1>7, <2>1, <2>2
           DEF ServerSafe, ServerData, ServerRec, Server13States, ServerLate12States
<1>10. ServerAgree(f) BY <1>1, <1>4, <1>7 DEF ServerSafe, ServerAgree, ServerRec
<1>. QED BY <1>6, <1>8, <1>9, <1>10 DEF ServerSafe

\* The server has the client's key share.
LEMMA ServerKeyed12Safe ==
    ASSUME NEW V, Deployment(V), NEW e, ServerSafe(V, e), ~Failed(e), NEW f, NEW m,
           e.st = "ExpectClientKx", ServerKeyed12(e, f)
    PROVE  ServerSafe(V, f) /\ ServerSteady(e, f, m)
<1>1. /\ f.n = e.n /\ f.side = e.side /\ f.cfg = e.cfg /\ f.store = e.store /\ f.out = e.out
      /\ f.ver = e.ver /\ f.suite = e.suite /\ f.alpn = e.alpn /\ f.cert = e.cert
      /\ f.maySend = e.maySend /\ f.queued = e.queued /\ f.err = e.err
  BY DEF ServerKeyed12, ServerTurn, Same, SameBut, EndpointFields
<1>2. /\ f.hs.retry = e.hs.retry /\ f.hs.fin = e.hs.fin /\ f.hs.resuming = e.hs.resuming
      /\ f.hs.psk = e.hs.psk /\ f.hs.cert = e.hs.cert
  BY DEF ServerKeyed12, ServerTurn, SameBut, ServerHsFields
<1>3. /\ f.hs.ms = <<f.hs.ms[1]>> /\ f.enc # None /\ f.enc[1].k = "tls12"
      /\ f.st = IF e.hs.cert = "none" THEN "ExpectClientCcs" ELSE "ExpectCertificateVerify12"
  <2>1. f.enc = <<f.enc[1]>> BY DEF ServerKeyed12
  <2>2. f.enc # None BY <2>1 DEF None
  <2>. QED BY <2>2 DEF ServerKeyed12
<1>4. Committed(e) /\ Committed(f) BY <1>1, <1>3 DEF Committed, ServerHelloStates
<1>5. ServerKeepsWord(e, f) BY <1>1, <1>2, <1>3, <1>4 DEF ServerKeepsWord, ServerLate12States
<1>6. ServerSteady(e, f, m) BY <1>1, <1>3, <1>5 DEF ServerSteady
<1>7. \A w \in Recs(f) : ServerRec(V, f, w) BY <1>1, <1>5, RecsLater DEF Recs
<1>8. ServerAuth(V, f)
  <2>1. e.cfg \in V /\ Acceptable(V, e.hs.cert)
        /\ (e.cfg.clientAuth = "required" => e.hs.cert # "none")
    BY DEF ServerSafe, ServerAuth, ServerPresented
  <2>2. e.hs.cert = "none" => Acceptable(V, e.cert) BY <2>1, Insists
  <2>. QED BY <1>1, <1>2, <1>3, <1>7, <2>1, <2>2
           DEF ServerSafe, ServerAuth, ServerRec, ServerPresented, ServerVerified
<1>9. ServerData(f)
  <2>1. ~e.maySend BY DEF ServerSafe, ServerData, Server13States
  <2>2. ~e.hs.resuming BY DEF ServerSafe, ServerAgree, ServerFull12States
  <2>. QED BY <1>1, <1>2, <1>3, <1>7, <2>1, <2>2
           DEF ServerSafe, ServerData, ServerRec, Server13States
<1>10. ServerAgree(f)
  BY <1>1, <1>2, <1>3, <1>4, <1>7
  DEF ServerSafe, ServerAgree, ServerRec, Server13States, Server12States, ServerLate12States,
      ServerFull12States
<1>. QED BY <1>6, <1>8, <1>9, <1>10 DEF ServerSafe

\* The server finishes a handshake of TLS 1.3.
LEMMA ServerFinishes13Safe ==
    ASSUME NEW V, NEW e, ServerSafe(V, e), ~Failed(e), NEW f, NEW m,
           e.st = "ExpectClientFinished", m.t = "Finished", ServerFinishes13(e, f, m)
    PROVE  ServerSafe(V, f) /\ ServerSteady(e, f, m)
<1>1. /\ f.n = e.n /\ f.side = e.side /\ f.cfg = e.cfg /\ f.hs = e.hs
      /\ f.ver = e.ver /\ f.suite = e.suite /\ f.alpn = e.alpn /\ f.cert = e.cert
      /\ f.enc = e.enc /\ f.encOn = e.encOn /\ f.queued = e.queued /\ f.err = e.err
  BY DEF ServerFinishes13, ServerTurn, Same, SameBut, EndpointFields
<1>2. /\ f.st = "ExpectTraffic" /\ m.verify = FinishOf("client", e.hs.sec[1], e.tr)
      /\ f.tr = Append(e.tr, m.t)
  BY DEF ServerFinishes13
<1>3. Committed(e) /\ Committed(f) BY <1>2 DEF Committed, ServerHelloStates
<1>4. ServerKeepsWord(e, f) BY <1>1, <1>2, <1>3 DEF ServerKeepsWord, ServerLate12States
<1>5. ServerSteady(e, f, m) BY <1>1, <1>2, <1>4 DEF ServerSteady
<1>6. Acceptable(V, e.cert) BY DEF ServerSafe, ServerAuth, ServerVerified
<1>7. Keyed(e, {"traffic"}) BY DEF ServerSafe, ServerData, Server13States
<1>8. ASSUME NEW w \in Recs(f) PROVE ServerRec(V, f, w)
  <2>1. w \in Recs(e) \/ Ticketed13(e, w) \/ FlushedBy(e, w) BY DEF ServerFinishes13
  <2>2. CASE w \in Recs(e) BY <1>4, <2>2, RecsLater
  <2>3. CASE Ticketed13(e, w)
    BY <1>6, <2>3 DEF Ticketed13, ServerRec, ServerMsgAuth, ServerTells, TicketOk
  <2>4. CASE FlushedBy(e, w)
    BY <1>7, <2>4 DEF FlushedBy, ServerRec, ServerMsgAuth, ServerTells, Keyed
  <2>. QED BY <2>1, <2>2, <2>3, <2>4
<1>9. ServerAuth(V, f)
  <2>1. ASSUME NEW x \in Range(f.store.cache) PROVE Acceptable(V, x.val.cert)
    BY <1>6 DEF ServerFinishes13, KeepsCert, ServerSafe, ServerAuth
  <2>. QED BY <1>1, <1>2, <1>6, <1>8, <2>1 DEF ServerSafe, ServerAuth, ServerRec, ServerPresented
<1>10. ServerData(f)
  BY <1>1, <1>2, <1>7, <1>8
  DEF ServerSafe, ServerData, ServerRec, Keyed, Server13States, ServerLate12States
<1>11. ServerAgree(f)
  BY <1>1, <1>2, <1>3, <1>8
  DEF ServerSafe, ServerAgree, ServerRec, Server13States, Server12States, ServerLate12States,
      ServerFull12States
<1>. QED BY <1>5, <1>9, <1>10, <1>11 DEF ServerSafe

\* The server finishes a handshake of TLS 1.2.
LEMMA ServerFinishes12Safe ==
    ASSUME NEW V, NEW e, ServerSafe(V, e), ~Failed(e), NEW f, NEW m,
           e.st = "ExpectClientFinished12", m.t = "Finished", ServerFinishes12(e, f, m)
    PROVE  ServerSafe(V, f) /\ ServerSteady(e, f, m)
<1>1. /\ f.n = e.n /\ f.side = e.side /\ f.cfg = e.cfg /\ f.hs = e.hs
      /\ f.ver = e.ver /\ f.suite = e.suite /\ f.alpn = e.alpn /\ f.cert = e.cert
      /\ f.enc = e.enc /\ f.queued = e.queued /\ f.err = e.err
  BY DEF ServerFinishes12, ServerTurn, Same, SameBut, EndpointFields
<1>2. /\ f.st = "ExpectTraffic12" /\ m.verify = Finish12("client", e.hs.ms[1], e.n, e.tr)
      /\ e.hs.resuming => f.tr = Append(e.tr, m.t) /\ f.encOn = e.encOn
      /\ ~e.hs.resuming => f.encOn = TRUE
  BY DEF ServerFinishes12
<1>3. Committed(e) /\ Committed(f) BY <1>2 DEF Committed, ServerHelloStates
<1>4. ServerKeepsWord(e, f) BY <1>1, <1>2, <1>3 DEF ServerKeepsWord, ServerLate12States
<1>5. ServerSteady(e, f, m) BY <1>1, <1>2, <1>4 DEF ServerSteady
<1>6. Acceptable(V, e.cert) BY DEF ServerSafe, ServerAuth, ServerVerified
<1>7. Keyed(f, {"tls12"})
  BY <1>1, <1>2 DEF ServerSafe, ServerData, ServerLate12States, Keyed
<1>8. e.hs.ms = <<e.hs.ms[1]>> BY DEF ServerSafe, ServerAgree, ServerLate12States
<1>9. ASSUME NEW w \in Recs(f) PROVE ServerRec(V, f, w)
  <2>1. \/ w \in Recs(e)
        \/ ~e.hs.resuming /\ Ticketed12(f, w)
        \/ w.typ # "app" /\ w.m.t = "ChangeCipherSpec"
        \/ ~e.hs.resuming /\ ServerFinale12(w, f)
        \/ FlushedBy(f, w)
    BY DEF ServerFinishes12
  <2>2. CASE w \in Recs(e) BY <1>4, <2>2, RecsLater
  <2>3. CASE Ticketed12(f, w)
    BY <1>1, <1>6, <2>3 DEF Ticketed12, ServerRec, ServerMsgAuth, ServerTells, TicketOk
  <2>4. CASE FlushedBy(f, w)
    BY <1>7, <2>4 DEF FlushedBy, ServerRec, ServerMsgAuth, ServerTells, Keyed
  <2>5. CASE w.typ # "app" /\ w.m.t = "ChangeCipherSpec" BY <2>5, TellsNothing
  <2>6. CASE ~e.hs.resuming /\ ServerFinale12(w, f)
    <3>1. ServerMsgAuth(V, w.m) /\ w.typ # "app" BY <2>6 DEF ServerFinale12, ServerMsgAuth
    <3>2. /\ w.m.t = "Finished" /\ w.m.verify.k = "finished12" /\ f.hs.ms = <<w.m.verify.ms>>
          /\ f.tr = Append(w.m.verify.hash, "Finished")
      BY <1>1, <1>8, <2>6 DEF ServerFinale12
    <3>3. ServerTells(f, w.m) BY <1>2, <1>3, <3>2 DEF ServerTells, ServerLate12States
    <3>. QED BY <3>1, <3>3 DEF ServerRec
  <2>. QED BY <2>1, <2>2, <2>3, <2>4, <2>5, <2>6
<1>10. ServerAuth(V, f)
  <2>1. ASSUME NEW x \in Range(f.store.cache) PROVE Acceptable(V, x.val.cert)
    BY <1>6 DEF ServerFinishes12, KeepsCert, ServerSafe, ServerAuth
  <2>. QED BY <1>1, <1>2, <1>6, <1>9, <2>1 DEF ServerSafe, ServerAuth, ServerRec, ServerPresented
<1>11. ServerData(f)
  BY <1>1, <1>2, <1>7, <1>9
  DEF ServerSafe, ServerData, ServerRec, Keyed, Server13States, ServerLate12States
<1>12. ServerAgree(f)
  BY <1>1, <1>2, <1>3, <1>9
  DEF ServerSafe, ServerAgree, ServerRec, Server13States, Server12States, ServerLate12States,
      ServerFull12States
<1>. QED BY <1>5, <1>10, <1>11, <1>12 DEF ServerSafe

\* Before it has chosen, a server has nothing that binds it.
LEMMA Uncommitted ==
    ASSUME NEW e, ~Failed(e), e.st \in ServerHelloStates, NEW V, ServerSafe(V, e)
    PROVE  /\ ~Committed(e) /\ e.cfg \in V
           /\ ~e.hs.resuming /\ e.hs.psk = None /\ ~e.maySend
           /\ \A x \in Range(e.store.cache) : Acceptable(V, x.val.cert)
           /\ \A w \in Range(e.queued) : w.typ # "app" /\ w.m.t = "KeyUpdate"
           /\ \A f : (e.hs.retry => f.hs.retry) => ServerKeepsWord(e, f)
<1>1. ~Committed(e) BY DEF Committed
<1>2. ~e.maySend BY DEF ServerSafe, ServerData, Server13States, ServerHelloStates
<1>. QED BY <1>1, <1>2 DEF ServerSafe, ServerAuth, ServerData, ServerAgree, ServerKeepsWord

\* A session a server finds has a certificate that it may accept.
LEMMA SessionAcceptable ==
    ASSUME NEW V, NEW e, ServerSafe(V, e), NEW m, m.ok, m.t = "ClientHello",
           ClientMsgAuth(V, m), NEW val, SessionFrom(e, m, val)
    PROVE  Acceptable(V, val.cert)
  BY DEF SessionFrom, ServerSafe, ServerAuth, ClientMsgAuth, TicketOk

\* The server refuses the hello.
LEMMA ServerRefusesSafe ==
    ASSUME NEW V, NEW e, ServerSafe(V, e), ~Failed(e), e.st \in ServerHelloStates,
           NEW f, NEW m, ServerRefuses(e, f)
    PROVE  ServerSafe(V, f) /\ ServerSteady(e, f, m)
<1>1. /\ f.n = e.n /\ f.side = e.side /\ f.cfg = e.cfg /\ f.st = e.st
      /\ f.maySend = e.maySend /\ f.queued = e.queued
  BY DEF ServerRefuses, ServerTurn, Same, SameBut, EndpointFields
<1>2. f.hs.retry = e.hs.retry BY DEF ServerRefuses, ServerTurn, SameBut, ServerHsFields
<1>3. Committed(f) BY DEF ServerRefuses, Committed
<1>4. ServerKeepsWord(e, f) BY <1>2, Uncommitted
<1>5. ServerSteady(e, f, m)
  BY <1>1, <1>4, Uncommitted DEF ServerSteady, ServerHelloStates
<1>6. ASSUME NEW w \in Recs(f) PROVE ServerRec(V, f, w)
  <2>1. \/ w \in Recs(e)
        \/ w.typ # "app" /\ w.m.t = "Alert"
        \/ f.ver = 13 /\ Opening13(f, w)
    BY DEF ServerRefuses
  <2>2. CASE w \in Recs(e) BY <1>4, <2>2, RecsLater
  <2>3. CASE w.typ # "app" /\ w.m.t = "Alert" BY <2>3, TellsNothing
  <2>4. CASE f.ver = 13 /\ Opening13(f, w)
    BY <1>3, <2>4 DEF Opening13, ServerRec, ServerMsgAuth, ServerTells
  <2>. QED BY <2>1, <2>2, <2>3, <2>4
<1>7. ServerAuth(V, f)
  <2>1. \A x \in Range(f.store.cache) : Acceptable(V, x.val.cert)
    BY Uncommitted DEF ServerRefuses
  <2>2. e.cfg \in V BY Uncommitted
  <2>. QED BY <1>1, <1>6, <2>1, <2>2
           DEF ServerAuth, ServerRec, ServerPresented, ServerVerified, ServerHelloStates
<1>8. ServerData(f)
  BY <1>1, <1>6, Uncommitted
  DEF ServerData, ServerRec, ServerHelloStates, Server13States, ServerLate12States
<1>9. ServerAgree(f)
  BY <1>1, <1>3, <1>6
  DEF ServerAgree, ServerRec, ServerHelloStates, Server13States, Server12States,
      ServerLate12States, ServerFull12States
<1>. QED BY <1>5, <1>7, <1>8, <1>9 DEF ServerSafe

\* The server asks for another group.
LEMMA ServerRetriesSafe ==
    ASSUME NEW V, NEW e, ServerSafe(V, e), ~Failed(e), e.st \in ServerHelloStates,
           NEW f, NEW m, ServerRetries(e, f)
    PROVE  ServerSafe(V, f) /\ ServerSteady(e, f, m)
<1>1. /\ f.n = e.n /\ f.side = e.side /\ f.cfg = e.cfg /\ f.store = e.store
      /\ f.maySend = e.maySend /\ f.queued = e.queued /\ f.err = e.err
  BY DEF ServerRetries, ServerTurn, Same, SameBut, EndpointFields
<1>2. f.hs.psk = e.hs.psk /\ f.hs.resuming = e.hs.resuming
  BY DEF ServerRetries, ServerTurn, SameBut, ServerHsFields
<1>3. f.hs.retry /\ f.st \in ServerHelloStates BY DEF ServerRetries
<1>4. ServerKeepsWord(e, f) BY <1>3, Uncommitted
<1>5. ServerSteady(e, f, m)
  BY <1>1, <1>3, <1>4, Uncommitted DEF ServerSteady, ServerHelloStates
<1>6. ASSUME NEW w \in Recs(f) PROVE ServerRec(V, f, w)
  <2>1. \/ w \in Recs(e)
        \/ w.typ # "app" /\ w.m.t \in {"HelloRetryRequest", "ChangeCipherSpec"}
    BY DEF ServerRetries, Adds
  <2>2. CASE w \in Recs(e) BY <1>4, <2>2, RecsLater
  <2>3. CASE w.typ # "app" /\ w.m.t \in {"HelloRetryRequest", "ChangeCipherSpec"}
    BY <1>3, <2>3 DEF ServerRec, ServerMsgAuth, ServerTells
  <2>. QED BY <2>1, <2>2, <2>3
<1>7. ServerAuth(V, f)
  BY <1>1, <1>3, <1>6, Uncommitted
  DEF ServerAuth, ServerRec, ServerPresented, ServerVerified, ServerHelloStates
<1>8. ServerData(f)
  BY <1>1, <1>3, <1>6, Uncommitted
  DEF ServerData, ServerRec, ServerHelloStates, Server13States, ServerLate12States
<1>9. ServerAgree(f)
  BY <1>2, <1>3, <1>6, Uncommitted
  DEF ServerAgree, ServerRec, ServerHelloStates, Server13States, Server12States,
      ServerLate12States, ServerFull12States
<1>. QED BY <1>5, <1>7, <1>8, <1>9 DEF ServerSafe

\* The server chooses TLS 1.3.
LEMMA ServerChose13Safe ==
    ASSUME NEW V, Deployment(V), NEW e, ServerSafe(V, e), ~Failed(e),
           e.st \in ServerHelloStates, NEW f, NEW m, m.ok, m.t = "ClientHello",
           ClientMsgAuth(V, m), ServerChose13(e, f, m)
    PROVE  ServerSafe(V, f) /\ ServerSteady(e, f, m)
<1>1. f.n = e.n /\ f.side = e.side /\ f.cfg = e.cfg /\ f.queued = e.queued /\ f.err = e.err
  BY DEF ServerChose13, ServerTurn, Same, SameBut, EndpointFields
<1>2. f.hs.retry = e.hs.retry /\ f.hs.resuming = e.hs.resuming
  BY DEF ServerChose13, ServerTurn, SameBut, ServerHsFields
<1>3. /\ f.st \in {"ExpectClientCertificate", "ExpectEarlyData", "ExpectClientFinished"}
      /\ f.ver = 13 /\ f.hs.fin = <<f.hs.fin[1]>> /\ f.hs.fin[1].psk = f.hs.psk
      /\ Keyed(f, {"traffic"}) /\ (m.early => ~e.hs.retry)
  BY DEF ServerChose13
<1>4. Committed(f) BY <1>3 DEF Committed, ServerHelloStates
<1>5. ServerKeepsWord(e, f) BY <1>2, Uncommitted
<1>6. ServerSteady(e, f, m) BY <1>1, <1>3, <1>5, Uncommitted DEF ServerSteady
<1>7. e.cfg \in V /\ Identity(V, e.cfg.cert) BY Uncommitted, Insists
<1>8. ASSUME NEW w \in Recs(f) PROVE ServerRec(V, f, w)
  <2>1. w \in Recs(e) \/ Flight13(f, f, m, w) BY DEF ServerChose13
  <2>2. CASE w \in Recs(e) BY <1>5, <2>2, RecsLater
  <2>3. CASE Opening13(f, w)
    BY <1>3, <1>4, <2>3 DEF Opening13, ServerRec, ServerMsgAuth, ServerTells
  <2>4. CASE Credentials(f, w)
    BY <1>1, <1>7, <2>4 DEF Credentials, ServerRec, ServerMsgAuth, ServerTells
  <2>5. CASE Finale13(w, f)
    BY <1>4, <2>5 DEF Finale13, ServerRec, ServerMsgAuth, ServerTells
  <2>6. CASE /\ w.typ # "app" /\ w.m.t = "EncryptedExtensions" /\ w.m.alpn = f.alpn
             /\ w.m.early => m.early
    BY <1>2, <1>3, <1>4, <2>6 DEF ServerRec, ServerMsgAuth, ServerTells
  <2>7. CASE /\ w.typ = "app" /\ w.m.t = "ApplicationData"
             /\ w.key # None /\ w.key[1].k = "traffic"
    BY <2>7 DEF ServerRec, ServerMsgAuth, ServerTells
  <2>. QED BY <2>1, <2>2, <2>3, <2>4, <2>5, <2>6, <2>7 DEF Flight13
<1>9. ServerAuth(V, f)
  <2>1. \A x \in Range(f.store.cache) : Acceptable(V, x.val.cert)
    BY Uncommitted DEF ServerChose13
  <2>2. f.st = "ExpectClientCertificate" \/ Acceptable(V, f.cert)
    <3>1. e.cfg.clientAuth = "none" => Acceptable(V, f.cert) BY <1>7, Insists
    <3>2. (\E val : SessionFrom(e, m, val) /\ f.cert = val.cert) => Acceptable(V, f.cert)
      BY SessionAcceptable
    <3>. QED BY <3>1, <3>2 DEF ServerChose13
  <2>. QED BY <1>1, <1>3, <1>7, <1>8, <2>1, <2>2
           DEF ServerAuth, ServerRec, ServerPresented, ServerVerified
<1>10. ServerData(f)
  BY <1>1, <1>3, <1>8, Uncommitted
  DEF ServerData, ServerRec, Keyed, Server13States, ServerLate12States
<1>11. ServerAgree(f)
  BY <1>2, <1>3, <1>4, <1>8, Uncommitted
  DEF ServerAgree, ServerRec, Server13States, Server12States, ServerLate12States,
      ServerFull12States
<1>. QED BY <1>6, <1>9, <1>10, <1>11 DEF ServerSafe

\* The server resumes a session of TLS 1.2.
LEMMA ServerResumes12Safe ==
    ASSUME NEW V, NEW e, ServerSafe(V, e), ~Failed(e),
           e.st \in ServerHelloStates, NEW f, NEW m, m.ok, m.t = "ClientHello",
           ClientMsgAuth(V, m), NEW val, SessionFrom(e, m, val), ServerResumes12(e, f, val)
    PROVE  ServerSafe(V, f) /\ ServerSteady(e, f, m)
<1>1. /\ f.n = e.n /\ f.side = e.side /\ f.cfg = e.cfg /\ f.queued = e.queued /\ f.err = e.err
      /\ f.maySend = e.maySend
  BY DEF ServerResumes12, Chosen12, ServerTurn, Same, SameBut, EndpointFields
<1>2. f.hs.retry = e.hs.retry /\ f.hs.psk = e.hs.psk
  BY DEF ServerResumes12, Chosen12, ServerTurn, SameBut, ServerHsFields
<1>3. /\ f.ver = 12 /\ f.st = "ExpectClientCcs" /\ f.hs.resuming = TRUE
      /\ f.hs.ms = <<f.hs.ms[1]>> /\ f.enc # None /\ f.enc[1].k = "tls12" /\ f.encOn = TRUE
  <2>1. f.enc = <<f.enc[1]>> BY DEF ServerResumes12
  <2>2. f.enc # None BY <2>1 DEF None
  <2>. QED BY <2>2 DEF ServerResumes12, Chosen12
<1>4. Committed(f) BY <1>3 DEF Committed, ServerHelloStates
<1>5. ServerKeepsWord(e, f) BY <1>2, Uncommitted
<1>6. ServerSteady(e, f, m) BY <1>1, <1>3, <1>5, Uncommitted DEF ServerSteady
<1>7. e.cfg \in V /\ Acceptable(V, f.cert)
  BY Uncommitted, SessionAcceptable DEF ServerResumes12
<1>8. ASSUME NEW w \in Recs(f) PROVE ServerRec(V, f, w)
  <2>1. \/ w \in Recs(e)
        \/ Opening12(f, w)
        \/ Ticketed12(f, w)
        \/ w.typ # "app" /\ w.m.t = "ChangeCipherSpec"
        \/ ServerFinale12(w, f)
    BY DEF ServerResumes12
  <2>2. CASE w \in Recs(e) BY <1>5, <2>2, RecsLater
  <2>3. CASE Opening12(f, w)
    BY <1>3, <1>4, <2>3 DEF Opening12, ServerRec, ServerMsgAuth, ServerTells
  <2>4. CASE Ticketed12(f, w)
    BY <1>7, <2>4 DEF Ticketed12, ServerRec, ServerMsgAuth, ServerTells, TicketOk
  <2>5. CASE w.typ # "app" /\ w.m.t = "ChangeCipherSpec" BY <2>5, TellsNothing
  <2>6. CASE ServerFinale12(w, f)
    <3>1. ServerMsgAuth(V, w.m) /\ w.typ # "app" BY <2>6 DEF ServerFinale12, ServerMsgAuth
    <3>2. /\ w.m.t = "Finished" /\ w.m.verify.k = "finished12" /\ f.hs.ms = <<w.m.verify.ms>>
          /\ f.tr = Append(w.m.verify.hash, "Finished")
      BY <1>3, <2>6 DEF ServerFinale12
    <3>3. ServerTells(f, w.m) BY <1>3, <1>4, <3>2 DEF ServerTells, ServerLate12States
    <3>. QED BY <3>1, <3>3 DEF ServerRec
  <2>. QED BY <2>1, <2>2, <2>3, <2>4, <2>5, <2>6
<1>9. ServerAuth(V, f)
  <2>1. \A x \in Range(f.store.cache) : Acceptable(V, x.val.cert)
    BY Uncommitted DEF ServerResumes12, Chosen12
  <2>. QED BY <1>1, <1>3, <1>7, <1>8, <2>1 DEF ServerAuth, ServerRec, ServerPresented
<1>10. ServerData(f)
  BY <1>1, <1>3, <1>8, Uncommitted DEF ServerData, ServerRec, Server13States
<1>11. ServerAgree(f)
  BY <1>2, <1>3, <1>4, <1>8, Uncommitted
  DEF ServerAgree, ServerRec, Server13States, Server12States, ServerLate12States,
      ServerFull12States
<1>. QED BY <1>6, <1>9, <1>10, <1>11 DEF ServerSafe

\* The server opens a full handshake of TLS 1.2.
LEMMA ServerOffers12Safe ==
    ASSUME NEW V, Deployment(V), NEW e, ServerSafe(V, e), ~Failed(e),
           e.st \in ServerHelloStates, NEW f, NEW m, ServerOffers12(e, f)
    PROVE  ServerSafe(V, f) /\ ServerSteady(e, f, m)
<1>1. /\ f.n = e.n /\ f.side = e.side /\ f.cfg = e.cfg /\ f.queued = e.queued /\ f.err = e.err
      /\ f.maySend = e.maySend
  BY DEF ServerOffers12, Chosen12, ServerTurn, Same, SameBut, EndpointFields
<1>2. f.hs.retry = e.hs.retry /\ f.hs.psk = e.hs.psk
  BY DEF ServerOffers12, Chosen12, ServerTurn, SameBut, ServerHsFields
<1>3. /\ f.ver = 12 /\ f.hs.resuming = e.hs.resuming
      /\ \/ f.st = "ExpectClientCertificate12"
         \/ f.st = "ExpectClientKx" /\ e.cfg.clientAuth = "none"
  BY DEF ServerOffers12, Chosen12
<1>4. Committed(f) BY <1>3 DEF Committed, ServerHelloStates
<1>5. ServerKeepsWord(e, f) BY <1>2, Uncommitted
<1>6. ServerSteady(e, f, m) BY <1>1, <1>3, <1>5, Uncommitted DEF ServerSteady
<1>7. e.cfg \in V /\ Identity(V, e.cfg.cert) BY Uncommitted, Insists
<1>8. ASSUME NEW w \in Recs(f) PROVE ServerRec(V, f, w)
  <2>1. w \in Recs(e) \/ Offer12(f, w) BY DEF ServerOffers12
  <2>2. CASE w \in Recs(e) BY <1>5, <2>2, RecsLater
  <2>3. CASE Opening12(f, w)
    BY <1>3, <1>4, <2>3 DEF Opening12, ServerRec, ServerMsgAuth, ServerTells
  <2>4. CASE /\ w.typ # "app"
             /\ \/ w.m.t \in {"CertificateStatus", "ServerKeyExchange", "CertificateRequest",
                              "ServerHelloDone"}
                \/ w.m.t = "Certificate" /\ w.m.cert = f.cfg.cert
    BY <1>1, <1>3, <1>4, <1>7, <2>4, Uncommitted DEF ServerRec, ServerMsgAuth, ServerTells
  <2>. QED BY <2>1, <2>2, <2>3, <2>4 DEF Offer12
<1>9. ServerAuth(V, f)
  <2>1. \A x \in Range(f.store.cache) : Acceptable(V, x.val.cert)
    BY Uncommitted DEF ServerOffers12, Chosen12
  <2>2. e.cfg.clientAuth = "none" => Acceptable(V, f.hs.cert) BY <1>7, Insists
  <2>. QED BY <1>1, <1>3, <1>7, <1>8, <2>1, <2>2
           DEF ServerAuth, ServerRec, ServerPresented, ServerVerified
<1>10. ServerData(f)
  BY <1>1, <1>3, <1>8, Uncommitted DEF ServerData, ServerRec, Server13States, ServerLate12States
<1>11. ServerAgree(f)
  BY <1>2, <1>3, <1>4, <1>8, Uncommitted
  DEF ServerAgree, ServerRec, Server13States, Server12States, ServerLate12States,
      ServerFull12States
<1>. QED BY <1>6, <1>9, <1>10, <1>11 DEF ServerSafe

\* Whatever a server makes of a message of a client.
LEMMA ServerHandleSafe ==
    ASSUME NEW V, Deployment(V), NEW e, ServerShaped(e), ServerSafe(V, e), ~Failed(e),
           NEW m, m.ok, ClientMsgAuth(V, m)
    PROVE  LET f == ServerHandle(e, m) IN
           ServerShaped(f) /\ ServerSafe(V, f) /\ ServerSteady(e, f, m)
<1>. DEFINE f == ServerHandle(e, m)
<1>1. e.cfg.sendTickets \in Nat BY DEF ServerSafe, ServerAuth, Deployment
<1>2. ServerActs(e, f, m) BY <1>1, ServerHandleStep
<1>. HIDE DEF f
<1>3. ServerShaped(f)
  BY <1>2 DEF ServerActs, ServerAnswers, ServerRefuses, ServerRetries, ServerChose13,
              ServerResumes12, ServerOffers12, Chosen12, ServerFails, ServerPresents,
              ServerBelieves, ServerReads, ServerRekeyed, ServerKeyed12, ServerFinishes13,
              ServerFinishes12, ServerTurn
<1>4. ASSUME m.t = "ClientHello" /\ e.st \in ServerHelloStates /\ ServerAnswers(e, f, m)
      PROVE  ServerSafe(V, f) /\ ServerSteady(e, f, m)
  <2>1. CASE ServerRefuses(e, f) BY <1>4, <2>1, ServerRefusesSafe
  <2>2. CASE ServerRetries(e, f) BY <1>4, <2>2, ServerRetriesSafe
  <2>3. CASE ServerChose13(e, f, m) BY <1>4, <2>3, ServerChose13Safe
  <2>4. CASE \E val : SessionFrom(e, m, val) /\ ServerResumes12(e, f, val)
    BY <1>4, <2>4, ServerResumes12Safe
  <2>5. CASE ServerOffers12(e, f) BY <1>4, <2>5, ServerOffers12Safe
  <2>. QED BY <1>4, <2>1, <2>2, <2>3, <2>4, <2>5 DEF ServerAnswers
<1>5. ASSUME \/ ServerFails(e, f)
             \/ ServerPresents(e, f, m)
             \/ ServerBelieves(e, f)
             \/ ServerReads(e, f)
             \/ ServerRekeyed(e, f)
             \/ e.st = "ExpectClientKx" /\ ServerKeyed12(e, f)
      PROVE  ServerSafe(V, f) /\ ServerSteady(e, f, m)
  BY <1>5, ServerFailsSafe, ServerPresentsSafe, ServerBelievesSafe, ServerReadsSafe,
     ServerRekeyedSafe, ServerKeyed12Safe
<1>6. ASSUME \/ /\ m.t = "Finished" /\ e.st = "ExpectClientFinished"
                /\ ServerFinishes13(e, f, m)
             \/ /\ m.t = "Finished" /\ e.st = "ExpectClientFinished12"
                /\ ServerFinishes12(e, f, m)
      PROVE  ServerSafe(V, f) /\ ServerSteady(e, f, m)
  BY <1>6, ServerFinishes13Safe, ServerFinishes12Safe
<1>7. ServerSafe(V, f) /\ ServerSteady(e, f, m) BY <1>2, <1>4, <1>5, <1>6 DEF ServerActs
<1>. QED BY <1>3, <1>7 DEF f
-------------------------------------------------------------------------------
(***************************************************************************)
(* What a client keeps to.                                                 *)
(***************************************************************************)
ClientSafe(V, E, e) == ClientAuth(V, e) /\ ClientData(E, e) /\ ClientAgree(e)

\* A Finished of a client.
ClientTells(e, v) ==
    \/ /\ v.k = "finished" /\ e.st = "ExpectTraffic"
       /\ e.tr = Append(v.hash, "Finished")
    \/ /\ v.k = "finished12" /\ e.st \in ClientLate12States
       /\ e.hs.resuming # None =>
              e.st = "ExpectTraffic12" /\ e.tr = Append(v.hash, "Finished")

\* A record of a client may be under way.
ClientRec(V, E, e, w) ==
    /\ ClientMsgAuth(V, w.m)
    /\ w.typ = "app" => AppOk(E, e, w)
    /\ w.m.ok /\ w.m.t = "Finished" => ClientTells(e, w.m.verify)

\* What e has told stays true of f.
ClientKeepsWord(e, f) ==
    /\ e.st = "ExpectTraffic" => f.st = e.st /\ f.tr = e.tr
    /\ e.st = "ExpectTraffic12" => f.st = e.st /\ f.tr = e.tr
    /\ e.st \in ClientLate12States =>
           f.st \in ClientLate12States /\ f.hs.resuming = e.hs.resuming

\* A step of the client that was given m.
ClientSteady(e, f, m) ==
    /\ f.n = e.n /\ f.side = e.side /\ f.cfg = e.cfg
    /\ ClientKeepsWord(e, f)
    /\ f.hs.suite = e.hs.suite \/ m.t = "HelloRetryRequest"
    /\ f.hs.resuming \in {None, e.hs.resuming}
    /\ f.st \notin ClientHelloStates =>
           \/ e.st \notin ClientHelloStates /\ f.ver = e.ver /\ f.suite = e.suite
           \/ m.t = "ServerHello" /\ f.ver = m.ver /\ f.suite = m.suite
    /\ f.st \notin ClientHelloStates \cup {"ExpectEncryptedExtensions"} =>
           \/ e.st \notin ClientHelloStates \cup {"ExpectEncryptedExtensions"} /\ f.alpn = e.alpn
           \/ m.t = "EncryptedExtensions" /\ f.alpn = m.alpn
           \/ m.t = "ServerHello" /\ m.ver = 12 /\ f.alpn = m.alpn
    /\ f.st = "ExpectTraffic" =>
           \/ e.st = "ExpectTraffic" /\ f.hs.sec = e.hs.sec
           \/ /\ e.st = "ExpectFinished" /\ m.t = "Finished"
              /\ m.verify = FinishOf("server", e.hs.sec[1], e.tr)
              /\ f.hs.sec = <<[e.hs.sec[1] EXCEPT !.hash = Append(e.tr, "Finished")]>>
    /\ f.st \in ClientLate12States =>
           \/ e.st \in ClientLate12States /\ f.hs.ms = e.hs.ms
           \/ f.st # "ExpectTraffic12" /\ (m.t = "ServerHelloDone" \/ f.hs.resuming # None)
    /\ f.st = "ExpectTraffic12" =>
           \/ e.st = "ExpectTraffic12"
           \/ /\ e.st = "ExpectFinished12" /\ m.t = "Finished"
              /\ m.verify = Finish12("server", e.hs.ms[1], e.n, e.tr)
              /\ e.hs.resuming = None => f.tr = Append(e.tr, "Finished")

\* So the records under way may stay.
LEMMA ClientRecsLater ==
    ASSUME NEW V, NEW E, NEW e, NEW f, ClientSafe(V, E, e), ClientKeepsWord(e, f),
           f.written = e.written
    PROVE  \A w \in Recs(e) : ClientRec(V, E, f, w)
<1>1. ASSUME NEW w \in Recs(e) PROVE ClientRec(V, E, f, w)
  <2>1. ClientMsgAuth(V, w.m) BY DEF ClientSafe, ClientAuth
  <2>2. w.typ = "app" => AppOk(E, f, w) BY DEF ClientSafe, ClientData, AppOk
  <2>3. ASSUME w.m.ok, w.m.t = "Finished" PROVE ClientTells(f, w.m.verify)
    <3>1. ClientTells(e, w.m.verify) BY <2>3 DEF ClientSafe, ClientAgree, ClientTells
    <3>. QED BY <3>1 DEF ClientTells, ClientKeepsWord
  <2>. QED BY <2>1, <2>2, <2>3 DEF ClientRec
<1>. QED BY <1>1

\* A record of a message that says nothing.
LEMMA ClientTellsNothing ==
    ASSUME NEW V, NEW E, NEW f, NEW w, w.typ # "app", w.m.t \notin {"ClientHello", "Finished"}
    PROVE  ClientRec(V, E, f, w)
  BY DEF ClientRec, ClientMsgAuth

\* A record of a hello.
LEMMA ClientHelloRec ==
    ASSUME NEW V, NEW E, NEW e, ClientSafe(V, E, e), NEW f, NEW w, w.typ # "app",
           w.m.t = "ClientHello", HelloFrom(e, w.m)
    PROVE  ClientRec(V, E, f, w)
<1>1. e.hs.resuming # None => SessionOk(V, e, e.hs.resuming[1]) BY DEF ClientSafe, ClientAuth
<1>2. ClientMsgAuth(V, w.m) BY <1>1 DEF ClientMsgAuth, HelloFrom, SessionOk
<1>. QED BY <1>2 DEF ClientRec

\* A unit that leaves the buffer.
LEMMA FlushedRec ==
    ASSUME NEW V, NEW E, NEW e, ClientSafe(V, E, e), NEW f, f.written = e.written,
           NEW w, NEW K, K \in {{"traffic"}, {"tls12"}}, Flushed(e, w, K)
    PROVE  ClientRec(V, E, f, w)
<1>1. PICK x \in Range(e.plain) : w.m = AppData(e.side, x) BY DEF Flushed
<1>2. x \in (1..e.written) \ E BY <1>1 DEF ClientSafe, ClientData
<1>3. w.m.t = "ApplicationData" /\ w.m.i = x /\ "i" \in DOMAIN w.m BY <1>1 DEF AppData
<1>4. w.key # None /\ w.key[1].k \in {"traffic", "tls12"} BY DEF Flushed
<1>. QED BY <1>2, <1>3, <1>4 DEF ClientRec, ClientMsgAuth, AppOk

\* The client fails.
LEMMA ClientFailsSafe ==
    ASSUME NEW V, NEW E, NEW e, ClientSafe(V, E, e), NEW f, NEW m, ClientFails(e, f, m)
    PROVE  ClientSafe(V, E, f) /\ ClientSteady(e, f, m)
<1>1. /\ f.n = e.n /\ f.side = e.side /\ f.cfg = e.cfg /\ f.store = e.store /\ f.st = e.st
      /\ f.enc = e.enc /\ f.encOn = e.encOn /\ f.maySend = e.maySend /\ f.queued = e.queued
      /\ f.plain = e.plain /\ f.written = e.written /\ f.received = e.received
      /\ f.earlyTraffic = e.earlyTraffic
  BY DEF ClientFails, ClientTurn, Same, SameBut, EndpointFields
<1>2. /\ f.hs.resuming = e.hs.resuming /\ f.hs.ticket = e.hs.ticket /\ f.hs.cert = e.hs.cert
      /\ f.hs.sec = e.hs.sec /\ f.hs.ms = e.hs.ms
  BY DEF ClientFails, ClientTurn, SameBut, ClientHsFields
<1>3. /\ e.st \in ClientVerified => f.cert = e.cert
      /\ Traffic(e) => f.tr = e.tr
      /\ e.st \notin ClientHelloStates => f.ver = e.ver /\ f.suite = e.suite
      /\ e.st \notin ClientHelloStates \cup {"ExpectEncryptedExtensions"} => f.alpn = e.alpn
      /\ f.hs.suite = e.hs.suite \/ (f.hs.suite # None /\ m.t = "HelloRetryRequest")
      /\ f.hs.ed = e.hs.ed \/ (f.hs.ed = "Rejected" /\ f.hs.suite # None)
  BY DEF ClientFails
<1>4. ClientKeepsWord(e, f) BY <1>1, <1>2, <1>3 DEF ClientKeepsWord, Traffic
<1>5. ClientSteady(e, f, m) BY <1>1, <1>2, <1>3, <1>4 DEF ClientSteady
<1>6. ASSUME NEW w \in Recs(f) PROVE ClientRec(V, E, f, w)
  <2>1. w \in Recs(e) \/ (w.typ # "app" /\ w.m.t \in {"Alert", "Certificate", "ClientKeyExchange"})
    BY DEF ClientFails, Adds
  <2>. QED BY <1>1, <1>4, <2>1, ClientRecsLater, ClientTellsNothing
<1>7. ClientAuth(V, f)
  BY <1>1, <1>2, <1>3, <1>6 DEF ClientSafe, ClientAuth, ClientRec, SessionOk, Traffic
<1>8. ClientData(E, f)
  <2>1. /\ EarlyEnabled(f) => EarlyEnabled(e)
        /\ f.hs.suite = None => e.hs.suite = None /\ (EarlyEnabled(e) => EarlyEnabled(f))
    BY <1>3 DEF EarlyEnabled
  <2>2. Traffic(f) <=> Traffic(e) BY <1>1 DEF Traffic
  <2>3. \A K : Keyed(f, K) <=> Keyed(e, K) BY <1>1 DEF Keyed
  <2>. QED BY <1>1, <1>2, <1>6, <2>1, <2>2, <2>3 DEF ClientSafe, ClientData, ClientRec
<1>9. ClientAgree(f)
  BY <1>1, <1>2, <1>3, <1>6
  DEF ClientSafe, ClientAgree, ClientRec, ClientTells, Client13States, ClientFull12States,
      ClientLate12States, ClientHelloStates
<1>. QED BY <1>5, <1>7, <1>8, <1>9 DEF ClientSafe

\* The client is asked for another group.
LEMMA ClientRetriesSafe ==
    ASSUME NEW V, NEW E, NEW e, ClientSafe(V, E, e), e.st \in ClientHelloStates,
           NEW f, NEW m, m.t = "HelloRetryRequest", ClientRetries(e, f)
    PROVE  ClientSafe(V, E, f) /\ ClientSteady(e, f, m)
<1>1. /\ f.n = e.n /\ f.side = e.side /\ f.cfg = e.cfg /\ f.store = e.store
      /\ f.maySend = e.maySend /\ f.queued = e.queued
      /\ f.plain = e.plain /\ f.written = e.written /\ f.received = e.received
  BY DEF ClientRetries, ClientTurn, Same, SameBut, EndpointFields
<1>2. /\ f.hs.resuming = e.hs.resuming /\ f.hs.ticket = e.hs.ticket /\ f.hs.cert = e.hs.cert
  BY DEF ClientRetries, ClientTurn, SameBut, ClientHsFields
<1>3. f.st = "ExpectServerHello" /\ f.hs.suite # None /\ ~EarlyEnabled(f) BY DEF ClientRetries
<1>4. ~Traffic(e) /\ ~Traffic(f) BY <1>3 DEF Traffic, ClientHelloStates
<1>5. ClientKeepsWord(e, f) BY DEF ClientKeepsWord, ClientHelloStates, ClientLate12States
<1>6. ClientSteady(e, f, m)
  BY <1>1, <1>2, <1>3, <1>5 DEF ClientSteady, ClientHelloStates, ClientLate12States
<1>7. ASSUME NEW w \in Recs(f) PROVE ClientRec(V, E, f, w)
  <2>1. \/ w \in Recs(e)
        \/ w.typ # "app" /\ w.m.t = "ChangeCipherSpec"
        \/ w.typ # "app" /\ w.m.t = "ClientHello" /\ HelloFrom(e, w.m)
    BY DEF ClientRetries, Greets
  <2>. QED BY <1>1, <1>5, <2>1, ClientRecsLater, ClientTellsNothing, ClientHelloRec
<1>8. ClientAuth(V, f)
  BY <1>1, <1>2, <1>3, <1>4, <1>7
  DEF ClientSafe, ClientAuth, ClientRec, SessionOk, ClientVerified, ClientLate12States
<1>9. ClientData(E, f)
  BY <1>1, <1>3, <1>4, <1>7 DEF ClientSafe, ClientData, ClientRec, ClientLate12States,
                                ClientFull12States
<1>10. ClientAgree(f)
  BY <1>3, <1>7 DEF ClientAgree, ClientRec, ClientTells, Client13States, ClientFull12States,
                    ClientLate12States
<1>. QED BY <1>6, <1>8, <1>9, <1>10 DEF ClientSafe

\* The server chose TLS 1.3.
LEMMA ClientChose13Safe ==
    ASSUME NEW V, NEW E, NEW e, ClientSafe(V, E, e), e.st \in ClientHelloStates,
           NEW f, NEW m, m.t = "ServerHello", m.ver = 13, ClientChose13(e, f), f.ver = 13,
           f.suite = m.suite
    PROVE  ClientSafe(V, E, f) /\ ClientSteady(e, f, m)
<1>1. /\ f.n = e.n /\ f.side = e.side /\ f.cfg = e.cfg
      /\ f.maySend = e.maySend /\ f.queued = e.queued
      /\ f.plain = e.plain /\ f.written = e.written /\ f.received = e.received
  BY DEF ClientChose13, ClientTurn, Same, SameBut, EndpointFields
<1>2. f.hs.ticket = e.hs.ticket /\ f.hs.cert = e.hs.cert /\ f.hs.suite = e.hs.suite
  BY DEF ClientChose13, ClientTurn, SameBut, ClientHsFields
<1>3. /\ f.st = "ExpectEncryptedExtensions"
      /\ f.store.tls12 = e.store.tls12 /\ f.store.tls13 = e.store.tls13
      /\ f.hs.sec = <<f.hs.sec[1]>> /\ IsRecord(f.hs.sec[1], SecretFields)
      /\ f.hs.sec[1].psk # None <=> f.hs.resuming # None
      /\ f.hs.resuming \in {None, e.hs.resuming}
  BY DEF ClientChose13
<1>4. ~Traffic(e) /\ ~Traffic(f) BY <1>3 DEF Traffic, ClientHelloStates
<1>5. ClientKeepsWord(e, f) BY DEF ClientKeepsWord, ClientHelloStates, ClientLate12States
<1>6. ClientSteady(e, f, m)
  BY <1>1, <1>2, <1>3, <1>5 DEF ClientSteady, ClientHelloStates, ClientLate12States
<1>7. ASSUME NEW w \in Recs(f) PROVE ClientRec(V, E, f, w)
  <2>1. w \in Recs(e) \/ (w.typ # "app" /\ w.m.t = "ChangeCipherSpec")
    BY DEF ClientChose13, Adds
  <2>. QED BY <1>1, <1>5, <2>1, ClientRecsLater, ClientTellsNothing
<1>8. ClientAuth(V, f)
  BY <1>1, <1>2, <1>3, <1>4, <1>7
  DEF ClientSafe, ClientAuth, ClientRec, SessionOk, ClientVerified, ClientLate12States
<1>9. ClientData(E, f)
  <2>1. \/ f.hs.ed = e.hs.ed /\ f.earlyTraffic = e.earlyTraffic
        \/ f.hs.ed = "Rejected" /\ f.earlyTraffic = FALSE
    BY DEF ClientChose13
  <2>2. EarlyEnabled(f) => f.enc = e.enc /\ f.encOn = e.encOn BY DEF ClientChose13
  <2>3. EarlyEnabled(f) => EarlyEnabled(e) /\ Keyed(f, {"early"}) /\ f.earlyTraffic = TRUE
    BY <2>1, <2>2 DEF EarlyEnabled, ClientSafe, ClientData, Keyed
  <2>4. f.hs.suite = None /\ f.earlyTraffic => EarlyEnabled(f)
    BY <1>2, <2>1 DEF EarlyEnabled, ClientSafe, ClientData
  <2>. QED BY <1>1, <1>3, <1>4, <1>7, <2>3, <2>4
           DEF ClientSafe, ClientData, ClientRec, ClientLate12States, ClientFull12States
<1>10. ClientAgree(f)
  BY <1>3, <1>7 DEF ClientAgree, ClientRec, ClientTells, Client13States, ClientFull12States,
                    ClientLate12States
<1>. QED BY <1>6, <1>8, <1>9, <1>10 DEF ClientSafe

\* The server chose TLS 1.2.
LEMMA ClientChose12Safe ==
    ASSUME NEW V, NEW E, NEW e, ClientSafe(V, E, e), e.st \in ClientHelloStates,
           NEW f, NEW m, m.t = "ServerHello", m.ver = 12, ClientChose12(e, f), f.ver = 12,
           f.suite = m.suite, f.alpn = m.alpn, ~(EarlyEnabled(e) /\ e.earlyTraffic)
    PROVE  ClientSafe(V, E, f) /\ ClientSteady(e, f, m)
<1>1. /\ f.n = e.n /\ f.side = e.side /\ f.cfg = e.cfg /\ f.store = e.store
      /\ f.maySend = e.maySend /\ f.queued = e.queued
      /\ f.plain = e.plain /\ f.written = e.written /\ f.received = e.received
      /\ f.earlyTraffic = e.earlyTraffic
  BY DEF ClientChose12, ClientTurn, Same, SameBut, EndpointFields
<1>2. /\ f.hs.ticket = e.hs.ticket /\ f.hs.cert = e.hs.cert /\ f.hs.suite = e.hs.suite
      /\ f.hs.ed = e.hs.ed
  BY DEF ClientChose12, ClientTurn, SameBut, ClientHsFields
<1>3. \/ f.st = "ExpectCertificate12" /\ f.hs.resuming = None
      \/ /\ f.st \in {"ExpectNewTicket", "ExpectCcs"}
         /\ e.hs.resuming # None /\ f.hs.resuming = e.hs.resuming
         /\ e.hs.resuming[1].v = 12
         /\ f.cert = e.hs.resuming[1].cert /\ f.hs.ms = <<f.hs.ms[1]>>
         /\ f.enc # None /\ f.enc[1].k = "tls12"
  BY DEF ClientChose12
<1>4. ~Traffic(e) /\ ~Traffic(f) BY <1>3 DEF Traffic, ClientHelloStates
<1>5. ClientKeepsWord(e, f) BY DEF ClientKeepsWord, ClientHelloStates, ClientLate12States
<1>6. ClientSteady(e, f, m)
  BY <1>1, <1>2, <1>3, <1>5 DEF ClientSteady, ClientHelloStates, ClientLate12States
<1>7. ASSUME NEW w \in Recs(f) PROVE ClientRec(V, E, f, w)
  <2>1. w \in Recs(e) BY DEF ClientChose12, Recs
  <2>. QED BY <1>1, <1>5, <2>1, ClientRecsLater
<1>8. ClientAuth(V, f)
  <2>1. e.hs.resuming # None => SessionOk(V, e, e.hs.resuming[1]) BY DEF ClientSafe, ClientAuth
  <2>2. f.st \in ClientVerified => f.cert \in f.cfg.trusts /\ Identity(V, f.cert)
    BY <1>1, <1>3, <2>1 DEF SessionOk, ClientVerified, ClientLate12States
  <2>3. f.hs.resuming # None => SessionOk(V, f, f.hs.resuming[1])
    BY <1>1, <1>3, <2>1 DEF SessionOk
  <2>. QED BY <1>1, <1>2, <1>3, <1>4, <1>7, <2>2, <2>3
           DEF ClientSafe, ClientAuth, ClientRec, SessionOk, ClientLate12States
<1>9. ClientData(E, f)
  <2>1. ~EarlyEnabled(e) BY DEF ClientSafe, ClientData
  <2>2. ~EarlyEnabled(f) BY <1>2, <2>1 DEF EarlyEnabled
  <2>. QED BY <1>1, <1>2, <1>3, <1>4, <1>7, <2>1, <2>2
           DEF ClientSafe, ClientData, ClientRec, ClientLate12States, ClientFull12States
<1>10. ClientAgree(f)
  BY <1>3, <1>7 DEF ClientAgree, ClientRec, ClientTells, Client13States, ClientFull12States,
                    ClientLate12States
<1>. QED BY <1>6, <1>8, <1>9, <1>10 DEF ClientSafe

\* The client notes a message.
LEMMA ClientGoesOnSafe ==
    ASSUME NEW V, NEW E, NEW e, ClientSafe(V, E, e), NEW f, NEW m, m.ok, ServerMsgAuth(V, m),
           ClientGoesOn(e, f, m)
    PROVE  ClientSafe(V, E, f) /\ ClientSteady(e, f, m)
<1>1. /\ f.n = e.n /\ f.side = e.side /\ f.cfg = e.cfg /\ f.store = e.store
      /\ f.enc = e.enc /\ f.encOn = e.encOn /\ f.maySend = e.maySend /\ f.queued = e.queued
      /\ f.plain = e.plain /\ f.written = e.written /\ f.received = e.received
      /\ f.earlyTraffic = e.earlyTraffic /\ f.ver = e.ver /\ f.suite = e.suite
      /\ f.alpn = e.alpn /\ f.cert = e.cert
  BY DEF ClientGoesOn, ClientTurn, Same, SameBut, EndpointFields
<1>2. /\ f.hs.resuming = e.hs.resuming /\ f.hs.suite = e.hs.suite /\ f.hs.ed = e.hs.ed
      /\ f.hs.sec = e.hs.sec /\ f.hs.ms = e.hs.ms
  BY DEF ClientGoesOn, ClientTurn, SameBut, ClientHsFields
<1>3. \/ /\ e.st \in Client13States \ {"ExpectTraffic", "ExpectEncryptedExtensions"}
         /\ f.st \in {"ExpectCertificate", "ExpectCertificateVerify"}
      \/ e.st \in ClientFull12States /\ f.st \in ClientFull12States
      \/ e.st = "ExpectNewTicket" /\ f.st = "ExpectCcs"
  BY DEF ClientGoesOn
<1>4. ~Traffic(e) /\ ~Traffic(f)
  BY <1>3 DEF Traffic, Client13States, ClientFull12States
<1>5. ClientKeepsWord(e, f)
  BY <1>2, <1>3 DEF ClientKeepsWord, ClientFull12States, ClientLate12States, Client13States
<1>6. ClientSteady(e, f, m)
  BY <1>1, <1>2, <1>3, <1>5
  DEF ClientSteady, ClientHelloStates, ClientLate12States, ClientFull12States, Client13States
<1>7. ASSUME NEW w \in Recs(f) PROVE ClientRec(V, E, f, w)
  <2>1. w \in Recs(e) BY DEF ClientGoesOn, Recs
  <2>. QED BY <1>1, <1>5, <2>1, ClientRecsLater
<1>8. ClientAuth(V, f)
  <2>1. f.hs.cert # "none" => Identity(V, f.hs.cert)
    BY DEF ClientGoesOn, ServerMsgAuth, ClientSafe, ClientAuth
  <2>2. f.hs.ticket # None => TicketOk(V, f.hs.ticket[1])
    BY DEF ClientGoesOn, ServerMsgAuth, ClientSafe, ClientAuth
  <2>3. f.st \in ClientVerified => e.st \in ClientVerified /\ e.st \in ClientLate12States
    BY <1>3 DEF ClientVerified, ClientLate12States, ClientFull12States
  <2>4. f.st \in ClientLate12States => e.st \in ClientLate12States
    BY <1>3 DEF ClientLate12States, ClientFull12States
  <2>. QED BY <1>1, <1>2, <1>4, <1>7, <2>1, <2>2, <2>3, <2>4
           DEF ClientSafe, ClientAuth, ClientRec, SessionOk
<1>9. ClientData(E, f)
  <2>1. f.st \in ClientFull12States => e.st \in ClientFull12States
    BY <1>3 DEF ClientFull12States
  <2>2. f.st \in ClientLate12States => e.st = "ExpectNewTicket"
    BY <1>3 DEF ClientLate12States, ClientFull12States
  <2>3. EarlyEnabled(f) <=> EarlyEnabled(e) BY <1>2 DEF EarlyEnabled
  <2>4. \A K : Keyed(f, K) <=> Keyed(e, K) BY <1>1 DEF Keyed
  <2>. QED BY <1>1, <1>2, <1>4, <1>7, <2>1, <2>2, <2>3, <2>4
           DEF ClientSafe, ClientData, ClientRec, ClientLate12States
<1>10. ClientAgree(f)
  BY <1>1, <1>2, <1>3, <1>7
  DEF ClientSafe, ClientAgree, ClientRec, ClientTells, Client13States, ClientFull12States,
      ClientLate12States
<1>. QED BY <1>6, <1>8, <1>9, <1>10 DEF ClientSafe

\* The client has the server's extensions.
LEMMA ClientExtendsSafe ==
    ASSUME NEW V, NEW E, NEW e, ClientSafe(V, E, e), e.st = "ExpectEncryptedExtensions",
           NEW f, NEW m, m.t = "EncryptedExtensions", e.hs.suite # None => ~m.early,
           ClientExtends(e, f, m)
    PROVE  ClientSafe(V, E, f) /\ ClientSteady(e, f, m)
<1>1. /\ f.n = e.n /\ f.side = e.side /\ f.cfg = e.cfg /\ f.store = e.store
      /\ f.maySend = e.maySend /\ f.queued = e.queued
      /\ f.plain = e.plain /\ f.written = e.written /\ f.received = e.received
      /\ f.ver = e.ver /\ f.suite = e.suite
  BY DEF ClientExtends, ClientTurn, Same, SameBut, EndpointFields
<1>2. /\ f.hs.resuming = e.hs.resuming /\ f.hs.suite = e.hs.suite /\ f.hs.cert = e.hs.cert
      /\ f.hs.sec = e.hs.sec /\ f.hs.ticket = e.hs.ticket
  BY DEF ClientExtends, ClientTurn, SameBut, ClientHsFields
<1>3. /\ f.alpn = m.alpn
      /\ \/ f.st = "ExpectCertificateOrCertReq" /\ e.hs.resuming = None
         \/ /\ f.st = "ExpectFinished" /\ e.hs.resuming # None
            /\ f.cert = e.hs.resuming[1].cert
  BY DEF ClientExtends
<1>4. ~Traffic(e) /\ ~Traffic(f) BY <1>3 DEF Traffic
<1>5. ClientKeepsWord(e, f) BY DEF ClientKeepsWord, ClientLate12States
<1>6. ClientSteady(e, f, m)
  BY <1>1, <1>2, <1>3, <1>5 DEF ClientSteady, ClientHelloStates, ClientLate12States
<1>7. ASSUME NEW w \in Recs(f) PROVE ClientRec(V, E, f, w)
  <2>1. w \in Recs(e) BY DEF ClientExtends, Recs
  <2>. QED BY <1>1, <1>5, <2>1, ClientRecsLater
<1>8. ClientAuth(V, f)
  <2>1. e.hs.resuming # None => SessionOk(V, e, e.hs.resuming[1]) BY DEF ClientSafe, ClientAuth
  <2>2. f.st \in ClientVerified => f.cert \in f.cfg.trusts /\ Identity(V, f.cert)
    BY <1>1, <1>3, <2>1 DEF SessionOk, ClientVerified, ClientLate12States
  <2>. QED BY <1>1, <1>2, <1>3, <1>4, <1>7, <2>2
           DEF ClientSafe, ClientAuth, ClientRec, SessionOk, ClientLate12States
<1>9. ClientData(E, f)
  <2>1. \/ /\ e.earlyTraffic /\ m.early
           /\ f.earlyTraffic = e.earlyTraffic /\ f.enc = e.enc /\ f.encOn = e.encOn
        \/ f.hs.ed = "Rejected" /\ f.earlyTraffic = FALSE
        \/ /\ f.hs = e.hs /\ f.enc = e.enc /\ f.encOn = e.encOn
           /\ f.earlyTraffic = e.earlyTraffic
    BY DEF ClientExtends
  <2>2. e.earlyTraffic /\ m.early => EarlyEnabled(e) BY DEF ClientSafe, ClientData
  <2>3. EarlyEnabled(e) => Keyed(e, {"early"}) /\ e.earlyTraffic = TRUE
    BY DEF ClientSafe, ClientData
  <2>4. EarlyEnabled(f) => Keyed(f, {"early"}) /\ f.earlyTraffic = TRUE
    BY <2>1, <2>2, <2>3 DEF EarlyEnabled, Keyed
  <2>5. f.hs.suite = None /\ f.earlyTraffic => EarlyEnabled(f)
    <3>1. CASE f.hs = e.hs /\ f.earlyTraffic = e.earlyTraffic
      BY <3>1 DEF EarlyEnabled, ClientSafe, ClientData
    <3>2. CASE f.hs.ed = "Accepted" BY <3>2 DEF EarlyEnabled
    <3>3. CASE f.earlyTraffic = FALSE BY <3>3
    <3>. QED BY <3>1, <3>2, <3>3 DEF ClientExtends
  <2>. QED BY <1>1, <1>2, <1>3, <1>4, <1>7, <2>4, <2>5
           DEF ClientSafe, ClientData, ClientRec, ClientLate12States, ClientFull12States
<1>10. ClientAgree(f)
  BY <1>1, <1>2, <1>3, <1>7
  DEF ClientSafe, ClientAgree, ClientRec, ClientTells, Client13States, ClientFull12States,
      ClientLate12States
<1>. QED BY <1>6, <1>8, <1>9, <1>10 DEF ClientSafe

\* The client has verified the server of TLS 1.3.
LEMMA ClientVerifiesSafe ==
    ASSUME NEW V, NEW E, NEW e, ClientSafe(V, E, e), e.st = "ExpectCertificateVerify",
           NEW f, NEW m, ClientVerifies(e, f)
    PROVE  ClientSafe(V, E, f) /\ ClientSteady(e, f, m)
<1>1. /\ f.n = e.n /\ f.side = e.side /\ f.cfg = e.cfg /\ f.store = e.store /\ f.hs = e.hs
      /\ f.enc = e.enc /\ f.encOn = e.encOn /\ f.maySend = e.maySend /\ f.queued = e.queued
      /\ f.plain = e.plain /\ f.written = e.written /\ f.received = e.received
      /\ f.earlyTraffic = e.earlyTraffic /\ f.ver = e.ver /\ f.suite = e.suite
      /\ f.alpn = e.alpn
  BY DEF ClientVerifies, ClientTurn, Same, SameBut, EndpointFields
<1>2. f.st = "ExpectFinished" /\ f.cert = e.hs.cert /\ f.cert # "none" /\ f.cert \in e.cfg.trusts
  BY DEF ClientVerifies
<1>3. ~Traffic(e) /\ ~Traffic(f) BY <1>2 DEF Traffic
<1>4. ClientKeepsWord(e, f) BY DEF ClientKeepsWord, ClientLate12States
<1>5. ClientSteady(e, f, m)
  BY <1>1, <1>2, <1>4 DEF ClientSteady, ClientHelloStates, ClientLate12States
<1>6. ASSUME NEW w \in Recs(f) PROVE ClientRec(V, E, f, w)
  <2>1. w \in Recs(e) BY DEF ClientVerifies, Recs
  <2>. QED BY <1>1, <1>4, <2>1, ClientRecsLater
<1>7. ClientAuth(V, f)
  BY <1>1, <1>2, <1>3, <1>6
  DEF ClientSafe, ClientAuth, ClientRec, SessionOk, ClientLate12States
<1>8. ClientData(E, f)
  BY <1>1, <1>2, <1>3, <1>6
  DEF ClientSafe, ClientData, ClientRec, Keyed, EarlyEnabled, ClientLate12States,
      ClientFull12States
<1>9. ClientAgree(f)
  BY <1>1, <1>2, <1>6
  DEF ClientSafe, ClientAgree, ClientRec, ClientTells, Client13States, ClientFull12States,
      ClientLate12States
<1>. QED BY <1>5, <1>7, <1>8, <1>9 DEF ClientSafe

\* The client finishes a handshake of TLS 1.3.
LEMMA ClientFinishes13Safe ==
    ASSUME NEW V, NEW E, NEW e, ClientSafe(V, E, e), e.st = "ExpectFinished",
           NEW f, NEW m, m.t = "Finished", ClientFinishes13(e, f, m)
    PROVE  ClientSafe(V, E, f) /\ ClientSteady(e, f, m)
<1>1. /\ f.n = e.n /\ f.side = e.side /\ f.cfg = e.cfg /\ f.queued = e.queued
      /\ f.written = e.written /\ f.received = e.received
      /\ f.ver = e.ver /\ f.suite = e.suite /\ f.alpn = e.alpn /\ f.cert = e.cert
  BY DEF ClientFinishes13, ClientTurn, Same, SameBut, EndpointFields
<1>2. /\ f.hs.resuming = e.hs.resuming /\ f.hs.suite = e.hs.suite /\ f.hs.cert = e.hs.cert
      /\ f.hs.ticket = e.hs.ticket
  BY DEF ClientFinishes13, ClientTurn, SameBut, ClientHsFields
<1>3. /\ f.st = "ExpectTraffic" /\ f.maySend = TRUE /\ f.plain = << >> /\ Keyed(f, {"traffic"})
      /\ f.store.tls12 = None /\ f.store.tls13 = e.store.tls13
      /\ f.hs.sec = <<[e.hs.sec[1] EXCEPT !.hash = Append(e.tr, "Finished")]>>
      /\ m.verify = FinishOf("server", e.hs.sec[1], e.tr)
  BY DEF ClientFinishes13
<1>4. Traffic(f) /\ ~Traffic(e) BY <1>3 DEF Traffic
<1>5. ClientKeepsWord(e, f) BY DEF ClientKeepsWord, ClientLate12States
<1>6. ClientSteady(e, f, m)
  BY <1>1, <1>2, <1>3, <1>5 DEF ClientSteady, ClientHelloStates, ClientLate12States
<1>7. ASSUME NEW w \in Recs(f) PROVE ClientRec(V, E, f, w)
  <2>1. \/ w \in Recs(e)
        \/ w.typ # "app" /\ w.m.t \in {"EndOfEarlyData", "Certificate", "CertificateVerify"}
        \/ /\ w.typ # "app" /\ w.m.t = "Finished" /\ w.m.verify.k = "finished"
           /\ f.tr = Append(w.m.verify.hash, "Finished")
        \/ Flushed(e, w, {"traffic"})
    BY DEF ClientFinishes13
  <2>2. CASE w \in Recs(e) BY <1>1, <1>5, <2>2, ClientRecsLater
  <2>3. CASE w.typ # "app" /\ w.m.t \in {"EndOfEarlyData", "Certificate", "CertificateVerify"}
    BY <2>3, ClientTellsNothing
  <2>4. CASE /\ w.typ # "app" /\ w.m.t = "Finished" /\ w.m.verify.k = "finished"
             /\ f.tr = Append(w.m.verify.hash, "Finished")
    BY <1>3, <2>4 DEF ClientRec, ClientMsgAuth, ClientTells
  <2>5. CASE Flushed(e, w, {"traffic"}) BY <1>1, <2>5, FlushedRec
  <2>. QED BY <2>1, <2>2, <2>3, <2>4, <2>5
<1>8. ClientAuth(V, f)
  BY <1>1, <1>2, <1>3, <1>4, <1>7
  DEF ClientSafe, ClientAuth, ClientRec, SessionOk, ClientLate12States, ClientVerified
<1>9. ClientData(E, f)
  <2>1. ~EarlyEnabled(f) /\ (f.hs.suite = None => ~f.earlyTraffic)
    <3>1. CASE f.hs.ed = "AcceptedFinished" /\ f.earlyTraffic = FALSE BY <3>1 DEF EarlyEnabled
    <3>2. CASE ~e.earlyTraffic /\ f.hs.ed = e.hs.ed /\ f.earlyTraffic = e.earlyTraffic
      <4>1. ~EarlyEnabled(e) BY <3>2 DEF ClientSafe, ClientData
      <4>. QED BY <3>2, <4>1 DEF EarlyEnabled
    <3>. QED BY <3>1, <3>2 DEF ClientFinishes13
  <2>2. Range(f.plain) = {} BY <1>3, EmptyElements
  <2>3. Keyed(f, {"traffic", "tls12"}) BY <1>3 DEF Keyed
  <2>. QED BY <1>1, <1>3, <1>4, <1>7, <2>1, <2>2, <2>3
           DEF ClientSafe, ClientData, ClientRec, ClientLate12States, ClientFull12States
<1>10. ClientAgree(f)
  <2>1. e.ver = 13 /\ IsRecord(e.hs.sec[1], SecretFields)
        /\ (e.hs.sec[1].psk # None <=> e.hs.resuming # None)
    BY DEF ClientSafe, ClientAgree, Client13States
  <2>2. /\ f.hs.sec = <<f.hs.sec[1]>> /\ IsRecord(f.hs.sec[1], SecretFields)
        /\ f.hs.sec[1].psk = e.hs.sec[1].psk
    <3>. DEFINE x == e.hs.sec[1]
                h == Append(e.tr, "Finished")
                y == [x EXCEPT !.hash = h]
    <3>1. f.hs.sec = <<y>> /\ IsRecord(x, SecretFields) BY <1>3, <2>1
    <3>. HIDE DEF x, h
    <3>2. IsRecord(y, SecretFields) /\ y.psk = x.psk BY <3>1 DEF IsRecord, SecretFields
    <3>. HIDE DEF y
    <3>3. f.hs.sec[1] = y BY <3>1
    <3>. QED BY <3>1, <3>2, <3>3 DEF x
  <2>. QED BY <1>1, <1>2, <1>3, <1>7, <2>1, <2>2
           DEF ClientAgree, ClientRec, ClientTells, Client13States, ClientFull12States,
               ClientLate12States
<1>. QED BY <1>6, <1>8, <1>9, <1>10 DEF ClientSafe

\* The client reads.
LEMMA ClientTakesSafe ==
    ASSUME NEW V, NEW E, NEW e, ClientSafe(V, E, e), NEW f, NEW m, ClientTakes(e, f)
    PROVE  ClientSafe(V, E, f) /\ ClientSteady(e, f, m)
<1>1. /\ f.n = e.n /\ f.side = e.side /\ f.cfg = e.cfg /\ f.store = e.store /\ f.hs = e.hs
      /\ f.enc = e.enc /\ f.encOn = e.encOn /\ f.maySend = e.maySend /\ f.queued = e.queued
      /\ f.plain = e.plain /\ f.written = e.written /\ f.st = e.st /\ f.tr = e.tr
      /\ f.earlyTraffic = e.earlyTraffic /\ f.ver = e.ver /\ f.suite = e.suite
      /\ f.alpn = e.alpn /\ f.cert = e.cert
  BY DEF ClientTakes, ClientTurn, Same, SameBut, EndpointFields
<1>2. f.out = e.out /\ Traffic(e) /\ Traffic(f) BY <1>1 DEF ClientTakes, Traffic
<1>3. ClientKeepsWord(e, f) BY <1>1 DEF ClientKeepsWord
<1>4. ClientSteady(e, f, m) BY <1>1, <1>3 DEF ClientSteady
<1>5. \A w \in Recs(f) : ClientRec(V, E, f, w) BY <1>1, <1>2, <1>3, ClientRecsLater DEF Recs
<1>6. ClientAuth(V, f) BY <1>1, <1>2, <1>5 DEF ClientSafe, ClientAuth, ClientRec, SessionOk
<1>7. ClientData(E, f)
  BY <1>1, <1>2, <1>5 DEF ClientSafe, ClientData, ClientRec, Keyed, EarlyEnabled
<1>8. ClientAgree(f) BY <1>1, <1>5 DEF ClientSafe, ClientAgree, ClientRec, ClientTells
<1>. QED BY <1>4, <1>6, <1>7, <1>8 DEF ClientSafe

\* The client stores a ticket.
LEMMA ClientStoresSafe ==
    ASSUME NEW V, NEW E, NEW e, ClientSafe(V, E, e), NEW f, NEW m, m.ok, ServerMsgAuth(V, m),
           ClientStores(e, f, m)
    PROVE  ClientSafe(V, E, f) /\ ClientSteady(e, f, m)
<1>1. /\ f.n = e.n /\ f.side = e.side /\ f.cfg = e.cfg /\ f.hs = e.hs
      /\ f.enc = e.enc /\ f.encOn = e.encOn /\ f.maySend = e.maySend /\ f.queued = e.queued
      /\ f.plain = e.plain /\ f.written = e.written /\ f.st = e.st /\ f.tr = e.tr
      /\ f.earlyTraffic = e.earlyTraffic /\ f.ver = e.ver /\ f.suite = e.suite
      /\ f.alpn = e.alpn /\ f.cert = e.cert /\ f.received = e.received
  BY DEF ClientStores, ClientTurn, Same, SameBut, EndpointFields
<1>2. /\ f.out = e.out /\ m.t = "NewSessionTicket" /\ e.st = "ExpectTraffic"
      /\ f.store.tls12 = e.store.tls12
  BY DEF ClientStores
<1>3. Traffic(e) <=> Traffic(f) BY <1>1 DEF Traffic
<1>4. ClientKeepsWord(e, f) BY <1>1 DEF ClientKeepsWord
<1>5. ClientSteady(e, f, m) BY <1>1, <1>4 DEF ClientSteady
<1>6. \A w \in Recs(f) : ClientRec(V, E, f, w) BY <1>1, <1>2, <1>4, ClientRecsLater DEF Recs
<1>7. ClientAuth(V, f)
  <2>1. ASSUME NEW x \in Range(f.store.tls13) PROVE SessionOk(V, f, x)
    <3>1. e.cert \in e.cfg.trusts /\ Identity(V, e.cert)
      BY <1>2 DEF ClientSafe, ClientAuth, ClientVerified
    <3>2. TicketOk(V, m.ticket) BY <1>2 DEF ServerMsgAuth
    <3>3. \/ x \in Range(e.store.tls13)
          \/ x.v = 13 /\ x.ticket = m.ticket /\ x.cert = e.cert
      BY DEF ClientStores
    <3>4. x \in Range(e.store.tls13) => SessionOk(V, e, x) BY DEF ClientSafe, ClientAuth
    <3>. QED BY <1>1, <3>1, <3>2, <3>3, <3>4 DEF SessionOk
  <2>. QED BY <1>1, <1>2, <1>3, <1>6, <2>1 DEF ClientSafe, ClientAuth, ClientRec, SessionOk
<1>8. ClientData(E, f)
  BY <1>1, <1>3, <1>6 DEF ClientSafe, ClientData, ClientRec, Keyed, EarlyEnabled
<1>9. ClientAgree(f) BY <1>1, <1>6 DEF ClientSafe, ClientAgree, ClientRec, ClientTells
<1>. QED BY <1>5, <1>7, <1>8, <1>9 DEF ClientSafe

\* The client changes its keys.
LEMMA ClientRekeyedSafe ==
    ASSUME NEW V, NEW E, NEW e, ClientSafe(V, E, e), NEW f, NEW m, ClientRekeyed(e, f)
    PROVE  ClientSafe(V, E, f) /\ ClientSteady(e, f, m)
<1>1. /\ f.n = e.n /\ f.side = e.side /\ f.cfg = e.cfg /\ f.store = e.store /\ f.hs = e.hs
      /\ f.maySend = e.maySend /\ f.received = e.received
      /\ f.plain = e.plain /\ f.written = e.written /\ f.st = e.st /\ f.tr = e.tr
      /\ f.earlyTraffic = e.earlyTraffic /\ f.ver = e.ver /\ f.suite = e.suite
      /\ f.alpn = e.alpn /\ f.cert = e.cert
  BY DEF ClientRekeyed, ClientTurn, Same, SameBut, EndpointFields
<1>2. /\ f.out = e.out /\ e.st = "ExpectTraffic"
      /\ \/ f.queued = e.queued /\ f.enc = e.enc /\ f.encOn = e.encOn
         \/ /\ Keyed(f, {"traffic"})
            /\ \A w \in Range(f.queued) : w.typ = "handshake" /\ w.m.t = "KeyUpdate"
  BY DEF ClientRekeyed
<1>3. Traffic(e) /\ Traffic(f) BY <1>1, <1>2 DEF Traffic
<1>4. ClientKeepsWord(e, f) BY <1>1 DEF ClientKeepsWord
<1>5. ClientSteady(e, f, m) BY <1>1, <1>4 DEF ClientSteady
<1>6. \A w \in Recs(f) : ClientRec(V, E, f, w) BY <1>1, <1>2, <1>4, ClientRecsLater DEF Recs
<1>7. ClientAuth(V, f)
  BY <1>1, <1>3, <1>6 DEF ClientSafe, ClientAuth, ClientRec, SessionOk
<1>8. ClientData(E, f)
  <2>1. e.maySend /\ Keyed(e, {"traffic", "tls12"}) BY <1>3 DEF ClientSafe, ClientData
  <2>2. ~EarlyEnabled(e) BY <2>1 DEF ClientSafe, ClientData, Keyed
  <2>3. ~EarlyEnabled(f) BY <1>1, <2>2 DEF EarlyEnabled
  <2>4. Keyed(f, {"traffic", "tls12"}) BY <1>2, <2>1 DEF Keyed
  <2>5. \A w \in Range(f.queued) : w.typ # "app" /\ w.m.t = "KeyUpdate"
    BY <1>2 DEF ClientSafe, ClientData
  <2>6. f.st \notin ClientLate12States BY <1>1, <1>2 DEF ClientLate12States
  <2>. QED BY <1>1, <1>3, <1>6, <2>2, <2>3, <2>4, <2>5, <2>6 DEF ClientSafe, ClientData, ClientRec
<1>9. ClientAgree(f) BY <1>1, <1>6 DEF ClientSafe, ClientAgree, ClientRec, ClientTells
<1>. QED BY <1>5, <1>7, <1>8, <1>9 DEF ClientSafe

\* The client answers the server of a full TLS 1.2 handshake.
LEMMA ClientAnswers12Safe ==
    ASSUME NEW V, NEW E, NEW e, ClientSafe(V, E, e), e.st \in ClientFull12States,
           NEW f, NEW m, m.t = "ServerHelloDone", ClientAnswers12(e, f)
    PROVE  ClientSafe(V, E, f) /\ ClientSteady(e, f, m)
<1>1. /\ f.n = e.n /\ f.side = e.side /\ f.cfg = e.cfg /\ f.store = e.store
      /\ f.maySend = e.maySend /\ f.queued = e.queued
      /\ f.plain = e.plain /\ f.written = e.written /\ f.received = e.received
      /\ f.earlyTraffic = e.earlyTraffic /\ f.ver = e.ver /\ f.suite = e.suite
      /\ f.alpn = e.alpn
  BY DEF ClientAnswers12, ClientTurn, Same, SameBut, EndpointFields
<1>2. /\ f.hs.resuming = e.hs.resuming /\ f.hs.suite = e.hs.suite /\ f.hs.cert = e.hs.cert
      /\ f.hs.ticket = e.hs.ticket /\ f.hs.ed = e.hs.ed
  BY DEF ClientAnswers12, ClientTurn, SameBut, ClientHsFields
<1>3. /\ f.st \in {"ExpectNewTicket", "ExpectCcs"} /\ f.cert = e.hs.cert
      /\ e.hs.cert # "none" /\ e.hs.cert \in e.cfg.trusts
      /\ f.hs.ms = <<f.hs.ms[1]>>
      /\ f.enc # None /\ f.enc[1].k = "tls12" /\ f.encOn = TRUE
  BY DEF ClientAnswers12
<1>4. ~Traffic(e) /\ ~Traffic(f) BY <1>3 DEF Traffic, ClientFull12States
<1>5. e.ver # 13 /\ e.hs.resuming = None /\ ~EarlyEnabled(e)
  BY DEF ClientSafe, ClientAgree, ClientData
<1>6. ClientKeepsWord(e, f) BY DEF ClientKeepsWord, ClientLate12States, ClientFull12States
<1>7. ClientSteady(e, f, m)
  BY <1>1, <1>2, <1>3, <1>6 DEF ClientSteady, ClientHelloStates, ClientFull12States
<1>8. ASSUME NEW w \in Recs(f) PROVE ClientRec(V, E, f, w)
  <2>1. \/ w \in Recs(e)
        \/ w.typ # "app" /\ w.m.t \in {"Certificate", "ClientKeyExchange", "CertificateVerify",
                                       "ChangeCipherSpec"}
        \/ w.typ # "app" /\ w.m.t = "Finished" /\ w.m.verify.k = "finished12"
    BY DEF ClientAnswers12
  <2>2. CASE w \in Recs(e) BY <1>1, <1>6, <2>2, ClientRecsLater
  <2>3. CASE w.typ # "app" /\ w.m.t \in {"Certificate", "ClientKeyExchange",
                                         "CertificateVerify", "ChangeCipherSpec"}
    BY <2>3, ClientTellsNothing
  <2>4. CASE w.typ # "app" /\ w.m.t = "Finished" /\ w.m.verify.k = "finished12"
    BY <1>2, <1>3, <1>5, <2>4 DEF ClientRec, ClientMsgAuth, ClientTells, ClientLate12States
  <2>. QED BY <2>1, <2>2, <2>3, <2>4
<1>9. ClientAuth(V, f)
  <2>1. Identity(V, f.cert) BY <1>3 DEF ClientSafe, ClientAuth
  <2>. QED BY <1>1, <1>2, <1>3, <1>4, <1>5, <1>8, <2>1
           DEF ClientSafe, ClientAuth, ClientRec, SessionOk
<1>10. ClientData(E, f)
  <2>1. ~EarlyEnabled(f) BY <1>2, <1>5 DEF EarlyEnabled
  <2>. QED BY <1>1, <1>2, <1>3, <1>4, <1>5, <1>8, <2>1
           DEF ClientSafe, ClientData, ClientRec, ClientLate12States
<1>11. ClientAgree(f)
  BY <1>1, <1>3, <1>5, <1>8
  DEF ClientAgree, ClientRec, ClientTells, Client13States, ClientFull12States
<1>. QED BY <1>7, <1>9, <1>10, <1>11 DEF ClientSafe

\* The server's change of cipher.
LEMMA ClientCcsSafe ==
    ASSUME NEW V, NEW E, NEW e, ClientSafe(V, E, e), e.st = "ExpectCcs",
           NEW f, NEW m, f.st = "ExpectFinished12", f.out = e.out,
           ClientTurn(e, f, {"dec", "decOn", "trial", "st"}, {})
    PROVE  ClientSafe(V, E, f) /\ ClientSteady(e, f, m)
<1>1. /\ f.n = e.n /\ f.side = e.side /\ f.cfg = e.cfg /\ f.store = e.store /\ f.hs = e.hs
      /\ f.enc = e.enc /\ f.encOn = e.encOn /\ f.maySend = e.maySend /\ f.queued = e.queued
      /\ f.plain = e.plain /\ f.written = e.written /\ f.received = e.received
      /\ f.earlyTraffic = e.earlyTraffic /\ f.ver = e.ver /\ f.suite = e.suite
      /\ f.alpn = e.alpn /\ f.cert = e.cert
  BY DEF ClientTurn, Same, SameBut, EndpointFields
<1>2. ~Traffic(e) /\ ~Traffic(f) BY DEF Traffic
<1>3. ClientKeepsWord(e, f) BY <1>1 DEF ClientKeepsWord, ClientLate12States
<1>4. ClientSteady(e, f, m)
  BY <1>1, <1>3 DEF ClientSteady, ClientHelloStates, ClientLate12States
<1>5. \A w \in Recs(f) : ClientRec(V, E, f, w) BY <1>1, <1>3, ClientRecsLater DEF Recs
<1>6. ClientAuth(V, f)
  BY <1>1, <1>2, <1>5
  DEF ClientSafe, ClientAuth, ClientRec, SessionOk, ClientLate12States, ClientVerified
<1>7. ClientData(E, f)
  BY <1>1, <1>2, <1>5
  DEF ClientSafe, ClientData, ClientRec, Keyed, EarlyEnabled, ClientLate12States,
      ClientFull12States
<1>8. ClientAgree(f)
  BY <1>1, <1>5
  DEF ClientSafe, ClientAgree, ClientRec, ClientTells, Client13States, ClientFull12States,
      ClientLate12States
<1>. QED BY <1>4, <1>6, <1>7, <1>8 DEF ClientSafe

\* The client finishes a handshake of TLS 1.2.
LEMMA ClientFinishes12Safe ==
    ASSUME NEW V, NEW E, NEW e, ClientSafe(V, E, e), e.st = "ExpectFinished12",
           NEW f, NEW m, m.t = "Finished", ClientFinishes12(e, f, m)
    PROVE  ClientSafe(V, E, f) /\ ClientSteady(e, f, m)
<1>1. /\ f.n = e.n /\ f.side = e.side /\ f.cfg = e.cfg /\ f.hs = e.hs /\ f.queued = e.queued
      /\ f.written = e.written /\ f.received = e.received /\ f.earlyTraffic = e.earlyTraffic
      /\ f.ver = e.ver /\ f.suite = e.suite /\ f.alpn = e.alpn /\ f.cert = e.cert
  BY DEF ClientFinishes12, ClientTurn, Same, SameBut, EndpointFields
<1>2. /\ f.st = "ExpectTraffic12" /\ f.maySend = TRUE /\ f.plain = << >> /\ Keyed(f, {"tls12"})
      /\ f.store.tls13 = e.store.tls13
      /\ m.verify = Finish12("server", e.hs.ms[1], e.n, e.tr)
      /\ e.hs.resuming = None => f.tr = Append(e.tr, "Finished")
  BY DEF ClientFinishes12
<1>3. Traffic(f) /\ ~Traffic(e) BY <1>2 DEF Traffic
<1>4. ClientKeepsWord(e, f) BY <1>1, <1>2 DEF ClientKeepsWord, ClientLate12States
<1>5. ClientSteady(e, f, m)
  BY <1>1, <1>2, <1>4 DEF ClientSteady, ClientHelloStates, ClientLate12States
<1>6. ASSUME NEW w \in Recs(f) PROVE ClientRec(V, E, f, w)
  <2>1. \/ w \in Recs(e)
        \/ w.typ # "app" /\ w.m.t = "ChangeCipherSpec"
        \/ Finale12(w, f)
        \/ Flushed(e, w, {"tls12"})
    BY DEF ClientFinishes12
  <2>2. CASE w \in Recs(e) BY <1>1, <1>4, <2>2, ClientRecsLater
  <2>3. CASE w.typ # "app" /\ w.m.t = "ChangeCipherSpec" BY <2>3, ClientTellsNothing
  <2>4. CASE Finale12(w, f)
    BY <1>2, <2>4 DEF Finale12, ClientRec, ClientMsgAuth, ClientTells, ClientLate12States
  <2>5. CASE Flushed(e, w, {"tls12"}) BY <1>1, <2>5, FlushedRec
  <2>. QED BY <2>1, <2>2, <2>3, <2>4, <2>5
<1>7. ClientAuth(V, f)
  <2>1. e.cert \in e.cfg.trusts /\ Identity(V, e.cert)
    BY DEF ClientSafe, ClientAuth, ClientVerified, ClientLate12States
  <2>2. e.hs.resuming # None => SessionOk(V, e, e.hs.resuming[1]) /\ e.hs.resuming[1].v = 12
    BY DEF ClientSafe, ClientAuth, ClientLate12States
  <2>3. e.hs.ticket # None => TicketOk(V, e.hs.ticket[1]) BY DEF ClientSafe, ClientAuth
  <2>4. f.store.tls12 # None => SessionOk(V, f, f.store.tls12[1])
    <3>. DEFINE x == f.store.tls12[1]
    <3>1. \/ f.store.tls12 = e.store.tls12
          \/ /\ x.v = 12 /\ x.cert = e.cert
             /\ \/ x.ticket = None
                \/ x.ticket = e.hs.ticket
                \/ e.hs.resuming # None /\ x.ticket = e.hs.resuming[1].ticket
      BY DEF ClientFinishes12
    <3>2. e.store.tls12 # None => SessionOk(V, e, e.store.tls12[1]) BY DEF ClientSafe, ClientAuth
    <3>. QED BY <1>1, <2>1, <2>2, <2>3, <3>1, <3>2 DEF SessionOk
  <2>. QED BY <1>1, <1>2, <1>3, <1>6, <2>1, <2>2, <2>4
           DEF ClientSafe, ClientAuth, ClientRec, SessionOk
<1>8. ClientData(E, f)
  <2>1. e.enc # None /\ e.enc[1].k = "tls12" BY DEF ClientSafe, ClientData, ClientLate12States
  <2>2. ~EarlyEnabled(e) BY <2>1 DEF ClientSafe, ClientData, Keyed
  <2>3. ~EarlyEnabled(f) BY <1>1, <2>2 DEF EarlyEnabled
  <2>4. Range(f.plain) = {} BY <1>2, EmptyElements
  <2>5. Keyed(f, {"traffic", "tls12"}) BY <1>2 DEF Keyed
  <2>. QED BY <1>1, <1>2, <1>3, <1>6, <2>2, <2>3, <2>4, <2>5 DEF ClientSafe, ClientData, ClientRec
<1>9. ClientAgree(f)
  BY <1>1, <1>2, <1>6
  DEF ClientSafe, ClientAgree, ClientRec, ClientTells, Client13States, ClientFull12States,
      ClientLate12States
<1>. QED BY <1>5, <1>7, <1>8, <1>9 DEF ClientSafe

\* Whatever a client makes of a message of a server.
LEMMA ClientHandleSafe ==
    ASSUME NEW V, NEW E, NEW e, ClientShaped(e), ClientSafe(V, E, e), ~Failed(e),
           NEW m, m.ok, ServerMsgAuth(V, m), m.t = "ServerHello" => m.ver \in {12, 13},
           m.t = "EncryptedExtensions" /\ e.hs.suite # None => ~m.early
    PROVE  LET f == ClientHandle(e, m) IN
           ClientShaped(f) /\ ClientSafe(V, E, f) /\ ClientSteady(e, f, m)
<1>. DEFINE f == ClientHandle(e, m)
<1>1. e.st = "ExpectFinished12" => /\ e.enc # None /\ e.enc[1].k = "tls12"
                                   /\ e.hs.resuming = None => e.encOn = TRUE
  BY DEF ClientSafe, ClientData, ClientLate12States
<1>2. ClientActs(e, f, m) BY <1>1, ClientHandleStep
<1>. HIDE DEF f
<1>3. ClientShaped(f)
  BY <1>2 DEF ClientActs, ClientFails, ClientRetries, ClientChose13, ClientChose12,
              ClientExtends, ClientGoesOn, ClientVerifies, ClientFinishes13, ClientTakes,
              ClientStores, ClientRekeyed, ClientAnswers12, ClientFinishes12, ClientTurn
<1>4. ASSUME \/ ClientFails(e, f, m)
             \/ m.t = "HelloRetryRequest" /\ e.st \in ClientHelloStates /\ ClientRetries(e, f)
             \/ /\ m.t = "EncryptedExtensions" /\ e.st = "ExpectEncryptedExtensions"
                /\ ClientExtends(e, f, m)
             \/ ClientGoesOn(e, f, m)
             \/ e.st = "ExpectCertificateVerify" /\ ClientVerifies(e, f)
      PROVE  ClientSafe(V, E, f) /\ ClientSteady(e, f, m)
  BY <1>4, ClientFailsSafe, ClientRetriesSafe, ClientExtendsSafe, ClientGoesOnSafe,
     ClientVerifiesSafe
<1>5. ASSUME /\ m.t = "ServerHello" /\ e.st \in ClientHelloStates
             /\ \/ m.ver = 13 /\ ClientChose13(e, f) /\ f.ver = 13 /\ f.suite = m.suite
                \/ /\ m.ver = 12 /\ ClientChose12(e, f) /\ f.ver = 12 /\ f.suite = m.suite
                   /\ f.alpn = m.alpn /\ ~(EarlyEnabled(e) /\ e.earlyTraffic)
      PROVE  ClientSafe(V, E, f) /\ ClientSteady(e, f, m)
  BY <1>5, ClientChose13Safe, ClientChose12Safe
<1>6. ASSUME \/ m.t = "Finished" /\ e.st = "ExpectFinished" /\ ClientFinishes13(e, f, m)
             \/ ClientTakes(e, f)
             \/ ClientStores(e, f, m)
             \/ ClientRekeyed(e, f)
      PROVE  ClientSafe(V, E, f) /\ ClientSteady(e, f, m)
  BY <1>6, ClientFinishes13Safe, ClientTakesSafe, ClientStoresSafe, ClientRekeyedSafe
<1>7. ASSUME \/ /\ m.t = "ServerHelloDone" /\ e.st \in ClientFull12States
                /\ ClientAnswers12(e, f)
             \/ /\ e.st = "ExpectCcs" /\ f.st = "ExpectFinished12" /\ f.out = e.out
                /\ ClientTurn(e, f, {"dec", "decOn", "trial", "st"}, {})
             \/ m.t = "Finished" /\ e.st = "ExpectFinished12" /\ ClientFinishes12(e, f, m)
      PROVE  ClientSafe(V, E, f) /\ ClientSteady(e, f, m)
  BY <1>7, ClientAnswers12Safe, ClientCcsSafe, ClientFinishes12Safe
<1>8. ClientSafe(V, E, f) /\ ClientSteady(e, f, m)
  BY <1>2, <1>4, <1>5, <1>6, <1>7 DEF ClientActs
<1>. QED BY <1>3, <1>8 DEF f
-------------------------------------------------------------------------------
(***************************************************************************)
(* Steps that leave the handshake alone.                                   *)
(***************************************************************************)
Idle == {"hasDecrypted", "trial", "ccs", "closeNotify", "eof", "out", "sentFatal", "err"}

\* A record that says nothing new.
Chatter(e, w) ==
    \/ w \in Recs(e)
    \/ w.typ # "app" /\ w.m.t \in {"Alert", "HelloRequest"}
    \/ \E v \in Recs(e) : w = GarbledRecord(v)
Idles(e, f) ==
    /\ Shaped(f) /\ Same(e, f, Idle) /\ (Failed(e) => Failed(f))
    /\ \A w \in Recs(f) : Chatter(e, w)

\* A garbled record is of the same type, unit and key.
LEMMA GarbledKeeps ==
    ASSUME NEW v, NEW w, w = GarbledRecord(v)
    PROVE  /\ w.typ = v.typ /\ w.key = v.key /\ w.m.ok = FALSE
           /\ "i" \in DOMAIN v.m => "i" \in DOMAIN w.m /\ w.m.i = v.m.i
<1>1. w.typ = v.typ /\ w.key = v.key /\ w.m = Unparsable(v.m) BY DEF GarbledRecord
<1>2. ASSUME NEW m
      PROVE  /\ Unparsable(m).ok = FALSE
             /\ "i" \in DOMAIN m => "i" \in DOMAIN Unparsable(m) /\ Unparsable(m).i = m.i
  BY DEF Unparsable
<1>. QED BY <1>1, <1>2

\* The server idles.
LEMMA ServerIdles ==
    ASSUME NEW V, NEW e, ServerShaped(e), ServerSafe(V, e), NEW f, Idles(e, f)
    PROVE  ServerShaped(f) /\ ServerSafe(V, f) /\ \A m : ServerSteady(e, f, m)
<1>1. /\ f.n = e.n /\ f.side = e.side /\ f.cfg = e.cfg /\ f.store = e.store /\ f.hs = e.hs
      /\ f.st = e.st /\ f.ver = e.ver /\ f.suite = e.suite /\ f.alpn = e.alpn
      /\ f.cert = e.cert /\ f.enc = e.enc /\ f.encOn = e.encOn /\ f.maySend = e.maySend
      /\ f.queued = e.queued /\ f.tr = e.tr
  BY DEF Idles, Idle, Same, SameBut, EndpointFields
<1>2. ServerShaped(f) BY <1>1 DEF ServerShaped, Idles
<1>3. Committed(e) => Committed(f) BY <1>1 DEF Committed, Idles
<1>4. ServerKeepsWord(e, f) BY <1>1, <1>3 DEF ServerKeepsWord
<1>5. \A m : ServerSteady(e, f, m) BY <1>1, <1>4 DEF ServerSteady
<1>6. ASSUME NEW w \in Recs(f) PROVE ServerRec(V, f, w)
  <2>1. CASE w \in Recs(e) BY <1>4, <2>1, RecsLater
  <2>2. CASE w.typ # "app" /\ w.m.t \in {"Alert", "HelloRequest"} BY <2>2, TellsNothing
  <2>3. ASSUME NEW v \in Recs(e), w = GarbledRecord(v) PROVE ServerRec(V, f, w)
    <3>1. w.typ = v.typ /\ w.key = v.key /\ w.m.ok = FALSE
      BY <2>3, GarbledKeeps
    <3>2. ServerRec(V, f, v) BY <1>4, RecsLater
    <3>. QED BY <3>1, <3>2 DEF ServerRec, ServerMsgAuth
  <2>. QED BY <2>1, <2>2, <2>3 DEF Idles, Chatter
<1>7. ServerAuth(V, f) BY <1>1, <1>6 DEF ServerSafe, ServerAuth, ServerRec
<1>8. ServerData(f) BY <1>1, <1>6 DEF ServerSafe, ServerData, ServerRec, Keyed
<1>9. ServerAgree(f) BY <1>1, <1>3, <1>6 DEF ServerSafe, ServerAgree, ServerRec
<1>. QED BY <1>2, <1>5, <1>7, <1>8, <1>9 DEF ServerSafe

\* The client idles.
LEMMA ClientIdles ==
    ASSUME NEW V, NEW E, NEW e, ClientShaped(e), ClientSafe(V, E, e), NEW f, Idles(e, f)
    PROVE  ClientShaped(f) /\ ClientSafe(V, E, f) /\ \A m : ClientSteady(e, f, m)
<1>1. /\ f.n = e.n /\ f.side = e.side /\ f.cfg = e.cfg /\ f.store = e.store /\ f.hs = e.hs
      /\ f.st = e.st /\ f.ver = e.ver /\ f.suite = e.suite /\ f.alpn = e.alpn
      /\ f.cert = e.cert /\ f.enc = e.enc /\ f.encOn = e.encOn /\ f.maySend = e.maySend
      /\ f.queued = e.queued /\ f.tr = e.tr /\ f.plain = e.plain /\ f.written = e.written
      /\ f.received = e.received /\ f.earlyTraffic = e.earlyTraffic
  BY DEF Idles, Idle, Same, SameBut, EndpointFields
<1>2. ClientShaped(f) BY <1>1 DEF ClientShaped, Idles
<1>3. ClientKeepsWord(e, f) BY <1>1 DEF ClientKeepsWord
<1>4. \A m : ClientSteady(e, f, m)
  BY <1>1, <1>3 DEF ClientSteady, ClientLate12States
<1>5. ASSUME NEW w \in Recs(f) PROVE ClientRec(V, E, f, w)
  <2>1. CASE w \in Recs(e) BY <1>1, <1>3, <2>1, ClientRecsLater
  <2>2. CASE w.typ # "app" /\ w.m.t \in {"Alert", "HelloRequest"} BY <2>2, ClientTellsNothing
  <2>3. ASSUME NEW v \in Recs(e), w = GarbledRecord(v) PROVE ClientRec(V, E, f, w)
    <3>1. /\ w.typ = v.typ /\ w.key = v.key /\ w.m.ok = FALSE
          /\ "i" \in DOMAIN v.m => "i" \in DOMAIN w.m /\ w.m.i = v.m.i
      BY <2>3, GarbledKeeps
    <3>2. ClientRec(V, E, f, v) BY <1>1, <1>3, ClientRecsLater
    <3>3. w.typ = "app" => AppOk(E, f, w)
      <4>1. v.typ = "app" => AppOk(E, f, v) BY <3>2 DEF ClientRec
      <4>. QED BY <3>1, <4>1 DEF AppOk
    <3>. QED BY <3>1, <3>3 DEF ClientRec, ClientMsgAuth
  <2>. QED BY <2>1, <2>2, <2>3 DEF Idles, Chatter
<1>6. ClientAuth(V, f)
  BY <1>1, <1>5 DEF ClientSafe, ClientAuth, ClientRec, SessionOk, Traffic
<1>7. ClientData(E, f)
  BY <1>1, <1>5 DEF ClientSafe, ClientData, ClientRec, Keyed, Traffic, EarlyEnabled
<1>8. ClientAgree(f) BY <1>1, <1>5 DEF ClientSafe, ClientAgree, ClientRec, ClientTells
<1>. QED BY <1>2, <1>4, <1>6, <1>7, <1>8 DEF ClientSafe

\* An endpoint that only changes flags idles.
LEMMA FlagsIdle ==
    ASSUME NEW e, Shaped(e), NEW f, NEW X, Same(e, f, X), X \subseteq Idle \ {"out", "err"}
    PROVE  Idles(e, f)
<1>1. Shaped(f)
  <2>1. {"out", "plain", "queued"} \cap X = {} BY DEF Idle
  <2>. QED BY <2>1, SameShaped
<1>2. f.out = e.out /\ f.err = e.err BY DEF Idle, Same, SameBut, EndpointFields
<1>3. Same(e, f, Idle) BY SameWider
<1>. QED BY <1>1, <1>2, <1>3 DEF Idles, Chatter, Recs, Failed

\* So does one that fails or sends an alert.
LEMMA AlertsIdle ==
    ASSUME NEW e, Shaped(e), NEW desc, NEW level, desc # "none"
    PROVE  /\ Idles(e, Fatal(e, desc)) /\ Idles(e, Fail(e, desc))
           /\ Idles(e, SendAlert(e, level, desc))
<1>1. Idles(e, Fatal(e, desc))
  <2>. DEFINE f == Fatal(e, desc)
  <2>1. /\ Shaped(f) /\ Same(e, f, {"out", "sentFatal", "err"}) /\ Failed(f)
        /\ \E w : Recs(f) = Recs(e) \cup {w} /\ w.typ = "alert" /\ w.m.t = "Alert"
    BY FatalFrame
  <2>. HIDE DEF f
  <2>2. Same(e, f, Idle)
    <3>1. {"out", "sentFatal", "err"} \subseteq Idle BY DEF Idle
    <3>. QED BY <2>1, <3>1, SameWider
  <2>3. \A w \in Recs(f) : Chatter(e, w) BY <2>1 DEF Chatter
  <2>4. Idles(e, f) BY <2>1, <2>2, <2>3 DEF Idles
  <2>. QED BY <2>4 DEF f
<1>2. Idles(e, Fail(e, desc))
  <2>. DEFINE f == Fail(e, desc)
  <2>1. Shaped(f) /\ Same(e, f, {"err"}) /\ Failed(f) /\ Recs(f) = Recs(e) BY FailFrame
  <2>. HIDE DEF f
  <2>2. Same(e, f, Idle)
    <3>1. {"err"} \subseteq Idle BY DEF Idle
    <3>. QED BY <2>1, <3>1, SameWider
  <2>3. Idles(e, f) BY <2>1, <2>2 DEF Idles, Chatter
  <2>. QED BY <2>3 DEF f
<1>3. Idles(e, SendAlert(e, level, desc))
  <2>. DEFINE f == SendAlert(e, level, desc)
  <2>1. /\ Shaped(f) /\ Same(e, f, {"out"})
        /\ \E w : Recs(f) = Recs(e) \cup {w} /\ w.typ = "alert" /\ w.m.t = "Alert"
    BY AlertFrame
  <2>. HIDE DEF f
  <2>2. Same(e, f, Idle)
    <3>1. {"out"} \subseteq Idle BY DEF Idle
    <3>. QED BY <2>1, <3>1, SameWider
  <2>3. f.err = e.err BY <2>1 DEF Same, SameBut, EndpointFields
  <2>4. \A w \in Recs(f) : Chatter(e, w) BY <2>1 DEF Chatter
  <2>5. Idles(e, f) BY <2>1, <2>2, <2>3, <2>4 DEF Idles, Failed
  <2>. QED BY <2>5 DEF f
<1>. QED BY <1>1, <1>2, <1>3

\* What went out first leaves the buffer.
LEMMA TailIdles ==
    ASSUME NEW e, Shaped(e), e.out # << >>, NEW f, f = [e EXCEPT !.out = Tail(@)]
    PROVE  Idles(e, f) /\ Head(e.out) \in Recs(e)
<1>1. /\ IsSeq(Tail(e.out)) /\ Range(Tail(e.out)) \subseteq Range(e.out)
      /\ Head(e.out) \in Range(e.out)
  BY TailElements DEF Shaped
<1>2. Same(e, f, Idle) /\ f.out = Tail(e.out) /\ f.err = e.err
  BY DEF Shaped, IsRecord, Same, SameBut, EndpointFields, Idle
<1>3. Shaped(f)
  <2>1. f.plain = e.plain /\ f.queued = e.queued
    BY <1>2 DEF Same, SameBut, EndpointFields, Idle
  <2>2. IsRecord(f, EndpointFields) BY <1>2, SameShaped
  <2>. QED BY <1>1, <1>2, <2>1, <2>2 DEF Shaped
<1>. QED BY <1>1, <1>2, <1>3 DEF Idles, Chatter, Recs, Failed
-------------------------------------------------------------------------------
(***************************************************************************)
(* One record through process_new_packets.                                 *)
(***************************************************************************)
\* The deframer touches its own flags, and hands on the message of the record
\* or one it cannot read.
LEMMA DeframeStep ==
    ASSUME NEW e, Shaped(e), NEW w
    PROVE  LET d == Deframe(e, w) IN
           /\ d.r \in {"pass", "drop", "bad"} /\ d.m \in {w.m, Opaque}
           /\ Shaped(d.e) /\ Same(e, d.e, {"hasDecrypted", "trial"})
<1>. DEFINE d == Deframe(e, w)
            trial == IF w.typ = "handshake" THEN -1 ELSE e.trial
            opened == [e EXCEPT !.hasDecrypted = TRUE, !.trial = trial]
            skipped == [e EXCEPT !.trial = e.trial - WireLen(w)]
<1>1. Same(e, e, {"hasDecrypted", "trial"}) /\ Shaped(e)
  BY DEF Same, SameBut, Shaped, IsRecord
<1>2. Same(e, opened, {"hasDecrypted", "trial"}) /\ Shaped(opened)
  <2>. HIDE DEF trial
  <2>1. Same(e, opened, {"hasDecrypted", "trial"})
    BY DEF Same, SameBut, Shaped, IsRecord, EndpointFields
  <2>. HIDE DEF opened
  <2>. QED BY <2>1, SameShaped
<1>3. Same(e, skipped, {"hasDecrypted", "trial"}) /\ Shaped(skipped)
  BY DEF Same, SameBut, Shaped, IsRecord, EndpointFields
<1>4. \/ d.r = "pass" /\ d.m \in {w.m, Opaque} /\ d.e \in {e, opened}
      \/ d.r \in {"drop", "bad"} /\ d.m = Opaque /\ d.e \in {e, skipped}
  <2>1. CASE AllowedPlaintext(e, w) \/ (~e.decOn /\ w.key = None)
    <3>1. d = [r |-> "pass", typ |-> WireType(w), m |-> w.m, e |-> e]
      BY <2>1, Zenon DEF Deframe
    <3>. QED BY <3>1
  <2>2. CASE ~(AllowedPlaintext(e, w) \/ (~e.decOn /\ w.key = None)) /\ ~e.decOn
    <3>1. d = [r |-> "pass", typ |-> WireType(w), m |-> Opaque, e |-> e]
      BY <2>2, Zenon DEF Deframe
    <3>. QED BY <3>1
  <2>3. CASE /\ ~(AllowedPlaintext(e, w) \/ (~e.decOn /\ w.key = None)) /\ e.decOn
             /\ Opens(e, w)
    <3>1. d = [r |-> "pass", typ |-> w.typ, m |-> w.m, e |-> opened]
      BY <2>3 DEF Deframe
    <3>. QED BY <3>1
  <2>4. CASE /\ ~(AllowedPlaintext(e, w) \/ (~e.decOn /\ w.key = None)) /\ e.decOn
             /\ ~Opens(e, w)
    <3>1. d = [r |-> IF e.trial >= WireLen(w) THEN "drop" ELSE "bad", typ |-> "",
               m |-> Opaque, e |-> IF e.trial >= WireLen(w) THEN skipped ELSE e]
      BY <2>4 DEF Deframe
    <3>. HIDE DEF d, skipped
    <3>. QED BY <3>1
  <2>. QED BY <2>1, <2>2, <2>3, <2>4
<1>. HIDE DEF d, opened, skipped
<1>5. \/ d.e = e \/ d.e = opened \/ d.e = skipped BY <1>4
<1>6. Shaped(d.e) /\ Same(e, d.e, {"hasDecrypted", "trial"}) BY <1>1, <1>2, <1>3, <1>5
<1>. QED BY <1>4, <1>6 DEF d

\* What is not given to the state machine leaves the handshake alone.
LEMMA DispatchStep ==
    ASSUME NEW e, Shaped(e), NEW typ, NEW m
    PROVE  LET f == Dispatch(e, typ, m) IN
           Idles(e, f) \/ (m.ok /\ f = Handle(e, m))
<1>. DEFINE f == Dispatch(e, typ, m)
            n == e.ccs + 1
            counted == [e EXCEPT !.ccs = n]
<1>1. Idles(e, counted)
  <2>. HIDE DEF n
  <2>1. Same(e, counted, {"ccs"}) BY DEF Same, SameBut, Shaped, IsRecord, EndpointFields
  <2>2. {"ccs"} \subseteq Idle \ {"out", "err"} BY DEF Idle
  <2>. HIDE DEF counted
  <2>. QED BY <2>1, <2>2, FlagsIdle
<1>2. Idles(e, Unexpected(e)) /\ Idles(e, Fatal(e, "DecodeError"))
  BY AlertsIdle DEF Unexpected
<1>3. Idles(e, ProcessAlert(e, m))
  <2>. DEFINE g == [e EXCEPT !.closeNotify = TRUE]
  <2>1. Idles(e, g)
    <3>1. Same(e, g, {"closeNotify"}) BY DEF Same, SameBut, Shaped, IsRecord, EndpointFields
    <3>2. {"closeNotify"} \subseteq Idle \ {"out", "err"} BY DEF Idle
    <3>. HIDE DEF g
    <3>. QED BY <3>1, <3>2, FlagsIdle
  <2>2. Idles(e, e)
    <3>1. Same(e, e, {}) BY DEF Same, SameBut, Shaped, IsRecord
    <3>2. {} \subseteq Idle \ {"out", "err"} OBVIOUS
    <3>. QED BY <3>1, <3>2, FlagsIdle
  <2>3. Idles(e, Fail(e, "AlertReceived")) BY AlertsIdle
  <2>4. ProcessAlert(e, m) \in {g, Fail(e, "AlertReceived"), Fatal(e, "DecodeError"), e}
    BY DEF ProcessAlert
  <2>. HIDE DEF g
  <2>. QED BY <1>2, <2>1, <2>2, <2>3, <2>4
<1>4. Idles(e, SendAlert(e, "warning", "NoRenegotiation")) BY AlertsIdle
<1>5. \/ f = counted \/ f = Unexpected(e) \/ f = Fatal(e, "DecodeError")
      \/ f = ProcessAlert(e, m)
      \/ m.ok /\ f = ProcessMainProtocol(e, m)
  BY DEF Dispatch, Parses
<1>6. \/ ProcessMainProtocol(e, m) = SendAlert(e, "warning", "NoRenegotiation")
      \/ ProcessMainProtocol(e, m) = Handle(e, m)
  BY Zenon DEF ProcessMainProtocol
<1>. HIDE DEF f, counted
<1>7. Idles(e, f) \/ (m.ok /\ f = Handle(e, m)) BY <1>1, <1>2, <1>3, <1>4, <1>5, <1>6
<1>. QED BY <1>7 DEF f

\* A record leaves the handshake alone or is a message for it.
LEMMA RecordStep ==
    ASSUME NEW e, Shaped(e), NEW w
    PROVE  LET f == ProcessRecord(e, w) IN
           \/ Idles(e, f)
           \/ \E g, m : /\ Shaped(g) /\ Same(e, g, {"hasDecrypted", "trial"})
                        /\ m \in {w.m, Opaque} /\ m.ok
                        /\ Idles(g, f) \/ f = Handle(g, m)
<1>. DEFINE d == Deframe(e, w)
            f == ProcessRecord(e, w)
<1>1. /\ d.r \in {"pass", "drop", "bad"} /\ d.m \in {w.m, Opaque}
      /\ Shaped(d.e) /\ Same(e, d.e, {"hasDecrypted", "trial"})
  BY DeframeStep
<1>2. \/ d.r = "pass" /\ f = Dispatch(d.e, d.typ, d.m)
      \/ d.r = "drop" /\ f = d.e
      \/ d.r = "bad" /\ f = Fatal(e, "BadRecordMac")
  BY <1>1 DEF ProcessRecord
<1>. HIDE DEF d, f
<1>3. Opaque.ok BY DEF Opaque
<1>4. Idles(e, d.e)
  <2>1. {"hasDecrypted", "trial"} \subseteq Idle \ {"out", "err"} BY DEF Idle
  <2>. QED BY <1>1, <2>1, FlagsIdle
<1>5. CASE d.r = "pass" /\ f = Dispatch(d.e, d.typ, d.m)
  <2>1. Idles(d.e, f) \/ (d.m.ok /\ f = Handle(d.e, d.m)) BY <1>1, <1>5, DispatchStep
  <2>. QED BY <1>1, <1>3, <2>1 DEF f
<1>6. CASE d.r = "drop" /\ f = d.e BY <1>4, <1>6 DEF f
<1>7. CASE d.r = "bad" /\ f = Fatal(e, "BadRecordMac")
  <2>1. Idles(e, Fatal(e, "BadRecordMac")) BY AlertsIdle
  <2>. QED BY <1>7, <2>1 DEF f
<1>. QED BY <1>2, <1>5, <1>6, <1>7

\* What a server makes of a record of a client.
LEMMA ServerRecordSafe ==
    ASSUME NEW V, Deployment(V), NEW e, ServerShaped(e), ServerSafe(V, e), ~Failed(e),
           NEW w, ClientMsgAuth(V, w.m)
    PROVE  LET f == ProcessRecord(e, w) IN
           /\ ServerShaped(f) /\ ServerSafe(V, f)
           /\ \E m \in {w.m, Opaque} : m.ok /\ ServerSteady(e, f, m)
<1>. DEFINE f == ProcessRecord(e, w)
<1>1. \/ Idles(e, f)
      \/ \E g, m : /\ Shaped(g) /\ Same(e, g, {"hasDecrypted", "trial"})
                   /\ m \in {w.m, Opaque} /\ m.ok
                   /\ Idles(g, f) \/ f = Handle(g, m)
  BY RecordStep DEF ServerShaped
<1>. HIDE DEF f
<1>2. CASE Idles(e, f)
  <2>1. Opaque.ok BY DEF Opaque
  <2>2. ServerShaped(f) /\ ServerSafe(V, f) /\ ServerSteady(e, f, Opaque)
    BY <1>2, ServerIdles
  <2>. QED BY <2>1, <2>2 DEF f
<1>3. ASSUME NEW g, NEW m, Shaped(g), Same(e, g, {"hasDecrypted", "trial"}),
             m \in {w.m, Opaque}, m.ok, Idles(g, f) \/ f = Handle(g, m)
      PROVE  ServerShaped(f) /\ ServerSafe(V, f) /\ ServerSteady(e, f, m)
  <2>1. Idles(e, g)
    <3>1. {"hasDecrypted", "trial"} \subseteq Idle \ {"out", "err"} BY DEF Idle
    <3>. QED BY <1>3, <3>1, FlagsIdle DEF ServerShaped
  <2>2. ServerShaped(g) /\ ServerSafe(V, g) BY <2>1, ServerIdles
  <2>3. /\ g.n = e.n /\ g.side = e.side /\ g.cfg = e.cfg /\ g.hs = e.hs /\ g.st = e.st
        /\ g.tr = e.tr /\ g.ver = e.ver /\ g.suite = e.suite /\ g.alpn = e.alpn
        /\ g.err = e.err
    BY <1>3 DEF Same, SameBut, EndpointFields
  <2>4. ClientMsgAuth(V, m)
    <3>1. ClientMsgAuth(V, Opaque) BY DEF ClientMsgAuth, Opaque
    <3>. QED BY <1>3, <3>1
  <2>5. ServerShaped(f) /\ ServerSafe(V, f) /\ ServerSteady(g, f, m)
    <3>1. CASE Idles(g, f) BY <2>2, <3>1, ServerIdles
    <3>2. CASE f = Handle(g, m)
      <4>1. g.side = "server" BY <2>2 DEF ServerShaped
      <4>2. f = ServerHandle(g, m) BY <3>2, <4>1 DEF Handle
      <4>3. ~Failed(g) BY <2>3 DEF Failed
      <4>. QED BY <1>3, <2>2, <2>4, <4>2, <4>3, ServerHandleSafe
    <3>. QED BY <1>3, <3>1, <3>2
  <2>6. ServerKeepsWord(e, f)
    <3>1. Committed(g) <=> Committed(e) BY <2>3 DEF Committed, Failed
    <3>. QED BY <2>3, <2>5, <3>1 DEF ServerSteady, ServerKeepsWord
  <2>7. Committed(e) => e.st = "ExpectClientKx" \/ f.hs.ms = e.hs.ms
    <3>1. Committed(g) <=> Committed(e) BY <2>3 DEF Committed, Failed
    <3>. QED BY <2>3, <2>5, <3>1 DEF ServerSteady
  <2>. QED BY <2>3, <2>5, <2>6, <2>7 DEF ServerSteady
<1>. QED BY <1>1, <1>2, <1>3 DEF f

\* What a client makes of a record of a server.
LEMMA ClientRecordSafe ==
    ASSUME NEW V, NEW E, NEW e, ClientShaped(e), ClientSafe(V, E, e), ~Failed(e),
           NEW w, ServerMsgAuth(V, w.m),
           w.m.ok /\ w.m.t = "ServerHello" => w.m.ver \in {12, 13},
           w.m.ok /\ w.m.t = "EncryptedExtensions" /\ e.hs.suite # None => ~w.m.early
    PROVE  LET f == ProcessRecord(e, w) IN
           /\ ClientShaped(f) /\ ClientSafe(V, E, f)
           /\ \E m \in {w.m, Opaque} : m.ok /\ ClientSteady(e, f, m)
<1>. DEFINE f == ProcessRecord(e, w)
<1>1. \/ Idles(e, f)
      \/ \E g, m : /\ Shaped(g) /\ Same(e, g, {"hasDecrypted", "trial"})
                   /\ m \in {w.m, Opaque} /\ m.ok
                   /\ Idles(g, f) \/ f = Handle(g, m)
  BY RecordStep DEF ClientShaped
<1>. HIDE DEF f
<1>2. CASE Idles(e, f)
  <2>1. Opaque.ok BY DEF Opaque
  <2>2. ClientShaped(f) /\ ClientSafe(V, E, f) /\ ClientSteady(e, f, Opaque)
    BY <1>2, ClientIdles
  <2>. QED BY <2>1, <2>2 DEF f
<1>3. ASSUME NEW g, NEW m, Shaped(g), Same(e, g, {"hasDecrypted", "trial"}),
             m \in {w.m, Opaque}, m.ok, Idles(g, f) \/ f = Handle(g, m)
      PROVE  ClientShaped(f) /\ ClientSafe(V, E, f) /\ ClientSteady(e, f, m)
  <2>1. Idles(e, g)
    <3>1. {"hasDecrypted", "trial"} \subseteq Idle \ {"out", "err"} BY DEF Idle
    <3>. QED BY <1>3, <3>1, FlagsIdle DEF ClientShaped
  <2>2. ClientShaped(g) /\ ClientSafe(V, E, g) BY <2>1, ClientIdles
  <2>3. /\ g.n = e.n /\ g.side = e.side /\ g.cfg = e.cfg /\ g.hs = e.hs /\ g.st = e.st
        /\ g.tr = e.tr /\ g.ver = e.ver /\ g.suite = e.suite /\ g.alpn = e.alpn
        /\ g.err = e.err
    BY <1>3 DEF Same, SameBut, EndpointFields
  <2>4. /\ ServerMsgAuth(V, m)
        /\ m.t = "ServerHello" => m.ver \in {12, 13}
        /\ m.t = "EncryptedExtensions" /\ g.hs.suite # None => ~m.early
    <3>1. ServerMsgAuth(V, Opaque) /\ Opaque.t = "Opaque" BY DEF ServerMsgAuth, Opaque
    <3>. QED BY <1>3, <2>3, <3>1
  <2>5. ClientShaped(f) /\ ClientSafe(V, E, f) /\ ClientSteady(g, f, m)
    <3>1. CASE Idles(g, f) BY <2>2, <3>1, ClientIdles
    <3>2. CASE f = Handle(g, m)
      <4>1. g.side = "client" BY <2>2 DEF ClientShaped
      <4>2. f = ClientHandle(g, m) BY <3>2, <4>1 DEF Handle
      <4>3. ~Failed(g) BY <2>3 DEF Failed
      <4>. QED BY <1>3, <2>2, <2>4, <4>2, <4>3, ClientHandleSafe
    <3>. QED BY <1>3, <3>1, <3>2
  <2>6. ClientKeepsWord(e, f) BY <2>3, <2>5 DEF ClientSteady, ClientKeepsWord
  <2>. QED BY <2>3, <2>5, <2>6 DEF ClientSteady
<1>. QED BY <1>1, <1>2, <1>3 DEF f
-------------------------------------------------------------------------------
(***************************************************************************)
(* The applications and the other implementations.                         *)
(***************************************************************************)
\* The client writes.
LEMMA ClientWritesSafe ==
    ASSUME NEW V, NEW E, NEW e, ClientShaped(e), ClientSafe(V, E, e)
    PROVE  LET f == WritePlaintext(e) IN
           ClientShaped(f) /\ ClientSafe(V, E, f) /\ \A m : ClientSteady(e, f, m)
<1>. DEFINE f == WritePlaintext(e)
            a == AppRecord(e, e.written + 1)
<1>1. /\ Shaped(f) /\ Same(e, f, {"out", "queued", "written", "plain"})
      /\ f.queued = None /\ f.written = e.written + 1
      /\ \/ /\ e.maySend /\ f.plain = e.plain
            /\ Recs(f) = Recs(e) \cup Range(e.queued) \cup {a}
         \/ /\ ~e.maySend /\ f.plain = Append(e.plain, e.written + 1)
            /\ Recs(f) = Recs(e) \cup Range(e.queued)
  BY WriteFrame DEF ClientShaped
<1>2. /\ a.typ = "app" /\ a.m.t = "ApplicationData" /\ a.m.i = e.written + 1
      /\ "i" \in DOMAIN a.m
      /\ Keyed(e, {"traffic", "tls12"}) =>
             a.key # None /\ a.key[1].k \in {"traffic", "tls12"}
  BY DEF AppRecord, AppData, Sealed, Keyed
<1>. HIDE DEF f, a
<1>3. /\ f.n = e.n /\ f.side = e.side /\ f.cfg = e.cfg /\ f.store = e.store /\ f.hs = e.hs
      /\ f.st = e.st /\ f.ver = e.ver /\ f.suite = e.suite /\ f.alpn = e.alpn
      /\ f.cert = e.cert /\ f.enc = e.enc /\ f.encOn = e.encOn /\ f.maySend = e.maySend
      /\ f.tr = e.tr /\ f.received = e.received /\ f.earlyTraffic = e.earlyTraffic
  BY <1>1 DEF Same, SameBut, EndpointFields
<1>4. ClientShaped(f) BY <1>1, <1>3 DEF ClientShaped
<1>5. ClientKeepsWord(e, f) BY <1>3 DEF ClientKeepsWord
<1>6. \A m : ClientSteady(e, f, m) BY <1>3, <1>5 DEF ClientSteady, ClientLate12States
<1>7. e.written \in Nat /\ E \subseteq 1..e.written BY DEF ClientSafe, ClientData
<1>8. f.written \in Nat /\ 1..e.written \subseteq 1..f.written BY <1>1, <1>7
<1>9. e.written + 1 \in 1..f.written /\ e.written + 1 \notin E BY <1>1, <1>7
<1>10. ASSUME NEW w \in Recs(f) PROVE ClientRec(V, E, f, w)
  <2>1. CASE w \in Recs(e)
    <3>1. w.typ = "app" => AppOk(E, e, w) BY <2>1 DEF ClientSafe, ClientData
    <3>2. w.typ = "app" => AppOk(E, f, w) BY <1>8, <3>1 DEF AppOk
    <3>3. w.m.ok /\ w.m.t = "Finished" => ClientTells(f, w.m.verify)
      BY <1>3, <2>1 DEF ClientSafe, ClientAgree, ClientTells
    <3>. QED BY <2>1, <3>2, <3>3 DEF ClientSafe, ClientAuth, ClientRec
  <2>2. CASE w \in Range(e.queued)
    <3>1. w.typ # "app" /\ w.m.t = "KeyUpdate" BY <2>2 DEF ClientSafe, ClientData
    <3>. QED BY <3>1, ClientTellsNothing
  <2>3. CASE e.maySend /\ w = a
    <3>1. Keyed(e, {"traffic", "tls12"}) BY <2>3 DEF ClientSafe, ClientData
    <3>2. AppOk(E, f, w) BY <1>2, <1>9, <2>3, <3>1 DEF AppOk
    <3>. QED BY <1>2, <2>3, <3>2 DEF ClientRec, ClientMsgAuth
  <2>. QED BY <1>1, <2>1, <2>2, <2>3
<1>11. ClientAuth(V, f)
  BY <1>3, <1>10 DEF ClientSafe, ClientAuth, ClientRec, SessionOk, Traffic
<1>12. ClientData(E, f)
  <2>1. Range(f.plain) \subseteq (1..f.written) \ E
    <3>1. Range(e.plain) \subseteq (1..e.written) \ E BY DEF ClientSafe, ClientData
    <3>2. IsSeq(e.plain) BY DEF ClientShaped, Shaped
    <3>3. Range(Append(e.plain, e.written + 1)) = Range(e.plain) \cup {e.written + 1}
      BY <3>2, AppendElements
    <3>. QED BY <1>1, <1>8, <1>9, <3>1, <3>3
  <2>2. \A w \in Range(f.queued) : w.typ # "app" /\ w.m.t = "KeyUpdate"
    BY <1>1, EmptyElements DEF None
  <2>3. E \subseteq 1..f.written BY <1>7, <1>8
  <2>. QED BY <1>3, <1>8, <1>10, <2>1, <2>2, <2>3
           DEF ClientSafe, ClientData, ClientRec, Keyed, Traffic, EarlyEnabled
<1>13. ClientAgree(f) BY <1>3, <1>10 DEF ClientSafe, ClientAgree, ClientRec, ClientTells
<1>. QED BY <1>4, <1>6, <1>11, <1>12, <1>13 DEF ClientSafe, f

\* The client writes early data.
LEMMA ClientWritesEarlySafe ==
    ASSUME NEW V, NEW E, NEW e, ClientShaped(e), ClientSafe(V, E, e), CanWriteEarly(e),
           e.plain = << >>
    PROVE  LET f == WriteEarlyData(e) IN
           /\ ClientShaped(f) /\ ClientSafe(V, E \cup {f.written}, f)
           /\ \A m : ClientSteady(e, f, m)
<1>. DEFINE f == WriteEarlyData(e)
            left == e.hs.left - 1
            n == e.written + 1
            g == [e EXCEPT !.hs.left = left, !.written = n]
            m1 == AppData("client", n)
            a == Sealed(g, "app", m1)
            E1 == E \cup {f.written}
<1>1. f = SendMsg(g, "app", m1, TRUE) BY DEF WriteEarlyData
<1>2. m1.t = "ApplicationData" /\ m1.i = n /\ "i" \in DOMAIN m1 BY DEF AppData
<1>. HIDE DEF left, n, m1
<1>3. /\ Same(e, g, {"hs", "written"}) /\ SameBut(ClientHsFields, e.hs, g.hs, {"left"})
      /\ g.written = n
  BY DEF ClientShaped, Shaped, IsRecord, Same, SameBut, EndpointFields, ClientHsFields
<1>. HIDE DEF g
<1>4. Shaped(g)
  <2>1. {"out", "plain", "queued"} \cap {"hs", "written"} = {} OBVIOUS
  <2>. QED BY <1>3, <2>1, SameShaped DEF ClientShaped
<1>5. Shaped(f) /\ Same(g, f, {"out"}) /\ Recs(f) = Recs(g) \cup {a}
  BY <1>1, <1>4, SealFrame
<1>6. a.typ = "app" /\ a.m = m1 /\ (Keyed(g, {"early"}) => a.key = g.enc)
  BY DEF Sealed, Keyed
<1>. HIDE DEF f, a
<1>7. /\ f.n = e.n /\ f.side = e.side /\ f.cfg = e.cfg /\ f.store = e.store
      /\ f.st = e.st /\ f.ver = e.ver /\ f.suite = e.suite /\ f.alpn = e.alpn
      /\ f.cert = e.cert /\ f.enc = e.enc /\ f.encOn = e.encOn /\ f.maySend = e.maySend
      /\ f.tr = e.tr /\ f.received = e.received /\ f.earlyTraffic = e.earlyTraffic
      /\ f.plain = e.plain /\ f.queued = e.queued /\ f.written = n /\ g.out = e.out
      /\ g.enc = e.enc /\ g.encOn = e.encOn /\ f.hs = g.hs
  BY <1>3, <1>5 DEF Same, SameBut, EndpointFields
<1>8. /\ f.hs.resuming = e.hs.resuming /\ f.hs.suite = e.hs.suite /\ f.hs.ed = e.hs.ed
      /\ f.hs.sec = e.hs.sec /\ f.hs.ms = e.hs.ms /\ f.hs.ticket = e.hs.ticket
      /\ f.hs.cert = e.hs.cert
  BY <1>3, <1>7 DEF SameBut, ClientHsFields
<1>9. ClientShaped(f)
  <2>1. IsRecord(f.hs, ClientHsFields) BY <1>3, <1>7 DEF SameBut, IsRecord
  <2>. QED BY <1>5, <1>7, <2>1 DEF ClientShaped
<1>10. ClientKeepsWord(e, f) BY <1>7, <1>8 DEF ClientKeepsWord
<1>11. \A m : ClientSteady(e, f, m) BY <1>7, <1>8, <1>10 DEF ClientSteady, ClientLate12States
<1>12. e.written \in Nat /\ E \subseteq 1..e.written BY DEF ClientSafe, ClientData
<1>13. /\ f.written \in Nat /\ f.written = e.written + 1
       /\ 1..e.written \subseteq 1..f.written /\ f.written \in 1..f.written
       /\ f.written \notin 1..e.written
  BY <1>7, <1>12 DEF n
<1>14. EarlyEnabled(e) /\ EarlyEnabled(f) BY <1>8 DEF CanWriteEarly, EarlyEnabled
<1>15. Keyed(e, {"early"}) /\ e.earlyTraffic = TRUE BY <1>14 DEF ClientSafe, ClientData
<1>16. ~e.maySend /\ ~Traffic(e) BY <1>15 DEF ClientSafe, ClientData, Keyed
<1>17. ASSUME NEW w \in Recs(f) PROVE ClientRec(V, E1, f, w)
  <2>1. CASE w \in Recs(e)
    <3>1. w.typ = "app" => AppOk(E, e, w) BY <2>1 DEF ClientSafe, ClientData
    <3>2. w.typ = "app" => AppOk(E1, f, w) BY <1>13, <3>1 DEF AppOk
    <3>3. w.m.ok /\ w.m.t = "Finished" => ClientTells(f, w.m.verify)
      BY <1>7, <1>8, <2>1 DEF ClientSafe, ClientAgree, ClientTells
    <3>. QED BY <2>1, <3>2, <3>3 DEF ClientSafe, ClientAuth, ClientRec
  <2>2. CASE w = a
    <3>1. a.key # None /\ a.key[1].k = "early" BY <1>6, <1>7, <1>15 DEF Keyed
    <3>2. AppOk(E1, f, w) BY <1>2, <1>6, <1>7, <1>13, <2>2, <3>1 DEF AppOk
    <3>. QED BY <1>2, <1>6, <2>2, <3>2 DEF ClientRec, ClientMsgAuth
  <2>. QED BY <1>5, <1>7, <2>1, <2>2 DEF Recs
<1>18. ClientAuth(V, f)
  BY <1>7, <1>8, <1>17 DEF ClientSafe, ClientAuth, ClientRec, SessionOk, Traffic
<1>19. ClientData(E1, f)
  <2>1. Range(f.plain) \subseteq (1..f.written) \ E1 BY <1>7, EmptyElements
  <2>2. E1 \subseteq 1..f.written BY <1>12, <1>13
  <2>3. Keyed(f, {"early"}) /\ f.earlyTraffic = TRUE BY <1>7, <1>15 DEF Keyed
  <2>4. ~f.maySend /\ ~Traffic(f) BY <1>7, <1>16 DEF Traffic
  <2>. QED BY <1>7, <1>8, <1>13, <1>14, <1>17, <2>1, <2>2, <2>3, <2>4
           DEF ClientSafe, ClientData, ClientRec
<1>20. ClientAgree(f) BY <1>7, <1>8, <1>17 DEF ClientSafe, ClientAgree, ClientRec, ClientTells
<1>. QED BY <1>9, <1>11, <1>18, <1>19, <1>20 DEF ClientSafe, f

\* The server writes.
LEMMA ServerWritesSafe ==
    ASSUME NEW V, NEW e, ServerShaped(e), ServerSafe(V, e)
    PROVE  LET f == WritePlaintext(e) IN
           ServerShaped(f) /\ ServerSafe(V, f) /\ \A m : ServerSteady(e, f, m)
<1>. DEFINE f == WritePlaintext(e)
            a == AppRecord(e, e.written + 1)
<1>1. /\ Shaped(f) /\ Same(e, f, {"out", "queued", "written", "plain"})
      /\ f.queued = None /\ f.written = e.written + 1
      /\ \/ /\ e.maySend /\ f.plain = e.plain
            /\ Recs(f) = Recs(e) \cup Range(e.queued) \cup {a}
         \/ /\ ~e.maySend /\ f.plain = Append(e.plain, e.written + 1)
            /\ Recs(f) = Recs(e) \cup Range(e.queued)
  BY WriteFrame DEF ServerShaped
<1>2. /\ a.m.t = "ApplicationData"
      /\ Keyed(e, {"traffic", "tls12"}) =>
             a.key # None /\ a.key[1].k \in {"traffic", "tls12"}
  BY DEF AppRecord, AppData, Sealed, Keyed
<1>. HIDE DEF f, a
<1>3. /\ f.n = e.n /\ f.side = e.side /\ f.cfg = e.cfg /\ f.store = e.store /\ f.hs = e.hs
      /\ f.st = e.st /\ f.ver = e.ver /\ f.suite = e.suite /\ f.alpn = e.alpn
      /\ f.cert = e.cert /\ f.enc = e.enc /\ f.encOn = e.encOn /\ f.maySend = e.maySend
      /\ f.tr = e.tr /\ f.err = e.err
  BY <1>1 DEF Same, SameBut, EndpointFields
<1>4. ServerShaped(f) BY <1>1, <1>3 DEF ServerShaped
<1>5. Committed(e) <=> Committed(f) BY <1>3 DEF Committed, Failed
<1>6. ServerKeepsWord(e, f) BY <1>3, <1>5 DEF ServerKeepsWord
<1>7. \A m : ServerSteady(e, f, m) BY <1>3, <1>6 DEF ServerSteady
<1>8. ASSUME NEW w \in Recs(f) PROVE ServerRec(V, f, w)
  <2>1. CASE w \in Recs(e) BY <1>6, <2>1, RecsLater
  <2>2. CASE w \in Range(e.queued)
    <3>1. w.typ # "app" /\ w.m.t = "KeyUpdate" BY <2>2 DEF ServerSafe, ServerData
    <3>. QED BY <3>1, TellsNothing
  <2>3. CASE e.maySend /\ w = a
    <3>1. Keyed(e, {"traffic", "tls12"}) BY <2>3 DEF ServerSafe, ServerData
    <3>. QED BY <1>2, <2>3, <3>1 DEF ServerRec, ServerMsgAuth, ServerTells
  <2>. QED BY <1>1, <2>1, <2>2, <2>3
<1>9. ServerAuth(V, f) BY <1>3, <1>8 DEF ServerSafe, ServerAuth, ServerRec
<1>10. ServerData(f)
  <2>1. \A w \in Range(f.queued) : w.typ # "app" /\ w.m.t = "KeyUpdate"
    BY <1>1, EmptyElements DEF None
  <2>. QED BY <1>3, <1>8, <2>1 DEF ServerSafe, ServerData, ServerRec, Keyed
<1>11. ServerAgree(f) BY <1>3, <1>5, <1>8 DEF ServerSafe, ServerAgree, ServerRec
<1>. QED BY <1>4, <1>7, <1>9, <1>10, <1>11 DEF ServerSafe, f

\* A key update another implementation sends.
LEMMA RekeyedFrame ==
    ASSUME NEW e, Shaped(e)
    PROVE  LET f == Rekeyed(e) IN
           /\ Shaped(f) /\ Same(e, f, {"out", "enc", "encOn"}) /\ Keyed(f, {"traffic"})
           /\ \A w \in Recs(f) : w \in Recs(e) \/ (w.typ # "app" /\ w.m.t = "KeyUpdate")
<1>. DEFINE m == KeyUpdate("Requested")
            g == SendMsg(e, "handshake", m, TRUE)
            key == NextKey(e.enc[1])
            f == Rekeyed(e)
            a == Sealed(e, "handshake", m)
<1>1. f = SetEncrypter(g, key) BY DEF Rekeyed
<1>2. a.typ = "handshake" /\ a.m.t = "KeyUpdate" BY DEF Sealed, KeyUpdate
<1>3. key.k = "traffic" /\ <<key>> # << >> /\ <<key>>[1] = key BY DEF NextKey, TrafficKey
<1>4. Shaped(g) /\ Same(e, g, {"out"}) /\ Recs(g) = Recs(e) \cup {a} BY SealFrame
<1>. HIDE DEF g, key, a, f
<1>5. Shaped(f) /\ Same(g, f, {"enc", "encOn"}) /\ f.enc = <<key>> /\ f.encOn = TRUE
  <2>. DEFINE h == SetEncrypter(g, key)
  <2>1. Shaped(h) /\ Same(g, h, {"enc", "encOn"}) /\ h.enc = <<key>> /\ h.encOn = TRUE
    BY <1>4, EncrypterFrame
  <2>. HIDE DEF h
  <2>2. f = h BY <1>1 DEF h
  <2>. QED BY <2>1, <2>2
<1>6. Same(e, f, {"out", "enc", "encOn"})
  <2>1. {"out"} \cup {"enc", "encOn"} = {"out", "enc", "encOn"} OBVIOUS
  <2>2. Same(e, f, {"out"} \cup {"enc", "encOn"}) BY <1>4, <1>5, SameTwice
  <2>. QED BY <2>1, <2>2
<1>7. f.out = g.out BY <1>5 DEF Same, SameBut, EndpointFields
<1>8. \A w \in Recs(f) : w \in Recs(e) \/ (w.typ # "app" /\ w.m.t = "KeyUpdate")
  BY <1>2, <1>4, <1>7 DEF Recs
<1>. QED BY <1>3, <1>5, <1>6, <1>8 DEF Keyed, None, f

\* A client of another implementation updates its key.
LEMMA ClientRekeysSafe ==
    ASSUME NEW V, NEW E, NEW e, ClientShaped(e), ClientSafe(V, E, e), e.st = "ExpectTraffic"
    PROVE  LET f == Rekeyed(e) IN
           ClientShaped(f) /\ ClientSafe(V, E, f) /\ \A m : ClientSteady(e, f, m)
<1>. DEFINE f == Rekeyed(e)
<1>1. /\ Shaped(f) /\ Same(e, f, {"out", "enc", "encOn"}) /\ Keyed(f, {"traffic"})
      /\ \A w \in Recs(f) : w \in Recs(e) \/ (w.typ # "app" /\ w.m.t = "KeyUpdate")
  BY RekeyedFrame DEF ClientShaped
<1>. HIDE DEF f
<1>2. /\ f.n = e.n /\ f.side = e.side /\ f.cfg = e.cfg /\ f.store = e.store /\ f.hs = e.hs
      /\ f.st = e.st /\ f.ver = e.ver /\ f.suite = e.suite /\ f.alpn = e.alpn
      /\ f.cert = e.cert /\ f.maySend = e.maySend /\ f.written = e.written
      /\ f.tr = e.tr /\ f.received = e.received /\ f.earlyTraffic = e.earlyTraffic
      /\ f.plain = e.plain /\ f.queued = e.queued
  BY <1>1 DEF Same, SameBut, EndpointFields
<1>3. ClientShaped(f) BY <1>1, <1>2 DEF ClientShaped
<1>4. ClientKeepsWord(e, f) BY <1>2 DEF ClientKeepsWord
<1>5. \A m : ClientSteady(e, f, m) BY <1>2, <1>4 DEF ClientSteady, ClientLate12States
<1>6. ASSUME NEW w \in Recs(f) PROVE ClientRec(V, E, f, w)
  <2>1. CASE w \in Recs(e) BY <1>2, <1>4, <2>1, ClientRecsLater
  <2>2. CASE w.typ # "app" /\ w.m.t = "KeyUpdate" BY <2>2, ClientTellsNothing
  <2>. QED BY <1>1, <2>1, <2>2
<1>7. ClientAuth(V, f)
  BY <1>2, <1>6 DEF ClientSafe, ClientAuth, ClientRec, SessionOk, Traffic
<1>8. ClientData(E, f)
  <2>1. Traffic(e) /\ Traffic(f) BY <1>2 DEF Traffic
  <2>2. e.maySend /\ Keyed(e, {"traffic", "tls12"}) BY <2>1 DEF ClientSafe, ClientData
  <2>3. ~EarlyEnabled(e) BY <2>2 DEF ClientSafe, ClientData, Keyed
  <2>4. ~EarlyEnabled(f) BY <1>2, <2>3 DEF EarlyEnabled
  <2>5. Keyed(f, {"traffic", "tls12"}) BY <1>1 DEF Keyed
  <2>6. f.st \notin ClientLate12States BY <1>2 DEF ClientLate12States
  <2>. QED BY <1>2, <1>6, <2>1, <2>2, <2>3, <2>4, <2>5, <2>6
           DEF ClientSafe, ClientData, ClientRec
<1>9. ClientAgree(f) BY <1>2, <1>6 DEF ClientSafe, ClientAgree, ClientRec, ClientTells
<1>. QED BY <1>3, <1>5, <1>7, <1>8, <1>9 DEF ClientSafe, f

\* A server of another implementation updates its key.
LEMMA ServerRekeysSafe ==
    ASSUME NEW V, NEW e, ServerShaped(e), ServerSafe(V, e), e.st = "ExpectTraffic"
    PROVE  LET f == Rekeyed(e) IN
           ServerShaped(f) /\ ServerSafe(V, f) /\ \A m : ServerSteady(e, f, m)
<1>. DEFINE f == Rekeyed(e)
<1>1. /\ Shaped(f) /\ Same(e, f, {"out", "enc", "encOn"}) /\ Keyed(f, {"traffic"})
      /\ \A w \in Recs(f) : w \in Recs(e) \/ (w.typ # "app" /\ w.m.t = "KeyUpdate")
  BY RekeyedFrame DEF ServerShaped
<1>. HIDE DEF f
<1>2. /\ f.n = e.n /\ f.side = e.side /\ f.cfg = e.cfg /\ f.store = e.store /\ f.hs = e.hs
      /\ f.st = e.st /\ f.ver = e.ver /\ f.suite = e.suite /\ f.alpn = e.alpn
      /\ f.cert = e.cert /\ f.maySend = e.maySend /\ f.tr = e.tr /\ f.err = e.err
      /\ f.queued = e.queued
  BY <1>1 DEF Same, SameBut, EndpointFields
<1>3. ServerShaped(f) BY <1>1, <1>2 DEF ServerShaped
<1>4. Committed(e) <=> Committed(f) BY <1>2 DEF Committed, Failed
<1>5. ServerKeepsWord(e, f) BY <1>2, <1>4 DEF ServerKeepsWord
<1>6. \A m : ServerSteady(e, f, m) BY <1>2, <1>5 DEF ServerSteady
<1>7. ASSUME NEW w \in Recs(f) PROVE ServerRec(V, f, w)
  <2>1. CASE w \in Recs(e) BY <1>5, <2>1, RecsLater
  <2>2. CASE w.typ # "app" /\ w.m.t = "KeyUpdate" BY <2>2, TellsNothing
  <2>. QED BY <1>1, <2>1, <2>2
<1>8. ServerAuth(V, f) BY <1>2, <1>7 DEF ServerSafe, ServerAuth, ServerRec
<1>9. ServerData(f)
  <2>1. Keyed(f, {"traffic", "tls12"}) BY <1>1 DEF Keyed
  <2>2. f.st \notin ServerLate12States /\ f.st \in Server13States
    BY <1>2 DEF ServerLate12States, Server13States
  <2>. QED BY <1>1, <1>2, <1>7, <2>1, <2>2 DEF ServerSafe, ServerData, ServerRec
<1>10. ServerAgree(f) BY <1>2, <1>4, <1>7 DEF ServerSafe, ServerAgree, ServerRec
<1>. QED BY <1>3, <1>6, <1>8, <1>9, <1>10 DEF ServerSafe, f

\* The application closes.
LEMMA CloseIdles ==
    ASSUME NEW e, Shaped(e)
    PROVE  Idles(e, SendCloseNotify(e))
  BY AlertsIdle DEF SendCloseNotify

\* The TCP connection breaks.
LEMMA BreakIdles ==
    ASSUME NEW e, Shaped(e)
    PROVE  Idles(e, [e EXCEPT !.eof = TRUE, !.out = << >>])
<1>. DEFINE f == [e EXCEPT !.eof = TRUE, !.out = << >>]
<1>1. Same(e, f, Idle) /\ f.out = << >> /\ f.err = e.err
  BY DEF Shaped, IsRecord, Same, SameBut, EndpointFields, Idle
<1>. HIDE DEF f
<1>2. Shaped(f)
  <2>1. f.plain = e.plain /\ f.queued = e.queued
    BY <1>1 DEF Same, SameBut, EndpointFields, Idle
  <2>2. IsRecord(f, EndpointFields) BY <1>1, SameShaped
  <2>. QED BY <1>1, <2>1, <2>2, EmptyElements DEF Shaped
<1>3. Idles(e, f) BY <1>1, <1>2, EmptyElements DEF Idles, Recs, Failed
<1>. QED BY <1>3 DEF f

\* A record is garbled.
LEMMA GarbledIdles ==
    ASSUME NEW e, Shaped(e), e.out # << >>
    PROVE  Idles(e, Garbled(e))
<1>. DEFINE w == GarbledRecord(Head(e.out))
            out == <<w>> \o Tail(e.out)
            f == Garbled(e)
<1>1. f = [e EXCEPT !.out = out] BY DEF Garbled
<1>2. /\ IsSeq(Tail(e.out)) /\ Range(Tail(e.out)) \subseteq Range(e.out)
      /\ Head(e.out) \in Range(e.out)
  BY TailElements DEF Shaped
<1>3. IsSeq(out) /\ Range(out) = {w} \cup Range(Tail(e.out))
  <2>. HIDE DEF w
  <2>1. IsSeq(<<w>>) /\ Range(<<w>>) = {w} BY SomeElements
  <2>. QED BY <1>2, <2>1, ConcatElements
<1>. HIDE DEF out, f
<1>4. Same(e, f, Idle) /\ f.out = out /\ f.err = e.err
  BY <1>1 DEF Shaped, IsRecord, Same, SameBut, EndpointFields, Idle
<1>5. Shaped(f)
  <2>1. f.plain = e.plain /\ f.queued = e.queued
    BY <1>4 DEF Same, SameBut, EndpointFields, Idle
  <2>2. IsRecord(f, EndpointFields) BY <1>4, SameShaped
  <2>. QED BY <1>3, <1>4, <2>1, <2>2 DEF Shaped
<1>6. ASSUME NEW x \in Recs(f) PROVE Chatter(e, x)
  <2>1. x = w \/ x \in Recs(e) BY <1>2, <1>3, <1>4, <1>6 DEF Recs
  <2>2. Chatter(e, w) BY <1>2 DEF Chatter, Recs
  <2>. QED BY <2>1, <2>2 DEF Chatter
<1>7. Idles(e, f) BY <1>4, <1>5, <1>6 DEF Idles, Failed
<1>. QED BY <1>7 DEF f

\* A server asks for a renegotiation.
LEMMA RenegotiationIdles ==
    ASSUME NEW e, Shaped(e)
    PROVE  Idles(e, SendMsg(e, "handshake", [t |-> "HelloRequest", ok |-> TRUE], TRUE))
<1>. DEFINE m == [t |-> "HelloRequest", ok |-> TRUE]
            f == SendMsg(e, "handshake", m, TRUE)
            w == Sealed(e, "handshake", m)
<1>1. w.typ = "handshake" /\ w.m.t = "HelloRequest" BY DEF Sealed
<1>2. Shaped(f) /\ Same(e, f, {"out"}) /\ Recs(f) = Recs(e) \cup {w} BY SealFrame
<1>. HIDE DEF f, w
<1>3. Same(e, f, Idle)
  <2>1. {"out"} \subseteq Idle BY DEF Idle
  <2>. QED BY <1>2, <2>1, SameWider
<1>4. f.err = e.err BY <1>2 DEF Same, SameBut, EndpointFields
<1>5. \A x \in Recs(f) : Chatter(e, x) BY <1>1, <1>2 DEF Chatter
<1>6. Idles(e, f) BY <1>2, <1>3, <1>4, <1>5 DEF Idles, Failed
<1>. QED BY <1>6 DEF f
-------------------------------------------------------------------------------
(***************************************************************************)
(* A new connection.                                                       *)
(***************************************************************************)
\* A server that has heard nothing yet.
LEMMA NewServerSafe ==
    ASSUME NEW V, NEW n, NEW sc \in V, NEW age, NEW store,
           IsRecord(store, ServerStoreFields), IsSeq(store.cache),
           \A x \in Range(store.cache) : Acceptable(V, x.val.cert),
           NEW new, new = NewServer(n, sc, store, age)
    PROVE  /\ ServerShaped(new) /\ ServerSafe(V, new)
           /\ new.n = n /\ new.side = "server" /\ new.st = "ExpectClientHello"
<1>. DEFINE f == NewServer(n, sc, store, age)
            hs == ServerHs(sc)
<1>1. IsRecord(hs, ServerHsFields) /\ ~hs.resuming /\ hs.psk = None
  BY DEF ServerHs, IsRecord, ServerHsFields
<1>. HIDE DEF hs
<1>2. f = NewEndpoint("server", n, sc, store, age, hs, "ExpectClientHello")
  BY DEF NewServer, hs
<1>. HIDE DEF f
<1>3. /\ f.n = n /\ f.side = "server" /\ f.st = "ExpectClientHello" /\ f.cfg = sc
      /\ f.store = store /\ f.hs = hs /\ f.maySend = FALSE /\ f.err = "none"
      /\ f.out = << >> /\ f.plain = << >> /\ f.queued = << >>
  BY <1>2 DEF NewEndpoint, None
<1>4. IsRecord(f, EndpointFields) BY <1>2 DEF NewEndpoint, IsRecord, EndpointFields
<1>5. ServerShaped(f) BY <1>1, <1>3, <1>4, EmptyElements DEF ServerShaped, Shaped
<1>6. Recs(f) = {} /\ Range(f.queued) = {} BY <1>3, EmptyElements DEF Recs
<1>7. ServerAuth(V, f) BY <1>3, <1>6 DEF ServerAuth, ServerPresented, ServerVerified
<1>8. ServerData(f) BY <1>3, <1>6 DEF ServerData, Server13States, ServerLate12States
<1>9. ServerAgree(f)
  BY <1>1, <1>3, <1>6 DEF ServerAgree, Server13States, Server12States, ServerLate12States,
                          ServerFull12States
<1>10. new = f BY DEF f
<1>. QED BY <1>3, <1>5, <1>7, <1>8, <1>9, <1>10 DEF ServerSafe

\* The session a client looks up is one of its store.
LEMMA FindStep ==
    ASSUME NEW e, ClientShaped(e)
    PROVE  LET f == FindSession(e) IN
           /\ ClientTurn(e, f, {"store", "hs"}, {"resuming"})
           /\ f.store.tls12 = e.store.tls12
           /\ Range(f.store.tls13) \subseteq Range(e.store.tls13)
           /\ \/ f.hs.resuming = None
              \/ \E x \in Range(e.store.tls13) : f.hs.resuming = <<x>>
              \/ f.hs.resuming = e.store.tls12
<1>. DEFINE f == FindSession(e)
            taken == e.store.tls13 # << >>
            rest == IF taken THEN Front(e.store.tls13) ELSE e.store.tls13
            found == IF taken THEN Some(Last(e.store.tls13)) ELSE e.store.tls12
            resuming == IF HasExpired(e) THEN None ELSE found
<1>1. f = [e EXCEPT !.store.tls13 = rest, !.hs.resuming = resuming] BY DEF FindSession
<1>2. IsSeq(e.store.tls13) BY DEF ClientShaped
<1>3. /\ IsSeq(rest) /\ Range(rest) \subseteq Range(e.store.tls13)
      /\ taken => Last(e.store.tls13) \in Range(e.store.tls13)
  <2>. DEFINE q == e.store.tls13
  <2>1. q \in Seq(Range(q)) BY <1>2 DEF IsSeq
  <2>2. CASE ~taken BY <1>2, <2>2
  <2>3. CASE taken
    <3>1. Len(q) \in Nat /\ Len(q) >= 1 BY <2>1, <2>3, EmptySeq, LenProperties
    <3>2. Last(q) = q[Len(q)] /\ Front(q) = SubSeq(q, 1, Len(q) - 1) BY DEF Last, Front
    <3>3. q[Len(q)] \in Range(q) BY <2>1, <3>1, ElementOfSeq
    <3>4. Len(q) - 1 \in Int /\ Len(q) - 1 <= Len(q) /\ 1 \in Int BY <3>1
    <3>5. IsSeq(SubSeq(q, 1, Len(q) - 1)) /\ Range(SubSeq(q, 1, Len(q) - 1)) \subseteq Range(q)
      BY <1>2, <3>4, SubSeqElements
    <3>. QED BY <2>3, <3>2, <3>3, <3>5
  <2>. QED BY <2>2, <2>3
<1>4. \/ resuming = None
      \/ \E x \in Range(e.store.tls13) : resuming = <<x>>
      \/ resuming = e.store.tls12
  BY <1>3 DEF Some
<1>. HIDE DEF rest, resuming, f
<1>5. /\ Same(e, f, {"store", "hs"}) /\ SameBut(ClientHsFields, e.hs, f.hs, {"resuming"})
      /\ f.hs.resuming = resuming
  BY <1>1 DEF ClientShaped, Shaped, IsRecord, Same, SameBut, EndpointFields, ClientHsFields
<1>6. /\ f.store = [e.store EXCEPT !.tls13 = rest]
  BY <1>1 DEF ClientShaped, Shaped, IsRecord, EndpointFields
<1>7. /\ IsRecord(f.store, ClientStoreFields) /\ f.store.tls13 = rest
      /\ f.store.tls12 = e.store.tls12
  BY <1>6 DEF ClientShaped, IsRecord, ClientStoreFields
<1>8. Shaped(f) /\ f.side = e.side
  <2>1. {"out", "plain", "queued"} \cap {"store", "hs"} = {} OBVIOUS
  <2>2. Shaped(f) BY <1>5, <2>1, SameShaped DEF ClientShaped
  <2>3. f.side = e.side BY <1>5 DEF Same, SameBut, EndpointFields
  <2>. QED BY <2>2, <2>3
<1>9. IsRecord(f.hs, ClientHsFields) BY <1>5 DEF SameBut, IsRecord
<1>10. ClientShaped(f) BY <1>3, <1>7, <1>8, <1>9 DEF ClientShaped
<1>. QED BY <1>3, <1>4, <1>5, <1>7, <1>10 DEF ClientTurn, f

\* A client at the start, given a store of sessions it may resume.
LEMMA StartSafe ==
    ASSUME NEW V, NEW n, NEW e, NEW age, NEW store,
           IsRecord(store, ClientStoreFields), IsSeq(store.tls13),
           \A x \in Range(store.tls13) : SessionOk(V, e, x),
           store.tls12 # None => SessionOk(V, e, store.tls12[1]),
           NEW new, new = StartHandshake(n, e.cfg, store, age)
    PROVE  /\ ClientShaped(new) /\ ClientSafe(V, {}, new)
           /\ new.n = n /\ new.st \in ClientHelloStates /\ new.hs.suite = None
<1>. DEFINE cfg == e.cfg
            hs == InitialHs(cfg)
            a == NewEndpoint("client", n, cfg, store, age, hs, "start")
            b == FindSession(a)
            g == IF b.store.hint # None /\ b.store.hint[1] \in Range(b.cfg.groups)
                 THEN b.store.hint[1] ELSE b.cfg.groups[1]
            share == Some(Share(g, 1))
            k == IF 13 \in cfg.vers THEN InitialKeyShare(b) ELSE b
            sid == SessionId(k)
            d == [k EXCEPT !.hs.sid = sid]
            f == StartHandshake(n, cfg, store, age)
<1>1. f = EmitClientHello(d, FALSE) BY DEF StartHandshake
<1>2. /\ IsRecord(hs, ClientHsFields) /\ hs.ed = "Disabled" /\ hs.suite = None
      /\ hs.ticket = None /\ hs.cert = "none"
  BY DEF InitialHs, IsRecord, ClientHsFields
<1>. HIDE DEF hs
<1>3. /\ a.n = n /\ a.side = "client" /\ a.cfg = cfg /\ a.store = store /\ a.hs = hs
      /\ a.maySend = FALSE /\ a.earlyTraffic = FALSE /\ a.received = << >>
      /\ a.out = << >> /\ a.plain = << >> /\ a.queued = << >> /\ a.written = 0
  BY DEF NewEndpoint, None
<1>4. IsRecord(a, EndpointFields) BY DEF NewEndpoint, IsRecord, EndpointFields
<1>. HIDE DEF a
<1>5. ClientShaped(a) BY <1>2, <1>3, <1>4, EmptyElements DEF ClientShaped, Shaped
<1>6. /\ ClientTurn(a, b, {"store", "hs"}, {"resuming"})
      /\ b.store.tls12 = a.store.tls12
      /\ Range(b.store.tls13) \subseteq Range(a.store.tls13)
      /\ \/ b.hs.resuming = None
         \/ \E x \in Range(a.store.tls13) : b.hs.resuming = <<x>>
         \/ b.hs.resuming = a.store.tls12
  BY <1>5, FindStep
<1>. HIDE DEF b
<1>7. ClientTurn(b, k, {"hs"}, {"share"})
  <2>1. ClientShaped(b) BY <1>6 DEF ClientTurn
  <2>2. {"hs"} \cap {"out", "plain", "queued", "side", "store"} = {} OBVIOUS
  <2>3. CASE 13 \in cfg.vers
    <3>1. k = [b EXCEPT !.hs.share = share] BY <2>3 DEF InitialKeyShare
    <3>. HIDE DEF share, k
    <3>2. Same(b, k, {"hs"}) /\ SameBut(ClientHsFields, b.hs, k.hs, {"share"})
      BY <2>1, <3>1 DEF ClientShaped, Shaped, IsRecord, Same, SameBut, EndpointFields,
                        ClientHsFields
    <3>. QED BY <2>1, <2>2, <3>2, ClientNotes
  <2>4. CASE 13 \notin cfg.vers
    <3>1. k = b BY <2>4
    <3>. HIDE DEF k
    <3>2. Same(b, k, {"hs"}) /\ SameBut(ClientHsFields, b.hs, k.hs, {"share"})
      BY <2>1, <3>1 DEF ClientShaped, Shaped, IsRecord, Same, SameBut
    <3>. QED BY <2>1, <2>2, <3>2, ClientNotes
  <2>. QED BY <2>3, <2>4
<1>. HIDE DEF k, sid
<1>8. ClientTurn(k, d, {"hs"}, {"sid"})
  <2>1. ClientShaped(k) BY <1>7 DEF ClientTurn
  <2>2. {"hs"} \cap {"out", "plain", "queued", "side", "store"} = {} OBVIOUS
  <2>3. Same(k, d, {"hs"}) /\ SameBut(ClientHsFields, k.hs, d.hs, {"sid"})
    BY <2>1 DEF ClientShaped, Shaped, IsRecord, Same, SameBut, EndpointFields, ClientHsFields
  <2>. HIDE DEF d
  <2>. QED BY <2>1, <2>2, <2>3, ClientNotes
<1>. HIDE DEF d
<1>9. /\ d.n = n /\ d.side = "client" /\ d.cfg = cfg /\ d.store = b.store
      /\ d.maySend = FALSE /\ d.earlyTraffic = FALSE /\ d.received = << >>
      /\ d.out = << >> /\ d.plain = << >> /\ d.queued = << >> /\ d.written = 0
  BY <1>3, <1>6, <1>7, <1>8 DEF ClientTurn, Same, SameBut, EndpointFields
<1>10. /\ d.hs.ed = "Disabled" /\ d.hs.suite = None /\ d.hs.ticket = None
       /\ d.hs.cert = "none" /\ d.hs.resuming = b.hs.resuming
  BY <1>2, <1>3, <1>6, <1>7, <1>8 DEF ClientTurn, SameBut, ClientHsFields
<1>11. ClientShaped(d) /\ ~EarlyEnabled(d) BY <1>8, <1>10 DEF ClientTurn, EarlyEnabled
<1>12. /\ ClientTurn(d, f, {"suite", "hs", "out", "tr", "enc", "encOn", "earlyTraffic", "st"},
                     {"alt", "psk", "ed", "left", "fakeCcs"})
       /\ f.st \in ClientHelloStates /\ Greets(d, f)
       /\ \/ ~EarlyEnabled(f) /\ f.earlyTraffic = d.earlyTraffic
          \/ Keyed(f, {"early"}) /\ f.earlyTraffic = TRUE /\ EarlyEnabled(f)
  BY <1>1, <1>11, FirstHelloStep
<1>. HIDE DEF f
<1>13. /\ f.n = n /\ f.side = "client" /\ f.cfg = cfg /\ f.store = b.store
       /\ f.maySend = FALSE /\ f.received = << >>
       /\ f.plain = << >> /\ f.queued = << >> /\ f.written = 0
  BY <1>9, <1>12 DEF ClientTurn, Same, SameBut, EndpointFields
<1>14. /\ f.hs.suite = None /\ f.hs.ticket = None
       /\ f.hs.cert = "none" /\ f.hs.resuming = b.hs.resuming
  BY <1>10, <1>12 DEF ClientTurn, SameBut, ClientHsFields
<1>15. /\ \A x \in Range(f.store.tls13) : SessionOk(V, f, x)
       /\ f.store.tls12 # None => SessionOk(V, f, f.store.tls12[1])
       /\ f.hs.resuming # None => SessionOk(V, f, f.hs.resuming[1])
  <2>1. \A x : SessionOk(V, e, x) => SessionOk(V, f, x) BY <1>13 DEF SessionOk
  <2>. QED BY <1>3, <1>6, <1>13, <1>14, <2>1
<1>16. ASSUME NEW w \in Recs(f) PROVE ClientRec(V, {}, f, w)
  <2>1. w \notin Recs(d) BY <1>9, EmptyElements DEF Recs
  <2>2. CASE w.typ # "app" /\ w.m.t = "ChangeCipherSpec" BY <2>2, ClientTellsNothing
  <2>3. CASE w.typ # "app" /\ w.m.t = "ClientHello" /\ HelloFrom(d, w.m)
    <3>1. HelloFrom(f, w.m) BY <1>10, <1>14, <2>3 DEF HelloFrom
    <3>2. ClientMsgAuth(V, w.m) BY <1>15, <3>1 DEF ClientMsgAuth, HelloFrom, SessionOk
    <3>. QED BY <2>3, <3>2 DEF ClientRec
  <2>. QED BY <1>12, <2>1, <2>2, <2>3 DEF Greets
<1>17. ClientAuth(V, f)
  BY <1>12, <1>13, <1>14, <1>15, <1>16
  DEF ClientAuth, ClientRec, ClientHelloStates, ClientVerified, ClientLate12States
<1>18. ClientData({}, f)
  <2>1. ~Traffic(f) BY <1>12 DEF Traffic, ClientHelloStates
  <2>. QED BY <1>9, <1>12, <1>13, <1>16, <2>1, EmptyElements
           DEF ClientData, ClientRec, ClientHelloStates, ClientFull12States,
               ClientLate12States
<1>19. ClientAgree(f)
  BY <1>12, <1>16 DEF ClientAgree, ClientRec, ClientTells, ClientHelloStates,
                      Client13States, ClientFull12States, ClientLate12States
<1>20. new = f BY DEF f
<1>. QED BY <1>12, <1>13, <1>14, <1>17, <1>18, <1>19, <1>20 DEF ClientSafe, ClientTurn
-------------------------------------------------------------------------------
(***************************************************************************)
(* The two ends together.                                                  *)
(***************************************************************************)
\* A step of the client on a message its server sent keeps them together.
LEMMA ClientKeepsPair ==
    ASSUME NEW e, NEW x, Pair(e, x), ClientAgree(e), NEW m, ServerTells(x, m),
           NEW f, ClientSteady(e, f, m)
    PROVE  Pair(f, x)
<1>1. /\ f.n = x.n /\ x.side = "server" BY DEF Pair, ClientSteady
<1>2. f.hs.suite # None => x.hs.retry BY DEF Pair, ClientSteady, ServerTells
<1>3. f.st \notin ClientHelloStates => Committed(x) /\ f.ver = x.ver /\ f.suite = x.suite
  BY DEF Pair, ClientSteady, ServerTells
<1>4. f.st \notin ClientHelloStates \cup {"ExpectEncryptedExtensions"} => f.alpn = x.alpn
  BY DEF Pair, ClientSteady, ServerTells
<1>5. f.st = "ExpectTraffic" => f.hs.sec = x.hs.fin
  <2>1. CASE e.st = "ExpectTraffic" /\ f.hs.sec = e.hs.sec BY <2>1 DEF Pair
  <2>2. ASSUME m.t = "Finished", m.verify = FinishOf("server", e.hs.sec[1], e.tr),
               f.hs.sec = <<[e.hs.sec[1] EXCEPT !.hash = Append(e.tr, "Finished")]>>
        PROVE  f.hs.sec = x.hs.fin
    <3>1. /\ m.verify.k = "finished" /\ m.verify.sec = e.hs.sec[1] /\ m.verify.hash = e.tr
      BY <2>2 DEF FinishOf
    <3>2. x.hs.fin = <<[m.verify.sec EXCEPT !.hash = Append(m.verify.hash, "Finished")]>>
      BY <2>2, <3>1 DEF ServerTells
    <3>. QED BY <2>2, <3>1, <3>2
  <2>. QED BY <2>1, <2>2 DEF ClientSteady
<1>6. x.st = "ExpectTraffic" => f.st = "ExpectTraffic" /\ f.tr = x.tr
  BY DEF Pair, ClientSteady, ClientKeepsWord
<1>7. f.st \in ClientLate12States /\ f.hs.resuming = None => ~x.hs.resuming
  BY DEF Pair, ClientSteady, ClientKeepsWord, ServerTells
<1>8. x.st = "ExpectTraffic12" /\ ~x.hs.resuming => f.hs.resuming = None
  BY DEF Pair, ClientSteady
<1>9. x.st = "ExpectTraffic12" /\ x.hs.resuming => f.st = "ExpectTraffic12" /\ f.tr = x.tr
  BY DEF Pair, ClientSteady, ClientKeepsWord
<1>10. ASSUME f.st = "ExpectTraffic12"
       PROVE  /\ f.hs.resuming # None => x.hs.resuming
              /\ f.hs.ms = x.hs.ms
              /\ ~x.hs.resuming => x.st = "ExpectTraffic12" /\ f.tr = x.tr
  <2>1. /\ e.st \in ClientLate12States /\ f.hs.ms = e.hs.ms
        /\ f.hs.resuming = e.hs.resuming
    BY <1>10 DEF ClientSteady, ClientKeepsWord, ClientLate12States
  <2>2. CASE e.st = "ExpectTraffic12"
    BY <2>1, <2>2 DEF Pair, ClientSteady, ClientKeepsWord
  <2>3. ASSUME m.t = "Finished", m.verify = Finish12("server", e.hs.ms[1], e.n, e.tr),
               e.hs.resuming = None => f.tr = Append(e.tr, "Finished")
        PROVE  /\ f.hs.resuming # None => x.hs.resuming
               /\ f.hs.ms = x.hs.ms
               /\ ~x.hs.resuming => x.st = "ExpectTraffic12" /\ f.tr = x.tr
    <3>1. /\ m.verify.k = "finished12" /\ m.verify.ms = e.hs.ms[1] /\ m.verify.hash = e.tr
      BY <2>3 DEF Finish12
    <3>2. /\ x.hs.resuming \/ x.st = "ExpectTraffic12"
          /\ x.hs.ms = <<e.hs.ms[1]>>
          /\ ~x.hs.resuming => x.tr = Append(e.tr, "Finished")
      BY <2>3, <3>1 DEF ServerTells
    <3>3. e.hs.ms = <<e.hs.ms[1]>> BY <2>1 DEF ClientAgree
    <3>. QED BY <2>1, <2>3, <3>2, <3>3 DEF Pair
  <2>. QED BY <1>10, <2>2, <2>3 DEF ClientSteady
<1>. QED BY <1>1, <1>2, <1>3, <1>4, <1>5, <1>6, <1>7, <1>8, <1>9, <1>10 DEF Pair

\* A step of the server on a message its client sent keeps them together.
LEMMA ServerKeepsPair ==
    ASSUME NEW e, NEW x, Pair(e, x), ServerAgree(x), NEW m,
           m.t = "Finished" => ClientTells(e, m.verify),
           NEW y, ServerSteady(x, y, m)
    PROVE  Pair(e, y)
<1>1. CASE ~Committed(x)
  <2>1. e.st \in ClientHelloStates BY <1>1 DEF Pair
  <2>2. x.st \in ServerHelloStates BY <1>1 DEF Committed
  <2>3. y.st # "ExpectTraffic" /\ y.st # "ExpectTraffic12"
    BY <2>2 DEF ServerSteady, ServerHelloStates
  <2>4. e.hs.suite # None => y.hs.retry BY DEF Pair, ServerSteady, ServerKeepsWord
  <2>5. e.n = y.n /\ y.side = "server" BY DEF Pair, ServerSteady
  <2>. QED BY <2>1, <2>3, <2>4, <2>5 DEF Pair, ClientHelloStates, ClientLate12States
<1>2. CASE Committed(x)
  <2>1. /\ y.n = x.n /\ y.side = x.side /\ Committed(y) /\ y.ver = x.ver /\ y.suite = x.suite
        /\ y.alpn = x.alpn /\ y.hs.fin = x.hs.fin /\ y.hs.resuming = x.hs.resuming
        /\ y.hs.retry = x.hs.retry
    BY <1>2 DEF ServerSteady, ServerKeepsWord
  <2>2. y.st = "ExpectTraffic" => e.st = "ExpectTraffic" /\ e.tr = y.tr
    <3>1. CASE x.st = "ExpectTraffic" /\ y.tr = x.tr BY <3>1 DEF Pair
    <3>2. ASSUME m.t = "Finished", m.verify = FinishOf("client", x.hs.sec[1], x.tr),
                 y.tr = Append(x.tr, m.t)
          PROVE  e.st = "ExpectTraffic" /\ e.tr = y.tr
      <4>1. m.verify.k = "finished" /\ m.verify.hash = x.tr BY <3>2 DEF FinishOf
      <4>. QED BY <3>2, <4>1 DEF ClientTells
    <3>. QED BY <3>1, <3>2 DEF ServerSteady
  <2>3. e.st = "ExpectTraffic12" => e.hs.ms = y.hs.ms
    <3>1. x.st = "ExpectClientKx" => ~x.hs.resuming BY DEF ServerAgree, ServerFull12States
    <3>2. e.st = "ExpectTraffic12" => x.st # "ExpectClientKx" BY <3>1 DEF Pair
    <3>. QED BY <1>2, <3>2 DEF Pair, ServerSteady
  <2>4. ASSUME y.st = "ExpectTraffic12"
        PROVE  /\ ~y.hs.resuming => e.hs.resuming = None
               /\ y.hs.resuming => e.st = "ExpectTraffic12" /\ e.tr = y.tr
    <3>1. CASE x.st = "ExpectTraffic12" /\ y.tr = x.tr BY <2>1, <3>1 DEF Pair
    <3>2. ASSUME m.t = "Finished", m.verify = Finish12("client", x.hs.ms[1], x.n, x.tr),
                 x.hs.resuming => y.tr = Append(x.tr, m.t)
          PROVE  /\ ~y.hs.resuming => e.hs.resuming = None
                 /\ y.hs.resuming => e.st = "ExpectTraffic12" /\ e.tr = y.tr
      <4>1. m.verify.k = "finished12" /\ m.verify.hash = x.tr BY <3>2 DEF Finish12
      <4>2. /\ e.st \in ClientLate12States
            /\ e.hs.resuming # None =>
                   e.st = "ExpectTraffic12" /\ e.tr = Append(x.tr, "Finished")
        BY <3>2, <4>1 DEF ClientTells
      <4>. QED BY <2>1, <3>2, <4>2 DEF Pair
    <3>. QED BY <2>4, <3>1, <3>2 DEF ServerSteady
  <2>5. e.st = "ExpectTraffic12" /\ ~y.hs.resuming => y.st = "ExpectTraffic12" /\ e.tr = y.tr
    <3>1. ASSUME e.st = "ExpectTraffic12", ~y.hs.resuming
          PROVE  y.st = "ExpectTraffic12" /\ e.tr = y.tr
      <4>1. x.st = "ExpectTraffic12" /\ e.tr = x.tr BY <2>1, <3>1 DEF Pair
      <4>2. x.st \in ServerLate12States BY <4>1 DEF ServerLate12States
      <4>3. y.st = "ExpectTraffic12" /\ y.tr = x.tr
        BY <1>2, <3>1, <4>1, <4>2 DEF ServerSteady, ServerKeepsWord
      <4>. QED BY <4>1, <4>3
    <3>. QED BY <3>1
  <2>. QED BY <2>1, <2>2, <2>3, <2>4, <2>5 DEF Pair
<1>. QED BY <1>1, <1>2

\* At the start of a connection.
LEMMA NewPair ==
    ASSUME NEW e, NEW x, e.n = x.n, x.side = "server", e.hs.suite = None,
           e.st \in ClientHelloStates, x.st = "ExpectClientHello"
    PROVE  Pair(e, x)
  BY DEF Pair, ClientHelloStates, ClientLate12States
-------------------------------------------------------------------------------
(***************************************************************************)
(* The inductive invariant.                                                *)
(***************************************************************************)
Servers == Scenarios[scenario].servers
TlsInv ==
    /\ scenario \in DOMAIN Scenarios
    /\ ClientShaped(c) /\ ServerShaped(s)
    /\ ClientSafe(Servers, sentEarly, c) /\ ServerSafe(Servers, s)
    /\ Pair(c, s)

\* A client that starts without sessions.
LEMMA FirstStartSafe ==
    ASSUME NEW V, NEW n, NEW e, NEW age,
           NEW new, new = StartHandshake(n, e.cfg, EmptyStore, age)
    PROVE  /\ ClientShaped(new) /\ ClientSafe(V, {}, new)
           /\ new.n = n /\ new.st \in ClientHelloStates /\ new.hs.suite = None
<1>. DEFINE store == EmptyStore
<1>1. /\ IsRecord(store, ClientStoreFields) /\ store.tls13 = << >> /\ store.tls12 = None
  BY DEF EmptyStore, IsRecord, ClientStoreFields
<1>2. new = StartHandshake(n, e.cfg, store, age) OBVIOUS
<1>. HIDE DEF store
<1>3. IsSeq(store.tls13) /\ Range(store.tls13) = {} BY <1>1, EmptyElements
<1>4. \A x \in Range(store.tls13) : SessionOk(V, e, x) BY <1>3
<1>5. store.tls12 # None => SessionOk(V, e, store.tls12[1]) BY <1>1
<1>6. IsRecord(store, ClientStoreFields) /\ IsSeq(store.tls13) BY <1>1, <1>3
<1>. QED BY <1>2, <1>4, <1>5, <1>6, StartSafe

\* It holds at the start.
LEMMA TlsStarts ==
    ASSUME Init
    PROVE  TlsInv
<1>1. scenario \in DOMAIN Scenarios BY DEF Init
<1>2. /\ ClientShaped(c) /\ ClientSafe(Servers, sentEarly, c)
      /\ c.n = 1 /\ c.st \in ClientHelloStates /\ c.hs.suite = None
  <2>. DEFINE e == [cfg |-> Scenarios[scenario].client]
  <2>1. e.cfg = Scenarios[scenario].client OBVIOUS
  <2>2. c = StartHandshake(1, Scenarios[scenario].client, EmptyStore, "young") /\ sentEarly = {}
    BY DEF Init
  <2>. HIDE DEF e
  <2>3. c = StartHandshake(1, e.cfg, EmptyStore, "young") BY <2>1, <2>2
  <2>. QED BY <2>2, <2>3, FirstStartSafe
<1>3. /\ ServerShaped(s) /\ ServerSafe(Servers, s)
      /\ s.n = 1 /\ s.side = "server" /\ s.st = "ExpectClientHello"
  <2>. DEFINE store == EmptyServerStore(1)
  <2>1. PICK sc \in Servers : s = NewServer(1, sc, store, "young") BY DEF Init, Servers
  <2>2. IsRecord(store, ServerStoreFields) /\ store.cache = << >>
    BY DEF EmptyServerStore, IsRecord, ServerStoreFields
  <2>. HIDE DEF store
  <2>3. IsSeq(store.cache) /\ Range(store.cache) = {} BY <2>2, EmptyElements
  <2>. QED BY <2>1, <2>2, <2>3, NewServerSafe
<1>4. Pair(c, s) BY <1>2, <1>3, NewPair
<1>. QED BY <1>1, <1>2, <1>3, <1>4 DEF TlsInv

\* The servers of a scenario.
LEMMA OneDeployment ==
    ASSUME scenario \in DOMAIN Scenarios
    PROVE  Deployment(Servers)
  BY DeploymentAssumption DEF Servers, Deployment

\* A new connection starts from the stores of the last one.
LEMMA ConnectKeeps ==
    ASSUME TlsInv, NEW sc \in Servers, NEW age, NEW event \in {"none", "switch", "restart"},
           Connect(sc, age, event)
    PROVE  TlsInv'
<1>1. scenario' = scenario /\ scenario \in DOMAIN Scenarios BY DEF Connect, TlsInv
<1>2. /\ ClientShaped(c') /\ ClientSafe(Servers, {}, c')
      /\ c'.n = c.n + 1 /\ c'.st \in ClientHelloStates /\ c'.hs.suite = None
  <2>1. c' = StartHandshake(c.n + 1, c.cfg, c.store, age) BY DEF Connect
  <2>2. IsRecord(c.store, ClientStoreFields) /\ IsSeq(c.store.tls13)
    BY DEF TlsInv, ClientShaped
  <2>3. /\ \A x \in Range(c.store.tls13) : SessionOk(Servers, c, x)
        /\ c.store.tls12 # None => SessionOk(Servers, c, c.store.tls12[1])
    BY DEF TlsInv, ClientSafe, ClientAuth
  <2>. QED BY <2>1, <2>2, <2>3, StartSafe
<1>3. /\ ServerShaped(s') /\ ServerSafe(Servers, s')
      /\ s'.n = c.n + 1 /\ s'.side = "server" /\ s'.st = "ExpectClientHello"
  <2>. DEFINE fresh == EmptyServerStore(s.store.key + 2)
              due == [s.store EXCEPT !.due = TRUE]
              store == CASE event = "restart" -> fresh
                         [] event = "switch" -> due
                         [] event = "none" -> s.store
  <2>1. s' = NewServer(c.n + 1, sc, store, age) BY DEF Connect
  <2>2. IsRecord(fresh, ServerStoreFields) /\ fresh.cache = << >>
    BY DEF EmptyServerStore, IsRecord, ServerStoreFields
  <2>3. /\ IsRecord(s.store, ServerStoreFields) /\ IsSeq(s.store.cache)
        /\ \A x \in Range(s.store.cache) : Acceptable(Servers, x.val.cert)
    BY DEF TlsInv, ServerShaped, ServerSafe, ServerAuth
  <2>4. IsRecord(due, ServerStoreFields) /\ due.cache = s.store.cache
    BY <2>3 DEF IsRecord, ServerStoreFields
  <2>5. store \in {fresh, due, s.store} OBVIOUS
  <2>. HIDE DEF fresh, due, store
  <2>6. IsSeq(fresh.cache) /\ Range(fresh.cache) = {} BY <2>2, EmptyElements
  <2>7. /\ IsRecord(store, ServerStoreFields) /\ IsSeq(store.cache)
        /\ \A x \in Range(store.cache) : Acceptable(Servers, x.val.cert)
    BY <2>2, <2>3, <2>4, <2>5, <2>6
  <2>. QED BY <2>1, <2>7, NewServerSafe
<1>4. sentEarly' = {} /\ Servers' = Servers BY <1>1 DEF Connect, Servers
<1>5. Pair(c', s') BY <1>2, <1>3, NewPair
<1>. QED BY <1>1, <1>2, <1>3, <1>4, <1>5 DEF TlsInv

\* The client idles or goes on without the server.
LEMMA ClientAlone ==
    ASSUME TlsInv, scenario' = scenario, s' = s,
           ClientShaped(c'), ClientSafe(Servers, sentEarly', c'),
           \A m : ClientSteady(c, c', m)
    PROVE  TlsInv'
<1>1. Servers' = Servers BY DEF Servers
<1>2. ServerTells(s, Opaque) BY DEF ServerTells, Opaque
<1>3. Pair(c', s) BY <1>2, ClientKeepsPair DEF TlsInv, ClientSafe
<1>. QED BY <1>1, <1>3 DEF TlsInv

\* The server idles or goes on without the client.
LEMMA ServerAlone ==
    ASSUME TlsInv, scenario' = scenario, c' = c, sentEarly' = sentEarly,
           ServerShaped(s'), ServerSafe(Servers, s'),
           \A m : ServerSteady(s, s', m)
    PROVE  TlsInv'
<1>1. Servers' = Servers BY DEF Servers
<1>2. Opaque.t # "Finished" BY DEF Opaque
<1>3. Pair(c, s') BY <1>2, ServerKeepsPair DEF TlsInv, ServerSafe
<1>. QED BY <1>1, <1>3 DEF TlsInv

\* Both idle.
LEMMA BothIdle ==
    ASSUME TlsInv, scenario' = scenario, sentEarly' = sentEarly, Idles(c, c'), Idles(s, s')
    PROVE  TlsInv'
<1>1. Servers' = Servers BY DEF Servers
<1>2. ClientShaped(c') /\ ClientSafe(Servers, sentEarly, c') /\ \A m : ClientSteady(c, c', m)
  BY ClientIdles DEF TlsInv
<1>3. ServerShaped(s') /\ ServerSafe(Servers, s') /\ \A m : ServerSteady(s, s', m)
  BY ServerIdles DEF TlsInv
<1>4. ServerTells(s, Opaque) /\ Opaque.t # "Finished" BY DEF ServerTells, Opaque
<1>5. Pair(c', s) BY <1>2, <1>4, ClientKeepsPair DEF TlsInv, ClientSafe
<1>6. Pair(c', s') BY <1>3, <1>4, <1>5, ServerKeepsPair DEF TlsInv, ServerSafe
<1>. QED BY <1>1, <1>2, <1>3, <1>6 DEF TlsInv

\* The client processes a record.
LEMMA ClientReceivesKeeps ==
    ASSUME TlsInv, ClientReceives
    PROVE  TlsInv'
<1>. DEFINE w == Head(s.out)
<1>1. /\ scenario' = scenario /\ sentEarly' = sentEarly /\ Servers' = Servers
      /\ c' = ProcessRecord(c, w) /\ ~Failed(c)
  BY DEF ClientReceives, Servers
<1>2. Idles(s, s') /\ w \in Recs(s)
  BY TailIdles DEF ClientReceives, TlsInv, ServerShaped
<1>. HIDE DEF w
<1>3. ServerMsgAuth(Servers, w.m) /\ (w.m.ok => ServerTells(s, w.m))
  BY <1>2 DEF TlsInv, ServerSafe, ServerAuth, ServerAgree
<1>4. /\ w.m.ok /\ w.m.t = "ServerHello" => w.m.ver \in {12, 13}
      /\ w.m.ok /\ w.m.t = "EncryptedExtensions" /\ c.hs.suite # None => ~w.m.early
  BY <1>3 DEF ServerTells, TlsInv, Pair
<1>5. /\ ClientShaped(c') /\ ClientSafe(Servers, sentEarly, c')
      /\ \E m \in {w.m, Opaque} : m.ok /\ ClientSteady(c, c', m)
  BY <1>1, <1>3, <1>4, ClientRecordSafe DEF TlsInv
<1>6. Pair(c', s)
  <2>1. PICK m \in {w.m, Opaque} : m.ok /\ ClientSteady(c, c', m) BY <1>5
  <2>2. ServerTells(s, Opaque) BY DEF ServerTells, Opaque
  <2>3. ServerTells(s, m) BY <1>3, <2>1, <2>2
  <2>. QED BY <2>1, <2>3, ClientKeepsPair DEF TlsInv, ClientSafe
<1>7. ServerShaped(s') /\ ServerSafe(Servers, s') /\ \A m : ServerSteady(s, s', m)
  BY <1>2, ServerIdles DEF TlsInv
<1>8. Pair(c', s')
  <2>1. Opaque.t # "Finished" BY DEF Opaque
  <2>. QED BY <1>6, <1>7, <2>1, ServerKeepsPair DEF TlsInv, ServerSafe
<1>. QED BY <1>1, <1>5, <1>7, <1>8 DEF TlsInv

\* The server processes a record.
LEMMA ServerReceivesKeeps ==
    ASSUME TlsInv, ServerReceives
    PROVE  TlsInv'
<1>. DEFINE w == Head(c.out)
<1>1. /\ scenario' = scenario /\ sentEarly' = sentEarly /\ Servers' = Servers
      /\ s' = ProcessRecord(s, w) /\ ~Failed(s)
  BY DEF ServerReceives, Servers
<1>2. Idles(c, c') /\ w \in Recs(c)
  BY TailIdles DEF ServerReceives, TlsInv, ClientShaped
<1>. HIDE DEF w
<1>3. /\ ClientMsgAuth(Servers, w.m)
      /\ w.m.ok /\ w.m.t = "Finished" => ClientTells(c, w.m.verify)
  BY <1>2 DEF TlsInv, ClientSafe, ClientAuth, ClientAgree, ClientTells
<1>4. Deployment(Servers) BY OneDeployment DEF TlsInv
<1>5. /\ ServerShaped(s') /\ ServerSafe(Servers, s')
      /\ \E m \in {w.m, Opaque} : m.ok /\ ServerSteady(s, s', m)
  BY <1>1, <1>3, <1>4, ServerRecordSafe DEF TlsInv
<1>6. Pair(c, s')
  <2>1. PICK m \in {w.m, Opaque} : m.ok /\ ServerSteady(s, s', m) BY <1>5
  <2>2. Opaque.t # "Finished" BY DEF Opaque
  <2>3. m.t = "Finished" => ClientTells(c, m.verify) BY <1>3, <2>1, <2>2
  <2>. QED BY <2>1, <2>3, ServerKeepsPair DEF TlsInv, ServerSafe
<1>7. ClientShaped(c') /\ ClientSafe(Servers, sentEarly, c') /\ \A m : ClientSteady(c, c', m)
  BY <1>2, ClientIdles DEF TlsInv
<1>8. Pair(c', s')
  <2>1. ServerTells(s', Opaque) BY DEF ServerTells, Opaque
  <2>. QED BY <1>6, <1>7, <2>1, ClientKeepsPair DEF TlsInv, ClientSafe
<1>. QED BY <1>1, <1>5, <1>7, <1>8 DEF TlsInv

\* The applications of the two ends write and close.
LEMMA WritesKeep ==
    ASSUME TlsInv, ClientWrites \/ ServerWrites \/ ClientWritesEarly
    PROVE  TlsInv'
<1>1. CASE ClientWrites
  <2>1. c' = WritePlaintext(c) /\ s' = s /\ scenario' = scenario /\ sentEarly' = sentEarly
    BY <1>1 DEF ClientWrites
  <2>2. /\ ClientShaped(c') /\ ClientSafe(Servers, sentEarly', c')
        /\ \A m : ClientSteady(c, c', m)
    BY <2>1, ClientWritesSafe DEF TlsInv
  <2>. QED BY <2>1, <2>2, ClientAlone
<1>2. CASE ServerWrites
  <2>1. s' = WritePlaintext(s) /\ c' = c /\ scenario' = scenario /\ sentEarly' = sentEarly
    BY <1>2 DEF ServerWrites
  <2>2. ServerShaped(s') /\ ServerSafe(Servers, s') /\ \A m : ServerSteady(s, s', m)
    BY <2>1, ServerWritesSafe DEF TlsInv
  <2>. QED BY <2>1, <2>2, ServerAlone
<1>3. CASE ClientWritesEarly
  <2>1. /\ c' = WriteEarlyData(c) /\ s' = s /\ scenario' = scenario
        /\ sentEarly' = sentEarly \cup {c'.written}
        /\ CanWriteEarly(c) /\ c.plain = << >>
    BY <1>3 DEF ClientWritesEarly
  <2>2. /\ ClientShaped(c') /\ ClientSafe(Servers, sentEarly', c')
        /\ \A m : ClientSteady(c, c', m)
    BY <2>1, ClientWritesEarlySafe DEF TlsInv
  <2>. QED BY <2>1, <2>2, ClientAlone
<1>. QED BY <1>1, <1>2, <1>3

\* What one end does that leaves its handshake where it was.
LEMMA IdlesKeep ==
    ASSUME TlsInv, scenario' = scenario, sentEarly' = sentEarly,
           \/ Idles(c, c') /\ s' = s
           \/ Idles(s, s') /\ c' = c
    PROVE  TlsInv'
<1>1. CASE Idles(c, c') /\ s' = s
  <2>1. /\ ClientShaped(c') /\ ClientSafe(Servers, sentEarly', c')
        /\ \A m : ClientSteady(c, c', m)
    BY <1>1, ClientIdles DEF TlsInv
  <2>. QED BY <1>1, <2>1, ClientAlone
<1>2. CASE Idles(s, s') /\ c' = c
  <2>1. ServerShaped(s') /\ ServerSafe(Servers, s') /\ \A m : ServerSteady(s, s', m)
    BY <1>2, ServerIdles DEF TlsInv
  <2>. QED BY <1>2, <2>1, ServerAlone
<1>. QED BY <1>1, <1>2

\* An end closes, is garbled or asks for a renegotiation.
LEMMA CloseKeeps ==
    ASSUME TlsInv,
           \/ ClientCloses \/ ServerCloses \/ ClientGarbles \/ ServerGarbles
           \/ ServerRenegotiates
    PROVE  TlsInv'
<1>1. Shaped(c) /\ Shaped(s) BY DEF TlsInv, ClientShaped, ServerShaped
<1>2. CASE ClientCloses
  <2>1. /\ c' = SendCloseNotify(c) /\ s' = s /\ scenario' = scenario
        /\ sentEarly' = sentEarly
    BY <1>2 DEF ClientCloses
  <2>. QED BY <1>1, <2>1, CloseIdles, IdlesKeep
<1>3. CASE ServerCloses
  <2>1. /\ s' = SendCloseNotify(s) /\ c' = c /\ scenario' = scenario
        /\ sentEarly' = sentEarly
    BY <1>3 DEF ServerCloses
  <2>. QED BY <1>1, <2>1, CloseIdles, IdlesKeep
<1>4. CASE ClientGarbles
  <2>1. /\ c' = Garbled(c) /\ c.out # << >> /\ s' = s /\ scenario' = scenario
        /\ sentEarly' = sentEarly
    BY <1>4 DEF ClientGarbles
  <2>. QED BY <1>1, <2>1, GarbledIdles, IdlesKeep
<1>5. CASE ServerGarbles
  <2>1. /\ s' = Garbled(s) /\ s.out # << >> /\ c' = c /\ scenario' = scenario
        /\ sentEarly' = sentEarly
    BY <1>5 DEF ServerGarbles
  <2>. QED BY <1>1, <2>1, GarbledIdles, IdlesKeep
<1>6. CASE ServerRenegotiates
  <2>1. /\ s' = SendMsg(s, "handshake", [t |-> "HelloRequest", ok |-> TRUE], TRUE)
        /\ c' = c /\ scenario' = scenario /\ sentEarly' = sentEarly
    BY <1>6 DEF ServerRenegotiates
  <2>. QED BY <1>1, <2>1, RenegotiationIdles, IdlesKeep
<1>. QED BY <1>2, <1>3, <1>4, <1>5, <1>6

\* The connection breaks.
LEMMA BreaksKeep ==
    ASSUME TlsInv, Breaks
    PROVE  TlsInv'
<1>. DEFINE client == [c EXCEPT !.eof = TRUE, !.out = << >>]
            server == [s EXCEPT !.eof = TRUE, !.out = << >>]
<1>1. Shaped(c) /\ Shaped(s) BY DEF TlsInv, ClientShaped, ServerShaped
<1>2. c' = client /\ s' = server /\ scenario' = scenario /\ sentEarly' = sentEarly
  BY DEF Breaks
<1>3. Idles(c, client) /\ Idles(s, server)
  <2>1. Idles(c, client) BY <1>1, BreakIdles, Zenon
  <2>2. Idles(s, server) BY <1>1, BreakIdles, Zenon
  <2>. QED BY <2>1, <2>2
<1>. HIDE DEF client, server
<1>4. Idles(c, c') /\ Idles(s, s') BY <1>2, <1>3
<1>. QED BY <1>2, <1>4, BothIdle

\* An end renews its key and asks the other to.
LEMMA RekeysKeep ==
    ASSUME TlsInv, ClientRekeys \/ ServerRekeys
    PROVE  TlsInv'
<1>1. CASE ClientRekeys
  <2>1. /\ c' = Rekeyed(c) /\ c.st = "ExpectTraffic" /\ s' = s /\ scenario' = scenario
        /\ sentEarly' = sentEarly
    BY <1>1 DEF ClientRekeys, MayRekey
  <2>2. /\ ClientShaped(c') /\ ClientSafe(Servers, sentEarly', c')
        /\ \A m : ClientSteady(c, c', m)
    BY <2>1, ClientRekeysSafe DEF TlsInv
  <2>. QED BY <2>1, <2>2, ClientAlone
<1>2. CASE ServerRekeys
  <2>1. /\ s' = Rekeyed(s) /\ s.st = "ExpectTraffic" /\ c' = c /\ scenario' = scenario
        /\ sentEarly' = sentEarly
    BY <1>2 DEF ServerRekeys, MayRekey
  <2>2. ServerShaped(s') /\ ServerSafe(Servers, s') /\ \A m : ServerSteady(s, s', m)
    BY <2>1, ServerRekeysSafe DEF TlsInv
  <2>. QED BY <2>1, <2>2, ServerAlone
<1>. QED BY <1>1, <1>2

\* Every step keeps the invariant.
LEMMA TlsStep ==
    ASSUME TlsInv, [Next]_vars
    PROVE  TlsInv'
<1>1. ASSUME NEW sc \in Servers, NEW age, NEW event \in {"none", "switch", "restart"},
             Connect(sc, age, event)
      PROVE  TlsInv'
  BY <1>1, ConnectKeeps
<1>2. CASE ClientReceives \/ ServerReceives
  BY <1>2, ClientReceivesKeeps, ServerReceivesKeeps
<1>3. CASE ClientWrites \/ ServerWrites \/ ClientWritesEarly BY <1>3, WritesKeep
<1>4. CASE \/ ClientCloses \/ ServerCloses \/ ClientGarbles \/ ServerGarbles
           \/ ServerRenegotiates
  BY <1>4, CloseKeeps
<1>5. CASE Breaks BY <1>5, BreaksKeep
<1>6. CASE ClientRekeys \/ ServerRekeys BY <1>6, RekeysKeep
<1>7. CASE UNCHANGED vars BY <1>7 DEF vars, TlsInv, Servers
<1>. QED BY <1>1, <1>2, <1>3, <1>4, <1>5, <1>6, <1>7 DEF Next, Servers

-------------------------------------------------------------------------------
(***************************************************************************)
(* What the invariant means for the two applications.                      *)
(***************************************************************************)
\* Application data is only taken from a peer that was verified.
LEMMA InvAuthenticates ==
    ASSUME TlsInv
    PROVE  Authenticated
<1>1. Traffic(c) => c.cert \in c.cfg.trusts
  <2>1. Traffic(c) => c.st \in ClientVerified
    BY DEF Traffic, ClientVerified, ClientLate12States
  <2>. QED BY <2>1 DEF TlsInv, ClientSafe, ClientAuth
<1>2. Traffic(s) /\ s.cfg.clientAuth = "required" => s.cert \in s.cfg.trusts
  <2>1. Traffic(s) => s.st \in ServerVerified BY DEF Traffic, ServerVerified
  <2>. QED BY <2>1 DEF TlsInv, ServerSafe, ServerAuth, Acceptable
<1>3. c.received # << >> => Traffic(c) BY DEF TlsInv, ClientSafe, ClientAuth
<1>. QED BY <1>1, <1>2, <1>3 DEF Authenticated

\* Every record of application data under way has the key it should have.
LEMMA InvProtects ==
    ASSUME TlsInv
    PROVE  DataProtected
<1>. DEFINE Protected(e, w) ==
               /\ w.key # None
               /\ w.key[1].k \in {"traffic", "tls12", "early"}
               /\ w.key[1].k = "early" <=> e.side = "client" /\ w.m.i \in sentEarly
<1>1. \A w \in Recs(c) : w.typ = "app" => Protected(c, w)
  BY DEF TlsInv, ClientSafe, ClientData, AppOk, ClientShaped
<1>2. \A w \in Recs(s) : w.typ = "app" => Protected(s, w)
  BY DEF TlsInv, ServerSafe, ServerData, ServerShaped
<1>. HIDE DEF Protected
<1>3. ASSUME NEW e \in {c, s}, NEW i \in DOMAIN e.out, e.out[i].typ = "app"
      PROVE  Protected(e, e.out[i])
  <2>1. e.out[i] \in Recs(e) BY DEF Recs, Range
  <2>. QED BY <1>1, <1>2, <1>3, <2>1
<1>. QED BY <1>3 DEF DataProtected, Protected

\* Two ends in TLS 1.3 traffic agree.
LEMMA InvAgrees13 ==
    ASSUME TlsInv, c.st = "ExpectTraffic", Traffic(s)
    PROVE  /\ c.ver = 13 /\ s.ver = 13 /\ c.suite = s.suite /\ c.alpn = s.alpn
           /\ c.tr = s.tr /\ c.hs.sec = s.hs.fin
           /\ c.hs.resuming # None <=> s.hs.psk # None \/ s.hs.resuming
<1>1. /\ c.ver = 13
      /\ c.hs.sec[1].psk # None <=> c.hs.resuming # None
  BY DEF TlsInv, ClientSafe, ClientAgree, Client13States
<1>2. /\ c.ver = s.ver /\ c.suite = s.suite /\ c.alpn = s.alpn /\ c.hs.sec = s.hs.fin
      /\ s.st = "ExpectTraffic" => c.tr = s.tr
  BY DEF TlsInv, Pair, ClientHelloStates
<1>3. s.st = "ExpectTraffic"
  <2>1. s.st = "ExpectTraffic12" => s.ver # 13
    BY DEF TlsInv, ServerSafe, ServerAgree, Server12States, ServerLate12States
  <2>. QED BY <1>1, <1>2, <2>1 DEF Traffic
<1>4. ~s.hs.resuming /\ s.hs.fin[1].psk = s.hs.psk
  BY <1>3 DEF TlsInv, ServerSafe, ServerAgree, Server13States
<1>. QED BY <1>1, <1>2, <1>3, <1>4

\* Two ends in TLS 1.2 traffic agree.
LEMMA InvAgrees12 ==
    ASSUME TlsInv, c.st = "ExpectTraffic12", Traffic(s)
    PROVE  /\ c.ver # 13 /\ c.ver = s.ver /\ c.suite = s.suite /\ c.alpn = s.alpn
           /\ c.tr = s.tr /\ c.hs.ms = s.hs.ms
           /\ c.hs.resuming # None <=> s.hs.psk # None \/ s.hs.resuming
<1>1. c.ver # 13
  BY DEF TlsInv, ClientSafe, ClientAgree, ClientLate12States
<1>2. /\ c.ver = s.ver /\ c.suite = s.suite /\ c.alpn = s.alpn /\ c.hs.ms = s.hs.ms
      /\ c.hs.resuming = None => ~s.hs.resuming
      /\ c.hs.resuming # None => s.hs.resuming
      /\ s.st = "ExpectTraffic12" /\ s.hs.resuming => c.tr = s.tr
      /\ ~s.hs.resuming => c.tr = s.tr
  BY DEF TlsInv, Pair, ClientHelloStates, ClientLate12States
<1>3. s.st = "ExpectTraffic12"
  <2>1. s.st = "ExpectTraffic" => s.ver = 13
    BY DEF TlsInv, ServerSafe, ServerAgree, Server13States
  <2>. QED BY <1>1, <1>2, <2>1 DEF Traffic
<1>4. s.hs.psk = None
  BY <1>3 DEF TlsInv, ServerSafe, ServerAgree, Server12States, ServerLate12States
<1>. QED BY <1>1, <1>2, <1>3, <1>4

\* Two ends that both reached traffic agree.
LEMMA InvAgrees ==
    ASSUME TlsInv, Traffic(c), Traffic(s)
    PROVE  /\ c.ver = s.ver /\ c.suite = s.suite /\ c.alpn = s.alpn
           /\ c.tr = s.tr
           /\ Resumed(c) = Resumed(s)
           /\ IsTls13(c) => c.hs.sec = s.hs.fin
           /\ ~IsTls13(c) => c.hs.ms = s.hs.ms
           /\ c.cert = s.cfg.cert
<1>1. c.cert = s.cfg.cert
  <2>1. c.st \in ClientVerified BY DEF Traffic, ClientVerified, ClientLate12States
  <2>2. Identity(Servers, c.cert) /\ s.cfg \in Servers
    BY <2>1 DEF TlsInv, ClientSafe, ClientAuth, ServerSafe, ServerAuth
  <2>. QED BY <2>2 DEF Identity
<1>2. (Resumed(c) <=> c.hs.resuming # None) /\ (Resumed(s) <=> s.hs.psk # None \/ s.hs.resuming)
  BY DEF Resumed, TlsInv, ClientShaped, ServerShaped
<1>3. Resumed(c) \in BOOLEAN /\ Resumed(s) \in BOOLEAN
  BY DEF Resumed, TlsInv, ClientShaped, ServerShaped
<1>4. CASE c.st = "ExpectTraffic"
  <2>1. /\ c.ver = 13 /\ s.ver = 13 /\ c.suite = s.suite /\ c.alpn = s.alpn
        /\ c.tr = s.tr /\ c.hs.sec = s.hs.fin
        /\ c.hs.resuming # None <=> s.hs.psk # None \/ s.hs.resuming
    BY <1>4, InvAgrees13
  <2>2. Resumed(c) = Resumed(s) BY <1>2, <1>3, <2>1
  <2>. QED BY <1>1, <2>1, <2>2 DEF IsTls13
<1>5. CASE c.st = "ExpectTraffic12"
  <2>1. /\ c.ver # 13 /\ c.ver = s.ver /\ c.suite = s.suite /\ c.alpn = s.alpn
        /\ c.tr = s.tr /\ c.hs.ms = s.hs.ms
        /\ c.hs.resuming # None <=> s.hs.psk # None \/ s.hs.resuming
    BY <1>5, InvAgrees12
  <2>2. Resumed(c) = Resumed(s) BY <1>2, <1>3, <2>1
  <2>. QED BY <1>1, <2>1, <2>2 DEF IsTls13
<1>. QED BY <1>4, <1>5 DEF Traffic

\* The stores of both ends, the records under way and the two handshakes keep
\* to what the ends may rely on, however the connections interleave, resume,
\* break or meet other implementations (conn.rs, client/tls13.rs, tls12.rs).
THEOREM HandshakesKeepTheirWord == Spec => []TlsInv
<1>1. Init => TlsInv BY TlsStarts
<1>2. TlsInv /\ [Next]_vars => TlsInv' BY TlsStep
<1>. QED BY <1>1, <1>2, PTL DEF Spec

\* No end takes application data from a peer it has not authenticated, in a
\* resumed connection too: verify_server_cert and verify_client_cert were
\* called, or the session in the store or the ticket comes from one of them.
THEOREM PeersAreAuthenticated == Spec => []Authenticated
<1>1. TlsInv => Authenticated BY InvAuthenticates
<1>. QED BY <1>1, HandshakesKeepTheirWord, PTL

\* Application data leaves send_msg_encrypt only under a traffic key, or under
\* the early key when the application gave it to early_data.
THEOREM ApplicationDataIsProtected == Spec => []DataProtected
<1>1. TlsInv => DataProtected BY InvProtects
<1>. QED BY <1>1, HandshakesKeepTheirWord, PTL

\* Two ends that both expect traffic agree on version, suite, protocol,
\* secrets, transcript and resumption, and on the server's identity.
THEOREM EndsAgree == Spec => []Agreement
<1>1. TlsInv => Agreement BY InvAgrees DEF Agreement
<1>. QED BY <1>1, HandshakesKeepTheirWord, PTL
===============================================================================
