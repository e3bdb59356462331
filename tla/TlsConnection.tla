----------------------------- MODULE TlsConnection -----------------------------
(***************************************************************************)
(* A client and a server of craftls over TCP, one connection after the     *)
(* other: the session stores of both ends survive a connection, everything *)
(* else starts anew.  A record stays in the sender's buffer until the      *)
(* other end processes it, so the buffer stands for the socket as well.    *)
(***************************************************************************)
EXTENDS TlsClient, TlsServer

CONSTANTS Scenarios,       \* by name: a client configuration, the server
                           \* configurations a connection may meet, how many
                           \* units each application writes in a connection
                           \* and which faults happen
          MaxConns,        \* connections in a behaviour
          MaxFaults        \* faults in a behaviour

\* The servers a client meets under one name have one certificate, and if one
\* of them requires client certificates all do, trusting the same: they share
\* their session stores, and nothing in a session says who accepted it.
ASSUME DeploymentAssumption ==
    \A d \in DOMAIN Scenarios : \A a, b \in Scenarios[d].servers :
        /\ a.sendTickets \in Nat
        /\ a.cert = b.cert
        /\ b.clientAuth = "required" => a.clientAuth = "required" /\ a.trusts = b.trusts

VARIABLES c, s,            \* the two endpoints
          closed,          \* the ends whose application has closed
          sentEarly,       \* the units the client wrote as early data
          scenario,
          faults           \* the faults so far: names of the actions below

vars == <<c, s, closed, sentEarly, scenario, faults>>

Init ==
    /\ scenario \in DOMAIN Scenarios
    /\ c = StartHandshake(1, Scenarios[scenario].client, EmptyStore, "young")
    /\ \E sc \in Scenarios[scenario].servers :
          s = NewServer(1, sc, EmptyServerStore(1), "young")
    /\ closed = {}
    /\ sentEarly = {}
    /\ faults = << >>

Failed(e) == e.err # "none"
Over == /\ c.out = << >> \/ Failed(s) \/ s.eof
        /\ s.out = << >> \/ Failed(c) \/ c.eof

\* A new connection of the same client, after the last one is over.  Tickets
\* may have aged, and the time to switch the ticket key may have passed.  The
\* server may have another configuration; if it was restarted its cache and
\* its ticket keys are new.
Connect(sc, age, event) ==
    /\ Over
    /\ c.n < MaxConns
    /\ LET store == CASE event = "restart" -> EmptyServerStore(s.store.key + 2)
                      [] event = "switch" -> [s.store EXCEPT !.due = TRUE]
                      [] event = "none" -> s.store IN
       s' = NewServer(c.n + 1, sc, store, age)
    /\ c' = StartHandshake(c.n + 1, c.cfg, c.store, age)
    /\ closed' = {}
    /\ sentEarly' = {}
    /\ UNCHANGED <<scenario, faults>>

(***************************************************************************)
(* process_new_packets.  After an error no record is processed any more.   *)
(***************************************************************************)
\* State::handle of the current state
Handle(e, m) == IF e.side = "client" THEN ClientHandle(e, m) ELSE ServerHandle(e, m)

\* process_main_protocol: after a TLS 1.2 handshake a renegotiation request is
\* refused with a warning.
ProcessMainProtocol(e, m) ==
    LET reneg == IF e.side = "client" THEN "HelloRequest" ELSE "ClientHello" IN
    IF e.mayRecv /\ ~IsTls13(e) /\ m.t = reneg
    THEN SendAlert(e, "warning", "NoRenegotiation")
    ELSE Handle(e, m)

\* process_msg: in TLS 1.3 the change-cipher-spec of middlebox compatibility is
\* dropped, a bounded number of times.
Dispatch(e, typ, m) ==
    IF typ = "ccs" /\ ~e.mayRecv /\ IsTls13(e)
    THEN IF Parses(m) /\ e.ccs <= Tls13MaxDroppedCcs THEN [e EXCEPT !.ccs = @ + 1]
                                                     ELSE Unexpected(e)
    ELSE IF ~Parses(m) THEN Fatal(e, "DecodeError")
    ELSE IF typ = "alert" THEN ProcessAlert(e, m)
    ELSE ProcessMainProtocol(e, m)

\* one record through process_new_packets
ProcessRecord(e, w) ==
    LET d == Deframe(e, w) IN
    CASE d.r = "pass" -> Dispatch(d.e, d.typ, d.m)
      [] d.r = "drop" -> d.e
      [] d.r = "bad"  -> Fatal(e, "BadRecordMac")
ClientReceives ==
    /\ s.out # << >> /\ ~Failed(c) /\ ~c.eof
    /\ c' = ProcessRecord(c, Head(s.out))
    /\ s' = [s EXCEPT !.out = Tail(@)]
    /\ UNCHANGED <<closed, sentEarly, scenario, faults>>

ServerReceives ==
    /\ c.out # << >> /\ ~Failed(s) /\ ~s.eof
    /\ s' = ProcessRecord(s, Head(c.out))
    /\ c' = [c EXCEPT !.out = Tail(@)]
    /\ UNCHANGED <<closed, sentEarly, scenario, faults>>

(***************************************************************************)
(* The applications.                                                       *)
(***************************************************************************)
MayWrite(e) ==
    /\ e.written < Scenarios[scenario].writes[e.side]
    /\ e.side \notin closed /\ ~Failed(e) /\ ~e.eof

ClientWrites ==
    /\ MayWrite(c)
    /\ c' = WritePlaintext(c)
    /\ UNCHANGED <<s, closed, sentEarly, scenario, faults>>
ServerWrites ==
    /\ MayWrite(s)
    /\ s' = WritePlaintext(s)
    /\ UNCHANGED <<c, closed, sentEarly, scenario, faults>>

ClientWritesEarly ==
    /\ MayWrite(c) /\ c.plain = << >>
    /\ CanWriteEarly(c)
    /\ c' = WriteEarlyData(c)
    /\ sentEarly' = sentEarly \cup {c'.written}
    /\ UNCHANGED <<s, closed, scenario, faults>>

\* an application closes once its side may send
Closes(e) == e.maySend /\ e.side \notin closed /\ ~Failed(e) /\ ~e.eof
ClientCloses ==
    /\ Closes(c)
    /\ c' = SendCloseNotify(c)
    /\ closed' = closed \cup {"client"}
    /\ UNCHANGED <<s, sentEarly, scenario, faults>>
ServerCloses ==
    /\ Closes(s)
    /\ s' = SendCloseNotify(s)
    /\ closed' = closed \cup {"server"}
    /\ UNCHANGED <<c, sentEarly, scenario, faults>>

(***************************************************************************)
(* Faults, and things only other TLS implementations do.                   *)
(***************************************************************************)
Fault(name) ==
    /\ Len(faults) < MaxFaults
    /\ name \in Scenarios[scenario].faults
    /\ faults' = Append(faults, name)

\* the TCP connection breaks: what was under way is lost, both ends see EOF
Breaks ==
    /\ ~c.eof
    /\ Fault("Breaks")
    /\ c' = [c EXCEPT !.eof = TRUE, !.out = << >>]
    /\ s' = [s EXCEPT !.eof = TRUE, !.out = << >>]
    /\ UNCHANGED <<closed, sentEarly, scenario>>

\* a peer sends a message that does not parse
Unparsable(m) == [k \in DOMAIN m \cup {"ok"} |-> IF k = "ok" THEN FALSE ELSE m[k]]
GarbledRecord(w) == [typ |-> w.typ, m |-> Unparsable(w.m), key |-> w.key]
Garbled(e) == [e EXCEPT !.out = <<GarbledRecord(Head(@))>> \o Tail(@)]
ClientGarbles ==
    /\ c.out # << >> /\ Fault("Garbles")
    /\ c' = Garbled(c)
    /\ UNCHANGED <<s, closed, sentEarly, scenario>>
ServerGarbles ==
    /\ s.out # << >> /\ Fault("Garbles")
    /\ s' = Garbled(s)
    /\ UNCHANGED <<c, closed, sentEarly, scenario>>

\* a peer that is another implementation updates its key and asks for ours
Rekeyed(e) == SetEncrypter(SendMsg(e, "handshake", KeyUpdate("Requested"), TRUE),
                           NextKey(e.enc[1]))
MayRekey(e) == e.st = "ExpectTraffic" /\ e.side \notin closed /\ e.queued = None
ClientRekeys ==
    /\ MayRekey(c) /\ Fault("Rekeys")
    /\ c' = Rekeyed(c)
    /\ UNCHANGED <<s, closed, sentEarly, scenario>>
ServerRekeys ==
    /\ MayRekey(s) /\ Fault("Rekeys")
    /\ s' = Rekeyed(s)
    /\ UNCHANGED <<c, closed, sentEarly, scenario>>

\* a TLS 1.2 server asks for a renegotiation
ServerRenegotiates ==
    /\ s.st = "ExpectTraffic12" /\ "server" \notin closed /\ Fault("Renegotiates")
    /\ s' = SendMsg(s, "handshake", [t |-> "HelloRequest", ok |-> TRUE], TRUE)
    /\ UNCHANGED <<c, closed, sentEarly, scenario>>

Next ==
    \/ \E sc \in Scenarios[scenario].servers, age \in {"young", "skewed", "expired"},
          event \in {"none", "switch", "restart"} : Connect(sc, age, event)
    \/ ClientReceives \/ ServerReceives
    \/ ClientWrites \/ ServerWrites \/ ClientWritesEarly
    \/ ClientCloses \/ ServerCloses
    \/ Breaks \/ ClientGarbles \/ ServerGarbles
    \/ ClientRekeys \/ ServerRekeys \/ ServerRenegotiates

Spec == Init /\ [][Next]_vars

-----------------------------------------------------------------------------
Traffic(e) == e.st \in {"ExpectTraffic", "ExpectTraffic12"}

TypeOK ==
    /\ c.side = "client" /\ s.side = "server" /\ c.n = s.n /\ c.n \in 1..MaxConns
    /\ c.ver \in {0, 12, 13} /\ s.ver \in {0, 12, 13}
    /\ closed \subseteq {"client", "server"}
    /\ sentEarly \subseteq 1..c.written

\* Two ends that both reached traffic agree on everything they negotiated:
\* version, suite, protocol, the secrets both directions are keyed from, the
\* whole handshake, and whether a session was resumed; and the client holds
\* the identity of this server.
Resumed(e) == IF e.side = "server" THEN e.hs.psk # None \/ e.hs.resuming
                                   ELSE e.hs.resuming # None
Agreement ==
    Traffic(c) /\ Traffic(s) =>
        /\ c.ver = s.ver /\ c.suite = s.suite /\ c.alpn = s.alpn
        /\ c.tr = s.tr
        /\ Resumed(c) = Resumed(s)
        /\ IsTls13(c) => c.hs.sec = s.hs.fin
        /\ ~IsTls13(c) => c.hs.ms = s.hs.ms
        /\ c.cert = s.cfg.cert

\* No end accepts application data from a peer it has not authenticated:
\* the client's peer certificate is one it trusts, and so is the server's
\* when it insists on client certificates, in a resumed session too.
Authenticated ==
    /\ Traffic(c) => c.cert \in c.cfg.trusts
    /\ Traffic(s) /\ s.cfg.clientAuth = "required" => s.cert \in s.cfg.trusts
    /\ c.received # << >> => c.cert \in c.cfg.trusts

\* Application data is never sent in the clear, and data the client did not
\* give for the purpose is never sent under the early keys.
DataProtected ==
    \A e \in {c, s} : \A i \in DOMAIN e.out :
        LET w == e.out[i] IN
        w.typ = "app" =>
            /\ w.key # None
            /\ w.key[1].k \in {"traffic", "tls12", "early"}
            /\ w.key[1].k = "early" <=> e.side = "client" /\ w.m.i \in sentEarly

\* What an application reads is what the other wrote, in order and once; and
\* when the end of the stream is reported cleanly nothing is missing but
\* early data the server refused.
Increasing(seq) == \A i, j \in DOMAIN seq : i < j => seq[i] < seq[j]
Delivered(e) == Range(e.early) \cup Range(e.received)
Refused == IF s.hs.ed = "Accepted" THEN {} ELSE sentEarly
StreamIntact ==
    \A e \in {c, s} :
        LET peer == IF e.side = "client" THEN s ELSE c IN
        /\ Increasing(e.received) /\ Increasing(e.early)
        /\ Range(e.early) \cap Range(e.received) = {}
        /\ Delivered(e) \subseteq 1..peer.written
        /\ e.closeNotify => (1..peer.written) \ Delivered(e)
                               = IF e.side = "server" THEN Refused ELSE {}

\* Two ends with something in common never fail each other.  The exceptions
\* are the peer's faults, an alert that overtook a queued key update, and
\* rejected early data of more than the allowance, counted as ciphertext.
CommonVersion == ChooseVersion(s, [vers |-> c.cfg.vers])
Declares == Range(Declared(c.cfg.fp.groups, c.cfg.groups))
Compatible ==
    LET group == FirstIn(s.cfg.groups, Declares)
        shared == {x \in Range(s.cfg.suites) \cap Range(Declared(c.cfg.fp.suites, c.cfg.suites)) :
                      SuiteVersion(x) = CommonVersion} IN
    /\ CommonVersion # 0
    /\ shared # {} /\ shared \subseteq Range(c.cfg.suites)
    /\ group # None /\ Startable(c.cfg, group[1])
    /\ c.cfg.alpn = << >> \/ s.cfg.alpn = << >> \/ Range(c.cfg.alpn) \cap Range(s.cfg.alpn) # {}
    /\ s.cfg.cert \in c.cfg.trusts
    /\ s.cfg.clientAuth = "required" => c.cfg.auth # "none"
    /\ s.cfg.clientAuth # "none" => c.cfg.auth \in s.cfg.trusts \cup {"none"}
Allowance == MaxEarlyDataSize(s.cfg)
Excused ==
    \/ \E i \in DOMAIN faults : faults[i] = "Garbles"
    \/ c.queued # None \/ s.queued # None
    \/ s.hs.ed # "Accepted" /\ Cardinality(sentEarly) * EarlyRecordLen > Allowance
CompatibleEndsConnect == Compatible /\ ~Excused => ~Failed(c) /\ ~Failed(s)

\* The two ends never wait for each other: when no record is under way, both
\* have reached traffic or one of them has reported an error or the end of
\* the connection.
Settled == (Traffic(c) /\ Traffic(s)) \/ Failed(c) \/ Failed(s) \/ c.eof
NeverStuck == Over => Settled
=============================================================================
