-------------------------------- MODULE MCTls --------------------------------
(***************************************************************************)
(* Instances of TlsConnection: the Node.js fingerprint of the gateway, a   *)
(* browser fingerprint that offers sessions and early data, a client with  *)
(* a certificate and a TLS 1.2 client, against deployments of servers.     *)
(***************************************************************************)
EXTENDS TlsConnection

ABrowser ==
    [vers |-> {12, 13}, groups |-> <<"x25519", "p256">>, fake |-> {},
     suites |-> <<"aes128", "aes256", "ecdhe12">>, alpn |-> <<"h2", "http/1.1">>,
     auth |-> "none", early |-> TRUE, tickets12 |-> TRUE, trusts |-> {"good"},
     fp |-> [keep |-> {"psk", "early_data", "ems", "ticket"}, groups |-> None,
             suites |-> None, shares |-> <<"x25519">>]]
\* build_tls_config: x25519mlkem768 first, x448 declared but fake, and only
\* an x25519 share in the fingerprint
NodeJs ==
    [ABrowser EXCEPT !.groups = <<"mlkem", "x25519", "p256", "x448">>, !.fake = {"x448"},
                     !.early = FALSE, !.alpn = << >>,
                     !.fp = [keep |-> {"ems", "ticket"},
                             groups |-> Some(<<"mlkem", "x25519", "p256", "x448">>),
                             suites |-> Some(<<"aes256", "aes128", "ecdhe12">>),
                             shares |-> <<"x25519">>]]
Certified == [ABrowser EXCEPT !.auth = "cc", !.early = FALSE]
Old == [ABrowser EXCEPT !.vers = {12}, !.suites = <<"ecdhe12">>, !.early = FALSE,
                        !.alpn = << >>, !.auth = "cc"]
\* a fingerprint without a place for the session ticket
Ticketless == [Certified EXCEPT !.fp.keep = {"psk", "early_data", "ems"}]

AServer ==
    [vers |-> {12, 13}, groups |-> <<"x25519">>, suites |-> <<"aes128", "ecdhe12">>,
     ownOrder |-> FALSE, alpn |-> <<"h2">>, cert |-> "good", clientAuth |-> "none",
     trusts |-> {"cc"}, ticketer |-> FALSE, cache |-> TRUE, maxEarly |-> 2,
     halfRtt |-> TRUE, sendTickets |-> 1, ocsp |-> FALSE, refuse |-> FALSE]

\* early data, switched off or refused later; a server that wants another
\* group, and one that prefers another suite
EarlyServers ==
    {AServer,
     [AServer EXCEPT !.maxEarly = 0],
     [AServer EXCEPT !.refuse = TRUE, !.alpn = <<"http/1.1", "h2">>],
     [AServer EXCEPT !.groups = <<"p256">>, !.halfRtt = FALSE, !.sendTickets = 2]}
TicketServers ==
    {[AServer EXCEPT !.ticketer = TRUE],
     [AServer EXCEPT !.ownOrder = TRUE, !.suites = <<"aes256", "aes128", "ecdhe12">>,
                     !.cache = FALSE]}
OldServers ==
    {[AServer EXCEPT !.vers = {12}, !.ocsp = TRUE, !.ticketer = TRUE],
     [AServer EXCEPT !.vers = {12}]}
CarefulServers ==
    {[AServer EXCEPT !.clientAuth = "required", !.maxEarly = 0]}
CuriousServers ==
    {[AServer EXCEPT !.clientAuth = "optional", !.maxEarly = 0, !.ticketer = TRUE]}
\* versions and client authentication change between connections
SwitchingServers ==
    {AServer,
     [AServer EXCEPT !.clientAuth = "optional", !.maxEarly = 0],
     [AServer EXCEPT !.vers = {12}, !.clientAuth = "optional", !.ticketer = TRUE]}
\* servers this client cannot or must not talk to
Strange(field) ==
    CASE field = "cert" -> [AServer EXCEPT !.cert = "bad"]
      [] field = "alpn" -> [AServer EXCEPT !.alpn = <<"smtp">>]
      [] field = "fake" -> [AServer EXCEPT !.groups = <<"x448">>]
      [] field = "group" -> [AServer EXCEPT !.groups = <<"ffdhe">>]
      [] field = "suite" -> [AServer EXCEPT !.vers = {13}, !.suites = <<"chacha20">>]

Scenario(client, servers, writes, allowed) ==
    [client |-> client, servers |-> servers, faults |-> allowed,
     writes |-> [client |-> writes[1], server |-> writes[2]]]
MCScenarios ==
    [d \in {"early", "ticket", "node", "old", "upgrade", "careful", "curious", "careful12",
            "switch", "ticketless", "cert", "alpn", "fake", "group", "suite"} |->
        CASE d = "early" -> Scenario(ABrowser, EarlyServers, <<2, 1>>, {"Breaks"})
          [] d = "ticket" -> Scenario(ABrowser, TicketServers, <<1, 1>>, {"Rekeys"})
          [] d = "node" -> Scenario(NodeJs, EarlyServers, <<1, 1>>, {"Garbles"})
          [] d = "old" -> Scenario(Old, OldServers, <<1, 1>>, {"Renegotiates", "Breaks"})
          [] d = "upgrade" -> Scenario(NodeJs, OldServers, <<1, 0>>, {"Garbles"})
          [] d = "careful" -> Scenario(Certified, CarefulServers, <<1, 1>>, {"Breaks", "Garbles"})
          [] d = "curious" -> Scenario(ABrowser, CuriousServers, <<1, 1>>, {})
          [] d = "careful12" -> Scenario(Old, CarefulServers, <<1, 1>>, {})
          [] d = "switch" -> Scenario(Certified, SwitchingServers, <<1, 1>>, {"Breaks"})
          [] d = "ticketless" -> Scenario(Ticketless, SwitchingServers, <<1, 0>>, {})
          [] d = "fake" -> Scenario(NodeJs, {Strange(d)}, <<1, 1>>, {})
          [] OTHER -> Scenario(ABrowser, {Strange(d)}, <<1, 1>>, {})]
=============================================================================
