----------------------------- MODULE MCPerformance -----------------------------
(* The instance of Performance.                                                *)
EXTENDS Performance

CONSTANTS r1, r2

\* One request through everything that can happen to it and to its body.
Body == [requests |-> {r1},
         answers |-> {"local", "send_error", "send_timeout", "ok", "refused",
                      "wrapped"},
         values |-> {"quiet", "tokens", "unknown", "error", "text", "thinking",
                     "stop", "message", "bad"},
         storeFails |-> FALSE, maxTime |-> 1, maxDay |-> 0]

\* Two records through the queue, the writer, failing inserts and the sweeps of
\* two days.
Table == [requests |-> {r1, r2}, answers |-> {"local"}, values |-> {},
          storeFails |-> TRUE, maxTime |-> 0, maxDay |-> 2]

BodyAndTable == {Body, Table}
===============================================================================
