------------------------------- MODULE Telemetry -------------------------------
(***************************************************************************)
(* Automatic telemetry and the fingerprint audit of one account.  A request *)
(* registers with the account's telemetry session and is reported in an     *)
(* event batch once the usage observer has seen it complete; the session    *)
(* lives in a map under a mutex, and a loop spawned with it batches, times  *)
(* out and ends it.  Every step is also told to the audit, through a        *)
(* bounded queue that drops what does not fit, and a worker keeps the       *)
(* number of requests in flight.                                            *)
(*                                                                          *)
(* Instants are relative: how long something has lasted or still has to     *)
(* last, up to the bound the code compares it with.  What an event or an    *)
(* audit record says, and the hourly tallies, are left out.                 *)
(***************************************************************************)
EXTENDS Integers, FiniteSets, Sequences

CONSTANTS Requests,        \* inference requests, with unique attempt ids
          SESSION_TTL, EVENT_BATCH_INTERVAL, GROWTHBOOK_INTERVAL,
          PENDING_HARD_TIMEOUT,
          Jitters,         \* what the loop may add between two batches
          EVENT_BATCH_MAX_COMPLETIONS,
          COMPLETION_QUEUE, AUDIT_QUEUE_CAPACITY

ASSUME TelemetryAssumption ==
    /\ IsFiniteSet(Requests)
    /\ {SESSION_TTL, EVENT_BATCH_INTERVAL, GROWTHBOOK_INTERVAL,
        PENDING_HARD_TIMEOUT, EVENT_BATCH_MAX_COMPLETIONS, COMPLETION_QUEUE,
        AUDIT_QUEUE_CAPACITY} \subseteq Nat \ {0}
    /\ Jitters \subseteq Nat /\ Jitters # {}

VARIABLES pc,           \* request: where its handler or its body is
          enabled,      \* request: UsageAttempt::telemetry_enabled
          guard,        \* request: AuditRequestGuard::active
          session,      \* the account's entry in sessions: << >> or <<record>>
          loops,        \* the telemetry loops that run, in the order of spawning
          growthbook,   \* time until the next growthbook_eval is due
          completions,  \* the channel of CompletedInferenceObservation
          audit,        \* the channel of AuditMessage
          inFlight,     \* in_flight of the audit worker
          reported,     \* history: request -> how often a batch contained it
          dropped       \* history: has the audit dropped a message?

requestVars == <<pc, enabled, guard>>
auditVars == <<audit, dropped>>
vars == <<requestVars, session, loops, growthbook, completions, auditVars,
          inFlight, reported>>

Init == /\ pc = [r \in Requests |-> "new"]
        /\ enabled = [r \in Requests |-> FALSE]
        /\ guard = [r \in Requests |-> FALSE]
        /\ session = << >> /\ loops = << >> /\ growthbook = 0
        /\ completions = << >> /\ audit = << >> /\ inFlight = 0
        /\ reported = [r \in Requests |-> 0]
        /\ dropped = FALSE

Has(opt) == opt # << >>
Smaller(a, b) == IF a <= b THEN a ELSE b
Before(n) == IF n = 0 THEN 0 ELSE n - 1
-------------------------------------------------------------------------------
(***************************************************************************)
(* FingerprintAudit.  An observation that finds the queue full is dropped   *)
(* and counted; a step that makes several fills up what is left.            *)
(***************************************************************************)
Room == AUDIT_QUEUE_CAPACITY - Len(audit)
try_send(messages) ==
    /\ audit' = audit \o SubSeq(messages, 1, Smaller(Room, Len(messages)))
    /\ dropped' = (dropped \/ Len(messages) > Room)

\* observe_telemetry, n times; observe_session and observe_count_tokens are
\* told apart from a Request and its end only.
Observed(n) == [i \in 1..n |-> "other"]

\* begin_request: the guard is active if the Request message was accepted.
MutBeginRequest(r) ==
    /\ pc[r] = "new"
    /\ pc' = [pc EXCEPT ![r] = "resolving"]
    /\ guard' = [guard EXCEPT ![r] = TRUE]
    /\ try_send(<<"request">>)
    /\ UNCHANGED <<enabled, session, loops, growthbook, completions, inFlight,
                   reported>>
begin_request(r) ==
    /\ pc[r] = "new"
    /\ pc' = [pc EXCEPT ![r] = "resolving"]
    /\ guard' = [guard EXCEPT ![r] = Room > 0]
    /\ try_send(<<"request">>)
    /\ UNCHANGED <<enabled, session, loops, growthbook, completions, inFlight,
                   reported>>

\* response, send_failed, or the guard's Drop: one end for an active guard.
finish(r) ==
    /\ guard' = [guard EXCEPT ![r] = FALSE]
    /\ IF guard[r] THEN try_send(<<"end">>) ELSE UNCHANGED auditVars

\* A count_tokens request of somebody.
observe_count_tokens ==
    /\ try_send(Observed(1))
    /\ UNCHANGED <<requestVars, session, loops, growthbook, completions, inFlight,
                   reported>>

\* audit_worker and apply_message.  An hourly summary clears the tallies and
\* leaves inFlight alone.
apply_message ==
    /\ audit # << >>
    /\ audit' = Tail(audit)
    /\ inFlight' = CASE Head(audit) = "request" -> inFlight + 1
                     [] Head(audit) = "end" -> Before(inFlight)
                     [] OTHER -> inFlight
    /\ UNCHANGED <<requestVars, session, loops, growthbook, completions, dropped,
                   reported>>
-------------------------------------------------------------------------------
(***************************************************************************)
(* The gateway's side: the handler of an inference request.                 *)
(***************************************************************************)
\* No upstream token: the request ends here.
ResolveFails(r) ==
    /\ pc[r] = "resolving"
    /\ pc' = [pc EXCEPT ![r] = "done"]
    /\ finish(r)
    /\ UNCHANGED <<enabled, session, loops, growthbook, completions, inFlight,
                   reported>>

\* An account without auto_telemetry, or a caller without an API token.
Unregistered(r) ==
    /\ pc[r] = "resolving"
    /\ pc' = [pc EXCEPT ![r] = "sending"]
    /\ UNCHANGED <<enabled, guard, session, loops, growthbook, completions,
                   auditVars, inFlight, reported>>

\* activate_session, under the lock: a session that exists is renewed, or a
\* new one is inserted and its loop spawned.  pending maps a request to the
\* time it has been registered.
Registration(r) == <<r, 0>>
NewSession(r) == [ttl |-> SESSION_TTL, pending |-> {Registration(r)}, ready |-> << >>,
                  batchIn |-> 0, jitter |-> 0]
Renewed(s, r) == [s EXCEPT !.ttl = SESSION_TTL, !.pending = @ \cup {Registration(r)}]
activate_session(r) ==
    /\ pc[r] = "resolving"
    /\ pc' = [pc EXCEPT ![r] = "sending"]
    /\ enabled' = [enabled EXCEPT ![r] = TRUE]
    /\ \/ /\ Has(session)
          /\ session' = <<Renewed(session[1], r)>>
          /\ try_send(Observed(1))
          /\ UNCHANGED loops
       \/ /\ ~Has(session)
          /\ session' = <<NewSession(r)>>
          /\ loops' = Append(loops, [at |-> "tick", batch |-> << >>])
          /\ try_send(Observed(2))
    /\ UNCHANGED <<guard, growthbook, completions, inFlight, reported>>

\* The send fails.  The guard is finished; the telemetry is cancelled in a
\* second step, once the lock is there.
SendFails(r) ==
    /\ pc[r] = "sending"
    /\ pc' = [pc EXCEPT ![r] = IF enabled[r] THEN "cancelling" ELSE "done"]
    /\ finish(r)
    /\ UNCHANGED <<enabled, session, loops, growthbook, completions, inFlight,
                   reported>>

Registered(s, r) == {p \in s.pending : p[1] = r}
Removed(s, r) == [s EXCEPT !.pending = @ \ Registered(s, r)]
cancel_request(r) ==
    /\ pc[r] = "cancelling"
    /\ pc' = [pc EXCEPT ![r] = "done"]
    /\ IF Has(session) /\ Registered(session[1], r) # {}
       THEN /\ session' = <<Removed(session[1], r)>>
            /\ try_send(Observed(1))
       ELSE UNCHANGED <<session, auditVars>>
    /\ UNCHANGED <<enabled, guard, loops, growthbook, completions, inFlight,
                   reported>>

Responds(r) ==
    /\ pc[r] = "sending"
    /\ pc' = [pc EXCEPT ![r] = "responded"]
    /\ finish(r)
    /\ UNCHANGED <<enabled, session, loops, growthbook, completions, inFlight,
                   reported>>

\* The client goes away at an await of the handler: its future is dropped, and
\* nobody cancels the telemetry.
HandlerDropped(r) ==
    /\ pc[r] \in {"resolving", "sending", "cancelling", "responded"}
    /\ pc' = [pc EXCEPT ![r] = "done"]
    /\ finish(r)
    /\ UNCHANGED <<enabled, session, loops, growthbook, completions, inFlight,
                   reported>>

\* The observer finalizes the body: send_completion from submit, with tokens,
\* or from complete_without_usage.  "usage" is a 2xx with tokens.
send_completion(r, usage) ==
    /\ pc[r] = "responded"
    /\ pc' = [pc EXCEPT ![r] = IF usage THEN "usage" ELSE "done"]
    /\ IF ~enabled[r] THEN UNCHANGED <<completions, auditVars>>
       ELSE IF Len(completions) < COMPLETION_QUEUE
       THEN /\ completions' = Append(completions, [request |-> r, usage |-> usage])
            /\ UNCHANGED auditVars
       ELSE /\ try_send(Observed(1))
            /\ UNCHANGED completions
    /\ UNCHANGED <<enabled, guard, session, loops, growthbook, inFlight, reported>>
-------------------------------------------------------------------------------
(***************************************************************************)
(* completion_loop: an observation whose registration is gone is ignored.   *)
(***************************************************************************)
MutCompleted(s, c) == [s EXCEPT !.ready = IF c.usage THEN Append(@, c.request) ELSE @]
Completed(s, c) ==
    [Removed(s, c.request) EXCEPT
       !.ready = IF c.usage THEN Append(@, c.request) ELSE @]
completion_loop ==
    /\ completions # << >>
    /\ completions' = Tail(completions)
    /\ LET c == Head(completions)
       IN  IF Has(session) /\ Registered(session[1], c.request) # {}
           THEN /\ session' = <<Completed(session[1], c)>>
                /\ try_send(Observed(1))
           ELSE UNCHANGED <<session, auditVars>>
    /\ UNCHANGED <<requestVars, loops, growthbook, inFlight, reported>>
-------------------------------------------------------------------------------
(***************************************************************************)
(* telemetry_loop: one tick under the lock, which is given up for the       *)
(* requests to the upstream.                                                *)
(***************************************************************************)
Stale(s) == {p \in s.pending : p[2] >= PENDING_HARD_TIMEOUT}
MutExpireStalePending(s) == s
expire_stale_pending(s) == [s EXCEPT !.pending = @ \ Stale(s)]

Over(s) == s.ttl = 0 /\ s.pending = {} /\ s.ready = << >>
BatchDue(s) == s.ready # << >> /\ s.batchIn = 0 /\ s.jitter = 0

Ended(l) == [i \in 1..(Len(loops) - 1) |-> IF i < l THEN loops[i] ELSE loops[i + 1]]
At(l, place, batch) == [loops EXCEPT ![l] = [at |-> place, batch |-> batch]]

\* The session is idle and over: it is removed, and the loop ends with it.
Expire(l, s, told) ==
    /\ Over(s)
    /\ session' = << >> /\ loops' = Ended(l)
    /\ try_send(Observed(told + 1))
    /\ UNCHANGED <<growthbook, reported>>

\* Two events for each completion: its query and its success.
build_event_batch(completed) ==
    [i \in 1..(2 * Len(completed)) |->
        [name |-> IF i % 2 = 1 THEN "tengu_api_query" ELSE "tengu_api_success",
         request |-> completed[(i + 1) \div 2]]]
Successes(events, r) ==
    {i \in DOMAIN events : events[i] = [name |-> "tengu_api_success", request |-> r]}

\* event_logging/v2/batch: the oldest completions leave the session for good.
TakeBatch(l, s, told) ==
    LET n == Smaller(EVENT_BATCH_MAX_COMPLETIONS, Len(s.ready))
        batch == SubSeq(s.ready, 1, n)
    IN  /\ ~Over(s) /\ BatchDue(s)
        /\ \E j \in Jitters :
              session' = <<[s EXCEPT !.ready = SubSeq(@, n + 1, Len(@)),
                                     !.batchIn = EVENT_BATCH_INTERVAL, !.jitter = j]>>
        /\ loops' = At(l, "event_batch", batch)
        /\ reported' = [r \in Requests |->
              reported[r] + Cardinality(Successes(build_event_batch(batch), r))]
        /\ try_send(Observed(told))
        /\ UNCHANGED growthbook

\* api/eval, at most once in GROWTHBOOK_INTERVAL, whichever session asks.
EvalGrowthbook(l, s, told) ==
    /\ ~Over(s) /\ ~BatchDue(s) /\ growthbook = 0
    /\ growthbook' = GROWTHBOOK_INTERVAL
    /\ session' = <<s>> /\ loops' = At(l, "growthbook_eval", << >>)
    /\ try_send(Observed(told))
    /\ UNCHANGED reported

\* Nothing to send: build_metrics never has a metric, and is skipped.
build_metrics == << >>
Idle(l, s, told) ==
    /\ ~Over(s) /\ ~BatchDue(s) /\ growthbook > 0 /\ build_metrics = << >>
    /\ session' = <<s>>
    /\ try_send(Observed(told))
    /\ UNCHANGED <<loops, growthbook, reported>>

\* A loop that finds no session ends.
telemetry_loop(l) ==
    /\ loops[l].at = "tick"
    /\ IF Has(session)
       THEN LET s == expire_stale_pending(session[1])
                told == Cardinality(Stale(session[1]))
            IN  \/ Expire(l, s, told) \/ TakeBatch(l, s, told)
                \/ EvalGrowthbook(l, s, told) \/ Idle(l, s, told)
       ELSE /\ loops' = Ended(l)
            /\ UNCHANGED <<session, growthbook, auditVars, reported>>
    /\ UNCHANGED <<requestVars, completions, inFlight>>

\* send_telemetry returns, with an answer or an error: the audit is told, and
\* the loop goes on.  What was in a failed batch is not sent again.
SendReturns(l) ==
    /\ loops[l].at # "tick"
    /\ try_send(Observed(1 + Len(loops[l].batch)))
    /\ loops' = At(l, "tick", << >>)
    /\ UNCHANGED <<requestVars, session, growthbook, completions, inFlight, reported>>

\* Time passes.
Older(s) == [s EXCEPT !.ttl = Before(@), !.batchIn = Before(@), !.jitter = Before(@),
                      !.pending = {<<p[1], Smaller(p[2] + 1, PENDING_HARD_TIMEOUT)>> :
                                     p \in s.pending}]
Tick ==
    /\ session' = [i \in DOMAIN session |-> Older(session[i])]
    /\ growthbook' = Before(growthbook)
    /\ UNCHANGED <<requestVars, loops, completions, auditVars, inFlight, reported>>
-------------------------------------------------------------------------------
Handler(r) ==
    \/ begin_request(r) \/ ResolveFails(r) \/ Unregistered(r) \/ activate_session(r)
    \/ SendFails(r) \/ cancel_request(r) \/ Responds(r) \/ HandlerDropped(r)
    \/ \E usage \in BOOLEAN : send_completion(r, usage)
Loop == \E l \in DOMAIN loops : telemetry_loop(l) \/ SendReturns(l)

Next == \/ \E r \in Requests : Handler(r)
        \/ observe_count_tokens \/ apply_message \/ completion_loop \/ Loop \/ Tick

\* The tasks are polled, their timers fire, the upstream answers or the client
\* gives up, and time goes on.  Nothing is assumed of the handlers.
Spec == /\ Init /\ [][Next]_vars
        /\ WF_vars(completion_loop) /\ WF_vars(Loop) /\ WF_vars(Tick)
-------------------------------------------------------------------------------
Count(s, m) == Cardinality({i \in DOMAIN s : s[i] = m})
Places(r) == reported[r] + (IF Has(session)
                            THEN Cardinality(Registered(session[1], r))
                                 + Count(session[1].ready, r)
                            ELSE 0)

\* A request is reported in at most one event batch, and only if it completed
\* with usage; before that it is in at most one place of the session.  The
\* observer, the gateway, the time-out or nobody may end its registration, in
\* any order.  A session has one loop, also when a request opens a new one
\* while the loop of the last is about to end.
ReportedOnce ==
    /\ \A r \in Requests : /\ Places(r) <= 1
                           /\ reported[r] > 0 => pc[r] = "usage"
    /\ Len(loops) = Len(session)

\* No request keeps a session alive for ever: a request whose handler vanished
\* is timed out, a completed one is sent, and then the session and its loop
\* end.
SessionsEnd == []<>(session = << >> /\ loops = << >>)

\* README.md:529: in_flight_at_end counts the requests whose end was not
\* recorded.  What the worker knows and what is on its way to it never falls
\* short of the requests that run, and exceeds them only if the audit has
\* dropped a message.
InFlightCovers ==
    LET known == inFlight + Count(audit, "request") - Count(audit, "end")
        running == Cardinality({r \in Requests : guard[r]})
    IN  /\ known >= running
        /\ ~dropped => known = running
================================================================================
