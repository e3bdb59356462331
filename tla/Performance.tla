------------------------------ MODULE Performance ------------------------------
(***************************************************************************)
(* Request performance monitoring: the guard that follows an inference      *)
(* request to the end of its response body, the handle the gateway and the  *)
(* response parser report to, the registry of running requests, and the     *)
(* bounded queue, batch writer and retention sweep behind it.  Labels and   *)
(* phase names are left out; the times, the outcome, and where the record   *)
(* of a request ends up are kept.                                           *)
(***************************************************************************)
EXTENDS Integers, FiniteSets, Sequences

CONSTANTS Requests,
          Scenarios,       \* what may happen in a behaviour, see below
          QUEUE_SIZE, BATCH, RETRIES, ACTIVE_LIMIT, SWEEP,
          KEEP             \* days kept before the current one

ASSUME PerformanceAssumption ==
    /\ IsFiniteSet(Requests)
    /\ QUEUE_SIZE \in Nat \ {0} /\ BATCH \in Nat \ {0} /\ RETRIES \in Nat \ {0}
    /\ ACTIVE_LIMIT \in Nat /\ SWEEP \in Nat \ {0} /\ KEEP \in Nat

\* A scenario bounds what a behaviour contains: the requests that arrive, what
\* may answer them (see Request), what the parser may read in a body (see
\* observe_json), whether database calls may fail, and how far the clocks go.
ASSUME ScenarioAssumption ==
    Scenarios \subseteq
       [requests : SUBSET Requests,
        answers : SUBSET {"local", "send_error", "send_timeout", "ok", "refused",
                          "wrapped"},
        values : SUBSET {"quiet", "tokens", "unknown", "error", "text",
                         "thinking", "stop", "message", "bad"},
        storeFails : BOOLEAN, maxTime : Nat, maxDay : Nat]

None == -1
Errors == {"local_error", "http_error", "send_error", "send_timeout",
           "read_timeout", "stream_error"}
Outcomes == Errors \cup {"success", "incomplete", "aborted", "unknown"}

VARIABLES pc, observed,    \* request: where it is; is its body parsed?
          parser,          \* the parser of its body
          event,           \* its RequestState
          active,          \* the registry of running requests
          queue,           \* finished events waiting for the writer
          wpc, batch, tries, \* the writer; the events of its batch
          rows,            \* request_performance_events
          sweep,           \* min_day of a running retention sweep
          dropped, writeFailed, expired, persisted, activeDropped, parseFailed,
          now, day,        \* milliseconds; days of Singapore
          start, startDay, \* request: when it began
          seen,            \* history: what happened to the request
          scenario         \* the scenario of this behaviour

reqvars == <<pc, observed, parser, event, start, startDay, seen>>
writer == <<wpc, batch, tries>>
counters == <<dropped, writeFailed, expired, persisted, activeDropped, parseFailed>>
frame == <<now, day, scenario>>
vars == <<reqvars, active, queue, writer, rows, sweep, counters, frame>>

\* RequestState::default and the parts of PerformanceEvent that follow the
\* body.  "fresh": no content yet in the current batch of bytes; "coded": the
\* body is compressed, and a decoder is between it and the parser.
NewEvent == [outcome |-> "none", quality |-> "observed", upstream |-> FALSE,
             stream |-> FALSE, coded |-> FALSE, firstByte |-> None, firstContent |-> None,
             firstText |-> None, completed |-> None, last |-> None, gap |-> None,
             fresh |-> TRUE, batches |-> 0, tokens |-> FALSE, duration |-> None,
             speed |-> FALSE]

retention_day == day - KEEP

Init == /\ scenario \in Scenarios
        /\ pc = [r \in Requests |-> "idle"]
        /\ observed = [r \in Requests |-> FALSE]
        /\ parser = [r \in Requests |-> "open"]
        /\ event = [r \in Requests |-> NewEvent]
        /\ start = [r \in Requests |-> 0]
        /\ startDay = [r \in Requests |-> 0]
        /\ seen = [r \in Requests |-> {}]
        /\ active = {} /\ queue = << >> /\ rows = {}
        /\ wpc = "recv" /\ batch = {} /\ tries = 0
        /\ sweep = None
        /\ dropped = 0 /\ writeFailed = 0 /\ expired = 0
        /\ persisted = 0 /\ activeDropped = 0 /\ parseFailed = 0
        /\ now = 0 /\ day = 0

Members(s) == {s[i] : i \in 1..Len(s)}
Larger(a, b) == IF a >= b THEN a ELSE b
First(old, ms) == IF old = None THEN ms ELSE old
Elapsed(r) == now - start[r]
Note(r, fact) == seen' = [seen EXCEPT ![r] = @ \cup {fact}]
-------------------------------------------------------------------------------
(***************************************************************************)
(* What the gateway and the parser report through the handle.  Each is one  *)
(* call of PerformanceHandle::update, a step under the lock of the state.   *)
(***************************************************************************)
begin(r) ==
    /\ pc[r] = "idle" /\ r \in scenario.requests
    /\ pc' = [pc EXCEPT ![r] = "preparing"]
    /\ start' = [start EXCEPT ![r] = now]
    /\ startDay' = [startDay EXCEPT ![r] = day]
    /\ \/ /\ Cardinality(active) < ACTIVE_LIMIT
          /\ active' = active \cup {r}
          /\ UNCHANGED activeDropped
       \/ /\ Cardinality(active) >= ACTIVE_LIMIT
          /\ activeDropped' = activeDropped + 1
          /\ UNCHANGED active
    /\ UNCHANGED <<observed, parser, event, seen, queue, writer, rows, sweep,
                   dropped, writeFailed, expired, persisted, parseFailed, frame>>

\* failure: the first cause is kept.
failure(e, o) == IF e.outcome = "none" THEN [e EXCEPT !.outcome = o] ELSE e

\* PerformanceGuard::response, on a status that is no success.
ErrorStatus(e) ==
    failure(e, IF e.upstream THEN "http_error" ELSE "local_error")

Handed == <<active, queue, writer, rows, sweep, counters, frame, start,
            startDay, parser>>

\* Authentication, selection, slot or token failure: an answer of our own.
LocalReply(r) ==
    /\ pc[r] = "preparing"
    /\ event' = [event EXCEPT ![r] = ErrorStatus(event[r])]
    /\ pc' = [pc EXCEPT ![r] = "body"]
    /\ Note(r, "local_error")
    /\ UNCHANGED <<observed, Handed>>

\* The send to the upstream fails; 502 is answered.
SendFails(r, o) ==
    /\ pc[r] = "preparing"
    /\ event' = [event EXCEPT ![r] = ErrorStatus(failure(event[r], o))]
    /\ pc' = [pc EXCEPT ![r] = "body"]
    /\ Note(r, o)
    /\ UNCHANGED <<observed, Handed>>

\* upstream: the headers of the upstream have arrived.
Upstream(r, streaming, coded) ==
    /\ pc[r] = "preparing"
    /\ event' = [event EXCEPT ![r] = [@ EXCEPT !.upstream = TRUE, !.stream = streaming,
                                              !.coded = coded]]
    /\ pc' = [pc EXCEPT ![r] = "headers"]
    /\ UNCHANGED <<observed, seen, Handed>>

\* The response is handed to the client.  The body of a 429 or 5xx is a text
\* of our own, any other body is parsed on its way.
Reply(r, status) ==
    /\ pc[r] = "headers"
    /\ pc' = [pc EXCEPT ![r] = "body"]
    /\ observed' = [observed EXCEPT ![r] = status # "wrapped"]
    /\ \/ /\ status = "ok"
          /\ UNCHANGED <<event, seen>>
       \/ /\ status # "ok"
          /\ event' = [event EXCEPT ![r] = ErrorStatus(event[r])]
          /\ Note(r, "http_error")
    /\ UNCHANGED Handed

\* bytes: a chunk of the body, with or without complete events in it.
bytes(e, ms) == [e EXCEPT !.firstByte = First(@, ms), !.fresh = TRUE]
Bytes(r) ==
    /\ pc[r] = "body" /\ observed[r]
    /\ event' = [event EXCEPT ![r] = bytes(@, Elapsed(r))]
    /\ UNCHANGED <<pc, observed, seen, Handed>>

record_content(e, ms, text) ==
    [e EXCEPT !.gap = IF e.last = None THEN @ ELSE Larger(Larger(@, 0), ms - e.last),
              !.last = ms,
              !.firstContent = First(@, ms),
              !.firstText = IF text THEN First(@, ms) ELSE @,
              !.batches = IF e.fresh /\ @ < 2 THEN @ + 1 ELSE @,
              !.fresh = FALSE]

parse_failed(e) == [e EXCEPT !.quality = "parse_failed"]

\* observe_json on one value of the body; "bad" is what the parser cannot read,
\* reported with parse_failed.
observe_json(e, v, ms) ==
    CASE v = "tokens" -> [e EXCEPT !.tokens = TRUE]
      [] v = "error" -> [e EXCEPT !.outcome = "stream_error"]
      [] v = "unknown" -> [e EXCEPT !.quality = "partial"]
      [] v \in {"text", "thinking"} -> record_content(e, ms, v = "text")
      [] v \in {"stop", "message"} -> [e EXCEPT !.completed = ms]
      [] v = "bad" -> parse_failed(e)
      [] OTHER -> e

\* What an event stream and what a JSON body may consist of.
Streamed == scenario.values \ {"message"}
Whole == scenario.values \cap {"message", "error", "quiet", "bad"}

\* The parser has bytes to read and has not stopped reading.
Reading(r) == observed[r] /\ event[r].firstByte # None /\ parser[r] = "open"
BodyOnly == <<pc, observed, active, queue, writer, rows, sweep, counters, frame,
              start, startDay>>

\* An event stream is parsed value by value until message_stop or a line that
\* is not JSON.
Observe(r, v) ==
    /\ pc[r] = "body" /\ Reading(r) /\ event[r].stream
    /\ event' = [event EXCEPT ![r] = observe_json(@, v, Elapsed(r))]
    /\ parser' = [parser EXCEPT ![r] = CASE v = "stop" -> "done"
                                         [] v = "bad" -> "failed"
                                         [] OTHER -> "open"]
    /\ Note(r, v)
    /\ UNCHANGED BodyOnly

\* A chunk that cannot be decoded, also behind message_stop, or that makes a
\* JSON body longer than its limit: feed reports parse_failed.
Damaged(r) ==
    /\ pc[r] = "body" /\ observed[r] /\ event[r].firstByte # None
    /\ parser[r] # "failed"
    /\ event[r].coded \/ ~event[r].stream
    /\ event' = [event EXCEPT ![r] = parse_failed(@)]
    /\ parser' = [parser EXCEPT ![r] = "failed"]
    /\ Note(r, "bad")
    /\ UNCHANGED BodyOnly
-------------------------------------------------------------------------------
(***************************************************************************)
(* The end of a request: PerformanceGuard::finish.                          *)
(***************************************************************************)
\* The outcome of a request without a cause of failure.
MutVerdict(e, aborted) ==
    IF aborted THEN "aborted"
    ELSE IF e.completed # None THEN "success"
    ELSE IF e.quality = "parse_failed" \/ ~e.stream THEN "unknown"
    ELSE "incomplete"
Verdict(e, aborted) ==
    IF aborted THEN "aborted"
    ELSE IF e.quality = "parse_failed" THEN "unknown"
    ELSE IF e.completed # None THEN "success"
    ELSE IF e.stream THEN "incomplete"
    ELSE "unknown"

\* The output speed is only given for a stream that came in several batches.
HasSpeed(e) ==
    /\ e.outcome = "success" /\ e.quality = "observed" /\ e.stream
    /\ e.batches > 1
    /\ e.tokens /\ e.firstContent # None /\ e.completed > e.firstContent

\* snapshot: the silence since the last content is a gap as well.
TailGap(e, ms) ==
    IF e.last = None THEN e.gap
    ELSE Larger(Larger(e.gap, 0), First(e.completed, ms) - e.last)

Closed(e, ms, aborted) ==
    LET f == [failure(e, Verdict(e, aborted)) EXCEPT !.duration = ms,
                                                     !.gap = TailGap(e, ms)]
    IN  [f EXCEPT !.speed = HasSpeed(f)]

\* try_send: an event outside the retention is not queued, and neither is
\* one that finds the queue full.
TrySend(r) ==
    \/ /\ startDay[r] < retention_day
       /\ expired' = expired + 1
       /\ UNCHANGED <<queue, dropped>>
    \/ /\ startDay[r] >= retention_day
       /\ Len(queue) < QUEUE_SIZE
       /\ queue' = Append(queue, r)
       /\ UNCHANGED <<expired, dropped>>
    \/ /\ startDay[r] >= retention_day
       /\ Len(queue) = QUEUE_SIZE
       /\ dropped' = dropped + 1
       /\ UNCHANGED <<expired, queue>>

finish(r, e, aborted) ==
    /\ pc' = [pc EXCEPT ![r] = "ended"]
    /\ event' = [event EXCEPT ![r] = Closed(e, Elapsed(r), aborted)]
    /\ active' = active \ {r}
    /\ parseFailed' = parseFailed + (IF e.quality = "parse_failed" THEN 1 ELSE 0)
    /\ TrySend(r)
    /\ UNCHANGED <<observed, parser, start, startDay, writer, rows, sweep,
                   writeFailed, persisted, activeDropped, frame>>

\* The observer of the body is told that it is over just before the guard is.
\* The parser then reads what it still has: the last line of a stream, or the
\* whole of a JSON body.
LastValues(r) ==
    {"quiet"} \cup IF ~Reading(r) THEN {} ELSE IF event[r].stream THEN Streamed ELSE Whole

\* After that it may find the body invalid all the same, completed or not: the
\* decoder misses the end of a compressed body, which is forgiven if the client
\* left and usage had been read; or the usage in the last value is no usage.
MayFail(r, v, aborted) ==
    \/ /\ observed[r] /\ event[r].coded /\ parser[r] # "failed"
       /\ ~(aborted /\ event[r].stream /\ event[r].tokens)
    \/ Reading(r) /\ (event[r].stream => v = "tokens")

End(r, e, fact, aborted) ==
    \E v \in LastValues(r), bad \in BOOLEAN :
      LET read == observe_json(e, v, Elapsed(r))
      IN  /\ bad => MayFail(r, v, aborted)
          /\ finish(r, IF bad THEN parse_failed(read) ELSE read, aborted)
          /\ seen' = [seen EXCEPT ![r] = @ \cup {fact, v} \cup IF bad THEN {"bad"} ELSE {}]

\* The body has been read to its end.
BodyEnds(r) == pc[r] = "body" /\ End(r, event[r], "eof", FALSE)

\* Reading the upstream's body fails, which is reported before the parser is
\* asked for what it has.
ReadFails(r, o) ==
    /\ pc[r] = "body" /\ observed[r]
    /\ End(r, failure(event[r], o), o, FALSE)

\* The request's future or its body is dropped.
Drop(r) ==
    /\ pc[r] \in {"preparing", "headers", "body"}
    /\ End(r, event[r], "drop", TRUE)
-------------------------------------------------------------------------------
(***************************************************************************)
(* run_writer and the retention sweep.                                      *)
(***************************************************************************)
StoreOnly == <<reqvars, active, frame, activeDropped, parseFailed>>

\* A request is queued once and a batch is written in one transaction: the
\* batch is the set of its events.
Receive ==
    /\ wpc = "recv" /\ queue # << >> /\ Cardinality(batch) < BATCH
    /\ batch' = batch \cup {Head(queue)}
    /\ queue' = Tail(queue)
    /\ UNCHANGED <<StoreOnly, wpc, tries, rows, sweep, dropped, writeFailed,
                   expired, persisted>>

\* The batch is full or its 200 ms are over.
CloseBatch ==
    LET kept == {r \in batch : startDay[r] >= retention_day}
    IN  /\ wpc = "recv" /\ batch # {}
        /\ batch' = kept
        /\ expired' = expired + Cardinality(batch \ kept)
        /\ wpc' = IF kept = {} THEN "recv" ELSE "insert"
        /\ tries' = 0
        /\ UNCHANGED <<StoreOnly, queue, rows, sweep, dropped, writeFailed, persisted>>

\* insert_batch: one transaction, rows already there are left alone.
Insert ==
    /\ wpc = "insert"
    /\ rows' = rows \cup batch
    /\ persisted' = persisted + Cardinality(batch \ rows)
    /\ batch' = {}
    /\ wpc' = "recv"
    /\ UNCHANGED <<StoreOnly, queue, tries, sweep, dropped, writeFailed, expired>>

MutInsertFails ==
    /\ wpc = "insert" /\ scenario.storeFails
    /\ rows' \in {rows, rows \cup batch}
    /\ \/ /\ tries < RETRIES - 1
          /\ tries' = tries + 1
          /\ UNCHANGED <<wpc, batch, writeFailed>>
       \/ /\ tries = RETRIES - 1
          /\ writeFailed' = writeFailed + Cardinality(batch)
          /\ batch' = {} /\ wpc' = "recv"
          /\ UNCHANGED tries
    /\ UNCHANGED <<StoreOnly, queue, sweep, expired, persisted, dropped>>
MutRetryForever ==
    /\ wpc = "insert" /\ scenario.storeFails
    /\ rows' \in {rows, rows \cup batch}
    /\ UNCHANGED <<StoreOnly, queue, sweep, expired, persisted, writer, writeFailed,
                   dropped>>
\* It fails, possibly after the commit took effect; the last try drops the
\* batch.
InsertFails ==
    /\ wpc = "insert" /\ scenario.storeFails
    /\ rows' \in {rows, rows \cup batch}
    /\ \/ /\ tries < RETRIES - 1
          /\ tries' = tries + 1
          /\ UNCHANGED <<wpc, batch, writeFailed, dropped>>
       \/ /\ tries = RETRIES - 1
          /\ writeFailed' = writeFailed + Cardinality(batch)
          /\ dropped' = dropped + Cardinality(batch)
          /\ batch' = {} /\ wpc' = "recv"
          /\ UNCHANGED tries
    /\ UNCHANGED <<StoreOnly, queue, sweep, expired, persisted>>

MutSweepStarts ==
    /\ sweep = None
    /\ sweep' = retention_day - 1
    /\ \E r \in rows : startDay[r] < retention_day
    /\ UNCHANGED <<StoreOnly, queue, writer, rows, dropped, writeFailed, expired,
                   persisted>>
\* The hourly sweep; one that would find nothing to delete is left out.
SweepStarts ==
    /\ sweep = None
    /\ sweep' = retention_day
    /\ \E r \in rows : startDay[r] < retention_day
    /\ UNCHANGED <<StoreOnly, queue, writer, rows, dropped, writeFailed, expired,
                   persisted>>

\* delete_before: up to SWEEP rows, the oldest first; a full portion is
\* followed by another one.
DeleteBefore ==
    LET old == {r \in rows : startDay[r] < sweep}
    IN  /\ sweep # None
        /\ \E gone \in SUBSET old :
             /\ Cardinality(gone) = IF Cardinality(old) < SWEEP THEN Cardinality(old)
                                                               ELSE SWEEP
             /\ \A r \in gone, k \in old \ gone : startDay[r] <= startDay[k]
             /\ rows' = rows \ gone
             /\ sweep' = IF Cardinality(gone) = SWEEP THEN sweep ELSE None
        /\ UNCHANGED <<StoreOnly, queue, writer, dropped, writeFailed, expired,
                       persisted>>

SweepFails ==
    /\ sweep # None /\ scenario.storeFails
    /\ sweep' = None
    /\ UNCHANGED <<StoreOnly, queue, writer, rows, dropped, writeFailed, expired,
                   persisted>>
-------------------------------------------------------------------------------
Tick == /\ now < scenario.maxTime
        /\ now' = now + 1
        /\ UNCHANGED <<reqvars, active, queue, writer, rows, sweep, counters, day,
                       scenario>>
Midnight == /\ day < scenario.maxDay
            /\ day' = day + 1
            /\ UNCHANGED <<reqvars, active, queue, writer, rows, sweep, counters, now,
                           scenario>>

Replies == scenario.answers \cap {"ok", "refused", "wrapped"}
Request(r) ==
    \/ begin(r) \/ Bytes(r) \/ BodyEnds(r) \/ Drop(r)
    \/ "local" \in scenario.answers /\ LocalReply(r)
    \/ \E o \in scenario.answers \cap {"send_error", "send_timeout"} : SendFails(r, o)
    \/ \E b, c \in BOOLEAN : Replies # {} /\ Upstream(r, b, c)
    \/ \E s \in Replies : Reply(r, s)
    \/ Damaged(r)
    \/ \E v \in Streamed : Observe(r, v)
    \/ \E o \in {"read_timeout", "stream_error"} : ReadFails(r, o)
Writer == Receive \/ CloseBatch \/ Insert \/ InsertFails
Sweeper == SweepStarts \/ DeleteBefore \/ SweepFails

Next == \/ \E r \in Requests : Request(r)
        \/ Writer \/ Sweeper \/ Tick \/ Midnight

Spec == Init /\ [][Next]_vars

\* The writer and the sweep are spawned for the life of the process; a database
\* that fails does not fail for ever.
Fairness == /\ WF_vars(Receive) /\ WF_vars(CloseBatch) /\ WF_vars(Insert \/ InsertFails)
            /\ WF_vars(SweepStarts) /\ SF_vars(DeleteBefore)
FairSpec == Spec /\ Fairness
-------------------------------------------------------------------------------
Running == {r \in Requests : pc[r] \in {"preparing", "headers", "body"}}
Ended == {r \in Requests : pc[r] = "ended"}
Times == {None} \cup 0..scenario.maxTime

TypeOK ==
    /\ pc \in [Requests -> {"idle", "preparing", "headers", "body", "ended"}]
    /\ observed \in [Requests -> BOOLEAN]
    /\ parser \in [Requests -> {"open", "done", "failed"}]
    /\ \A r \in Requests :
          /\ event[r].outcome \in Outcomes \cup {"none"}
          /\ event[r].quality \in {"observed", "partial", "parse_failed"}
          /\ {event[r].firstByte, event[r].firstContent, event[r].firstText,
              event[r].completed, event[r].last, event[r].gap,
              event[r].duration} \subseteq Times
          /\ pc[r] = "ended" <=> event[r].duration # None
    /\ active \subseteq Requests /\ rows \subseteq Ended
    /\ Members(queue) \subseteq Ended /\ Len(queue) <= QUEUE_SIZE
    /\ batch \subseteq Ended /\ Cardinality(batch) <= BATCH
    /\ wpc \in {"recv", "insert"} /\ tries \in 0..(RETRIES - 1)
    /\ \A c \in {dropped, writeFailed, expired, persisted, activeDropped, parseFailed} :
          c \in 0..Cardinality(Requests)
    /\ now \in 0..scenario.maxTime /\ day \in 0..scenario.maxDay
    /\ sweep \in {None} \cup 1..scenario.maxDay

\* performance-monitoring.md:24, 30: every gap is counted.  A finished request
\* of the retained days is on its way to the table, in it, or among the dropped,
\* and nothing is counted twice.  A running request is in the registry until
\* the end of its body, or was counted when it found the registry full.
Missing == {r \in Ended : startDay[r] >= retention_day}
             \ (Members(queue) \cup batch \cup rows)
GapsCounted ==
    /\ Cardinality(Missing) <= dropped
    /\ persisted + expired + dropped + Len(queue) + Cardinality(batch) <= Cardinality(Ended)
    /\ active \subseteq Running
    /\ Cardinality(Running \ active) <= activeDropped

\* The outcomes of the error matrix (performance-monitoring.md:33-44): a known
\* error is never reported as anything else than an error; success takes the
\* model's end, the body's end and a body that was understood to its last byte,
\* also if what could not be understood came after the model's end.
Causes(r) == seen[r] \cap (Errors \cup {"error"})
OutcomeJustified(r) ==
    LET o == event[r].outcome
        toTheEnd == Causes(r) = {} /\ "eof" \in seen[r]
        completed == seen[r] \cap {"stop", "message"} # {}
    IN  /\ o \in Errors <=> Causes(r) # {}
        /\ Causes(r) = {} => (o = "aborted" <=> "drop" \in seen[r])
        /\ o = "success" <=> toTheEnd /\ completed /\ "bad" \notin seen[r]
        /\ o = "incomplete" => toTheEnd /\ ~completed /\ "bad" \notin seen[r]
        /\ o = "unknown" => toTheEnd /\ (completed => "bad" \in seen[r])

\* The times of one record are in order, and an output speed rests on a
\* positive span: performance-monitoring.md:25-26.
TimesOrdered(r) ==
    LET e == event[r]
    IN  /\ e.firstContent # None => e.firstByte <= e.firstContent
        /\ e.firstText # None => e.firstContent <= e.firstText
        /\ e.firstText # None <=> "text" \in seen[r]
        /\ e.completed # None => e.firstContent <= e.completed /\ e.completed <= e.duration
        /\ e.gap # None => e.gap <= First(e.completed, e.duration) - e.firstContent
        /\ e.speed => e.firstContent < e.completed /\ seen[r] \cap {"bad", "drop"} = {}

\* The record of a request says what happened to it, in whatever order its
\* status, its parser, a read error, the end of its body and a drop came.
RecordJustified == \A r \in Ended : OutcomeJustified(r) /\ TimesOrdered(r)

\* Every finished event leaves the queue and the writer: again and again both
\* are empty, whatever the database does.
RecordsSettle == []<>(queue = << >> /\ batch = {})

\* A row whose day is out of the retention is removed, also one that was
\* written after the sweep of its day.
OldRowsGo == []<>(\A r \in rows : startDay[r] >= retention_day)
===============================================================================
