--------------------------- MODULE PerformanceProofs ---------------------------
(***************************************************************************)
(* The record of a finished request is justified by what happened to it,    *)
(* and no record is lost uncounted: for any number of requests, any         *)
(* scenario, any limits, any clock and any length of a body.  The first     *)
(* part follows one record to its end, the second the queue, the writer,    *)
(* the table and the counters.                                              *)
(***************************************************************************)
EXTENDS Performance, FiniteSetTheorems, SequenceTheorems, TLAPS

PCs == {"idle", "preparing", "headers", "body", "ended"}
Time == Nat \cup {None}
Qualities == {"observed", "partial", "parse_failed"}
Events == [outcome : Outcomes \cup {"none"}, quality : Qualities,
           upstream : BOOLEAN, stream : BOOLEAN, coded : BOOLEAN,
           firstByte : Time, firstContent : Time, firstText : Time,
           completed : Time, last : Time, gap : Time,
           fresh : BOOLEAN, batches : Nat, tokens : BOOLEAN,
           duration : Time, speed : BOOLEAN]
Values == {"quiet", "tokens", "unknown", "error", "text", "thinking", "stop",
           "message", "bad"}
Parsers == {"open", "done", "failed"}
Facts == Errors \cup Values \cup {"eof", "drop"}
Answers == {"local", "send_error", "send_timeout", "ok", "refused", "wrapped"}

\* The types of what the record is made of.
RecordTypeOK ==
    /\ pc \in [Requests -> PCs]
    /\ parser \in [Requests -> Parsers]
    /\ event \in [Requests -> Events]
    /\ seen \in [Requests -> SUBSET Facts]
    /\ start \in [Requests -> Nat]
    /\ now \in Nat
    /\ \A r \in Requests : start[r] <= now
    /\ scenario.answers \subseteq Answers /\ scenario.values \subseteq Values

\* Before its response is handed on, a request has no cause, no body and no
\* time.
Untouched(e, s, q) ==
    /\ s = {} /\ q = "open"
    /\ e.outcome = "none" /\ e.quality = "observed"
    /\ e.firstByte = None /\ e.firstContent = None /\ e.firstText = None
    /\ e.completed = None /\ e.last = None /\ e.gap = None /\ e.duration = None

\* While the body is read: the outcome is open or is an error that was seen;
\* a body is marked as failed exactly if something in it could not be read,
\* and completed exactly if the model's end was seen, each of them with or
\* without the other, and each closes the parser.
Told(e, s, q) ==
    /\ e.outcome \in Errors \cup {"none"}
    /\ e.outcome \in Errors <=> s \cap (Errors \cup {"error"}) # {}
    /\ "eof" \notin s /\ "drop" \notin s
    /\ "bad" \in s <=> e.quality = "parse_failed"
    /\ "bad" \in s => q = "failed"
    /\ e.completed # None <=> s \cap {"stop", "message"} # {}
    /\ e.completed # None => q # "open"
    /\ e.firstText # None <=> "text" \in s

\* The times of a running record, ms milliseconds after its start.
Timed(e, ms) ==
    /\ e.firstByte <= ms /\ e.firstText <= ms /\ e.completed <= ms /\ e.last <= ms
    /\ e.duration = None
    /\ e.firstContent # None => e.firstByte # None /\ e.firstByte <= e.firstContent
    /\ e.firstText # None => e.firstContent # None /\ e.firstContent <= e.firstText
    /\ e.firstContent # None <=> e.last # None
    /\ e.firstContent <= e.last
    /\ e.completed # None => e.last <= e.completed
    /\ e.gap # None => e.last # None /\ e.gap <= e.last - e.firstContent

\* The times of a closed record.
Dated(e, ms) ==
    /\ e.firstByte <= ms /\ e.firstContent <= ms /\ e.firstText <= ms
    /\ e.completed <= ms /\ e.last <= ms /\ e.gap <= ms /\ e.duration <= ms
    /\ e.duration # None

InBody(e, s, q, ms) == Told(e, s, q) /\ Timed(e, ms)

\* The inductive invariant of the records.  RecordJustified speaks of ended requests only and
\* is not inductive: it needs what is known of a request before its end.
Followed ==
    \A r \in Requests :
      /\ pc[r] \in {"idle", "preparing", "headers"} => Untouched(event[r], seen[r], parser[r])
      /\ pc[r] = "body" => InBody(event[r], seen[r], parser[r], now - start[r])
      /\ pc[r] = "ended" => /\ OutcomeJustified(r) /\ TimesOrdered(r)
                            /\ Dated(event[r], now)
RInv == RecordTypeOK /\ Followed
-------------------------------------------------------------------------------
(***************************************************************************)
(* The operators on one record.                                            *)
(***************************************************************************)

\* failure, which the gateway and the parser report with, keeps the type of a
\* record, its first cause and everything but the outcome.
LEMMA FailureKeeps ==
    ASSUME NEW e \in Events, NEW o \in Outcomes
    PROVE  /\ failure(e, o) \in Events
           /\ failure(e, o).outcome = IF e.outcome = "none" THEN o ELSE e.outcome
           /\ failure(e, o).quality = e.quality
           /\ failure(e, o).stream = e.stream
           /\ failure(e, o).firstByte = e.firstByte
           /\ failure(e, o).firstContent = e.firstContent
           /\ failure(e, o).firstText = e.firstText
           /\ failure(e, o).completed = e.completed
           /\ failure(e, o).last = e.last
           /\ failure(e, o).gap = e.gap
           /\ failure(e, o).duration = e.duration
  BY DEF failure, Events

\* A failure changes no time.
LEMMA FailureTimed ==
    ASSUME NEW e \in Events, NEW o \in Outcomes, NEW ms \in Nat, Timed(e, ms)
    PROVE  Timed(failure(e, o), ms)
  BY FailureKeeps DEF Timed

\* ErrorStatus is a failure of the request, whoever answers it.
LEMMA ErrorStatusIsFailure ==
    ASSUME NEW e \in Events
    PROVE  \E o \in Errors : ErrorStatus(e) = failure(e, o)
  BY DEF ErrorStatus, Errors

\* An error answered before the body: the record enters its body with a cause.
LEMMA ErrorStarts ==
    ASSUME NEW e \in Events, NEW ms \in Nat, NEW o \in Errors, NEW c \in Errors,
           Untouched(e, {}, "open")
    PROVE  /\ failure(e, o) \in Events
           /\ InBody(failure(e, o), {c}, "open", ms)
  <1>1. o \in Outcomes BY DEF Outcomes
  <1>2. failure(e, o).outcome = o BY <1>1, FailureKeeps DEF Untouched
  <1>3. Told(failure(e, o), {c}, "open")
    BY <1>1, <1>2, FailureKeeps DEF Untouched, Told, Errors
  <1>4. Timed(failure(e, o), ms)
    BY <1>1, FailureKeeps DEF Untouched, Timed, None
  <1> QED BY <1>1, <1>3, <1>4, FailureKeeps DEF InBody

\* A success handed on: the body starts with nothing known.
LEMMA BodyStarts ==
    ASSUME NEW e \in Events, NEW ms \in Nat, Untouched(e, {}, "open")
    PROVE  InBody(e, {}, "open", ms)
  BY DEF Untouched, InBody, Told, Timed, None, Errors

\* A record of a running body stays one while the clock advances.
LEMMA BodyWaits ==
    ASSUME NEW e \in Events, NEW s, NEW q, NEW ms \in Nat, InBody(e, s, q, ms)
    PROVE  InBody(e, s, q, ms + 1)
  BY DEF InBody, Told, Timed, None, Events, Time

\* A chunk of the body: bytes sets the first byte once.
LEMMA BytesKeep ==
    ASSUME NEW e \in Events, NEW s, NEW q, NEW ms \in Nat, InBody(e, s, q, ms)
    PROVE  bytes(e, ms) \in Events /\ InBody(bytes(e, ms), s, q, ms)
  <1>1. bytes(e, ms) \in Events
    <2> DEFINE t == First(e.firstByte, ms)
    <2>1. e.firstByte \in Time BY DEF Events
    <2>2. t \in Time BY <2>1 DEF Time, First
    <2>3. bytes(e, ms) = [e EXCEPT !.firstByte = t, !.fresh = TRUE] BY DEF bytes
    <2> HIDE DEF t
    <2> QED BY <2>2, <2>3 DEF Events
  <1>2. Told(bytes(e, ms), s, q) BY DEF bytes, InBody, Told, Events
  <1>3. Timed(bytes(e, ms), ms) BY DEF bytes, InBody, Timed, Events, Time, First, None
  <1> QED BY <1>1, <1>2, <1>3 DEF InBody

\* The gap before a piece of content, and the larger of two times.
LEMMA LargerIs ==
    ASSUME NEW a \in Int, NEW b \in Int
    PROVE  Larger(a, b) \in {a, b} /\ Larger(a, b) >= a /\ Larger(a, b) >= b
  BY DEF Larger

\* record_content: what a piece of text or thinking does to a record.
LEMMA ContentKeeps ==
    ASSUME NEW e \in Events, NEW s \in SUBSET Facts, NEW ms \in Nat,
           NEW v \in {"text", "thinking"},
           InBody(e, s, "open", ms), e.firstByte # None
    PROVE  LET f == record_content(e, ms, v = "text")
           IN  f \in Events /\ InBody(f, s \cup {v}, "open", ms)
  <1> DEFINE f == record_content(e, ms, v = "text")
             gap == IF e.last = None THEN e.gap
                    ELSE Larger(Larger(e.gap, 0), ms - e.last)
  <1>0. e.completed = None BY DEF InBody, Told
  <1>1. gap \in Time
    <2>1. CASE e.last = None BY <2>1 DEF Events
    <2>2. CASE e.last # None
      <3>1. ms - e.last \in Int /\ e.gap \in Int BY <2>2 DEF Events, Time, None
      <3>2. Larger(e.gap, 0) \in Nat BY <3>1, LargerIs
      <3>3. Larger(Larger(e.gap, 0), ms - e.last) \in Nat BY <3>1, <3>2, LargerIs
      <3> QED BY <2>2, <3>3 DEF Time
    <2> QED BY <2>1, <2>2
  <1>2. First(e.firstContent, ms) \in Time /\ First(e.firstText, ms) \in Time
    BY DEF First, Events, Time
  <1>3. ms \in Time BY DEF Time
  <1>4. /\ f.outcome = e.outcome /\ f.quality = e.quality
        /\ f.firstByte = e.firstByte /\ f.completed = e.completed
        /\ f.last = ms /\ f.gap = gap
        /\ f.firstContent = First(e.firstContent, ms)
        /\ f.firstText = (IF v = "text" THEN First(e.firstText, ms) ELSE e.firstText)
        /\ f.duration = e.duration
    BY DEF record_content, Events
  <1>5. f \in Events
    <2> DEFINE n == IF e.fresh /\ e.batches < 2 THEN e.batches + 1 ELSE e.batches
               t == IF v = "text" THEN First(e.firstText, ms) ELSE e.firstText
    <2>1. n \in Nat BY DEF Events
    <2>2. t \in Time BY <1>2 DEF Events
    <2>3. f = [e EXCEPT !.gap = gap, !.last = ms,
                        !.firstContent = First(e.firstContent, ms),
                        !.firstText = t, !.batches = n, !.fresh = FALSE]
      BY DEF record_content, Events
    <2> HIDE DEF n, t, gap, f
    <2> QED BY <1>1, <1>2, <1>3, <2>1, <2>2, <2>3 DEF Events
  <1>6. Told(f, s \cup {v}, "open")
    <2>1. f.firstText # None <=> "text" \in s \cup {v}
      BY <1>4 DEF InBody, Told, First, None
    <2> HIDE DEF f, gap
    <2> QED BY <1>0, <1>4, <2>1 DEF InBody, Told, Errors
  <1>7. Timed(f, ms)
    <2>1. e.firstContent \in Int /\ e.last \in Int /\ e.gap \in Int /\ e.firstByte \in Int
          /\ e.firstText \in Int
      BY DEF Events, Time, None
    <2>2. gap # None => gap <= ms - First(e.firstContent, ms)
      <3>1. CASE e.last = None BY <3>1 DEF InBody, Timed
      <3>2. CASE e.last # None
        <4>1. First(e.firstContent, ms) = e.firstContent
          BY <3>2 DEF First, InBody, Timed
        <4>2. /\ e.gap <= ms - e.firstContent /\ 0 <= ms - e.firstContent
              /\ ms - e.last <= ms - e.firstContent
          BY <2>1, <3>2 DEF InBody, Timed, None
        <4>3. Larger(e.gap, 0) \in {e.gap, 0} BY <2>1, LargerIs
        <4>4. gap \in {e.gap, 0, ms - e.last}
          BY <2>1, <3>2, <4>3, LargerIs
        <4> QED BY <4>1, <4>2, <4>4
      <3> QED BY <3>1, <3>2
    <2> HIDE DEF f, gap
    <2>3. e.completed # None => FALSE BY <1>0
    <2> QED BY <1>0, <1>4, <2>1, <2>2 DEF InBody, Timed, First, None
  <1> QED BY <1>5, <1>6, <1>7 DEF InBody

\* observe_json: one value of the body, read by an open parser.
LEMMA ObserveKeeps ==
    ASSUME NEW e \in Events, NEW s \in SUBSET Facts, NEW ms \in Nat,
           NEW v \in Values, NEW q \in Parsers,
           InBody(e, s, "open", ms), e.firstByte # None,
           v \in {"stop", "message"} => q # "open", v = "bad" => q = "failed"
    PROVE  LET f == observe_json(e, v, ms)
           IN  f \in Events /\ InBody(f, s \cup {v}, q, ms)
  <1> DEFINE f == observe_json(e, v, ms)
  <1>0. /\ e.completed = None /\ "bad" \notin s /\ s \cap {"stop", "message"} = {}
        /\ e.quality # "parse_failed"
    BY DEF InBody, Told
  <1>1. CASE v = "tokens"
    <2>1. f = [e EXCEPT !.tokens = TRUE] BY <1>1 DEF observe_json
    <2>2. f \in Events BY <2>1 DEF Events
    <2>3. Told(f, s \cup {v}, q) BY <1>0, <1>1, <2>1 DEF InBody, Told, Events, Errors
    <2>4. Timed(f, ms) BY <2>1 DEF InBody, Timed, Events
    <2> QED BY <2>2, <2>3, <2>4 DEF InBody
  <1>2. CASE v = "error"
    <2>1. f = [e EXCEPT !.outcome = "stream_error"] BY <1>2 DEF observe_json
    <2>2. f \in Events BY <2>1 DEF Events, Outcomes, Errors
    <2>3. Told(f, s \cup {v}, q) BY <1>0, <1>2, <2>1 DEF InBody, Told, Events, Errors
    <2>4. Timed(f, ms) BY <2>1 DEF InBody, Timed, Events
    <2> QED BY <2>2, <2>3, <2>4 DEF InBody
  <1>3. CASE v = "unknown"
    <2>1. f = [e EXCEPT !.quality = "partial"] BY <1>3 DEF observe_json
    <2>2. f \in Events BY <2>1 DEF Events, Qualities
    <2>3. Told(f, s \cup {v}, q) BY <1>0, <1>3, <2>1 DEF InBody, Told, Events, Errors
    <2>4. Timed(f, ms) BY <2>1 DEF InBody, Timed, Events
    <2> QED BY <2>2, <2>3, <2>4 DEF InBody
  <1>4. CASE v \in {"text", "thinking"}
    <2>1. f = record_content(e, ms, v = "text") BY <1>4 DEF observe_json
    <2>2. f \in Events /\ InBody(f, s \cup {v}, "open", ms)
      BY <1>4, <2>1, ContentKeeps
    <2>3. f.completed = None /\ "bad" \notin s \cup {v}
      BY <1>0, <1>4, <2>1 DEF record_content, Events
    <2>4. InBody(f, s \cup {v}, q, ms)
      <3> HIDE DEF f
      <3> QED BY <2>2, <2>3 DEF InBody, Told
    <2> QED BY <2>2, <2>4
  <1>5. CASE v \in {"stop", "message"}
    <2>1. f = [e EXCEPT !.completed = ms] BY <1>5 DEF observe_json
    <2>2. f \in Events BY <2>1 DEF Events, Time
    <2>3. Told(f, s \cup {v}, q)
      BY <1>0, <1>5, <2>1 DEF InBody, Told, Events, Errors, None
    <2>4. Timed(f, ms) BY <2>1 DEF InBody, Timed, Events
    <2> QED BY <2>2, <2>3, <2>4 DEF InBody
  <1>6. CASE v = "bad"
    <2>1. f = [e EXCEPT !.quality = "parse_failed"]
      BY <1>6 DEF observe_json, parse_failed
    <2>2. f \in Events BY <2>1 DEF Events, Qualities
    <2>3. Told(f, s \cup {v}, q) BY <1>0, <1>6, <2>1 DEF InBody, Told, Events, Errors
    <2>4. Timed(f, ms) BY <2>1 DEF InBody, Timed, Events
    <2> QED BY <2>2, <2>3, <2>4 DEF InBody
  <1>7. CASE v = "quiet"
    <2>1. f = e BY <1>7 DEF observe_json
    <2>2. Told(f, s \cup {v}, q) BY <1>0, <1>7, <2>1 DEF InBody, Told, Errors
    <2> QED BY <2>1, <2>2 DEF InBody
  <1> QED BY <1>1, <1>2, <1>3, <1>4, <1>5, <1>6, <1>7 DEF Values

\* parse_failed: a body, completed or not, turns out to be invalid.
LEMMA ParseFailedKeeps ==
    ASSUME NEW e \in Events, NEW s \in SUBSET Facts, NEW q \in Parsers, NEW ms \in Nat,
           InBody(e, s, q, ms)
    PROVE  /\ parse_failed(e) \in Events
           /\ InBody(parse_failed(e), s \cup {"bad"}, "failed", ms)
  <1> DEFINE f == parse_failed(e)
  <1>1. f = [e EXCEPT !.quality = "parse_failed"] BY DEF parse_failed
  <1>2. f \in Events BY <1>1 DEF Events, Qualities
  <1>3. Told(f, s \cup {"bad"}, "failed") BY <1>1 DEF InBody, Told, Events, Errors
  <1>4. Timed(f, ms) BY <1>1 DEF InBody, Timed, Events
  <1> QED BY <1>2, <1>3, <1>4 DEF InBody

\* What is read at the end of a body, and what is found invalid after it, keep
\* a record of a running body one.
LEMMA LastReadKeeps ==
    ASSUME NEW e \in Events, NEW s \in SUBSET Facts, NEW q \in Parsers, NEW ms \in Nat,
           NEW v \in Values, NEW bad \in BOOLEAN,
           InBody(e, s, q, ms), v # "quiet" => e.firstByte # None /\ q = "open"
    PROVE  LET read == observe_json(e, v, ms)
               f == IF bad THEN parse_failed(read) ELSE read
               t == s \cup {v} \cup IF bad THEN {"bad"} ELSE {}
           IN  f \in Events /\ t \in SUBSET Facts /\ \E p \in Parsers : InBody(f, t, p, ms)
  <1> DEFINE read == observe_json(e, v, ms)
  <1>1. read \in Events /\ \E p \in Parsers : InBody(read, s \cup {v}, p, ms)
    <2>1. CASE v = "quiet"
      <3>1. read = e BY <2>1 DEF observe_json
      <3>2. Told(e, s \cup {v}, q) BY <2>1 DEF InBody, Told, Errors
      <3> QED BY <3>1, <3>2 DEF InBody
    <2>2. CASE v # "quiet"
      <3> DEFINE p == IF v = "bad" THEN "failed" ELSE "done"
      <3>1. p \in Parsers /\ p # "open" /\ (v = "bad" => p = "failed") BY DEF Parsers
      <3> HIDE DEF p
      <3> QED BY <2>2, <3>1, ObserveKeeps
    <2> QED BY <2>1, <2>2
  <1>2. s \cup {v} \in SUBSET Facts /\ s \cup {v} \cup {"bad"} \in SUBSET Facts
    BY DEF Facts, Values
  <1> HIDE DEF read
  <1>3. PICK p \in Parsers : InBody(read, s \cup {v}, p, ms) BY <1>1
  <1>4. CASE bad
    <2>1. /\ parse_failed(read) \in Events
          /\ InBody(parse_failed(read), (s \cup {v}) \cup {"bad"}, "failed", ms)
      BY <1>1, <1>2, <1>3, ParseFailedKeeps
    <2>2. "failed" \in Parsers BY DEF Parsers
    <2> QED BY <1>2, <1>4, <2>1, <2>2 DEF read
  <1>5. CASE ~bad
    <2>1. s \cup {v} \cup {} = s \cup {v} OBVIOUS
    <2> QED BY <1>1, <1>2, <1>3, <1>5, <2>1 DEF read
  <1> QED BY <1>4, <1>5

\* A read error is a cause of a running body like any other.
LEMMA FailureInBody ==
    ASSUME NEW e \in Events, NEW s \in SUBSET Facts, NEW q \in Parsers, NEW ms \in Nat,
           NEW o \in {"read_timeout", "stream_error"}, InBody(e, s, q, ms)
    PROVE  /\ failure(e, o) \in Events /\ failure(e, o).firstByte = e.firstByte
           /\ s \cup {o} \in SUBSET Facts
           /\ InBody(failure(e, o), s \cup {o}, q, ms)
  <1>1. o \in Errors /\ o \in Outcomes BY DEF Errors, Outcomes
  <1>2. Timed(failure(e, o), ms) BY <1>1, FailureTimed DEF InBody
  <1>3. Told(failure(e, o), s \cup {o}, q)
    BY <1>1, FailureKeeps DEF InBody, Told, Errors
  <1> QED BY <1>1, <1>2, <1>3, FailureKeeps DEF InBody, Facts

\* The silence at the end is no longer than what follows the first content.
LEMMA TailGapFits ==
    ASSUME NEW e \in Events, NEW ms \in Nat, Timed(e, ms)
    PROVE  /\ TailGap(e, ms) \in Time
           /\ TailGap(e, ms) # None =>
                 TailGap(e, ms) <= First(e.completed, ms) - e.firstContent
  <1> DEFINE end == First(e.completed, ms)
  <1>1. e.gap \in Int /\ e.last \in Int /\ e.firstContent \in Int /\ end \in Int
    BY DEF Events, Time, None, First
  <1>2. CASE e.last = None
    BY <1>2 DEF TailGap, Timed, Events
  <1>3. CASE e.last # None
    <2>1. e.last <= end /\ e.firstContent <= e.last
      BY DEF Timed, First
    <2>2. Larger(e.gap, 0) \in {e.gap, 0} /\ Larger(e.gap, 0) >= 0
      BY <1>1, LargerIs
    <2>3. e.gap <= end - e.firstContent
      BY <1>1, <1>3, <2>1 DEF Timed, None
    <2> HIDE DEF end
    <2>4. end - e.last \in Int BY <1>1
    <2>5. Larger(Larger(e.gap, 0), end - e.last) \in {Larger(e.gap, 0), end - e.last}
          /\ Larger(Larger(e.gap, 0), end - e.last) >= Larger(e.gap, 0)
      BY <1>1, <2>2, <2>4, LargerIs
    <2>6. TailGap(e, ms) = Larger(Larger(e.gap, 0), end - e.last)
      BY <1>3 DEF TailGap, end
    <2>7. TailGap(e, ms) \in Nat BY <1>1, <2>2, <2>4, <2>5, <2>6
    <2>8. TailGap(e, ms) <= end - e.firstContent
      BY <1>1, <2>1, <2>2, <2>3, <2>5, <2>6
    <2> QED BY <2>7, <2>8 DEF Time, end
  <1> QED BY <1>2, <1>3

\* What OutcomeJustified and TimesOrdered say, of a record and a history.
Justified(e, s) ==
    LET causes == s \cap (Errors \cup {"error"})
        toTheEnd == causes = {} /\ "eof" \in s
        completed == s \cap {"stop", "message"} # {}
    IN  /\ e.outcome \in Errors <=> causes # {}
        /\ causes = {} => (e.outcome = "aborted" <=> "drop" \in s)
        /\ e.outcome = "success" <=> toTheEnd /\ completed /\ "bad" \notin s
        /\ e.outcome = "incomplete" => toTheEnd /\ ~completed /\ "bad" \notin s
        /\ e.outcome = "unknown" => toTheEnd /\ (completed => "bad" \in s)
InOrder(e, s) ==
    /\ e.firstContent # None => e.firstByte <= e.firstContent
    /\ e.firstText # None => e.firstContent <= e.firstText
    /\ e.firstText # None <=> "text" \in s
    /\ e.completed # None => e.firstContent <= e.completed /\ e.completed <= e.duration
    /\ e.gap # None => e.gap <= First(e.completed, e.duration) - e.firstContent
    /\ e.speed => e.firstContent < e.completed /\ s \cap {"bad", "drop"} = {}

\* They are the parts of RecordJustified.
LEMMA JustifiedIs ==
    ASSUME NEW r
    PROVE  /\ OutcomeJustified(r) <=> Justified(event[r], seen[r])
           /\ TimesOrdered(r) <=> InOrder(event[r], seen[r])
  BY DEF OutcomeJustified, TimesOrdered, Justified, InOrder, Causes

\* The fields of a closed record.
LEMMA ClosedFields ==
    ASSUME NEW e \in Events, NEW ms \in Nat, NEW aborted \in BOOLEAN, Timed(e, ms)
    PROVE  LET c == Closed(e, ms, aborted)
           IN  /\ c \in Events
               /\ c.outcome = IF e.outcome = "none" THEN Verdict(e, aborted)
                                                   ELSE e.outcome
               /\ c.firstByte = e.firstByte /\ c.firstContent = e.firstContent
               /\ c.firstText = e.firstText /\ c.completed = e.completed
               /\ c.duration = ms /\ c.gap = TailGap(e, ms) /\ c.last = e.last
               /\ c.speed => /\ c.outcome = "success" /\ c.completed > c.firstContent
                             /\ e.quality = "observed"
  <1> DEFINE g == failure(e, Verdict(e, aborted))
             f == [g EXCEPT !.duration = ms, !.gap = TailGap(e, ms)]
             c == [f EXCEPT !.speed = HasSpeed(f)]
  <1>1. Verdict(e, aborted) \in Outcomes BY DEF Verdict, Outcomes
  <1>2. /\ g \in Events
        /\ g.outcome = IF e.outcome = "none" THEN Verdict(e, aborted) ELSE e.outcome
        /\ g.firstByte = e.firstByte /\ g.firstContent = e.firstContent
        /\ g.firstText = e.firstText /\ g.completed = e.completed /\ g.last = e.last
        /\ g.quality = e.quality
    BY <1>1, FailureKeeps
  <1>3. TailGap(e, ms) \in Time /\ ms \in Time BY TailGapFits DEF Time
  <1>4. c = Closed(e, ms, aborted) BY DEF Closed
  <1> HIDE DEF g
  <1>5. /\ f \in Events /\ f.outcome = g.outcome
        /\ f.firstByte = g.firstByte /\ f.firstContent = g.firstContent
        /\ f.firstText = g.firstText /\ f.completed = g.completed
        /\ f.duration = ms /\ f.gap = TailGap(e, ms) /\ f.last = g.last
        /\ f.quality = g.quality
    BY <1>2, <1>3 DEF Events
  <1> HIDE DEF f
  <1>6. HasSpeed(f) \in BOOLEAN BY DEF HasSpeed
  <1>7. /\ c \in Events /\ c.outcome = f.outcome
        /\ c.firstByte = f.firstByte /\ c.firstContent = f.firstContent
        /\ c.firstText = f.firstText /\ c.completed = f.completed
        /\ c.duration = f.duration /\ c.gap = f.gap /\ c.last = f.last
        /\ c.speed = HasSpeed(f)
    BY <1>5, <1>6 DEF Events
  <1>8. HasSpeed(f) => /\ f.outcome = "success" /\ f.completed > f.firstContent
                       /\ f.quality = "observed"
    BY DEF HasSpeed
  <1> HIDE DEF c
  <1>9. /\ c \in Events
        /\ c.outcome = IF e.outcome = "none" THEN Verdict(e, aborted) ELSE e.outcome
        /\ c.firstByte = e.firstByte /\ c.firstContent = e.firstContent
        /\ c.firstText = e.firstText /\ c.completed = e.completed
        /\ c.duration = ms /\ c.gap = TailGap(e, ms) /\ c.last = e.last
        /\ c.speed => /\ c.outcome = "success" /\ c.completed > c.firstContent
                      /\ e.quality = "observed"
    BY <1>2, <1>5, <1>7, <1>8
  <1> QED BY <1>4, <1>9

\* No time of a closed record is later than its end.
LEMMA ClosedDated ==
    ASSUME NEW e \in Events, NEW ms \in Nat, NEW aborted \in BOOLEAN,
           NEW n \in Nat, ms <= n, Timed(e, ms)
    PROVE  Dated(Closed(e, ms, aborted), n)
  <1> DEFINE c == Closed(e, ms, aborted)
  <1>1. /\ c.firstByte = e.firstByte /\ c.firstContent = e.firstContent
        /\ c.firstText = e.firstText /\ c.completed = e.completed
        /\ c.duration = ms /\ c.gap = TailGap(e, ms) /\ c.last = e.last
    BY ClosedFields
  <1>2. /\ e.firstByte \in Time /\ e.firstContent \in Time /\ e.firstText \in Time
        /\ e.completed \in Time /\ e.last \in Time
    BY DEF Events
  <1>3. TailGap(e, ms) \in Time /\ TailGap(e, ms) <= n
    <2>1. CASE TailGap(e, ms) = None BY <2>1 DEF None, Time
    <2>2. CASE e.last # None /\ TailGap(e, ms) # None
      <3>1. e.firstContent >= 0 /\ First(e.completed, ms) <= ms
            /\ First(e.completed, ms) \in Int
        BY <1>2, <2>2 DEF Timed, First, Time, None
      <3> QED BY <1>2, <2>2, <3>1, TailGapFits DEF Time, None
    <2>3. CASE e.last = None
      BY <2>3, TailGapFits DEF TailGap, Timed, None
    <2> QED BY <2>1, <2>2, <2>3
  <1> HIDE DEF c
  <1>4. Dated(c, n) BY <1>1, <1>2, <1>3 DEF Timed, Dated, Time, None
  <1> QED BY <1>4 DEF c

\* The times of a closed record are in order; only a request that was not
\* dropped, and whose body could be read, has a speed.
LEMMA ClosedInOrder ==
    ASSUME NEW e \in Events, NEW s, NEW ms \in Nat, NEW aborted \in BOOLEAN,
           Timed(e, ms), e.outcome \in Errors \cup {"none"},
           e.firstText # None <=> "text" \in s, "drop" \in s => aborted,
           "bad" \in s => e.quality = "parse_failed"
    PROVE  InOrder(Closed(e, ms, aborted), s)
  <1> DEFINE c == Closed(e, ms, aborted)
  <1>1. /\ c.outcome = IF e.outcome = "none" THEN Verdict(e, aborted) ELSE e.outcome
        /\ c.firstByte = e.firstByte /\ c.firstContent = e.firstContent
        /\ c.firstText = e.firstText /\ c.completed = e.completed
        /\ c.duration = ms /\ c.gap = TailGap(e, ms) /\ c.last = e.last
        /\ c.speed => /\ c.outcome = "success" /\ c.completed > c.firstContent
                      /\ e.quality = "observed"
    BY ClosedFields
  <1> HIDE DEF c
  <1>2. c.speed => ~aborted
    BY <1>1 DEF Verdict, Errors
  <1>3. e.firstContent \in Int /\ e.completed \in Int BY DEF Events, Time, None
  <1>4. c.speed => c.firstContent < c.completed /\ s \cap {"bad", "drop"} = {}
    BY <1>1, <1>2, <1>3
  <1>5. c.gap # None => c.gap <= First(c.completed, c.duration) - c.firstContent
    BY <1>1, TailGapFits
  <1>6. c.completed # None => c.firstContent <= c.completed /\ c.completed <= c.duration
    <2>1. e.last \in Int BY DEF Events, Time, None
    <2> QED BY <1>1, <1>3, <2>1 DEF Timed
  <1>7. /\ c.firstContent # None => c.firstByte <= c.firstContent
        /\ c.firstText # None => c.firstContent <= c.firstText
        /\ c.firstText # None <=> "text" \in s
    BY <1>1 DEF Timed
  <1>8. InOrder(c, s) BY <1>4, <1>5, <1>6, <1>7 DEF InOrder
  <1> QED BY <1>8 DEF c

\* finish at the end of the body or by a drop: the outcome is the cause seen
\* before, or the verdict.
LEMMA EndIsJustified ==
    ASSUME NEW e \in Events, NEW s \in SUBSET Facts, NEW q, NEW ms \in Nat,
           NEW aborted \in BOOLEAN, InBody(e, s, q, ms)
    PROVE  LET c == Closed(e, ms, aborted)
               t == s \cup {IF aborted THEN "drop" ELSE "eof"}
           IN  c \in Events /\ Justified(c, t) /\ InOrder(c, t)
  <1> DEFINE c == Closed(e, ms, aborted)
             t == s \cup {IF aborted THEN "drop" ELSE "eof"}
  <1>1. /\ c \in Events
        /\ c.outcome = IF e.outcome = "none" THEN Verdict(e, aborted) ELSE e.outcome
    BY ClosedFields DEF InBody
  <1>2. /\ "drop" \in t <=> aborted
        /\ "eof" \in t <=> ~aborted
        /\ t \cap (Errors \cup {"error"}) = s \cap (Errors \cup {"error"})
        /\ "bad" \in t <=> "bad" \in s
        /\ "text" \in t <=> "text" \in s
        /\ t \cap {"stop", "message"} = s \cap {"stop", "message"}
    BY DEF InBody, Told, Errors
  <1>3. InOrder(c, t)
    <2> HIDE DEF t
    <2> QED BY <1>2, ClosedInOrder DEF InBody, Told
  <1> HIDE DEF c, t
  <1>4. CASE e.outcome = "none"
    <2>1. c.outcome = Verdict(e, aborted) BY <1>1, <1>4
    <2>2. t \cap (Errors \cup {"error"}) = {}
      BY <1>2, <1>4 DEF InBody, Told, Errors
    <2>3. /\ c.outcome \notin Errors
          /\ c.outcome = "aborted" <=> aborted
          /\ c.outcome = "success"
                <=> ~aborted /\ e.quality # "parse_failed" /\ e.completed # None
          /\ c.outcome = "incomplete"
                => ~aborted /\ e.quality # "parse_failed" /\ e.completed = None
          /\ c.outcome = "unknown"
                => ~aborted /\ (e.completed # None => e.quality = "parse_failed")
      BY <2>1 DEF Verdict, Errors
    <2>4. /\ "bad" \in t <=> e.quality = "parse_failed"
          /\ t \cap {"stop", "message"} # {} <=> e.completed # None
      BY <1>2 DEF InBody, Told
    <2>5. Justified(c, t) BY <1>2, <2>2, <2>3, <2>4 DEF Justified
    <2> QED BY <1>1, <1>3, <2>5 DEF c, t
  <1>5. CASE e.outcome \in Errors
    <2>1. c.outcome \in Errors BY <1>1, <1>5 DEF Errors
    <2>2. t \cap (Errors \cup {"error"}) # {} BY <1>2, <1>5 DEF InBody, Told
    <2>3. c.outcome \notin {"success", "incomplete", "unknown"}
      BY <2>1 DEF Errors
    <2> QED BY <1>1, <1>3, <2>1, <2>2, <2>3 DEF Justified, c, t
  <1> QED BY <1>4, <1>5 DEF InBody, Told

\* finish after a read error: the outcome is an error.
LEMMA ReadErrorIsJustified ==
    ASSUME NEW e \in Events, NEW s \in SUBSET Facts, NEW q, NEW ms \in Nat,
           InBody(e, s, q, ms), e.outcome \in Errors
    PROVE  LET c == Closed(e, ms, FALSE)
           IN  c \in Events /\ Justified(c, s) /\ InOrder(c, s)
  <1> DEFINE c == Closed(e, ms, FALSE)
  <1>1. c \in Events /\ c.outcome = e.outcome
    <2>1. e.outcome # "none" BY DEF Errors
    <2> QED BY <2>1, ClosedFields DEF InBody
  <1>2. InOrder(c, s) BY ClosedInOrder DEF InBody, Told
  <1>3. s \cap (Errors \cup {"error"}) # {} BY DEF InBody, Told
  <1> HIDE DEF c
  <1>4. c.outcome \notin {"success", "incomplete", "unknown"} BY <1>1 DEF Errors
  <1>5. Justified(c, s) BY <1>1, <1>3, <1>4 DEF Justified
  <1> QED BY <1>1, <1>2, <1>5 DEF c
-------------------------------------------------------------------------------
(***************************************************************************)
(* The steps.                                                              *)
(***************************************************************************)
\* The inductive invariant holds initially.
LEMMA InitRecords == Init => RInv
  <1> SUFFICES ASSUME Init PROVE RInv OBVIOUS
  <1>1. NewEvent \in Events
    BY DEF NewEvent, Events, Time, Outcomes, Qualities, None
  <1>2. scenario.answers \subseteq Answers /\ scenario.values \subseteq Values
    BY ScenarioAssumption DEF Init, Answers, Values
  <1>3. RecordTypeOK
    BY <1>1, <1>2 DEF Init, RecordTypeOK, PCs, Parsers
  <1>4. Followed
    BY DEF Init, Followed, Untouched, NewEvent
  <1> QED BY <1>3, <1>4 DEF RInv

\* A step of one request that keeps what is known of it keeps the invariant.
LEMMA OneRequest ==
    ASSUME RInv, NEW r \in Requests,
           NEW p \in PCs, NEW q \in Parsers,
           NEW e \in Events, NEW s \in SUBSET Facts,
           pc' = [pc EXCEPT ![r] = p], parser' = [parser EXCEPT ![r] = q],
           event' = [event EXCEPT ![r] = e], seen' = [seen EXCEPT ![r] = s],
           start' = start, now' = now, scenario' = scenario,
           p \in {"idle", "preparing", "headers"} => Untouched(e, s, q),
           p = "body" => InBody(e, s, q, now - start[r]),
           p = "ended" => Justified(e, s) /\ InOrder(e, s) /\ Dated(e, now)
    PROVE  RInv'
  <1>1. RecordTypeOK'
    BY DEF RInv, RecordTypeOK
  <1>2. ASSUME NEW k \in Requests
        PROVE  /\ pc'[k] = (IF k = r THEN p ELSE pc[k])
               /\ parser'[k] = (IF k = r THEN q ELSE parser[k])
               /\ event'[k] = (IF k = r THEN e ELSE event[k])
               /\ seen'[k] = (IF k = r THEN s ELSE seen[k])
    BY DEF RInv, RecordTypeOK
  <1>3. ASSUME NEW k \in Requests
        PROVE  /\ pc'[k] \in {"idle", "preparing", "headers"}
                     => Untouched(event'[k], seen'[k], parser'[k])
               /\ pc'[k] = "body"
                     => InBody(event'[k], seen'[k], parser'[k], now' - start'[k])
               /\ pc'[k] = "ended"
                     => /\ Justified(event'[k], seen'[k]) /\ InOrder(event'[k], seen'[k])
                        /\ Dated(event'[k], now')
    BY <1>2, JustifiedIs DEF RInv, Followed
  <1>4. ASSUME NEW k \in Requests
        PROVE  /\ OutcomeJustified(k)' <=> Justified(event'[k], seen'[k])
               /\ TimesOrdered(k)' <=> InOrder(event'[k], seen'[k])
    BY DEF OutcomeJustified, TimesOrdered, Justified, InOrder, Causes
  <1>5. Followed'
    BY <1>3, <1>4 DEF Followed
  <1> QED BY <1>1, <1>5 DEF RInv

\* The facts the invariant gives of one request.
LEMMA OfRequest ==
    ASSUME RInv, NEW r \in Requests
    PROVE  /\ pc[r] \in PCs /\ parser[r] \in Parsers
           /\ event[r] \in Events /\ seen[r] \in SUBSET Facts
           /\ Elapsed(r) \in Nat /\ Elapsed(r) = now - start[r]
           /\ now \in Nat /\ Elapsed(r) <= now
           /\ pc[r] \in {"idle", "preparing", "headers"}
                => Untouched(event[r], {}, "open") /\ seen[r] = {} /\ parser[r] = "open"
           /\ pc[r] = "body" => InBody(event[r], seen[r], parser[r], Elapsed(r))
           /\ pc = [pc EXCEPT ![r] = pc[r]] /\ parser = [parser EXCEPT ![r] = parser[r]]
           /\ event = [event EXCEPT ![r] = event[r]]
           /\ seen = [seen EXCEPT ![r] = seen[r]]
  <1>1. /\ pc[r] \in PCs /\ parser[r] \in Parsers
        /\ event[r] \in Events /\ seen[r] \in SUBSET Facts
    BY DEF RInv, RecordTypeOK, PCs
  <1>2. /\ Elapsed(r) \in Nat /\ Elapsed(r) = now - start[r]
        /\ now \in Nat /\ Elapsed(r) <= now
    BY DEF RInv, RecordTypeOK, Elapsed
  <1>3. pc[r] \in {"idle", "preparing", "headers"}
                => Untouched(event[r], {}, "open") /\ seen[r] = {} /\ parser[r] = "open"
    BY DEF RInv, Followed, Untouched
  <1>4. pc[r] = "body" => InBody(event[r], seen[r], parser[r], Elapsed(r))
    BY <1>2 DEF RInv, Followed
  <1>5. /\ pc = [pc EXCEPT ![r] = pc[r]] /\ parser = [parser EXCEPT ![r] = parser[r]]
        /\ event = [event EXCEPT ![r] = event[r]]
        /\ seen = [seen EXCEPT ![r] = seen[r]]
    BY DEF RInv, RecordTypeOK
  <1> QED BY <1>1, <1>2, <1>3, <1>4, <1>5

\* begin: the request starts now, and nothing is known of it.
LEMMA BeginStep ==
    ASSUME RInv, NEW r \in Requests, begin(r)
    PROVE  RInv'
  <1>1. /\ pc[r] = "idle" /\ pc' = [pc EXCEPT ![r] = "preparing"]
        /\ start' = [start EXCEPT ![r] = now]
        /\ UNCHANGED <<parser, event, seen, now, scenario>>
    BY DEF begin, frame
  <1>2. RecordTypeOK'
    BY <1>1 DEF RInv, RecordTypeOK, PCs
  <1>3. ASSUME NEW k \in Requests
        PROVE  /\ OutcomeJustified(k)' <=> OutcomeJustified(k)
               /\ TimesOrdered(k)' <=> TimesOrdered(k)
    BY <1>1 DEF OutcomeJustified, TimesOrdered, Causes
  <1>4. Followed'
    BY <1>1, <1>3 DEF RInv, RecordTypeOK, Followed
  <1> QED BY <1>2, <1>4 DEF RInv

\* The answers before a body: one of our own, a failed send, the headers of the
\* upstream, and the response handed on.
LEMMA LocalReplyStep ==
    ASSUME RInv, NEW r \in Requests, LocalReply(r)
    PROVE  RInv'
  <1>1. PICK o \in Errors : ErrorStatus(event[r]) = failure(event[r], o)
    BY OfRequest, ErrorStatusIsFailure
  <1>2. /\ pc[r] = "preparing" /\ pc' = [pc EXCEPT ![r] = "body"]
        /\ event' = [event EXCEPT ![r] = failure(event[r], o)]
        /\ seen' = [seen EXCEPT ![r] = @ \cup {"local_error"}]
        /\ UNCHANGED <<parser, start, now, scenario>>
    BY <1>1 DEF LocalReply, Note, Handed, frame
  <1>3. seen' = [seen EXCEPT ![r] = {"local_error"}]
    BY <1>2, OfRequest
  <1>4. "local_error" \in Errors BY DEF Errors
  <1>5. /\ failure(event[r], o) \in Events
        /\ InBody(failure(event[r], o), {"local_error"}, "open", now - start[r])
    BY <1>2, <1>4, OfRequest, ErrorStarts
  <1>6. parser' = [parser EXCEPT ![r] = "open"] BY <1>2, OfRequest
  <1>7. {"local_error"} \in SUBSET Facts BY <1>4 DEF Facts
  <1> QED BY <1>2, <1>3, <1>5, <1>6, <1>7, OneRequest DEF PCs, Parsers

\* SendFails: both reports of the failure keep the first cause.
LEMMA SendFailsStep ==
    ASSUME RInv, NEW r \in Requests, NEW o \in {"send_error", "send_timeout"},
           SendFails(r, o)
    PROVE  RInv'
  <1> DEFINE e == failure(event[r], o)
  <1>1. o \in Errors /\ o \in Outcomes BY DEF Errors, Outcomes
  <1>2. /\ pc[r] = "preparing" /\ pc' = [pc EXCEPT ![r] = "body"]
        /\ event' = [event EXCEPT ![r] = ErrorStatus(e)]
        /\ seen' = [seen EXCEPT ![r] = @ \cup {o}]
        /\ UNCHANGED <<parser, start, now, scenario>>
    BY DEF SendFails, Note, Handed, frame
  <1>3. e \in Events /\ InBody(e, {o}, "open", now - start[r])
    BY <1>1, <1>2, OfRequest, ErrorStarts
  <1>4. e.outcome = o
    BY <1>1, <1>2, OfRequest, FailureKeeps DEF Untouched
  <1>5. ErrorStatus(e) = e
    BY <1>1, <1>4 DEF ErrorStatus, failure, Errors
  <1>6. seen' = [seen EXCEPT ![r] = {o}] /\ {o} \in SUBSET Facts
    BY <1>1, <1>2, OfRequest DEF Facts
  <1>7. parser' = [parser EXCEPT ![r] = "open"] BY <1>2, OfRequest
  <1> HIDE DEF e
  <1> QED BY <1>2, <1>3, <1>5, <1>6, <1>7, OneRequest DEF PCs, Parsers

\* Upstream: the headers have arrived, and still nothing is known of the body.
LEMMA UpstreamStep ==
    ASSUME RInv, NEW r \in Requests, NEW b \in BOOLEAN, NEW coded \in BOOLEAN,
           Upstream(r, b, coded)
    PROVE  RInv'
  <1> DEFINE e == [event[r] EXCEPT !.upstream = TRUE, !.stream = b, !.coded = coded]
  <1>1. /\ pc[r] = "preparing" /\ pc' = [pc EXCEPT ![r] = "headers"]
        /\ event' = [event EXCEPT ![r] = e]
        /\ UNCHANGED <<parser, seen, start, now, scenario>>
    BY DEF Upstream, Handed, frame
  <1>2. event[r] \in Events /\ Untouched(event[r], {}, "open") /\ seen[r] = {}
        /\ parser[r] = "open"
    BY <1>1, OfRequest
  <1>3. e \in Events BY <1>2 DEF Events
  <1>4. Untouched(e, {}, "open") BY <1>2 DEF Untouched, Events
  <1>5. seen' = [seen EXCEPT ![r] = {}] /\ parser' = [parser EXCEPT ![r] = "open"]
    BY <1>1, <1>2, OfRequest
  <1> HIDE DEF e
  <1> QED BY <1>1, <1>3, <1>4, <1>5, OneRequest DEF PCs, Parsers

\* Reply: a success starts its body, a refusal is a cause.
LEMMA ReplyStep ==
    ASSUME RInv, NEW r \in Requests, NEW status, Reply(r, status)
    PROVE  RInv'
  <1>1. /\ pc[r] = "headers" /\ pc' = [pc EXCEPT ![r] = "body"]
        /\ UNCHANGED <<parser, start, now, scenario>>
    BY DEF Reply, Handed, frame
  <1>2. /\ event[r] \in Events /\ Untouched(event[r], {}, "open") /\ seen[r] = {}
        /\ now - start[r] \in Nat /\ parser' = [parser EXCEPT ![r] = "open"]
    BY <1>1, OfRequest
  <1>3. CASE UNCHANGED <<event, seen>>
    <2>1. /\ event' = [event EXCEPT ![r] = event[r]] /\ seen' = [seen EXCEPT ![r] = {}]
      BY <1>2, <1>3, OfRequest
    <2>2. InBody(event[r], {}, "open", now - start[r]) BY <1>2, BodyStarts
    <2>3. {} \in SUBSET Facts /\ "body" \in PCs BY DEF PCs
    <2> HIDE DEF InBody, Untouched
    <2> QED BY <1>1, <1>2, <2>1, <2>2, <2>3, OneRequest DEF Parsers
  <1>4. CASE /\ event' = [event EXCEPT ![r] = ErrorStatus(event[r])]
             /\ Note(r, "http_error")
    <2>1. PICK o \in Errors : ErrorStatus(event[r]) = failure(event[r], o)
      BY <1>2, ErrorStatusIsFailure
    <2>2. "http_error" \in Errors BY DEF Errors
    <2>3. /\ failure(event[r], o) \in Events
          /\ InBody(failure(event[r], o), {"http_error"}, "open", now - start[r])
      BY <1>2, <2>2, ErrorStarts
    <2>4. /\ event' = [event EXCEPT ![r] = failure(event[r], o)]
          /\ seen' = [seen EXCEPT ![r] = {"http_error"}]
      BY <1>2, <1>4, <2>1 DEF Note
    <2>5. {"http_error"} \in SUBSET Facts BY <2>2 DEF Facts
    <2> QED BY <1>1, <1>2, <2>3, <2>4, <2>5, OneRequest DEF PCs, Parsers
  <1> QED BY <1>3, <1>4 DEF Reply

\* Bytes and Observe: the body as it is read.
LEMMA BytesStep ==
    ASSUME RInv, NEW r \in Requests, Bytes(r)
    PROVE  RInv'
  <1> DEFINE e == bytes(event[r], Elapsed(r))
  <1>1. /\ pc[r] = "body" /\ event' = [event EXCEPT ![r] = e]
        /\ UNCHANGED <<pc, seen, parser, start, now, scenario>>
    BY DEF Bytes, Handed, frame
  <1>2. e \in Events /\ InBody(e, seen[r], parser[r], Elapsed(r))
    BY <1>1, OfRequest, BytesKeep
  <1>3. /\ pc' = [pc EXCEPT ![r] = "body"] /\ seen' = [seen EXCEPT ![r] = seen[r]]
        /\ parser' = [parser EXCEPT ![r] = parser[r]]
    BY <1>1, OfRequest
  <1>4. /\ Elapsed(r) = now - start[r]
        /\ seen[r] \in SUBSET Facts /\ parser[r] \in Parsers
    BY OfRequest
  <1> HIDE DEF e
  <1>5. InBody(e, seen[r], parser[r], now - start[r]) BY <1>2, <1>4
  <1>6. start' = start /\ now' = now /\ scenario' = scenario BY <1>1
  <1>7. event' = [event EXCEPT ![r] = e] /\ e \in Events BY <1>1, <1>2
  <1> QED BY <1>3, <1>4, <1>5, <1>6, <1>7, OneRequest DEF PCs

\* Observe: one value of a stream; the parser stops after the model's end and
\* after what it cannot read.
LEMMA ObserveStep ==
    ASSUME RInv, NEW r \in Requests, NEW v \in Values \ {"message"}, Observe(r, v)
    PROVE  RInv'
  <1> DEFINE e == observe_json(event[r], v, Elapsed(r))
             q == CASE v = "stop" -> "done" [] v = "bad" -> "failed" [] OTHER -> "open"
  <1>1. /\ pc[r] = "body" /\ event[r].firstByte # None /\ parser[r] = "open"
        /\ event' = [event EXCEPT ![r] = e]
        /\ parser' = [parser EXCEPT ![r] = q]
        /\ seen' = [seen EXCEPT ![r] = seen[r] \cup {v}]
        /\ UNCHANGED <<pc, start, now, scenario>>
    BY DEF Observe, Reading, Note, BodyOnly, frame
  <1>2. (v \in {"stop", "message"} => q # "open") /\ (v = "bad" => q = "failed")
    OBVIOUS
  <1>3. q \in Parsers BY DEF Parsers
  <1>4. /\ Elapsed(r) \in Nat /\ Elapsed(r) = now - start[r]
        /\ seen[r] \in SUBSET Facts /\ event[r] \in Events
        /\ InBody(event[r], seen[r], "open", Elapsed(r))
        /\ pc' = [pc EXCEPT ![r] = "body"]
    BY <1>1, OfRequest
  <1>5. e \in Events /\ InBody(e, seen[r] \cup {v}, q, Elapsed(r))
    <2>1. event[r].firstByte # None BY <1>1
    <2> HIDE DEF q
    <2> QED BY <1>2, <1>3, <1>4, <2>1, ObserveKeeps
  <1>6. seen[r] \cup {v} \in SUBSET Facts BY <1>4 DEF Facts
  <1> HIDE DEF e, q
  <1>7. InBody(e, seen[r] \cup {v}, q, now - start[r]) BY <1>4, <1>5
  <1>8. start' = start /\ now' = now /\ scenario' = scenario BY <1>1
  <1>9. /\ event' = [event EXCEPT ![r] = e] /\ e \in Events
        /\ parser' = [parser EXCEPT ![r] = q] /\ pc' = [pc EXCEPT ![r] = "body"]
        /\ seen' = [seen EXCEPT ![r] = seen[r] \cup {v}]
    BY <1>1, <1>4, <1>5
  <1> QED BY <1>3, <1>6, <1>7, <1>8, <1>9, OneRequest DEF PCs

\* Damaged: a chunk that cannot be decoded, before or after the model's end.
LEMMA DamagedStep ==
    ASSUME RInv, NEW r \in Requests, Damaged(r)
    PROVE  RInv'
  <1> DEFINE e == parse_failed(event[r])
             s == seen[r] \cup {"bad"}
  <1>1. /\ pc[r] = "body" /\ event' = [event EXCEPT ![r] = e]
        /\ parser' = [parser EXCEPT ![r] = "failed"]
        /\ seen' = [seen EXCEPT ![r] = s]
        /\ UNCHANGED <<pc, start, now, scenario>>
    BY DEF Damaged, Note, BodyOnly, frame
  <1>2. /\ Elapsed(r) \in Nat /\ Elapsed(r) = now - start[r]
        /\ seen[r] \in SUBSET Facts /\ event[r] \in Events /\ parser[r] \in Parsers
        /\ InBody(event[r], seen[r], parser[r], Elapsed(r))
        /\ pc' = [pc EXCEPT ![r] = "body"]
    BY <1>1, OfRequest
  <1>3. e \in Events /\ InBody(e, s, "failed", Elapsed(r))
    BY <1>2, ParseFailedKeeps
  <1>4. s \in SUBSET Facts BY <1>2 DEF Facts, Values
  <1>5. "failed" \in Parsers /\ "body" \in PCs BY DEF Parsers, PCs
  <1> HIDE DEF e, s
  <1>6. InBody(e, s, "failed", now - start[r]) BY <1>2, <1>3
  <1>7. start' = start /\ now' = now /\ scenario' = scenario BY <1>1
  <1>8. /\ event' = [event EXCEPT ![r] = e] /\ e \in Events
        /\ parser' = [parser EXCEPT ![r] = "failed"] /\ pc' = [pc EXCEPT ![r] = "body"]
        /\ seen' = [seen EXCEPT ![r] = s]
    BY <1>1, <1>2, <1>3
  <1> QED BY <1>4, <1>5, <1>6, <1>7, <1>8, OneRequest DEF PCs

\* finish, from the last state of the record and all that was seen.
LEMMA FinishStep ==
    ASSUME RInv, NEW r \in Requests, NEW e, NEW aborted, NEW t \in SUBSET Facts,
           finish(r, e, aborted), seen' = [seen EXCEPT ![r] = t],
           LET c == Closed(e, Elapsed(r), aborted)
           IN  c \in Events /\ Justified(c, t) /\ InOrder(c, t) /\ Dated(c, now)
    PROVE  RInv'
  <1> DEFINE c == Closed(e, Elapsed(r), aborted)
  <1>1. /\ pc' = [pc EXCEPT ![r] = "ended"] /\ event' = [event EXCEPT ![r] = c]
        /\ UNCHANGED <<parser, start, now, scenario>>
    BY DEF finish, frame
  <1>2. parser' = [parser EXCEPT ![r] = parser[r]] /\ parser[r] \in Parsers
    BY <1>1, OfRequest
  <1>3. c \in Events /\ Justified(c, t) /\ InOrder(c, t) /\ Dated(c, now) OBVIOUS
  <1> HIDE DEF c
  <1> QED BY <1>1, <1>2, <1>3, OneRequest DEF PCs

\* What the parser still reads when the body is over.
LEMMA LastOfRequest ==
    ASSUME RInv, NEW r \in Requests, NEW e \in Events, NEW s \in SUBSET Facts,
           InBody(e, s, parser[r], Elapsed(r)), e.firstByte = event[r].firstByte,
           NEW v \in LastValues(r), NEW bad \in BOOLEAN
    PROVE  LET read == observe_json(e, v, Elapsed(r))
               f == IF bad THEN parse_failed(read) ELSE read
               t == s \cup {v} \cup IF bad THEN {"bad"} ELSE {}
           IN  /\ f \in Events /\ t \in SUBSET Facts
               /\ \E p \in Parsers : InBody(f, t, p, Elapsed(r))
  <1>1. v \in Values
    BY DEF RInv, RecordTypeOK, LastValues, Streamed, Whole, Values
  <1>2. v # "quiet" => e.firstByte # None /\ parser[r] = "open"
    BY DEF LastValues, Reading
  <1>3. parser[r] \in Parsers /\ Elapsed(r) \in Nat BY OfRequest
  <1> QED BY <1>1, <1>2, <1>3, LastReadKeeps

\* The end of a body, or a drop, after the last of it was read.
LEMMA OverStep ==
    ASSUME RInv, NEW r \in Requests, NEW aborted \in BOOLEAN,
           InBody(event[r], seen[r], parser[r], Elapsed(r)),
           End(r, event[r], IF aborted THEN "drop" ELSE "eof", aborted)
    PROVE  RInv'
  <1> DEFINE fact == IF aborted THEN "drop" ELSE "eof"
  <1>1. PICK v \in LastValues(r), bad \in BOOLEAN :
          LET read == observe_json(event[r], v, Elapsed(r))
          IN  /\ finish(r, IF bad THEN parse_failed(read) ELSE read, aborted)
              /\ seen' = [seen EXCEPT ![r] = @ \cup {fact, v} \cup
                                             IF bad THEN {"bad"} ELSE {}]
    BY DEF End
  <1> DEFINE read == observe_json(event[r], v, Elapsed(r))
             f == IF bad THEN parse_failed(read) ELSE read
             t == seen[r] \cup {v} \cup IF bad THEN {"bad"} ELSE {}
  <1>2. /\ event[r] \in Events /\ seen[r] \in SUBSET Facts /\ Elapsed(r) \in Nat
        /\ now \in Nat /\ Elapsed(r) <= now /\ seen \in [Requests -> SUBSET Facts]
    BY OfRequest DEF RInv, RecordTypeOK
  <1>3. /\ f \in Events /\ t \in SUBSET Facts
        /\ \E p \in Parsers : InBody(f, t, p, Elapsed(r))
    BY <1>2, LastOfRequest
  <1>4. finish(r, f, aborted) BY <1>1
  <1>5. seen' = [seen EXCEPT ![r] = t \cup {fact}]
    <2>1. seen[r] \cup {fact, v} \cup (IF bad THEN {"bad"} ELSE {}) = t \cup {fact}
      OBVIOUS
    <2> QED BY <1>1, <1>2, <2>1
  <1> HIDE DEF f, t
  <1>6. t \cup {fact} \in SUBSET Facts BY <1>3 DEF Facts
  <1>7. PICK p \in Parsers : InBody(f, t, p, Elapsed(r)) BY <1>3
  <1>8. LET c == Closed(f, Elapsed(r), aborted)
        IN  c \in Events /\ Justified(c, t \cup {fact}) /\ InOrder(c, t \cup {fact})
    BY <1>2, <1>3, <1>7, EndIsJustified
  <1>9. Dated(Closed(f, Elapsed(r), aborted), now)
    BY <1>2, <1>3, <1>7, ClosedDated DEF InBody
  <1> HIDE DEF fact
  <1> QED BY <1>4, <1>5, <1>6, <1>8, <1>9, FinishStep

\* A read error, after which the parser is asked for what it has.
LEMMA ReadFailsStep ==
    ASSUME RInv, NEW r \in Requests, NEW o \in {"read_timeout", "stream_error"},
           ReadFails(r, o)
    PROVE  RInv'
  <1> DEFINE e == failure(event[r], o)
             s == seen[r] \cup {o}
  <1>1. PICK v \in LastValues(r), bad \in BOOLEAN :
          LET read == observe_json(e, v, Elapsed(r))
          IN  /\ finish(r, IF bad THEN parse_failed(read) ELSE read, FALSE)
              /\ seen' = [seen EXCEPT ![r] = @ \cup {o, v} \cup
                                             IF bad THEN {"bad"} ELSE {}]
    BY DEF ReadFails, End
  <1>2. /\ event[r] \in Events /\ seen[r] \in SUBSET Facts /\ Elapsed(r) \in Nat
        /\ now \in Nat /\ Elapsed(r) <= now /\ seen \in [Requests -> SUBSET Facts]
        /\ parser[r] \in Parsers /\ InBody(event[r], seen[r], parser[r], Elapsed(r))
    BY OfRequest DEF RInv, RecordTypeOK, ReadFails
  <1>3. /\ e \in Events /\ e.firstByte = event[r].firstByte /\ s \in SUBSET Facts
        /\ InBody(e, s, parser[r], Elapsed(r))
    BY <1>2, FailureInBody
  <1>4. o \in s /\ o \in Errors BY DEF Errors
  <1> DEFINE read == observe_json(e, v, Elapsed(r))
             f == IF bad THEN parse_failed(read) ELSE read
             t == s \cup {v} \cup IF bad THEN {"bad"} ELSE {}
  <1>5. seen' = [seen EXCEPT ![r] = t]
    <2>1. seen[r] \cup {o, v} \cup (IF bad THEN {"bad"} ELSE {}) = t OBVIOUS
    <2> QED BY <1>1, <1>2, <2>1
  <1>6. finish(r, f, FALSE) BY <1>1
  <1>7. o \in t BY <1>4
  <1> HIDE DEF e, s
  <1>8. /\ f \in Events /\ t \in SUBSET Facts
        /\ \E p \in Parsers : InBody(f, t, p, Elapsed(r))
    BY <1>3, LastOfRequest
  <1> HIDE DEF f, t
  <1>9. PICK p \in Parsers : InBody(f, t, p, Elapsed(r)) BY <1>8
  <1>10. f.outcome \in Errors BY <1>4, <1>7, <1>9 DEF InBody, Told
  <1>11. LET c == Closed(f, Elapsed(r), FALSE)
         IN  c \in Events /\ Justified(c, t) /\ InOrder(c, t)
    BY <1>2, <1>8, <1>9, <1>10, ReadErrorIsJustified
  <1>12. Dated(Closed(f, Elapsed(r), FALSE), now)
    BY <1>2, <1>8, <1>9, ClosedDated DEF InBody
  <1> QED BY <1>5, <1>6, <1>8, <1>11, <1>12, FinishStep

\* The three ends of a request: its body ends, reading it fails, it is dropped.
LEMMA EndStep ==
    ASSUME RInv, NEW r \in Requests,
           \/ BodyEnds(r)
           \/ \E o \in {"read_timeout", "stream_error"} : ReadFails(r, o)
           \/ Drop(r)
    PROVE  RInv'
  <1>0. /\ event[r] \in Events /\ Elapsed(r) \in Nat
        /\ pc[r] = "body" => InBody(event[r], seen[r], parser[r], Elapsed(r))
    BY OfRequest
  <1>1. CASE BodyEnds(r)
    <2>1. InBody(event[r], seen[r], parser[r], Elapsed(r)) BY <1>0, <1>1 DEF BodyEnds
    <2>2. End(r, event[r], IF FALSE THEN "drop" ELSE "eof", FALSE) BY <1>1 DEF BodyEnds
    <2> QED BY <2>1, <2>2, OverStep
  <1>2. ASSUME NEW o \in {"read_timeout", "stream_error"}, ReadFails(r, o)
        PROVE  RInv'
    BY <1>2, ReadFailsStep
  <1>3. CASE Drop(r)
    <2>1. InBody(event[r], seen[r], parser[r], Elapsed(r))
      <3>1. CASE pc[r] = "body" BY <1>0, <3>1
      <3>2. CASE pc[r] \in {"preparing", "headers"}
        <4>1. Untouched(event[r], {}, "open") /\ seen[r] = {} /\ parser[r] = "open"
          BY <3>2, OfRequest
        <4>2. InBody(event[r], {}, "open", Elapsed(r)) BY <1>0, <4>1, BodyStarts
        <4> QED BY <4>1, <4>2
      <3> QED BY <1>3, <3>1, <3>2 DEF Drop
    <2>2. End(r, event[r], IF TRUE THEN "drop" ELSE "eof", TRUE) BY <1>3 DEF Drop
    <2> QED BY <2>1, <2>2, OverStep
  <1> QED BY <1>1, <1>2, <1>3

\* The clock, the writer, the sweep and midnight leave the records alone.
LEMMA OtherSteps ==
    ASSUME RInv, UNCHANGED <<reqvars, scenario>>, now' \in {now, now + 1}
    PROVE  RInv'
  <1>1. UNCHANGED <<pc, parser, event, seen, start, scenario>> BY DEF reqvars
  <1>2. RecordTypeOK' BY <1>1 DEF RInv, RecordTypeOK
  <1>3. ASSUME NEW k \in Requests
        PROVE  /\ OutcomeJustified(k)' <=> OutcomeJustified(k)
               /\ TimesOrdered(k)' <=> TimesOrdered(k)
    BY <1>1 DEF OutcomeJustified, TimesOrdered, Causes
  <1>4. ASSUME NEW k \in Requests, pc[k] = "body"
        PROVE  InBody(event[k], seen[k], parser[k], now' - start[k])
    <2>1. /\ event[k] \in Events /\ now - start[k] \in Nat
          /\ InBody(event[k], seen[k], parser[k], now - start[k])
      BY <1>4 DEF RInv, RecordTypeOK, Followed
    <2>2. now' - start[k] \in {now - start[k], (now - start[k]) + 1}
      BY DEF RInv, RecordTypeOK
    <2> QED BY <2>1, <2>2, BodyWaits
  <1>5. ASSUME NEW k \in Requests, pc[k] = "ended"
        PROVE  Dated(event[k], now')
    <2>1. event[k] \in Events /\ now \in Nat /\ Dated(event[k], now)
      BY <1>5 DEF RInv, RecordTypeOK, Followed
    <2> QED BY <2>1 DEF Dated, Events, Time, None
  <1>6. Followed' BY <1>1, <1>3, <1>4, <1>5 DEF RInv, Followed
  <1> QED BY <1>2, <1>6 DEF RInv

\* Every step keeps the inductive invariant.
LEMMA NextRecords == RInv /\ [Next]_vars => RInv'
  <1> SUFFICES ASSUME RInv, [Next]_vars PROVE RInv' OBVIOUS
  <1>1. ASSUME NEW r \in Requests, Request(r) PROVE RInv'
    <2>1. scenario.answers \subseteq Answers /\ scenario.values \subseteq Values
      BY DEF RInv, RecordTypeOK
    <2> QED BY <1>1, <2>1, BeginStep, BytesStep, EndStep, LocalReplyStep, SendFailsStep,
               UpstreamStep, ReplyStep, ObserveStep, DamagedStep DEF Request, Streamed
  <1>2. CASE Writer \/ Sweeper
    <2>1. UNCHANGED <<reqvars, scenario>> /\ now' = now
      BY <1>2 DEF Writer, Sweeper, Receive, CloseBatch, Insert, InsertFails,
                  SweepStarts, DeleteBefore, SweepFails, StoreOnly, frame
    <2> QED BY <2>1, OtherSteps
  <1>3. CASE Tick BY <1>3, OtherSteps DEF Tick
  <1>4. CASE Midnight BY <1>4, OtherSteps DEF Midnight
  <1>5. CASE UNCHANGED vars BY <1>5, OtherSteps DEF vars, frame
  <1> QED BY <1>1, <1>2, <1>3, <1>4, <1>5 DEF Next
-------------------------------------------------------------------------------
(***************************************************************************)
(* The registry, the queue, the writer and the counters.                   *)
(***************************************************************************)
Begun == {r \in Requests : pc[r] # "idle"}

StoreTypeOK ==
    /\ observed \in [Requests -> BOOLEAN]
    /\ startDay \in [Requests -> Nat]
    /\ queue \in Seq(Requests) /\ Members(queue) \subseteq Ended
    /\ Len(queue) <= QUEUE_SIZE
    /\ batch \subseteq Ended /\ Cardinality(batch) <= BATCH
    /\ rows \subseteq Ended
    /\ wpc \in {"recv", "insert"} /\ tries \in 0..(RETRIES - 1)
    /\ dropped \in Nat /\ writeFailed \in Nat /\ expired \in Nat
    /\ persisted \in Nat /\ activeDropped \in Nat /\ parseFailed \in Nat
    /\ day \in Nat
    /\ scenario.maxTime \in Nat /\ scenario.maxDay \in Nat
    /\ now <= scenario.maxTime /\ day <= scenario.maxDay
    /\ sweep \in {None} \cup 1..scenario.maxDay
    /\ sweep # None => sweep <= retention_day

\* No counter outruns the requests it counts.
Tallied ==
    /\ writeFailed <= dropped
    /\ parseFailed <= Cardinality(Ended)
    /\ activeDropped <= Cardinality(Begun)

\* The inductive invariant of this part: GapsCounted with its types and bounds.
SInv == StoreTypeOK /\ Tallied /\ GapsCounted
IInv == RInv /\ SInv

\* Sets of requests are finite, and their sizes add up.
LEMMA Sizes ==
    ASSUME NEW S \in SUBSET Requests, NEW T \in SUBSET Requests
    PROVE  /\ IsFiniteSet(S) /\ Cardinality(S) \in Nat /\ Cardinality(T) \in Nat
           /\ Cardinality(S) <= Cardinality(Requests) /\ Cardinality(Requests) \in Nat
           /\ S \subseteq T => Cardinality(S) <= Cardinality(T)
           /\ Cardinality(S \cup T) <= Cardinality(S) + Cardinality(T)
           /\ T \subseteq S => Cardinality(S) = Cardinality(T) + Cardinality(S \ T)
           /\ Cardinality(S \ T) \in Nat /\ Cardinality(S \cup T) \in Nat
  <1>1. IsFiniteSet(Requests) BY PerformanceAssumption
  <1>2. /\ IsFiniteSet(S) /\ IsFiniteSet(T) /\ IsFiniteSet(S \ T)
        /\ IsFiniteSet(S \cup T) /\ IsFiniteSet(S \cap T)
        /\ Cardinality(S) <= Cardinality(Requests)
    BY <1>1, FS_Subset
  <1>3. /\ Cardinality(S) \in Nat /\ Cardinality(T) \in Nat
        /\ Cardinality(Requests) \in Nat /\ Cardinality(S \ T) \in Nat
        /\ Cardinality(S \cup T) \in Nat /\ Cardinality(S \cap T) \in Nat
    BY <1>1, <1>2, FS_CardinalityType
  <1>4. S \subseteq T => Cardinality(S) <= Cardinality(T) BY <1>2, FS_Subset
  <1>5. Cardinality(S \cup T) = Cardinality(S) + Cardinality(T) - Cardinality(S \cap T)
    BY <1>2, FS_Union
  <1>6. ASSUME T \subseteq S
        PROVE  Cardinality(S) = Cardinality(T) + Cardinality(S \ T)
    <2>1. Cardinality(T \cup (S \ T))
             = Cardinality(T) + Cardinality(S \ T) - Cardinality(T \cap (S \ T))
      BY <1>2, FS_Union
    <2>2. T \cup (S \ T) = S /\ T \cap (S \ T) = {} BY <1>6
    <2>3. Cardinality({}) = 0 BY FS_EmptySet
    <2>4. Cardinality(S) = Cardinality(T) + Cardinality(S \ T) - 0
      BY <2>1, <2>2, <2>3
    <2> DEFINE t == Cardinality(T)
               d == Cardinality(S \ T)
    <2>5. t \in Nat /\ d \in Nat BY <1>3
    <2> HIDE DEF t, d
    <2>6. t + d - 0 = t + d BY <2>5
    <2> QED BY <2>4, <2>6 DEF t, d
  <1> QED BY <1>2, <1>3, <1>4, <1>5, <1>6

\* A request joins a set.
LEMMA SizeOfAdded ==
    ASSUME NEW S \in SUBSET Requests, NEW x \in Requests
    PROVE  /\ Cardinality(S \cup {x}) <= Cardinality(S) + 1
           /\ x \notin S => Cardinality(S \cup {x}) = Cardinality(S) + 1
           /\ Cardinality(S) \in Nat
  <1>1. IsFiniteSet(S) /\ Cardinality(S) \in Nat BY Sizes
  <1> QED BY <1>1, FS_AddElement

\* try_send puts a request at the end of the queue.
LEMMA AppendMembers ==
    ASSUME NEW s \in Seq(Requests), NEW r \in Requests
    PROVE  /\ Append(s, r) \in Seq(Requests) /\ Len(Append(s, r)) = Len(s) + 1
           /\ Members(Append(s, r)) = Members(s) \cup {r}
  <1>1. /\ Append(s, r) \in Seq(Requests) /\ Len(Append(s, r)) = Len(s) + 1
        /\ \A j \in 1..Len(s) : Append(s, r)[j] = s[j]
        /\ Append(s, r)[Len(s) + 1] = r /\ Len(s) \in Nat
    BY AppendProperties, LenProperties
  <1>2. 1..(Len(s) + 1) = 1..Len(s) \cup {Len(s) + 1} BY <1>1
  <1>3. Members(Append(s, r)) \subseteq Members(s) \cup {r} BY <1>1, <1>2 DEF Members
  <1>4. Members(s) \cup {r} \subseteq Members(Append(s, r)) BY <1>1, <1>2 DEF Members
  <1> QED BY <1>1, <1>3, <1>4

\* recv takes the first request out of the queue.
LEMMA TailMembers ==
    ASSUME NEW s \in Seq(Requests), s # << >>
    PROVE  /\ Tail(s) \in Seq(Requests) /\ Len(Tail(s)) = Len(s) - 1
           /\ Members(s) = Members(Tail(s)) \cup {Head(s)}
           /\ Head(s) \in Requests /\ Len(s) \in Nat
  <1>1. /\ Tail(s) \in Seq(Requests) /\ Len(Tail(s)) = Len(s) - 1
        /\ \A j \in 1..Len(Tail(s)) : Tail(s)[j] = s[j + 1]
        /\ Len(s) \in Nat \ {0} /\ Head(s) \in Requests /\ Head(s) = s[1]
    BY HeadTailProperties, EmptySeq
  <1>2. ASSUME NEW j \in 1..Len(Tail(s)) PROVE Tail(s)[j] \in Members(s)
    <2>1. j + 1 \in 1..Len(s) BY <1>1
    <2> QED BY <1>1, <2>1 DEF Members
  <1>3. ASSUME NEW j \in 1..Len(s), j # 1 PROVE s[j] \in Members(Tail(s))
    <2>1. j - 1 \in 1..Len(Tail(s)) /\ (j - 1) + 1 = j BY <1>1, <1>3
    <2>2. Tail(s)[j - 1] = s[j] BY <1>1, <2>1
    <2> QED BY <2>1, <2>2 DEF Members
  <1>4. Head(s) \in Members(s) BY <1>1 DEF Members
  <1>5. Members(Tail(s)) \subseteq Members(s) BY <1>2 DEF Members
  <1>6. Members(s) \subseteq Members(Tail(s)) \cup {Head(s)} BY <1>1, <1>3 DEF Members
  <1> QED BY <1>1, <1>4, <1>5, <1>6

\* The invariant of the store holds initially.
LEMMA InitStore == Init => SInv
  <1> SUFFICES ASSUME Init PROVE SInv OBVIOUS
  <1>1. Ended = {} /\ Running = {} /\ Begun = {}
    BY DEF Init, Ended, Running, Begun
  <1>2. Missing = {} BY <1>1 DEF Missing
  <1>3. Cardinality({}) = 0 BY FS_EmptySet
  <1>4. << >> \in Seq(Requests) /\ Len(<< >>) = 0 BY EmptySeq
  <1>5. Members(<< >>) = {} BY <1>4 DEF Members
  <1>6. scenario.maxTime \in Nat /\ scenario.maxDay \in Nat
    BY ScenarioAssumption DEF Init
  <1>7. StoreTypeOK
    BY <1>1, <1>3, <1>4, <1>5, <1>6, PerformanceAssumption DEF Init, StoreTypeOK
  <1>8. Tallied BY <1>1, <1>3 DEF Init, Tallied
  <1>9. GapsCounted BY <1>1, <1>2, <1>3, <1>4 DEF Init, GapsCounted
  <1> QED BY <1>7, <1>8, <1>9 DEF SInv

\* A step that moves no request over its beginning or its end, and touches
\* nothing of the store.
LEMMA StoreFrame ==
    ASSUME SInv, Ended' = Ended, Running' = Running, Begun' = Begun,
           UNCHANGED <<active, queue, writer, rows, sweep, counters, startDay, day,
                       scenario>>,
           observed' \in [Requests -> BOOLEAN], now' <= scenario.maxTime
    PROVE  SInv'
  <1>1. UNCHANGED <<active, queue, wpc, batch, tries, rows, sweep, dropped, writeFailed,
                    expired, persisted, activeDropped, parseFailed, startDay, day,
                    scenario>>
    BY DEF writer, counters
  <1>2. retention_day' = retention_day BY <1>1 DEF retention_day
  <1>3. Missing' = Missing BY <1>1, <1>2 DEF Missing, Members
  <1>4. StoreTypeOK' BY <1>1, <1>2 DEF SInv, StoreTypeOK, Members
  <1>5. Tallied' BY <1>1 DEF SInv, Tallied
  <1>6. GapsCounted' BY <1>1, <1>3 DEF SInv, GapsCounted
  <1> QED BY <1>4, <1>5, <1>6 DEF SInv

\* A request that moves between two running states.
LEMMA StillRunning ==
    ASSUME RecordTypeOK, NEW r \in Requests, NEW p \in {"preparing", "headers", "body"},
           pc[r] \in {"preparing", "headers", "body"}, pc' = [pc EXCEPT ![r] = p]
    PROVE  Ended' = Ended /\ Running' = Running /\ Begun' = Begun
  BY DEF RecordTypeOK, Ended, Running, Begun, PCs

\* What the gateway and the parser report leaves the store alone.
LEMMA ReportsStore ==
    ASSUME IInv, NEW r \in Requests,
           \/ LocalReply(r)
           \/ \E o \in {"send_error", "send_timeout"} : SendFails(r, o)
           \/ \E b, c \in BOOLEAN : Upstream(r, b, c)
           \/ \E s \in Answers : Reply(r, s)
           \/ Bytes(r)
           \/ Damaged(r)
           \/ \E v \in Values : Observe(r, v)
    PROVE  SInv'
  <1>1. UNCHANGED <<active, queue, writer, rows, sweep, counters, startDay, day,
                    scenario, now>>
    BY DEF LocalReply, SendFails, Upstream, Reply, Bytes, Observe, Damaged,
           BodyOnly, Handed, frame
  <1>2. observed' \in [Requests -> BOOLEAN]
    BY DEF IInv, SInv, StoreTypeOK, LocalReply, SendFails, Upstream, Reply, Bytes,
           Observe, Damaged, BodyOnly
  <1>3. \E p \in {"preparing", "headers", "body"} : pc' = [pc EXCEPT ![r] = p]
    <2>1. pc \in [Requests -> PCs] BY DEF IInv, RInv, RecordTypeOK
    <2> QED BY <2>1 DEF LocalReply, SendFails, Upstream, Reply, Bytes, Observe, Damaged,
               BodyOnly
  <1>4. pc[r] \in {"preparing", "headers", "body"}
    BY DEF LocalReply, SendFails, Upstream, Reply, Bytes, Observe, Damaged,
               BodyOnly
  <1>5. Ended' = Ended /\ Running' = Running /\ Begun' = Begun
    BY <1>3, <1>4, StillRunning DEF IInv, RInv
  <1>6. now' <= scenario.maxTime BY <1>1 DEF IInv, SInv, StoreTypeOK
  <1> QED BY <1>1, <1>2, <1>5, <1>6, StoreFrame DEF IInv

\* begin: the request is registered, or counted when the registry is full.
LEMMA BeginStore ==
    ASSUME IInv, NEW r \in Requests, begin(r)
    PROVE  SInv'
  <1>1. /\ pc[r] = "idle" /\ pc' = [pc EXCEPT ![r] = "preparing"]
        /\ startDay' = [startDay EXCEPT ![r] = day]
        /\ UNCHANGED <<observed, queue, wpc, batch, tries, rows, sweep, dropped,
                       writeFailed, expired, persisted, parseFailed, now, day, scenario>>
    BY DEF begin, writer, frame
  <1>2. pc \in [Requests -> PCs] BY DEF IInv, RInv, RecordTypeOK
  <1>3. /\ Ended' = Ended /\ Running' = Running \cup {r} /\ Begun' = Begun \cup {r}
        /\ r \notin Running /\ r \notin Begun /\ r \notin Ended
        /\ Running \subseteq Requests /\ Begun \subseteq Requests
    BY <1>1, <1>2 DEF Ended, Running, Begun, PCs
  <1>4. retention_day' = retention_day BY <1>1 DEF retention_day
  <1>5. Missing' = Missing
    <2>1. \A k \in Ended : startDay'[k] = startDay[k]
      BY <1>1, <1>3 DEF IInv, SInv, StoreTypeOK, Ended
    <2> QED BY <1>1, <1>3, <1>4, <2>1 DEF Missing, Members
  <1>6. Cardinality(Begun') = Cardinality(Begun) + 1 /\ Cardinality(Begun) \in Nat
    BY <1>3, SizeOfAdded
  <1>7. /\ active' \subseteq Running' /\ activeDropped' \in {activeDropped, activeDropped + 1}
        /\ Cardinality(Running' \ active') <= activeDropped'
    <2>1. active \subseteq Running /\ Cardinality(Running \ active) <= activeDropped
          /\ activeDropped \in Nat
      BY DEF IInv, SInv, GapsCounted, StoreTypeOK
    <2>2. CASE active' = active \cup {r} /\ UNCHANGED activeDropped
      <3>1. Running' \ active' = Running \ active BY <1>3, <2>1, <2>2
      <3> QED BY <1>3, <2>1, <2>2, <3>1
    <2>3. CASE activeDropped' = activeDropped + 1 /\ UNCHANGED active
      <3>1. Running' \ active' = (Running \ active) \cup {r} BY <1>3, <2>1, <2>3
      <3>2. Running \ active \in SUBSET Requests BY <1>3
      <3>3. Cardinality(Running' \ active') <= Cardinality(Running \ active) + 1
            /\ Cardinality(Running \ active) \in Nat
            /\ Cardinality(Running' \ active') \in Nat
        BY <3>1, <3>2, SizeOfAdded, Sizes
      <3>4. Cardinality(Running' \ active') <= activeDropped' BY <2>1, <2>3, <3>3
      <3> QED BY <1>3, <2>1, <2>3, <3>4
    <2> QED BY <2>2, <2>3 DEF begin
  <1>8. StoreTypeOK'
    BY <1>1, <1>3, <1>4, <1>7 DEF IInv, SInv, StoreTypeOK, Members
  <1>9. Tallied'
    BY <1>1, <1>3, <1>6, <1>7 DEF IInv, SInv, Tallied, StoreTypeOK
  <1>10. GapsCounted' BY <1>1, <1>3, <1>5, <1>7 DEF IInv, SInv, GapsCounted
  <1> QED BY <1>8, <1>9, <1>10 DEF SInv

\* finish: the request leaves the registry, and its record is queued or
\* counted.
LEMMA FinishStore ==
    ASSUME IInv, NEW r \in Requests, NEW e, NEW aborted, finish(r, e, aborted),
           pc[r] \in {"preparing", "headers", "body"}
    PROVE  SInv'
  <1>1. /\ pc' = [pc EXCEPT ![r] = "ended"] /\ active' = active \ {r} /\ TrySend(r)
        /\ parseFailed' \in {parseFailed, parseFailed + 1}
        /\ UNCHANGED <<observed, startDay, wpc, batch, tries, rows, sweep, writeFailed,
                       persisted, activeDropped, now, day, scenario>>
    <2>1. parseFailed' = parseFailed + (IF e.quality = "parse_failed" THEN 1 ELSE 0)
      BY DEF finish
    <2>2. parseFailed \in Nat BY DEF IInv, SInv, StoreTypeOK
    <2>3. parseFailed' \in {parseFailed, parseFailed + 1} BY <2>1, <2>2
    <2> QED BY <2>3 DEF finish, writer, frame
  <1>2. pc \in [Requests -> PCs] BY DEF IInv, RInv, RecordTypeOK
  <1>3. /\ Ended' = Ended \cup {r} /\ Running' = Running \ {r} /\ Begun' = Begun
        /\ r \notin Ended /\ Ended \subseteq Requests /\ Running \subseteq Requests
    BY <1>1, <1>2 DEF Ended, Running, Begun, PCs
  <1>4. retention_day' = retention_day /\ retention_day \in Int
    BY <1>1, PerformanceAssumption DEF retention_day, IInv, SInv, StoreTypeOK
  <1>5. /\ Cardinality(Ended') = Cardinality(Ended) + 1 /\ Cardinality(Ended) \in Nat
    BY <1>3, SizeOfAdded
  <1>6. active' \subseteq Running' /\ Cardinality(Running' \ active') <= activeDropped'
    <2>1. active \subseteq Running /\ Cardinality(Running \ active) <= activeDropped
          /\ activeDropped \in Nat
      BY DEF IInv, SInv, GapsCounted, StoreTypeOK
    <2>2. Running' \ active' \subseteq Running \ active BY <1>1, <1>3
    <2>3. Cardinality(Running' \ active') <= Cardinality(Running \ active)
          /\ Cardinality(Running' \ active') \in Nat /\ Cardinality(Running \ active) \in Nat
      BY <1>3, <2>2, Sizes
    <2> QED BY <1>1, <1>3, <2>1, <2>3
  <1>7. /\ queue \in Seq(Requests) /\ Len(queue) \in Nat /\ Members(queue) \subseteq Ended
        /\ dropped \in Nat /\ expired \in Nat /\ persisted \in Nat
        /\ QUEUE_SIZE \in Nat /\ Len(queue) <= QUEUE_SIZE
        /\ startDay \in [Requests -> Nat]
        /\ Missing \in SUBSET Requests /\ Cardinality(Missing) \in Nat
        /\ Cardinality(Missing) <= dropped
        /\ batch \in SUBSET Requests /\ Cardinality(batch) \in Nat
    <2>1. Missing \in SUBSET Requests /\ batch \in SUBSET Requests
      BY <1>3 DEF Missing, IInv, SInv, StoreTypeOK
    <2>2. Cardinality(Missing) \in Nat /\ Cardinality(batch) \in Nat BY <2>1, Sizes
    <2> QED BY <2>1, <2>2, LenProperties, PerformanceAssumption
            DEF IInv, SInv, StoreTypeOK, GapsCounted
  <1>8. persisted + expired + dropped + Len(queue) + Cardinality(batch) <= Cardinality(Ended)
    BY DEF IInv, SInv, GapsCounted
  <1> DEFINE Sum == persisted' + expired' + dropped' + Len(queue') + Cardinality(batch')
             Goal == /\ queue' \in Seq(Requests) /\ Members(queue') \subseteq Ended'
                     /\ Len(queue') <= QUEUE_SIZE
                     /\ dropped' \in Nat /\ dropped <= dropped' /\ expired' \in Nat
                     /\ Cardinality(Missing') <= dropped'
                     /\ Sum <= Cardinality(Ended')
  <1>9. ASSUME startDay[r] < retention_day, expired' = expired + 1,
               UNCHANGED <<queue, dropped>>
        PROVE  Goal
    <2>1. Missing' = Missing
      BY <1>1, <1>3, <1>4, <1>7, <1>9 DEF Missing, Members
    <2>2. Members(queue') \subseteq Ended' BY <1>3, <1>7, <1>9 DEF Members
    <2>3. Sum <= Cardinality(Ended')
      BY <1>1, <1>5, <1>7, <1>8, <1>9
    <2> QED BY <1>1, <1>7, <1>9, <2>1, <2>2, <2>3
  <1>10. ASSUME Len(queue) < QUEUE_SIZE, queue' = Append(queue, r),
                UNCHANGED <<expired, dropped>>
         PROVE  Goal
    <2>1. /\ queue' \in Seq(Requests) /\ Len(queue') = Len(queue) + 1
          /\ Members(queue') = Members(queue) \cup {r}
      BY <1>7, <1>10, AppendMembers
    <2>2. Members(queue)' = Members(queue') BY DEF Members
    <2>3. Missing' \subseteq Missing
      BY <1>1, <1>3, <1>4, <1>7, <2>1, <2>2 DEF Missing
    <2>4. Cardinality(Missing') <= Cardinality(Missing) /\ Cardinality(Missing') \in Nat
      BY <1>7, <2>3, Sizes
    <2>5. Sum <= Cardinality(Ended')
      BY <1>1, <1>5, <1>7, <1>8, <1>10, <2>1
    <2> QED BY <1>3, <1>7, <1>10, <2>1, <2>4, <2>5
  <1>11. ASSUME dropped' = dropped + 1, UNCHANGED <<expired, queue>>
         PROVE  Goal
    <2>1. Missing' \subseteq Missing \cup {r}
      BY <1>1, <1>3, <1>4, <1>7, <1>11 DEF Missing, Members
    <2>2. /\ Cardinality(Missing \cup {r}) <= Cardinality(Missing) + 1
          /\ Cardinality(Missing') <= Cardinality(Missing \cup {r})
          /\ Cardinality(Missing') \in Nat /\ Cardinality(Missing \cup {r}) \in Nat
      BY <1>7, <2>1, SizeOfAdded, Sizes
    <2>3. Cardinality(Missing') <= dropped'
      BY <1>7, <1>11, <2>2
    <2>4. Sum <= Cardinality(Ended')
      BY <1>1, <1>5, <1>7, <1>8, <1>11
    <2>5. Members(queue') \subseteq Ended' BY <1>3, <1>7, <1>11 DEF Members
    <2> QED BY <1>7, <1>11, <2>3, <2>4, <2>5
  <1>12. Goal
    <2> HIDE DEF Goal
    <2> QED BY <1>1, <1>9, <1>10, <1>11 DEF TrySend
  <1>13. Members(queue)' = Members(queue') BY DEF Members
  <1>14. StoreTypeOK'
    <2>0. /\ StoreTypeOK /\ parseFailed \in Nat BY DEF IInv, SInv, StoreTypeOK
    <2>1. parseFailed' \in Nat BY <1>1, <2>0
    <2>2. batch' \subseteq Ended' /\ rows' \subseteq Ended'
      BY <1>1, <1>3, <2>0 DEF StoreTypeOK
    <2>3. /\ queue' \in Seq(Requests) /\ Members(queue)' \subseteq Ended'
          /\ Len(queue') <= QUEUE_SIZE /\ dropped' \in Nat /\ expired' \in Nat
      BY <1>12, <1>13
    <2> HIDE DEF Goal
    <2> QED BY <1>1, <1>4, <2>0, <2>1, <2>2, <2>3 DEF StoreTypeOK
  <1>15. Tallied'
    <2>1. /\ writeFailed <= dropped /\ writeFailed \in Nat /\ parseFailed \in Nat
          /\ parseFailed <= Cardinality(Ended) /\ activeDropped <= Cardinality(Begun)
      BY DEF IInv, SInv, Tallied, StoreTypeOK
    <2>2. writeFailed' <= dropped' BY <1>1, <1>7, <1>12, <2>1
    <2>3. parseFailed' <= Cardinality(Ended') BY <1>1, <1>5, <2>1
    <2> QED BY <1>1, <1>3, <2>1, <2>2, <2>3 DEF Tallied
  <1>16. GapsCounted' BY <1>6, <1>12 DEF GapsCounted
  <1> QED BY <1>14, <1>15, <1>16 DEF SInv

\* The three ends of a request.
LEMMA EndStore ==
    ASSUME IInv, NEW r \in Requests,
           \/ BodyEnds(r)
           \/ \E o \in {"read_timeout", "stream_error"} : ReadFails(r, o)
           \/ Drop(r)
    PROVE  SInv'
  <1>1. ASSUME NEW e, NEW fact, NEW aborted, End(r, e, fact, aborted),
               pc[r] \in {"preparing", "headers", "body"}
        PROVE  SInv'
    <2>1. PICK f : finish(r, f, aborted) BY <1>1 DEF End
    <2> QED BY <1>1, <2>1, FinishStore
  <1>2. CASE BodyEnds(r) BY <1>1, <1>2 DEF BodyEnds
  <1>3. ASSUME NEW o, ReadFails(r, o) PROVE SInv' BY <1>1, <1>3 DEF ReadFails
  <1>4. CASE Drop(r) BY <1>1, <1>4 DEF Drop
  <1> QED BY <1>2, <1>3, <1>4

\* The sets and numbers a step of the writer or the sweep starts from.
LEMMA StoreFacts ==
    ASSUME SInv
    PROVE  /\ Ended \in SUBSET Requests /\ Cardinality(Ended) \in Nat
           /\ queue \in Seq(Requests) /\ Len(queue) \in Nat
           /\ Members(queue) \subseteq Ended
           /\ batch \in SUBSET Requests /\ batch \subseteq Ended
           /\ Cardinality(batch) \in Nat /\ Cardinality(batch) <= BATCH
           /\ rows \in SUBSET Requests /\ rows \subseteq Ended
           /\ Missing \in SUBSET Requests /\ Cardinality(Missing) \in Nat
           /\ startDay \in [Requests -> Nat]
           /\ retention_day \in Int /\ KEEP \in Nat
           /\ BATCH \in Nat /\ RETRIES \in Nat /\ day \in Nat
           /\ dropped \in Nat /\ expired \in Nat /\ persisted \in Nat
           /\ writeFailed \in Nat
           /\ Cardinality(Missing) <= dropped
           /\ persisted + expired + dropped + Len(queue) + Cardinality(batch)
                 <= Cardinality(Ended)
  <1>1. Ended \in SUBSET Requests BY DEF Ended
  <1>2. /\ Missing \in SUBSET Requests /\ batch \in SUBSET Requests
        /\ rows \in SUBSET Requests
    BY <1>1 DEF Missing, SInv, StoreTypeOK
  <1>3. /\ Cardinality(Ended) \in Nat /\ Cardinality(batch) \in Nat
        /\ Cardinality(Missing) \in Nat
    BY <1>1, <1>2, Sizes
  <1>4. queue \in Seq(Requests) /\ Len(queue) \in Nat
    BY LenProperties DEF SInv, StoreTypeOK
  <1>5. day \in Nat /\ KEEP \in Nat BY PerformanceAssumption DEF SInv, StoreTypeOK
  <1>6. retention_day \in Int BY <1>5 DEF retention_day
  <1> QED BY <1>1, <1>2, <1>3, <1>4, <1>5, <1>6, PerformanceAssumption
          DEF SInv, StoreTypeOK, GapsCounted

\* What a step of the writer or the sweep leaves alone.
LEMMA StoreOnlyKeeps ==
    ASSUME UNCHANGED StoreOnly
    PROVE  /\ UNCHANGED <<pc, observed, startDay, active, activeDropped, parseFailed,
                          now, day, scenario>>
           /\ Ended' = Ended /\ Running' = Running /\ Begun' = Begun
           /\ retention_day' = retention_day
  <1>1. UNCHANGED <<pc, observed, startDay, active, activeDropped, parseFailed,
                    now, day, scenario>>
    BY DEF StoreOnly, reqvars, frame
  <1> QED BY <1>1 DEF Ended, Running, Begun, retention_day

\* recv: the head of the queue joins the batch.
LEMMA ReceiveStore ==
    ASSUME IInv, Receive
    PROVE  SInv'
  <1>0. SInv BY DEF IInv
  <1>1. /\ queue # << >> /\ Cardinality(batch) < BATCH
        /\ batch' = batch \cup {Head(queue)} /\ queue' = Tail(queue)
        /\ UNCHANGED <<wpc, tries, rows, sweep, dropped, writeFailed, expired, persisted>>
        /\ UNCHANGED StoreOnly
    BY DEF Receive
  <1>2. /\ queue' \in Seq(Requests) /\ Len(queue') = Len(queue) - 1
        /\ Members(queue) = Members(queue') \cup {Head(queue)} /\ Head(queue) \in Requests
    BY <1>0, <1>1, TailMembers, StoreFacts
  <1>3. Members(queue)' = Members(queue') BY DEF Members
  <1>4. /\ Cardinality(batch') <= Cardinality(batch) + 1 /\ Cardinality(batch') \in Nat
    <2>1. batch' \in SUBSET Requests BY <1>0, <1>1, <1>2, StoreFacts
    <2> QED BY <1>0, <1>1, <1>2, <2>1, SizeOfAdded, Sizes, StoreFacts
  <1>5. Missing' = Missing
    BY <1>1, <1>2, <1>3, StoreOnlyKeeps DEF Missing
  <1>6. batch' \subseteq Ended /\ Members(queue') \subseteq Ended
    BY <1>0, <1>1, <1>2, StoreFacts
  <1>7. Len(queue') <= QUEUE_SIZE
    <2>1. Len(queue) <= QUEUE_SIZE /\ Len(queue) \in Nat /\ QUEUE_SIZE \in Nat
      BY <1>0, StoreFacts, PerformanceAssumption DEF SInv, StoreTypeOK
    <2> QED BY <1>2, <2>1
  <1>8. Cardinality(batch') <= BATCH
    <2>1. Cardinality(batch) \in Nat /\ BATCH \in Nat BY <1>0, StoreFacts
    <2>2. Cardinality(batch) < BATCH BY <1>1
    <2> QED BY <1>4, <2>1, <2>2
  <1>9. StoreTypeOK'
    BY <1>0, <1>1, <1>2, <1>3, <1>6, <1>7, <1>8, StoreOnlyKeeps DEF SInv, StoreTypeOK
  <1>10. Tallied' BY <1>0, <1>1, StoreOnlyKeeps DEF SInv, Tallied
  <1>11. persisted' + expired' + dropped' + Len(queue') + Cardinality(batch')
            <= Cardinality(Ended')
    <2>1. /\ persisted \in Nat /\ expired \in Nat /\ dropped \in Nat /\ Len(queue) \in Nat
          /\ Cardinality(batch) \in Nat /\ Cardinality(Ended) \in Nat
          /\ persisted + expired + dropped + Len(queue) + Cardinality(batch)
                <= Cardinality(Ended)
      BY <1>0, StoreFacts
    <2>2. Ended' = Ended BY <1>1, StoreOnlyKeeps
    <2>3. persisted' = persisted /\ expired' = expired /\ dropped' = dropped BY <1>1
    <2> QED BY <1>2, <1>4, <2>1, <2>2, <2>3
  <1>12. GapsCounted' BY <1>0, <1>1, <1>5, <1>11, StoreOnlyKeeps DEF SInv, GapsCounted
  <1> QED BY <1>9, <1>10, <1>12 DEF SInv

\* The batch leaves what is out of the retention behind, and counts it.
LEMMA CloseBatchStore ==
    ASSUME IInv, CloseBatch
    PROVE  SInv'
  <1> DEFINE kept == {r \in batch : startDay[r] >= retention_day}
  <1>0. SInv BY DEF IInv
  <1>1. /\ batch' = kept /\ expired' = expired + Cardinality(batch \ kept)
        /\ wpc' \in {"recv", "insert"} /\ tries' = 0
        /\ UNCHANGED <<queue, rows, sweep, dropped, writeFailed, persisted>>
        /\ UNCHANGED StoreOnly
    BY DEF CloseBatch
  <1>2. /\ Cardinality(batch) = Cardinality(kept) + Cardinality(batch \ kept)
        /\ Cardinality(kept) \in Nat /\ Cardinality(batch \ kept) \in Nat
    <2>1. kept \in SUBSET Requests /\ kept \subseteq batch BY <1>0, StoreFacts
    <2> HIDE DEF kept
    <2> QED BY <1>0, <2>1, StoreFacts, Sizes
  <1>3. kept \subseteq batch OBVIOUS
  <1>4. Missing' = Missing
    <2>1. Members(queue)' = Members(queue) BY <1>1 DEF Members
    <2>2. \A r \in Requests : r \in batch /\ startDay[r] >= retention_day => r \in kept
      OBVIOUS
    <2>3. Ended' = Ended /\ startDay' = startDay /\ retention_day' = retention_day
          /\ rows' = rows
      BY <1>1, StoreOnlyKeeps
    <2>4. Ended \subseteq Requests BY <1>0, StoreFacts
    <2> HIDE DEF kept
    <2> QED BY <1>1, <1>3, <2>1, <2>2, <2>3, <2>4 DEF Missing
  <1> HIDE DEF kept
  <1>5. /\ persisted \in Nat /\ expired \in Nat /\ dropped \in Nat /\ Len(queue) \in Nat
        /\ Cardinality(batch) \in Nat /\ Cardinality(Ended) \in Nat
        /\ Cardinality(batch) <= BATCH /\ BATCH \in Nat /\ RETRIES \in Nat \ {0}
        /\ persisted + expired + dropped + Len(queue) + Cardinality(batch)
              <= Cardinality(Ended)
    BY <1>0, StoreFacts, PerformanceAssumption
  <1>6. expired' \in Nat /\ Cardinality(batch') <= BATCH /\ tries' \in 0..(RETRIES - 1)
    BY <1>1, <1>2, <1>5
  <1>7. persisted' + expired' + dropped' + Len(queue') + Cardinality(batch')
            <= Cardinality(Ended')
    <2>1. Ended' = Ended BY <1>1, StoreOnlyKeeps
    <2>2. /\ persisted' = persisted /\ dropped' = dropped /\ Len(queue') = Len(queue)
          /\ Cardinality(batch') = Cardinality(kept)
      BY <1>1
    <2> DEFINE k == Cardinality(kept)
               d == Cardinality(batch \ kept)
               q == Len(queue)
               n == Cardinality(Ended)
    <2>3. /\ k \in Nat /\ d \in Nat /\ q \in Nat /\ n \in Nat
          /\ persisted + expired + dropped + q + (k + d) <= n
      BY <1>2, <1>5
    <2> HIDE DEF k, d, q, n
    <2>4. persisted + (expired + d) + dropped + q + k <= n BY <1>5, <2>3
    <2> QED BY <1>1, <2>1, <2>2, <2>4 DEF k, d, q, n
  <1>8. batch' \subseteq Ended' /\ Members(queue)' \subseteq Ended' /\ rows' \subseteq Ended'
    BY <1>0, <1>1, <1>3, StoreFacts, StoreOnlyKeeps DEF Members
  <1>9. StoreTypeOK'
    BY <1>0, <1>1, <1>6, <1>8, StoreOnlyKeeps DEF SInv, StoreTypeOK
  <1>10. Tallied' BY <1>0, <1>1, StoreOnlyKeeps DEF SInv, Tallied
  <1>11. GapsCounted' BY <1>0, <1>1, <1>4, <1>7, StoreOnlyKeeps DEF SInv, GapsCounted
  <1> QED BY <1>9, <1>10, <1>11 DEF SInv

\* insert_batch: the batch is in the table.
LEMMA InsertStore ==
    ASSUME IInv, Insert
    PROVE  SInv'
  <1>0. SInv BY DEF IInv
  <1>1. /\ rows' = rows \cup batch /\ batch' = {} /\ wpc' = "recv"
        /\ persisted' = persisted + Cardinality(batch \ rows)
        /\ UNCHANGED <<queue, tries, sweep, dropped, writeFailed, expired>>
        /\ UNCHANGED StoreOnly
    BY DEF Insert
  <1>2. /\ Cardinality(batch \ rows) \in Nat
        /\ Cardinality(batch \ rows) <= Cardinality(batch)
    <2>1. batch \ rows \in SUBSET Requests /\ batch \in SUBSET Requests
          /\ batch \ rows \subseteq batch
      BY <1>0, StoreFacts
    <2> QED BY <2>1, Sizes
  <1>3. Missing' = Missing
    <2>1. Members(queue)' = Members(queue) BY <1>1 DEF Members
    <2> QED BY <1>1, <2>1, StoreOnlyKeeps DEF Missing
  <1>4. Cardinality(batch') = 0 BY <1>1, FS_EmptySet
  <1>5. /\ persisted \in Nat /\ expired \in Nat /\ dropped \in Nat /\ Len(queue) \in Nat
        /\ Cardinality(batch) \in Nat /\ Cardinality(Ended) \in Nat /\ BATCH \in Nat
        /\ persisted + expired + dropped + Len(queue) + Cardinality(batch)
              <= Cardinality(Ended)
    BY <1>0, StoreFacts
  <1>6. persisted' \in Nat /\ Cardinality(batch') <= BATCH BY <1>1, <1>2, <1>4, <1>5
  <1>7. persisted' + expired' + dropped' + Len(queue') + Cardinality(batch')
            <= Cardinality(Ended')
    <2>1. Ended' = Ended BY <1>1, StoreOnlyKeeps
    <2>2. expired' = expired /\ dropped' = dropped /\ Len(queue') = Len(queue) BY <1>1
    <2>3. persisted' = persisted + Cardinality(batch \ rows) BY <1>1
    <2>4. Cardinality(Ended') = Cardinality(Ended) BY <2>1
    <2> DEFINE new == Cardinality(batch \ rows)
               size == Cardinality(batch)
               all == Cardinality(Ended)
               waiting == Len(queue)
    <2>5. /\ new \in Nat /\ size \in Nat /\ all \in Nat /\ waiting \in Nat
          /\ persisted \in Nat /\ expired \in Nat /\ dropped \in Nat
          /\ new <= size
          /\ persisted + expired + dropped + waiting + size <= all
      BY <1>2, <1>5
    <2> HIDE DEF new, size, all, waiting
    <2>6. (persisted + new) + expired + dropped + waiting + 0 <= all BY <2>5
    <2> QED BY <1>4, <2>2, <2>3, <2>4, <2>6 DEF new, all, waiting
  <1>8. batch' \subseteq Ended' /\ Members(queue)' \subseteq Ended' /\ rows' \subseteq Ended'
    BY <1>0, <1>1, StoreFacts, StoreOnlyKeeps DEF Members
  <1>9. StoreTypeOK'
    BY <1>0, <1>1, <1>6, <1>8, StoreOnlyKeeps DEF SInv, StoreTypeOK
  <1>10. Tallied' BY <1>0, <1>1, StoreOnlyKeeps DEF SInv, Tallied
  <1>11. GapsCounted' BY <1>0, <1>1, <1>3, <1>7, StoreOnlyKeeps DEF SInv, GapsCounted
  <1> QED BY <1>9, <1>10, <1>11 DEF SInv

\* insert_batch fails: it is tried again, or the batch is given up and counted,
\* also when its commit took effect.
LEMMA InsertFailsStore ==
    ASSUME IInv, InsertFails
    PROVE  SInv'
  <1>0. SInv BY DEF IInv
  <1>1. /\ rows' \in {rows, rows \cup batch}
        /\ UNCHANGED <<queue, sweep, expired, persisted>> /\ UNCHANGED StoreOnly
    BY DEF InsertFails
  <1>2. /\ rows \subseteq rows' /\ rows' \subseteq Ended'
        /\ Members(queue)' = Members(queue) /\ Members(queue)' \subseteq Ended'
        /\ Ended' = Ended
    BY <1>0, <1>1, StoreFacts, StoreOnlyKeeps DEF Members
  <1>3. /\ persisted \in Nat /\ expired \in Nat /\ dropped \in Nat /\ Len(queue) \in Nat
        /\ Cardinality(batch) \in Nat /\ Cardinality(Ended) \in Nat /\ BATCH \in Nat
        /\ writeFailed \in Nat /\ Cardinality(Missing) \in Nat
        /\ Cardinality(Missing) <= dropped
        /\ persisted + expired + dropped + Len(queue) + Cardinality(batch)
              <= Cardinality(Ended)
    BY <1>0, StoreFacts
  <1>4. CASE /\ tries < RETRIES - 1 /\ tries' = tries + 1
             /\ UNCHANGED <<wpc, batch, writeFailed, dropped>>
    <2>1. Missing' \subseteq Missing
      BY <1>1, <1>2, <1>4, StoreOnlyKeeps DEF Missing
    <2>2. Cardinality(Missing') <= Cardinality(Missing) /\ Cardinality(Missing') \in Nat
      BY <1>0, <2>1, StoreFacts, Sizes
    <2>3. tries' \in 0..(RETRIES - 1)
      <3>1. tries \in 0..(RETRIES - 1) BY <1>0 DEF SInv, StoreTypeOK
      <3>2. RETRIES \in Nat BY PerformanceAssumption
      <3> QED BY <1>4, <3>1, <3>2
    <2>4. batch' \subseteq Ended' BY <1>0, <1>2, <1>4, StoreFacts
    <2>5. StoreTypeOK'
      BY <1>0, <1>1, <1>2, <1>4, <2>3, <2>4, StoreOnlyKeeps DEF SInv, StoreTypeOK
    <2>6. Tallied' BY <1>0, <1>1, <1>4, StoreOnlyKeeps DEF SInv, Tallied
    <2>7. Cardinality(Missing') <= dropped' BY <1>3, <1>4, <2>2
    <2>8. GapsCounted'
      BY <1>0, <1>1, <1>4, <2>7, StoreOnlyKeeps DEF SInv, GapsCounted
    <2> QED BY <2>5, <2>6, <2>8 DEF SInv
  <1>5. CASE /\ writeFailed' = writeFailed + Cardinality(batch)
             /\ dropped' = dropped + Cardinality(batch)
             /\ batch' = {} /\ wpc' = "recv" /\ UNCHANGED tries
    <2>1. Missing' \subseteq Missing \cup batch
      BY <1>1, <1>2, <1>5, StoreOnlyKeeps DEF Missing
    <2>2. /\ Cardinality(Missing') <= Cardinality(Missing \cup batch)
          /\ Cardinality(Missing \cup batch) <= Cardinality(Missing) + Cardinality(batch)
          /\ Cardinality(Missing') \in Nat /\ Cardinality(Missing \cup batch) \in Nat
      <3>1. /\ Missing \in SUBSET Requests /\ batch \in SUBSET Requests
            /\ Missing \cup batch \in SUBSET Requests /\ Missing' \in SUBSET Requests
        BY <1>0, <2>1, StoreFacts
      <3> QED BY <2>1, <3>1, Sizes
    <2>3. Cardinality(Missing') <= dropped' /\ dropped' \in Nat /\ writeFailed' \in Nat
      BY <1>3, <1>5, <2>2
    <2>4. Cardinality(batch') = 0 BY <1>5, FS_EmptySet
    <2>5. Cardinality(batch') <= BATCH BY <1>3, <2>4
    <2>6. persisted' + expired' + dropped' + Len(queue') + Cardinality(batch')
              <= Cardinality(Ended')
      <3>1. persisted' = persisted /\ expired' = expired /\ Len(queue') = Len(queue)
        BY <1>1
      <3>2. Ended' = Ended /\ dropped' = dropped + Cardinality(batch) BY <1>2, <1>5
      <3> QED BY <1>3, <2>4, <3>1, <3>2
    <2>7. StoreTypeOK'
      BY <1>0, <1>1, <1>2, <1>5, <2>3, <2>5, StoreOnlyKeeps DEF SInv, StoreTypeOK
    <2>8. Tallied'
      <3>1. writeFailed' <= dropped' BY <1>0, <1>3, <1>5 DEF SInv, Tallied
      <3> QED BY <1>0, <1>1, <3>1, StoreOnlyKeeps DEF SInv, Tallied
    <2>9. GapsCounted'
      BY <1>0, <1>1, <2>3, <2>6, StoreOnlyKeeps DEF SInv, GapsCounted
    <2> QED BY <2>7, <2>8, <2>9 DEF SInv
  <1> QED BY <1>4, <1>5 DEF InsertFails

\* The sweep removes only what is out of the retention: its day was the first
\* retained one when it started.
LEMMA SweepStore ==
    ASSUME IInv, Sweeper
    PROVE  SInv'
  <1>0. SInv BY DEF IInv
  <1>1. /\ UNCHANGED <<queue, wpc, batch, tries, dropped, writeFailed, expired, persisted>>
        /\ UNCHANGED StoreOnly
    BY DEF Sweeper, SweepStarts, DeleteBefore, SweepFails, writer
  <1>2. /\ rows' \subseteq rows
        /\ \A r \in rows : r \notin rows' => startDay[r] < retention_day
        /\ sweep' \in {None, sweep, retention_day}
        /\ sweep' = retention_day => sweep' >= 1 \/ sweep' \in {None, sweep}
    <2>0. /\ startDay \in [Requests -> Nat] /\ retention_day \in Int
          /\ rows \subseteq Requests
          /\ sweep \in Int /\ (sweep # None => sweep <= retention_day)
      <3>1. retention_day \in Int /\ rows \subseteq Requests BY <1>0, StoreFacts
      <3>2. /\ startDay \in [Requests -> Nat] /\ scenario.maxDay \in Nat
            /\ sweep \in {None} \cup 1..scenario.maxDay
            /\ sweep # None => sweep <= retention_day
        BY <1>0 DEF SInv, StoreTypeOK
      <3> QED BY <3>1, <3>2 DEF None
    <2>1. CASE SweepStarts
      BY <2>0, <2>1 DEF SweepStarts
    <2>2. CASE DeleteBefore
      <3>1. PICK gone \in SUBSET {r \in rows : startDay[r] < sweep} :
               rows' = rows \ gone
        BY <2>2 DEF DeleteBefore
      <3>2. sweep # None /\ sweep' \in {None, sweep} BY <2>2 DEF DeleteBefore
      <3> QED BY <2>0, <3>1, <3>2
    <2>3. CASE SweepFails BY <2>3 DEF SweepFails
    <2> QED BY <2>1, <2>2, <2>3 DEF Sweeper
  <1>3. Missing' = Missing
    <2>1. Members(queue)' = Members(queue) BY <1>1 DEF Members
    <2>2. \A r \in Requests : ~(startDay[r] < retention_day /\ startDay[r] >= retention_day)
      <3>1. startDay \in [Requests -> Nat] /\ retention_day \in Int BY <1>0, StoreFacts
      <3> QED BY <3>1
    <2>3. Ended \subseteq Requests BY <1>0, StoreFacts
    <2> QED BY <1>1, <1>2, <2>1, <2>2, <2>3, StoreOnlyKeeps DEF Missing
  <1>4. /\ sweep' \in {None} \cup 1..scenario'.maxDay
        /\ sweep' # None => sweep' <= retention_day'
    <2>1. /\ sweep \in {None} \cup 1..scenario.maxDay /\ scenario.maxDay \in Nat
          /\ sweep # None => sweep <= retention_day
          /\ day \in Nat /\ day <= scenario.maxDay /\ KEEP \in Nat
      BY <1>0, PerformanceAssumption DEF SInv, StoreTypeOK
    <2>2. retention_day <= scenario.maxDay /\ retention_day \in Int
      BY <2>1 DEF retention_day
    <2>3. scenario' = scenario /\ retention_day' = retention_day BY <1>1, StoreOnlyKeeps
    <2> QED BY <1>2, <2>1, <2>2, <2>3
  <1>5. /\ rows' \subseteq Ended' /\ Members(queue)' \subseteq Ended' /\ batch' \subseteq Ended'
    BY <1>0, <1>1, <1>2, StoreFacts, StoreOnlyKeeps DEF Members
  <1>6. StoreTypeOK'
    BY <1>0, <1>1, <1>4, <1>5, StoreOnlyKeeps DEF SInv, StoreTypeOK
  <1>7. Tallied' BY <1>0, <1>1, StoreOnlyKeeps DEF SInv, Tallied
  <1>8. GapsCounted' BY <1>0, <1>1, <1>3, StoreOnlyKeeps DEF SInv, GapsCounted
  <1> QED BY <1>6, <1>7, <1>8 DEF SInv

\* At midnight one more day leaves the retention: nothing becomes missing.
LEMMA MidnightStore ==
    ASSUME IInv, Midnight
    PROVE  SInv'
  <1>0. SInv BY DEF IInv
  <1>1. /\ day < scenario.maxDay /\ day' = day + 1
        /\ UNCHANGED <<pc, observed, startDay, active, queue, wpc, batch, tries, rows,
                       sweep, dropped, writeFailed, expired, persisted, activeDropped,
                       parseFailed, now, scenario>>
    BY DEF Midnight, reqvars, writer, counters
  <1>2. Ended' = Ended /\ Running' = Running /\ Begun' = Begun
    BY <1>1 DEF Ended, Running, Begun
  <1>3. retention_day' = retention_day + 1 /\ retention_day \in Int
    BY <1>0, <1>1, StoreFacts DEF retention_day
  <1>4. Missing' \subseteq Missing
    <2>1. \A r \in Requests : startDay[r] >= retention_day + 1 => startDay[r] >= retention_day
      <3>1. startDay \in [Requests -> Nat] BY <1>0, StoreFacts
      <3> QED BY <1>3, <3>1
    <2>2. Members(queue)' = Members(queue) BY <1>1 DEF Members
    <2>3. Ended \subseteq Requests BY <1>0, StoreFacts
    <2> QED BY <1>1, <1>2, <1>3, <2>1, <2>2, <2>3 DEF Missing
  <1>5. Cardinality(Missing') <= dropped'
    <2>1. Cardinality(Missing') <= Cardinality(Missing) /\ Cardinality(Missing') \in Nat
      BY <1>0, <1>4, StoreFacts, Sizes
    <2>2. Cardinality(Missing) <= dropped /\ Cardinality(Missing) \in Nat /\ dropped \in Nat
      BY <1>0, StoreFacts
    <2>3. dropped' = dropped BY <1>1
    <2> QED BY <2>1, <2>2, <2>3
  <1>6. /\ day' \in Nat /\ day' <= scenario'.maxDay
        /\ sweep' # None => sweep' <= retention_day'
    <2>1. /\ day \in Nat /\ scenario.maxDay \in Nat
          /\ sweep \in {None} \cup 1..scenario.maxDay
          /\ sweep # None => sweep <= retention_day
      BY <1>0 DEF SInv, StoreTypeOK
    <2> QED BY <1>1, <1>3, <2>1
  <1>7. Members(queue)' \subseteq Ended' BY <1>0, <1>1, <1>2, StoreFacts DEF Members
  <1>8. StoreTypeOK' BY <1>0, <1>1, <1>2, <1>6, <1>7 DEF SInv, StoreTypeOK
  <1>9. Tallied' BY <1>0, <1>1, <1>2 DEF SInv, Tallied
  <1>10. GapsCounted' BY <1>0, <1>1, <1>2, <1>5 DEF SInv, GapsCounted
  <1> QED BY <1>8, <1>9, <1>10 DEF SInv

\* The clock of milliseconds, and a step of somebody else.
LEMMA TickStore ==
    ASSUME IInv, Tick \/ UNCHANGED vars
    PROVE  SInv'
  <1>1. /\ UNCHANGED <<pc, observed, startDay, active, queue, writer, rows, sweep,
                       counters, day, scenario>>
        /\ now' = now \/ (now' = now + 1 /\ now < scenario.maxTime)
    BY DEF Tick, vars, reqvars, frame
  <1>2. Ended' = Ended /\ Running' = Running /\ Begun' = Begun
    BY <1>1 DEF Ended, Running, Begun
  <1>3. now' <= scenario.maxTime /\ observed' \in [Requests -> BOOLEAN]
    BY <1>1 DEF IInv, RInv, RecordTypeOK, SInv, StoreTypeOK
  <1> QED BY <1>1, <1>2, <1>3, StoreFrame DEF IInv

\* Every step keeps both invariants.
LEMMA NextIInv == IInv /\ [Next]_vars => IInv'
  <1> SUFFICES ASSUME IInv, [Next]_vars PROVE SInv' BY NextRecords DEF IInv
  <1>1. ASSUME NEW r \in Requests, Request(r) PROVE SInv'
    <2>1. scenario.answers \subseteq Answers /\ scenario.values \subseteq Values
      BY DEF IInv, RInv, RecordTypeOK
    <2>2. \/ begin(r)
          \/ (BodyEnds(r) \/ (\E o \in {"read_timeout", "stream_error"} : ReadFails(r, o))
                \/ Drop(r))
          \/ (LocalReply(r) \/ (\E o \in {"send_error", "send_timeout"} : SendFails(r, o))
                \/ (\E b, c \in BOOLEAN : Upstream(r, b, c))
                \/ (\E s \in Answers : Reply(r, s))
                \/ Bytes(r) \/ Damaged(r) \/ (\E v \in Values : Observe(r, v)))
      BY <1>1, <2>1 DEF Request, Replies, Streamed
    <2> QED BY <2>2, BeginStore, EndStore, ReportsStore
  <1>2. CASE Writer
    BY <1>2, ReceiveStore, CloseBatchStore, InsertStore, InsertFailsStore DEF Writer
  <1>3. CASE Sweeper BY <1>3, SweepStore
  <1>4. CASE Midnight BY <1>4, MidnightStore
  <1>5. CASE Tick \/ UNCHANGED vars BY <1>5, TickStore
  <1> QED BY <1>1, <1>2, <1>3, <1>4, <1>5 DEF Next
-------------------------------------------------------------------------------
\* The inductive invariant holds throughout: what is known of every request,
\* and what the store and its counters add up to.
THEOREM Invariance == Spec => []IInv
  <1>1. Init => IInv BY InitRecords, InitStore DEF IInv
  <1> QED BY <1>1, NextIInv, PTL DEF Spec

\* The variables keep their types: the times of a record lie within the run,
\* and no counter, queue or batch outgrows its bound.
THEOREM TypeCorrect == Spec => []TypeOK
  <1>1. IInv => TypeOK
    <2> SUFFICES ASSUME IInv PROVE TypeOK OBVIOUS
    <2>1. RInv /\ SInv /\ RecordTypeOK /\ Followed /\ StoreTypeOK /\ Tallied
      BY DEF IInv, RInv, SInv
    <2>2. now \in 0..scenario.maxTime /\ day \in 0..scenario.maxDay
      BY <2>1 DEF RecordTypeOK, StoreTypeOK
    <2>3. ASSUME NEW x \in Time, x <= now PROVE x \in Times
      BY <2>1, <2>2, <2>3 DEF Time, Times, None, RecordTypeOK, StoreTypeOK
    <2>4. ASSUME NEW r \in Requests
          PROVE  /\ event[r].outcome \in Outcomes \cup {"none"}
                 /\ event[r].quality \in {"observed", "partial", "parse_failed"}
                 /\ {event[r].firstByte, event[r].firstContent, event[r].firstText,
                     event[r].completed, event[r].last, event[r].gap,
                     event[r].duration} \subseteq Times
                 /\ pc[r] = "ended" <=> event[r].duration # None
      <3> DEFINE e == event[r]
      <3>1. e \in Events /\ pc[r] \in PCs /\ Elapsed(r) \in Nat /\ Elapsed(r) <= now
            /\ now \in Nat
        BY <2>1, OfRequest
      <3>2. /\ pc[r] \in {"idle", "preparing", "headers"} => Untouched(e, seen[r], parser[r])
            /\ pc[r] = "body" => InBody(e, seen[r], parser[r], Elapsed(r))
            /\ pc[r] = "ended" => Dated(e, now)
        BY <2>1, OfRequest DEF Followed
      <3> HIDE DEF e
      <3>3. /\ e.outcome \in Outcomes \cup {"none"}
            /\ e.quality \in {"observed", "partial", "parse_failed"}
            /\ e.firstByte \in Time /\ e.firstContent \in Time /\ e.firstText \in Time
            /\ e.completed \in Time /\ e.last \in Time /\ e.gap \in Time
            /\ e.duration \in Time
        BY <3>1 DEF Events, Qualities
      <3>4. pc[r] = "ended" <=> e.duration # None
        BY <3>1, <3>2 DEF Untouched, InBody, Timed, Dated, PCs
      <3>5. /\ e.firstByte <= now /\ e.firstContent <= now /\ e.firstText <= now
            /\ e.completed <= now /\ e.last <= now /\ e.gap <= now /\ e.duration <= now
        <4>1. CASE pc[r] \in {"idle", "preparing", "headers"}
          BY <3>1, <3>2, <4>1 DEF Untouched, None
        <4>2. CASE pc[r] = "body"
          BY <3>1, <3>2, <3>3, <4>2 DEF InBody, Timed, Time, None
        <4>3. CASE pc[r] = "ended" BY <3>2, <4>3 DEF Dated
        <4> QED BY <3>1, <4>1, <4>2, <4>3 DEF PCs
      <3>6. {e.firstByte, e.firstContent, e.firstText, e.completed, e.last, e.gap,
             e.duration} \subseteq Times
        BY <2>3, <3>3, <3>5
      <3> QED BY <3>3, <3>4, <3>6 DEF e
    <2>5. \A c \in {dropped, writeFailed, expired, persisted, activeDropped, parseFailed} :
             c \in 0..Cardinality(Requests)
      <3>1. /\ Ended \in SUBSET Requests /\ Begun \in SUBSET Requests
        BY DEF Ended, Begun
      <3>2. /\ Cardinality(Ended) <= Cardinality(Requests) /\ Cardinality(Ended) \in Nat
            /\ Cardinality(Begun) <= Cardinality(Requests) /\ Cardinality(Begun) \in Nat
            /\ Cardinality(Requests) \in Nat
        BY <3>1, Sizes
      <3>3. /\ dropped \in Nat /\ writeFailed \in Nat /\ expired \in Nat /\ persisted \in Nat
            /\ activeDropped \in Nat /\ parseFailed \in Nat
            /\ writeFailed <= dropped /\ parseFailed <= Cardinality(Ended)
            /\ activeDropped <= Cardinality(Begun)
            /\ Len(queue) \in Nat /\ Cardinality(batch) \in Nat
            /\ persisted + expired + dropped + Len(queue) + Cardinality(batch)
                 <= Cardinality(Ended)
        BY <2>1, StoreFacts DEF StoreTypeOK, Tallied
      <3>4. persisted <= Cardinality(Ended) /\ expired <= Cardinality(Ended)
            /\ dropped <= Cardinality(Ended)
        BY <3>2, <3>3
      <3> QED BY <3>2, <3>3, <3>4
    <2>6. active \subseteq Requests
      BY <2>1 DEF SInv, GapsCounted, Running
    <2> QED BY <2>1, <2>2, <2>4, <2>5, <2>6 DEF TypeOK, RecordTypeOK, StoreTypeOK, PCs, Parsers
  <1> QED BY <1>1, Invariance, PTL

\* The record of a finished request says what happened to it, in whatever
\* order its status, its parser, a read error, the end of its body and a drop
\* came, for bodies of any length and clocks of any range (finish, snapshot).
THEOREM RecordsAlwaysJustified == Spec => []RecordJustified
  <1>1. IInv => RecordJustified
    BY DEF IInv, RInv, Followed, RecordJustified, Ended
  <1> QED BY <1>1, Invariance, PTL

\* Every gap is counted: a finished request of the retained days is in the
\* queue, in the batch, in the table or among the dropped, nothing is counted
\* twice, and a running request is registered or counted, for any number of
\* requests and any queue, batch, retry, registry and retention limits, with
\* inserts that fail or half fail (try_send, run_writer, begin).
THEOREM GapsAlwaysCounted == Spec => []GapsCounted
  <1>1. IInv => GapsCounted BY DEF IInv, SInv
  <1> QED BY <1>1, Invariance, PTL
=============================================================================
