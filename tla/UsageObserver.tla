----------------------------- MODULE UsageObserver ----------------------------
(***************************************************************************)
(* How the usage of one upstream response is found: UsageObservedStream     *)
(* passes the chunks of the body on to the client and to a ResponseObserver, *)
(* whose parser undoes the content encoding and reads SSE lines or one JSON *)
(* value.  The transport cuts the body wherever it likes, a decoder hands   *)
(* out what it has whenever it likes, and the body may end in the middle:   *)
(* by EOF, by an error, or because the client went away.                    *)
(*                                                                          *)
(* A line has a type, the usage object it carries and a size in bytes.      *)
(* Every byte of a line is the line itself; the first byte of a data line   *)
(* stands for the field name, the others for its JSON.  Of the five token   *)
(* counts three are kept: output and the two kinds of cache creation.       *)
(***************************************************************************)
EXTENDS Integers, Sequences, SequencesExt, FiniteSetsExt, Functions

CONSTANTS SseBodies, JsonBodies,  \* records [lines, open]: open if the last
                                  \* line has no line end
          Encodings,              \* subset of Identity, Coded, Unsupported
          SSE_LINE_LIMIT, JSON_LIMIT

Identity == "identity"
Coded == "coded"               \* gzip, deflate, brotli, zstd
Unsupported == "unsupported"

Absent == -1                   \* a token count that is missing
\* A usage object: split if it breaks cache creation down by lifetime.
UsageObject(o, total, split, m5, h1) ==
    [output |-> o, total |-> total, split |-> split, m5 |-> m5, h1 |-> h1]
NoUsage == UsageObject(Absent, Absent, FALSE, Absent, Absent)
BadUsage == UsageObject(-2, -2, FALSE, -2, -2)  \* no object, or a bad count
Fields == {"output", "cache_5m", "cache_1h"}
LF == [type |-> "line end", usage |-> NoUsage, size |-> 1]

ASSUME ObserverAssumption ==
    /\ Encodings \subseteq {Identity, Coded, Unsupported}
    /\ SSE_LINE_LIMIT \in Nat \ {0} /\ JSON_LIMIT \in Nat \ {0}

VARIABLES body, is_stream, content_encoding,
          performance,   \* whether a performance handle watches as well
          wire,          \* bytes of the encoded body that have arrived
          decoded,       \* bytes the decoder has handed to the parser
          parser, decode_failed,
          attempt,       \* whether the attempt is still to be settled
          results,       \* what was reported for it
          ended,         \* "no", "eof", "error" or "drop"
          corrupt, before  \* history: a decoder failure, decoded before finish

inputs == <<body, is_stream, content_encoding, performance>>
observerVars == <<inputs, wire, decoded, parser, decode_failed, attempt, results,
                  ended, corrupt, before>>

Bytes == FlattenSeq([k \in DOMAIN body.lines |->
            [j \in 1..body.lines[k].size |-> body.lines[k]] \o
            (IF k = Len(body.lines) /\ body.open THEN <<>> ELSE <<LF>>)])
\* An encoded body ends with a trailer.
WireLength == Len(Bytes) + (IF content_encoding = Identity THEN 0 ELSE 1)

EmptyParser == [line |-> <<>>, tokens |-> [f \in Fields |-> 0],
                has_usage |-> FALSE, complete |-> FALSE, invalid |-> FALSE,
                oversize |-> FALSE]

ObserverInit ==
    /\ is_stream \in BOOLEAN
    /\ body \in IF is_stream THEN SseBodies ELSE JsonBodies
    /\ content_encoding \in Encodings
    /\ performance \in BOOLEAN
    /\ wire = 0 /\ decoded = 0 /\ before = 0
    /\ parser = EmptyParser
    /\ decode_failed = (content_encoding = Unsupported)
    /\ attempt = TRUE
    /\ results = <<>>
    /\ ended = "no"
    /\ corrupt = FALSE
-------------------------------------------------------------------------------
(***************************************************************************)
(* SseParser and JsonParser.                                                *)
(***************************************************************************)
\* Without a breakdown the total counts as five-minute cache creation.
parse_usage_patch(u) == [output |-> u.output,
                         cache_5m |-> IF u.split THEN u.m5 ELSE u.total,
                         cache_1h |-> IF u.split THEN u.h1 ELSE Absent]
has_any(c) == \E f \in Fields : c[f] # Absent

\* UsagePatch::apply: counts are cumulative, a later one replaces.
MutApply(p, c) ==
    [p EXCEPT !.tokens = [f \in Fields |-> IF c[f] # Absent THEN @[f] + c[f]
                                                            ELSE @[f]],
              !.has_usage = @ \/ has_any(c)]
apply(p, c) ==
    [p EXCEPT !.tokens = [f \in Fields |-> IF c[f] # Absent THEN c[f] ELSE @[f]],
              !.has_usage = @ \/ has_any(c)]

Patch(p, u) == IF u = BadUsage THEN [p EXCEPT !.invalid = TRUE]
                               ELSE apply(p, parse_usage_patch(u))

\* SseParser::process_line on the bytes collected so far: a line without the
\* data field, or with an empty one, is skipped; JSON that was cut off is as
\* invalid as JSON that never was.
process_line(p) ==
    LET l == Head(p.line) IN
    CASE p.line = <<>> \/ l.type = "event" \/ Len(p.line) = 1 -> p
      [] Len(p.line) < l.size \/ l.type = "garbage" -> [p EXCEPT !.invalid = TRUE]
      [] l.type \in {"message_start", "message_delta"} -> Patch(p, l.usage)
      [] l.type = "message_stop" -> [p EXCEPT !.complete = TRUE]
      [] OTHER -> p

sse_byte(p, b) ==
    CASE p.invalid \/ p.complete -> p
      [] b = LF -> [process_line(p) EXCEPT !.line = <<>>]
      [] Len(p.line) >= SSE_LINE_LIMIT ->
            [p EXCEPT !.line = <<>>, !.invalid = TRUE, !.oversize = TRUE]
      [] OTHER -> [p EXCEPT !.line = Append(@, b)]

sse_finish(p) == IF p.invalid \/ p.complete \/ p.line = <<>> THEN p
                 ELSE [process_line(p) EXCEPT !.line = <<>>]

json_feed(p, bs) ==
    CASE p.invalid -> p
      [] Len(p.line) + Len(bs) > JSON_LIMIT ->
            [p EXCEPT !.line = <<>>, !.invalid = TRUE, !.oversize = TRUE]
      [] OTHER -> [p EXCEPT !.line = @ \o bs]

json_finish(p) ==
    LET l == Head(p.line) IN
    CASE p.invalid \/ p.line = <<>> -> p
      [] Len(p.line) < l.size \/ l.type = "garbage" ->
            [p EXCEPT !.line = <<>>, !.invalid = TRUE]
      [] OTHER -> [Patch(p, l.usage) EXCEPT !.line = <<>>]

parser_feed(p, bs) == IF is_stream THEN FoldLeft(sse_byte, p, bs)
                                   ELSE json_feed(p, bs)
parser_finish(p) == IF is_stream THEN sse_finish(p) ELSE json_finish(p)
-------------------------------------------------------------------------------
(***************************************************************************)
(* EncodedResponseParser.  What a decoder has handed to the parser after w  *)
(* bytes is anything from what it had handed out before to all it could     *)
(* know; Identity passes everything on.                                     *)
(***************************************************************************)
Known(w) == IF w < Len(Bytes) THEN w ELSE Len(Bytes)
Output(w) == IF content_encoding = Identity THEN {w} ELSE decoded..Known(w)
Fed(d) == parser_feed(parser, SubSeq(Bytes, decoded + 1, d))

\* ResponseObserver::finalize: what is reported, if anything.
can_finalize_early == content_encoding = Identity
Report(p, bad, terminal, dropped) ==
    CASE p.oversize -> <<[kind |-> "oversize", dropped |-> dropped]>>
      [] bad \/ p.invalid -> <<[kind |-> "parse_failed", dropped |-> dropped]>>
      [] p.has_usage /\ (terminal \/ p.complete) ->
            <<[kind |-> "submit", dropped |-> dropped, tokens |-> p.tokens]>>
      [] terminal -> <<[kind |-> "no_usage", dropped |-> dropped]>>
      [] OTHER -> <<>>
MutFinalize(p, bad, terminal, dropped) ==
    /\ results' = results \o Report(p, bad, terminal, dropped)
    /\ attempt' = attempt
finalize(p, bad, terminal, dropped) ==
    IF attempt /\ Report(p, bad, terminal, dropped) # <<>>
    THEN /\ results' = results \o Report(p, bad, terminal, dropped)
         /\ attempt' = FALSE
    ELSE UNCHANGED <<attempt, results>>

Watching == attempt \/ performance

\* A chunk of n bytes arrives.  The decoder may find it damaged (c); a parser
\* that turns invalid fails the decoder too.
feed(n, d, c) ==
    /\ LET p == IF decode_failed THEN parser ELSE Fed(d)
           bad == decode_failed \/ c \/ p.invalid
       IN /\ parser' = p
          /\ decode_failed' = bad
          /\ IF p.complete /\ ~bad /\ can_finalize_early
             THEN finalize(p, bad, FALSE, FALSE)
             ELSE UNCHANGED <<attempt, results>>
    /\ decoded' = IF decode_failed THEN decoded ELSE d
    /\ corrupt' = (corrupt \/ (c /\ ~decode_failed))

Chunk(n) ==
    /\ ended = "no"
    /\ n \in 1..(WireLength - wire)
    /\ wire' = wire + n
    /\ IF Watching
       THEN \E d \in Output(wire + n), c \in BOOLEAN :
               /\ c => content_encoding = Coded
               /\ feed(n, d, c)
       ELSE UNCHANGED <<decoded, parser, decode_failed, attempt, results, corrupt>>
    /\ UNCHANGED <<inputs, ended, before>>

\* ResponseObserver::finish: the decoder flushes; it fails unless its input
\* is complete, which is forgiven when the client went away after usage was
\* seen.  Then the parser reads what is left in its buffer.
Forgiven(dropped) == dropped /\ is_stream /\ parser.has_usage
FlushTo(d) == \/ d = decoded /\ decode_failed
              \/ ~decode_failed /\ wire = WireLength /\ d = Len(Bytes)
              \/ ~decode_failed /\ wire < WireLength /\ d \in Output(wire)
finish(d, dropped) ==
    LET flushed == IF decode_failed THEN parser ELSE Fed(d)
        broken == /\ content_encoding # Identity
                  /\ wire < WireLength \/ flushed.invalid
        bad == decode_failed \/ (broken /\ ~Forgiven(dropped))
        p == IF bad THEN flushed ELSE parser_finish(flushed)
    IN /\ parser' = p
       /\ decode_failed' = bad
       /\ finalize(p, bad, TRUE, dropped)

\* The stream yields None or an error, or is dropped.
End(how) ==
    /\ ended = "no"
    /\ ended' = how
    /\ before' = decoded
    /\ IF Watching
       THEN \E d \in 0..Len(Bytes) :
               /\ FlushTo(d)
               /\ finish(d, how = "drop")
               /\ decoded' = d
       ELSE UNCHANGED <<decoded, parser, decode_failed, attempt, results>>
    /\ UNCHANGED <<inputs, wire, corrupt>>

ObserverNext ==
    \/ \E n \in 1..WireLength : Chunk(n)
    \/ \E how \in {"eof", "error", "drop"} : End(how)

ObserverSpec == ObserverInit /\ [][ObserverNext]_observerVars
-------------------------------------------------------------------------------
(***************************************************************************)
(* The reference: what a body means, from its lines and how much of it came *)
(* through, without buffers and chunks.                                     *)
(***************************************************************************)
Limit == IF is_stream THEN SSE_LINE_LIMIT ELSE JSON_LIMIT
EndOf(k) == k + SumFunctionOnSet([j \in DOMAIN body.lines |-> body.lines[j].size],
                                 1..k)
Whole(d) == Cardinality({k \in DOMAIN body.lines : EndOf(k) <= d})

\* The piece of a line that is left when a body ends in the middle of it.
Cut(l, t) ==
    CASE t >= l.size -> l
      [] l.type = "event" \/ (is_stream /\ t = 1) ->
            [type |-> "event", usage |-> NoUsage, size |-> t]
      [] OTHER -> [type |-> "garbage", usage |-> NoUsage, size |-> t]
Lines(d, atEnd) ==
    LET c == Whole(d)
        t == d - EndOf(c)
    IN SubSeq(body.lines, 1, c) \o
       (IF t > Limit \/ (atEnd /\ t > 0)
        THEN <<Cut(body.lines[c + 1], t)>> ELSE <<>>)

TooLong(l) == l.size > Limit
Broken(l) == l.type = "garbage" \/ l.usage = BadUsage
Closing(ls) == {k \in DOMAIN ls : TooLong(ls[k]) \/ Broken(ls[k])
                                  \/ ls[k].type = "message_stop"}
LastOf(ls) == Min(Closing(ls) \cup {Len(ls)})
Count(l, f) == parse_usage_patch(l.usage)[f]
Reports(ls, f) == {k \in 1..LastOf(ls) : Count(ls[k], f) # Absent}
Total(ls) == [f \in Fields |-> IF Reports(ls, f) = {} THEN 0
                               ELSE Count(ls[Max(Reports(ls, f))], f)]
HasUsage(ls) == \E f \in Fields : Reports(ls, f) # {}

\* Usage that the lines had shown when the body ended.
Shown(ls) == is_stream /\ HasUsage(ls) /\ ~\E k \in 1..LastOf(ls) : Broken(ls[k])

Decoded == /\ content_encoding # Unsupported
           /\ ~corrupt
           /\ \/ content_encoding = Identity
              \/ wire = WireLength
              \/ ended = "drop" /\ Shown(Lines(before, FALSE))

MeaningOf(ls, ok) ==
    LET bad == ls # <<>> /\ LastOf(ls) \in Closing(ls) IN
    CASE bad /\ TooLong(ls[LastOf(ls)]) -> [kind |-> "oversize"]
      [] ~ok \/ (bad /\ Broken(ls[LastOf(ls)])) -> [kind |-> "parse_failed"]
      [] HasUsage(ls) -> [kind |-> "submit", tokens |-> Total(ls)]
      [] OTHER -> [kind |-> "no_usage"]

Expected == MeaningOf(Lines(decoded, Decoded), Decoded)
-------------------------------------------------------------------------------
ObserverTypeOK ==
    /\ is_stream \in BOOLEAN /\ performance \in BOOLEAN
    /\ content_encoding \in Encodings
    /\ wire \in 0..WireLength /\ decoded \in 0..Known(wire) /\ before \in 0..decoded
    /\ parser.line \in Seq({body.lines[k] : k \in DOMAIN body.lines} \cup {LF})
    /\ Len(parser.line) <= Limit
    /\ parser.tokens \in [Fields -> Nat]
    /\ {parser.has_usage, parser.complete, parser.invalid, parser.oversize} \subseteq BOOLEAN
    /\ decode_failed \in BOOLEAN /\ attempt \in BOOLEAN /\ corrupt \in BOOLEAN
    /\ ended \in {"no", "eof", "error", "drop"}

\* Exactly one outcome is reported for an attempt, at the latest when its body
\* ends, whoever else watches the body and however it ends.
OneOutcome == /\ Len(results) <= 1
              /\ ended # "no" => Len(results) = 1

\* Wherever the body was cut into chunks and however the decoder buffered, the
\* outcome is what the received lines mean: the latest count of every
\* component up to message_stop, or a parse failure, or no usage.
OutcomeIsMeaning ==
    ended # "no" =>
        /\ results[1].kind = Expected.kind
        /\ Expected.kind = "submit" => results[1].tokens = Expected.tokens
===============================================================================
