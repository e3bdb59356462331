------------------------------ MODULE TlsRecords ------------------------------
(***************************************************************************)
(* One direction of a craftls connection at the level of bytes: the        *)
(* fragmenter and the send buffer of one end, TCP, and the deframer of the *)
(* other, which joins handshake messages in place, inside the buffer it    *)
(* reads records into.                                                     *)
(*                                                                         *)
(* The stream consists of cells.  A record is one header cell and a cell   *)
(* for each unit of payload; a cell of a handshake message knows the       *)
(* message, its place in it and the length the message header states.      *)
(***************************************************************************)
EXTENDS Integers, Sequences, SequencesExt

CONSTANTS Plans,             \* what the sender sends: sequences of steps
          FragSizes,         \* values of max_frag
          HeaderSize,        \* HEADER_SIZE of a handshake message, in cells
          MaxHandshakeSize,  \* MAX_HANDSHAKE_SIZE
          MaxWireSize,       \* OpaqueMessage::MAX_WIRE_SIZE
          ReadSize,          \* READ_SIZE
          SendLimit,         \* limit of sendable_tls
          ReceivedLimit,     \* limit of received_plaintext
          TrialLen           \* trial_decryption_len

VARIABLES plan, left,  \* the sender's program and what is left of it
          frag, tx,    \* its max_frag and its key epoch
          out, wire,   \* sendable_tls and the socket
          sent, got,   \* what was given to the sender; what the deframer gave
                       \* to the state machine
          buf, cap,    \* the deframer's buffer: the used prefix, its capacity
          join,        \* joining_hs, an Option
          pc,          \* "read", or "pop" inside process_new_packets
          rx, trial,   \* key epoch of the receiver, bytes it may still skip
          avail,       \* units in received_plaintext
          closed,      \* has_received_close_notify
          fin,         \* the sender's TCP half: "open", "closed" or "cut"
          err, end     \* the receiver's error; what its reader reported last

senderVars == <<plan, left, frag, tx, out, sent>>
deframerVars == <<buf, cap, join, pc, rx, trial, got, avail, closed, err>>
vars == <<senderVars, deframerVars, wire, fin, end>>

None == << >>
Some(x) == <<x>>
Lower(a, b) == IF a < b THEN a ELSE b

Header(typ, len, epoch) == [h |-> typ, len |-> len, epoch |-> epoch]
HsMessage(id, n, rekey) == [i \in 1..n |-> [m |-> id, i |-> i, n |-> n, rekey |-> rekey]]
AppUnits(first, n) == [i \in 1..n |-> [a |-> first + i - 1]]

Init ==
    /\ plan \in Plans /\ left = plan
    /\ frag \in FragSizes /\ tx = 0
    /\ out = << >> /\ wire = << >> /\ sent = << >> /\ got = << >>
    /\ buf = << >> /\ cap = 0 /\ join = None /\ pc = "read"
    /\ rx = 0 /\ trial = TrialLen
    /\ avail = 0 /\ closed = FALSE /\ fin = "open" /\ err = "none" /\ end = "none"

(***************************************************************************)
(* Sending.  A step of a plan is [k |-> kind, lens, rekey]: "hs" sends one *)
(* handshake message, or several packed together as other implementations  *)
(* do; rekey is the place among them of one after which the key changes, 0 *)
(* for none.  "app" and "early" have one length.                           *)
(***************************************************************************)
\* fragment_slice
Fragments(typ, cells, epoch) ==
    LET count == (Len(cells) + frag - 1) \div frag
        piece(i) == SubSeq(cells, (i - 1) * frag + 1, Lower(i * frag, Len(cells))) IN
    FlattenSeq([i \in 1..count |-> <<Header(typ, Len(piece(i)), epoch)>> \o piece(i)])

\* The number of a message or unit is its place in sent
HsMessages(step) ==
    [i \in 1..Len(step.lens) |->
        HsMessage(Len(sent) + i, step.lens[i], step.rekey = i)]

SendHandshake ==
    /\ left # << >> /\ left[1].k = "hs"
    /\ LET ms == HsMessages(left[1]) IN
       /\ out' = out \o Fragments("handshake", FlattenSeq(ms), tx)
       /\ sent' = sent \o ms
    /\ tx' = IF left[1].rekey > 0 THEN tx + 1 ELSE tx
    /\ left' = Tail(left)
    /\ UNCHANGED <<plan, frag, wire, deframerVars, fin, end>>

\* send_appdata_encrypt: as much as the limit of sendable_tls lets through;
\* the writer comes back with the rest
Taken == Lower(left[1].lens[1], IF SendLimit > Len(out) THEN SendLimit - Len(out) ELSE 0)
SendAppData ==
    /\ left # << >> /\ left[1].k = "app"
    /\ Taken > 0
    /\ LET units == AppUnits(Len(sent) + 1, Taken) IN
       /\ out' = out \o Fragments("app", units, tx)
       /\ sent' = sent \o units
    /\ left' = IF Taken = left[1].lens[1] THEN Tail(left)
               ELSE [left EXCEPT ![1].lens = <<left[1].lens[1] - Taken>>]
    /\ UNCHANGED <<plan, frag, tx, wire, deframerVars, fin, end>>

\* early data under a key the receiver does not have, and the records with no
\* handshake payload
SendRejectedEarlyData ==
    /\ left # << >> /\ left[1].k = "early"
    /\ out' = out \o Fragments("app", AppUnits(0, left[1].lens[1]), -1)
    /\ left' = Tail(left)
    /\ UNCHANGED <<plan, frag, tx, sent, wire, deframerVars, fin, end>>
SendCcs ==
    /\ left # << >> /\ left[1].k = "ccs"
    /\ out' = Append(out, Header("ccs", 0, tx))
    /\ left' = Tail(left)
    /\ UNCHANGED <<plan, frag, tx, sent, wire, deframerVars, fin, end>>
SendCloseNotify ==
    /\ left # << >> /\ left[1].k = "close"
    /\ out' = Append(out, Header("alert", 0, tx))
    /\ left' = Tail(left)
    /\ UNCHANGED <<plan, frag, tx, sent, wire, deframerVars, fin, end>>

\* ChunkVecBuffer::write_to: the socket takes any number of bytes
WriteTls(k) ==
    /\ k \in 1..Len(out)
    /\ wire' = wire \o SubSeq(out, 1, k)
    /\ out' = SubSeq(out, k + 1, Len(out))
    /\ UNCHANGED <<plan, left, frag, tx, sent, deframerVars, fin, end>>

CloseSocket ==
    /\ left = << >> /\ out = << >> /\ fin = "open"
    /\ fin' = "closed"
    /\ UNCHANGED <<senderVars, deframerVars, wire, end>>

\* the connection breaks: bytes at the end of the stream are lost
Cut ==
    /\ fin = "open"
    /\ fin' = "cut"
    /\ \E k \in 0..Len(wire) : wire' = SubSeq(wire, 1, k)
    /\ out' = << >> /\ left' = << >>
    /\ UNCHANGED <<plan, frag, tx, sent, deframerVars, end>>

(***************************************************************************)
(* Reading.                                                                *)
(***************************************************************************)
\* Mutant: the buffer is never allowed to outgrow one record.
MutAllowMax == MaxWireSize

AllowMax == IF join = None THEN MaxWireSize ELSE MaxHandshakeSize

\* prepare_read: the buffer grows by what one read needs, and shrinks again
Capacity ==
    LET need == Lower(AllowMax, Len(buf) + ReadSize) IN
    IF need > cap \/ buf = << >> \/ cap > AllowMax THEN need ELSE cap

ReadTls(k) ==
    /\ pc = "read" /\ err = "none" /\ avail <= ReceivedLimit
    /\ Len(buf) < AllowMax
    /\ k \in 1..Lower(Len(wire), Capacity - Len(buf))
    /\ buf' = buf \o SubSeq(wire, 1, k)
    /\ wire' = SubSeq(wire, k + 1, Len(wire))
    /\ cap' = Capacity
    /\ pc' = "pop"
    /\ UNCHANGED <<senderVars, join, rx, trial, got, avail, closed, err, fin, end>>

BufferFull ==
    /\ pc = "read" /\ err = "none" /\ avail <= ReceivedLimit
    /\ Len(buf) >= AllowMax
    /\ err' = "BufferFull"
    /\ UNCHANGED <<senderVars, buf, cap, join, pc, rx, trial, got, avail, closed, wire, fin, end>>

(***************************************************************************)
(* MessageDeframer::pop, one pass of its loop at a time.  Positions count  *)
(* from 0; start is where the next record is looked for.                   *)
(***************************************************************************)
Popping == pc = "pop" /\ err = "none"
Start == IF join = None THEN 0 ELSE join[1].msgEnd
Joined == SubSeq(buf, join[1].from + 1, join[1].to)
Complete == join # None /\ join[1].exp # None /\ join[1].exp[1] <= Len(Joined)
HasRecord == Len(buf) > Start /\ Len(buf) >= Start + 1 + buf[Start + 1].len
Rec == buf[Start + 1]
RecEnd == Start + 1 + Rec.len
Payload == SubSeq(buf, Start + 2, RecEnd)
Opens == Rec.epoch = rx
AllowedPlaintext == join = None /\ Rec.h = "ccs"

\* the length a message states, once its header is there
PayloadSize(cells) == IF Len(cells) < HeaderSize THEN None ELSE Some(cells[HeaderSize].n)
TooLarge(size) == size # None /\ size[1] > MaxHandshakeSize + HeaderSize
Discard(n) == SubSeq(buf, n + 1, Len(buf))

Error(e) ==
    /\ err' = e
    /\ UNCHANGED <<senderVars, buf, cap, join, pc, rx, trial, got, avail, closed, wire, fin, end>>

\* nothing to deliver: process_new_packets returns
Pending ==
    /\ Popping /\ ~Complete /\ ~HasRecord
    /\ pc' = "read"
    /\ UNCHANGED <<senderVars, buf, cap, join, rx, trial, got, avail, closed, err, wire, fin, end>>

\* the change-cipher-spec of middlebox compatibility, which process_msg drops
PlaintextRecord ==
    /\ Popping /\ ~Complete /\ HasRecord /\ AllowedPlaintext
    /\ buf' = Discard(RecEnd)
    /\ UNCHANGED <<senderVars, cap, join, pc, rx, trial, got, avail, closed, err, wire, fin, end>>

\* a record that does not open: rejected early data while the allowance lasts
Undecryptable ==
    /\ Popping /\ ~Complete /\ HasRecord /\ ~AllowedPlaintext /\ ~Opens
    /\ IF trial < Rec.len THEN Error("DecryptError")
       ELSE IF join # None THEN Error("RejectedEarlyDataInterleaved")
       ELSE /\ buf' = Discard(RecEnd)
            /\ trial' = trial - Rec.len
            /\ UNCHANGED <<senderVars, cap, join, pc, rx, got, avail, closed, err, wire, fin, end>>

\* application data and alerts go to the state machine as they are, unless
\* they cut a handshake message in two
OtherRecord ==
    /\ Popping /\ ~Complete /\ HasRecord /\ ~AllowedPlaintext /\ Opens
    /\ Rec.h # "handshake"
    /\ IF join # None THEN Error("MessageInterleaved")
       ELSE /\ buf' = Discard(RecEnd)
            /\ got' = got \o Payload
            /\ avail' = avail + Len(Payload)
            /\ closed' = (closed \/ Rec.h = "alert")
            /\ UNCHANGED <<senderVars, cap, join, pc, rx, trial, err, wire, fin, end>>

\* Mutant: every fragment is copied to the front.
MutOverlay(at, cells) ==
    [i \in 1..Len(buf) |-> IF i \in DOMAIN cells THEN cells[i] ELSE buf[i]]

\* append_hs: the payload is copied to the front of the buffer, or behind
\* the payload already joined there
Overlay(at, cells) ==
    [i \in 1..Len(buf) |-> IF i - at \in DOMAIN cells THEN cells[i - at] ELSE buf[i]]
AppendHs ==
    /\ Popping /\ ~Complete /\ HasRecord /\ ~AllowedPlaintext /\ Opens
    /\ Rec.h = "handshake"
    /\ LET from == IF join = None THEN 0 ELSE join[1].from
           at == IF join = None THEN 0 ELSE join[1].to
           known == IF join = None THEN None ELSE join[1].exp
           mem == Overlay(at, Payload)
           size == IF known # None THEN known
                   ELSE PayloadSize(SubSeq(mem, from + 1, at + Len(Payload))) IN
       IF TooLarge(size) THEN Error("HandshakePayloadTooLarge")
       ELSE /\ buf' = mem
            /\ join' = Some([msgEnd |-> RecEnd, from |-> from, to |-> at + Len(Payload),
                             exp |-> size])
            /\ UNCHANGED <<senderVars, cap, pc, rx, trial, got, avail, closed, err, wire, fin, end>>

\* A message is complete.  What follows it in the joined payload stays
\* joined; a message that changes the keys must be the last
\* (check_aligned_handshake).
Yield ==
    /\ Popping /\ Complete
    /\ LET size == join[1].exp[1]
           message == SubSeq(Joined, 1, size)
           rest == SubSeq(Joined, size + 1, Len(Joined)) IN
       IF rest # << >> /\ TooLarge(PayloadSize(rest)) THEN Error("HandshakePayloadTooLarge")
       ELSE IF rest # << >> /\ message[1].rekey THEN Error("KeyEpochWithPendingFragment")
       ELSE /\ IF rest = << >>
               THEN join' = None /\ buf' = Discard(join[1].msgEnd)
               ELSE /\ join' = Some([join[1] EXCEPT !.from = @ + size,
                                                    !.exp = PayloadSize(rest)])
                    /\ UNCHANGED buf
            /\ got' = Append(got, message)
            /\ rx' = IF message[1].rekey THEN rx + 1 ELSE rx
            /\ trial' = -1
            /\ UNCHANGED <<senderVars, cap, pc, avail, closed, err, wire, fin, end>>

(***************************************************************************)
(* Reader::read of the receiving application, and the end of the stream as *)
(* it sees it: clean after close_notify, an error after a bare EOF.        *)
(***************************************************************************)
ReadPlaintext(k) ==
    /\ pc = "read" /\ k \in 1..avail
    /\ avail' = avail - k
    /\ UNCHANGED <<senderVars, buf, cap, join, pc, rx, trial, got, closed, err, wire, fin, end>>

SeenEof == fin # "open" /\ wire = << >> /\ pc = "read"
ReadEnd ==
    /\ pc = "read" /\ avail = 0 /\ end = "none"
    /\ closed \/ (SeenEof /\ err = "none")
    /\ end' = IF closed THEN "clean" ELSE "UnexpectedEof"
    /\ UNCHANGED <<senderVars, deframerVars, wire, fin>>

Pop ==
    Pending \/ PlaintextRecord \/ Undecryptable \/ OtherRecord \/ AppendHs \/ Yield

Next ==
    \/ SendHandshake \/ SendAppData \/ SendRejectedEarlyData \/ SendCcs \/ SendCloseNotify
    \/ \E k \in 1..Len(out) : WriteTls(k)
    \/ CloseSocket \/ Cut
    \/ \E k \in 1..Len(wire) : ReadTls(k)
    \/ BufferFull \/ Pop
    \/ \E k \in 1..avail : ReadPlaintext(k)
    \/ ReadEnd

\* Both ends go on as long as they can (complete_io, Stream); a connection
\* need not break.
Sends == SendHandshake \/ SendAppData \/ SendRejectedEarlyData \/ SendCcs \/ SendCloseNotify
Spec ==
    /\ Init /\ [][Next]_vars
    /\ WF_vars(Sends)
    /\ WF_vars(\E k \in 1..Len(out) : WriteTls(k))
    /\ WF_vars(CloseSocket)
    /\ WF_vars(\E k \in 1..Len(wire) : ReadTls(k))
    /\ WF_vars(Pop)
    /\ WF_vars(\E k \in 1..avail : ReadPlaintext(k))
    /\ WF_vars(ReadEnd)

-----------------------------------------------------------------------------
\* Whatever the sizes of the socket's reads and writes and wherever records
\* end, the state machine is given exactly the messages that were sent, each
\* whole and in order, although the deframer joins them inside the buffer
\* that it still reads from; and the stream is reported to have ended cleanly
\* only if nothing of it is missing.
StreamIsPrefix ==
    /\ IsPrefix(got, sent)
    /\ end = "clean" => got = sent

\* A peer within the limits is understood: unless the connection breaks,
\* everything it sends arrives and the end of the stream is reported.  The
\* limit on a flight is one on its records, headers included, since a joined
\* record leaves the buffer only with the last message.
Raw(n) == n + (n + frag - 1) \div frag
Sum(lens) == FoldLeft(LAMBDA a, b : a + b, 0, lens)
WithinLimits ==
    /\ \A i \in DOMAIN plan :
          plan[i].k = "hs" => /\ Raw(Sum(plan[i].lens)) <= MaxHandshakeSize
                              /\ plan[i].rekey \in {0, Len(plan[i].lens)}
    /\ Sum([i \in DOMAIN plan |-> IF plan[i].k = "early" THEN plan[i].lens[1] ELSE 0]) <= TrialLen
EverythingArrives ==
    WithinLimits => <>(fin = "cut" \/ (left = << >> /\ got = sent /\ end # "none"))
=============================================================================
