---------------------------- MODULE TelemetryProofs ----------------------------
(***************************************************************************)
(* Proofs about Telemetry for every finite set of requests and every        *)
(* capacity, interval and time-out.                                         *)
(***************************************************************************)
EXTENDS Telemetry, FiniteSetTheorems, SequenceTheorems, TLAPS

Messages == {"request", "end", "other"}
PCs == {"new", "resolving", "sending", "cancelling", "responded", "usage", "done"}
Sessions == [ttl : Nat, pending : SUBSET (Requests \X (0..PENDING_HARD_TIMEOUT)),
             ready : Seq(Requests), batchIn : Nat, jitter : Nat]
Loops == [at : {"tick", "event_batch", "growthbook_eval"}, batch : Seq(Requests)]

TypeOK ==
    /\ pc \in [Requests -> PCs]
    /\ enabled \in [Requests -> BOOLEAN] /\ guard \in [Requests -> BOOLEAN]
    /\ session \in Seq(Sessions) /\ Len(session) <= 1
    /\ loops \in Seq(Loops)
    /\ growthbook \in Nat
    /\ completions \in Seq([request : Requests, usage : BOOLEAN])
    /\ audit \in Seq(Messages) /\ Len(audit) <= AUDIT_QUEUE_CAPACITY
    /\ inFlight \in Nat
    /\ reported \in [Requests -> Nat]
    /\ dropped \in BOOLEAN

\* How often m is among the first n elements of s.
Hits(s, n, m) == {i \in 1..n : s[i] = m}
Among(s, n, m) == Cardinality(Hits(s, n, m))

\* No end overtakes its request: whatever part of the queue the audit worker has
\* applied, it has seen no more ends than requests.  This is why the worker never
\* takes an end for a request it does not know, and why Before never cuts off.
NoDebt == \A n \in 0..Len(audit) :
             Among(audit, n, "end") <= inFlight + Among(audit, n, "request")

\* A request that has not begun has no active guard; one that has not been
\* registered has no place in the session.
NotBegun == \A r \in Requests : pc[r] = "new" => ~guard[r]
NotRegistered == \A r \in Requests : pc[r] \in {"new", "resolving"} => Places(r) = 0

\* What waits to be reported has completed with usage.
WaitingHasUsage ==
    /\ \A i \in 1..Len(completions) :
          completions[i].usage => pc[completions[i].request] = "usage"
    /\ \A j \in 1..Len(session) : \A i \in 1..Len(session[j].ready) :
          pc[session[j].ready[i]] = "usage"

AuditInv == NoDebt /\ InFlightCovers
ReportInv == NotRegistered /\ WaitingHasUsage /\ ReportedOnce
IInv == TypeOK /\ NotBegun /\ AuditInv /\ ReportInv
--------------------------------------------------------------------------------
(***************************************************************************)
(* Counting in sequences.                                                   *)
(***************************************************************************)
\* Counts are natural numbers.
LEMMA AmongNat ==
    ASSUME NEW s, NEW n \in Nat, NEW m
    PROVE  IsFiniteSet(Hits(s, n, m)) /\ Among(s, n, m) \in Nat
<1>1. Hits(s, n, m) \in SUBSET (1..n) BY DEF Hits
<1>2. IsFiniteSet(1..n) BY FS_Interval
<1>3. IsFiniteSet(Hits(s, n, m)) BY <1>1, <1>2, FS_Subset
<1> QED BY <1>3, FS_CardinalityType DEF Among

\* Nothing is among no elements.
LEMMA AmongNone ==
    ASSUME NEW s, NEW m PROVE Among(s, 0, m) = 0
<1>1. Hits(s, 0, m) = {} BY DEF Hits
<1> QED BY <1>1, FS_EmptySet DEF Among

\* One element more.
LEMMA AmongNext ==
    ASSUME NEW s, NEW n \in Nat, NEW m
    PROVE  Among(s, n + 1, m) = Among(s, n, m) + (IF s[n + 1] = m THEN 1 ELSE 0)
<1>0. IsFiniteSet(Hits(s, n, m)) /\ Among(s, n, m) \in Nat BY AmongNat
<1>1. n + 1 \notin Hits(s, n, m) BY DEF Hits
<1>2. 1..(n + 1) = 1..n \cup {n + 1} OBVIOUS
<1>3. CASE s[n + 1] = m
  <2>1. Hits(s, n + 1, m) = Hits(s, n, m) \cup {n + 1} BY <1>2, <1>3 DEF Hits
  <2>2. Cardinality(Hits(s, n + 1, m)) = Cardinality(Hits(s, n, m)) + 1
        BY <1>0, <1>1, <2>1, FS_AddElement
  <2> QED BY <1>3, <2>2 DEF Among
<1>4. CASE s[n + 1] # m
  <2>1. Hits(s, n + 1, m) = Hits(s, n, m) BY <1>2, <1>4 DEF Hits
  <2> QED BY <1>0, <1>4, <2>1 DEF Among
<1> QED BY <1>3, <1>4

\* Sequences that agree have the same counts.
LEMMA AmongSame ==
    ASSUME NEW s, NEW t, NEW n \in Nat, NEW m, \A i \in 1..n : s[i] = t[i]
    PROVE  Among(s, n, m) = Among(t, n, m)
<1>1. Hits(s, n, m) = Hits(t, n, m) BY DEF Hits
<1> QED BY <1>1 DEF Among

\* Elements that are not m do not count.
LEMMA AmongOthers ==
    ASSUME NEW s, NEW n \in Nat, NEW k \in Nat, n <= k, NEW m,
           \A i \in (n + 1)..k : s[i] # m
    PROVE  Among(s, k, m) = Among(s, n, m)
<1>1. \A i \in 1..k : i \in 1..n \/ i \in (n + 1)..k OBVIOUS
<1>2. \A i \in 1..n : i \in 1..k OBVIOUS
<1>3. Hits(s, k, m) = Hits(s, n, m) BY <1>1, <1>2 DEF Hits
<1> QED BY <1>3 DEF Among

\* The elements after the first n, counted on their own, make up the rest.
LEMMA AmongSplit ==
    ASSUME NEW s, NEW t, NEW n \in Nat, NEW k \in Nat, NEW m,
           \A i \in 1..k : t[i] = s[n + i]
    PROVE  Among(s, n + k, m) = Among(s, n, m) + Among(t, k, m)
<1> DEFINE A == Hits(s, n, m)
           B == {i \in (n + 1)..(n + k) : s[i] = m}
           C == Hits(t, k, m)
           f == [i \in C |-> n + i]
<1>0. IsFiniteSet(A) /\ IsFiniteSet(C) /\ Cardinality(A) \in Nat /\ Cardinality(C) \in Nat
      BY AmongNat DEF Among
<1>1. Hits(s, n + k, m) = A \cup B
  <2>1. \A i \in 1..(n + k) : i \in 1..n \/ i \in (n + 1)..(n + k) OBVIOUS
  <2>2. (\A i \in 1..n : i \in 1..(n + k)) /\ \A i \in (n + 1)..(n + k) : i \in 1..(n + k)
        OBVIOUS
  <2> QED BY <2>1, <2>2 DEF Hits
<1>2. A \cap B = {} BY DEF Hits
<1>3. f \in Bijection(C, B)
  <2>1. \A i \in 1..k : n + i \in (n + 1)..(n + k) OBVIOUS
  <2>2. f \in [C -> B] BY <2>1 DEF Hits
  <2>3. \A i, j \in C : f[i] = f[j] => i = j BY DEF Hits
  <2>4. ASSUME NEW j \in B PROVE \E i \in C : f[i] = j
    <3>1. j \in (n + 1)..(n + k) /\ s[j] = m OBVIOUS
    <3>2. j - n \in 1..k /\ n + (j - n) = j BY <3>1
    <3>3. j - n \in C BY <3>1, <3>2 DEF Hits
    <3> QED BY <3>2, <3>3
  <2> HIDE DEF B, C, f
  <2>5. f \in Injection(C, B) BY <2>2, <2>3 DEF Injection, IsInjective
  <2>6. f \in Surjection(C, B) BY <2>2, <2>4 DEF Surjection
  <2> QED BY <2>5, <2>6 DEF Bijection
<1>4. IsFiniteSet(B) /\ Cardinality(B) = Cardinality(C)
      BY <1>0, <1>3, FS_Bijection DEF ExistsBijection
<1> HIDE DEF A, B, C
<1>5. Cardinality(A \cup B) = Cardinality(A) + Cardinality(B) - Cardinality(A \cap B)
      BY <1>0, <1>4, FS_Union
<1>6. Cardinality(A \cap B) = 0 BY <1>2, FS_EmptySet
<1>7. Cardinality(A \cup B) = Cardinality(A) + Cardinality(C) BY <1>0, <1>4, <1>5, <1>6
<1> QED BY <1>1, <1>7 DEF Among, A, C

\* Count is the count among all elements.
LEMMA CountIsAmong ==
    ASSUME NEW S, NEW s \in Seq(S), NEW m PROVE Count(s, m) = Among(s, Len(s), m)
<1>1. DOMAIN s = 1..Len(s) BY LenProperties
<1> QED BY <1>1 DEF Count, Among, Hits
--------------------------------------------------------------------------------
(***************************************************************************)
(* The audit.                                                               *)
(***************************************************************************)
\* What try_send does to the queue: it appends the first k messages.
LEMMA TrySendFacts ==
    ASSUME TypeOK, NEW messages \in Seq(Messages), try_send(messages)
    PROVE  \E k \in 0..Len(messages) :
             /\ audit' \in Seq(Messages) /\ Len(audit') = Len(audit) + k
             /\ Len(audit') <= AUDIT_QUEUE_CAPACITY
             /\ \A i \in 1..Len(audit) : audit'[i] = audit[i]
             /\ \A i \in 1..k : audit'[Len(audit) + i] = messages[i]
             /\ k = IF Room <= Len(messages) THEN Room ELSE Len(messages)
             /\ dropped' = (dropped \/ Len(messages) > Room) /\ Room \in Nat
<1> DEFINE k == Smaller(Room, Len(messages))
           t == SubSeq(messages, 1, k)
<1>0. /\ audit \in Seq(Messages) /\ Len(audit) \in Nat /\ Len(messages) \in Nat
      /\ Len(audit) <= AUDIT_QUEUE_CAPACITY /\ AUDIT_QUEUE_CAPACITY \in Nat
      BY LenProperties, TelemetryAssumption DEF TypeOK
<1>1. Room \in Nat /\ Room = AUDIT_QUEUE_CAPACITY - Len(audit) BY <1>0 DEF Room
<1>2. k \in 0..Len(messages) /\ k <= Room BY <1>0, <1>1 DEF Smaller
<1>3. k = IF Room <= Len(messages) THEN Room ELSE Len(messages) BY DEF Smaller
<1> HIDE DEF k
<1>4. t \in Seq(Messages) /\ Len(t) = k /\ \A i \in 1..k : t[i] = messages[i]
  <2>1. 1 \in 1..(Len(messages) + 1) /\ k \in 0..Len(messages) BY <1>0, <1>2
  <2>2. /\ t \in Seq(Messages) /\ Len(t) = IF 1 <= k THEN k - 1 + 1 ELSE 0
        /\ \A i \in 1..(k - 1 + 1) : t[i] = messages[1 + i - 1]
        BY <2>1, SubSeqProperties
  <2>3. Len(t) = k BY <1>2, <2>2
  <2>4. \A i \in 1..k : i \in 1..(k - 1 + 1) /\ 1 + i - 1 = i BY <1>2
  <2> QED BY <2>2, <2>3, <2>4
<1> HIDE DEF t
<1>5. audit' = audit \o t /\ dropped' = (dropped \/ Len(messages) > Room)
      BY DEF try_send, t, k
<1>6. /\ audit \o t \in Seq(Messages) /\ Len(audit \o t) = Len(audit) + Len(t)
      /\ \A i \in 1..(Len(audit) + Len(t)) :
            (audit \o t)[i] = IF i <= Len(audit) THEN audit[i] ELSE t[i - Len(audit)]
      BY <1>0, <1>4, ConcatProperties
<1>7. audit' \in Seq(Messages) /\ Len(audit') = Len(audit) + k BY <1>4, <1>5, <1>6
<1>8. Len(audit') <= AUDIT_QUEUE_CAPACITY BY <1>0, <1>1, <1>2, <1>7
<1>9. \A i \in 1..Len(audit) : audit'[i] = audit[i] BY <1>0, <1>2, <1>4, <1>5, <1>6
<1>10. ASSUME NEW i \in 1..k PROVE audit'[Len(audit) + i] = messages[i]
  <2>1. Len(audit) + i \in 1..(Len(audit) + Len(t)) /\ ~(Len(audit) + i <= Len(audit))
        /\ (Len(audit) + i) - Len(audit) = i
        BY <1>0, <1>2, <1>4
  <2> QED BY <1>4, <1>5, <1>6, <2>1
<1> QED BY <1>1, <1>2, <1>3, <1>5, <1>7, <1>8, <1>9, <1>10

\* What the worker knows and what is on its way to it.
Known == inFlight + Among(audit, Len(audit), "request") - Among(audit, Len(audit), "end")
Guarded == {r \in Requests : guard[r]}

\* InFlightCovers in these terms.
LEMMA CoversIs ==
    ASSUME audit \in Seq(Messages)
    PROVE  InFlightCovers <=> /\ Known >= Cardinality(Guarded)
                              /\ ~dropped => Known = Cardinality(Guarded)
<1>1. /\ Count(audit, "request") = Among(audit, Len(audit), "request")
      /\ Count(audit, "end") = Among(audit, Len(audit), "end")
      BY CountIsAmong
<1> QED BY <1>1 DEF InFlightCovers, Known, Guarded

\* The same for the state after a step.
LEMMA CoversIsNext ==
    ASSUME audit' \in Seq(Messages)
    PROVE  InFlightCovers' <=> /\ Known' >= Cardinality(Guarded')
                               /\ ~dropped' => Known' = Cardinality(Guarded')
<1>1. /\ Count(audit', "request") = Among(audit', Len(audit'), "request")
      /\ Count(audit', "end") = Among(audit', Len(audit'), "end")
      BY CountIsAmong
<1> QED BY <1>1 DEF InFlightCovers, Known, Guarded

\* Guards are finitely many.
LEMMA GuardedFinite ==
    IsFiniteSet(Guarded) /\ Cardinality(Guarded) \in Nat
<1>1. Guarded \in SUBSET Requests BY DEF Guarded
<1>2. IsFiniteSet(Guarded) BY <1>1, FS_Subset, TelemetryAssumption
<1> QED BY <1>2, FS_CardinalityType

\* Messages that are neither a request nor an end change nothing.
LEMMA TellOthers ==
    ASSUME TypeOK, AuditInv, NEW n \in Nat, try_send(Observed(n)),
           UNCHANGED <<guard, inFlight>>
    PROVE  /\ audit' \in Seq(Messages) /\ Len(audit') <= AUDIT_QUEUE_CAPACITY
           /\ dropped' \in BOOLEAN /\ AuditInv'
<1>0. Observed(n) \in Seq(Messages) /\ Len(Observed(n)) = n /\ \A i \in 1..n : Observed(n)[i] = "other"
  <2>1. Observed(n) \in [1..n -> Messages] BY DEF Observed, Messages
  <2>2. Observed(n) \in Seq(Messages) BY <2>1, IsASeq DEF Observed, Messages
  <2>3. DOMAIN Observed(n) = 1..n BY DEF Observed
  <2>4. Len(Observed(n)) = n BY <2>2, <2>3, LenProperties
  <2> QED BY <2>2, <2>4 DEF Observed
<1>1. PICK k \in 0..Len(Observed(n)) :
         /\ audit' \in Seq(Messages) /\ Len(audit') = Len(audit) + k
         /\ Len(audit') <= AUDIT_QUEUE_CAPACITY
         /\ \A i \in 1..Len(audit) : audit'[i] = audit[i]
         /\ \A i \in 1..k : audit'[Len(audit) + i] = Observed(n)[i]
         /\ dropped' = (dropped \/ Len(Observed(n)) > Room)
      BY <1>0, TrySendFacts
<1>2. k \in 0..n BY <1>0, <1>1
<1>3. Len(audit) \in Nat /\ audit \in Seq(Messages) /\ inFlight \in Nat
      BY LenProperties DEF TypeOK
<1>4. \A i \in (Len(audit) + 1)..(Len(audit) + k) : audit'[i] = "other"
  <2> SUFFICES ASSUME NEW i \in (Len(audit) + 1)..(Len(audit) + k) PROVE audit'[i] = "other"
      OBVIOUS
  <2>1. i - Len(audit) \in 1..k /\ Len(audit) + (i - Len(audit)) = i BY <1>2, <1>3
  <2>2. i - Len(audit) \in 1..n BY <1>2, <2>1
  <2> QED BY <1>0, <1>1, <2>1, <2>2
<1>5. ASSUME NEW m \in {"request", "end"}, NEW j \in 0..Len(audit)
      PROVE  Among(audit', j, m) = Among(audit, j, m)
  <2>1. j \in Nat /\ \A i \in 1..j : audit'[i] = audit[i] BY <1>1, <1>3
  <2> QED BY <2>1, AmongSame
<1>6. ASSUME NEW m \in {"request", "end"}, NEW j \in Nat, j >= Len(audit), j <= Len(audit) + k
      PROVE  Among(audit', j, m) = Among(audit, Len(audit), m)
  <2>1. \A i \in (Len(audit) + 1)..j : audit'[i] # m BY <1>2, <1>3, <1>4, <1>6
  <2>2. Among(audit', j, m) = Among(audit', Len(audit), m) BY <1>3, <1>6, <2>1, AmongOthers
  <2>3. Len(audit) \in 0..Len(audit) BY <1>3
  <2> QED BY <1>5, <2>2, <2>3
<1>7. NoDebt'
  <2> SUFFICES ASSUME NEW j \in 0..Len(audit')
               PROVE  Among(audit', j, "end") <= inFlight' + Among(audit', j, "request")
      BY DEF NoDebt
  <2>1. CASE j <= Len(audit)
    <3>1. j \in 0..Len(audit) BY <1>1, <1>2, <1>3, <2>1
    <3>2. Among(audit, j, "end") <= inFlight + Among(audit, j, "request")
          BY <3>1 DEF AuditInv, NoDebt
    <3> QED BY <1>5, <3>1, <3>2
  <2>2. CASE j > Len(audit)
    <3>1. j \in Nat /\ j >= Len(audit) /\ j <= Len(audit) + k BY <1>1, <1>2, <1>3, <2>2
    <3>2. Len(audit) \in 0..Len(audit) BY <1>3
    <3>3. Among(audit, Len(audit), "end") <= inFlight + Among(audit, Len(audit), "request")
          BY <3>2 DEF AuditInv, NoDebt
    <3> QED BY <1>6, <3>1, <3>3
  <2> QED BY <1>1, <1>3, <2>1, <2>2
<1>8. Known' = Known
  <2>1. Len(audit') \in Nat /\ Len(audit') >= Len(audit) /\ Len(audit') <= Len(audit) + k
        BY <1>1, <1>2, <1>3
  <2> QED BY <1>6, <2>1 DEF Known
<1>9. Guarded' = Guarded BY DEF Guarded
<1>10. dropped \in BOOLEAN /\ dropped' \in BOOLEAN /\ (~dropped' => ~dropped) BY <1>1 DEF TypeOK
<1>11. InFlightCovers'
       BY <1>1, <1>3, <1>8, <1>9, <1>10, CoversIs, CoversIsNext DEF AuditInv
<1> QED BY <1>1, <1>7, <1>10, <1>11 DEF AuditInv

\* One message that is a request or an end: it is appended if there is room.
LEMMA TellOne ==
    ASSUME TypeOK, NEW x \in Messages, try_send(<<x>>)
    PROVE  /\ audit' \in Seq(Messages) /\ Len(audit') <= AUDIT_QUEUE_CAPACITY
           /\ dropped' \in BOOLEAN /\ Room \in Nat
           /\ Room = 0 => audit' = audit /\ dropped'
           /\ Room > 0 => /\ Len(audit') = Len(audit) + 1
                          /\ \A i \in 1..Len(audit) : audit'[i] = audit[i]
                          /\ audit'[Len(audit) + 1] = x
                          /\ dropped' = dropped
<1>0. <<x>> \in Seq(Messages) /\ Len(<<x>>) = 1 /\ <<x>>[1] = x OBVIOUS
<1>1. PICK k \in 0..Len(<<x>>) :
         /\ audit' \in Seq(Messages) /\ Len(audit') = Len(audit) + k
         /\ Len(audit') <= AUDIT_QUEUE_CAPACITY
         /\ \A i \in 1..Len(audit) : audit'[i] = audit[i]
         /\ \A i \in 1..k : audit'[Len(audit) + i] = <<x>>[i]
         /\ k = IF Room <= Len(<<x>>) THEN Room ELSE Len(<<x>>)
         /\ dropped' = (dropped \/ Len(<<x>>) > Room) /\ Room \in Nat
      BY <1>0, TrySendFacts
<1>2. audit \in Seq(Messages) /\ Len(audit) \in Nat /\ dropped \in BOOLEAN
      BY LenProperties DEF TypeOK
<1>3. dropped' \in BOOLEAN BY <1>1
<1>4. ASSUME Room = 0 PROVE audit' = audit /\ dropped'
  <2>1. k = 0 /\ Len(<<x>>) > Room BY <1>0, <1>1, <1>4
  <2>2. Len(audit') = Len(audit) BY <1>1, <1>2, <2>1
  <2>3. audit' = audit BY <1>1, <1>2, <2>2, SeqEqual
  <2> QED BY <1>1, <2>1, <2>3
<1>5. ASSUME Room > 0
      PROVE  /\ Len(audit') = Len(audit) + 1 /\ audit'[Len(audit) + 1] = x
             /\ dropped' = dropped
  <2>1. k = 1 /\ ~(Len(<<x>>) > Room) BY <1>0, <1>1, <1>5
  <2>2. audit'[Len(audit) + 1] = <<x>>[1] BY <1>1, <2>1
  <2> QED BY <1>0, <1>1, <1>2, <2>1, <2>2
<1> QED BY <1>1, <1>3, <1>4, <1>5

\* The counts after one message has been appended.
LEMMA CountsAfterOne ==
    ASSUME TypeOK, audit' \in Seq(Messages), Len(audit') = Len(audit) + 1,
           \A i \in 1..Len(audit) : audit'[i] = audit[i], NEW m
    PROVE  /\ \A j \in 0..Len(audit) : Among(audit', j, m) = Among(audit, j, m)
           /\ Among(audit', Len(audit'), m)
                = Among(audit, Len(audit), m) + (IF audit'[Len(audit) + 1] = m THEN 1 ELSE 0)
<1>1. audit \in Seq(Messages) /\ Len(audit) \in Nat BY LenProperties DEF TypeOK
<1>2. ASSUME NEW j \in 0..Len(audit) PROVE Among(audit', j, m) = Among(audit, j, m)
  <2>1. j \in Nat /\ \A i \in 1..j : audit'[i] = audit[i] BY <1>1
  <2> QED BY <2>1, AmongSame
<1>3. Len(audit) \in 0..Len(audit) BY <1>1
<1>4. Among(audit', Len(audit) + 1, m)
        = Among(audit', Len(audit), m) + (IF audit'[Len(audit) + 1] = m THEN 1 ELSE 0)
      BY <1>1, AmongNext
<1> QED BY <1>2, <1>3, <1>4

\* A request begins: its guard is active just if the worker will hear of it.
LEMMA BeginStep ==
    ASSUME TypeOK, NotBegun, AuditInv, NEW r \in Requests, begin_request(r)
    PROVE  /\ audit' \in Seq(Messages) /\ Len(audit') <= AUDIT_QUEUE_CAPACITY
           /\ dropped' \in BOOLEAN /\ AuditInv'
<1>1. /\ try_send(<<"request">>) /\ guard' = [guard EXCEPT ![r] = Room > 0]
      /\ inFlight' = inFlight /\ ~guard[r]
      BY DEF begin_request, NotBegun
<1>2. /\ audit' \in Seq(Messages) /\ Len(audit') <= AUDIT_QUEUE_CAPACITY
      /\ dropped' \in BOOLEAN /\ Room \in Nat
      /\ Room = 0 => audit' = audit /\ dropped'
      /\ Room > 0 => /\ Len(audit') = Len(audit) + 1
                     /\ \A i \in 1..Len(audit) : audit'[i] = audit[i]
                     /\ audit'[Len(audit) + 1] = "request"
                     /\ dropped' = dropped
      BY <1>1, TellOne DEF Messages
<1>3. /\ audit \in Seq(Messages) /\ Len(audit) \in Nat /\ inFlight \in Nat
      /\ guard \in [Requests -> BOOLEAN]
      BY LenProperties DEF TypeOK
<1>4. /\ Known >= Cardinality(Guarded) /\ (~dropped => Known = Cardinality(Guarded))
      BY <1>3, CoversIs DEF AuditInv
<1>5. CASE Room = 0
  <2>1. Guarded' = Guarded BY <1>1, <1>3, <1>5 DEF Guarded
  <2>2. Known' = Known BY <1>1, <1>2, <1>5 DEF Known
  <2>3. InFlightCovers' BY <1>2, <1>4, <1>5, <2>1, <2>2, CoversIsNext
  <2>4. NoDebt' BY <1>1, <1>2, <1>5 DEF AuditInv, NoDebt
  <2> QED BY <1>2, <2>3, <2>4 DEF AuditInv
<1>6. CASE Room > 0
  <2>1. r \notin Guarded BY <1>1 DEF Guarded
  <2>2. Guarded' = Guarded \cup {r} BY <1>1, <1>3, <1>6 DEF Guarded
  <2>3. Cardinality(Guarded') = Cardinality(Guarded) + 1 /\ Cardinality(Guarded) \in Nat
        BY <2>1, <2>2, FS_AddElement, GuardedFinite
  <2>4. /\ Among(audit', Len(audit'), "request") = Among(audit, Len(audit), "request") + 1
        /\ Among(audit', Len(audit'), "end") = Among(audit, Len(audit), "end")
        /\ Among(audit, Len(audit), "request") \in Nat /\ Among(audit, Len(audit), "end") \in Nat
    <3>1. /\ Among(audit', Len(audit'), "request") = Among(audit, Len(audit), "request") + 1
          BY <1>2, <1>6, CountsAfterOne
    <3>2. /\ Among(audit', Len(audit'), "end") = Among(audit, Len(audit), "end") + 0
          BY <1>2, <1>6, CountsAfterOne
    <3>3. Among(audit, Len(audit), "request") \in Nat /\ Among(audit, Len(audit), "end") \in Nat
          BY <1>3, AmongNat
    <3> QED BY <3>1, <3>2, <3>3
  <2>5. Known' = Known + 1 /\ Known \in Int BY <1>1, <1>3, <2>4 DEF Known
  <2>6. InFlightCovers' BY <1>2, <1>4, <1>6, <2>3, <2>5, CoversIsNext
  <2>7. NoDebt'
    <3> SUFFICES ASSUME NEW j \in 0..Len(audit')
                 PROVE  Among(audit', j, "end") <= inFlight' + Among(audit', j, "request")
        BY DEF NoDebt
    <3>1. CASE j \in 0..Len(audit)
          BY <1>1, <1>2, <1>6, <3>1, CountsAfterOne DEF AuditInv, NoDebt
    <3>2. CASE j = Len(audit')
      <4>1. Len(audit) \in 0..Len(audit) BY <1>3
      <4>2. Among(audit, Len(audit), "end") <= inFlight + Among(audit, Len(audit), "request")
            BY <4>1 DEF AuditInv, NoDebt
      <4>3. Among(audit, Len(audit), "end") <= inFlight + (Among(audit, Len(audit), "request") + 1)
            BY <1>3, <2>4, <4>2
      <4> QED BY <1>1, <2>4, <3>2, <4>3
    <3> QED BY <1>2, <1>3, <1>6, <3>1, <3>2
  <2> QED BY <1>2, <2>6, <2>7 DEF AuditInv
<1> QED BY <1>2, <1>5, <1>6

\* A guard that is active ends once; the worker hears of it if there is room.
LEMMA FinishStep ==
    ASSUME TypeOK, AuditInv, NEW r \in Requests, finish(r), inFlight' = inFlight
    PROVE  /\ audit' \in Seq(Messages) /\ Len(audit') <= AUDIT_QUEUE_CAPACITY
           /\ dropped' \in BOOLEAN /\ AuditInv'
<1>3. /\ audit \in Seq(Messages) /\ Len(audit) \in Nat /\ inFlight \in Nat
      /\ guard \in [Requests -> BOOLEAN] /\ dropped \in BOOLEAN
      /\ Len(audit) <= AUDIT_QUEUE_CAPACITY
      BY LenProperties DEF TypeOK
<1>g. guard' = [guard EXCEPT ![r] = FALSE] BY DEF finish
<1>4. /\ Known >= Cardinality(Guarded) /\ (~dropped => Known = Cardinality(Guarded))
      BY <1>3, CoversIs DEF AuditInv
<1>n. /\ Among(audit, Len(audit), "request") \in Nat /\ Among(audit, Len(audit), "end") \in Nat
      BY <1>3, AmongNat
<1>5. CASE ~guard[r]
  <2>1. audit' = audit /\ dropped' = dropped BY <1>5 DEF finish, auditVars
  <2>2. Guarded' = Guarded BY <1>3, <1>g, <1>5 DEF Guarded
  <2>3. Known' = Known BY <2>1 DEF Known
  <2>4. InFlightCovers' BY <1>3, <1>4, <2>1, <2>2, <2>3, CoversIsNext
  <2>5. NoDebt' BY <2>1 DEF AuditInv, NoDebt
  <2> QED BY <1>3, <2>1, <2>4, <2>5 DEF AuditInv
<1>6. CASE guard[r]
  <2>0. try_send(<<"end">>) BY <1>6 DEF finish
  <2>1. /\ audit' \in Seq(Messages) /\ Len(audit') <= AUDIT_QUEUE_CAPACITY
        /\ dropped' \in BOOLEAN /\ Room \in Nat
        /\ Room = 0 => audit' = audit /\ dropped'
        /\ Room > 0 => /\ Len(audit') = Len(audit) + 1
                       /\ \A i \in 1..Len(audit) : audit'[i] = audit[i]
                       /\ audit'[Len(audit) + 1] = "end"
                       /\ dropped' = dropped
        BY <2>0, TellOne DEF Messages
  <2>2. r \in Guarded /\ Guarded' = Guarded \ {r} BY <1>3, <1>g, <1>6 DEF Guarded
  <2>3. /\ Cardinality(Guarded') = Cardinality(Guarded) - 1 /\ Cardinality(Guarded) \in Nat
        /\ Cardinality(Guarded') \in Nat
    <3>1. Cardinality(Guarded') = Cardinality(Guarded) - 1 /\ Cardinality(Guarded) \in Nat
          BY <2>2, FS_RemoveElement, GuardedFinite
    <3>2. IsFiniteSet(Guarded') BY <2>2, FS_RemoveElement, GuardedFinite
    <3> QED BY <3>1, <3>2, FS_CardinalityType
  <2>4. CASE Room = 0
    <3>1. Known' = Known /\ Known \in Int BY <1>3, <1>n, <2>1, <2>4 DEF Known
    <3>2. InFlightCovers' BY <1>4, <2>1, <2>3, <2>4, <3>1, CoversIsNext
    <3>3. NoDebt' BY <2>1, <2>4 DEF AuditInv, NoDebt
    <3> QED BY <2>1, <3>2, <3>3 DEF AuditInv
  <2>5. CASE Room > 0
    <3>1. /\ Among(audit', Len(audit'), "request") = Among(audit, Len(audit), "request")
          /\ Among(audit', Len(audit'), "end") = Among(audit, Len(audit), "end") + 1
      <4>1. Among(audit', Len(audit'), "request") = Among(audit, Len(audit), "request") + 0
            BY <2>1, <2>5, CountsAfterOne
      <4>2. Among(audit', Len(audit'), "end") = Among(audit, Len(audit), "end") + 1
            BY <2>1, <2>5, CountsAfterOne
      <4> QED BY <1>n, <4>1, <4>2
    <3>2. Known' = Known - 1 /\ Known \in Int BY <1>3, <1>n, <3>1 DEF Known
    <3>3. InFlightCovers' BY <1>4, <2>1, <2>3, <2>5, <3>2, CoversIsNext
    <3>4. NoDebt'
      <4> SUFFICES ASSUME NEW j \in 0..Len(audit')
                   PROVE  Among(audit', j, "end") <= inFlight' + Among(audit', j, "request")
          BY DEF NoDebt
      <4>1. CASE j \in 0..Len(audit)
            BY <2>1, <2>5, <4>1, CountsAfterOne DEF AuditInv, NoDebt
      <4>2. CASE j = Len(audit')
        <5>1. Known - 1 >= 0 BY <1>4, <2>3, <3>2
        <5>2. Among(audit, Len(audit), "end") + 1
                <= inFlight + Among(audit, Len(audit), "request")
              BY <1>3, <1>n, <5>1 DEF Known
        <5> QED BY <3>1, <4>2, <5>2
      <4> QED BY <1>3, <2>1, <2>5, <4>1, <4>2
    <3> QED BY <2>1, <3>3, <3>4 DEF AuditInv
  <2> QED BY <2>1, <2>4, <2>5
<1> QED BY <1>3, <1>5, <1>6

\* A balance that stays the same keeps the ends below the requests.
LEMMA BalanceKept ==
    ASSUME NEW i \in Nat, NEW j \in Nat, NEW a \in Nat, NEW b \in Nat,
           NEW d \in Nat, NEW e \in Nat,
           d <= i + b, j + a - e = i + b - d
    PROVE  e <= j + a
  OBVIOUS

\* The worker applies a message: what it knows and what is on its way stays the
\* same, because an end never comes before its request.
LEMMA ApplyStep ==
    ASSUME TypeOK, AuditInv, apply_message
    PROVE  /\ audit' \in Seq(Messages) /\ Len(audit') <= AUDIT_QUEUE_CAPACITY
           /\ inFlight' \in Nat /\ AuditInv'
<1> DEFINE s == audit  t == audit'
<1>1. /\ audit \in Seq(Messages) /\ audit # << >> /\ audit' = Tail(audit)
      /\ inFlight \in Nat /\ Len(audit) <= AUDIT_QUEUE_CAPACITY
      /\ dropped' = dropped /\ guard' = guard /\ AUDIT_QUEUE_CAPACITY \in Nat
      BY TelemetryAssumption DEF TypeOK, apply_message, requestVars
<1>2. /\ t \in Seq(Messages) /\ Len(t) = Len(s) - 1 /\ \A i \in 1..Len(t) : t[i] = s[i + 1]
      /\ Len(s) \in Nat \ {0} /\ s[1] = Head(s) /\ Head(s) \in Messages
      BY <1>1, HeadTailProperties, EmptySeq
<1>3. Len(t) \in Nat /\ Len(t) + 1 = Len(s) /\ Len(t) <= AUDIT_QUEUE_CAPACITY BY <1>1, <1>2
<1> HIDE DEF s, t
<1>4. ASSUME NEW k \in 0..Len(t), NEW m
      PROVE  /\ Among(s, 1 + k, m) = (IF s[1] = m THEN 1 ELSE 0) + Among(t, k, m)
             /\ Among(t, k, m) \in Nat
  <2>1. k \in Nat /\ \A i \in 1..k : t[i] = s[1 + i] BY <1>2, <1>3
  <2>2. Among(s, 1 + k, m) = Among(s, 1, m) + Among(t, k, m) BY <2>1, AmongSplit
  <2>3. Among(s, 0 + 1, m) = Among(s, 0, m) + (IF s[1] = m THEN 1 ELSE 0)
        BY AmongNext
  <2>4. Among(s, 0, m) = 0 BY AmongNone
  <2> QED BY <2>1, <2>2, <2>3, <2>4, AmongNat
<1>5. \A k \in 0..Len(s) : Among(s, k, "end") <= inFlight + Among(s, k, "request")
      BY DEF AuditInv, NoDebt, s
<1>6. ASSUME s[1] = "end" PROVE inFlight > 0
  <2>1. 0 \in 0..Len(t) /\ 1 \in 0..Len(s) /\ 1 + 0 = 1 BY <1>2, <1>3
  <2>2. Among(s, 1, "end") = 1 /\ Among(s, 1, "request") = 0
    <3>1. Among(s, 1 + 0, "end") = (IF s[1] = "end" THEN 1 ELSE 0) + Among(t, 0, "end")
          BY <1>4, <2>1
    <3>2. Among(s, 1 + 0, "request") = (IF s[1] = "request" THEN 1 ELSE 0) + Among(t, 0, "request")
          BY <1>4, <2>1
    <3>3. Among(t, 0, "end") = 0 /\ Among(t, 0, "request") = 0 BY AmongNone
    <3> QED BY <1>6, <3>1, <3>2, <3>3
  <2>3. Among(s, 1, "end") <= inFlight + Among(s, 1, "request") BY <1>5, <2>1
  <2> QED BY <1>1, <2>2, <2>3
<1>7. inFlight' = inFlight + (IF s[1] = "request" THEN 1 ELSE 0)
                          - (IF s[1] = "end" THEN 1 ELSE 0)
      /\ inFlight' \in Nat
  <2>1. inFlight' = CASE s[1] = "request" -> inFlight + 1
                      [] s[1] = "end" -> Before(inFlight)
                      [] OTHER -> inFlight
        BY <1>2 DEF apply_message, s
  <2>2. CASE s[1] = "request" BY <1>1, <2>1, <2>2
  <2>3. CASE s[1] = "end"
    <3>1. inFlight' = Before(inFlight) BY <2>1, <2>3
    <3> QED BY <1>1, <1>6, <2>3, <3>1 DEF Before
  <2>4. CASE s[1] # "request" /\ s[1] # "end"
    <3>1. inFlight' = inFlight BY <2>1, <2>4
    <3> QED BY <1>1, <2>4, <3>1
  <2> QED BY <2>2, <2>3, <2>4
<1>8. ASSUME NEW k \in 0..Len(t)
      PROVE  inFlight' + Among(t, k, "request") - Among(t, k, "end")
               = inFlight + Among(s, 1 + k, "request") - Among(s, 1 + k, "end")
  <2>1. /\ Among(s, 1 + k, "request") = (IF s[1] = "request" THEN 1 ELSE 0) + Among(t, k, "request")
        /\ Among(s, 1 + k, "end") = (IF s[1] = "end" THEN 1 ELSE 0) + Among(t, k, "end")
        /\ Among(t, k, "request") \in Nat /\ Among(t, k, "end") \in Nat
        BY <1>4
  <2> DEFINE a == Among(t, k, "request")  e == Among(t, k, "end")
             b == Among(s, 1 + k, "request")  d == Among(s, 1 + k, "end")
  <2> HIDE DEF a, e, b, d
  <2>2. /\ b = (IF s[1] = "request" THEN 1 ELSE 0) + a
        /\ d = (IF s[1] = "end" THEN 1 ELSE 0) + e /\ a \in Nat /\ e \in Nat
        BY <2>1 DEF a, e, b, d
  <2>3. inFlight' + a - e = inFlight + b - d BY <1>1, <1>7, <2>2
  <2> QED BY <2>3 DEF a, e, b, d
<1>9. NoDebt'
  <2> SUFFICES ASSUME NEW k \in 0..Len(t)
               PROVE  Among(t, k, "end") <= inFlight' + Among(t, k, "request")
      BY DEF NoDebt, t
  <2>1. 1 + k \in 0..Len(s) BY <1>2, <1>3
  <2>2. Among(s, 1 + k, "end") <= inFlight + Among(s, 1 + k, "request") BY <1>5, <2>1
  <2>3. /\ Among(t, k, "end") \in Nat /\ Among(t, k, "request") \in Nat
        /\ Among(s, 1 + k, "end") \in Nat /\ Among(s, 1 + k, "request") \in Nat
        BY <1>3, AmongNat
  <2>4. inFlight' + Among(t, k, "request") - Among(t, k, "end")
           = inFlight + Among(s, 1 + k, "request") - Among(s, 1 + k, "end")
        BY <1>8
  <2>5. inFlight' \in Nat /\ inFlight \in Nat BY <1>1, <1>7
  <2> QED BY <2>2, <2>3, <2>4, <2>5, BalanceKept
<1>10. Known' = Known
  <2>1. Len(t) \in 0..Len(t) /\ 1 + Len(t) = Len(s) BY <1>3
  <2>2. inFlight' + Among(t, Len(t), "request") - Among(t, Len(t), "end")
           = inFlight + Among(s, Len(s), "request") - Among(s, Len(s), "end")
        BY <1>8, <2>1
  <2> QED BY <2>2 DEF Known, s, t
<1>11. Guarded' = Guarded BY <1>1 DEF Guarded
<1>12. InFlightCovers'
  <2>1. t \in Seq(Messages) /\ InFlightCovers BY <1>2 DEF AuditInv
  <2>2. audit' \in Seq(Messages) BY <2>1 DEF t
  <2> QED BY <1>1, <1>10, <1>11, <2>1, <2>2, CoversIs, CoversIsNext
<1>13. t \in Seq(Messages) /\ Len(t) <= AUDIT_QUEUE_CAPACITY BY <1>2, <1>3
<1> QED BY <1>7, <1>9, <1>12, <1>13 DEF AuditInv, t
--------------------------------------------------------------------------------
(***************************************************************************)
(* Sessions: where a request may be.                                        *)
(***************************************************************************)
\* The places of r in the session s.
Within(s, r) == Cardinality(Registered(s, r)) + Among(s.ready, Len(s.ready), r)

\* Registrations and places are finitely many.
LEMMA WithinNat ==
    ASSUME NEW s \in Sessions, NEW r
    PROVE  /\ IsFiniteSet(s.pending) /\ IsFiniteSet(Registered(s, r))
           /\ Cardinality(Registered(s, r)) \in Nat
           /\ Len(s.ready) \in Nat /\ Among(s.ready, Len(s.ready), r) \in Nat
           /\ Within(s, r) \in Nat
<1>1. IsFiniteSet(Requests \X (0..PENDING_HARD_TIMEOUT))
  <2>1. PENDING_HARD_TIMEOUT \in Nat /\ IsFiniteSet(Requests) BY TelemetryAssumption
  <2>2. IsFiniteSet(0..PENDING_HARD_TIMEOUT) BY <2>1, FS_Interval
  <2> QED BY <2>1, <2>2, FS_Product
<1>2. s.pending \in SUBSET (Requests \X (0..PENDING_HARD_TIMEOUT)) BY DEF Sessions
<1>3. IsFiniteSet(s.pending) BY <1>1, <1>2, FS_Subset
<1>4. Registered(s, r) \in SUBSET s.pending BY DEF Registered
<1>5. IsFiniteSet(Registered(s, r)) BY <1>3, <1>4, FS_Subset
<1>6. Cardinality(Registered(s, r)) \in Nat BY <1>5, FS_CardinalityType
<1>7. s.ready \in Seq(Requests) BY DEF Sessions
<1>8. Len(s.ready) \in Nat BY <1>7, LenProperties
<1>9. Among(s.ready, Len(s.ready), r) \in Nat BY <1>8, AmongNat
<1> QED BY <1>3, <1>5, <1>6, <1>8, <1>9 DEF Within

\* With fewer registrations, and the same completions, there are fewer places.
LEMMA FewerPending ==
    ASSUME NEW s \in Sessions, NEW u \in Sessions, NEW r,
           u.pending \subseteq s.pending, u.ready = s.ready
    PROVE  Within(u, r) <= Within(s, r)
<1>1. Registered(u, r) \in SUBSET Registered(s, r) BY DEF Registered
<1>2. IsFiniteSet(Registered(s, r)) BY WithinNat
<1>3. Cardinality(Registered(u, r)) <= Cardinality(Registered(s, r)) BY <1>1, <1>2, FS_Subset
<1> DEFINE a == Cardinality(Registered(u, r))  b == Cardinality(Registered(s, r))
           c == Among(s.ready, Len(s.ready), r)
<1>4. a \in Nat /\ b \in Nat /\ c \in Nat BY WithinNat
<1>5. Within(u, r) = a + c /\ Within(s, r) = b + c BY DEF Within
<1>6. a <= b BY <1>3
<1> HIDE DEF a, b, c
<1> QED BY <1>4, <1>5, <1>6

\* Removing a registration.
LEMMA RemovedFacts ==
    ASSUME NEW s \in Sessions, NEW r \in Requests
    PROVE  /\ Removed(s, r) \in Sessions
           /\ Removed(s, r).pending = s.pending \ Registered(s, r)
           /\ Removed(s, r).ready = s.ready
           /\ Registered(Removed(s, r), r) = {}
           /\ \A q \in Requests : q # r => Registered(Removed(s, r), q) = Registered(s, q)
<1>1. /\ Removed(s, r) \in Sessions /\ Removed(s, r).pending = s.pending \ Registered(s, r)
      /\ Removed(s, r).ready = s.ready
      BY DEF Removed, Sessions
<1> QED BY <1>1 DEF Registered

\* A session that is opened or renewed for r: a request that had no place has
\* one, the others stay.
LEMMA RenewedFacts ==
    ASSUME NEW s \in Sessions, NEW r \in Requests, Within(s, r) = 0
    PROVE  /\ Renewed(s, r) \in Sessions /\ Within(Renewed(s, r), r) = 1
           /\ \A q \in Requests : q # r => Within(Renewed(s, r), q) = Within(s, q)
           /\ Renewed(s, r).ready = s.ready
<1>1. PENDING_HARD_TIMEOUT \in Nat /\ SESSION_TTL \in Nat BY TelemetryAssumption
<1>2. /\ Renewed(s, r) \in Sessions /\ Renewed(s, r).ready = s.ready
      /\ Renewed(s, r).pending = s.pending \cup {<<r, 0>>}
  <2>1. <<r, 0>> \in Requests \X (0..PENDING_HARD_TIMEOUT) BY <1>1
  <2>2. s.pending \cup {<<r, 0>>} \in SUBSET (Requests \X (0..PENDING_HARD_TIMEOUT))
        BY <2>1 DEF Sessions
  <2>3. Renewed(s, r) = [s EXCEPT !.ttl = SESSION_TTL, !.pending = s.pending \cup {<<r, 0>>}]
        BY DEF Renewed, Registration, Sessions
  <2> QED BY <1>1, <2>2, <2>3 DEF Sessions
<1>3. Registered(s, r) = {} /\ Among(s.ready, Len(s.ready), r) = 0
  <2> DEFINE a == Cardinality(Registered(s, r))  c == Among(s.ready, Len(s.ready), r)
  <2>1. a \in Nat /\ c \in Nat /\ IsFiniteSet(Registered(s, r)) BY WithinNat
  <2>2. a + c = 0 BY DEF Within
  <2> HIDE DEF a, c
  <2>3. a = 0 /\ c = 0 BY <2>1, <2>2
  <2>4. Cardinality(Registered(s, r)) = 0 BY <2>3 DEF a
  <2>5. Registered(s, r) = {} BY <2>1, <2>4, FS_EmptySet
  <2> QED BY <2>3, <2>5 DEF c
<1>4. Registered(Renewed(s, r), r) = {<<r, 0>>} BY <1>2, <1>3 DEF Registered
<1>5. Cardinality(Registered(Renewed(s, r), r)) = 1 BY <1>4, FS_Singleton
<1>6. Within(Renewed(s, r), r) = 1 BY <1>2, <1>3, <1>5 DEF Within
<1>7. ASSUME NEW q \in Requests, q # r PROVE Within(Renewed(s, r), q) = Within(s, q)
  <2>1. Registered(Renewed(s, r), q) = Registered(s, q) BY <1>2, <1>7 DEF Registered
  <2> QED BY <1>2, <2>1 DEF Within
<1> QED BY <1>2, <1>6, <1>7

\* The session that activate_session opens.
LEMMA NewFacts ==
    ASSUME NEW r \in Requests
    PROVE  /\ NewSession(r) \in Sessions /\ Within(NewSession(r), r) = 1
           /\ \A q \in Requests : q # r => Within(NewSession(r), q) = 0
           /\ NewSession(r).ready = << >>
<1>1. PENDING_HARD_TIMEOUT \in Nat /\ SESSION_TTL \in Nat BY TelemetryAssumption
<1>2. << >> \in Seq(Requests) /\ Len(<< >>) = 0 BY EmptySeq
<1>3. /\ NewSession(r) \in Sessions /\ NewSession(r).ready = << >>
      /\ NewSession(r).pending = {<<r, 0>>}
      BY <1>1, <1>2 DEF NewSession, Registration, Sessions
<1>4. \A q : Among(NewSession(r).ready, Len(NewSession(r).ready), q) = 0
  <2>1. Len(NewSession(r).ready) = 0 BY <1>2, <1>3
  <2> QED BY <2>1, AmongNone
<1>5. Registered(NewSession(r), r) = {<<r, 0>>} BY <1>3 DEF Registered
<1>6. Cardinality(Registered(NewSession(r), r)) = 1 BY <1>5, FS_Singleton
<1>7. ASSUME NEW q \in Requests, q # r PROVE Within(NewSession(r), q) = 0
  <2>1. Registered(NewSession(r), q) = {} BY <1>3, <1>7 DEF Registered
  <2>2. Cardinality(Registered(NewSession(r), q)) = 0 BY <2>1, FS_EmptySet
  <2> QED BY <1>4, <2>2 DEF Within
<1> QED BY <1>3, <1>4, <1>6, <1>7 DEF Within

\* A completion gives a request its place among the ready ones for the place of
\* its registration.
LEMMA CompletedFacts ==
    ASSUME NEW s \in Sessions, NEW c \in [request : Requests, usage : BOOLEAN],
           Registered(s, c.request) # {}
    PROVE  /\ Completed(s, c) \in Sessions
           /\ \A q \in Requests : Within(Completed(s, c), q) <= Within(s, q)
           /\ Completed(s, c).ready = IF c.usage THEN Append(s.ready, c.request) ELSE s.ready
<1> DEFINE r == c.request
           u == Removed(s, r)
           w == Completed(s, c)
<1>0. r \in Requests /\ c.usage \in BOOLEAN OBVIOUS
<1>1. /\ u \in Sessions /\ u.pending = s.pending \ Registered(s, r) /\ u.ready = s.ready
      /\ Registered(u, r) = {}
      /\ \A q \in Requests : q # r => Registered(u, q) = Registered(s, q)
      BY <1>0, RemovedFacts
<1>2. /\ s.ready \in Seq(Requests) /\ Len(s.ready) \in Nat
      BY LenProperties DEF Sessions
<1>3. /\ Append(s.ready, r) \in Seq(Requests) /\ Len(Append(s.ready, r)) = Len(s.ready) + 1
      /\ \A i \in 1..Len(s.ready) : Append(s.ready, r)[i] = s.ready[i]
      /\ Append(s.ready, r)[Len(s.ready) + 1] = r
      BY <1>0, <1>2, AppendProperties
<1> HIDE DEF u
<1>4. w = [u EXCEPT !.ready = IF c.usage THEN Append(@, r) ELSE @] BY DEF Completed, u
<1> HIDE DEF r, w
<1>5. /\ w \in Sessions /\ w.pending = u.pending
      /\ w.ready = IF c.usage THEN Append(s.ready, r) ELSE s.ready
      BY <1>0, <1>1, <1>2, <1>3, <1>4 DEF Sessions
<1>6. \A q : Registered(w, q) = Registered(u, q) BY <1>5 DEF Registered
<1>7. ASSUME NEW q
      PROVE  Among(w.ready, Len(w.ready), q)
               = Among(s.ready, Len(s.ready), q) + (IF c.usage /\ q = r THEN 1 ELSE 0)
  <2>0. Among(s.ready, Len(s.ready), q) \in Nat BY <1>2, AmongNat
  <2>1. CASE c.usage
    <3>1. w.ready = Append(s.ready, r) /\ Len(w.ready) = Len(s.ready) + 1
          BY <1>3, <1>5, <2>1
    <3>2. Among(w.ready, Len(s.ready) + 1, q)
            = Among(w.ready, Len(s.ready), q) + (IF w.ready[Len(s.ready) + 1] = q THEN 1 ELSE 0)
          BY <1>2, AmongNext
    <3>3. Among(w.ready, Len(s.ready), q) = Among(s.ready, Len(s.ready), q)
      <4>1. \A i \in 1..Len(s.ready) : w.ready[i] = s.ready[i] BY <1>3, <3>1
      <4> DEFINE n == Len(s.ready)  x == w.ready  y == s.ready
      <4>2. n \in Nat /\ \A i \in 1..n : x[i] = y[i] BY <1>2, <4>1
      <4> HIDE DEF n, x, y
      <4>3. Among(x, n, q) = Among(y, n, q) BY <4>2, AmongSame
      <4> QED BY <4>3 DEF n, x, y
    <3>4. w.ready[Len(s.ready) + 1] = r BY <1>3, <3>1
    <3> QED BY <2>1, <3>1, <3>2, <3>3, <3>4
  <2>2. CASE ~c.usage
    <3>1. w.ready = s.ready BY <1>5, <2>2
    <3> QED BY <2>0, <2>2, <3>1
  <2> QED BY <1>0, <2>1, <2>2
<1>8. ASSUME NEW q \in Requests PROVE Within(w, q) <= Within(s, q)
  <2> DEFINE a == Cardinality(Registered(w, q))  b == Cardinality(Registered(s, q))
             n == Among(s.ready, Len(s.ready), q)
             k == Among(w.ready, Len(w.ready), q)
  <2>1. a \in Nat /\ b \in Nat /\ n \in Nat /\ k \in Nat BY <1>5, WithinNat
  <2>2. Within(w, q) = a + k /\ Within(s, q) = b + n BY DEF Within
  <2>3. CASE q # r
    <3>1. a = b BY <1>1, <1>6, <2>3
    <3>2. k = n + 0 BY <1>7, <2>3
    <3> HIDE DEF a, b, n, k
    <3> QED BY <2>1, <2>2, <3>1, <3>2
  <2>4. CASE q = r
    <3>1. Registered(w, q) = {} BY <1>1, <1>6, <2>4
    <3>2. a = 0 BY <3>1, FS_EmptySet
    <3>3. Registered(s, q) # {} /\ IsFiniteSet(Registered(s, q)) BY <2>4, WithinNat DEF r
    <3>4. b # 0 BY <3>3, FS_EmptySet
    <3>5. k = n + 1 \/ k = n + 0 BY <1>7
    <3> HIDE DEF a, b, n, k
    <3> QED BY <2>1, <2>2, <3>2, <3>4, <3>5
  <2> QED BY <2>3, <2>4
<1> QED BY <1>5, <1>8 DEF r, w

\* Time passes: registrations grow older and become no more.
LEMMA OlderFacts ==
    ASSUME NEW s \in Sessions
    PROVE  /\ Older(s) \in Sessions /\ Older(s).ready = s.ready
           /\ \A q \in Requests : Within(Older(s), q) <= Within(s, q)
<1> DEFINE age(p) == <<p[1], Smaller(p[2] + 1, PENDING_HARD_TIMEOUT)>>
           u == Older(s)
<1>0. PENDING_HARD_TIMEOUT \in Nat BY TelemetryAssumption
<1>1. \A p \in Requests \X (0..PENDING_HARD_TIMEOUT) :
         age(p) \in Requests \X (0..PENDING_HARD_TIMEOUT)
      BY <1>0 DEF Smaller
<1>2. s.pending \subseteq Requests \X (0..PENDING_HARD_TIMEOUT) BY DEF Sessions
<1>3. {age(p) : p \in s.pending} \in SUBSET (Requests \X (0..PENDING_HARD_TIMEOUT))
      BY <1>1, <1>2
<1>4. /\ Before(s.ttl) \in Nat /\ Before(s.batchIn) \in Nat /\ Before(s.jitter) \in Nat
      BY DEF Sessions, Before
<1>5. u = [s EXCEPT !.ttl = Before(s.ttl), !.batchIn = Before(s.batchIn),
                    !.jitter = Before(s.jitter), !.pending = {age(p) : p \in s.pending}]
      BY DEF Older, Sessions
<1> HIDE DEF u
<1>6. u \in Sessions /\ u.ready = s.ready /\ u.pending = {age(p) : p \in s.pending}
      BY <1>3, <1>4, <1>5 DEF Sessions
<1>7. ASSUME NEW q \in Requests PROVE Within(u, q) <= Within(s, q)
  <2> DEFINE f == [p \in Registered(s, q) |-> age(p)]
  <2>1. f \in [Registered(s, q) -> Registered(u, q)] BY <1>6 DEF Registered
  <2>2. \A y \in Registered(u, q) : \E p \in Registered(s, q) : f[p] = y
        BY <1>6 DEF Registered
  <2> HIDE DEF f
  <2>3. f \in Surjection(Registered(s, q), Registered(u, q)) BY <2>1, <2>2 DEF Surjection
  <2>4. IsFiniteSet(Registered(s, q)) BY WithinNat
  <2>5. Cardinality(Registered(u, q)) <= Cardinality(Registered(s, q))
        BY <2>3, <2>4, FS_Surjection
  <2> DEFINE a == Cardinality(Registered(u, q))  b == Cardinality(Registered(s, q))
             n == Among(s.ready, Len(s.ready), q)
  <2>6. a \in Nat /\ b \in Nat /\ n \in Nat BY <1>6, WithinNat
  <2>7. Within(u, q) = a + n /\ Within(s, q) = b + n BY <1>6 DEF Within
  <2>8. a <= b BY <2>5
  <2> HIDE DEF a, b, n
  <2> QED BY <2>6, <2>7, <2>8
<1> QED BY <1>6, <1>7 DEF u

\* A time-out only takes registrations away.
LEMMA ExpiredFacts ==
    ASSUME NEW s \in Sessions
    PROVE  /\ expire_stale_pending(s) \in Sessions
           /\ expire_stale_pending(s).ready = s.ready
           /\ \A q \in Requests : Within(expire_stale_pending(s), q) <= Within(s, q)
           /\ Cardinality(Stale(s)) \in Nat
<1>1. /\ expire_stale_pending(s) \in Sessions /\ expire_stale_pending(s).ready = s.ready
      /\ expire_stale_pending(s).pending \subseteq s.pending
      BY DEF expire_stale_pending, Sessions
<1>2. Stale(s) \in SUBSET s.pending BY DEF Stale
<1>3. IsFiniteSet(s.pending) BY WithinNat
<1>4. IsFiniteSet(Stale(s)) BY <1>2, <1>3, FS_Subset
<1> QED BY <1>1, <1>4, FewerPending, FS_CardinalityType

\* The event batch reports each completion in it as one success.
LEMMA SuccessCount ==
    ASSUME NEW b \in Seq(Requests), NEW q \in Requests
    PROVE  Cardinality(Successes(build_event_batch(b), q)) = Among(b, Len(b), q)
<1> DEFINE H == Hits(b, Len(b), q)
           E == Successes(build_event_batch(b), q)
           f == [i \in H |-> 2 * i]
<1>0. Len(b) \in Nat BY LenProperties
<1>1. \A j \in 1..(2 * Len(b)) :
         j \in E <=> (j % 2 # 1 /\ b[(j + 1) \div 2] = q)
      BY <1>0 DEF Successes, build_event_batch
<1>2. E \subseteq 1..(2 * Len(b)) BY DEF Successes, build_event_batch
<1>3. \A i \in 1..Len(b) : /\ 2 * i \in 1..(2 * Len(b)) /\ (2 * i) % 2 # 1
                           /\ (2 * i + 1) \div 2 = i
      BY <1>0
<1>4. \A j \in 1..(2 * Len(b)) : j % 2 # 1 =>
         /\ (j + 1) \div 2 \in 1..Len(b) /\ 2 * ((j + 1) \div 2) = j
      BY <1>0
<1>5. \A i \in H : i \in 1..Len(b) /\ b[i] = q BY DEF Hits
<1>6. \A i \in 1..Len(b) : b[i] = q => i \in H BY DEF Hits
<1> HIDE DEF H, E
<1>7. f \in [H -> E]
  <2> SUFFICES ASSUME NEW i \in H PROVE 2 * i \in E OBVIOUS
  <2>1. i \in 1..Len(b) /\ b[i] = q BY <1>5
  <2> QED BY <1>1, <1>3, <2>1
<1>8. \A i, j \in H : f[i] = f[j] => i = j BY <1>0, <1>5
<1>9. ASSUME NEW j \in E PROVE \E i \in H : f[i] = j
  <2>1. j \in 1..(2 * Len(b)) /\ j % 2 # 1 /\ b[(j + 1) \div 2] = q BY <1>1, <1>2
  <2>2. (j + 1) \div 2 \in 1..Len(b) /\ 2 * ((j + 1) \div 2) = j BY <1>4, <2>1
  <2>3. (j + 1) \div 2 \in H BY <1>6, <2>1, <2>2
  <2> QED BY <2>2, <2>3
<1> HIDE DEF f
<1>10. f \in Injection(H, E) BY <1>7, <1>8 DEF Injection, IsInjective
<1>11. f \in Surjection(H, E) BY <1>7, <1>9 DEF Surjection
<1>12. f \in Bijection(H, E) BY <1>10, <1>11 DEF Bijection
<1>13. IsFiniteSet(H) BY <1>0, AmongNat DEF H
<1>14. Cardinality(E) = Cardinality(H) BY <1>12, <1>13, FS_Bijection DEF ExistsBijection
<1> QED BY <1>14 DEF E, H, Among

\* A batch takes the oldest completions out of the session.
LEMMA BatchFacts ==
    ASSUME NEW y \in Seq(Requests), NEW n \in 0..Len(y)
    PROVE  /\ SubSeq(y, 1, n) \in Seq(Requests) /\ SubSeq(y, n + 1, Len(y)) \in Seq(Requests)
           /\ \A q : Among(y, Len(y), q)
                       = Among(SubSeq(y, 1, n), Len(SubSeq(y, 1, n)), q)
                         + Among(SubSeq(y, n + 1, Len(y)), Len(SubSeq(y, n + 1, Len(y))), q)
           /\ \A i \in 1..Len(SubSeq(y, 1, n)) :
                 \E j \in 1..Len(y) : SubSeq(y, 1, n)[i] = y[j]
           /\ \A i \in 1..Len(SubSeq(y, n + 1, Len(y))) :
                 \E j \in 1..Len(y) : SubSeq(y, n + 1, Len(y))[i] = y[j]
<1> DEFINE b == SubSeq(y, 1, n)
           t == SubSeq(y, n + 1, Len(y))
           k == Len(y) - n
<1>0. Len(y) \in Nat /\ n \in Nat /\ n <= Len(y) /\ k \in Nat /\ n + k = Len(y)
      BY LenProperties
<1>1. b \in Seq(Requests) /\ Len(b) = n /\ \A i \in 1..n : b[i] = y[i]
  <2>1. 1 \in 1..(Len(y) + 1) /\ n \in 0..Len(y) BY <1>0
  <2>2. /\ b \in Seq(Requests) /\ Len(b) = IF 1 <= n THEN n - 1 + 1 ELSE 0
        /\ \A i \in 1..(n - 1 + 1) : b[i] = y[1 + i - 1]
        BY <2>1, SubSeqProperties
  <2>3. Len(b) = n BY <1>0, <2>2
  <2>4. \A i \in 1..n : i \in 1..(n - 1 + 1) /\ 1 + i - 1 = i BY <1>0
  <2> QED BY <2>2, <2>3, <2>4
<1>2. t \in Seq(Requests) /\ Len(t) = k /\ \A i \in 1..k : t[i] = y[n + i]
  <2>1. n + 1 \in 1..(Len(y) + 1) /\ Len(y) \in n..Len(y) BY <1>0
  <2>2. /\ t \in Seq(Requests)
        /\ Len(t) = IF n + 1 <= Len(y) THEN Len(y) - (n + 1) + 1 ELSE 0
        /\ \A i \in 1..(Len(y) - (n + 1) + 1) : t[i] = y[(n + 1) + i - 1]
        BY <1>0, <2>1, SubSeqProperties
  <2>3. Len(t) = k
    <3>1. CASE n + 1 <= Len(y) BY <1>0, <2>2, <3>1
    <3>2. CASE n = Len(y)
      <4>1. k = 0 /\ ~(n + 1 <= Len(y)) BY <1>0, <3>2
      <4> QED BY <2>2, <4>1
    <3>3. n + 1 <= Len(y) \/ n = Len(y)
      <4> DEFINE m == Len(y)
      <4>1. m \in Nat /\ n \in Nat /\ n <= m BY <1>0
      <4> HIDE DEF m
      <4>2. n + 1 <= m \/ n = m BY <4>1
      <4> QED BY <4>2 DEF m
    <3> QED BY <3>1, <3>2, <3>3
  <2>4. \A i \in 1..k : i \in 1..(Len(y) - (n + 1) + 1) /\ (n + 1) + i - 1 = n + i BY <1>0
  <2> QED BY <2>2, <2>3, <2>4
<1> HIDE DEF b, t, k
<1>3. ASSUME NEW q PROVE Among(y, Len(y), q) = Among(b, Len(b), q) + Among(t, Len(t), q)
  <2>1. Among(y, n + k, q) = Among(y, n, q) + Among(t, k, q) BY <1>0, <1>2, AmongSplit
  <2>2. Among(b, n, q) = Among(y, n, q) BY <1>0, <1>1, AmongSame
  <2> QED BY <1>0, <1>1, <1>2, <2>1, <2>2
<1>4. \A i \in 1..n : i \in 1..Len(y) BY <1>0
<1>5. \A i \in 1..k : n + i \in 1..Len(y) BY <1>0
<1>6. \A i \in 1..Len(b) : \E j \in 1..Len(y) : b[i] = y[j] BY <1>1, <1>4
<1>7. \A i \in 1..Len(t) : \E j \in 1..Len(y) : t[i] = y[j] BY <1>2, <1>5
<1> QED BY <1>1, <1>2, <1>3, <1>6, <1>7 DEF b, t
--------------------------------------------------------------------------------
(***************************************************************************)
(* Places of a request.                                                     *)
(***************************************************************************)
\* A session, if there is one, is one record.
LEMMA SessionFacts ==
    ASSUME TypeOK, session # << >>
    PROVE  session[1] \in Sessions /\ Len(session) = 1
<1>1. session \in Seq(Sessions) /\ Len(session) <= 1 BY DEF TypeOK
<1>2. Len(session) \in Nat /\ Len(session) # 0 BY <1>1, EmptySeq, LenProperties
<1>3. Len(session) = 1
  <2> DEFINE n == Len(session)
  <2>1. n \in Nat /\ n # 0 /\ n <= 1 BY <1>1, <1>2
  <2> HIDE DEF n
  <2>2. n = 1 BY <2>1
  <2> QED BY <2>2 DEF n
<1>4. 1 \in 1..Len(session) BY <1>3
<1> QED BY <1>1, <1>3, <1>4, ElementOfSeq

\* The same of a sequence with one session.
LEMMA OneSession ==
    ASSUME NEW u \in Sessions
    PROVE  <<u>> \in Seq(Sessions) /\ Len(<<u>>) = 1 /\ <<u>>[1] = u /\ <<u>> # << >>
OBVIOUS

\* Places in terms of Within.
LEMMA PlacesIs ==
    ASSUME TypeOK, NEW q \in Requests
    PROVE  /\ session # << >> => Places(q) = reported[q] + Within(session[1], q)
           /\ session = << >> => Places(q) = reported[q]
           /\ Places(q) \in Nat /\ reported[q] \in Nat
<1>0. reported[q] \in Nat BY DEF TypeOK
<1>1. ASSUME session = << >> PROVE Places(q) = reported[q]
      BY <1>0, <1>1 DEF Places, Has
<1>2. ASSUME session # << >>
      PROVE  Places(q) = reported[q] + Within(session[1], q) /\ Places(q) \in Nat
  <2>1. session[1] \in Sessions BY <1>2, SessionFacts
  <2>2. session[1].ready \in Seq(Requests) BY <2>1 DEF Sessions
  <2>3. Count(session[1].ready, q) = Among(session[1].ready, Len(session[1].ready), q)
        BY <2>2, CountIsAmong
  <2>4. Places(q) = reported[q] + Within(session[1], q)
        BY <1>2, <2>3 DEF Places, Has, Within
  <2>5. Within(session[1], q) \in Nat BY <2>1, WithinNat
  <2> QED BY <1>0, <2>4, <2>5
<1> QED BY <1>0, <1>1, <1>2

\* The same after a step.
LEMMA PlacesNext ==
    ASSUME NEW q \in Requests, reported'[q] \in Nat
    PROVE  /\ \A u \in Sessions : session' = <<u>> =>
                  Places(q)' = reported'[q] + Within(u, q) /\ Places(q)' \in Nat
           /\ session' = << >> => Places(q)' = reported'[q]
<1>1. ASSUME session' = << >> PROVE Places(q)' = reported'[q]
      BY <1>1 DEF Places, Has
<1>2. ASSUME NEW u \in Sessions, session' = <<u>>
      PROVE  Places(q)' = reported'[q] + Within(u, q) /\ Places(q)' \in Nat
  <2>1. session'[1] = u /\ session' # << >> BY <1>2, OneSession
  <2>2. u.ready \in Seq(Requests) BY DEF Sessions
  <2>3. Count(u.ready, q) = Among(u.ready, Len(u.ready), q) BY <2>2, CountIsAmong
  <2>4. Places(q)' = reported'[q] + Within(u, q) BY <2>1, <2>3 DEF Places, Has, Within
  <2>5. Within(u, q) \in Nat BY WithinNat
  <2> QED BY <2>4, <2>5
<1> QED BY <1>1, <1>2

\* A step that gives no request another place, takes nobody back to before its
\* registration, and lets only what has usage wait keeps ReportInv.
LEMMA ReportKept ==
    ASSUME TypeOK, ReportInv,
           \A q \in Requests : Places(q)' \in Nat /\ Places(q)' <= Places(q),
           \A q \in Requests : reported'[q] > 0 => pc'[q] = "usage",
           \A q \in Requests : pc'[q] \in {"new", "resolving"} => pc[q] \in {"new", "resolving"},
           WaitingHasUsage', Len(loops') = Len(session')
    PROVE  ReportInv'
<1>1. \A q \in Requests : Places(q) \in Nat BY PlacesIs
<1>2. ASSUME NEW q \in Requests PROVE Places(q)' <= 1
  <2>1. Places(q) <= 1 BY DEF ReportInv, ReportedOnce
  <2> QED BY <1>1, <2>1
<1>3. ASSUME NEW q \in Requests, pc'[q] \in {"new", "resolving"} PROVE Places(q)' = 0
  <2>1. Places(q) = 0 BY <1>3 DEF ReportInv, NotRegistered
  <2> QED BY <2>1
<1>4. NotRegistered' BY <1>3 DEF NotRegistered
<1>5. ReportedOnce' BY <1>2 DEF ReportedOnce
<1> QED BY <1>4, <1>5 DEF ReportInv

\* A step of the gateway that leaves the session and the completions alone.
LEMMA ReportSame ==
    ASSUME TypeOK, ReportInv, UNCHANGED <<session, loops, completions, reported>>,
           \A q \in Requests : pc[q] = "usage" => pc'[q] = "usage",
           \A q \in Requests : pc'[q] \in {"new", "resolving"} => pc[q] \in {"new", "resolving"}
    PROVE  ReportInv'
<1>1. \A q \in Requests : Places(q)' = Places(q) BY DEF Places
<1>2. \A q \in Requests : Places(q) \in Nat /\ reported[q] \in Nat BY PlacesIs
<1>3. \A q \in Requests : Places(q)' \in Nat /\ Places(q)' <= Places(q) BY <1>1, <1>2
<1>4. \A q \in Requests : reported'[q] > 0 => pc'[q] = "usage"
      BY DEF ReportInv, ReportedOnce
<1>5. WaitingHasUsage'
  <2>1. ASSUME NEW i \in 1..Len(completions), completions[i].usage
        PROVE  pc'[completions[i].request] = "usage"
    <3>1. completions[i] \in [request : Requests, usage : BOOLEAN]
          BY ElementOfSeq DEF TypeOK
    <3> QED BY <2>1, <3>1 DEF ReportInv, WaitingHasUsage
  <2>2. ASSUME NEW j \in 1..Len(session), NEW i \in 1..Len(session[j].ready)
        PROVE  pc'[session[j].ready[i]] = "usage"
    <3>1. session[j] \in Sessions BY ElementOfSeq DEF TypeOK
    <3>2. session[j].ready[i] \in Requests BY <3>1, ElementOfSeq DEF Sessions
    <3> QED BY <3>2 DEF ReportInv, WaitingHasUsage
  <2> QED BY <2>1, <2>2 DEF WaitingHasUsage
<1>6. Len(loops') = Len(session') BY DEF ReportInv, ReportedOnce
<1> QED BY <1>3, <1>4, <1>5, <1>6, ReportKept
--------------------------------------------------------------------------------
(***************************************************************************)
(* The steps.  Told collects what try_send leaves of the audit.             *)
(***************************************************************************)
Told == /\ audit' \in Seq(Messages) /\ Len(audit') <= AUDIT_QUEUE_CAPACITY
        /\ dropped' \in BOOLEAN /\ AuditInv'

\* A step that leaves the audit and the guards alone.
LEMMA NotTold ==
    ASSUME TypeOK, AuditInv, UNCHANGED <<audit, dropped, guard, inFlight>> PROVE Told
<1>1. audit' \in Seq(Messages) /\ Len(audit') <= AUDIT_QUEUE_CAPACITY /\ dropped' \in BOOLEAN
      BY DEF TypeOK
<1>2. NoDebt' BY DEF AuditInv, NoDebt
<1>3. Known' = Known /\ Guarded' = Guarded BY DEF Known, Guarded
<1>4. InFlightCovers' BY <1>1, <1>3, CoversIs, CoversIsNext DEF AuditInv, TypeOK
<1> QED BY <1>1, <1>2, <1>4 DEF Told, AuditInv

\* The handler before it registers and after its send: the session is not
\* touched.
LEMMA GatewayStep ==
    ASSUME IInv, NEW r \in Requests,
           \/ begin_request(r) \/ ResolveFails(r) \/ Unregistered(r) \/ SendFails(r)
           \/ Responds(r) \/ HandlerDropped(r)
    PROVE  IInv'
<1>0. TypeOK /\ NotBegun /\ AuditInv /\ ReportInv BY DEF IInv
<1>1. /\ UNCHANGED <<enabled, session, loops, growthbook, completions, inFlight, reported>>
      /\ \E v \in PCs \ {"new", "usage"} :
            /\ pc' = [pc EXCEPT ![r] = v]
            /\ v = "resolving" => pc[r] = "new"
            /\ pc[r] # "usage"
      BY <1>0 DEF begin_request, ResolveFails, Unregistered, SendFails, Responds,
                  HandlerDropped, PCs
<1>2. PICK v \in PCs \ {"new", "usage"} :
         /\ pc' = [pc EXCEPT ![r] = v] /\ (v = "resolving" => pc[r] = "new")
         /\ pc[r] # "usage"
      BY <1>1
<1>3. /\ pc \in [Requests -> PCs] /\ guard \in [Requests -> BOOLEAN] BY <1>0 DEF TypeOK
<1>4. pc' \in [Requests -> PCs] BY <1>2, <1>3
<1>5. Told
  <2>1. CASE begin_request(r) BY <1>0, <2>1, BeginStep DEF Told
  <2>2. CASE finish(r) BY <1>0, <1>1, <2>2, FinishStep DEF Told
  <2>3. CASE Unregistered(r) BY <1>0, <2>3, NotTold DEF Unregistered, auditVars
  <2> QED BY <2>1, <2>2, <2>3 DEF ResolveFails, SendFails, Responds, HandlerDropped
<1>6. guard' \in [Requests -> BOOLEAN] /\ \A q \in Requests : q # r => guard'[q] = guard[q]
  <2>1. CASE begin_request(r)
    <3>1. guard' = [guard EXCEPT ![r] = Room > 0] BY <2>1 DEF begin_request
    <3>2. (Room > 0) \in BOOLEAN OBVIOUS
    <3> QED BY <1>3, <3>1, <3>2
  <2>2. CASE finish(r) BY <1>3, <2>2 DEF finish
  <2>3. CASE Unregistered(r) BY <1>3, <2>3 DEF Unregistered
  <2> QED BY <2>1, <2>2, <2>3 DEF ResolveFails, SendFails, Responds, HandlerDropped
<1>7. TypeOK' BY <1>0, <1>1, <1>4, <1>5, <1>6 DEF TypeOK, Told
<1>8. NotBegun'
  <2> SUFFICES ASSUME NEW q \in Requests, pc'[q] = "new" PROVE ~guard'[q] BY DEF NotBegun
  <2>1. q # r BY <1>2, <1>3
  <2>2. pc'[q] = pc[q] BY <1>2, <1>3, <2>1
  <2> QED BY <1>0, <1>6, <2>1, <2>2 DEF NotBegun
<1>9. \A q \in Requests : pc[q] = "usage" => pc'[q] = "usage" BY <1>2, <1>3
<1>10. \A q \in Requests : pc'[q] \in {"new", "resolving"} => pc[q] \in {"new", "resolving"}
       BY <1>2, <1>3
<1>11. ReportInv' BY <1>0, <1>1, <1>9, <1>10, ReportSame
<1> QED BY <1>5, <1>7, <1>8, <1>11 DEF IInv, Told

\* Completions and the audit worker: what is heard and what is counted.
LEMMA AuditOnlyStep ==
    ASSUME IInv, observe_count_tokens \/ apply_message PROVE IInv'
<1>0. TypeOK /\ NotBegun /\ AuditInv /\ ReportInv BY DEF IInv
<1>1. UNCHANGED <<pc, enabled, guard, session, loops, growthbook, completions, reported>>
      BY DEF observe_count_tokens, apply_message, requestVars
<1>2. Told /\ inFlight' \in Nat
  <2>1. CASE observe_count_tokens
    <3>1. try_send(Observed(1)) /\ inFlight' = inFlight BY <2>1 DEF observe_count_tokens
    <3> QED BY <1>0, <1>1, <3>1, TellOthers DEF Told, TypeOK
  <2>2. CASE apply_message
    <3>1. dropped' = dropped BY <2>2 DEF apply_message
    <3> QED BY <1>0, <2>2, <3>1, ApplyStep DEF Told, TypeOK
  <2> QED BY <2>1, <2>2
<1>3. TypeOK' BY <1>0, <1>1, <1>2 DEF TypeOK, Told
<1>4. NotBegun' BY <1>0, <1>1 DEF NotBegun
<1>5. ReportInv' BY <1>0, <1>1, ReportSame
<1> QED BY <1>2, <1>3, <1>4, <1>5 DEF IInv, Told

\* A request registers.
LEMMA ActivateStep ==
    ASSUME IInv, NEW r \in Requests, activate_session(r) PROVE IInv'
<1>0. TypeOK /\ NotBegun /\ AuditInv /\ ReportInv BY DEF IInv
<1>1. /\ pc[r] = "resolving" /\ pc' = [pc EXCEPT ![r] = "sending"]
      /\ enabled' = [enabled EXCEPT ![r] = TRUE]
      /\ UNCHANGED <<guard, growthbook, completions, inFlight, reported>>
      BY DEF activate_session
<1>2. pc \in [Requests -> PCs] /\ enabled \in [Requests -> BOOLEAN] BY <1>0 DEF TypeOK
<1>3. pc' \in [Requests -> PCs] /\ enabled' \in [Requests -> BOOLEAN] BY <1>1, <1>2 DEF PCs
<1>4. Places(r) = 0 BY <1>0, <1>1 DEF ReportInv, NotRegistered
<1>5. \A q \in Requests : Places(q) <= 1 /\ Places(q) \in Nat /\ reported[q] \in Nat
      BY <1>0, PlacesIs DEF ReportInv, ReportedOnce
<1>n. \A q \in Requests : reported'[q] \in Nat BY <1>1, <1>5
<1>6. /\ Told /\ loops' \in Seq(Loops) /\ Len(loops') = 1
      /\ \E u \in Sessions :
            /\ session' = <<u>>
            /\ reported[r] + Within(u, r) = 1
            /\ \A q \in Requests : q # r => reported[q] + Within(u, q) = Places(q)
            /\ \A i \in 1..Len(u.ready) : pc[u.ready[i]] = "usage"
  <2>1. CASE Has(session)
    <3>1. /\ session' = <<Renewed(session[1], r)>> /\ try_send(Observed(1)) /\ loops' = loops
          BY <2>1 DEF activate_session
    <3>2. session[1] \in Sessions /\ Len(session) = 1 /\ session # << >>
          BY <1>0, <2>1, SessionFacts DEF Has
    <3>3. \A q \in Requests : Places(q) = reported[q] + Within(session[1], q)
          BY <1>0, <3>2, PlacesIs
    <3>4. Within(session[1], r) = 0 /\ reported[r] = 0
      <4>1. Within(session[1], r) \in Nat BY <3>2, WithinNat
      <4> QED BY <1>4, <1>5, <3>3, <4>1
    <3>5. /\ Renewed(session[1], r) \in Sessions /\ Within(Renewed(session[1], r), r) = 1
          /\ \A q \in Requests : q # r => Within(Renewed(session[1], r), q) = Within(session[1], q)
          /\ Renewed(session[1], r).ready = session[1].ready
          BY <3>2, <3>4, RenewedFacts
    <3>6. \A i \in 1..Len(session[1].ready) : pc[session[1].ready[i]] = "usage"
      <4>1. 1 \in 1..Len(session) BY <3>2
      <4> QED BY <1>0, <4>1 DEF ReportInv, WaitingHasUsage
    <3>7. reported[r] + Within(Renewed(session[1], r), r) = 1 BY <3>4, <3>5
    <3>8. \A q \in Requests : q # r => reported[q] + Within(Renewed(session[1], r), q) = Places(q)
          BY <3>3, <3>5
    <3>9. \A i \in 1..Len(Renewed(session[1], r).ready) :
             pc[Renewed(session[1], r).ready[i]] = "usage"
          BY <3>5, <3>6
    <3>10. Told BY <1>0, <1>1, <3>1, TellOthers DEF Told
    <3>11. loops' \in Seq(Loops) /\ Len(loops') = 1
           BY <1>0, <3>1, <3>2 DEF ReportInv, ReportedOnce, TypeOK
    <3> QED BY <3>1, <3>5, <3>7, <3>8, <3>9, <3>10, <3>11
  <2>2. CASE ~Has(session)
    <3>1. /\ session' = <<NewSession(r)>> /\ try_send(Observed(2))
          /\ loops' = Append(loops, [at |-> "tick", batch |-> << >>])
          BY <2>2 DEF activate_session
    <3>2. session = << >> BY <2>2 DEF Has
    <3>3. \A q \in Requests : Places(q) = reported[q] BY <1>0, <3>2, PlacesIs
    <3>4. /\ NewSession(r) \in Sessions /\ Within(NewSession(r), r) = 1
          /\ \A q \in Requests : q # r => Within(NewSession(r), q) = 0
          /\ NewSession(r).ready = << >>
          BY NewFacts
    <3>5. reported[r] + Within(NewSession(r), r) = 1 BY <1>4, <3>3, <3>4
    <3>6. \A q \in Requests : q # r => reported[q] + Within(NewSession(r), q) = Places(q)
          BY <1>5, <3>3, <3>4
    <3>7. Told BY <1>0, <1>1, <3>1, TellOthers DEF Told
    <3>8. loops' \in Seq(Loops) /\ Len(loops') = 1
      <4>1. loops \in Seq(Loops) /\ Len(loops) = 0
        <5>1. Len(session) = 0 BY <3>2, EmptySeq
        <5> QED BY <1>0, <5>1 DEF ReportInv, ReportedOnce, TypeOK
      <4>2. [at |-> "tick", batch |-> << >>] \in Loops BY EmptySeq DEF Loops
      <4> QED BY <3>1, <4>1, <4>2, AppendProperties
    <3>9. Len(NewSession(r).ready) = 0 BY <3>4, EmptySeq
    <3>10. \A i \in 1..Len(NewSession(r).ready) : pc[NewSession(r).ready[i]] = "usage"
           BY <3>9
    <3> QED BY <3>1, <3>4, <3>5, <3>6, <3>7, <3>8, <3>10
  <2> QED BY <2>1, <2>2
<1>7. PICK u \in Sessions :
         /\ session' = <<u>> /\ reported[r] + Within(u, r) = 1
         /\ \A q \in Requests : q # r => reported[q] + Within(u, q) = Places(q)
         /\ \A i \in 1..Len(u.ready) : pc[u.ready[i]] = "usage"
      BY <1>6
<1>8. <<u>> \in Seq(Sessions) /\ Len(<<u>>) = 1 /\ <<u>>[1] = u BY OneSession
<1>9. session' \in Seq(Sessions) /\ Len(session') = 1 /\ session'[1] = u BY <1>7, <1>8
<1>10. \A q \in Requests : Places(q)' = reported[q] + Within(u, q)
       BY <1>1, <1>7, <1>n, PlacesNext
<1>11. Places(r)' = 1 /\ \A q \in Requests : q # r => Places(q)' = Places(q)
       BY <1>7, <1>10
<1>12. TypeOK' BY <1>0, <1>1, <1>3, <1>6, <1>9 DEF TypeOK, Told
<1>13. NotBegun'
  <2> SUFFICES ASSUME NEW q \in Requests, pc'[q] = "new" PROVE ~guard'[q] BY DEF NotBegun
  <2>1. pc[q] = "new" BY <1>1, <1>2
  <2> QED BY <1>0, <1>1, <2>1 DEF NotBegun
<1>14. NotRegistered'
  <2> SUFFICES ASSUME NEW q \in Requests, pc'[q] \in {"new", "resolving"} PROVE Places(q)' = 0
      BY DEF NotRegistered
  <2>1. q # r /\ pc'[q] = pc[q] BY <1>1, <1>2
  <2> QED BY <1>0, <1>11, <2>1 DEF ReportInv, NotRegistered
<1>15. \A q \in Requests : pc[q] = "usage" => pc'[q] = "usage" BY <1>1, <1>2
<1>16. WaitingHasUsage'
  <2>1. ASSUME NEW i \in 1..Len(completions'), completions'[i].usage
        PROVE  pc'[completions'[i].request] = "usage"
    <3>0. completions' = completions /\ completions \in Seq([request : Requests, usage : BOOLEAN])
          BY <1>0, <1>1 DEF TypeOK
    <3>1. completions[i] \in [request : Requests, usage : BOOLEAN] BY <3>0, ElementOfSeq
    <3> QED BY <1>0, <1>15, <2>1, <3>0, <3>1 DEF ReportInv, WaitingHasUsage
  <2>2. ASSUME NEW j \in 1..Len(session'), NEW i \in 1..Len(session'[j].ready)
        PROVE  pc'[session'[j].ready[i]] = "usage"
    <3>1. j = 1 /\ session'[j] = u BY <1>9
    <3>2. i \in 1..Len(u.ready) BY <3>1
    <3>3. u.ready[i] \in Requests BY <3>2, ElementOfSeq DEF Sessions
    <3> QED BY <1>7, <1>15, <3>1, <3>2, <3>3
  <2> QED BY <2>1, <2>2 DEF WaitingHasUsage
<1>17. ReportedOnce'
  <2>1. ASSUME NEW q \in Requests
        PROVE  Places(q)' <= 1 /\ (reported'[q] > 0 => pc'[q] = "usage")
    <3>1. reported[q] > 0 => pc[q] = "usage" BY <1>0 DEF ReportInv, ReportedOnce
    <3>2. Places(q)' <= 1
      <4>1. CASE q = r BY <1>11, <4>1
      <4>2. CASE q # r BY <1>5, <1>11, <4>2
      <4> QED BY <4>1, <4>2
    <3> QED BY <1>1, <1>15, <3>1, <3>2
  <2> QED BY <1>6, <1>9, <2>1 DEF ReportedOnce
<1> QED BY <1>6, <1>12, <1>13, <1>14, <1>16, <1>17 DEF IInv, Told, ReportInv

CompletionsHaveUsage == \A i \in 1..Len(completions) :
                           completions[i].usage => pc[completions[i].request] = "usage"

\* A session in which no request gains a place, and only what has usage waits.
LEMMA SessionShrinks ==
    ASSUME TypeOK, ReportInv, session # << >>, NEW u \in Sessions, session' = <<u>>,
           reported' \in [Requests -> Nat], Len(loops') = 1,
           \A q \in Requests : reported'[q] + Within(u, q) <= reported[q] + Within(session[1], q),
           \A q \in Requests : reported'[q] > 0 => pc'[q] = "usage",
           \A q \in Requests : pc'[q] \in {"new", "resolving"} => pc[q] \in {"new", "resolving"},
           \A i \in 1..Len(u.ready) : pc'[u.ready[i]] = "usage",
           CompletionsHaveUsage'
    PROVE  ReportInv' /\ session' \in Seq(Sessions) /\ Len(session') <= 1
<1>1. <<u>> \in Seq(Sessions) /\ Len(<<u>>) = 1 /\ <<u>>[1] = u BY OneSession
<1>2. session' \in Seq(Sessions) /\ Len(session') = 1 /\ session'[1] = u BY <1>1
<1>3. ASSUME NEW q \in Requests PROVE Places(q)' \in Nat /\ Places(q)' <= Places(q)
  <2>1. reported'[q] \in Nat OBVIOUS
  <2>2. Places(q)' = reported'[q] + Within(u, q) /\ Places(q)' \in Nat BY <2>1, PlacesNext
  <2>3. Places(q) = reported[q] + Within(session[1], q) BY PlacesIs
  <2> QED BY <2>2, <2>3
<1>4. WaitingHasUsage'
  <2>1. ASSUME NEW j \in 1..Len(session'), NEW i \in 1..Len(session'[j].ready)
        PROVE  pc'[session'[j].ready[i]] = "usage"
    <3>1. j = 1 /\ session'[j] = u BY <1>2
    <3> QED BY <3>1
  <2> QED BY <2>1 DEF WaitingHasUsage, CompletionsHaveUsage
<1>5. Len(loops') = Len(session') BY <1>2
<1>6. ReportInv' BY <1>3, <1>4, <1>5, ReportKept
<1> QED BY <1>2, <1>6

\* The ready requests of the session have usage.
LEMMA ReadyHasUsage ==
    ASSUME TypeOK, ReportInv, session # << >>
    PROVE  /\ \A i \in 1..Len(session[1].ready) : pc[session[1].ready[i]] = "usage"
           /\ Len(loops) = 1 /\ loops \in Seq(Loops)
<1>1. Len(session) = 1 BY SessionFacts
<1>2. 1 \in 1..Len(session) BY <1>1
<1> QED BY <1>1, <1>2 DEF ReportInv, WaitingHasUsage, ReportedOnce, TypeOK

\* The gateway cancels a registration, which may be gone.
LEMMA CancelStep ==
    ASSUME IInv, NEW r \in Requests, cancel_request(r) PROVE IInv'
<1>0. TypeOK /\ NotBegun /\ AuditInv /\ ReportInv BY DEF IInv
<1>1. /\ pc[r] = "cancelling" /\ pc' = [pc EXCEPT ![r] = "done"]
      /\ UNCHANGED <<enabled, guard, loops, growthbook, completions, inFlight, reported>>
      BY DEF cancel_request
<1>2. pc \in [Requests -> PCs] BY <1>0 DEF TypeOK
<1>3. pc' \in [Requests -> PCs] BY <1>1, <1>2 DEF PCs
<1>4. \A q \in Requests : pc[q] = "usage" => pc'[q] = "usage" BY <1>1, <1>2
<1>5. \A q \in Requests : pc'[q] \in {"new", "resolving"} => pc'[q] = pc[q] BY <1>1, <1>2
<1>6. NotBegun' BY <1>0, <1>1, <1>5 DEF NotBegun
<1>7. CASE Has(session) /\ Registered(session[1], r) # {}
  <2>1. /\ session' = <<Removed(session[1], r)>> /\ try_send(Observed(1))
        BY <1>7 DEF cancel_request
  <2>2. session # << >> BY <1>7 DEF Has
  <2>3. session[1] \in Sessions BY <1>0, <2>2, SessionFacts
  <2>4. /\ Removed(session[1], r) \in Sessions /\ Removed(session[1], r).ready = session[1].ready
        /\ Removed(session[1], r).pending \subseteq session[1].pending
        BY <2>3, RemovedFacts
  <2>5. Told BY <1>0, <1>1, <2>1, TellOthers DEF Told
  <2>6. \A q \in Requests :
           reported'[q] + Within(Removed(session[1], r), q) <= reported[q] + Within(session[1], q)
    <3> SUFFICES ASSUME NEW q \in Requests
                 PROVE  reported[q] + Within(Removed(session[1], r), q)
                          <= reported[q] + Within(session[1], q)
        BY <1>1
    <3>1. /\ Within(Removed(session[1], r), q) <= Within(session[1], q)
          /\ Within(Removed(session[1], r), q) \in Nat /\ Within(session[1], q) \in Nat
          BY <2>3, <2>4, FewerPending, WithinNat
    <3>2. reported[q] \in Nat BY <1>0 DEF TypeOK
    <3> QED BY <3>1, <3>2
  <2>7. \A q \in Requests : reported'[q] > 0 => pc'[q] = "usage"
        BY <1>0, <1>1, <1>4 DEF ReportInv, ReportedOnce
  <2>8. \A i \in 1..Len(Removed(session[1], r).ready) :
           pc'[Removed(session[1], r).ready[i]] = "usage"
    <3>1. \A i \in 1..Len(session[1].ready) :
             pc[session[1].ready[i]] = "usage" /\ session[1].ready[i] \in Requests
          BY <1>0, <2>2, <2>3, ReadyHasUsage, ElementOfSeq DEF Sessions
    <3> QED BY <1>4, <2>4, <3>1
  <2>9. CompletionsHaveUsage'
    <3> SUFFICES ASSUME NEW i \in 1..Len(completions), completions[i].usage
                 PROVE  pc'[completions[i].request] = "usage"
        BY <1>1 DEF CompletionsHaveUsage
    <3>1. completions[i] \in [request : Requests, usage : BOOLEAN]
          BY <1>0, ElementOfSeq DEF TypeOK
    <3> QED BY <1>0, <1>4, <3>1 DEF ReportInv, WaitingHasUsage
  <2>10. reported' \in [Requests -> Nat] /\ Len(loops') = 1
         BY <1>0, <1>1, <2>2, ReadyHasUsage DEF TypeOK
  <2>11. \A q \in Requests : pc'[q] \in {"new", "resolving"} => pc[q] \in {"new", "resolving"}
         BY <1>5
  <2>12. ReportInv' /\ session' \in Seq(Sessions) /\ Len(session') <= 1
         BY <1>0, <2>1, <2>2, <2>4, <2>6, <2>7, <2>8, <2>9, <2>10, <2>11, SessionShrinks
  <2>13. TypeOK' BY <1>0, <1>1, <1>3, <2>5, <2>12 DEF TypeOK, Told
  <2> QED BY <1>6, <2>5, <2>12, <2>13 DEF IInv, Told
<1>8. CASE ~(Has(session) /\ Registered(session[1], r) # {})
  <2>1. session' = session /\ audit' = audit /\ dropped' = dropped
        BY <1>8 DEF cancel_request, auditVars
  <2>2. Told BY <1>0, <1>1, <2>1, NotTold
  <2>3. TypeOK' BY <1>0, <1>1, <1>3, <2>1, <2>2 DEF TypeOK, Told
  <2>4. ReportInv' BY <1>0, <1>1, <1>4, <1>5, <2>1, ReportSame
  <2> QED BY <1>6, <2>2, <2>3, <2>4 DEF IInv, Told
<1> QED BY <1>7, <1>8

\* The observer tells of the end of a body.
LEMMA CompletionStep ==
    ASSUME IInv, NEW r \in Requests, NEW usage \in BOOLEAN, send_completion(r, usage)
    PROVE  IInv'
<1>0. TypeOK /\ NotBegun /\ AuditInv /\ ReportInv BY DEF IInv
<1>1. /\ pc[r] = "responded" /\ pc' = [pc EXCEPT ![r] = IF usage THEN "usage" ELSE "done"]
      /\ UNCHANGED <<enabled, guard, session, loops, growthbook, inFlight, reported>>
      BY DEF send_completion
<1>2. pc \in [Requests -> PCs] BY <1>0 DEF TypeOK
<1>3. pc' \in [Requests -> PCs] BY <1>1, <1>2 DEF PCs
<1>4. \A q \in Requests : pc[q] = "usage" => pc'[q] = "usage" BY <1>1, <1>2
<1>5. \A q \in Requests : pc'[q] \in {"new", "resolving"} => pc'[q] = pc[q] BY <1>1, <1>2
<1>6. NotBegun' BY <1>0, <1>1, <1>5 DEF NotBegun
<1> DEFINE C == [request : Requests, usage : BOOLEAN]
           c == [request |-> r, usage |-> usage]
<1>7. completions \in Seq(C) /\ Len(completions) \in Nat /\ c \in C
      BY <1>0, LenProperties DEF TypeOK
<1>8. completions' = completions \/ completions' = Append(completions, c)
      BY DEF send_completion
<1>9. Told
  <2>1. (audit' = audit /\ dropped' = dropped) \/ try_send(Observed(1))
        BY DEF send_completion, auditVars
  <2>2. CASE audit' = audit /\ dropped' = dropped BY <1>0, <1>1, <2>2, NotTold
  <2>3. CASE try_send(Observed(1)) BY <1>0, <1>1, <2>3, TellOthers DEF Told
  <2> QED BY <2>1, <2>2, <2>3
<1>10. /\ Append(completions, c) \in Seq(C) /\ Len(Append(completions, c)) = Len(completions) + 1
       /\ \A i \in 1..Len(completions) : Append(completions, c)[i] = completions[i]
       /\ Append(completions, c)[Len(completions) + 1] = c
       BY <1>7, AppendProperties
<1>11. completions' \in Seq(C) BY <1>7, <1>8, <1>10
<1>12. \A i \in 1..Len(completions) :
          completions[i].usage => pc'[completions[i].request] = "usage"
  <2> SUFFICES ASSUME NEW i \in 1..Len(completions), completions[i].usage
               PROVE  pc'[completions[i].request] = "usage"
      OBVIOUS
  <2>1. completions[i] \in C BY <1>7, ElementOfSeq
  <2> QED BY <1>0, <1>4, <2>1 DEF ReportInv, WaitingHasUsage
<1>13. c.usage => pc'[c.request] = "usage" BY <1>1, <1>2
<1>14. CompletionsHaveUsage'
  <2>1. CASE completions' = completions BY <1>12, <2>1 DEF CompletionsHaveUsage
  <2>2. CASE completions' = Append(completions, c)
    <3> HIDE DEF c
    <3> SUFFICES ASSUME NEW i \in 1..Len(completions'), completions'[i].usage
                 PROVE  pc'[completions'[i].request] = "usage"
        BY DEF CompletionsHaveUsage
    <3>1. i \in 1..Len(completions) \/ i = Len(completions) + 1
          BY <1>7, <1>10, <2>2
    <3>2. CASE i \in 1..Len(completions)
      <4>1. completions'[i] = completions[i] BY <1>10, <2>2, <3>2
      <4> QED BY <1>12, <3>2, <4>1
    <3>3. CASE i = Len(completions) + 1
      <4>1. completions'[i] = c BY <1>10, <2>2, <3>3
      <4> QED BY <1>13, <4>1
    <3> QED BY <3>1, <3>2, <3>3
  <2> QED BY <1>8, <2>1, <2>2
<1>15. TypeOK' BY <1>0, <1>1, <1>3, <1>9, <1>11 DEF TypeOK, Told
<1>16. WaitingHasUsage'
  <2>1. ASSUME NEW j \in 1..Len(session), NEW i \in 1..Len(session[j].ready)
        PROVE  pc'[session[j].ready[i]] = "usage"
    <3>1. session[j] \in Sessions BY <1>0, ElementOfSeq DEF TypeOK
    <3>2. session[j].ready[i] \in Requests BY <3>1, ElementOfSeq DEF Sessions
    <3> QED BY <1>0, <1>4, <3>2 DEF ReportInv, WaitingHasUsage
  <2> QED BY <1>1, <1>14, <2>1 DEF WaitingHasUsage, CompletionsHaveUsage
<1>17. ReportInv'
  <2>1. \A q \in Requests : Places(q)' = Places(q) /\ Places(q) \in Nat /\ reported[q] \in Nat
        BY <1>0, <1>1, PlacesIs DEF Places
  <2>2. \A q \in Requests : Places(q)' \in Nat /\ Places(q)' <= Places(q) BY <2>1
  <2>3. \A q \in Requests : reported'[q] > 0 => pc'[q] = "usage"
        BY <1>0, <1>1, <1>4 DEF ReportInv, ReportedOnce
  <2>4. Len(loops') = Len(session') BY <1>0, <1>1 DEF ReportInv, ReportedOnce
  <2> QED BY <1>0, <1>5, <1>16, <2>2, <2>3, <2>4, ReportKept
<1> QED BY <1>6, <1>9, <1>15, <1>17 DEF IInv, Told

\* completion_loop takes one observation; its request may be registered or not.
LEMMA ObservedStep ==
    ASSUME IInv, completion_loop PROVE IInv'
<1>0. TypeOK /\ NotBegun /\ AuditInv /\ ReportInv BY DEF IInv
<1> DEFINE C == [request : Requests, usage : BOOLEAN]
           c == Head(completions)
<1>1. /\ completions # << >> /\ completions' = Tail(completions)
      /\ UNCHANGED <<pc, enabled, guard, loops, growthbook, inFlight, reported>>
      BY DEF completion_loop, requestVars
<1>2. completions \in Seq(C) BY <1>0 DEF TypeOK
<1>3. /\ Tail(completions) \in Seq(C) /\ Len(Tail(completions)) = Len(completions) - 1
      /\ \A i \in 1..Len(Tail(completions)) : Tail(completions)[i] = completions[i + 1]
      /\ Len(completions) \in Nat \ {0} /\ c \in C /\ c = completions[1]
  <2> HIDE DEF C
  <2>1. Len(completions) \in Nat \ {0} BY <1>1, <1>2, EmptySeq
  <2>2. Head(completions) = completions[1] BY <1>1, <1>2
  <2> QED BY <1>1, <1>2, <2>1, <2>2, HeadTailProperties
<1>4. completions' \in Seq(C) BY <1>1, <1>3
<1>5. CompletionsHaveUsage'
  <2> SUFFICES ASSUME NEW i \in 1..Len(completions'), completions'[i].usage
               PROVE  pc'[completions'[i].request] = "usage"
      BY DEF CompletionsHaveUsage
  <2>1. i + 1 \in 1..Len(completions) /\ completions'[i] = completions[i + 1] BY <1>1, <1>3
  <2> QED BY <1>0, <1>1, <2>1 DEF ReportInv, WaitingHasUsage
<1>6. c.usage => pc[c.request] = "usage"
  <2>1. 1 \in 1..Len(completions) BY <1>3
  <2> QED BY <1>0, <1>3, <2>1 DEF ReportInv, WaitingHasUsage
<1>7. NotBegun' BY <1>0, <1>1 DEF NotBegun
<1> HIDE DEF c
<1>8. CASE Has(session) /\ Registered(session[1], c.request) # {}
  <2>1. /\ session' = <<Completed(session[1], c)>> /\ try_send(Observed(1))
        BY <1>8 DEF completion_loop, c
  <2>2. session # << >> BY <1>8 DEF Has
  <2>3. session[1] \in Sessions BY <1>0, <2>2, SessionFacts
  <2> DEFINE u == Completed(session[1], c)
  <2>4. /\ u \in Sessions /\ \A q \in Requests : Within(u, q) <= Within(session[1], q)
        /\ u.ready = IF c.usage THEN Append(session[1].ready, c.request) ELSE session[1].ready
        BY <1>3, <1>8, <2>3, CompletedFacts
  <2> HIDE DEF u
  <2>5. Told BY <1>0, <1>1, <2>1, TellOthers DEF Told
  <2>6. \A q \in Requests : reported'[q] + Within(u, q) <= reported[q] + Within(session[1], q)
    <3> SUFFICES ASSUME NEW q \in Requests
                 PROVE  reported[q] + Within(u, q) <= reported[q] + Within(session[1], q)
        BY <1>1
    <3>1. /\ Within(u, q) <= Within(session[1], q) /\ Within(u, q) \in Nat
          /\ Within(session[1], q) \in Nat /\ reported[q] \in Nat
          BY <1>0, <2>3, <2>4, WithinNat DEF TypeOK
    <3> QED BY <3>1
  <2>7. \A q \in Requests : reported'[q] > 0 => pc'[q] = "usage"
        BY <1>0, <1>1 DEF ReportInv, ReportedOnce
  <2>8. \A i \in 1..Len(u.ready) : pc'[u.ready[i]] = "usage"
    <3> DEFINE y == session[1].ready
    <3>1. \A i \in 1..Len(y) : pc[y[i]] = "usage" BY <1>0, <2>2, ReadyHasUsage
    <3>2. y \in Seq(Requests) /\ Len(y) \in Nat BY <2>3, LenProperties DEF Sessions
    <3>3. u.ready = IF c.usage THEN Append(y, c.request) ELSE y BY <2>4
    <3> HIDE DEF y
    <3>4. CASE ~c.usage BY <1>1, <3>1, <3>3, <3>4
    <3>5. CASE c.usage
      <4> SUFFICES ASSUME NEW i \in 1..Len(u.ready) PROVE pc[u.ready[i]] = "usage" BY <1>1
      <4>1. /\ u.ready = Append(y, c.request) /\ Len(u.ready) = Len(y) + 1
            /\ \A k \in 1..Len(y) : u.ready[k] = y[k]
            /\ u.ready[Len(y) + 1] = c.request
            BY <1>3, <3>2, <3>3, <3>5, AppendProperties
      <4>2. i \in 1..Len(y) \/ i = Len(y) + 1 BY <3>2, <4>1
      <4> QED BY <1>6, <3>1, <3>5, <4>1, <4>2
    <3> QED BY <1>3, <3>4, <3>5
  <2>9. reported' \in [Requests -> Nat] /\ Len(loops') = 1
        BY <1>0, <1>1, <2>2, ReadyHasUsage DEF TypeOK
  <2>10. session' = <<u>> BY <2>1 DEF u
  <2>11. ReportInv' /\ session' \in Seq(Sessions) /\ Len(session') <= 1
         BY <1>0, <1>1, <1>5, <2>2, <2>4, <2>6, <2>7, <2>8, <2>9, <2>10, SessionShrinks
  <2>12. TypeOK' BY <1>0, <1>1, <1>4, <2>5, <2>11 DEF TypeOK, Told
  <2> QED BY <1>7, <2>5, <2>11, <2>12 DEF IInv, Told
<1>9. CASE ~(Has(session) /\ Registered(session[1], c.request) # {})
  <2>1. session' = session /\ audit' = audit /\ dropped' = dropped
        BY <1>9 DEF completion_loop, auditVars, c
  <2>2. Told BY <1>0, <1>1, <2>1, NotTold
  <2>3. TypeOK' BY <1>0, <1>1, <1>4, <2>1, <2>2 DEF TypeOK, Told
  <2>4. \A q \in Requests : Places(q)' = Places(q) /\ Places(q) \in Nat
        BY <1>0, <1>1, <2>1, PlacesIs DEF Places
  <2>5. \A q \in Requests : Places(q)' \in Nat /\ Places(q)' <= Places(q) BY <2>4
  <2>6. WaitingHasUsage'
        BY <1>0, <1>1, <1>5, <2>1 DEF ReportInv, WaitingHasUsage, CompletionsHaveUsage
  <2>7. \A q \in Requests : reported'[q] > 0 => pc'[q] = "usage"
        BY <1>0, <1>1 DEF ReportInv, ReportedOnce
  <2>8. Len(loops') = Len(session') BY <1>0, <1>1, <2>1 DEF ReportInv, ReportedOnce
  <2>9. \A q \in Requests : pc'[q] \in {"new", "resolving"} => pc[q] \in {"new", "resolving"}
        BY <1>1
  <2>10. ReportInv' BY <1>0, <2>5, <2>6, <2>7, <2>8, <2>9, ReportKept
  <2> QED BY <1>7, <2>2, <2>3, <2>10 DEF IInv, Told
<1> QED BY <1>8, <1>9

\* A loop's place changes, or the one loop there is ends.
LEMMA LoopFacts ==
    ASSUME TypeOK, ReportInv, NEW l \in DOMAIN loops
    PROVE  /\ Len(loops) = 1 /\ l = 1 /\ session # << >>
           /\ Ended(l) \in Seq(Loops) /\ Len(Ended(l)) = 0
           /\ \A place \in {"tick", "event_batch", "growthbook_eval"} : \A b \in Seq(Requests) :
                 At(l, place, b) \in Seq(Loops) /\ Len(At(l, place, b)) = 1
           /\ loops[l].batch \in Seq(Requests)
<1>1. /\ loops \in Seq(Loops) /\ Len(loops) \in Nat /\ DOMAIN loops = 1..Len(loops)
      /\ Len(loops) = Len(session) /\ Len(session) <= 1
      BY LenProperties DEF TypeOK, ReportInv, ReportedOnce
<1>2. Len(loops) = 1 /\ l = 1
  <2> DEFINE n == Len(loops)
  <2>1. n \in Nat /\ n <= 1 /\ l \in 1..n BY <1>1
  <2> HIDE DEF n
  <2>2. n = 1 /\ l = 1 BY <2>1
  <2> QED BY <2>2 DEF n
<1>3. session # << >>
  <2>1. Len(session) = 1 BY <1>1, <1>2
  <2> QED BY <2>1, EmptySeq
<1>4. Ended(l) = << >>
  <2> DEFINE n == Len(loops)
             e(i) == IF i < l THEN loops[i] ELSE loops[i + 1]
  <2>1. Ended(l) = [i \in 1..(n - 1) |-> e(i)] BY DEF Ended
  <2>2. n = 1 BY <1>2
  <2> HIDE DEF n, e
  <2>3. Ended(l) = [i \in 1..0 |-> e(i)] BY <2>1, <2>2
  <2> QED BY <2>3
<1>5. Ended(l) \in Seq(Loops) /\ Len(Ended(l)) = 0 BY <1>4, EmptySeq
<1>6. ASSUME NEW place \in {"tick", "event_batch", "growthbook_eval"}, NEW b \in Seq(Requests)
      PROVE  At(l, place, b) \in Seq(Loops) /\ Len(At(l, place, b)) = 1
  <2>1. [at |-> place, batch |-> b] \in Loops BY DEF Loops
  <2> QED BY <1>1, <1>2, <2>1, ExceptSeq DEF At
<1>7. loops[l] \in Loops BY <1>1, <1>2, ElementOfSeq
<1> QED BY <1>2, <1>3, <1>5, <1>6, <1>7 DEF Loops

\* send_telemetry returns.
LEMMA SendReturnsStep ==
    ASSUME IInv, NEW l \in DOMAIN loops, SendReturns(l) PROVE IInv'
<1>0. TypeOK /\ NotBegun /\ AuditInv /\ ReportInv BY DEF IInv
<1>1. /\ try_send(Observed(1 + Len(loops[l].batch))) /\ loops' = At(l, "tick", << >>)
      /\ UNCHANGED <<pc, enabled, guard, session, growthbook, completions, inFlight, reported>>
      BY DEF SendReturns, requestVars
<1>2. /\ loops[l].batch \in Seq(Requests) /\ << >> \in Seq(Requests) /\ Len(loops) = 1
      BY <1>0, LoopFacts, EmptySeq
<1>3. loops' \in Seq(Loops) /\ Len(loops') = 1 BY <1>0, <1>1, <1>2, LoopFacts
<1>4. 1 + Len(loops[l].batch) \in Nat BY <1>2, LenProperties
<1>5. Told BY <1>0, <1>1, <1>4, TellOthers DEF Told
<1>6. TypeOK' BY <1>0, <1>1, <1>3, <1>5 DEF TypeOK, Told
<1>7. NotBegun' BY <1>0, <1>1 DEF NotBegun
<1>8. \A q \in Requests : Places(q)' = Places(q) /\ Places(q) \in Nat
      BY <1>0, <1>1, PlacesIs DEF Places
<1>9. \A q \in Requests : Places(q)' \in Nat /\ Places(q)' <= Places(q) BY <1>8
<1>10. WaitingHasUsage' BY <1>0, <1>1 DEF ReportInv, WaitingHasUsage
<1>11. \A q \in Requests : reported'[q] > 0 => pc'[q] = "usage"
       BY <1>0, <1>1 DEF ReportInv, ReportedOnce
<1>12. Len(loops') = Len(session') BY <1>0, <1>1, <1>2, <1>3 DEF ReportInv, ReportedOnce
<1>13. \A q \in Requests : pc'[q] \in {"new", "resolving"} => pc[q] \in {"new", "resolving"}
       BY <1>1
<1>14. ReportInv' BY <1>0, <1>9, <1>10, <1>11, <1>12, <1>13, ReportKept
<1> QED BY <1>5, <1>6, <1>7, <1>14 DEF IInv, Told

\* Time passes.
LEMMA TickStep ==
    ASSUME IInv, Tick PROVE IInv'
<1>0. TypeOK /\ NotBegun /\ AuditInv /\ ReportInv BY DEF IInv
<1>1. /\ session' = [i \in DOMAIN session |-> Older(session[i])]
      /\ growthbook' = Before(growthbook)
      /\ UNCHANGED <<pc, enabled, guard, loops, completions, audit, dropped, inFlight, reported>>
      BY DEF Tick, requestVars, auditVars
<1>2. growthbook' \in Nat BY <1>0, <1>1 DEF TypeOK, Before
<1>3. Told BY <1>0, <1>1, NotTold
<1>4. NotBegun' BY <1>0, <1>1 DEF NotBegun
<1>5. CASE session = << >>
  <2>1. session' = << >> BY <1>1, <1>5
  <2>2. session' = session BY <1>5, <2>1
  <2>3. ReportInv' BY <1>0, <1>1, <2>2, ReportSame
  <2>4. TypeOK' BY <1>0, <1>1, <1>2, <1>3, <2>2 DEF TypeOK, Told
  <2> QED BY <1>3, <1>4, <2>3, <2>4 DEF IInv, Told
<1>6. CASE session # << >>
  <2>1. session[1] \in Sessions /\ Len(session) = 1 /\ session \in Seq(Sessions)
        BY <1>0, <1>6, SessionFacts DEF TypeOK
  <2>2. DOMAIN session = 1..1 BY <2>1, LenProperties
  <2> DEFINE u == Older(session[1])
  <2>3. session' = <<u>>
    <3>1. session' = [i \in 1..1 |-> Older(session[i])] BY <1>1, <2>2
    <3> QED BY <3>1
  <2>4. /\ u \in Sessions /\ u.ready = session[1].ready
        /\ \A q \in Requests : Within(u, q) <= Within(session[1], q)
        BY <2>1, OlderFacts
  <2> HIDE DEF u
  <2>5. \A q \in Requests : reported'[q] + Within(u, q) <= reported[q] + Within(session[1], q)
    <3> SUFFICES ASSUME NEW q \in Requests
                 PROVE  reported[q] + Within(u, q) <= reported[q] + Within(session[1], q)
        BY <1>1
    <3>1. /\ Within(u, q) <= Within(session[1], q) /\ Within(u, q) \in Nat
          /\ Within(session[1], q) \in Nat /\ reported[q] \in Nat
          BY <1>0, <2>1, <2>4, WithinNat DEF TypeOK
    <3> QED BY <3>1
  <2>6. \A q \in Requests : reported'[q] > 0 => pc'[q] = "usage"
        BY <1>0, <1>1 DEF ReportInv, ReportedOnce
  <2>7. \A i \in 1..Len(u.ready) : pc'[u.ready[i]] = "usage"
        BY <1>0, <1>1, <1>6, <2>4, ReadyHasUsage
  <2>8. reported' \in [Requests -> Nat] /\ Len(loops') = 1
        BY <1>0, <1>1, <1>6, ReadyHasUsage DEF TypeOK
  <2>9. CompletionsHaveUsage'
        BY <1>0, <1>1 DEF ReportInv, WaitingHasUsage, CompletionsHaveUsage
  <2>10. ReportInv' /\ session' \in Seq(Sessions) /\ Len(session') <= 1
         BY <1>0, <1>1, <1>6, <2>3, <2>4, <2>5, <2>6, <2>7, <2>8, <2>9, SessionShrinks
  <2>11. TypeOK' BY <1>0, <1>1, <1>2, <1>3, <2>10 DEF TypeOK, Told
  <2> QED BY <1>3, <1>4, <2>10, <2>11 DEF IInv, Told
<1> QED BY <1>5, <1>6

\* A tick of the loop: the time-out first, then the end of the session, a batch,
\* an evaluation or nothing.  A batch moves its completions from the session to
\* the reported ones, each of them once.
LEMMA LoopStep ==
    ASSUME IInv, NEW l \in DOMAIN loops, telemetry_loop(l) PROVE IInv'
<1>0. TypeOK /\ NotBegun /\ AuditInv /\ ReportInv BY DEF IInv
<1> DEFINE s0 == session[1]
           s == expire_stale_pending(s0)
           told == Cardinality(Stale(s0))
<1>1. UNCHANGED <<pc, enabled, guard, completions, inFlight>>
      BY DEF telemetry_loop, requestVars
<1>2. /\ Len(loops) = 1 /\ l = 1 /\ session # << >>
      /\ Ended(l) \in Seq(Loops) /\ Len(Ended(l)) = 0
      /\ \A place \in {"tick", "event_batch", "growthbook_eval"} : \A b \in Seq(Requests) :
            At(l, place, b) \in Seq(Loops) /\ Len(At(l, place, b)) = 1
      BY <1>0, LoopFacts
<1>3. s0 \in Sessions BY <1>0, <1>2, SessionFacts
<1>4. /\ s \in Sessions /\ s.ready = s0.ready /\ told \in Nat
      /\ \A q \in Requests : Within(s, q) <= Within(s0, q)
      BY <1>3, ExpiredFacts
<1>5. \/ Expire(l, s, told) \/ TakeBatch(l, s, told) \/ EvalGrowthbook(l, s, told)
      \/ Idle(l, s, told)
      BY <1>2 DEF telemetry_loop, Has
<1> HIDE DEF s, told
<1>6. NotBegun' BY <1>0, <1>1 DEF NotBegun
<1>7. CompletionsHaveUsage'
      BY <1>0, <1>1 DEF ReportInv, WaitingHasUsage, CompletionsHaveUsage
<1>8. /\ reported \in [Requests -> Nat] /\ growthbook \in Nat
      /\ \A q \in Requests : reported[q] > 0 => pc[q] = "usage"
      BY <1>0 DEF TypeOK, ReportInv, ReportedOnce
<1>9. \A i \in 1..Len(s.ready) : pc[s.ready[i]] = "usage"
      BY <1>0, <1>2, <1>4, ReadyHasUsage
<1>10. \A q \in Requests : pc'[q] \in {"new", "resolving"} => pc[q] \in {"new", "resolving"}
       BY <1>1
<1>11. \A q \in Requests : /\ reported[q] \in Nat /\ Within(s, q) \in Nat /\ Within(s0, q) \in Nat
                           /\ reported[q] + Within(s, q) <= reported[q] + Within(s0, q)
  <2> SUFFICES ASSUME NEW q \in Requests
               PROVE  /\ reported[q] \in Nat /\ Within(s, q) \in Nat /\ Within(s0, q) \in Nat
                      /\ reported[q] + Within(s, q) <= reported[q] + Within(s0, q)
      OBVIOUS
  <2>1. reported[q] \in Nat /\ Within(s, q) \in Nat /\ Within(s0, q) \in Nat
        BY <1>3, <1>4, <1>8, WithinNat
  <2>2. Within(s, q) <= Within(s0, q) BY <1>4
  <2> HIDE DEF s0
  <2> QED BY <2>1, <2>2
<1>12. GROWTHBOOK_INTERVAL \in Nat /\ EVENT_BATCH_INTERVAL \in Nat
       /\ EVENT_BATCH_MAX_COMPLETIONS \in Nat /\ Jitters \subseteq Nat
       BY TelemetryAssumption
\* The session ends.
<1>13. CASE Expire(l, s, told)
  <2>1. /\ session' = << >> /\ loops' = Ended(l) /\ try_send(Observed(told + 1))
        /\ UNCHANGED <<growthbook, reported>>
        BY <1>13 DEF Expire
  <2>2. Told BY <1>0, <1>1, <1>4, <2>1, TellOthers DEF Told
  <2>3. session' \in Seq(Sessions) /\ Len(session') = 0 BY <2>1, EmptySeq
  <2>4. loops' \in Seq(Loops) /\ Len(loops') = 0 BY <1>2, <2>1
  <2>5. TypeOK' BY <1>0, <1>1, <2>1, <2>2, <2>3, <2>4 DEF TypeOK, Told
  <2>6. ASSUME NEW q \in Requests PROVE Places(q)' \in Nat /\ Places(q)' <= Places(q)
    <3>1. Places(q)' = reported[q] BY <1>11, <2>1, PlacesNext
    <3>2. Places(q) = reported[q] + Within(s0, q) BY <1>0, <1>2, PlacesIs
    <3>3. reported[q] \in Nat /\ Within(s0, q) \in Nat BY <1>11
    <3> HIDE DEF s0
    <3> QED BY <3>1, <3>2, <3>3
  <2>7. WaitingHasUsage' BY <1>7, <2>3 DEF WaitingHasUsage, CompletionsHaveUsage
  <2>8. \A q \in Requests : reported'[q] > 0 => pc'[q] = "usage" BY <1>1, <1>8, <2>1
  <2>9. Len(loops') = Len(session') BY <2>3, <2>4
  <2>10. ReportInv' BY <1>0, <1>10, <2>6, <2>7, <2>8, <2>9, ReportKept
  <2> QED BY <1>6, <2>2, <2>5, <2>10 DEF IInv, Told
\* Nothing, or an evaluation.
<1>14. CASE EvalGrowthbook(l, s, told) \/ Idle(l, s, told)
  <2>1. /\ session' = <<s>> /\ try_send(Observed(told)) /\ reported' = reported
        /\ loops' = At(l, "growthbook_eval", << >>) \/ loops' = loops
        /\ growthbook' = GROWTHBOOK_INTERVAL \/ growthbook' = growthbook
        BY <1>14 DEF EvalGrowthbook, Idle
  <2>2. Told BY <1>0, <1>1, <1>4, <2>1, TellOthers DEF Told
  <2>3. growthbook' \in Nat BY <1>8, <1>12, <2>1
  <2>4. loops' \in Seq(Loops) /\ Len(loops') = 1
    <3>1. << >> \in Seq(Requests) BY EmptySeq
    <3>2. loops \in Seq(Loops) BY <1>0 DEF TypeOK
    <3> QED BY <1>2, <2>1, <3>1, <3>2
  <2>5. \A q \in Requests : reported'[q] + Within(s, q) <= reported[q] + Within(session[1], q)
        BY <1>11, <2>1
  <2>6. \A q \in Requests : reported'[q] > 0 => pc'[q] = "usage" BY <1>1, <1>8, <2>1
  <2>7. \A i \in 1..Len(s.ready) : pc'[s.ready[i]] = "usage" BY <1>1, <1>9
  <2>8. reported' \in [Requests -> Nat] BY <1>8, <2>1
  <2>9. ReportInv' /\ session' \in Seq(Sessions) /\ Len(session') <= 1
        BY <1>0, <1>2, <1>4, <1>7, <1>10, <2>1, <2>4, <2>5, <2>6, <2>7, <2>8, SessionShrinks
  <2>10. TypeOK' BY <1>0, <1>1, <2>2, <2>3, <2>4, <2>8, <2>9 DEF TypeOK, Told
  <2> QED BY <1>6, <2>2, <2>9, <2>10 DEF IInv, Told
\* A batch.
<1>15. CASE TakeBatch(l, s, told)
  <2> DEFINE y == s.ready
             n == Smaller(EVENT_BATCH_MAX_COMPLETIONS, Len(y))
             b == SubSeq(y, 1, n)
             t == SubSeq(y, n + 1, Len(y))
  <2>1. /\ \E j \in Jitters :
              session' = <<[s EXCEPT !.ready = t, !.batchIn = EVENT_BATCH_INTERVAL, !.jitter = j]>>
        /\ loops' = At(l, "event_batch", b)
        /\ reported' = [r \in Requests |->
              reported[r] + Cardinality(Successes(build_event_batch(b), r))]
        /\ try_send(Observed(told)) /\ growthbook' = growthbook
    <3>1. s.ready = y BY DEF y
    <3> QED BY <1>4, <1>15, <3>1 DEF TakeBatch, Sessions
  <2>2. y \in Seq(Requests) /\ Len(y) \in Nat BY <1>4, LenProperties DEF Sessions
  <2>3. n \in 0..Len(y) BY <1>12, <2>2 DEF Smaller
  <2> HIDE DEF n
  <2>4. /\ b \in Seq(Requests) /\ t \in Seq(Requests)
        /\ \A q : Among(y, Len(y), q) = Among(b, Len(b), q) + Among(t, Len(t), q)
        /\ \A i \in 1..Len(b) : \E j \in 1..Len(y) : b[i] = y[j]
        /\ \A i \in 1..Len(t) : \E j \in 1..Len(y) : t[i] = y[j]
        BY <2>2, <2>3, BatchFacts
  <2> HIDE DEF b, t
  <2>5. PICK j \in Jitters :
           session' = <<[s EXCEPT !.ready = t, !.batchIn = EVENT_BATCH_INTERVAL, !.jitter = j]>>
        BY <2>1
  <2> DEFINE u == [s EXCEPT !.ready = t, !.batchIn = EVENT_BATCH_INTERVAL, !.jitter = j]
  <2>6. u \in Sessions /\ u.ready = t /\ u.pending = s.pending /\ session' = <<u>>
        BY <1>4, <1>12, <2>4, <2>5 DEF Sessions
  <2> HIDE DEF u, y
  <2>7. ASSUME NEW q \in Requests
        PROVE  /\ reported'[q] = reported[q] + Among(b, Len(b), q)
               /\ Among(b, Len(b), q) \in Nat
    <3>1. Cardinality(Successes(build_event_batch(b), q)) = Among(b, Len(b), q)
          BY <2>4, SuccessCount
    <3>2. Len(b) \in Nat BY <2>4, LenProperties
    <3> QED BY <2>1, <3>1, <3>2, AmongNat
  <2>8. ASSUME NEW q \in Requests
        PROVE  reported'[q] + Within(u, q) = reported[q] + Within(s, q)
    <3> DEFINE a == Cardinality(Registered(s, q))  k == Among(b, Len(b), q)
               m == Among(t, Len(t), q)  w == Among(y, Len(y), q)
    <3>1. Registered(u, q) = Registered(s, q) BY <2>6 DEF Registered
    <3>2. Within(u, q) = a + m BY <2>6, <3>1 DEF Within
    <3>3. Within(s, q) = a + w BY DEF Within, y
    <3>4. a \in Nat /\ k \in Nat /\ m \in Nat
      <4>1. Len(t) \in Nat BY <2>4, LenProperties
      <4> QED BY <1>4, <2>7, <4>1, WithinNat, AmongNat
    <3>5. w = k + m BY <2>4
    <3>6. reported'[q] = reported[q] + k /\ reported[q] \in Nat BY <1>11, <2>7
    <3> HIDE DEF a, k, m, w
    <3> QED BY <3>2, <3>3, <3>4, <3>5, <3>6
  <2>9. \A q \in Requests : reported'[q] + Within(u, q) <= reported[q] + Within(session[1], q)
        BY <1>11, <2>8
  <2>10. reported' \in [Requests -> Nat]
    <3>1. \A q \in Requests : Cardinality(Successes(build_event_batch(b), q)) \in Nat
          BY <2>4, <2>7, SuccessCount
    <3> QED BY <1>8, <2>1, <3>1
  <2>11. ASSUME NEW q \in Requests, reported'[q] > 0 PROVE pc'[q] = "usage"
    <3>1. CASE reported[q] > 0 BY <1>1, <1>8, <3>1
    <3>2. CASE ~(reported[q] > 0)
      <4>1. Among(b, Len(b), q) # 0 BY <1>11, <2>7, <2>11, <3>2
      <4>2. Hits(b, Len(b), q) # {} BY <4>1, FS_EmptySet DEF Among
      <4>3. PICK i \in 1..Len(b) : b[i] = q BY <4>2 DEF Hits
      <4>4. PICK h \in 1..Len(y) : b[i] = y[h] BY <2>4, <4>3
      <4> QED BY <1>1, <1>9, <4>3, <4>4 DEF y
    <3> QED BY <3>1, <3>2
  <2>12. \A i \in 1..Len(u.ready) : pc'[u.ready[i]] = "usage"
         BY <1>1, <1>9, <2>4, <2>6 DEF y
  <2>13. loops' \in Seq(Loops) /\ Len(loops') = 1 BY <1>2, <2>1, <2>4
  <2>14. Told BY <1>0, <1>1, <1>4, <2>1, TellOthers DEF Told
  <2>15. ReportInv' /\ session' \in Seq(Sessions) /\ Len(session') <= 1
         BY <1>0, <1>2, <1>7, <1>10, <2>6, <2>9, <2>10, <2>11, <2>12, <2>13, SessionShrinks
  <2>16. TypeOK' BY <1>0, <1>1, <2>1, <2>10, <2>13, <2>14, <2>15 DEF TypeOK, Told
  <2> QED BY <1>6, <2>14, <2>15, <2>16 DEF IInv, Told
<1> QED BY <1>5, <1>13, <1>14, <1>15
--------------------------------------------------------------------------------
(***************************************************************************)
(* The theorems.                                                            *)
(***************************************************************************)
\* The inductive invariant holds in every reachable state.
THEOREM Invariance == Spec => []IInv
<1>1. Init => IInv
  <2> SUFFICES ASSUME Init PROVE IInv OBVIOUS
  <2> USE DEF Init
  <2>1. TypeOK
    <3>1. pc \in [Requests -> PCs] BY DEF PCs
    <3>2. /\ session \in Seq(Sessions) /\ Len(session) <= 1 /\ loops \in Seq(Loops)
          /\ completions \in Seq([request : Requests, usage : BOOLEAN])
          /\ audit \in Seq(Messages) /\ Len(audit) <= AUDIT_QUEUE_CAPACITY
          BY EmptySeq, TelemetryAssumption
    <3> QED BY <3>1, <3>2 DEF TypeOK
  <2>2. NotBegun BY DEF NotBegun
  <2>3. Len(audit) = 0 /\ Among(audit, 0, "end") = 0 /\ Among(audit, 0, "request") = 0
        BY AmongNone, EmptySeq
  <2>4. NoDebt
    <3> SUFFICES ASSUME NEW n \in 0..Len(audit)
                 PROVE  Among(audit, n, "end") <= inFlight + Among(audit, n, "request")
        BY DEF NoDebt
    <3>1. n = 0 BY <2>3
    <3> QED BY <2>3, <3>1
  <2>5. InFlightCovers
    <3>1. Guarded = {} BY DEF Guarded
    <3>2. Cardinality(Guarded) = 0 BY <3>1, FS_EmptySet
    <3>3. Known = 0 BY <2>3 DEF Known
    <3> QED BY <2>1, <3>2, <3>3, CoversIs DEF TypeOK
  <2>6. \A q \in Requests : Places(q) = 0 BY DEF Places, Has
  <2>7. NotRegistered BY <2>6 DEF NotRegistered
  <2>8. WaitingHasUsage
    <3>1. Len(completions) = 0 /\ Len(session) = 0 BY EmptySeq
    <3> QED BY <3>1 DEF WaitingHasUsage
  <2>9. ReportedOnce BY <2>6 DEF ReportedOnce
  <2> QED BY <2>1, <2>2, <2>4, <2>5, <2>7, <2>8, <2>9 DEF IInv, AuditInv, ReportInv
<1>2. IInv /\ [Next]_vars => IInv'
  <2> SUFFICES ASSUME IInv, [Next]_vars PROVE IInv' OBVIOUS
  <2>1. ASSUME UNCHANGED vars PROVE IInv'
    <3>1. UNCHANGED <<pc, enabled, guard, session, loops, growthbook, completions, audit,
                      dropped, inFlight, reported>>
          BY <2>1 DEF vars, requestVars, auditVars
    <3>2. Told BY <3>1, NotTold DEF IInv
    <3>3. TypeOK' BY <3>1 DEF IInv, TypeOK
    <3>4. NotBegun' BY <3>1 DEF IInv, NotBegun
    <3>5. ReportInv' BY <3>1, ReportSame DEF IInv
    <3> QED BY <3>2, <3>3, <3>4, <3>5 DEF IInv, Told
  <2>2. ASSUME NEW r \in Requests, Handler(r) PROVE IInv'
        BY <2>2, GatewayStep, ActivateStep, CancelStep, CompletionStep DEF Handler
  <2>3. ASSUME Loop PROVE IInv'
        BY <2>3, LoopStep, SendReturnsStep DEF Loop
  <2> QED BY <2>1, <2>2, <2>3, AuditOnlyStep, ObservedStep, TickStep DEF Next
<1> QED BY <1>1, <1>2, PTL DEF Spec

\* The variables of Telemetry keep their types, and the audit queue its bound.
THEOREM TypeCorrect == Spec => []TypeOK
<1>1. IInv => TypeOK BY DEF IInv
<1> QED BY <1>1, Invariance, PTL

\* Every request is reported at most once, and only with usage, whoever ends its
\* registration and in whichever order; there is one loop for each session.
THEOREM AlwaysReportedOnce == Spec => []ReportedOnce
<1>1. IInv => ReportedOnce BY DEF IInv, ReportInv
<1> QED BY <1>1, Invariance, PTL

\* The audit's number of requests in flight never falls short of the requests
\* that run, and is exact as long as the audit has dropped nothing.
THEOREM InFlightAlwaysCovers == Spec => []InFlightCovers
<1>1. IInv => InFlightCovers BY DEF IInv, AuditInv
<1> QED BY <1>1, Invariance, PTL

\* No end reaches the audit worker before its request: the saturating
\* subtraction in apply_message never cuts off.
THEOREM EndsFollowRequests == Spec => []NoDebt
<1>1. IInv => NoDebt BY DEF IInv, AuditInv
<1> QED BY <1>1, Invariance, PTL
================================================================================
