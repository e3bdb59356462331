------------------------------ MODULE StoreProofs -----------------------------
(***************************************************************************)
(* Proofs about what the gateway processes share through a store.           *)
(*                                                                          *)
(* UsageLedger and UsageObserver, the way of usage from the body of a       *)
(* response to the ledger: for every finite set of attempts, any number of  *)
(* processes, keys and price lists, every capacity, batch size and number   *)
(* of retries, and for all bodies, encodings and limits.                    *)
(*                                                                          *)
(* RedisSlots: what is left of the concurrency limit, for any number of     *)
(* requests, any limit and any failures, also when the counter expires      *)
(* under running requests.                                                  *)
(*                                                                          *)
(* OAuthRefresh: the refresh lock, for every set of callers and every       *)
(* duration.  It excludes because the time a holder has been at work and    *)
(* what remains of its lock add up to LockTTL, until the lock is over.      *)
(***************************************************************************)
EXTENDS OAuthRefresh, RedisSlots, UsageLedger, UsageObserver, FiniteSetTheorems,
        SequenceTheorems, TLAPS

(***************************************************************************)
(* Usage, from the body to the ledger.                                      *)
(***************************************************************************)
\* An event that a queue or a batch holds has been sent; row ids have been
\* given out.
OnTheWay ==
    /\ \A i \in Instances : \A a \in Elems(queue[i]) : fate[a] \notin {"none", "sending"}
    /\ \A i \in Instances : \A a \in Elems(batch[i]) : fate[a] \notin {"none", "sending"}
Numbered == \A k \in Keys : rowId[k] <= lastId

\* Conservation is inductive only with OnTheWay: a queued event that were still
\* counted as in flight would leave two terms of the sum at once.
IInv == TypeOK /\ Numbered /\ OnTheWay /\ Conservation /\ StoredEventsHaveRows
-------------------------------------------------------------------------------
\* The least element of a set of natural numbers.
LEMMA Least ==
    ASSUME NEW T \in SUBSET Nat, T # {}
    PROVE  \E x \in T : \A y \in T : x <= y
<1> DEFINE R == OpToRel(<, Nat)
<1>1. IsWellFoundedOn(R, Nat) BY NatLessThanWellFounded, Zenon
<1> HIDE DEF R
<1>2. PICK x \in T : \A y \in T : ~ (<<y, x>> \in R) BY <1>1, WFMin
<1> USE DEF R
<1>3. \A y \in T : ~(y < x) BY <1>2, Zenon DEF OpToRel
<1> QED BY <1>3

\* The greatest element of a set of natural numbers with a bound.
LEMMA Greatest ==
    ASSUME NEW n \in Nat, NEW T \in SUBSET (0..n), T # {}
    PROVE  \E x \in T : \A y \in T : y <= x
<1> DEFINE U == {k \in 0..n : n - k \in T}
<1>1. PICK t \in T : TRUE OBVIOUS
<1>2. t \in 0..n /\ n - t \in 0..n /\ n - (n - t) = t OBVIOUS
<1>3. U \in SUBSET Nat /\ n - t \in U BY <1>2
<1>4. PICK u \in U : \A y \in U : u <= y BY <1>3, Least
<1>5. ASSUME NEW y \in T PROVE y <= n - u
  <2>1. y \in 0..n /\ n - y \in 0..n /\ n - (n - y) = y OBVIOUS
  <2>2. u <= n - y /\ u \in 0..n BY <1>4, <2>1
  <2> QED BY <2>1, <2>2
<1> QED BY <1>4, <1>5
-------------------------------------------------------------------------------
(***************************************************************************)
(* Batches: what Append, Head and Tail do to the events they hold, how many *)
(* keys they have, and which event of a key comes first.                    *)
(***************************************************************************)
\* A batch holds what it held and the event that joined.
LEMMA AppendElems ==
    ASSUME NEW s \in Seq(Attempts), NEW a \in Attempts
    PROVE  /\ Append(s, a) \in Seq(Attempts) /\ Len(Append(s, a)) = Len(s) + 1
           /\ Elems(Append(s, a)) = Elems(s) \cup {a}
<1>1. /\ Append(s, a) \in Seq(Attempts) /\ Len(Append(s, a)) = Len(s) + 1
      /\ \A j \in 1..Len(s) : Append(s, a)[j] = s[j]
      /\ Append(s, a)[Len(s) + 1] = a /\ Len(s) \in Nat
      BY AppendProperties, LenProperties
<1>2. 1..(Len(s) + 1) = 1..Len(s) \cup {Len(s) + 1} BY <1>1
<1>3. Elems(Append(s, a)) \subseteq Elems(s) \cup {a} BY <1>1, <1>2 DEF Elems
<1>4. Elems(s) \cup {a} \subseteq Elems(Append(s, a)) BY <1>1, <1>2 DEF Elems
<1> QED BY <1>1, <1>3, <1>4

\* Receiving takes one event out of the queue.
LEMMA TailElems ==
    ASSUME NEW s \in Seq(Attempts), s # <<>>
    PROVE  /\ Tail(s) \in Seq(Attempts) /\ Len(Tail(s)) = Len(s) - 1
           /\ Elems(Tail(s)) \subseteq Elems(s)
           /\ Head(s) \in Elems(s) /\ Head(s) \in Attempts
<1>1. /\ Tail(s) \in Seq(Attempts) /\ Len(Tail(s)) = Len(s) - 1
      /\ \A j \in 1..Len(Tail(s)) : Tail(s)[j] = s[j + 1]
      /\ Len(s) \in Nat \ {0} /\ Head(s) \in Attempts
      BY HeadTailProperties, EmptySeq
<1>2. Elems(Tail(s)) \subseteq Elems(s)
  <2> SUFFICES ASSUME NEW j \in 1..Len(Tail(s)) PROVE Tail(s)[j] \in Elems(s)
      BY DEF Elems
  <2>1. j + 1 \in 1..Len(s) BY <1>1
  <2> QED BY <1>1, <2>1 DEF Elems
<1>3. Head(s) = s[1] /\ 1 \in 1..Len(s) BY <1>1
<1> QED BY <1>1, <1>2, <1>3 DEF Elems

\* An empty queue or batch holds nothing.
LEMMA EmptyElems ==
    /\ <<>> \in Seq(Attempts) /\ Len(<<>>) = 0 /\ Elems(<<>>) = {}
<1>1. <<>> \in Seq(Attempts) /\ Len(<<>>) = 0 BY EmptySeq
<1> QED BY <1>1 DEF Elems

\* What a sequence of attempts holds are attempts.
LEMMA ElemsType ==
    ASSUME NEW s \in Seq(Attempts) PROVE Elems(s) \subseteq Attempts
BY ElementOfSeq DEF Elems

\* A batch has no more new keys than events.
LEMMA NewKeysCount ==
    ASSUME NEW b \in Seq(Attempts)
    PROVE  /\ Cardinality(NewKeys(b)) \in Nat
           /\ Cardinality(NewKeys(b)) <= Len(b)
<1> DEFINE f == [j \in 1..Len(b) |-> Key[b[j]]]
<1>1. Len(b) \in Nat BY LenProperties
<1>2. f \in [1..Len(b) -> KeysOf(b)] BY DEF KeysOf, Elems
<1>3. \A k \in KeysOf(b) : \E j \in 1..Len(b) : f[j] = k BY DEF KeysOf, Elems
<1>4. f \in Surjection(1..Len(b), KeysOf(b)) BY <1>2, <1>3 DEF Surjection
<1>5. IsFiniteSet(1..Len(b)) /\ Cardinality(1..Len(b)) = Len(b)
  <2>1. 1 \in Int /\ Len(b) \in Int BY <1>1
  <2>2. /\ IsFiniteSet(1..Len(b))
        /\ Cardinality(1..Len(b)) = IF 1 > Len(b) THEN 0 ELSE Len(b) - 1 + 1
    BY <2>1, FS_Interval, Zenon
  <2> QED BY <1>1, <2>2
<1>6. IsFiniteSet(KeysOf(b)) /\ Cardinality(KeysOf(b)) <= Len(b)
      BY <1>4, <1>5, FS_Surjection
<1>7. NewKeys(b) \in SUBSET KeysOf(b) BY DEF NewKeys
<1>8. /\ IsFiniteSet(NewKeys(b)) /\ Cardinality(NewKeys(b)) <= Cardinality(KeysOf(b))
      BY <1>6, <1>7, FS_Subset
<1>9. Cardinality(NewKeys(b)) \in Nat /\ Cardinality(KeysOf(b)) \in Nat
      BY <1>6, <1>8, FS_CardinalityType
<1> QED BY <1>1, <1>6, <1>8, <1>9

\* Every key of a batch has a first event.
LEMMA FirstFacts ==
    ASSUME NEW b \in Seq(Attempts), NEW k \in KeysOf(b)
    PROVE  /\ First(b, k) \in 1..Len(b)
           /\ b[First(b, k)] \in Attempts
           /\ Key[b[First(b, k)]] = k
<1> DEFINE T == {j \in 1..Len(b) : Key[b[j]] = k}
<1>1. Len(b) \in Nat BY LenProperties
<1>2. T \in SUBSET Nat /\ T # {} BY <1>1 DEF KeysOf, Elems
<1>3. PICK j \in T : \A h \in T : j <= h BY <1>2, Least
<1>4. \A h \in 1..(j - 1) : Key[b[h]] # k BY <1>1, <1>3
<1>5. \E m \in 1..Len(b) : Key[b[m]] = k /\ \A h \in 1..(m - 1) : Key[b[h]] # k
      BY <1>3, <1>4
<1>6. First(b, k) \in 1..Len(b) /\ Key[b[First(b, k)]] = k BY <1>5 DEF First
<1>7. b[First(b, k)] \in Attempts BY <1>6, ElementOfSeq
<1> QED BY <1>6, <1>7
-------------------------------------------------------------------------------
\* insert_batch adds rows for the new keys of the batch and leaves the others:
\* afterwards every key of the batch has a row, made from an event of that key.
LEMMA InsertFacts ==
    ASSUME TypeOK, Numbered, NEW i \in Instances, insert_batch(batch[i])
    PROVE  /\ rowOf' \in [Keys -> Attempts \cup {None}]
           /\ rowCost' \in [Keys -> Versions \cup {Unpriced}]
           /\ rowId' \in [Keys -> Nat] /\ lastId' \in Nat
           /\ Numbered'
           /\ \A k \in Keys : \/ (rowOf'[k] = rowOf[k] /\ rowCost'[k] = rowCost[k])
                             \/ (/\ rowOf[k] = None /\ rowOf'[k] \in Attempts
                                 /\ Key[rowOf'[k]] = k)
           /\ \A k \in KeysOf(batch[i]) : rowOf'[k] # None
<1> DEFINE b == batch[i]
<1>0. /\ b \in Seq(Attempts) /\ cost \in [Attempts -> Versions \cup {Unpriced}]
      /\ rowOf \in [Keys -> Attempts \cup {None}] /\ lastId \in Nat
      /\ rowCost \in [Keys -> Versions \cup {Unpriced}] /\ rowId \in [Keys -> Nat]
      BY DEF TypeOK
<1>1. Len(b) \in Nat BY <1>0, LenProperties
<1>2. Elems(b) \subseteq Attempts BY <1>0, ElemsType
<1>3. KeysOf(b) \subseteq Keys BY <1>2, KeyAssumption DEF KeysOf
<1>4. \A k \in NewKeys(b) : k \in KeysOf(b) /\ rowOf[k] = None
      BY <1>3 DEF NewKeys, Stored
<1>5. \A k \in NewKeys(b) : /\ First(b, k) \in 1..Len(b)
                             /\ b[First(b, k)] \in Attempts
                             /\ Key[b[First(b, k)]] = k
      BY <1>0, <1>4, FirstFacts
<1> HIDE DEF b
<1>6. /\ rowOf' = [k \in Keys |-> IF k \in NewKeys(b) THEN b[First(b, k)] ELSE rowOf[k]]
      /\ rowCost' = [k \in Keys |-> IF k \in NewKeys(b) THEN cost[b[First(b, k)]]
                                                       ELSE rowCost[k]]
      /\ rowId' = [k \in Keys |-> IF k \in NewKeys(b) THEN lastId + First(b, k)
                                                     ELSE rowId[k]]
      /\ lastId' = lastId + Len(b)
      BY DEF insert_batch, b
<1>7. rowOf' \in [Keys -> Attempts \cup {None}] BY <1>0, <1>5, <1>6
<1>8. rowCost' \in [Keys -> Versions \cup {Unpriced}] BY <1>0, <1>5, <1>6
<1>9. \A k \in NewKeys(b) : lastId + First(b, k) \in Nat /\ lastId + First(b, k) <= lastId'
      BY <1>0, <1>1, <1>5, <1>6
<1>10. rowId' \in [Keys -> Nat] BY <1>0, <1>6, <1>9
<1>11. lastId' \in Nat BY <1>0, <1>1, <1>6
<1>12. Numbered'
  <2> SUFFICES ASSUME NEW k \in Keys PROVE rowId'[k] <= lastId'
      BY DEF Numbered
  <2>1. CASE k \in NewKeys(b) BY <1>6, <1>9, <2>1
  <2>2. CASE k \notin NewKeys(b)
    <3>1. rowId'[k] = rowId[k] /\ rowId[k] <= lastId /\ rowId[k] \in Nat
          BY <1>0, <1>6, <2>2 DEF Numbered
    <3> QED BY <1>0, <1>1, <1>6, <3>1
  <2> QED BY <2>1, <2>2
<1>13. \A k \in Keys : \/ (rowOf'[k] = rowOf[k] /\ rowCost'[k] = rowCost[k])
                       \/ (/\ rowOf[k] = None /\ rowOf'[k] \in Attempts
                           /\ Key[rowOf'[k]] = k)
       BY <1>4, <1>5, <1>6
<1>14. \A k \in KeysOf(b) : rowOf'[k] # None
  <2> SUFFICES ASSUME NEW k \in KeysOf(b) PROVE rowOf'[k] # None
      OBVIOUS
  <2>1. CASE k \in NewKeys(b) BY <1>3, <1>5, <1>6, <2>1, NoneAssumption
  <2>2. CASE k \notin NewKeys(b) BY <1>3, <1>6, <2>2 DEF NewKeys, Stored
  <2> QED BY <2>1, <2>2
<1> QED BY <1>7, <1>8, <1>10, <1>11, <1>12, <1>13, <1>14 DEF b

\* The page position of a backfill: the last id of a page that is not empty.
LEMMA PageFacts ==
    ASSUME TypeOK, Numbered, NEW i \in Instances, Unseen(i) # {}
    PROVE  (CHOOSE n \in {rowId[k] : k \in NextPage(i)} :
               \A k \in NextPage(i) : rowId[k] <= n) \in Nat
<1>0. rowId \in [Keys -> Nat] /\ lastId \in Nat BY DEF TypeOK
<1>1. Unseen(i) \subseteq Keys /\ NextPage(i) \subseteq Unseen(i)
      BY DEF Unseen, Stored, NextPage
<1>2. PICK n \in {rowId[k] : k \in Unseen(i)} : \A m \in {rowId[k] : k \in Unseen(i)} : n <= m
  <2>1. {rowId[k] : k \in Unseen(i)} \in SUBSET Nat BY <1>0, <1>1
  <2>2. {rowId[k] : k \in Unseen(i)} # {} OBVIOUS
  <2> QED BY <2>1, <2>2, Least
<1>3. PICK k \in Unseen(i) : n = rowId[k] BY <1>2
<1>4. {l \in Unseen(i) : rowId[l] < rowId[k]} = {} BY <1>0, <1>1, <1>2, <1>3
<1>5. k \in NextPage(i)
  <2>1. Cardinality({l \in Unseen(i) : rowId[l] < rowId[k]}) = 0
        BY <1>4, FS_EmptySet, Zenon
  <2>2. 0 < PageSize BY LedgerAssumption
  <2> QED BY <1>3, <2>1, <2>2 DEF NextPage
<1> DEFINE T == {rowId[l] : l \in NextPage(i)}
<1>6. T \in SUBSET (0..lastId)
  <2>1. \A l \in NextPage(i) : rowId[l] \in Nat /\ rowId[l] <= lastId
        BY <1>0, <1>1 DEF Numbered
  <2> QED BY <1>0, <2>1
<1>7. PICK x \in T : \A y \in T : y <= x BY <1>0, <1>5, <1>6, Greatest
<1>8. \E x_1 \in T : \A l \in NextPage(i) : rowId[l] <= x_1 BY <1>7
<1>9. (CHOOSE m \in T : \A l \in NextPage(i) : rowId[l] <= m) \in T BY <1>8
<1>10. T \subseteq Nat BY <1>0, <1>6
<1> QED BY <1>9, <1>10, Zenon

\* What EndBatch does to the types.
LEMMA EndBatchType ==
    ASSUME TypeOK, NEW i \in Instances, NEW f \in Fates, EndBatch(i, f)
    PROVE  /\ fate' \in [Attempts -> Fates] /\ batch' \in [Instances -> Seq(Attempts)]
           /\ wpc' \in [Instances -> {"idle", "collecting", "writing"}]
           /\ retry' \in [Instances -> 0..MaxRetry]
BY EmptyElems, LedgerAssumption DEF TypeOK, EndBatch
-------------------------------------------------------------------------------
\* Every step keeps the types and the numbering of the rows.
LEMMA TypeStep ==
    ASSUME TypeOK, Numbered, [Next]_vars PROVE TypeOK' /\ Numbered'
<1>h. inst \in [Attempts -> Instances \cup {None}] BY NoneAssumption DEF TypeOK
<1>p. \A a \in Attempts, v \in Versions : price(a, v) \in Versions \cup {Unpriced}
      BY DEF price
<1>f. Fates = {"none", "sending", "queued", "batched", "stored", "dropped", "failed",
               "lost"}
      BY DEF Fates
<1> USE DEF eventvars, writervars, counters, refreshvars, rowvars
<1>1. ASSUME NEW a \in Attempts, Observe(a) PROVE TypeOK' /\ Numbered'
  <2>1. inst[a] \in Instances BY <1>1, <1>h DEF Observe
  <2>2. price(a, pricing[inst[a]]) \in Versions \cup {Unpriced}
        BY <1>p, <2>1 DEF TypeOK
  <2>3. /\ fate' \in [Attempts -> Fates] /\ cost' \in [Attempts -> Versions \cup {Unpriced}]
        /\ observed' \in [Instances -> Nat]
    <3>1. fate' \in [Attempts -> Fates] BY <1>1, <1>f DEF Observe, TypeOK
    <3>2. cost' \in [Attempts -> Versions \cup {Unpriced}]
          BY <1>1, <2>2 DEF Observe, TypeOK
    <3>3. observed' \in [Instances -> Nat] BY <1>1, <2>1 DEF Observe, TypeOK
    <3> QED BY <3>1, <3>2, <3>3
  <2> QED BY <1>1, <2>3 DEF Observe, TypeOK, Numbered
<1>2. ASSUME NEW a \in Attempts, Send(a) PROVE TypeOK' /\ Numbered'
  <2>1. /\ fate' \in [Attempts -> Fates] /\ dropped' \in [Instances -> Nat]
    <3>0. /\ fate \in [Attempts -> Fates]
          /\ \/ fate' = [fate EXCEPT ![a] = "queued"]
             \/ fate' = [fate EXCEPT ![a] = "dropped"]
          BY <1>2 DEF Send, try_send, TypeOK
    <3>1. fate' \in [Attempts -> Fates] BY <3>0, <1>f
    <3>2. dropped \in [Instances -> Nat] BY DEF TypeOK
    <3>3. dropped' = dropped \/ dropped' = [dropped EXCEPT ![inst[a]] = @ + 1]
          BY <1>2 DEF Send, try_send
    <3>4. inst[a] \in Instances \/ inst[a] \notin Instances OBVIOUS
    <3>5. dropped' \in [Instances -> Nat] BY <3>2, <3>3, <3>4
    <3> QED BY <3>1, <3>5
  <2>2. queue' \in [Instances -> Seq(Attempts)]
    <3>1. CASE queue' = queue BY <3>1 DEF TypeOK
    <3>2. CASE queue' = [queue EXCEPT ![inst[a]] = Append(@, a)]
      <4>1. \A i \in Instances : Append(queue[i], a) \in Seq(Attempts)
            BY AppendElems DEF TypeOK
      <4> QED BY <3>2, <4>1 DEF TypeOK
    <3> QED BY <1>2, <3>1, <3>2 DEF Send, try_send
  <2> QED BY <1>2, <2>1, <2>2 DEF Send, TypeOK, Numbered
<1>3. ASSUME NEW i \in Instances, Recv(i) PROVE TypeOK' /\ Numbered'
  <2>1. queue[i] \in Seq(Attempts) /\ queue[i] # <<>> /\ batch[i] \in Seq(Attempts)
        BY <1>3 DEF Recv, TypeOK
  <2>2. Head(queue[i]) \in Attempts /\ Tail(queue[i]) \in Seq(Attempts)
        BY <2>1, TailElems
  <2>3. Append(batch[i], Head(queue[i])) \in Seq(Attempts) BY <2>1, <2>2, AppendElems
  <2>4. /\ fate' \in [Attempts -> Fates]
        /\ wpc' \in [Instances -> {"idle", "collecting", "writing"}]
        BY <1>3, <1>f DEF Recv, TypeOK
  <2>5. /\ queue' \in [Instances -> Seq(Attempts)] /\ batch' \in [Instances -> Seq(Attempts)]
        BY <1>3, <2>2, <2>3 DEF Recv, TypeOK
  <2> QED BY <1>3, <2>4, <2>5 DEF Recv, TypeOK, Numbered
<1>4. ASSUME NEW i \in Instances, CloseBatch(i) PROVE TypeOK' /\ Numbered'
  <2>1. cost' \in [Attempts -> Versions \cup {Unpriced}]
        BY <1>4, <1>p DEF CloseBatch, TypeOK
  <2>2. /\ wpc' \in [Instances -> {"idle", "collecting", "writing"}]
        /\ retry' \in [Instances -> 0..MaxRetry]
        BY <1>4, LedgerAssumption DEF CloseBatch, TypeOK
  <2> QED BY <1>4, <2>1, <2>2 DEF CloseBatch, TypeOK, Numbered
<1>5. ASSUME NEW i \in Instances, InsertOk(i) PROVE TypeOK' /\ Numbered'
  <2>1. batch[i] \in Seq(Attempts) BY DEF TypeOK
  <2>2. /\ Cardinality(NewKeys(batch[i])) \in Nat /\ Len(batch[i]) \in Nat
        /\ Cardinality(NewKeys(batch[i])) <= Len(batch[i])
        BY <2>1, NewKeysCount, LenProperties
  <2>3. persisted' \in [Instances -> Nat] BY <1>5, <2>2 DEF InsertOk, TypeOK
  <2>4. duplicate' \in [Instances -> Nat]
    <3>1. Len(batch[i]) - Cardinality(NewKeys(batch[i])) \in Nat BY <2>2
    <3> QED BY <1>5, <3>1 DEF InsertOk, TypeOK
  <2>5. insert_batch(batch[i]) /\ EndBatch(i, "stored") BY <1>5 DEF InsertOk
  <2> QED BY <1>5, <1>f, <2>3, <2>4, <2>5, InsertFacts, EndBatchType DEF InsertOk, TypeOK
<1>6. ASSUME NEW i \in Instances, InsertError(i) PROVE TypeOK' /\ Numbered'
  <2>1. /\ rowOf' \in [Keys -> Attempts \cup {None}]
        /\ rowCost' \in [Keys -> Versions \cup {Unpriced}]
        /\ rowId' \in [Keys -> Nat] /\ lastId' \in Nat /\ Numbered'
    <3>1. CASE insert_batch(batch[i]) BY <3>1, InsertFacts
    <3>2. CASE UNCHANGED rowvars BY <3>2 DEF TypeOK, Numbered
    <3> QED BY <1>6, <3>1, <3>2 DEF InsertError
  <2>2. /\ fate' \in [Attempts -> Fates] /\ batch' \in [Instances -> Seq(Attempts)]
        /\ wpc' \in [Instances -> {"idle", "collecting", "writing"}]
        /\ retry' \in [Instances -> 0..MaxRetry] /\ failed' \in [Instances -> Nat]
    <3>1. CASE GiveUp(i)
      <4>1. batch[i] \in Seq(Attempts) BY DEF TypeOK
      <4>2. Len(batch[i]) \in Nat BY <4>1, LenProperties
      <4>3. failed' = [failed EXCEPT ![i] = @ + Len(batch[i])] /\ EndBatch(i, "failed")
            BY <1>6, <3>1 DEF InsertError
      <4>4. failed \in [Instances -> Nat] BY DEF TypeOK
      <4>5. failed' \in [Instances -> Nat] BY <4>2, <4>3, <4>4
      <4> QED BY <1>f, <4>3, <4>5, EndBatchType
    <3>2. CASE ~GiveUp(i)
      <4>1. retry' = [retry EXCEPT ![i] = @ + 1] /\ UNCHANGED <<fate, batch, wpc, failed>>
            BY <1>6, <3>2 DEF InsertError
      <4>2. retry \in [Instances -> 0..MaxRetry] /\ MaxRetry \in Nat
            BY LedgerAssumption DEF TypeOK
      <4>3. retry[i] + 1 \in 0..MaxRetry BY <3>2, <4>2 DEF GiveUp
      <4>4. retry' \in [Instances -> 0..MaxRetry] BY <4>1, <4>2, <4>3
      <4> QED BY <4>1, <4>4 DEF TypeOK
    <3> QED BY <3>1, <3>2
  <2> QED BY <1>6, <2>1, <2>2 DEF InsertError, TypeOK
<1>7. ASSUME NEW i \in Instances, NEW v \in Served[i], FetchPricing(i, v)
      PROVE  TypeOK' /\ Numbered'
  <2>1. v \in Versions BY VersionsAssumption
  <2> QED BY <1>7, <2>1 DEF FetchPricing, TypeOK, Numbered
<1>8. ASSUME NEW i \in Instances, SavePricing(i) PROVE TypeOK' /\ Numbered'
      BY <1>8 DEF SavePricing, TypeOK, Numbered
<1>9. ASSUME NEW i \in Instances, Scan(i) PROVE TypeOK' /\ Numbered'
  <2>1. NextPage(i) \subseteq Keys BY DEF NextPage, Unseen, Stored
  <2>2. after' \in [Instances -> Nat]
    <3>0. after \in [Instances -> Nat] BY DEF TypeOK
    <3>1. CASE Unseen(i) = {}
      <4>1. after' = [after EXCEPT ![i] = 0] BY <1>9, <3>1 DEF Scan
      <4> QED BY <3>0, <4>1
    <3>2. CASE Unseen(i) # {}
      <4> DEFINE n == CHOOSE n \in {rowId[k] : k \in NextPage(i)} :
                          \A k \in NextPage(i) : rowId[k] <= n
      <4>1. n \in Nat BY <3>2, PageFacts
      <4>2. after' = [after EXCEPT ![i] = n] BY <1>9, <3>2 DEF Scan
      <4> HIDE DEF n
      <4> QED BY <3>0, <4>1, <4>2
    <3> QED BY <3>1, <3>2
  <2>3. /\ page' \in [Instances -> SUBSET Keys] /\ engine' \in [Instances -> Versions]
        /\ rpc' \in [Instances -> {"sleep", "save", "scan", "apply"}]
    <3>0. /\ page \in [Instances -> SUBSET Keys] /\ engine \in [Instances -> Versions]
          /\ rpc \in [Instances -> {"sleep", "save", "scan", "apply"}]
          BY DEF TypeOK
    <3>1. CASE Unseen(i) = {}
      <4>1. /\ rpc' = [rpc EXCEPT ![i] = "sleep"] /\ page' = page
            /\ engine' = [engine EXCEPT ![i] = Builtin]
            BY <1>9, <3>1 DEF Scan
      <4> QED BY <3>0, <4>1, VersionsAssumption
    <3>2. CASE Unseen(i) # {}
      <4>1. /\ rpc' = [rpc EXCEPT ![i] = "apply"] /\ engine' = engine
            /\ page' = [page EXCEPT ![i] = NextPage(i)]
            BY <1>9, <3>2 DEF Scan
      <4> QED BY <2>1, <3>0, <4>1
    <3> QED BY <3>1, <3>2
  <2> QED BY <1>9, <2>2, <2>3 DEF Scan, TypeOK, Numbered
<1>10. ASSUME NEW i \in Instances, Apply(i) PROVE TypeOK' /\ Numbered'
  <2>1. \A k \in Updatable(i) : price(rowOf[k], engine[i]) \in Versions \cup {Unpriced}
        BY DEF price, TypeOK
  <2>2. rowCost' \in [Keys -> Versions \cup {Unpriced}] BY <1>10, <2>1 DEF Apply, TypeOK
  <2>3. /\ page' \in [Instances -> SUBSET Keys]
        /\ rpc' \in [Instances -> {"sleep", "save", "scan", "apply"}]
        BY <1>10 DEF Apply, TypeOK
  <2> QED BY <1>10, <2>2, <2>3 DEF Apply, TypeOK, Numbered
<1>11. ASSUME NEW i \in Instances, BackfillError(i) PROVE TypeOK' /\ Numbered'
      BY <1>11, VersionsAssumption DEF BackfillError, TypeOK, Numbered
<1>12. ASSUME NEW i \in Instances, Restart(i) PROVE TypeOK' /\ Numbered'
  <2>1. /\ fate' \in [Attempts -> Fates] BY <1>12, <1>f DEF Restart, TypeOK
  <2>2. /\ queue' \in [Instances -> Seq(Attempts)] /\ batch' \in [Instances -> Seq(Attempts)]
        BY <1>12, EmptyElems DEF Restart, TypeOK
  <2>3. /\ wpc' \in [Instances -> {"idle", "collecting", "writing"}]
        /\ retry' \in [Instances -> 0..MaxRetry]
        /\ rpc' \in [Instances -> {"sleep", "save", "scan", "apply"}]
        /\ page' \in [Instances -> SUBSET Keys]
        BY <1>12, LedgerAssumption DEF Restart, TypeOK
  <2>4. /\ observed' \in [Instances -> Nat] /\ persisted' \in [Instances -> Nat]
        /\ duplicate' \in [Instances -> Nat] /\ dropped' \in [Instances -> Nat]
        /\ failed' \in [Instances -> Nat] /\ after' \in [Instances -> Nat]
        BY <1>12 DEF Restart, TypeOK
  <2>5. pricing' \in [Instances -> Versions] /\ engine' \in [Instances -> Versions]
        BY <1>12, VersionsAssumption DEF Restart, TypeOK
  <2>6. /\ restarts' \in [Instances -> Nat]
        /\ \A j \in Instances : restarts'[j] \in 0..MaxRestarts[inst][j]
    <3>1. MaxRestarts[inst] \in [Instances -> Nat] BY LedgerAssumption DEF TypeOK
    <3>2. /\ restarts \in [Instances -> Nat]
          /\ \A j \in Instances : restarts[j] \in 0..MaxRestarts[inst][j]
          BY DEF TypeOK
    <3>3. restarts' = [restarts EXCEPT ![i] = @ + 1] /\ restarts[i] < MaxRestarts[inst][i]
          BY <1>12 DEF Restart
    <3>4. restarts' \in [Instances -> Nat] BY <3>2, <3>3
    <3>5. ASSUME NEW j \in Instances PROVE restarts'[j] \in 0..MaxRestarts[inst][j]
      <4>1. CASE j = i BY <3>1, <3>2, <3>3, <4>1
      <4>2. CASE j # i BY <3>2, <3>3, <4>2
      <4> QED BY <4>1, <4>2
    <3> QED BY <3>4, <3>5
  <2> QED BY <1>12, <2>1, <2>2, <2>3, <2>4, <2>5, <2>6 DEF Restart, TypeOK, Numbered
<1>13. ASSUME UNCHANGED vars PROVE TypeOK' /\ Numbered'
      BY <1>13 DEF vars, TypeOK, Numbered
<1> QED BY <1>1, <1>2, <1>3, <1>4, <1>5, <1>6, <1>7, <1>8, <1>9, <1>10, <1>11,
           <1>12, <1>13 DEF Next, Writer, Refresh, Backfill
-------------------------------------------------------------------------------
(***************************************************************************)
(* Every step keeps OnTheWay: the fate of an event only moves on, and what   *)
(* enters a queue or a batch has been sent.                                 *)
(***************************************************************************)
\* A step that adds nothing to queues and batches and takes no event back to
\* "none" or "sending" keeps OnTheWay.
LEMMA OnTheWayKept ==
    ASSUME OnTheWay,
           \A i \in Instances : Elems(queue'[i]) \subseteq Elems(queue[i]),
           \A i \in Instances : Elems(batch'[i]) \subseteq Elems(batch[i]),
           \A a \in Attempts : fate[a] \notin {"none", "sending"}
                                   => fate'[a] \notin {"none", "sending"},
           TypeOK
    PROVE  OnTheWay'
<1>1. \A i \in Instances : Elems(queue[i]) \subseteq Attempts /\ Elems(batch[i]) \subseteq Attempts
      BY ElemsType DEF TypeOK
<1>2. ASSUME NEW i \in Instances, NEW a \in Elems(queue'[i])
      PROVE  fate'[a] \notin {"none", "sending"}
      BY <1>1, <1>2, Zenon DEF OnTheWay
<1>3. ASSUME NEW i \in Instances, NEW a \in Elems(batch'[i])
      PROVE  fate'[a] \notin {"none", "sending"}
      BY <1>1, <1>3, Zenon DEF OnTheWay
<1> QED BY <1>2, <1>3, Zenon DEF OnTheWay, Elems

\* What EndBatch does to fates and batches.
LEMMA EndBatchFacts ==
    ASSUME TypeOK, NEW i \in Instances, NEW f, EndBatch(i, f)
    PROVE  /\ \A a \in Attempts : fate'[a] = IF a \in Elems(batch[i]) THEN f ELSE fate[a]
           /\ \A j \in Instances : batch'[j] = IF j = i THEN <<>> ELSE batch[j]
BY DEF EndBatch, TypeOK

\* Every step keeps OnTheWay.
LEMMA OnTheWayStep ==
    ASSUME TypeOK, OnTheWay, [Next]_vars PROVE OnTheWay'
<1> DEFINE Same(q, r) == \A i \in Instances : Elems(r[i]) \subseteq Elems(q[i])
           Moves == \A a \in Attempts : fate[a] \notin {"none", "sending"}
                                          => fate'[a] \notin {"none", "sending"}
<1>0. /\ fate \in [Attempts -> Fates] /\ queue \in [Instances -> Seq(Attempts)]
      /\ batch \in [Instances -> Seq(Attempts)]
      BY DEF TypeOK
<1> USE DEF eventvars, writervars, counters, refreshvars, rowvars
<1>1. ASSUME NEW a \in Attempts, Observe(a) PROVE OnTheWay'
  <2>1. queue' = queue /\ batch' = batch /\ fate[a] = "none" BY <1>1 DEF Observe
  <2>2. \A c \in Attempts : c # a => fate'[c] = fate[c] BY <1>0, <1>1 DEF Observe
  <2>3. Moves BY <2>1, <2>2
  <2> QED BY <2>1, <2>3, OnTheWayKept
<1>2. ASSUME NEW a \in Attempts, Send(a) PROVE OnTheWay'
  <2>1. batch' = batch BY <1>2 DEF Send
  <2>2. fate'[a] \in {"queued", "dropped"} /\ \A c \in Attempts : c # a => fate'[c] = fate[c]
        BY <1>0, <1>2 DEF Send, try_send
  <2>3. Moves BY <2>2
  <2>4. ASSUME NEW j \in Instances
        PROVE  Elems(queue'[j]) \subseteq Elems(queue[j]) \cup {a}
    <3>1. queue' = queue \/ queue' = [queue EXCEPT ![inst[a]] = Append(@, a)]
          BY <1>2 DEF Send, try_send
    <3>2. queue'[j] = queue[j] \/ queue'[j] = Append(queue[j], a) BY <1>0, <3>1
    <3>3. queue[j] \in Seq(Attempts) BY <1>0
    <3> QED BY <3>2, <3>3, AppendElems
  <2>5. ASSUME NEW j \in Instances, NEW c \in Elems(queue'[j])
        PROVE  fate'[c] \notin {"none", "sending"}
    <3>1. CASE c = a BY <2>2, <3>1
    <3>2. CASE c # a
      <4>1. c \in Elems(queue[j]) BY <2>4, <2>5, <3>2
      <4>2. c \in Attempts BY <1>0, <4>1, ElemsType
      <4> QED BY <2>3, <4>1, <4>2 DEF OnTheWay
    <3> QED BY <3>1, <3>2
  <2>6. ASSUME NEW j \in Instances, NEW c \in Elems(batch'[j])
        PROVE  fate'[c] \notin {"none", "sending"}
    <3>1. c \in Elems(batch[j]) BY <2>1, <2>6
    <3>2. c \in Attempts BY <1>0, <3>1, ElemsType
    <3> QED BY <2>3, <3>1, <3>2 DEF OnTheWay
  <2> QED BY <2>5, <2>6, Zenon DEF OnTheWay, Elems
<1>3. ASSUME NEW i \in Instances, Recv(i) PROVE OnTheWay'
  <2>1. queue[i] \in Seq(Attempts) /\ queue[i] # <<>> /\ batch[i] \in Seq(Attempts)
        BY <1>0, <1>3 DEF Recv
  <2> DEFINE h == Head(queue[i])
  <2>2. h \in Attempts /\ Elems(Tail(queue[i])) \subseteq Elems(queue[i])
        BY <2>1, TailElems
  <2>3. fate'[h] = "batched" /\ \A c \in Attempts : c # h => fate'[c] = fate[c]
        BY <1>0, <1>3, <2>2 DEF Recv
  <2>4. Elems(Append(batch[i], h)) = Elems(batch[i]) \cup {h}
        BY <2>1, <2>2, AppendElems
  <2>5. /\ \A j \in Instances : queue'[j] = IF j = i THEN Tail(queue[i]) ELSE queue[j]
        /\ \A j \in Instances : batch'[j] = IF j = i THEN Append(batch[i], h) ELSE batch[j]
        BY <1>0, <1>3 DEF Recv
  <2> HIDE DEF h
  <2>6. Moves BY <2>3
  <2>7. ASSUME NEW j \in Instances, NEW c \in Elems(queue'[j])
        PROVE  fate'[c] \notin {"none", "sending"}
    <3>1. c \in Elems(queue[j]) BY <2>2, <2>5, <2>7
    <3>2. c \in Attempts BY <1>0, <3>1, ElemsType
    <3> QED BY <2>6, <3>1, <3>2 DEF OnTheWay
  <2>8. ASSUME NEW j \in Instances, NEW c \in Elems(batch'[j])
        PROVE  fate'[c] \notin {"none", "sending"}
    <3>1. c = h \/ c \in Elems(batch[j]) BY <2>4, <2>5, <2>8
    <3>2. CASE c = h BY <2>3, <3>2
    <3>3. CASE c \in Elems(batch[j])
      <4>1. c \in Attempts BY <1>0, <3>3, ElemsType
      <4> QED BY <2>6, <3>3, <4>1 DEF OnTheWay
    <3> QED BY <3>1, <3>2, <3>3
  <2> QED BY <2>7, <2>8, Zenon DEF OnTheWay, Elems
<1>4. ASSUME NEW i \in Instances, NEW f \in {"stored", "failed"}, EndBatch(i, f),
             queue' = queue
      PROVE  OnTheWay'
  <2>1. Moves BY <1>4, EndBatchFacts
  <2>2. \A j \in Instances : Elems(batch'[j]) \subseteq Elems(batch[j])
        BY <1>4, EndBatchFacts, EmptyElems
  <2> QED BY <1>4, <2>1, <2>2, OnTheWayKept
<1>5. ASSUME NEW i \in Instances, InsertOk(i) PROVE OnTheWay'
      BY <1>4, <1>5 DEF InsertOk
<1>6. ASSUME NEW i \in Instances, InsertError(i) PROVE OnTheWay'
  <2>1. queue' = queue /\ (EndBatch(i, "failed") \/ UNCHANGED <<fate, batch>>)
        BY <1>6 DEF InsertError
  <2>2. CASE EndBatch(i, "failed") BY <1>4, <2>1, <2>2
  <2>3. CASE UNCHANGED <<fate, batch>> BY <2>1, <2>3, OnTheWayKept
  <2> QED BY <2>1, <2>2, <2>3
<1>7. ASSUME NEW i \in Instances, Restart(i) PROVE OnTheWay'
  <2>1. Moves BY <1>7 DEF Restart
  <2>2. \A j \in Instances : /\ queue'[j] = IF j = i THEN <<>> ELSE queue[j]
                             /\ batch'[j] = IF j = i THEN <<>> ELSE batch[j]
        BY <1>0, <1>7 DEF Restart
  <2>3. \A j \in Instances : /\ Elems(queue'[j]) \subseteq Elems(queue[j])
                             /\ Elems(batch'[j]) \subseteq Elems(batch[j])
        BY <2>2, EmptyElems
  <2> QED BY <2>1, <2>3, OnTheWayKept
<1>8. ASSUME UNCHANGED <<fate, queue, batch>> PROVE OnTheWay'
      BY <1>8, OnTheWayKept
<1>9. ASSUME NEW i \in Instances, CloseBatch(i) \/ Refresh(i) PROVE OnTheWay'
  <2>1. UNCHANGED <<fate, queue, batch>>
        BY <1>9 DEF CloseBatch, Refresh, Backfill, SavePricing, Scan, Apply, BackfillError,
                    FetchPricing
  <2> QED BY <1>8, <2>1
<1>10. ASSUME UNCHANGED vars PROVE OnTheWay' BY <1>8, <1>10 DEF vars
<1> QED BY <1>1, <1>2, <1>3, <1>5, <1>6, <1>7, <1>9, <1>10 DEF Next, Writer
-------------------------------------------------------------------------------
(***************************************************************************)
(* Every step keeps the balance of the counters.                            *)
(***************************************************************************)
\* The events about to be sent are finitely many.
LEMMA InFlightFinite ==
    ASSUME NEW i \in Instances
    PROVE  IsFiniteSet(InFlight(i)) /\ Cardinality(InFlight(i)) \in Nat
<1>1. InFlight(i) \in SUBSET Attempts BY DEF InFlight
<1>2. IsFiniteSet(InFlight(i)) BY <1>1, FS_Subset, LedgerAssumption
<1> QED BY <1>2, FS_CardinalityType

\* What is in flight does not change if no event starts or stops "sending".
LEMMA InFlightSame ==
    ASSUME NEW i \in Instances, inst' = inst,
           \A a \in Attempts : fate'[a] = "sending" <=> fate[a] = "sending"
    PROVE  InFlight(i)' = InFlight(i)
BY DEF InFlight

\* One process's line of the balance.
Balanced(i) == observed[i] = persisted[i] + duplicate[i] + dropped[i] + failed[i]
                             + Len(queue[i]) + Len(batch[i]) + Cardinality(InFlight(i))

\* A process none of whose counters, queue and events change keeps its line.
LEMMA BalancedSame ==
    ASSUME NEW i \in Instances, Balanced(i), InFlight(i)' = InFlight(i),
           observed'[i] = observed[i], persisted'[i] = persisted[i],
           duplicate'[i] = duplicate[i], dropped'[i] = dropped[i],
           failed'[i] = failed[i], queue'[i] = queue[i], batch'[i] = batch[i]
    PROVE  Balanced(i)'
BY DEF Balanced

\* Every step keeps the balance of every process.
LEMMA BalanceStep ==
    ASSUME TypeOK, OnTheWay, Conservation, [Next]_vars PROVE Conservation'
<1> SUFFICES ASSUME NEW i \in Instances PROVE Balanced(i)'
    BY DEF Conservation, Balanced
<1>b. Balanced(i) BY DEF Conservation, Balanced
<1>t. /\ fate \in [Attempts -> Fates] /\ queue \in [Instances -> Seq(Attempts)]
      /\ batch \in [Instances -> Seq(Attempts)]
      /\ observed \in [Instances -> Nat] /\ persisted \in [Instances -> Nat]
      /\ duplicate \in [Instances -> Nat] /\ dropped \in [Instances -> Nat]
      /\ failed \in [Instances -> Nat]
      BY DEF TypeOK
<1>n. /\ observed[i] \in Nat /\ persisted[i] \in Nat /\ duplicate[i] \in Nat
      /\ dropped[i] \in Nat /\ failed[i] \in Nat
      BY <1>t
<1>l. queue[i] \in Seq(Attempts) /\ batch[i] \in Seq(Attempts) BY <1>t
<1>m. Len(queue[i]) \in Nat /\ Len(batch[i]) \in Nat BY <1>l, LenProperties
<1>c. IsFiniteSet(InFlight(i)) /\ Cardinality(InFlight(i)) \in Nat BY InFlightFinite
<1> DEFINE o == observed[i]  p == persisted[i]  d == duplicate[i]  r == dropped[i]
           x == failed[i]  q == Len(queue[i])  y == Len(batch[i])
           z == Cardinality(InFlight(i))
<1>s. /\ o + 1 = p + d + r + x + q + y + (z + 1)
      /\ o = p + d + r + x + (q + 1) + y + (z - 1)
      /\ o = p + d + (r + 1) + x + q + y + (z - 1)
      /\ o = p + d + r + x + (q - 1) + (y + 1) + z
      /\ o = p + d + r + (x + y) + q + 0 + z
      /\ \A n \in Nat : o = (p + n) + (d + (y - n)) + r + x + q + 0 + z
  <2>1. /\ o \in Nat /\ p \in Nat /\ d \in Nat /\ r \in Nat /\ x \in Nat /\ q \in Nat
        /\ y \in Nat /\ z \in Nat
        BY <1>n, <1>m, <1>c
  <2>2. o = p + d + r + x + q + y + z BY <1>b DEF Balanced
  <2> HIDE DEF o, p, d, r, x, q, y, z
  <2> QED BY <2>1, <2>2
<1> USE DEF eventvars, writervars, counters, refreshvars, rowvars
<1>0. ASSUME UNCHANGED <<fate, inst, queue, batch, counters>> PROVE Balanced(i)'
  <2>1. InFlight(i)' = InFlight(i) BY <1>0, InFlightSame
  <2> QED BY <1>b, <1>0, <2>1, BalancedSame
<1>1. ASSUME NEW a \in Attempts, Observe(a) PROVE Balanced(i)'
  <2>1. /\ fate[a] = "none" /\ inst[a] # None /\ inst' = inst /\ queue' = queue
        /\ batch' = batch /\ UNCHANGED <<persisted, duplicate, dropped, failed>>
        /\ fate'[a] = "sending" /\ \A c \in Attempts : c # a => fate'[c] = fate[c]
        BY <1>t, <1>1 DEF Observe
  <2>2. CASE inst[a] = i
    <3>1. a \notin InFlight(i) BY <2>1 DEF InFlight
    <3>2. InFlight(i)' = InFlight(i) \cup {a} BY <2>1, <2>2 DEF InFlight
    <3>3. Cardinality(InFlight(i)') = Cardinality(InFlight(i)) + 1
          BY <1>c, <3>1, <3>2, FS_AddElement
    <3>4. observed'[i] = observed[i] + 1 BY <1>t, <1>1, <2>2 DEF Observe
    <3> QED BY <1>s, <2>1, <3>3, <3>4 DEF Balanced
  <2>3. CASE inst[a] # i
    <3>1. InFlight(i)' = InFlight(i) BY <2>1, <2>3 DEF InFlight
    <3>2. observed'[i] = observed[i] BY <1>t, <1>1, <2>3 DEF Observe
    <3> QED BY <1>b, <2>1, <3>1, <3>2, BalancedSame
  <2> QED BY <2>2, <2>3
<1>2. ASSUME NEW a \in Attempts, Send(a) PROVE Balanced(i)'
  <2>1. /\ fate[a] = "sending" /\ inst' = inst /\ batch' = batch
        /\ UNCHANGED <<observed, persisted, duplicate, failed>>
        BY <1>2 DEF Send
  <2>2. fate'[a] # "sending" /\ \A c \in Attempts : c # a => fate'[c] = fate[c]
        BY <1>t, <1>2 DEF Send, try_send
  <2>3. CASE inst[a] = i
    <3>1. a \in InFlight(i) BY <2>1, <2>3 DEF InFlight
    <3>2. InFlight(i)' = InFlight(i) \ {a} BY <2>1, <2>2 DEF InFlight
    <3>3. Cardinality(InFlight(i)') = Cardinality(InFlight(i)) - 1
          BY <1>c, <3>1, <3>2, FS_RemoveElement
    <3>4. \/ (queue'[i] = Append(queue[i], a) /\ dropped'[i] = dropped[i])
          \/ (queue'[i] = queue[i] /\ dropped'[i] = dropped[i] + 1)
          BY <1>t, <1>2, <2>3 DEF Send, try_send
    <3>5. Len(Append(queue[i], a)) = Len(queue[i]) + 1 BY <1>l, AppendElems
    <3>6. \/ (Len(queue'[i]) = Len(queue[i]) + 1 /\ dropped'[i] = dropped[i])
          \/ (Len(queue'[i]) = Len(queue[i]) /\ dropped'[i] = dropped[i] + 1)
          BY <3>4, <3>5
    <3> QED BY <1>s, <2>1, <3>3, <3>6 DEF Balanced
  <2>4. CASE inst[a] # i
    <3>1. InFlight(i)' = InFlight(i) BY <2>1, <2>2, <2>4 DEF InFlight
    <3>2. queue'[i] = queue[i] /\ dropped'[i] = dropped[i]
          BY <1>t, <1>2, <2>4 DEF Send, try_send
    <3> QED BY <1>b, <2>1, <3>1, <3>2, BalancedSame
  <2> QED BY <2>3, <2>4
<1>3. ASSUME NEW j \in Instances, Recv(j) PROVE Balanced(i)'
  <2>0. queue[j] \in Seq(Attempts) /\ queue[j] # <<>> /\ batch[j] \in Seq(Attempts)
        BY <1>t, <1>3 DEF Recv
  <2> DEFINE h == Head(queue[j])
  <2>1. h \in Attempts /\ h \in Elems(queue[j]) /\ Len(Tail(queue[j])) = Len(queue[j]) - 1
        BY <2>0, TailElems
  <2>2. Len(Append(batch[j], h)) = Len(batch[j]) + 1 BY <2>0, <2>1, AppendElems
  <2>3. /\ inst' = inst /\ UNCHANGED counters /\ fate' = [fate EXCEPT ![h] = "batched"]
        /\ queue' = [queue EXCEPT ![j] = Tail(@)]
        /\ batch' = [batch EXCEPT ![j] = Append(@, h)]
        BY <1>3 DEF Recv
  <2> HIDE DEF h
  <2>4. fate[h] # "sending" BY <2>1 DEF OnTheWay
  <2>5. \A c \in Attempts : fate'[c] = "sending" <=> fate[c] = "sending"
        BY <1>t, <2>3, <2>4
  <2>6. InFlight(i)' = InFlight(i) BY <2>3, <2>5, InFlightSame
  <2>7. CASE j = i
    <3>1. Len(queue'[i]) = Len(queue[i]) - 1 /\ Len(batch'[i]) = Len(batch[i]) + 1
          BY <1>t, <2>1, <2>2, <2>3, <2>7
    <3> QED BY <1>s, <2>3, <2>6, <3>1 DEF Balanced
  <2>8. CASE j # i
    <3>1. queue'[i] = queue[i] /\ batch'[i] = batch[i] BY <1>t, <2>3, <2>8
    <3> QED BY <1>b, <2>3, <2>6, <3>1, BalancedSame
  <2> QED BY <2>7, <2>8
<1>4. ASSUME NEW j \in Instances, NEW f \in {"stored", "failed"}, EndBatch(j, f), inst' = inst
      PROVE  InFlight(i)' = InFlight(i)
  <2>1. \A a \in Attempts : fate'[a] = IF a \in Elems(batch[j]) THEN f ELSE fate[a]
        BY <1>4, EndBatchFacts
  <2>2. \A a \in Attempts : fate'[a] = "sending" <=> fate[a] = "sending"
        BY <1>4, <2>1 DEF OnTheWay
  <2> QED BY <1>4, <2>2, InFlightSame
<1>5. ASSUME NEW j \in Instances, InsertOk(j) PROVE Balanced(i)'
  <2>1. EndBatch(j, "stored") /\ inst' = inst /\ UNCHANGED <<queue, observed, dropped, failed>>
        BY <1>5 DEF InsertOk
  <2>2. InFlight(i)' = InFlight(i) BY <1>4, <2>1
  <2>3. CASE j = i
    <3>1. batch'[i] = <<>> BY <2>1, <2>3, EndBatchFacts
    <3>2. Len(batch'[i]) = 0 BY <3>1, EmptyElems
    <3>3. Cardinality(NewKeys(batch[i])) \in Nat BY <1>l, NewKeysCount
    <3>4. /\ persisted'[i] = persisted[i] + Cardinality(NewKeys(batch[i]))
          /\ duplicate'[i] = duplicate[i] + (Len(batch[i]) - Cardinality(NewKeys(batch[i])))
          BY <1>t, <1>5, <2>3 DEF InsertOk
    <3> QED BY <1>s, <2>1, <2>2, <3>2, <3>3, <3>4 DEF Balanced
  <2>4. CASE j # i
    <3>1. batch'[i] = batch[i] BY <2>1, <2>4, EndBatchFacts
    <3>2. persisted'[i] = persisted[i] /\ duplicate'[i] = duplicate[i]
          BY <1>t, <1>5, <2>4 DEF InsertOk
    <3> QED BY <1>b, <2>1, <2>2, <3>1, <3>2, BalancedSame
  <2> QED BY <2>3, <2>4
<1>6. ASSUME NEW j \in Instances, InsertError(j) PROVE Balanced(i)'
  <2>1. inst' = inst /\ UNCHANGED <<queue, observed, persisted, duplicate, dropped>>
        BY <1>6 DEF InsertError
  <2>2. CASE GiveUp(j)
    <3>1. failed' = [failed EXCEPT ![j] = @ + Len(batch[j])] /\ EndBatch(j, "failed")
          BY <1>6, <2>2 DEF InsertError
    <3>2. InFlight(i)' = InFlight(i) BY <1>4, <2>1, <3>1
    <3>3. CASE j = i
      <4>1. batch'[i] = <<>> BY <3>1, <3>3, EndBatchFacts
      <4>2. Len(batch'[i]) = 0 BY <4>1, EmptyElems
      <4>3. failed'[i] = failed[i] + Len(batch[i]) BY <1>t, <3>1, <3>3
      <4> QED BY <1>s, <2>1, <3>2, <4>2, <4>3 DEF Balanced
    <3>4. CASE j # i
      <4>1. batch'[i] = batch[i] BY <3>1, <3>4, EndBatchFacts
      <4>2. failed'[i] = failed[i] BY <1>t, <3>1, <3>4
      <4> QED BY <1>b, <2>1, <3>2, <4>1, <4>2, BalancedSame
    <3> QED BY <3>3, <3>4
  <2>3. CASE ~GiveUp(j)
    <3>1. UNCHANGED <<fate, batch, failed>> BY <1>6, <2>3 DEF InsertError
    <3> QED BY <1>0, <2>1, <3>1
  <2> QED BY <2>2, <2>3
<1>7. ASSUME NEW j \in Instances, Restart(j) PROVE Balanced(i)'
  <2>1. /\ inst' = inst
        /\ \A a \in Attempts :
              fate'[a] = IF inst[a] = j /\ fate[a] \in {"sending", "queued", "batched"}
                         THEN "lost" ELSE fate[a]
        BY <1>7 DEF Restart
  <2>2. CASE j = i
    <3>1. InFlight(i)' = {} BY <2>1, <2>2 DEF InFlight
    <3>2. Cardinality(InFlight(i)') = 0 BY <3>1, FS_EmptySet
    <3>3. queue'[i] = <<>> /\ batch'[i] = <<>> BY <1>t, <1>7, <2>2 DEF Restart
    <3>4. Len(queue'[i]) = 0 /\ Len(batch'[i]) = 0 BY <3>3, EmptyElems
    <3>5. /\ observed'[i] = 0 /\ persisted'[i] = 0 /\ duplicate'[i] = 0
          /\ dropped'[i] = 0 /\ failed'[i] = 0
          BY <1>t, <1>7, <2>2 DEF Restart
    <3> QED BY <3>2, <3>4, <3>5 DEF Balanced
  <2>3. CASE j # i
    <3>1. InFlight(i)' = InFlight(i) BY <2>1, <2>3 DEF InFlight
    <3>2. queue'[i] = queue[i] /\ batch'[i] = batch[i] BY <1>t, <1>7, <2>3 DEF Restart
    <3>3. /\ observed'[i] = observed[i] /\ persisted'[i] = persisted[i]
          /\ duplicate'[i] = duplicate[i] /\ dropped'[i] = dropped[i]
          /\ failed'[i] = failed[i]
          BY <1>t, <1>7, <2>3 DEF Restart
    <3> QED BY <1>b, <3>1, <3>2, <3>3, BalancedSame
  <2> QED BY <2>2, <2>3
<1>8. ASSUME NEW j \in Instances, CloseBatch(j) \/ Refresh(j) PROVE Balanced(i)'
  <2>1. UNCHANGED <<fate, inst, queue, batch, counters>>
        BY <1>8 DEF CloseBatch, Refresh, Backfill, SavePricing, Scan, Apply, BackfillError,
                    FetchPricing
  <2> QED BY <1>0, <2>1
<1>9. ASSUME UNCHANGED vars PROVE Balanced(i)' BY <1>0, <1>9 DEF vars
<1> QED BY <1>1, <1>2, <1>3, <1>5, <1>6, <1>7, <1>8, <1>9 DEF Next, Writer
-------------------------------------------------------------------------------
(***************************************************************************)
(* Rows.                                                                    *)
(***************************************************************************)
\* What a step does to one row: it stays, or it is made from an event of its
\* key where there was none, or a row without a price gets one.
RowStep(k) == \/ (rowOf'[k] = rowOf[k] /\ rowCost'[k] = rowCost[k])
              \/ (rowOf[k] = None /\ rowOf'[k] \in Attempts /\ Key[rowOf'[k]] = k)
              \/ (rowOf'[k] = rowOf[k] /\ rowCost[k] = Unpriced)

\* Every step does that to every row.
LEMMA RowsStep ==
    ASSUME TypeOK, Numbered, [Next]_vars PROVE \A k \in Keys : RowStep(k)
<1> USE DEF eventvars, writervars, counters, refreshvars, rowvars
<1>0. ASSUME UNCHANGED <<rowOf, rowCost>> PROVE \A k \in Keys : RowStep(k)
      BY <1>0 DEF RowStep
<1>1. ASSUME NEW i \in Instances, insert_batch(batch[i]) PROVE \A k \in Keys : RowStep(k)
      BY <1>1, InsertFacts DEF RowStep
<1>2. ASSUME NEW i \in Instances, Apply(i) PROVE \A k \in Keys : RowStep(k)
  <2>1. rowOf' = rowOf /\ \A k \in Keys : k \notin Updatable(i) => rowCost'[k] = rowCost[k]
        BY <1>2 DEF Apply
  <2>2. \A k \in Updatable(i) : rowCost[k] = Unpriced BY DEF Updatable
  <2> QED BY <2>1, <2>2 DEF RowStep
<1>3. ASSUME NEW i \in Instances, InsertOk(i) \/ InsertError(i)
      PROVE  \A k \in Keys : RowStep(k)
  <2>1. insert_batch(batch[i]) \/ UNCHANGED <<rowOf, rowCost>>
        BY <1>3 DEF InsertOk, InsertError
  <2> QED BY <1>0, <1>1, <2>1
<1>4. ASSUME NEW i \in Instances, Recv(i) \/ CloseBatch(i) \/ Restart(i)
      PROVE  \A k \in Keys : RowStep(k)
      BY <1>0, <1>4 DEF Recv, CloseBatch, Restart
<1>5. ASSUME NEW i \in Instances, Refresh(i) PROVE \A k \in Keys : RowStep(k)
  <2>1. Apply(i) \/ UNCHANGED <<rowOf, rowCost>>
        BY <1>5 DEF Refresh, Backfill, SavePricing, Scan, BackfillError, FetchPricing
  <2> QED BY <1>0, <1>2, <2>1
<1>6. ASSUME NEW a \in Attempts, Observe(a) \/ Send(a) PROVE \A k \in Keys : RowStep(k)
      BY <1>0, <1>6 DEF Observe, Send
<1>7. ASSUME UNCHANGED vars PROVE \A k \in Keys : RowStep(k) BY <1>0, <1>7 DEF vars
<1> QED BY <1>3, <1>4, <1>5, <1>6, <1>7 DEF Next, Writer

\* An event becomes "stored" only in a step that leaves a row for its key.
LEMMA StoredStep ==
    ASSUME TypeOK, Numbered, [Next]_vars,
           NEW a \in Attempts, fate'[a] = "stored", fate[a] # "stored"
    PROVE  rowOf'[Key[a]] # None
<1>t. fate \in [Attempts -> Fates] /\ queue \in [Instances -> Seq(Attempts)] BY DEF TypeOK
<1> USE DEF eventvars, writervars, counters, refreshvars, rowvars
<1>0. ASSUME UNCHANGED fate PROVE FALSE BY <1>0
<1>1. ASSUME NEW i \in Instances, InsertOk(i) PROVE rowOf'[Key[a]] # None
  <2>1. EndBatch(i, "stored") /\ insert_batch(batch[i]) BY <1>1 DEF InsertOk
  <2>2. a \in Elems(batch[i]) BY <2>1, EndBatchFacts
  <2>3. Key[a] \in KeysOf(batch[i]) BY <2>2 DEF KeysOf
  <2> QED BY <2>1, <2>3, InsertFacts
<1>2. ASSUME NEW i \in Instances, InsertError(i) PROVE FALSE
  <2>1. EndBatch(i, "failed") \/ UNCHANGED fate BY <1>2 DEF InsertError
  <2>2. CASE EndBatch(i, "failed") BY <2>2, EndBatchFacts
  <2> QED BY <1>0, <2>1, <2>2
<1>3. ASSUME NEW i \in Instances, Recv(i) PROVE FALSE
  <2>1. queue[i] \in Seq(Attempts) /\ queue[i] # <<>> BY <1>t, <1>3 DEF Recv
  <2>2. Head(queue[i]) \in Attempts BY <2>1, TailElems
  <2>3. fate' = [fate EXCEPT ![Head(queue[i])] = "batched"] BY <1>3 DEF Recv
  <2>4. fate'[a] = fate[a] \/ fate'[a] = "batched" BY <1>t, <2>2, <2>3
  <2> QED BY <2>4
<1>4. ASSUME NEW i \in Instances, Restart(i) PROVE FALSE
  <2>1. fate'[a] = fate[a] \/ fate'[a] = "lost" BY <1>4 DEF Restart
  <2> QED BY <2>1
<1>5. ASSUME NEW c \in Attempts, Observe(c) PROVE FALSE
  <2>1. fate'[a] = fate[a] \/ fate'[a] = "sending" BY <1>t, <1>5 DEF Observe
  <2> QED BY <2>1
<1>6. ASSUME NEW c \in Attempts, Send(c) PROVE FALSE
  <2>1. \/ fate' = [fate EXCEPT ![c] = "queued"]
        \/ fate' = [fate EXCEPT ![c] = "dropped"]
        BY <1>6 DEF Send, try_send
  <2>2. fate'[a] \in {fate[a], "queued", "dropped"} BY <1>t, <2>1
  <2> QED BY <2>2
<1>7. ASSUME NEW i \in Instances, CloseBatch(i) \/ Refresh(i) PROVE FALSE
  <2>1. UNCHANGED fate
        BY <1>7 DEF CloseBatch, Refresh, Backfill, SavePricing, Scan, Apply, BackfillError,
                    FetchPricing
  <2> QED BY <1>0, <2>1
<1>8. ASSUME UNCHANGED vars PROVE FALSE BY <1>0, <1>8 DEF vars
<1> QED BY <1>1, <1>2, <1>3, <1>4, <1>5, <1>6, <1>7, <1>8 DEF Next, Writer

\* Every step keeps StoredEventsHaveRows.
LEMMA HaveRowsStep ==
    ASSUME TypeOK, Numbered, StoredEventsHaveRows, [Next]_vars
    PROVE  StoredEventsHaveRows'
<1>1. \A k \in Keys : RowStep(k) BY RowsStep
<1>2. \A k \in Keys : rowOf[k] # None => rowOf'[k] = rowOf[k]
      BY <1>1 DEF RowStep
<1>3. ASSUME NEW a \in Attempts, fate'[a] = "stored" PROVE rowOf'[Key[a]] # None
  <2>1. Key[a] \in Keys BY KeyAssumption
  <2>2. CASE fate[a] = "stored" BY <1>2, <2>1, <2>2 DEF StoredEventsHaveRows
  <2>3. CASE fate[a] # "stored" BY <1>3, <2>3, StoredStep
  <2> QED BY <2>2, <2>3
<1>4. ASSUME NEW k \in Keys, rowOf'[k] # None PROVE Key[rowOf'[k]] = k
  <2>1. CASE rowOf[k] = None BY <1>1, <1>4, <2>1 DEF RowStep
  <2>2. CASE rowOf[k] # None BY <1>2, <2>2 DEF StoredEventsHaveRows, Stored
  <2> QED BY <2>1, <2>2
<1> QED BY <1>3, <1>4 DEF StoredEventsHaveRows, Stored
-------------------------------------------------------------------------------
(***************************************************************************)
(* The theorems.                                                            *)
(***************************************************************************)
\* The inductive invariant holds in every reachable state, whatever the
\* processes, the database and the price sources do.
THEOREM Invariance == Spec => []IInv
<1>1. Init => IInv
  <2> SUFFICES ASSUME Init PROVE IInv OBVIOUS
  <2> USE DEF Init
  <2>1. TypeOK
    <3>1. fate \in [Attempts -> Fates] BY DEF Fates
    <3>2. /\ queue \in [Instances -> Seq(Attempts)] /\ batch \in [Instances -> Seq(Attempts)]
          BY EmptyElems
    <3>3. /\ retry \in [Instances -> 0..MaxRetry] /\ restarts \in [Instances -> Nat]
          BY LedgerAssumption
    <3>4. \A i \in Instances : restarts[i] \in 0..MaxRestarts[inst][i]
          BY LedgerAssumption
    <3>5. /\ pricing \in [Instances -> Versions] /\ engine \in [Instances -> Versions]
          /\ saved \in Versions
          BY VersionsAssumption
    <3>6. /\ cost \in [Attempts -> Versions \cup {Unpriced}]
          /\ rowCost \in [Keys -> Versions \cup {Unpriced}]
          /\ rowOf \in [Keys -> Attempts \cup {None}]
          /\ rowId \in [Keys -> Nat] /\ lastId \in Nat
          OBVIOUS
    <3> QED BY <3>1, <3>2, <3>3, <3>4, <3>5, <3>6 DEF TypeOK
  <2>2. Numbered BY DEF Numbered
  <2>3. OnTheWay BY EmptyElems DEF OnTheWay
  <2>4. Conservation
    <3> SUFFICES ASSUME NEW i \in Instances PROVE Balanced(i)
        BY DEF Conservation, Balanced
    <3>1. InFlight(i) = {} BY DEF InFlight
    <3>2. Cardinality(InFlight(i)) = 0 BY <3>1, FS_EmptySet
    <3>3. Len(queue[i]) = 0 /\ Len(batch[i]) = 0 BY EmptyElems
    <3>4. /\ observed[i] = 0 /\ persisted[i] = 0 /\ duplicate[i] = 0
          /\ dropped[i] = 0 /\ failed[i] = 0
          OBVIOUS
    <3> QED BY <3>2, <3>3, <3>4 DEF Balanced
  <2>5. StoredEventsHaveRows BY DEF StoredEventsHaveRows, Stored
  <2> QED BY <2>1, <2>2, <2>3, <2>4, <2>5 DEF IInv
<1>2. IInv /\ [Next]_vars => IInv'
  <2> SUFFICES ASSUME IInv, [Next]_vars PROVE IInv' OBVIOUS
  <2>1. TypeOK /\ Numbered /\ OnTheWay /\ Conservation /\ StoredEventsHaveRows
        BY DEF IInv
  <2>2. TypeOK' /\ Numbered' BY <2>1, TypeStep
  <2>3. OnTheWay' BY <2>1, OnTheWayStep
  <2>4. Conservation' BY <2>1, BalanceStep
  <2>5. StoredEventsHaveRows' BY <2>1, HaveRowsStep
  <2> QED BY <2>2, <2>3, <2>4, <2>5 DEF IInv
<1> QED BY <1>1, <1>2, PTL DEF Spec

\* The variables of UsageLedger keep their types.
THEOREM TypeCorrect == Spec => []TypeOK
<1>1. IInv => TypeOK BY DEF IInv
<1> QED BY <1>1, Invariance, PTL

\* The health counters of every process account for every event observed since
\* it started, across full queues, failed inserts, retries of inserts that were
\* committed, and restarts.
THEOREM CountersBalance == Spec => []Conservation
<1>1. IInv => Conservation BY DEF IInv
<1> QED BY <1>1, Invariance, PTL

\* What the writer counts as persisted or as a duplicate is in the database.
THEOREM StoredEventsAlwaysHaveRows == Spec => []StoredEventsHaveRows
<1>1. IInv => StoredEventsHaveRows BY DEF IInv
<1> QED BY <1>1, Invariance, PTL

\* No step replaces a row, or prices one that has its price, whichever writers
\* and backfills share the database.
THEOREM PricesAreFinal == Spec => PricedRowsFinal
<1>1. ASSUME IInv, [Next]_vars, NEW k \in Stored
      PROVE  /\ rowOf'[k] = rowOf[k]
             /\ rowCost[k] # Unpriced => rowCost'[k] = rowCost[k]
  <2>1. k \in Keys /\ rowOf[k] # None BY DEF Stored
  <2>2. RowStep(k) BY <1>1, <2>1, RowsStep DEF IInv
  <2> QED BY <2>1, <2>2 DEF RowStep
<1>2. IInv /\ [Next]_vars =>
        [\A k \in Stored : /\ rowOf'[k] = rowOf[k]
                           /\ rowCost[k] # Unpriced => rowCost'[k] = rowCost[k]]_vars
      BY <1>1
<1> QED BY <1>2, Invariance, PTL DEF Spec, PricedRowsFinal
-------------------------------------------------------------------------------
(***************************************************************************)
(* The observer of one response.                                            *)
(***************************************************************************)
\* An attempt is taken when its outcome is reported, and the end of the body
\* takes it.
OutcomeInv ==
    /\ attempt => results = <<>>
    /\ ~attempt => \E x : results = <<x>>
    /\ ended # "no" => ~attempt

\* finalize reports at most one outcome, and one for certain at the end.
LEMMA ReportIsOption ==
    ASSUME NEW p, NEW bad, NEW terminal, NEW gone
    PROVE  /\ Report(p, bad, terminal, gone) # <<>> =>
                \E x : Report(p, bad, terminal, gone) = <<x>>
           /\ terminal => Report(p, bad, terminal, gone) # <<>>
  BY DEF Report

\* ResponseObserver::finalize keeps the invariant before the end of the body,
\* and takes the attempt when it is called for the last time.
LEMMA FinalizeTakes ==
    ASSUME OutcomeInv, NEW p, NEW bad, NEW terminal, NEW gone,
           finalize(p, bad, terminal, gone)
    PROVE  /\ attempt' => results' = <<>>
           /\ ~attempt' => \E x : results' = <<x>>
           /\ ~attempt => ~attempt'
           /\ terminal => ~attempt'
<1>1. CASE attempt /\ Report(p, bad, terminal, gone) # <<>>
  <2>1. PICK x : Report(p, bad, terminal, gone) = <<x>>
    BY <1>1, ReportIsOption
  <2>2. results = <<>> BY <1>1 DEF OutcomeInv
  <2>3. <<>> \o <<x>> = <<x>> OBVIOUS
  <2>4. results' = <<x>> /\ attempt' = FALSE
    BY <1>1, <2>1, <2>2, <2>3 DEF finalize
  <2>. QED BY <2>4
<1>2. CASE ~(attempt /\ Report(p, bad, terminal, gone) # <<>>)
  <2>1. attempt' = attempt /\ results' = results BY <1>2 DEF finalize
  <2>2. terminal => ~attempt BY <1>2, ReportIsOption
  <2>. QED BY <2>1, <2>2 DEF OutcomeInv
<1>. QED BY <1>1, <1>2

\* A chunk may settle the attempt early, when message_stop has been read.
LEMMA ChunkOutcome ==
    ASSUME OutcomeInv, NEW n, Chunk(n) PROVE OutcomeInv'
<1>1. ended = "no" /\ ended' = ended BY DEF Chunk
<1>2. CASE UNCHANGED <<attempt, results>>
  BY <1>1, <1>2 DEF OutcomeInv
<1>3. CASE \E p, bad : finalize(p, bad, FALSE, FALSE)
  <2>1. PICK p, bad : finalize(p, bad, FALSE, FALSE) BY <1>3
  <2>2. (attempt' => results' = <<>>) /\ (~attempt' => \E x : results' = <<x>>)
    BY <2>1, FinalizeTakes
  <2>. QED BY <1>1, <2>2 DEF OutcomeInv
<1>4. ASSUME NEW d, NEW c, feed(n, d, c)
      PROVE  UNCHANGED <<attempt, results>> \/ \E p, bad : finalize(p, bad, FALSE, FALSE)
  BY <1>4 DEF feed
<1>. QED BY <1>2, <1>3, <1>4 DEF Chunk

\* The end of the body, however it comes, settles an attempt that is still open.
LEMMA EndOutcome ==
    ASSUME OutcomeInv, NEW how, End(how) PROVE OutcomeInv'
<1>1. CASE Watching
  <2>1. PICK d : finish(d, how = "drop") BY <1>1 DEF End
  <2>2. PICK p, bad : finalize(p, bad, TRUE, how = "drop") BY <2>1 DEF finish
  <2>. QED BY <2>2, FinalizeTakes DEF OutcomeInv
<1>2. CASE ~Watching
  <2>1. ~attempt /\ UNCHANGED <<attempt, results>> BY <1>2 DEF Watching, End
  <2>. QED BY <2>1 DEF OutcomeInv
<1>. QED BY <1>1, <1>2

\* Whatever the body, its encoding, its chunks and the decoder's latency: an
\* attempt has at most one outcome, and exactly one once its body has ended,
\* whether by EOF, by an error or because the client went away.
THEOREM EveryAttemptSettledOnce == ObserverSpec => []OneOutcome
<1>1. ObserverInit => OutcomeInv
  BY DEF ObserverInit, OutcomeInv
<1>2. OutcomeInv /\ [ObserverNext]_observerVars => OutcomeInv'
  <2>. SUFFICES ASSUME OutcomeInv, [ObserverNext]_observerVars PROVE OutcomeInv'
    OBVIOUS
  <2>1. CASE UNCHANGED observerVars
    BY <2>1 DEF observerVars, OutcomeInv
  <2>. QED BY <2>1, ChunkOutcome, EndOutcome DEF ObserverNext
<1>3. OutcomeInv => OneOutcome
  <2>1. Len(<<>>) = 0 /\ \A x : Len(<<x>>) = 1 OBVIOUS
  <2>2. ASSUME OutcomeInv PROVE results = <<>> \/ \E x : results = <<x>>
    BY <2>2, Zenon DEF OutcomeInv
  <2>3. ASSUME OutcomeInv, ended # "no" PROVE \E x : results = <<x>>
    BY <2>3, Zenon DEF OutcomeInv
  <2>. QED BY <2>1, <2>2, <2>3 DEF OneOutcome
<1>. QED BY <1>1, <1>2, <1>3, PTL DEF ObserverSpec

-------------------------------------------------------------------------------
(***************************************************************************)
(* Slots in Redis, and the refresh lock.                                    *)
(***************************************************************************)
\* The requests under way whose INCR lets them through.
Passing == {r \in Busy : val[r] <= MaxSlots}

\* They are at most MaxSlots, and as many more as the last expiry forgot.  The
\* counter's accounts are what carries this over an INCR: a value of at most
\* MaxSlots means fewer than MaxSlots requests that the counter knows of.
PassingBounded == Cardinality(Passing) <= MaxSlots + owed
SlotInv == RedisTypeOK /\ CountAccounted /\ PassingBounded

\* Cardinalities of the sets of requests are numbers.
LEMMA SlotsFinite ==
    /\ IsFiniteSet(Busy) /\ IsFiniteSet(Passing) /\ IsFiniteSet(Holders)
    /\ Cardinality(Busy) \in Nat /\ Cardinality(Passing) \in Nat
    /\ Cardinality(Holders) \in Nat
<1>1. Busy \subseteq Requests /\ Passing \subseteq Requests /\ Holders \subseteq Requests
  BY DEF Busy, Passing, Holders
<1>2. IsFiniteSet(Busy) /\ IsFiniteSet(Passing) /\ IsFiniteSet(Holders)
  BY <1>1, FS_Subset, RedisSlotsAssumption
<1>. QED
  BY <1>2, FS_CardinalityType

\* The same of the next state.
LEMMA PassingFiniteNext == Cardinality(Passing') \in Nat
<1>1. Passing' \subseteq Requests
  BY DEF Passing, Busy
<1>. QED
  BY <1>1, FS_Subset, FS_CardinalityType, RedisSlotsAssumption

\* A step of a request from one busy place to another keeps both sets.
LEMMA Stays ==
    ASSUME RedisTypeOK, NEW r \in Busy, NEW p \in Places \ {"idle", "done"},
           MoveTo(r, p), UNCHANGED val
    PROVE  Busy' = Busy /\ Passing' = Passing
  BY DEF RedisTypeOK, Busy, Passing, MoveTo, Places

\* The end of a request takes it out of both sets.
LEMMA Leaves ==
    ASSUME RedisTypeOK, NEW r \in Busy, at' = [at EXCEPT ![r] = "done"], UNCHANGED val
    PROVE  /\ Cardinality(Busy') = Cardinality(Busy) - 1
           /\ Cardinality(Passing') <= Cardinality(Passing)
<1>1. Busy' = Busy \ {r}
  BY DEF RedisTypeOK, Busy, Places
<1>2. Passing' \subseteq Passing
  BY <1>1 DEF Passing
<1>3. Cardinality(Busy') = Cardinality(Busy) - 1
  BY <1>1, SlotsFinite, FS_RemoveElement
<1>4. Cardinality(Passing') <= Cardinality(Passing)
  BY <1>2, SlotsFinite, FS_Subset
<1>. QED
  BY <1>3, <1>4

\* INCR adds the request to Busy; it passes only if its value allows, and then
\* the counter knew of fewer than MaxSlots others.
LEMMA Joins ==
    ASSUME SlotInv, NEW r \in Requests, Incr(r)
    PROVE  /\ Cardinality(Busy') = Cardinality(Busy) + 1
           /\ Cardinality(Passing') <= MaxSlots + owed
<1>. USE DEF SlotInv
<1>1. r \notin Busy /\ Busy' = Busy \cup {r}
  BY DEF RedisTypeOK, Busy, Incr, MoveTo, Places
<1>2. Cardinality(Busy') = Cardinality(Busy) + 1
  BY <1>1, SlotsFinite, FS_AddElement
<1>3. CASE count + 1 <= MaxSlots
  <2>1. Passing' \subseteq Busy \cup {r}
    BY <1>1 DEF Passing
  <2>2. IsFiniteSet(Busy \cup {r}) /\ Cardinality(Busy \cup {r}) = Cardinality(Busy) + 1
    BY <1>1, SlotsFinite, FS_AddElement
  <2>3. Cardinality(Passing') <= Cardinality(Busy) + 1
    BY <2>1, <2>2, FS_Subset
  <2>4. Cardinality(Busy) <= count + owed
    BY SlotsFinite DEF CountAccounted, RedisTypeOK
  <2>. QED
    BY <2>3, <2>4, <1>2, <1>3, SlotsFinite, PassingFiniteNext, RedisSlotsAssumption
       DEF RedisTypeOK
<1>4. CASE ~(count + 1 <= MaxSlots)
  <2>1. val'[r] = count + 1
    BY DEF Incr, RedisTypeOK
  <2>2. Passing' \subseteq Passing
    BY <2>1, <1>1, <1>4 DEF Passing, Incr, RedisTypeOK, Busy
  <2>3. Cardinality(Passing') <= Cardinality(Passing)
    BY <2>2, SlotsFinite, FS_Subset
  <2>. QED
    BY <2>3, <1>2, SlotsFinite, PassingFiniteNext, RedisSlotsAssumption
       DEF PassingBounded, RedisTypeOK
<1>. QED
  BY <1>2, <1>3, <1>4

\* An account without a counter satisfies the invariant.
THEOREM SlotInitInv == RedisInit => SlotInv
<1>. SUFFICES ASSUME RedisInit PROVE SlotInv
  OBVIOUS
<1>1. RedisTypeOK
  <2>1. key \in BOOLEAN
    BY DEF RedisInit
  <2>2. at \in [Requests -> Places] /\ val \in [Requests -> Int]
    BY DEF RedisInit, Places
  <2>3. /\ count \in Int /\ ttl \in Int /\ Forever <= ttl /\ ttl <= SLOT_TTL
        /\ owed \in Nat /\ leaked \in Nat
    BY RedisSlotsAssumption DEF RedisInit, Forever
  <2>. QED
    BY <2>1, <2>2, <2>3 DEF RedisTypeOK
<1>2. Busy = {} /\ Passing = {}
  BY DEF RedisInit, Busy, Passing, Places
<1>3. Cardinality(Busy) = 0 /\ Cardinality(Passing) = 0
  BY <1>2, FS_EmptySet
<1>4. count = 0 /\ owed = 0 /\ leaked = 0
  BY DEF RedisInit
<1>. QED
  BY <1>1, <1>3, <1>4, RedisSlotsAssumption DEF SlotInv, CountAccounted, PassingBounded

\* Every step keeps the types of the counter, of its life and of the requests.
LEMMA SlotTypeNext == ASSUME RedisTypeOK, [RedisNext]_redisVars PROVE RedisTypeOK'
<1>. USE RedisSlotsAssumption
<1>1. CASE UNCHANGED redisVars
  BY <1>1 DEF RedisTypeOK, redisVars, history
<1>2. CASE Ages
  <2>1. CASE ttl = 1
    <3>1. key' \in BOOLEAN
      BY <1>2, <2>1 DEF Ages
    <3>2. count' = 0 /\ ttl' = Forever /\ UNCHANGED <<at, val>>
      BY <1>2, <2>1 DEF Ages
    <3>3. owed' \in Nat /\ leaked' \in Nat
      BY <1>2, <2>1, SlotsFinite DEF Ages
    <3>. QED
      BY <3>1, <3>2, <3>3 DEF RedisTypeOK, Forever
  <2>2. CASE ttl # 1
    <3>1. ttl > 0 /\ ttl' = ttl - 1 /\ UNCHANGED <<key, count, at, val, owed, leaked>>
      BY <1>2, <2>2 DEF Ages, history
    <3>. QED
      BY <3>1 DEF RedisTypeOK, Forever
  <2>. QED
    BY <2>1, <2>2
<1>3. ASSUME NEW r \in Requests, Step(r) \/ Abandon(r) PROVE RedisTypeOK'
  <2>1. CASE Incr(r)
    BY <2>1 DEF RedisTypeOK, Incr, Add, MoveTo, Places, history
  <2>2. CASE Expire(r)
    <3>1. ttl' = ttl \/ ttl' = SLOT_TTL
      BY <2>2 DEF Expire
    <3>2. /\ UNCHANGED <<key, count, val, owed, leaked>>
          /\ at' \in [Requests -> Places]
      BY <2>2 DEF Expire, MoveTo, RedisTypeOK, Places, history
    <3>. QED
      BY <3>1, <3>2 DEF RedisTypeOK, Forever
  <2>3. CASE Decide(r)
    BY <2>3 DEF RedisTypeOK, Decide, MoveTo, Places, history
  <2>4. CASE Undo(r)
    BY <2>4 DEF RedisTypeOK, Undo, Add, MoveTo, Places, history
  <2>5. CASE BodyEnds(r)
    BY <2>5 DEF RedisTypeOK, BodyEnds, MoveTo, Places, history
  <2>6. CASE ReleaseSlot(r)
    BY <2>6 DEF RedisTypeOK, ReleaseSlot, Add, MoveTo, Places, history
  <2>7. CASE Abandon(r)
    BY <2>7 DEF RedisTypeOK, Abandon, Places
  <2>. QED
    BY <1>3, <2>1, <2>2, <2>3, <2>4, <2>5, <2>6, <2>7 DEF Step
<1>. QED
  BY <1>1, <1>2, <1>3 DEF RedisNext

\* Every step keeps the invariant, also the expiry of the counter under running
\* requests, which makes all of them owed.
THEOREM SlotNextInv == ASSUME SlotInv, [RedisNext]_redisVars PROVE SlotInv'
<1>. USE RedisSlotsAssumption
<1>0. RedisTypeOK /\ CountAccounted /\ PassingBounded
  BY DEF SlotInv
<1>1. RedisTypeOK'
  BY <1>0, SlotTypeNext
<1>2. CountAccounted' /\ PassingBounded'
  <2>1. CASE UNCHANGED redisVars
    <3>1. Busy' = Busy /\ Passing' = Passing /\ UNCHANGED <<count, owed, leaked>>
      BY <2>1 DEF redisVars, history, Busy, Passing
    <3>. QED
      BY <1>0, <3>1 DEF CountAccounted, PassingBounded
  <2>2. CASE Ages
    <3>1. Busy' = Busy /\ Passing' = Passing
      BY <2>2 DEF Ages, Busy, Passing
    <3>2. CASE ttl = 1
      <4>1. count' = 0 /\ owed' = Cardinality(Busy) /\ leaked' = 0
        BY <2>2, <3>2 DEF Ages
      <4>2. Passing \subseteq Busy
        BY DEF Passing
      <4>3. Cardinality(Passing) <= Cardinality(Busy)
        BY <4>2, SlotsFinite, FS_Subset
      <4>. QED
        BY <3>1, <4>1, <4>3, SlotsFinite DEF CountAccounted, PassingBounded
    <3>3. CASE ttl # 1
      <4>1. UNCHANGED <<count, owed, leaked>>
        BY <2>2, <3>3 DEF Ages, history
      <4>. QED
        BY <1>0, <3>1, <4>1 DEF CountAccounted, PassingBounded
    <3>. QED
      BY <3>2, <3>3
  <2>3. ASSUME NEW r \in Requests, Incr(r) PROVE CountAccounted' /\ PassingBounded'
    <3>1. /\ Cardinality(Busy') = Cardinality(Busy) + 1
          /\ Cardinality(Passing') <= MaxSlots + owed
      BY <2>3, Joins
    <3>2. count' = count + 1 /\ UNCHANGED <<owed, leaked>>
      BY <2>3 DEF Incr, Add, MoveTo, history
    <3>. QED
      BY <1>0, <3>1, <3>2, SlotsFinite DEF CountAccounted, PassingBounded, RedisTypeOK
  <2>4. ASSUME NEW r \in Requests, Expire(r) \/ Decide(r) \/ BodyEnds(r)
        PROVE  CountAccounted' /\ PassingBounded'
    <3>1. PICK p \in Places \ {"idle", "done"} : MoveTo(r, p)
      BY <2>4 DEF Expire, Decide, BodyEnds, Places
    <3>2. r \in Busy /\ UNCHANGED val /\ UNCHANGED <<count, owed, leaked>>
      BY <2>4 DEF Expire, Decide, BodyEnds, MoveTo, history, Busy, Places
    <3>3. Busy' = Busy /\ Passing' = Passing
      BY <1>0, <3>1, <3>2, Stays
    <3>. QED
      BY <1>0, <3>2, <3>3 DEF CountAccounted, PassingBounded
  <2>5. ASSUME NEW r \in Requests, Undo(r) \/ ReleaseSlot(r) \/ Abandon(r)
        PROVE  CountAccounted' /\ PassingBounded'
    <3>1. r \in Busy /\ at' = [at EXCEPT ![r] = "done"] /\ UNCHANGED <<val, owed>>
      BY <2>5 DEF Undo, ReleaseSlot, Abandon, MoveTo, history, Busy, Places
    <3>2. /\ Cardinality(Busy') = Cardinality(Busy) - 1
          /\ Cardinality(Passing') <= Cardinality(Passing)
      BY <1>0, <3>1, Leaves
    <3>3. \/ count' = count - 1 /\ leaked' = leaked
          \/ count' = count /\ leaked' = leaked + 1
      BY <1>0, <2>5 DEF Undo, ReleaseSlot, Abandon, Add, MoveTo, history, RedisTypeOK
    <3>. QED
      BY <1>0, <3>1, <3>2, <3>3, SlotsFinite, PassingFiniteNext
         DEF CountAccounted, PassingBounded, RedisTypeOK
  <2>. QED
    BY <2>1, <2>2, <2>3, <2>4, <2>5 DEF RedisNext, Step
<1>. QED
  BY <1>1, <1>2 DEF SlotInv

\* A holder was let through by INCR and has its decrement to come.
HoldersPassed == \A r \in Requests : at[r] \in {"holding", "releasing"} => val[r] <= MaxSlots

\* Only Decide lets a request hold, and it looks at the value of INCR.
LEMMA HoldersPassedNext ==
    ASSUME RedisTypeOK, HoldersPassed, [RedisNext]_redisVars PROVE HoldersPassed'
<1>. USE RedisSlotsAssumption
<1>1. CASE UNCHANGED redisVars \/ Ages
  BY <1>1 DEF redisVars, Ages, HoldersPassed
<1>2. ASSUME NEW r \in Requests, Step(r) \/ Abandon(r) PROVE HoldersPassed'
  <2>1. CASE Incr(r)
    BY <2>1 DEF Incr, MoveTo, HoldersPassed, RedisTypeOK
  <2>2. CASE Decide(r)
    BY <2>2 DEF Decide, MoveTo, HoldersPassed, RedisTypeOK
  <2>3. CASE Expire(r) \/ Undo(r) \/ ReleaseSlot(r) \/ Abandon(r)
    BY <2>3 DEF Expire, Undo, ReleaseSlot, Abandon, MoveTo, HoldersPassed, RedisTypeOK
  <2>4. CASE BodyEnds(r)
    BY <2>4 DEF BodyEnds, MoveTo, HoldersPassed, RedisTypeOK
  <2>. QED
    BY <1>2, <2>1, <2>2, <2>3, <2>4 DEF Step
<1>. QED
  BY <1>1, <1>2 DEF RedisNext

\* acquire_slot and release_slot over Redis let at most MaxSlots requests of an
\* account into their slots, and as many more as were under way when the
\* counter last expired, whatever calls fail and whichever handlers are dropped.
THEOREM OverrunAlwaysBounded == RedisSpec => []OverrunBounded
<1>1. RedisInit => HoldersPassed
  BY DEF RedisInit, HoldersPassed
<1>2. SlotInv => RedisTypeOK
  BY DEF SlotInv
<1>3. SlotInv /\ HoldersPassed => OverrunBounded
  <2>. SUFFICES ASSUME SlotInv, HoldersPassed PROVE OverrunBounded
    OBVIOUS
  <2>1. Holders \subseteq Passing
    BY DEF Holders, Passing, Busy, Places, HoldersPassed
  <2>2. Cardinality(Holders) <= Cardinality(Passing)
    BY <2>1, SlotsFinite, FS_Subset
  <2>. QED
    BY <2>2, SlotsFinite, RedisSlotsAssumption
       DEF SlotInv, PassingBounded, RedisTypeOK, OverrunBounded
<1>4. SlotInv /\ [RedisNext]_redisVars => SlotInv'
  BY SlotNextInv
<1>5. SlotInv /\ HoldersPassed /\ [RedisNext]_redisVars => HoldersPassed'
  BY <1>2, HoldersPassedNext
<1>. QED
  BY <1>1, <1>3, <1>4, <1>5, SlotInitInv, PTL DEF RedisSpec

\* The Redis counter differs from the requests under way by exactly those that
\* the last expiry forgot and those that were abandoned since, in every
\* interleaving of the commands, expiries, lost calls and dropped handlers.
THEOREM CountAlwaysAccounted == RedisSpec => [](RedisTypeOK /\ CountAccounted)
<1>1. SlotInv /\ [RedisNext]_redisVars => SlotInv'
  BY SlotNextInv
<1>2. SlotInv => RedisTypeOK /\ CountAccounted
  BY DEF SlotInv
<1>. QED
  BY <1>1, <1>2, SlotInitInv, PTL DEF RedisSpec
-------------------------------------------------------------------------------
\* A caller in the critical section owns the lock until its time is over, and
\* its timer and the lock's remaining time are two views of one deadline.
HoldInv ==
    \A c \in Callers : InTime(c) =>
        /\ owner = c
        /\ lockLeft = LockTTL - timer[c]

USE TimesAssumption, WaitAssumption, GrantsAssumption DEF Pending, Failed

\* The first state has the right types.
LEMMA OAuthInitType == OAuthInit => OAuthTypeOK
  <1> SUFFICES ASSUME OAuthInit PROVE OAuthTypeOK
    OBVIOUS
  <1>1. /\ oauth \in BOOLEAN /\ authError \in BOOLEAN
        /\ adminOauth \in BOOLEAN /\ lost \in BOOLEAN
        /\ fallback \in [Callers -> BOOLEAN]
    BY DEF OAuthInit
  <1>2. /\ access \in 0..Life /\ refresh \in 0..MaxGrants
        /\ owner \in Callers \cup {NoOne} /\ lockLeft \in -1..LockTTL
        /\ adminCopy \in 0..Life /\ adminGrant \in 0..MaxGrants
        /\ admin \in {"idle", "read"}
        /\ live \subseteq 1..MaxGrants /\ grants \in 1..MaxGrants
    BY DEF OAuthInit
  <1>3. /\ pc \in [Callers -> PCs]
        /\ copy \in [Callers -> 0..Life]
        /\ copyGrant \in [Callers -> 0..MaxGrants]
        /\ answer \in [Callers -> 0..Life]
        /\ answerGrant \in [Callers -> 0..MaxGrants]
        /\ timer \in [Callers -> 0..(MaxHold + 1)]
        /\ attempts \in [Callers -> 0..WaitAttempts]
        /\ ret \in [Callers -> Pending..Life]
    BY DEF OAuthInit, PCs, Holding
  <1> QED
    BY <1>1, <1>2, <1>3 DEF OAuthTypeOK

\* What the steps of a caller do to its own values keeps their types.
LEMMA LocalsType ==
    ASSUME OAuthTypeOK, NEW c \in Callers, NEW r \in Pending..Life
    PROVE  /\ DropCopy(c) => /\ copy' \in [Callers -> 0..Life]
                             /\ copyGrant' \in [Callers -> 0..MaxGrants]
                             /\ fallback' \in [Callers -> BOOLEAN]
           /\ DropAnswer(c) => /\ answer' \in [Callers -> 0..Life]
                               /\ answerGrant' \in [Callers -> 0..MaxGrants]
           /\ StartTimer(c) => /\ timer' \in [Callers -> 0..(MaxHold + 1)]
                               /\ attempts' \in [Callers -> 0..WaitAttempts]
           /\ Goto(c, "done") => pc' \in [Callers -> PCs]
           /\ Goto(c, "unlock") => pc' \in [Callers -> PCs]
           /\ ret' = [ret EXCEPT ![c] = r] => ret' \in [Callers -> Pending..Life]
  <1>1. DropCopy(c) => fallback' \in [Callers -> BOOLEAN]
    BY DEF OAuthTypeOK, DropCopy
  <1> QED
    BY <1>1 DEF OAuthTypeOK, DropCopy, DropAnswer, StartTimer, Goto, PCs, Holding

\* A caller that returns an answer keeps the types.
LEMMA ReturnType ==
    ASSUME OAuthTypeOK, NEW c \in Callers, NEW r \in Pending..Life,
           Return(c, r) \/ (Unlocking(c, r))
    PROVE  /\ pc' \in [Callers -> PCs]
           /\ copy' \in [Callers -> 0..Life]
           /\ copyGrant' \in [Callers -> 0..MaxGrants]
           /\ fallback' \in [Callers -> BOOLEAN]
           /\ answer' \in [Callers -> 0..Life]
           /\ answerGrant' \in [Callers -> 0..MaxGrants]
           /\ timer' \in [Callers -> 0..(MaxHold + 1)]
           /\ attempts' \in [Callers -> 0..WaitAttempts]
           /\ ret' \in [Callers -> Pending..Life]
  BY LocalsType DEF Return, Unlocking, OAuthTypeOK

\* Reading the row and deciding what to do keeps the types.
LEMMA ResolveType ==
    ASSUME OAuthTypeOK, NEW c \in Callers, ReadAccount(c) \/ Resolve(c)
    PROVE  OAuthTypeOK'
  <1>1. CASE ReadAccount(c)
    BY <1>1 DEF ReadAccount, Goto, OAuthTypeOK, PCs, accountvars, lockvars, adminvars,
                upvars
  <1>2. CASE ResolveCopy(c)
    <2>1. copy[c] \in Pending..Life
      BY DEF OAuthTypeOK
    <2> QED
      BY <1>2, <2>1, ReturnType
         DEF ResolveCopy, OAuthTypeOK, accountvars, lockvars, adminvars, upvars
  <1>3. CASE ResolveLocked(c)
    <2>1. 0 \in Pending..Life
      OBVIOUS
    <2>2. /\ copy' \in [Callers -> 0..Life]
          /\ copyGrant' \in [Callers -> 0..MaxGrants]
          /\ fallback' \in [Callers -> BOOLEAN]
          /\ timer' \in [Callers -> 0..(MaxHold + 1)]
          /\ attempts' \in [Callers -> 0..WaitAttempts]
      BY <1>3, <2>1, LocalsType DEF ResolveLocked
    <2>3. pc' \in [Callers -> PCs]
      BY <1>3 DEF ResolveLocked, Goto, OAuthTypeOK, PCs, Holding
    <2>4. owner' \in Callers \cup {NoOne} /\ lockLeft' \in -1..LockTTL
      BY <1>3 DEF ResolveLocked, acquire_lock
    <2> QED
      BY <1>3, <2>2, <2>3, <2>4
         DEF ResolveLocked, OAuthTypeOK, accountvars, adminvars, upvars
  <1>4. CASE ResolveWaits(c)
    <2>1. 0 \in Pending..Life
      OBVIOUS
    <2> QED
      BY <1>4, <2>1, LocalsType DEF ResolveWaits, OAuthTypeOK, Goto, PCs, accountvars,
         lockvars, adminvars, upvars
  <1> QED
    BY <1>1, <1>2, <1>3, <1>4 DEF Resolve

\* Polling for the result of another refresh keeps the types.
LEMMA WaitType ==
    ASSUME OAuthTypeOK, NEW c \in Callers, Wait(c)
    PROVE  OAuthTypeOK'
  <1>1. CASE Poll(c)
    <2>1. access \in Pending..Life /\ Failed \in Pending..Life
      BY DEF OAuthTypeOK
    <2>2. CASE Return(c, access) \/ Return(c, Failed)
      BY <1>1, <2>1, <2>2, ReturnType
         DEF Poll, OAuthTypeOK, accountvars, lockvars, adminvars, upvars
    <2>3. CASE ~GivesUp(c) /\ SleepAgain(c)
      BY <1>1, <2>3 DEF Poll, SleepAgain, GivesUp, OAuthTypeOK, accountvars, lockvars,
         adminvars, upvars
    <2> QED
      BY <1>1, <2>2, <2>3 DEF Poll
  <1>2. CASE PollFails(c)
    <2>1. Failed \in Pending..Life
      OBVIOUS
    <2> QED
      BY <1>2, <2>1, ReturnType
         DEF PollFails, OAuthTypeOK, accountvars, lockvars, adminvars, upvars
  <1> QED
    BY <1>1, <1>2 DEF Wait

\* The second read under the lock keeps the types.
LEMMA RereadType ==
    ASSUME OAuthTypeOK, NEW c \in Callers, Reread(c)
    PROVE  OAuthTypeOK'
  <1>1. access \in Pending..Life /\ Failed \in Pending..Life
    BY DEF OAuthTypeOK
  <1>2. CASE RereadValid(c)
    BY <1>1, <1>2, ReturnType
       DEF RereadValid, OAuthTypeOK, accountvars, lockvars, adminvars, upvars
  <1>3. CASE RereadFails(c)
    BY <1>1, <1>3, ReturnType
       DEF RereadFails, OAuthTypeOK, accountvars, lockvars, adminvars, upvars
  <1>4. CASE RereadEmpty(c)
    BY <1>1, <1>4, ReturnType
       DEF RereadEmpty, OAuthTypeOK, lockvars, adminvars, upvars
  <1>5. CASE CallUpstream(c)
    <2>1. fallback' \in [Callers -> BOOLEAN]
      BY <1>5 DEF CallUpstream, OAuthTypeOK
    <2> QED
      BY <1>5, <2>1 DEF CallUpstream, Goto, OAuthTypeOK, PCs, Holding, accountvars,
         lockvars, adminvars, upvars
  <1> QED
    BY <1>2, <1>3, <1>4, <1>5 DEF Reread

\* A token rotation at the upstream keeps the types.
LEMMA IssueType ==
    ASSUME OAuthTypeOK, NEW c \in Callers, NEW rotated \in BOOLEAN, Issue(c, rotated)
    PROVE  grants' \in 1..MaxGrants /\ live' \subseteq 1..MaxGrants
  <1>1. CASE rotated
    <2>1. grants + 1 \in 1..MaxGrants /\ grants' = grants + 1
      BY <1>1 DEF OAuthTypeOK, Issue
    <2>2. live' = (live \ {copyGrant[c]}) \cup {grants + 1}
      BY <1>1 DEF Issue
    <2> QED
      BY <2>1, <2>2 DEF OAuthTypeOK
  <1>2. CASE ~rotated
    BY <1>2 DEF OAuthTypeOK, Issue
  <1> QED
    BY <1>1, <1>2

\* The upstream's answers keep the types.
LEMMA UpstreamType ==
    ASSUME OAuthTypeOK, NEW c \in Callers, Upstream(c)
    PROVE  OAuthTypeOK'
  <1>1. ASSUME NEW rotated \in BOOLEAN, UpstreamAnswers(c, rotated)
        PROVE  OAuthTypeOK'
    <2>1. answerGrant' \in [Callers -> 0..MaxGrants]
      <3>1. CASE rotated
        BY <1>1, <3>1 DEF UpstreamAnswers, Issue, refresh_oauth_token, OAuthTypeOK
      <3>2. CASE ~rotated
        BY <1>1, <3>2 DEF UpstreamAnswers, Issue, refresh_oauth_token, OAuthTypeOK
      <3> QED
        BY <3>1, <3>2
    <2>2. grants' \in 1..MaxGrants /\ live' \subseteq 1..MaxGrants
      BY <1>1, IssueType DEF UpstreamAnswers
    <2>3. pc' \in [Callers -> PCs] /\ answer' \in [Callers -> 0..Life]
      BY <1>1 DEF UpstreamAnswers, Goto, OAuthTypeOK, PCs, Holding
    <2> QED
      BY <1>1, <2>1, <2>2, <2>3
         DEF UpstreamAnswers, OAuthTypeOK, accountvars, lockvars, adminvars
  <1>2. CASE UpstreamRefuses(c)
    BY <1>2 DEF UpstreamRefuses, Goto, OAuthTypeOK, PCs, Holding, accountvars, lockvars,
                callvars, adminvars, upvars
  <1>3. CASE AnswerLost(c)
    BY <1>3, IssueType DEF AnswerLost, Goto, OAuthTypeOK, PCs, Holding, accountvars,
       lockvars, callvars, adminvars
  <1> QED
    BY <1>1, <1>2, <1>3 DEF Upstream

\* Storing the new tokens keeps the types.
LEMMA StoreType ==
    ASSUME OAuthTypeOK, NEW c \in Callers, Store(c) \/ Release(c) \/ Cancel(c)
    PROVE  OAuthTypeOK'
  <1>1. /\ Failed \in Pending..Life
        /\ answer[c] \in Pending..Life
        /\ ret[c] \in Pending..Life
        /\ (IF fallback[c] THEN copy[c] ELSE Failed) \in Pending..Life
    BY DEF OAuthTypeOK
  <1>2. CASE StoreTokens(c)
    BY <1>1, <1>2, ReturnType DEF StoreTokens, update_oauth_tokens, OAuthTypeOK,
       lockvars, adminvars, upvars
  <1>3. CASE StoreFails(c)
    BY <1>1, <1>3, ReturnType DEF StoreFails, OAuthTypeOK, accountvars, lockvars,
       adminvars
  <1>4. CASE RefreshFailed(c)
    BY <1>1, <1>4, ReturnType DEF RefreshFailed, OAuthTypeOK, lockvars, adminvars,
       upvars
  <1>5. CASE Release(c)
    BY <1>1, <1>5, ReturnType DEF Release, release_lock, OAuthTypeOK, accountvars,
       lockvars, adminvars, upvars
  <1>6. CASE Cancel(c)
    BY <1>1, <1>6, ReturnType DEF Cancel, OAuthTypeOK, accountvars, lockvars, adminvars
  <1> QED
    BY <1>2, <1>3, <1>4, <1>5, <1>6 DEF Store

\* The administrator's read, merge and write keep the types.
LEMMA AdminType ==
    ASSUME OAuthTypeOK, Admin
    PROVE  OAuthTypeOK'
  <1>1. CASE AdminRead
    BY <1>1 DEF AdminRead, OAuthTypeOK, accountvars, lockvars, callvars, upvars
  <1>2. ASSUME NEW isOauth \in BOOLEAN, NEW token \in 0..Life,
               NEW grant \in 0..MaxGrants, AdminWrite(isOauth, token, grant),
               live' \subseteq 1..MaxGrants, grants' \in 1..MaxGrants,
               lost' \in BOOLEAN
        PROVE  OAuthTypeOK'
    <2>1. access' \in 0..Life /\ refresh' \in 0..MaxGrants
      BY <1>2 DEF AdminWrite
    <2>2. oauth' \in BOOLEAN /\ authError' \in BOOLEAN /\ adminOauth' \in BOOLEAN
      BY <1>2 DEF AdminWrite
    <2>3. /\ admin' \in {"idle", "read"}
          /\ adminCopy' \in 0..Life /\ adminGrant' \in 0..MaxGrants
      BY <1>2 DEF AdminWrite
    <2> QED
      BY <1>2, <2>1, <2>2, <2>3 DEF AdminWrite, OAuthTypeOK, lockvars, callvars
  <1>3. CASE AdminEdit
    BY <1>2, <1>3 DEF AdminEdit, OAuthTypeOK
  <1>4. CASE AdminLogin
    <2>1. grants + 1 \in 0..MaxGrants /\ Life \in 0..Life
      BY <1>4 DEF AdminLogin, OAuthTypeOK
    <2>2. live' \subseteq 1..MaxGrants /\ grants' \in 1..MaxGrants
      BY <1>4 DEF AdminLogin, OAuthTypeOK
    <2> QED
      BY <1>2, <1>4, <2>1, <2>2 DEF AdminLogin
  <1>5. CASE AdminSetupToken
    <2>1. 0 \in 0..Life /\ 0 \in 0..MaxGrants /\ FALSE \in BOOLEAN
      OBVIOUS
    <2>2. /\ live' \subseteq 1..MaxGrants /\ grants' \in 1..MaxGrants
          /\ lost' \in BOOLEAN
      BY <1>5 DEF AdminSetupToken, OAuthTypeOK, upvars
    <2> QED
      BY <1>2, <1>5, <2>1, <2>2 DEF AdminSetupToken
  <1> QED
    BY <1>1, <1>3, <1>4, <1>5 DEF Admin

\* The passing of time keeps the types.
LEMMA TickType ==
    ASSUME OAuthTypeOK, Tick
    PROVE  OAuthTypeOK'
  <1>1. timer' \in [Callers -> 0..(MaxHold + 1)]
    BY DEF OAuthTypeOK, Tick
  <1>2. \A n \in 0..Life : Before(n) \in 0..Life
    BY DEF Before
  <1>3. /\ access' \in 0..Life /\ adminCopy' \in 0..Life
        /\ copy' \in [Callers -> 0..Life] /\ answer' \in [Callers -> 0..Life]
    BY <1>2 DEF OAuthTypeOK, Tick
  <1>4. lockLeft' \in -1..LockTTL
    BY DEF OAuthTypeOK, Tick
  <1>5. lost' \in BOOLEAN
    BY DEF OAuthTypeOK, Tick
  <1> QED
    BY <1>1, <1>3, <1>4, <1>5 DEF OAuthTypeOK, Tick

\* Stuttering keeps the types.
LEMMA StutterType ==
    ASSUME OAuthTypeOK, UNCHANGED oauthVars
    PROVE  OAuthTypeOK'
  BY DEF OAuthTypeOK, oauthVars, accountvars, lockvars, callvars, adminvars, upvars

\* Every variable of the refresh protocol keeps its type: time never runs
\* below zero, the polls stay within OAUTH_WAIT_ATTEMPTS.
THEOREM OAuthTypesHold == OAuthSpec => []OAuthTypeOK
  <1>1. OAuthTypeOK /\ [OAuthNext]_oauthVars => OAuthTypeOK'
    <2> SUFFICES ASSUME OAuthTypeOK, [OAuthNext]_oauthVars PROVE OAuthTypeOK'
      OBVIOUS
    <2>1. ASSUME NEW c \in Callers, ReadAccount(c) \/ Caller(c) \/ Cancel(c)
          PROVE  OAuthTypeOK'
      BY <2>1, ResolveType, WaitType, RereadType, UpstreamType, StoreType
         DEF Caller
    <2> QED
      BY <2>1, AdminType, TickType, StutterType DEF OAuthNext
  <1> QED
    BY <1>1, OAuthInitType, PTL DEF OAuthSpec
-------------------------------------------------------------------------------
\* A caller's step, other than taking the lock, leaves the others alone.
LEMMA OthersUntouched ==
    ASSUME OAuthTypeOK, NEW c \in Callers,
           ReadAccount(c) \/ Caller(c) \/ Cancel(c)
    PROVE  \A d \in Callers \ {c} : pc'[d] = pc[d] /\ timer'[d] = timer[d]
  <1>1. ASSUME NEW r, Return(c, r) \/ Unlocking(c, r)
        PROVE  \A d \in Callers \ {c} : pc'[d] = pc[d] /\ timer'[d] = timer[d]
    BY <1>1 DEF Return, Unlocking, Goto, StartTimer, OAuthTypeOK
  <1>2. CASE ReadAccount(c) \/ CallUpstream(c) \/ Upstream(c)
    BY <1>2 DEF ReadAccount, CallUpstream, Upstream, UpstreamAnswers,
       UpstreamRefuses, AnswerLost, Goto, callvars, OAuthTypeOK
  <1>3. CASE ResolveLocked(c) \/ ResolveWaits(c)
    BY <1>3 DEF ResolveLocked, ResolveWaits, Goto, StartTimer, OAuthTypeOK
  <1>4. CASE Poll(c)
    BY <1>1, <1>4 DEF Poll, SleepAgain, OAuthTypeOK
  <1>5. CASE ResolveCopy(c) \/ PollFails(c) \/ Release(c) \/ Cancel(c)
    BY <1>1, <1>5 DEF ResolveCopy, PollFails, Release, Cancel
  <1>6. CASE RereadValid(c) \/ RereadFails(c) \/ RereadEmpty(c) \/ Store(c)
    BY <1>1, <1>6 DEF RereadValid, RereadFails, RereadEmpty, Store, StoreTokens,
       StoreFails, RefreshFailed
  <1> QED
    BY <1>2, <1>3, <1>4, <1>5, <1>6 DEF Caller, Resolve, Wait, Reread

\* Within the critical section a caller keeps the lock and the time.
LEMMA InsideTimes ==
    ASSUME NEW c \in Callers, Reread(c) \/ Upstream(c) \/ Store(c)
    PROVE  /\ pc[c] \in Holding
           /\ UNCHANGED <<owner, lockLeft>>
           /\ timer'[c] = timer[c]
  <1>1. ASSUME NEW r, Unlocking(c, r)
        PROVE  timer'[c] = timer[c]
    BY <1>1 DEF Unlocking
  <1>2. CASE Reread(c)
    BY <1>1, <1>2 DEF Reread, RereadValid, RereadFails, RereadEmpty,
       CallUpstream, Holding, lockvars
  <1>3. CASE Upstream(c)
    BY <1>3 DEF Upstream, UpstreamAnswers, UpstreamRefuses, AnswerLost,
       Holding, lockvars, callvars
  <1>4. CASE Store(c)
    BY <1>1, <1>4 DEF Store, StoreTokens, StoreFails, RefreshFailed, Holding,
       lockvars
  <1> QED
    BY <1>2, <1>3, <1>4

\* Steps inside the critical section keep the deadline invariant.
LEMMA InsideHolds ==
    ASSUME OAuthTypeOK, HoldInv, NEW c \in Callers,
           Reread(c) \/ Upstream(c) \/ Store(c)
    PROVE  HoldInv'
  <1>1. /\ pc[c] \in Holding
        /\ UNCHANGED <<owner, lockLeft>>
        /\ timer'[c] = timer[c]
    BY InsideTimes
  <1>2. \A d \in Callers \ {c} : pc'[d] = pc[d] /\ timer'[d] = timer[d]
    BY OthersUntouched DEF Caller
  <1>3. \A d \in Callers : pc'[d] \in Holding => pc[d] \in Holding
    BY <1>1, <1>2
  <1> QED
    BY <1>1, <1>2, <1>3 DEF HoldInv, InTime

\* The steps that are outside of it.
LEMMA OutsideTimes ==
    ASSUME OAuthTypeOK, NEW c \in Callers,
           \/ ReadAccount(c) \/ ResolveCopy(c) \/ ResolveWaits(c) \/ Wait(c)
           \/ Release(c) \/ Cancel(c)
    PROVE  pc'[c] \notin Holding
  BY DEF ReadAccount, ResolveCopy, ResolveWaits, Wait, Poll, PollFails,
     SleepAgain, Release, Cancel, Return, Goto, Holding, OAuthTypeOK

\* They keep the lock, except the last, which gives back the caller's own.
LEMMA OutsideHolds ==
    ASSUME OAuthTypeOK, HoldInv, NEW c \in Callers,
           \/ ReadAccount(c) \/ ResolveCopy(c) \/ ResolveWaits(c) \/ Wait(c)
           \/ Release(c) \/ Cancel(c)
    PROVE  HoldInv'
  <1>1. \A d \in Callers \ {c} : pc'[d] = pc[d] /\ timer'[d] = timer[d]
    BY OthersUntouched DEF Caller, Resolve
  <1>2. pc'[c] \notin Holding
    BY OutsideTimes
  <1>3. CASE UNCHANGED <<owner, lockLeft>>
    BY <1>1, <1>2, <1>3 DEF HoldInv, InTime
  <1>4. CASE Release(c) /\ owner = c
    <2>1. \A d \in Callers \ {c} : ~InTime(d)
      BY <1>4 DEF HoldInv
    <2> QED
      BY <1>1, <1>2, <2>1 DEF HoldInv, InTime
  <1> QED
    BY <1>3, <1>4 DEF ReadAccount, ResolveCopy, ResolveWaits, Wait, Poll,
       PollFails, Release, release_lock, Cancel, lockvars

\* Taking the lock: it was free, so no one else was inside in time.
LEMMA LockingHolds ==
    ASSUME OAuthTypeOK, HoldInv, NEW c \in Callers, ResolveLocked(c)
    PROVE  HoldInv'
  <1>1. \A d \in Callers : ~InTime(d)
    <2> SUFFICES ASSUME NEW d \in Callers, InTime(d) PROVE FALSE
      OBVIOUS
    <2>1. owner = d /\ lockLeft = LockTTL - timer[d] /\ timer[d] <= LockTTL
      BY DEF HoldInv, InTime
    <2>2. timer[d] \in Int /\ lockLeft \in Int
      BY DEF OAuthTypeOK
    <2>3. owner = NoOne \/ lockLeft < 0
      BY DEF ResolveLocked, LockFree
    <2> QED
      BY <2>1, <2>2, <2>3, CallersAssumption
  <1>2. \A d \in Callers \ {c} : pc'[d] = pc[d] /\ timer'[d] = timer[d]
    BY OthersUntouched DEF Caller, Resolve
  <1>3. owner' = c /\ lockLeft' = LockTTL /\ timer'[c] = 0
    BY DEF ResolveLocked, acquire_lock, StartTimer, OAuthTypeOK
  <1> QED
    BY <1>1, <1>2, <1>3 DEF HoldInv, InTime

\* A tick moves the holder's timer and its lock by the same amount.
LEMMA TickHolds ==
    ASSUME OAuthTypeOK, HoldInv, Tick
    PROVE  HoldInv'
  <1> SUFFICES ASSUME NEW c \in Callers, pc[c] \in Holding, timer'[c] <= LockTTL
               PROVE  owner' = c /\ lockLeft' = LockTTL - timer'[c]
    BY DEF HoldInv, InTime, Tick
  <1>1. timer[c] \in Nat /\ timer'[c] = timer[c] + 1
    BY DEF Tick, OAuthTypeOK
  <1>2. owner = c /\ lockLeft = LockTTL - timer[c]
    BY <1>1 DEF HoldInv, InTime
  <1> QED
    BY <1>1, <1>2 DEF Tick

\* Every step keeps the deadline invariant.
LEMMA HoldStep ==
    ASSUME OAuthTypeOK, HoldInv, [OAuthNext]_oauthVars
    PROVE  HoldInv'
  <1>1. ASSUME NEW c \in Callers, ReadAccount(c) \/ Caller(c) \/ Cancel(c)
        PROVE  HoldInv'
    BY <1>1, InsideHolds, OutsideHolds, LockingHolds DEF Caller, Resolve
  <1>2. CASE Admin
    BY <1>2 DEF Admin, AdminRead, AdminEdit, AdminLogin, AdminSetupToken,
       AdminWrite, HoldInv, InTime, lockvars, callvars
  <1>3. CASE UNCHANGED oauthVars
    BY <1>3 DEF HoldInv, InTime, oauthVars, lockvars, callvars
  <1> QED
    BY <1>1, <1>2, <1>3, TickHolds DEF OAuthNext

\* The deadline invariant gives ownership of the lock and exclusion.
LEMMA HoldImplies == OAuthTypeOK /\ HoldInv => HolderOwnsLock /\ ExclusiveRefresh
  <1>1. OAuthTypeOK /\ HoldInv => HolderOwnsLock
    BY DEF OAuthTypeOK, HoldInv, HolderOwnsLock, InTime
  <1>2. HolderOwnsLock => ExclusiveRefresh
    BY DEF HolderOwnsLock, ExclusiveRefresh
  <1> QED
    BY <1>1, <1>2

\* The deadline invariant holds in every reachable state.
THEOREM Held == OAuthSpec => [](OAuthTypeOK /\ HoldInv)
  <1>1. OAuthInit => HoldInv
    BY DEF OAuthInit, HoldInv, InTime, Holding
  <1>2. OAuthTypeOK /\ HoldInv /\ [OAuthNext]_oauthVars => HoldInv'
    BY HoldStep
  <1> QED
    BY <1>1, <1>2, OAuthTypesHold, PTL DEF OAuthSpec

\* For as long as OAUTH_LOCK_TTL promises, a caller inside
\* refresh_oauth_access_token owns an unexpired lock, however long the
\* refreshes of others take.
THEOREM LockHeld == OAuthSpec => []HolderOwnsLock
  BY Held, HoldImplies, PTL

\* And therefore the account is refreshed by two callers at once only if one
\* of them has outlasted its lock.
THEOREM RefreshExclusive == OAuthSpec => []ExclusiveRefresh
  BY Held, HoldImplies, PTL

\* Whatever a refresh takes, the lock of a live owner is never taken away.
THEOREM LocksRespected == OAuthSpec => LockRespected
  <1>1. OAuthTypeOK /\ [OAuthNext]_oauthVars =>
          [\A c \in Callers :
             owner = c /\ owner' # c => pc[c] = "unlock" \/ lockLeft < 0]_oauthVars
    <2> SUFFICES ASSUME OAuthTypeOK, OAuthNext, NEW c \in Callers, owner = c, owner' # c
                 PROVE  pc[c] = "unlock" \/ lockLeft < 0
      OBVIOUS
    <2>1. ASSUME NEW d \in Callers, ReadAccount(d) \/ Caller(d) \/ Cancel(d)
          PROVE  pc[c] = "unlock" \/ lockLeft < 0
      <3>1. ResolveLocked(d) \/ Release(d)
        BY <2>1 DEF ReadAccount, Caller, Resolve, ResolveCopy, ResolveWaits,
           Wait, Poll, PollFails, Reread, RereadValid, RereadFails,
           RereadEmpty, CallUpstream, Upstream, UpstreamAnswers,
           UpstreamRefuses, AnswerLost, Store, StoreTokens, StoreFails,
           RefreshFailed, Cancel, lockvars
      <3> QED
        BY <3>1, CallersAssumption
           DEF ResolveLocked, LockFree, Release, release_lock, lockvars
    <2>2. CASE Admin
      BY <2>2 DEF Admin, AdminRead, AdminEdit, AdminLogin, AdminSetupToken,
         AdminWrite, lockvars
    <2>3. CASE Tick
      BY <2>3 DEF Tick
    <2> QED
      BY <2>1, <2>2, <2>3 DEF OAuthNext
  <1> QED
    BY <1>1, OAuthTypesHold, PTL DEF OAuthSpec, LockRespected
-------------------------------------------------------------------------------
\* No one outlasts its lock; a rotated token on its way to the row is one the
\* upstream still accepts, for no one else can have used it up; and the row, or
\* such an answer, holds an accepted token.
AllInTime == \A c \in Callers : pc[c] \in Holding => InTime(c)
AnswersLive ==
    \A c \in Callers : pc[c] = "answered" => answerGrant[c] \in live
Accepted ==
    \/ refresh \in live \cup {0}
    \/ \E c \in Callers : pc[c] = "answered" /\ answerGrant[c] \in live

GrantInv == lost \/ (AllInTime /\ AnswersLive /\ Accepted)

\* A caller enters in time, and its steps take no time.
LEMMA InTimeStays ==
    ASSUME OAuthTypeOK, AllInTime, NEW c \in Callers,
           ReadAccount(c) \/ Caller(c) \/ Cancel(c)
    PROVE  AllInTime'
  <1>1. \A d \in Callers \ {c} : pc'[d] = pc[d] /\ timer'[d] = timer[d]
    BY OthersUntouched
  <1>2. pc'[c] \in Holding => timer'[c] <= LockTTL
    <2>1. CASE Reread(c) \/ Upstream(c) \/ Store(c)
      BY <2>1, InsideTimes DEF AllInTime, InTime
    <2>2. CASE ResolveLocked(c)
      BY <2>2 DEF ResolveLocked, StartTimer, OAuthTypeOK
    <2>3. CASE \/ ReadAccount(c) \/ ResolveCopy(c) \/ ResolveWaits(c) \/ Wait(c)
               \/ Release(c) \/ Cancel(c)
      BY <2>3, OutsideTimes
    <2> QED
      BY <2>1, <2>2, <2>3 DEF Caller, Resolve
  <1> QED
    BY <1>1, <1>2 DEF AllInTime, InTime

\* Steps that touch neither the row, nor the upstream, nor an answer.
LEMMA SameGrants ==
    ASSUME GrantInv, UNCHANGED <<refresh, live>>, lost => lost',
           AllInTime => AllInTime' \/ lost',
           \A d \in Callers : pc'[d] = "answered" =>
               pc[d] = "answered" /\ answerGrant'[d] = answerGrant[d],
           \A d \in Callers : pc[d] = "answered" =>
               lost' \/ (pc'[d] = "answered" /\ answerGrant'[d] = answerGrant[d])
    PROVE  GrantInv'
  <1>1. CASE lost
    BY <1>1 DEF GrantInv
  <1>2. CASE ~lost
    <2>1. AllInTime /\ AnswersLive /\ Accepted
      BY <1>2 DEF GrantInv
    <2>2. CASE ~lost'
      <3>1. AnswersLive'
        BY <2>1, <2>2 DEF AnswersLive
      <3>2. Accepted'
        BY <2>1, <2>2 DEF Accepted
      <3> QED
        BY <2>1, <2>2, <3>1, <3>2 DEF GrantInv
    <2> QED
      BY <2>2 DEF GrantInv
  <1> QED
    BY <1>1, <1>2

\* Returning from resolve_upstream_token touches neither the row nor the upstream.
LEMMA ReturnGrants ==
    ASSUME OAuthTypeOK, GrantInv, NEW c \in Callers, NEW r,
           Return(c, r) \/ Unlocking(c, r), UNCHANGED <<refresh, live>>,
           lost => lost', pc[c] = "answered" => lost', AllInTime => AllInTime'
    PROVE  GrantInv'
  <1>1. /\ pc'[c] # "answered"
        /\ \A d \in Callers \ {c} : pc'[d] = pc[d]
        /\ \A d \in Callers \ {c} : answerGrant'[d] = answerGrant[d]
    BY DEF Return, Unlocking, Goto, DropAnswer, OAuthTypeOK
  <1> QED
    BY <1>1, SameGrants

\* The steps of a caller keep the stored refresh token acceptable.
LEMMA CallerGrants ==
    ASSUME OAuthTypeOK, HoldInv, GrantInv, NEW c \in Callers,
           ReadAccount(c) \/ Caller(c) \/ Cancel(c)
    PROVE  GrantInv'
  <1>a. AllInTime => AllInTime'
    BY InTimeStays
  <1>b. ASSUME AllInTime, pc[c] \in {"calling", "answered"}
        PROVE  \A d \in Callers \ {c} : pc[d] \notin {"calling", "answered"}
    BY <1>b, HoldImplies DEF AllInTime, ExclusiveRefresh, Holding
  <1>1. CASE ReadAccount(c) \/ ResolveLocked(c) \/ ResolveWaits(c)
             \/ CallUpstream(c) \/ UpstreamRefuses(c)
    <2>1. UNCHANGED <<refresh, live, lost, answerGrant>>
      BY <1>1 DEF ReadAccount, ResolveLocked, ResolveWaits, CallUpstream,
         UpstreamRefuses, accountvars, callvars, upvars
    <2>2. \E l \in {"copied", "reading", "waiting", "calling", "refused"} :
              Goto(c, l)
      BY <1>1 DEF ReadAccount, ResolveLocked, ResolveWaits, CallUpstream,
         UpstreamRefuses
    <2>3. pc[c] # "answered"
      BY <1>1 DEF ReadAccount, ResolveLocked, ResolveWaits, CallUpstream,
         UpstreamRefuses
    <2>4. /\ pc'[c] # "answered"
          /\ \A d \in Callers \ {c} : pc'[d] = pc[d]
      BY <2>2 DEF Goto, OAuthTypeOK
    <2> QED
      BY <1>a, <2>1, <2>3, <2>4, SameGrants
  <1>2. CASE ResolveCopy(c) \/ PollFails(c) \/ Release(c) \/ RereadValid(c)
             \/ RereadFails(c) \/ RereadEmpty(c) \/ RefreshFailed(c)
    <2>1. UNCHANGED <<refresh, live, lost>>
      BY <1>2 DEF ResolveCopy, PollFails, Release, RereadValid, RereadFails,
         RereadEmpty, RefreshFailed, accountvars, upvars
    <2>2. pc[c] # "answered"
      BY <1>2 DEF ResolveCopy, PollFails, Release, RereadValid, RereadFails,
         RereadEmpty, RefreshFailed
    <2>3. PICK r : Return(c, r) \/ Unlocking(c, r)
      BY <1>2 DEF ResolveCopy, PollFails, Release, RereadValid, RereadFails,
         RereadEmpty, RefreshFailed
    <2> QED
      BY <1>a, <2>1, <2>2, <2>3, ReturnGrants
  <1>3. CASE StoreFails(c) \/ Cancel(c)
    <2>1. lost \in BOOLEAN
      BY DEF OAuthTypeOK
    <2>2. lost => lost'
      BY <1>3, <2>1 DEF StoreFails, Cancel
    <2>3. pc[c] = "answered" => lost'
      BY <1>3, <2>1 DEF StoreFails, Cancel
    <2> QED
      BY <1>a, <1>3, <2>2, <2>3, ReturnGrants DEF StoreFails, Cancel, accountvars
  <1>4. CASE Poll(c)
    <2>1. CASE SleepAgain(c)
      BY <1>a, <1>4, <2>1, SameGrants DEF Poll, SleepAgain, accountvars, upvars
    <2>2. CASE Return(c, access) \/ Return(c, Failed)
      BY <1>a, <1>4, <2>2, ReturnGrants DEF Poll, accountvars, upvars
    <2> QED
      BY <1>4, <2>1, <2>2 DEF Poll
  <1>5. ASSUME NEW rotated \in BOOLEAN, UpstreamAnswers(c, rotated)
        PROVE  GrantInv'
    <2>1. /\ pc'[c] = "answered"
          /\ \A d \in Callers \ {c} : pc'[d] = pc[d]
      BY <1>5 DEF UpstreamAnswers, Goto, OAuthTypeOK
    <2>2. AllInTime => \A d \in Callers \ {c} : pc[d] # "answered"
      BY <1>5, <1>b DEF UpstreamAnswers
    <2>3. answerGrant'[c] \in live'
      <3>1. CASE rotated
        BY <1>5, <3>1 DEF UpstreamAnswers, refresh_oauth_token, Issue, OAuthTypeOK
      <3>2. CASE ~rotated
        BY <1>5, <3>2 DEF UpstreamAnswers, refresh_oauth_token, Issue, OAuthTypeOK
      <3> QED
        BY <3>1, <3>2
    <2>4. AllInTime => AnswersLive' /\ Accepted'
      BY <2>1, <2>2, <2>3 DEF AnswersLive, Accepted
    <2>5. lost' = lost
      BY <1>5 DEF UpstreamAnswers
    <2> QED
      BY <1>a, <2>4, <2>5 DEF GrantInv
  <1>6. CASE AnswerLost(c)
    <2>1. lost'
      BY <1>6 DEF AnswerLost
    <2> QED
      BY <2>1 DEF GrantInv
  <1>7. CASE StoreTokens(c)
    <2>1. refresh' = answerGrant[c] /\ UNCHANGED <<live, lost>>
      BY <1>7 DEF StoreTokens, update_oauth_tokens, upvars
    <2>2. AnswersLive => answerGrant[c] \in live
      BY <1>7 DEF StoreTokens, AnswersLive
    <2>3. /\ pc'[c] # "answered"
          /\ \A d \in Callers \ {c} :
               pc'[d] = pc[d] /\ answerGrant'[d] = answerGrant[d]
      BY <1>7 DEF StoreTokens, Unlocking, Goto, DropAnswer, OAuthTypeOK
    <2>4. AnswersLive => AnswersLive' /\ Accepted'
      BY <2>1, <2>2, <2>3 DEF AnswersLive, Accepted
    <2> QED
      BY <1>a, <2>1, <2>4 DEF GrantInv
  <1> QED
    BY <1>1, <1>2, <1>3, <1>4, <1>5, <1>6, <1>7
       DEF Caller, Resolve, Wait, Reread, Upstream, Store

\* A new login and a merged update keep the stored refresh token acceptable.
LEMMA AdminGrants ==
    ASSUME OAuthTypeOK, GrantInv, Admin
    PROVE  GrantInv'
  <1>1. UNCHANGED <<pc, answerGrant, timer>>
    BY DEF Admin, AdminRead, AdminEdit, AdminLogin, AdminSetupToken, AdminWrite,
       callvars
  <1>2. AllInTime => AllInTime'
    BY <1>1 DEF AllInTime, InTime
  <1>3. CASE AdminRead
    BY <1>1, <1>2, <1>3, SameGrants DEF AdminRead, accountvars, upvars
  <1>4. CASE AdminEdit
    <2>1. refresh' = 0 \/ refresh' = refresh \/ lost'
      BY <1>4 DEF AdminEdit, AdminWrite
    <2>2. lost => lost'
      BY <1>4 DEF AdminEdit
    <2>3. UNCHANGED live
      BY <1>4 DEF AdminEdit
    <2>4. AnswersLive => AnswersLive'
      BY <1>1, <2>3 DEF AnswersLive
    <2>5. Accepted => Accepted' \/ lost'
      BY <1>1, <2>1, <2>3 DEF Accepted
    <2> QED
      BY <1>2, <2>2, <2>4, <2>5 DEF GrantInv
  <1>5. CASE AdminLogin
    <2>1. refresh' \in live'
      BY <1>5 DEF AdminLogin, AdminWrite
    <2>2. live \subseteq live'
      BY <1>5 DEF AdminLogin
    <2>3. Accepted'
      BY <2>1 DEF Accepted
    <2>4. AnswersLive => AnswersLive'
      BY <1>1, <2>2 DEF AnswersLive
    <2>5. CASE ~lost
      BY <1>2, <2>3, <2>4, <2>5 DEF GrantInv
    <2>6. CASE lost /\ \E c \in Callers : pc[c] \in Holding
      <3>1. lost'
        BY <1>5, <2>6 DEF AdminLogin
      <3> QED
        BY <3>1 DEF GrantInv
    <2>7. CASE \A c \in Callers : pc[c] \notin Holding
      <3>1. AllInTime' /\ AnswersLive'
        BY <1>1, <2>7 DEF AllInTime, AnswersLive, Holding
      <3> QED
        BY <2>3, <3>1 DEF GrantInv
    <2> QED
      BY <2>5, <2>6, <2>7
  <1>6. CASE AdminSetupToken
    <2>1. refresh' = 0 /\ UNCHANGED <<live, lost>>
      BY <1>6 DEF AdminSetupToken, AdminWrite, upvars
    <2>2. Accepted' /\ (AnswersLive => AnswersLive')
      BY <1>1, <2>1 DEF Accepted, AnswersLive
    <2> QED
      BY <1>2, <2>1, <2>2 DEF GrantInv
  <1> QED
    BY <1>3, <1>4, <1>5, <1>6 DEF Admin

\* A tick keeps it acceptable, or records that a refresh outlasted its lock.
LEMMA TickGrants ==
    ASSUME OAuthTypeOK, GrantInv, Tick
    PROVE  GrantInv'
  <1>1. lost => lost'
    BY DEF Tick
  <1>2. AllInTime => AllInTime' \/ lost'
    <2> SUFFICES ASSUME AllInTime, ~lost' PROVE AllInTime'
      OBVIOUS
    <2>1. \A c \in Callers : pc[c] \in Holding => ~(timer[c] >= LockTTL)
      BY DEF Tick
    <2>2. \A c \in Callers : pc[c] \in Holding => timer[c] \in Nat /\ timer'[c] = timer[c] + 1
      BY DEF Tick, OAuthTypeOK
    <2> QED
      BY <2>1, <2>2 DEF AllInTime, InTime, Tick
  <1> QED
    BY <1>1, <1>2, SameGrants DEF Tick

\* The refresh token in the row stays one the upstream accepts, through every
\* interleaving of refreshes, rotations, cancellations and admin edits in which
\* no rotated token is dropped and no refresh outlasts its lock.
THEOREM RefreshTokenStaysUsable == OAuthSpec => []RefreshTokenUsable
  <1>1. OAuthInit => GrantInv
    BY DEF OAuthInit, GrantInv, AllInTime, Holding, AnswersLive, Accepted
  <1>2. OAuthTypeOK /\ HoldInv /\ GrantInv /\ [OAuthNext]_oauthVars => GrantInv'
    <2> SUFFICES ASSUME OAuthTypeOK, HoldInv, GrantInv, [OAuthNext]_oauthVars
                 PROVE  GrantInv'
      OBVIOUS
    <2>1. CASE UNCHANGED oauthVars
      <3>1. UNCHANGED <<refresh, live, lost, pc, timer, answerGrant>>
        BY <2>1 DEF oauthVars, accountvars, callvars, upvars
      <3> QED
        BY <3>1, SameGrants DEF AllInTime, InTime
    <2> QED
      BY <2>1, CallerGrants, AdminGrants, TickGrants DEF OAuthNext
  <1>3. GrantInv => RefreshTokenUsable
    BY DEF GrantInv, Accepted, RefreshTokenUsable
  <1> QED
    BY <1>1, <1>2, <1>3, Held, PTL DEF OAuthSpec
===============================================================================
