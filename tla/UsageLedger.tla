------------------------------ MODULE UsageLedger -----------------------------
(***************************************************************************)
(* The usage ledger: UsageService::submit puts an event on the bounded      *)
(* queue of its process, run_writer collects batches and inserts them with  *)
(* retries, run_pricing_refresh installs new prices and backfills rows that *)
(* were stored without one.  Several gateway processes may share one        *)
(* database; each has its own queue, counters, writer and refresh task.     *)
(*                                                                          *)
(* An event is the attempt it reports.  Its cost is abstracted to the       *)
(* version of the price list that covered its model, Unpriced if none did.  *)
(***************************************************************************)
EXTENDS Integers, Sequences, FiniteSets

CONSTANTS Attempts,     \* upstream responses that carried usage
          Keys,         \* dedup keys
          Key,          \* attempt -> its dedup_key
          Instances,    \* gateway processes
          Homes,        \* possible values of inst
          Versions,     \* price lists; Builtin is the one compiled in
          Builtin,
          Covers,       \* pairs <<attempt, version>>: its model has a price
          Served,       \* process -> the price lists its sources serve
          QueueCapacity, BatchSize,
          MaxRetry,     \* retries of a failed insert_batch
          PageSize,     \* PRICING_BACKFILL_BATCH_SIZE
          WritesFail,   \* whether the writer's inserts may fail
          PricingFails, \* processes whose refresh task's queries may fail
          MaxRestarts   \* member of Homes -> process -> bound on its restarts

ASSUME KeyAssumption == Key \in [Attempts -> Keys]
ASSUME VersionsAssumption == /\ Versions \subseteq Nat \ {0}
                             /\ Builtin \in Versions
                             /\ Covers \subseteq Attempts \X Versions
                             /\ Served \in [Instances -> SUBSET Versions]
ASSUME LedgerAssumption == /\ QueueCapacity \in Nat \ {0}
                           /\ BatchSize \in Nat \ {0}
                           /\ MaxRetry \in Nat
                           /\ PageSize \in Nat \ {0}
                           /\ MaxRestarts \in [Homes -> [Instances -> Nat]]
                           /\ WritesFail \in BOOLEAN
                           /\ PricingFails \subseteq Instances
                           /\ IsFiniteSet(Attempts)

Unpriced == 0
None == "none"
ASSUME NoneAssumption == /\ None \notin Attempts \cup Instances
                         /\ Homes \subseteq [Attempts -> Instances \cup {None}]

VARIABLES fate,      \* attempt -> how far its event has come
          inst,      \* attempt -> the process that observes it, None: it
                     \* never happens
          cost,      \* attempt -> the cost its event carries
          queue,     \* process -> the channel to its writer
          wpc, batch, retry,                          \* its writer
          observed, persisted, duplicate, dropped, failed,  \* its counters
          pricing,   \* process -> the price list in memory
          rpc, engine, after, page,                   \* its refresh task
          rowOf, rowCost, rowId, lastId,  \* usage_events: by dedup key
          saved,     \* usage_pricing_cache
          restarts

eventvars == <<fate, inst, cost>>
writervars == <<wpc, batch, retry>>
counters == <<observed, persisted, duplicate, dropped, failed>>
refreshvars == <<rpc, engine, after, page>>
rowvars == <<rowOf, rowCost, rowId, lastId>>
vars == <<eventvars, queue, writervars, counters, pricing, refreshvars, rowvars,
          saved, restarts>>

Fates == {"none", "sending", "queued", "batched", "stored", "dropped",
          "failed", "lost"}
Stored == {k \in Keys : rowOf[k] # None}
Elems(s) == {s[j] : j \in 1..Len(s)}

Init == /\ fate = [a \in Attempts |-> "none"]
        /\ inst \in Homes
        /\ cost = [a \in Attempts |-> Unpriced]
        /\ queue = [i \in Instances |-> <<>>]
        /\ wpc = [i \in Instances |-> "idle"]
        /\ batch = [i \in Instances |-> <<>>]
        /\ retry = [i \in Instances |-> 0]
        /\ observed = [i \in Instances |-> 0]
        /\ persisted = [i \in Instances |-> 0]
        /\ duplicate = [i \in Instances |-> 0]
        /\ dropped = [i \in Instances |-> 0]
        /\ failed = [i \in Instances |-> 0]
        /\ pricing = [i \in Instances |-> Builtin]
        /\ rpc = [i \in Instances |-> "scan"]
        /\ engine = [i \in Instances |-> Builtin]
        /\ after = [i \in Instances |-> 0]
        /\ page = [i \in Instances |-> {}]
        /\ rowOf = [k \in Keys |-> None]
        /\ rowCost = [k \in Keys |-> Unpriced]
        /\ rowId = [k \in Keys |-> 0]
        /\ lastId = 0
        /\ saved = Builtin
        /\ restarts = [i \in Instances |-> 0]

\* PricingEngine::price, as far as completeness goes.
price(a, v) == IF <<a, v>> \in Covers THEN v ELSE Unpriced
-------------------------------------------------------------------------------
(***************************************************************************)
(* UsageService::submit: price, count as observed, try_send.                *)
(***************************************************************************)
Observe(a) ==
    /\ fate[a] = "none" /\ inst[a] # None
    /\ fate' = [fate EXCEPT ![a] = "sending"]
    /\ cost' = [cost EXCEPT ![a] = price(a, pricing[inst[a]])]
    /\ observed' = [observed EXCEPT ![inst[a]] = @ + 1]
    /\ UNCHANGED <<inst, queue, writervars, persisted, duplicate, dropped,
                   failed, pricing, refreshvars, rowvars, saved, restarts>>

MutSendDrops(a) ==
    IF Len(queue[inst[a]]) < QueueCapacity
    THEN /\ queue' = [queue EXCEPT ![inst[a]] = Append(@, a)]
         /\ fate' = [fate EXCEPT ![a] = "queued"]
         /\ UNCHANGED dropped
    ELSE /\ fate' = [fate EXCEPT ![a] = "dropped"]
         /\ UNCHANGED <<queue, dropped>>
try_send(a) ==
    IF Len(queue[inst[a]]) < QueueCapacity
    THEN /\ queue' = [queue EXCEPT ![inst[a]] = Append(@, a)]
         /\ fate' = [fate EXCEPT ![a] = "queued"]
         /\ UNCHANGED dropped
    ELSE /\ fate' = [fate EXCEPT ![a] = "dropped"]
         /\ dropped' = [dropped EXCEPT ![inst[a]] = @ + 1]
         /\ UNCHANGED queue

Send(a) ==
    /\ fate[a] = "sending"
    /\ try_send(a)
    /\ UNCHANGED <<inst, cost, writervars, observed, persisted, duplicate,
                   failed, pricing, refreshvars, rowvars, saved, restarts>>
-------------------------------------------------------------------------------
(***************************************************************************)
(* run_writer.                                                              *)
(***************************************************************************)
\* receiver.recv(): the first event opens a batch, later ones join it until
\* it is full or its deadline has passed.
Recv(i) ==
    /\ queue[i] # <<>>
    /\ wpc[i] = "idle" \/ (wpc[i] = "collecting" /\ Len(batch[i]) < BatchSize)
    /\ batch' = [batch EXCEPT ![i] = Append(@, Head(queue[i]))]
    /\ queue' = [queue EXCEPT ![i] = Tail(@)]
    /\ fate' = [fate EXCEPT ![Head(queue[i])] = "batched"]
    /\ wpc' = [wpc EXCEPT ![i] = "collecting"]
    /\ UNCHANGED <<inst, cost, retry, counters, pricing, refreshvars, rowvars,
                   saved, restarts>>

\* The batch is closed; events without a price are priced once more with the
\* price list of this moment.
MutCloseBatch(i) ==
    /\ wpc[i] = "collecting" /\ Len(batch[i]) = BatchSize
    /\ wpc' = [wpc EXCEPT ![i] = "writing"]
    /\ UNCHANGED <<eventvars, queue, batch, retry, counters, pricing,
                   refreshvars, rowvars, saved, restarts>>
CloseBatch(i) ==
    /\ wpc[i] = "collecting"
    /\ cost' = [a \in Attempts |->
                  IF a \in Elems(batch[i]) /\ cost[a] = Unpriced
                  THEN price(a, pricing[i]) ELSE cost[a]]
    /\ wpc' = [wpc EXCEPT ![i] = "writing"]
    /\ retry' = [retry EXCEPT ![i] = 0]
    /\ UNCHANGED <<fate, inst, queue, batch, counters, pricing, refreshvars,
                   rowvars, saved, restarts>>

\* insert_batch: one transaction, ON CONFLICT (dedup_key) DO NOTHING.  Within
\* a batch the first event of a key is the one that is kept.
KeysOf(b) == {Key[a] : a \in Elems(b)}
NewKeys(b) == KeysOf(b) \ Stored
First(b, k) == CHOOSE j \in 1..Len(b) :
                  Key[b[j]] = k /\ \A h \in 1..(j - 1) : Key[b[h]] # k
insert_batch(b) ==
    /\ rowOf' = [k \in Keys |-> IF k \in NewKeys(b) THEN b[First(b, k)]
                                                   ELSE rowOf[k]]
    /\ rowCost' = [k \in Keys |-> IF k \in NewKeys(b) THEN cost[b[First(b, k)]]
                                                     ELSE rowCost[k]]
    /\ rowId' = [k \in Keys |-> IF k \in NewKeys(b) THEN lastId + First(b, k)
                                                   ELSE rowId[k]]
    /\ lastId' = lastId + Len(b)

\* The batch is over: its events have the given fate.
MutEndBatch(i, f) ==
    /\ fate' = [a \in Attempts |-> IF a \in Elems(batch[i]) THEN "stored"
                                                         ELSE fate[a]]
    /\ batch' = [batch EXCEPT ![i] = <<>>]
    /\ wpc' = [wpc EXCEPT ![i] = "idle"]
    /\ retry' = [retry EXCEPT ![i] = 0]
EndBatch(i, f) ==
    /\ fate' = [a \in Attempts |-> IF a \in Elems(batch[i]) THEN f ELSE fate[a]]
    /\ batch' = [batch EXCEPT ![i] = <<>>]
    /\ wpc' = [wpc EXCEPT ![i] = "idle"]
    /\ retry' = [retry EXCEPT ![i] = 0]

InsertOk(i) ==
    /\ wpc[i] = "writing"
    /\ insert_batch(batch[i])
    /\ persisted' = [persisted EXCEPT ![i] = @ + Cardinality(NewKeys(batch[i]))]
    /\ duplicate' = [duplicate EXCEPT ![i] =
                       @ + (Len(batch[i]) - Cardinality(NewKeys(batch[i])))]
    /\ EndBatch(i, "stored")
    /\ UNCHANGED <<inst, cost, queue, observed, dropped, failed, pricing,
                   refreshvars, saved, restarts>>

\* insert_batch returns an error, and its transaction was rolled back, or it
\* was committed and only the answer was lost.  The last failure gives up.
GiveUp(i) == retry[i] >= MaxRetry
InsertError(i) ==
    /\ WritesFail
    /\ wpc[i] = "writing"
    /\ insert_batch(batch[i]) \/ UNCHANGED rowvars
    /\ IF GiveUp(i)
       THEN /\ failed' = [failed EXCEPT ![i] = @ + Len(batch[i])]
            /\ EndBatch(i, "failed")
       ELSE /\ retry' = [retry EXCEPT ![i] = @ + 1]
            /\ UNCHANGED <<fate, batch, wpc, failed>>
    /\ UNCHANGED <<inst, cost, queue, observed, persisted, duplicate, dropped,
                   pricing, refreshvars, saved, restarts>>
-------------------------------------------------------------------------------
(***************************************************************************)
(* run_pricing_refresh and backfill_unpriced_usage.  A failed fetch, or a   *)
(* price list that is rejected, changes nothing; a list that is fetched     *)
(* again is installed, saved and backfilled again.                          *)
(***************************************************************************)
FetchPricing(i, v) ==
    /\ rpc[i] = "sleep"
    /\ pricing' = [pricing EXCEPT ![i] = v]
    /\ rpc' = [rpc EXCEPT ![i] = "save"]
    /\ UNCHANGED <<eventvars, queue, writervars, counters, engine, after, page,
                   rowvars, saved, restarts>>

\* save_pricing_snapshot, whose failure is logged; then the backfill begins.
MutSavePricing(i) ==
    /\ rpc[i] = "save"
    /\ saved' = pricing[i]
    /\ rpc' = [rpc EXCEPT ![i] = "sleep"]
    /\ UNCHANGED <<eventvars, queue, writervars, counters, pricing, engine,
                   after, page, rowvars, restarts>>
SavePricing(i) ==
    /\ rpc[i] = "save"
    /\ saved' = pricing[i] \/ (i \in PricingFails /\ UNCHANGED saved)
    /\ rpc' = [rpc EXCEPT ![i] = "scan"]
    /\ engine' = [engine EXCEPT ![i] = pricing[i]]
    /\ after' = [after EXCEPT ![i] = 0]
    /\ UNCHANGED <<eventvars, queue, writervars, counters, pricing, page,
                   rowvars, restarts>>

\* unpriced_events_after: the next page of rows without a price, by id.
Unseen(i) == {k \in Stored : rowCost[k] = Unpriced /\ rowId[k] > after[i]}
NextPage(i) == {k \in Unseen(i) :
                  Cardinality({l \in Unseen(i) : rowId[l] < rowId[k]}) < PageSize}
Scan(i) ==
    /\ rpc[i] = "scan"
    /\ IF Unseen(i) = {}
       THEN /\ rpc' = [rpc EXCEPT ![i] = "sleep"]
            /\ after' = [after EXCEPT ![i] = 0]
            /\ engine' = [engine EXCEPT ![i] = Builtin]
            /\ UNCHANGED page
       ELSE /\ page' = [page EXCEPT ![i] = NextPage(i)]
            /\ after' = [after EXCEPT ![i] =
                 CHOOSE n \in {rowId[k] : k \in NextPage(i)} :
                     \A k \in NextPage(i) : rowId[k] <= n]
            /\ rpc' = [rpc EXCEPT ![i] = "apply"]
            /\ UNCHANGED engine
    /\ UNCHANGED <<eventvars, queue, writervars, counters, pricing, rowvars,
                   saved, restarts>>

\* apply_pricing_updates: rows of the page that the price list covers and
\* that still have no price.
MutUpdatable(i) == {k \in page[i] : price(rowOf[k], engine[i]) # Unpriced}
Updatable(i) == {k \in page[i] : /\ price(rowOf[k], engine[i]) # Unpriced
                                 /\ rowCost[k] = Unpriced}
Apply(i) ==
    /\ rpc[i] = "apply"
    /\ rowCost' = [k \in Keys |-> IF k \in Updatable(i)
                                 THEN price(rowOf[k], engine[i]) ELSE rowCost[k]]
    /\ page' = [page EXCEPT ![i] = {}]
    /\ rpc' = [rpc EXCEPT ![i] = "scan"]
    /\ UNCHANGED <<eventvars, queue, writervars, counters, pricing, engine,
                   after, rowOf, rowId, lastId, saved, restarts>>

\* A query of the backfill fails: the backfill ends here, and with it the
\* life of its price list and its position.
BackfillError(i) ==
    /\ i \in PricingFails
    /\ rpc[i] \in {"scan", "apply"}
    /\ rpc' = [rpc EXCEPT ![i] = "sleep"]
    /\ page' = [page EXCEPT ![i] = {}]
    /\ after' = [after EXCEPT ![i] = 0]
    /\ engine' = [engine EXCEPT ![i] = Builtin]
    /\ UNCHANGED <<eventvars, queue, writervars, counters, pricing, rowvars,
                   saved, restarts>>

\* The process ends and starts again: what was in memory is lost, start_inner
\* loads the saved price list, and keeps the built-in one if that fails.
Restart(i) ==
    /\ restarts[i] < MaxRestarts[inst][i]
    /\ restarts' = [restarts EXCEPT ![i] = @ + 1]
    /\ fate' = [a \in Attempts |->
          IF inst[a] = i /\ fate[a] \in {"sending", "queued", "batched"}
          THEN "lost" ELSE fate[a]]
    /\ queue' = [queue EXCEPT ![i] = <<>>]
    /\ batch' = [batch EXCEPT ![i] = <<>>]
    /\ wpc' = [wpc EXCEPT ![i] = "idle"]
    /\ retry' = [retry EXCEPT ![i] = 0]
    /\ observed' = [observed EXCEPT ![i] = 0]
    /\ persisted' = [persisted EXCEPT ![i] = 0]
    /\ duplicate' = [duplicate EXCEPT ![i] = 0]
    /\ dropped' = [dropped EXCEPT ![i] = 0]
    /\ failed' = [failed EXCEPT ![i] = 0]
    /\ \E v \in {saved} \cup {b \in {Builtin} : i \in PricingFails} :
          /\ pricing' = [pricing EXCEPT ![i] = v]
          /\ engine' = [engine EXCEPT ![i] = v]
    /\ rpc' = [rpc EXCEPT ![i] = "scan"]
    /\ after' = [after EXCEPT ![i] = 0]
    /\ page' = [page EXCEPT ![i] = {}]
    /\ UNCHANGED <<inst, cost, rowvars, saved>>
-------------------------------------------------------------------------------
Writer(i) == Recv(i) \/ CloseBatch(i) \/ InsertOk(i) \/ InsertError(i)
Backfill(i) == SavePricing(i) \/ Scan(i) \/ Apply(i) \/ BackfillError(i)
Refresh(i) == Backfill(i) \/ \E v \in Served[i] : FetchPricing(i, v)

Next == \/ \E a \in Attempts : Observe(a) \/ Send(a)
        \/ \E i \in Instances : Writer(i) \/ Refresh(i) \/ Restart(i)

Spec == Init /\ [][Next]_vars

\* The runtime keeps polling the tasks of a running process; retries and
\* deadlines are timers.
Fairness == /\ WF_vars(\E a \in Attempts : Send(a))
            /\ \A i \in Instances : WF_vars(Writer(i)) /\ WF_vars(Backfill(i))
FairSpec == Spec /\ Fairness

\* In addition, the price sources answer again and again, so that every
\* price list they can serve is installed at some later time.
PricesArrive ==
    \A i \in Instances : \A v \in Served[i] : SF_vars(FetchPricing(i, v))
RefreshSpec == FairSpec /\ PricesArrive
-------------------------------------------------------------------------------
TypeOK ==
    /\ fate \in [Attempts -> Fates]
    /\ inst \in Homes
    /\ cost \in [Attempts -> Versions \cup {Unpriced}]
    /\ queue \in [Instances -> Seq(Attempts)]
    /\ wpc \in [Instances -> {"idle", "collecting", "writing"}]
    /\ batch \in [Instances -> Seq(Attempts)]
    /\ retry \in [Instances -> 0..MaxRetry]
    /\ observed \in [Instances -> Nat]
    /\ persisted \in [Instances -> Nat]
    /\ duplicate \in [Instances -> Nat]
    /\ dropped \in [Instances -> Nat]
    /\ failed \in [Instances -> Nat]
    /\ pricing \in [Instances -> Versions]
    /\ rpc \in [Instances -> {"sleep", "save", "scan", "apply"}]
    /\ engine \in [Instances -> Versions]
    /\ after \in [Instances -> Nat]
    /\ page \in [Instances -> SUBSET Keys]
    /\ rowOf \in [Keys -> Attempts \cup {None}]
    /\ rowCost \in [Keys -> Versions \cup {Unpriced}]
    /\ rowId \in [Keys -> Nat]
    /\ lastId \in Nat
    /\ saved \in Versions
    /\ restarts \in [Instances -> Nat]
    /\ \A i \in Instances : restarts[i] \in 0..MaxRestarts[inst][i]

InFlight(i) == {a \in Attempts : inst[a] = i /\ fate[a] = "sending"}

\* The health counters account for every event since the process started:
\* what was observed is stored, a duplicate, dropped at the full queue, given
\* up after the last retry, or still in the queue, in the writer's batch or
\* about to be sent.
Conservation ==
    \A i \in Instances :
        observed[i] = persisted[i] + duplicate[i] + dropped[i] + failed[i]
                      + Len(queue[i]) + Len(batch[i]) + Cardinality(InFlight(i))

\* An event that the writer counts as persisted or as duplicate is in the
\* database: its key has a row, made from an event of that key.
StoredEventsHaveRows ==
    /\ \A a \in Attempts : fate[a] = "stored" => rowOf[Key[a]] # None
    /\ \A k \in Stored : Key[rowOf[k]] = k

\* README:731: rows that are completely priced are never priced again, and a
\* row is never replaced by another event of the same key, even with several
\* writers and backfills at work on one database.
PricedRowsFinal ==
    [][\A k \in Stored : /\ rowOf'[k] = rowOf[k]
                         /\ rowCost[k] # Unpriced => rowCost'[k] = rowCost[k]]_vars

\* Every event that is observed is settled, as stored, dropped, given up or
\* lost in a restart: again and again there is no event on its way.  The
\* writer never gets stuck on a batch, whatever the database does.
EventsSettle ==
    []<>(\A a \in Attempts : fate[a] \notin {"sending", "queued", "batched"})

\* README:731: rows stored without a price get one from a later price list,
\* also those that a writer with an old price list stores behind the back of
\* a running backfill, and those that the failing backfills of another
\* process pass over: again and again every row has its price.
UnpricedRowsBackfilled ==
    []<>(\A k \in Stored : rowCost[k] # Unpriced)
===============================================================================
