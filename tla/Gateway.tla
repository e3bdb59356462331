------------------------------- MODULE Gateway --------------------------------
(***************************************************************************)
(* The life of a proxied request in GatewayService::handle_request: account *)
(* selection, the concurrency slot in the in-process MemoryStore, token     *)
(* resolution, the upstream call, the 403 handling, and the response body   *)
(* that carries the slot and the usage attempt.  The client may disconnect  *)
(* at every await, which drops the handler's future (or the body) and with  *)
(* it everything the request owns; a dropped SlotHolder releases its slot   *)
(* in a task of its own.                                                    *)
(*                                                                          *)
(* Which accounts the limit state excludes is abstracted to a choice (see   *)
(* LimitStore); the account row is abstracted to its status and limit.      *)
(***************************************************************************)
EXTENDS Integers, Sequences, FiniteSets

CONSTANTS Requests,        \* each one request of a downstream client
          Metered,         \* those on the inference endpoint with an API token
          Accounts,
          MaxConcurrency,  \* bound on the concurrency an admin configures
          WritesFail       \* whether a write of the accounts table may fail

ASSUME MeteredAssumption == Metered \subseteq Requests
ASSUME RequestsAssumption == IsFiniteSet(Requests)
ASSUME ConcurrencyAssumption == MaxConcurrency \in Nat
ASSUME WritesFailAssumption == WritesFail \in BOOLEAN

VARIABLES status,     \* accounts table: account -> status
          concurrency, \* accounts table: account -> configured limit
          cache,      \* AccountStore.schedulable_cache: the limit of each
                      \* account it lists, Unlisted for the others
          slots,      \* MemoryStore.slots: account -> counter
          releasing,  \* account -> release_slot tasks spawned and not yet run
          pc,         \* where each request's handler is
          acct,       \* the account selected for the request
          quota,      \* account.concurrency as the request read it
          hold,       \* whether the request owns a live SlotHolder
          attempt,    \* its UsageAttempt: none, open, settled or lost
          draining,   \* requests whose wrapped-error body a task drains
          outcomes,   \* what the usage service was told about the request
          reply       \* what the client was answered

vars == <<status, concurrency, cache, slots, releasing, pc, acct, quota, hold,
          attempt, draining, outcomes, reply>>
dbvars == <<status, concurrency, cache>>
slotvars == <<slots, releasing, hold>>
usagevars == <<attempt, draining, outcomes>>

Unlisted == -1
EmptyCache == [a \in Accounts |-> Unlisted]

\* The await points of handle_request_inner and forward_request.
Awaiting == {"arrived", "selected", "token", "sending", "disabling"}
PCs == Awaiting \cup {"idle", "streaming", "done"}
Statuses == {"ok", "forbidden", "limited", "server_error"}
WrappedError == {"limited", "server_error"}
Replies == {"none", "cancelled", "intercepted", "no_account", "no_slot",
            "token_error", "bad_gateway", "passed"} \cup WrappedError

Init == /\ status = [a \in Accounts |-> "active"]
        /\ concurrency \in [Accounts -> 0..MaxConcurrency]
        /\ cache = EmptyCache
        /\ slots = [a \in Accounts |-> 0]
        /\ releasing = [a \in Accounts |-> 0]
        /\ pc = [r \in Requests |-> "idle"]
        /\ acct \in [Requests -> Accounts]
        /\ quota = [r \in Requests |-> 0]
        /\ hold = [r \in Requests |-> FALSE]
        /\ attempt = [r \in Requests |-> "none"]
        /\ draining = {}
        /\ outcomes = [r \in Requests |-> <<>>]
        /\ reply = [r \in Requests |-> "none"]

Holders(a) == {r \in Requests : hold[r] /\ acct[r] = a}
-------------------------------------------------------------------------------
(***************************************************************************)
(* The slot counter of MemoryStore.  Both operations hold the slots mutex   *)
(* to their end, so each is one step; there is no TTL in this store.        *)
(***************************************************************************)
MutSlotFree(a, max) == slots[a] <= max
SlotFree(a, max) == slots[a] + 1 <= max

MutAcquireNoRollback(a, max) ==
    slots' = [slots EXCEPT ![a] = @ + 1]
acquire_slot(a, max) ==
    slots' = IF SlotFree(a, max) THEN [slots EXCEPT ![a] = @ + 1] ELSE slots

MutReleaseLost(a) == UNCHANGED slots
release_slot(a) ==
    slots' = IF slots[a] > 0 THEN [slots EXCEPT ![a] = @ - 1] ELSE slots

\* Drop for SlotHolder: the release itself is left to a spawned task.
MutDropTwice(r) ==
    /\ hold' = [hold EXCEPT ![r] = FALSE]
    /\ releasing' = [releasing EXCEPT ![acct[r]] = @ + 1]
DropSlot(r) ==
    /\ hold' = [hold EXCEPT ![r] = FALSE]
    /\ releasing' = IF hold[r] THEN [releasing EXCEPT ![acct[r]] = @ + 1]
                               ELSE releasing

ReleaseTask(a) ==
    /\ releasing[a] > 0
    /\ releasing' = [releasing EXCEPT ![a] = @ - 1]
    /\ release_slot(a)
    /\ UNCHANGED <<dbvars, pc, acct, quota, hold, usagevars, reply>>
-------------------------------------------------------------------------------
\* The handler is done with request r and answers s.
Finish(r, s) == /\ pc' = [pc EXCEPT ![r] = "done"]
                /\ reply' = [reply EXCEPT ![r] = s]

\* gateway_authenticated hands the request over; its body is read.
Arrive(r) ==
    /\ pc[r] = "idle"
    /\ pc' = [pc EXCEPT ![r] = "arrived"]
    /\ UNCHANGED <<dbvars, slotvars, acct, quota, usagevars, reply>>

\* The Account value select_account may return: from the filled list cache,
\* from the rows the list query loads and caches, or from get_by_id for a
\* sticky session whose account the cache does not list.
Select(r, a) ==
    /\ pc[r] = "arrived"
    /\ \/ /\ cache[a] # Unlisted
          /\ quota' = [quota EXCEPT ![r] = cache[a]]
          /\ UNCHANGED dbvars
       \/ /\ cache[a] = Unlisted
          /\ status[a] = "active"
          /\ quota' = [quota EXCEPT ![r] = concurrency[a]]
          /\ \/ UNCHANGED cache
             \/ /\ cache = EmptyCache
                /\ cache' = [b \in Accounts |-> IF status[b] = "active"
                                               THEN concurrency[b] ELSE Unlisted]
          /\ UNCHANGED <<status, concurrency>>
    /\ acct' = [acct EXCEPT ![r] = a]
    /\ pc' = [pc EXCEPT ![r] = "selected"]
    /\ UNCHANGED <<slotvars, usagevars, reply>>

\* No candidate is left (or the query failed): 503.
NoAccount(r) ==
    /\ pc[r] = "arrived"
    /\ Finish(r, "no_account")
    /\ UNCHANGED <<dbvars, slotvars, acct, quota, usagevars>>

\* A client's telemetry request to an auto_telemetry account is answered
\* here, before any slot is taken.
Intercept(r) ==
    /\ pc[r] = "selected"
    /\ r \notin Metered
    /\ Finish(r, "intercepted")
    /\ UNCHANGED <<dbvars, slotvars, acct, quota, usagevars>>

AcquireSlot(r) ==
    /\ pc[r] = "selected"
    /\ acquire_slot(acct[r], quota[r])
    /\ \/ /\ SlotFree(acct[r], quota[r])
          /\ hold' = [hold EXCEPT ![r] = TRUE]
          /\ pc' = [pc EXCEPT ![r] = "token"]
          /\ UNCHANGED reply
       \/ /\ ~SlotFree(acct[r], quota[r])
          /\ Finish(r, "no_slot")
          /\ UNCHANGED hold
    /\ UNCHANGED <<dbvars, releasing, acct, quota, usagevars>>
-------------------------------------------------------------------------------
ResolveToken(r) ==
    /\ pc[r] = "token"
    /\ pc' = [pc EXCEPT ![r] = "sending"]
    /\ attempt' = [attempt EXCEPT ![r] = IF r \in Metered THEN "open" ELSE "none"]
    /\ UNCHANGED <<dbvars, slotvars, acct, quota, draining, outcomes, reply>>

TokenError(r) ==
    /\ pc[r] = "token"
    /\ DropSlot(r)
    /\ Finish(r, "token_error")
    /\ UNCHANGED <<dbvars, slots, acct, quota, usagevars>>

\* An open attempt that is dropped before a stream observes it is lost: no
\* usage was seen.
Lose(r) == attempt' = [attempt EXCEPT ![r] = IF @ = "open" THEN "lost" ELSE @]

SendError(r) ==
    /\ pc[r] = "sending"
    /\ DropSlot(r)
    /\ Lose(r)
    /\ Finish(r, "bad_gateway")
    /\ UNCHANGED <<dbvars, slots, acct, quota, draining, outcomes>>

\* The tail of forward_request and of handle_request_inner: a 429 or 5xx is
\* replaced by a generic body at once, its slot dropped, and a metered one
\* drained by a task; any other body is streamed with the slot attached.
MutBodyKeepsSlot(r, s) ==
    /\ IF s \in WrappedError
       THEN /\ Finish(r, s)
            /\ UNCHANGED <<hold, releasing>>
            /\ draining' = IF attempt[r] = "open" THEN draining \cup {r} ELSE draining
       ELSE /\ pc' = [pc EXCEPT ![r] = "streaming"]
            /\ UNCHANGED <<hold, releasing, draining, reply>>
ResponseBody(r, s) ==
    IF s \in WrappedError
    THEN /\ Finish(r, s)
         /\ DropSlot(r)
         /\ draining' = IF attempt[r] = "open" THEN draining \cup {r} ELSE draining
    ELSE /\ pc' = [pc EXCEPT ![r] = "streaming"]
         /\ UNCHANGED <<hold, releasing, draining, reply>>

Respond(r, s) ==
    /\ pc[r] = "sending"
    /\ IF s = "forbidden"
       THEN /\ pc' = [pc EXCEPT ![r] = "disabling"]
            /\ UNCHANGED <<hold, releasing, draining, reply>>
       ELSE ResponseBody(r, s)
    /\ UNCHANGED <<dbvars, slots, acct, quota, attempt, outcomes>>

\* AccountStore::disable_account: the row, then the list cache.
disable_account(a) ==
    /\ status' = [status EXCEPT ![a] = "disabled"]
    /\ cache' = EmptyCache
    /\ UNCHANGED concurrency

DisableAccount(r) ==
    /\ pc[r] = "disabling"
    /\ \/ disable_account(acct[r])
       \/ WritesFail /\ UNCHANGED dbvars       \* a failed write is only logged
    /\ ResponseBody(r, "forbidden")
    /\ UNCHANGED <<slots, acct, quota, attempt, outcomes>>
-------------------------------------------------------------------------------
\* ResponseObserver.finalize takes the attempt, so only the first call counts.
MutSettleKeepsAttempt(r) ==
    IF attempt[r] = "open"
    THEN /\ \E o \in {"usage", "no_usage"} :
               outcomes' = [outcomes EXCEPT ![r] = Append(@, o)]
         /\ UNCHANGED attempt
    ELSE UNCHANGED <<attempt, outcomes>>
Settle(r) ==
    IF attempt[r] = "open"
    THEN /\ \E o \in {"usage", "no_usage"} :
               outcomes' = [outcomes EXCEPT ![r] = Append(@, o)]
         /\ attempt' = [attempt EXCEPT ![r] = "settled"]
    ELSE UNCHANGED <<attempt, outcomes>>

\* The parser sees the end of the message before the body ends.
FinalizeEarly(r) ==
    /\ pc[r] = "streaming" \/ r \in draining
    /\ attempt[r] = "open"
    /\ Settle(r)
    /\ UNCHANGED <<dbvars, slotvars, pc, acct, quota, draining, reply>>

\* The streamed body ends, fails, or is dropped by a client that left.
BodyEnds(r) ==
    /\ pc[r] = "streaming"
    /\ Settle(r)
    /\ DropSlot(r)
    /\ Finish(r, "passed")
    /\ UNCHANGED <<dbvars, slots, acct, quota, draining>>

DrainEnds(r) ==
    /\ r \in draining
    /\ Settle(r)
    /\ draining' = draining \ {r}
    /\ UNCHANGED <<dbvars, slotvars, pc, acct, quota, reply>>

\* The client disconnects while the handler awaits: its future is dropped.
\* A disable_account in flight may or may not have reached the database.
ClientCancel(r) ==
    /\ pc[r] \in Awaiting
    /\ DropSlot(r)
    /\ Lose(r)
    /\ Finish(r, "cancelled")
    /\ \/ UNCHANGED dbvars
       \/ pc[r] = "disabling" /\ disable_account(acct[r])
    /\ UNCHANGED <<slots, acct, quota, draining, outcomes>>
-------------------------------------------------------------------------------
\* The admin API changes the row; every such write empties the list cache.
SetConcurrency(a, c) ==
    /\ concurrency' = [concurrency EXCEPT ![a] = c]
    /\ cache' = EmptyCache
    /\ UNCHANGED <<status, slotvars, pc, acct, quota, usagevars, reply>>

EnableAccount(a) ==
    /\ status' = [status EXCEPT ![a] = "active"]
    /\ cache' = EmptyCache
    /\ UNCHANGED <<concurrency, slotvars, pc, acct, quota, usagevars, reply>>

CacheExpires ==
    /\ cache' = EmptyCache
    /\ UNCHANGED <<status, concurrency, slotvars, pc, acct, quota, usagevars, reply>>

Step(r) == \/ \E a \in Accounts : Select(r, a)
           \/ NoAccount(r) \/ Intercept(r) \/ AcquireSlot(r)
           \/ ResolveToken(r) \/ TokenError(r)
           \/ SendError(r) \/ \E s \in Statuses : Respond(r, s)
           \/ DisableAccount(r)
           \/ BodyEnds(r)

Next == \/ \E r \in Requests : \/ Arrive(r) \/ Step(r) \/ FinalizeEarly(r)
                               \/ DrainEnds(r) \/ ClientCancel(r)
        \/ \E a \in Accounts : \/ ReleaseTask(a) \/ EnableAccount(a)
                               \/ \E c \in 0..MaxConcurrency : SetConcurrency(a, c)
        \/ CacheExpires

Spec == Init /\ [][Next]_vars

\* The runtime polls every handler and every spawned task.  The upstream
\* client has a connect and an idle-read timeout, so a call is answered or
\* fails; that a body ends at all is up to the upstream.
Fairness == /\ \A r \in Requests : WF_vars(Step(r)) /\ WF_vars(DrainEnds(r))
            /\ \A a \in Accounts : WF_vars(ReleaseTask(a))

FairSpec == Spec /\ Fairness
-------------------------------------------------------------------------------
(***************************************************************************)
(* Properties.                                                              *)
(***************************************************************************)
TypeOK ==
    /\ status \in [Accounts -> {"active", "disabled"}]
    /\ concurrency \in [Accounts -> 0..MaxConcurrency]
    /\ cache \in [Accounts -> {Unlisted} \cup 0..MaxConcurrency]
    /\ slots \in [Accounts -> Nat]
    /\ releasing \in [Accounts -> Nat]
    /\ pc \in [Requests -> PCs]
    /\ acct \in [Requests -> Accounts]
    /\ quota \in [Requests -> 0..MaxConcurrency]
    /\ hold \in [Requests -> BOOLEAN]
    /\ attempt \in [Requests -> {"none", "open", "settled", "lost"}]
    /\ draining \subseteq Requests
    /\ outcomes \in [Requests -> Seq({"usage", "no_usage"})]
    /\ reply \in [Requests -> Replies]

\* The counter of an account is exactly the slots its requests hold plus the
\* releases still to run: whatever way a request ends (answer, error, wrapped
\* error, disconnect), SlotHolder's drop gives its slot back once, and the
\* `> 0` guard of release_slot never hides a double release.
SlotAccounting ==
    \A a \in Accounts : slots[a] = Cardinality(Holders(a)) + releasing[a]

\* Only a request still being served owns a slot: none survives its answer,
\* in particular not that of a wrapped 429/5xx whose body is still draining.
HoldersAreLive ==
    \A r \in Requests :
        hold[r] <=> pc[r] \in {"token", "sending", "disabling", "streaming"}

\* The in-process counter implements the abstract slot sets: a request is
\* admitted only while fewer requests hold a slot than the limit it read.
Abstract == INSTANCE SlotSpec WITH holders <- [a \in Accounts |-> Holders(a)],
                                   quota <- quota
ImplementsSlots == Abstract!SSpec

\* acquire_slot turns a request away only when the limit it read is really
\* used up, by holders and by releases that have not run yet: an earlier
\* rejection leaves nothing behind in the counter.
RejectionJustified ==
    [][\A r \in Requests :
          reply'[r] = "no_slot" /\ reply[r] # "no_slot" =>
              Cardinality(Holders(acct[r])) + releasing[acct[r]] >= quota[r]]_vars

\* A metered request whose response was observed is reported to the usage
\* service exactly once, whether the parser finalizes early, the body ends,
\* the client leaves, or a drain task reads it.
SettledOnce ==
    \A r \in Metered :
        /\ Len(outcomes[r]) <= 1
        /\ pc[r] = "done" /\ reply[r] \in {"passed"} \cup WrappedError
              /\ r \notin draining => Len(outcomes[r]) = 1

\* When the traffic is over, every request has been answered or abandoned,
\* whatever the order of the others, and every counter is back at zero for good.
SlotsReturn ==
    <>[](/\ \A r \in Requests : pc[r] \in {"idle", "done"}
         /\ \A a \in Accounts : slots[a] = 0)
===============================================================================
