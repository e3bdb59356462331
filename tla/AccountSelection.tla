--------------------------- MODULE AccountSelection ---------------------------
(***************************************************************************)
(* AccountService::select_account for concurrent requests, with what it     *)
(* reads between its awaits: the sticky binding of the session in the       *)
(* CacheStore, the schedulable-account cache of AccountStore, the database  *)
(* and the limit state.  Admin operations change the database first and     *)
(* drop the cache in a second step.                                         *)
(***************************************************************************)
EXTENDS Integers, FiniteSets

CONSTANTS Requests, Accounts, Sessions, Classes,
          Hash,              \* request -> its session
          ClassOf,           \* request -> its model class
          Excluded, Allowed, \* request -> accounts of its API token
          Priorities,
          NoList,            \* "no list of accounts", a model value
          SCHEDULABLE_TTL, STICKY_SESSION_TTL,
          MaxQuery,          \* bound on the duration of the cache-fill query
          StoresFail,        \* whether Redis and database calls may fail
          MaxTime, MaxEdits  \* bounds of the model

NoAccount == 0
\* A deleted row is one that is disabled for good: no list names it, and
\* get_by_id finds no schedulable account.
Statuses == {"active", "disabled"}
\* A list of schedulable accounts: account -> priority, for the listed ones.
Lists == UNION {[S -> Priorities] : S \in SUBSET Accounts}

ASSUME SelectionAssumption ==
    /\ Hash \in [Requests -> Sessions]
    /\ ClassOf \in [Requests -> Classes]
    /\ Excluded \in [Requests -> SUBSET Accounts]
    /\ Allowed \in [Requests -> SUBSET Accounts]
    /\ Accounts \subseteq Nat \ {NoAccount}
    /\ Priorities \subseteq Nat
    /\ SCHEDULABLE_TTL \in Nat \ {0} /\ STICKY_SESSION_TTL \in Nat \ {0}
    /\ MaxQuery \in Nat /\ MaxTime \in Nat /\ MaxEdits \in Nat
    /\ StoresFail \in BOOLEAN
    /\ NoList \notin Lists

VARIABLES status, priority,  \* the accounts table
          cacheAt, cached,   \* schedulable_cache: time and list, NoList if none
          bound, boundUntil, \* session -> its account, NoAccount if none
          limited,           \* <<account, class>> that the LimitStore refuses
          now,
          pc, sticky, known, \* request: binding read, account found for it
          list, listAt,      \* its copy of the schedulable accounts
          selected,          \* its account
          editing, edits,    \* a change whose cache drop is still to come
          activeAt           \* history: when the account was last active

dbvars == <<status, priority, activeAt>>
cachevars == <<cacheAt, cached>>
bindvars == <<bound, boundUntil>>
reqvars == <<sticky, known, list, listAt, selected>>
selectionVars == <<dbvars, cachevars, bindvars, limited, now, pc, reqvars, editing, edits>>

PCs == {"start", "lookup", "fetch", "check", "unbind", "list", "fill", "choose",
        "bind", "done", "failed"}

\* What the list query returns.
Schedulable == {a \in Accounts : status[a] = "active"}
Snapshot == [a \in Schedulable |-> priority[a]]

SelectionInit == /\ status = [a \in Accounts |-> "active"]
        /\ priority \in [Accounts -> Priorities]
        /\ activeAt = [a \in Accounts |-> 0]
        /\ cacheAt = 0 /\ cached = NoList
        /\ bound = [s \in Sessions |-> NoAccount]
        /\ boundUntil = [s \in Sessions |-> 0]
        /\ limited = {}
        /\ now = 0
        /\ pc = [r \in Requests |-> "start"]
        /\ sticky = [r \in Requests |-> NoAccount]
        /\ known = [r \in Requests |-> FALSE]
        /\ list = [r \in Requests |-> NoList]
        /\ listAt = [r \in Requests |-> 0]
        /\ selected = [r \in Requests |-> NoAccount]
        /\ editing = FALSE
        /\ edits = 0

Goto(r, p) == pc' = [pc EXCEPT ![r] = p]
MutCacheFresh == cached # NoList
CacheFresh == cached # NoList /\ now - cacheAt < SCHEDULABLE_TTL
-------------------------------------------------------------------------------
(***************************************************************************)
(* The sticky path.                                                         *)
(***************************************************************************)
\* get_session_account_id; an expired entry is as good as none, an error too.
GetSession(r) ==
    /\ pc[r] = "start"
    /\ \/ /\ bound[Hash[r]] # NoAccount /\ now <= boundUntil[Hash[r]]
          /\ sticky' = [sticky EXCEPT ![r] = bound[Hash[r]]]
          /\ Goto(r, "lookup")
       \/ /\ StoresFail \/ bound[Hash[r]] = NoAccount \/ now > boundUntil[Hash[r]]
          /\ Goto(r, "list")
          /\ UNCHANGED sticky
    /\ UNCHANGED <<dbvars, cachevars, bindvars, limited, now, known, list,
                   listAt, selected, editing, edits>>

\* get_schedulable_cached: a listed account is active as far as the cache
\* knows; otherwise the database is asked.
LookUp(r) ==
    /\ pc[r] = "lookup"
    /\ IF CacheFresh /\ sticky[r] \in DOMAIN cached
       THEN known' = [known EXCEPT ![r] = TRUE] /\ Goto(r, "check")
       ELSE Goto(r, "fetch") /\ UNCHANGED known
    /\ UNCHANGED <<dbvars, cachevars, bindvars, limited, now, sticky, list,
                   listAt, selected, editing, edits>>

\* get_by_id, then is_schedulable; an error counts as an account that is gone.
GetById(r) ==
    /\ pc[r] = "fetch"
    /\ \/ known' = [known EXCEPT ![r] = status[sticky[r]] = "active"]
       \/ StoresFail /\ known' = [known EXCEPT ![r] = FALSE]
    /\ Goto(r, "check")
    /\ UNCHANGED <<dbvars, cachevars, bindvars, limited, now, sticky, list,
                   listAt, selected, editing, edits>>

Permitted(r, a) == /\ a \notin Excluded[r]
                   /\ Allowed[r] = {} \/ a \in Allowed[r]
ClassAvailable(r, a) == <<a, ClassOf[r]>> \notin limited

MutCheckSticky(r) ==
    /\ pc[r] = "check"
    /\ IF known[r] /\ ClassAvailable(r, sticky[r])
       THEN selected' = [selected EXCEPT ![r] = sticky[r]] /\ Goto(r, "done")
       ELSE Goto(r, "unbind") /\ UNCHANGED selected
    /\ known' = [known EXCEPT ![r] = FALSE]
    /\ UNCHANGED <<dbvars, cachevars, bindvars, limited, now, sticky, list,
                   listAt, editing, edits>>

CheckSticky(r) ==
    /\ pc[r] = "check"
    /\ IF known[r] /\ Permitted(r, sticky[r]) /\ ClassAvailable(r, sticky[r])
       THEN selected' = [selected EXCEPT ![r] = sticky[r]] /\ Goto(r, "done")
       ELSE Goto(r, "unbind") /\ UNCHANGED selected
    /\ known' = [known EXCEPT ![r] = FALSE]
    /\ UNCHANGED <<dbvars, cachevars, bindvars, limited, now, sticky, list,
                   listAt, editing, edits>>

\* delete_session, whatever the session is bound to by now.
DeleteSession(r) ==
    /\ pc[r] = "unbind"
    /\ \/ /\ bound' = [bound EXCEPT ![Hash[r]] = NoAccount]
          /\ boundUntil' = [boundUntil EXCEPT ![Hash[r]] = 0]
       \/ StoresFail /\ UNCHANGED bindvars
    /\ Goto(r, "list")
    /\ sticky' = [sticky EXCEPT ![r] = NoAccount]
    /\ UNCHANGED <<dbvars, cachevars, limited, now, known, list, listAt,
                   selected, editing, edits>>
-------------------------------------------------------------------------------
(***************************************************************************)
(* list_schedulable and the choice.                                         *)
(***************************************************************************)
\* The cached list, or the query, whose result is in hand while the write lock
\* of the cache is awaited.
ListSchedulable(r) ==
    /\ pc[r] = "list"
    /\ \/ /\ CacheFresh
          /\ list' = [list EXCEPT ![r] = cached]
          /\ Goto(r, "choose")
          /\ UNCHANGED listAt
       \/ /\ ~CacheFresh
          /\ list' = [list EXCEPT ![r] = Snapshot]
          /\ listAt' = [listAt EXCEPT ![r] = now]
          /\ Goto(r, "fill")
       \/ /\ ~CacheFresh /\ StoresFail
          /\ Goto(r, "failed")
          /\ UNCHANGED <<list, listAt>>
    /\ UNCHANGED <<dbvars, cachevars, bindvars, limited, now, sticky, known,
                   selected, editing, edits>>

FillCache(r) ==
    /\ pc[r] = "fill"
    /\ cached' = list[r]
    /\ cacheAt' = now
    /\ listAt' = [listAt EXCEPT ![r] = 0]
    /\ Goto(r, "choose")
    /\ UNCHANGED <<dbvars, bindvars, limited, now, sticky, known, list, selected,
                   editing, edits>>

Candidates(r) == {a \in DOMAIN list[r] : Permitted(r, a) /\ ClassAvailable(r, a)}
Best(r) == {a \in Candidates(r) :
              \A b \in Candidates(r) : list[r][a] <= list[r][b]}

\* select_by_priority: any account of the best priority.
SelectByPriority(r) ==
    /\ pc[r] = "choose"
    /\ \/ /\ Candidates(r) = {}
          /\ Goto(r, "failed")
          /\ UNCHANGED selected
       \/ \E a \in Best(r) : /\ selected' = [selected EXCEPT ![r] = a]
                             /\ Goto(r, "bind")
    /\ list' = [list EXCEPT ![r] = NoList]
    /\ UNCHANGED <<dbvars, cachevars, bindvars, limited, now, sticky, known,
                   listAt, editing, edits>>

\* set_session_account_id.
BindSession(r) ==
    /\ pc[r] = "bind"
    /\ \/ /\ bound' = [bound EXCEPT ![Hash[r]] = selected[r]]
          /\ boundUntil' = [boundUntil EXCEPT ![Hash[r]] = now + STICKY_SESSION_TTL]
       \/ StoresFail /\ UNCHANGED bindvars
    /\ Goto(r, "done")
    /\ UNCHANGED <<dbvars, cachevars, limited, now, reqvars, editing, edits>>
-------------------------------------------------------------------------------
(***************************************************************************)
(* Admin operations: update_status, disable_account, enable_account, update *)
(* (of the priority) and delete, each followed by the cache drop.           *)
(***************************************************************************)
Edit == /\ ~editing /\ edits < MaxEdits
        /\ editing' = TRUE
        /\ edits' = edits + 1
        /\ UNCHANGED <<cachevars, bindvars, limited, now, pc, reqvars>>

SetStatus(a, s) ==
    /\ Edit
    /\ s # status[a]
    /\ status' = [status EXCEPT ![a] = s]
    /\ activeAt' = [activeAt EXCEPT ![a] = IF status[a] = "active" THEN now ELSE @]
    /\ UNCHANGED priority

SetPriority(a, p) ==
    /\ Edit
    /\ priority' = [priority EXCEPT ![a] = p]
    /\ UNCHANGED <<status, activeAt>>

InvalidateCache ==
    /\ editing
    /\ editing' = FALSE
    /\ cached' = NoList /\ cacheAt' = 0
    /\ UNCHANGED <<dbvars, bindvars, limited, now, pc, reqvars, edits>>

\* Responses and resets change what the LimitStore refuses.
LimitChanges(a, c) ==
    /\ limited' = IF <<a, c>> \in limited THEN limited \ {<<a, c>>}
                                          ELSE limited \cup {<<a, c>>}
    /\ UNCHANGED <<dbvars, cachevars, bindvars, now, pc, reqvars, editing, edits>>

\* Time passes; a query in hand is at most MaxQuery old.
TimePasses ==
    /\ now < MaxTime
    /\ \A r \in Requests : pc[r] = "fill" => now - listAt[r] < MaxQuery
    /\ now' = now + 1
    /\ UNCHANGED <<dbvars, cachevars, bindvars, limited, pc, reqvars, editing, edits>>

\* The client sends its next request.
NextRequest(r) ==
    /\ pc[r] \in {"done", "failed"}
    /\ Goto(r, "start")
    /\ sticky' = [sticky EXCEPT ![r] = NoAccount]
    /\ selected' = [selected EXCEPT ![r] = NoAccount]
    /\ UNCHANGED <<dbvars, cachevars, bindvars, limited, now, known, list, listAt,
                   editing, edits>>

Step(r) == \/ GetSession(r) \/ LookUp(r) \/ GetById(r) \/ CheckSticky(r)
           \/ DeleteSession(r) \/ ListSchedulable(r) \/ FillCache(r)
           \/ SelectByPriority(r) \/ BindSession(r)
Admin == \/ \E a \in Accounts : \/ \E s \in Statuses : SetStatus(a, s)
                                \/ \E p \in Priorities : SetPriority(a, p)
         \/ InvalidateCache

SelectionNext == \/ \E r \in Requests : Step(r) \/ NextRequest(r)
        \/ Admin
        \/ \E a \in Accounts, c \in Classes : LimitChanges(a, c)
        \/ TimePasses

SelectionSpec == SelectionInit /\ [][SelectionNext]_selectionVars
-------------------------------------------------------------------------------
SelectionTypeOK ==
    /\ status \in [Accounts -> Statuses]
    /\ priority \in [Accounts -> Priorities]
    /\ cached \in Lists \cup {NoList}
    /\ bound \in [Sessions -> Accounts \cup {NoAccount}]
    /\ boundUntil \in [Sessions -> 0..(MaxTime + STICKY_SESSION_TTL)]
    /\ limited \subseteq Accounts \X Classes
    /\ now \in 0..MaxTime /\ cacheAt \in 0..now
    /\ pc \in [Requests -> PCs]
    /\ \A r \in Requests :
          /\ pc[r] \in {"lookup", "fetch", "check"} => sticky[r] \in Accounts
          /\ pc[r] \in {"bind", "done"} => selected[r] \in Accounts
          /\ pc[r] \in {"fill", "choose"} => list[r] # NoList
    /\ editing \in BOOLEAN /\ edits \in 0..MaxEdits
    /\ activeAt \in [Accounts -> 0..now]

\* A token's account restrictions hold for every request, also when the
\* session was bound by a request of another token.
RestrictionsHold ==
    \A r \in Requests : pc[r] = "done" => Permitted(r, selected[r])

\* Staleness is bounded: whichever way the cache, its invalidation and the
\* queries that fill it interleave, no list in use names an account that has
\* been inactive for longer than the cache lifetime plus one query.
Inactive(a) == IF status[a] = "active" THEN 0 ELSE now - activeAt[a]
StalenessBounded ==
    /\ CacheFresh =>
         \A a \in DOMAIN cached : Inactive(a) < SCHEDULABLE_TTL + MaxQuery
    /\ \A r \in Requests : pc[r] = "fill" =>
         \A a \in DOMAIN list[r] : Inactive(a) <= MaxQuery
===============================================================================
