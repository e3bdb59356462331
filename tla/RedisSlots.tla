------------------------------ MODULE RedisSlots ------------------------------
(***************************************************************************)
(* The concurrency slots of one account in RedisStore: a counter that       *)
(* requests of several gateway processes increment and decrement, with a    *)
(* time to live that is set once, when the counter becomes 1.  Every Redis  *)
(* command is one atomic step; the handler is suspended between them, and   *)
(* may be dropped there.                                                    *)
(***************************************************************************)
EXTENDS Integers, FiniteSets

CONSTANTS Requests,
          MaxSlots,   \* the account's concurrency
          SLOT_TTL,   \* 300 s in the code
          CallsFail   \* may calls fail, handlers be dropped, processes die?

ASSUME RedisSlotsAssumption ==
    /\ IsFiniteSet(Requests)
    /\ MaxSlots \in Nat \ {0} /\ SLOT_TTL \in Nat \ {0}
    /\ CallsFail \in BOOLEAN

Forever == -1

VARIABLES key, count,  \* does the key exist; its counter, 0 if it does not
          ttl,         \* what is left of the key's life; Forever if none is set
          at,          \* where a request is
          val,         \* what INCR returned to it
          owed,        \* history: the requests under way when the key last expired
          leaked       \* history: the abandoned requests the counter still counts

history == <<owed, leaked>>
redisVars == <<key, count, ttl, at, val, history>>

Places == {"idle", "incremented", "expired", "undo", "holding", "releasing", "done"}
Busy == {r \in Requests : at[r] \in Places \ {"idle", "done"}}

RedisInit == /\ key = FALSE /\ count = 0 /\ ttl = Forever
             /\ at = [r \in Requests |-> "idle"]
             /\ val = [r \in Requests |-> 0]
             /\ owed = 0 /\ leaked = 0

MoveTo(r, p) == at' = [at EXCEPT ![r] = p] /\ UNCHANGED history

\* INCR and DECR make the key if there is none, without a time to live.
Add(n) == key' = TRUE /\ count' = count + n /\ UNCHANGED ttl

Incr(r) ==
    /\ at[r] = "idle"
    /\ Add(1)
    /\ val' = [val EXCEPT ![r] = count + 1]
    /\ MoveTo(r, "incremented")

\* EXPIRE, only for the increment that made it 1; an error is ignored.
Expire(r) ==
    /\ at[r] = "incremented"
    /\ MoveTo(r, "expired")
    /\ \/ val[r] = 1 /\ ttl' = IF key THEN SLOT_TTL ELSE ttl
       \/ (val[r] # 1 \/ CallsFail) /\ UNCHANGED ttl
    /\ UNCHANGED <<key, count, val>>

\* val > max decides; the slot is held from here on.
MutDecide(r) ==
    /\ at[r] = "expired"
    /\ MoveTo(r, IF val[r] > MaxSlots + 1 THEN "undo" ELSE "holding")
    /\ UNCHANGED <<key, count, ttl, val>>
Decide(r) ==
    /\ at[r] = "expired"
    /\ MoveTo(r, IF val[r] > MaxSlots THEN "undo" ELSE "holding")
    /\ UNCHANGED <<key, count, ttl, val>>

\* DECR of a rejected request.
Undo(r) ==
    /\ at[r] = "undo"
    /\ Add(-1)
    /\ MoveTo(r, "done")
    /\ UNCHANGED val

\* The body has ended or was dropped: the holder's drop spawns the release.
MutBodyEnds(r) ==
    /\ at[r] = "holding"
    /\ Add(-1)
    /\ MoveTo(r, "releasing")
    /\ UNCHANGED val
BodyEnds(r) ==
    /\ at[r] = "holding"
    /\ MoveTo(r, "releasing")
    /\ UNCHANGED <<key, count, ttl, val>>

\* release_slot: DECR, on a missing key it makes -1.
ReleaseSlot(r) ==
    /\ at[r] = "releasing"
    /\ Add(-1)
    /\ MoveTo(r, "done")
    /\ UNCHANGED val

\* An answer that is lost, a handler dropped at an await, an ignored error of a
\* DECR, the death of a process: the request goes no further.
Abandon(r) ==
    /\ CallsFail
    /\ r \in Busy
    /\ at' = [at EXCEPT ![r] = "done"]
    /\ leaked' = leaked + 1
    /\ UNCHANGED <<key, count, ttl, val, owed>>

\* Time passes; a key whose life is over is gone, whoever still counts on it.
Ages ==
    /\ ttl > 0
    /\ IF ttl = 1 THEN /\ key' = FALSE /\ count' = 0 /\ ttl' = Forever
                       /\ owed' = Cardinality(Busy) /\ leaked' = 0
                  ELSE ttl' = ttl - 1 /\ UNCHANGED <<key, count, history>>
    /\ UNCHANGED <<at, val>>

Step(r) == \/ Incr(r) \/ Expire(r) \/ Decide(r) \/ Undo(r) \/ BodyEnds(r)
           \/ ReleaseSlot(r)
RedisNext == (\E r \in Requests : Step(r) \/ Abandon(r)) \/ Ages

RedisSpec == RedisInit /\ [][RedisNext]_redisVars
-------------------------------------------------------------------------------
RedisTypeOK == /\ key \in BOOLEAN
               /\ count \in Int
               /\ ttl \in Int /\ Forever <= ttl /\ ttl <= SLOT_TTL
               /\ at \in [Requests -> Places]
               /\ val \in [Requests -> Int]
               /\ owed \in Nat /\ leaked \in Nat

Holders == {r \in Requests : at[r] \in {"holding", "releasing"}}

\* README.md:665 promises that at most MaxSlots requests of the account hold a
\* slot.  The code does not keep it: the key may expire under running requests.
\* What that costs: the limit is overrun by at most the requests that were under
\* way when the key last expired, however often it expires, and not at all while
\* no request has outlived it.
OverrunBounded == Cardinality(Holders) <= MaxSlots + owed

\* The counter is wrong by exactly what was lost: the requests under way have
\* one increment each in it, except those the last expiry took, whose
\* decrements still come; and what it holds beyond them was left by requests
\* that were abandoned since.
CountAccounted == count + owed = Cardinality(Busy) + leaked
===============================================================================
