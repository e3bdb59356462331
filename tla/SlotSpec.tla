------------------------------- MODULE SlotSpec -------------------------------
(***************************************************************************)
(* What the gateway promises about concurrency slots, independent of how   *)
(* the cache counts them: an account's slots are a set of requests, and a  *)
(* request joins it only while the set is smaller than the concurrency     *)
(* limit that the request read from its account (README, "concurrency").   *)
(* Releasing is always possible.                                           *)
(***************************************************************************)
EXTENDS Integers, FiniteSets

CONSTANTS Requests, Accounts, MaxConcurrency

VARIABLES holders,  \* account -> the requests holding one of its slots
          quota     \* request -> the concurrency limit it read

svars == <<holders, quota>>

SInit == /\ holders = [a \in Accounts |-> {}]
         /\ quota = [r \in Requests |-> 0]

Holding(r) == \E a \in Accounts : r \in holders[a]

\* A request that holds nothing reads the limit of the account it was given.
Read(r, m) == /\ ~Holding(r)
              /\ quota' = [quota EXCEPT ![r] = m]
              /\ UNCHANGED holders

Admit(r, a) == /\ ~Holding(r)
               /\ Cardinality(holders[a]) < quota[r]
               /\ holders' = [holders EXCEPT ![a] = @ \cup {r}]
               /\ UNCHANGED quota

Release(r, a) == /\ r \in holders[a]
                 /\ holders' = [holders EXCEPT ![a] = @ \ {r}]
                 /\ UNCHANGED quota

SNext == \E r \in Requests :
            \/ \E m \in 0..MaxConcurrency : Read(r, m)
            \/ \E a \in Accounts : Admit(r, a) \/ Release(r, a)

SSpec == SInit /\ [][SNext]_svars
===============================================================================
