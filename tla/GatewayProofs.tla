---------------------------- MODULE GatewayProofs -----------------------------
(***************************************************************************)
(* Proofs about Gateway for every set of accounts, every finite set of      *)
(* requests and every concurrency bound: types, the exact accounting of     *)
(* the slot counter, and the refinement of SlotSpec.                        *)
(***************************************************************************)
EXTENDS Gateway, FiniteSetTheorems, TLAPS

\* The inductive invariant.  SlotAccounting alone is not inductive: Select
\* moves a request to another account, which keeps the holder sets only
\* because HoldersAreLive says the request holds nothing yet.
IInv == TypeOK /\ HoldersAreLive /\ SlotAccounting
-------------------------------------------------------------------------------
\* Sets of holders are finite.
LEMMA HoldersFinite ==
    ASSUME NEW a \in Accounts
    PROVE  IsFiniteSet(Holders(a)) /\ Cardinality(Holders(a)) \in Nat
<1>1. Holders(a) \subseteq Requests BY DEF Holders
<1>2. IsFiniteSet(Holders(a)) BY <1>1, RequestsAssumption, FS_Subset
<1> QED BY <1>2, FS_CardinalityType

\* Dropping a SlotHolder moves one unit from holders to pending releases.
LEMMA DropAccounting ==
    ASSUME NEW r \in Requests, TypeOK, SlotAccounting,
           DropSlot(r), slots' = slots, acct' = acct
    PROVE  SlotAccounting'
<1> SUFFICES ASSUME NEW a \in Accounts
             PROVE  slots'[a] = Cardinality(Holders(a)') + releasing'[a]
    BY DEF SlotAccounting
<1> USE DEF TypeOK, DropSlot
<1>1. slots[a] = Cardinality(Holders(a)) + releasing[a] BY DEF SlotAccounting
<1>2. IsFiniteSet(Holders(a)) /\ Cardinality(Holders(a)) \in Nat BY HoldersFinite
<1>3. CASE hold[r] /\ acct[r] = a
  <2>1. r \in Holders(a) BY <1>3 DEF Holders
  <2>2. Holders(a)' = Holders(a) \ {r} BY <1>3 DEF Holders
  <2>3. Cardinality(Holders(a) \ {r}) = Cardinality(Holders(a)) - 1
        BY <2>1, <1>2, FS_RemoveElement
  <2>4. releasing'[a] = releasing[a] + 1 BY <1>3
  <2> QED BY <1>1, <1>2, <2>2, <2>3, <2>4
<1>4. CASE ~(hold[r] /\ acct[r] = a)
  <2>1. Holders(a)' = Holders(a) BY <1>4 DEF Holders
  <2>2. releasing'[a] = releasing[a] BY <1>4
  <2> QED BY <1>1, <2>1, <2>2
<1> QED BY <1>3, <1>4

\* A step that changes neither the counter nor who holds keeps the books.
LEMMA SameAccounting ==
    ASSUME SlotAccounting, slots' = slots, releasing' = releasing,
           \A a \in Accounts : Holders(a)' = Holders(a)
    PROVE  SlotAccounting'
BY DEF SlotAccounting

\* A step that changes no holder and no account keeps the sets of holders.
LEMMA SameHolders ==
    ASSUME hold' = hold, acct' = acct
    PROVE  \A a \in Accounts : Holders(a)' = Holders(a)
BY DEF Holders
-------------------------------------------------------------------------------
\* What the parts of an action do to the types.
LEMMA DropType ==
    ASSUME NEW r \in Requests, TypeOK, DropSlot(r)
    PROVE  hold' \in [Requests -> BOOLEAN] /\ releasing' \in [Accounts -> Nat]
BY DEF TypeOK, DropSlot

\* The end of a request keeps its types.
LEMMA FinishType ==
    ASSUME NEW r \in Requests, NEW s \in Replies, TypeOK, Finish(r, s)
    PROVE  pc' \in [Requests -> PCs] /\ reply' \in [Requests -> Replies]
BY DEF TypeOK, Finish, PCs

\* Settling the usage attempt keeps its types.
LEMMA SettleType ==
    ASSUME NEW r \in Requests, TypeOK, Settle(r)
    PROVE  /\ attempt' \in [Requests -> {"none", "open", "settled", "lost"}]
           /\ outcomes' \in [Requests -> Seq({"usage", "no_usage"})]
<1>1. CASE attempt[r] = "open"
  <2>1. attempt' \in [Requests -> {"none", "open", "settled", "lost"}]
        BY <1>1 DEF Settle, TypeOK
  <2>2. PICK o \in {"usage", "no_usage"} :
            outcomes' = [outcomes EXCEPT ![r] = Append(@, o)]
        BY <1>1 DEF Settle
  <2>3. Append(outcomes[r], o) \in Seq({"usage", "no_usage"}) BY DEF TypeOK
  <2> QED BY <2>1, <2>2, <2>3 DEF TypeOK
<1>2. CASE attempt[r] # "open"
  BY <1>2 DEF Settle, TypeOK
<1> QED BY <1>1, <1>2

\* Losing the usage attempt keeps the types.
LEMMA LoseType ==
    ASSUME NEW r \in Requests, TypeOK, Lose(r)
    PROVE  attempt' \in [Requests -> {"none", "open", "settled", "lost"}]
BY DEF TypeOK, Lose

\* Handing the holder over to the response body keeps the types.
LEMMA BodyType ==
    ASSUME NEW r \in Requests, NEW s \in Statuses, TypeOK, ResponseBody(r, s)
    PROVE  /\ pc' \in [Requests -> PCs] /\ reply' \in [Requests -> Replies]
           /\ hold' \in [Requests -> BOOLEAN] /\ releasing' \in [Accounts -> Nat]
           /\ draining' \subseteq Requests
<1>1. CASE s \in WrappedError
  <2>1. s \in Replies BY <1>1 DEF Replies
  <2>2. Finish(r, s) /\ DropSlot(r) BY <1>1 DEF ResponseBody
  <2>3. draining' \subseteq Requests BY <1>1 DEF ResponseBody, TypeOK
  <2> QED BY <2>1, <2>2, <2>3, FinishType, DropType
<1>2. CASE s \notin WrappedError
  BY <1>2 DEF ResponseBody, TypeOK, PCs
<1> QED BY <1>1, <1>2

\* disable_account, whether its write succeeds or not, keeps the types.
LEMMA DisableType ==
    ASSUME NEW a \in Accounts, TypeOK, disable_account(a)
    PROVE  /\ status' \in [Accounts -> {"active", "disabled"}]
           /\ concurrency' \in [Accounts -> 0..MaxConcurrency]
           /\ cache' \in [Accounts -> {Unlisted} \cup 0..MaxConcurrency]
BY DEF TypeOK, disable_account, EmptyCache

\* Every step keeps the types.
LEMMA TypeStep == TypeOK /\ [Next]_vars => TypeOK'
<1> SUFFICES ASSUME TypeOK, [Next]_vars PROVE TypeOK'
    OBVIOUS
<1>a. acct \in [Requests -> Accounts] BY DEF TypeOK
<1> USE DEF dbvars, slotvars, usagevars
<1>1. ASSUME NEW r \in Requests, Arrive(r) PROVE TypeOK'
      BY <1>1 DEF Arrive, TypeOK, PCs, Awaiting
<1>2. ASSUME NEW r \in Requests, NEW a \in Accounts, Select(r, a) PROVE TypeOK'
  <2>1. cache' \in [Accounts -> {Unlisted} \cup 0..MaxConcurrency]
        BY <1>2 DEF Select, TypeOK
  <2>2. quota' \in [Requests -> 0..MaxConcurrency]
        BY <1>2 DEF Select, TypeOK
  <2>3. UNCHANGED <<status, concurrency>> BY <1>2 DEF Select
  <2>4. pc' \in [Requests -> PCs] /\ acct' \in [Requests -> Accounts]
        BY <1>2 DEF Select, TypeOK, PCs, Awaiting
  <2> QED BY <1>2, <2>1, <2>2, <2>3, <2>4 DEF Select, TypeOK
<1>3. ASSUME NEW r \in Requests, NoAccount(r) \/ Intercept(r) PROVE TypeOK'
  <2>1. \E s \in Replies : Finish(r, s)
        BY <1>3 DEF NoAccount, Intercept, Replies
  <2> QED BY <1>3, <2>1, FinishType DEF NoAccount, Intercept, TypeOK
<1>4. ASSUME NEW r \in Requests, AcquireSlot(r) PROVE TypeOK'
  <2>1. pc' \in [Requests -> PCs] /\ reply' \in [Requests -> Replies]
        BY <1>4 DEF AcquireSlot, Finish, TypeOK, PCs, Awaiting, Replies
  <2>2. slots' \in [Accounts -> Nat]
        BY <1>4, <1>a DEF AcquireSlot, acquire_slot, SlotFree, TypeOK
  <2>3. hold' \in [Requests -> BOOLEAN] BY <1>4 DEF AcquireSlot, TypeOK
  <2> QED BY <1>4, <2>1, <2>2, <2>3 DEF AcquireSlot, TypeOK
<1>5. ASSUME NEW r \in Requests, ResolveToken(r) PROVE TypeOK'
      BY <1>5 DEF ResolveToken, TypeOK, PCs, Awaiting
<1>6. ASSUME NEW r \in Requests, TokenError(r) PROVE TypeOK'
  <2>1. "token_error" \in Replies BY DEF Replies
  <2> QED BY <1>6, <2>1, DropType, FinishType DEF TokenError, TypeOK
<1>7. ASSUME NEW r \in Requests, SendError(r) PROVE TypeOK'
  <2>1. "bad_gateway" \in Replies BY DEF Replies
  <2> QED BY <1>7, <2>1, DropType, FinishType, LoseType DEF SendError, TypeOK
<1>8. ASSUME NEW r \in Requests, NEW s \in Statuses, Respond(r, s) PROVE TypeOK'
  <2>1. CASE s = "forbidden"
        BY <1>8, <2>1 DEF Respond, TypeOK, PCs, Awaiting
  <2>2. CASE s # "forbidden"
        BY <1>8, <2>2, BodyType DEF Respond, TypeOK
  <2> QED BY <2>1, <2>2
<1>9. ASSUME NEW r \in Requests, DisableAccount(r) PROVE TypeOK'
  <2>1. "forbidden" \in Statuses BY DEF Statuses
  <2> QED BY <1>9, <1>a, <2>1, BodyType, DisableType DEF DisableAccount, TypeOK
<1>10. ASSUME NEW r \in Requests, FinalizeEarly(r) PROVE TypeOK'
      BY <1>10, SettleType DEF FinalizeEarly, TypeOK
<1>11. ASSUME NEW r \in Requests, BodyEnds(r) PROVE TypeOK'
  <2>1. "passed" \in Replies BY DEF Replies
  <2> QED BY <1>11, <2>1, SettleType, DropType, FinishType DEF BodyEnds, TypeOK
<1>12. ASSUME NEW r \in Requests, DrainEnds(r) PROVE TypeOK'
      BY <1>12, SettleType DEF DrainEnds, TypeOK
<1>13. ASSUME NEW r \in Requests, ClientCancel(r) PROVE TypeOK'
  <2>1. "cancelled" \in Replies BY DEF Replies
  <2> QED BY <1>13, <1>a, <2>1, DropType, LoseType, FinishType, DisableType
          DEF ClientCancel, TypeOK
<1>14. ASSUME NEW a \in Accounts, ReleaseTask(a) PROVE TypeOK'
      BY <1>14 DEF ReleaseTask, release_slot, TypeOK
<1>15. ASSUME NEW a \in Accounts, NEW c \in 0..MaxConcurrency, SetConcurrency(a, c)
       PROVE TypeOK'
      BY <1>15 DEF SetConcurrency, TypeOK, EmptyCache
<1>16. ASSUME NEW a \in Accounts, EnableAccount(a) PROVE TypeOK'
      BY <1>16 DEF EnableAccount, TypeOK, EmptyCache
<1>17. ASSUME CacheExpires \/ UNCHANGED vars PROVE TypeOK'
      BY <1>17 DEF CacheExpires, TypeOK, EmptyCache, vars
<1> QED BY <1>1, <1>2, <1>3, <1>4, <1>5, <1>6, <1>7, <1>8, <1>9, <1>10, <1>11,
           <1>12, <1>13, <1>14, <1>15, <1>16, <1>17 DEF Next, Step
-------------------------------------------------------------------------------
\* A handler that moves keeps to it if the slot fits where it is now.
LEMMA LiveMove ==
    ASSUME TypeOK, HoldersAreLive, NEW r \in Requests, NEW p, NEW h,
           pc' = [pc EXCEPT ![r] = p],
           \/ hold' = [hold EXCEPT ![r] = h]
           \/ hold' = hold /\ hold[r] = h,
           h <=> p \in {"token", "sending", "disabling", "streaming"}
    PROVE  HoldersAreLive'
<1>1. pc \in [Requests -> PCs] /\ hold \in [Requests -> BOOLEAN] BY DEF TypeOK
<1>2. \A q \in Requests : /\ pc'[q] = IF q = r THEN p ELSE pc[q]
                          /\ hold'[q] = IF q = r THEN h ELSE hold[q]
      BY <1>1
<1> QED BY <1>2 DEF HoldersAreLive

\* Who holds a slot follows from where the handler is.
LEMMA LiveStep == TypeOK /\ HoldersAreLive /\ [Next]_vars => HoldersAreLive'
<1> SUFFICES ASSUME TypeOK, HoldersAreLive, [Next]_vars PROVE HoldersAreLive'
    OBVIOUS
<1> USE DEF TypeOK, HoldersAreLive, Awaiting, Statuses, WrappedError,
            dbvars, slotvars, usagevars
<1>1. ASSUME NEW r \in Requests, Arrive(r) PROVE HoldersAreLive'
      BY <1>1 DEF Arrive
<1>2. ASSUME NEW r \in Requests, NEW a \in Accounts, Select(r, a)
      PROVE  HoldersAreLive'
      BY <1>2 DEF Select
<1>3. ASSUME NEW r \in Requests, NoAccount(r) \/ Intercept(r) PROVE HoldersAreLive'
      BY <1>3 DEF NoAccount, Intercept, Finish
<1>4. ASSUME NEW r \in Requests, AcquireSlot(r) PROVE HoldersAreLive'
  <2> USE ONLY <1>4, TypeOK, HoldersAreLive
  <2>1. ~hold[r] BY DEF AcquireSlot, HoldersAreLive
  <2>2. \/ /\ pc' = [pc EXCEPT ![r] = "token"] /\ hold' = [hold EXCEPT ![r] = TRUE]
        \/ /\ pc' = [pc EXCEPT ![r] = "done"] /\ hold' = hold /\ hold[r] = FALSE
        BY <2>1, Zenon DEF AcquireSlot, Finish
  <2> QED BY <2>2, LiveMove
<1>5. ASSUME NEW r \in Requests, ResolveToken(r) PROVE HoldersAreLive'
      BY <1>5 DEF ResolveToken
<1>6. ASSUME NEW r \in Requests, TokenError(r) \/ SendError(r) PROVE HoldersAreLive'
      BY <1>6 DEF TokenError, SendError, DropSlot, Finish
<1>7. ASSUME NEW r \in Requests, NEW s \in Statuses, Respond(r, s)
      PROVE  HoldersAreLive'
  <2> USE ONLY <1>7, TypeOK, HoldersAreLive
  <2>1. hold[r] = TRUE BY DEF Respond, HoldersAreLive, TypeOK
  <2>2. \/ /\ pc' = [pc EXCEPT ![r] = "disabling"] /\ hold' = hold
        \/ /\ pc' = [pc EXCEPT ![r] = "streaming"] /\ hold' = hold
        \/ /\ pc' = [pc EXCEPT ![r] = "done"] /\ hold' = [hold EXCEPT ![r] = FALSE]
        BY Zenon DEF Respond, ResponseBody, DropSlot, Finish
  <2>3. CASE pc' = [pc EXCEPT ![r] = "disabling"] /\ hold' = hold
        BY <2>1, <2>3, LiveMove
  <2>4. CASE pc' = [pc EXCEPT ![r] = "streaming"] /\ hold' = hold
        BY <2>1, <2>4, LiveMove
  <2>5. CASE pc' = [pc EXCEPT ![r] = "done"] /\ hold' = [hold EXCEPT ![r] = FALSE]
        BY <2>5, LiveMove
  <2> QED BY <2>2, <2>3, <2>4, <2>5
<1>8. ASSUME NEW r \in Requests, DisableAccount(r) PROVE HoldersAreLive'
      BY <1>8 DEF DisableAccount, ResponseBody, DropSlot, Finish
<1>9. ASSUME NEW r \in Requests, FinalizeEarly(r) \/ DrainEnds(r)
      PROVE  HoldersAreLive'
      BY <1>9 DEF FinalizeEarly, DrainEnds
<1>10. ASSUME NEW r \in Requests, BodyEnds(r) PROVE HoldersAreLive'
      BY <1>10 DEF BodyEnds, DropSlot, Finish
<1>11. ASSUME NEW r \in Requests, ClientCancel(r) PROVE HoldersAreLive'
      BY <1>11 DEF ClientCancel, DropSlot, Finish
<1>12. ASSUME NEW a \in Accounts, NEW c \in 0..MaxConcurrency,
              SetConcurrency(a, c)
       PROVE HoldersAreLive'
      BY <1>12 DEF SetConcurrency
<1>13. ASSUME CacheExpires \/ UNCHANGED vars PROVE HoldersAreLive'
      BY <1>13 DEF CacheExpires, vars
<1>14. ASSUME NEW a \in Accounts, ReleaseTask(a) \/ EnableAccount(a)
       PROVE HoldersAreLive'
      BY <1>14 DEF ReleaseTask, EnableAccount
<1> QED BY <1>1, <1>2, <1>3, <1>4, <1>5, <1>6, <1>7, <1>8, <1>9, <1>10, <1>11,
           <1>12, <1>13, <1>14 DEF Next, Step
-------------------------------------------------------------------------------
\* Every step keeps the counter equal to holders plus pending releases.
LEMMA AccountingStep == IInv /\ [Next]_vars => SlotAccounting'
<1> SUFFICES ASSUME TypeOK, HoldersAreLive, SlotAccounting, [Next]_vars
             PROVE  SlotAccounting'
    BY DEF IInv
<1> USE DEF dbvars, slotvars, usagevars
<1>1. ASSUME UNCHANGED <<slots, releasing, hold, acct>> PROVE SlotAccounting'
      BY <1>1, SameAccounting, SameHolders
<1>2. ASSUME NEW r \in Requests, NEW a \in Accounts, Select(r, a)
      PROVE  SlotAccounting'
  <2>1. ~hold[r] BY <1>2 DEF Select, HoldersAreLive
  <2>2. \A b \in Accounts : Holders(b)' = Holders(b)
        BY <1>2, <2>1 DEF Select, Holders, TypeOK
  <2> QED BY <1>2, <2>2, SameAccounting DEF Select
<1>3. ASSUME NEW r \in Requests, AcquireSlot(r) PROVE SlotAccounting'
  <2> DEFINE a == acct[r]
  <2>1. a \in Accounts /\ slots[a] \in Nat /\ quota[r] \in Int BY DEF TypeOK
  <2>2. CASE slots[a] < quota[r]
    <3>1. slots' = [slots EXCEPT ![a] = @ + 1]
          BY <1>3, <2>1, <2>2 DEF AcquireSlot, acquire_slot, SlotFree
    <3>2. hold' = [hold EXCEPT ![r] = TRUE] /\ acct' = acct /\ releasing' = releasing
          BY <1>3, <2>1, <2>2 DEF AcquireSlot, SlotFree
    <3>3. ~hold[r] BY <1>3 DEF AcquireSlot, HoldersAreLive
    <3> SUFFICES ASSUME NEW b \in Accounts
                 PROVE  slots'[b] = Cardinality(Holders(b)') + releasing'[b]
        BY DEF SlotAccounting
    <3>4. slots[b] = Cardinality(Holders(b)) + releasing[b] BY DEF SlotAccounting
    <3>5. IsFiniteSet(Holders(b)) /\ Cardinality(Holders(b)) \in Nat
          BY HoldersFinite
    <3>6. CASE b = a
      <4>1. Holders(b)' = Holders(b) \cup {r} BY <3>2, <3>6 DEF Holders, TypeOK
      <4>2. r \notin Holders(b) BY <3>3 DEF Holders
      <4>3. Cardinality(Holders(b) \cup {r}) = Cardinality(Holders(b)) + 1
            BY <4>2, <3>5, FS_AddElement
      <4>4. slots'[b] = slots[b] + 1 BY <3>1, <3>6 DEF TypeOK
      <4>5. releasing[b] \in Nat BY DEF TypeOK
      <4> QED BY <4>1, <4>3, <4>4, <4>5, <3>2, <3>4, <3>5
    <3>7. CASE b # a
      <4>1. Holders(b)' = Holders(b) BY <3>2, <3>7 DEF Holders, TypeOK
      <4>2. slots'[b] = slots[b] BY <3>1, <3>7 DEF TypeOK
      <4> QED BY <4>1, <4>2, <3>2, <3>4
    <3> QED BY <3>6, <3>7
  <2>3. CASE slots[a] >= quota[r]
    <3>1. UNCHANGED <<slots, releasing, hold, acct>>
          BY <1>3, <2>1, <2>3 DEF AcquireSlot, acquire_slot, SlotFree
    <3> QED BY <3>1, <1>1
  <2> QED BY <2>1, <2>2, <2>3
<1>4. ASSUME NEW r \in Requests, DropSlot(r), slots' = slots, acct' = acct
      PROVE  SlotAccounting'
      BY <1>4, DropAccounting
<1>5. ASSUME NEW r \in Requests, NEW s \in Statuses,
             Respond(r, s) \/ DisableAccount(r)
      PROVE  SlotAccounting'
      BY <1>1, <1>4, <1>5 DEF Respond, DisableAccount, ResponseBody
<1>6. ASSUME NEW r \in Requests,
             TokenError(r) \/ SendError(r) \/ BodyEnds(r) \/ ClientCancel(r)
      PROVE  SlotAccounting'
      BY <1>4, <1>6 DEF TokenError, SendError, BodyEnds, ClientCancel
<1>7. ASSUME NEW r \in Requests,
             \/ Arrive(r) \/ NoAccount(r) \/ Intercept(r) \/ ResolveToken(r)
             \/ FinalizeEarly(r) \/ DrainEnds(r)
      PROVE  SlotAccounting'
      BY <1>1, <1>7 DEF Arrive, NoAccount, Intercept, ResolveToken,
                        FinalizeEarly, DrainEnds
<1>8. ASSUME NEW a \in Accounts, ReleaseTask(a) PROVE SlotAccounting'
  <2>1. \A b \in Accounts : Holders(b)' = Holders(b)
        BY <1>8, SameHolders DEF ReleaseTask
  <2> SUFFICES ASSUME NEW b \in Accounts
               PROVE  slots'[b] = Cardinality(Holders(b)) + releasing'[b]
      BY <2>1 DEF SlotAccounting
  <2>2. slots[b] = Cardinality(Holders(b)) + releasing[b]
        BY DEF SlotAccounting
  <2>3. Cardinality(Holders(b)) \in Nat BY HoldersFinite
  <2>4. releasing[b] \in Nat /\ slots[b] \in Nat BY DEF TypeOK
  <2>5. CASE b = a
    <3>1. slots[a] > 0 BY <1>8, <2>2, <2>3, <2>4, <2>5 DEF ReleaseTask
    <3>2. slots'[b] = slots[b] - 1 /\ releasing'[b] = releasing[b] - 1
          BY <1>8, <3>1, <2>5 DEF ReleaseTask, release_slot, TypeOK
    <3> QED BY <3>2, <2>2, <2>3, <2>4
  <2>6. CASE b # a
    <3>1. slots'[b] = slots[b] /\ releasing'[b] = releasing[b]
          BY <1>8, <2>6 DEF ReleaseTask, release_slot, TypeOK
    <3> QED BY <3>1, <2>2
  <2> QED BY <2>5, <2>6
<1>9. ASSUME NEW a \in Accounts, EnableAccount(a) PROVE SlotAccounting'
      BY <1>1, <1>9 DEF EnableAccount
<1>10. ASSUME NEW a \in Accounts, NEW c \in 0..MaxConcurrency, SetConcurrency(a, c)
       PROVE SlotAccounting'
      BY <1>1, <1>10 DEF SetConcurrency
<1>11. ASSUME CacheExpires \/ UNCHANGED vars PROVE SlotAccounting'
      BY <1>1, <1>11 DEF CacheExpires, vars
<1>12. ASSUME NEW r \in Requests, DisableAccount(r) PROVE SlotAccounting'
      BY <1>1, <1>4, <1>12 DEF DisableAccount, ResponseBody
<1> QED BY <1>2, <1>3, <1>5, <1>6, <1>7, <1>8, <1>9, <1>10, <1>11, <1>12
        DEF Next, Step
-------------------------------------------------------------------------------
\* The gateway starts with no holder, no counter and no pending release.
LEMMA InitInv == Init => IInv
<1> SUFFICES ASSUME Init PROVE IInv
    OBVIOUS
<1> USE DEF Init
<1>1. TypeOK
  <2>1. <<>> \in Seq({"usage", "no_usage"}) OBVIOUS
  <2>2. "none" \in Replies /\ "idle" \in PCs BY DEF Replies, PCs
  <2> QED BY <2>1, <2>2, ConcurrencyAssumption DEF TypeOK, EmptyCache
<1>2. HoldersAreLive BY DEF HoldersAreLive
<1>3. SlotAccounting
  <2> SUFFICES ASSUME NEW a \in Accounts
               PROVE  slots[a] = Cardinality(Holders(a)) + releasing[a]
      BY DEF SlotAccounting
  <2>1. Holders(a) = {} BY DEF Holders
  <2> QED BY <2>1, FS_EmptySet
<1> QED BY <1>1, <1>2, <1>3 DEF IInv

\* The three parts together are inductive.
LEMMA StepInv == IInv /\ [Next]_vars => IInv'
BY TypeStep, LiveStep, AccountingStep DEF IInv

\* The inductive invariant holds in every reachable state.
THEOREM Invariance == Spec => []IInv
BY InitInv, StepInv, PTL DEF Spec

\* Types: every variable of the request life cycle keeps its range.
THEOREM TypeCorrect == Spec => []TypeOK
BY Invariance, PTL DEF IInv

\* The counter of MemoryStore is the number of live SlotHolders plus the
\* number of release tasks still to run, for any number of requests.
THEOREM SlotsAccounted == Spec => []SlotAccounting
BY Invariance, PTL DEF IInv

\* A request owns a SlotHolder exactly while it is being served.
THEOREM HoldersLive == Spec => []HoldersAreLive
BY Invariance, PTL DEF IInv
-------------------------------------------------------------------------------
\* A handler that answers no_slot found its limit used up.
LEMMA RejectionStep ==
    IInv /\ [Next]_vars =>
      \A r \in Requests :
        reply'[r] = "no_slot" /\ reply[r] # "no_slot" =>
            Cardinality(Holders(acct[r])) + releasing[acct[r]] >= quota[r]
<1> SUFFICES ASSUME IInv, [Next]_vars, NEW q \in Requests,
                    reply'[q] = "no_slot", reply[q] # "no_slot"
             PROVE  Cardinality(Holders(acct[q])) + releasing[acct[q]] >= quota[q]
    OBVIOUS
<1>0. reply \in [Requests -> Replies] BY DEF IInv, TypeOK
<1> USE DEF dbvars, slotvars, usagevars
<1>1. ASSUME AcquireSlot(q)
      PROVE  Cardinality(Holders(acct[q])) + releasing[acct[q]] >= quota[q]
  <2>1. acct[q] \in Accounts /\ slots[acct[q]] \in Nat /\ quota[q] \in Int
        BY DEF IInv, TypeOK
  <2>2. slots[acct[q]] >= quota[q] BY <1>1, <2>1 DEF AcquireSlot, SlotFree
  <2> QED BY <2>1, <2>2 DEF IInv, SlotAccounting
<1>2. ASSUME UNCHANGED reply PROVE FALSE
      BY <1>2
<1>3. ASSUME NEW r \in Requests, NEW s, s # "no_slot", Finish(r, s) PROVE FALSE
      BY <1>0, <1>3 DEF Finish
<1>4. ASSUME NEW r \in Requests, r # q, AcquireSlot(r) PROVE FALSE
      BY <1>0, <1>4 DEF AcquireSlot, Finish
<1>5. ASSUME NEW r \in Requests, NEW s \in Statuses, ResponseBody(r, s) PROVE FALSE
  <2>1. s # "no_slot" BY DEF Statuses
  <2> QED BY <1>2, <1>3, <1>5, <2>1 DEF ResponseBody
<1>6. ASSUME NEW r \in Requests, NEW s \in Statuses,
             Respond(r, s) \/ DisableAccount(r) PROVE FALSE
  <2>1. "forbidden" \in Statuses BY DEF Statuses
  <2> QED BY <1>2, <1>5, <1>6, <2>1 DEF Respond, DisableAccount
<1>7. ASSUME NEW r \in Requests, DisableAccount(r) PROVE FALSE
  <2>1. "forbidden" \in Statuses BY DEF Statuses
  <2> QED BY <1>5, <1>7, <2>1 DEF DisableAccount
<1>8. ASSUME NEW r \in Requests,
             \/ NoAccount(r) \/ Intercept(r) \/ TokenError(r) \/ SendError(r)
             \/ BodyEnds(r) \/ ClientCancel(r)
      PROVE FALSE
  <2>1. \E s : s # "no_slot" /\ Finish(r, s)
        BY <1>8 DEF NoAccount, Intercept, TokenError, SendError, BodyEnds, ClientCancel
  <2> QED BY <2>1, <1>3
<1>9. ASSUME NEW r \in Requests,
             \/ Arrive(r) \/ ResolveToken(r) \/ FinalizeEarly(r) \/ DrainEnds(r)
      PROVE FALSE
      BY <1>2, <1>9 DEF Arrive, ResolveToken, FinalizeEarly, DrainEnds
<1>10. ASSUME NEW r \in Requests, NEW a \in Accounts, Select(r, a) PROVE FALSE
      BY <1>2, <1>10 DEF Select
<1>11. ASSUME NEW a \in Accounts, ReleaseTask(a) \/ EnableAccount(a) PROVE FALSE
      BY <1>2, <1>11 DEF ReleaseTask, EnableAccount
<1>12. ASSUME NEW a \in Accounts, NEW c \in 0..MaxConcurrency, SetConcurrency(a, c)
       PROVE FALSE
      BY <1>2, <1>12 DEF SetConcurrency
<1>13. ASSUME CacheExpires \/ UNCHANGED vars PROVE FALSE
      BY <1>2, <1>13 DEF CacheExpires, vars
<1> QED BY <1>1, <1>4, <1>6, <1>7, <1>8, <1>9, <1>10, <1>11, <1>12, <1>13
        DEF Next, Step

\* acquire_slot answers false only when the limit the request read is used up
\* by live holders and pending releases.
THEOREM RejectionsJustified == Spec => RejectionJustified
<1>1. IInv /\ [Next]_vars =>
        [\A r \in Requests :
           reply'[r] = "no_slot" /\ reply[r] # "no_slot" =>
              Cardinality(Holders(acct[r])) + releasing[acct[r]] >= quota[r]]_vars
      BY RejectionStep
<1> QED BY <1>1, Invariance, PTL DEF Spec, RejectionJustified
-------------------------------------------------------------------------------
(***************************************************************************)
(* The usage attempt of a metered request.  SettledOnce says nothing of     *)
(* where the attempt is while the request runs; UsageFollows does: it is    *)
(* opened with the token, survives to the body or to the drain task, and    *)
(* the usage service has been told once exactly when it is settled.         *)
(***************************************************************************)
UsageFollows ==
    \A r \in Metered :
        /\ attempt[r] = "settled" => Len(outcomes[r]) = 1
        /\ attempt[r] # "settled" => Len(outcomes[r]) = 0
        /\ pc[r] \in {"idle", "arrived", "selected", "token"} => attempt[r] = "none"
        /\ pc[r] \in {"sending", "disabling"} => attempt[r] = "open"
        /\ pc[r] = "streaming" => attempt[r] \in {"open", "settled"}
        /\ r \in draining => pc[r] = "done" /\ attempt[r] \in {"open", "settled"}
        /\ pc[r] = "done" /\ reply[r] \in {"passed"} \cup WrappedError
              /\ r \notin draining => attempt[r] = "settled"

\* finalize tells the usage service of an open attempt, and of no other.
LEMMA SettleOutcome ==
    ASSUME NEW r \in Requests, TypeOK, UsageFollows, Settle(r)
    PROVE  \A q \in Metered :
             /\ q # r => attempt'[q] = attempt[q] /\ outcomes'[q] = outcomes[q]
             /\ attempt'[q] = "settled" => Len(outcomes'[q]) = 1
             /\ attempt'[q] # "settled" => Len(outcomes'[q]) = 0
             /\ q = r /\ attempt[q] \in {"open", "settled"} => attempt'[q] = "settled"
<1> SUFFICES ASSUME NEW q \in Metered
             PROVE  /\ q # r => attempt'[q] = attempt[q] /\ outcomes'[q] = outcomes[q]
                    /\ attempt'[q] = "settled" => Len(outcomes'[q]) = 1
                    /\ attempt'[q] # "settled" => Len(outcomes'[q]) = 0
                    /\ q = r /\ attempt[q] \in {"open", "settled"}
                          => attempt'[q] = "settled"
    OBVIOUS
<1>0. q \in Requests BY MeteredAssumption
<1>1. CASE attempt[r] = "open"
  <2>1. attempt' = [attempt EXCEPT ![r] = "settled"] BY <1>1 DEF Settle
  <2>2. PICK o \in {"usage", "no_usage"} :
            outcomes' = [outcomes EXCEPT ![r] = Append(@, o)]
        BY <1>1 DEF Settle
  <2>3. outcomes[q] \in Seq({"usage", "no_usage"}) BY <1>0 DEF TypeOK
  <2>4. CASE q = r
    <3>1. outcomes'[q] = Append(outcomes[q], o) /\ attempt'[q] = "settled"
          BY <1>0, <2>1, <2>2, <2>4 DEF TypeOK
    <3>2. Len(outcomes[q]) = 0 BY <1>1, <2>4 DEF UsageFollows
    <3>3. Len(Append(outcomes[q], o)) = Len(outcomes[q]) + 1 BY <2>3
    <3> QED BY <2>4, <3>1, <3>2, <3>3
  <2>5. CASE q # r
    <3>1. outcomes'[q] = outcomes[q] /\ attempt'[q] = attempt[q]
          BY <1>0, <2>1, <2>2, <2>5 DEF TypeOK
    <3> QED BY <2>5, <3>1 DEF UsageFollows
  <2> QED BY <2>4, <2>5
<1>2. CASE attempt[r] # "open"
  BY <1>2 DEF Settle, UsageFollows
<1> QED BY <1>1, <1>2

\* Every step keeps the attempt where the handler, the body or the drain is.
LEMMA UsageStep == TypeOK /\ UsageFollows /\ [Next]_vars => UsageFollows'
<1> SUFFICES ASSUME TypeOK, UsageFollows, [Next]_vars, NEW q \in Metered
             PROVE  /\ attempt'[q] = "settled" => Len(outcomes'[q]) = 1
                    /\ attempt'[q] # "settled" => Len(outcomes'[q]) = 0
                    /\ pc'[q] \in {"idle", "arrived", "selected", "token"}
                          => attempt'[q] = "none"
                    /\ pc'[q] \in {"sending", "disabling"} => attempt'[q] = "open"
                    /\ pc'[q] = "streaming" => attempt'[q] \in {"open", "settled"}
                    /\ q \in draining' =>
                          pc'[q] = "done" /\ attempt'[q] \in {"open", "settled"}
                    /\ pc'[q] = "done" /\ reply'[q] \in {"passed"} \cup WrappedError
                          /\ q \notin draining' => attempt'[q] = "settled"
    BY DEF UsageFollows
<1> DEFINE Goal == /\ attempt'[q] = "settled" => Len(outcomes'[q]) = 1
                   /\ attempt'[q] # "settled" => Len(outcomes'[q]) = 0
                   /\ pc'[q] \in {"idle", "arrived", "selected", "token"}
                         => attempt'[q] = "none"
                   /\ pc'[q] \in {"sending", "disabling"} => attempt'[q] = "open"
                   /\ pc'[q] = "streaming" => attempt'[q] \in {"open", "settled"}
                   /\ q \in draining' =>
                         pc'[q] = "done" /\ attempt'[q] \in {"open", "settled"}
                   /\ pc'[q] = "done" /\ reply'[q] \in {"passed"} \cup WrappedError
                         /\ q \notin draining' => attempt'[q] = "settled"
<1>0. q \in Requests BY MeteredAssumption
<1>t. /\ pc \in [Requests -> PCs] /\ reply \in [Requests -> Replies]
      /\ attempt \in [Requests -> {"none", "open", "settled", "lost"}]
      BY DEF TypeOK
<1> USE DEF UsageFollows, WrappedError, dbvars, slotvars, usagevars
<1>1. ASSUME NEW r \in Requests,
             Arrive(r) \/ NoAccount(r) \/ Intercept(r) \/ AcquireSlot(r)
      PROVE  Goal
      BY <1>0, <1>1, <1>t DEF Arrive, NoAccount, Intercept, AcquireSlot, Finish
<1>2. ASSUME NEW r \in Requests, NEW a \in Accounts, Select(r, a) PROVE Goal
      BY <1>0, <1>2, <1>t DEF Select
<1>3. ASSUME NEW r \in Requests, ResolveToken(r) \/ TokenError(r) PROVE Goal
      BY <1>0, <1>3, <1>t DEF ResolveToken, TokenError, Finish
<1>4. ASSUME NEW r \in Requests, SendError(r) \/ ClientCancel(r) PROVE Goal
      BY <1>0, <1>4, <1>t DEF SendError, ClientCancel, Finish, Lose, Awaiting
<1>5. ASSUME NEW r \in Requests, NEW s \in Statuses, Respond(r, s) PROVE Goal
      BY <1>0, <1>5, <1>t DEF Respond, ResponseBody, Finish, Statuses
<1>6. ASSUME NEW r \in Requests, DisableAccount(r) PROVE Goal
      BY <1>0, <1>6, <1>t DEF DisableAccount, ResponseBody, Finish
<1>7. ASSUME NEW r \in Requests, FinalizeEarly(r) \/ DrainEnds(r) PROVE Goal
  <2>1. Settle(r) BY <1>7 DEF FinalizeEarly, DrainEnds
  <2> QED BY <1>0, <1>7, <1>t, <2>1, SettleOutcome DEF FinalizeEarly, DrainEnds
<1>8. ASSUME NEW r \in Requests, BodyEnds(r) PROVE Goal
  <2>1. Settle(r) BY <1>8 DEF BodyEnds
  <2> QED BY <1>0, <1>8, <1>t, <2>1, SettleOutcome DEF BodyEnds, Finish
<1>9. ASSUME NEW a \in Accounts, ReleaseTask(a) \/ EnableAccount(a) PROVE Goal
      BY <1>9 DEF ReleaseTask, EnableAccount
<1>10. ASSUME NEW a \in Accounts, NEW c \in 0..MaxConcurrency, SetConcurrency(a, c)
       PROVE  Goal
      BY <1>10 DEF SetConcurrency
<1>11. ASSUME CacheExpires \/ UNCHANGED vars PROVE Goal
      BY <1>11 DEF CacheExpires, vars
<1> QED BY <1>1, <1>2, <1>3, <1>4, <1>5, <1>6, <1>7, <1>8, <1>9, <1>10, <1>11
        DEF Next, Step

\* A metered request whose response was observed is reported exactly once to
\* the usage service, however its body, its drain and its client end.
THEOREM SettledExactlyOnce == Spec => []SettledOnce
<1>1. Init => UsageFollows
  <2> SUFFICES ASSUME Init, NEW r \in Metered
               PROVE  /\ attempt[r] = "none" /\ pc[r] = "idle"
                      /\ r \notin draining /\ Len(outcomes[r]) = 0
      BY DEF UsageFollows
  <2> QED BY MeteredAssumption DEF Init
<1>2. UsageFollows /\ TypeOK => SettledOnce
  <2> SUFFICES ASSUME UsageFollows, TypeOK, NEW r \in Metered
               PROVE  /\ Len(outcomes[r]) <= 1
                      /\ pc[r] = "done" /\ reply[r] \in {"passed"} \cup WrappedError
                            /\ r \notin draining => Len(outcomes[r]) = 1
      BY DEF SettledOnce
  <2>1. Len(outcomes[r]) = 1 \/ Len(outcomes[r]) = 0 BY DEF UsageFollows
  <2>2. Len(outcomes[r]) <= 1
    <3>1. outcomes[r] \in Seq({"usage", "no_usage"}) BY MeteredAssumption DEF TypeOK
    <3>2. \A n \in Nat : n = 1 \/ n = 0 => n <= 1 OBVIOUS
    <3> QED BY <2>1, <3>1, <3>2
  <2>3. attempt[r] = "settled" => Len(outcomes[r]) = 1 BY DEF UsageFollows
  <2> QED BY <2>2, <2>3 DEF UsageFollows
<1>3. TypeOK /\ UsageFollows /\ [Next]_vars => UsageFollows' BY UsageStep
<1> QED BY <1>1, <1>2, <1>3, TypeCorrect, PTL DEF Spec
-------------------------------------------------------------------------------
(***************************************************************************)
(* Refinement: every step of the gateway is a step of SlotSpec on the sets  *)
(* of live holders, or leaves them alone.                                   *)
(***************************************************************************)
\* No request and no counter: the abstract slots start empty.
LEMMA RefineInit == Init => Abstract!SInit
<1> SUFFICES ASSUME Init PROVE Abstract!SInit
    OBVIOUS
<1>1. [a \in Accounts |-> Holders(a)] = [a \in Accounts |-> {}]
      BY DEF Init, Holders
<1> QED BY <1>1 DEF Init, Abstract!SInit

\* Dropping a SlotHolder is the abstract step that starts its release.
LEMMA RefineDrop ==
    ASSUME IInv, NEW r \in Requests, DropSlot(r), acct' = acct, quota' = quota
    PROVE  [Abstract!SNext]_(Abstract!svars)
<1> DEFINE H == [a \in Accounts |-> Holders(a)]
<1>0. acct[r] \in Accounts /\ hold \in [Requests -> BOOLEAN] BY DEF IInv, TypeOK
<1>1. CASE hold[r]
  <2>1. r \in H[acct[r]] BY <1>0, <1>1 DEF Holders
  <2>2. ASSUME NEW a \in Accounts
        PROVE  Holders(a)' = IF a = acct[r] THEN Holders(a) \ {r} ELSE Holders(a)
        BY <1>0 DEF DropSlot, Holders
  <2>3. H' = [H EXCEPT ![acct[r]] = @ \ {r}] BY <1>0, <2>2
  <2>4. Abstract!Release(r, acct[r]) BY <2>1, <2>3 DEF Abstract!Release
  <2> QED BY <1>0, <2>4 DEF Abstract!SNext
<1>2. CASE ~hold[r]
  <2>1. \A a \in Accounts : Holders(a)' = Holders(a)
        BY <1>0, <1>2 DEF DropSlot, Holders
  <2>2. H' = H BY <2>1
  <2> QED BY <2>2 DEF Abstract!svars
<1> QED BY <1>1, <1>2

\* A step that touches no slot is a stutter of SlotSpec.
LEMMA RefineSame ==
    ASSUME hold' = hold, acct' = acct, quota' = quota
    PROVE  [Abstract!SNext]_(Abstract!svars)
BY SameHolders DEF Abstract!svars

\* Every step of the gateway is an abstract slot step or a stutter.
LEMMA RefineStep == IInv /\ [Next]_vars => [Abstract!SNext]_(Abstract!svars)
<1> SUFFICES ASSUME IInv, [Next]_vars PROVE [Abstract!SNext]_(Abstract!svars)
    OBVIOUS
<1> DEFINE H == [a \in Accounts |-> Holders(a)]
           Goal == [Abstract!SNext]_(Abstract!svars)
<1> USE DEF dbvars, slotvars, usagevars
<1>1. ASSUME NEW r \in Requests, NEW a \in Accounts, Select(r, a) PROVE Goal
  <2>1. ~hold[r] BY <1>1 DEF Select, IInv, HoldersAreLive
  <2>2. \A b \in Accounts : Holders(b)' = Holders(b)
        BY <1>1, <2>1 DEF Select, Holders, IInv, TypeOK
  <2>3. H' = H BY <2>2
  <2>4. ~Abstract!Holding(r)
    <3>1. \A b \in Accounts : r \notin Holders(b) BY <2>1 DEF Holders
    <3> QED BY <3>1 DEF Abstract!Holding
  <2>5. PICK m \in 0..MaxConcurrency : quota' = [quota EXCEPT ![r] = m]
        BY <1>1 DEF Select, IInv, TypeOK
  <2>6. Abstract!Read(r, m) BY <2>3, <2>4, <2>5 DEF Abstract!Read
  <2> QED BY <2>6 DEF Abstract!SNext
<1>2. ASSUME NEW r \in Requests, AcquireSlot(r) PROVE Goal
  <2> DEFINE a == acct[r]
  <2>1. a \in Accounts /\ slots[a] \in Nat /\ quota[r] \in Int
        BY DEF IInv, TypeOK
  <2>2. CASE slots[a] < quota[r]
    <3>1. ~hold[r] BY <1>2 DEF AcquireSlot, IInv, HoldersAreLive
    <3>2. ~Abstract!Holding(r) BY <3>1 DEF Abstract!Holding, Holders
    <3>3. Cardinality(H[a]) < quota[r]
      <4>1. slots[a] = Cardinality(Holders(a)) + releasing[a]
            BY <2>1 DEF IInv, SlotAccounting
      <4>2. Cardinality(Holders(a)) \in Nat BY <2>1, HoldersFinite
      <4>3. releasing[a] \in Nat BY <2>1 DEF IInv, TypeOK
      <4> QED BY <2>1, <2>2, <4>1, <4>2, <4>3
    <3>4. hold' = [hold EXCEPT ![r] = TRUE] /\ acct' = acct /\ quota' = quota
          BY <1>2, <2>1, <2>2 DEF AcquireSlot, SlotFree
    <3>5. ASSUME NEW b \in Accounts
          PROVE  Holders(b)' = IF b = a THEN Holders(b) \cup {r} ELSE Holders(b)
          BY <3>4 DEF Holders, IInv, TypeOK
    <3>6. H' = [H EXCEPT ![a] = @ \cup {r}] BY <2>1, <3>5
    <3>7. Abstract!Cardinality(H[a]) = Cardinality(H[a])
          BY DEF Abstract!Cardinality, Cardinality
    <3>8. Abstract!Admit(r, a) BY <3>2, <3>3, <3>4, <3>6, <3>7 DEF Abstract!Admit
    <3> QED BY <2>1, <3>8 DEF Abstract!SNext
  <2>3. CASE slots[a] >= quota[r]
        BY <1>2, <2>1, <2>3, RefineSame DEF AcquireSlot, SlotFree
  <2> QED BY <2>1, <2>2, <2>3
<1>3. ASSUME NEW r \in Requests,
             TokenError(r) \/ SendError(r) \/ BodyEnds(r) \/ ClientCancel(r)
      PROVE  Goal
      BY <1>3, RefineDrop DEF TokenError, SendError, BodyEnds, ClientCancel
<1>4. ASSUME NEW r \in Requests, NEW s \in Statuses, Respond(r, s) PROVE Goal
      BY <1>4, RefineDrop, RefineSame DEF Respond, ResponseBody
<1>5. ASSUME NEW r \in Requests, DisableAccount(r) PROVE Goal
      BY <1>5, RefineDrop, RefineSame DEF DisableAccount, ResponseBody
<1>6. ASSUME NEW r \in Requests,
             \/ Arrive(r) \/ NoAccount(r) \/ Intercept(r) \/ ResolveToken(r)
             \/ FinalizeEarly(r) \/ DrainEnds(r)
      PROVE  Goal
      BY <1>6, RefineSame DEF Arrive, NoAccount, Intercept, ResolveToken,
                              FinalizeEarly, DrainEnds
<1>7. ASSUME NEW a \in Accounts, ReleaseTask(a) \/ EnableAccount(a) PROVE Goal
      BY <1>7, RefineSame DEF ReleaseTask, EnableAccount
<1>8. ASSUME NEW a \in Accounts, NEW c \in 0..MaxConcurrency, SetConcurrency(a, c)
      PROVE  Goal
      BY <1>8, RefineSame DEF SetConcurrency
<1>9. ASSUME CacheExpires \/ UNCHANGED vars PROVE Goal
      BY <1>9, RefineSame DEF CacheExpires, vars
<1> QED BY <1>1, <1>2, <1>3, <1>4, <1>5, <1>6, <1>7, <1>8, <1>9 DEF Next, Step

\* The gateway with the in-process store implements SlotSpec: no request is
\* ever admitted beyond the concurrency limit it read, for any number of
\* requests and accounts and whatever the clients and the upstream do.
THEOREM Refinement == Spec => ImplementsSlots
BY RefineInit, RefineStep, Invariance, PTL
   DEF Spec, ImplementsSlots, Abstract!SSpec
===============================================================================
