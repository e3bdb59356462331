----------------------------- MODULE OAuthRefresh -----------------------------
(***************************************************************************)
(* How AccountService hands out the access token of one OAuth account:      *)
(* resolve_oauth_access_token and refresh_oauth_access_token, the           *)
(* account-level lock of the MemoryStore, the row of the accounts table,    *)
(* and the admin handler that reads the whole row and writes it back.       *)
(*                                                                          *)
(* Time is kept as what remains of each deadline, so no horizon is needed.  *)
(* An access token is its remaining validity (0: empty, or expired, which   *)
(* no condition of the code tells apart); a refresh token is the number of  *)
(* the grant that issued it, 0 if empty.  normalize_account_auth refuses an *)
(* OAuth row without a refresh token, so the early return of                *)
(* resolve_oauth_access_token for an empty one is never taken.              *)
(***************************************************************************)
EXTENDS Integers

CONSTANTS Callers,      \* requests and usage polls that need the token
          LockTTL,      \* OAUTH_LOCK_TTL
          WaitAttempts, \* OAUTH_WAIT_ATTEMPTS
          Buffer,       \* OAUTH_REFRESH_BUFFER_SECONDS
          Life,         \* validity of a token the upstream issues
          MaxHold,      \* bound on the time a refresh takes, lock to unlock
          MaxGrants     \* bound on the refresh tokens ever issued

ASSUME TimesAssumption == /\ LockTTL \in Nat
                          /\ Buffer \in Nat
                          /\ Life \in Nat
                          /\ MaxHold \in Nat
                          /\ Life > Buffer
ASSUME WaitAssumption == WaitAttempts \in Nat \ {0}
ASSUME GrantsAssumption == MaxGrants \in Nat \ {0}

NoOne == "no one"
ASSUME CallersAssumption == NoOne \notin Callers

VARIABLES oauth,     \* accounts.auth_type is oauth, not setup_token
          access,    \* accounts.access_token with oauth_expires_at
          refresh,   \* accounts.refresh_token, 0 if empty
          authError, \* accounts.auth_error is not empty
          owner,     \* MemoryStore.locks: the owner of the entry, or NoOne
          lockLeft,  \* what remains of its expires_at, -1 once passed
          pc,
          copy,      \* access token and expiry in the caller's Account value
          copyGrant, \* refresh token in the caller's Account value
          fallback,  \* fallback_is_still_valid
          answer,    \* access token of the upstream's answer
          answerGrant, \* its refresh token
          timer,     \* time since the caller locked, or since it went to sleep
          attempts,  \* polls of a waiting caller
          ret,       \* the result: Pending, Failed or the token's validity
          admin,     \* the admin's PUT: "idle" or "read"
          adminOauth, adminCopy, adminGrant,  \* the row it read
          live,      \* upstream (external): refresh tokens it accepts
          grants,    \* upstream: refresh tokens issued so far
          lost       \* history: a rotated token was dropped on our side, or a
                     \* refresh outlasted its lock

accountvars == <<oauth, access, refresh, authError>>
lockvars == <<owner, lockLeft>>
callvars == <<copy, copyGrant, fallback, answer, answerGrant, timer, attempts>>
adminvars == <<admin, adminOauth, adminCopy, adminGrant>>
upvars == <<live, grants, lost>>
oauthVars == <<accountvars, lockvars, pc, callvars, ret, adminvars, upvars>>

Pending == -2
Failed == -1
\* The caller holds, or believes it holds, the lock.
Holding == {"reading", "calling", "answered", "refused", "unlock"}
PCs == Holding \cup {"idle", "copied", "waiting", "done"}

OAuthInit == /\ oauth = TRUE /\ access \in 0..Life
        /\ refresh = 1 /\ authError = FALSE
        /\ owner = NoOne /\ lockLeft = -1
        /\ pc = [c \in Callers |-> "idle"]
        /\ copy = [c \in Callers |-> 0]
        /\ copyGrant = [c \in Callers |-> 0]
        /\ fallback = [c \in Callers |-> FALSE]
        /\ answer = [c \in Callers |-> 0]
        /\ answerGrant = [c \in Callers |-> 0]
        /\ timer = [c \in Callers |-> 0]
        /\ attempts = [c \in Callers |-> 0]
        /\ ret = [c \in Callers |-> Pending]
        /\ admin = "idle" /\ adminOauth = TRUE /\ adminCopy = 0 /\ adminGrant = 0
        /\ live = {1} /\ grants = 1 /\ lost = FALSE

has_valid_oauth_access_token(isOauth, left) == isOauth /\ left > Buffer

\* The caller's local values go out of scope.
DropCopy(c) == /\ copy' = [copy EXCEPT ![c] = 0]
               /\ copyGrant' = [copyGrant EXCEPT ![c] = 0]
               /\ fallback' = [fallback EXCEPT ![c] = FALSE]
DropAnswer(c) == /\ answer' = [answer EXCEPT ![c] = 0]
                 /\ answerGrant' = [answerGrant EXCEPT ![c] = 0]
StartTimer(c) == /\ timer' = [timer EXCEPT ![c] = 0]
                 /\ attempts' = [attempts EXCEPT ![c] = 0]

Goto(c, l) == pc' = [pc EXCEPT ![c] = l]
\* The caller is done with result r.
Return(c, r) == /\ Goto(c, "done") /\ ret' = [ret EXCEPT ![c] = r]
                /\ DropCopy(c) /\ DropAnswer(c) /\ StartTimer(c)
\* refresh_oauth_access_token returns r to its caller, which still locks.
Unlocking(c, r) == /\ Goto(c, "unlock") /\ ret' = [ret EXCEPT ![c] = r]
                   /\ DropCopy(c) /\ DropAnswer(c) /\ UNCHANGED <<timer, attempts>>
-------------------------------------------------------------------------------
(***************************************************************************)
(* The lock of MemoryStore.                                                 *)
(***************************************************************************)
MutLockFreeEarly == owner = NoOne \/ lockLeft <= 0
LockFree == owner = NoOne \/ lockLeft < 0

acquire_lock(c) == owner' = c /\ lockLeft' = LockTTL

MutReleaseAny(c) == owner' = NoOne /\ lockLeft' = -1
release_lock(c) == IF owner = c THEN owner' = NoOne /\ lockLeft' = -1
                               ELSE UNCHANGED lockvars
-------------------------------------------------------------------------------
\* The Account value the caller will resolve with: the row as get_by_id or
\* the list cache has it.  The caller awaits other things before it resolves.
ReadAccount(c) ==
    /\ pc[c] = "idle" /\ oauth
    /\ Goto(c, "copied")
    /\ copy' = [copy EXCEPT ![c] = access]
    /\ UNCHANGED <<accountvars, lockvars, copyGrant, fallback, answer, answerGrant,
                   timer, attempts, ret, adminvars, upvars>>

ResolveCopy(c) ==
    /\ pc[c] = "copied"
    /\ has_valid_oauth_access_token(TRUE, copy[c])
    /\ Return(c, copy[c])
    /\ UNCHANGED <<accountvars, lockvars, adminvars, upvars>>

ResolveLocked(c) ==
    /\ pc[c] = "copied"
    /\ ~has_valid_oauth_access_token(TRUE, copy[c])
    /\ LockFree
    /\ acquire_lock(c)
    /\ Goto(c, "reading")
    /\ DropCopy(c) /\ StartTimer(c)
    /\ UNCHANGED <<accountvars, answer, answerGrant, ret, adminvars, upvars>>

ResolveWaits(c) ==
    /\ pc[c] = "copied"
    /\ ~has_valid_oauth_access_token(TRUE, copy[c])
    /\ ~LockFree
    /\ Goto(c, "waiting")
    /\ DropCopy(c) /\ StartTimer(c)
    /\ UNCHANGED <<accountvars, lockvars, answer, answerGrant, ret, adminvars,
                   upvars>>

\* One round of the wait loop: the sleep is over and the row is read again.
GivesUp(c) == attempts[c] + 1 >= WaitAttempts

MutSleepAgain(c) ==
    /\ timer' = [timer EXCEPT ![c] = 0]
    /\ UNCHANGED <<pc, ret, copy, copyGrant, fallback, answer, answerGrant,
                   attempts>>
SleepAgain(c) ==
    /\ timer' = [timer EXCEPT ![c] = 0]
    /\ attempts' = [attempts EXCEPT ![c] = @ + 1]
    /\ UNCHANGED <<pc, ret, copy, copyGrant, fallback, answer, answerGrant>>

Poll(c) ==
    /\ pc[c] = "waiting" /\ timer[c] > 0
    /\ IF has_valid_oauth_access_token(oauth, access) THEN Return(c, access)
       ELSE IF GivesUp(c) THEN Return(c, Failed)
       ELSE SleepAgain(c)
    /\ UNCHANGED <<accountvars, lockvars, adminvars, upvars>>

\* get_by_id returns an error to the wait loop.
PollFails(c) ==
    /\ pc[c] = "waiting" /\ timer[c] > 0
    /\ Return(c, Failed)
    /\ UNCHANGED <<accountvars, lockvars, adminvars, upvars>>
-------------------------------------------------------------------------------
(***************************************************************************)
(* refresh_oauth_access_token, under the lock.                              *)
(***************************************************************************)
\* The row is read again; another caller may have refreshed it meanwhile.
RereadValid(c) ==
    /\ pc[c] = "reading"
    /\ has_valid_oauth_access_token(oauth, access)
    /\ Unlocking(c, access)
    /\ UNCHANGED <<accountvars, lockvars, adminvars, upvars>>

RereadFails(c) ==
    /\ pc[c] = "reading"
    /\ Unlocking(c, Failed)
    /\ UNCHANGED <<accountvars, lockvars, adminvars, upvars>>

\* An admin has turned the account into a setup-token account meanwhile.
RereadEmpty(c) ==
    /\ pc[c] = "reading" /\ refresh = 0
    /\ authError' = TRUE
    /\ Unlocking(c, Failed)
    /\ UNCHANGED <<oauth, access, refresh, lockvars, adminvars, upvars>>

\* The copy of the row that the call and the fallback use.
CallUpstream(c) ==
    /\ pc[c] = "reading"
    /\ refresh # 0 /\ ~has_valid_oauth_access_token(oauth, access)
    /\ Goto(c, "calling")
    /\ copy' = [copy EXCEPT ![c] = access]
    /\ copyGrant' = [copyGrant EXCEPT ![c] = refresh]
    /\ fallback' = [fallback EXCEPT ![c] = access > 0]
    /\ UNCHANGED <<accountvars, lockvars, answer, answerGrant, timer, attempts,
                   ret, adminvars, upvars>>

\* External: the upstream accepts a live refresh token, and may rotate it.
\* refresh_oauth_token keeps the old one when the answer carries none.
refresh_oauth_token(c, rotated) ==
    [answerGrant EXCEPT ![c] = IF rotated THEN grants + 1 ELSE copyGrant[c]]

Issue(c, rotated) ==
    /\ rotated => grants < MaxGrants
    /\ grants' = IF rotated THEN grants + 1 ELSE grants
    /\ live' = IF rotated THEN (live \ {copyGrant[c]}) \cup {grants + 1}
                          ELSE live

UpstreamAnswers(c, rotated) ==
    /\ pc[c] = "calling" /\ copyGrant[c] \in live
    /\ Issue(c, rotated)
    /\ Goto(c, "answered")
    /\ answer' = [answer EXCEPT ![c] = Life]
    /\ answerGrant' = refresh_oauth_token(c, rotated)
    /\ UNCHANGED <<accountvars, lockvars, copy, copyGrant, fallback, timer,
                   attempts, ret, adminvars, lost>>

\* The call fails: the upstream refuses, or cannot be reached, or its answer
\* is lost or malformed after it has issued a token.
UpstreamRefuses(c) ==
    /\ pc[c] = "calling"
    /\ Goto(c, "refused")
    /\ UNCHANGED <<accountvars, lockvars, callvars, ret, adminvars, upvars>>

AnswerLost(c) ==
    /\ pc[c] = "calling" /\ copyGrant[c] \in live
    /\ Issue(c, TRUE)
    /\ lost' = TRUE
    /\ Goto(c, "refused")
    /\ UNCHANGED <<accountvars, lockvars, callvars, ret, adminvars>>

MutUpdateTokensKeepsRefresh(c) ==
    /\ access' = answer[c] /\ authError' = FALSE /\ UNCHANGED <<oauth, refresh>>
update_oauth_tokens(c) ==
    /\ access' = answer[c] /\ refresh' = answerGrant[c] /\ authError' = FALSE
    /\ UNCHANGED oauth

StoreTokens(c) ==
    /\ pc[c] = "answered"
    /\ update_oauth_tokens(c)
    /\ Unlocking(c, answer[c])
    /\ UNCHANGED <<lockvars, adminvars, upvars>>

StoreFails(c) ==
    /\ pc[c] = "answered"
    /\ Unlocking(c, Failed)
    /\ lost' = TRUE
    /\ UNCHANGED <<accountvars, lockvars, adminvars, live, grants>>

\* update_auth_error, whose own failure is ignored, then the fallback token.
RefreshFailed(c) ==
    /\ pc[c] = "refused"
    /\ authError' \in {authError, TRUE}
    /\ Unlocking(c, IF fallback[c] THEN copy[c] ELSE Failed)
    /\ UNCHANGED <<oauth, access, refresh, lockvars, adminvars, upvars>>

Release(c) ==
    /\ pc[c] = "unlock"
    /\ release_lock(c)
    /\ Return(c, ret[c])
    /\ UNCHANGED <<accountvars, adminvars, upvars>>

\* The client disconnects: the handler's future is dropped at an await.  The
\* lock is not released, and an answer that was not stored is gone.
Cancel(c) ==
    /\ pc[c] \in {"copied", "waiting"} \cup Holding
    /\ lost' = (lost \/ pc[c] = "answered")
    /\ Return(c, Failed)
    /\ UNCHANGED <<accountvars, lockvars, adminvars, live, grants>>
-------------------------------------------------------------------------------
(***************************************************************************)
(* update_account of the admin router: the row is read, changed and written *)
(* back whole, so what was stored in between is overwritten.                *)
(***************************************************************************)
AdminRead ==
    /\ admin = "idle"
    /\ admin' = "read" /\ adminOauth' = oauth
    /\ adminCopy' = access /\ adminGrant' = refresh
    /\ UNCHANGED <<accountvars, lockvars, pc, callvars, ret, upvars>>

\* The row becomes what normalize_account_auth makes of the admin's copy.
AdminWrite(isOauth, token, grant) ==
    /\ admin = "read"
    /\ oauth' = isOauth
    /\ access' = IF isOauth THEN token ELSE 0
    /\ refresh' = IF isOauth THEN grant ELSE 0
    /\ authError' = FALSE
    /\ admin' = "idle" /\ adminOauth' = TRUE /\ adminCopy' = 0 /\ adminGrant' = 0
    /\ UNCHANGED <<lockvars, pc, callvars, ret>>

\* Fields other than the credentials are edited.
AdminEdit ==
    /\ AdminWrite(adminOauth, adminCopy, adminGrant)
    /\ lost' = (lost \/ adminGrant # refresh)
    /\ UNCHANGED <<live, grants>>

\* The credentials of a new login are entered.
AdminLogin ==
    /\ grants < MaxGrants
    /\ grants' = grants + 1 /\ live' = live \cup {grants + 1}
    /\ AdminWrite(TRUE, Life, grants + 1)
    /\ lost' = (lost /\ \E c \in Callers : pc[c] \in Holding)

\* The account becomes a setup-token account.
AdminSetupToken ==
    /\ AdminWrite(FALSE, 0, 0)
    /\ UNCHANGED upvars
-------------------------------------------------------------------------------
Before(n) == IF n > 0 THEN n - 1 ELSE 0

\* Time passes.  MaxHold bounds how long a refresh may take; the code has no
\* bound below the HTTP client's 300 s, ten times the life of the lock.  A
\* sleeping or waiting caller may be scheduled as late as you like.
Tick ==
    /\ \A c \in Callers : pc[c] \in Holding => timer[c] < MaxHold
    /\ access' = Before(access)
    /\ lockLeft' = IF lockLeft >= 0 THEN lockLeft - 1 ELSE -1
    /\ copy' = [c \in Callers |-> Before(copy[c])]
    /\ answer' = [c \in Callers |-> Before(answer[c])]
    /\ adminCopy' = Before(adminCopy)
    /\ timer' = [c \in Callers |->
                   IF pc[c] \in Holding THEN timer[c] + 1
                   ELSE IF pc[c] = "waiting" THEN 1 ELSE 0]
    /\ lost' = (lost \/ \E c \in Callers : pc[c] \in Holding /\ timer[c] >= LockTTL)
    /\ UNCHANGED <<oauth, refresh, authError, owner, pc, ret, copyGrant,
                   fallback, answerGrant, attempts, admin, adminOauth, adminGrant,
                   live, grants>>

Resolve(c) == ResolveCopy(c) \/ ResolveLocked(c) \/ ResolveWaits(c)
Wait(c) == Poll(c) \/ PollFails(c)
Reread(c) == RereadValid(c) \/ RereadFails(c) \/ RereadEmpty(c) \/ CallUpstream(c)
Upstream(c) == \/ \E rotated \in BOOLEAN : UpstreamAnswers(c, rotated)
               \/ UpstreamRefuses(c) \/ AnswerLost(c)
Store(c) == StoreTokens(c) \/ StoreFails(c) \/ RefreshFailed(c)
Admin == AdminRead \/ AdminEdit \/ AdminLogin \/ AdminSetupToken

Caller(c) == Resolve(c) \/ Wait(c) \/ Reread(c) \/ Upstream(c) \/ Store(c)
             \/ Release(c)

OAuthNext == \/ \E c \in Callers : ReadAccount(c) \/ Caller(c) \/ Cancel(c)
        \/ Admin
        \/ Tick

OAuthSpec == OAuthInit /\ [][OAuthNext]_oauthVars

\* A handler that is not dropped runs on (the runtime polls every ready task;
\* the HTTP client's read timeout ends a call that gets no answer), and time
\* passes.
OAuthFairness == WF_oauthVars(Tick) /\ \A c \in Callers : WF_oauthVars(Caller(c))
OAuthFairSpec == OAuthSpec /\ OAuthFairness
-------------------------------------------------------------------------------
OAuthTypeOK ==
    /\ oauth \in BOOLEAN /\ access \in 0..Life
    /\ refresh \in 0..MaxGrants /\ authError \in BOOLEAN
    /\ owner \in Callers \cup {NoOne} /\ lockLeft \in -1..LockTTL
    /\ pc \in [Callers -> PCs]
    /\ copy \in [Callers -> 0..Life]
    /\ copyGrant \in [Callers -> 0..MaxGrants]
    /\ fallback \in [Callers -> BOOLEAN]
    /\ answer \in [Callers -> 0..Life]
    /\ answerGrant \in [Callers -> 0..MaxGrants]
    /\ timer \in [Callers -> 0..(MaxHold + 1)]
    /\ attempts \in [Callers -> 0..WaitAttempts]
    /\ ret \in [Callers -> Pending..Life]
    /\ admin \in {"idle", "read"} /\ adminOauth \in BOOLEAN /\ adminCopy \in 0..Life
    /\ adminGrant \in 0..MaxGrants
    /\ live \subseteq 1..MaxGrants /\ grants \in 1..MaxGrants
    /\ lost \in BOOLEAN

\* The caller is inside the lock, and not for longer than the lock lives.
InTime(c) == pc[c] \in Holding /\ timer[c] <= LockTTL

\* A caller between acquire_lock and release_lock owns the lock, which has not
\* expired under it, for as long as OAUTH_LOCK_TTL promises, whatever slower
\* callers do when they come back late.
HolderOwnsLock ==
    \A c \in Callers : InTime(c) => owner = c /\ lockLeft >= 0

\* The lock, the five-minute window and the re-read keep requests from
\* refreshing twice: two callers refresh the account at once only if one of
\* them has outlasted its lock.
ExclusiveRefresh ==
    \A c, d \in Callers :
        /\ pc[c] \in {"calling", "answered"} /\ InTime(c)
        /\ pc[d] \in {"calling", "answered"} /\ InTime(d)
        => c = d

\* Unless a rotated token was dropped on our side (the handler was cancelled
\* with the answer in hand, the write failed, an admin wrote an older row
\* back) or a refresh outlasted its lock, the refresh token in the row is one
\* the upstream accepts, or its successor is on the way to the row.
RefreshTokenUsable ==
    \/ refresh \in live \cup {0}
    \/ \E c \in Callers : pc[c] = "answered" /\ answerGrant[c] \in live
    \/ lost

\* A lock entry is taken from its owner only when it has expired or when the
\* owner itself releases it: a refresh that overran its lock never removes
\* the lock of the caller that took over.
LockRespected ==
    [][\A c \in Callers :
         owner = c /\ owner' # c => pc[c] = "unlock" \/ lockLeft < 0]_oauthVars

\* A caller that begins to resolve a token is answered, whatever becomes of
\* the caller that holds the lock: polls are bounded and locks expire.
CallersFinish ==
    \A c \in Callers : pc[c] = "copied" ~> pc[c] = "done"
===============================================================================
