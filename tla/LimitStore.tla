------------------------------ MODULE LimitStore ------------------------------
(***************************************************************************)
(* service/limit.rs: the in-memory rate-limit state of one account (the     *)
(* states map is keyed by account and no operation touches two entries),    *)
(* fed by response headers and by /api/oauth/usage, read by the selector,   *)
(* and flushed to the accounts table by spawned tasks.                      *)
(*                                                                          *)
(* Utilization is abstracted to `hot` (>= HIT_THRESHOLD), a counter to      *)
(* `low` (remaining/limit < PREEMPT_RATIO).  Responses carry times relative *)
(* to the clock; None stands for an absent header or an unset time.         *)
(***************************************************************************)
EXTENDS Integers, FiniteSets

CONSTANTS Counters,     \* the RPM/TPM counters (requests, tokens, ...)
          Responses,    \* upstream responses considered
          Usages,       \* /api/oauth/usage bodies considered
          Flushes,      \* names for flush tasks in flight at once
          FlushTTL,     \* DB_FLUSH_TTL
          DefaultBan,   \* DEFAULT_429_BAN
          MaxIn,        \* bound on every relative time of a response
          MaxClock,     \* bound on the clock
          WritesFail    \* whether a write of the accounts table may fail

VARIABLES clock,      \* Utc::now()
          st,         \* the account's LimitState
          flushed,    \* last_db_flush_at, None before the first flush
          flush,      \* flush task -> [stage, until]
          dbUntil,    \* accounts.rate_limit_reset_at, None when NULL
          reported    \* history: whom the upstream has limited so far

vars == <<clock, st, flushed, flush, dbUntil, reported>>

Groups == {"sonnet", "fable"}
ModelClass == Groups \cup {"opus"}
None == -1
Time == 0..MaxClock
OptTime == {None} \cup Time
UnifiedStatus == {"allowed", "warning", "rejected"}
OptStatus == UnifiedStatus \cup {"none"}
Window == [hot : BOOLEAN, resets : OptTime, status : OptStatus, over : BOOLEAN]
NoWindow == [hot |-> FALSE, resets |-> None, status |-> "none", over |-> FALSE]
Counter == [low : BOOLEAN, resets : OptTime]
NoCounter == [low |-> FALSE, resets |-> None]
LimitState == [five : Window, seven : Window, status : OptStatus, reset_at : OptTime,
               rate_limited_until : OptTime, rpm_tpm : [Counters -> Counter],
               scoped_weekly : [Groups -> Window],
               scoped_rate_limited_until : [Groups -> OptTime],
               sonnet_seven_day : Window, sonnet_rate_limited_until : OptTime]

\* What a response can carry; times count from the moment it is absorbed, and
\* one that is over already counts as 0.  A window that is there has a reset
\* time and a status; a usage body's is always `allowed`.
In == {None} \cup 0..MaxIn
HeaderWindow == {NoWindow} \cup
    [hot : BOOLEAN, resets : 0..MaxIn, status : UnifiedStatus, over : BOOLEAN]
UsageWindow == {NoWindow} \cup
    [hot : BOOLEAN, resets : 0..MaxIn, status : {"allowed"}, over : {FALSE}]
Response == [class : ModelClass, code : {200, 429},
             claim : Groups \cup {"account", "none"}, status : OptStatus,
             reset : In, five : HeaderWindow, seven : HeaderWindow,
             scoped : [Groups -> HeaderWindow],
             counters : [Counters -> [low : BOOLEAN, resets : In]], retry : In]
Usage == [five : UsageWindow, seven : UsageWindow, opus : UsageWindow,
          sonnet : UsageWindow, has_limits : BOOLEAN, scoped : [Groups -> UsageWindow]]

ASSUME ResponsesAssumption == Responses \subseteq Response
ASSUME UsagesAssumption == Usages \subseteq Usage
ASSUME BoundsAssumption == /\ MaxClock \in Nat /\ MaxIn \in Nat /\ FlushTTL \in Nat
                           /\ DefaultBan \in 1..MaxIn /\ WritesFail \in BOOLEAN

Idle == [stage |-> "idle", until |-> None]

Unknown == [five |-> NoWindow, seven |-> NoWindow, status |-> "none",
            reset_at |-> None, rate_limited_until |-> None,
            rpm_tpm |-> [k \in Counters |-> NoCounter],
            scoped_weekly |-> [g \in Groups |-> NoWindow],
            scoped_rate_limited_until |-> [g \in Groups |-> None],
            sonnet_seven_day |-> NoWindow, sonnet_rate_limited_until |-> None]

Init == /\ clock = 0
        /\ st = Unknown
        /\ flushed = None
        /\ flush = [f \in Flushes |-> Idle]
        /\ dbUntil = None
        /\ reported = {}
-------------------------------------------------------------------------------
(***************************************************************************)
(* Reading a response: compute_new_state, apply_parsed.                     *)
(***************************************************************************)
At(in) == IF in = None THEN None ELSE clock + in
AtWindow(w) == [w EXCEPT !.resets = At(@)]

any_present(r) == \/ r.five # NoWindow \/ r.seven # NoWindow
                  \/ \E g \in Groups : r.scoped[g] # NoWindow
                  \/ r.status # "none" \/ r.claim # "none" \/ r.reset # None
has_counters(r) == \E k \in Counters : r.counters[k] # NoCounter
Informative(r) == any_present(r) \/ has_counters(r)

\* An old-style response carries a scoped quota in the plain 7d window.
MutLegacyGroup(r) == "none"
legacy_scoped_group(r) ==
    IF r.claim \in Groups /\ r.seven # NoWindow /\ r.scoped[r.claim] = NoWindow
    THEN r.claim ELSE "none"

\* The window a response reports for group g, if any.
ScopedWindow(r, g) ==
    IF legacy_scoped_group(r) = g
    THEN [r.seven EXCEPT !.status = IF r.status # "none" THEN r.status ELSE @]
    ELSE r.scoped[g]

\* The short ban a 429 puts on the account, and on a group; None if it does not.
MutAccountBan(r) ==
    IF r.code = 429 /\ r.claim \notin Groups THEN At(r.retry) ELSE None
account_ban(r) ==
    CASE r.code # 429 -> None
      [] r.code = 429 /\ Informative(r) ->
            IF r.claim \notin Groups /\ r.reset = None THEN At(r.retry) ELSE None
      [] OTHER -> IF r.class \in Groups THEN None
                  ELSE At(IF r.retry # None THEN r.retry ELSE DefaultBan)
scoped_ban(r, g) ==
    CASE r.code # 429 -> None
      [] r.code = 429 /\ Informative(r) ->
            IF r.claim = g THEN At(IF r.reset # None THEN r.reset ELSE r.retry) ELSE None
      [] OTHER -> IF r.class = g
                  THEN At(IF r.retry # None THEN r.retry ELSE DefaultBan) ELSE None

\* set_scoped_window and set_scoped_ban keep the Sonnet mirror beside the maps.
Newer(new, old, none) == IF new # none THEN new ELSE old
apply_status(p, r) ==
    IF r.claim \in Groups THEN p.status ELSE Newer(r.status, p.status, "none")

compute_new_state(p, r) ==
    [five |-> Newer(AtWindow(r.five), p.five, NoWindow),
     seven |-> IF legacy_scoped_group(r) = "none"
               THEN Newer(AtWindow(r.seven), p.seven, NoWindow) ELSE p.seven,
     status |-> apply_status(p, r),
     reset_at |-> Newer(At(r.reset), p.reset_at, None),
     rate_limited_until |-> Newer(account_ban(r), p.rate_limited_until, None),
     rpm_tpm |-> [k \in Counters |->
         Newer([r.counters[k] EXCEPT !.resets = At(@)], p.rpm_tpm[k], NoCounter)],
     scoped_weekly |-> [g \in Groups |->
         Newer(AtWindow(ScopedWindow(r, g)), p.scoped_weekly[g], NoWindow)],
     scoped_rate_limited_until |-> [g \in Groups |->
         Newer(scoped_ban(r, g), p.scoped_rate_limited_until[g], None)],
     sonnet_seven_day |->
         Newer(AtWindow(ScopedWindow(r, "sonnet")), p.sonnet_seven_day, NoWindow),
     sonnet_rate_limited_until |->
         Newer(scoped_ban(r, "sonnet"), p.sonnet_rate_limited_until, None)]
-------------------------------------------------------------------------------
(***************************************************************************)
(* Judging a state: counter_preempted, judge_availability.                  *)
(***************************************************************************)
counter_preempted(c) == c.low /\ c.resets > clock
MutHit(w) == w.hot
Hit(w) == w.hot /\ w.resets > clock

account_gate(s) == /\ s.status # "rejected"
                   /\ s.rate_limited_until <= clock
                   /\ \A k \in Counters : ~counter_preempted(s.rpm_tpm[k])
                   /\ ~Hit(s.five) /\ ~Hit(s.seven)

\* The scoped maps first, the Sonnet mirror where they have no entry.
ScopedView(s, g) == IF g = "sonnet" THEN Newer(s.scoped_weekly[g], s.sonnet_seven_day, NoWindow)
                                    ELSE s.scoped_weekly[g]
BanView(s, g) == IF g = "sonnet"
                 THEN Newer(s.scoped_rate_limited_until[g], s.sonnet_rate_limited_until, None)
                 ELSE s.scoped_rate_limited_until[g]
judge_availability(s, c) ==
    /\ account_gate(s)
    /\ c \in Groups => /\ BanView(s, c) <= clock
                       /\ ScopedView(s, c).status # "rejected"
                       /\ ~Hit(ScopedView(s, c))

Available(c) == judge_availability(st, c)

\* The `until` an Unavailable verdict carries: that of the first failing gate.
Until(c) ==
    CASE st.status = "rejected" -> st.reset_at
      [] st.rate_limited_until > clock -> st.rate_limited_until
      [] \E k \in Counters : counter_preempted(st.rpm_tpm[k]) ->
            (CHOOSE k \in {st.rpm_tpm[j] : j \in Counters} : counter_preempted(k)).resets
      [] Hit(st.five) -> st.five.resets
      [] Hit(st.seven) -> st.seven.resets
      [] BanView(st, c) > clock -> BanView(st, c)
      [] OTHER -> ScopedView(st, c).resets
-------------------------------------------------------------------------------
(***************************************************************************)
(* Operations.                                                              *)
(***************************************************************************)
Lax == {"none", "allowed"}
flush_reason(p, n) ==
    \/ flushed = None
    \/ clock - flushed >= FlushTTL
    \/ p.status \in Lax /\ n.status \notin Lax
    \/ \E g \in Groups :
          LET o == p.scoped_weekly[g]  w == n.scoped_weekly[g]
          IN \/ o = NoWindow /\ w # NoWindow
             \/ o.status \in Lax /\ w.status \notin Lax
             \/ w.hot /\ ~o.hot
             \/ w.over /\ ~o.over
             \/ n.scoped_rate_limited_until[g] > p.scoped_rate_limited_until[g]
    \/ n.five.hot /\ ~p.five.hot
    \/ n.seven.hot /\ ~p.seven.hot
    \/ n.five.over /\ ~p.five.over
    \/ n.seven.over /\ ~p.seven.over
    \/ p.rate_limited_until = None /\ n.rate_limited_until # None
    \/ /\ \E k \in Counters : counter_preempted(n.rpm_tpm[k])
       /\ ~\E k \in Counters : counter_preempted(p.rpm_tpm[k])

\* Whom a response or a usage body limits, as the upstream means it: the
\* account, or the model group whose weekly quota or claim it names.
Bad(w) == w.hot \/ w.status = "rejected"
Limits(r) ==
    {g \in Groups : \/ Bad(ScopedWindow(r, g))
                    \/ r.code = 429 /\ r.claim = g
                    \/ r.code = 429 /\ ~Informative(r) /\ r.class = g}
    \cup IF \/ r.five.hot
            \/ r.seven.hot /\ ~(r.claim \in Groups /\ r.scoped[r.claim] = NoWindow)
            \/ r.claim \notin Groups /\ r.status = "rejected"
            \/ \E k \in Counters : r.counters[k].low
            \/ r.code = 429 /\ r.claim \notin Groups
                  /\ (Informative(r) \/ r.class \notin Groups)
         THEN {"account"} ELSE {}
UsageLimits(u) == {g \in Groups : u.scoped[g].hot}
                  \cup (IF u.sonnet.hot THEN {"sonnet"} ELSE {})
                  \cup (IF u.five.hot \/ u.seven.hot \/ u.opus.hot THEN {"account"} ELSE {})

\* absorb_headers on the response path, with the flush task it spawns.
\* Bounds: no response arrives so late that a reset would pass the horizon,
\* and at most one task per member of Flushes is under way.
absorb_headers(r) ==
    /\ clock + MaxIn <= MaxClock
    /\ Informative(r) \/ r.code = 429
    /\ LET n == compute_new_state(st, r)
       IN /\ st' = n
          /\ IF flush_reason(st, n)
             THEN /\ flushed' = clock
                  /\ \E f \in Flushes : /\ flush[f] = Idle
                                        /\ flush' = [flush EXCEPT ![f].stage = "spawned"]
             ELSE UNCHANGED <<flushed, flush>>
    /\ reported' = reported \cup Limits(r)
    /\ UNCHANGED <<clock, dbUntil>>

\* apply_usage_json: an explicit limits list replaces every scoped window.
MutUsageKeepsMirror(p, u) ==
    Newer(AtWindow(Newer(u.scoped["sonnet"], u.sonnet, NoWindow)), p.sonnet_seven_day, NoWindow)
usage_mirror(p, u) ==
    Newer(AtWindow(Newer(u.scoped["sonnet"], u.sonnet, NoWindow)),
          IF u.has_limits THEN NoWindow ELSE p.sonnet_seven_day, NoWindow)
ingest_usage_json(u) ==
    /\ clock + MaxIn <= MaxClock
    /\ st' = [st EXCEPT
         !.five = Newer(AtWindow(u.five), @, NoWindow),
         !.seven = Newer(AtWindow(Newer(u.opus, u.seven, NoWindow)), @, NoWindow),
         !.scoped_weekly = [g \in Groups |->
             LET new == IF g = "sonnet" THEN Newer(u.scoped[g], u.sonnet, NoWindow) ELSE u.scoped[g]
             IN Newer(AtWindow(new), IF u.has_limits THEN NoWindow ELSE @[g], NoWindow)],
         !.sonnet_seven_day = usage_mirror(st, u)]
    /\ reported' = reported \cup UsageLimits(u)
    /\ UNCHANGED <<clock, flushed, flush, dbUntil>>
-------------------------------------------------------------------------------
\* bottleneck_limit_until: the latest reset that still blocks the account.
bottleneck_limit_until(s) ==
    LET picks == {w.resets : w \in {v \in {s.five, s.seven} : Hit(v)}}
                 \cup {c.resets : c \in {s.rpm_tpm[k] : k \in
                                         {j \in Counters : counter_preempted(s.rpm_tpm[j])}}}
    IN IF picks = {} THEN None ELSE CHOOSE t \in picks : \A u \in picks : u <= t

\* flush_to_db: snapshot under the mutex, update_usage, then the limit columns.
FlushSnapshot(f) ==
    /\ flush[f].stage = "spawned"
    /\ flush' = [flush EXCEPT ![f] =
          [stage |-> "usage",
           until |-> Newer(bottleneck_limit_until(st), st.rate_limited_until, None)]]
    /\ UNCHANGED <<clock, st, flushed, dbUntil, reported>>
FlushUsage(f) ==
    /\ flush[f].stage = "usage"
    /\ \/ flush' = [flush EXCEPT ![f].stage = "limit"]
       \/ WritesFail /\ flush' = [flush EXCEPT ![f] = Idle]
    /\ UNCHANGED <<clock, st, flushed, dbUntil, reported>>
FlushLimit(f) ==
    /\ flush[f].stage = "limit"
    /\ flush' = [flush EXCEPT ![f] = Idle]
    /\ \/ dbUntil' = flush[f].until      \* set_rate_limit, or clear_rate_limit
       \/ WritesFail /\ UNCHANGED dbUntil
    /\ UNCHANGED <<clock, st, flushed, reported>>

\* The process restarts: memory and tasks are lost, main() clears the columns.
Restart == /\ st # Unknown
           /\ st' = Unknown /\ flushed' = None /\ reported' = {}
           /\ flush' = [f \in Flushes |-> Idle]
           /\ dbUntil' = None
           /\ UNCHANGED clock

Tick == /\ clock < MaxClock /\ clock' = clock + 1
        /\ UNCHANGED <<st, flushed, flush, dbUntil, reported>>

Next == \/ \E r \in Responses : absorb_headers(r)
        \/ \E u \in Usages : ingest_usage_json(u)
        \/ \E f \in Flushes : FlushSnapshot(f) \/ FlushUsage(f) \/ FlushLimit(f)
        \/ Restart
        \/ Tick

Spec == Init /\ [][Next]_vars
-------------------------------------------------------------------------------
(***************************************************************************)
(* Properties.                                                              *)
(***************************************************************************)
TypeOK ==
    /\ clock \in 0..MaxClock
    /\ st \in LimitState
    /\ flushed \in {None} \cup 0..MaxClock
    /\ flush \in [Flushes -> [stage : {"idle", "spawned", "usage", "limit"}, until : OptTime]]
    /\ dbUntil \in OptTime
    /\ reported \subseteq Groups \cup {"account"}

\* The Sonnet mirror fields always equal the scoped maps' Sonnet entries, so
\* the fallback of judge_availability to the mirror never finds a window or a
\* ban that the maps no longer have.
MirrorAgrees ==
    /\ st.sonnet_seven_day = st.scoped_weekly["sonnet"]
    /\ st.sonnet_rate_limited_until = st.scoped_rate_limited_until["sonnet"]

\* Scoped limits stay scoped through any mix of old- and new-style headers,
\* bare 429s and usage bodies: a model class is refused, and the database
\* column set, only if the upstream limited the account or that very group.
ScopedLimitsStayScoped ==
    /\ \A c \in ModelClass : ~Available(c) => reported \cap {"account", c} # {}
    /\ dbUntil # None => "account" \in reported

\* README:706: after a 429 that names a limit, the selector avoids the account
\* for the class that was refused as soon as the headers are absorbed, whatever
\* the state held before.
MustBackOff(r) ==
    \/ ~Informative(r) /\ r.retry # 0
    \/ r.status = "rejected" /\ r.claim \notin Groups
    \/ /\ r.claim = r.class
       /\ IF r.reset # None THEN r.reset > 0 ELSE r.retry > 0
BackoffAfter429 ==
    \A r \in Responses :
        r.code = 429 /\ MustBackOff(r) =>
            ~judge_availability(compute_new_state(st, r), r.class)

\* Every limit with a time is temporary: once the clock has passed every reset
\* that was reported, only a `rejected` status can keep a class out.
LimitsExpire ==
    clock = MaxClock /\ st.status # "rejected" =>
        \A c \in ModelClass :
            Available(c) \/ (c \in Groups /\ st.scoped_weekly[c].status = "rejected")

\* README:682: an account that is judged unavailable recovers by itself at the
\* reset time it was given.
RecoversAtReset ==
    \A c \in ModelClass :
        ~Available(c) /\ Until(c) # None => Until(c) > clock
===============================================================================
