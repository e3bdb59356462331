---------------------------- MODULE AccountProofs -----------------------------
(***************************************************************************)
(* Proofs about which account a request is sent to.                         *)
(* LimitStore, for every set of responses and usage bodies the parsers can  *)
(* produce, every set of counters, any number of flush tasks and every      *)
(* bound of the clock; AccountSelection, for every set of requests,         *)
(* accounts, sessions and model classes, every lifetime of the cache and    *)
(* every query duration: the account restrictions of a token hold for every *)
(* request, and no list in use is staler than the cache lifetime plus one   *)
(* query.                                                                   *)
(***************************************************************************)
EXTENDS AccountSelection, LimitStore, WellFoundedInduction, TLAPS

(***************************************************************************)
(* The limits of an account: LimitStore.                                    *)
(***************************************************************************)
\* What of a state can keep the whole account out, now or later.
LimitsAccount(s) == \/ s.status = "rejected"
                    \/ s.rate_limited_until # None
                    \/ \E k \in Counters : s.rpm_tpm[k].low
                    \/ s.five.hot
                    \/ s.seven.hot
\* What of a state can keep a model group out.
LimitsGroup(s, g) == Bad(s.scoped_weekly[g]) \/ s.scoped_rate_limited_until[g] # None

\* Every limit in memory, in a flush task or in the database was reported by
\* the upstream for what it limits.
Reported ==
    /\ LimitsAccount(st) => "account" \in reported
    /\ \A g \in Groups : LimitsGroup(st, g) => g \in reported
    /\ dbUntil # None => "account" \in reported
    /\ \A f \in Flushes : flush[f].until # None => "account" \in reported

\* ScopedLimitsStayScoped and LimitsExpire are about what a state lets through
\* at one moment; what a later moment sees is in the fields themselves.
IInv == TypeOK /\ MirrorAgrees /\ Reported
-------------------------------------------------------------------------------
\* A set of natural numbers has a least element, a bounded one a greatest.
LEMMA NatMin ==
    ASSUME NEW T \in SUBSET Nat, T # {}
    PROVE  \E x \in T : \A y \in T : x <= y
<1> DEFINE R == OpToRel(<, Nat)
<1>1. IsWellFoundedOn(R, Nat) BY NatLessThanWellFounded, Zenon
<1> HIDE DEF R
<1>2. PICK x \in T : \A y \in T : ~ (<<y, x>> \in R) BY <1>1, WFMin
<1> USE DEF R
<1>3. \A y \in T : ~(y < x) BY <1>2, Zenon DEF OpToRel
<1> QED BY <1>3

\* A bounded, non-empty set of times has a latest one.
LEMMA NatMax ==
    ASSUME NEW n \in Nat, NEW T \in SUBSET (0..n), T # {}
    PROVE  \E x \in T : \A y \in T : y <= x
<1> DEFINE U == {k \in 0..n : n - k \in T}
<1>1. U \in SUBSET Nat OBVIOUS
<1>2. PICK t \in T : TRUE OBVIOUS
<1>3. t \in 0..n /\ n - t \in 0..n /\ n - (n - t) = t OBVIOUS
<1>4. n - t \in U BY <1>3
<1>5. PICK u \in U : \A y \in U : u <= y BY <1>1, <1>4, NatMin
<1>6. n - u \in T BY <1>5
<1>7. ASSUME NEW y \in T PROVE y <= n - u
  <2>1. y \in 0..n /\ n - y \in 0..n /\ n - (n - y) = y OBVIOUS
  <2>2. n - y \in U BY <2>1
  <2>3. u <= n - y /\ u \in 0..n BY <1>5, <2>2
  <2> QED BY <2>1, <2>3
<1> QED BY <1>6, <1>7
-------------------------------------------------------------------------------
(***************************************************************************)
(* The operators a response or a usage body is read with.  Horizon is the   *)
(* guard of both operations: every reset they store lies within the clock.  *)
(***************************************************************************)
Horizon == clock \in 0..MaxClock /\ clock + MaxIn <= MaxClock

\* A relative time becomes an absolute one, and stays absent if it was.
LEMMA AtFacts ==
    ASSUME Horizon, NEW in \in In
    PROVE  /\ At(in) \in OptTime
           /\ At(in) = None <=> in = None
           /\ in # None => At(in) = clock + in
BY BoundsAssumption DEF Horizon, In, At, OptTime, Time, None

\* A window with its reset made absolute says the same of the quota.
LEMMA AtWindowFacts ==
    ASSUME Horizon, NEW w \in HeaderWindow
    PROVE  /\ AtWindow(w) \in Window
           /\ AtWindow(w).hot = w.hot
           /\ AtWindow(w).status = w.status
<1>1. w \in [hot : BOOLEAN, resets : In, status : OptStatus, over : BOOLEAN]
  <2>1. NoWindow \in [hot : BOOLEAN, resets : In, status : OptStatus, over : BOOLEAN]
        BY DEF NoWindow, In, OptStatus
  <2>2. \A S, T : S \subseteq In /\ T \subseteq OptStatus =>
          [hot : BOOLEAN, resets : S, status : T, over : BOOLEAN]
             \subseteq [hot : BOOLEAN, resets : In, status : OptStatus, over : BOOLEAN]
        OBVIOUS
  <2>3. 0..MaxIn \subseteq In /\ UnifiedStatus \subseteq OptStatus BY DEF In, OptStatus
  <2> QED BY <2>1, <2>2, <2>3 DEF HeaderWindow
<1>2. At(w.resets) \in OptTime BY <1>1, AtFacts
<1> QED BY <1>1, <1>2 DEF AtWindow, Window

\* The windows a usage body can carry are among those of the headers.
LEMMA UsageWindows == UsageWindow \subseteq HeaderWindow
BY DEF UsageWindow, HeaderWindow, UnifiedStatus

\* The window reported for a group, from whichever style of header.
LEMMA ScopedWindowType ==
    ASSUME NEW r \in Response, NEW g \in Groups
    PROVE  ScopedWindow(r, g) \in HeaderWindow
<1>1. /\ r.claim \in Groups \cup {"account", "none"} /\ r.status \in OptStatus
      /\ r.seven \in HeaderWindow /\ r.scoped \in [Groups -> HeaderWindow]
      BY DEF Response
<1>2. CASE legacy_scoped_group(r) = g
  <2>1. r.seven # NoWindow BY <1>2 DEF legacy_scoped_group, Groups
  <2>2. r.seven \in [hot : BOOLEAN, resets : 0..MaxIn, status : UnifiedStatus,
                     over : BOOLEAN]
        BY <1>1, <2>1 DEF HeaderWindow
  <2>3. (IF r.status # "none" THEN r.status ELSE r.seven.status) \in UnifiedStatus
        BY <1>1, <2>2 DEF OptStatus
  <2> QED BY <1>2, <2>2, <2>3 DEF ScopedWindow, HeaderWindow
<1>3. CASE legacy_scoped_group(r) # g
      BY <1>1, <1>3 DEF ScopedWindow
<1> QED BY <1>2, <1>3

\* A value that was reported replaces the old one.
LEMMA NewerFacts ==
    ASSUME NEW new, NEW old, NEW none
    PROVE  /\ Newer(new, old, none) \in {new, old}
           /\ new # none => Newer(new, old, none) = new
BY DEF Newer

\* The bans are times.
LEMMA BanTypes ==
    ASSUME Horizon, NEW r \in Response, NEW g \in Groups
    PROVE  account_ban(r) \in OptTime /\ scoped_ban(r, g) \in OptTime
<1>1. r.reset \in In /\ r.retry \in In /\ DefaultBan \in In /\ None \in OptTime
      BY BoundsAssumption DEF Response, In, OptTime
<1>2. \A in \in In : At(in) \in OptTime BY AtFacts
<1>3. account_ban(r) \in OptTime BY <1>1, <1>2 DEF account_ban
<1>4. scoped_ban(r, g) \in OptTime BY <1>1, <1>2 DEF scoped_ban
<1> QED BY <1>3, <1>4
-------------------------------------------------------------------------------
\* The state computed from a response has the type of a state.
LEMMA NewStateType ==
    ASSUME Horizon, st \in LimitState, NEW r \in Response
    PROVE  compute_new_state(st, r) \in LimitState
<1> DEFINE n == compute_new_state(st, r)
<1>0. /\ r.five \in HeaderWindow /\ r.seven \in HeaderWindow /\ r.status \in OptStatus
      /\ r.reset \in In /\ r.counters \in [Counters -> [low : BOOLEAN, resets : In]]
      BY DEF Response
<1>s. /\ st.five \in Window /\ st.seven \in Window /\ st.status \in OptStatus
      /\ st.reset_at \in OptTime /\ st.rate_limited_until \in OptTime
      /\ st.rpm_tpm \in [Counters -> Counter]
      /\ st.scoped_weekly \in [Groups -> Window]
      /\ st.scoped_rate_limited_until \in [Groups -> OptTime]
      /\ st.sonnet_seven_day \in Window /\ st.sonnet_rate_limited_until \in OptTime
      BY DEF LimitState
<1>a. \A S : \A new, old \in S : \A none : Newer(new, old, none) \in S BY DEF Newer
<1>1. n.five \in Window /\ n.seven \in Window
  <2>1. AtWindow(r.five) \in Window /\ AtWindow(r.seven) \in Window
        BY <1>0, AtWindowFacts
  <2> QED BY <1>a, <1>s, <2>1 DEF compute_new_state
<1>2. n.status \in OptStatus BY <1>0, <1>s, <1>a DEF compute_new_state, apply_status
<1>3. n.reset_at \in OptTime /\ n.rate_limited_until \in OptTime
  <2>1. At(r.reset) \in OptTime BY <1>0, AtFacts
  <2>2. account_ban(r) \in OptTime BY BanTypes DEF Groups
  <2> QED BY <1>s, <1>a, <2>1, <2>2 DEF compute_new_state
<1>4. n.rpm_tpm \in [Counters -> Counter]
  <2>1. ASSUME NEW k \in Counters
        PROVE  [r.counters[k] EXCEPT !.resets = At(@)] \in Counter
    <3>1. r.counters[k] \in [low : BOOLEAN, resets : In] BY <1>0
    <3>2. At(r.counters[k].resets) \in OptTime BY <3>1, AtFacts
    <3> QED BY <3>1, <3>2 DEF Counter
  <2> QED BY <1>s, <1>a, <2>1 DEF compute_new_state
<1>5. ASSUME NEW g \in Groups
      PROVE  /\ AtWindow(ScopedWindow(r, g)) \in Window
             /\ scoped_ban(r, g) \in OptTime
      BY ScopedWindowType, AtWindowFacts, BanTypes
<1>6. n.scoped_weekly \in [Groups -> Window] BY <1>s, <1>a, <1>5 DEF compute_new_state
<1>7. n.scoped_rate_limited_until \in [Groups -> OptTime]
      BY <1>s, <1>a, <1>5 DEF compute_new_state
<1>8. n.sonnet_seven_day \in Window /\ n.sonnet_rate_limited_until \in OptTime
  <2>1. "sonnet" \in Groups BY DEF Groups
  <2> QED BY <1>s, <1>a, <1>5, <2>1 DEF compute_new_state
<1>9. n = [five |-> n.five, seven |-> n.seven, status |-> n.status,
           reset_at |-> n.reset_at, rate_limited_until |-> n.rate_limited_until,
           rpm_tpm |-> n.rpm_tpm, scoped_weekly |-> n.scoped_weekly,
           scoped_rate_limited_until |-> n.scoped_rate_limited_until,
           sonnet_seven_day |-> n.sonnet_seven_day,
           sonnet_rate_limited_until |-> n.sonnet_rate_limited_until]
      BY DEF compute_new_state
<1> HIDE DEF n
<1>10. n \in LimitState
       BY <1>1, <1>2, <1>3, <1>4, <1>6, <1>7, <1>8, <1>9 DEF LimitState
<1> QED BY <1>10 DEF n

\* A limit in the state computed from a response was there before, or the
\* response reports it: of the account, or of the group itself.
LEMMA NewStateLimits ==
    ASSUME Horizon, st \in LimitState, NEW r \in Response
    PROVE  /\ LimitsAccount(compute_new_state(st, r)) =>
                 LimitsAccount(st) \/ "account" \in Limits(r)
           /\ \A g \in Groups : LimitsGroup(compute_new_state(st, r), g) =>
                 LimitsGroup(st, g) \/ g \in Limits(r)
<1> DEFINE n == compute_new_state(st, r)
<1>0. /\ r.five \in HeaderWindow /\ r.seven \in HeaderWindow
      /\ r.counters \in [Counters -> [low : BOOLEAN, resets : In]]
      /\ r.claim \in Groups \cup {"account", "none"}
      BY DEF Response
<1>1. n.status = "rejected" => st.status = "rejected" \/ "account" \in Limits(r)
      BY DEF compute_new_state, apply_status, Newer, Limits
<1>2. n.rate_limited_until # None =>
        st.rate_limited_until # None \/ "account" \in Limits(r)
  <2> SUFFICES ASSUME account_ban(r) # None PROVE "account" \in Limits(r)
      BY DEF compute_new_state, Newer
  <2>1. r.code = 429 BY DEF account_ban
  <2>2. r.claim \notin Groups
    <3>1. ~Informative(r) => r.claim = "none" BY DEF Informative, any_present
    <3> QED BY <2>1, <3>1 DEF account_ban, Groups
  <2>3. Informative(r) \/ r.class \notin Groups BY <2>1 DEF account_ban
  <2> QED BY <2>1, <2>2, <2>3 DEF Limits
<1>3. ASSUME NEW k \in Counters, n.rpm_tpm[k].low
      PROVE  st.rpm_tpm[k].low \/ "account" \in Limits(r)
  <2> DEFINE new == [r.counters[k] EXCEPT !.resets = At(@)]
  <2>1. n.rpm_tpm[k] = Newer(new, st.rpm_tpm[k], NoCounter) BY DEF compute_new_state
  <2>2. new.low = r.counters[k].low BY <1>0
  <2>3. n.rpm_tpm[k] = new \/ n.rpm_tpm[k] = st.rpm_tpm[k] BY <2>1, NewerFacts
  <2> HIDE DEF new
  <2>4. r.counters[k].low => "account" \in Limits(r) BY DEF Limits
  <2> QED BY <1>3, <2>2, <2>3, <2>4
<1>4. n.five.hot => st.five.hot \/ "account" \in Limits(r)
  <2>1. n.five = AtWindow(r.five) \/ n.five = st.five BY DEF compute_new_state, Newer
  <2>2. AtWindow(r.five).hot = r.five.hot BY <1>0, AtWindowFacts
  <2>3. r.five.hot => "account" \in Limits(r) BY DEF Limits
  <2> QED BY <2>1, <2>2, <2>3
<1>5. n.seven.hot => st.seven.hot \/ "account" \in Limits(r)
  <2>1. \/ n.seven = AtWindow(r.seven) /\ legacy_scoped_group(r) = "none"
        \/ n.seven = st.seven
        BY DEF compute_new_state, Newer
  <2>2. AtWindow(r.seven).hot = r.seven.hot BY <1>0, AtWindowFacts
  <2>3. r.seven.hot => r.seven # NoWindow BY DEF NoWindow
  <2>4. r.seven.hot /\ legacy_scoped_group(r) = "none" => "account" \in Limits(r)
        BY <2>3 DEF Limits, legacy_scoped_group, Groups
  <2> QED BY <2>1, <2>2, <2>4
<1>6. ASSUME NEW g \in Groups, LimitsGroup(n, g)
      PROVE  LimitsGroup(st, g) \/ g \in Limits(r)
  <2> DEFINE new == AtWindow(ScopedWindow(r, g))
  <2>1. n.scoped_weekly[g] = new \/ n.scoped_weekly[g] = st.scoped_weekly[g]
        BY DEF compute_new_state, Newer
  <2>2. new.hot = ScopedWindow(r, g).hot /\ new.status = ScopedWindow(r, g).status
        BY ScopedWindowType, AtWindowFacts
  <2> HIDE DEF new
  <2>3. Bad(new) => g \in Limits(r) BY <2>2 DEF Limits, Bad
  <2>4. scoped_ban(r, g) # None => g \in Limits(r) BY DEF scoped_ban, Limits
  <2>5. \/ n.scoped_rate_limited_until[g] = scoped_ban(r, g)
        \/ n.scoped_rate_limited_until[g] = st.scoped_rate_limited_until[g]
        BY DEF compute_new_state, Newer
  <2> HIDE DEF n
  <2> QED BY <1>6, <2>1, <2>3, <2>4, <2>5 DEF LimitsGroup
<1> HIDE DEF n
<1>7. LimitsAccount(n) => LimitsAccount(st) \/ "account" \in Limits(r)
      BY <1>1, <1>2, <1>3, <1>4, <1>5 DEF LimitsAccount
<1> QED BY <1>6, <1>7 DEF n

\* The two copies of the Sonnet state are computed alike.
LEMMA NewStateMirror ==
    ASSUME MirrorAgrees, NEW r
    PROVE  LET n == compute_new_state(st, r)
           IN  /\ n.sonnet_seven_day = n.scoped_weekly["sonnet"]
               /\ n.sonnet_rate_limited_until = n.scoped_rate_limited_until["sonnet"]
BY DEF MirrorAgrees, compute_new_state, Groups
-------------------------------------------------------------------------------
\* What a usage body leaves in each field: the new window, the old one, or
\* none; the fields it does not carry stay.
LEMMA UsageFields ==
    ASSUME TypeOK, NEW u \in Usage, ingest_usage_json(u)
    PROVE  /\ Horizon
           /\ st' \in LimitState
           /\ st'.five = st.five \/ st'.five = AtWindow(u.five)
           /\ \/ st'.seven = st.seven
              \/ st'.seven = AtWindow(u.seven) \/ st'.seven = AtWindow(u.opus)
           /\ \A g \in Groups :
                \/ st'.scoped_weekly[g] \in {NoWindow, st.scoped_weekly[g]}
                \/ st'.scoped_weekly[g] = AtWindow(u.scoped[g])
                \/ g = "sonnet" /\ st'.scoped_weekly[g] = AtWindow(u.sonnet)
           /\ st'.sonnet_seven_day = usage_mirror(st, u)
           /\ st'.scoped_weekly["sonnet"] =
                Newer(AtWindow(Newer(u.scoped["sonnet"], u.sonnet, NoWindow)),
                      IF u.has_limits THEN NoWindow ELSE st.scoped_weekly["sonnet"],
                      NoWindow)
           /\ st'.status = st.status /\ st'.rate_limited_until = st.rate_limited_until
           /\ st'.rpm_tpm = st.rpm_tpm
           /\ st'.scoped_rate_limited_until = st.scoped_rate_limited_until
           /\ st'.sonnet_rate_limited_until = st.sonnet_rate_limited_until
<1> DEFINE five == Newer(AtWindow(u.five), st.five, NoWindow)
           seven == Newer(AtWindow(Newer(u.opus, u.seven, NoWindow)), st.seven, NoWindow)
           new(g) == IF g = "sonnet" THEN Newer(u.scoped[g], u.sonnet, NoWindow)
                                     ELSE u.scoped[g]
           weekly == [g \in Groups |->
                        Newer(AtWindow(new(g)),
                              IF u.has_limits THEN NoWindow ELSE st.scoped_weekly[g],
                              NoWindow)]
           mirror == usage_mirror(st, u)
<1>s. st \in LimitState /\ Horizon
      BY DEF TypeOK, Horizon, ingest_usage_json
<1>t. /\ st.five \in Window /\ st.seven \in Window
      /\ st.scoped_weekly \in [Groups -> Window] /\ st.sonnet_seven_day \in Window
      /\ NoWindow \in Window
  <2>1. NoWindow \in Window BY DEF NoWindow, Window, OptTime, OptStatus
  <2> QED BY <1>s, <2>1 DEF LimitState
<1>u. /\ u.five \in HeaderWindow /\ u.seven \in HeaderWindow /\ u.opus \in HeaderWindow
      /\ u.sonnet \in HeaderWindow /\ u.scoped \in [Groups -> HeaderWindow]
      BY UsageWindows DEF Usage
<1>1. st' = [st EXCEPT !.five = five, !.seven = seven, !.scoped_weekly = weekly,
                       !.sonnet_seven_day = mirror]
      BY DEF ingest_usage_json
<1>2. five \in Window /\ five \in {st.five, AtWindow(u.five)}
      BY <1>s, <1>t, <1>u, AtWindowFacts DEF Newer
<1>3. /\ seven \in Window
      /\ seven \in {st.seven, AtWindow(u.seven), AtWindow(u.opus)}
      BY <1>s, <1>t, <1>u, AtWindowFacts DEF Newer
<1>4. ASSUME NEW g \in Groups
      PROVE  /\ weekly[g] \in Window
             /\ \/ weekly[g] \in {NoWindow, st.scoped_weekly[g]}
                \/ weekly[g] = AtWindow(u.scoped[g])
                \/ g = "sonnet" /\ weekly[g] = AtWindow(u.sonnet)
  <2>1. new(g) \in HeaderWindow /\ (new(g) = u.scoped[g] \/ (g = "sonnet" /\ new(g) = u.sonnet))
    <3>1. new(g) = u.scoped[g] \/ (g = "sonnet" /\ new(g) = u.sonnet) BY DEF Newer
    <3>2. u.scoped[g] \in HeaderWindow BY <1>u
    <3> HIDE DEF new
    <3> QED BY <1>u, <3>1, <3>2
  <2>2. AtWindow(new(g)) \in Window BY <1>s, <2>1, AtWindowFacts
  <2>3. weekly[g] \in {AtWindow(new(g)), NoWindow, st.scoped_weekly[g]}
        BY DEF Newer
  <2> QED BY <1>t, <2>1, <2>2, <2>3
<1>5. mirror \in Window
  <2>1. Newer(u.scoped["sonnet"], u.sonnet, NoWindow) \in HeaderWindow
        BY <1>u DEF Newer, Groups
  <2>2. AtWindow(Newer(u.scoped["sonnet"], u.sonnet, NoWindow)) \in Window
        BY <1>s, <2>1, AtWindowFacts
  <2> QED BY <1>t, <2>2 DEF usage_mirror, Newer
<1>6. weekly["sonnet"] =
        Newer(AtWindow(Newer(u.scoped["sonnet"], u.sonnet, NoWindow)),
              IF u.has_limits THEN NoWindow ELSE st.scoped_weekly["sonnet"], NoWindow)
      BY DEF Groups
<1>7. weekly \in [Groups -> Window] BY <1>4
<1> HIDE DEF five, seven, weekly
<1>8. st' \in LimitState BY <1>s, <1>1, <1>2, <1>3, <1>5, <1>7 DEF LimitState
<1>9. /\ st'.five = five /\ st'.seven = seven /\ st'.scoped_weekly = weekly
      /\ st'.sonnet_seven_day = mirror
      /\ st'.status = st.status /\ st'.rate_limited_until = st.rate_limited_until
      /\ st'.rpm_tpm = st.rpm_tpm
      /\ st'.scoped_rate_limited_until = st.scoped_rate_limited_until
      /\ st'.sonnet_rate_limited_until = st.sonnet_rate_limited_until
      BY <1>s, <1>1 DEF LimitState
<1> QED BY <1>s, <1>2, <1>3, <1>4, <1>6, <1>8, <1>9

\* The same for a usage body: no limit appears that it does not report.
LEMMA UsageReported ==
    ASSUME TypeOK, Reported, NEW u \in Usage, ingest_usage_json(u)
    PROVE  Reported'
<1>u. /\ u.five \in UsageWindow /\ u.seven \in UsageWindow /\ u.opus \in UsageWindow
      /\ u.sonnet \in UsageWindow /\ u.scoped \in [Groups -> UsageWindow]
      BY DEF Usage
<1>1. reported' = reported \cup UsageLimits(u) /\ UNCHANGED <<dbUntil, flush>>
      BY DEF ingest_usage_json
<1>2. Horizon BY UsageFields
<1>3. ASSUME NEW w \in UsageWindow
      PROVE  AtWindow(w).hot = w.hot /\ (Bad(AtWindow(w)) => w.hot)
  <2>1. w.status # "rejected"
    <3>1. CASE w = NoWindow BY <3>1 DEF NoWindow
    <3>2. CASE w \in [hot : BOOLEAN, resets : 0..MaxIn, status : {"allowed"},
                      over : {FALSE}]
          BY <3>2
    <3> QED BY <3>1, <3>2 DEF UsageWindow
  <2>2. w \in HeaderWindow BY UsageWindows
  <2>3. AtWindow(w).hot = w.hot /\ AtWindow(w).status = w.status
        BY <1>2, <2>2, AtWindowFacts
  <2> QED BY <2>1, <2>3 DEF Bad
<1>4. st'.five.hot => st.five.hot \/ u.five.hot BY <1>u, <1>3, UsageFields
<1>5. st'.seven.hot => st.seven.hot \/ u.seven.hot \/ u.opus.hot
      BY <1>u, <1>3, UsageFields
<1>6. LimitsAccount(st)' => LimitsAccount(st) \/ "account" \in UsageLimits(u)
      BY <1>4, <1>5, UsageFields DEF LimitsAccount, UsageLimits
<1>7. ASSUME NEW g \in Groups, LimitsGroup(st, g)'
      PROVE  LimitsGroup(st, g) \/ g \in UsageLimits(u)
  <2>1. ~Bad(NoWindow) BY DEF Bad, NoWindow
  <2>2. CASE Bad(st'.scoped_weekly[g])
    <3>1. \/ Bad(st.scoped_weekly[g]) \/ u.scoped[g].hot
          \/ g = "sonnet" /\ u.sonnet.hot
          BY <1>u, <1>3, <2>1, <2>2, UsageFields
    <3> QED BY <3>1 DEF LimitsGroup, UsageLimits
  <2>3. CASE st'.scoped_rate_limited_until[g] # None
        BY <2>3, UsageFields DEF LimitsGroup
  <2> QED BY <1>7, <2>2, <2>3 DEF LimitsGroup, Bad
<1> QED BY <1>1, <1>6, <1>7 DEF Reported
-------------------------------------------------------------------------------
\* The latest blocking reset is a time, and there is one only if the account is
\* limited.
LEMMA BottleneckFacts ==
    ASSUME TypeOK
    PROVE  /\ bottleneck_limit_until(st) \in OptTime
           /\ bottleneck_limit_until(st) # None => LimitsAccount(st)
<1> DEFINE picks == {w.resets : w \in {v \in {st.five, st.seven} : Hit(v)}}
                    \cup {c.resets : c \in {st.rpm_tpm[k] : k \in
                            {j \in Counters : counter_preempted(st.rpm_tpm[j])}}}
<1>0. /\ st.five \in Window /\ st.seven \in Window
      /\ st.rpm_tpm \in [Counters -> Counter] /\ clock \in 0..MaxClock
      BY DEF TypeOK, LimitState
<1>1. ASSUME NEW t \in picks PROVE t \in 0..MaxClock /\ LimitsAccount(st)
  <2>1. CASE t \in {w.resets : w \in {v \in {st.five, st.seven} : Hit(v)}}
    <3>1. PICK w \in {st.five, st.seven} : Hit(w) /\ t = w.resets BY <2>1
    <3>2. w.resets \in OptTime /\ w.hot /\ w.resets > clock
          BY <1>0, <3>1 DEF Hit, Window
    <3>3. LimitsAccount(st) BY <3>1, <3>2 DEF LimitsAccount
    <3> QED BY <1>0, <3>1, <3>2, <3>3, BoundsAssumption DEF OptTime, Time, None
  <2>2. CASE t \in {c.resets : c \in {st.rpm_tpm[k] : k \in
                            {j \in Counters : counter_preempted(st.rpm_tpm[j])}}}
    <3>1. PICK j \in Counters : counter_preempted(st.rpm_tpm[j])
                                 /\ t = st.rpm_tpm[j].resets
          BY <2>2
    <3>2. st.rpm_tpm[j].resets \in OptTime /\ st.rpm_tpm[j].low
             /\ st.rpm_tpm[j].resets > clock
          BY <1>0, <3>1 DEF counter_preempted, Counter
    <3>3. LimitsAccount(st) BY <3>2 DEF LimitsAccount
    <3> QED BY <1>0, <3>1, <3>2, <3>3, BoundsAssumption DEF OptTime, Time, None
  <2> QED BY <2>1, <2>2
<1>2. bottleneck_limit_until(st) =
        IF picks = {} THEN None ELSE CHOOSE t \in picks : \A u \in picks : u <= t
      BY DEF bottleneck_limit_until
<1> HIDE DEF picks
<1>3. CASE picks = {}
      BY <1>2, <1>3 DEF OptTime
<1>4. CASE picks # {}
  <2>1. picks \in SUBSET (0..MaxClock) BY <1>1
  <2>2. \E t \in picks : \A u \in picks : u <= t
        BY <1>4, <2>1, NatMax, BoundsAssumption
  <2>3. bottleneck_limit_until(st) \in picks BY <1>2, <1>4, <2>2
  <2> QED BY <1>1, <2>3 DEF OptTime, Time
<1> QED BY <1>3, <1>4
-------------------------------------------------------------------------------
\* The types of the empty state and of an idle task.
LEMMA EmptyTypes ==
    /\ Unknown \in LimitState /\ ~LimitsAccount(Unknown)
    /\ \A g \in Groups : ~LimitsGroup(Unknown, g)
    /\ Idle \in [stage : {"idle", "spawned", "usage", "limit"}, until : OptTime]
    /\ Idle.until = None /\ None \in OptTime
<1>1. NoWindow \in Window BY DEF NoWindow, Window, OptTime, OptStatus
<1>2. NoCounter \in Counter BY DEF NoCounter, Counter, OptTime
<1>3. None \in OptTime /\ "none" \in OptStatus BY DEF OptTime, OptStatus
<1>4. Unknown \in LimitState BY <1>1, <1>2, <1>3 DEF Unknown, LimitState
<1>5. ~LimitsAccount(Unknown)
      BY DEF Unknown, LimitsAccount, NoWindow, NoCounter
<1>6. \A g \in Groups : ~LimitsGroup(Unknown, g)
      BY DEF Unknown, LimitsGroup, Bad, NoWindow
<1>7. Idle \in [stage : {"idle", "spawned", "usage", "limit"}, until : OptTime]
      BY <1>3 DEF Idle
<1>8. Idle.until = None BY DEF Idle
<1> QED BY <1>3, <1>4, <1>5, <1>6, <1>7, <1>8

\* A flush task carries a limit of the account or none.
LEMMA FlushStep ==
    ASSUME IInv, NEW f \in Flushes, FlushSnapshot(f) \/ FlushUsage(f) \/ FlushLimit(f)
    PROVE  IInv'
<1> DEFINE Task == [stage : {"idle", "spawned", "usage", "limit"}, until : OptTime]
<1>0. TypeOK /\ flush \in [Flushes -> Task] BY DEF IInv, TypeOK
<1>1. UNCHANGED <<clock, st, flushed, reported>>
      BY DEF FlushSnapshot, FlushUsage, FlushLimit
<1>2. MirrorAgrees' BY <1>1 DEF IInv, MirrorAgrees
<1>3. \A b \in Flushes : b # f => flush'[b] = flush[b]
      BY <1>0 DEF FlushSnapshot, FlushUsage, FlushLimit
<1>4. /\ flush' \in [Flushes -> Task]
      /\ flush'[f].until # None => "account" \in reported
  <2>1. CASE FlushSnapshot(f)
    <3> DEFINE until == Newer(bottleneck_limit_until(st), st.rate_limited_until, None)
    <3>1. flush' = [flush EXCEPT ![f] = [stage |-> "usage", until |-> until]]
          BY <2>1 DEF FlushSnapshot
    <3>2. st.rate_limited_until \in OptTime BY <1>0 DEF TypeOK, LimitState
    <3>3. until \in OptTime BY <1>0, <3>2, BottleneckFacts DEF Newer
    <3>4. until # None => LimitsAccount(st)
      <4>1. st.rate_limited_until # None => LimitsAccount(st) BY DEF LimitsAccount
      <4> QED BY <1>0, <4>1, BottleneckFacts DEF Newer
    <3>5. until # None => "account" \in reported BY <3>4 DEF IInv, Reported
    <3> HIDE DEF until
    <3> QED BY <1>0, <3>1, <3>3, <3>5
  <2>2. CASE FlushUsage(f)
    <3>1. flush[f] \in Task BY <1>0
    <3>2. flush[f].until # None => "account" \in reported BY DEF IInv, Reported
    <3>3. CASE flush' = [flush EXCEPT ![f].stage = "limit"]
          BY <1>0, <3>1, <3>2, <3>3
    <3>4. CASE flush' = [flush EXCEPT ![f] = Idle]
          BY <1>0, <3>4, EmptyTypes
    <3> QED BY <2>2, <3>3, <3>4 DEF FlushUsage
  <2>3. CASE FlushLimit(f)
        BY <1>0, <2>3, EmptyTypes DEF FlushLimit
  <2> QED BY <2>1, <2>2, <2>3
<1>5. dbUntil' \in OptTime /\ (dbUntil' # None => "account" \in reported)
  <2>1. CASE FlushLimit(f) /\ dbUntil' = flush[f].until
    <3>1. flush[f] \in Task BY <1>0
    <3> QED BY <2>1, <3>1 DEF IInv, Reported
  <2>2. CASE dbUntil' = dbUntil
        BY <2>2 DEF IInv, TypeOK, Reported
  <2> QED BY <2>1, <2>2 DEF FlushSnapshot, FlushUsage, FlushLimit
<1>6. TypeOK' BY <1>1, <1>4, <1>5 DEF IInv, TypeOK
<1>7. Reported' BY <1>1, <1>3, <1>4, <1>5 DEF IInv, Reported
<1> QED BY <1>2, <1>6, <1>7 DEF IInv

\* Absorbing the headers of a response keeps the invariant.
LEMMA AbsorbStep ==
    ASSUME IInv, NEW r \in Responses, absorb_headers(r) PROVE IInv'
<1> DEFINE Task == [stage : {"idle", "spawned", "usage", "limit"}, until : OptTime]
<1>0. TypeOK /\ st \in LimitState /\ flush \in [Flushes -> Task] BY DEF IInv, TypeOK
<1>1. r \in Response /\ Horizon
      BY ResponsesAssumption DEF absorb_headers, Horizon, IInv, TypeOK
<1>2. /\ st' = compute_new_state(st, r) /\ UNCHANGED <<clock, dbUntil>>
      /\ reported' = reported \cup Limits(r)
      BY DEF absorb_headers
<1>3. flushed' \in {None} \cup 0..MaxClock BY DEF absorb_headers, IInv, TypeOK
<1>4. /\ flush' \in [Flushes -> Task]
      /\ \A f \in Flushes : flush'[f].until = flush[f].until
  <2>1. CASE flush' = flush BY <1>0, <2>1
  <2>2. ASSUME NEW f \in Flushes, flush' = [flush EXCEPT ![f].stage = "spawned"]
        PROVE  /\ flush' \in [Flushes -> Task]
               /\ \A b \in Flushes : flush'[b].until = flush[b].until
    <3>1. flush[f] \in Task BY <1>0
    <3> QED BY <1>0, <2>2, <3>1
  <2> QED BY <2>1, <2>2 DEF absorb_headers
<1>5. reported' \subseteq Groups \cup {"account"} BY <1>2 DEF IInv, TypeOK, Limits
<1>6. TypeOK' BY <1>0, <1>1, <1>2, <1>3, <1>4, <1>5, NewStateType DEF TypeOK
<1>7. MirrorAgrees' BY <1>2, NewStateMirror DEF IInv, MirrorAgrees
<1>8. LimitsAccount(st)' => "account" \in reported'
      BY <1>0, <1>1, <1>2, NewStateLimits DEF IInv, Reported
<1>9. \A g \in Groups : LimitsGroup(st, g)' => g \in reported'
      BY <1>0, <1>1, <1>2, NewStateLimits DEF IInv, Reported
<1>10. Reported' BY <1>2, <1>4, <1>8, <1>9 DEF IInv, Reported
<1> QED BY <1>6, <1>7, <1>10 DEF IInv

\* Ingesting a usage body keeps the invariant: the mirror is set from the same
\* window as the map.
LEMMA IngestStep ==
    ASSUME IInv, NEW u \in Usages, ingest_usage_json(u) PROVE IInv'
<1>1. u \in Usage /\ TypeOK /\ Reported /\ MirrorAgrees BY UsagesAssumption DEF IInv
<1>2. st' \in LimitState BY <1>1, UsageFields
<1>3. UNCHANGED <<clock, flushed, flush, dbUntil>> BY DEF ingest_usage_json
<1>4. reported' \subseteq Groups \cup {"account"}
      BY <1>1 DEF ingest_usage_json, TypeOK, UsageLimits, Groups
<1>5. TypeOK' BY <1>1, <1>2, <1>3, <1>4 DEF TypeOK
<1>6. Reported' BY <1>1, UsageReported
<1>7. st'.sonnet_seven_day = st'.scoped_weekly["sonnet"]
      BY <1>1, UsageFields DEF usage_mirror, MirrorAgrees
<1>8. st'.sonnet_rate_limited_until = st'.scoped_rate_limited_until["sonnet"]
      BY <1>1, UsageFields DEF MirrorAgrees
<1> QED BY <1>5, <1>6, <1>7, <1>8 DEF IInv, MirrorAgrees

\* The three parts together are inductive.
THEOREM Invariance == Spec => []IInv
<1>1. Init => IInv
  <2> SUFFICES ASSUME Init PROVE IInv
      OBVIOUS
  <2>1. TypeOK BY EmptyTypes, BoundsAssumption DEF Init, TypeOK
  <2>2. MirrorAgrees BY DEF Init, MirrorAgrees, Unknown, Groups
  <2>3. Reported BY EmptyTypes DEF Init, Reported
  <2> QED BY <2>1, <2>2, <2>3 DEF IInv
<1>2. IInv /\ [Next]_vars => IInv'
  <2> SUFFICES ASSUME IInv, [Next]_vars PROVE IInv'
      OBVIOUS
  <2>1. CASE Restart
    <3>1. TypeOK' BY <2>1, EmptyTypes DEF Restart, IInv, TypeOK
    <3>2. MirrorAgrees' BY <2>1 DEF Restart, MirrorAgrees, Unknown, Groups
    <3>3. Reported' BY <2>1, EmptyTypes DEF Restart, Reported
    <3> QED BY <3>1, <3>2, <3>3 DEF IInv
  <2>2. CASE Tick
    <3>1. UNCHANGED <<st, flushed, flush, dbUntil, reported>> BY <2>2 DEF Tick
    <3>2. clock' \in 0..MaxClock BY <2>2, BoundsAssumption DEF Tick, IInv, TypeOK
    <3> QED BY <3>1, <3>2 DEF IInv, TypeOK, MirrorAgrees, Reported
  <2>3. CASE UNCHANGED vars
        BY <2>3 DEF vars, IInv, TypeOK, MirrorAgrees, Reported
  <2> QED BY <2>1, <2>2, <2>3, AbsorbStep, IngestStep, FlushStep DEF Next
<1> QED BY <1>1, <1>2, PTL DEF Spec

\* Types; in particular every stored time lies within the clock's horizon.
THEOREM TypeCorrect == Spec => []TypeOK
BY Invariance, PTL DEF IInv

\* The Sonnet mirror never holds a window or a ban that the scoped maps lack.
THEOREM MirrorAlwaysAgrees == Spec => []MirrorAgrees
BY Invariance, PTL DEF IInv
-------------------------------------------------------------------------------
\* With the mirror in agreement, the views of the selector are the maps.
LEMMA Views ==
    ASSUME MirrorAgrees, NEW g \in Groups
    PROVE  /\ ScopedView(st, g) = st.scoped_weekly[g]
           /\ BanView(st, g) = st.scoped_rate_limited_until[g]
BY DEF MirrorAgrees, ScopedView, BanView, Newer

\* No scoped limit, old or new style, bare 429 or usage body, refuses another
\* class or reaches the database column, for any responses and any number of
\* flush tasks.
THEOREM ScopedStayScoped == Spec => []ScopedLimitsStayScoped
<1>1. IInv => ScopedLimitsStayScoped
  <2> SUFFICES ASSUME IInv PROVE ScopedLimitsStayScoped
      OBVIOUS
  <2>0. /\ clock \in 0..MaxClock /\ st.rate_limited_until \in OptTime
        /\ st.scoped_rate_limited_until \in [Groups -> OptTime]
        BY DEF IInv, TypeOK, LimitState
  <2>1. ~account_gate(st) => LimitsAccount(st)
    <3>1. ~(st.rate_limited_until <= clock) => st.rate_limited_until # None
          BY <2>0, BoundsAssumption DEF None
    <3> QED BY <3>1 DEF account_gate, LimitsAccount, counter_preempted, Hit
  <2>2. ASSUME NEW c \in ModelClass, ~Available(c)
        PROVE  "account" \in reported \/ c \in reported
    <3>1. CASE ~account_gate(st) BY <2>1, <3>1 DEF IInv, Reported
    <3>2. CASE account_gate(st)
      <4>1. /\ c \in Groups
            /\ \/ ~(BanView(st, c) <= clock)
               \/ ScopedView(st, c).status = "rejected" \/ Hit(ScopedView(st, c))
            BY <2>2, <3>2 DEF Available, judge_availability
      <4>2. /\ ScopedView(st, c) = st.scoped_weekly[c]
            /\ BanView(st, c) = st.scoped_rate_limited_until[c]
            BY <4>1, Views DEF IInv
      <4>3. ~(st.scoped_rate_limited_until[c] <= clock) =>
               st.scoped_rate_limited_until[c] # None
            BY <2>0, BoundsAssumption DEF None
      <4>4. LimitsGroup(st, c) BY <4>1, <4>2, <4>3 DEF LimitsGroup, Bad, Hit
      <4> QED BY <4>1, <4>4 DEF IInv, Reported
    <3> QED BY <3>1, <3>2
  <2>3. dbUntil # None => "account" \in reported BY DEF IInv, Reported
  <2> QED BY <2>2, <2>3 DEF ScopedLimitsStayScoped
<1> QED BY <1>1, Invariance, PTL

\* Once the clock has passed every reset that was reported, only a `rejected`
\* status keeps a class out.
THEOREM LimitsAlwaysExpire == Spec => []LimitsExpire
<1>1. IInv => LimitsExpire
  <2> SUFFICES ASSUME IInv, clock = MaxClock, st.status # "rejected",
                      NEW c \in ModelClass,
                      ~(c \in Groups /\ st.scoped_weekly[c].status = "rejected")
               PROVE  Available(c)
      BY DEF LimitsExpire
  <2>0. /\ st.rate_limited_until \in OptTime /\ st.five \in Window /\ st.seven \in Window
        /\ st.rpm_tpm \in [Counters -> Counter]
        /\ st.scoped_weekly \in [Groups -> Window]
        /\ st.scoped_rate_limited_until \in [Groups -> OptTime]
        BY DEF IInv, TypeOK, LimitState
  <2>1. \A t \in OptTime : t <= clock /\ ~(t > clock)
        BY BoundsAssumption DEF OptTime, Time, None
  <2>2. \A w \in Window : ~Hit(w) BY <2>1 DEF Window, Hit
  <2>3. \A k \in Counters : ~counter_preempted(st.rpm_tpm[k])
        BY <2>0, <2>1 DEF Counter, counter_preempted
  <2>4. account_gate(st) BY <2>0, <2>1, <2>2, <2>3 DEF account_gate
  <2>5. ASSUME c \in Groups
        PROVE  /\ BanView(st, c) <= clock
               /\ ScopedView(st, c).status # "rejected"
               /\ ~Hit(ScopedView(st, c))
        BY <2>0, <2>1, <2>2, <2>5, Views DEF IInv
  <2> QED BY <2>4, <2>5 DEF Available, judge_availability
<1> QED BY <1>1, Invariance, PTL

\* A 429 that names a limit makes the account unavailable for the class that
\* was refused, whatever the state held before.
THEOREM BacksOffAfter429 == Spec => []BackoffAfter429
<1>1. IInv => BackoffAfter429
  <2> SUFFICES ASSUME IInv, NEW r \in Responses, r.code = 429, MustBackOff(r)
               PROVE  ~judge_availability(compute_new_state(st, r), r.class)
      BY DEF BackoffAfter429
  <2> DEFINE n == compute_new_state(st, r)
  <2>0. /\ r \in Response /\ clock \in 0..MaxClock
        /\ r.class \in ModelClass /\ r.claim \in Groups \cup {"account", "none"}
        /\ r.reset \in In /\ r.retry \in In
        BY ResponsesAssumption DEF IInv, TypeOK, Response
  <2>1. ASSUME NEW in \in 1..MaxIn PROVE At(in) > clock /\ At(in) # None
        BY <2>0, BoundsAssumption DEF At, None
  <2>2. ASSUME NEW in \in 1..MaxIn, account_ban(r) = At(in)
        PROVE  ~judge_availability(n, r.class)
    <3>1. n.rate_limited_until = account_ban(r)
          BY <2>1, <2>2 DEF compute_new_state, Newer
    <3>2. At(in) \in Int BY <2>0, BoundsAssumption DEF At, None
    <3>3. ~(n.rate_limited_until <= clock) BY <2>0, <2>1, <2>2, <3>1, <3>2
    <3> QED BY <3>3 DEF judge_availability, account_gate
  <2>3. ASSUME NEW in \in 1..MaxIn, r.class \in Groups,
               scoped_ban(r, r.class) = At(in)
        PROVE  ~judge_availability(n, r.class)
    <3>1. n.scoped_rate_limited_until[r.class] = At(in)
          BY <2>1, <2>3 DEF compute_new_state, Newer
    <3>2. At(in) \in Int BY <2>0, BoundsAssumption DEF At, None
    <3>3. BanView(n, r.class) = At(in) BY <2>1, <3>1 DEF BanView, Newer
    <3>4. ~(BanView(n, r.class) <= clock) BY <2>0, <2>1, <3>2, <3>3
    <3> QED BY <2>3, <3>4 DEF judge_availability
  <2>4. CASE ~Informative(r) /\ r.retry # 0
    <3> DEFINE in == IF r.retry # None THEN r.retry ELSE DefaultBan
    <3>1. in \in 1..MaxIn BY <2>0, <2>4, BoundsAssumption DEF In, None
    <3>2. CASE r.class \in Groups
      <4>1. scoped_ban(r, r.class) = At(in) BY <2>4 DEF scoped_ban
      <4> QED BY <2>3, <3>1, <3>2, <4>1
    <3>3. CASE r.class \notin Groups
      <4>1. account_ban(r) = At(in) BY <2>4, <3>3 DEF account_ban
      <4> QED BY <2>2, <3>1, <4>1
    <3> QED BY <3>2, <3>3
  <2>5. CASE r.status = "rejected" /\ r.claim \notin Groups
    <3>1. n.status = "rejected" BY <2>5 DEF compute_new_state, apply_status, Newer
    <3> QED BY <3>1 DEF judge_availability, account_gate
  <2>6. CASE /\ r.claim = r.class
             /\ IF r.reset # None THEN r.reset > 0 ELSE r.retry > 0
    <3> DEFINE in == IF r.reset # None THEN r.reset ELSE r.retry
    <3>1. r.class \in Groups BY <2>0, <2>6 DEF ModelClass, Groups
    <3>2. Informative(r)
      <4>1. r.claim # "none" BY <2>6, <3>1 DEF Groups
      <4> QED BY <4>1 DEF Informative, any_present
    <3>3. in \in 1..MaxIn BY <2>0, <2>6, BoundsAssumption DEF In, None
    <3>4. scoped_ban(r, r.class) = At(in) BY <2>6, <3>2 DEF scoped_ban
    <3> QED BY <2>3, <3>1, <3>3, <3>4
  <2> QED BY <2>4, <2>5, <2>6 DEF MustBackOff
<1> QED BY <1>1, Invariance, PTL

-------------------------------------------------------------------------------
(***************************************************************************)
(* The choice of an account: AccountSelection.                              *)
(***************************************************************************)
\* The types of what a request carries, which SelectionTypeOK states only for the
\* steps that read it.
Carried ==
    /\ sticky \in [Requests -> Accounts \cup {NoAccount}]
    /\ known \in [Requests -> BOOLEAN]
    /\ list \in [Requests -> Lists \cup {NoList}]
    /\ listAt \in [Requests -> 0..now]
    /\ selected \in [Requests -> Accounts \cup {NoAccount}]

\* A request that goes on to bind its choice has made a permitted one.
Confined ==
    \A r \in Requests : pc[r] \in {"bind", "done"} => Permitted(r, selected[r])

\* The age of a list bounds how long one of its accounts has been inactive:
\* for the cached list counted from its fill, which may come one query after
\* the rows were read, for a list in hand from the query itself.
Aged ==
    /\ cached # NoList =>
         \A a \in DOMAIN cached : Inactive(a) <= MaxQuery + (now - cacheAt)
    /\ \A r \in Requests : pc[r] = "fill" =>
         /\ now - listAt[r] <= MaxQuery
         /\ \A a \in DOMAIN list[r] : Inactive(a) <= now - listAt[r]

SelectionInv == SelectionTypeOK /\ Carried /\ Confined /\ Aged
-------------------------------------------------------------------------------
\* A list names accounts only.
LEMMA ListedAccounts ==
    ASSUME NEW L \in Lists PROVE DOMAIN L \subseteq Accounts
BY DEF Lists

\* What the list query returns is a list.
LEMMA SnapshotList ==
    ASSUME SelectionTypeOK PROVE Snapshot \in Lists /\ DOMAIN Snapshot = Schedulable
<1>1. Schedulable \in SUBSET Accounts BY DEF Schedulable
<1>2. Snapshot \in [Schedulable -> Priorities]
      BY DEF Snapshot, Schedulable, SelectionTypeOK
<1>3. DOMAIN Snapshot = Schedulable BY DEF Snapshot
<1> QED BY <1>1, <1>2, <1>3 DEF Lists

\* A choice by priority is a listed and permitted account.
LEMMA BestPermitted ==
    ASSUME SelectionTypeOK, Carried, NEW r \in Requests, pc[r] = "choose", NEW a \in Best(r)
    PROVE  a \in Accounts /\ Permitted(r, a)
<1>1. a \in DOMAIN list[r] /\ Permitted(r, a) BY DEF Best, Candidates
<1>2. list[r] \in Lists BY DEF SelectionTypeOK, Carried
<1> QED BY <1>1, <1>2, ListedAccounts
-------------------------------------------------------------------------------
\* Every step keeps the types.
LEMMA TypeStep ==
    ASSUME SelectionTypeOK, Carried, [SelectionNext]_selectionVars PROVE SelectionTypeOK' /\ Carried'
<1> USE SelectionAssumption DEF dbvars, cachevars, bindvars, reqvars
<1>a. NoAccount \in Nat BY DEF NoAccount
<1>1. ASSUME NEW r \in Requests, GetSession(r) PROVE SelectionTypeOK' /\ Carried'
      BY <1>1 DEF GetSession, Goto, SelectionTypeOK, Carried, PCs
<1>2. ASSUME NEW r \in Requests, LookUp(r) \/ GetById(r) PROVE SelectionTypeOK' /\ Carried'
  <2>1. known' \in [Requests -> BOOLEAN]
        BY <1>2 DEF LookUp, GetById, Carried
  <2>2. CASE LookUp(r)
        BY <2>1, <2>2 DEF LookUp, Goto, SelectionTypeOK, Carried, PCs
  <2>3. CASE GetById(r)
    <3>1. Goto(r, "check") /\ pc[r] = "fetch" BY <2>3 DEF GetById
    <3>2. UNCHANGED <<dbvars, cachevars, bindvars, limited, now, sticky, list,
                      listAt, selected, editing, edits>>
          BY <2>3 DEF GetById
    <3> QED BY <2>1, <3>1, <3>2 DEF Goto, SelectionTypeOK, Carried, PCs
  <2> QED BY <1>2, <2>2, <2>3
<1>3. ASSUME NEW r \in Requests, CheckSticky(r) PROVE SelectionTypeOK' /\ Carried'
  <2>1. /\ UNCHANGED <<dbvars, cachevars, bindvars, limited, now, sticky, list, listAt,
                       editing, edits>>
        /\ known' = [known EXCEPT ![r] = FALSE]
        BY <1>3 DEF CheckSticky
  <2>2. CASE selected' = [selected EXCEPT ![r] = sticky[r]] /\ Goto(r, "done")
    <3>1. selected' \in [Requests -> Accounts \cup {NoAccount}] BY <2>2 DEF Carried
    <3>2. Goto(r, "done") /\ known[r] /\ pc[r] = "check"
          BY <1>3, <2>2 DEF CheckSticky, Goto, SelectionTypeOK, PCs
    <3> QED BY <2>1, <2>2, <3>1, <3>2 DEF Goto, SelectionTypeOK, Carried, PCs
  <2>3. CASE Goto(r, "unbind") /\ UNCHANGED selected
        BY <2>1, <2>3 DEF Goto, SelectionTypeOK, Carried, PCs
  <2> QED BY <1>3, <2>2, <2>3 DEF CheckSticky
<1>4. ASSUME NEW r \in Requests, DeleteSession(r) PROVE SelectionTypeOK' /\ Carried'
      BY <1>4 DEF DeleteSession, Goto, SelectionTypeOK, Carried, PCs
<1>5. ASSUME NEW r \in Requests, ListSchedulable(r) PROVE SelectionTypeOK' /\ Carried'
  <2>1. Snapshot \in Lists BY SnapshotList
  <2>2. list' \in [Requests -> Lists \cup {NoList}] /\ listAt' \in [Requests -> 0..now]
        BY <1>5, <2>1 DEF ListSchedulable, SelectionTypeOK, Carried
  <2>3. \A q \in Requests : pc'[q] \in {"fill", "choose"} => list'[q] # NoList
        BY <1>5, <2>1 DEF ListSchedulable, Goto, CacheFresh, SelectionTypeOK, Carried
  <2>4. pc' \in [Requests -> PCs] /\ now' = now
        BY <1>5 DEF ListSchedulable, Goto, SelectionTypeOK, PCs
  <2>5. \A q \in Requests :
          /\ pc'[q] \in {"lookup", "fetch", "check"} => sticky'[q] \in Accounts
          /\ pc'[q] \in {"bind", "done"} => selected'[q] \in Accounts
        BY <1>5 DEF ListSchedulable, Goto, SelectionTypeOK
  <2> QED BY <1>5, <2>2, <2>3, <2>4, <2>5 DEF ListSchedulable, SelectionTypeOK, Carried
<1>6. ASSUME NEW r \in Requests, FillCache(r) PROVE SelectionTypeOK' /\ Carried'
      BY <1>6 DEF FillCache, Goto, SelectionTypeOK, Carried, PCs
<1>7. ASSUME NEW r \in Requests, SelectByPriority(r) PROVE SelectionTypeOK' /\ Carried'
  <2>1. \A a \in Best(r) : a \in Accounts
        BY <1>7, BestPermitted DEF SelectByPriority
  <2>2. /\ pc' \in [Requests -> PCs]
        /\ list' \in [Requests -> Lists \cup {NoList}]
        /\ selected' \in [Requests -> Accounts \cup {NoAccount}]
        BY <1>7, <2>1 DEF SelectByPriority, Goto, SelectionTypeOK, Carried, PCs
  <2>3. \A q \in Requests :
          /\ pc'[q] \in {"lookup", "fetch", "check"} => sticky'[q] \in Accounts
          /\ pc'[q] \in {"bind", "done"} => selected'[q] \in Accounts
          /\ pc'[q] \in {"fill", "choose"} => list'[q] # NoList
    <3> SUFFICES ASSUME NEW q \in Requests
                 PROVE  /\ pc'[q] \in {"lookup", "fetch", "check"}
                              => sticky'[q] \in Accounts
                        /\ pc'[q] \in {"bind", "done"} => selected'[q] \in Accounts
                        /\ pc'[q] \in {"fill", "choose"} => list'[q] # NoList
        OBVIOUS
    <3>1. CASE q = r
          BY <1>7, <2>1, <3>1 DEF SelectByPriority, Goto, SelectionTypeOK, Carried
    <3>2. CASE q # r
      <4>1. pc'[q] = pc[q] /\ selected'[q] = selected[q] /\ list'[q] = list[q]
            BY <1>7, <3>2 DEF SelectByPriority, Goto, SelectionTypeOK, Carried
      <4> QED BY <1>7, <4>1 DEF SelectByPriority, SelectionTypeOK
    <3> QED BY <3>1, <3>2
  <2> QED BY <1>7, <2>2, <2>3 DEF SelectByPriority, SelectionTypeOK, Carried
<1>8. ASSUME NEW r \in Requests, BindSession(r) PROVE SelectionTypeOK' /\ Carried'
      BY <1>8 DEF BindSession, Goto, SelectionTypeOK, Carried, PCs
<1>9. ASSUME NEW a \in Accounts, NEW s \in Statuses, SetStatus(a, s)
      PROVE  SelectionTypeOK' /\ Carried'
      BY <1>9 DEF SetStatus, Edit, SelectionTypeOK, Carried
<1>10. ASSUME NEW a \in Accounts, NEW p \in Priorities, SetPriority(a, p)
       PROVE  SelectionTypeOK' /\ Carried'
      BY <1>10 DEF SetPriority, Edit, SelectionTypeOK, Carried
<1>11. ASSUME InvalidateCache PROVE SelectionTypeOK' /\ Carried'
  <2>1. editing' \in BOOLEAN /\ cached' \in Lists \cup {NoList}
        BY <1>11 DEF InvalidateCache
  <2>2. now \in 0..MaxTime /\ now' = now /\ cacheAt' = 0
        BY <1>11 DEF InvalidateCache, SelectionTypeOK
  <2>3. cacheAt' \in 0..now' BY <2>2
  <2> QED BY <1>11, <2>1, <2>3 DEF InvalidateCache, SelectionTypeOK, Carried
<1>12. ASSUME NEW a \in Accounts, NEW c \in Classes, LimitChanges(a, c)
       PROVE  SelectionTypeOK' /\ Carried'
  <2>1. <<a, c>> \in Accounts \X Classes OBVIOUS
  <2>2. limited' \subseteq Accounts \X Classes
        BY <1>12, <2>1 DEF LimitChanges, SelectionTypeOK
  <2> QED BY <1>12, <2>2 DEF LimitChanges, SelectionTypeOK, Carried
<1>13. ASSUME TimePasses PROVE SelectionTypeOK' /\ Carried'
      BY <1>13 DEF TimePasses, SelectionTypeOK, Carried
<1>14. ASSUME NEW r \in Requests, NextRequest(r) PROVE SelectionTypeOK' /\ Carried'
      BY <1>14 DEF NextRequest, Goto, SelectionTypeOK, Carried, PCs
<1>15. ASSUME UNCHANGED selectionVars PROVE SelectionTypeOK' /\ Carried'
      BY <1>15 DEF selectionVars, SelectionTypeOK, Carried
<1> QED BY <1>1, <1>2, <1>3, <1>4, <1>5, <1>6, <1>7, <1>8, <1>9, <1>10, <1>11,
           <1>12, <1>13, <1>14, <1>15 DEF SelectionNext, Step, Admin
-------------------------------------------------------------------------------
\* Every way to "bind" or "done" passes the check of the token's accounts.
LEMMA ConfinedStep ==
    ASSUME SelectionTypeOK, Carried, Confined, [SelectionNext]_selectionVars PROVE Confined'
<1> USE DEF dbvars, cachevars, bindvars, reqvars, Confined, Permitted
<1>0. pc \in [Requests -> PCs] /\ selected \in [Requests -> Accounts \cup {NoAccount}]
      BY DEF SelectionTypeOK, Carried
<1>1. ASSUME NEW r \in Requests, GetSession(r) \/ LookUp(r) \/ GetById(r)
      PROVE  Confined'
      BY <1>0, <1>1 DEF GetSession, LookUp, GetById, Goto
<1>2. ASSUME NEW r \in Requests, CheckSticky(r) PROVE Confined'
      BY <1>0, <1>2 DEF CheckSticky, Goto
<1>3. ASSUME NEW r \in Requests, DeleteSession(r) \/ ListSchedulable(r) \/ FillCache(r)
      PROVE  Confined'
      BY <1>0, <1>3 DEF DeleteSession, ListSchedulable, FillCache, Goto
<1>4. ASSUME NEW r \in Requests, SelectByPriority(r) PROVE Confined'
  <2>1. \A a \in Best(r) : Permitted(r, a)
        BY <1>4, BestPermitted DEF SelectByPriority
  <2> QED BY <1>0, <1>4, <2>1 DEF SelectByPriority, Goto
<1>5. ASSUME NEW r \in Requests, BindSession(r) \/ NextRequest(r) PROVE Confined'
      BY <1>0, <1>5 DEF BindSession, NextRequest, Goto
<1>6. ASSUME UNCHANGED <<pc, selected>> PROVE Confined'
      BY <1>6
<1>7. ASSUME Admin \/ TimePasses \/ (\E a \in Accounts, c \in Classes : LimitChanges(a, c))
             \/ UNCHANGED selectionVars
      PROVE  Confined'
      BY <1>6, <1>7 DEF Admin, SetStatus, SetPriority, Edit, InvalidateCache, TimePasses,
                        LimitChanges, selectionVars
<1> QED BY <1>1, <1>2, <1>3, <1>4, <1>5, <1>7 DEF SelectionNext, Step
-------------------------------------------------------------------------------
\* How long an account has been inactive is a natural number, and nothing but
\* a tick of the clock makes it longer.
LEMMA InactiveNat ==
    ASSUME SelectionTypeOK, NEW a \in Accounts PROVE Inactive(a) \in Nat
BY SelectionAssumption DEF SelectionTypeOK, Inactive

\* A step that leaves the clock and the accounts alone keeps every age; it
\* keeps Aged if it changes neither the cache nor a list in hand.
LEMMA AgedSame ==
    ASSUME Aged, UNCHANGED <<status, activeAt, now>>, UNCHANGED <<cached, cacheAt>>,
           \A r \in Requests : pc'[r] = "fill" =>
              pc[r] = "fill" /\ list'[r] = list[r] /\ listAt'[r] = listAt[r]
    PROVE  Aged'
BY DEF Aged, Inactive

\* Every step keeps the lists as fresh as their age says.
LEMMA AgedStep ==
    ASSUME SelectionTypeOK, Carried, Aged, [SelectionNext]_selectionVars PROVE Aged'
<1> USE SelectionAssumption DEF dbvars, cachevars, bindvars, reqvars
<1>0. /\ pc \in [Requests -> PCs] /\ now \in Nat /\ cacheAt \in 0..now
      /\ list \in [Requests -> Lists \cup {NoList}] /\ listAt \in [Requests -> 0..now]
      BY DEF SelectionTypeOK, Carried
<1>1. ASSUME NEW r \in Requests,
             \/ GetSession(r) \/ LookUp(r) \/ GetById(r) \/ CheckSticky(r)
             \/ DeleteSession(r) \/ BindSession(r) \/ NextRequest(r)
      PROVE  Aged'
  <2>1. /\ UNCHANGED <<status, activeAt, now>> /\ UNCHANGED <<cached, cacheAt>>
        /\ UNCHANGED <<list, listAt>>
        BY <1>1 DEF GetSession, LookUp, GetById, CheckSticky, DeleteSession,
                    BindSession, NextRequest
  <2>2. \A q \in Requests : pc'[q] = "fill" => pc[q] = "fill"
        BY <1>0, <1>1 DEF GetSession, LookUp, GetById, CheckSticky, DeleteSession,
                          BindSession, NextRequest, Goto
  <2> QED BY <2>1, <2>2, AgedSame
<1>2. ASSUME NEW r \in Requests, SelectByPriority(r) PROVE Aged'
  <2>1. /\ UNCHANGED <<status, activeAt, now>> /\ UNCHANGED <<cached, cacheAt>>
        /\ \A q \in Requests : pc'[q] = "fill" =>
              pc[q] = "fill" /\ list'[q] = list[q] /\ listAt'[q] = listAt[q]
        BY <1>0, <1>2 DEF SelectByPriority, Goto
  <2> QED BY <2>1, AgedSame
<1>3. ASSUME NEW r \in Requests, ListSchedulable(r) PROVE Aged'
  <2>1. UNCHANGED <<status, activeAt, now>> /\ UNCHANGED <<cached, cacheAt>>
        BY <1>3 DEF ListSchedulable
  <2>2. \A q \in Requests : pc'[q] = "fill" =>
          \/ pc[q] = "fill" /\ list'[q] = list[q] /\ listAt'[q] = listAt[q]
          \/ list'[q] = Snapshot /\ listAt'[q] = now
        BY <1>0, <1>3 DEF ListSchedulable, Goto
  <2>3. \A a \in DOMAIN Snapshot : Inactive(a) = 0
        BY SnapshotList DEF Schedulable, Inactive
  <2> QED BY <1>0, <2>1, <2>2, <2>3 DEF Aged, Inactive
<1>4. ASSUME NEW r \in Requests, FillCache(r) PROVE Aged'
  <2>1. UNCHANGED <<status, activeAt, now, list>> /\ cached' = list[r] /\ cacheAt' = now
        BY <1>4 DEF FillCache
  <2>2. \A q \in Requests : pc'[q] = "fill" => pc[q] = "fill" /\ listAt'[q] = listAt[q]
        BY <1>0, <1>4 DEF FillCache, Goto
  <2>3. pc[r] = "fill" /\ list[r] \in Lists BY <1>4, <1>0 DEF FillCache, SelectionTypeOK
  <2>4. \A a \in DOMAIN list[r] : Inactive(a) \in Nat
        BY <2>3, ListedAccounts, InactiveNat
  <2>5. \A a \in DOMAIN list[r] : Inactive(a) <= MaxQuery
        BY <1>0, <2>3, <2>4 DEF Aged
  <2>6. \A a \in DOMAIN cached' : Inactive(a)' <= MaxQuery + (now' - cacheAt')
        BY <1>0, <2>1, <2>4, <2>5 DEF Inactive
  <2> QED BY <2>1, <2>2, <2>6 DEF Aged, Inactive
<1>5. ASSUME NEW a \in Accounts, NEW s \in Statuses, SetStatus(a, s) PROVE Aged'
  <2>1. UNCHANGED <<now, pc, cached, cacheAt, list, listAt>>
        BY <1>5 DEF SetStatus, Edit
  <2>2. \A b \in Accounts : Inactive(b)' = 0 \/ Inactive(b)' = Inactive(b)
        BY <1>0, <1>5, <2>1 DEF SetStatus, Inactive, SelectionTypeOK, Statuses
  <2>3. cached # NoList => \A b \in DOMAIN cached : b \in Accounts
        BY ListedAccounts DEF SelectionTypeOK
  <2>4. \A r \in Requests : pc[r] = "fill" => \A b \in DOMAIN list[r] : b \in Accounts
        BY <1>0, ListedAccounts DEF SelectionTypeOK
  <2>5. ASSUME cached # NoList, NEW b \in DOMAIN cached
        PROVE  Inactive(b)' <= MaxQuery + (now - cacheAt)
    <3>1. b \in Accounts BY <2>3, <2>5
    <3>2. Inactive(b) <= MaxQuery + (now - cacheAt) BY <2>5 DEF Aged
    <3>3. CASE Inactive(b)' = 0 BY <1>0, <3>3
    <3>4. CASE Inactive(b)' = Inactive(b) BY <3>2, <3>4
    <3> QED BY <2>2, <3>1, <3>3, <3>4
  <2>6. ASSUME NEW r \in Requests, pc[r] = "fill", NEW b \in DOMAIN list[r]
        PROVE  Inactive(b)' <= now - listAt[r]
    <3>1. b \in Accounts /\ listAt[r] \in 0..now BY <1>0, <2>4, <2>6
    <3>2. Inactive(b) <= now - listAt[r] BY <2>6 DEF Aged
    <3>3. CASE Inactive(b)' = 0 BY <1>0, <3>1, <3>3
    <3>4. CASE Inactive(b)' = Inactive(b) BY <3>2, <3>4
    <3> QED BY <2>2, <3>1, <3>3, <3>4
  <2> QED BY <2>1, <2>5, <2>6 DEF Aged
<1>6. ASSUME NEW a \in Accounts, NEW p \in Priorities, SetPriority(a, p) PROVE Aged'
      BY <1>6, AgedSame DEF SetPriority, Edit
<1>7. ASSUME InvalidateCache PROVE Aged'
      BY <1>7 DEF InvalidateCache, Aged, Inactive
<1>8. ASSUME NEW a \in Accounts, NEW c \in Classes, LimitChanges(a, c) PROVE Aged'
      BY <1>8, AgedSame DEF LimitChanges
<1>9. ASSUME TimePasses PROVE Aged'
  <2>1. UNCHANGED <<status, activeAt, pc, cached, cacheAt, list, listAt>> /\ now' = now + 1
        BY <1>9 DEF TimePasses
  <2>2. \A b \in Accounts : Inactive(b) \in Nat /\ Inactive(b)' <= Inactive(b) + 1
        BY <1>0, <2>1, InactiveNat DEF Inactive, SelectionTypeOK
  <2>3. cached # NoList => \A b \in DOMAIN cached : b \in Accounts
        BY ListedAccounts DEF SelectionTypeOK
  <2>4. \A r \in Requests : pc[r] = "fill" =>
          /\ \A b \in DOMAIN list[r] : b \in Accounts
          /\ now - listAt[r] < MaxQuery
        BY <1>0, <1>9, ListedAccounts DEF SelectionTypeOK, TimePasses
  <2>5. \A b \in Accounts : Inactive(b)' \in Int
        BY <1>0, <2>1 DEF Inactive, SelectionTypeOK
  <2>6. ASSUME cached # NoList, NEW b \in DOMAIN cached
        PROVE  Inactive(b)' <= MaxQuery + (now' - cacheAt)
    <3>1. Inactive(b) <= MaxQuery + (now - cacheAt) BY <2>6 DEF Aged
    <3>2. b \in Accounts BY <2>3, <2>6
    <3>3. Inactive(b) \in Nat /\ Inactive(b)' \in Int /\ Inactive(b)' <= Inactive(b) + 1
          BY <2>2, <2>5, <3>2
    <3> QED BY <1>0, <2>1, <3>1, <3>3
  <2>7. ASSUME NEW r \in Requests, pc[r] = "fill"
        PROVE  /\ now' - listAt[r] <= MaxQuery
               /\ \A b \in DOMAIN list[r] : Inactive(b)' <= now' - listAt[r]
    <3>1. listAt[r] \in Nat BY <1>0
    <3>2. now' - listAt[r] <= MaxQuery BY <1>0, <2>1, <2>4, <2>7, <3>1
    <3>3. ASSUME NEW b \in DOMAIN list[r] PROVE Inactive(b)' <= now' - listAt[r]
      <4>1. Inactive(b) <= now - listAt[r] BY <2>7 DEF Aged
      <4>2. b \in Accounts BY <2>4, <2>7
      <4>3. Inactive(b) \in Nat /\ Inactive(b)' \in Int /\ Inactive(b)' <= Inactive(b) + 1
            BY <2>2, <2>5, <4>2
      <4> QED BY <1>0, <2>1, <3>1, <4>1, <4>3
    <3> QED BY <3>2, <3>3
  <2> QED BY <2>1, <2>6, <2>7 DEF Aged
<1>10. ASSUME UNCHANGED selectionVars PROVE Aged'
      BY <1>10, AgedSame DEF selectionVars
<1> QED BY <1>1, <1>2, <1>3, <1>4, <1>5, <1>6, <1>7, <1>8, <1>9, <1>10
        DEF SelectionNext, Step, Admin
-------------------------------------------------------------------------------
\* The accounts are active, nothing is cached, no request has begun.
LEMMA InitInv == SelectionInit => SelectionInv
<1> SUFFICES ASSUME SelectionInit PROVE SelectionInv
    OBVIOUS
<1>1. SelectionTypeOK /\ Carried
  <2>1. /\ status \in [Accounts -> Statuses] /\ pc \in [Requests -> PCs]
        /\ known \in [Requests -> BOOLEAN] /\ limited \subseteq Accounts \X Classes
        BY DEF SelectionInit, PCs, Statuses
  <2>2. /\ sticky \in [Requests -> Accounts \cup {NoAccount}]
        /\ selected \in [Requests -> Accounts \cup {NoAccount}]
        /\ bound \in [Sessions -> Accounts \cup {NoAccount}]
        BY DEF SelectionInit
  <2>3. /\ now \in 0..MaxTime /\ cacheAt \in 0..now /\ edits \in 0..MaxEdits
        /\ activeAt \in [Accounts -> 0..now] /\ listAt \in [Requests -> 0..now]
        /\ boundUntil \in [Sessions -> 0..(MaxTime + STICKY_SESSION_TTL)]
        BY SelectionAssumption DEF SelectionInit
  <2>4. \A r \in Requests : pc[r] = "start" BY DEF SelectionInit
  <2> QED BY <2>1, <2>2, <2>3, <2>4 DEF SelectionInit, SelectionTypeOK, Carried
<1>2. Confined /\ Aged BY DEF SelectionInit, Confined, Aged
<1> QED BY <1>1, <1>2 DEF SelectionInv

\* The four parts together are inductive.
THEOREM SelectionInvariance == SelectionSpec => []SelectionInv
<1>1. SelectionInv /\ [SelectionNext]_selectionVars => SelectionInv'
      BY TypeStep, ConfinedStep, AgedStep DEF SelectionInv
<1> QED BY <1>1, InitInv, PTL DEF SelectionSpec

\* Types: the tables, the cache, the bindings and the requests keep their ranges.
THEOREM SelectionTypesHold == SelectionSpec => []SelectionTypeOK
BY SelectionInvariance, PTL DEF SelectionInv

\* A token's account restrictions hold for every answered request, for any
\* number of tokens, requests and accounts, also when its session was bound by
\* a request of another token and whatever calls of the stores fail.
THEOREM RestrictionsAlwaysHold == SelectionSpec => []RestrictionsHold
<1>1. SelectionInv => RestrictionsHold BY DEF SelectionInv, Confined, RestrictionsHold
<1> QED BY <1>1, SelectionInvariance, PTL

\* A fresh cache never lists an account that has been inactive for the cache
\* lifetime plus one query, and a list in hand none inactive for longer than
\* its query, however fills, invalidations and edits interleave.
THEOREM StalenessIsBounded == SelectionSpec => []StalenessBounded
<1>1. SelectionInv => StalenessBounded
  <2> SUFFICES ASSUME SelectionInv PROVE StalenessBounded
      OBVIOUS
  <2>0. /\ now \in Nat /\ cacheAt \in 0..now /\ SelectionTypeOK /\ Aged
        /\ listAt \in [Requests -> 0..now]
        BY SelectionAssumption DEF SelectionInv, SelectionTypeOK, Carried
  <2>1. ASSUME CacheFresh, NEW a \in DOMAIN cached
        PROVE  Inactive(a) < SCHEDULABLE_TTL + MaxQuery
    <3>1. cached # NoList /\ now - cacheAt < SCHEDULABLE_TTL BY <2>1 DEF CacheFresh
    <3>2. a \in Accounts BY <2>0, <2>1, <3>1, ListedAccounts DEF SelectionTypeOK
    <3>3. Inactive(a) \in Nat BY <2>0, <3>2, InactiveNat
    <3>4. Inactive(a) <= MaxQuery + (now - cacheAt) BY <2>0, <2>1, <3>1 DEF Aged
    <3> QED BY <2>0, <3>1, <3>3, <3>4, SelectionAssumption
  <2>2. ASSUME NEW r \in Requests, pc[r] = "fill", NEW a \in DOMAIN list[r]
        PROVE  Inactive(a) <= MaxQuery
    <3>1. list[r] \in Lists BY <2>2 DEF SelectionInv, SelectionTypeOK, Carried
    <3>2. Inactive(a) \in Nat BY <2>0, <2>2, <3>1, ListedAccounts, InactiveNat
    <3>3. Inactive(a) <= now - listAt[r] /\ now - listAt[r] <= MaxQuery
          BY <2>0, <2>2 DEF Aged
    <3> QED BY <2>0, <3>2, <3>3, SelectionAssumption
  <2> QED BY <2>1, <2>2 DEF StalenessBounded
<1> QED BY <1>1, SelectionInvariance, PTL
===============================================================================
