---------------------------- MODULE MCLimitStore ------------------------------
(* Instances of LimitStore for TLC: responses as the repository's tests and   *)
(* captured headers show them, one constructor per family.                    *)
EXTENDS LimitStore

MCCounters == {"requests"}

Bare(c, retry) ==
    [class |-> c, code |-> 429, claim |-> "none", status |-> "none", reset |-> None,
     five |-> NoWindow, seven |-> NoWindow, scoped |-> [g \in Groups |-> NoWindow],
     counters |-> [k \in Counters |-> NoCounter], retry |-> retry]
W(hot, in, status) == [hot |-> hot, resets |-> in, status |-> status, over |-> FALSE]

\* A 200 of a quiet account.
Quiet(c) == [Bare(c, None) EXCEPT !.code = 200, !.status = "allowed", !.reset = 1,
                !.five = W(FALSE, 1, "allowed"), !.seven = W(FALSE, 1, "allowed")]
\* The 5h or the 7d window is used up.
FiveHot == [Quiet("opus") EXCEPT !.five = W(TRUE, 1, "warning"), !.status = "warning"]
SevenHot(code) == [Quiet("opus") EXCEPT !.code = code, !.status = "rejected",
                !.seven = W(TRUE, 1, "rejected"), !.claim = "account"]
\* Old-style scoped rejection: claim plus the plain 7d window.
OldScoped(g) == [Bare(g, None) EXCEPT !.status = "rejected", !.claim = g, !.reset = 1,
                !.seven = W(TRUE, 1, "allowed")]
\* New-style scoped window: explicit, with a claim when the request is refused.
NewScoped(g, code) == [Bare(g, IF code = 429 THEN 1 ELSE None) EXCEPT !.code = code,
                !.claim = IF code = 429 THEN g ELSE "none",
                !.status = IF code = 429 THEN "rejected" ELSE "allowed",
                !.seven = W(FALSE, 1, "allowed"),
                !.scoped = [h \in Groups |-> IF h = g THEN W(TRUE, 1, "rejected") ELSE NoWindow]]
\* A scoped window used up, and the 5h window past its threshold.
Surpassed(g) == [NewScoped(g, 200) EXCEPT !.five = [W(FALSE, 1, "allowed") EXCEPT !.over = TRUE]]
LowCounter == [Bare("opus", 1) EXCEPT !.counters = [k \in Counters |-> [low |-> TRUE, resets |-> 1]]]

MCResponses == {Bare("opus", None), Bare("sonnet", 1), Quiet("opus"), FiveHot,
                SevenHot(429), LowCounter, Surpassed("sonnet"), NewScoped("fable", 429)} \cup {OldScoped(g) : g \in Groups}

NoUsage == [five |-> NoWindow, seven |-> NoWindow, opus |-> NoWindow, sonnet |-> NoWindow,
            has_limits |-> FALSE, scoped |-> [g \in Groups |-> NoWindow]]
MCUsages == {[NoUsage EXCEPT !.has_limits = TRUE],
             [NoUsage EXCEPT !.has_limits = TRUE, !.sonnet = W(TRUE, 1, "allowed")]}
===============================================================================
