------------------------- MODULE MCAccountSelection -------------------------
EXTENDS AccountSelection

\* Two requests of one session; the API token of r2 excludes account 1.
MCHash == [r \in Requests |-> "s"]
MCClassOf == [r \in Requests |-> "opus"]
MCExcluded == [r \in Requests |-> IF r = "r2" THEN {1} ELSE {}]
MCAllowed == [r \in Requests |-> IF r = "r1" THEN {1, 2} ELSE {}]
===============================================================================
