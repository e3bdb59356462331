---------------------------- MODULE MCUsageLedger -----------------------------
(* The instance of UsageLedger: two processes share one database.              *)
EXTENDS UsageLedger, TLC

CONSTANTS e1, e2, e3, k1, k2, p1, p2

\* Two reports of one message, and a report of another one.
Keyed == (e1 :> k1) @@ (e2 :> k1) @@ (e3 :> k2)

\* Two of the three happen: twins in two processes, or reports of two messages,
\* which share the batches and the pages of one process.
Twins == (e1 :> p1) @@ (e2 :> p2) @@ (e3 :> None)
Messages == (e1 :> p1) @@ (e2 :> None) @@ (e3 :> p1)
Pairs == {Twins, Messages}

\* No model is in the built-in list; the processes fetch different lists, and
\* only the second process fetches one that covers every model.
LateCovers == {<<e1, 2>>, <<e1, 3>>, <<e2, 2>>, <<e2, 3>>, <<e3, 3>>}
ServedBy == (p1 :> {2}) @@ (p2 :> {3})

\* Of twins, the first process restarts once: its event may be lost, stored,
\* or stored by the other process.
FirstRestarts == [h \in Pairs |-> (p1 :> IF h = Twins THEN 1 ELSE 0) @@ (p2 :> 0)]
===============================================================================
