--------------------------- MODULE MCUsageObserver ----------------------------
(* All bodies of two lines, and of three that begin with message_start; a size  *)
(* of 3 exceeds the line limit of 2.                                           *)
EXTENDS UsageObserver

Line(t, u, n) == [type |-> t, usage |-> u, size |-> n]
Start == Line("message_start", UsageObject(1, 3, TRUE, 1, 2), 2)
Delta == Line("message_delta", UsageObject(2, Absent, FALSE, Absent, Absent), 2)
MCLines == {Start, Delta,
            Line("message_delta", BadUsage, 2),
            Line("message_stop", NoUsage, 2),
            Line("content", NoUsage, 2),
            Line("content", NoUsage, 3),
            Line("event", NoUsage, 1),
            Line("garbage", NoUsage, 2)}
MCSseLines == SeqOf(MCLines, 2) \cup {<<Start>> \o ls : ls \in SeqOf(MCLines, 2)}
MCSseBodies == {[lines |-> ls, open |-> o] : ls \in MCSseLines, o \in BOOLEAN}
MCJsonBodies ==
    {[lines |-> <<Line("json", u, n)>>, open |-> TRUE] :
        u \in {UsageObject(1, 3, FALSE, Absent, Absent),
               UsageObject(1, 3, TRUE, 1, 2), NoUsage, BadUsage},
        n \in {2, 3, 4}}
    \cup {[lines |-> <<Line("garbage", NoUsage, 2)>>, open |-> TRUE],
          [lines |-> <<>>, open |-> TRUE]}
===============================================================================
