----------------------------- MODULE MCTlsRecords -----------------------------
EXTENDS TlsRecords

Hs(lens, rekey) == [k |-> "hs", lens |-> lens, rekey |-> rekey]
App(n) == [k |-> "app", lens |-> <<n>>, rekey |-> 0]
Early(n) == [k |-> "early", lens |-> <<n>>, rekey |-> 0]
Bare(kind) == [k |-> kind, lens |-> << >>, rekey |-> 0]

\* messages one by one and packed together, a change of keys with data
\* behind it, refused early data before the handshake, a message as long as
\* the buffer allows, one longer, and keys that change within a record
MCPlans ==
    {<<Hs(<<3>>, 1), Bare("ccs"), Hs(<<2>>, 0), App(4), Bare("close")>>,
     <<Hs(<<2, 3>>, 0), Hs(<<2>>, 1), App(2), Bare("close")>>,
     <<Hs(<<3, 2, 2>>, 3), App(3)>>,
     <<Early(2), Early(1), Hs(<<4>>, 1), App(3), Bare("close")>>,
     <<Early(4), Hs(<<2>>, 1), App(1)>>,
     <<Hs(<<8>>, 0), App(1), Bare("close")>>,
     <<Hs(<<2, 14>>, 0)>>,
     <<Hs(<<2, 2>>, 1), App(1)>>}
=============================================================================
