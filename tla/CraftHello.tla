------------------------------ MODULE CraftHello ------------------------------
(***************************************************************************)
(* The part of a ClientHello that craftls takes from a fingerprint instead *)
(* of from the rustls configuration: which of the extensions rustls        *)
(* prepared are kept, which groups, suites and key shares are declared.    *)
(* Every client has a fingerprint (CraftOptions::get asserts it).  The     *)
(* order of the extensions, padding and grease are left out: a peer        *)
(* ignores them.                                                           *)
(*                                                                         *)
(* A fingerprint is a record: keep, the set of optional extensions with a  *)
(* place in the list ("psk", "early_data", "ems", and "ticket", which is    *)
(* sent empty if rustls prepared none); groups and suites, what the hello   *)
(* declares (None: what the provider really has); shares, the groups of    *)
(* the KeyShare entry.  A key share is [g |-> group, i |-> which of this    *)
(* end's key pairs].                                                       *)
(***************************************************************************)
EXTENDS TlsEndpoint

\* kx_groups of build_tls_config, and the groups among them that start() can
\* make a key pair for
Startable(cfg, g) == g \in Range(cfg.groups) /\ g \notin cfg.fake

Declared(fingerprinted, own) == IF fingerprinted = None THEN own ELSE fingerprinted[1]

\* patch_extension: an extension rustls prepared survives only if the
\* fingerprint has a place for it
Kept(cfg, ext) == ext \in cfg.fp.keep

\* CraftExtension::KeyShare of a first hello: each declared group gets the
\* share rustls made (when that is for the declared group, or for a group
\* other than the provider's first) or a new pair of its own; an unused
\* share of rustls goes last.  New pairs are what find_key_share looks in.
CraftShares(cfg, origin) ==
    LET step(acc, g) ==
            IF acc.origin # None /\ (origin.g # cfg.groups[1] \/ g = origin.g)
            THEN [acc EXCEPT !.shares = Append(@, origin), !.origin = None]
            ELSE IF Startable(cfg, g) /\ \A i \in DOMAIN acc.shares : acc.shares[i].g # g
            THEN [acc EXCEPT !.shares = Append(@, Share(g, 0)),
                             !.alt = Append(@, Share(g, 0))]
            ELSE acc
        all == FoldLeft(step, [shares |-> << >>, alt |-> << >>,
                               origin |-> Some(origin)], cfg.fp.shares)
    IN  [shares |-> all.shares \o all.origin, alt |-> all.alt]

\* after a HelloRetryRequest that names a group the share of rustls is kept
RetryShares(origin) == [shares |-> <<origin>>, alt |-> << >>]

\* Mutant: only the share of rustls is looked at.
MutFindKeyShare(alt, group, ours) == ours

\* find_key_share: the first extra pair for the group, else the share of rustls
FindKeyShare(alt, group, ours) ==
    LET hits == SelectSeq(alt, LAMBDA s : s.g = group) IN
    IF hits # << >> THEN hits[1] ELSE ours
=============================================================================
