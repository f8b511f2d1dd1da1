------------------------------- MODULE Drain -------------------------------
(***************************************************************************)
(* What the store promises about uploads, without saying how: a key is     *)
(* accepted for upload at most once, every accepted upload settles before  *)
(* the queue counts as drained, and the manifest is published only after   *)
(* that, listing exactly what was known before and what was confirmed.     *)
(***************************************************************************)
CONSTANT Keys

VARIABLES
    base,          \* the keys known from the manifest read at startup
    accepted,      \* keys taken for upload
    settled,       \* keys whose upload has ended, one way or the other
    confirmed,     \* keys whose upload ended with the service holding them
    drained,       \* no more uploads will be accepted
    published      \* the manifest filed, {} before that

drainVars == <<base, accepted, settled, confirmed, drained, published>>

DrainInit ==
    /\ base = {} /\ accepted = {} /\ settled = {} /\ confirmed = {}
    /\ drained = FALSE
    /\ published = {}

Learn ==
    /\ accepted = {} /\ base = {} /\ ~drained
    /\ base' \in SUBSET Keys
    /\ UNCHANGED <<accepted, settled, confirmed, drained, published>>

Accept(k) ==
    /\ ~drained
    /\ k \notin accepted
    /\ accepted' = accepted \cup {k}
    /\ UNCHANGED <<base, settled, confirmed, drained, published>>

Settled(k) ==
    /\ ~drained
    /\ k \in accepted \ settled
    /\ settled' = settled \cup {k}
    /\ confirmed' \in {confirmed, confirmed \cup {k}}
    /\ UNCHANGED <<base, accepted, drained, published>>

Close ==
    /\ ~drained
    /\ settled = accepted
    /\ drained' = TRUE
    /\ UNCHANGED <<base, accepted, settled, confirmed, published>>

Publish ==
    /\ drained
    /\ published = {}
    /\ published' = base \cup confirmed
    /\ UNCHANGED <<base, accepted, settled, confirmed, drained>>

DrainNext ==
    \/ Learn \/ Close \/ Publish
    \/ \E k \in Keys : Accept(k) \/ Settled(k)

DrainSpec == DrainInit /\ [][DrainNext]_drainVars
=============================================================================
