--------------------------- MODULE PublishedHosts ----------------------------
(***************************************************************************)
(* What the administrators' requests promise to the caches: the hosts that *)
(* serve a website change only together with an invalidation that the      *)
(* request still owes.                                                     *)
(***************************************************************************)
CONSTANTS
    PublicHosts,  \* the hosts there may be
    Writers       \* the administrators' requests that change which are live

VARIABLES
    live,  \* hosts of ACTIVE domains of ACTIVE websites
    owed   \* requests that have written and not invalidated yet

published == <<live, owed>>

PublishedTypeOK == live \subseteq PublicHosts /\ owed \subseteq Writers

PublishedInit == live = {} /\ owed = {}

Change(r) ==
    /\ r \in Writers \ owed
    /\ live' \in SUBSET PublicHosts
    /\ owed' = owed \cup {r}

\* The invalidation, or the end of a request that never learnt that its write was done.
Settle(r) ==
    /\ r \in owed
    /\ owed' = owed \ {r}
    /\ UNCHANGED live

PublishedNext == \E r \in Writers : Change(r) \/ Settle(r)

PublishedSpec == PublishedInit /\ [][PublishedNext]_published
=============================================================================
