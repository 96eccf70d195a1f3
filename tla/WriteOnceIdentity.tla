------------------------- MODULE WriteOnceIdentity -------------------------
(***************************************************************************)
(* What the canonical share link promises: each video has one identity,    *)
(* chosen once and never changed or shared, and callers are only ever told *)
(* that identity.                                                          *)
(***************************************************************************)
CONSTANTS Videos, Links, None

VARIABLES
    identity,  \* the link of the video, or None
    answers    \* what callers were told: pairs of a video and a link

Init == identity = [v \in Videos |-> None] /\ answers = {}

Choose(v, l) ==
    /\ identity[v] = None
    /\ \A w \in Videos : identity[w] # l
    /\ identity' = [identity EXCEPT ![v] = l]

Tell(v) == identity'[v] # None /\ answers' = answers \cup {<<v, identity'[v]>>}

Next ==
    \/ \E v \in Videos, l \in Links :
        Choose(v, l) /\ (answers' = answers \/ Tell(v))
    \/ \E v \in Videos : identity' = identity /\ Tell(v)

Spec == Init /\ [][Next]_<<identity, answers>>
=============================================================================
