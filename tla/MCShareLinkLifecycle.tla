---------------------- MODULE MCShareLinkLifecycle ----------------------
(* Small instances of ShareLinkLifecycle for TLC. *)
EXTENDS ShareLinkLifecycle, Naturals, TLC

\* PATCH requests are interchangeable.
Interchangeable == Permutations(Patches)

\* Requests in flight; the bound keeps at most MostAtOnce of them together.
InFlight ==
    {p \in Patches : patch[p].pc # "idle"} \cup {s \in Syncs : sync[s].pc # "idle"}
    \cup {a \in Assigns : assign[a].pc # "idle"}
    \cup {r \in Replaces : replace[r].pc # "idle"} \cup scan
AFewAtOnce == Cardinality(InFlight) <= 2
=============================================================================
