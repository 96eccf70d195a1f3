----------------------------- MODULE MCAdminAuth -----------------------------
(* Small instances of AdminAuth for TLC. *)
EXTENDS AdminAuth, FiniteSets, TLC

\* Row identifiers and request slots are interchangeable.
Interchangeable ==
    Permutations(Admins) \cup Permutations(Sessions) \cup Permutations(Tokens)
        \cup Permutations(Refreshes) \cup Permutations(OwnerRequests)

Under(requests) == Cardinality({r \in DOMAIN requests : requests[r] # Idle})

\* Bound: so many requests are under way at once.
AFewAtOnce == Under(login) + Under(refresh) + Under(change) + Under(owner) <= 3
=============================================================================
