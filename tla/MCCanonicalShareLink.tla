---------------------- MODULE MCCanonicalShareLink ----------------------
(* Small instances of CanonicalShareLink for TLC. *)
EXTENDS CanonicalShareLink, TLC

OneToThree == 1..3
OneToFour == 1..4
Two == {1, 2}
One == {1}

Interchangeable ==
    Permutations(Requests) \cup Permutations(Evidence)
        \cup Permutations(Domains) \cup Permutations(Hosts)
=============================================================================
