--------------------------- MODULE MCVideoStorage ----------------------------
\* Instances of VideoStorage for TLC.
EXTENDS VideoStorage, TLC

Interchangeable == Permutations(Videos) \cup Permutations(Assets) \cup Permutations(Requests)
=============================================================================
