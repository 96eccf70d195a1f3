-------------------------- MODULE MCWebsiteDomains ---------------------------
\* Instances of WebsiteDomains for TLC.
EXTENDS WebsiteDomains, TLC

Interchangeable == Permutations(Sites) \cup Permutations(Domains)
                   \cup Permutations(Hosts) \cup Permutations(Requests)
=============================================================================
