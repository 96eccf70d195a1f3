---------------------------- MODULE MCPublicWatch ----------------------------
\* Instances of PublicWatch for TLC.
EXTENDS PublicWatch, TLC

\* A link without terms (the only kind with alias-free sessions), one that expires
\* and one with a view budget.
EveryTerms == {<<None, None>>, <<2, None>>, <<None, 2>>}

Interchangeable == Permutations(Reviewers)
=============================================================================
