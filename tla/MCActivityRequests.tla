------------------------- MODULE MCActivityRequests -------------------------
\* TLC runs of ActivityRequests: requests are interchangeable.
EXTENDS ActivityRequests, TLC

Symmetry == Permutations(Requests)
=============================================================================
