----------------------------- MODULE MCListing -----------------------------
\* TLC runs of Listing: items are interchangeable.
EXTENDS Listing, TLC

Symmetry == Permutations(Items)
=============================================================================
