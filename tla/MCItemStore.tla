---------------------------- MODULE MCItemStore ----------------------------
\* TLC runs of ItemStore: keys are interchangeable, and so are goroutines.
EXTENDS ItemFilters, TLC

ItemSymmetry == Permutations(Keys) \union Permutations(Handlers)
=============================================================================
