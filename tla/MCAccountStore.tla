--------------------------- MODULE MCAccountStore ---------------------------
\* The TLC run of AccountStore.  Processes of one program are interchangeable.
EXTENDS AccountStore, TLC

CONSTANT ann

\* An entry without author, and then one of an author.
TwoEntries == <<Unnamed, ann>>

ProcessSymmetry == Permutations(Importers) \union Permutations(KeyRuns)
=============================================================================
