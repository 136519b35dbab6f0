----------------------------- MODULE MCSessions -----------------------------
(***************************************************************************)
(* A small instance of Sessions for TLC.                                   *)
(***************************************************************************)
EXTENDS Sessions, TLC

SessionSymmetry ==
  Permutations(Browsers) \union Permutations(Accounts)
    \union Permutations(Codes) \union Permutations(Requests)

\* One browser at a time is on its way through the routes of OAuth; the other
\* requests of both go on.
OneFlow == \A a, b \in Browsers : a # b => at[a] = "idle" \/ at[b] = "idle"
=============================================================================
