---------------------------- MODULE MCVoteStore ----------------------------
(***************************************************************************)
(* Constants of the TLC runs of VoteStore.  Identifiers of items and       *)
(* accounts are numbers, as the serial columns of both tables are, so that *)
(* an item and an account may have the same one.                           *)
(***************************************************************************)
EXTENDS VoteStore, TLC

\* Both goroutines may carry the vote of either account: a reader with two tabs.
AnyAccount == [c \in Calls |-> Accounts]

\* Both goroutines carry the votes of one account, one those of any other too:
\* the two tabs of a reader, and another reader after him.
SharedAccount ==
  LET Shared == CHOOSE a \in Accounts : TRUE
      Other == CHOOSE c \in Calls : TRUE
  IN [c \in Calls |-> IF c = Other THEN Accounts ELSE {Shared}]

\* Items are submitted by the account with the lowest identifier.
FirstAuthor == [i \in Items |-> CHOOSE a \in Accounts : \A b \in Accounts : a <= b]
\* Goroutines that carry the votes of the same accounts are interchangeable.
CallSymmetry == Permutations(Calls)
=============================================================================
