--------------------------- MODULE MCVoteRecount ---------------------------
(***************************************************************************)
(* cli/votes while nobody votes: votes are saved one after the other, and  *)
(* a recount starts when no call is under way and ends before the next.    *)
(* What goes wrong here is not a race.                                     *)
(***************************************************************************)
EXTENDS MCVoteStore

Idle == \A c \in Calls : pc[c] = "idle"

SaveVoteWithoutFailure(c) ==
  SelectVote(c) \/ UpdateVote(c) \/ InsertVote(c) \/ SumVotes(c) \/ StoreScore(c)

Quietly ==
  \/ recount = {} /\ \E c \in Calls : SaveVoteWithoutFailure(c)
  \/ Idle /\ (RecountAccounts \/ WriteRecount \/ Elapse)

AccountsSpec == Init /\ [][Quietly]_vars

\* cli/votes/main.go line 25: -accounts is to "update scores for account".  The
\* scores of items are left alone.
AccountRecountKeepsItems == [][WriteRecount => score' = score]_vars
=============================================================================
