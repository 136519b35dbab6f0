----------------------------- MODULE VoteBoard -----------------------------
(***************************************************************************)
(* What the vote table of littr.go promises: an account has at most one    *)
(* vote on an item, and each request to vote takes effect at most once, in *)
(* one step, on the vote recorded at that moment.  A vote in the direction *)
(* already recorded takes the vote back (weight 0); any other replaces it. *)
(*                                                                         *)
(* The statements saveVote (app/db/vote.go) really issues are in VoteStore.*)
(***************************************************************************)
EXTENDS Integers

CONSTANTS Items, Accounts, Calls,
          SpeaksFor,  \* SpeaksFor[c]: the accounts whose votes c carries
          NoVote,     \* an account has not voted on an item
          NoRequest   \* c carries no request

VARIABLES votes,   \* votes[i][a]: the weight recorded for a on i, or NoVote
          ballot,  \* ballot[c]: the request c carries, or NoRequest
          cast     \* the c whose request has taken effect

boardVars == <<votes, ballot, cast>>

Directions == {-1, 0, 1}

BoardInit ==
  /\ votes = [i \in Items |-> [a \in Accounts |-> NoVote]]
  /\ ballot = [c \in Calls |-> NoRequest]
  /\ cast = {}

Ask(c) ==
  /\ ballot[c] = NoRequest
  /\ \E i \in Items, a \in SpeaksFor[c], w \in Directions :
       ballot' = [ballot EXCEPT ![c] = [item |-> i, voter |-> a, weight |-> w]]
  /\ UNCHANGED <<votes, cast>>

\* The request takes effect, as if was were the vote recorded.
CastOn(c, was) ==
  /\ ballot[c] # NoRequest
  /\ c \notin cast
  /\ LET w == ballot[c].weight
     IN votes' = [votes EXCEPT ![ballot[c].item][ballot[c].voter] =
                    IF w # 0 /\ was = w THEN 0 ELSE w]
  /\ cast' = cast \union {c}
  /\ UNCHANGED ballot

Cast(c) == CastOn(c, votes[ballot[c].item][ballot[c].voter])

\* The request is over, with or without effect.
Leave(c) ==
  /\ ballot[c] # NoRequest
  /\ ballot' = [ballot EXCEPT ![c] = NoRequest]
  /\ cast' = cast \ {c}
  /\ UNCHANGED votes

BoardNext == \E c \in Calls : Ask(c) \/ Cast(c) \/ Leave(c)

BoardSpec == BoardInit /\ [][BoardNext]_boardVars
=============================================================================
