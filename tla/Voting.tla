------------------------------- MODULE Voting -------------------------------
(***************************************************************************)
(* A reader's click on an arrow, from the page to the table of votes.  The *)
(* frontend (HandleVoting and, for the author's own vote on a new item,    *)
(* HandleSubmit in app/frontend/content.go) gives the vote to the client   *)
(* of the API (repository.SaveVote, app/api/loader.go), which asks the API *)
(* for the vote the account has, and posts a Like, a Dislike or an Undo.   *)
(* The API stores it with saveVote, which toggles a second time, by the    *)
(* row it finds itself: VoteStore.                                         *)
(*                                                                         *)
(* The frontend waits for the API, so a goroutine stands here for the      *)
(* request of the page and for the request to the API it makes.  The votes *)
(* of other accounts come from other servers or from the importer, without *)
(* a click.                                                                *)
(***************************************************************************)
EXTENDS VoteStore

CONSTANTS Readers,  \* the accounts that vote from a page
          NoClick   \* a goroutine that does not serve a page

Clicks == [item : Items, voter : Readers, weight : {-1, 1},
           sent : Weights, quiet : BOOLEAN]

ASSUME ClickAssumption == Readers \subseteq Accounts /\ NoClick \notin Clicks

VARIABLE click  \* what each goroutine's page asked for, until it is recorded

votingVars == <<vars, click>>

VotingInit == Init /\ click = [c \in Calls |-> NoClick]

\* As Activity, when any vote there is gets undone.
UndoAnything(exists, w) == IF exists \in {-1, 1} THEN 0 ELSE w

\* The activity for a click of weight w, as the weight it stands for: an Undo
\* when the vote the API answered has that direction.
Activity(exists, w) == IF exists = w THEN 0 ELSE w

\* The vote the account has is loaded from its collection liked.  When that
\* fails, the vote counts as missing.
Click(c) ==
  /\ pc[c] = "idle" /\ click[c] = NoClick
  /\ \E i \in Items, a \in SpeaksFor[c] \cap Readers, w \in {-1, 1} :
       \E exists \in {votes[i][a], NoVote} :
         click' = [click EXCEPT ![c] = [item |-> i, voter |-> a, weight |-> w,
                                        sent |-> Activity(exists, w),
                                        quiet |-> TRUE]]
  /\ UNCHANGED vars

\* The activity is posted to the outbox of the author of the item, and passes
\* what the API validates.
PostVote(c) ==
  /\ click[c] # NoClick
  /\ SelectVote(c)
  /\ req'[c] = [item |-> click[c].item, voter |-> click[c].voter,
                weight |-> click[c].sent]
  /\ UNCHANGED click

\* It does not: the error is logged, and the page redirects all the same.
LoseClick(c) ==
  /\ pc[c] = "idle" /\ click[c] # NoClick
  /\ click' = [click EXCEPT ![c] = NoClick]
  /\ UNCHANGED vars

\* A vote that no page asked for.
ReceiveVote(c) ==
  /\ click[c] = NoClick
  /\ SelectVote(c)
  /\ req'[c].voter \notin Readers
  /\ UNCHANGED click

\* The vote is written.  A click on the same item for the same account that is
\* on its way has been overtaken.
RecordVote(c) ==
  /\ UpdateVote(c) \/ InsertVote(c)
  /\ LET Overtaken(d) == /\ click[d] # NoClick
                         /\ click[d].item = req[c].item
                         /\ click[d].voter = req[c].voter
     IN click' = [d \in Calls |-> CASE d = c -> NoClick
                                    [] d # c /\ Overtaken(d) -> [click[d] EXCEPT !.quiet = FALSE]
                                    [] OTHER -> click[d]]

\* saveVote ends early, or its last statements run.
FinishVote(c) ==
  \/ /\ InsertConflict(c) \/ Fail(c)
     /\ click' = [click EXCEPT ![c] = NoClick]
  \/ /\ SumVotes(c) \/ StoreScore(c)
     /\ UNCHANGED click

Recount ==
  /\ RecountItems \/ RecountAccounts \/ WriteRecount \/ AbortRecount \/ Elapse
  /\ UNCHANGED click

VotingNext ==
  \/ \E c \in Calls :
       \/ Click(c) \/ PostVote(c) \/ LoseClick(c) \/ ReceiveVote(c)
       \/ RecordVote(c) \/ FinishVote(c)
  \/ Recount

VotingSpec == VotingInit /\ [][VotingNext]_votingVars
-----------------------------------------------------------------------------
VotingTypeOK ==
  /\ TypeOK
  /\ click \in [Calls -> Clicks \union {NoClick}]

\* A click that no other vote of the account on that item overtakes has the
\* effect the arrow promises, whatever the client's own read of the vote was:
\* the first click votes, a second one in the same direction takes the vote
\* back, one in the other direction turns it.  Client and server both toggle,
\* and the two never cancel each other (repository.SaveVote loader.go 651-660,
\* saveVote vote.go 264-275).
ClickToggles ==
  [][\A c \in Calls :
       pc[c] = "selected" /\ pc'[c] = "voted" /\ click[c] # NoClick /\ click[c].quiet =>
         LET i == click[c].item
             a == click[c].voter
             w == click[c].weight
         IN votes'[i][a] = IF votes[i][a] = w THEN 0 ELSE w]_votingVars
=============================================================================
