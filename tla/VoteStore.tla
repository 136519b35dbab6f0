----------------------------- MODULE VoteStore -----------------------------
(***************************************************************************)
(* Votes and scores in the database of littr.go.                           *)
(*                                                                         *)
(* A vote is stored by saveVote (app/db/vote.go), which the API handlers   *)
(* and the feed importer call from any number of goroutines.  It issues    *)
(* four autocommitted statements and holds no lock between them: it        *)
(* selects the voter's row, writes the row, sums the rows of the item and  *)
(* stores the sum in items.score.  The command cli/votes recounts scores   *)
(* from a separate process (UpdateScores, app/cmd/votes.go).  Each         *)
(* statement is one action here; calls interleave between statements and   *)
(* may stop after any of them (an error from the database, a killed        *)
(* process).                                                               *)
(*                                                                         *)
(* A call identifies its item by hash; the item exists (rows of items are  *)
(* never deleted).  Weights are -1, 0 and 1 (Vote.FromActivityPub; the     *)
(* importer sends 1) and ScoreMultiplier is 1.                             *)
(***************************************************************************)
EXTENDS Integers, FiniteSets

CONSTANTS Items,      \* identifiers of the rows of table items
          Accounts,   \* identifiers of the rows of table accounts
          Author,     \* Author[i]: items.submitted_by
          Calls,      \* goroutines that may be inside saveVote
          SpeaksFor,  \* SpeaksFor[c]: the accounts whose votes c carries
          NoVote,     \* no row of votes for an item and an account
          NoRequest   \* a goroutine that is not inside saveVote

Weights == {-1, 0, 1}
Requests == [item : Items, voter : Accounts, weight : Weights]

ASSUME ItemsAssumption == Author \in [Items -> Accounts]
ASSUME CallsAssumption == SpeaksFor \in [Calls -> SUBSET Accounts]
ASSUME AccountsAssumption == IsFiniteSet(Accounts)
ASSUME SentinelsAssumption == NoVote \notin Int /\ NoRequest \notin Requests

VARIABLES
  votes,    \* table votes: votes[i][a] is a weight or NoVote
  recent,   \* the rows <<i, a>> whose updated_at is within cli/votes -since
  score,    \* items.score
  pc,       \* where each goroutine is in saveVote
  req,      \* its argument, or NoRequest
  old,      \* its local old: the row it selected
  sum,      \* its local scores: the sum it selected
  recount,  \* the rows <<id, score>> cli/votes has still to write
  stale     \* history: the items whose score need not be the sum of its votes

vars == <<votes, recent, score, pc, req, old, sum, recount, stale>>
callVars == <<pc, req, old, sum>>

(***************************************************************************)
(* The sum both recounts compute: SUM of the positive weights minus SUM of *)
(* the absolute negative weights, over the rows of an item that the WHERE  *)
(* clause keeps.                                                           *)
(***************************************************************************)
Ups(row, who)   == Cardinality({a \in who : row[a] = 1})
Downs(row, who) == Cardinality({a \in who : row[a] = -1})
Tally(row, who) == Ups(row, who) - Downs(row, who)

Voters(i)       == {a \in Accounts : votes[i][a] # NoVote}
RecentVoters(i) == {a \in Accounts : <<i, a>> \in recent}
ItemSum(i)      == Tally(votes[i], Voters(i))

\* The goroutines between writing a vote on i and storing the score of i.
Counting(i) == {c \in Calls : pc[c] \in {"voted", "summed"} /\ req[c].item = i}

\* Whether cli/votes holds a score of i that it has not written yet.
Recounting(i) == \E row \in recount : row[1] = i
-----------------------------------------------------------------------------
Init ==
  /\ votes = [i \in Items |-> [a \in Accounts |-> NoVote]]
  /\ recent = {}
  /\ score = [i \in Items |-> 0]
  /\ pc = [c \in Calls |-> "idle"]
  /\ req = [c \in Calls |-> NoRequest]
  /\ old = [c \in Calls |-> NoVote]
  /\ sum = [c \in Calls |-> 0]
  /\ recount = {}
  /\ stale = {}

\* saveVote returns: its locals are gone.
Return(c) ==
  /\ pc' = [pc EXCEPT ![c] = "idle"]
  /\ req' = [req EXCEPT ![c] = NoRequest]
  /\ old' = [old EXCEPT ![c] = NoVote]
  /\ sum' = [sum EXCEPT ![c] = 0]

\* saveVote is called and selects the voter's row.  The error of QueryOne is
\* dropped, so a failed SELECT looks like a missing row.
SelectVote(c) ==
  /\ pc[c] = "idle"
  /\ \E i \in Items, a \in SpeaksFor[c], w \in Weights :
       /\ req' = [req EXCEPT ![c] = [item |-> i, voter |-> a, weight |-> w]]
       /\ \E row \in {votes[i][a], NoVote} : old' = [old EXCEPT ![c] = row]
  /\ pc' = [pc EXCEPT ![c] = "selected"]
  /\ UNCHANGED <<votes, recent, score, sum, recount, stale>>

\* The weight the call writes: the same direction twice is a withdrawal.
ToggleOff(was, w) == w # 0 /\ was = w
AccumulatedWeight(was, w) == was + w
NewWeight(was, w) == IF ToggleOff(was, w) THEN 0 ELSE w

\* The row of the voter is written and updated_at set.  A call that meets no
\* other recount of the item on its way will store the right score; one that
\* meets another may have its score overwritten by an older sum.
PutVote(c, w) ==
  LET i == req[c].item
      a == req[c].voter
  IN /\ votes' = [votes EXCEPT ![i][a] = w]
     /\ recent' = recent \union {<<i, a>>}
     /\ pc' = [pc EXCEPT ![c] = "voted"]
     /\ stale' = IF Counting(i) = {} /\ ~Recounting(i)
                   THEN stale \ {i} ELSE stale \union {i}
     /\ UNCHANGED <<score, req, old, sum, recount>>

UpdateVote(c) ==
  /\ pc[c] = "selected"
  /\ old[c] # NoVote
  /\ PutVote(c, NewWeight(old[c], req[c].weight))

\* As InsertVote, overwriting a row that appeared since the SELECT.
InsertOrOverwrite(c) ==
  /\ pc[c] = "selected"
  /\ old[c] = NoVote
  /\ PutVote(c, req[c].weight)

InsertVote(c) ==
  /\ pc[c] = "selected"
  /\ old[c] = NoVote
  /\ votes[req[c].item][req[c].voter] = NoVote
  /\ PutVote(c, req[c].weight)

\* The row appeared since the SELECT, or the SELECT failed: the constraint
\* unique_vote_submitted_item rejects the INSERT and saveVote returns the error.
InsertConflict(c) ==
  /\ pc[c] = "selected"
  /\ old[c] = NoVote
  /\ votes[req[c].item][req[c].voter] # NoVote
  /\ Return(c)
  /\ UNCHANGED <<votes, recent, score, recount, stale>>

\* As SumVotes, with a fixed interval instead of the age of the item.
SumRecentVotes(c) ==
  /\ pc[c] = "voted"
  /\ sum' = [sum EXCEPT ![c] =
               Tally(votes[req[c].item], RecentVoters(req[c].item))]
  /\ pc' = [pc EXCEPT ![c] = "summed"]
  /\ UNCHANGED <<votes, recent, score, req, old, recount, stale>>

\* loadScoresForItems, over every vote on the item: a vote received by the API
\* carries no SubmittedAt of its item, the interval is then about 292 years,
\* and the importer's is the age of the item.
SumVotes(c) ==
  /\ pc[c] = "voted"
  /\ sum' = [sum EXCEPT ![c] = ItemSum(req[c].item)]
  /\ pc' = [pc EXCEPT ![c] = "summed"]
  /\ UNCHANGED <<votes, recent, score, req, old, recount, stale>>

\* As StoreScore, when the loop over the scores does not run.
SkipScore(c) ==
  /\ pc[c] = "summed"
  /\ Return(c)
  /\ UNCHANGED <<votes, recent, score, recount, stale>>

StoreScore(c) ==
  /\ pc[c] = "summed"
  /\ score' = [score EXCEPT ![req[c].item] = sum[c]]
  /\ Return(c)
  /\ UNCHANGED <<votes, recent, recount, stale>>

\* A statement fails and saveVote returns the error, or the process dies.  The
\* vote stays written when its score is not.
Fail(c) ==
  /\ pc[c] # "idle"
  /\ stale' = IF pc[c] \in {"voted", "summed"}
                THEN stale \union {req[c].item} ELSE stale
  /\ Return(c)
  /\ UNCHANGED <<votes, recent, score, recount>>
-----------------------------------------------------------------------------
\* The rows cli/votes selects: of every item, or of the item given with -key.
Selections == {Items} \union {{i} : i \in Items}

\* The items of a selection the query returns: those with a recent vote.
Voted(items) == {i \in items : RecentVoters(i) # {}}

\* cli/votes -items: sum the recent votes of each selected item.
RecountItems ==
  /\ recount = {}
  /\ \E items \in Selections :
       LET rows == {<<i, Tally(votes[i], RecentVoters(i))>> : i \in Voted(items)}
       IN /\ recount' = rows
          /\ stale' = stale \union {i \in Voted(items) : RecentVoters(i) # Voters(i)}
  /\ UNCHANGED <<votes, recent, score, callVars>>

\* cli/votes -accounts: the loop of loadScoresForAccounts fills a copy of each
\* score, so what it returns has the identifier of the account, score 0 and
\* type 0, which is ScoreItem.
RecountAccounts ==
  /\ recount = {}
  /\ \E items \in Selections :
       LET ids == {Author[i] : i \in Voted(items)}
       IN /\ recount' = {<<id, 0>> : id \in ids}
          /\ stale' = stale \union (ids \intersect Items)
  /\ UNCHANGED <<votes, recent, score, callVars>>

\* One UPDATE of items.  Rows are written by increasing identifier; any order
\* is allowed here.  An identifier of no item updates no row.
WriteRecount ==
  /\ \E row \in recount :
       /\ recount' = recount \ {row}
       /\ score' = [i \in Items |-> IF i = row[1] THEN row[2] ELSE score[i]]
  /\ UNCHANGED <<votes, recent, callVars, stale>>

\* An UPDATE fails: UpdateScores returns and the rest is not written.
AbortRecount ==
  /\ recount # {}
  /\ recount' = {}
  /\ UNCHANGED <<votes, recent, score, callVars, stale>>

\* More time than -since passes without a vote.
Elapse ==
  /\ recent # {}
  /\ recent' = {}
  /\ UNCHANGED <<votes, score, callVars, recount, stale>>
-----------------------------------------------------------------------------
SaveVote(c) == 
  \/ SelectVote(c) \/ UpdateVote(c) \/ InsertVote(c) \/ InsertConflict(c)
  \/ SumVotes(c) \/ StoreScore(c) \/ Fail(c)

Next ==
  \/ \E c \in Calls : SaveVote(c)
  \/ RecountItems \/ RecountAccounts \/ WriteRecount \/ AbortRecount
  \/ Elapse

Spec == Init /\ [][Next]_vars

\* A goroutine inside saveVote goes on: every statement returns or fails.
Fairness == \A c \in Calls : WF_vars(SumVotes(c)) /\ WF_vars(StoreScore(c))

FairSpec == Spec /\ Fairness
-----------------------------------------------------------------------------
TypeOK ==
  /\ votes \in [Items -> [Accounts -> Weights \union {NoVote}]]
  /\ recent \subseteq Items \X Accounts
  /\ score \in [Items -> Int]
  /\ pc \in [Calls -> {"idle", "selected", "voted", "summed"}]
  /\ req \in [Calls -> Requests \union {NoRequest}]
  /\ old \in [Calls -> Weights \union {NoVote}]
  /\ sum \in [Calls -> Int]
  /\ recount \subseteq (Items \union Accounts) \X Int
  /\ stale \subseteq Items
  /\ \A c \in Calls : pc[c] = "idle" <=> req[c] = NoRequest

\* A score is the sum of the votes on its item whenever nothing is under way
\* for the item, unless a vote was written while another recount of the item
\* was between its SUM and its UPDATE, a call stopped between its two writes,
\* or cli/votes recounted fewer votes than there are.  A later vote that meets
\* no other recount repairs the score (saveVote lines 277-295).
SettledScoreIsSum ==
  \A i \in Items :
    i \notin stale /\ Counting(i) = {} => score[i] = ItemSum(i)

\* However calls, failures and recounts overlap, a score never exceeds, in
\* either direction, the number of accounts that have a vote on the item: no
\* interleaving counts a voter twice.
ScoreInRange ==
  \A i \in Items :
    LET n == Cardinality(Voters(i)) IN -n <= score[i] /\ score[i] <= n

\* A vote that is written gets counted: the score becomes the sum of the votes
\* on the item, unless a race or a failure leaves the item stale.
VoteGetsCounted ==
  \A i \in Items :
    Counting(i) # {} ~> (score[i] = ItemSum(i) \/ i \in stale)

\* The row c selected is not the one recorded any more: another goroutine voted
\* for the same account since, as when a reader has two tabs.
Superseded(c) ==
  /\ pc[c] = "selected" /\ old[c] # NoVote
  /\ votes[req[c].item][req[c].voter] # old[c]

Board == INSTANCE VoteBoard
           WITH ballot <- req,
                cast <- {c \in Calls : pc[c] \in {"voted", "summed"}}

\* saveVote implements VoteBoard, whatever goroutines vote for one account and
\* whatever failures and recounts come between: the SELECT of the old row and
\* the write of the new one behave as one step, which takes effect at most once
\* and on the vote recorded at that moment, and a first vote never replaces
\* another; only a call that was overtaken takes effect on the vote it selected
\* (saveVote lines 253-283).
VotesAreAtomic ==
  /\ Board!BoardInit
  /\ [][Board!BoardNext \/ \E c \in Calls : Superseded(c) /\ Board!CastOn(c, old[c])
       ]_(Board!boardVars)
=============================================================================
