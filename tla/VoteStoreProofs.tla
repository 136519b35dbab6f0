-------------------------- MODULE VoteStoreProofs --------------------------
(***************************************************************************)
(* Theorems about VoteStore, and about the pages that lead to it, for      *)
(* every set of items, accounts and goroutines.                            *)
(***************************************************************************)
EXTENDS Voting, FiniteSetTheorems, TLAPS

\* The sum over a set of accounts lies between minus and plus its size: an
\* account contributes 1, 0 or -1 (loadScoresForItems, app/db/db.go).
LEMMA TallyBounds ==
  ASSUME NEW row, NEW who, IsFiniteSet(who)
  PROVE  /\ Cardinality(who) \in Nat
         /\ Tally(row, who) \in Int
         /\ -Cardinality(who) <= Tally(row, who)
         /\ Tally(row, who) <= Cardinality(who)
  <1> DEFINE U == {a \in who : row[a] = 1}
             D == {a \in who : row[a] = -1}
  <1>1. /\ IsFiniteSet(U) /\ Cardinality(U) <= Cardinality(who)
        /\ IsFiniteSet(D) /\ Cardinality(D) <= Cardinality(who)
    BY FS_Subset
  <1>2. Cardinality(who) \in Nat /\ Cardinality(U) \in Nat /\ Cardinality(D) \in Nat
    BY <1>1, FS_CardinalityType
  <1>3. Tally(row, who) = Cardinality(U) - Cardinality(D)
    BY DEF Tally, Ups, Downs
  <1> QED
    BY <1>1, <1>2, <1>3

\* The voters of an item, all and recent, are finitely many accounts.
LEMMA FiniteVoters ==
  ASSUME NEW i
  PROVE  IsFiniteSet(Voters(i)) /\ IsFiniteSet(RecentVoters(i))
  BY AccountsAssumption, FS_Subset DEF Voters, RecentVoters

\* The sum a goroutine or cli/votes computes is an integer.
LEMMA SumsAreIntegers ==
  ASSUME NEW i
  PROVE  ItemSum(i) \in Int /\ Tally(votes[i], RecentVoters(i)) \in Int
  BY FiniteVoters, TallyBounds DEF ItemSum

\* Every table, local variable and pending write of VoteStore keeps its type:
\* in particular a weight outside -1..1 never reaches the table votes.
THEOREM TypeCorrect == Spec => []TypeOK
  <1>1. Init => TypeOK
    BY DEF Init, TypeOK
  <1>2. TypeOK /\ [Next]_vars => TypeOK'
    <2> SUFFICES ASSUME TypeOK, [Next]_vars
                 PROVE  TypeOK'
      OBVIOUS
    <2> USE DEF TypeOK
    <2>1. ASSUME NEW c \in Calls, SelectVote(c)
          PROVE  TypeOK'
      <3> PICK i \in Items, a \in SpeaksFor[c], w \in Weights :
             req' = [req EXCEPT ![c] = [item |-> i, voter |-> a, weight |-> w]]
        BY <2>1 DEF SelectVote
      <3> DEFINE r == [item |-> i, voter |-> a, weight |-> w]
      <3>1. a \in Accounts
        BY CallsAssumption
      <3>2. r \in Requests
        BY <3>1 DEF Requests
      <3>3. r # NoRequest
        BY <3>2, SentinelsAssumption
      <3>4. votes[i][a] \in Weights \union {NoVote}
        BY <3>1
      <3>5. PICK row \in Weights \union {NoVote} : old' = [old EXCEPT ![c] = row]
        <4>1. PICK j \in Items, b \in SpeaksFor[c] :
                \E row \in {votes[j][b], NoVote} : old' = [old EXCEPT ![c] = row]
          BY <2>1 DEF SelectVote
        <4>2. votes[j][b] \in Weights \union {NoVote}
          BY CallsAssumption
        <4> QED
          BY <4>1, <4>2
      <3> QED
        BY <2>1, <3>2, <3>3, <3>5 DEF SelectVote
    <2>2. ASSUME NEW c \in Calls, NEW w \in Weights, pc[c] = "selected", PutVote(c, w)
          PROVE  TypeOK'
      <3>1. req[c] \in Requests
        BY <2>2
      <3>2. req[c].item \in Items /\ req[c].voter \in Accounts
        BY <3>1 DEF Requests
      <3> QED
        BY <2>2, <3>1, <3>2 DEF PutVote
    <2>3. ASSUME NEW c \in Calls, UpdateVote(c)
          PROVE  TypeOK'
      <3>1. req[c] \in Requests /\ old[c] \in Weights
        BY <2>3 DEF UpdateVote
      <3>2. NewWeight(old[c], req[c].weight) \in Weights
        BY <3>1 DEF NewWeight, Requests, Weights
      <3> QED
        BY <2>2, <2>3, <3>2 DEF UpdateVote
    <2>4. ASSUME NEW c \in Calls, InsertVote(c)
          PROVE  TypeOK'
      <3>1. req[c].weight \in Weights
        BY <2>4 DEF InsertVote, Requests
      <3> QED
        BY <2>2, <2>4, <3>1 DEF InsertVote
    <2>5. ASSUME NEW c \in Calls, InsertConflict(c)
          PROVE  TypeOK'
      BY <2>5 DEF InsertConflict, Return
    <2>6. ASSUME NEW c \in Calls, SumVotes(c)
          PROVE  TypeOK'
      BY <2>6, SumsAreIntegers DEF SumVotes
    <2>7. ASSUME NEW c \in Calls, StoreScore(c)
          PROVE  TypeOK'
      <3>1. score' \in [Items -> Int]
        BY <2>7 DEF StoreScore
      <3> QED
        BY <2>7, <3>1 DEF StoreScore, Return
    <2>8. ASSUME NEW c \in Calls, Fail(c)
          PROVE  TypeOK'
      <3>1. req[c] \in Requests
        BY <2>8 DEF Fail
      <3>2. req[c].item \in Items
        BY <3>1 DEF Requests
      <3> QED
        BY <2>8, <3>2 DEF Fail, Return
    <2>9. CASE RecountItems
      <3>1. PICK items \in Selections :
              /\ recount' = {<<i, Tally(votes[i], RecentVoters(i))>> : i \in Voted(items)}
              /\ stale' = stale \union {i \in Voted(items) : RecentVoters(i) # Voters(i)}
        BY <2>9 DEF RecountItems
      <3>2. Voted(items) \subseteq Items
        BY DEF Selections, Voted
      <3> QED
        BY <2>9, <3>1, <3>2, SumsAreIntegers DEF RecountItems, callVars
    <2>10. CASE RecountAccounts
      <3>1. PICK items \in Selections :
              LET ids == {Author[i] : i \in Voted(items)}
              IN /\ recount' = {<<id, 0>> : id \in ids}
                 /\ stale' = stale \union (ids \intersect Items)
        BY <2>10 DEF RecountAccounts
      <3>2. Voted(items) \subseteq Items
        BY DEF Selections, Voted
      <3> QED
        BY <2>10, <3>1, <3>2, ItemsAssumption DEF RecountAccounts, callVars
    <2>11. CASE WriteRecount
      BY <2>11 DEF WriteRecount, callVars
    <2>12. CASE AbortRecount
      BY <2>12 DEF AbortRecount, callVars
    <2>13. CASE Elapse
      BY <2>13 DEF Elapse, callVars
    <2>14. CASE UNCHANGED vars
      BY <2>14 DEF vars
    <2> QED
      BY <2>1, <2>3, <2>4, <2>5, <2>6, <2>7, <2>8, <2>9, <2>10, <2>11, <2>12,
         <2>13, <2>14 DEF Next, SaveVote
  <1> QED
    BY <1>1, <1>2, PTL DEF Spec
-----------------------------------------------------------------------------
(***************************************************************************)
(* The inductive invariant behind SettledScoreIsSum.  An item that is not  *)
(* stale has one goroutine at most between its vote and its score, and     *)
(* whatever is about to be written to its score, by that goroutine or by   *)
(* cli/votes, is the sum of the votes as they are now.                     *)
(***************************************************************************)
Undisturbed(i) ==
  /\ \A c, d \in Counting(i) : c = d
  /\ \A c \in Counting(i) : pc[c] = "summed" => sum[c] = ItemSum(i)
  /\ \A row \in recount : row[1] = i => row[2] = ItemSum(i)
  /\ Counting(i) = {} => score[i] = ItemSum(i)

ScoreInv == \A i \in Items : i \notin stale => Undisturbed(i)

\* The sum of an item depends on its own votes only.
LEMMA SumFrame ==
  ASSUME NEW i \in Items, votes'[i] = votes[i]
  PROVE  ItemSum(i)' = ItemSum(i)
  BY DEF ItemSum, Voters, Tally, Ups, Downs

\* A step that leaves the votes, the recounts and the score of an item alone,
\* and the goroutines that are counting its votes, leaves it undisturbed.
LEMMA UndisturbedFrame ==
  ASSUME NEW i \in Items, Undisturbed(i),
         votes'[i] = votes[i], score'[i] = score[i], recount' \subseteq recount,
         Counting(i)' = Counting(i),
         \A c \in Counting(i) : pc'[c] = pc[c] /\ sum'[c] = sum[c]
  PROVE  Undisturbed(i)'
  BY SumFrame DEF Undisturbed

\* saveVote writes a vote: the goroutine is then the only one counting, or the
\* item is stale.
LEMMA PutVoteKeepsScoreInv ==
  ASSUME TypeOK, ScoreInv, NEW c \in Calls, NEW w, pc[c] = "selected", PutVote(c, w)
  PROVE  ScoreInv'
  <1> DEFINE j == req[c].item
  <1>1. j \in Items
    BY DEF TypeOK, Requests
  <1> SUFFICES ASSUME NEW i \in Items, i \notin stale'
               PROVE  Undisturbed(i)'
    BY DEF ScoreInv
  <1>2. CASE i = j
    <2>1. Counting(i) = {} /\ ~Recounting(i)
      BY <1>2 DEF PutVote
    <2>2. Counting(i)' = {c}
      BY <1>2, <2>1 DEF Counting, PutVote, TypeOK
    <2>3. pc'[c] = "voted" /\ recount' = recount
      BY DEF PutVote, TypeOK
    <2> QED
      BY <2>1, <2>2, <2>3 DEF Undisturbed, Recounting
  <1>3. CASE i # j
    <2>1. i \notin stale
      BY <1>3 DEF PutVote
    <2>2. votes'[i] = votes[i]
      BY <1>3, <1>1 DEF PutVote, TypeOK
    <2>3. Counting(i)' = Counting(i)
      BY <1>3 DEF Counting, PutVote, TypeOK
    <2>4. c \notin Counting(i)
      BY DEF Counting
    <2> QED
      BY <2>1, <2>2, <2>3, <2>4, UndisturbedFrame DEF PutVote, ScoreInv, TypeOK, Counting
  <1> QED
    BY <1>2, <1>3

\* The goroutines, cli/votes and time preserve the invariant.
LEMMA StepKeepsScoreInv == TypeOK /\ ScoreInv /\ [Next]_vars => ScoreInv'
  <1> SUFFICES ASSUME TypeOK, ScoreInv, [Next]_vars
               PROVE  ScoreInv'
    OBVIOUS
  <1>1. ASSUME NEW c \in Calls, SelectVote(c)
        PROVE  ScoreInv'
    <2> SUFFICES ASSUME NEW i \in Items, i \notin stale'
                 PROVE  Undisturbed(i)'
      BY DEF ScoreInv
    <2>1. \A d \in Calls : d # c => req'[d] = req[d] /\ pc'[d] = pc[d]
      BY <1>1 DEF SelectVote, TypeOK
    <2>2. pc[c] = "idle" /\ pc'[c] = "selected"
      BY <1>1 DEF SelectVote, TypeOK
    <2>3. Counting(i)' = Counting(i) /\ c \notin Counting(i)
      BY <2>1, <2>2 DEF Counting
    <2> QED
      BY <1>1, <2>1, <2>3, UndisturbedFrame DEF SelectVote, ScoreInv, Counting
  <1>2. ASSUME NEW c \in Calls, UpdateVote(c)
        PROVE  ScoreInv'
    BY <1>2, PutVoteKeepsScoreInv DEF UpdateVote
  <1>3. ASSUME NEW c \in Calls, InsertVote(c)
        PROVE  ScoreInv'
    BY <1>3, PutVoteKeepsScoreInv DEF InsertVote
  <1>4. ASSUME NEW c \in Calls, InsertConflict(c)
        PROVE  ScoreInv'
    <2> SUFFICES ASSUME NEW i \in Items, i \notin stale'
                 PROVE  Undisturbed(i)'
      BY DEF ScoreInv
    <2>1. \A d \in Calls : d # c => /\ req'[d] = req[d] /\ pc'[d] = pc[d]
                                     /\ sum'[d] = sum[d]
      BY <1>4 DEF InsertConflict, Return, TypeOK
    <2>2. pc[c] = "selected" /\ pc'[c] = "idle"
      BY <1>4 DEF InsertConflict, Return, TypeOK
    <2>3. Counting(i)' = Counting(i) /\ c \notin Counting(i)
      BY <2>1, <2>2 DEF Counting
    <2> QED
      BY <1>4, <2>1, <2>3, UndisturbedFrame DEF InsertConflict, ScoreInv, Counting
  <1>5. ASSUME NEW c \in Calls, SumVotes(c)
        PROVE  ScoreInv'
    <2> SUFFICES ASSUME NEW i \in Items, i \notin stale'
                 PROVE  Undisturbed(i)'
      BY DEF ScoreInv
    <2>1. Undisturbed(i) /\ ItemSum(i)' = ItemSum(i)
      BY <1>5, SumFrame DEF SumVotes, ScoreInv
    <2>2. \A d \in Calls : d # c => pc'[d] = pc[d] /\ sum'[d] = sum[d]
      BY <1>5 DEF SumVotes, TypeOK
    <2>3. Counting(i)' = Counting(i)
      BY <1>5, <2>2 DEF SumVotes, Counting, TypeOK
    <2>4. c \in Counting(i) => sum'[c] = ItemSum(i)
      BY <1>5 DEF SumVotes, Counting, TypeOK
    <2>5. \A d \in Counting(i) : pc'[d] = "summed" => sum'[d] = ItemSum(i)
      BY <2>1, <2>2, <2>4 DEF Counting, Undisturbed
    <2> QED
      BY <1>5, <2>1, <2>3, <2>5 DEF Undisturbed, SumVotes
  <1>6. ASSUME NEW c \in Calls, StoreScore(c)
        PROVE  ScoreInv'
    <2> SUFFICES ASSUME NEW i \in Items, i \notin stale'
                 PROVE  Undisturbed(i)'
      BY DEF ScoreInv
    <2>1. Undisturbed(i) /\ ItemSum(i)' = ItemSum(i) /\ recount' = recount
      BY <1>6, SumFrame DEF StoreScore, ScoreInv
    <2>2. \A d \in Calls : d # c => /\ req'[d] = req[d] /\ pc'[d] = pc[d]
                                     /\ sum'[d] = sum[d]
      BY <1>6 DEF StoreScore, Return, TypeOK
    <2>3. pc'[c] = "idle"
      BY <1>6 DEF StoreScore, Return, TypeOK
    <2>4. CASE req[c].item = i
      <3>1. c \in Counting(i) /\ sum[c] = ItemSum(i)
        BY <1>6, <2>1, <2>4 DEF StoreScore, Counting, Undisturbed
      <3>2. Counting(i)' = {}
        BY <2>1, <2>2, <2>3, <3>1 DEF Counting, Undisturbed
      <3>3. score'[i] = ItemSum(i)
        BY <1>6, <2>4, <3>1 DEF StoreScore, TypeOK
      <3> QED
        BY <2>1, <3>2, <3>3 DEF Undisturbed
    <2>5. CASE req[c].item # i
      <3>1. Counting(i)' = Counting(i) /\ c \notin Counting(i)
        BY <2>2, <2>3, <2>5 DEF Counting
      <3>2. votes'[i] = votes[i] /\ score'[i] = score[i]
        BY <1>6, <2>5 DEF StoreScore, TypeOK
      <3> QED
        BY <2>1, <2>2, <3>1, <3>2, UndisturbedFrame DEF Counting
    <2> QED
      BY <2>4, <2>5
  <1>7. ASSUME NEW c \in Calls, Fail(c)
        PROVE  ScoreInv'
    <2> SUFFICES ASSUME NEW i \in Items, i \notin stale'
                 PROVE  Undisturbed(i)'
      BY DEF ScoreInv
    <2>1. \A d \in Calls : d # c => /\ req'[d] = req[d] /\ pc'[d] = pc[d]
                                     /\ sum'[d] = sum[d]
      BY <1>7 DEF Fail, Return, TypeOK
    <2>2. c \notin Counting(i) /\ i \notin stale
      BY <1>7 DEF Fail, Counting
    <2>3. pc'[c] = "idle"
      BY <1>7 DEF Fail, Return, TypeOK
    <2>4. Counting(i)' = Counting(i)
      BY <2>1, <2>2, <2>3 DEF Counting
    <2> QED
      BY <1>7, <2>1, <2>2, <2>4, UndisturbedFrame DEF Fail, ScoreInv, Counting
  <1>8. CASE RecountItems
    <2> SUFFICES ASSUME NEW i \in Items, i \notin stale'
                 PROVE  Undisturbed(i)'
      BY DEF ScoreInv
    <2>1. PICK items \in Selections :
            /\ recount' = {<<k, Tally(votes[k], RecentVoters(k))>> : k \in Voted(items)}
            /\ stale' = stale \union {k \in Voted(items) : RecentVoters(k) # Voters(k)}
      BY <1>8 DEF RecountItems
    <2>2. Undisturbed(i) /\ Counting(i)' = Counting(i) /\ ItemSum(i)' = ItemSum(i)
      BY <1>8, <2>1, SumFrame DEF RecountItems, callVars, ScoreInv, Counting
    <2>3. i \in Voted(items) => RecentVoters(i) = Voters(i)
      BY <2>1
    <2>4. \A row \in recount' : row[1] = i => row[2] = ItemSum(i)
      BY <2>1, <2>3 DEF ItemSum
    <2> QED
      BY <1>8, <2>2, <2>4 DEF RecountItems, callVars, Undisturbed
  <1>9. CASE RecountAccounts
    <2> SUFFICES ASSUME NEW i \in Items, i \notin stale'
                 PROVE  Undisturbed(i)'
      BY DEF ScoreInv
    <2>1. PICK items \in Selections :
            LET ids == {Author[k] : k \in Voted(items)}
            IN /\ recount' = {<<id, 0>> : id \in ids}
               /\ stale' = stale \union (ids \intersect Items)
      BY <1>9 DEF RecountAccounts
    <2>2. Undisturbed(i) /\ Counting(i)' = Counting(i) /\ ItemSum(i)' = ItemSum(i)
      BY <1>9, <2>1, SumFrame DEF RecountAccounts, callVars, ScoreInv, Counting
    <2>3. \A row \in recount' : row[1] # i
      BY <2>1
    <2> QED
      BY <1>9, <2>2, <2>3 DEF RecountAccounts, callVars, Undisturbed
  <1>10. CASE WriteRecount
    <2> SUFFICES ASSUME NEW i \in Items, i \notin stale'
                 PROVE  Undisturbed(i)'
      BY DEF ScoreInv
    <2>1. PICK row \in recount :
            /\ recount' = recount \ {row}
            /\ score' = [k \in Items |-> IF k = row[1] THEN row[2] ELSE score[k]]
      BY <1>10 DEF WriteRecount
    <2>2. Undisturbed(i) /\ Counting(i)' = Counting(i) /\ ItemSum(i)' = ItemSum(i)
      BY <1>10, SumFrame DEF WriteRecount, callVars, ScoreInv, Counting
    <2>3. Counting(i) = {} => score'[i] = ItemSum(i)
      BY <2>1, <2>2 DEF Undisturbed
    <2> QED
      BY <1>10, <2>1, <2>2, <2>3 DEF WriteRecount, callVars, Undisturbed
  <1>11. CASE AbortRecount \/ Elapse \/ UNCHANGED vars
    <2> SUFFICES ASSUME NEW i \in Items, i \notin stale'
                 PROVE  Undisturbed(i)'
      BY DEF ScoreInv
    <2>1. /\ votes' = votes /\ score' = score /\ recount' \subseteq recount
          /\ pc' = pc /\ sum' = sum /\ req' = req /\ stale' = stale
      BY <1>11 DEF AbortRecount, Elapse, vars, callVars
    <2>2. Counting(i)' = Counting(i)
      BY <2>1 DEF Counting
    <2> QED
      BY <2>1, <2>2, UndisturbedFrame DEF ScoreInv
  <1> QED
    BY <1>1, <1>2, <1>3, <1>4, <1>5, <1>6, <1>7, <1>8, <1>9, <1>10, <1>11
       DEF Next, SaveVote

\* A score that no race, failure or partial recount has touched is the sum of
\* the votes on its item (saveVote and UpdateScores together).
THEOREM ScoreCorrect == Spec => []SettledScoreIsSum
  <1>1. Init => ScoreInv
    <2> SUFFICES ASSUME Init, NEW i \in Items
                 PROVE  Undisturbed(i)
      BY DEF ScoreInv
    <2>1. Counting(i) = {} /\ Voters(i) = {}
      BY DEF Init, Counting, Voters
    <2>2. ItemSum(i) = 0
      <3>1. \A row : Ups(row, {}) = Cardinality({}) /\ Downs(row, {}) = Cardinality({})
        BY DEF Ups, Downs
      <3> QED
        BY <2>1, <3>1, FS_EmptySet DEF ItemSum, Tally
    <2> QED
      BY <2>1, <2>2 DEF Undisturbed, Init
  <1>2. ScoreInv => SettledScoreIsSum
    BY DEF ScoreInv, Undisturbed, SettledScoreIsSum
  <1> QED
    BY <1>1, <1>2, StepKeepsScoreInv, TypeCorrect, PTL DEF Spec
-----------------------------------------------------------------------------
(***************************************************************************)
(* The bound on scores.  Every sum that is on its way to a score was taken *)
(* over accounts that have a row in votes, and rows are never deleted.     *)
(***************************************************************************)
Within(n, i) == -Cardinality(Voters(i)) <= n /\ n <= Cardinality(Voters(i))

RangeInv ==
  /\ \A i \in Items : RecentVoters(i) \subseteq Voters(i)
  /\ \A i \in Items : Within(score[i], i)
  /\ \A c \in Calls : pc[c] = "summed" => Within(sum[c], req[c].item)
  /\ \A row \in recount : row[1] \in Items => Within(row[2], row[1])

\* A sum over all voters of an item, or over the recent ones, is within range.
LEMMA SumsWithin ==
  ASSUME RangeInv, NEW i \in Items
  PROVE  /\ Within(ItemSum(i), i)
         /\ Within(Tally(votes[i], RecentVoters(i)), i)
         /\ Within(0, i)
  <1>1. IsFiniteSet(Voters(i)) /\ IsFiniteSet(RecentVoters(i))
    BY FiniteVoters
  <1>2. Cardinality(RecentVoters(i)) <= Cardinality(Voters(i))
    BY <1>1, FS_Subset DEF RangeInv
  <1>3. Cardinality(Voters(i)) \in Nat /\ Within(ItemSum(i), i)
    BY <1>1, TallyBounds DEF Within, ItemSum
  <1>4. /\ Cardinality(RecentVoters(i)) \in Nat
        /\ Tally(votes[i], RecentVoters(i)) \in Int
        /\ -Cardinality(RecentVoters(i)) <= Tally(votes[i], RecentVoters(i))
        /\ Tally(votes[i], RecentVoters(i)) <= Cardinality(RecentVoters(i))
    BY <1>1, TallyBounds
  <1> QED
    BY <1>2, <1>3, <1>4 DEF Within

\* A number within range stays so when the item gains voters.
LEMMA WithinGrows ==
  ASSUME NEW n \in Int, NEW i, Within(n, i), Voters(i) \subseteq Voters(i)'
  PROVE  Within(n, i)'
  <1>1. IsFiniteSet(Voters(i)) /\ IsFiniteSet(Voters(i)')
    BY AccountsAssumption, FS_Subset DEF Voters
  <1>2. Cardinality(Voters(i)) <= Cardinality(Voters(i)')
    BY <1>1, FS_Subset
  <1>3. Cardinality(Voters(i)) \in Nat /\ Cardinality(Voters(i)') \in Nat
    BY <1>1, FS_CardinalityType
  <1> QED
    BY <1>2, <1>3 DEF Within

\* saveVote writes a vote: the voters of its item grow and nothing that is
\* already summed changes.
LEMMA PutVoteKeepsRange ==
  ASSUME TypeOK, RangeInv, NEW c \in Calls, NEW w \in Weights,
         pc[c] = "selected", PutVote(c, w)
  PROVE  RangeInv'
  <1> DEFINE j == req[c].item
             b == req[c].voter
  <1>1. j \in Items /\ b \in Accounts /\ w # NoVote
    BY SentinelsAssumption DEF TypeOK, Requests, Weights
  <1>2. /\ votes' = [votes EXCEPT ![j][b] = w]
        /\ recent' = recent \union {<<j, b>>}
        /\ pc' = [pc EXCEPT ![c] = "voted"]
        /\ score' = score /\ sum' = sum /\ req' = req /\ recount' = recount
    BY DEF PutVote
  <1>3. ASSUME NEW i \in Items
        PROVE  /\ Voters(i) \subseteq Voters(i)'
               /\ RecentVoters(i)' \subseteq Voters(i)'
    <2>1. \A a \in Accounts :
            votes'[i][a] = IF i = j /\ a = b THEN w ELSE votes[i][a]
      BY <1>1, <1>2 DEF TypeOK
    <2>2. Voters(i) \subseteq Voters(i)' /\ (i = j => b \in Voters(i)')
      BY <1>1, <2>1 DEF Voters
    <2>3. \A a \in RecentVoters(i)' : a \in RecentVoters(i) \/ (i = j /\ a = b)
      BY <1>2 DEF RecentVoters
    <2> QED
      BY <2>2, <2>3 DEF RangeInv
  <1>4. \A i \in Items : Within(score[i], i)'
    BY <1>2, <1>3, WithinGrows DEF RangeInv, TypeOK
  <1>5. ASSUME NEW d \in Calls, pc'[d] = "summed"
        PROVE  Within(sum[d], req[d].item)'
    <2>1. pc[d] = "summed"
      BY <1>2, <1>5 DEF TypeOK
    <2>2. req[d].item \in Items
      <3>1. req[d] \in Requests
        BY <2>1 DEF TypeOK
      <3> QED
        BY <3>1 DEF Requests
    <2>3. PICK k \in Items, n \in Int : k = req[d].item /\ n = sum[d]
      BY <2>2 DEF TypeOK
    <2>4. Within(n, k)'
      BY <1>3, <2>1, <2>3, WithinGrows DEF RangeInv
    <2> QED
      BY <1>2, <2>3, <2>4
  <1>6. ASSUME NEW row \in recount, row[1] \in Items
        PROVE  Within(row[2], row[1])'
    BY <1>3, <1>6, WithinGrows DEF RangeInv, TypeOK
  <1> QED
    BY <1>2, <1>3, <1>4, <1>5, <1>6 DEF RangeInv

\* The goroutines, cli/votes and time preserve the bounds.
LEMMA StepKeepsRange == TypeOK /\ RangeInv /\ [Next]_vars => RangeInv'
  <1> SUFFICES ASSUME TypeOK, RangeInv, [Next]_vars
               PROVE  RangeInv'
    OBVIOUS
  <1>1. ASSUME NEW c \in Calls, UpdateVote(c)
        PROVE  RangeInv'
    <2>1. req[c] \in Requests /\ old[c] \in Weights
      BY <1>1 DEF UpdateVote, TypeOK
    <2>2. NewWeight(old[c], req[c].weight) \in Weights
      BY <2>1 DEF NewWeight, Requests, Weights
    <2> QED
      BY <1>1, <2>2, PutVoteKeepsRange DEF UpdateVote
  <1>2. ASSUME NEW c \in Calls, InsertVote(c)
        PROVE  RangeInv'
    <2>1. req[c].weight \in Weights
      BY <1>2 DEF InsertVote, TypeOK, Requests
    <2> QED
      BY <1>2, <2>1, PutVoteKeepsRange DEF InsertVote
  <1>3. ASSUME votes' = votes, recent' \subseteq recent,
               \A i \in Items : Within(score'[i], i),
               \A c \in Calls : pc'[c] = "summed" => Within(sum'[c], req'[c].item),
               \A row \in recount' : row[1] \in Items => Within(row[2], row[1])
        PROVE  RangeInv'
    <2>1. \A i : Voters(i)' = Voters(i)
      BY <1>3 DEF Voters
    <2>2. \A i : RecentVoters(i)' \subseteq RecentVoters(i)
      BY <1>3 DEF RecentVoters
    <2> QED
      BY <1>3, <2>1, <2>2 DEF RangeInv, Within
  <1>4. ASSUME NEW c \in Calls,
               SelectVote(c) \/ InsertConflict(c) \/ Fail(c)
        PROVE  RangeInv'
    <2>1. \A d \in Calls : pc'[d] = "summed" => /\ pc[d] = "summed" /\ sum'[d] = sum[d]
                                                /\ req'[d] = req[d]
      BY <1>4 DEF SelectVote, InsertConflict, Fail, Return, TypeOK
    <2>2. votes' = votes /\ recent' = recent /\ score' = score /\ recount' = recount
      BY <1>4 DEF SelectVote, InsertConflict, Fail
    <2> QED
      BY <1>3, <2>1, <2>2 DEF RangeInv
  <1>5. ASSUME NEW c \in Calls, SumVotes(c)
        PROVE  RangeInv'
    <2>1. req[c].item \in Items
      <3>1. req[c] \in Requests
        BY <1>5 DEF SumVotes, TypeOK
      <3> QED
        BY <3>1 DEF Requests
    <2>2. Within(ItemSum(req[c].item), req[c].item)
      BY <2>1, SumsWithin
    <2>3. \A d \in Calls : pc'[d] = "summed" => Within(sum'[d], req'[d].item)
      BY <1>5, <2>2 DEF SumVotes, TypeOK, RangeInv
    <2> QED
      BY <1>3, <1>5, <2>3 DEF SumVotes, RangeInv
  <1>6. ASSUME NEW c \in Calls, StoreScore(c)
        PROVE  RangeInv'
    <2>1. \A i \in Items : Within(score'[i], i)
      BY <1>6 DEF StoreScore, TypeOK, RangeInv
    <2>2. \A d \in Calls : pc'[d] = "summed" => /\ pc[d] = "summed" /\ sum'[d] = sum[d]
                                                /\ req'[d] = req[d]
      BY <1>6 DEF StoreScore, Return, TypeOK
    <2> QED
      BY <1>3, <1>6, <2>1, <2>2 DEF StoreScore, RangeInv
  <1>7. CASE RecountItems
    <2>1. PICK items \in Selections :
            recount' = {<<k, Tally(votes[k], RecentVoters(k))>> : k \in Voted(items)}
      BY <1>7 DEF RecountItems
    <2>2. Voted(items) \subseteq Items
      BY DEF Selections, Voted
    <2>3. \A row \in recount' : Within(row[2], row[1])
      BY <2>1, <2>2, SumsWithin
    <2> QED
      BY <1>3, <1>7, <2>3 DEF RecountItems, callVars, RangeInv
  <1>8. CASE RecountAccounts
    <2>1. PICK items \in Selections :
            LET ids == {Author[k] : k \in Voted(items)}
            IN recount' = {<<id, 0>> : id \in ids}
      BY <1>8 DEF RecountAccounts
    <2>2. \A row \in recount' : row[1] \in Items => Within(row[2], row[1])
      BY <2>1, SumsWithin
    <2> QED
      BY <1>3, <1>8, <2>2 DEF RecountAccounts, callVars, RangeInv
  <1>9. CASE WriteRecount
    <2>1. PICK row \in recount :
            /\ recount' = recount \ {row}
            /\ score' = [k \in Items |-> IF k = row[1] THEN row[2] ELSE score[k]]
      BY <1>9 DEF WriteRecount
    <2>2. \A i \in Items : Within(score'[i], i)
      BY <2>1 DEF RangeInv
    <2> QED
      BY <1>3, <1>9, <2>1, <2>2 DEF WriteRecount, callVars, RangeInv
  <1>10. CASE AbortRecount \/ Elapse \/ UNCHANGED vars
    BY <1>3, <1>10 DEF AbortRecount, Elapse, vars, callVars, RangeInv
  <1> QED
    BY <1>1, <1>2, <1>4, <1>5, <1>6, <1>7, <1>8, <1>9, <1>10 DEF Next, SaveVote

\* No interleaving of calls, failures and recounts takes a score beyond the
\* number of accounts that voted on the item.
THEOREM ScoreBounded == Spec => []ScoreInRange
  <1>1. Init => RangeInv
    <2> SUFFICES ASSUME Init
                 PROVE  RangeInv
      OBVIOUS
    <2>1. \A i \in Items : Voters(i) = {} /\ RecentVoters(i) = {}
      BY DEF Init, Voters, RecentVoters
    <2>2. \A i \in Items : Within(score[i], i)
      BY <2>1, FS_EmptySet DEF Within, Init
    <2> QED
      BY <2>1, <2>2 DEF RangeInv, Init
  <1>2. RangeInv => ScoreInRange
    BY DEF RangeInv, ScoreInRange, Within
  <1> QED
    BY <1>1, <1>2, StepKeepsRange, TypeCorrect, PTL DEF Spec
-----------------------------------------------------------------------------
\* A call that was overtaken casts its vote on the one it selected.
SupersededCast == \E c \in Calls : Superseded(c) /\ Board!CastOn(c, old[c])

\* Each step of VoteStore is a step of VoteBoard, a cast that was overtaken, or
\* leaves the variables of VoteBoard alone.
LEMMA StepImplementsBoard ==
  TypeOK /\ [Next]_vars => [Board!BoardNext \/ SupersededCast]_(Board!boardVars)
  <1> SUFFICES ASSUME TypeOK, [Next]_vars
               PROVE  [Board!BoardNext \/ SupersededCast]_(Board!boardVars)
    OBVIOUS
  <1> DEFINE cast == {c \in Calls : pc[c] \in {"voted", "summed"}}
  <1> USE DEF Board!BoardNext, Board!boardVars
  <1>1. ASSUME NEW c \in Calls, NEW w, pc[c] = "selected", PutVote(c, w)
        PROVE  /\ req[c] # NoRequest /\ c \notin cast
               /\ votes' = [votes EXCEPT ![req[c].item][req[c].voter] = w]
               /\ cast' = cast \union {c} /\ req' = req
    BY <1>1 DEF PutVote, TypeOK
  <1>2. ASSUME NEW c \in Calls, UpdateVote(c)
        PROVE  Board!Cast(c) \/ SupersededCast
    <2>1. pc[c] = "selected" /\ PutVote(c, NewWeight(old[c], req[c].weight))
      BY <1>2 DEF UpdateVote
    <2>2. Board!CastOn(c, old[c])
      BY <1>1, <2>1 DEF NewWeight, ToggleOff, Board!CastOn
    <2>3. CASE old[c] = votes[req[c].item][req[c].voter]
      BY <2>2, <2>3 DEF Board!Cast, Board!CastOn
    <2>4. CASE old[c] # votes[req[c].item][req[c].voter]
      BY <1>2, <2>2, <2>4 DEF UpdateVote, Superseded, SupersededCast
    <2> QED
      BY <2>3, <2>4
  <1>3. ASSUME NEW c \in Calls, InsertVote(c)
        PROVE  Board!Cast(c)
    <2>1. /\ pc[c] = "selected" /\ PutVote(c, req[c].weight)
          /\ votes[req[c].item][req[c].voter] = NoVote
      BY <1>3 DEF InsertVote
    <2>2. req[c] \in Requests
      BY <2>1 DEF TypeOK
    <2>3. req[c].weight # NoVote
      BY <2>2, SentinelsAssumption DEF Requests, Weights
    <2>4. Board!CastOn(c, NoVote)
      BY <1>1, <2>1, <2>3 DEF Board!CastOn
    <2> QED
      BY <2>1, <2>4 DEF Board!Cast, Board!CastOn
  <1>4. ASSUME NEW c \in Calls, SelectVote(c)
        PROVE  Board!Ask(c)
    <2>1. req[c] = NoRequest
      BY <1>4 DEF SelectVote, TypeOK
    <2>2. cast' = cast /\ votes' = votes
      BY <1>4 DEF SelectVote, TypeOK
    <2>3. PICK i \in Items, a \in SpeaksFor[c], w \in Board!Directions :
            req' = [req EXCEPT ![c] = [item |-> i, voter |-> a, weight |-> w]]
      BY <1>4 DEF SelectVote, Weights, Board!Directions
    <2> QED
      BY <2>1, <2>2, <2>3 DEF Board!Ask
  <1>5. ASSUME NEW c \in Calls, InsertConflict(c) \/ StoreScore(c) \/ Fail(c)
        PROVE  Board!Leave(c)
    <2>1. votes' = votes /\ Return(c) /\ req[c] # NoRequest
      BY <1>5 DEF InsertConflict, StoreScore, Fail, TypeOK
    <2>2. cast' = cast \ {c}
      BY <2>1 DEF Return, TypeOK
    <2> QED
      BY <2>1, <2>2 DEF Return, Board!Leave
  <1>6. ASSUME NEW c \in Calls, SumVotes(c)
        PROVE  UNCHANGED Board!boardVars
    <2>1. cast' = cast
      BY <1>6 DEF SumVotes, TypeOK
    <2> QED
      BY <1>6, <2>1 DEF SumVotes
  <1>7. CASE RecountItems \/ RecountAccounts \/ WriteRecount \/ AbortRecount
             \/ Elapse \/ UNCHANGED vars
    <2>1. votes' = votes /\ req' = req /\ pc' = pc
      BY <1>7 DEF RecountItems, RecountAccounts, WriteRecount, AbortRecount, Elapse,
                  vars, callVars
    <2> QED
      BY <2>1
  <1> QED
    BY <1>2, <1>3, <1>4, <1>5, <1>6, <1>7 DEF Next, SaveVote

\* saveVote behaves as a single indivisible cast of each vote, on the vote that
\* is recorded at that moment, or on the one it selected when it was overtaken
\* by another vote of the account: for any goroutines, accounts and items.
THEOREM VotesImplementBoard == Spec => VotesAreAtomic
  <1>1. Init => Board!BoardInit
    BY DEF Init, Board!BoardInit
  <1>2. TypeOK /\ [Next]_vars =>
          [Board!BoardNext \/ \E c \in Calls : Superseded(c) /\ Board!CastOn(c, old[c])
          ]_(Board!boardVars)
    BY StepImplementsBoard DEF SupersededCast
  <1> QED
    BY <1>1, <1>2, TypeCorrect, PTL DEF Spec, VotesAreAtomic

\* No account has two goroutines voting for it.
OneVoiceEach == \A c, d \in Calls : c # d => SpeaksFor[c] \intersect SpeaksFor[d] = {}

\* Then the row a goroutine selected is still the one recorded when it writes.
SelectedInv ==
  \A c \in Calls :
    /\ req[c] # NoRequest => req[c].voter \in SpeaksFor[c]
    /\ ~Superseded(c)

\* A write by one goroutine leaves the rows the others have selected alone.
LEMMA PutVoteKeepsSelected ==
  ASSUME OneVoiceEach, TypeOK, SelectedInv,
         NEW c \in Calls, NEW w, pc[c] = "selected", PutVote(c, w)
  PROVE  SelectedInv'
  <1>1. /\ votes' = [votes EXCEPT ![req[c].item][req[c].voter] = w]
        /\ pc' = [pc EXCEPT ![c] = "voted"] /\ req' = req /\ old' = old
    BY DEF PutVote
  <1>2. req[c] # NoRequest /\ req[c].voter \in SpeaksFor[c]
    BY DEF TypeOK, SelectedInv, Superseded
  <1> SUFFICES ASSUME NEW d \in Calls, pc'[d] = "selected", old[d] # NoVote
               PROVE  old[d] = votes'[req[d].item][req[d].voter]
    BY <1>1 DEF SelectedInv, Superseded
  <1>3. d # c /\ pc[d] = "selected"
    BY <1>1 DEF TypeOK
  <1>4. req[d] \in Requests /\ req[d].voter \in SpeaksFor[d]
    BY <1>3 DEF TypeOK, SelectedInv, Superseded
  <1>5. req[d].item \in Items /\ req[d].voter \in Accounts /\ req[d].voter # req[c].voter
    BY <1>2, <1>3, <1>4 DEF Requests, OneVoiceEach
  <1>6. votes'[req[d].item][req[d].voter] = votes[req[d].item][req[d].voter]
    BY <1>1, <1>5 DEF TypeOK
  <1> QED
    BY <1>3, <1>6 DEF SelectedInv, Superseded

LEMMA StepKeepsSelected ==
  ASSUME OneVoiceEach
  PROVE  TypeOK /\ SelectedInv /\ [Next]_vars => SelectedInv'
  <1> SUFFICES ASSUME TypeOK, SelectedInv, [Next]_vars
               PROVE  SelectedInv'
    OBVIOUS
  <1>1. ASSUME NEW c \in Calls, UpdateVote(c) \/ InsertVote(c)
        PROVE  SelectedInv'
    BY <1>1, PutVoteKeepsSelected DEF UpdateVote, InsertVote
  <1>2. ASSUME NEW c \in Calls, SelectVote(c)
        PROVE  SelectedInv'
    <2>1. PICK i \in Items, a \in SpeaksFor[c], w \in Weights :
            /\ req' = [req EXCEPT ![c] = [item |-> i, voter |-> a, weight |-> w]]
            /\ \E row \in {votes[i][a], NoVote} : old' = [old EXCEPT ![c] = row]
      BY <1>2 DEF SelectVote
    <2>2. votes' = votes /\ pc' = [pc EXCEPT ![c] = "selected"]
      BY <1>2 DEF SelectVote
    <2>3. /\ req'[c].item = i /\ req'[c].voter = a
          /\ old'[c] # NoVote => old'[c] = votes[i][a]
      BY <2>1 DEF TypeOK
    <2>4. \A d \in Calls : d # c => req'[d] = req[d] /\ old'[d] = old[d] /\ pc'[d] = pc[d]
      BY <2>1, <2>2 DEF TypeOK
    <2> QED
      BY <2>2, <2>3, <2>4 DEF SelectedInv, Superseded
  <1>3. ASSUME NEW c \in Calls,
               InsertConflict(c) \/ StoreScore(c) \/ Fail(c)
        PROVE  SelectedInv'
    <2>1. votes' = votes /\ Return(c)
      BY <1>3 DEF InsertConflict, StoreScore, Fail
    <2>2. pc'[c] = "idle" /\ req'[c] = NoRequest
      BY <2>1 DEF Return, TypeOK
    <2>3. \A d \in Calls : d # c => req'[d] = req[d] /\ old'[d] = old[d] /\ pc'[d] = pc[d]
      BY <2>1 DEF Return, TypeOK
    <2> QED
      BY <2>1, <2>2, <2>3 DEF SelectedInv, Superseded
  <1>4. ASSUME NEW c \in Calls, SumVotes(c)
        PROVE  SelectedInv'
    BY <1>4 DEF SumVotes, SelectedInv, Superseded, TypeOK
  <1>5. CASE RecountItems \/ RecountAccounts \/ WriteRecount \/ AbortRecount
             \/ Elapse \/ UNCHANGED vars
    BY <1>5 DEF RecountItems, RecountAccounts, WriteRecount, AbortRecount, Elapse,
                vars, callVars, SelectedInv, Superseded
  <1> QED
    BY <1>1, <1>2, <1>3, <1>4, <1>5 DEF Next, SaveVote

\* With one goroutine at most for each account no call is overtaken, and saveVote
\* implements VoteBoard as it is.
THEOREM OneVoiceIsAtomic ==
  ASSUME OneVoiceEach
  PROVE  Spec => Board!BoardSpec
  <1>1. Init => Board!BoardInit /\ SelectedInv
    BY DEF Init, Board!BoardInit, SelectedInv, Superseded
  <1>2. /\ TypeOK /\ SelectedInv /\ [Next]_vars
        => SelectedInv' /\ [Board!BoardNext]_(Board!boardVars)
    BY StepKeepsSelected, StepImplementsBoard DEF SelectedInv, SupersededCast
  <1> QED
    BY <1>1, <1>2, TypeCorrect, PTL DEF Spec, Board!BoardSpec
-----------------------------------------------------------------------------
(***************************************************************************)
(* Votes from pages.  A click that nothing overtook knows the vote of its  *)
(* account as it still is, or nothing of it; so does the request it posts. *)
(***************************************************************************)
ClickInv ==
  \A c \in Calls : click[c] # NoClick =>
    LET was == votes[click[c].item][click[c].voter]
    IN /\ pc[c] \in {"idle", "selected"}
       /\ pc[c] = "selected" =>
            req[c] = [item |-> click[c].item, voter |-> click[c].voter,
                      weight |-> click[c].sent]
       /\ click[c].quiet =>
            /\ click[c].sent \in {Activity(was, click[c].weight), click[c].weight}
            /\ pc[c] = "selected" => old[c] \in {was, NoVote}

\* A step of the pages is a step of the store or leaves it.
LEMMA VotingStepImplements ==
  ASSUME [VotingNext]_votingVars
  PROVE  [Next]_vars
BY DEF VotingNext, votingVars, Click, PostVote, LoseClick, ReceiveVote, RecordVote,
       FinishVote, Recount, Next, SaveVote

\* The votes from pages implement the vote store, so that its theorems hold of
\* them: a page cannot make a score wrong.
THEOREM VotingImplementsStore == VotingSpec => Spec
<1>1. VotingInit => Init
  BY DEF VotingInit
<1> QED
  BY <1>1, VotingStepImplements, PTL DEF VotingSpec, Spec

\* What clicks are, once a vote was recorded or a click made.
LEMMA ClickTypes ==
  ASSUME VotingTypeOK, [VotingNext]_votingVars
  PROVE  click' \in [Calls -> Clicks \union {NoClick}]
<1> USE DEF VotingTypeOK
<1>1. ASSUME NEW c \in Calls, Click(c)
      PROVE  click' \in [Calls -> Clicks \union {NoClick}]
  <2>1. PICK i \in Items, a \in SpeaksFor[c] \cap Readers, w \in {-1, 1} :
          \E exists \in {votes[i][a], NoVote} :
             click' = [click EXCEPT ![c] = [item |-> i, voter |-> a, weight |-> w,
                                            sent |-> Activity(exists, w),
                                            quiet |-> TRUE]]
    BY <1>1 DEF Click
  <2>2. PICK exists \in {votes[i][a], NoVote} :
          click' = [click EXCEPT ![c] = [item |-> i, voter |-> a, weight |-> w,
                                         sent |-> Activity(exists, w),
                                         quiet |-> TRUE]]
    BY <2>1
  <2>3. Activity(exists, w) \in Weights
    BY DEF Activity, Weights
  <2> QED
    BY <2>2, <2>3 DEF Clicks
<1>2. ASSUME NEW c \in Calls, RecordVote(c)
      PROVE  click' \in [Calls -> Clicks \union {NoClick}]
  <2>1. \A d \in Calls : click'[d] \in {NoClick, click[d], [click[d] EXCEPT !.quiet = FALSE]}
    BY <1>2 DEF RecordVote
  <2>2. ASSUME NEW d \in Calls, click'[d] # NoClick, click'[d] # click[d]
        PROVE  click[d] # NoClick
    BY <1>2, <2>2 DEF RecordVote
  <2>3. ASSUME NEW d \in Calls
        PROVE  click'[d] \in Clicks \union {NoClick}
    <3>1. CASE click'[d] \in {NoClick, click[d]}
      BY <3>1
    <3>2. CASE click'[d] \notin {NoClick, click[d]}
      <4>1. click[d] \in Clicks
        BY <2>2, <3>2
      <4>2. [click[d] EXCEPT !.quiet = FALSE] \in Clicks
        BY <4>1 DEF Clicks
      <4> QED
        BY <2>1, <3>2, <4>2
    <3> QED
      BY <3>1, <3>2
  <2>4. click' = [d \in Calls |-> click'[d]]
    BY <1>2 DEF RecordVote
  <2> QED
    BY <2>3, <2>4
<1>3. ASSUME NEW c \in Calls, PostVote(c) \/ LoseClick(c) \/ ReceiveVote(c) \/ FinishVote(c)
      PROVE  click' \in [Calls -> Clicks \union {NoClick}]
  BY <1>3 DEF PostVote, LoseClick, ReceiveVote, FinishVote
<1>4. CASE Recount \/ UNCHANGED votingVars
  BY <1>4 DEF Recount, votingVars
<1> QED
  BY <1>1, <1>2, <1>3, <1>4 DEF VotingNext

\* Type correctness, with the pages.
THEOREM VotingTypeCorrect == VotingSpec => []VotingTypeOK
<1>1. VotingInit => VotingTypeOK
  BY DEF VotingInit, VotingTypeOK, Init, TypeOK
<1>2. TypeOK' /\ VotingTypeOK /\ [VotingNext]_votingVars => VotingTypeOK'
  BY ClickTypes DEF VotingTypeOK
<1> QED
  BY <1>1, <1>2, VotingImplementsStore, TypeCorrect, PTL DEF VotingSpec

\* A vote is written for the item and the account of the request alone.
LEMMA RecordedVote ==
  ASSUME TypeOK, NEW c \in Calls, UpdateVote(c) \/ InsertVote(c)
  PROVE  /\ req[c].item \in Items /\ req[c].voter \in Accounts
         /\ pc[c] = "selected" /\ pc' = [pc EXCEPT ![c] = "voted"]
         /\ UNCHANGED <<req, old>>
         /\ \A i \in Items, a \in Accounts :
              <<i, a>> # <<req[c].item, req[c].voter>> => votes'[i][a] = votes[i][a]
         /\ votes'[req[c].item][req[c].voter] =
              IF old[c] # NoVote THEN NewWeight(old[c], req[c].weight) ELSE req[c].weight
         /\ old[c] = NoVote => votes[req[c].item][req[c].voter] = NoVote
<1>1. req[c] \in Requests
  BY DEF TypeOK, UpdateVote, InsertVote
<1>2. req[c].item \in Items /\ req[c].voter \in Accounts
  BY <1>1 DEF Requests
<1> QED
  BY <1>2 DEF TypeOK, UpdateVote, InsertVote, PutVote

\* The invariant of the clicks is inductive.
LEMMA StepKeepsClickInv ==
  ASSUME VotingTypeOK, ClickInv, [VotingNext]_votingVars
  PROVE  ClickInv'
<1> USE DEF VotingTypeOK, ClickInv
<1>0. \A c \in Calls : click[c] # NoClick => click[c].item \in Items /\ click[c].voter \in Accounts
  BY ClickAssumption DEF Clicks
<1>1. ASSUME NEW c \in Calls, Click(c)
      PROVE  ClickInv'
  <2>1. PICK i \in Items, a \in SpeaksFor[c] \cap Readers, w \in {-1, 1} :
          \E exists \in {votes[i][a], NoVote} :
             click' = [click EXCEPT ![c] = [item |-> i, voter |-> a, weight |-> w,
                                            sent |-> Activity(exists, w),
                                            quiet |-> TRUE]]
    BY <1>1 DEF Click
  <2>2. PICK exists \in {votes[i][a], NoVote} :
          click' = [click EXCEPT ![c] = [item |-> i, voter |-> a, weight |-> w,
                                         sent |-> Activity(exists, w),
                                         quiet |-> TRUE]]
    BY <2>1
  <2>3. Activity(exists, w) \in {Activity(votes[i][a], w), w}
    BY SentinelsAssumption DEF Activity
  <2> QED
    BY <1>1, <2>2, <2>3 DEF Click, vars
<1>2. ASSUME NEW c \in Calls, PostVote(c)
      PROVE  ClickInv'
  <2>1. PICK i \in Items, a \in SpeaksFor[c], w \in Weights :
          /\ req' = [req EXCEPT ![c] = [item |-> i, voter |-> a, weight |-> w]]
          /\ \E row \in {votes[i][a], NoVote} : old' = [old EXCEPT ![c] = row]
    BY <1>2 DEF PostVote, SelectVote
  <2>2. req'[c] = [item |-> i, voter |-> a, weight |-> w]
    BY <2>1 DEF TypeOK
  <2>3. i = click[c].item /\ a = click[c].voter
    BY <1>2, <2>2 DEF PostVote
  <2> QED
    BY <1>2, <2>1, <2>3 DEF PostVote, SelectVote, TypeOK
<1>3. ASSUME NEW c \in Calls, RecordVote(c)
      PROVE  ClickInv'
  <2>1. UpdateVote(c) \/ InsertVote(c)
    BY <1>3 DEF RecordVote
  <2>2. ASSUME NEW d \in Calls, click'[d] # NoClick
        PROVE  /\ d # c /\ click[d] # NoClick
               /\ click'[d].item = click[d].item /\ click'[d].voter = click[d].voter
               /\ click'[d].weight = click[d].weight /\ click'[d].sent = click[d].sent
               /\ click'[d].quiet => /\ click[d].quiet
                                     /\ <<click[d].item, click[d].voter>>
                                          # <<req[c].item, req[c].voter>>
    <3>1. d # c /\ click[d] # NoClick
      BY <1>3, <2>2 DEF RecordVote
    <3>2. click[d] \in Clicks
      BY <3>1
    <3>3. CASE click[d].item = req[c].item /\ click[d].voter = req[c].voter
      <4>1. click'[d] = [click[d] EXCEPT !.quiet = FALSE]
        BY <1>3, <3>1, <3>3 DEF RecordVote
      <4> QED
        BY <3>1, <3>2, <4>1 DEF Clicks
    <3>4. CASE ~(click[d].item = req[c].item /\ click[d].voter = req[c].voter)
      <4>1. click'[d] = click[d]
        BY <1>3, <3>1, <3>4 DEF RecordVote
      <4> QED
        BY <3>1, <3>4, <4>1
    <3> QED
      BY <3>3, <3>4
  <2>3. ASSUME NEW d \in Calls, click'[d] # NoClick
        PROVE  /\ pc'[d] = pc[d] /\ req'[d] = req[d] /\ old'[d] = old[d]
               /\ click'[d].quiet => votes'[click[d].item][click[d].voter] =
                                       votes[click[d].item][click[d].voter]
    BY <1>0, <2>1, <2>2, <2>3, RecordedVote DEF TypeOK
  <2> QED
    BY <2>2, <2>3
<1>4. ASSUME NEW c \in Calls, LoseClick(c)
      PROVE  ClickInv'
  BY <1>4 DEF LoseClick, vars
<1>5. ASSUME NEW c \in Calls, ReceiveVote(c)
      PROVE  ClickInv'
  BY <1>5 DEF ReceiveVote, SelectVote, TypeOK
<1>6. ASSUME NEW c \in Calls, FinishVote(c)
      PROVE  ClickInv'
  BY <1>6 DEF FinishVote, InsertConflict, Fail, SumVotes, StoreScore, Return, TypeOK
<1>7. CASE Recount
  BY <1>7 DEF Recount, RecountItems, RecountAccounts, WriteRecount, AbortRecount, Elapse,
              callVars
<1>8. CASE UNCHANGED votingVars
  BY <1>8 DEF votingVars, vars
<1> QED
  BY <1>1, <1>2, <1>3, <1>4, <1>5, <1>6, <1>7, <1>8 DEF VotingNext

\* A click that nothing overtook toggles the vote as it is when it is recorded.
LEMMA RecordToggles ==
  ASSUME VotingTypeOK, ClickInv, [VotingNext]_votingVars,
         NEW c \in Calls, pc[c] = "selected", pc'[c] = "voted",
         click[c] # NoClick, click[c].quiet
  PROVE  votes'[click[c].item][click[c].voter] =
           IF votes[click[c].item][click[c].voter] = click[c].weight
             THEN 0 ELSE click[c].weight
<1> DEFINE was == votes[click[c].item][click[c].voter]
           w == click[c].weight
<1>1. UpdateVote(c) \/ InsertVote(c)
  <2>1. [Next]_vars
    BY VotingStepImplements
  <2>2. ASSUME NEW d \in Calls, d # c
        PROVE  ~SelectVote(d) /\ ~UpdateVote(d) /\ ~InsertVote(d) /\ ~InsertConflict(d)
               /\ ~SumVotes(d) /\ ~StoreScore(d) /\ ~Fail(d)
    BY <2>2 DEF VotingTypeOK, TypeOK, SelectVote, UpdateVote, InsertVote, PutVote,
                InsertConflict, SumVotes, StoreScore, Fail, Return
  <2>3. ~SelectVote(c) /\ ~InsertConflict(c) /\ ~SumVotes(c) /\ ~StoreScore(c) /\ ~Fail(c)
    BY DEF VotingTypeOK, TypeOK, SelectVote, InsertConflict, SumVotes, StoreScore, Fail, Return
  <2>4. ~(RecountItems \/ RecountAccounts \/ WriteRecount \/ AbortRecount \/ Elapse)
    BY DEF RecountItems, RecountAccounts, WriteRecount, AbortRecount, Elapse, callVars
  <2>5. ~UNCHANGED vars
    BY DEF vars
  <2> QED
    BY <2>1, <2>2, <2>3, <2>4, <2>5 DEF Next, SaveVote
<1>2. /\ req[c] = [item |-> click[c].item, voter |-> click[c].voter, weight |-> click[c].sent]
      /\ click[c].sent \in {Activity(was, w), w}
      /\ old[c] \in {was, NoVote}
  BY DEF ClickInv
<1>3. w \in {-1, 1}
  BY DEF VotingTypeOK, Clicks
<1>4. /\ votes'[click[c].item][click[c].voter] =
           IF old[c] # NoVote THEN NewWeight(old[c], click[c].sent) ELSE click[c].sent
      /\ old[c] = NoVote => was = NoVote
  BY <1>1, <1>2, RecordedVote DEF VotingTypeOK
<1>5. old[c] = was
  BY <1>2, <1>4
<1>6. w # NoVote /\ w # 0
  BY <1>3, SentinelsAssumption
<1> QED
  BY <1>2, <1>4, <1>5, <1>6 DEF Activity, NewWeight, ToggleOff

\* Client and server toggle a click once.
THEOREM ClicksToggle == VotingSpec => ClickToggles
<1>1. VotingInit => ClickInv
  BY DEF VotingInit, ClickInv
<1>2. VotingTypeOK /\ ClickInv /\ [VotingNext]_votingVars =>
        /\ ClickInv'
        /\ [\A c \in Calls :
              pc[c] = "selected" /\ pc'[c] = "voted" /\ click[c] # NoClick /\ click[c].quiet =>
                LET i == click[c].item
                    a == click[c].voter
                    w == click[c].weight
                IN votes'[i][a] = IF votes[i][a] = w THEN 0 ELSE w]_votingVars
  BY StepKeepsClickInv, RecordToggles
<1> QED
  BY <1>1, <1>2, VotingTypeCorrect, PTL DEF VotingSpec, ClickToggles
=============================================================================
