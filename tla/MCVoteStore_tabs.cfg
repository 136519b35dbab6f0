\* Two goroutines on one item: both vote for one account, one for another too.
CONSTANTS
  Items = {1}
  Accounts = {1, 2}
  Calls = {c1, c2}
  NoVote = NoVote
  NoRequest = NoRequest
  SpeaksFor <- SharedAccount
  Author <- FirstAuthor
SPECIFICATION FairSpec
PROPERTIES VotesAreAtomic VoteGetsCounted
