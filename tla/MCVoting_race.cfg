\* Two goroutines that carry the votes of two accounts on one item, one of them
\* from its pages, with cli/votes.  The item and its author have the same
\* identifier.
CONSTANTS
  Items = {1}
  Accounts = {1, 2}
  Calls = {c1, c2}
  NoVote = NoVote
  NoRequest = NoRequest
  Readers = {1}
  NoClick = NoClick
  SpeaksFor <- AnyAccount
  Author <- FirstAuthor
SYMMETRY CallSymmetry
SPECIFICATION VotingSpec
INVARIANTS VotingTypeOK SettledScoreIsSum
PROPERTY ClickToggles
