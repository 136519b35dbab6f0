\* One goroutine, two accounts and two items with the identifiers of accounts.
CONSTANTS
  Items = {1, 2}
  Accounts = {1, 2}
  Calls = {c1}
  NoVote = NoVote
  NoRequest = NoRequest
  SpeaksFor <- AnyAccount
  Author <- FirstAuthor
SPECIFICATION AccountsSpec
PROPERTY AccountRecountKeepsItems
CHECK_DEADLOCK FALSE
