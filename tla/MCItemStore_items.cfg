\* Three items, so threads up to two replies deep or wide, and two goroutines,
\* so that an edit can overlap a deletion or another edit.
CONSTANTS
  Keys = {k1, k2, k3}
  Handlers = {h1, h2}
  NoKey = NoKey
  Author = Author
  Anonymous = Anonymous
  Other = Other
  Top = Top
  Depth = 1
SYMMETRY ItemSymmetry
SPECIFICATION Spec
INVARIANTS TypeOK ParentIsReplyTo ReadBackAgrees
           PagesShowTheirItems LinksStayInListing
PROPERTIES DeletedStaysDeleted TitleKept AuthorVoteKept
