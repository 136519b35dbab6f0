\* Two requests; two actors of this instance, two of others.
CONSTANTS
  Requests = {r1, r2}
  Locals = {anonymous, alice}
  Remotes = {remote, blocked}
  Blocked = {blocked}
  Anonymous = anonymous
  NoOne = NoOne
  Types = {"Follow", "Create", "Update", "Like"}
SYMMETRY Symmetry
SPECIFICATION Spec
INVARIANTS TypeOK SuccessIsStored AuthorHasAccount AccountsAreSenders
PROPERTIES SerialAuthor
