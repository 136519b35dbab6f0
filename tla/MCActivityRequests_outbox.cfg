\* Two requests of actors of this instance.
CONSTANTS
  Requests = {r1, r2}
  Locals = {anonymous, alice}
  Remotes = {}
  Blocked = {}
  Anonymous = anonymous
  NoOne = NoOne
  Types = {"Create"}
SYMMETRY Symmetry
SPECIFICATION Spec
INVARIANTS OutboxAuthorIsSender
