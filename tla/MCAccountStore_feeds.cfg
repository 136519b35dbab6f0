\* One handle, two importers of one feed of two entries, two runs of cli/keys and
\* two registrations.
CONSTANTS
  ann = ann
  Handles = {ann}
  System = System
  Feed <- TwoEntries
  Unnamed = Unnamed
  Importers = {p1, p2}
  KeyRuns = {g1, g2}
  MaxLogins = 2
  None = None
SYMMETRY ProcessSymmetry
SPECIFICATION Spec
INVARIANTS TypeOK AuthorIsNamed
PROPERTIES MetadataKept ImportedVotesStay
