\* The tag of another team with the same revision is accepted.
SPECIFICATION Spec
CONSTANTS
  Team = {A, B}
  Item = {x}
  Handler = {h1, h2}
  NoTag = NoTag
  NoTeam = NoTeam
  NoItem = NoItem
  Attempts = 2
  MaxRev = 1
SYMMETRY HandlerSymmetry
INVARIANTS
  CommitNamesItsTeam
CHECK_DEADLOCK FALSE
