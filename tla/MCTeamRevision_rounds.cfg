\* One team, two rows, two handlers: each can make the other lose both attempts
\* of a bump (two of them stand for the three of the code).  No symmetry, as it
\* is not sound for liveness.
SPECIFICATION FairSpec
CONSTANTS
  Team = {A}
  Item = {x, y}
  Handler = {h1, h2}
  NoTag = NoTag
  NoTeam = NoTeam
  NoItem = NoItem
  Attempts = 2
  MaxRev = 2
INVARIANTS
  TypeOK
  WinnerReadsCurrent
  EveryRevisionIsAnnouncedOnce
  MoveIsRevisioned
PROPERTIES
  Linearizable
  HandlersAnswer
\* Requests stop arriving at MaxRev.
CHECK_DEADLOCK FALSE
