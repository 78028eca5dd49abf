\* Three users, two requests at a time, a task; an id that no team has stands for
\* a new team.
SPECIFICATION Spec
CONSTANTS
  u1 = u1
  u2 = u2
  u3 = u3
  A = A
  B = B
  C = C
  User = {u1, u2, u3}
  Team = {A, B, C}
  Home <- MCHome
  Handler = {h1, h2}
  Task = {k}
  MaxInvites = 1
  Nobody = Nobody
  NoTeam = NoTeam
SYMMETRY Symmetry
INVARIANTS
  TypeOK
  OnlyRacesLoseOwners
  RefusalsAreExplained
PROPERTIES
  MovesAreIndivisible
\* Requests stop arriving after a race.
CHECK_DEADLOCK FALSE
