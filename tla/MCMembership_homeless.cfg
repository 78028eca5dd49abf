\* A user joins a team while its only member leaves it.
SPECIFICATION Spec
CONSTANTS
  u1 = u1
  u2 = u2
  u3 = u3
  A = A
  B = B
  C = C
  User = {u1, u2, u3}
  Team = {A, B, C}
  Home <- MCHome
  Handler = {h1, h2}
  Task = {k}
  MaxInvites = 1
  Nobody = Nobody
  NoTeam = NoTeam
SYMMETRY Symmetry
INVARIANTS
  NobodyIsHomeless
\* Requests stop arriving after a race.
CHECK_DEADLOCK FALSE
