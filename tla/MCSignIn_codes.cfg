\* Two attempts, two callbacks on two servers, two exchanges, a failure.
SPECIFICATION FairSpec
CONSTANTS
  Google = Google
  Mock = Mock
  Home = Home
  Other = Other
  Person = {Google, Mock}
  Nobody = Nobody
  Email = {Home, Other}
  EmailOf <- MCEmailOf
  Mocked = {Mock}
  MaxAttempts = 2
  MaxCallbacks = 2
  MaxExchanges = 2
  AllowLists <- MCAllowLists
  Server = {s1, s2}
  NoServer = NoServer
  MaxFailures = 1
INVARIANTS
  TypeOK
  VeteransAreNotTurnedAway
  OnlyHalfUsersBlock
  OneCodePerAttempt
  OneSessionPerCode
PROPERTIES
  OnlyOwnersAreAdmitted
  CallbacksAnswer
\* Requests are finite in number.
CHECK_DEADLOCK FALSE
