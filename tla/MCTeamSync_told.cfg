CONSTANTS
  Entity <- MCEntity
  Query <- MCQuery
  FirstRevision = 1
  MaxRevision = 3
  ChannelSize = 1
  MaxFaults = 2
SPECIFICATION FairSpec
INVARIANT TypeOK
INVARIANT ToldChangesAreShown
PROPERTY HomeCatchesUp
