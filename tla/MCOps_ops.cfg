SPECIFICATION FairSpec
CONSTANTS
  NumMembers = 2
  NumEndpoints = 2
  Workers = {w1}
  Retains = {1}
  MaxRev = 3
  NoLeader = NoLeader
INVARIANTS
  TypeOK
  GivesUpInOutage
  StatusFailsInOutage
  MoveSucceeds
PROPERTIES
  RetainsEnough
  HealthyFollows
