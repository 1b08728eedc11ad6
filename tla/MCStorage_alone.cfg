SPECIFICATION FairSpec
CONSTANTS
  Spellings <- MCSpellings
  Endpoints = {"a", "b"}
  Normalize <- MCNormalize
  NoEndpoint = NoEndpoint
  Together = FALSE
  MaxAge = 1
  AuditAge = 2
INVARIANTS TypeOK NoMixing
PROPERTIES IsHistory RecentKept ExpiredLeave
