SPECIFICATION Spec
CONSTANTS
  Spellings <- MCSpellings
  Endpoints = {"a", "b"}
  Normalize <- MCNormalize
  NoEndpoint = NoEndpoint
  Together = TRUE
  MaxAge = 1
  AuditAge = 2
INVARIANT NoMixing
