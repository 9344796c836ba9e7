SPECIFICATION FairSpec
CONSTANTS
  MaxReadAttempts <- BoundAttempts
  MaxPublications <- BoundPublications
INVARIANTS
  CompleteReads
  AtMostOneRetry
PROPERTIES
  StaleOnlyAfterRaces
  EventuallyCurrent
  ImplementsRegister
