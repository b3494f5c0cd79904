SPECIFICATION Spec
CONSTANTS
  Capacity = 2
  Expire = 1
  Queries = {q1, q2, q3}
  NoColumns = {q3}
  OldBackend = FALSE
  MaxClock = 2
  MaxFlights = 2
INVARIANTS
  CacheHoldsItsQuery
  CacheKeysMatch
  LoadingIsWaiting
  ShowsCurrentOptions
