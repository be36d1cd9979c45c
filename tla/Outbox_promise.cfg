CONSTANTS
  Events = {1, 2, 3}
  Split = {2}
  Silent = {3}
  Dispatchers = {w1, w2}
  MAX_DISPATCH_ATTEMPTS = 2
  Limit = 2
  LostAnswers = TRUE
  Deaths = 2
SPECIFICATION FairSpec
INVARIANTS ClaimsExclusive SendsAccountedFor
PROPERTIES PromiseKept PromiseKeptInTime
CHECK_DEADLOCK FALSE
