CONSTANTS
  f = f
  g = g
  NoCallback = NoCallback
  Callbacks <- TwoCallbacks
  MaxId = 3
  OwnIds <- AnyId
  Careful = TRUE
SPECIFICATION FairSpec
INVARIANT RollbackIsExact
PROPERTY ExpiresOnlyTheExpired
PROPERTY EveryChangeIsDecided
