CONSTANTS
  a = a
  b = b
  NoEntry = NoEntry
  Erased = Erased
  Null = Null
  Untimed = Untimed
  NoKey = NoKey
  Nothing = Nothing
  Keys <- MCKeys
  Values <- OneValue
SPECIFICATION Spec
INVARIANT CountsTombs
INVARIANT IndexReachesVisible
PROPERTY IsDictionary
PROPERTY ChangedOnlyIfApproved
PROPERTY ForEachFindsVisible
