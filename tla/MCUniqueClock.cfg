CONSTANTS
  t1 = t1
  t2 = t2
  t3 = t3
  Threads <- MCThreads
  Readings <- MCReadings
  Absent <- MCAbsent
  MaxCalls = 4
SPECIFICATION FairSpec
INVARIANT ClaimsAreExclusive
PROPERTY HandsOutIncreasingStamps
PROPERTY PendingCallsReturn
CHECK_DEADLOCK FALSE
