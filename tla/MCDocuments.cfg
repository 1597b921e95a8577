\* Documents of two levels; two threads, two calls each
SPECIFICATION Spec
CONSTANTS
  MaxInt64 = 7
  MaxInt32 = 7
  Parts = 1
  DoubleNumbers = {0, 1}
  WrittenNumbers = {0, 1}
  LLRoundBeyond <- NoLLRound
  StoredTexts = {}
  Addresses = {1}
  t1 = t1
  t2 = t2
  Threads = {t1, t2}
  CallsOf <- MCCallsOf
  MaxCalls = 2
  Heaps <- MCHeaps
  MaxDepth = 2
INVARIANTS
  ComparesByContent
  CloneIsEqualAndOwn
  
PROPERTIES
  MergedWhenAlone
  SourcesStay
  EveryCallReturns
CHECK_DEADLOCK FALSE
