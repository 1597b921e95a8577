\* Two threads, two calls each, a callback that may refuse changes of "x"
SPECIFICATION Spec
CONSTANTS
  Nodes = {root, n1, n2, n3, n4, n5, n6}
  Root = root
  Keys <- MCKeys
  Scalars = {s0, s1, s2}
  t1 = t1
  t2 = t2
  s0 = s0
  s1 = s1
  s2 = s2
  Threads = {t1, t2}
  CallsOf <- MCCallsOf
  MaxCalls = 2
  Present <- MCPresent
  Refusable <- MCRefusable
  Kept <- MCKept
  KindAt <- MCKindAt
  NoNode = NoNode
  NoName = NoName
  NoEntry = NoEntry
  Erased = Erased
  Blank = Blank
INVARIANTS
  HandedStays
  KeptIsAdopted
  SetsAreKept
  EmplacedIsKept
PROPERTY OnlyRefusalsDelay
CHECK_DEADLOCK FALSE
