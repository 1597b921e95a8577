CONSTANTS
  A = A
  B = B
  C = C
  D = D
  k1 = k1
  k2 = k2
  k3 = k3
  s = s
  t1 = t1
  t2 = t2
  NoNode = NoNode
  NoName = NoName
  Keep = Keep
  NoEntry = NoEntry
  Erased = Erased
  Nodes <- FourNodes
  Names <- ThreeKeys
  Scalars = {}
  Threads <- TwoThreads
  CallsOf <- Partition
  Careful = TRUE
  Watched = {}
  BirthName <- Unnamed
SPECIFICATION Spec
INVARIANT NamedChild
INVARIANT HeldIsChild
INVARIANT ChildIsHeld
PROPERTY SuccessAttaches
