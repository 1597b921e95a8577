CONSTANTS
  A = A
  B = B
  C = C
  D = D
  k1 = k1
  k2 = k2
  k3 = k3
  s = s
  t1 = t1
  t2 = t2
  NoNode = NoNode
  NoName = NoName
  Keep = Keep
  NoEntry = NoEntry
  Erased = Erased
  Nodes <- ThreeNodes
  Names <- TwoKeys
  Scalars <- OneScalar
  Threads <- TwoThreads
  CallsOf <- CrossAdoption
  Careful = FALSE
  Watched = {}
  BirthName <- Unnamed
SPECIFICATION Spec
INVARIANT Acyclic
