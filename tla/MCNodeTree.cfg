CONSTANTS
  A = A
  B = B
  C = C
  D = D
  k1 = k1
  k2 = k2
  k3 = k3
  s = s
  t1 = t1
  t2 = t2
  NoNode = NoNode
  NoName = NoName
  Keep = Keep
  NoEntry = NoEntry
  Erased = Erased
  Nodes <- ThreeNodes
  Names <- TwoKeys
  Scalars <- OneScalar
  Threads <- OneThread
  CallsOf <- AnyCall
  Careful = TRUE
  Watched = {A}
  BirthName <- Unnamed
SPECIFICATION Spec
SYMMETRY Alike
INVARIANT HeldIsChild
INVARIANT ChildIsHeld
PROPERTY NoCollateralErase
