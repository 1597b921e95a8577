CONSTANTS
  A = A
  B = B
  n1 = n1
  n2 = n2
  v1 = v1
  Empty = Empty
  NoNode = NoNode
  NoKey = NoKey
  Arrays <- TwoArrays
  Kids <- TwoKids
  Scalars <- OneScalar
  ByAddress <- ByName
  MaxIncrease = 2
  MaxLen = 3
  Watched = {A}
  Careful = TRUE
  Made <- EveryCall
SPECIFICATION Spec
INVARIANT HeldOnceByParent
INVARIANT KeyChangeKeepsValues
PROPERTY OthersOnlyLoseNodes
