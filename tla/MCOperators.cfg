\* int64 of 4 bits, int32 of 3 bits, doubles of 2 bits in quarters; objects within and beyond the reach of int32;
\* texts of at most 2 characters, paths of 3 keys;
\* XML of 4 elements, three deep, with 3 values; documents of 3 nodes
SPECIFICATION Spec
CONSTANTS
  MaxInt64 = 7
  MaxInt32 = 3
  Parts = 4
  DoubleNumbers <- MCDoubleNumbers
  WrittenNumbers <- MCWrittenNumbers
  LLRoundBeyond <- MCLLRoundBeyond
  StoredTexts <- MCTexts
  Addresses = {1, 2, 4, 9}
  Settable <- MCSettable
  Steps <- MCSteps
  Chars = {"a", "1", ":", "[", "]"}
  Digits = {"1"}
  MaxKeys = 3
  MaxText = 2
  Attributes = {1}
  Elements = {1001, 1002}
  MaxValues = 3
  MaxElements = 4
  MaxOpen = 3
  n1 = n1
  n2 = n2
  n3 = n3
  Nodes = {n1, n2, n3}
  NoNode = NoNode
  Documents <- MCTrees
  Roots <- MCRoots
INVARIANTS
  ComparesInOrder
  ConversionsAreNearest
  SplitUndoesJoin
  NothingReadIsLost
  ParentsCheckFinds
SYMMETRY Alike
PROPERTY IncrementAddsExactly
\* the reading of an XML text ends with its root
CHECK_DEADLOCK FALSE
