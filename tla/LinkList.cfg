\* Up to three nodes; three pointers, two of them equal for cmp; loops that
\* delete and add.
SPECIFICATION Spec
CONSTANTS
  Nodes = {n1, n2, n3}
  Null = Null
  Data = {"a", "b", "c"}
  Rank <- MCRank
  HasCmp = TRUE
INVARIANTS DoublyLinked CountMatches LoopSafe LoopComplete
PROPERTIES ImplementsList
