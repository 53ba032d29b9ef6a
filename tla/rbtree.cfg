\* Ten nodes: the fewest with which RBDeleteFixUp climbs two levels.
\* Below all keys, the one two nodes have, two between and the largest.
CONSTANTS
  NODES = 10
  COPIES = 2
  nil = nil
  root = root
  Queries = {1, 2, 4, 7, 10}
SPECIFICATION RBSpec
INVARIANTS
  Linked
  RedBlack
  NeighboursFound
  QueriesAnswered
PROPERTIES
  ImplementsOrderedList
