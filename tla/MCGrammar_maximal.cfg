CONSTANTS
  n1 = n1
  n2 = n2
  n3 = n3
  n4 = n4
  Nodes = {n1, n2, n3, n4}
  Graphs <- AllGraphs
SPECIFICATION MCSpec
INVARIANT ComponentsAreMaximal
CHECK_DEADLOCK FALSE
