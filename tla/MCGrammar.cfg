CONSTANTS
  n1 = n1
  n2 = n2
  n3 = n3
  n4 = n4
  Nodes = {n1, n2, n3, n4}
  Graphs <- SomeGraphs
SPECIFICATION MCSpec
INVARIANTS ComponentsAreRight SetsAreRight AcceptsLanguage AcceptsLittleElse
PROPERTY BothEnd
CHECK_DEADLOCK FALSE
