\* Ring buffers of 1 to 3 elements in both modes, positions up to one more than fits.
CONSTANTS
  SizeMax = 9
  Sizes = {1, 2, 3}
  Values = {e1, e2}
  Positions = {0, 1, 2, 3, 4, 9}
  Void = Void
  Failed = Failed
  Items = {e1, e2}
  ElemSizes = {1, 2}
  BlockSizes = {1, 2, 3}
  MaxElements = 5
  Procs = {p1, p2, p3}
  InitVal = 2
  Objects = {o1, o2}
  MaxLaunches = 3
  Keys = {1, 2, 3}
  Nodes = {1, 2, 3, 4}
  NULL = 0
SPECIFICATION MCSpec
INVARIANTS KeepsWhatIsPut WalksTheTree UnitsConserved PidsAreValid NoChildLeft
PROPERTIES ImplementsFifo ImplementsSortedBag WaitersPass
CHECK_DEADLOCK FALSE
