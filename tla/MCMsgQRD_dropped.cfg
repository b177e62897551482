\* The scanner as it is: a token has the size the cleared buffer reports.
SPECIFICATION Spec
CONSTANTS
  h1 = h1  h2 = h2  h3 = h3
  Handlers = {h1, h2}
  Names = {1, 2}
  PortIds = {1}
  Requests <- TwoNames
  NoRequest = NoRequest
  MainQueueCap = 1
  CountSurvivesMerge = FALSE
SYMMETRY Symmetry
INVARIANT CommandsAreNotDropped
\* Every process ends in the end, and nothing is left to do.
CHECK_DEADLOCK FALSE
