\* Two connections whose clients disconnect in the end.
SPECIFICATION PatientSpec
CONSTANTS
  h1 = h1  h2 = h2  h3 = h3
  Handlers = {h1, h2}
  Names = {1, 2}
  PortIds = {1}
  Requests <- OnlyAdd
  NoRequest = NoRequest
  MainQueueCap = 1
  CountSurvivesMerge = TRUE
PROPERTIES HandlersEnd CommandsTakeEffect
\* Every process ends in the end, and nothing is left to do.
CHECK_DEADLOCK FALSE
