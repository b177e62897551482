\* Two connections that add, look up and remove one name and add another; the queue of
\* the service holds one message.
SPECIFICATION Spec
CONSTANTS
  h1 = h1  h2 = h2  h3 = h3
  Handlers = {h1, h2}
  Names = {1, 2}
  PortIds = {1}
  Requests <- TwoNames
  NoRequest = NoRequest
  MainQueueCap = 1
  CountSurvivesMerge = TRUE
SYMMETRY Symmetry
INVARIANTS OwnResultOnly AbortOnlyAfterTimeout LeakOnlyByKill RegistrationsConserved
PROPERTY ImplementsRegistry
\* Every process ends in the end, and nothing is left to do.
CHECK_DEADLOCK FALSE
