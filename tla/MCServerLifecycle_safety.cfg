CONSTANTS
  d1 = d1
  d2 = d2
  c1 = c1
  NoOne = NoOne
  Instances = {d1, d2}
  Clients = {c1}
  ForceOptions = {FALSE, TRUE}
SPECIFICATION Spec
INVARIANTS ExclusiveUnlessOverwritten QueueLostOnlyByRefused PathLostOnlyByOthers CleanAfterEnd
SYMMETRY Symmetry
CHECK_DEADLOCK FALSE
