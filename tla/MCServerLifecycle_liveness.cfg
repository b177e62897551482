CONSTANTS
  d1 = d1
  d2 = d2
  c1 = c1
  NoOne = NoOne
  Instances = {d1, d2}
  Clients = {}
  ForceOptions = {FALSE}
SPECIFICATION FairSpec
PROPERTY EndsUnlessLost
CHECK_DEADLOCK FALSE
