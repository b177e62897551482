CONSTANTS
  n1 = n1
  n2 = n2
  a = a
  b = b
  none = none
  Observers = {1, 2}
  Smart = {1}
  Notifiers = {n1, n2}
  Values = {a, b}
  NoValue = none
  MaxDepth = 2
SPECIFICATION Spec
SYMMETRY Symmetry
INVARIANTS BothSidesAgree NobodyIsCalledAfterItsEnd ToldWhatIsStored
CHECK_DEADLOCK FALSE
