CONSTANTS
  Entries <- MCEntries
  Locked <- Pi
  Removable = {"a", "f", "g", "pi"}
  MaxCommands = 5
  Precisions = {0, 1}
  Exact = 1
  CanRead <- Readable
  AsRead <- Resolved
  Evaluate <- MCEval
  CanDefine <- Definable
  AssignedBy <- Assigned
  AsPrinted <- Printed
  Half <- HalfDigit
  Texts <- MCTexts
  Options <- MCOptions
  MaxPutbacks = 1
  AfterCall <- MCScan
  Programs <- MCPrograms
  CommandLines <- MCLines
SPECIFICATION MCSpec
INVARIANTS SavedIsRestored QuitAsksWhenChanged ScopesAreKept CallsEnd ReadsAsMeant EndsInOrder TokensAreRight LinesAreRight TokenIsCurrent ParsesAsDeclared
PROPERTIES ReadsTheFile SavesWhatItHas
