SPECIFICATION FairSpec
CONSTANTS
  Tasks = {a, b}
  Repeating = {b}
  Later = TRUE
  Background = TRUE
  MaxOthers = 1
  MaxUser = 3
  MaxFaults = 1
  MaxEvents = 3
INVARIANTS ClosesClean
PROPERTIES DeletesOnlyDoomed CompletesWhatWasChecked EventuallyCurrent
CHECK_DEADLOCK FALSE
