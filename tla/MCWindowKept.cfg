SPECIFICATION FairSpec
CONSTANTS
  Tasks = {a, b}
  Repeating = {b}
  Later = TRUE
  Background = TRUE
  MaxOthers = 0
  MaxUser = 3
  MaxFaults = 1
  MaxEvents = 3
PROPERTY DeletedGoes
CHECK_DEADLOCK FALSE
