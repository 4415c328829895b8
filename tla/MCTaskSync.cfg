\* One task, the sync loop alone: every interleaving of its rounds with three
\* local changes, two writes by the phone and one fault.
CONSTANTS
  Hrefs = {a}
  Workers = {loop}
  Loop = loop
  PhoneKinds = {"broken", "other"}
  MaxLocal = 3
  MaxPhone = 2
  MaxFaults = 1
SPECIFICATION Spec
INVARIANTS
  BaseIsServersCopy
  NoLostEdit
  TokenCovers
  DeleteStands
  AdvancedOncePerCompletion
PROPERTIES
  NoLostUpdate
