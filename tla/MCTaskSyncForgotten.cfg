CONSTANTS
  Hrefs = {a}
  Workers = {loop}
  Loop = loop
  PhoneKinds = {}
  MaxLocal = 2
  MaxPhone = 0
  MaxFaults = 0
SPECIFICATION Spec
INVARIANTS
  ForgottenNeverReached
