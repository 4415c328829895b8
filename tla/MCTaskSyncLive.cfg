CONSTANTS
  Hrefs = {a}
  Workers = {loop}
  Loop = loop
  PhoneKinds = {"broken", "other"}
  MaxLocal = 2
  MaxPhone = 2
  MaxFaults = 1
SPECIFICATION FairSpec
PROPERTIES
  EventuallyConverged
