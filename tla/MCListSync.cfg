\* Two lists, one of them made on the way, and one task: every order of the loop's
\* rounds, a change to the lists, two by the user, one elsewhere, and a fault.
CONSTANTS
  Lists = {l1, l2}
  Initial = {l1}
  Uids = {u1}
  Names = {"a", "b"}
  MaxUser = 2
  MaxRequests = 1
  MaxPhone = 1
  MaxFaults = 1
SPECIFICATION FairSpec
INVARIANTS
  NoTaskLost
PROPERTIES
  LeavesOnlyWhenGone
  EventuallyConverged
