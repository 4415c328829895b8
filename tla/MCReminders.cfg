\* One task in two lists; at most two changes by the user, two faults, three in all.
SPECIFICATION FairSpec
CONSTANTS
  Tasks = {a}
  Lists = {inbox, work}
  Home = inbox
  AlarmTimes = {2}
  Lengths = {1}
  Ids = {1, 2, 3, 4, 5}
  Grace = 2
  Keep = 2
  MaxSleep = 2
  MaxTime = 4
  MaxUser = 2
  MaxFaults = 2
  MaxEvents = 3
INVARIANTS RingsOnce OnePerTask
PROPERTIES SnoozeKept RemindersRing
