\* One repo, two lists; two changes by the user, one on GitHub, three of the link and
\* one fault, five in all.
SPECIFICATION FairSpec
CONSTANTS
  Lists = {l1, l2}
  Uids = {1, 2, 3, 4, 5}
  Repeating = {5}
  Numbers = {1, 2, 3}
  Titles = {"a", "b"}
  Notes = {"", "x"}
  MaxUser = 2
  MaxGithub = 1
  MaxLinks = 3
  MaxFaults = 1
  MaxEvents = 5
INVARIANTS PairsOneToOne NothingTwice
PROPERTIES CompletedOnlyWhenOver ClosedOnlyWhenLeft EventuallyInStep
