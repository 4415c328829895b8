\* Two lists, one of them the inbox, and two repos, one made later; five events in all.
SPECIFICATION FairSpec
CONSTANTS
  Lists = {"work", "inbox"}
  Labels = {"a", "b", "c"}
  Fixed = {"inbox"}
  Repos = {1, 2}
  Names = {"o/a", "o/b", "o/c", "p/a"}
  Short <- MCShort
  Born <- MCBorn
  Called <- MCCalled
  PerHour = 1
  MaxHub = 2
  MaxUser = 2
  MaxFaults = 1
  MaxEvents = 5
INVARIANTS OneLinkPerRepo TakenIsTold
PROPERTIES ReadsItsOwn RenamesOnlyItsOwn EventuallyFollowed
