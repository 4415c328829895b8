SPECIFICATION FairSpec
CONSTANTS
  Askers = {p, q}
  Setters = {u, v}
  Signers = {x, y}
  Accounts = {"a", "b"}
  Parts = {"lists", "tasks"}
  Intervals = {"short", "long"}
  First <- MCFirst
  MaxAsks = 2
  MaxFaults = 1
  MaxEvents = 2
INVARIANTS NeverSleepsOnWork SleepsAsSet ChangesAreTold
PROPERTIES SignInIsHeard RoundsArePromised
