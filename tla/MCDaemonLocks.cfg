SPECIFICATION Spec
CONSTANTS
  Threads = {p, q, r}
  Sources = {"mail:1"}
  MaxCalls = 4
SYMMETRY Symmetry
INVARIANTS NeverStuck AddedOnceAlone
CHECK_DEADLOCK FALSE
