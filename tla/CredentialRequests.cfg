\* Two goroutines sending requests or refreshing ahead of time: a leader, a follower, and one
\* that comes too late for the flight.
CONSTANTS
  Procs = {p1, p2}
  None = None
  Tasks = {"send", "tick"}
  Refreshers = {TRUE}
  Answers = {"keep", "rotate", "revoke"}
  MaxMint = 2
  MaxGen = 0
  MaxCrash = 0
SPECIFICATION FairSpec
INVARIANTS OneFlight
PROPERTIES GetReturns
CHECK_DEADLOCK FALSE
