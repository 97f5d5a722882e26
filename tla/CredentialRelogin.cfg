\* Two goroutines at any entry point; the stored credential may have been refreshed before.
CONSTANTS
  Procs = {p1, p2}
  None = None
  Tasks = {"send", "tick", "login", "force"}
  Refreshers = {TRUE, FALSE}
  Answers = {"keep", "rotate", "revoke"}
  MaxMint = 2
  MaxGen = 1
  MaxCrash = 1
SPECIFICATION Spec
SYMMETRY ProcSymmetry
INVARIANT LoginAccepted
CHECK_DEADLOCK FALSE
