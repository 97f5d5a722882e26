\* Two requests that start on a cold cache.
CONSTANTS
  Procs = {p1, p2}
  None = None
  Tasks = {"send"}
  Refreshers = {TRUE}
  Answers = {"keep", "rotate", "revoke"}
  MaxMint = 2
  MaxGen = 0
  MaxCrash = 0
SPECIFICATION Spec
SYMMETRY ProcSymmetry
INVARIANT RetryCarriesFreshToken
CHECK_DEADLOCK FALSE
