\* Two goroutines that log in and force refreshes, with three credentials issued, so that one
\* may keep a refresh token that a later answer revokes, and one crash.
CONSTANTS
  Procs = {p1, p2}
  None = None
  Tasks = {"login", "force"}
  Refreshers = {TRUE, FALSE}
  Answers = {"keep", "rotate", "revoke"}
  MaxMint = 3
  MaxGen = 0
  MaxCrash = 1
SPECIFICATION Spec
SYMMETRY ProcSymmetry
INVARIANTS TypeOK PublishedIsDurable NoGrantLost
PROPERTIES GenerationCAS
CHECK_DEADLOCK FALSE
