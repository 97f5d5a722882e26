\* One streaming request over three lanes, enough for the loop to use up maxAttempts, while
\* the operator makes two changes; the writer is never closed.
CONSTANTS
  r1 = r1  r2 = r2  a = a  b = b  d = d
  Requests = {r1}
  Lanes = {a, b, d}
  Serving = {a, b, d}
  ToolLanes = {a, b}
  PrefixLane = a
  NoLane = NoLane
  Modes = {"stream"}
  MaxChanges = 2
  Bodies = {"in_flight", "complete", "failed"}
  ChildRows = {a, b, d, "usage"}
  Absent = Absent
  Closers = {}
  Cap = 1
  BatchSize = 1
SPECIFICATION FairSpec
INVARIANTS TypeOK NoDoubleCount
PROPERTIES NoFailoverAfterCommit DispatchEnds
CHECK_DEADLOCK FALSE
