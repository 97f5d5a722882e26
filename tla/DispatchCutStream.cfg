\* The bounds of DispatchTelemetry.
CONSTANTS
  r1 = r1  r2 = r2  a = a  b = b  d = d
  Requests = {r1}
  Lanes = {a, b, d}
  Serving = {a, b}
  ToolLanes = {a, b}
  PrefixLane = a
  NoLane = NoLane
  Modes = {"stream", "unary"}
  MaxChanges = 1
  Bodies = {"in_flight", "complete", "failed"}
  ChildRows = {a, b, d, "usage"}
  Absent = Absent
  Closers = {"main"}
  Cap = 2
  BatchSize = 2
SPECIFICATION Spec
INVARIANT CutIsNotComplete
CHECK_DEADLOCK FALSE
