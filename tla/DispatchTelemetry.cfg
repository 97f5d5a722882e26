\* One request over two lanes, a third that serves no inference, and one change
\* by the operator, with a queue and transactions of two records and a shutdown
\* that closes the writer at any moment.
CONSTANTS
  r1 = r1  r2 = r2  a = a  b = b  d = d
  Requests = {r1}
  Lanes = {a, b, d}
  Serving = {a, b}
  ToolLanes = {a, b}
  PrefixLane = a
  NoLane = NoLane
  Modes = {"stream", "unary"}
  MaxChanges = 1
  Bodies = {"in_flight", "complete", "failed"}
  ChildRows = {a, b, d, "usage"}
  Absent = Absent
  Closers = {"main"}
  Cap = 2
  BatchSize = 2
SPECIFICATION Spec
INVARIANTS ParentFirst CompleteMeansDelivered
PROPERTIES OutcomeIsFinal
CHECK_DEADLOCK FALSE
