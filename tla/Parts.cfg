\* The quota breaker with two callers, the scheduler with two loops, a runtime lane and two
\* calls about it, two aliases of one model and two calls about them, two timeouts,
\* two calls about the logins of a lane that is replaced once, and every body and answer of
\* Exchanges.
CONSTANTS
  c1 = c1  c2 = c2  x = x  y = y  p = p
  Callers = {c1, c2}
  Threshold = 2
  SnapThreshold = 2
  OpenFor = 1
  Jitters <- NoOrLate
  RetryAfters = {0, 2}
  MaxTime = 2
  MaxCount = 2
  Loops = {1, 2}
  Owners = {c1, c2}
  Interval = 1
  InitialBackoff = 1
  MaxBackoff = 2
  Budget = 1
  MaxNow = 1
  MaxFails = 5
  LaneNames = {"l1"}
  OpenAIDefs = {"o1", "o2"}
  CustomDefs = {"w"}
  BuiltIn = {"l1"}
  FromScan = "scan"
  LaneCalls = {c1, c2}
  NoDef = "none"
  Aliases = {x, y}
  Ids = {p}
  AliasConfig <- ConfiguredAliases
  Admins = {c1, c2}
  MaxToggles = 2
  MaxDamage = 1
  TimedLanes = {x, y}
  Durations = {"30m", "1h"}
  TimeoutConfig <- ConfiguredTimeouts
  Absent = Absent  NoFile = NoFile  Garbage = Garbage
  LoginKinds = {"loopback", "device", "blocking"}
  Operators = {c1, c2}
  MaxFlows = 2
  MaxObjects = 2
SPECIFICATION Spec
INVARIANTS
  TypeOK CircuitsAgree ProbeAccounted OneLoop StopHasLoop
  StoreIsFile TablesSurvive CompletedIsSaved RequestArrives ReplyArrives
PROPERTIES SoleCallSettles KillSwitchHolds
CHECK_DEADLOCK FALSE
