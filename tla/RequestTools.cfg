\* Every body of Exchanges through every lane.
SPECIFICATION ExchangeSpec
INVARIANT ToolsArrive
\* An exchange ends.
CHECK_DEADLOCK FALSE
