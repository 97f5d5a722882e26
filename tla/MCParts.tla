----------------------------- MODULE MCParts -----------------------------
(***************************************************************************)
(* The parts of the control plane, and the conversions of one call, share  *)
(* no state that any other of them reads, so TLC explores each of them by  *)
(* itself: a behaviour is of one part, and the others stand still.         *)
(***************************************************************************)
EXTENDS QuotaBreaker, QuotaScheduler, RuntimeLanes, AliasCatalog, LaneTimeouts, Logins, Exchanges
CONSTANTS c1, c2, x, y, p
VARIABLE part

NoOrLate == {0, 1}

\* x is configured, y is not.
ConfiguredAliases == [a \in {x, y} |-> IF a = x THEN p ELSE Absent]
ConfiguredTimeouts == [l \in {x, y} |-> IF l = x THEN "30m" ELSE Absent]

quotaVars == <<breakerVars, schedVars>>
tableVars == <<catalogVars, timeoutVars>>
vars == <<part, quotaVars, laneVars, tableVars, loginVars, exchangeVars>>

\* The part that moves; the others are as they were initially.
TypeOK ==
  /\ part = "breaker" => BreakerTypeOK
  /\ part = "scheduler" => SchedTypeOK
  /\ part = "lanes" => LanesTypeOK
  /\ part = "catalog" => CatalogTypeOK
  /\ part = "timeouts" => TimeoutTypeOK
  /\ part = "login" => LoginTypeOK

NoExchange ==
  who = Nothing /\ stage = "none" /\ given = Nothing /\ ir = Nothing /\ made = Nothing

TablesSurvive == CatalogSurvives /\ TimeoutsSurvive

Init ==
  /\ BreakerInit /\ SchedInit /\ LanesInit /\ CatalogInit /\ TimeoutInit
  /\ \/ /\ part \in {"breaker", "scheduler", "lanes", "catalog", "timeouts"}
        /\ LoginInit /\ kind = CHOOSE k \in LoginKinds : TRUE
        /\ NoExchange
     \/ part = "login" /\ LoginInit /\ NoExchange
     \/ part = "exchange" /\ ExchangeInit /\ LoginInit /\ kind = CHOOSE k \in LoginKinds : TRUE

BreakerPart ==
  part = "breaker" /\ BreakerNext
  /\ UNCHANGED <<part, schedVars, laneVars, tableVars, loginVars, exchangeVars>>
SchedulerPart ==
  part = "scheduler" /\ SchedNext
  /\ UNCHANGED <<part, breakerVars, laneVars, tableVars, loginVars, exchangeVars>>
LanesPart ==
  part = "lanes" /\ LanesNext /\ UNCHANGED <<part, quotaVars, tableVars, loginVars, exchangeVars>>
CatalogPart ==
  part = "catalog" /\ CatalogNext
  /\ UNCHANGED <<part, quotaVars, laneVars, timeoutVars, loginVars, exchangeVars>>
TimeoutsPart ==
  part = "timeouts" /\ TimeoutNext
  /\ UNCHANGED <<part, quotaVars, laneVars, catalogVars, loginVars, exchangeVars>>
LoginPart ==
  part = "login" /\ LoginNext /\ UNCHANGED <<part, quotaVars, laneVars, tableVars, exchangeVars>>
ExchangePart ==
  part = "exchange" /\ ExchangeNext /\ UNCHANGED <<part, quotaVars, laneVars, tableVars, loginVars>>

Next ==
  BreakerPart \/ SchedulerPart \/ LanesPart \/ CatalogPart \/ TimeoutsPart \/ LoginPart \/ ExchangePart

Spec == Init /\ [][Next]_vars
=============================================================================
