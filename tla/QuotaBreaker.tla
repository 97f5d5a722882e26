-------------------------- MODULE QuotaBreaker --------------------------
(***************************************************************************)
(* pkg/quota about one provider: the circuit breaker requests ask before   *)
(* they go upstream, the observer that books their answers, and the copy   *)
(* of it all in the runtime snapshot (pkg/state).  Two providers share the *)
(* locks only.                                                             *)
(*                                                                         *)
(* An operation of the breaker is one step: it holds cb.mu throughout, and *)
(* what others write to the snapshot meanwhile is fields it does not touch.*)
(***************************************************************************)
EXTENDS Integers, Sequences

CONSTANTS
  Callers,        \* goroutines with a request for the provider
  Threshold,      \* FailureThreshold of the breaker
  SnapThreshold,  \* failureThreshold of the state manager
  OpenFor,        \* DefaultOpenDuration
  Jitters,        \* what the jitter may add to a cooldown
  RetryAfters,    \* what a limited answer asks for, 0 for nothing
  MaxTime,        \* bound: the clock
  MaxCount        \* bound: consecutive outcomes are counted up to here

ASSUME BreakerAssumption ==
  /\ Threshold \in Nat \ {0} /\ SnapThreshold \in Nat /\ SnapThreshold >= Threshold
  /\ OpenFor \in Nat \ {0} /\ Jitters \subseteq Int /\ RetryAfters \subseteq Nat
  /\ MaxTime \in Nat /\ MaxCount \in Nat
  /\ MaxCount >= SnapThreshold

VARIABLES
  clock,
  cb,        \* the breaker's providerBreakerState
  sm,        \* the provider's ProviderRuntime in the snapshot
  recovered, \* history: RecoverCircuit closed the snapshot's circuit by hand
  req,       \* each caller: idle, or waiting upstream with or without the probe
  lostProbe  \* history: the answer of the request that held the probe was not booked

breakerVars == <<clock, cb, sm, recovered, req, lostProbe>>

Circuits == {"closed", "open", "half"}
Healths  == {"healthy", "degraded", "unavailable"}
Quotas   == {"healthy", "low", "exhausted"}

BreakerInit ==
  /\ clock = 0
  /\ cb = [circuit |-> "closed", openedAt |-> 0, cooldown |-> 0, probe |-> FALSE, failed |-> 0]
  /\ sm = [admin |-> "enabled", circuit |-> "closed", probe |-> FALSE, failed |-> 0,
           health |-> "healthy", quota |-> "healthy"]
  /\ recovered = FALSE /\ lostProbe = FALSE
  /\ req = [c \in Callers |-> "idle"]

Inc(n) == IF n < MaxCount THEN n + 1 ELSE n
OrDefault(d) == IF d > 0 THEN d ELSE OpenFor

-----------------------------------------------------------------------------
(***************************************************************************)
(* The breaker.  An operation yields the next breaker state b and the next *)
(* snapshot row s.                                                         *)
(***************************************************************************)
Open(b) == [b EXCEPT !.circuit = "open", !.openedAt = clock, !.probe = FALSE]
Synced(s, circuit, probe) == [s EXCEPT !.circuit = circuit, !.probe = probe]

Cooled(jitter) == clock - cb.openedAt >= OrDefault(cb.cooldown) + jitter

\* The snapshot's own bookkeeping, with its own count and threshold.
SnapSucceeded(s) ==
  [s EXCEPT !.failed = 0,
            !.health = "healthy",
            !.circuit = IF @ = "half" THEN "closed" ELSE @,
            !.probe = IF s.circuit = "open" THEN @ ELSE FALSE]

SnapFailed(s) ==
  LET n == Inc(s.failed) IN
  CASE s.circuit = "half" ->
         [s EXCEPT !.failed = n, !.circuit = "open", !.probe = FALSE, !.health = "unavailable"]
    [] s.circuit = "closed" /\ n >= SnapThreshold ->
         [s EXCEPT !.failed = n, !.circuit = "open", !.health = "degraded"]
    [] OTHER -> [s EXCEPT !.failed = n]

Succeeded ==
  [b |-> [cb EXCEPT !.failed = 0, !.probe = FALSE,
                    !.circuit = IF @ = "half" THEN "closed" ELSE @],
   s |-> SnapSucceeded(sm)]

Failed_NoSync ==
  LET b == [cb EXCEPT !.failed = Inc(@)] IN
  CASE cb.circuit = "half" ->
         [b |-> [Open(b) EXCEPT !.cooldown = OrDefault(@)],
          s |-> SnapFailed(Synced(sm, "open", FALSE))]
    [] cb.circuit = "closed" /\ b.failed >= Threshold ->
         [b |-> [b EXCEPT !.circuit = "open", !.openedAt = clock, !.cooldown = OpenFor],
          s |-> SnapFailed(sm)]
    [] OTHER -> [b |-> b, s |-> SnapFailed(sm)]

Failed_KeepProbe ==
  LET b == [cb EXCEPT !.failed = Inc(@)] IN
  CASE cb.circuit = "half" ->
         [b |-> [b EXCEPT !.circuit = "open", !.openedAt = clock, !.cooldown = OrDefault(@)],
          s |-> SnapFailed(Synced(sm, "open", FALSE))]
    [] cb.circuit = "closed" /\ b.failed >= Threshold ->
         [b |-> [b EXCEPT !.circuit = "open", !.openedAt = clock, !.cooldown = OpenFor],
          s |-> SnapFailed(Synced(sm, "open", FALSE))]
    [] OTHER -> [b |-> b, s |-> SnapFailed(sm)]

Failed ==
  LET b == [cb EXCEPT !.failed = Inc(@)] IN
  CASE cb.circuit = "half" ->
         [b |-> [Open(b) EXCEPT !.cooldown = OrDefault(@)],
          s |-> SnapFailed(Synced(sm, "open", FALSE))]
    [] cb.circuit = "closed" /\ b.failed >= Threshold ->
         [b |-> [b EXCEPT !.circuit = "open", !.openedAt = clock, !.cooldown = OpenFor],
          s |-> SnapFailed(Synced(sm, "open", FALSE))]
    [] OTHER -> [b |-> b, s |-> SnapFailed(sm)]

Limited_Fields(kind, d) ==
  LET b == [cb EXCEPT !.cooldown = OrDefault(d), !.openedAt = clock, !.probe = FALSE] IN
  [b |-> Open(b), s |-> [Synced(sm, "open", FALSE) EXCEPT !.health = "exhausted"]]

\* What LimitError.Kind makes of a limited answer that asks to wait for d.
Limited(kind, d) ==
  LET b == [cb EXCEPT !.cooldown = OrDefault(d), !.openedAt = clock, !.probe = FALSE] IN
  CASE kind \in {"spend_limit", "abuse_guard"} ->
         [b |-> Open(b),
          s |-> [sm EXCEPT !.quota = "exhausted", !.circuit = "open", !.health = "unavailable"]]
    [] kind = "quota_window" ->
         [b |-> b, s |-> [sm EXCEPT !.quota = "exhausted"]]
    [] kind \in {"burst_rate", "capacity", "token_rate", "unknown"} ->
         [b |-> Open(b), s |-> [Synced(sm, "open", FALSE) EXCEPT !.health = "degraded"]]
    [] kind \in {"account_limit", "session_conflict", "waiting_room"} ->
         IF Inc(cb.failed) >= Threshold
         THEN [b |-> [Open(b) EXCEPT !.failed = Inc(@)], s |-> Synced(sm, "open", FALSE)]
         ELSE [b |-> [b EXCEPT !.failed = Inc(@)], s |-> sm]

Book(outcome) == cb' = outcome.b /\ sm' = outcome.s

-----------------------------------------------------------------------------
(***************************************************************************)
(* Requests, and what the observer's round tripper books of their answers. *)
(***************************************************************************)
\* In the order Classify tries them: the kind of limit, and the statuses that alone say so.
Patterns ==
  << [kind |-> "spend_limit", statuses |-> {402}], [kind |-> "abuse_guard", statuses |-> {}],
     [kind |-> "session_conflict", statuses |-> {}], [kind |-> "waiting_room", statuses |-> {}],
     [kind |-> "capacity", statuses |-> {529}], [kind |-> "token_rate", statuses |-> {}],
     [kind |-> "quota_window", statuses |-> {}], [kind |-> "burst_rate", statuses |-> {}],
     [kind |-> "account_limit", statuses |-> {}] >>

\* The kind of an answer with this status whose body holds the phrases of these kinds.
Classify(status, phrases) ==
  LET hits == {i \in DOMAIN Patterns : \/ status \in Patterns[i].statuses
                                       \/ Patterns[i].kind \in phrases}
  IN IF hits = {} THEN "unknown"
     ELSE Patterns[CHOOSE i \in hits : \A j \in hits : i <= j].kind

LimitStatuses == {402, 429, 503, 529}       \* 503 only with a Retry-After
PatternKinds == {Patterns[i].kind : i \in DOMAIN Patterns}

\* The limits a request can meet: one phrase shows every kind that any body has.
Limits ==
  {Classify(status, phrases) :
     status \in LimitStatuses, phrases \in {{}} \cup {{k} : k \in PatternKinds}} \X RetryAfters

\* AllowProbe lets the request through: how it changes the breaker, if it does.
Granted(c) ==
  \/ /\ cb.circuit = "closed"
     /\ req' = [req EXCEPT ![c] = "sent"]
     /\ UNCHANGED <<cb, sm, lostProbe>>
  \/ /\ \/ cb.circuit = "open" /\ \E jitter \in Jitters : Cooled(jitter)
        \/ cb.circuit = "half" /\ ~cb.probe
     /\ cb' = [cb EXCEPT !.circuit = "half", !.probe = TRUE]
     /\ sm' = Synced(sm, "half", TRUE)
     /\ req' = [req EXCEPT ![c] = "probe"]
     /\ lostProbe' = FALSE

AllowProbe(c) ==
  /\ req[c] = "idle" /\ sm.admin # "disabled"
  /\ Granted(c)
  /\ UNCHANGED <<clock, recovered>>

Answered(c) ==
  /\ req[c] # "idle"
  /\ req' = [req EXCEPT ![c] = "idle"]
  /\ UNCHANGED <<clock, recovered>>

Success(c) == Answered(c) /\ Book(Succeeded) /\ UNCHANGED lostProbe
TransportError(c) == Answered(c) /\ Book(Failed) /\ UNCHANGED lostProbe
LimitAnswer(c) ==
  Answered(c) /\ (\E l \in Limits : Book(Limited(l[1], l[2]))) /\ UNCHANGED lostProbe

\* Any other status: the round tripper returns it and books nothing.
OtherAnswer(c) ==
  /\ Answered(c)
  /\ lostProbe' = (lostProbe \/ req[c] = "probe")
  /\ UNCHANGED <<cb, sm>>

-----------------------------------------------------------------------------
(***************************************************************************)
(* The administrator's operations on the snapshot.                         *)
(***************************************************************************)
SetAdminState ==
  /\ \E admin \in {"enabled", "disabled"} : sm' = [sm EXCEPT !.admin = admin]
  /\ UNCHANGED <<clock, cb, recovered, req, lostProbe>>

RecoverCircuit ==
  /\ sm' = [sm EXCEPT !.circuit = "closed", !.probe = FALSE, !.failed = 0,
                      !.health = IF @ = "unavailable" THEN "healthy" ELSE @]
  /\ recovered' = TRUE
  /\ UNCHANGED <<clock, cb, req, lostProbe>>

ResetQuota ==
  /\ sm' = [sm EXCEPT !.quota = "healthy"]
  /\ UNCHANGED <<clock, cb, recovered, req, lostProbe>>

Advance ==
  /\ clock < MaxTime /\ clock' = clock + 1
  /\ UNCHANGED <<cb, sm, recovered, req, lostProbe>>

BreakerNext ==
  \/ \E c \in Callers : AllowProbe(c) \/ Success(c) \/ TransportError(c) \/ LimitAnswer(c) \/ OtherAnswer(c)
  \/ SetAdminState \/ RecoverCircuit \/ ResetQuota
  \/ Advance

BreakerSpec == BreakerInit /\ [][BreakerNext]_breakerVars

-----------------------------------------------------------------------------
BreakerTypeOK ==
  /\ clock \in 0..MaxTime
  /\ cb \in [circuit : Circuits, openedAt : 0..MaxTime, cooldown : Nat, probe : BOOLEAN,
             failed : 0..MaxCount]
  /\ sm \in [admin : {"enabled", "disabled"}, circuit : Circuits, probe : BOOLEAN,
             failed : 0..MaxCount, health : Healths, quota : Quotas]
  /\ req \in [Callers -> {"idle", "sent", "probe"}]
  /\ recovered \in BOOLEAN /\ lostProbe \in BOOLEAN

\* What the snapshot shows of the circuit (dashboards, IsAvailable) is what the breaker does,
\* though each counts failures of its own: limits of some kinds count in the breaker alone,
\* and nothing but a recovery by hand makes the two part.
CircuitsAgree == recovered \/ sm.circuit = cb.circuit

\* The single probe of a half-open circuit is accounted for: a request holds it, or the
\* holder's answer was of the kind the round tripper books nothing of (observer.go:170).
ProbeAccounted ==
  cb.probe => /\ cb.circuit = "half"
              /\ lostProbe \/ \E c \in Callers : req[c] = "probe"
=============================================================================
