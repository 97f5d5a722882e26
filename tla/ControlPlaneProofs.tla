-------------------------- MODULE ControlPlaneProofs --------------------------
(***************************************************************************)
(* What the quota breaker, the scheduler of its refreshes and the parts of *)
(* the control plane promise, for any callers, lanes, aliases, models,     *)
(* timeouts, logins and operators; and that MCParts, which puts them next  *)
(* to each other, has their properties.                                    *)
(***************************************************************************)
EXTENDS MCParts, WellFoundedInduction, FiniteSetTheorems, TLAPS

-----------------------------------------------------------------------------
(***************************************************************************)
(* The breaker: its inductive invariant.                                   *)
(***************************************************************************)
\* The breaker counts every failure the snapshot counts, and some limits besides.
CountsInv == sm.failed <= cb.failed

BreakerInv == BreakerTypeOK /\ CountsInv /\ CircuitsAgree /\ ProbeAccounted

Breakers == [circuit : Circuits, openedAt : 0..MaxTime, cooldown : Nat, probe : BOOLEAN,
             failed : 0..MaxCount]
Rows == [admin : {"enabled", "disabled"}, circuit : Circuits, probe : BOOLEAN,
         failed : 0..MaxCount, health : Healths, quota : Quotas]

\* An outcome keeps the two in step, and the probe is free after it.
Keeps(outcome) ==
  /\ outcome.b \in Breakers /\ outcome.s \in Rows
  /\ outcome.s.failed <= outcome.b.failed
  /\ recovered \/ outcome.s.circuit = outcome.b.circuit
  /\ ~outcome.b.probe

-----------------------------------------------------------------------------
(***************************************************************************)
(* What an outcome makes of the breaker and of the snapshot row.           *)
(***************************************************************************)
LEMMA IncBounds ==
  ASSUME BreakerAssumption, NEW m \in 0..MaxCount
  PROVE  /\ Inc(m) \in 0..MaxCount /\ m <= Inc(m)
         /\ \A n \in 0..MaxCount : m <= n => m <= Inc(n) /\ Inc(m) <= Inc(n)
BY DEF Inc, BreakerAssumption

LEMMA DefaultBounds ==
  ASSUME BreakerAssumption, NEW d \in Nat
  PROVE  OrDefault(d) \in Nat
BY DEF OrDefault, BreakerAssumption

LEMMA SnapSucceededRow ==
  ASSUME BreakerAssumption, NEW s \in Rows
  PROVE  /\ SnapSucceeded(s) \in Rows
         /\ SnapSucceeded(s).failed = 0
         /\ SnapSucceeded(s).circuit = IF s.circuit = "half" THEN "closed" ELSE s.circuit
<1>1. 0 \in 0..MaxCount
  BY DEF BreakerAssumption
<1>2. CASE s.circuit = "half"
  BY <1>1, <1>2 DEF SnapSucceeded, Rows, Circuits, Healths
<1>3. CASE s.circuit = "open"
  BY <1>1, <1>3 DEF SnapSucceeded, Rows, Circuits, Healths
<1>4. CASE s.circuit = "closed"
  BY <1>1, <1>4 DEF SnapSucceeded, Rows, Circuits, Healths
<1>5. QED
  BY <1>2, <1>3, <1>4 DEF Rows, Circuits

LEMMA SnapFailedRow ==
  ASSUME BreakerAssumption, NEW s \in Rows
  PROVE  /\ SnapFailed(s) \in Rows
         /\ SnapFailed(s).failed = Inc(s.failed)
         /\ SnapFailed(s).circuit =
              IF s.circuit = "half" \/ (s.circuit = "closed" /\ Inc(s.failed) >= SnapThreshold)
              THEN "open" ELSE s.circuit
<1>1. s.failed \in 0..MaxCount /\ Inc(s.failed) \in 0..MaxCount
  BY IncBounds DEF Rows
<1>2. CASE s.circuit = "half"
  BY <1>1, <1>2 DEF SnapFailed, Rows, Circuits, Healths
<1>3. CASE s.circuit = "closed" /\ Inc(s.failed) >= SnapThreshold
  BY <1>1, <1>3 DEF SnapFailed, Rows, Circuits, Healths
<1>4. CASE s.circuit # "half" /\ ~(s.circuit = "closed" /\ Inc(s.failed) >= SnapThreshold)
  BY <1>1, <1>4 DEF SnapFailed, Rows
<1>5. QED
  BY <1>2, <1>3, <1>4

LEMMA SyncedRow ==
  ASSUME NEW s \in Rows, NEW circuit \in Circuits, NEW probe \in BOOLEAN
  PROVE  /\ Synced(s, circuit, probe) \in Rows
         /\ Synced(s, circuit, probe).failed = s.failed
         /\ Synced(s, circuit, probe).circuit = circuit
BY DEF Synced, Rows

LEMMA SucceededKeeps ==
  ASSUME BreakerAssumption, cb \in Breakers, sm \in Rows, CircuitsAgree
  PROVE  Keeps(Succeeded)
<1>1. /\ Succeeded.b \in Breakers /\ Succeeded.b.failed = 0 /\ ~Succeeded.b.probe
      /\ Succeeded.b.circuit = IF cb.circuit = "half" THEN "closed" ELSE cb.circuit
  <2>1. 0 \in 0..MaxCount
    BY DEF BreakerAssumption
  <2>2. CASE cb.circuit = "half"
    BY <2>1, <2>2 DEF Succeeded, Breakers, Circuits
  <2>3. CASE cb.circuit # "half"
    BY <2>1, <2>3 DEF Succeeded, Breakers, Circuits
  <2>4. QED
    BY <2>2, <2>3
<1>2. Succeeded.s = SnapSucceeded(sm)
  BY DEF Succeeded
<1>3. QED
  BY <1>1, <1>2, SnapSucceededRow DEF Keeps, CircuitsAgree

LEMMA FailedKeeps ==
  ASSUME BreakerAssumption, clock \in 0..MaxTime, cb \in Breakers, sm \in Rows,
         CountsInv, CircuitsAgree, ProbeAccounted
  PROVE  Keeps(Failed)
<1> DEFINE n == Inc(cb.failed)
           open == Synced(sm, "open", FALSE)
<1>1. cb.failed \in 0..MaxCount /\ sm.failed \in 0..MaxCount /\ cb.circuit \in Circuits
      /\ n \in 0..MaxCount /\ Inc(sm.failed) <= n /\ Inc(sm.failed) \in 0..MaxCount
  BY IncBounds DEF Breakers, Rows, CountsInv
<1>2. open \in Rows /\ open.failed = sm.failed /\ open.circuit = "open"
  BY SyncedRow DEF Circuits
<1>3. SnapFailed(open) \in Rows /\ SnapFailed(open).circuit = "open" /\ SnapFailed(open).failed <= n
  BY <1>1, <1>2, SnapFailedRow
<1>4. OrDefault(cb.cooldown) \in Nat
  BY DefaultBounds DEF Breakers
<1>5. CASE cb.circuit = "half"
  <2>1. Failed.s = SnapFailed(open)
    BY <1>5 DEF Failed
  <2>2. Failed.b \in Breakers /\ Failed.b.failed = n /\ Failed.b.circuit = "open" /\ ~Failed.b.probe
    BY <1>1, <1>4, <1>5 DEF Failed, Open, Breakers, Circuits
  <2>3. QED
    BY <1>3, <2>1, <2>2 DEF Keeps
<1>6. CASE cb.circuit = "closed" /\ n >= Threshold
  <2>1. Failed.s = SnapFailed(open)
    BY <1>6 DEF Failed, Breakers
  <2>2. Failed.b \in Breakers /\ Failed.b.failed = n /\ Failed.b.circuit = "open" /\ ~Failed.b.probe
    BY <1>1, <1>6 DEF Failed, Breakers, Circuits, ProbeAccounted, BreakerAssumption
  <2>3. QED
    BY <1>3, <2>1, <2>2 DEF Keeps
<1>7. CASE cb.circuit # "half" /\ ~(cb.circuit = "closed" /\ n >= Threshold)
  <2>1. Failed.s = SnapFailed(sm)
    BY <1>7 DEF Failed, Breakers
  <2>2. /\ Failed.b \in Breakers /\ Failed.b.failed = n /\ Failed.b.circuit = cb.circuit
        /\ ~Failed.b.probe
    BY <1>1, <1>7 DEF Failed, Breakers, ProbeAccounted
  <2>3. recovered \/ SnapFailed(sm).circuit = cb.circuit
    BY <1>1, <1>7, SnapFailedRow DEF CircuitsAgree, BreakerAssumption
  <2>4. QED
    BY <1>1, <2>1, <2>2, <2>3, SnapFailedRow DEF Keeps
<1>8. QED
  BY <1>5, <1>6, <1>7

\* The kinds of limit the breaker knows.
Kinds == {"spend_limit", "abuse_guard", "session_conflict", "waiting_room", "capacity", "token_rate",
          "quota_window", "burst_rate", "account_limit", "unknown"}

LEMMA LimitedKeeps ==
  ASSUME BreakerAssumption, clock \in 0..MaxTime, cb \in Breakers, sm \in Rows,
         CountsInv, CircuitsAgree, NEW limit \in Kinds, NEW d \in Nat
  PROVE  Keeps(Limited(limit, d))
<1> DEFINE b == [cb EXCEPT !.cooldown = OrDefault(d), !.openedAt = clock, !.probe = FALSE]
           open == Synced(sm, "open", FALSE)
           out == Limited(limit, d)
<1>1. cb.failed \in 0..MaxCount /\ sm.failed \in 0..MaxCount /\ Inc(cb.failed) \in 0..MaxCount
      /\ sm.failed <= cb.failed /\ cb.failed <= Inc(cb.failed)
  BY IncBounds DEF Breakers, Rows, CountsInv
<1>2. b \in Breakers /\ b.failed = cb.failed /\ b.circuit = cb.circuit /\ ~b.probe
  BY DefaultBounds DEF Breakers
<1>3. Open(b) \in Breakers /\ Open(b).failed = cb.failed /\ Open(b).circuit = "open" /\ ~Open(b).probe
  BY <1>2 DEF Open, Breakers, Circuits
<1>4. open \in Rows /\ open.failed = sm.failed /\ open.circuit = "open"
  BY SyncedRow DEF Circuits
<1>5. CASE limit \in {"spend_limit", "abuse_guard"}
  <2>1. out.b = Open(b)
    BY <1>5 DEF Limited
  <2>2. out.s \in Rows /\ out.s.failed = sm.failed /\ out.s.circuit = "open"
    BY <1>5 DEF Limited, Rows, Circuits, Healths, Quotas
  <2>3. QED
    BY <1>1, <1>3, <2>1, <2>2 DEF Keeps
<1>6. CASE limit = "quota_window"
  <2>1. out.b = b
    BY <1>6 DEF Limited
  <2>2. out.s \in Rows /\ out.s.failed = sm.failed /\ out.s.circuit = sm.circuit
    BY <1>6 DEF Limited, Rows, Quotas
  <2>3. QED
    BY <1>1, <1>2, <2>1, <2>2 DEF Keeps, CircuitsAgree
<1>7. CASE limit \in {"burst_rate", "capacity", "token_rate", "unknown"}
  <2>1. out.b = Open(b)
    BY <1>7 DEF Limited
  <2>2. out.s = [open EXCEPT !.health = "degraded"]
    BY <1>7 DEF Limited
  <2>3. out.s \in Rows /\ out.s.failed = sm.failed /\ out.s.circuit = "open"
    BY <1>4, <2>2 DEF Rows, Healths
  <2>4. QED
    BY <1>1, <1>3, <2>1, <2>3 DEF Keeps
<1>8. CASE limit \in {"account_limit", "session_conflict", "waiting_room"}
  <2>1. CASE Inc(cb.failed) >= Threshold
    <3>1. out.b = [Open(b) EXCEPT !.failed = Inc(@)] /\ out.s = open
      BY <1>8, <2>1 DEF Limited
    <3>2. /\ out.b \in Breakers /\ out.b.failed = Inc(cb.failed) /\ out.b.circuit = "open"
          /\ ~out.b.probe
      BY <1>1, <1>3, <3>1 DEF Breakers
    <3>3. out.s \in Rows /\ out.s.failed = sm.failed /\ out.s.circuit = "open"
      BY <1>4, <3>1
    <3>4. QED
      BY <1>1, <3>2, <3>3 DEF Keeps
  <2>2. CASE ~(Inc(cb.failed) >= Threshold)
    <3>1. out.b = [b EXCEPT !.failed = Inc(@)] /\ out.s = sm
      BY <1>8, <2>2 DEF Limited
    <3>2. /\ out.b \in Breakers /\ out.b.failed = Inc(cb.failed) /\ out.b.circuit = cb.circuit
          /\ ~out.b.probe
      BY <1>1, <1>2, <3>1 DEF Breakers
    <3>3. QED
      BY <1>1, <3>1, <3>2 DEF Keeps, CircuitsAgree
  <2>3. QED
    BY <2>1, <2>2
<1>9. QED
  BY <1>5, <1>6, <1>7, <1>8 DEF Kinds

LEMMA LimitsKnown ==
  ASSUME BreakerAssumption
  PROVE  \A l \in Limits : l[1] \in Kinds /\ l[2] \in Nat
<1>1. \A i \in DOMAIN Patterns : Patterns[i].kind \in Kinds
  BY DEF Patterns, Kinds
<1>2. \A status, phrases : Classify(status, phrases) \in Kinds
  <2> SUFFICES ASSUME NEW status, NEW phrases PROVE Classify(status, phrases) \in Kinds
    OBVIOUS
  <2> DEFINE hits == {i \in DOMAIN Patterns : \/ status \in Patterns[i].statuses
                                             \/ Patterns[i].kind \in phrases}
             first == CHOOSE i \in hits : \A j \in hits : i <= j
  <2>1. CASE hits = {}
    BY <2>1 DEF Classify, Kinds
  <2>2. CASE hits # {}
    <3>1. DOMAIN Patterns = 1..9
      BY DEF Patterns
    <3>2. \E i \in hits : \A j \in hits : i <= j
      <4> HIDE DEF hits
      <4>1. hits \subseteq 1..9
        BY <3>1 DEF hits
      <4> DEFINE less == OpToRel(<, Nat)
      <4>2. \A i, j \in Nat : <<i, j>> \notin less => j <= i
        BY DEF OpToRel
      <4>3. IsWellFoundedOn(less, Nat)
        BY NatLessThanWellFounded
      <4> HIDE DEF less
      <4>4. hits \subseteq Nat
        BY <4>1
      <4>5. PICK least \in hits : \A j \in hits : <<j, least>> \notin less
        BY <2>2, <4>3, <4>4, WFMin
      <4>6. QED
        BY <4>2, <4>4, <4>5
    <3>3. first \in hits
      BY <3>2
    <3>4. Classify(status, phrases) = Patterns[first].kind
      BY <2>2 DEF Classify
    <3>5. QED
      BY <1>1, <3>3, <3>4
  <2>3. QED
    BY <2>1, <2>2
<1>3. ASSUME NEW l \in Limits PROVE l[1] \in Kinds /\ l[2] \in Nat
  <2> DEFINE Met == {Classify(status, phrases) :
                       status \in LimitStatuses, phrases \in {{}} \cup {{k} : k \in PatternKinds}}
  <2>1. l[1] \in Met /\ l[2] \in RetryAfters
    <3> Limits = Met \X RetryAfters
      BY DEF Limits
    <3> HIDE DEF Met
    <3>1. QED
      BY <1>3
  <2>2. \A limit \in Met : limit \in Kinds
    BY <1>2
  <2> HIDE DEF Met
  <2>3. QED
    BY <2>1, <2>2 DEF BreakerAssumption
<1>4. QED
  BY <1>3

-----------------------------------------------------------------------------
LEMMA BreakerInitInv == BreakerAssumption /\ BreakerInit => BreakerInv
<1> SUFFICES ASSUME BreakerAssumption, BreakerInit PROVE BreakerInv
  OBVIOUS
<1>1. 0 \in 0..MaxCount /\ 0 \in 0..MaxTime
  BY DEF BreakerAssumption
<1>2. cb \in Breakers /\ sm \in Rows
  BY <1>1 DEF BreakerInit, Breakers, Rows, Circuits, Healths, Quotas
<1>3. BreakerTypeOK
  BY <1>1, <1>2 DEF BreakerInit, BreakerTypeOK, Breakers, Rows
<1>4. CountsInv /\ CircuitsAgree /\ ProbeAccounted
  BY DEF BreakerInit, CountsInv, CircuitsAgree, ProbeAccounted
<1>5. QED
  BY <1>3, <1>4 DEF BreakerInv

\* An answer that is booked: the invariant holds whoever was answered, since the probe is free.
LEMMA BookedInv ==
  ASSUME BreakerAssumption, BreakerInv, NEW c \in Callers, Answered(c), UNCHANGED lostProbe,
         NEW outcome, Keeps(outcome), Book(outcome)
  PROVE  BreakerInv'
<1>1. cb' \in Breakers /\ sm' \in Rows /\ sm'.failed <= cb'.failed
      /\ (recovered' \/ sm'.circuit = cb'.circuit) /\ ~cb'.probe
  BY DEF Keeps, Book, Answered
<1>2. req' \in [Callers -> {"idle", "sent", "probe"}]
  BY DEF BreakerInv, BreakerTypeOK, Answered
<1>3. clock' \in 0..MaxTime /\ recovered' \in BOOLEAN /\ lostProbe' \in BOOLEAN
  BY DEF BreakerInv, BreakerTypeOK, Answered
<1>4. BreakerTypeOK'
  BY <1>1, <1>2, <1>3 DEF BreakerTypeOK, Breakers, Rows
<1>5. QED
  BY <1>1, <1>4 DEF BreakerInv, CountsInv, CircuitsAgree, ProbeAccounted

LEMMA GrantedInv ==
  ASSUME BreakerAssumption, BreakerInv, NEW c \in Callers, AllowProbe(c)
  PROVE  BreakerInv'
<1> USE DEF BreakerInv, BreakerTypeOK
<1>1. UNCHANGED <<clock, recovered>> /\ req[c] = "idle" /\ Granted(c)
  BY DEF AllowProbe
<1>2. CASE /\ cb.circuit = "closed" /\ req' = [req EXCEPT ![c] = "sent"]
           /\ UNCHANGED <<cb, sm, lostProbe>>
  <2>1. BreakerTypeOK' /\ CountsInv' /\ CircuitsAgree'
    BY <1>1, <1>2 DEF CountsInv, CircuitsAgree
  <2>2. ProbeAccounted'
    BY <1>1, <1>2 DEF ProbeAccounted
  <2>3. QED
    BY <2>1, <2>2
<1>3. CASE /\ cb' = [cb EXCEPT !.circuit = "half", !.probe = TRUE]
           /\ sm' = Synced(sm, "half", TRUE)
           /\ req' = [req EXCEPT ![c] = "probe"]
           /\ lostProbe' = FALSE
  <2>1. sm' \in Rows /\ sm'.failed = sm.failed /\ sm'.circuit = "half"
    BY <1>3, SyncedRow DEF Rows, Circuits
  <2>2. cb' \in Breakers /\ cb'.failed = cb.failed /\ cb'.circuit = "half"
    BY <1>3 DEF Breakers, Circuits
  <2>3. req' \in [Callers -> {"idle", "sent", "probe"}] /\ req'[c] = "probe"
    BY <1>3
  <2>4. BreakerTypeOK'
    BY <1>1, <1>3, <2>1, <2>2, <2>3 DEF Breakers, Rows
  <2>5. CountsInv' /\ CircuitsAgree' /\ ProbeAccounted'
    BY <2>1, <2>2, <2>3 DEF CountsInv, CircuitsAgree, ProbeAccounted
  <2>6. QED
    BY <2>4, <2>5
<1>4. QED
  BY <1>1, <1>2, <1>3 DEF Granted

LEMMA BreakerStepInv == BreakerAssumption /\ BreakerInv /\ [BreakerNext]_breakerVars => BreakerInv'
<1> SUFFICES ASSUME BreakerAssumption, BreakerInv, [BreakerNext]_breakerVars PROVE BreakerInv'
  OBVIOUS
<1> cb \in Breakers /\ sm \in Rows /\ clock \in 0..MaxTime
    /\ CountsInv /\ CircuitsAgree /\ ProbeAccounted
  BY DEF BreakerInv, BreakerTypeOK, Breakers, Rows
<1>1. ASSUME NEW c \in Callers, AllowProbe(c) PROVE BreakerInv'
  BY <1>1, GrantedInv
<1>2. ASSUME NEW c \in Callers, Success(c) PROVE BreakerInv'
  BY <1>2, SucceededKeeps, BookedInv DEF Success
<1>3. ASSUME NEW c \in Callers, TransportError(c) PROVE BreakerInv'
  BY <1>3, FailedKeeps, BookedInv DEF TransportError
<1>4. ASSUME NEW c \in Callers, LimitAnswer(c) PROVE BreakerInv'
  <2>1. PICK l \in Limits : Book(Limited(l[1], l[2]))
    BY <1>4 DEF LimitAnswer
  <2>2. Keeps(Limited(l[1], l[2]))
    BY LimitsKnown, LimitedKeeps
  <2>3. Answered(c) /\ UNCHANGED lostProbe
    BY <1>4 DEF LimitAnswer
  <2>4. QED
    BY <2>1, <2>2, <2>3, BookedInv
<1>5. ASSUME NEW c \in Callers, OtherAnswer(c) PROVE BreakerInv'
  <2>1. BreakerTypeOK' /\ CountsInv' /\ CircuitsAgree'
    BY <1>5 DEF OtherAnswer, Answered, BreakerInv, BreakerTypeOK, CountsInv, CircuitsAgree
  <2>2. ProbeAccounted'
    BY <1>5 DEF OtherAnswer, Answered, BreakerInv, BreakerTypeOK, ProbeAccounted
  <2>3. QED
    BY <2>1, <2>2 DEF BreakerInv
<1>6. CASE SetAdminState
  <2>1. PICK state \in {"enabled", "disabled"} : sm' = [sm EXCEPT !.admin = state]
    BY <1>6 DEF SetAdminState
  <2>2. sm' \in Rows /\ sm'.failed = sm.failed /\ sm'.circuit = sm.circuit
    BY <2>1 DEF Rows
  <2>3. QED
    BY <1>6, <2>2 DEF SetAdminState, BreakerInv, BreakerTypeOK, Rows, CountsInv, CircuitsAgree, ProbeAccounted
<1>7. CASE RecoverCircuit
  <2>1. 0 \in 0..MaxCount /\ 0 <= cb.failed
    BY DEF BreakerAssumption, Breakers
  <2>2. sm' \in Rows /\ sm'.failed = 0
    BY <1>7, <2>1 DEF RecoverCircuit, Rows, Circuits, Healths
  <2>3. QED
    BY <1>7, <2>1, <2>2
       DEF RecoverCircuit, BreakerInv, BreakerTypeOK, Rows, CountsInv, CircuitsAgree, ProbeAccounted
<1>8. CASE ResetQuota
  <2>1. sm' \in Rows /\ sm'.failed = sm.failed /\ sm'.circuit = sm.circuit
    BY <1>8 DEF ResetQuota, Rows, Quotas
  <2>2. QED
    BY <1>8, <2>1 DEF ResetQuota, BreakerInv, BreakerTypeOK, Rows, CountsInv, CircuitsAgree, ProbeAccounted
<1>9. CASE Advance
  <2>1. clock' \in 0..MaxTime
    BY <1>9 DEF Advance, BreakerAssumption
  <2>2. QED
    BY <1>9, <2>1 DEF Advance, BreakerInv, BreakerTypeOK, CountsInv, CircuitsAgree, ProbeAccounted
<1>10. CASE UNCHANGED breakerVars
  BY <1>10 DEF breakerVars, BreakerInv, BreakerTypeOK, CountsInv, CircuitsAgree, ProbeAccounted
<1>11. QED
  BY <1>1, <1>2, <1>3, <1>4, <1>5, <1>6, <1>7, <1>8, <1>9, <1>10 DEF BreakerNext

LEMMA BreakerAlwaysInv == BreakerSpec => []BreakerInv
<1>1. BreakerInit => BreakerInv
  BY BreakerAssumption, BreakerInitInv
<1>2. BreakerInv /\ [BreakerNext]_breakerVars => BreakerInv'
  BY BreakerAssumption, BreakerStepInv
<1>3. QED
  BY <1>1, <1>2, PTL DEF BreakerSpec

-----------------------------------------------------------------------------
\* The snapshot shows the circuit the breaker acts on, until somebody closes it by hand, for
\* any thresholds of which the snapshot's is not the lower: RecordFailure, RecordSuccess and
\* RecordLimitError, each with the snapshot's own bookkeeping after it, in any order of answers.
THEOREM CircuitsInStep == BreakerSpec => []CircuitsAgree
<1>1. BreakerInv => CircuitsAgree
  BY DEF BreakerInv
<1>2. QED
  BY <1>1, BreakerAlwaysInv, PTL

\* A half-open circuit never waits for a probe that nobody holds, but after the one kind of
\* answer the observer books nothing of.
THEOREM ProbeIsHeld == BreakerSpec => []ProbeAccounted
<1>1. BreakerInv => ProbeAccounted
  BY DEF BreakerInv
<1>2. QED
  BY <1>1, BreakerAlwaysInv, PTL

-----------------------------------------------------------------------------
(***************************************************************************)
(* The scheduler: its loops, for any number of starts and any clock.       *)
(***************************************************************************)
\* A loop, or a scheduler that runs, has been started: nothing runs on the channels 0.
Started ==
  /\ stopChan = doneChan
  /\ running => doneChan \in Loops
  /\ \A l \in Loops : loop[l].pc # "off" => doneChan \in Loops
  /\ \A l \in Loops : loop[l].pc \in {"top", "select"} => loop[l].done \in Loops

\* Only the loop of the last Start can be there, on that Start's channels.
LastLoop ==
  /\ \A l \in Loops : loop[l].pc # "off" => l = doneChan
  /\ \A l \in Loops : loop[l].pc \in {"top", "select"} => loop[l].done = doneChan
  /\ \A l \in Loops : loop[l].pc = "select" => loop[l].stop = doneChan
  /\ \A n \in closed.done : n <= doneChan

\* The loop is there until it has closed its done channel, and no longer.
Present == \E l \in Loops : loop[l].pc # "off"
Accounted ==
  /\ doneChan \in closed.done => ~Present
  /\ running \/ (\E o \in Owners : InStop(o)) => Present \/ doneChan \in closed.done
  /\ ~running /\ (\A o \in Owners : ~InStop(o)) => ~Present
  /\ ~panicked

\* Whoever is in Stop stops the loop of the last Start, and waits for its channel.
Waited ==
  \A o \in Owners : InStop(o) =>
    ~running /\ stopChan \in closed.stop /\ Awaited(o) = doneChan

LoopInv == Started /\ (~overlapped => LastLoop /\ Accounted /\ Waited)

-----------------------------------------------------------------------------
LEMMA LoopInitInv == SchedInit => LoopInv
<1> SUFFICES ASSUME SchedInit PROVE LoopInv
  OBVIOUS
<1>1. Started /\ LastLoop
  BY DEF SchedInit, Started, LastLoop
<1>2. \A o \in Owners : ~InStop(o)
  BY DEF SchedInit, InStop
<1>3. Accounted /\ Waited
  BY <1>2 DEF SchedInit, Accounted, Present, Waited
<1>4. QED
  BY <1>1, <1>3 DEF LoopInv

LEMMA LoopStepInv ==
  SchedulerAssumption /\ SchedTypeOK /\ LoopInv /\ [SchedNext]_schedVars => LoopInv'
<1> SUFFICES ASSUME SchedulerAssumption, SchedTypeOK, LoopInv, [SchedNext]_schedVars PROVE LoopInv'
  OBVIOUS
<1> USE DEF LoopInv
<1>0. /\ Loops \subseteq Nat \ {0} /\ doneChan \in Nat /\ stopChan \in Nat
      /\ loop \in [Loops -> [pc : {"off", "born", "top", "select"},
                             stop : Loops \cup {0}, done : Loops \cup {0}]]
      /\ closed \in [stop : SUBSET Loops, done : SUBSET Loops]
      /\ stopping \in [Owners -> [pc : {"idle", "unlocked", "waiting"}, done : Loops \cup {0}]]
      /\ running \in BOOLEAN /\ overlapped \in BOOLEAN
  BY DEF SchedulerAssumption, SchedTypeOK
<1>1. CASE UNCHANGED lifeVars
  BY <1>1 DEF lifeVars, Started, LastLoop, Accounted, Present, Waited, InStop, Awaited
<1>2. CASE Start
  <2>1. /\ doneChan + 1 \in Loops /\ ~running
        /\ running' = TRUE /\ stopChan' = doneChan + 1 /\ doneChan' = doneChan + 1
        /\ UNCHANGED <<closed, stopping, panicked>>
    BY <1>2 DEF Start, Started
  <2>2. /\ loop'[doneChan + 1].pc = "born"
        /\ \A l \in Loops : l # doneChan + 1 => loop'[l] = loop[l]
        /\ loop'[doneChan + 1].done = loop[doneChan + 1].done
    BY <1>0, <1>2, <2>1 DEF Start
  <2>3. Started'
    BY <2>1, <2>2 DEF Started
  <2>4. ASSUME ~overlapped' PROVE (LastLoop /\ Accounted /\ Waited)'
    <3>1. ~overlapped /\ \A o \in Owners : ~InStop(o)
      BY <1>2, <2>4 DEF Start
    <3>2. ~Present /\ LastLoop
      BY <2>1, <3>1 DEF Accounted
    <3>3. LastLoop'
      BY <1>0, <2>1, <2>2, <3>2 DEF LastLoop, Present
    <3>4. Present' /\ doneChan' \notin closed'.done
      BY <1>0, <2>1, <2>2, <3>2 DEF Present, LastLoop
    <3>5. \A o \in Owners : ~InStop(o)'
      BY <2>1, <3>1 DEF InStop
    <3>6. Accounted' /\ Waited'
      BY <2>1, <3>1, <3>4, <3>5 DEF Accounted, Waited
    <3>7. QED
      BY <3>3, <3>6
  <2>5. QED
    BY <2>3, <2>4
<1>3. ASSUME NEW o \in Owners, Stop(o)
      PROVE  LoopInv'
  <2>1. /\ running /\ running' = FALSE /\ stopping'[o].pc = "unlocked"
        /\ \A q \in Owners : q # o => stopping'[q] = stopping[q]
        /\ closed'.done = closed.done /\ stopChan \in closed'.stop
        /\ UNCHANGED <<stopChan, doneChan, loop, panicked, overlapped>>
    BY <1>0, <1>3 DEF Stop
  <2>2. Started'
    BY <2>1 DEF Started
  <2>3. ASSUME ~overlapped PROVE (LastLoop /\ Accounted /\ Waited)'
    <3>1. LastLoop'
      BY <2>1, <2>3 DEF LastLoop
    <3>2. Accounted'
      BY <2>1, <2>3 DEF Accounted, Present, InStop
    <3>3. \A q \in Owners : InStop(q)' => q = o
      BY <2>1, <2>3 DEF Waited, InStop
    <3>4. Waited'
      BY <2>1, <3>3 DEF Waited, Awaited
    <3>5. QED
      BY <3>1, <3>2, <3>4
  <2>4. QED
    BY <2>1, <2>2, <2>3
<1>4. ASSUME NEW o \in Owners, StopWait(o)
      PROVE  LoopInv'
  <2>1. /\ stopping[o].pc = "unlocked"
        /\ stopping'[o].pc = "waiting" /\ stopping'[o].done = doneChan
        /\ \A q \in Owners : q # o => stopping'[q] = stopping[q]
        /\ UNCHANGED <<running, stopChan, doneChan, closed, loop, panicked, overlapped>>
    BY <1>0, <1>4 DEF StopWait
  <2>2. \A q \in Owners : InStop(q)' <=> InStop(q)
    BY <2>1 DEF InStop
  <2>3. QED
    BY <2>1, <2>2 DEF Started, LastLoop, Accounted, Present, Waited, Awaited
<1>5. ASSUME NEW o \in Owners, Stopped(o)
      PROVE  LoopInv'
  <2>1. /\ stopping[o].pc = "waiting" /\ stopping[o].done \in closed.done
        /\ stopping'[o].pc = "idle"
        /\ \A q \in Owners : q # o => stopping'[q] = stopping[q]
        /\ UNCHANGED <<running, stopChan, doneChan, closed, loop, panicked, overlapped>>
    BY <1>0, <1>5 DEF Stopped
  <2>2. \A q \in Owners : InStop(q)' => InStop(q)
    BY <2>1 DEF InStop
  <2>3. ASSUME ~overlapped PROVE (LastLoop /\ Accounted /\ Waited)'
    <3>1. doneChan \in closed.done /\ ~Present
      BY <2>1, <2>3 DEF Waited, Awaited, InStop, Accounted
    <3>2. LastLoop' /\ Accounted'
      BY <2>1, <2>2, <2>3, <3>1 DEF LastLoop, Accounted, Present
    <3>3. Waited'
      BY <2>1, <2>2, <2>3 DEF Waited, Awaited, InStop
    <3>4. QED
      BY <3>2, <3>3
  <2>4. QED
    BY <2>1, <2>3 DEF Started
<1>6. ASSUME NEW l \in Loops, LoopBegin(l) \/ LoopSelect(l) \/ Tick(l)
      PROVE  LoopInv'
  <2>1. /\ loop[l].pc # "off" /\ loop'[l].pc \in {"top", "select"}
        /\ loop'[l].done = IF loop[l].pc = "born" THEN doneChan ELSE loop[l].done
        /\ loop'[l].pc = "select" => loop'[l].stop = stopChan
        /\ \A k \in Loops : k # l => loop'[k] = loop[k]
        /\ UNCHANGED <<running, stopChan, doneChan, closed, stopping, panicked, overlapped>>
    BY <1>0, <1>6 DEF LoopBegin, LoopSelect, Tick
  <2>2. Started'
    BY <1>0, <2>1 DEF Started
  <2>3. Present /\ Present' /\ (Waited => Waited')
    BY <2>1 DEF Present, Waited, Awaited, InStop
  <2>4. ASSUME ~overlapped PROVE LastLoop' /\ Accounted'
    <3>1. LastLoop'
      BY <1>0, <2>1, <2>4 DEF LastLoop, Started
    <3>2. Accounted'
      BY <2>1, <2>3, <2>4 DEF Accounted, InStop
    <3>3. QED
      BY <3>1, <3>2
  <2>5. QED
    BY <2>1, <2>2, <2>3, <2>4
<1>7. ASSUME NEW l \in Loops, LoopExit(l)
      PROVE  LoopInv'
  <2>1. /\ loop[l].pc = "select" /\ loop'[l].pc = "off"
        /\ \A k \in Loops : k # l => loop'[k] = loop[k]
        /\ closed'.done = closed.done \cup {loop[l].done} /\ closed'.stop = closed.stop
        /\ panicked' = (loop[l].done \in closed.done)
        /\ UNCHANGED <<running, stopChan, doneChan, stopping, overlapped>>
    BY <1>0, <1>7 DEF LoopExit, MustExit
  <2>2. Started' /\ (Waited => Waited')
    BY <2>1 DEF Started, Waited, Awaited, InStop
  <2>3. ASSUME ~overlapped PROVE LastLoop' /\ Accounted'
    <3>1. l = doneChan /\ loop[l].done = doneChan /\ Present /\ doneChan \notin closed.done
      BY <2>1, <2>3 DEF LastLoop, Present, Accounted
    <3>2. LastLoop'
      <4>1. \A k \in Loops : loop'[k].pc = "off"
        BY <2>1, <2>3, <3>1 DEF LastLoop
      <4>2. \A n \in closed'.done : n <= doneChan
        <5>1. \A n \in closed.done : n <= doneChan
          BY <2>3 DEF LastLoop
        <5>2. doneChan <= doneChan
          BY <1>0
        <5>3. QED
          BY <2>1, <3>1, <5>1, <5>2
      <4>3. QED
        BY <2>1, <4>1, <4>2 DEF LastLoop
    <3>3. ~Present'
      BY <2>1, <2>3, <3>1 DEF Present, LastLoop
    <3>4. Accounted'
      BY <2>1, <2>3, <3>1, <3>3 DEF Accounted, InStop
    <3>5. QED
      BY <3>2, <3>4
  <2>4. QED
    BY <2>1, <2>2, <2>3
<1>8. CASE Cancel
  BY <1>8 DEF Cancel, Started, LastLoop, Accounted, Present, Waited, InStop, Awaited
<1>9. CASE UNCHANGED schedVars
  BY <1>1, <1>9 DEF schedVars
<1>10. QED
  BY <1>1, <1>2, <1>3, <1>4, <1>5, <1>6, <1>7, <1>8, <1>9
     DEF SchedNext, PollAll, PollStart, PollAbandoned, PollOK, PollFailed, AdvanceWall

-----------------------------------------------------------------------------
(***************************************************************************)
(* The types of the scheduler.                                             *)
(***************************************************************************)
LEMMA SchedNowTime == ASSUME SchedTypeOK PROVE SchedNow \in Int
BY DEF SchedTypeOK, SchedNow, None

LEMMA ReportsKnown == \A q \in QuotaReports : q \in {"healthy", "low", "exhausted"}
BY DEF QuotaReports, QuotaOf

LEMMA BackoffTime ==
  ASSUME SchedulerAssumption, NEW n \in 1..MaxFails
  PROVE  Backoff(n) \in Int
<1>1. n - 1 \in Nat /\ InitialBackoff \in Nat /\ MaxBackoff \in Nat
  BY DEF SchedulerAssumption
<1>2. 2 ^ (n - 1) \in Int
  BY <1>1, SMT
<1> DEFINE b == InitialBackoff * 2 ^ (n - 1)
<1>3. b \in Int
  BY <1>1, <1>2, SMT
<1>4. QED
  BY <1>1, <1>3 DEF Backoff

LEMMA SchedInitType == SchedulerAssumption /\ SchedInit => SchedTypeOK
<1> SUFFICES ASSUME SchedulerAssumption, SchedInit PROVE SchedTypeOK
  OBVIOUS
<1>1. 0 \in 0..MaxFails /\ 0 \in 0..MaxNow
  BY DEF SchedulerAssumption
<1>2. /\ wall \in 0..MaxNow /\ tickAt \in 0..MaxNow \cup {None}
      /\ sched \in [failures : 0..MaxFails, next : Int]
  BY <1>1 DEF SchedInit
<1>3. /\ shown \in [health : {"healthy", "degraded", "unavailable"},
                    quota : {"healthy", "low", "exhausted"}]
      /\ polling \in [Pollers -> {"no", "wait", "up"}]
  BY DEF SchedInit
<1>4. /\ loop \in [Loops -> [pc : {"off", "born", "top", "select"},
                             stop : Loops \cup {0}, done : Loops \cup {0}]]
      /\ stopping \in [Owners -> [pc : {"idle", "unlocked", "waiting"}, done : Loops \cup {0}]]
      /\ closed \in [stop : SUBSET Loops, done : SUBSET Loops]
  BY DEF SchedInit
<1>5. QED
  BY <1>2, <1>3, <1>4 DEF SchedInit, SchedTypeOK

LEMMA PollType ==
  ASSUME SchedTypeOK, NEW poller \in Pollers, NEW where \in {"no", "wait", "up"}, Poll(poller, where)
  PROVE  polling' \in [Pollers -> {"no", "wait", "up"}]
BY DEF SchedTypeOK, Poll

LEMMA SchedStepType ==
  SchedulerAssumption /\ SchedTypeOK /\ LoopInv /\ [SchedNext]_schedVars => SchedTypeOK'
<1> SUFFICES ASSUME SchedulerAssumption, SchedTypeOK, LoopInv, [SchedNext]_schedVars PROVE SchedTypeOK'
  OBVIOUS
<1> USE DEF schedVars, pollVars, lifeVars
<1>1. CASE PollAll
  <2>1. polling' \in [Pollers -> {"no", "wait", "up"}]
    BY <1>1, PollType DEF PollAll, Pollers
  <2>2. QED
    BY <1>1, <2>1 DEF PollAll, SchedTypeOK
<1>2. ASSUME NEW poller \in Pollers, PollStart(poller) \/ PollAbandoned(poller) PROVE SchedTypeOK'
  <2>1. polling' \in [Pollers -> {"no", "wait", "up"}]
    BY <1>2, PollType DEF PollStart, PollAbandoned
  <2>2. QED
    BY <1>2, <2>1 DEF PollStart, PollAbandoned, SchedTypeOK
<1>3. ASSUME NEW poller \in Pollers, PollOK(poller) PROVE SchedTypeOK'
  <2>1. polling' \in [Pollers -> {"no", "wait", "up"}]
    BY <1>3, PollType DEF PollOK
  <2>2. sched' \in [failures : 0..MaxFails, next : Int]
    BY <1>3, SchedNowTime DEF PollOK, SchedulerAssumption
  <2>3. shown' \in [health : {"healthy", "degraded", "unavailable"},
                    quota : {"healthy", "low", "exhausted"}]
    BY <1>3, ReportsKnown DEF PollOK, SchedTypeOK
  <2>4. QED
    BY <1>3, <2>1, <2>2, <2>3 DEF PollOK, SchedTypeOK
<1>4. ASSUME NEW poller \in Pollers, PollFailed(poller) PROVE SchedTypeOK'
  <2> DEFINE n == IF sched.failures < MaxFails THEN sched.failures + 1 ELSE MaxFails
  <2>1. polling' \in [Pollers -> {"no", "wait", "up"}]
    BY <1>4, PollType DEF PollFailed
  <2>2. n \in 1..MaxFails /\ n \in 0..MaxFails
    BY DEF SchedTypeOK, SchedulerAssumption
  <2>3. SchedNow + Backoff(n) \in Int
    BY <2>2, SchedNowTime, BackoffTime
  <2>4. /\ sched' = [failures |-> n, next |-> SchedNow + Backoff(n)]
        /\ shown' = [shown EXCEPT !.health = IF n >= 5 THEN "unavailable"
                                           ELSE IF n >= 2 THEN "degraded" ELSE @]
    BY <1>4 DEF PollFailed
  <2> HIDE DEF n
  <2>5. sched' \in [failures : 0..MaxFails, next : Int]
    BY <2>2, <2>3, <2>4
  <2>6. shown' \in [health : {"healthy", "degraded", "unavailable"},
                    quota : {"healthy", "low", "exhausted"}]
    BY <2>4 DEF SchedTypeOK
  <2>7. QED
    BY <1>4, <2>1, <2>5, <2>6 DEF PollFailed, SchedTypeOK
<1>5. CASE Start
  <2>1. loop' \in [Loops -> [pc : {"off", "born", "top", "select"},
                             stop : Loops \cup {0}, done : Loops \cup {0}]]
    BY <1>5 DEF Start, SchedTypeOK
  <2>2. stopChan' \in Loops /\ doneChan' \in Loops /\ overlapped' \in BOOLEAN
    BY <1>5 DEF Start, LoopInv, Started
  <2>3. QED
    BY <1>5, <2>1, <2>2 DEF Start, SchedTypeOK
<1>6. ASSUME NEW o \in Owners, Stop(o) \/ StopWait(o) \/ Stopped(o) PROVE SchedTypeOK'
  <2>1. closed' \in [stop : SUBSET Loops, done : SUBSET Loops]
    BY <1>6 DEF Stop, StopWait, Stopped, LoopInv, Started, SchedTypeOK
  <2>2. stopping' \in [Owners -> [pc : {"idle", "unlocked", "waiting"}, done : Loops \cup {0}]]
    BY <1>6 DEF Stop, StopWait, Stopped, SchedTypeOK
  <2>3. QED
    BY <1>6, <2>1, <2>2 DEF Stop, StopWait, Stopped, SchedTypeOK
<1>8. CASE Cancel
  BY <1>8 DEF Cancel, SchedTypeOK
<1>9. ASSUME NEW l \in Loops, LoopBegin(l) \/ LoopSelect(l) PROVE SchedTypeOK'
  <2>1. loop' \in [Loops -> [pc : {"off", "born", "top", "select"},
                             stop : Loops \cup {0}, done : Loops \cup {0}]]
    BY <1>9 DEF LoopBegin, LoopSelect, SchedTypeOK
  <2>2. QED
    BY <1>9, <2>1 DEF LoopBegin, LoopSelect, SchedTypeOK
<1>10. ASSUME NEW l \in Loops, Tick(l) PROVE SchedTypeOK'
  <2>1. polling' \in [Pollers -> {"no", "wait", "up"}]
    BY <1>10, PollType DEF Tick, Pollers, SchedTypeOK
  <2>2. loop' \in [Loops -> [pc : {"off", "born", "top", "select"},
                             stop : Loops \cup {0}, done : Loops \cup {0}]]
    BY <1>10 DEF Tick, SchedTypeOK
  <2>3. QED
    BY <1>10, <2>1, <2>2 DEF Tick, SchedTypeOK
<1>11. ASSUME NEW l \in Loops, LoopExit(l) PROVE SchedTypeOK'
  <2>1. loop' \in [Loops -> [pc : {"off", "born", "top", "select"},
                             stop : Loops \cup {0}, done : Loops \cup {0}]]
    BY <1>11 DEF LoopExit, SchedTypeOK
  <2>2. loop[l].done \in Loops
    BY <1>11 DEF LoopExit, MustExit, LoopInv, Started
  <2>3. closed' \in [stop : SUBSET Loops, done : SUBSET Loops]
    BY <1>11, <2>2 DEF LoopExit, SchedTypeOK
  <2>4. panicked' \in BOOLEAN
    BY <1>11 DEF LoopExit
  <2>5. QED
    BY <1>11, <2>1, <2>3, <2>4 DEF LoopExit, SchedTypeOK
<1>12. CASE AdvanceWall
  BY <1>12 DEF AdvanceWall, SchedTypeOK, SchedulerAssumption
<1>13. CASE UNCHANGED schedVars
  BY <1>13 DEF SchedTypeOK
<1>14. QED
  BY <1>1, <1>2, <1>3, <1>4, <1>5, <1>6, <1>8, <1>9, <1>10, <1>11, <1>12, <1>13 DEF SchedNext

LEMMA LoopAlwaysInv == SchedSpec => [](SchedTypeOK /\ LoopInv)
<1>1. SchedInit => SchedTypeOK /\ LoopInv
  BY SchedulerAssumption, LoopInitInv, SchedInitType
<1>2. SchedTypeOK /\ LoopInv /\ [SchedNext]_schedVars => (SchedTypeOK /\ LoopInv)'
  BY SchedulerAssumption, LoopStepInv, SchedStepType
<1>3. QED
  BY <1>1, <1>2, PTL DEF SchedSpec

-----------------------------------------------------------------------------
\* However often any number of goroutines start, stop and cancel the scheduler, as long as no
\* Start is made before an earlier Stop has returned: at most one loop runs, none when every
\* Stop has returned, and no channel is closed twice.
THEOREM OneLoopAlways == SchedSpec => []OneLoop
<1>1. LoopInv => OneLoop
  <2> SUFFICES ASSUME LoopInv, ~overlapped PROVE OneLoop
    BY DEF OneLoop
  <2> DEFINE live == {l \in Loops : loop[l].pc # "off"}
  <2>1. live \subseteq {doneChan}
    BY DEF LoopInv, LastLoop
  <2>2. Cardinality(live) <= 1
    <3> HIDE DEF live
    <3>1. IsFiniteSet({doneChan}) /\ Cardinality({doneChan}) = 1
      BY FS_Singleton
    <3>2. IsFiniteSet(live) /\ Cardinality(live) <= Cardinality({doneChan})
      BY <2>1, <3>1, FS_Subset
    <3>3. Cardinality(live) \in Nat
      BY <3>2, FS_CardinalityType
    <3>4. QED
      BY <3>1, <3>2, <3>3
  <2>3. QED
    BY <2>2 DEF OneLoop, LoopInv, Accounted, Present
<1>2. QED
  BY <1>1, LoopAlwaysInv, PTL

\* As long as no Start is made before an earlier Stop has returned, Stop never waits for a
\* channel that nobody is going to close, whatever polls and cancellations it races.
THEOREM StopIsAnswered == SchedSpec => []StopHasLoop
<1>1. SchedTypeOK /\ LoopInv => StopHasLoop
  <2> SUFFICES ASSUME SchedTypeOK, LoopInv, ~overlapped, NEW o \in Owners, InStop(o)
               PROVE  /\ stopChan \in closed.stop
                      /\ Awaited(o) \in closed.done \/ \E l \in Loops : WillClose(l, Awaited(o))
    BY DEF StopHasLoop
  <2>1. stopChan \in closed.stop /\ Awaited(o) = doneChan /\ stopChan = doneChan
    BY DEF LoopInv, Started, Waited
  <2>2. CASE doneChan \in closed.done
    BY <2>1, <2>2
  <2>3. ASSUME NEW l \in Loops, loop[l].pc # "off" PROVE WillClose(l, doneChan)
    <3>1. loop[l].pc \in {"born", "top", "select"}
      BY <2>3 DEF SchedTypeOK
    <3>2. QED
      BY <2>1, <3>1 DEF WillClose, LoopInv, LastLoop
  <2>4. QED
    BY <2>1, <2>2, <2>3 DEF LoopInv, Accounted, Present
<1>2. QED
  BY <1>1, LoopAlwaysInv, PTL

-----------------------------------------------------------------------------
(***************************************************************************)
(* The store and the registry of runtime lanes.                            *)
(***************************************************************************)
\* A call that is alone is the only one about its lane.
Apart ==
  \A c, d \in LaneCalls :
    c # d /\ laneCall[c].pc # "idle" /\ laneCall[d].pc # "idle" /\ laneCall[c].lane = laneCall[d].lane
      => ~laneCall[c].alone

\* The steps of a call are those of what it does.
InPlace(call) ==
  /\ call.pc = "idle" => call.op = "none"
  /\ call.pc # "idle" => call.lane \in LaneNames
  /\ call.pc = "store" => call.def \in Defs
  /\ call.pc \in {"store", "reread"} => call.op = "add"
  /\ call.pc \in {"remove", "unregister"} => call.op = "remove"
  /\ call.pc = "register" => call.op \in {"add", "rebuild"}

\* What a call that is alone may rely on: s is what the store has for its lane.
Relies(call, s) ==
  call.alone =>
    /\ call.pc \in {"reread", "register"} => s = call.def
    /\ call.pc = "remove" /\ call.def = NoDef => s \notin OpenAIDefs
    /\ call.pc = "unregister" => s \notin OpenAIDefs

CallsInv == \A c \in LaneCalls : InPlace(laneCall[c]) /\ Relies(laneCall[c], stored[laneCall[c].lane])

SettleInv == LanesTypeOK /\ Apart /\ CallsInv

Calls == [op : {"none", "add", "remove", "rebuild"},
          pc : {"idle", "store", "reread", "register", "remove", "unregister"},
          lane : LaneNames \cup {NoDef}, def : Defs \cup {NoDef}, alone : BOOLEAN]

-----------------------------------------------------------------------------
\* The store of a restart is the one the file has, and a change is in both or in none.
LEMMA StoreStep == StoreIsFile /\ [LanesNext]_laneVars => StoreIsFile'
<1> SUFFICES ASSUME StoreIsFile, [LanesNext]_laneVars PROVE StoreIsFile'
  OBVIOUS
<1>1. CASE UNCHANGED storeVars
  BY <1>1 DEF StoreIsFile, storeVars, NoLanes
<1>2. ASSUME NEW c \in LaneCalls, AddStore(c) \/ RemoveStored(c) PROVE StoreIsFile'
  BY <1>2 DEF AddStore, RemoveStored, Save, StoreIsFile
<1>3. CASE LanesRestart
  BY <1>3 DEF LanesRestart, StoreIsFile, NoLanes
<1>4. CASE UNCHANGED laneVars
  BY <1>1, <1>4 DEF laneVars
<1>5. QED
  BY <1>1, <1>2, <1>3, <1>4
     DEF LanesNext, AddBegin, AddReread, AddRegister, AddFails, RemoveBegin, RemoveFails,
         RemoveUnregister, RebuildBegin, RebuildFails, RebuildRegister

-----------------------------------------------------------------------------
\* A call that begins: those about its lane are no longer alone.
LEMMA BeginInv ==
  ASSUME LanesAssumption, SettleInv, NEW c \in LaneCalls, NEW op \in {"add", "remove", "rebuild"},
         NEW pc \in {"store", "remove", "register"}, NEW l \in LaneNames, NEW d \in Defs \cup {NoDef},
         Begin(c, op, pc, l, d), UNCHANGED <<registry, storeVars>>,
         InPlace([op |-> op, pc |-> pc, lane |-> l, def |-> d, alone |-> TRUE]),
         pc = "register" => stored[l] = d,
         pc = "remove" /\ d = NoDef => stored[l] \notin OpenAIDefs
  PROVE  SettleInv'
<1> DEFINE others == {o \in LaneCalls : laneCall[o].pc # "idle" /\ laneCall[o].lane = l}
           new == [op |-> op, pc |-> pc, lane |-> l, def |-> d, alone |-> others = {}]
<1>1. laneCall \in [LaneCalls -> Calls]
  BY DEF SettleInv, LanesTypeOK, Calls
<1>2. new \in Calls
  BY DEF Calls
<1>3. /\ laneCall[c].pc = "idle"
      /\ laneCall' = [o \in LaneCalls |->
           CASE o = c -> new
             [] o \in others -> [laneCall[o] EXCEPT !.alone = FALSE]
             [] OTHER -> laneCall[o]]
  BY DEF Begin
<1> HIDE DEF new
<1>4. laneCall'[c] = new
  BY <1>3
<1>5. ASSUME NEW o \in LaneCalls, o # c
      PROVE  laneCall'[o] = IF o \in others THEN [laneCall[o] EXCEPT !.alone = FALSE] ELSE laneCall[o]
  BY <1>3, <1>5
<1>6. ASSUME NEW o \in LaneCalls, o # c
      PROVE  /\ laneCall'[o] \in Calls
             /\ laneCall'[o].op = laneCall[o].op /\ laneCall'[o].pc = laneCall[o].pc
             /\ laneCall'[o].lane = laneCall[o].lane /\ laneCall'[o].def = laneCall[o].def
             /\ laneCall'[o].alone => laneCall[o].alone /\ o \notin others
  <2>1. laneCall[o] \in Calls
    BY <1>1
  <2>2. CASE o \in others
    <3>1. laneCall'[o] = [laneCall[o] EXCEPT !.alone = FALSE]
      BY <1>5, <1>6, <2>2
    <3> HIDE DEF others
    <3>2. QED
      BY <2>1, <3>1 DEF Calls
  <2>3. CASE o \notin others
    <3>1. laneCall'[o] = laneCall[o]
      BY <1>5, <1>6, <2>3
    <3>2. QED
      BY <2>1, <2>3, <3>1
  <2>4. QED
    BY <2>2, <2>3
<1>7. LanesTypeOK'
  <2>1. laneCall' \in [LaneCalls -> Calls]
    BY <1>2, <1>3, <1>4, <1>6
  <2>2. QED
    BY <2>1 DEF SettleInv, LanesTypeOK, Calls, storeVars
<1>8. Apart'
  <2> SUFFICES ASSUME NEW a \in LaneCalls, NEW b \in LaneCalls, a # b,
                      laneCall'[a].pc # "idle", laneCall'[b].pc # "idle",
                      laneCall'[a].lane = laneCall'[b].lane
               PROVE  ~laneCall'[a].alone
    BY DEF Apart
  <2>1. CASE a = c
    <3>1. b # c /\ laneCall[b].pc # "idle" /\ laneCall[b].lane = l
      BY <1>4, <1>6, <2>1 DEF new
    <3>2. others # {}
      BY <3>1
    <3> HIDE DEF others
    <3>3. ~new.alone
      BY <3>2 DEF new
    <3>4. QED
      BY <1>4, <2>1, <3>3
  <2>2. CASE b = c
    <3>1. a \in others
      BY <1>4, <1>6, <2>2 DEF new
    <3>2. QED
      BY <1>6, <2>2, <3>1
  <2>3. CASE a # c /\ b # c
    BY <1>6, <2>3 DEF SettleInv, Apart
  <2>4. QED
    BY <2>1, <2>2, <2>3
<1>9. CallsInv'
  <2> SUFFICES ASSUME NEW o \in LaneCalls
               PROVE  InPlace(laneCall'[o]) /\ Relies(laneCall'[o], stored[laneCall'[o].lane])
    BY DEF CallsInv, storeVars, InPlace, Relies, Defs
  <2>1. CASE o = c
    BY <1>4, <2>1 DEF new, InPlace, Relies
  <2>2. CASE o # c
    BY <1>6, <2>2 DEF SettleInv, CallsInv, InPlace, Relies
  <2>3. QED
    BY <2>1, <2>2
<1>10. QED
  BY <1>7, <1>8, <1>9 DEF SettleInv

\* A call that goes on or ends changes the store, if at all, for its own lane.
LEMMA OwnStepInv ==
  ASSUME LanesAssumption, SettleInv, NEW c \in LaneCalls, NEW next \in Calls,
         laneCall[c].pc # "idle",
         laneCall' = [laneCall EXCEPT ![c] = next],
         registry' \in [LaneNames -> Defs \cup {FromScan, NoDef}],
         stored' \in [LaneNames -> Defs \cup {NoDef}],
         lanesFile' \in [LaneNames -> Defs \cup {NoDef}], unread' \in BOOLEAN,
         \A l \in LaneNames : l # laneCall[c].lane => stored'[l] = stored[l],
         next.pc # "idle" => next.lane = laneCall[c].lane /\ next.alone = laneCall[c].alone,
         InPlace(next),
         next.pc # "idle" => Relies(next, stored'[laneCall[c].lane])
  PROVE  SettleInv'
<1>1. laneCall \in [LaneCalls -> Calls] /\ laneCall' \in [LaneCalls -> Calls]
  BY DEF SettleInv, LanesTypeOK, Calls
<1>2. laneCall'[c] = next /\ \A o \in LaneCalls : o # c => laneCall'[o] = laneCall[o]
  BY <1>1
<1>3. LanesTypeOK'
  BY <1>1 DEF LanesTypeOK, Calls
<1>4. Apart'
  BY <1>2 DEF Apart, SettleInv
<1>5. CallsInv'
  <2> SUFFICES ASSUME NEW o \in LaneCalls
               PROVE  InPlace(laneCall'[o]) /\ Relies(laneCall'[o], stored'[laneCall'[o].lane])
    BY DEF CallsInv, InPlace, Relies, Defs
  <2>1. CASE o = c
    <3>1. CASE next.pc = "idle"
      BY <1>2, <2>1, <3>1 DEF Relies
    <3>2. CASE next.pc # "idle"
      BY <1>2, <2>1, <3>2
    <3>3. QED
      BY <3>1, <3>2
  <2>2. CASE o # c
    <3>1. laneCall'[o] = laneCall[o] /\ InPlace(laneCall[o])
          /\ Relies(laneCall[o], stored[laneCall[o].lane])
      BY <1>2, <2>2 DEF SettleInv, CallsInv
    <3>2. CASE laneCall[o].pc = "idle"
      BY <3>1, <3>2 DEF Relies
    <3>3. CASE laneCall[o].pc # "idle" /\ laneCall[o].lane = laneCall[c].lane
      <4>1. ~laneCall[o].alone
        BY <2>2, <3>3 DEF SettleInv, Apart
      <4>2. QED
        BY <3>1, <4>1 DEF Relies
    <3>4. CASE laneCall[o].pc # "idle" /\ laneCall[o].lane # laneCall[c].lane
      <4>1. laneCall[o].lane \in LaneNames
        BY <3>1, <3>4 DEF InPlace
      <4>2. QED
        BY <3>1, <3>4, <4>1
    <3>5. QED
      BY <3>2, <3>3, <3>4
  <2>3. QED
    BY <2>1, <2>2
<1>6. QED
  BY <1>3, <1>4, <1>5 DEF SettleInv

LEMMA SettleInitInv == LanesAssumption /\ LanesInit => SettleInv
<1> SUFFICES ASSUME LanesAssumption, LanesInit PROVE SettleInv
  OBVIOUS
<1>1. LanesTypeOK
  <2>1. laneCall \in [LaneCalls -> Calls]
    BY DEF LanesInit, NoCall, Calls
  <2>2. QED
    BY <2>1 DEF LanesInit, LanesTypeOK, Calls, Scanned, NoLanes
<1>2. Apart
  BY DEF LanesInit, Apart, NoCall
<1>3. CallsInv
  BY DEF LanesInit, CallsInv, InPlace, Relies, NoCall
<1>4. QED
  BY <1>1, <1>2, <1>3 DEF SettleInv

LEMMA SettleStepInv == LanesAssumption /\ SettleInv /\ [LanesNext]_laneVars => SettleInv'
<1> SUFFICES ASSUME LanesAssumption, SettleInv, [LanesNext]_laneVars PROVE SettleInv'
  OBVIOUS
<1>1. /\ laneCall \in [LaneCalls -> Calls]
      /\ registry \in [LaneNames -> Defs \cup {FromScan, NoDef}]
      /\ stored \in [LaneNames -> Defs \cup {NoDef}]
      /\ lanesFile \in [LaneNames -> Defs \cup {NoDef}] /\ unread \in BOOLEAN
  BY DEF SettleInv, LanesTypeOK, Calls
<1>2. ASSUME NEW c \in LaneCalls
      PROVE  InPlace(laneCall[c]) /\ Relies(laneCall[c], stored[laneCall[c].lane]) /\ laneCall[c] \in Calls
  BY <1>1 DEF SettleInv, CallsInv
<1>3. NoCall \in Calls /\ InPlace(NoCall) /\ NoCall.pc = "idle"
  BY DEF NoCall, Calls, InPlace
<1>4. ASSUME NEW c \in LaneCalls, laneCall[c].pc # "idle", End(c), UNCHANGED storeVars,
             registry' \in [LaneNames -> Defs \cup {FromScan, NoDef}]
      PROVE  SettleInv'
  BY <1>1, <1>3, <1>4, OwnStepInv DEF End, storeVars
<1>5. ASSUME NEW c \in LaneCalls, NEW l \in LaneNames, NEW d \in Defs, AddBegin(c, l, d)
      PROVE  SettleInv'
  BY <1>5, BeginInv DEF AddBegin, InPlace
<1>6. ASSUME NEW c \in LaneCalls, NEW l \in LaneNames, RemoveBegin(c, l)
      PROVE  SettleInv'
  <2> DEFINE d == IF stored[l] \in OpenAIDefs THEN stored[l] ELSE NoDef
  <2>1. d \in Defs \cup {NoDef} /\ (d = NoDef => stored[l] \notin OpenAIDefs)
    BY DEF Defs, LanesAssumption
  <2>2. Begin(c, "remove", "remove", l, d) /\ UNCHANGED <<registry, storeVars>>
    BY <1>6 DEF RemoveBegin
  <2> HIDE DEF d
  <2>3. QED
    BY <2>1, <2>2, BeginInv DEF InPlace
<1>7. ASSUME NEW c \in LaneCalls, NEW l \in LaneNames, RebuildBegin(c, l)
      PROVE  SettleInv'
  <2>1. stored[l] \in Defs \cup {NoDef}
    BY <1>1
  <2>2. QED
    BY <1>7, <2>1, BeginInv DEF RebuildBegin, InPlace
<1>8. ASSUME NEW c \in LaneCalls, AddStore(c)
      PROVE  SettleInv'
  <2> DEFINE call == laneCall[c]
             next == [call EXCEPT !.pc = IF call.def \in OpenAIDefs THEN "reread" ELSE "register"]
  <2>1. call.pc = "store" /\ call.op = "add" /\ call.def \in Defs /\ call.lane \in LaneNames
    BY <1>2, <1>8 DEF AddStore, At, InPlace
  <2>2. stored' = [stored EXCEPT ![call.lane] = call.def]
    BY <1>8, <2>1 DEF AddStore, Save, Saved, On
  <2>3. lanesFile' = stored' /\ unread' = FALSE /\ UNCHANGED registry
    BY <1>8 DEF AddStore, Save
  <2>4. laneCall' = [laneCall EXCEPT ![c] = next]
    BY <1>1, <1>8 DEF AddStore, Step
  <2>5. next \in Calls /\ next.pc \in {"reread", "register"} /\ next.lane = call.lane
        /\ next.alone = call.alone /\ next.def = call.def /\ next.op = "add"
    BY <1>2, <2>1 DEF Calls
  <2>6. stored' \in [LaneNames -> Defs \cup {NoDef}] /\ stored'[call.lane] = call.def
    BY <1>1, <2>1, <2>2
  <2>7. InPlace(next) /\ Relies(next, stored'[call.lane])
    BY <2>1, <2>5, <2>6 DEF InPlace, Relies
  <2>8. \A l \in LaneNames : l # call.lane => stored'[l] = stored[l]
    BY <1>1, <2>2
  <2> HIDE DEF next
  <2>9. QED
    BY <1>1, <2>1, <2>3, <2>4, <2>5, <2>6, <2>7, <2>8, OwnStepInv
<1>9. ASSUME NEW c \in LaneCalls, AddReread(c)
      PROVE  SettleInv'
  <2> DEFINE call == laneCall[c]
  <2>1. PICK d \in {call.def} \cup ({stored[call.lane]} \cap OpenAIDefs) :
          laneCall' = [laneCall EXCEPT ![c].pc = "register", ![c].def = d]
    BY <1>9 DEF AddReread, On
  <2> DEFINE next == [call EXCEPT !.pc = "register", !.def = d]
  <2>2. call.pc = "reread" /\ call.op = "add" /\ call.lane \in LaneNames
    BY <1>2, <1>9 DEF AddReread, At, InPlace
  <2>3. laneCall' = [laneCall EXCEPT ![c] = next]
    BY <1>1, <2>1
  <2>4. d \in Defs \cup {NoDef}
    BY <1>2, <2>1 DEF Calls, Defs
  <2>5. next \in Calls /\ next.pc = "register" /\ next.lane = call.lane
        /\ next.alone = call.alone /\ next.def = d /\ next.op = "add"
    BY <1>2, <2>2, <2>4 DEF Calls
  <2>6. call.alone => d = stored[call.lane]
    BY <1>2, <2>1, <2>2 DEF Relies
  <2>7. InPlace(next) /\ Relies(next, stored[call.lane])
    BY <2>2, <2>5, <2>6 DEF InPlace, Relies
  <2>8. UNCHANGED <<registry, stored, lanesFile, unread>>
    BY <1>9 DEF AddReread, storeVars
  <2> HIDE DEF next
  <2>9. QED
    BY <1>1, <2>2, <2>3, <2>5, <2>7, <2>8, OwnStepInv
<1>10. ASSUME NEW c \in LaneCalls, RemoveStored(c)
       PROVE  SettleInv'
  <2> DEFINE call == laneCall[c]
             next == [call EXCEPT !.pc = "unregister"]
  <2>1. call.pc = "remove" /\ call.op = "remove" /\ call.lane \in LaneNames
    BY <1>2, <1>10 DEF RemoveStored, At, InPlace
  <2>2. stored' = [stored EXCEPT ![call.lane] = NoDef]
    BY <1>10, <2>1 DEF RemoveStored, Save, Saved, On
  <2>3. lanesFile' = stored' /\ unread' = FALSE /\ UNCHANGED registry
    BY <1>10 DEF RemoveStored, Save
  <2>4. laneCall' = [laneCall EXCEPT ![c] = next]
    BY <1>1, <1>10 DEF RemoveStored, Step
  <2>5. next \in Calls /\ next.pc = "unregister" /\ next.lane = call.lane
        /\ next.alone = call.alone /\ next.op = "remove"
    BY <1>2, <2>1 DEF Calls
  <2>6. stored' \in [LaneNames -> Defs \cup {NoDef}] /\ stored'[call.lane] = NoDef
    BY <1>1, <2>1, <2>2
  <2>7. InPlace(next) /\ Relies(next, stored'[call.lane])
    BY <2>1, <2>5, <2>6 DEF InPlace, Relies, LanesAssumption, Defs
  <2>8. \A l \in LaneNames : l # call.lane => stored'[l] = stored[l]
    BY <1>1, <2>2
  <2> HIDE DEF next
  <2>9. QED
    BY <1>1, <2>1, <2>3, <2>4, <2>5, <2>6, <2>7, <2>8, OwnStepInv
<1>11. ASSUME NEW c \in LaneCalls, RemoveFails(c)
       PROVE  SettleInv'
  <2> DEFINE call == laneCall[c]
             next == [call EXCEPT !.pc = "unregister"]
  <2>1. call.pc = "remove" /\ call.op = "remove" /\ call.lane \in LaneNames
    BY <1>2, <1>11 DEF RemoveFails, At, InPlace
  <2>2. UNCHANGED <<registry, stored, lanesFile, unread>>
    BY <1>11 DEF RemoveFails, storeVars
  <2>3. CASE call.def # NoDef
    BY <1>1, <1>4, <1>11, <2>1, <2>2, <2>3 DEF RemoveFails, storeVars
  <2>4. CASE call.def = NoDef
    <3>1. laneCall' = [laneCall EXCEPT ![c] = next]
      BY <1>1, <1>11, <2>4 DEF RemoveFails, Step
    <3>2. next \in Calls /\ next.pc = "unregister" /\ next.lane = call.lane
          /\ next.alone = call.alone /\ next.op = "remove"
      BY <1>2, <2>1 DEF Calls
    <3>3. call.alone => stored[call.lane] \notin OpenAIDefs
      BY <1>2, <2>1, <2>4 DEF Relies
    <3>4. InPlace(next) /\ Relies(next, stored[call.lane])
      BY <2>1, <3>2, <3>3 DEF InPlace, Relies
    <3> HIDE DEF next
    <3>5. QED
      BY <1>1, <2>1, <2>2, <3>1, <3>2, <3>4, OwnStepInv
  <2>5. QED
    BY <2>3, <2>4
<1>12. ASSUME NEW c \in LaneCalls,
              AddRegister(c) \/ RebuildRegister(c) \/ RemoveUnregister(c)
       PROVE  SettleInv'
  <2>1. laneCall[c].def \in Defs \cup {NoDef}
    BY <1>2 DEF Calls
  <2>2. registry' \in [LaneNames -> Defs \cup {FromScan, NoDef}]
    BY <1>1, <1>12, <2>1 DEF AddRegister, RebuildRegister, RemoveUnregister, Register
  <2>3. QED
    BY <1>4, <1>12, <2>2 DEF AddRegister, RebuildRegister, RemoveUnregister, At
<1>13. ASSUME NEW c \in LaneCalls, AddFails(c) \/ RebuildFails(c)
       PROVE  SettleInv'
  <2>1. laneCall[c].pc # "idle"
    BY <1>2, <1>13 DEF AddFails, RebuildFails, At, InPlace
  <2>2. End(c) /\ UNCHANGED <<registry, storeVars>>
    BY <1>13 DEF AddFails, RebuildFails
  <2>3. QED
    BY <1>1, <1>4, <2>1, <2>2
<1>14. CASE LanesRestart
  <2>1. laneCall' = [c \in LaneCalls |-> NoCall]
    BY <1>14 DEF LanesRestart
  <2>2. lanesFile' \in [LaneNames -> Defs \cup {NoDef}]
    BY <1>1, <1>2, <1>14 DEF LanesRestart, Writing, Saved, On, Calls
  <2>3. unread' \in BOOLEAN /\ stored' \in [LaneNames -> Defs \cup {NoDef}]
    BY <1>14, <2>2 DEF LanesRestart, NoLanes
  <2>4. registry' \in [LaneNames -> Defs \cup {FromScan, NoDef}]
    BY <1>14, <2>3 DEF LanesRestart, Scanned
  <2>5. LanesTypeOK'
    BY <1>3, <2>1, <2>2, <2>3, <2>4 DEF LanesTypeOK, Calls
  <2>6. Apart' /\ CallsInv'
    BY <1>3, <2>1 DEF Apart, CallsInv, Relies, InPlace, NoCall
  <2>7. QED
    BY <2>5, <2>6 DEF SettleInv
<1>15. CASE UNCHANGED laneVars
  BY <1>15 DEF laneVars, storeVars, SettleInv, LanesTypeOK, Apart, CallsInv, InPlace, Relies, Defs
<1>16. QED
  BY <1>5, <1>6, <1>7, <1>8, <1>9, <1>10, <1>11, <1>12, <1>13, <1>14, <1>15 DEF LanesNext

-----------------------------------------------------------------------------
\* What a call that is alone knows of the store is what the lane is left as.
LEMMA SettleStep ==
  ASSUME LanesAssumption, SettleInv, LanesNext, NEW c \in LaneCalls,
         laneCall[c].alone, laneCall[c].pc \in {"register", "unregister"}, laneCall'[c].pc = "idle"
  PROVE  LET call == laneCall[c]  l == call.lane IN
           \/ registry'[l] = stored[l]
           \/ call.op = "rebuild" /\ registry'[l] = registry[l]
           \/ call.op = "remove" /\ stored[l] \in CustomDefs
           \/ LanesRestart
<1> DEFINE call == laneCall[c]
<1>1. /\ laneCall \in [LaneCalls -> Calls]
      /\ registry \in [LaneNames -> Defs \cup {FromScan, NoDef}]
      /\ stored \in [LaneNames -> Defs \cup {NoDef}]
  BY DEF SettleInv, LanesTypeOK, Calls
<1>2. call.lane \in LaneNames /\ InPlace(call) /\ Relies(call, stored[call.lane])
  BY DEF SettleInv, CallsInv, InPlace
<1>3. CASE AddRegister(c) \/ RebuildRegister(c)
  <2>1. registry'[call.lane] = call.def
    BY <1>1, <1>2, <1>3 DEF AddRegister, RebuildRegister, Register, On
  <2>2. call.pc = "register"
    BY <1>3 DEF AddRegister, RebuildRegister, At
  <2>3. QED
    BY <1>2, <2>1, <2>2 DEF Relies
<1>4. CASE RemoveUnregister(c)
  <2>1. registry'[call.lane] = NoDef /\ call.pc = "unregister"
    BY <1>1, <1>2, <1>4 DEF RemoveUnregister, Register, On, At
  <2>2. call.op = "remove" /\ stored[call.lane] \notin OpenAIDefs
    BY <1>2, <2>1 DEF InPlace, Relies
  <2>3. stored[call.lane] = NoDef \/ stored[call.lane] \in CustomDefs
    BY <1>1, <1>2, <2>2 DEF Defs
  <2>4. QED
    BY <2>1, <2>2, <2>3
<1>5. CASE RebuildFails(c)
  BY <1>5 DEF RebuildFails
<1>6. ASSUME NEW o \in LaneCalls, NEW op, NEW pc, NEW l, NEW d, Begin(o, op, pc, l, d)
      PROVE  FALSE
  <2>1. c # o
    BY <1>6 DEF Begin
  <2>2. laneCall'[c].pc = call.pc
    BY <1>1, <1>6, <2>1 DEF Begin, Calls
  <2>3. QED
    BY <2>2
<1>7. ASSUME NEW o \in LaneCalls, o # c, NEW next, laneCall' = [laneCall EXCEPT ![o] = next]
      PROVE  FALSE
  BY <1>1, <1>7
<1>8. ASSUME NEW o \in LaneCalls, o # c, NEW pc, Step(o, pc) \/ End(o)
      PROVE  FALSE
  BY <1>1, <1>8 DEF Step, End
<1>9. ASSUME NEW o \in LaneCalls, AddReread(o)
      PROVE  FALSE
  <2>1. o # c
    BY <1>9 DEF AddReread, At
  <2>2. laneCall'[c] = call
    BY <1>1, <1>9, <2>1 DEF AddReread
  <2>3. QED
    BY <2>2
<1>10. ASSUME NEW o \in LaneCalls, AddStore(o) \/ AddFails(o) \/ RemoveStored(o) \/ RemoveFails(o)
       PROVE  FALSE
  <2>1. o # c
    BY <1>10 DEF AddStore, AddFails, RemoveStored, RemoveFails, At
  <2>2. QED
    BY <1>8, <1>10, <2>1 DEF AddStore, AddFails, RemoveStored, RemoveFails
<1>11. ASSUME NEW o \in LaneCalls, o # c,
              AddRegister(o) \/ RebuildRegister(o) \/ RemoveUnregister(o) \/ RebuildFails(o)
       PROVE  FALSE
  BY <1>8, <1>11 DEF AddRegister, RebuildRegister, RemoveUnregister, RebuildFails
<1>12. QED
  BY <1>3, <1>4, <1>5, <1>6, <1>9, <1>10, <1>11
     DEF LanesNext, AddBegin, RemoveBegin, RebuildBegin

-----------------------------------------------------------------------------
\* The daemon that restarts has the lanes of the daemon that ran: nothing is published that
\* is not in providers.json, whatever writes fail and whenever the process dies.
THEOREM StoreSurvives == LanesSpec => []StoreIsFile
<1>1. LanesInit => StoreIsFile
  BY DEF LanesInit, StoreIsFile
<1>2. QED
  BY <1>1, StoreStep, PTL DEF LanesSpec

\* add_provider, remove_provider and a rebuild that had the lane to themselves leave the
\* registry and the store in agreement about it, for any number of calls about other lanes
\* and whatever calls raced before.
THEOREM SoleCallsSettle == LanesSpec => SoleCallSettles
<1>1. LanesInit => SettleInv
  BY LanesAssumption, SettleInitInv
<1>2. SettleInv /\ [LanesNext]_laneVars => SettleInv'
  BY LanesAssumption, SettleStepInv
<1> DEFINE Settles ==
  \A c \in LaneCalls :
    LET call == laneCall[c]  l == call.lane IN
    call.alone /\ call.pc \in {"register", "unregister"} /\ laneCall'[c].pc = "idle"
      => \/ registry'[l] = stored[l]
         \/ call.op = "rebuild" /\ registry'[l] = registry[l]
         \/ call.op = "remove" /\ stored[l] \in CustomDefs
         \/ LanesRestart
<1>3. SettleInv /\ [LanesNext]_laneVars => [Settles]_laneVars
  BY LanesAssumption, SettleStep
<1>4. QED
  BY <1>1, <1>2, <1>3, PTL DEF LanesSpec, SoleCallSettles

-----------------------------------------------------------------------------
(***************************************************************************)
(* The alias catalog and the kill switch.                                  *)
(***************************************************************************)
BitRows == [Names -> {"on", "off", Absent}]
SyncEntries == [pc : {"idle", "list", "diff", "update", "own"}, list : Catalog!Tables, gone : SUBSET Aliases]

-----------------------------------------------------------------------------
(***************************************************************************)
(* The tables.                                                             *)
(***************************************************************************)
LEMMA TableChanges ==
  ASSUME NEW table \in Catalog!Tables, NEW a \in Aliases
  PROVE  /\ \A i \in Ids : Catalog!Put(table, a, i) \in Catalog!Tables
         /\ Catalog!Drop(table, a) \in Catalog!Tables
BY DEF Catalog!Tables, Catalog!Put, Catalog!Drop

LEMMA OverlaidTable ==
  ASSUME CatalogAssumption, NEW file
  PROVE  Catalog!Overlaid(file) \in Catalog!Tables
BY DEF CatalogAssumption, Catalog!Overlaid, Catalog!Tables

LEMMA SyncedAreRows ==
  ASSUME NEW old \in BitRows, NEW list, NEW gone
  PROVE  SyncedRows(old, list, gone) \in BitRows
BY DEF SyncedRows, BitRows

\* What was just written is what a boot reads, but for the configured entries it lacks.
LEMMA WrittenSurvives ==
  ASSUME NEW table \in Catalog!Tables
  PROVE  Catalog!Survives(table, table)
BY DEF Catalog!Survives, Catalog!Overlaid, Catalog!Tables

-----------------------------------------------------------------------------
LEMMA CatalogInitType == CatalogAssumption /\ CatalogInit => CatalogTypeOK
<1> SUFFICES ASSUME CatalogAssumption, CatalogInit PROVE CatalogTypeOK
  OBVIOUS
<1>1. aliases \in Catalog!Tables /\ aliasFile = NoFile /\ saving \in BOOLEAN
  BY DEF CatalogInit, CatalogAssumption, Catalog!Tables
<1>2. rows \in BitRows /\ owned \subseteq Aliases
  BY SyncedAreRows DEF CatalogInit, BitRows, NoRow, Served
<1>3. admin \in [Admins -> SyncEntries]
  <2>1. Idle \in SyncEntries
    BY DEF Idle, SyncEntries, NoAlias, Catalog!Tables
  <2>2. QED
    BY <2>1 DEF CatalogInit
<1>4. QED
  BY <1>1, <1>2, <1>3 DEF CatalogTypeOK, BitRows, SyncEntries

LEMMA CatalogStepType == CatalogAssumption /\ CatalogTypeOK /\ [CatalogNext]_catalogVars => CatalogTypeOK'
<1> SUFFICES ASSUME CatalogAssumption, CatalogTypeOK, [CatalogNext]_catalogVars PROVE CatalogTypeOK'
  OBVIOUS
<1>1. /\ aliases \in Catalog!Tables /\ aliasFile \in Catalog!Tables \cup {NoFile, Garbage}
      /\ saving \in BOOLEAN /\ rows \in BitRows /\ owned \subseteq Aliases
      /\ admin \in [Admins -> SyncEntries]
  BY DEF CatalogTypeOK, BitRows, SyncEntries
<1>2. Idle \in SyncEntries
  BY DEF Idle, SyncEntries, NoAlias, Catalog!Tables
<1>3. ASSUME NEW c \in Admins, NEW next \in Catalog!Tables, ChangeAlias(c, next)
      PROVE  CatalogTypeOK'
  <2>1. admin' \in [Admins -> SyncEntries]
    BY <1>1, <1>3 DEF ChangeAlias, SyncEntries
  <2>2. QED
    BY <1>1, <1>3, <2>1 DEF ChangeAlias, SaveAliases, syncVars, CatalogTypeOK, BitRows, SyncEntries
<1>4. ASSUME NEW c \in Admins, NEW a \in Aliases, RemoveAlias(c, a) \/ \E i \in Ids : SetAlias(c, a, i)
      PROVE  CatalogTypeOK'
  BY <1>1, <1>3, <1>4, TableChanges DEF RemoveAlias, SetAlias
<1>5. ASSUME NEW c \in Admins, SyncList(c)
      PROVE  CatalogTypeOK'
  <2>1. admin' \in [Admins -> SyncEntries]
    BY <1>1, <1>5 DEF SyncList, SyncEntries
  <2>2. QED
    BY <1>1, <1>5, <2>1 DEF SyncList, syncVars, CatalogTypeOK, BitRows, SyncEntries
<1>6. ASSUME NEW c \in Admins, SyncDiff(c)
      PROVE  CatalogTypeOK'
  <2>1. admin' \in [Admins -> SyncEntries]
    BY <1>1, <1>6 DEF SyncDiff, SyncEntries
  <2>2. QED
    BY <1>1, <1>6, <2>1 DEF SyncDiff, syncVars, CatalogTypeOK, BitRows, SyncEntries
<1>7. ASSUME NEW c \in Admins, SyncUpdate(c)
      PROVE  CatalogTypeOK'
  <2>1. admin' \in [Admins -> SyncEntries]
    BY <1>1, <1>7 DEF SyncUpdate, SyncEntries
  <2>2. rows' \in BitRows
    BY <1>1, <1>7, SyncedAreRows DEF SyncUpdate
  <2>3. QED
    BY <1>1, <1>7, <2>1, <2>2 DEF SyncUpdate, CatalogTypeOK, BitRows, SyncEntries
<1>8. ASSUME NEW c \in Admins, SyncOwn(c)
      PROVE  CatalogTypeOK'
  <2>1. admin' \in [Admins -> SyncEntries]
    BY <1>1, <1>2, <1>8 DEF SyncOwn
  <2>2. owned' \subseteq Aliases
    BY <1>8 DEF SyncOwn, Served
  <2>3. QED
    BY <1>1, <1>8, <2>1, <2>2 DEF SyncOwn, CatalogTypeOK, BitRows, SyncEntries
<1>9. ASSUME NEW n \in Names, NEW bit \in {"on", "off"}, Toggle(n, bit)
      PROVE  CatalogTypeOK'
  <2>1. rows' \in BitRows
    BY <1>1, <1>9 DEF Toggle, BitRows
  <2>2. QED
    BY <1>1, <1>9, <2>1 DEF Toggle, CatalogTypeOK, BitRows, SyncEntries
<1>10. CASE CatalogRestart
  <2>1. PICK file \in {aliasFile} \cup (IF saving THEN Catalog!Changes(aliases) ELSE {}) :
          aliasFile' = file /\ Boot(file)
    BY <1>10 DEF CatalogRestart
  <2>2. file \in Catalog!Tables \cup {NoFile, Garbage}
    <3>1. \A table \in Catalog!Changes(aliases) : table \in Catalog!Tables
      BY <1>1, TableChanges DEF Catalog!Changes
    <3>2. QED
      BY <1>1, <2>1, <3>1
  <2>3. aliases' \in Catalog!Tables
    BY <2>1, OverlaidTable DEF Boot, NoAlias, Catalog!Tables
  <2>4. saving' \in BOOLEAN
    BY <2>1 DEF Boot
  <2>5. rows' \in BitRows
    <3>1. NoRow \in BitRows
      BY DEF NoRow, BitRows
    <3>2. QED
      BY <2>1, <3>1, SyncedAreRows DEF Boot
  <2>6. owned' \subseteq Aliases /\ admin' \in [Admins -> SyncEntries]
    BY <1>2, <2>1 DEF Boot, Served
  <2>7. QED
    BY <2>1, <2>2, <2>3, <2>4, <2>5, <2>6 DEF CatalogTypeOK, BitRows, SyncEntries
<1>11. CASE Damage
  BY <1>1, <1>11 DEF Damage, syncVars, CatalogTypeOK, BitRows, SyncEntries
<1>12. CASE UNCHANGED catalogVars
  BY <1>12 DEF catalogVars, syncVars, CatalogTypeOK
<1>13. QED
  BY <1>4, <1>5, <1>6, <1>7, <1>8, <1>9, <1>10, <1>11, <1>12 DEF CatalogNext

-----------------------------------------------------------------------------
(***************************************************************************)
(* The kill switch.                                                        *)
(***************************************************************************)
\* BitRows of the name and its relatives that stay off, under the same aliases, keep it off.
LEMMA StaysOff ==
  ASSUME NEW m \in Names, Disabled(m),
         aliases' \in Catalog!Tables, aliases \in Catalog!Tables,
         \A n \in Related(m) : Off(n) => Off(n)',
         \A a \in Aliases : a \in Related(m) => aliases'[a] = aliases[a]
  PROVE  Disabled(m)'
<1>1. CASE Off(m)
  BY <1>1 DEF Related, Disabled
<1>2. CASE m \in Served(aliases) /\ Off(aliases[m])
  BY <1>2 DEF Related, Disabled, Served, AliasOf, Names, Catalog!Tables
<1>3. CASE m \in Ids /\ \E a \in Served(aliases) : aliases[a] = m /\ Off(a)
  <2>1. PICK a \in Served(aliases) : aliases[a] = m /\ Off(a)
    BY <1>3
  <2>2. a \in Related(m) /\ a \in Aliases
    BY <2>1 DEF Related, AliasOf, Served, Names
  <2>3. Off(a)' /\ aliases'[a] = m /\ a \in Served(aliases')
    BY <2>1, <2>2 DEF Served
  <2>4. QED
    BY <1>3, <2>3 DEF Disabled
<1>4. QED
  BY <1>1, <1>2, <1>3 DEF Disabled

Excused(m) ==
  \/ \E n \in Related(m) : Toggle(n, "on")
  \/ \E a \in Aliases : aliases'[a] # aliases[a] /\ a \in Related(m)
  \/ \E c \in Admins : SyncUpdate(c) /\ admin[c].list # aliases
  \/ CatalogRestart

LEMMA KillSwitchStep ==
  ASSUME CatalogAssumption, CatalogTypeOK, CatalogTypeOK', CatalogNext,
         NEW m \in Names, Disabled(m), m \in Ids \/ aliases'[m] # Absent
  PROVE  Disabled(m)' \/ Excused(m)
<1>1. aliases \in Catalog!Tables /\ aliases' \in Catalog!Tables /\ rows \in [Names -> {"on", "off", Absent}]
      /\ admin \in [Admins -> SyncEntries]
  BY DEF CatalogTypeOK, SyncEntries
<1> SUFFICES ASSUME ~Excused(m) PROVE Disabled(m)'
  OBVIOUS
<1>2. \A a \in Aliases : a \in Related(m) => aliases'[a] = aliases[a]
  BY DEF Excused
<1>3. CASE UNCHANGED rows
  BY <1>1, <1>2, <1>3, StaysOff DEF Off
<1>4. ASSUME NEW c \in Admins, SyncUpdate(c)
      PROVE  Disabled(m)'
  <2>1. UNCHANGED aliases /\ admin[c].list = aliases /\ rows' = SyncedRows(rows, aliases, admin[c].gone)
    BY <1>4 DEF SyncUpdate, Excused
  <2>2. admin[c].gone \subseteq Aliases
    BY <1>1 DEF SyncEntries
  <2>3. ASSUME NEW n \in Related(m), Off(n)
        PROVE  Off(n)'
    <3>1. n \in Names
      BY DEF Related
    <3>2. CASE n \in Served(aliases)
      <4>1. rows'[n] = IF rows[n] = Absent THEN "on" ELSE rows[n]
        BY <2>1, <3>1, <3>2 DEF SyncedRows
      <4>2. rows[n] = "off" /\ Absent # "off"
        BY <2>3 DEF Off, CatalogAssumption
      <4>3. QED
        BY <4>1, <4>2 DEF Off
    <3>3. CASE n \notin Served(aliases)
      <4>1. n \notin Aliases
        <5>1. CASE n = m
          BY <2>1, <3>3, <5>1 DEF Served, CatalogAssumption
        <5>2. CASE AliasOf(n, m)
          BY <3>3, <5>2 DEF AliasOf
        <5>3. CASE AliasOf(m, n)
          <6>1. m \in Aliases /\ aliases[m] = n /\ n # Absent
            BY <5>3 DEF AliasOf, Served
          <6>2. n \in Ids
            BY <1>1, <6>1 DEF Catalog!Tables
          <6>3. QED
            BY <6>2 DEF CatalogAssumption
        <5>4. QED
          BY <5>1, <5>2, <5>3 DEF Related
      <4>2. QED
        BY <2>1, <2>2, <2>3, <3>1, <3>3, <4>1 DEF Off, SyncedRows
    <3>4. QED
      BY <3>2, <3>3
  <2>4. QED
    BY <1>1, <1>2, <2>3, StaysOff
<1>5. ASSUME NEW n \in Names, NEW bit \in {"on", "off"}, Toggle(n, bit)
      PROVE  Disabled(m)'
  <2>1. rows' = [rows EXCEPT ![n] = bit]
    BY <1>5 DEF Toggle
  <2>2. n \in Related(m) => bit = "off"
    BY <1>5 DEF Excused
  <2>3. \A k \in Related(m) : Off(k) => Off(k)'
    BY <1>1, <2>1, <2>2 DEF Off, Related
  <2>4. QED
    BY <1>1, <1>2, <2>3, StaysOff
<1>6. ~CatalogRestart
  BY DEF Excused
<1>7. QED
  BY <1>3, <1>4, <1>5, <1>6
     DEF CatalogNext, RemoveAlias, SetAlias, ChangeAlias, SyncList, SyncDiff, SyncOwn, Damage, syncVars

-----------------------------------------------------------------------------
LEMMA SurvivesInit == CatalogAssumption /\ CatalogInit => CatalogSurvives
<1> SUFFICES ASSUME CatalogAssumption, CatalogInit PROVE CatalogSurvives
  OBVIOUS
<1>1. Catalog!Overlaid(aliasFile) = AliasConfig
  BY DEF CatalogAssumption, CatalogInit, Catalog!Overlaid, Catalog!Tables
<1>2. QED
  BY <1>1 DEF CatalogInit, CatalogSurvives, Catalog!Survives

LEMMA SurvivesStep ==
  CatalogAssumption /\ CatalogTypeOK /\ CatalogSurvives /\ [CatalogNext]_catalogVars => CatalogSurvives'
<1> SUFFICES ASSUME CatalogAssumption, CatalogTypeOK, CatalogSurvives, [CatalogNext]_catalogVars
             PROVE  CatalogSurvives'
  OBVIOUS
<1>1. CASE UNCHANGED <<aliases, aliasFile, saving>>
  BY <1>1 DEF CatalogSurvives, Catalog!Survives, Catalog!Overlaid, Catalog!Tables
<1>2. ASSUME NEW c \in Admins, NEW next \in Catalog!Tables, ChangeAlias(c, next)
      PROVE  CatalogSurvives'
  <2>1. aliases' = next /\ saving' = saving /\ (saving => aliasFile' = next)
    BY <1>2 DEF ChangeAlias, SaveAliases
  <2>2. CASE saving
    <3>1. Catalog!Survives(next, next)
      BY WrittenSurvives
    <3>2. QED
      BY <2>1, <2>2, <3>1 DEF CatalogSurvives, Catalog!Survives, Catalog!Overlaid, Catalog!Tables
  <2>3. CASE ~saving
    BY <2>1, <2>3 DEF CatalogSurvives
  <2>4. QED
    BY <2>2, <2>3
<1>3. ASSUME NEW c \in Admins, NEW a \in Aliases, RemoveAlias(c, a) \/ \E i \in Ids : SetAlias(c, a, i)
      PROVE  CatalogSurvives'
  BY <1>2, <1>3, TableChanges DEF RemoveAlias, SetAlias, CatalogTypeOK
<1>4. CASE CatalogRestart
  <2>1. PICK file : aliasFile' = file /\ Boot(file)
    BY <1>4 DEF CatalogRestart
  <2>2. CASE file = Garbage
    BY <2>1, <2>2 DEF CatalogSurvives
  <2>3. CASE file # Garbage
    <3>1. aliases' = Catalog!Overlaid(aliasFile')
      BY <2>1, <2>3 DEF Boot
    <3>2. QED
      BY <3>1 DEF CatalogSurvives, Catalog!Survives, Catalog!Overlaid
  <2>4. QED
    BY <2>2, <2>3
<1>5. CASE Damage
  BY <1>5 DEF Damage, CatalogSurvives
<1>6. CASE UNCHANGED catalogVars
  BY <1>1, <1>6 DEF catalogVars
<1>7. QED
  BY <1>1, <1>3, <1>4, <1>5, <1>6 DEF CatalogNext, SyncList, SyncDiff, SyncUpdate, SyncOwn, Toggle

-----------------------------------------------------------------------------
LEMMA CatalogAlwaysType == CatalogSpec => []CatalogTypeOK
<1>1. CatalogInit => CatalogTypeOK
  BY CatalogAssumption, CatalogInitType
<1>2. CatalogTypeOK /\ [CatalogNext]_catalogVars => CatalogTypeOK'
  BY CatalogAssumption, CatalogStepType
<1>3. QED
  BY <1>1, <1>2, PTL DEF CatalogSpec

\* A model that toggle_model switched off is off under all its names until one of them is
\* switched on, an alias of it changes or the daemon restarts, with any number of operators
\* between the steps of whose syncs it is toggled; but for the one race of a sync that works
\* from an old list.
THEOREM KillSwitchKept == CatalogSpec => KillSwitchHolds
<1>1. CatalogTypeOK /\ CatalogTypeOK' /\ [CatalogNext]_catalogVars =>
        [\A m \in Names :
           Disabled(m) /\ (m \in Ids \/ aliases'[m] # Absent) =>
             \/ Disabled(m)'
             \/ \E n \in Related(m) : Toggle(n, "on")
             \/ \E a \in Aliases : aliases'[a] # aliases[a] /\ a \in Related(m)
             \/ \E c \in Admins : SyncUpdate(c) /\ admin[c].list # aliases
             \/ CatalogRestart]_catalogVars
  BY CatalogAssumption, KillSwitchStep DEF Excused
<1>2. QED
  BY <1>1, CatalogAlwaysType, PTL DEF CatalogSpec, KillSwitchHolds

\* What the catalog serves, the next start serves again.
THEOREM AliasesSurvive == CatalogSpec => []CatalogSurvives
<1>1. CatalogInit => CatalogSurvives
  BY CatalogAssumption, SurvivesInit
<1>2. CatalogTypeOK /\ CatalogSurvives /\ [CatalogNext]_catalogVars => CatalogSurvives'
  BY CatalogAssumption, SurvivesStep
<1>3. QED
  BY <1>1, <1>2, CatalogAlwaysType, PTL DEF CatalogSpec

-----------------------------------------------------------------------------
(***************************************************************************)
(* The timeouts.                                                           *)
(***************************************************************************)
LEMMA TimeoutInitInv == TimeoutInit => TimeoutTypeOK /\ TimeoutsSurvive
<1> SUFFICES ASSUME TimeoutInit PROVE TimeoutTypeOK /\ TimeoutsSurvive
  OBVIOUS
<1>1. timeouts \in Timeouts!Tables
  BY TimeoutAssumption DEF TimeoutInit, Timeouts!Tables
<1>2. TimeoutTypeOK
  BY <1>1 DEF TimeoutInit, TimeoutTypeOK
<1>3. Timeouts!Overlaid(timeoutFile) = TimeoutConfig
  BY TimeoutAssumption DEF TimeoutInit, Timeouts!Overlaid, Timeouts!Tables
<1>4. TimeoutsSurvive
  BY <1>3 DEF TimeoutInit, TimeoutsSurvive, Timeouts!Survives
<1>5. QED
  BY <1>2, <1>4

LEMMA TimeoutTables ==
  ASSUME NEW table \in Timeouts!Tables
  PROVE  \A next \in Timeouts!Changes(table) : next \in Timeouts!Tables
BY DEF Timeouts!Changes, Timeouts!Put, Timeouts!Drop, Timeouts!Tables

LEMMA TimeoutStepType == TimeoutTypeOK /\ [TimeoutNext]_timeoutVars => TimeoutTypeOK'
<1> SUFFICES ASSUME TimeoutTypeOK, [TimeoutNext]_timeoutVars PROVE TimeoutTypeOK'
  OBVIOUS
<1>1. timeouts \in Timeouts!Tables /\ timeoutFile \in Timeouts!Tables \cup {NoFile, Garbage}
  BY DEF TimeoutTypeOK
<1>2. CASE ChangeTimeout
  BY <1>1, <1>2, TimeoutTables DEF ChangeTimeout, TimeoutTypeOK
<1>3. CASE TimeoutRestart
  <2>1. timeoutFile' \in Timeouts!Tables \cup {NoFile, Garbage}
    BY <1>1, <1>3, TimeoutTables DEF TimeoutRestart
  <2>2. timeouts' \in Timeouts!Tables
    BY <1>3, TimeoutAssumption DEF TimeoutRestart, Timeouts!Overlaid, Timeouts!Tables
  <2>3. QED
    BY <2>1, <2>2 DEF TimeoutTypeOK
<1>4. CASE DamageTimeouts
  BY <1>1, <1>4 DEF DamageTimeouts, TimeoutTypeOK
<1>5. CASE UNCHANGED timeoutVars
  BY <1>1, <1>5 DEF timeoutVars, TimeoutTypeOK
<1>6. QED
  BY <1>2, <1>3, <1>4, <1>5 DEF TimeoutNext

LEMMA TimeoutStepSurvives ==
  TimeoutTypeOK /\ TimeoutsSurvive /\ [TimeoutNext]_timeoutVars => TimeoutsSurvive'
<1> SUFFICES ASSUME TimeoutTypeOK, TimeoutsSurvive, [TimeoutNext]_timeoutVars PROVE TimeoutsSurvive'
  OBVIOUS
<1>1. CASE ChangeTimeout
  <2>1. PICK next \in Timeouts!Changes(timeouts) : timeoutFile' = next /\ timeouts' = next
    BY <1>1 DEF ChangeTimeout
  <2>2. next \in Timeouts!Tables
    BY <2>1, TimeoutTables DEF TimeoutTypeOK
  <2>3. Timeouts!Survives(next, next)
    BY <2>2 DEF Timeouts!Survives, Timeouts!Overlaid, Timeouts!Tables
  <2>4. QED
    BY <2>1, <2>3 DEF TimeoutsSurvive, Timeouts!Survives, Timeouts!Overlaid, Timeouts!Tables
<1>2. CASE TimeoutRestart
  BY <1>2 DEF TimeoutRestart, TimeoutsSurvive, Timeouts!Survives, Timeouts!Overlaid
<1>3. CASE DamageTimeouts
  BY <1>3 DEF DamageTimeouts, TimeoutsSurvive
<1>4. CASE UNCHANGED timeoutVars
  BY <1>4 DEF timeoutVars, TimeoutsSurvive, Timeouts!Survives, Timeouts!Overlaid, Timeouts!Tables
<1>5. QED
  BY <1>1, <1>2, <1>3, <1>4 DEF TimeoutNext

\* The timeouts a request has after a restart are those it had, for any lanes and durations.
THEOREM TimeoutsOutlive == TimeoutSpec => []TimeoutsSurvive
<1>1. TimeoutInit => TimeoutsSurvive
  BY TimeoutInitInv
<1>2. TimeoutTypeOK /\ TimeoutsSurvive /\ [TimeoutNext]_timeoutVars => TimeoutsSurvive'
  BY TimeoutStepSurvives
<1>3. TimeoutInit => TimeoutTypeOK
  BY TimeoutInitInv
<1>4. TimeoutTypeOK /\ [TimeoutNext]_timeoutVars => TimeoutTypeOK'
  BY TimeoutStepType
<1>5. QED
  BY <1>1, <1>2, <1>3, <1>4, PTL DEF TimeoutSpec

-----------------------------------------------------------------------------
(***************************************************************************)
(* The logins.                                                             *)
(***************************************************************************)
LoginPcs == {"idle", "stop", "serve", "publish", "arm", "wait", "poll", "exchange", "forget",
             "stopAfter", "store"}
LoginEntries == [pc : LoginPcs, obj : Objects, flow : 0..MaxFlows, code : 0..MaxFlows]

\* A call that is on its way is about a flow that was started.
HasFlow == \A c \in Operators : login[c].pc # "idle" => login[c].flow \in Flows

LoginInv == LoginTypeOK /\ HasFlow /\ CompletedIsSaved

PortTypeOK ==
  /\ listener \in [flow : Flows, by : {"start", "arm"}] \cup {NoListener}
  /\ loopback \subseteq Objects \cup Operators

LEMMA LoginInitInv == LoginAssumption /\ LoginInit => LoginInv
<1> SUFFICES ASSUME LoginAssumption, LoginInit PROVE LoginInv
  OBVIOUS
<1>1. NoLogin \in LoginEntries /\ 1 \in Objects /\ 0 \in 0..MaxFlows
  BY DEF LoginAssumption, NoLogin, LoginEntries, LoginPcs, Objects
<1>2. LoginTypeOK
  BY <1>1 DEF LoginInit, LoginTypeOK, LoginEntries, LoginPcs
<1>3. HasFlow /\ CompletedIsSaved
  BY DEF LoginInit, HasFlow, NoLogin, CompletedIsSaved
<1>4. QED
  BY <1>2, <1>3 DEF LoginInv

\* A call that answers, one that goes on to another step, and one that takes up a flow.
LEMMA LoginAnswers ==
  ASSUME LoginAssumption, LoginInv, NEW c \in Operators, Answer(c)
  PROVE  login' \in [Operators -> LoginEntries] /\ late' \subseteq Operators /\ HasFlow'
<1>1. login \in [Operators -> LoginEntries] /\ late \subseteq Operators
  BY DEF LoginInv, LoginTypeOK, LoginEntries, LoginPcs
<1>2. NoLogin \in LoginEntries /\ NoLogin.pc = "idle"
  BY DEF LoginAssumption, NoLogin, LoginEntries, LoginPcs, Objects
<1>3. QED
  BY <1>1, <1>2 DEF Answer, LoginInv, HasFlow

LEMMA LoginTurns ==
  ASSUME LoginInv, NEW c \in Operators, ~In(c, "idle"), NEW pc \in LoginPcs, Turn(c, pc)
  PROVE  login' \in [Operators -> LoginEntries] /\ HasFlow'
<1>1. login \in [Operators -> LoginEntries]
  BY DEF LoginInv, LoginTypeOK, LoginEntries, LoginPcs
<1>2. login[c].flow \in Flows
  BY DEF LoginInv, HasFlow, In
<1>3. login' \in [Operators -> LoginEntries]
  BY <1>1 DEF Turn, LoginEntries
<1>4. login'[c].flow = login[c].flow /\ \A d \in Operators : d # c => login'[d] = login[d]
  BY <1>1 DEF Turn, LoginEntries
<1>5. QED
  BY <1>2, <1>3, <1>4 DEF HasFlow, LoginInv

LEMMA LoginTakes ==
  ASSUME LoginInv, NEW c \in Operators, NEW e \in LoginEntries, e.flow \in Flows,
         login' = [login EXCEPT ![c] = e]
  PROVE  login' \in [Operators -> LoginEntries] /\ HasFlow'
BY DEF LoginInv, LoginTypeOK, HasFlow, LoginEntries, LoginPcs

LEMMA PortStops == ASSUME PortTypeOK, NEW o, StopLoopback(o) PROVE PortTypeOK'
BY DEF PortTypeOK, StopLoopback, Close, portVars

\* The parts of the invariant, as the steps preserve them.
LEMMA LoginParts ==
  ASSUME LoginInv,
         kind' = kind, lane' \in Objects, pending' \in [Objects -> 0..MaxFlows], PortTypeOK',
         started' \in 0..MaxFlows,
         consent' \in [Flows -> {"none", "given", "channel", "held", "spent", "lost"}],
         login' \in [Operators -> LoginEntries], HasFlow', late' \subseteq Operators,
         saved' \subseteq Flows, completed' \subseteq Flows, CompletedIsSaved'
  PROVE  LoginInv'
BY DEF LoginInv, LoginTypeOK, PortTypeOK, LoginEntries, LoginPcs

LEMMA LoginStepInv == LoginAssumption /\ LoginInv /\ [LoginNext]_loginVars => LoginInv'
<1> SUFFICES ASSUME LoginAssumption, LoginInv, [LoginNext]_loginVars PROVE LoginInv'
  OBVIOUS
<1> DEFINE Codes == [Flows -> {"none", "given", "channel", "held", "spent", "lost"}]
<1>1. /\ kind \in LoginKinds /\ lane \in Objects /\ pending \in [Objects -> 0..MaxFlows] /\ PortTypeOK
      /\ started \in 0..MaxFlows /\ consent \in Codes
      /\ login \in [Operators -> LoginEntries] /\ HasFlow /\ late \subseteq Operators
      /\ saved \subseteq Flows /\ completed \subseteq Flows /\ CompletedIsSaved
  BY DEF LoginInv, LoginTypeOK, PortTypeOK, LoginEntries, LoginPcs
<1>2. \A c \in Operators : /\ Obj(c) \in Objects /\ Flow(c) = login[c].flow
                           /\ ~In(c, "idle") => Flow(c) \in Flows
  BY <1>1 DEF Obj, Flow, In, HasFlow, LoginEntries
<1>3. \A f \in Flows : f \in 0..MaxFlows
  BY DEF Flows, LoginAssumption
<1> HIDE DEF Codes
<1>4. \A f, s : s \in {"given", "channel", "held", "spent", "lost"} => [consent EXCEPT ![f] = s] \in Codes
  BY <1>1 DEF Codes
<1>5. UNCHANGED <<login>> => HasFlow'
  BY <1>1 DEF HasFlow
<1>6. UNCHANGED <<kind, saved, completed>> => CompletedIsSaved'
  BY <1>1 DEF CompletedIsSaved
<1>7. UNCHANGED portVars => PortTypeOK'
  BY <1>1 DEF PortTypeOK, portVars
<1>8. Close => PortTypeOK'
  BY DEF Close, PortTypeOK
<1> USE DEF objectVars
<1>9. CASE RequestEnds \/ IdleTimeout
  BY <1>1, <1>5, <1>6, <1>8, <1>9, LoginParts DEF RequestEnds, IdleTimeout, Codes
<1>10. CASE Redirect \/ \E f \in Flows : Consent(f)
  <2>1. consent' \in Codes
    BY <1>4, <1>10 DEF Redirect, Consent
  <2>2. QED
    BY <1>1, <1>5, <1>6, <1>7, <1>10, <2>1, LoginParts DEF Redirect, Consent, Codes
<1>11. CASE ReplaceLane
  <2>1. lane' \in Objects
    BY <1>1, <1>11 DEF ReplaceLane, Objects, LoginAssumption
  <2>2. QED
    BY <1>1, <1>5, <1>6, <1>7, <1>11, <2>1, LoginParts DEF ReplaceLane, Codes
<1>12. CASE UNCHANGED loginVars
  BY <1>1, <1>5, <1>6, <1>7, <1>12, LoginParts DEF loginVars, Codes
<1>13. ASSUME NEW c \in Operators, StartLogin(c) PROVE LoginInv'
  <2>1. started' \in Flows /\ started' \in 0..MaxFlows /\ 0 \in 0..MaxFlows
    BY <1>1, <1>13 DEF StartLogin, Flows, LoginAssumption
  <2> DEFINE e == [pc |-> CASE kind = "loopback" -> "stop" [] kind = "device" -> "publish" [] OTHER -> "poll",
                   obj |-> lane, flow |-> started', code |-> 0]
  <2>2. e \in LoginEntries /\ e.flow \in Flows
    BY <1>1, <2>1 DEF LoginEntries, LoginPcs
  <2>3. login' = [login EXCEPT ![c] = e]
    BY <1>13 DEF StartLogin
  <2> HIDE DEF e
  <2>4. login' \in [Operators -> LoginEntries] /\ HasFlow'
    BY <2>2, <2>3, LoginTakes
  <2>5. QED
    BY <1>1, <1>6, <1>7, <1>13, <2>1, <2>4, LoginParts DEF StartLogin, Codes
<1>14. ASSUME NEW c \in Operators, StartStops(c) \/ StopAfter(c) PROVE LoginInv'
  <2>1. login' \in [Operators -> LoginEntries] /\ HasFlow'
    BY <1>14, LoginTurns DEF StartStops, StopAfter, In, LoginPcs
  <2>2. PortTypeOK'
    BY <1>1, <1>14, PortStops DEF StartStops, StopAfter
  <2>3. QED
    BY <1>1, <1>6, <1>14, <2>1, <2>2, LoginParts DEF StartStops, StopAfter, Codes
<1>15. ASSUME NEW c \in Operators, StartServes(c) PROVE LoginInv'
  <2>1. login' \in [Operators -> LoginEntries] /\ HasFlow'
    BY <1>15, LoginTurns DEF StartServes, In, LoginPcs
  <2>2. PortTypeOK'
    BY <1>2, <1>15 DEF StartServes, Listen, PortTypeOK, In
  <2>3. QED
    BY <1>1, <1>6, <1>15, <2>1, <2>2, LoginParts DEF StartServes, Codes
<1>16. ASSUME NEW c \in Operators, PortBusy(c) \/ StillPending(c) \/ PollRefused(c) PROVE LoginInv'
  BY <1>1, <1>6, <1>7, <1>16, LoginAnswers, LoginParts DEF PortBusy, StillPending, PollRefused, Codes
<1>17. ASSUME NEW c \in Operators, Publish(c) PROVE LoginInv'
  <2>1. pending' \in [Objects -> 0..MaxFlows]
    BY <1>1, <1>2, <1>3, <1>17 DEF Publish, In
  <2>2. PortTypeOK'
    BY <1>1, <1>2, <1>17 DEF Publish, PortTypeOK
  <2>3. QED
    BY <1>1, <1>6, <1>17, <2>1, <2>2, LoginAnswers, LoginParts DEF Publish, Codes
<1>18. ASSUME NEW c \in Operators, Check(c) PROVE LoginInv'
  <2>1. pending[lane] \in Flows /\ 0 \in 0..MaxFlows
    BY <1>1, <1>18 DEF Check, Flows, LoginAssumption
  <2> DEFINE e == [pc |-> IF kind = "loopback" THEN "arm" ELSE "poll", obj |-> lane,
                   flow |-> pending[lane], code |-> 0]
  <2>2. e \in LoginEntries /\ e.flow \in Flows
    BY <1>1, <1>3, <2>1 DEF LoginEntries, LoginPcs
  <2>3. login' = [login EXCEPT ![c] = e]
    BY <1>18 DEF Check
  <2> HIDE DEF e
  <2>4. login' \in [Operators -> LoginEntries] /\ HasFlow'
    BY <2>2, <2>3, LoginTakes
  <2>5. QED
    BY <1>1, <1>6, <1>7, <1>18, <2>4, LoginParts DEF Check, Codes
<1>19. ASSUME NEW c \in Operators, Arm(c) PROVE LoginInv'
  <2>1. login' \in [Operators -> LoginEntries] /\ HasFlow'
    BY <1>19, LoginTurns DEF Arm, In, LoginPcs
  <2>2. PortTypeOK'
    BY <1>1, <1>2, <1>7, <1>19 DEF Arm, Listen, PortTypeOK, In
  <2>3. QED
    BY <1>1, <1>6, <1>19, <2>1, <2>2, LoginParts DEF Arm, Codes
<1>20. ASSUME NEW c \in Operators, TakeCode(c) PROVE LoginInv'
  <2>1. consent' \in Codes
    BY <1>4, <1>20 DEF TakeCode
  <2>2. Flow(c) \in Flows /\ login[c].flow = Flow(c)
    BY <1>2, <1>20 DEF TakeCode, In
  <2>3. login' = [login EXCEPT ![c].pc = "exchange", ![c].code = Flow(c)]
    BY <1>20 DEF TakeCode
  <2>4. login' \in [Operators -> LoginEntries]
    BY <1>1, <1>3, <2>2, <2>3 DEF LoginEntries, LoginPcs
  <2>5. login'[c].flow = login[c].flow /\ \A d \in Operators : d # c => login'[d] = login[d]
    BY <1>1, <2>3 DEF LoginEntries
  <2>6. HasFlow'
    BY <1>1, <2>2, <2>5 DEF HasFlow
  <2>7. QED
    BY <1>1, <1>6, <1>7, <1>20, <2>1, <2>4, <2>6, LoginParts DEF TakeCode, Codes
<1>21. ASSUME NEW c \in Operators, Deadline(c) PROVE LoginInv'
  BY <1>1, <1>5, <1>6, <1>7, <1>21, LoginParts DEF Deadline, Codes
<1>22. ASSUME NEW c \in Operators, NEW f \in Flows, Submit(c, f) PROVE LoginInv'
  <2>1. consent' \in Codes
    BY <1>4, <1>22 DEF Submit
  <2>2. pending[lane] \in Flows
    BY <1>1, <1>22 DEF Submit, Flows, LoginAssumption
  <2> DEFINE e == [pc |-> "exchange", obj |-> lane, flow |-> pending[lane], code |-> f]
  <2>3. login' = [login EXCEPT ![c] = e] /\ e \in LoginEntries /\ e.flow \in Flows
    BY <1>1, <1>3, <1>22, <2>2 DEF Submit, LoginEntries, LoginPcs
  <2> HIDE DEF e
  <2>4. login' \in [Operators -> LoginEntries] /\ HasFlow'
    BY <2>3, LoginTakes
  <2>5. QED
    BY <1>1, <1>6, <1>7, <1>22, <2>1, <2>4, LoginParts DEF Submit, Codes
<1>23. ASSUME NEW c \in Operators, Exchange(c) \/ PollApproved(c) PROVE LoginInv'
  <2>1. consent' \in Codes
    BY <1>4, <1>23 DEF Exchange, PollApproved
  <2>2. login' \in [Operators -> LoginEntries] /\ HasFlow'
    BY <1>23, LoginTurns DEF Exchange, PollApproved, In, LoginPcs
  <2>3. QED
    BY <1>1, <1>6, <1>7, <1>23, <2>1, <2>2, LoginParts DEF Exchange, PollApproved, Codes
<1>24. ASSUME NEW c \in Operators, ExchangeFails(c) PROVE LoginInv'
  <2>1. consent' \in Codes /\ PortTypeOK'
    BY <1>1, <1>4, <1>24, PortStops DEF ExchangeFails
  <2>2. QED
    BY <1>1, <1>6, <1>24, <2>1, LoginAnswers, LoginParts DEF ExchangeFails, Codes
<1>25. ASSUME NEW c \in Operators, Forget(c) PROVE LoginInv'
  <2>1. pending' \in [Objects -> 0..MaxFlows]
    BY <1>1, <1>25, 0 \in 0..MaxFlows DEF Forget, LoginAssumption
  <2>2. login' \in [Operators -> LoginEntries] /\ HasFlow'
    BY <1>25, LoginTurns DEF Forget, In, LoginPcs
  <2>3. QED
    BY <1>1, <1>6, <1>7, <1>25, <2>1, <2>2, LoginParts DEF Forget, Codes
<1>26. ASSUME NEW c \in Operators, StoreCredential(c) PROVE LoginInv'
  <2>1. Flow(c) \in Flows /\ kind' = kind /\ saved' = saved \cup {Flow(c)} /\ completed' = completed \cup {Flow(c)}
    BY <1>2, <1>26 DEF StoreCredential, In
  <2>2. CompletedIsSaved'
    BY <1>1, <2>1 DEF CompletedIsSaved
  <2>3. QED
    BY <1>1, <1>7, <1>26, <2>1, <2>2, LoginAnswers, LoginParts DEF StoreCredential, Codes
<1>27. ASSUME NEW c \in Operators, StoreFails(c) PROVE LoginInv'
  <2>1. /\ Flow(c) \in Flows /\ UNCHANGED <<kind, saved>>
        /\ completed' = IF kind = "blocking" THEN completed \cup {Flow(c)} ELSE completed
    BY <1>2, <1>27 DEF StoreFails, In
  <2>2. CompletedIsSaved' /\ completed' \subseteq Flows
    BY <1>1, <2>1 DEF CompletedIsSaved
  <2>3. QED
    BY <1>1, <1>7, <1>27, <2>1, <2>2, LoginAnswers, LoginParts DEF StoreFails, Codes
<1>28. QED
  BY <1>9, <1>10, <1>11, <1>12, <1>13, <1>14, <1>15, <1>16, <1>17, <1>18, <1>19, <1>20, <1>21, <1>22,
     <1>23, <1>24, <1>25, <1>26, <1>27 DEF LoginNext

\* A login that answered "completed" is in the store, with any number of calls about any
\* number of flows that end early, race for the port and outlive the lane's object; codex,
\* whose answer does not wait for the store's, excepted.
THEOREM CompletedLoginsSaved == LoginSpec => []CompletedIsSaved
<1>1. LoginInit => LoginInv
  BY LoginAssumption, LoginInitInv
<1>2. LoginInv /\ [LoginNext]_loginVars => LoginInv'
  BY LoginAssumption, LoginStepInv
<1>3. LoginInv => CompletedIsSaved
  BY DEF LoginInv
<1>4. QED
  BY <1>1, <1>2, <1>3, PTL DEF LoginSpec

-----------------------------------------------------------------------------
(***************************************************************************)
(* The parts together.  Each moves by itself, and a part that stands still *)
(* keeps what holds of it.                                                 *)
(***************************************************************************)
PartsInv ==
  /\ BreakerInv /\ LoopInv /\ SchedTypeOK /\ SettleInv
  /\ CatalogTypeOK /\ CatalogSurvives /\ TimeoutTypeOK /\ TimeoutsSurvive /\ LoginInv

LEMMA PartsInit == Init => PartsInv
<1> SUFFICES ASSUME Init PROVE PartsInv
  OBVIOUS
<1>1. BreakerInit /\ SchedInit /\ LanesInit /\ CatalogInit /\ TimeoutInit /\ LoginInit
  BY DEF Init
<1>2. BreakerInv /\ SettleInv /\ CatalogTypeOK /\ CatalogSurvives
  BY <1>1, BreakerAssumption, LanesAssumption, CatalogAssumption, BreakerInitInv, SettleInitInv,
     CatalogInitType, SurvivesInit
<1>3. LoopInv /\ SchedTypeOK /\ TimeoutTypeOK /\ TimeoutsSurvive /\ LoginInv
  BY <1>1, SchedulerAssumption, LoginAssumption, LoopInitInv, SchedInitType, TimeoutInitInv, LoginInitInv
<1>4. QED
  BY <1>2, <1>3 DEF PartsInv

LEMMA PartsStep == PartsInv /\ [Next]_vars => PartsInv'
<1> SUFFICES ASSUME PartsInv, [Next]_vars PROVE PartsInv'
  OBVIOUS
<1>1. [BreakerNext]_breakerVars /\ [SchedNext]_schedVars /\ [LanesNext]_laneVars
      /\ [CatalogNext]_catalogVars /\ [TimeoutNext]_timeoutVars /\ [LoginNext]_loginVars
  BY DEF Next, BreakerPart, SchedulerPart, LanesPart, CatalogPart, TimeoutsPart, LoginPart,
         ExchangePart, vars, quotaVars, tableVars
<1>2. BreakerInv' /\ SettleInv'
  BY <1>1, BreakerAssumption, LanesAssumption, BreakerStepInv, SettleStepInv DEF PartsInv
<1>3. LoopInv' /\ SchedTypeOK'
  BY <1>1, SchedulerAssumption, LoopStepInv, SchedStepType DEF PartsInv
<1>4. CatalogTypeOK' /\ CatalogSurvives'
  BY <1>1, CatalogAssumption, CatalogStepType, SurvivesStep DEF PartsInv
<1>5. TimeoutTypeOK' /\ TimeoutsSurvive'
  BY <1>1, TimeoutStepType, TimeoutStepSurvives DEF PartsInv
<1>6. LoginInv'
  BY <1>1, LoginAssumption, LoginStepInv DEF PartsInv
<1>7. QED
  BY <1>2, <1>3, <1>4, <1>5, <1>6 DEF PartsInv

\* The state of every part of the control plane is well typed.
THEOREM PartsTypeCorrect == Spec => []TypeOK
<1>1. PartsInv => TypeOK
  BY DEF PartsInv, TypeOK, BreakerInv, SettleInv, LoginInv
<1>2. QED
  BY <1>1, PartsInit, PartsStep, PTL DEF Spec

\* A restart at any moment serves the aliases and sets the timeouts the daemon had.
THEOREM TablesOutlive == Spec => []TablesSurvive
<1>1. PartsInv => TablesSurvive
  BY DEF PartsInv, TablesSurvive
<1>2. QED
  BY <1>1, PartsInit, PartsStep, PTL DEF Spec
=============================================================================
