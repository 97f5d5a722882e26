------------------------- MODULE QuotaScheduler -------------------------
(***************************************************************************)
(* The scheduler of pkg/quota about one provider: its loop, the polls it   *)
(* and PollAll make, and the operations that start and stop it.  Providers *)
(* share the polling budget only.                                          *)
(***************************************************************************)
EXTENDS Integers, FiniteSets

CONSTANTS
  Loops,     \* the loops Start launches, 1..n
  Owners,    \* the goroutines that start and stop the scheduler
  Interval, InitialBackoff, MaxBackoff,
  Budget,    \* ConcurrencyBudget
  MaxNow,    \* bound: the clock
  MaxFails   \* bound: consecutive failed polls are counted up to here

ASSUME SchedulerAssumption ==
  /\ Loops \subseteq Nat \ {0}
  /\ Interval \in Nat /\ InitialBackoff \in Nat /\ MaxBackoff \in Nat
  /\ Budget \in Nat \ {0} /\ MaxNow \in Nat /\ MaxFails \in Nat \ {0}

VARIABLES
  wall,      \* the clock
  shown,     \* health and quota of the provider in the snapshot
  sched,     \* the provider's schedule
  tickAt,    \* what the scheduler's clock reads since its last tick, None before one
  polling,   \* pollers that are upstream, or wait for the budget
  running, stopChan, doneChan, \* the scheduler's fields, a channel being its number
  closed,    \* the channels that are closed, by kind
  loop,      \* each loop: where it is, the stop channel of the select it is in, and the
             \*   done channel it deferred to close
  stopping,  \* each owner: idle, or in Stop, past the unlock or waiting for a done channel
  cancelled, \* the context given to Start is done
  panicked,  \* a loop closed a closed channel, which ends the process
  overlapped \* history: a Start ran while a Stop had not returned

lifeVars == <<running, stopChan, doneChan, closed, loop, stopping, cancelled, panicked, overlapped>>
pollVars == <<wall, shown, sched, tickAt, polling>>
schedVars == <<pollVars, lifeVars>>

Operator == 0  \* the poller of PollAll
None == -1
Pollers == Loops \cup {Operator}

SchedInit ==
  /\ wall = 0 /\ tickAt = None
  /\ shown = [health |-> "healthy", quota |-> "healthy"]
  /\ sched = [failures |-> 0, next |-> 0]
  /\ polling = [p \in Pollers |-> "no"]
  /\ running = FALSE /\ stopChan = 0 /\ doneChan = 0
  /\ closed = [stop |-> {}, done |-> {}]
  /\ loop = [l \in Loops |-> [pc |-> "off", stop |-> 0, done |-> 0]]
  /\ stopping = [o \in Owners |-> [pc |-> "idle", done |-> 0]]
  /\ cancelled = FALSE /\ panicked = FALSE /\ overlapped = FALSE

-----------------------------------------------------------------------------
(***************************************************************************)
(* The scheduler's polls.                                                  *)
(***************************************************************************)
\* Tick replaces the scheduler's clock by one that stands still at the tick's time.
SchedNow == IF tickAt = None THEN wall ELSE tickAt

Backoff(failures) ==
  LET b == InitialBackoff * 2 ^ (failures - 1) IN IF b > MaxBackoff THEN MaxBackoff ELSE b

Window == [used : {0, 80, 100}, spent : BOOLEAN]    \* spent: a limit with nothing remaining

\* computeQuotaState
QuotaOf(windows) ==
  CASE \E w \in windows : w.spent \/ w.used >= 100 -> "exhausted"
    [] \A w \in windows : w.used < 80 /\ ~w.spent -> "healthy"
    [] OTHER -> "low"

QuotaReports == {QuotaOf(windows) : windows \in SUBSET Window}

Poll(p, where) == polling' = [polling EXCEPT ![p] = where]

PollAll ==
  /\ polling[Operator] = "no"
  /\ Poll(Operator, "wait")
  /\ UNCHANGED <<wall, shown, sched, tickAt, lifeVars>>

PollStart(p) ==
  /\ polling[p] = "wait" /\ Cardinality({q \in Pollers : polling[q] = "up"}) < Budget
  /\ Poll(p, "up")
  /\ UNCHANGED <<wall, shown, sched, tickAt, lifeVars>>

PollAbandoned(p) ==
  /\ polling[p] = "wait" /\ cancelled
  /\ Poll(p, "no")
  /\ UNCHANGED <<wall, shown, sched, tickAt, lifeVars>>

PollOK(p) ==
  /\ polling[p] = "up"
  /\ Poll(p, "no")
  /\ sched' = [failures |-> 0, next |-> SchedNow + Interval]
  /\ \E q \in QuotaReports : shown' = [shown EXCEPT !.quota = q, !.health = "healthy"]
  /\ UNCHANGED <<wall, tickAt, lifeVars>>

\* The provider answered with an error, or the policy's deadline passed.
PollFailed(p) ==
  /\ polling[p] = "up"
  /\ Poll(p, "no")
  /\ LET n == IF sched.failures < MaxFails THEN sched.failures + 1 ELSE MaxFails IN
     /\ sched' = [failures |-> n, next |-> SchedNow + Backoff(n)]
     /\ shown' = [shown EXCEPT !.health = IF n >= 5 THEN "unavailable"
                                    ELSE IF n >= 2 THEN "degraded" ELSE @]
  /\ UNCHANGED <<wall, tickAt, lifeVars>>

-----------------------------------------------------------------------------
(***************************************************************************)
(* Start, Stop and the loop.                                               *)
(***************************************************************************)
InStop(o) == stopping[o].pc # "idle"

\* The fields alone say whether a loop runs: an earlier Stop may still be waiting for its loop.
Start ==
  /\ ~running /\ doneChan + 1 \in Loops
  /\ running' = TRUE
  /\ stopChan' = stopChan + 1 /\ doneChan' = doneChan + 1
  /\ loop' = [loop EXCEPT ![doneChan + 1].pc = "born"]
  /\ overlapped' = (overlapped \/ \E o \in Owners : InStop(o))
  /\ UNCHANGED <<pollVars, closed, stopping, cancelled, panicked>>

Stop_NoWait(o) ==
  /\ ~InStop(o) /\ running
  /\ running' = FALSE
  /\ closed' = [closed EXCEPT !.stop = @ \cup {stopChan}]
  /\ UNCHANGED <<pollVars, stopChan, doneChan, loop, stopping, cancelled, panicked, overlapped>>

\* A Stop that finds the scheduler stopped returns at once, whoever is still waiting.
Stop(o) ==
  /\ ~InStop(o) /\ running
  /\ running' = FALSE
  /\ closed' = [closed EXCEPT !.stop = @ \cup {stopChan}]
  /\ stopping' = [stopping EXCEPT ![o].pc = "unlocked"]
  /\ UNCHANGED <<pollVars, stopChan, doneChan, loop, cancelled, panicked, overlapped>>

\* It reads s.doneChan after the unlock.
StopWait(o) ==
  /\ stopping[o].pc = "unlocked"
  /\ stopping' = [stopping EXCEPT ![o] = [pc |-> "waiting", done |-> doneChan]]
  /\ UNCHANGED <<pollVars, running, stopChan, doneChan, closed, loop, cancelled, panicked, overlapped>>

Stopped(o) ==
  /\ stopping[o].pc = "waiting" /\ stopping[o].done \in closed.done
  /\ stopping' = [stopping EXCEPT ![o] = [pc |-> "idle", done |-> 0]]
  /\ UNCHANGED <<pollVars, running, stopChan, doneChan, closed, loop, cancelled, panicked, overlapped>>

\* The goroutine reads s.doneChan when it gets to its defer.
LoopBegin(l) ==
  /\ loop[l].pc = "born"
  /\ loop' = [loop EXCEPT ![l].pc = "top", ![l].done = doneChan]
  /\ UNCHANGED <<pollVars, running, stopChan, doneChan, closed, stopping, cancelled, panicked, overlapped>>

\* It reads s.stopChan anew each time it enters the select.
LoopSelect(l) ==
  /\ loop[l].pc = "top" /\ polling[l] = "no"
  /\ loop' = [loop EXCEPT ![l].pc = "select", ![l].stop = stopChan]
  /\ UNCHANGED <<pollVars, running, stopChan, doneChan, closed, stopping, cancelled, panicked, overlapped>>

Tick(l) ==
  /\ loop[l].pc = "select"
  /\ tickAt' = wall
  /\ IF wall >= sched.next THEN Poll(l, "wait") ELSE UNCHANGED polling
  /\ loop' = [loop EXCEPT ![l].pc = "top"]
  /\ UNCHANGED <<wall, shown, sched, running, stopChan, doneChan, closed, stopping, cancelled,
                 panicked, overlapped>>

MustExit(l) == loop[l].pc = "select" /\ (cancelled \/ loop[l].stop \in closed.stop)

LoopExit_NotDone(l) ==
  /\ MustExit(l)
  /\ loop' = [loop EXCEPT ![l].pc = "off"]
  /\ UNCHANGED <<pollVars, running, stopChan, doneChan, closed, stopping, cancelled, panicked, overlapped>>

LoopExit(l) ==
  /\ MustExit(l)
  /\ loop' = [loop EXCEPT ![l].pc = "off"]
  /\ closed' = [closed EXCEPT !.done = @ \cup {loop[l].done}]
  /\ panicked' = (loop[l].done \in closed.done)
  /\ UNCHANGED <<pollVars, running, stopChan, doneChan, stopping, cancelled, overlapped>>

Cancel ==
  /\ ~cancelled /\ cancelled' = TRUE
  /\ UNCHANGED <<pollVars, running, stopChan, doneChan, closed, loop, stopping, panicked, overlapped>>

AdvanceWall ==
  /\ wall < MaxNow /\ wall' = wall + 1
  /\ UNCHANGED <<shown, sched, tickAt, polling, lifeVars>>

SchedNext ==
  /\ ~panicked
  /\ \/ PollAll
     \/ \E p \in Pollers : PollStart(p) \/ PollAbandoned(p) \/ PollOK(p) \/ PollFailed(p)
     \/ Start \/ Cancel
     \/ \E o \in Owners : Stop(o) \/ StopWait(o) \/ Stopped(o)
     \/ \E l \in Loops : LoopBegin(l) \/ LoopSelect(l) \/ Tick(l) \/ LoopExit(l)
     \/ AdvanceWall

SchedSpec == SchedInit /\ [][SchedNext]_schedVars

-----------------------------------------------------------------------------
SchedTypeOK ==
  /\ wall \in 0..MaxNow /\ tickAt \in 0..MaxNow \cup {None}
  /\ shown \in [health : {"healthy", "degraded", "unavailable"},
                quota : {"healthy", "low", "exhausted"}]
  /\ sched \in [failures : 0..MaxFails, next : Int]
  /\ polling \in [Pollers -> {"no", "wait", "up"}]
  /\ loop \in [Loops -> [pc : {"off", "born", "top", "select"},
                         stop : Loops \cup {0}, done : Loops \cup {0}]]
  /\ closed \in [stop : SUBSET Loops, done : SUBSET Loops]
  /\ running \in BOOLEAN /\ cancelled \in BOOLEAN /\ panicked \in BOOLEAN /\ overlapped \in BOOLEAN
  /\ stopping \in [Owners -> [pc : {"idle", "unlocked", "waiting"}, done : Loops \cup {0}]]
  /\ stopChan \in Loops \cup {0} /\ doneChan \in Loops \cup {0}

\* As long as no Start is made before an earlier Stop has returned (Stop clears `running` and
\* lets go of the mutex before it waits, so nothing but the callers' order keeps one out): when
\* every Stop has returned no loop is left, a new loop never shares its channels with an old
\* one that is still in a poll, and no channel is closed twice.
OneLoop ==
  overlapped
  \/ /\ Cardinality({l \in Loops : loop[l].pc # "off"}) <= 1
     /\ ~running /\ (\A o \in Owners : ~InStop(o)) => \A l \in Loops : loop[l].pc = "off"
     /\ ~panicked

WillClose(l, d) ==
  /\ \/ loop[l].pc = "born" /\ d = doneChan
     \/ loop[l].pc \in {"top", "select"} /\ d = loop[l].done
  /\ loop[l].pc = "select" => loop[l].stop \in closed.stop

Awaited(o) == IF stopping[o].pc = "waiting" THEN stopping[o].done ELSE doneChan

\* Under the same order of the callers: a Stop waits, or is about to, for a channel that will
\* be closed, by a loop that has read it or is about to and that has seen, or will see when it
\* next selects, that it must stop; so Stop returns when the loop's poll does.
StopHasLoop ==
  overlapped
  \/ \A o \in Owners : InStop(o) =>
       /\ stopChan \in closed.stop
       /\ Awaited(o) \in closed.done \/ \E l \in Loops : WillClose(l, Awaited(o))
=============================================================================
