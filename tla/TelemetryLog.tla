-------------------------- MODULE TelemetryLog --------------------------
(***************************************************************************)
(* What the telemetry writer promises, without its queue, its batches and  *)
(* its worker: an ordered log of pending records that are applied to the   *)
(* tables from the front, a few at a time.  A record is applied or lost,   *)
(* once; Close is told about a loss.  TelemetryWriter implements it, and   *)
(* Dispatch is composed with it.                                           *)
(***************************************************************************)
EXTENDS TelemetryRecords

CONSTANTS
  Closers,    \* goroutines that may call Close
  Cap,        \* the capacity of the queue
  BatchSize   \* records in one transaction

ASSUME LogAssumption == Cap \in Nat \ {0} /\ BatchSize \in Nat \ {0}

VARIABLES
  pending,   \* admitted and not yet applied or lost
  closed,    \* no record is admitted any more
  lossy,     \* some admitted record was lost
  closer,    \* what each caller of Close sees
  rows,      \* table requests: Absent or the body of each row
  children   \* tables request_attempts and usage

logVars == <<pending, closed, lossy, closer, rows, children>>

LogInit ==
  /\ pending = <<>> /\ closed = FALSE /\ lossy = FALSE
  /\ closer = [c \in Closers |-> "idle"]
  /\ rows = [q \in Requests |-> Absent]
  /\ children = {}

\* A record is admitted; one batch may be in the worker's hands besides the queue.
LogAdmit(r) ==
  /\ ~closed /\ Len(pending) < Cap + BatchSize
  /\ pending' = Append(pending, r)
  /\ UNCHANGED <<closed, lossy, closer, rows, children>>

\* A record is refused: Close has begun, or at least a full queue is pending.
LogRefuse(r) ==
  /\ closed \/ Len(pending) >= Cap
  /\ UNCHANGED logVars

\* One transaction takes n records from the front; those not in ok are lost.
LogApply ==
  /\ \E n \in 1..Len(pending) :
       /\ n <= BatchSize
       /\ pending' = SubSeq(pending, n + 1, Len(pending))
       /\ \E ok \in SUBSET (1..n) :
            /\ rows' = Upserted(rows, pending, ok)
            /\ children' = children \cup Inserted(pending, ok)
            /\ lossy' = (lossy \/ ok # 1..n)
  /\ UNCHANGED <<closed, closer>>

LogStartClose(c) ==
  /\ closer[c] = "idle"
  /\ closed' = TRUE
  /\ closer' = [closer EXCEPT ![c] = IF closed THEN "noop" ELSE "waiting"]
  /\ UNCHANGED <<pending, lossy, rows, children>>

\* Close returns when nothing is pending, and without an error only if nothing
\* was lost.
LogFinishClose(c) ==
  /\ closer[c] = "waiting" /\ pending = <<>>
  /\ \E result \in {"flushed", "failed"} :
       /\ result = "flushed" => ~lossy
       /\ closer' = [closer EXCEPT ![c] = result]
  /\ UNCHANGED <<pending, closed, lossy, rows, children>>

LogNext ==
  \/ \E r \in Records : LogAdmit(r) \/ LogRefuse(r)
  \/ LogApply
  \/ \E c \in Closers : LogStartClose(c) \/ LogFinishClose(c)

LogSpec == LogInit /\ [][LogNext]_logVars
=============================================================================
