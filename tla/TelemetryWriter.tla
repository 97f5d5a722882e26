------------------------- MODULE TelemetryWriter -------------------------
(***************************************************************************)
(* The asynchronous telemetry writer (pkg/storage/writer.go): producers    *)
(* offer records to a bounded queue and never block, one worker drains it  *)
(* in batches into SQLite, Close stops admission and waits for the worker. *)
(***************************************************************************)
EXTENDS TelemetryRecords

CONSTANTS
  Closers,    \* goroutines that may call Close
  Cap,        \* the capacity of the queue
  BatchSize,  \* records in one transaction
  MaxRecords  \* bound: records admitted to the queue

ASSUME WriterAssumption ==
  Cap \in Nat \ {0} /\ BatchSize \in Nat \ {0} /\ MaxRecords \in Nat

VARIABLES
  queue,     \* the channel
  closed,    \* Writer.closed, and the channel is closed
  batch,     \* the worker's batch
  wpc,       \* where the worker is
  firstErr,  \* the first error of any batch
  flushErr,  \* Writer.flushErr
  closer,    \* what each caller of Close sees
  rows,      \* table requests: Absent or the body of each row
  children,  \* tables request_attempts and usage
  admitted,  \* history: the records enqueue took, in order
  handled,   \* history: the records of the transactions that ended, in order
  lost       \* history: the positions in handled that no table took

dbVars     == <<rows, children, handled, lost>>
workerVars == <<batch, wpc, firstErr, flushErr>>
writerVars == <<queue, closed, batch, wpc, firstErr, flushErr, closer,
                rows, children, admitted, handled, lost>>

WorkerPcs == {"receive", "drain", "write", "lastwrite", "exit", "stopped"}
CloserPcs == {"idle", "waiting", "flushed", "failed", "noop"}

WriterInit ==
  /\ queue = <<>> /\ closed = FALSE
  /\ batch = <<>> /\ wpc = "receive"
  /\ firstErr = FALSE /\ flushErr = FALSE
  /\ closer = [c \in Closers |-> "idle"]
  /\ rows = [q \in Requests |-> Absent]
  /\ children = {}
  /\ admitted = <<>> /\ handled = <<>> /\ lost = {}

-----------------------------------------------------------------------------
(***************************************************************************)
(* enqueue: the closed check and the send are one step under mu.           *)
(***************************************************************************)

\* Mutant: the closed check is made before the lock is taken, and is out of date.
Admissible_NoClosedCheck(r) ==
  Len(queue) < Cap /\ Len(admitted) < MaxRecords

Admissible(r) ==
  ~closed /\ Len(queue) < Cap /\ Len(admitted) < MaxRecords

Admit(r) ==
  /\ Admissible(r)
  /\ queue' = Append(queue, r)
  /\ admitted' = Append(admitted, r)
  /\ UNCHANGED <<closed, workerVars, closer, dbVars>>

\* ErrClosed or ErrQueueFull: the record is dropped and the caller goes on.
Refuse(r) ==
  /\ closed \/ Len(queue) = Cap
  /\ UNCHANGED writerVars

-----------------------------------------------------------------------------
(***************************************************************************)
(* The worker.                                                             *)
(***************************************************************************)

\* The blocking receive; the channel is closed and drained only after Close.
Receive ==
  /\ wpc = "receive"
  /\ \/ /\ queue # <<>>
        /\ batch' = Append(batch, Head(queue)) /\ queue' = Tail(queue)
        /\ wpc' = "drain"
     \/ /\ queue = <<>> /\ closed
        /\ wpc' = IF batch # <<>> THEN "lastwrite" ELSE "exit"
        /\ UNCHANGED <<queue, batch>>
  /\ UNCHANGED <<closed, firstErr, flushErr, closer, admitted, dbVars>>

\* Take what is there without blocking, up to a full batch.
Drain ==
  /\ wpc = "drain"
  /\ \/ /\ Len(batch) < BatchSize /\ queue # <<>>
        /\ batch' = Append(batch, Head(queue)) /\ queue' = Tail(queue)
        /\ UNCHANGED wpc
     \/ /\ Len(batch) >= BatchSize \/ queue = <<>>
        /\ wpc' = IF Len(batch) < BatchSize /\ closed THEN "lastwrite" ELSE "write"
        /\ UNCHANGED <<queue, batch>>
  /\ UNCHANGED <<closed, firstErr, flushErr, closer, admitted, dbVars>>

\* A child row needs its parent when the connection enforces foreign keys: a
\* row committed before, or one this transaction wrote before it.
HasParent(i, bad) ==
  \/ rows[batch[i].req] # Absent
  \/ \E j \in 1..i-1 : /\ j \notin bad /\ batch[j].kind = "request"
                       /\ batch[j].req = batch[i].req

\* The statements that succeed when those in bad fail for reasons of their own
\* (a busy database, a full disk).  foreign_keys is a property of the
\* connection: NewWriter sets it on one, the pool may hand out another.
Landed(bad, fk) ==
  { i \in DOMAIN batch \ bad :
      batch[i].kind = "request" \/ ~fk \/ HasParent(i, bad) }

\* Mutant: the batch is not reset, and written again with the next one.
Settle_KeepBatch(ok) ==
  /\ handled' = handled \o batch
  /\ lost' = lost \cup { Len(handled) + i : i \in DOMAIN batch \ ok }
  /\ UNCHANGED batch
  /\ wpc' = IF wpc = "lastwrite" THEN "exit" ELSE "receive"

\* Every record of the batch was dealt with; those not in ok are lost.
Settle(ok) ==
  /\ handled' = handled \o batch
  /\ lost' = lost \cup { Len(handled) + i : i \in DOMAIN batch \ ok }
  /\ batch' = <<>>
  /\ wpc' = IF wpc = "lastwrite" THEN "exit" ELSE "receive"

\* Mutant: only the error of the last batch survives.
KeepErr_LastBatch(ok) == DOMAIN batch # ok

\* keepErr keeps the first error of all batches.
KeepErr(ok) == firstErr \/ DOMAIN batch # ok

Writing == wpc \in {"write", "lastwrite"}

Commit ==
  /\ Writing
  /\ \E bad \in SUBSET DOMAIN batch, fk \in BOOLEAN :
       LET ok == Landed(bad, fk) IN
       /\ rows' = Upserted(rows, batch, ok)
       /\ children' = children \cup Inserted(batch, ok)
       /\ firstErr' = KeepErr(ok)
       /\ Settle(ok)
  /\ UNCHANGED <<queue, closed, flushErr, closer, admitted>>

\* Begin, a prepare or the commit fails: the whole batch is dropped.
Rollback ==
  /\ Writing
  /\ firstErr' = KeepErr({})
  /\ Settle({})
  /\ UNCHANGED <<queue, closed, flushErr, closer, admitted, rows, children>>

\* Mutant: a return of the worker that does not close done.
Exit_NotDone ==
  /\ wpc = "exit"
  /\ flushErr' = firstErr
  /\ wpc' = "receive"
  /\ UNCHANGED <<queue, closed, batch, firstErr, closer, admitted, dbVars>>

\* The deferred function: flushErr is set, then done is closed.
Exit ==
  /\ wpc = "exit"
  /\ flushErr' = firstErr
  /\ wpc' = "stopped"
  /\ UNCHANGED <<queue, closed, batch, firstErr, closer, admitted, dbVars>>

-----------------------------------------------------------------------------
(***************************************************************************)
(* Close.                                                                  *)
(***************************************************************************)
StartClose(c) ==
  /\ closer[c] = "idle"
  /\ closed' = TRUE
  /\ closer' = [closer EXCEPT ![c] = IF closed THEN "noop" ELSE "waiting"]
  /\ UNCHANGED <<queue, workerVars, admitted, dbVars>>

\* <-done, then the database is closed, which may fail too.
FinishClose(c) ==
  /\ closer[c] = "waiting"
  /\ wpc = "stopped"
  /\ \E dbErr \in BOOLEAN :
       closer' = [closer EXCEPT ![c] = IF flushErr \/ dbErr THEN "failed" ELSE "flushed"]
  /\ UNCHANGED <<queue, closed, workerVars, admitted, dbVars>>

-----------------------------------------------------------------------------
Worker == Receive \/ Drain \/ Commit \/ Rollback \/ Exit

Close(c) == StartClose(c) \/ FinishClose(c)

WriterNext ==
  \/ \E r \in Records : Admit(r) \/ Refuse(r)
  \/ Worker
  \/ \E c \in Closers : Close(c)

WriterSpec == WriterInit /\ [][WriterNext]_writerVars

\* The worker is a goroutine of its own and SQLite gives up on a lock after
\* busy_timeout; a caller of Close does nothing but wait.
WriterFairness ==
  /\ WF_writerVars(Worker)
  /\ \A c \in Closers : WF_writerVars(FinishClose(c))

FairWriterSpec == WriterSpec /\ WriterFairness

-----------------------------------------------------------------------------
WriterTypeOK ==
  /\ queue \in Seq(Records) /\ Len(queue) <= Cap
  /\ closed \in BOOLEAN
  /\ batch \in Seq(Records) /\ Len(batch) <= BatchSize
  /\ wpc \in WorkerPcs
  /\ firstErr \in BOOLEAN /\ flushErr \in BOOLEAN
  /\ closer \in [Closers -> CloserPcs]
  /\ rows \in [Requests -> Bodies \cup {Absent}]
  /\ children \subseteq Records
  /\ admitted \in Seq(Records) /\ handled \in Seq(Records)
  /\ lost \subseteq 1..Len(handled)

\* No record is lost between admission and the end of its transaction, none is
\* written twice, and the order of admission is the order of writing.
AdmittedInOrder == admitted = handled \o batch \o queue

\* "Close flushes all queued telemetry records": a Close that waited and returned
\* nil tells the truth about every record ever admitted, whichever batch it was in.
CloseTellsLoss ==
  \A c \in Closers : closer[c] = "flushed" => lost = {} /\ handled = admitted

\* A request row says what its last record that was not lost said, across all
\* the batches it was spread over.
RowIsLatest ==
  \A q \in Requests :
    LET mine == { i \in DOMAIN handled \ lost :
                    handled[i].kind = "request" /\ handled[i].req = q }
    IN  rows[q] = IF mine = {} THEN Absent
                  ELSE handled[CHOOSE i \in mine : \A j \in mine : j <= i].body

\* The writer keeps the promises of the abstract log: nothing is admitted once
\* Close has begun, records reach the tables from the front, whole batches at a
\* time, and Close reports a loss.
Log == INSTANCE TelemetryLog WITH pending <- batch \o queue, lossy <- lost # {}
ImplementsLog == Log!LogSpec

\* Close returns, however many producers keep offering records.
CloseReturns == \A c \in Closers : closer[c] = "waiting" ~> closer[c] \in {"flushed", "failed"}
=============================================================================
