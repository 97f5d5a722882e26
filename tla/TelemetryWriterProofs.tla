---------------------- MODULE TelemetryWriterProofs ----------------------
(***************************************************************************)
(* Proofs about TelemetryWriter, for every capacity, batch size and set of *)
(* requests: what the queue admits is written in order and once, Close     *)
(* tells of every loss, and the writer implements TelemetryLog.            *)
(***************************************************************************)
EXTENDS TelemetryWriter, TelemetryRecordsProofs

-----------------------------------------------------------------------------
LEMMA LandedInBatch ==
  ASSUME NEW bad, NEW fk
  PROVE  Landed(bad, fk) \in SUBSET DOMAIN batch
BY DEF Landed

\* What a transaction writes into the row of a request.
LEMMA BatchRow ==
  ASSUME rows \in [Requests -> Bodies \cup {Absent}], batch \in Seq(Records),
         NEW ok \in SUBSET DOMAIN batch, NEW q \in Requests
  PROVE  \/ RequestRows(batch, ok, q) = {} /\ Upserted(rows, batch, ok)[q] = rows[q]
         \/ \E i \in RequestRows(batch, ok, q) :
              /\ \A j \in RequestRows(batch, ok, q) : j <= i
              /\ Upserted(rows, batch, ok)[q] = batch[i].body
BY UpsertedRow, Zenon

-----------------------------------------------------------------------------
(***************************************************************************)
(* The inductive invariant.                                                *)
(***************************************************************************)

\* Where the worker is says what it holds and what it knows.
WorkerInv ==
  /\ wpc \in {"receive", "exit", "stopped"} => batch = <<>>
  /\ wpc \in {"drain", "write", "lastwrite"} => batch # <<>>
  /\ wpc \in {"lastwrite", "exit", "stopped"} => closed /\ queue = <<>>

\* A loss is remembered until Close reads it.
ErrorInv ==
  /\ lost # {} => firstErr
  /\ wpc = "stopped" => flushErr = firstErr

CloserInv ==
  \A c \in Closers : closer[c] = "flushed" => wpc = "stopped" /\ ~flushErr

WInv == WriterTypeOK /\ AdmittedInOrder /\ WorkerInv /\ ErrorInv /\ CloserInv

USE WriterAssumption, RecordAssumption

LEMMA WriterInitInv == WriterInit => WInv
<1> SUFFICES ASSUME WriterInit PROVE WInv
  OBVIOUS
<1> USE DEF WriterInit
<1>1. << >> \in Seq(Records) /\ Len(<< >>) = 0
  BY EmptySeq
<1>2. WriterTypeOK
  <2>1. rows \in [Requests -> Bodies \cup {Absent}] /\ closer \in [Closers -> CloserPcs]
    BY DEF CloserPcs
  <2>2. /\ queue \in Seq(Records) /\ batch \in Seq(Records)
        /\ admitted \in Seq(Records) /\ handled \in Seq(Records)
        /\ Len(queue) <= Cap /\ Len(batch) <= BatchSize
    BY <1>1
  <2>3. closed \in BOOLEAN /\ firstErr \in BOOLEAN /\ flushErr \in BOOLEAN
    OBVIOUS
  <2>4. wpc \in WorkerPcs /\ children \subseteq Records /\ lost \subseteq 1..Len(handled)
    BY DEF WorkerPcs
  <2>5. QED
    BY <2>1, <2>2, <2>3, <2>4 DEF WriterTypeOK
<1>3. AdmittedInOrder
  BY <1>1, ConcatEmptySeq DEF AdmittedInOrder
<1>4. WorkerInv /\ ErrorInv /\ CloserInv
  BY DEF WorkerInv, ErrorInv, CloserInv
<1>5. QED
  BY <1>2, <1>3, <1>4 DEF WInv

LEMMA AdmitInv ==
  ASSUME WInv, NEW r \in Records, Admit(r)
  PROVE  WInv'
<1>0. (handled \o batch) \o Append(queue, r) = Append((handled \o batch) \o queue, r)
  <2>1. queue \in Seq(Records) /\ handled \in Seq(Records) /\ batch \in Seq(Records)
    BY DEF WInv, WriterTypeOK
  <2>2. handled \o batch \in Seq(Records)
    BY <2>1, ConcatProperties
  <2>3. QED
    BY <2>1, <2>2, AppendRight
<1> USE DEF WInv, WriterTypeOK, Admit, Admissible, workerVars, dbVars
<1>1. Len(queue) \in Nat /\ Len(admitted) \in Nat
  OBVIOUS
<1>2. queue' \in Seq(Records) /\ Len(queue') = Len(queue) + 1 /\ admitted' \in Seq(Records)
  OBVIOUS
<1>3. WriterTypeOK'
  BY <1>1, <1>2
<1>4. AdmittedInOrder'
  BY <1>0 DEF AdmittedInOrder
<1>5. WorkerInv' /\ ErrorInv' /\ CloserInv'
  BY DEF WorkerInv, ErrorInv, CloserInv
<1>6. QED
  BY <1>3, <1>4, <1>5

LEMMA RecordsAssociative ==
  \A s, t, u \in Seq(Records) : (s \o t) \o u = s \o (t \o u)
BY ConcatAssociative

\* What Receive and the first half of Drain have in common.
LEMMA TakeInv ==
  ASSUME WInv, queue # <<>>, Len(batch) < BatchSize,
         batch' = Append(batch, Head(queue)), queue' = Tail(queue),
         UNCHANGED <<handled, admitted>>
  PROVE  /\ batch' \in Seq(Records) /\ Len(batch') <= BatchSize /\ batch' # <<>>
         /\ queue' \in Seq(Records) /\ Len(queue') <= Cap
         /\ batch' \o queue' = batch \o queue
         /\ AdmittedInOrder'
<1>1. /\ batch \in Seq(Records) /\ queue \in Seq(Records) /\ handled \in Seq(Records)
      /\ Len(batch) \in Nat /\ Len(queue) \in Nat /\ Len(queue) <= Cap
      /\ Cap \in Nat /\ BatchSize \in Nat
  BY DEF WInv, WriterTypeOK
<1>2. /\ batch' \in Seq(Records) /\ Len(batch') = Len(batch) + 1 /\ batch' # <<>>
      /\ batch' \o queue' = batch \o queue
  BY <1>1, MoveHead
<1>3. queue' \in Seq(Records) /\ Len(queue') = Len(queue) - 1
  BY <1>1, HeadTailProperties
<1>4. (handled \o batch') \o queue' = handled \o (batch' \o queue')
  BY <1>1, <1>2, <1>3, RecordsAssociative
<1>5. (handled \o batch) \o queue = handled \o (batch \o queue)
  BY <1>1, RecordsAssociative
<1>6. AdmittedInOrder'
  BY <1>2, <1>4, <1>5 DEF AdmittedInOrder, WInv
<1>7. QED
  BY <1>1, <1>2, <1>3, <1>6

LEMMA ReceiveInv == ASSUME WInv, Receive PROVE WInv'
<1> USE DEF WInv, WriterTypeOK, Receive, dbVars, WorkerPcs
<1>1. CASE queue # <<>>
  <2>1. batch = <<>> /\ Len(batch) < BatchSize
    BY DEF WorkerInv
  <2>2. /\ batch' \in Seq(Records) /\ Len(batch') <= BatchSize /\ batch' # <<>>
        /\ queue' \in Seq(Records) /\ Len(queue') <= Cap
        /\ AdmittedInOrder'
    BY <1>1, <2>1, TakeInv
  <2>3. WriterTypeOK'
    BY <1>1, <2>2
  <2>4. WorkerInv' /\ ErrorInv' /\ CloserInv'
    BY <1>1, <2>2 DEF WorkerInv, ErrorInv, CloserInv
  <2>5. QED
    BY <2>2, <2>3, <2>4
<1>2. CASE queue = <<>>
  <2>1. batch = <<>> /\ closed /\ wpc' = "exit" /\ UNCHANGED <<queue, batch>>
    BY <1>2 DEF WorkerInv
  <2>2. WriterTypeOK'
    BY <2>1
  <2>3. AdmittedInOrder' /\ WorkerInv' /\ ErrorInv' /\ CloserInv'
    BY <1>2, <2>1 DEF AdmittedInOrder, WorkerInv, ErrorInv, CloserInv
  <2>4. QED
    BY <2>2, <2>3
<1>3. QED
  BY <1>1, <1>2

LEMMA DrainInv == ASSUME WInv, Drain PROVE WInv'
<1> USE DEF WInv, WriterTypeOK, Drain, dbVars, WorkerPcs
<1>1. CASE Len(batch) < BatchSize /\ queue # <<>>
  <2>1. UNCHANGED wpc /\ batch' = Append(batch, Head(queue)) /\ queue' = Tail(queue)
    BY <1>1
  <2>2. /\ batch' \in Seq(Records) /\ Len(batch') <= BatchSize /\ batch' # <<>>
        /\ queue' \in Seq(Records) /\ Len(queue') <= Cap
        /\ AdmittedInOrder'
    BY <1>1, <2>1, TakeInv
  <2>3. WriterTypeOK'
    BY <2>1, <2>2
  <2>4. WorkerInv' /\ ErrorInv' /\ CloserInv'
    BY <2>1, <2>2 DEF WorkerInv, ErrorInv, CloserInv
  <2>5. QED
    BY <2>2, <2>3, <2>4
<1>2. CASE ~(Len(batch) < BatchSize /\ queue # <<>>)
  <2>1. /\ UNCHANGED <<queue, batch>>
        /\ wpc' \in {"write", "lastwrite"}
        /\ wpc' = "lastwrite" => closed /\ queue = <<>>
    BY <1>2
  <2>2. WriterTypeOK'
    BY <2>1
  <2>3. AdmittedInOrder' /\ WorkerInv' /\ ErrorInv' /\ CloserInv'
    BY <2>1 DEF AdmittedInOrder, WorkerInv, ErrorInv, CloserInv
  <2>4. QED
    BY <2>2, <2>3
<1>3. QED
  BY <1>1, <1>2

\* What Commit and Rollback have in common.
LEMMA SettleInv ==
  ASSUME WInv, Writing, NEW ok \in SUBSET DOMAIN batch, Settle(ok),
         firstErr' = KeepErr(ok),
         rows' \in [Requests -> Bodies \cup {Absent}], children' \subseteq Records,
         UNCHANGED <<queue, closed, flushErr, closer, admitted>>
  PROVE  WInv'
<1> USE DEF WInv, WriterTypeOK, Settle, Writing
<1>1. /\ handled' \in Seq(Records) /\ Len(handled') = Len(handled) + Len(batch)
      /\ Len(handled) \in Nat /\ Len(batch) \in Nat /\ DOMAIN batch = 1..Len(batch)
  BY ConcatProperties, LenProperties
<1>2. lost' \subseteq 1..Len(handled')
  <2>1. lost \subseteq 1..Len(handled')
    BY <1>1
  <2>2. \A i \in 1..Len(batch) : Len(handled) + i \in 1..Len(handled')
    BY <1>1
  <2>3. QED
    BY <1>1, <2>1, <2>2
<1>3. batch' = <<>> /\ batch' \in Seq(Records) /\ Len(batch') = 0
  BY EmptySeq
<1>4. wpc' \in {"receive", "exit"} /\ (wpc' = "exit" => wpc = "lastwrite")
  OBVIOUS
<1>5. firstErr' \in BOOLEAN
  BY DEF KeepErr
<1>6. WriterTypeOK'
  BY <1>1, <1>2, <1>3, <1>4, <1>5 DEF WorkerPcs
<1>7. AdmittedInOrder'
  <2>1. handled' \o <<>> = handled'
    BY <1>1, ConcatEmptySeq
  <2>2. QED
    BY <1>3, <2>1 DEF AdmittedInOrder
<1>8. WorkerInv'
  BY <1>3, <1>4 DEF WorkerInv
<1>9. lost' # {} => firstErr'
  BY DEF ErrorInv, KeepErr
<1>10. wpc' # "stopped" /\ wpc # "stopped"
  BY <1>4
<1>11. ErrorInv' /\ CloserInv'
  BY <1>9, <1>10 DEF ErrorInv, CloserInv
<1>12. QED
  BY <1>6, <1>7, <1>8, <1>11

LEMMA CommitInv == ASSUME WInv, Commit PROVE WInv'
<1> PICK bad \in SUBSET DOMAIN batch, fk \in BOOLEAN :
      /\ rows' = Upserted(rows, batch, Landed(bad, fk))
      /\ children' = children \cup Inserted(batch, Landed(bad, fk))
      /\ firstErr' = KeepErr(Landed(bad, fk))
      /\ Settle(Landed(bad, fk))
  BY DEF Commit
<1>1. Landed(bad, fk) \in SUBSET DOMAIN batch
  BY LandedInBatch
<1>2. rows' \in [Requests -> Bodies \cup {Absent}] /\ children' \subseteq Records
  BY <1>1, UpsertedType, InsertedType DEF WInv, WriterTypeOK
<1>3. QED
  BY <1>1, <1>2, SettleInv DEF Commit

LEMMA RollbackInv == ASSUME WInv, Rollback PROVE WInv'
<1>1. {} \in SUBSET DOMAIN batch
  OBVIOUS
<1>2. rows' \in [Requests -> Bodies \cup {Absent}] /\ children' \subseteq Records
  BY DEF Rollback, WInv, WriterTypeOK
<1>3. QED
  BY <1>1, <1>2, SettleInv DEF Rollback

LEMMA ExitInv == ASSUME WInv, Exit PROVE WInv'
<1> USE DEF WInv, WriterTypeOK, Exit, dbVars, WorkerPcs
<1>1. WriterTypeOK'
  OBVIOUS
<1>2. \A c \in Closers : closer[c] # "flushed"
  BY DEF CloserInv
<1>3. AdmittedInOrder' /\ WorkerInv' /\ ErrorInv' /\ CloserInv'
  BY <1>2 DEF AdmittedInOrder, WorkerInv, ErrorInv, CloserInv
<1>4. QED
  BY <1>1, <1>3

LEMMA CloseInv == ASSUME WInv, NEW c \in Closers, Close(c) PROVE WInv'
<1> USE DEF WInv, WriterTypeOK, workerVars, dbVars, CloserPcs
<1>1. CASE StartClose(c)
  <2>1. WriterTypeOK'
    BY <1>1 DEF StartClose
  <2>2. AdmittedInOrder' /\ WorkerInv' /\ ErrorInv'
    BY <1>1 DEF StartClose, AdmittedInOrder, WorkerInv, ErrorInv
  <2>3. CloserInv'
    BY <1>1 DEF StartClose, CloserInv
  <2>4. QED
    BY <2>1, <2>2, <2>3
<1>2. CASE FinishClose(c)
  <2>1. PICK dbErr \in BOOLEAN :
          closer' = [closer EXCEPT ![c] = IF flushErr \/ dbErr THEN "failed" ELSE "flushed"]
    BY <1>2 DEF FinishClose
  <2>2. WriterTypeOK'
    BY <1>2, <2>1 DEF FinishClose
  <2>3. AdmittedInOrder' /\ WorkerInv' /\ ErrorInv'
    BY <1>2 DEF FinishClose, AdmittedInOrder, WorkerInv, ErrorInv
  <2>4. CloserInv'
    BY <1>2, <2>1 DEF FinishClose, CloserInv
  <2>5. QED
    BY <2>2, <2>3, <2>4
<1>3. QED
  BY <1>1, <1>2 DEF Close

LEMMA StutterInv == ASSUME WInv, UNCHANGED writerVars PROVE WInv'
BY DEF writerVars, WInv, WriterTypeOK, AdmittedInOrder, WorkerInv, ErrorInv, CloserInv

LEMMA WriterInvStep == WInv /\ [WriterNext]_writerVars => WInv'
<1> SUFFICES ASSUME WInv, [WriterNext]_writerVars PROVE WInv'
  OBVIOUS
<1>1. ASSUME NEW r \in Records, Refuse(r) PROVE WInv'
  BY <1>1, StutterInv DEF Refuse
<1>2. QED
  BY <1>1, AdmitInv, ReceiveInv, DrainInv, CommitInv, RollbackInv, ExitInv, CloseInv, StutterInv
     DEF WriterNext, Worker

LEMMA WriterInvariant == WriterSpec => []WInv
BY WriterInitInv, WriterInvStep, PTL DEF WriterSpec

-----------------------------------------------------------------------------
\* Type correctness of the queue, the worker, the tables and the histories.
THEOREM WriterTypeCorrect == WriterSpec => []WriterTypeOK
<1>1. WInv => WriterTypeOK
  BY DEF WInv
<1>2. QED
  BY <1>1, WriterInvariant, PTL

\* Nothing enqueue took is lost on its way to a transaction, written twice or
\* overtaken by a later record.
THEOREM QueueKeepsOrder == WriterSpec => []AdmittedInOrder
<1>1. WInv => AdmittedInOrder
  BY DEF WInv
<1>2. QED
  BY <1>1, WriterInvariant, PTL

\* Close returns nil only if every record it was responsible for reached a table.
THEOREM CloseIsHonest == WriterSpec => []CloseTellsLoss
<1>1. WInv => CloseTellsLoss
  <2> SUFFICES ASSUME WInv, NEW c \in Closers, closer[c] = "flushed"
               PROVE  lost = {} /\ handled = admitted
    BY DEF CloseTellsLoss
  <2>1. wpc = "stopped" /\ ~flushErr
    BY DEF WInv, CloserInv
  <2>2. lost = {}
    BY <2>1 DEF WInv, ErrorInv
  <2>3. batch = <<>> /\ queue = <<>> /\ handled \in Seq(Records)
    BY <2>1 DEF WInv, WorkerInv, WriterTypeOK
  <2>4. handled \o <<>> = handled
    BY <2>3, ConcatEmptySeq
  <2>5. handled = admitted
    BY <2>3, <2>4 DEF WInv, AdmittedInOrder
  <2>6. QED
    BY <2>2, <2>5
<1>2. QED
  BY <1>1, WriterInvariant, PTL

-----------------------------------------------------------------------------
(***************************************************************************)
(* The requests table and the history of the transactions.                 *)
(***************************************************************************)

\* The positions of the records of q that reached a table.
Mine(q) == { i \in DOMAIN handled \ lost : handled[i].kind = "request" /\ handled[i].req = q }

\* Of a set of positions, the last one is the one that RowIsLatest chooses.
LEMMA LastIsChosen ==
  ASSUME NEW n \in Nat, NEW S \in SUBSET (1..n), NEW k \in S, \A j \in S : j <= k
  PROVE  (CHOOSE i \in S : \A j \in S : j <= i) = k
<1> DEFINE last == CHOOSE i \in S : \A j \in S : j <= i
<1>1. last \in S /\ \A j \in S : j <= last
  BY Zenon
<1>2. last \in 1..n /\ k \in 1..n /\ last <= k /\ k <= last
  BY <1>1
<1> HIDE DEF last
<1>3. last = k
  BY <1>2
<1>4. QED
  BY <1>3 DEF last

\* The batch of a transaction follows what was handled before.
LEMMA SettledRecords ==
  ASSUME WInv, NEW ok \in SUBSET DOMAIN batch, Settle(ok), NEW q \in Requests
  PROVE  /\ Len(handled) \in Nat /\ Len(batch) \in Nat /\ DOMAIN batch = 1..Len(batch)
         /\ Mine(q) \in SUBSET (1..Len(handled)) /\ Mine(q)' \in SUBSET (1..(Len(handled) + Len(batch)))
         /\ \A i \in 1..Len(handled) : handled'[i] = handled[i] /\ (i \in Mine(q)' <=> i \in Mine(q))
         /\ \A i \in 1..Len(batch) :
              /\ handled'[Len(handled) + i] = batch[i]
              /\ Len(handled) + i \in Mine(q)' <=> i \in RequestRows(batch, ok, q)
<1>1. /\ handled \in Seq(Records) /\ batch \in Seq(Records) /\ lost \subseteq 1..Len(handled)
      /\ handled' = handled \o batch
      /\ lost' = lost \cup { Len(handled) + i : i \in DOMAIN batch \ ok }
  BY DEF WInv, WriterTypeOK, Settle
<1>2. /\ Len(handled) \in Nat /\ Len(batch) \in Nat
      /\ DOMAIN handled = 1..Len(handled) /\ DOMAIN batch = 1..Len(batch)
  BY <1>1, LenProperties
<1>3. /\ handled' \in Seq(Records) /\ Len(handled') = Len(handled) + Len(batch)
      /\ \A i \in 1..(Len(handled) + Len(batch)) :
           handled'[i] = IF i <= Len(handled) THEN handled[i] ELSE batch[i - Len(handled)]
  BY <1>1, ConcatProperties
<1>4. DOMAIN handled' = 1..(Len(handled) + Len(batch))
  BY <1>3, LenProperties
<1>5. \A i \in 1..Len(handled) : handled'[i] = handled[i] /\ i \in DOMAIN handled'
  BY <1>2, <1>3, <1>4
<1>6. \A i \in 1..Len(batch) : handled'[Len(handled) + i] = batch[i] /\ Len(handled) + i \in DOMAIN handled'
  <2> SUFFICES ASSUME NEW i \in 1..Len(batch)
               PROVE  handled'[Len(handled) + i] = batch[i] /\ Len(handled) + i \in DOMAIN handled'
    OBVIOUS
  <2>1. /\ Len(handled) + i \in 1..(Len(handled) + Len(batch)) /\ ~(Len(handled) + i <= Len(handled))
        /\ (Len(handled) + i) - Len(handled) = i
    BY <1>2
  <2>2. QED
    BY <1>3, <1>4, <2>1
<1>7. /\ \A i \in 1..Len(handled) : i \in lost' <=> i \in lost
      /\ \A i \in 1..Len(batch) : Len(handled) + i \in lost' <=> i \notin ok
  <2>1. \A i \in 1..Len(handled) : i \in lost' <=> i \in lost
    <3>1. \A i \in 1..Len(handled), k \in DOMAIN batch : i # Len(handled) + k
      BY <1>2
    <3>2. QED
      BY <1>1, <3>1
  <2>2. ASSUME NEW i \in 1..Len(batch) PROVE Len(handled) + i \in lost' <=> i \notin ok
    <3>1. Len(handled) + i \notin lost
      BY <1>1, <1>2
    <3>2. \A k \in DOMAIN batch : Len(handled) + i = Len(handled) + k <=> i = k
      BY <1>2
    <3>3. QED
      BY <1>1, <1>2, <3>1, <3>2
  <2>3. QED
    BY <2>1, <2>2
<1>8. Mine(q) \in SUBSET (1..Len(handled)) /\ Mine(q)' \in SUBSET (1..(Len(handled) + Len(batch)))
  BY <1>2, <1>4 DEF Mine
<1>9. \A i \in 1..Len(handled) : i \in Mine(q)' <=> i \in Mine(q)
  BY <1>2, <1>5, <1>7 DEF Mine
<1>10. \A i \in 1..Len(batch) : Len(handled) + i \in Mine(q)' <=> i \in RequestRows(batch, ok, q)
  BY <1>2, <1>6, <1>7 DEF Mine, RequestRows
<1>11. QED
  BY <1>2, <1>5, <1>6, <1>8, <1>9, <1>10

\* The upserts of a transaction leave, of every request, the last record of all transactions.
LEMMA SettledRow ==
  ASSUME WInv, NEW ok \in SUBSET DOMAIN batch, Settle(ok), rows' = Upserted(rows, batch, ok),
         NEW q \in Requests,
         rows[q] = IF Mine(q) = {} THEN Absent
                   ELSE handled[CHOOSE i \in Mine(q) : \A j \in Mine(q) : j <= i].body
  PROVE  rows'[q] = IF Mine(q)' = {} THEN Absent
                    ELSE handled'[CHOOSE i \in Mine(q)' : \A j \in Mine(q)' : j <= i].body
<1> DEFINE h == Len(handled)
           n == Len(handled) + Len(batch)
           new == RequestRows(batch, ok, q)
           mine == Mine(q)
           mine1 == Mine(q)'
<1>1. /\ h \in Nat /\ Len(batch) \in Nat /\ n \in Nat /\ DOMAIN batch = 1..Len(batch)
      /\ mine \in SUBSET (1..h) /\ mine1 \in SUBSET (1..n)
      /\ \A i \in 1..h : handled'[i] = handled[i] /\ (i \in mine1 <=> i \in mine)
      /\ \A i \in 1..Len(batch) :
           /\ handled'[h + i] = batch[i]
           /\ h + i \in mine1 <=> i \in new
  BY SettledRecords
<1>2. \/ new = {} /\ rows'[q] = rows[q]
      \/ \E i \in new : (\A j \in new : j <= i) /\ rows'[q] = batch[i].body
  <2>1. rows \in [Requests -> Bodies \cup {Absent}] /\ batch \in Seq(Records)
    BY DEF WInv, WriterTypeOK
  <2>2. \/ RequestRows(batch, ok, q) = {} /\ Upserted(rows, batch, ok)[q] = rows[q]
        \/ \E i \in RequestRows(batch, ok, q) :
             /\ \A j \in RequestRows(batch, ok, q) : j <= i
             /\ Upserted(rows, batch, ok)[q] = batch[i].body
    BY <2>1, BatchRow, Zenon
  <2>3. QED
    BY <2>2, Zenon
<1>3. new \in SUBSET (1..Len(batch))
  BY <1>1 DEF RequestRows
<1>4. \A k \in mine1 : k \in mine \/ \E i \in new : k = h + i
  <2> SUFFICES ASSUME NEW k \in mine1, k \notin mine PROVE \E i \in new : k = h + i
    OBVIOUS
  <2>1. k \in 1..n /\ k \notin 1..h
    BY <1>1
  <2>2. k - h \in 1..Len(batch) /\ k = h + (k - h)
    BY <1>1, <2>1
  <2>3. QED
    BY <1>1, <2>2
<1>5. \A k \in mine : k \in mine1
  BY <1>1
<1>6. CASE new = {} /\ rows'[q] = rows[q]
  <2>1. mine1 = mine
    BY <1>4, <1>5, <1>6
  <2>2. CASE mine = {}
    BY <1>6, <2>1, <2>2
  <2>3. CASE mine # {}
    <3>1. PICK k \in mine : \A j \in mine : j <= k
      BY <1>1, <2>3, MaxExists
    <3>2. (CHOOSE i \in mine : \A j \in mine : j <= i) = k
      BY <1>1, <3>1, LastIsChosen
    <3>3. handled'[k] = handled[k]
      BY <1>1
    <3> HIDE DEF mine, mine1
    <3>4. rows[q] = handled[k].body
      BY <2>3, <3>2 DEF mine
    <3>5. (CHOOSE i \in mine1 : \A j \in mine1 : j <= i) = k
      BY <2>1, <3>2
    <3>6. rows'[q] = handled'[CHOOSE i \in mine1 : \A j \in mine1 : j <= i].body
      BY <1>6, <3>3, <3>4, <3>5
    <3>7. mine1 # {}
      BY <2>1, <2>3
    <3>8. QED
      BY <3>6, <3>7 DEF mine1
  <2>4. QED
    BY <2>2, <2>3
<1>7. CASE \E i \in new : (\A j \in new : j <= i) /\ rows'[q] = batch[i].body
  <2>1. PICK i \in new : (\A j \in new : j <= i) /\ rows'[q] = batch[i].body
    BY <1>7
  <2>2. i \in 1..Len(batch) /\ h + i \in mine1 /\ handled'[h + i] = batch[i]
    BY <1>1, <1>3
  <2>3. \A k \in mine1 : k <= h + i
    <3>1. \A k \in mine : k <= h + i
      BY <1>1, <2>2
    <3>2. \A j \in new : h + j <= h + i
      BY <1>1, <1>3, <2>1
    <3>3. QED
      BY <1>4, <3>1, <3>2
  <2> HIDE DEF mine1
  <2>4. (CHOOSE k \in mine1 : \A j \in mine1 : j <= k) = h + i
    <3>1. n \in Nat /\ mine1 \in SUBSET (1..n) /\ h + i \in mine1
      BY <1>1, <2>2
    <3>2. QED
      BY <2>3, <3>1, LastIsChosen
  <2>5. rows'[q] = handled'[CHOOSE k \in mine1 : \A j \in mine1 : j <= k].body
    BY <2>1, <2>2, <2>4
  <2>6. QED
    BY <2>2, <2>5 DEF mine1
<1>8. QED
  BY <1>2, <1>6, <1>7

LEMMA LatestStep == WInv /\ RowIsLatest /\ [WriterNext]_writerVars => RowIsLatest'
<1> SUFFICES ASSUME WInv, RowIsLatest, [WriterNext]_writerVars PROVE RowIsLatest'
  OBVIOUS
<1>1. RowIsLatest <=> \A q \in Requests :
        rows[q] = IF Mine(q) = {} THEN Absent
                  ELSE handled[CHOOSE i \in Mine(q) : \A j \in Mine(q) : j <= i].body
  BY DEF RowIsLatest, Mine
<1>2. RowIsLatest' <=> \A q \in Requests :
        rows'[q] = IF Mine(q)' = {} THEN Absent
                   ELSE handled'[CHOOSE i \in Mine(q)' : \A j \in Mine(q)' : j <= i].body
  BY DEF RowIsLatest, Mine
<1>3. ASSUME NEW ok \in SUBSET DOMAIN batch, Settle(ok), rows' = Upserted(rows, batch, ok)
      PROVE  RowIsLatest'
  BY <1>1, <1>2, <1>3, SettledRow
<1>4. CASE Commit
  <2>1. PICK bad \in SUBSET DOMAIN batch, fk \in BOOLEAN :
          rows' = Upserted(rows, batch, Landed(bad, fk)) /\ Settle(Landed(bad, fk))
    BY <1>4 DEF Commit
  <2>2. QED
    BY <1>3, <2>1, LandedInBatch
<1>5. CASE Rollback
  <2>1. Settle({}) /\ UNCHANGED rows /\ {} \in SUBSET DOMAIN batch
    BY <1>5 DEF Rollback
  <2>2. rows \in [Requests -> Bodies \cup {Absent}] /\ batch \in Seq(Records)
    BY DEF WInv, WriterTypeOK
  <2>3. Upserted(rows, batch, {}) = rows
    BY <2>2 DEF Upserted, RequestRows
  <2>4. QED
    BY <1>3, <2>1, <2>3
<1>6. CASE UNCHANGED <<rows, handled, lost>>
  BY <1>6 DEF RowIsLatest
<1>7. QED
  BY <1>4, <1>5, <1>6
     DEF WriterNext, Worker, Admit, Refuse, Receive, Drain, Exit, Close, StartClose, FinishClose,
         writerVars, workerVars, dbVars

\* Every request row says what the last record of the request said that was not lost, over
\* all the transactions that were committed or rolled back: the invariant the upserts keep.
THEOREM RowsAreLatest == WriterSpec => []RowIsLatest
<1>1. WriterInit => RowIsLatest
  <2> SUFFICES ASSUME WriterInit PROVE RowIsLatest
    OBVIOUS
  <2>1. DOMAIN handled = {} /\ \A q \in Requests : rows[q] = Absent
    BY DEF WriterInit
  <2>2. QED
    BY <2>1 DEF RowIsLatest
<1>2. QED
  BY <1>1, LatestStep, WriterInvariant, PTL DEF WriterSpec

-----------------------------------------------------------------------------
(***************************************************************************)
(* TelemetryWriter implements TelemetryLog.                                *)
(***************************************************************************)
LEMMA InitRefines == WriterInit => Log!LogInit
BY EmptySeq, ConcatEmptySeq DEF WriterInit, Log!LogInit

LEMMA AdmitRefines ==
  ASSUME WInv, NEW r \in Records, Admit(r)
  PROVE  Log!LogAdmit(r)
<1>1. /\ batch \in Seq(Records) /\ queue \in Seq(Records)
      /\ Len(batch) \in Nat /\ Len(queue) \in Nat /\ Len(batch) <= BatchSize
      /\ Cap \in Nat /\ BatchSize \in Nat
  BY DEF WInv, WriterTypeOK
<1>2. batch \o Append(queue, r) = Append(batch \o queue, r)
  BY <1>1, AppendRight
<1>3. Len(batch \o queue) = Len(batch) + Len(queue)
  BY <1>1, ConcatProperties
<1>4. Len(queue) < Cap
  BY DEF Admit, Admissible
<1>5. Len(batch \o queue) < Cap + BatchSize
  BY <1>1, <1>3, <1>4
<1>6. QED
  BY <1>2, <1>5 DEF Admit, Admissible, Log!LogAdmit, workerVars, dbVars

\* Receive and Drain move records inside the log.
LEMMA MoveStutters ==
  ASSUME WInv, Receive \/ Drain
  PROVE  UNCHANGED Log!logVars
<1>1. batch \in Seq(Records) /\ queue \in Seq(Records)
  BY DEF WInv, WriterTypeOK
<1>2. \/ queue # <<>> /\ batch' = Append(batch, Head(queue)) /\ queue' = Tail(queue)
      \/ UNCHANGED <<queue, batch>>
  BY DEF Receive, Drain
<1>3. batch' \o queue' = batch \o queue
  BY <1>1, <1>2, MoveHead
<1>4. UNCHANGED <<closed, closer, rows, children, lost>>
  BY DEF Receive, Drain, dbVars
<1>5. QED
  BY <1>3, <1>4 DEF Log!logVars

\* The end of a transaction, with or without effect, is one step of the log.
LEMMA SettleRefines ==
  ASSUME WInv, Writing, NEW ok \in SUBSET DOMAIN batch, Settle(ok),
         rows' = Upserted(rows, batch, ok),
         children' = children \cup Inserted(batch, ok),
         UNCHANGED <<queue, closed, closer>>
  PROVE  Log!LogApply
<1> DEFINE pend == batch \o queue
           n == Len(batch)
<1>1. /\ batch \in Seq(Records) /\ queue \in Seq(Records) /\ n \in Nat /\ DOMAIN batch = 1..n
      /\ n <= BatchSize /\ lost \subseteq 1..Len(handled) /\ handled \in Seq(Records)
      /\ Len(handled) \in Nat
  BY LenProperties DEF WInv, WriterTypeOK
<1>2. batch # <<>> /\ n >= 1
  <2>1. batch # <<>>
    BY DEF WInv, WorkerInv, Writing
  <2>2. QED
    BY <1>1, <2>1, EmptySeq
<1>3. Len(pend) = n + Len(queue) /\ Len(queue) \in Nat /\ n \in 1..Len(pend)
  BY <1>1, <1>2, ConcatProperties
<1>4. batch' \o queue' = SubSeq(pend, n + 1, Len(pend))
  <2>1. batch' \o queue' = queue
    BY <1>1, ConcatEmptySeq DEF Settle
  <2>2. QED
    BY <1>1, <2>1, DropPrefix
<1>5. /\ Upserted(rows, pend, ok) = Upserted(rows, batch, ok)
      /\ Inserted(pend, ok) = Inserted(batch, ok)
  BY <1>1, PrefixRows
<1>6. (lost' # {}) <=> (lost # {} \/ ok # 1..n)
  BY <1>1 DEF Settle
<1>7. ok \in SUBSET (1..n)
  BY <1>1
<1>8. /\ n \in 1..Len(pend) /\ n <= BatchSize
      /\ batch' \o queue' = SubSeq(pend, n + 1, Len(pend))
      /\ rows' = Upserted(rows, pend, ok)
      /\ children' = children \cup Inserted(pend, ok)
      /\ (lost' # {}) = (lost # {} \/ ok # 1..n)
  BY <1>1, <1>3, <1>4, <1>5, <1>6
<1> HIDE DEF n
<1>9. QED
  BY <1>7, <1>8 DEF Log!LogApply, Log!Upserted, Log!Inserted, Log!RequestRows,
        Upserted, Inserted, RequestRows

LEMMA CommitRefines == ASSUME WInv, Commit PROVE Log!LogApply
<1> PICK bad \in SUBSET DOMAIN batch, fk \in BOOLEAN :
      /\ rows' = Upserted(rows, batch, Landed(bad, fk))
      /\ children' = children \cup Inserted(batch, Landed(bad, fk))
      /\ Settle(Landed(bad, fk))
  BY DEF Commit
<1>1. QED
  BY LandedInBatch, SettleRefines DEF Commit

LEMMA RollbackRefines == ASSUME WInv, Rollback PROVE Log!LogApply
<1>1. Upserted(rows, batch, {}) = [q \in Requests |-> rows[q]]
  BY DEF Upserted, RequestRows
<1>2. Upserted(rows, batch, {}) = rows
  BY <1>1 DEF WInv, WriterTypeOK
<1>3. Inserted(batch, {}) = {}
  BY DEF Inserted
<1>4. {} \in SUBSET DOMAIN batch
  OBVIOUS
<1>5. QED
  BY <1>2, <1>3, <1>4, SettleRefines DEF Rollback

LEMMA CloseRefines ==
  ASSUME WInv, NEW c \in Closers, Close(c)
  PROVE  Log!LogStartClose(c) \/ Log!LogFinishClose(c)
<1>1. CASE StartClose(c)
  BY <1>1 DEF StartClose, Log!LogStartClose, workerVars, dbVars
<1>2. CASE FinishClose(c)
  <2>1. PICK dbErr \in BOOLEAN :
          closer' = [closer EXCEPT ![c] = IF flushErr \/ dbErr THEN "failed" ELSE "flushed"]
    BY <1>2 DEF FinishClose
  <2>2. batch = <<>> /\ queue = <<>> /\ (~flushErr => lost = {})
    BY <1>2 DEF FinishClose, WInv, WorkerInv, ErrorInv
  <2>3. batch \o queue = <<>>
    BY <2>2, EmptySeq, ConcatEmptySeq
  <2>4. QED
    BY <1>2, <2>1, <2>2, <2>3 DEF FinishClose, Log!LogFinishClose, workerVars, dbVars
<1>3. QED
  BY <1>1, <1>2 DEF Close

LEMMA StepRefines == WInv /\ [WriterNext]_writerVars => [Log!LogNext]_(Log!logVars)
<1> SUFFICES ASSUME WInv, [WriterNext]_writerVars
             PROVE  Log!LogNext \/ UNCHANGED Log!logVars
  OBVIOUS
<1>1. Log!Records = Records
  BY DEF Log!Records, Records
<1>2. ASSUME NEW r \in Records, Admit(r) \/ Refuse(r)
      PROVE  Log!LogNext \/ UNCHANGED Log!logVars
  BY <1>1, <1>2, AdmitRefines DEF Log!LogNext, Refuse, writerVars, Log!logVars
<1>3. CASE Receive \/ Drain
  BY <1>3, MoveStutters
<1>4. CASE Commit \/ Rollback
  BY <1>4, CommitRefines, RollbackRefines DEF Log!LogNext
<1>5. CASE Exit
  BY <1>5 DEF Exit, dbVars, Log!logVars
<1>6. ASSUME NEW c \in Closers, Close(c) PROVE Log!LogNext
  BY <1>6, CloseRefines DEF Log!LogNext
<1>7. CASE UNCHANGED writerVars
  BY <1>7 DEF writerVars, Log!logVars
<1>8. QED
  BY <1>2, <1>3, <1>4, <1>5, <1>6, <1>7 DEF WriterNext, Worker

\* The writer with its queue, batches and worker is a telemetry log: what Dispatch
\* relies on holds of the code's writer.
THEOREM WriterImplementsLog == WriterSpec => ImplementsLog
<1>1. QED
  BY InitRefines, StepRefines, WriterInvariant, PTL
     DEF WriterSpec, ImplementsLog, Log!LogSpec
=============================================================================
