\* Two requests, a queue of two, transactions of up to two records, three
\* records in all: a full queue, several batches, a batch whose parent row was
\* committed before and one that carries it.
CONSTANTS
  r1 = r1  r2 = r2  c1 = c1  c2 = c2
  Requests = {r1, r2}
  Bodies = {"in_flight", "done"}
  ChildRows = {"attempt"}
  Absent = Absent
  Closers = {c1, c2}
  Cap = 2
  BatchSize = 2
  MaxRecords = 3
SPECIFICATION FairWriterSpec
INVARIANTS WriterTypeOK AdmittedInOrder CloseTellsLoss RowIsLatest
PROPERTIES ImplementsLog CloseReturns
CHECK_DEADLOCK FALSE
