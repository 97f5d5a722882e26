------------------------ MODULE TelemetryRecords ------------------------
(***************************************************************************)
(* What the proxy records about a request (pkg/storage): a row of its own, *)
(* opened early and written again with the outcome, and child rows (one    *)
(* per attempt, one for the usage) that refer to it.                       *)
(***************************************************************************)
EXTENDS Integers, Sequences

CONSTANTS
  Requests,   \* request ids
  Bodies,     \* what a request row may say
  ChildRows,  \* what a child row may say
  Absent      \* no row for this request

ASSUME RecordAssumption == Absent \notin Bodies

Records == [kind : {"request"}, req : Requests, body : Bodies]
           \cup [kind : {"child"}, req : Requests, body : ChildRows]

\* The positions in ok where the sequence s writes the row of request q.
RequestRows(s, ok, q) == { i \in ok : s[i].kind = "request" /\ s[i].req = q }

\* Mutant: the insert does not overwrite (ON CONFLICT DO NOTHING).
Upserted_KeepFirst(rows, s, ok) ==
  [q \in Requests |->
     LET mine == RequestRows(s, ok, q) IN
     IF mine = {} \/ rows[q] # Absent THEN rows[q]
     ELSE s[CHOOSE i \in mine : \A j \in mine : i <= j].body]

\* The requests table after the statements at the positions ok of s: upserts run
\* in the order of s, so the last one of a request stays.
Upserted(rows, s, ok) ==
  [q \in Requests |->
     LET mine == RequestRows(s, ok, q) IN
     IF mine = {} THEN rows[q]
     ELSE s[CHOOSE i \in mine : \A j \in mine : j <= i].body]

\* The child rows those statements insert.
Inserted(s, ok) == { s[i] : i \in {k \in ok : s[k].kind = "child"} }
=============================================================================
