------------------------- MODULE DispatchProofs -------------------------
(***************************************************************************)
(* What Dispatch promises for any number of requests, lanes and changes    *)
(* by the operator, whatever the telemetry log drops.                      *)
(***************************************************************************)
EXTENDS Dispatch, TelemetryRecordsProofs, FiniteSetTheorems

Outcomes == {"complete", "failed"}
IsRow(r, q) == r.kind = "request" /\ r.req = q

-----------------------------------------------------------------------------
(***************************************************************************)
(* The inductive invariant.                                                *)
(***************************************************************************)

\* The lane being tried is none that failed; a lane that sent its headers stays; a stream
\* that has failed nothing has delivered everything so far.
LaneInv ==
  \A q \in Requests :
    /\ dpc[q] = "new" => attempts[q] = 0
    /\ dpc[q] \in {"lookup", "call", "stream", "encode"} => lane[q] \in Lanes
    /\ dpc[q] \in {"lookup", "call"} => lane[q] \notin excluded[q]
    /\ committed[q] # NoLane => dpc[q] \in {"stream", "done"} /\ lane[q] = committed[q]
    /\ dpc[q] = "stream" /\ ~failed[q] => answer[q] = "sofar"

\* What a dispatch has a child record for: its failed lanes, the lane that answers, and once
\* the answer is there its usage.
Counted(q, what) ==
  \/ what \in excluded[q]
  \/ what = lane[q] /\ dpc[q] \in {"stream", "encode", "done"}
  \/ what = "usage" /\ dpc[q] \in {"encode", "done"}

\* The children of a dispatch, those the log took and those it is about to offer, are
\* counted and different from one another.
CountOf(q) ==
  /\ \A i \in DOMAIN sent[q] : sent[q][i].kind = "child" => Counted(q, sent[q][i].body)
  /\ \A i \in DOMAIN outbox[q] : outbox[q][i].kind = "child" => Counted(q, outbox[q][i].body)
  /\ \A i, j \in DOMAIN sent[q] : i # j /\ sent[q][i].kind = "child" => sent[q][i] # sent[q][j]
  /\ \A i, j \in DOMAIN outbox[q] :
       i # j /\ outbox[q][i].kind = "child" => outbox[q][i] # outbox[q][j]
  /\ \A i \in DOMAIN sent[q], j \in DOMAIN outbox[q] :
       sent[q][i].kind = "child" => sent[q][i] # outbox[q][j]

\* The row of a request is the first thing the log took of it, or will be, unless it was
\* dropped; and its outcome is booked with the last step of the dispatch.
OpenOf(q) ==
  /\ dpc[q] = "new" => ~opened[q]
  /\ ~opened[q] => sent[q] = <<>> /\ outbox[q] = <<>>
  /\ tracked[q] => dpc[q] = "done"
  /\ q \notin unopened /\ sent[q] # <<>> => sent[q][1].kind = "request"
  /\ opened[q] /\ q \notin unopened /\ sent[q] = <<>> =>
       outbox[q] # <<>> /\ outbox[q][1].kind = "request"
  /\ \A i \in DOMAIN outbox[q] : outbox[q][i].req = q

\* An outcome is of a dispatch that is done, and no row of the request follows it: not in
\* the log, nor in what is about to be offered.
FinalOf(q) ==
  /\ rows[q] \in Outcomes => dpc[q] = "done"
  /\ \A i \in DOMAIN pending :
       IsRow(pending[i], q) =>
         /\ rows[q] \notin Outcomes
         /\ pending[i].body \in Outcomes => dpc[q] = "done"
         /\ \A j \in DOMAIN pending : i < j /\ IsRow(pending[j], q) => pending[i].body = "in_flight"
         /\ \A j \in DOMAIN outbox[q] : IsRow(outbox[q][j], q) => pending[i].body = "in_flight"
  /\ \A i \in DOMAIN outbox[q] :
       IsRow(outbox[q][i], q) =>
         /\ rows[q] \notin Outcomes
         /\ outbox[q][i].body \in Outcomes => dpc[q] = "done"
         /\ \A j \in DOMAIN outbox[q] : i < j /\ IsRow(outbox[q][j], q) => outbox[q][i].body = "in_flight"

\* Wherever "complete" is said of a request, its client has what its lane sent.
TruthOf(q) ==
  \/ rows[q] = "complete"
  \/ \E i \in DOMAIN pending : IsRow(pending[i], q) /\ pending[i].body = "complete"
  \/ \E i \in DOMAIN outbox[q] : IsRow(outbox[q][i], q) /\ outbox[q][i].body = "complete"
  => answer[q] \in {"whole", "cut"}

CountInv == \A q \in Requests : CountOf(q)
OpenInv == \A q \in Requests : OpenOf(q)
FinalInv == \A q \in Requests : FinalOf(q)
TruthInv == \A q \in Requests : TruthOf(q)

IInv == TypeOK /\ LaneInv /\ CountInv /\ OpenInv /\ FinalInv /\ TruthInv

-----------------------------------------------------------------------------
(***************************************************************************)
(* The log.                                                                *)
(***************************************************************************)
LogType ==
  /\ pending \in Seq(Records) /\ Len(pending) <= Cap + BatchSize
  /\ closed \in BOOLEAN /\ lossy \in BOOLEAN
  /\ closer \in [Closers -> {"idle", "waiting", "flushed", "failed", "noop"}]
  /\ rows \in [Requests -> Bodies \cup {Absent}]
  /\ children \subseteq Records

LEMMA RowAfter ==
  ASSUME LogType, NEW n, NEW ok \in SUBSET (1..n), ok \in SUBSET DOMAIN pending,
         NEW q \in Requests
  PROVE  \/ Upserted(rows, pending, ok)[q] = rows[q]
         \/ \E i \in 1..n : IsRow(pending[i], q) /\ Upserted(rows, pending, ok)[q] = pending[i].body
<1>1. rows \in [Requests -> Bodies \cup {Absent}] /\ pending \in Seq(Records)
  BY DEF LogType
<1>2. \/ RequestRows(pending, ok, q) = {} /\ Upserted(rows, pending, ok)[q] = rows[q]
      \/ \E i \in RequestRows(pending, ok, q) :
           /\ \A j \in RequestRows(pending, ok, q) : j <= i
           /\ i \in DOMAIN pending /\ pending[i].body \in Bodies
           /\ Upserted(rows, pending, ok)[q] = pending[i].body
  BY <1>1, UpsertedRow, Zenon
<1>3. QED
  BY <1>2 DEF RequestRows, IsRow

LEMMA RecordTypes ==
  ASSUME NEW q \in Requests
  PROVE  /\ \A b \in Bodies : /\ RequestRow(q, b) \in Records /\ RequestRow(q, b).kind = "request"
                              /\ RequestRow(q, b).req = q /\ RequestRow(q, b).body = b
         /\ \A b \in ChildRows : /\ ChildRow(q, b) \in Records /\ ChildRow(q, b).kind = "child"
                                 /\ ChildRow(q, b).req = q /\ ChildRow(q, b).body = b
BY DEF RequestRow, ChildRow, Records

LEMMA AdmitLog ==
  ASSUME LogType, NEW r \in Records, LogAdmit(r)
  PROVE  /\ LogType' /\ UNCHANGED rows
         /\ Len(pending') = Len(pending) + 1 /\ pending'[Len(pending')] = r
         /\ \A i \in DOMAIN pending : pending'[i] = pending[i]
<1>1. pending' = Append(pending, r) /\ UNCHANGED <<closed, lossy, closer, rows, children>>
      /\ Len(pending) < Cap + BatchSize
  BY DEF LogAdmit
<1>2. pending \in Seq(Records) /\ Len(pending) \in Nat
  BY DEF LogType
<1>3. /\ pending' \in Seq(Records) /\ Len(pending') = Len(pending) + 1
      /\ pending'[Len(pending')] = r /\ \A i \in DOMAIN pending : pending'[i] = pending[i]
  BY <1>1, <1>2, AppendProperties, LenProperties
<1>4. QED
  BY <1>1, <1>2, <1>3, LogAssumption DEF LogType

LEMMA RefuseLog ==
  ASSUME LogType, NEW r, LogRefuse(r)
  PROVE  LogType' /\ UNCHANGED <<rows, pending>>
BY DEF LogType, LogRefuse, logVars

LEMMA ApplyLog ==
  ASSUME LogType, LogApply
  PROVE  /\ LogType'
         /\ \E n \in 1..Len(pending) :
              /\ \A i \in DOMAIN pending' : i + n \in DOMAIN pending /\ pending'[i] = pending[i + n]
              /\ \A q \in Requests :
                   \/ rows'[q] = rows[q]
                   \/ \E i \in 1..n : IsRow(pending[i], q) /\ rows'[q] = pending[i].body
<1>1. PICK n \in 1..Len(pending) :
        /\ pending' = SubSeq(pending, n + 1, Len(pending))
        /\ \E ok \in SUBSET (1..n) :
             /\ rows' = Upserted(rows, pending, ok)
             /\ children' = children \cup Inserted(pending, ok)
             /\ lossy' = (lossy \/ ok # 1..n)
  BY DEF LogApply
<1>2. PICK ok \in SUBSET (1..n) :
        /\ rows' = Upserted(rows, pending, ok)
        /\ children' = children \cup Inserted(pending, ok)
        /\ lossy' = (lossy \/ ok # 1..n)
  BY <1>1
<1>3. UNCHANGED <<closed, closer>>
  BY DEF LogApply
<1>4. pending \in Seq(Records) /\ Len(pending) \in Nat /\ DOMAIN pending = 1..Len(pending)
      /\ \A i \in DOMAIN pending : pending[i] \in Records
  BY LenProperties, ElementOfSeq DEF LogType
<1>5. /\ pending' \in Seq(Records) /\ Len(pending') = Len(pending) - n
      /\ \A i \in 1..(Len(pending) - n) : pending'[i] = pending[i + n]
  <2>1. \A i \in (n + 1)..Len(pending) : pending[i] \in Records
    BY <1>4
  <2>2. /\ pending' \in Seq(Records)
        /\ Len(pending') = IF n + 1 <= Len(pending) THEN Len(pending) - (n + 1) + 1 ELSE 0
        /\ \A i \in 1..(Len(pending) - (n + 1) + 1) : pending'[i] = pending[(n + 1) + i - 1]
    BY <1>1, <1>4, <2>1, SubSeqProperties
  <2>3. Len(pending') = Len(pending) - n
    <3>1. n \in 1..Len(pending) /\ Len(pending) \in Nat
      BY <1>4
    <3>2. Len(pending') = IF n + 1 <= Len(pending) THEN Len(pending) - (n + 1) + 1 ELSE 0
      BY <2>2, Zenon
    <3>3. QED
      BY <3>1, <3>2
  <2>4. \A i \in 1..(Len(pending) - n) : i \in 1..(Len(pending) - (n + 1) + 1) /\ (n + 1) + i - 1 = i + n
    BY <1>4
  <2>5. \A i \in 1..(Len(pending) - n) : pending'[i] = pending[i + n]
    BY <2>2, <2>4, Zenon
  <2>6. QED
    BY <2>2, <2>3, <2>5
<1>6. ok \in SUBSET DOMAIN pending
  BY <1>4
<1>7. LogType'
  <2>1. rows' \in [Requests -> Bodies \cup {Absent}]
    BY <1>2, <1>4, <1>6, UpsertedType DEF LogType
  <2>2. children' \subseteq Records
    BY <1>2, <1>4, <1>6, InsertedType DEF LogType
  <2>3. lossy' \in BOOLEAN
    BY <1>2, Zenon
  <2>4. Len(pending') <= Cap + BatchSize
    BY <1>4, <1>5, LogAssumption DEF LogType
  <2>5. QED
    BY <1>3, <1>5, <2>1, <2>2, <2>3, <2>4 DEF LogType
<1>8. \A i \in DOMAIN pending' : i + n \in DOMAIN pending /\ pending'[i] = pending[i + n]
  <2>1. DOMAIN pending' = 1..(Len(pending) - n)
    BY <1>5, LenProperties
  <2>2. QED
    BY <1>4, <1>5, <2>1
<1>9. ASSUME NEW q \in Requests
      PROVE  \/ rows'[q] = rows[q]
             \/ \E i \in 1..n : IsRow(pending[i], q) /\ rows'[q] = pending[i].body
  <2>1. \/ Upserted(rows, pending, ok)[q] = rows[q]
        \/ \E i \in 1..n : IsRow(pending[i], q) /\ Upserted(rows, pending, ok)[q] = pending[i].body
    BY <1>6, RowAfter, Zenon
  <2>2. QED
    BY <1>2, <2>1, Zenon
<1>10. QED
  BY <1>7, <1>8, <1>9

LEMMA CloseLog ==
  ASSUME LogType, NEW c \in Closers, LogStartClose(c) \/ LogFinishClose(c)
  PROVE  LogType' /\ UNCHANGED <<rows, pending>>
BY DEF LogType, LogStartClose, LogFinishClose

-----------------------------------------------------------------------------
(***************************************************************************)
(* What a step of a dispatch books.                                        *)
(***************************************************************************)

LEMMA OneRecord ==
  ASSUME NEW r \in Records
  PROVE  <<r>> \in Seq(Records) /\ Len(<<r>>) <= 1 /\ <<r>>[1] = r /\ <<r>> # <<>>
OBVIOUS

LEMMA NoRecord == <<>> \in Seq(Records) /\ Len(<<>>) <= 1
OBVIOUS

\* A booking has at most three records: the row that opens, and two more.
LEMMA ThreeParts ==
  ASSUME NEW a \in Seq(Records), NEW b \in Seq(Records), NEW c \in Seq(Records),
         Len(a) <= 1, Len(b) <= 1, Len(c) <= 1
  PROVE  LET s == a \o (b \o c) IN
         /\ s \in Seq(Records) /\ Len(s) = Len(a) + Len(b) + Len(c)
         /\ a # <<>> => s # <<>> /\ s[1] = a[1]
         /\ \A i \in DOMAIN s :
              \/ i = 1 /\ a # <<>> /\ s[i] = a[1]
              \/ i = Len(a) + 1 /\ b # <<>> /\ s[i] = b[1]
              \/ i = Len(a) + Len(b) + 1 /\ c # <<>> /\ s[i] = c[1]
<1> DEFINE t == b \o c
           s == a \o t
<1>1. Len(a) \in Nat /\ Len(b) \in Nat /\ Len(c) \in Nat
  BY LenProperties
<1>2. /\ t \in Seq(Records) /\ Len(t) = Len(b) + Len(c)
      /\ \A i \in 1..Len(t) : t[i] = IF i <= Len(b) THEN b[i] ELSE c[i - Len(b)]
  BY ConcatProperties, <1>1
<1>3. /\ s \in Seq(Records) /\ Len(s) = Len(a) + Len(t) /\ DOMAIN s = 1..Len(s)
      /\ \A i \in 1..Len(s) : s[i] = IF i <= Len(a) THEN a[i] ELSE t[i - Len(a)]
  BY ConcatProperties, LenProperties, <1>2
<1>4. /\ a # <<>> => Len(a) # 0
      /\ Len(a) # 0 => a # <<>>
      /\ Len(b) # 0 => b # <<>>
      /\ Len(c) # 0 => c # <<>>
  BY EmptySeq
<1> HIDE DEF t, s
<1>5. Len(s) = Len(a) + Len(b) + Len(c)
  BY <1>1, <1>2, <1>3
<1>6. ASSUME a # <<>> PROVE s # <<>> /\ s[1] = a[1]
  <2>1. Len(a) = 1 /\ Len(s) \in Nat /\ 1 \in 1..Len(s)
    <3>1. Len(a) # 0
      BY <1>4, <1>6, Zenon
    <3>2. QED
      BY <3>1, <1>1, <1>5
  <2>2. s[1] = a[1]
    BY <1>3, <2>1
  <2>3. s # <<>>
    BY <1>3, <2>1
  <2>4. QED
    BY <2>2, <2>3
<1>7. ASSUME NEW i \in DOMAIN s
      PROVE  \/ i = 1 /\ a # <<>> /\ s[i] = a[1]
             \/ i = Len(a) + 1 /\ b # <<>> /\ s[i] = b[1]
             \/ i = Len(a) + Len(b) + 1 /\ c # <<>> /\ s[i] = c[1]
  <2>1. i \in 1..(Len(a) + Len(b) + Len(c)) /\ i \in 1..Len(s)
    BY <1>3, <1>5
  <2>2. CASE i <= Len(a)
    <3>1. i = 1 /\ Len(a) # 0
      BY <1>1, <2>1, <2>2
    <3>2. QED
      BY <1>3, <1>4, <2>1, <2>2, <3>1
  <2>3. CASE ~(i <= Len(a))
    <3>1. s[i] = t[i - Len(a)] /\ i - Len(a) \in 1..Len(t)
      BY <1>1, <1>2, <1>3, <2>1, <2>3
    <3>2. CASE i - Len(a) <= Len(b)
      <4>1. i - Len(a) = 1 /\ Len(b) # 0 /\ i = Len(a) + 1
        BY <1>1, <2>1, <2>3, <3>2
      <4>2. s[i] = b[1]
        BY <1>2, <3>1, <3>2, <4>1
      <4>3. QED
        BY <1>4, <4>1, <4>2
    <3>3. CASE ~(i - Len(a) <= Len(b))
      <4>1. i - Len(a) - Len(b) = 1 /\ Len(c) # 0 /\ i = Len(a) + Len(b) + 1
        BY <1>1, <2>1, <3>3
      <4>2. s[i] = c[i - Len(a) - Len(b)]
        BY <1>2, <3>1, <3>3
      <4>3. QED
        BY <1>4, <4>1, <4>2
    <3>4. QED
      BY <3>2, <3>3
  <2>4. QED
    BY <2>2, <2>3
<1>8. QED
  BY <1>3, <1>5, <1>6, <1>7 DEF s, t

LEMMA RowTypes ==
  ASSUME NEW q \in Requests
  PROVE  /\ \A o \in {"in_flight", "complete", "failed"} :
              /\ RequestRow(q, o) \in Records /\ RequestRow(q, o).kind = "request"
              /\ RequestRow(q, o).req = q /\ RequestRow(q, o).body = o
         /\ \A x \in Lanes \cup {"usage"} :
              /\ ChildRow(q, x) \in Records /\ ChildRow(q, x).kind = "child"
              /\ ChildRow(q, x).req = q /\ ChildRow(q, x).body = x
<1>1. Bodies = {"in_flight", "complete", "failed"} /\ ChildRows = Lanes \cup {"usage"}
  BY DispatchAssumption
<1>2. QED
  BY <1>1, RecordTypes, Zenon

LEMMA OpeningShape ==
  ASSUME NEW q \in Requests
  PROVE  /\ Opening(q) \in Seq(Records) /\ Len(Opening(q)) <= 1
         /\ ~opened[q] => Opening(q) # <<>>
         /\ Opening(q) # <<>> => ~opened[q] /\ Opening(q)[1] = RequestRow(q, "in_flight")
<1>1. RequestRow(q, "in_flight") \in Records
  BY RowTypes
<1>2. CASE opened[q]
  BY <1>2 DEF Opening
<1>3. CASE ~opened[q]
  BY <1>1, <1>3, OneRecord DEF Opening
<1>4. QED
  BY <1>2, <1>3

\* x is counted by this step and was not before.
News(q, x) == x \in Lanes \cup {"usage"} /\ ~Counted(q, x) /\ Counted(q, x)'

\* The outcome o is of the dispatch as this step ends it.
Ends(q, o) ==
  o \in Outcomes /\ dpc'[q] = "done" /\ (o = "complete" => answer'[q] \in {"whole", "cut"})

\* What a step may book at once: the row first if it is not open yet, children that are
\* news, each once, and an outcome last.
Batch(q, s) ==
  /\ s \in Seq(Records)
  /\ \A i \in DOMAIN s : s[i].req = q
  /\ ~opened[q] => s # <<>> /\ s[1].kind = "request"
  /\ \A i \in DOMAIN s : s[i].kind = "child" => News(q, s[i].body)
  /\ \A i, j \in DOMAIN s : i # j /\ s[i].kind = "child" => s[i] # s[j]
  /\ \A i \in DOMAIN s :
       s[i].kind = "request" => s[i].body \in Bodies /\ (s[i].body # "in_flight" => Ends(q, s[i].body))
  /\ \A i, j \in DOMAIN s :
       i < j /\ s[i].kind = "request" /\ s[j].kind = "request" => s[i].body = "in_flight"

\* The second part is a child, the third another one or the outcome.
LEMMA BatchOf ==
  ASSUME NEW q \in Requests,
         NEW b \in Seq(Records), Len(b) <= 1,
         NEW c \in Seq(Records), Len(c) <= 1,
         b # <<>> => \E x : b[1] = ChildRow(q, x) /\ News(q, x),
         c # <<>> => \/ \E o : c[1] = RequestRow(q, o) /\ Ends(q, o)
                     \/ \E x : c[1] = ChildRow(q, x) /\ News(q, x),
         b # <<>> /\ c # <<>> => b[1] # c[1]
  PROVE  Batch(q, Opening(q) \o (b \o c))
<1> DEFINE a == Opening(q)
           s == a \o (b \o c)
<1>1. /\ a \in Seq(Records) /\ Len(a) <= 1
      /\ ~opened[q] => a # <<>>
      /\ a # <<>> => ~opened[q] /\ a[1] = RequestRow(q, "in_flight")
  BY OpeningShape
<1> HIDE DEF a
<1>2. /\ s \in Seq(Records) /\ DOMAIN s = 1..Len(s)
      /\ a # <<>> => s # <<>> /\ s[1] = a[1]
      /\ \A i \in DOMAIN s :
           \/ i = 1 /\ a # <<>> /\ s[i] = a[1]
           \/ i = Len(a) + 1 /\ b # <<>> /\ s[i] = b[1]
           \/ i = Len(a) + Len(b) + 1 /\ c # <<>> /\ s[i] = c[1]
  BY <1>1, ThreeParts, LenProperties
<1> HIDE DEF s
<1>3. a # <<>> => /\ a[1].req = q /\ a[1].kind = "request" /\ a[1].body = "in_flight"
  BY <1>1, RowTypes
<1>4. b # <<>> => b[1].req = q /\ b[1].kind = "child" /\ News(q, b[1].body)
  <2>1. \A x : News(q, x) => x \in Lanes \cup {"usage"}
    BY DEF News
  <2>2. QED
    BY <2>1, RowTypes
<1>5. c # <<>> => /\ c[1].req = q
                  /\ \/ c[1].kind = "request" /\ Ends(q, c[1].body)
                     \/ c[1].kind = "child" /\ News(q, c[1].body)
  <2>1. \A x : News(q, x) => x \in Lanes \cup {"usage"}
    BY DEF News
  <2>2. \A o : Ends(q, o) => o \in {"in_flight", "complete", "failed"}
    BY DEF Ends, Outcomes
  <2>3. QED
    BY <2>1, <2>2, RowTypes
<1>6. Len(a) \in Nat /\ Len(b) \in Nat /\ Len(c) \in Nat
  BY <1>1, LenProperties
<1>7. \A i \in DOMAIN s : s[i].req = q
  BY <1>2, <1>3, <1>4, <1>5, Zenon
<1>8. ~opened[q] => s # <<>> /\ s[1].kind = "request"
  BY <1>1, <1>2, <1>3, Zenon
<1>9. \A i \in DOMAIN s : s[i].kind = "child" => News(q, s[i].body)
  <2>1. "child" # "request"
    OBVIOUS
  <2>2. QED
    BY <2>1, <1>2, <1>3, <1>4, <1>5, Zenon
<1>10. \A i, j \in DOMAIN s : i # j /\ s[i].kind = "child" => s[i] # s[j]
  <2> SUFFICES ASSUME NEW i \in DOMAIN s, NEW j \in DOMAIN s, i # j, s[i].kind = "child", s[i] = s[j]
               PROVE  FALSE
    OBVIOUS
  <2>1. \/ i = Len(a) + 1 /\ b # <<>> /\ s[i] = b[1]
        \/ i = Len(a) + Len(b) + 1 /\ c # <<>> /\ s[i] = c[1]
    BY <1>2, <1>3
  <2>2. \/ j = Len(a) + 1 /\ b # <<>> /\ s[j] = b[1]
        \/ j = Len(a) + Len(b) + 1 /\ c # <<>> /\ s[j] = c[1]
    BY <1>2, <1>3
  <2>3. QED
    BY <2>1, <2>2
<1>11. \A i \in DOMAIN s :
        s[i].kind = "request" => s[i].body \in Bodies /\ (s[i].body # "in_flight" => Ends(q, s[i].body))
  <2>1. \A o : Ends(q, o) => o \in {"in_flight", "complete", "failed"}
    BY DEF Ends, Outcomes
  <2>2. "child" # "request" /\ Bodies = {"in_flight", "complete", "failed"}
    BY DispatchAssumption
  <2>3. QED
    BY <2>1, <2>2, <1>2, <1>3, <1>4, <1>5
<1>12. \A i, j \in DOMAIN s :
        i < j /\ s[i].kind = "request" /\ s[j].kind = "request" => s[i].body = "in_flight"
  <2> SUFFICES ASSUME NEW i \in DOMAIN s, NEW j \in DOMAIN s, i < j,
                      s[i].kind = "request", s[j].kind = "request"
               PROVE  s[i].body = "in_flight"
    OBVIOUS
  <2>1. \/ i = 1 /\ a # <<>> /\ s[i] = a[1]
        \/ i = Len(a) + Len(b) + 1 /\ c # <<>> /\ s[i] = c[1]
    BY <1>2, <1>4
  <2>2. \/ j = 1 /\ a # <<>> /\ s[j] = a[1]
        \/ j = Len(a) + Len(b) + 1 /\ c # <<>> /\ s[j] = c[1]
    BY <1>2, <1>4
  <2>3. i \in Nat /\ j \in Nat /\ 1 <= i
    BY <1>2, <1>6
  <2>4. i = 1 /\ a # <<>> /\ s[i] = a[1]
    BY <2>1, <2>2, <2>3, <1>6
  <2>5. QED
    BY <2>4, <1>3
<1>13. Batch(q, s)
  BY <1>2, <1>7, <1>8, <1>9, <1>10, <1>11, <1>12 DEF Batch
<1>14. QED
  BY <1>13 DEF s, a

-----------------------------------------------------------------------------
(***************************************************************************)
(* The steps of a dispatch, as the invariant sees them.                    *)
(***************************************************************************)
DispatchType ==
  /\ alias \in Lanes \cup {NoLane} /\ disabled \in BOOLEAN
  /\ registered \subseteq Lanes /\ changes \in 0..MaxChanges
  /\ dpc \in [Requests -> DispatchPcs]
  /\ mode \in [Requests -> Modes] /\ tools \in [Requests -> BOOLEAN]
  /\ attempts \in [Requests -> Nat] /\ limit \in [Requests -> Nat]
  /\ \A q \in Requests : attempts[q] <= limit[q]
  /\ excluded \in [Requests -> SUBSET Lanes]
  /\ lane \in [Requests -> Lanes \cup {NoLane}]
  /\ opened \in [Requests -> BOOLEAN] /\ tracked \in [Requests -> BOOLEAN]
  /\ outbox \in [Requests -> Seq(Records)]
  /\ committed \in [Requests -> Lanes \cup {NoLane}]
  /\ hasUsage \in [Requests -> BOOLEAN] /\ failed \in [Requests -> BOOLEAN]
  /\ client \in [Requests -> Clients]
  /\ answer \in [Requests -> Answers]
  /\ sent \in [Requests -> Seq(Records)] /\ unopened \subseteq Requests

LEMMA TypeParts == TypeOK <=> LogType /\ DispatchType
BY DEF TypeOK, LogType, DispatchType

\* A step of q changes nothing of another dispatch.
Frame(q) ==
  \A p \in Requests \ {q} :
    /\ dpc'[p] = dpc[p] /\ lane'[p] = lane[p] /\ excluded'[p] = excluded[p]
    /\ answer'[p] = answer[p] /\ opened'[p] = opened[p] /\ tracked'[p] = tracked[p]
    /\ outbox'[p] = outbox[p] /\ sent'[p] = sent[p]
    /\ committed'[p] = committed[p] /\ attempts'[p] = attempts[p]
    /\ p \in unopened' <=> p \in unopened

\* What is counted stays counted; a dispatch that streams or is done stays on its lane, and
\* one that is done stays as it is.
Advance(q) ==
  /\ \A x : Counted(q, x) => Counted(q, x)'
  /\ dpc[q] = "done" => dpc'[q] = "done" /\ answer'[q] = answer[q]
  /\ dpc[q] \in {"stream", "done"} =>
       committed'[q] = committed[q] /\ lane'[q] = lane[q] /\ attempts'[q] = attempts[q]
  /\ dpc'[q] = "new" => dpc[q] = "new"
  /\ tracked'[q] => tracked[q] \/ dpc'[q] = "done"

\* Nothing is booked.
Quiet == UNCHANGED <<logVars, bookVars, histVars>>

\* A batch is booked by a dispatch that is under way and has nothing left to offer.
Books(q) ==
  /\ dpc[q] # "done" /\ dpc'[q] # "new" /\ outbox[q] = <<>> /\ opened'[q]
  /\ UNCHANGED <<logVars, histVars>>
  /\ \E s : Batch(q, s) /\ outbox' = [outbox EXCEPT ![q] = s]

LEMMA RecordBooks ==
  ASSUME NEW q \in Requests, NEW o, Ends(q, o),
         NEW b \in Seq(Records), Len(b) <= 1,
         b # <<>> => \E x : b[1] = ChildRow(q, x) /\ News(q, x),
         RecordRequest(q, b, o)
  PROVE  \E s : Batch(q, s) /\ outbox' = [outbox EXCEPT ![q] = s]
<1> DEFINE c == IF tracked[q] THEN <<>> ELSE << RequestRow(q, o) >>
<1>1. RequestRow(q, o) \in Records /\ RequestRow(q, o).kind = "request"
  <2>1. o \in {"in_flight", "complete", "failed"}
    BY DEF Ends, Outcomes
  <2>2. QED
    BY <2>1, RowTypes
<1>2. c \in Seq(Records) /\ Len(c) <= 1 /\ (c # <<>> => c[1] = RequestRow(q, o))
  BY <1>1
<1>3. \A x : ChildRow(q, x).kind = "child"
  BY DEF ChildRow
<1>4. b # <<>> /\ c # <<>> => b[1] # c[1]
  BY <1>1, <1>2, <1>3
<1>5. outbox' = [outbox EXCEPT ![q] = Opening(q) \o (b \o c)]
  BY DEF RecordRequest, Book
<1> HIDE DEF c
<1>6. Batch(q, Opening(q) \o (b \o c))
  BY <1>2, <1>4, BatchOf
<1>7. QED
  BY <1>5, <1>6

LEMMA AttemptBooks ==
  ASSUME NEW q \in Requests, News(q, lane[q]), TrackAttempt(q)
  PROVE  \E s : Batch(q, s) /\ outbox' = [outbox EXCEPT ![q] = s]
<1> DEFINE c == << ChildRow(q, lane[q]) >>
<1>1. ChildRow(q, lane[q]) \in Records
  BY RowTypes DEF News
<1>2. c \in Seq(Records) /\ Len(c) <= 1 /\ c[1] = ChildRow(q, lane[q])
  BY <1>1
<1>3. <<>> \o c = c
  BY <1>1, <1>2, ConcatEmptySeq
<1>4. outbox' = [outbox EXCEPT ![q] = Opening(q) \o c]
  BY DEF TrackAttempt, Book
<1> HIDE DEF c
<1>5. PICK b : b \in Seq(Records) /\ Len(b) <= 1 /\ b = <<>>
  BY NoRecord, Zenon
<1>6. Batch(q, Opening(q) \o (b \o c))
  BY <1>2, <1>5, BatchOf
<1>7. QED
  BY <1>3, <1>4, <1>5, <1>6

\* What has to be shown of a step.
Sound(q) == DispatchType' /\ LaneInv' /\ Frame(q) /\ Advance(q)



LEMMA RouteFinds ==
  ASSUME DispatchType, NEW without, RouteTo(without) \in Lanes
  PROVE  RouteTo(without) \notin without
BY DispatchAssumption DEF RouteTo, Unknown, Unavailable, DispatchType

LEMMA QuietSteps ==
  ASSUME DispatchType, LaneInv, NEW q \in Requests
  PROVE  \/ Start(q) \/ Routed(q) \/ RouteUnknown(q) \/ (RouteUnavailable(q) /\ ~opened[q])
         \/ LookupMiss(q) \/ ToolsRefused(q) \/ Call(q) \/ NextEvent(q) \/ Stall(q) \/ HangUp(q)
         => Sound(q) /\ Quiet
<1>1. ASSUME Start(q) PROVE Sound(q) /\ Quiet
  <2>0. limit' \in [Requests -> Nat]
    <3>1. Cardinality(registered) \in Nat
      BY DispatchAssumption, FS_Subset, FS_CardinalityType DEF DispatchType
    <3>2. QED
      BY <3>1, <1>1 DEF Start, LeastAttempts, DispatchType
  <2>a. \A p \in Requests : attempts'[p] <= limit'[p]
    BY <2>0, <1>1 DEF Start, LaneInv, DispatchType
  <2>1. DispatchType'
    BY <2>0, <2>a, <1>1 DEF Start, LeastAttempts, At, Goto, Answer, loopVars, bookVars, sendVars, histVars, planeVars, DispatchType, DispatchPcs, Answers
  <2>2. LaneInv'
    BY <1>1, DispatchAssumption DEF Start, LeastAttempts, At, Goto, Answer, loopVars, bookVars, sendVars, histVars, planeVars, DispatchType, DispatchPcs, Answers, LaneInv
  <2>3. Frame(q) /\ Advance(q)
    BY <1>1 DEF Start, LeastAttempts, At, Goto, Answer, loopVars, bookVars, sendVars, histVars, planeVars, DispatchType, DispatchPcs, Answers, Frame, Advance, Counted
  <2>4. Quiet
    BY <1>1 DEF Start, LeastAttempts, At, Goto, Answer, loopVars, bookVars, sendVars, histVars, planeVars, Quiet
  <2>5. QED
    BY <2>1, <2>2, <2>3, <2>4 DEF Sound
<1>2. ASSUME Routed(q) PROVE Sound(q) /\ Quiet
  <2>1. DispatchType'
    BY <1>2 DEF Routed, MoreAttempts, At, Goto, Answer, loopVars, bookVars, sendVars, histVars, planeVars, DispatchType, DispatchPcs, Answers
  <2>2. LaneInv'
    BY <1>2, RouteFinds, DispatchAssumption DEF Routed, MoreAttempts, At, Goto, Answer, loopVars, bookVars, sendVars, histVars, planeVars, DispatchType, DispatchPcs, Answers, LaneInv
  <2>3. Frame(q) /\ Advance(q)
    BY <1>2 DEF Routed, MoreAttempts, At, Goto, Answer, loopVars, bookVars, sendVars, histVars, planeVars, DispatchType, DispatchPcs, Answers, Frame, Advance, Counted
  <2>4. Quiet
    BY <1>2 DEF Routed, MoreAttempts, At, Goto, Answer, loopVars, bookVars, sendVars, histVars, planeVars, Quiet
  <2>5. QED
    BY <2>1, <2>2, <2>3, <2>4 DEF Sound
<1>3. ASSUME RouteUnknown(q) PROVE Sound(q) /\ Quiet
  <2>a. attempts' \in [Requests -> Nat] /\ limit' = limit /\ \A p \in Requests : attempts'[p] <= limit[p]
    BY <1>3 DEF RouteUnknown, MoreAttempts, loopVars, DispatchType
  <2>b. dpc' \in [Requests -> DispatchPcs] /\ answer' \in [Requests -> Answers]
    BY <1>3 DEF RouteUnknown, Goto, Answer, DispatchType, DispatchPcs, Answers
  <2>1. DispatchType'
    BY <1>3, <2>a, <2>b DEF RouteUnknown, loopVars, bookVars, histVars, planeVars, DispatchType
  <2>2. LaneInv'
    BY <1>3, DispatchAssumption DEF RouteUnknown, MoreAttempts, At, Goto, Answer, loopVars, bookVars, sendVars, histVars, planeVars, DispatchType, DispatchPcs, Answers, LaneInv
  <2>3. Frame(q) /\ Advance(q)
    BY <1>3 DEF RouteUnknown, MoreAttempts, At, Goto, Answer, loopVars, bookVars, sendVars, histVars, planeVars, DispatchType, DispatchPcs, Answers, Frame, Advance, Counted
  <2>4. Quiet
    BY <1>3 DEF RouteUnknown, MoreAttempts, At, Goto, Answer, loopVars, bookVars, sendVars, histVars, planeVars, Quiet
  <2>5. QED
    BY <2>1, <2>2, <2>3, <2>4 DEF Sound
<1>4. ASSUME RouteUnavailable(q), ~opened[q] PROVE Sound(q) /\ Quiet
  <2>1. DispatchType'
    BY <1>4 DEF RouteUnavailable, MoreAttempts, At, Goto, Answer, loopVars, bookVars, sendVars, histVars, planeVars, DispatchType, DispatchPcs, Answers
  <2>2. LaneInv'
    BY <1>4, DispatchAssumption DEF RouteUnavailable, MoreAttempts, At, Goto, Answer, loopVars, bookVars, sendVars, histVars, planeVars, DispatchType, DispatchPcs, Answers, LaneInv
  <2>3. Frame(q) /\ Advance(q)
    BY <1>4 DEF RouteUnavailable, MoreAttempts, At, Goto, Answer, loopVars, bookVars, sendVars, histVars, planeVars, DispatchType, DispatchPcs, Answers, Frame, Advance, Counted
  <2>4. Quiet
    BY <1>4 DEF RouteUnavailable, MoreAttempts, At, Goto, Answer, loopVars, bookVars, sendVars, histVars, planeVars, Quiet
  <2>5. QED
    BY <2>1, <2>2, <2>3, <2>4 DEF Sound
<1>5. ASSUME LookupMiss(q) PROVE Sound(q) /\ Quiet
  <2>0. lane[q] \in Lanes
    BY <1>5 DEF LookupMiss, At, LaneInv
  <2>1. DispatchType'
    BY <2>0, <1>5 DEF LookupMiss, Exclude, At, Goto, Answer, loopVars, bookVars, sendVars, histVars, planeVars, DispatchType, DispatchPcs, Answers
  <2>2. LaneInv'
    BY <1>5, DispatchAssumption DEF LookupMiss, Exclude, At, Goto, Answer, loopVars, bookVars, sendVars, histVars, planeVars, DispatchType, DispatchPcs, Answers, LaneInv
  <2>3. Frame(q) /\ Advance(q)
    BY <1>5 DEF LookupMiss, Exclude, At, Goto, Answer, loopVars, bookVars, sendVars, histVars, planeVars, DispatchType, DispatchPcs, Answers, Frame, Advance, Counted
  <2>4. Quiet
    BY <1>5 DEF LookupMiss, Exclude, At, Goto, Answer, loopVars, bookVars, sendVars, histVars, planeVars, Quiet
  <2>5. QED
    BY <2>1, <2>2, <2>3, <2>4 DEF Sound
<1>6. ASSUME ToolsRefused(q) PROVE Sound(q) /\ Quiet
  <2>1. DispatchType'
    BY <1>6 DEF ToolsRefused, At, Goto, Answer, loopVars, bookVars, sendVars, histVars, planeVars, DispatchType, DispatchPcs, Answers
  <2>2. LaneInv'
    BY <1>6, DispatchAssumption DEF ToolsRefused, At, Goto, Answer, loopVars, bookVars, sendVars, histVars, planeVars, DispatchType, DispatchPcs, Answers, LaneInv
  <2>3. Frame(q) /\ Advance(q)
    BY <1>6 DEF ToolsRefused, At, Goto, Answer, loopVars, bookVars, sendVars, histVars, planeVars, DispatchType, DispatchPcs, Answers, Frame, Advance, Counted
  <2>4. Quiet
    BY <1>6 DEF ToolsRefused, At, Goto, Answer, loopVars, bookVars, sendVars, histVars, planeVars, Quiet
  <2>5. QED
    BY <2>1, <2>2, <2>3, <2>4 DEF Sound
<1>7. ASSUME Call(q) PROVE Sound(q) /\ Quiet
  <2>1. DispatchType'
    BY <1>7 DEF Call, At, Goto, Answer, loopVars, bookVars, sendVars, histVars, planeVars, DispatchType, DispatchPcs, Answers
  <2>2. LaneInv'
    BY <1>7, DispatchAssumption DEF Call, At, Goto, Answer, loopVars, bookVars, sendVars, histVars, planeVars, DispatchType, DispatchPcs, Answers, LaneInv
  <2>3. Frame(q) /\ Advance(q)
    BY <1>7 DEF Call, At, Goto, Answer, loopVars, bookVars, sendVars, histVars, planeVars, DispatchType, DispatchPcs, Answers, Frame, Advance, Counted
  <2>4. Quiet
    BY <1>7 DEF Call, At, Goto, Answer, loopVars, bookVars, sendVars, histVars, planeVars, Quiet
  <2>5. QED
    BY <2>1, <2>2, <2>3, <2>4 DEF Sound
<1>8. ASSUME NextEvent(q) PROVE Sound(q) /\ Quiet
  <2>0. failed'[q] = FALSE => answer'[q] = answer[q] /\ failed[q] = FALSE
    <3>1. PICK usage \in BOOLEAN, encoded \in BOOLEAN :
            /\ failed' = [failed EXCEPT ![q] = ~Delivered(q, encoded)]
            /\ Answer(q, IF ~failed[q] /\ ~Gone(q) /\ encoded THEN answer[q] ELSE "partial")
      BY <1>8 DEF NextEvent
    <3>2. failed[q] \in BOOLEAN
      BY DEF DispatchType
    <3>3. CASE ~failed[q] /\ ~Gone(q) /\ encoded
      BY <3>1, <3>2, <3>3 DEF Answer, DispatchType
    <3>4. CASE ~(~failed[q] /\ ~Gone(q) /\ encoded)
      <4>1. failed' = [failed EXCEPT ![q] = TRUE]
        BY <3>1, <3>4, Zenon DEF Delivered
      <4>2. QED
        BY <4>1 DEF DispatchType
    <3>5. QED
      BY <3>3, <3>4
  <2>b. UNCHANGED <<dpc, lane, excluded, committed, attempts>> /\ \A p \in Requests \ {q} : failed'[p] = failed[p] /\ answer'[p] = answer[p]
    BY <1>8 DEF NextEvent, Answer, DispatchType
  <2>1. DispatchType'
    BY <1>8 DEF NextEvent, At, Goto, Answer, loopVars, bookVars, sendVars, histVars, planeVars, DispatchType, DispatchPcs, Answers
  <2>2. LaneInv'
    BY <2>0, <2>b DEF LaneInv
  <2>3. Frame(q) /\ Advance(q)
    BY <1>8 DEF NextEvent, At, Goto, Answer, loopVars, bookVars, sendVars, histVars, planeVars, DispatchType, DispatchPcs, Answers, Frame, Advance, Counted
  <2>4. Quiet
    BY <1>8 DEF NextEvent, At, Goto, Answer, loopVars, bookVars, sendVars, histVars, planeVars, Quiet
  <2>5. QED
    BY <2>1, <2>2, <2>3, <2>4 DEF Sound
<1>9. ASSUME HangUp(q) PROVE Sound(q) /\ Quiet
  <2>1. DispatchType'
    BY <1>9 DEF HangUp, Gone, Clients, At, Goto, Answer, loopVars, bookVars, sendVars, histVars, planeVars, DispatchType, DispatchPcs, Answers
  <2>2. LaneInv'
    BY <1>9, DispatchAssumption DEF HangUp, Gone, Clients, At, Goto, Answer, loopVars, bookVars, sendVars, histVars, planeVars, DispatchType, DispatchPcs, Answers, LaneInv
  <2>3. Frame(q) /\ Advance(q)
    BY <1>9 DEF HangUp, Gone, Clients, At, Goto, Answer, loopVars, bookVars, sendVars, histVars, planeVars, DispatchType, DispatchPcs, Answers, Frame, Advance, Counted
  <2>4. Quiet
    BY <1>9 DEF HangUp, Gone, Clients, At, Goto, Answer, loopVars, bookVars, sendVars, histVars, planeVars, Quiet
  <2>5. QED
    BY <2>1, <2>2, <2>3, <2>4 DEF Sound
<1>10. ASSUME Stall(q) PROVE Sound(q) /\ Quiet
  <2>1. DispatchType'
    BY <1>10 DEF Stall, Clients, At, Goto, Answer, loopVars, bookVars, sendVars, histVars, planeVars, DispatchType, DispatchPcs, Answers
  <2>2. LaneInv'
    BY <1>10, DispatchAssumption DEF Stall, Clients, At, Goto, Answer, loopVars, bookVars, sendVars, histVars, planeVars, DispatchType, DispatchPcs, Answers, LaneInv
  <2>3. Frame(q) /\ Advance(q)
    BY <1>10 DEF Stall, Clients, At, Goto, Answer, loopVars, bookVars, sendVars, histVars, planeVars, DispatchType, DispatchPcs, Answers, Frame, Advance, Counted
  <2>4. Quiet
    BY <1>10 DEF Stall, Clients, At, Goto, Answer, loopVars, bookVars, sendVars, histVars, planeVars, Quiet
  <2>5. QED
    BY <2>1, <2>2, <2>3, <2>4 DEF Sound
<1>11. QED
  BY <1>1, <1>2, <1>3, <1>4, <1>5, <1>6, <1>7, <1>8, <1>9, <1>10

LEMMA UsageBooks ==
  ASSUME DispatchType, LaneInv, NEW q \in Requests, NEW o, Ends(q, o),
         dpc[q] = "stream", RecordRequest(q, Usage(q), o)
  PROVE  \E s : Batch(q, s) /\ outbox' = [outbox EXCEPT ![q] = s]
<1>1. lane[q] \in Lanes /\ excluded[q] \subseteq Lanes /\ "usage" \notin Lanes
  BY DispatchAssumption DEF DispatchType, LaneInv
<1>2. News(q, "usage")
  BY <1>1 DEF News, Counted, Ends
<1>3. ChildRow(q, "usage") \in Records
  BY RowTypes
<1>a. /\ Usage(q) \in Seq(Records) /\ Len(Usage(q)) <= 1
      /\ Usage(q) # <<>> => Usage(q)[1] = ChildRow(q, "usage")
  BY <1>3, OneRecord, NoRecord DEF Usage
<1>4. PICK b : /\ b = Usage(q) /\ b \in Seq(Records) /\ Len(b) <= 1
               /\ b # <<>> => b[1] = ChildRow(q, "usage")
  BY <1>a, Zenon
<1>5. RecordRequest(q, b, o)
  BY <1>4
<1>6. b # <<>> => \E x : b[1] = ChildRow(q, x) /\ News(q, x)
  BY <1>2, <1>4
<1>7. QED
  BY <1>4, <1>5, <1>6, RecordBooks

\* A call that is made goes to a lane that is not counted yet.
LEMMA CallIsNews ==
  ASSUME DispatchType, LaneInv, NEW q \in Requests, dpc[q] = "call",
         lane'[q] = lane[q],
         lane[q] \in excluded'[q] \/ dpc'[q] \in {"stream", "encode"}
  PROVE  News(q, lane[q])
<1>1. lane[q] \in Lanes /\ lane[q] \notin excluded[q] /\ lane[q] # "usage"
  BY DispatchAssumption DEF LaneInv
<1>2. QED
  BY <1>1 DEF News, Counted

LEMMA GeneratedBooks ==
  ASSUME DispatchType, LaneInv, NEW q \in Requests, Generated(q)
  PROVE  \E s : Batch(q, s) /\ outbox' = [outbox EXCEPT ![q] = s]
<1>1. dpc[q] = "call" /\ dpc'[q] = "encode" /\ UNCHANGED <<lane, excluded>>
  BY DEF Generated, At, Goto, DispatchType
<1>2. News(q, lane[q])
  BY <1>1, CallIsNews
<1>3. News(q, "usage")
  <2>1. lane[q] \in Lanes /\ excluded[q] \subseteq Lanes /\ "usage" \notin Lanes
    BY <1>1, DispatchAssumption DEF DispatchType, LaneInv
  <2>2. QED
    BY <1>1, <2>1 DEF News, Counted
<1>4. lane[q] # "usage"
  BY <1>1, DispatchAssumption DEF LaneInv
<1>5. PICK usage \in BOOLEAN :
        Book(q, << ChildRow(q, lane[q]) >> \o (IF usage THEN << ChildRow(q, "usage") >> ELSE <<>>))
  BY DEF Generated
<1>6. /\ ChildRow(q, lane[q]) \in Records /\ ChildRow(q, "usage") \in Records
      /\ ChildRow(q, lane[q]) # ChildRow(q, "usage")
  <2>1. lane[q] \in Lanes \cup {"usage"} /\ "usage" \in Lanes \cup {"usage"}
    BY <1>2 DEF News
  <2>2. /\ ChildRow(q, lane[q]) \in Records /\ ChildRow(q, lane[q]).body = lane[q]
        /\ ChildRow(q, "usage") \in Records /\ ChildRow(q, "usage").body = "usage"
    BY <2>1, RowTypes
  <2>3. QED
    BY <2>2, <1>4
<1>7. PICK b : /\ b = << ChildRow(q, lane[q]) >> /\ b \in Seq(Records) /\ Len(b) <= 1
               /\ b[1] = ChildRow(q, lane[q])
  BY <1>6, OneRecord, Zenon
<1>a. LET u == IF usage THEN << ChildRow(q, "usage") >> ELSE <<>>
      IN  u \in Seq(Records) /\ Len(u) <= 1 /\ (u # <<>> => u[1] = ChildRow(q, "usage"))
  BY <1>6, OneRecord, NoRecord
<1>8. PICK c : /\ c = IF usage THEN << ChildRow(q, "usage") >> ELSE <<>>
               /\ c \in Seq(Records) /\ Len(c) <= 1
               /\ c # <<>> => c[1] = ChildRow(q, "usage")
  BY <1>a, Zenon
<1>9. outbox' = [outbox EXCEPT ![q] = Opening(q) \o (b \o c)]
  BY <1>5, <1>7, <1>8 DEF Book
<1>10. Batch(q, Opening(q) \o (b \o c))
  BY <1>2, <1>3, <1>6, <1>7, <1>8, BatchOf
<1>11. QED
  BY <1>9, <1>10


LEMMA BookingSteps ==
  ASSUME DispatchType, LaneInv, NEW q \in Requests
  PROVE  \/ CallFailed(q) \/ GoneBeforeFirst(q) \/ FirstEvent(q)
         \/ EndOfStream(q) \/ StreamCut(q) \/ MidStreamError(q)
         \/ Generated(q) \/ EncodeFailed(q) \/ WriteFailed(q) \/ Written(q)
         \/ (RouteUnavailable(q) /\ opened[q]) \/ AllFailed(q)
         => Sound(q) /\ Books(q)
<1>1. ASSUME CallFailed(q) PROVE Sound(q) /\ Books(q)
  <2>1. TrackAttempt(q) /\ opened' = [opened EXCEPT ![q] = TRUE] /\ UNCHANGED tracked
    BY <1>1 DEF CallFailed, TrackAttempt, Book
  <2>2. News(q, lane[q])
    BY <1>1, CallIsNews DEF CallFailed, Exclude, At, Goto, Answer, loopVars, sendVars, histVars, planeVars, DispatchType, DispatchPcs, Answers
  <2>3. PICK s : Batch(q, s) /\ outbox' = [outbox EXCEPT ![q] = s]
    BY <2>1, <2>2, AttemptBooks
  <2>4. s \in Seq(Records)
    BY <2>3 DEF Batch
  <2>5. lane[q] \in Lanes
    BY <1>1 DEF CallFailed, At, LaneInv
  <2>6. DispatchType'
    BY <1>1, <2>1, <2>3, <2>4, <2>5, DispatchAssumption DEF CallFailed, Exclude, At, Goto, Answer, loopVars, sendVars, histVars, planeVars, DispatchType, DispatchPcs, Answers
  <2>7. LaneInv'
    BY <1>1, DispatchAssumption DEF CallFailed, Exclude, At, Goto, Answer, loopVars, sendVars, histVars, planeVars, DispatchType, DispatchPcs, Answers, LaneInv
  <2>8. Frame(q) /\ Advance(q)
    BY <1>1, <2>1, <2>3 DEF CallFailed, Exclude, At, Goto, Answer, loopVars, sendVars, histVars, planeVars, DispatchType, DispatchPcs, Answers, Frame, Advance, Counted
  <2>9. Books(q)
    BY <1>1, <2>1, <2>3 DEF CallFailed, Exclude, At, Goto, Answer, loopVars, sendVars, histVars, planeVars, DispatchType, DispatchPcs, Answers, Books
  <2>10. QED
    BY <2>6, <2>7, <2>8, <2>9 DEF Sound
<1>2. ASSUME GoneBeforeFirst(q) PROVE Sound(q) /\ Books(q)
  <2>1. /\ RecordRequest(q, <<>>, "failed") /\ opened' = [opened EXCEPT ![q] = TRUE]
        /\ tracked' = [tracked EXCEPT ![q] = TRUE]
    BY <1>2 DEF GoneBeforeFirst, RecordRequest, Book
  <2>2. Ends(q, "failed")
    BY <1>2 DEF GoneBeforeFirst, At, Goto, Answer, loopVars, sendVars, histVars, planeVars, DispatchType, DispatchPcs, Answers, Ends, Outcomes
  <2>3. PICK s : Batch(q, s) /\ outbox' = [outbox EXCEPT ![q] = s]
    <3>1. PICK b : b \in Seq(Records) /\ Len(b) <= 1 /\ b = <<>>
      BY NoRecord, Zenon
    <3>2. RecordRequest(q, b, "failed")
      BY <2>1, <3>1
    <3>3. QED
      BY <2>2, <3>1, <3>2, RecordBooks
  <2>4. s \in Seq(Records)
    BY <2>3 DEF Batch
  <2>6. DispatchType'
    BY <1>2, <2>1, <2>3, <2>4, DispatchAssumption DEF GoneBeforeFirst, At, Goto, Answer, loopVars, sendVars, histVars, planeVars, DispatchType, DispatchPcs, Answers
  <2>7. LaneInv'
    BY <1>2, DispatchAssumption DEF GoneBeforeFirst, At, Goto, Answer, loopVars, sendVars, histVars, planeVars, DispatchType, DispatchPcs, Answers, LaneInv
  <2>8. Frame(q) /\ Advance(q)
    BY <1>2, <2>1, <2>3 DEF GoneBeforeFirst, At, Goto, Answer, loopVars, sendVars, histVars, planeVars, DispatchType, DispatchPcs, Answers, Frame, Advance, Counted
  <2>9. Books(q)
    BY <1>2, <2>1, <2>3 DEF GoneBeforeFirst, At, Goto, Answer, loopVars, sendVars, histVars, planeVars, DispatchType, DispatchPcs, Answers, Books
  <2>10. QED
    BY <2>6, <2>7, <2>8, <2>9 DEF Sound
<1>3. ASSUME FirstEvent(q) PROVE Sound(q) /\ Books(q)
  <2>1. TrackAttempt(q) /\ opened' = [opened EXCEPT ![q] = TRUE] /\ UNCHANGED tracked
    BY <1>3 DEF FirstEvent, TrackAttempt, Book
  <2>2. News(q, lane[q])
    BY <1>3, CallIsNews DEF FirstEvent, At, Goto, Answer, loopVars, sendVars, histVars, planeVars, DispatchType, DispatchPcs, Answers
  <2>3. PICK s : Batch(q, s) /\ outbox' = [outbox EXCEPT ![q] = s]
    BY <2>1, <2>2, AttemptBooks
  <2>4. s \in Seq(Records)
    BY <2>3 DEF Batch
  <2>d. failed'[q] = FALSE => answer'[q] = "sofar"
    <3>1. PICK encoded \in BOOLEAN :
            /\ failed' = [failed EXCEPT ![q] = ~encoded]
            /\ Answer(q, IF encoded THEN "sofar" ELSE "partial")
      BY <1>3 DEF FirstEvent
    <3>2. CASE encoded
      BY <3>1, <3>2 DEF Answer, DispatchType
    <3>3. CASE ~encoded
      <4>1. failed' = [failed EXCEPT ![q] = TRUE]
        BY <3>1, <3>3, Zenon
      <4>2. QED
        BY <4>1 DEF DispatchType
    <3>4. QED
      BY <3>1, <3>2, <3>3
  <2>e. /\ dpc' = [dpc EXCEPT ![q] = "stream"] /\ dpc[q] = "call"
        /\ committed' = [committed EXCEPT ![q] = lane[q]]
        /\ UNCHANGED <<lane, excluded, attempts>>
        /\ \A p \in Requests \ {q} : failed'[p] = failed[p] /\ answer'[p] = answer[p]
    BY <1>3 DEF FirstEvent, At, Goto, Answer, DispatchType
  <2>6. DispatchType'
    BY <1>3, <2>1, <2>3, <2>4, DispatchAssumption DEF FirstEvent, At, Goto, Answer, loopVars, sendVars, histVars, planeVars, DispatchType, DispatchPcs, Answers
  <2>7. LaneInv'
    BY <2>d, <2>e, DispatchAssumption DEF DispatchType, LaneInv
  <2>8. Frame(q) /\ Advance(q)
    BY <1>3, <2>1, <2>3 DEF FirstEvent, At, Goto, Answer, loopVars, sendVars, histVars, planeVars, DispatchType, DispatchPcs, Answers, Frame, Advance, Counted
  <2>9. Books(q)
    BY <1>3, <2>1, <2>3 DEF FirstEvent, At, Goto, Answer, loopVars, sendVars, histVars, planeVars, DispatchType, DispatchPcs, Answers, Books
  <2>10. QED
    BY <2>6, <2>7, <2>8, <2>9 DEF Sound
<1>4. ASSUME EndOfStream(q) PROVE Sound(q) /\ Books(q)
  <2>0. PICK closes \in BOOLEAN :
          /\ Terminate(q, FALSE, closes)
          /\ Answer(q, IF answer[q] = "sofar" /\ closes THEN "whole" ELSE "partial")
    BY <1>4 DEF EndOfStream, Closed
  <2>a. PICK o : /\ o \in Outcomes /\ (o = "complete" => closes /\ ~failed[q])
                 /\ RecordRequest(q, Usage(q), o) /\ Goto(q, "done")
    BY <2>0 DEF Terminate, Outcomes
  <2>1. /\ dpc[q] = "stream" /\ opened' = [opened EXCEPT ![q] = TRUE]
        /\ tracked' = [tracked EXCEPT ![q] = TRUE]
    BY <1>4, <2>a DEF EndOfStream, Closed, At, RecordRequest, Book
  <2>b. /\ dpc'[q] = "done" /\ answer' \in [Requests -> Answers]
        /\ answer' = [answer EXCEPT ![q] = answer'[q]]
    BY <2>0, <2>a DEF Goto, Answer, DispatchType, DispatchPcs, Answers
  <2>c. closes /\ ~failed[q] => answer'[q] = "whole"
    <3>1. ~failed[q] => answer[q] = "sofar"
      BY <2>1 DEF LaneInv
    <3>2. answer'[q] = IF answer[q] = "sofar" /\ closes THEN "whole" ELSE "partial"
      BY <2>0 DEF Answer, DispatchType
    <3>3. QED
      BY <3>1, <3>2
  <2>2. Ends(q, o)
    BY <2>a, <2>b, <2>c DEF Ends
  <2>3. PICK s : Batch(q, s) /\ outbox' = [outbox EXCEPT ![q] = s]
    BY <2>a, <2>1, <2>2, UsageBooks
  <2>4. s \in Seq(Records)
    BY <2>3 DEF Batch
  <2>d. /\ dpc' = [dpc EXCEPT ![q] = "done"] /\ outbox[q] = <<>>
        /\ UNCHANGED <<logVars, planeVars, attempts, excluded, lane, loopVars, committed, hasUsage, failed, client, histVars>>
    BY <1>4, <2>a DEF EndOfStream, Closed, Goto, At
  <2>6. DispatchType'
    BY <2>1, <2>b, <2>d, <2>1, <2>3, <2>4, DispatchAssumption DEF loopVars, sendVars, histVars, planeVars, DispatchType, DispatchPcs, Answers
  <2>7. LaneInv'
    BY <2>1, <2>b, <2>d, DispatchAssumption DEF loopVars, sendVars, histVars, planeVars, DispatchType, DispatchPcs, Answers, LaneInv
  <2>8. Frame(q) /\ Advance(q)
    BY <2>1, <2>b, <2>d, <2>1, <2>3 DEF loopVars, sendVars, histVars, planeVars, DispatchType, DispatchPcs, Answers, Frame, Advance, Counted
  <2>9. Books(q)
    BY <2>1, <2>b, <2>d, <2>1, <2>3 DEF loopVars, sendVars, histVars, planeVars, DispatchType, DispatchPcs, Answers, Books
  <2>10. QED
    BY <2>6, <2>7, <2>8, <2>9 DEF Sound
<1>5. ASSUME StreamCut(q) PROVE Sound(q) /\ Books(q)
  <2>0. PICK closes \in BOOLEAN :
          /\ Terminate(q, FALSE, closes)
          /\ Answer(q, IF answer[q] = "sofar" /\ closes THEN "cut" ELSE "partial")
    BY <1>5 DEF StreamCut, Closed
  <2>a. PICK o : /\ o \in Outcomes /\ (o = "complete" => closes /\ ~failed[q])
                 /\ RecordRequest(q, Usage(q), o) /\ Goto(q, "done")
    BY <2>0 DEF Terminate, Outcomes
  <2>1. /\ dpc[q] = "stream" /\ opened' = [opened EXCEPT ![q] = TRUE]
        /\ tracked' = [tracked EXCEPT ![q] = TRUE]
    BY <1>5, <2>a DEF StreamCut, Closed, At, RecordRequest, Book
  <2>b. /\ dpc'[q] = "done" /\ answer' \in [Requests -> Answers]
        /\ answer' = [answer EXCEPT ![q] = answer'[q]]
    BY <2>0, <2>a DEF Goto, Answer, DispatchType, DispatchPcs, Answers
  <2>c. closes /\ ~failed[q] => answer'[q] = "cut"
    <3>1. ~failed[q] => answer[q] = "sofar"
      BY <2>1 DEF LaneInv
    <3>2. answer'[q] = IF answer[q] = "sofar" /\ closes THEN "cut" ELSE "partial"
      BY <2>0 DEF Answer, DispatchType
    <3>3. QED
      BY <3>1, <3>2
  <2>2. Ends(q, o)
    BY <2>a, <2>b, <2>c DEF Ends
  <2>3. PICK s : Batch(q, s) /\ outbox' = [outbox EXCEPT ![q] = s]
    BY <2>a, <2>1, <2>2, UsageBooks
  <2>4. s \in Seq(Records)
    BY <2>3 DEF Batch
  <2>d. /\ dpc' = [dpc EXCEPT ![q] = "done"] /\ outbox[q] = <<>>
        /\ UNCHANGED <<logVars, planeVars, attempts, excluded, lane, loopVars, committed, hasUsage, failed, client, histVars>>
    BY <1>5, <2>a DEF StreamCut, Closed, Goto, At
  <2>6. DispatchType'
    BY <2>1, <2>b, <2>d, <2>1, <2>3, <2>4, DispatchAssumption DEF loopVars, sendVars, histVars, planeVars, DispatchType, DispatchPcs, Answers
  <2>7. LaneInv'
    BY <2>1, <2>b, <2>d, DispatchAssumption DEF loopVars, sendVars, histVars, planeVars, DispatchType, DispatchPcs, Answers, LaneInv
  <2>8. Frame(q) /\ Advance(q)
    BY <2>1, <2>b, <2>d, <2>1, <2>3 DEF loopVars, sendVars, histVars, planeVars, DispatchType, DispatchPcs, Answers, Frame, Advance, Counted
  <2>9. Books(q)
    BY <2>1, <2>b, <2>d, <2>1, <2>3 DEF loopVars, sendVars, histVars, planeVars, DispatchType, DispatchPcs, Answers, Books
  <2>10. QED
    BY <2>6, <2>7, <2>8, <2>9 DEF Sound
<1>6. ASSUME MidStreamError(q) PROVE Sound(q) /\ Books(q)
  <2>a. PICK o : /\ o = "failed" /\ RecordRequest(q, Usage(q), o) /\ Goto(q, "done")
    BY <1>6 DEF MidStreamError, Terminate
  <2>1. /\ dpc[q] = "stream" /\ opened' = [opened EXCEPT ![q] = TRUE]
        /\ tracked' = [tracked EXCEPT ![q] = TRUE]
    BY <1>6, <2>a DEF MidStreamError, At, RecordRequest, Book
  <2>b. /\ dpc'[q] = "done" /\ answer' \in [Requests -> Answers]
        /\ answer' = [answer EXCEPT ![q] = answer'[q]]
    BY <1>6, <2>a DEF MidStreamError, Goto, Answer, DispatchType, DispatchPcs, Answers
  <2>2. Ends(q, o)
    BY <2>a, <2>b DEF Ends, Outcomes
  <2>3. PICK s : Batch(q, s) /\ outbox' = [outbox EXCEPT ![q] = s]
    BY <2>a, <2>1, <2>2, UsageBooks
  <2>4. s \in Seq(Records)
    BY <2>3 DEF Batch
  <2>d. /\ dpc' = [dpc EXCEPT ![q] = "done"] /\ outbox[q] = <<>>
        /\ UNCHANGED <<logVars, planeVars, attempts, excluded, lane, loopVars, committed, hasUsage, failed, client, histVars>>
    BY <1>6, <2>a DEF MidStreamError, Closed, Goto, At
  <2>6. DispatchType'
    BY <2>1, <2>b, <2>d, <2>1, <2>3, <2>4, DispatchAssumption DEF loopVars, sendVars, histVars, planeVars, DispatchType, DispatchPcs, Answers
  <2>7. LaneInv'
    BY <2>1, <2>b, <2>d, DispatchAssumption DEF loopVars, sendVars, histVars, planeVars, DispatchType, DispatchPcs, Answers, LaneInv
  <2>8. Frame(q) /\ Advance(q)
    BY <2>1, <2>b, <2>d, <2>1, <2>3 DEF loopVars, sendVars, histVars, planeVars, DispatchType, DispatchPcs, Answers, Frame, Advance, Counted
  <2>9. Books(q)
    BY <2>1, <2>b, <2>d, <2>1, <2>3 DEF loopVars, sendVars, histVars, planeVars, DispatchType, DispatchPcs, Answers, Books
  <2>10. QED
    BY <2>6, <2>7, <2>8, <2>9 DEF Sound
<1>7. ASSUME Generated(q) PROVE Sound(q) /\ Books(q)
  <2>1. opened' = [opened EXCEPT ![q] = TRUE] /\ UNCHANGED tracked
    BY <1>7 DEF Generated, Book
  <2>2. dpc' = [dpc EXCEPT ![q] = "encode"] /\ hasUsage' \in [Requests -> BOOLEAN]
    BY <1>7 DEF Generated, Goto, DispatchType
  <2>3. PICK s : Batch(q, s) /\ outbox' = [outbox EXCEPT ![q] = s]
    BY <1>7, GeneratedBooks
  <2>4. s \in Seq(Records)
    BY <2>3 DEF Batch
  <2>d. /\ dpc[q] = "call" /\ outbox[q] = <<>> /\ mode[q] = "unary"
        /\ UNCHANGED <<logVars, planeVars, attempts, excluded, lane, loopVars, committed, failed, answer, client, histVars>>
    BY <1>7 DEF Generated, At
  <2>6. DispatchType'
    BY <2>1, <2>2, <2>d, <2>1, <2>3, <2>4, DispatchAssumption DEF loopVars, sendVars, histVars, planeVars, DispatchType, DispatchPcs, Answers
  <2>7. LaneInv'
    BY <2>1, <2>2, <2>d, DispatchAssumption DEF loopVars, sendVars, histVars, planeVars, DispatchType, DispatchPcs, Answers, LaneInv
  <2>8. Frame(q) /\ Advance(q)
    BY <2>1, <2>2, <2>d, <2>1, <2>3 DEF loopVars, sendVars, histVars, planeVars, DispatchType, DispatchPcs, Answers, Frame, Advance, Counted
  <2>9. Books(q)
    BY <2>1, <2>2, <2>d, <2>1, <2>3 DEF loopVars, sendVars, histVars, planeVars, DispatchType, DispatchPcs, Answers, Books
  <2>10. QED
    BY <2>6, <2>7, <2>8, <2>9 DEF Sound
<1>8. ASSUME EncodeFailed(q) PROVE Sound(q) /\ Books(q)
  <2>1. /\ RecordRequest(q, <<>>, "failed") /\ opened' = [opened EXCEPT ![q] = TRUE]
        /\ tracked' = [tracked EXCEPT ![q] = TRUE]
    BY <1>8 DEF EncodeFailed, RecordRequest, Book
  <2>2. Ends(q, "failed")
    BY <1>8 DEF EncodeFailed, At, Goto, Answer, loopVars, sendVars, histVars, planeVars, DispatchType, DispatchPcs, Answers, Ends, Outcomes
  <2>3. PICK s : Batch(q, s) /\ outbox' = [outbox EXCEPT ![q] = s]
    <3>1. PICK b : b \in Seq(Records) /\ Len(b) <= 1 /\ b = <<>>
      BY NoRecord, Zenon
    <3>2. RecordRequest(q, b, "failed")
      BY <2>1, <3>1
    <3>3. QED
      BY <2>2, <3>1, <3>2, RecordBooks
  <2>4. s \in Seq(Records)
    BY <2>3 DEF Batch
  <2>6. DispatchType'
    BY <1>8, <2>1, <2>3, <2>4, DispatchAssumption DEF EncodeFailed, At, Goto, Answer, loopVars, sendVars, histVars, planeVars, DispatchType, DispatchPcs, Answers
  <2>7. LaneInv'
    BY <1>8, DispatchAssumption DEF EncodeFailed, At, Goto, Answer, loopVars, sendVars, histVars, planeVars, DispatchType, DispatchPcs, Answers, LaneInv
  <2>8. Frame(q) /\ Advance(q)
    BY <1>8, <2>1, <2>3 DEF EncodeFailed, At, Goto, Answer, loopVars, sendVars, histVars, planeVars, DispatchType, DispatchPcs, Answers, Frame, Advance, Counted
  <2>9. Books(q)
    BY <1>8, <2>1, <2>3 DEF EncodeFailed, At, Goto, Answer, loopVars, sendVars, histVars, planeVars, DispatchType, DispatchPcs, Answers, Books
  <2>10. QED
    BY <2>6, <2>7, <2>8, <2>9 DEF Sound
<1>9. ASSUME WriteFailed(q) PROVE Sound(q) /\ Books(q)
  <2>1. /\ RecordRequest(q, <<>>, "failed") /\ opened' = [opened EXCEPT ![q] = TRUE]
        /\ tracked' = [tracked EXCEPT ![q] = TRUE]
    BY <1>9 DEF WriteFailed, RecordRequest, Book
  <2>2. Ends(q, "failed")
    BY <1>9 DEF WriteFailed, At, Goto, Answer, loopVars, sendVars, histVars, planeVars, DispatchType, DispatchPcs, Answers, Ends, Outcomes
  <2>3. PICK s : Batch(q, s) /\ outbox' = [outbox EXCEPT ![q] = s]
    <3>1. PICK b : b \in Seq(Records) /\ Len(b) <= 1 /\ b = <<>>
      BY NoRecord, Zenon
    <3>2. RecordRequest(q, b, "failed")
      BY <2>1, <3>1
    <3>3. QED
      BY <2>2, <3>1, <3>2, RecordBooks
  <2>4. s \in Seq(Records)
    BY <2>3 DEF Batch
  <2>6. DispatchType'
    BY <1>9, <2>1, <2>3, <2>4, DispatchAssumption DEF WriteFailed, At, Goto, Answer, loopVars, sendVars, histVars, planeVars, DispatchType, DispatchPcs, Answers
  <2>7. LaneInv'
    BY <1>9, DispatchAssumption DEF WriteFailed, At, Goto, Answer, loopVars, sendVars, histVars, planeVars, DispatchType, DispatchPcs, Answers, LaneInv
  <2>8. Frame(q) /\ Advance(q)
    BY <1>9, <2>1, <2>3 DEF WriteFailed, At, Goto, Answer, loopVars, sendVars, histVars, planeVars, DispatchType, DispatchPcs, Answers, Frame, Advance, Counted
  <2>9. Books(q)
    BY <1>9, <2>1, <2>3 DEF WriteFailed, At, Goto, Answer, loopVars, sendVars, histVars, planeVars, DispatchType, DispatchPcs, Answers, Books
  <2>10. QED
    BY <2>6, <2>7, <2>8, <2>9 DEF Sound
<1>10. ASSUME Written(q) PROVE Sound(q) /\ Books(q)
  <2>1. /\ RecordRequest(q, <<>>, "complete") /\ opened' = [opened EXCEPT ![q] = TRUE]
        /\ tracked' = [tracked EXCEPT ![q] = TRUE]
    BY <1>10 DEF Written, RecordRequest, Book
  <2>2. Ends(q, "complete")
    BY <1>10 DEF Written, At, Goto, Answer, loopVars, sendVars, histVars, planeVars, DispatchType, DispatchPcs, Answers, Ends, Outcomes
  <2>3. PICK s : Batch(q, s) /\ outbox' = [outbox EXCEPT ![q] = s]
    <3>1. PICK b : b \in Seq(Records) /\ Len(b) <= 1 /\ b = <<>>
      BY NoRecord, Zenon
    <3>2. RecordRequest(q, b, "complete")
      BY <2>1, <3>1
    <3>3. QED
      BY <2>2, <3>1, <3>2, RecordBooks
  <2>4. s \in Seq(Records)
    BY <2>3 DEF Batch
  <2>6. DispatchType'
    BY <1>10, <2>1, <2>3, <2>4, DispatchAssumption DEF Written, At, Goto, Answer, loopVars, sendVars, histVars, planeVars, DispatchType, DispatchPcs, Answers
  <2>7. LaneInv'
    BY <1>10, DispatchAssumption DEF Written, At, Goto, Answer, loopVars, sendVars, histVars, planeVars, DispatchType, DispatchPcs, Answers, LaneInv
  <2>8. Frame(q) /\ Advance(q)
    BY <1>10, <2>1, <2>3 DEF Written, At, Goto, Answer, loopVars, sendVars, histVars, planeVars, DispatchType, DispatchPcs, Answers, Frame, Advance, Counted
  <2>9. Books(q)
    BY <1>10, <2>1, <2>3 DEF Written, At, Goto, Answer, loopVars, sendVars, histVars, planeVars, DispatchType, DispatchPcs, Answers, Books
  <2>10. QED
    BY <2>6, <2>7, <2>8, <2>9 DEF Sound
<1>11. ASSUME RouteUnavailable(q), opened[q] PROVE Sound(q) /\ Books(q)
  <2>1. /\ RecordRequest(q, <<>>, "failed") /\ opened' = [opened EXCEPT ![q] = TRUE]
        /\ tracked' = [tracked EXCEPT ![q] = TRUE]
    BY <1>11 DEF RouteUnavailable, RecordRequest, Book
  <2>2. Ends(q, "failed")
    BY <1>11 DEF RouteUnavailable, MoreAttempts, At, Goto, Answer, loopVars, sendVars, histVars, planeVars, DispatchType, DispatchPcs, Answers, Ends, Outcomes
  <2>3. PICK s : Batch(q, s) /\ outbox' = [outbox EXCEPT ![q] = s]
    <3>1. PICK b : b \in Seq(Records) /\ Len(b) <= 1 /\ b = <<>>
      BY NoRecord, Zenon
    <3>2. RecordRequest(q, b, "failed")
      BY <2>1, <3>1
    <3>3. QED
      BY <2>2, <3>1, <3>2, RecordBooks
  <2>4. s \in Seq(Records)
    BY <2>3 DEF Batch
  <2>d. /\ dpc[q] = "route" /\ outbox[q] = <<>> /\ attempts[q] < limit[q]
        /\ attempts' = [attempts EXCEPT ![q] = @ + 1] /\ Answer(q, "error") /\ Goto(q, "done")
        /\ UNCHANGED <<logVars, planeVars, excluded, lane, loopVars, committed, hasUsage, failed, client, histVars>>
    BY <1>11 DEF RouteUnavailable, At, MoreAttempts
  <2>6. DispatchType'
    BY <2>1, <2>d, <2>1, <2>3, <2>4, DispatchAssumption DEF Goto, Answer, loopVars, sendVars, histVars, planeVars, DispatchType, DispatchPcs, Answers
  <2>7. LaneInv'
    BY <2>1, <2>d, DispatchAssumption DEF Goto, Answer, loopVars, sendVars, histVars, planeVars, DispatchType, DispatchPcs, Answers, LaneInv
  <2>8. Frame(q) /\ Advance(q)
    BY <2>1, <2>d, <2>1, <2>3 DEF Goto, Answer, loopVars, sendVars, histVars, planeVars, DispatchType, DispatchPcs, Answers, Frame, Advance, Counted
  <2>9. Books(q)
    BY <2>1, <2>d, <2>1, <2>3 DEF Goto, Answer, loopVars, sendVars, histVars, planeVars, DispatchType, DispatchPcs, Answers, Books
  <2>10. QED
    BY <2>6, <2>7, <2>8, <2>9 DEF Sound
<1>12. ASSUME AllFailed(q) PROVE Sound(q) /\ Books(q)
  <2>1. /\ RecordRequest(q, <<>>, "failed") /\ opened' = [opened EXCEPT ![q] = TRUE]
        /\ tracked' = [tracked EXCEPT ![q] = TRUE]
    BY <1>12 DEF AllFailed, RecordRequest, Book
  <2>2. Ends(q, "failed")
    BY <1>12 DEF AllFailed, MoreAttempts, At, Goto, Answer, loopVars, sendVars, histVars, planeVars, DispatchType, DispatchPcs, Answers, Ends, Outcomes
  <2>3. PICK s : Batch(q, s) /\ outbox' = [outbox EXCEPT ![q] = s]
    <3>1. PICK b : b \in Seq(Records) /\ Len(b) <= 1 /\ b = <<>>
      BY NoRecord, Zenon
    <3>2. RecordRequest(q, b, "failed")
      BY <2>1, <3>1
    <3>3. QED
      BY <2>2, <3>1, <3>2, RecordBooks
  <2>4. s \in Seq(Records)
    BY <2>3 DEF Batch
  <2>6. DispatchType'
    BY <1>12, <2>1, <2>3, <2>4, DispatchAssumption DEF AllFailed, MoreAttempts, At, Goto, Answer, loopVars, sendVars, histVars, planeVars, DispatchType, DispatchPcs, Answers
  <2>7. LaneInv'
    BY <1>12, DispatchAssumption DEF AllFailed, MoreAttempts, At, Goto, Answer, loopVars, sendVars, histVars, planeVars, DispatchType, DispatchPcs, Answers, LaneInv
  <2>8. Frame(q) /\ Advance(q)
    BY <1>12, <2>1, <2>3 DEF AllFailed, MoreAttempts, At, Goto, Answer, loopVars, sendVars, histVars, planeVars, DispatchType, DispatchPcs, Answers, Frame, Advance, Counted
  <2>9. Books(q)
    BY <1>12, <2>1, <2>3 DEF AllFailed, MoreAttempts, At, Goto, Answer, loopVars, sendVars, histVars, planeVars, DispatchType, DispatchPcs, Answers, Books
  <2>10. QED
    BY <2>6, <2>7, <2>8, <2>9 DEF Sound
<1>13. QED
  BY <1>1, <1>2, <1>3, <1>4, <1>5, <1>6, <1>7, <1>8, <1>9, <1>10, <1>11, <1>12

LEMMA ServeKinds ==
  ASSUME DispatchType, LaneInv, NEW q \in Requests, Serve(q)
  PROVE  \/ Offer(q)
         \/ Sound(q) /\ Quiet
         \/ Sound(q) /\ Books(q)
<1>1. \/ Start(q) \/ Routed(q) \/ RouteUnknown(q) \/ (RouteUnavailable(q) /\ ~opened[q])
      \/ LookupMiss(q) \/ ToolsRefused(q) \/ Call(q) \/ NextEvent(q) \/ Stall(q) \/ HangUp(q)
      \/ CallFailed(q) \/ GoneBeforeFirst(q) \/ FirstEvent(q)
      \/ EndOfStream(q) \/ StreamCut(q) \/ MidStreamError(q)
      \/ Generated(q) \/ EncodeFailed(q) \/ WriteFailed(q) \/ Written(q)
      \/ (RouteUnavailable(q) /\ opened[q]) \/ AllFailed(q)
      \/ Offer(q)
  <2>1. \/ Start(q) \/ Proceed(q) \/ UpstreamEnds(q)
        \/ GoneBeforeFirst(q) \/ FirstEvent(q) \/ NextEvent(q) \/ MidStreamError(q)
        \/ Generated(q) \/ Stall(q) \/ HangUp(q)
    BY DEF Serve
  <2>2. QED
    BY <2>1 DEF Proceed, UpstreamEnds
<1>2. \/ Start(q) \/ Routed(q) \/ RouteUnknown(q) \/ (RouteUnavailable(q) /\ ~opened[q])
      \/ LookupMiss(q) \/ ToolsRefused(q) \/ Call(q) \/ NextEvent(q) \/ Stall(q) \/ HangUp(q)
      => Sound(q) /\ Quiet
  BY QuietSteps, Zenon
<1>3. \/ CallFailed(q) \/ GoneBeforeFirst(q) \/ FirstEvent(q)
      \/ EndOfStream(q) \/ StreamCut(q) \/ MidStreamError(q)
      \/ Generated(q) \/ EncodeFailed(q) \/ WriteFailed(q) \/ Written(q)
      \/ (RouteUnavailable(q) /\ opened[q]) \/ AllFailed(q)
      => Sound(q) /\ Books(q)
  BY BookingSteps, Zenon
<1>4. QED
  BY <1>1, <1>2, <1>3, Zenon

-----------------------------------------------------------------------------
(***************************************************************************)
(* What the steps do to the four parts about records.                      *)
(***************************************************************************)
LEMMA TailShape ==
  ASSUME NEW t \in Seq(Records), t # <<>>
  PROVE  /\ Head(t) = t[1] /\ 1 \in DOMAIN t /\ t[1] \in Records /\ Tail(t) \in Seq(Records)
         /\ \A i \in DOMAIN Tail(t) : i \in Nat /\ i >= 1 /\ i + 1 \in DOMAIN t /\ Tail(t)[i] = t[i + 1]
<1>1. Len(t) \in Nat /\ DOMAIN t = 1..Len(t) /\ Len(t) # 0
  BY LenProperties, EmptySeq
<1>2. /\ Head(t) = t[1] /\ Tail(t) \in Seq(Records) /\ Len(Tail(t)) = Len(t) - 1
      /\ \A i \in 1..Len(Tail(t)) : Tail(t)[i] = t[i + 1]
  BY HeadTailProperties
<1>3. DOMAIN Tail(t) = 1..Len(Tail(t))
  BY <1>2, LenProperties
<1>4. 1 \in DOMAIN t /\ t[1] \in Records
  BY <1>1, ElementOfSeq
<1>5. \A i \in DOMAIN Tail(t) : i \in Nat /\ i >= 1 /\ i + 1 \in DOMAIN t /\ Tail(t)[i] = t[i + 1]
  BY <1>1, <1>2, <1>3
<1>6. QED
  BY <1>2, <1>4, <1>5

LEMMA AppendShape ==
  ASSUME NEW s \in Seq(Records), NEW e \in Records
  PROVE  /\ Append(s, e) \in Seq(Records) /\ Append(s, e) # <<>>
         /\ Append(s, e)[1] = IF s = <<>> THEN e ELSE s[1]
         /\ \A i \in DOMAIN Append(s, e) :
              \/ i \in DOMAIN s /\ Append(s, e)[i] = s[i]
              \/ i = Len(s) + 1 /\ Append(s, e)[i] = e
         /\ \A i \in DOMAIN s : i \in Nat /\ i < Len(s) + 1
         /\ Len(s) \in Nat
<1>1. Len(s) \in Nat /\ DOMAIN s = 1..Len(s) /\ (s = <<>> <=> Len(s) = 0)
  BY LenProperties, EmptySeq
<1>2. /\ Append(s, e) \in Seq(Records) /\ Len(Append(s, e)) = Len(s) + 1
      /\ \A i \in 1..Len(s) : Append(s, e)[i] = s[i]
      /\ Append(s, e)[Len(s) + 1] = e
  BY AppendProperties
<1>3. DOMAIN Append(s, e) = 1..(Len(s) + 1)
  BY <1>2, LenProperties
<1>4. Append(s, e)[1] = IF s = <<>> THEN e ELSE s[1]
  BY <1>1, <1>2
<1>5. Append(s, e) # <<>>
  BY AppendProperties
<1>6. QED
  BY <1>1, <1>2, <1>3, <1>4, <1>5

\* Of another dispatch than the one that moves, everything stays.
LEMMA OthersKeepBooks ==
  ASSUME NEW q \in Requests, Frame(q), NEW p \in Requests \ {q}, CountOf(p), OpenOf(p)
  PROVE  CountOf(p)' /\ OpenOf(p)'
<1>1. /\ dpc'[p] = dpc[p] /\ lane'[p] = lane[p] /\ excluded'[p] = excluded[p]
      /\ opened'[p] = opened[p] /\ tracked'[p] = tracked[p]
      /\ outbox'[p] = outbox[p] /\ sent'[p] = sent[p]
      /\ p \in unopened' <=> p \in unopened
  BY DEF Frame
<1>2. CountOf(p)'
  BY <1>1 DEF CountOf, Counted
<1>3. OpenOf(p)'
  BY <1>1 DEF OpenOf
<1>4. QED
  BY <1>2, <1>3

LEMMA OthersKeepRows ==
  ASSUME NEW q \in Requests, Frame(q), NEW p \in Requests \ {q}, UNCHANGED <<pending, rows>>,
         FinalOf(p), TruthOf(p)
  PROVE  FinalOf(p)' /\ TruthOf(p)'
<1>1. dpc'[p] = dpc[p] /\ answer'[p] = answer[p] /\ outbox'[p] = outbox[p]
  BY DEF Frame
<1>2. FinalOf(p)'
  BY <1>1 DEF FinalOf
<1>3. TruthOf(p)'
  BY <1>1 DEF TruthOf
<1>4. QED
  BY <1>2, <1>3

\* Nor does a record of q in the log concern it.
LEMMA OthersKeepRowsOfLog ==
  ASSUME NEW q \in Requests, Frame(q), NEW p \in Requests \ {q}, UNCHANGED rows,
         pending \in Seq(Records), NEW e \in Records, pending' = Append(pending, e), e.req = q,
         FinalOf(p), TruthOf(p)
  PROVE  FinalOf(p)' /\ TruthOf(p)'
<1>1. dpc'[p] = dpc[p] /\ answer'[p] = answer[p] /\ outbox'[p] = outbox[p]
  BY DEF Frame
<1>2. ~IsRow(e, p)
  BY DEF IsRow
<1>3. \A i \in DOMAIN pending' : (i \in DOMAIN pending /\ pending'[i] = pending[i]) \/ pending'[i] = e
  BY AppendShape
<1>4. \A i \in DOMAIN pending' : IsRow(pending'[i], p) => i \in DOMAIN pending /\ pending'[i] = pending[i]
  BY <1>2, <1>3
<1>5. FinalOf(p)'
  <2>1. rows'[p] = rows[p]
    OBVIOUS
  <2>2. QED
    BY <1>1, <1>4, <2>1 DEF FinalOf
<1>6. TruthOf(p)'
  BY <1>1, <1>4 DEF TruthOf
<1>7. QED
  BY <1>5, <1>6

LEMMA QuietKeeps ==
  ASSUME NEW q \in Requests, Advance(q), Quiet, CountOf(q), OpenOf(q), FinalOf(q), TruthOf(q)
  PROVE  CountOf(q)' /\ OpenOf(q)' /\ FinalOf(q)' /\ TruthOf(q)'
<1>1. UNCHANGED <<pending, rows, opened, tracked, outbox, sent, unopened>>
  BY DEF Quiet, logVars, bookVars, histVars
<1>2. CountOf(q)'
  BY <1>1 DEF CountOf, Advance
<1>3. OpenOf(q)'
  BY <1>1 DEF OpenOf, Advance
<1>4. FinalOf(q)'
  BY <1>1 DEF FinalOf, Advance
<1>5. TruthOf(q)'
  <2>1. CASE dpc[q] = "done"
    BY <1>1, <2>1 DEF TruthOf, Advance
  <2>2. CASE dpc[q] # "done"
    <3>1. rows[q] # "complete"
      BY <2>2 DEF FinalOf, Outcomes
    <3>2. \A i \in DOMAIN pending : IsRow(pending[i], q) => pending[i].body # "complete"
      BY <2>2 DEF FinalOf, Outcomes
    <3>3. \A i \in DOMAIN outbox[q] : IsRow(outbox[q][i], q) => outbox[q][i].body # "complete"
      BY <2>2 DEF FinalOf, Outcomes
    <3>4. QED
      BY <1>1, <3>1, <3>2, <3>3 DEF TruthOf
  <2>3. QED
    BY <2>1, <2>2
<1>6. QED
  BY <1>2, <1>3, <1>4, <1>5

LEMMA BooksKeep ==
  ASSUME LogType, DispatchType, NEW q \in Requests, Advance(q), Books(q),
         CountOf(q), OpenOf(q), FinalOf(q), TruthOf(q)
  PROVE  CountOf(q)' /\ OpenOf(q)' /\ FinalOf(q)' /\ TruthOf(q)'
<1>1. /\ dpc[q] # "done" /\ dpc'[q] # "new" /\ outbox[q] = <<>> /\ opened'[q]
      /\ UNCHANGED <<pending, rows, sent, unopened>>
  BY DEF Books, logVars, histVars
<1>2. PICK s : Batch(q, s) /\ outbox'[q] = s
  BY DEF Books, DispatchType
<1>3. CountOf(q)'
  <2>1. \A x : Counted(q, x) => Counted(q, x)'
    BY DEF Advance
  <2>2. \A i \in DOMAIN s : s[i].kind = "child" => ~Counted(q, s[i].body) /\ Counted(q, s[i].body)'
    BY <1>2 DEF Batch, News
  <2>3. \A i \in DOMAIN sent[q] : sent[q][i].kind = "child" => Counted(q, sent[q][i].body)
    BY DEF CountOf
  <2>4. \A i \in DOMAIN sent[q], j \in DOMAIN s : sent[q][i].kind = "child" => sent[q][i] # s[j]
    BY <2>2, <2>3
  <2>5. \A i, j \in DOMAIN s : i # j /\ s[i].kind = "child" => s[i] # s[j]
    BY <1>2 DEF Batch
  <2>6. \A i, j \in DOMAIN sent[q] : i # j /\ sent[q][i].kind = "child" => sent[q][i] # sent[q][j]
    BY DEF CountOf
  <2>7. (\A i \in DOMAIN sent[q] : sent[q][i].kind = "child" => Counted(q, sent[q][i].body))'
    BY <1>1, <2>1, <2>3
  <2>8. (\A i \in DOMAIN outbox[q] : outbox[q][i].kind = "child" => Counted(q, outbox[q][i].body))'
    BY <1>2, <2>2
  <2>9. QED
    BY <1>1, <1>2, <2>4, <2>5, <2>6, <2>7, <2>8 DEF CountOf
<1>4. OpenOf(q)'
  <2>1. tracked'[q] => dpc'[q] = "done"
    BY <1>1 DEF OpenOf, Advance
  <2>2. /\ \A i \in DOMAIN s : s[i].req = q
        /\ ~opened[q] => s # <<>> /\ s[1].kind = "request"
    BY <1>2 DEF Batch
  <2>3. q \notin unopened /\ sent[q] = <<>> => ~opened[q]
    BY <1>1 DEF OpenOf
  <2>4. QED
    BY <1>1, <1>2, <2>1, <2>2, <2>3 DEF OpenOf
<1>5. \A i \in DOMAIN pending : IsRow(pending[i], q) => pending[i].body = "in_flight"
  <2>1. \A i \in DOMAIN pending : pending[i] \in Records
    BY LenProperties, ElementOfSeq DEF LogType
  <2>2. \A i \in DOMAIN pending : IsRow(pending[i], q) => pending[i].body \in {"in_flight", "complete", "failed"}
    BY <2>1, DispatchAssumption DEF Records, IsRow
  <2>3. QED
    BY <2>2, <1>1 DEF FinalOf, Outcomes
<1>6. rows[q] \notin Outcomes
  BY <1>1 DEF FinalOf
<1>7. \A i \in DOMAIN s : IsRow(s[i], q) /\ s[i].body \in Outcomes => Ends(q, s[i].body)
  BY <1>2 DEF Batch, IsRow, Outcomes
<1>8. \A i, j \in DOMAIN s : i < j /\ IsRow(s[i], q) /\ IsRow(s[j], q) => s[i].body = "in_flight"
  BY <1>2 DEF Batch, IsRow
<1>9. FinalOf(q)'
  <2>1. \A o : Ends(q, o) => dpc'[q] = "done"
    BY DEF Ends
  <2>2. "in_flight" \notin Outcomes
    BY DEF Outcomes
  <2>3. QED
    BY <1>1, <1>2, <1>5, <1>6, <1>7, <1>8, <2>1, <2>2 DEF FinalOf
<1>10. TruthOf(q)'
  <2>1. Ends(q, "complete") => answer'[q] \in {"whole", "cut"}
    BY DEF Ends
  <2>2. \A i \in DOMAIN s : IsRow(s[i], q) /\ s[i].body = "complete" => answer'[q] \in {"whole", "cut"}
    BY <1>7, <2>1 DEF Outcomes
  <2>3. rows[q] # "complete"
    BY <1>6 DEF Outcomes
  <2>4. QED
    BY <1>1, <1>2, <1>5, <2>2, <2>3 DEF TruthOf
<1>11. QED
  BY <1>3, <1>4, <1>9, <1>10

\* The record that leaves the outbox is its first; what is left moves up.
LEMMA OfferShape ==
  ASSUME DispatchType, NEW q \in Requests, Offer(q)
  PROVE  LET o == outbox[q] IN
         /\ o # <<>> /\ o \in Seq(Records) /\ 1 \in DOMAIN o /\ Head(o) = o[1] /\ o[1] \in Records
         /\ outbox'[q] \in Seq(Records)
         /\ \A i \in DOMAIN outbox'[q] :
              i \in Nat /\ i >= 1 /\ i + 1 \in DOMAIN o /\ outbox'[q][i] = o[i + 1]
         /\ UNCHANGED <<rows, dpc, lane, excluded, answer, opened, tracked>>
<1>1. /\ outbox[q] # <<>> /\ outbox[q] \in Seq(Records)
      /\ outbox' = [outbox EXCEPT ![q] = Tail(@)]
      /\ UNCHANGED <<rows, dpc, lane, excluded, answer, opened, tracked>>
  BY DEF Offer, Offered, Taken, Dropped, LogAdmit, LogRefuse, logVars, sendVars, DispatchType
<1>2. outbox'[q] = Tail(outbox[q])
  BY <1>1 DEF DispatchType
<1>3. QED
  BY <1>1, <1>2, TailShape

LEMMA OfferSound ==
  ASSUME LogType, DispatchType, LaneInv, NEW q \in Requests, Offer(q)
  PROVE  LogType' /\ Sound(q)
<1>1. /\ outbox[q] # <<>> /\ outbox[q] \in Seq(Records) /\ Head(outbox[q]) = outbox[q][1]
      /\ outbox[q][1] \in Records /\ outbox'[q] \in Seq(Records)
  BY OfferShape
<1>2. LogType'
  <2>1. CASE Taken(q)
    BY <1>1, <2>1, AdmitLog DEF Taken
  <2>2. CASE Dropped(q)
    BY <1>1, <2>2, RefuseLog DEF Dropped
  <2>3. QED
    BY <2>1, <2>2 DEF Offer, Offered
<1>3. /\ outbox' = [outbox EXCEPT ![q] = Tail(@)]
      /\ UNCHANGED <<planeVars, dpc, attempts, excluded, lane, loopVars, opened, tracked,
                     sendVars, client>>
  BY DEF Offer
<1>4. outbox' \in [Requests -> Seq(Records)]
  BY <1>1, <1>3 DEF DispatchType
<1>5. /\ sent' \in [Requests -> Seq(Records)] /\ unopened' \subseteq Requests
      /\ \A p \in Requests \ {q} : sent'[p] = sent[p] /\ (p \in unopened' <=> p \in unopened)
  <2>1. CASE Taken(q)
    <3>1. sent' = [sent EXCEPT ![q] = Append(@, Head(outbox[q]))] /\ UNCHANGED unopened
      BY <2>1 DEF Taken
    <3>2. Append(sent[q], Head(outbox[q])) \in Seq(Records)
      BY <1>1, AppendShape DEF DispatchType
    <3>3. QED
      BY <3>1, <3>2 DEF DispatchType
  <2>2. CASE Dropped(q)
    BY <2>2 DEF Dropped, DispatchType
  <2>3. QED
    BY <2>1, <2>2 DEF Offer, Offered
<1>6. DispatchType'
  BY <1>3, <1>4, <1>5 DEF DispatchType, planeVars, loopVars, sendVars
<1>7. LaneInv'
  BY <1>3 DEF LaneInv, sendVars
<1>8. Frame(q) /\ Advance(q)
  <2>1. \A p \in Requests \ {q} : outbox'[p] = outbox[p]
    BY <1>3 DEF DispatchType
  <2>2. Frame(q)
    BY <1>3, <1>5, <2>1 DEF Frame, sendVars
  <2>3. Advance(q)
    BY <1>3 DEF Advance, Counted, sendVars
  <2>4. QED
    BY <2>2, <2>3
<1>9. QED
  BY <1>2, <1>6, <1>7, <1>8 DEF Sound

LEMMA TakenKeeps ==
  ASSUME LogType, DispatchType, NEW q \in Requests, Offer(q), Taken(q),
         CountOf(q), OpenOf(q), FinalOf(q), TruthOf(q)
  PROVE  CountOf(q)' /\ OpenOf(q)' /\ FinalOf(q)' /\ TruthOf(q)'
<1> DEFINE o == outbox[q]
           e == outbox[q][1]
<1>1. /\ o # <<>> /\ o \in Seq(Records) /\ 1 \in DOMAIN o /\ Head(o) = e /\ e \in Records
      /\ \A i \in DOMAIN outbox'[q] :
           i \in Nat /\ i >= 1 /\ i + 1 \in DOMAIN o /\ outbox'[q][i] = o[i + 1]
      /\ UNCHANGED <<rows, dpc, lane, excluded, answer, opened, tracked>>
  BY OfferShape
<1>2. sent'[q] = Append(sent[q], e) /\ UNCHANGED unopened /\ pending' = Append(pending, e)
  BY <1>1 DEF Taken, DispatchType, LogAdmit
<1> HIDE DEF o, e
<1>3. /\ sent'[q] # <<>> /\ sent'[q][1] = IF sent[q] = <<>> THEN e ELSE sent[q][1]
      /\ \A i \in DOMAIN sent'[q] :
           \/ i \in DOMAIN sent[q] /\ sent'[q][i] = sent[q][i]
           \/ i = Len(sent[q]) + 1 /\ sent'[q][i] = e
      /\ \A i \in DOMAIN sent[q] : i \in Nat /\ i < Len(sent[q]) + 1
      /\ Len(sent[q]) \in Nat
  <2>1. sent[q] \in Seq(Records)
    BY DEF DispatchType
  <2>2. PICK s : s = sent[q] /\ s \in Seq(Records) /\ sent'[q] = Append(s, e)
    BY <1>2, <2>1
  <2>3. /\ Append(s, e) # <<>> /\ Append(s, e)[1] = IF s = <<>> THEN e ELSE s[1]
        /\ \A i \in DOMAIN Append(s, e) :
             \/ i \in DOMAIN s /\ Append(s, e)[i] = s[i]
             \/ i = Len(s) + 1 /\ Append(s, e)[i] = e
        /\ \A i \in DOMAIN s : i \in Nat /\ i < Len(s) + 1
        /\ Len(s) \in Nat
    BY <1>1, <2>2, AppendShape
  <2>4. QED
    BY <2>2, <2>3, Zenon
<1>4. /\ \A i \in DOMAIN pending' :
           \/ i \in DOMAIN pending /\ pending'[i] = pending[i]
           \/ i = Len(pending) + 1 /\ pending'[i] = e
      /\ \A i \in DOMAIN pending : i \in Nat /\ i < Len(pending) + 1
      /\ Len(pending) \in Nat
  BY <1>1, <1>2, AppendShape DEF LogType
<1>5. CountOf(q)'
  <2>1. /\ \A i \in DOMAIN sent[q] : sent[q][i].kind = "child" => Counted(q, sent[q][i].body)
        /\ \A i \in DOMAIN o : o[i].kind = "child" => Counted(q, o[i].body)
        /\ \A i, j \in DOMAIN sent[q] : i # j /\ sent[q][i].kind = "child" => sent[q][i] # sent[q][j]
        /\ \A i, j \in DOMAIN o : i # j /\ o[i].kind = "child" => o[i] # o[j]
        /\ \A i \in DOMAIN sent[q], j \in DOMAIN o : sent[q][i].kind = "child" => sent[q][i] # o[j]
    BY DEF CountOf, o
  <2>2. o[1] = e
    BY DEF o, e
  <2>3. \A x : Counted(q, x)' <=> Counted(q, x)
    BY <1>1 DEF Counted
  <2>4. \A i \in DOMAIN sent'[q] : sent'[q][i].kind = "child" => Counted(q, sent'[q][i].body)
    BY <1>1, <1>3, <2>1, <2>2
  <2>5. \A i \in DOMAIN outbox'[q] : outbox'[q][i].kind = "child" => Counted(q, outbox'[q][i].body)
    BY <1>1, <2>1
  <2>6. \A i, j \in DOMAIN sent'[q] : i # j /\ sent'[q][i].kind = "child" => sent'[q][i] # sent'[q][j]
    <3> SUFFICES ASSUME NEW i \in DOMAIN sent'[q], NEW j \in DOMAIN sent'[q], i # j,
                        sent'[q][i].kind = "child", sent'[q][i] = sent'[q][j]
                 PROVE  FALSE
      OBVIOUS
    <3>1. CASE i \in DOMAIN sent[q] /\ j \in DOMAIN sent[q]
      <4>1. sent'[q][i] = sent[q][i] /\ sent'[q][j] = sent[q][j]
        BY <1>3, <3>1
      <4>2. QED
        BY <2>1, <3>1, <4>1
    <3>2. CASE i \in DOMAIN sent[q] /\ j \notin DOMAIN sent[q]
      <4>1. sent'[q][i] = sent[q][i] /\ sent'[q][j] = e
        BY <1>3, <3>2
      <4>2. QED
        BY <1>1, <2>1, <2>2, <3>2, <4>1
    <3>3. CASE i \notin DOMAIN sent[q] /\ j \in DOMAIN sent[q]
      <4>1. sent'[q][i] = e /\ sent'[q][j] = sent[q][j]
        BY <1>3, <3>3
      <4>2. QED
        BY <1>1, <2>1, <2>2, <3>3, <4>1
    <3>4. CASE i \notin DOMAIN sent[q] /\ j \notin DOMAIN sent[q]
      BY <1>3, <3>4
    <3>5. QED
      BY <3>1, <3>2, <3>3, <3>4
  <2>7. \A i, j \in DOMAIN outbox'[q] :
          i # j /\ outbox'[q][i].kind = "child" => outbox'[q][i] # outbox'[q][j]
    <3>1. \A i, j \in DOMAIN outbox'[q] : i # j => i + 1 # j + 1
      BY <1>1
    <3>2. QED
      BY <1>1, <2>1, <3>1
  <2>8. \A i \in DOMAIN sent'[q], j \in DOMAIN outbox'[q] :
          sent'[q][i].kind = "child" => sent'[q][i] # outbox'[q][j]
    <3>1. \A j \in DOMAIN outbox'[q] : j + 1 # 1
      BY <1>1
    <3>2. QED
      BY <1>1, <1>3, <2>1, <2>2, <3>1
  <2>9. QED
    BY <2>3, <2>4, <2>5, <2>6, <2>7, <2>8 DEF CountOf
<1>6. OpenOf(q)'
  <2>1. /\ dpc[q] = "new" => ~opened[q]
        /\ ~opened[q] => o = <<>>
        /\ tracked[q] => dpc[q] = "done"
        /\ q \notin unopened /\ sent[q] # <<>> => sent[q][1].kind = "request"
        /\ opened[q] /\ q \notin unopened /\ sent[q] = <<>> => o[1].kind = "request"
        /\ \A i \in DOMAIN o : o[i].req = q
    BY DEF OpenOf, o
  <2>2. o[1] = e
    BY DEF o, e
  <2>3. q \notin unopened => sent'[q][1].kind = "request"
    BY <1>1, <1>3, <2>1, <2>2
  <2>4. \A i \in DOMAIN outbox'[q] : outbox'[q][i].req = q
    BY <1>1, <2>1
  <2>5. (~opened[q]) = FALSE
    BY <1>1, <2>1
  <2>6. QED
    BY <1>1, <1>2, <1>3, <2>1, <2>3, <2>4, <2>5 DEF OpenOf
<1>7. FinalOf(q)'
  <2>1. /\ rows[q] \in Outcomes => dpc[q] = "done"
        /\ \A i \in DOMAIN pending :
             IsRow(pending[i], q) =>
               /\ rows[q] \notin Outcomes
               /\ pending[i].body \in Outcomes => dpc[q] = "done"
               /\ \A j \in DOMAIN pending : i < j /\ IsRow(pending[j], q) => pending[i].body = "in_flight"
               /\ \A j \in DOMAIN o : IsRow(o[j], q) => pending[i].body = "in_flight"
        /\ \A i \in DOMAIN o :
             IsRow(o[i], q) =>
               /\ rows[q] \notin Outcomes
               /\ o[i].body \in Outcomes => dpc[q] = "done"
               /\ \A j \in DOMAIN o : i < j /\ IsRow(o[j], q) => o[i].body = "in_flight"
    BY DEF FinalOf, o
  <2>2. o[1] = e
    BY DEF o, e
  <2>3. ASSUME NEW i \in DOMAIN pending', IsRow(pending'[i], q)
        PROVE  /\ rows[q] \notin Outcomes
               /\ pending'[i].body \in Outcomes => dpc[q] = "done"
               /\ \A j \in DOMAIN pending' : i < j /\ IsRow(pending'[j], q) => pending'[i].body = "in_flight"
               /\ \A j \in DOMAIN outbox'[q] : IsRow(outbox'[q][j], q) => pending'[i].body = "in_flight"
    <3>1. CASE i \in DOMAIN pending
      <4>1. pending'[i] = pending[i]
        BY <1>4, <3>1
      <4>2. \A j \in DOMAIN pending' : pending'[j] = e \/ (j \in DOMAIN pending /\ pending'[j] = pending[j])
        BY <1>4
      <4>3. \A j \in DOMAIN outbox'[q] : \E k \in DOMAIN o : outbox'[q][j] = o[k]
        BY <1>1
      <4>4. QED
        BY <1>1, <2>1, <2>2, <2>3, <3>1, <4>1, <4>2, <4>3
    <3>2. CASE i \notin DOMAIN pending
      <4>1. pending'[i] = o[1] /\ i = Len(pending) + 1 /\ IsRow(o[1], q)
        BY <1>4, <2>2, <2>3, <3>2
      <4>2. \A j \in DOMAIN pending' : ~(i < j)
        BY <1>4, <4>1
      <4>3. \A j \in DOMAIN outbox'[q] : j + 1 \in DOMAIN o /\ 1 < j + 1 /\ outbox'[q][j] = o[j + 1]
        BY <1>1
      <4>4. QED
        BY <1>1, <2>1, <4>1, <4>2, <4>3
    <3>3. QED
      BY <3>1, <3>2
  <2>4. ASSUME NEW i \in DOMAIN outbox'[q], IsRow(outbox'[q][i], q)
        PROVE  /\ rows[q] \notin Outcomes
               /\ outbox'[q][i].body \in Outcomes => dpc[q] = "done"
               /\ \A j \in DOMAIN outbox'[q] :
                    i < j /\ IsRow(outbox'[q][j], q) => outbox'[q][i].body = "in_flight"
    <3>1. outbox'[q][i] = o[i + 1] /\ i + 1 \in DOMAIN o
      BY <1>1
    <3>2. \A j \in DOMAIN outbox'[q] : i < j => /\ i + 1 < j + 1 /\ j + 1 \in DOMAIN o
                                                /\ outbox'[q][j] = o[j + 1]
      BY <1>1
    <3>3. QED
      BY <2>1, <2>4, <3>1, <3>2
  <2>5. QED
    BY <1>1, <2>1, <2>3, <2>4 DEF FinalOf
<1>8. TruthOf(q)'
  <2>1. /\ 1 \in DOMAIN outbox[q] /\ outbox[q][1] = e
        /\ \A i \in DOMAIN outbox'[q] : \E k \in DOMAIN outbox[q] : outbox'[q][i] = outbox[q][k]
    BY <1>1 DEF o, e
  <2>2. \A i \in DOMAIN pending' :
          pending'[i] = outbox[q][1] \/ (i \in DOMAIN pending /\ pending'[i] = pending[i])
    BY <1>4, <2>1
  <2>3. QED
    BY <1>1, <2>1, <2>2 DEF TruthOf
<1>9. QED
  BY <1>5, <1>6, <1>7, <1>8

LEMMA DroppedKeeps ==
  ASSUME DispatchType, NEW q \in Requests, Offer(q), Dropped(q),
         CountOf(q), OpenOf(q), FinalOf(q), TruthOf(q)
  PROVE  UNCHANGED pending /\ CountOf(q)' /\ OpenOf(q)' /\ FinalOf(q)' /\ TruthOf(q)'
<1>1. /\ outbox[q] # <<>> /\ 1 \in DOMAIN outbox[q] /\ Head(outbox[q]) = outbox[q][1]
      /\ \A i \in DOMAIN outbox'[q] :
           i \in Nat /\ i >= 1 /\ i + 1 \in DOMAIN outbox[q] /\ outbox'[q][i] = outbox[q][i + 1]
      /\ UNCHANGED <<rows, dpc, lane, excluded, answer, opened, tracked>>
  BY OfferShape
<1>2. /\ UNCHANGED <<pending, sent>>
      /\ unopened' = IF outbox[q][1].kind = "request" THEN unopened \cup {q} ELSE unopened
  BY <1>1 DEF Dropped, LogRefuse, logVars
<1>3. \A i \in DOMAIN outbox'[q] : \E k \in DOMAIN outbox[q] : outbox'[q][i] = outbox[q][k]
  BY <1>1
<1>4. CountOf(q)'
  <2>1. \A x : Counted(q, x)' <=> Counted(q, x)
    BY <1>1 DEF Counted
  <2>2. \A i, j \in DOMAIN outbox'[q] : i # j => i + 1 # j + 1
    BY <1>1
  <2>3. \A i, j \in DOMAIN outbox'[q] :
          i # j /\ outbox'[q][i].kind = "child" => outbox'[q][i] # outbox'[q][j]
    BY <1>1, <2>2 DEF CountOf
  <2>4. QED
    BY <1>2, <1>3, <2>1, <2>3 DEF CountOf
<1>5. OpenOf(q)'
  BY <1>1, <1>2, <1>3 DEF OpenOf
<1>6. FinalOf(q)'
  <2>1. ASSUME NEW i \in DOMAIN outbox'[q], IsRow(outbox'[q][i], q)
        PROVE  /\ rows[q] \notin Outcomes
               /\ outbox'[q][i].body \in Outcomes => dpc[q] = "done"
               /\ \A j \in DOMAIN outbox'[q] :
                    i < j /\ IsRow(outbox'[q][j], q) => outbox'[q][i].body = "in_flight"
    <3>1. outbox'[q][i] = outbox[q][i + 1] /\ i + 1 \in DOMAIN outbox[q]
      BY <1>1
    <3>2. \A j \in DOMAIN outbox'[q] : i < j => /\ i + 1 < j + 1 /\ j + 1 \in DOMAIN outbox[q]
                                                /\ outbox'[q][j] = outbox[q][j + 1]
      BY <1>1
    <3>3. QED
      BY <2>1, <3>1, <3>2 DEF FinalOf
  <2>2. \A i \in DOMAIN pending :
          IsRow(pending[i], q) =>
            \A j \in DOMAIN outbox'[q] : IsRow(outbox'[q][j], q) => pending[i].body = "in_flight"
    BY <1>3 DEF FinalOf
  <2>3. QED
    BY <1>1, <1>2, <2>1, <2>2 DEF FinalOf
<1>7. TruthOf(q)'
  BY <1>1, <1>2, <1>3 DEF TruthOf
<1>8. QED
  BY <1>2, <1>4, <1>5, <1>6, <1>7

-----------------------------------------------------------------------------
(***************************************************************************)
(* Every step preserves the invariant.                                     *)
(***************************************************************************)
LEMMA ServeKeeps ==
  ASSUME IInv, NEW q \in Requests, Serve(q)
  PROVE  IInv'
<1>1. LogType /\ DispatchType /\ LaneInv /\ \A p \in Requests : CountOf(p) /\ OpenOf(p) /\ FinalOf(p) /\ TruthOf(p)
  BY TypeParts DEF IInv, CountInv, OpenInv, FinalInv, TruthInv
<1>2. \/ Offer(q)
      \/ Sound(q) /\ Quiet
      \/ Sound(q) /\ Books(q)
  BY <1>1, ServeKinds
<1>3. LogType' /\ Sound(q)
  <2>1. CASE Offer(q)
    BY <1>1, <2>1, OfferSound
  <2>2. CASE Sound(q) /\ Quiet
    BY <1>1, <2>2 DEF Quiet, LogType, logVars
  <2>3. CASE Sound(q) /\ Books(q)
    BY <1>1, <2>3 DEF Books, LogType, logVars
  <2>4. QED
    BY <1>2, <2>1, <2>2, <2>3
<1>4. CountOf(q)' /\ OpenOf(q)' /\ FinalOf(q)' /\ TruthOf(q)'
  <2>1. CASE Offer(q)
    BY <1>1, <2>1, TakenKeeps, DroppedKeeps DEF Offer, Offered
  <2>2. CASE Sound(q) /\ Quiet
    BY <1>1, <2>2, QuietKeeps DEF Sound
  <2>3. CASE Sound(q) /\ Books(q)
    BY <1>1, <2>3, BooksKeep DEF Sound
  <2>4. QED
    BY <1>2, <2>1, <2>2, <2>3
<1>5. ASSUME NEW p \in Requests \ {q}
      PROVE  CountOf(p)' /\ OpenOf(p)' /\ FinalOf(p)' /\ TruthOf(p)'
  <2>1. Frame(q)
    BY <1>3 DEF Sound
  <2>2. CountOf(p)' /\ OpenOf(p)'
    BY <1>1, <2>1, OthersKeepBooks
  <2>3. FinalOf(p)' /\ TruthOf(p)'
    <3>1. CASE UNCHANGED <<pending, rows>>
      BY <1>1, <2>1, <3>1, OthersKeepRows
    <3>2. CASE Offer(q) /\ Taken(q)
      <4>1. UNCHANGED rows /\ Head(outbox[q]) = outbox[q][1] /\ outbox[q][1] \in Records
            /\ 1 \in DOMAIN outbox[q]
        BY <1>1, <3>2, OfferShape
      <4>2. pending' = Append(pending, outbox[q][1])
        BY <3>2, <4>1 DEF Taken, LogAdmit
      <4>3. outbox[q][1].req = q
        BY <1>1, <4>1 DEF OpenOf
      <4>4. pending \in Seq(Records)
        BY <1>1 DEF LogType
      <4>5. QED
        BY <1>1, <2>1, <4>1, <4>2, <4>3, <4>4, OthersKeepRowsOfLog
    <3>3. CASE Offer(q) /\ Dropped(q)
      BY <3>1, <3>3 DEF Dropped, LogRefuse, logVars
    <3>4. CASE Quiet \/ Books(q)
      BY <3>1, <3>4 DEF Quiet, Books, logVars
    <3>5. QED
      BY <1>2, <3>2, <3>3, <3>4 DEF Offer, Offered
  <2>4. QED
    BY <2>2, <2>3
<1>6. \A p \in Requests : CountOf(p)' /\ OpenOf(p)' /\ FinalOf(p)' /\ TruthOf(p)'
  BY <1>4, <1>5
<1>7. TypeOK' /\ LaneInv'
  <2>1. TypeOK' <=> LogType' /\ DispatchType'
    BY DEF TypeOK, LogType, DispatchType
  <2>2. QED
    BY <1>3, <2>1 DEF Sound
<1>8. QED
  BY <1>6, <1>7 DEF IInv, CountInv, OpenInv, FinalInv, TruthInv

\* Steps that neither the tables nor a dispatch sees.
LEMMA StillKeeps ==
  ASSUME IInv, UNCHANGED <<rows, pending, dispatchVars>>, TypeOK'
  PROVE  IInv'
<1>1. UNCHANGED <<rows, pending, dpc, attempts, excluded, lane, opened, tracked, outbox,
                  committed, failed, answer, sent, unopened>>
  BY DEF dispatchVars, loopVars, bookVars, sendVars, histVars
<1>2. LaneInv'
  BY <1>1 DEF IInv, LaneInv
<1>3. CountInv'
  BY <1>1 DEF IInv, CountInv, CountOf, Counted
<1>4. OpenInv'
  BY <1>1 DEF IInv, OpenInv, OpenOf
<1>5. FinalInv'
  BY <1>1 DEF IInv, FinalInv, FinalOf
<1>6. TruthInv'
  BY <1>1 DEF IInv, TruthInv, TruthOf
<1>7. QED
  BY <1>2, <1>3, <1>4, <1>5, <1>6 DEF IInv

\* The tables take records of the log: an outcome that is there is not written again, and
\* one that comes is the last row of its request.
LEMMA ApplyKeeps ==
  ASSUME IInv, LogApply, UNCHANGED <<planeVars, dispatchVars>>
  PROVE  IInv' /\ \A q \in Requests : rows[q] \in Outcomes => rows'[q] = rows[q]
<1>1. LogType /\ DispatchType /\ \A p \in Requests : FinalOf(p) /\ TruthOf(p)
  BY TypeParts DEF IInv, FinalInv, TruthInv
<1>2. UNCHANGED <<alias, disabled, registered, changes, dpc, mode, tools, limit, attempts, excluded,
                  lane, opened, tracked, outbox, committed, hasUsage, failed, client, answer, sent,
                  unopened>>
  BY DEF planeVars, dispatchVars, loopVars, bookVars, sendVars, histVars
<1>3. LogType'
  BY <1>1, ApplyLog
<1>4. PICK n \in 1..Len(pending) :
        /\ \A i \in DOMAIN pending' : i + n \in DOMAIN pending /\ pending'[i] = pending[i + n]
        /\ \A q \in Requests :
             \/ rows'[q] = rows[q]
             \/ \E i \in 1..n : IsRow(pending[i], q) /\ rows'[q] = pending[i].body
  BY <1>1, ApplyLog
<1>5. Len(pending) \in Nat /\ DOMAIN pending = 1..Len(pending) /\ Len(pending') \in Nat
      /\ DOMAIN pending' = 1..Len(pending')
  BY <1>1, <1>3, LenProperties DEF LogType
<1>6. /\ \A i \in 1..n : i \in DOMAIN pending
      /\ \A i \in 1..n, j \in DOMAIN pending' : i < j + n
      /\ \A i, j \in DOMAIN pending' : i < j => i + n < j + n
  BY <1>5
<1>7. "in_flight" \notin Outcomes
  BY DEF Outcomes
<1>8. ASSUME NEW q \in Requests
      PROVE  /\ FinalOf(q)' /\ TruthOf(q)'
             /\ rows[q] \in Outcomes => rows'[q] = rows[q]
  <2>1. /\ rows[q] \in Outcomes => dpc[q] = "done"
        /\ \A i \in DOMAIN pending :
             IsRow(pending[i], q) =>
               /\ rows[q] \notin Outcomes
               /\ pending[i].body \in Outcomes => dpc[q] = "done"
               /\ \A j \in DOMAIN pending : i < j /\ IsRow(pending[j], q) => pending[i].body = "in_flight"
               /\ \A j \in DOMAIN outbox[q] : IsRow(outbox[q][j], q) => pending[i].body = "in_flight"
        /\ \A i \in DOMAIN outbox[q] : IsRow(outbox[q][i], q) => rows[q] \notin Outcomes
    BY <1>1 DEF FinalOf
  <2>2. rows[q] \in Outcomes => rows'[q] = rows[q]
    BY <1>4, <1>6, <2>1
  <2>3. rows'[q] \in Outcomes => dpc[q] = "done"
    BY <1>4, <1>6, <2>1
  <2>4. ASSUME NEW i \in DOMAIN pending', IsRow(pending'[i], q)
        PROVE  /\ rows'[q] \notin Outcomes
               /\ pending'[i].body \in Outcomes => dpc[q] = "done"
               /\ \A j \in DOMAIN pending' : i < j /\ IsRow(pending'[j], q) => pending'[i].body = "in_flight"
               /\ \A j \in DOMAIN outbox[q] : IsRow(outbox[q][j], q) => pending'[i].body = "in_flight"
    <3>1. i + n \in DOMAIN pending /\ pending'[i] = pending[i + n] /\ IsRow(pending[i + n], q)
      BY <1>4, <2>4
    <3>2. rows'[q] \notin Outcomes
      BY <1>4, <1>6, <1>7, <2>1, <3>1
    <3>3. \A j \in DOMAIN pending' : i < j /\ IsRow(pending'[j], q) => pending'[i].body = "in_flight"
      BY <1>4, <1>6, <2>1, <3>1
    <3>4. QED
      BY <2>1, <3>1, <3>2, <3>3
  <2>5. \A i \in DOMAIN outbox[q] : IsRow(outbox[q][i], q) => rows'[q] \notin Outcomes
    BY <1>4, <1>6, <1>7, <2>1
  <2>6. FinalOf(q)'
    <3>1. \A i \in DOMAIN outbox[q] :
            IsRow(outbox[q][i], q) =>
              /\ outbox[q][i].body \in Outcomes => dpc[q] = "done"
              /\ \A j \in DOMAIN outbox[q] :
                   i < j /\ IsRow(outbox[q][j], q) => outbox[q][i].body = "in_flight"
      BY <1>1 DEF FinalOf
    <3>2. QED
      BY <1>2, <2>3, <2>4, <2>5, <3>1 DEF FinalOf
  <2>7. TruthOf(q)'
    <3>1. rows'[q] = "complete" =>
            \/ rows[q] = "complete"
            \/ \E i \in DOMAIN pending : IsRow(pending[i], q) /\ pending[i].body = "complete"
      BY <1>4, <1>6
    <3>2. (\E i \in DOMAIN pending' : IsRow(pending'[i], q) /\ pending'[i].body = "complete") =>
            \E i \in DOMAIN pending : IsRow(pending[i], q) /\ pending[i].body = "complete"
      BY <1>4
    <3>3. TruthOf(q)
      BY <1>1
    <3>4. QED
      BY <1>2, <3>1, <3>2, <3>3 DEF TruthOf
  <2>8. QED
    BY <2>2, <2>6, <2>7
<1>9. TypeOK'
  <2>1. DispatchType'
    BY <1>1, <1>2 DEF DispatchType
  <2>2. QED
    BY <1>3, <2>1 DEF TypeOK, LogType, DispatchType
<1>10. LaneInv' /\ CountInv' /\ OpenInv'
  <2>1. LaneInv'
    BY <1>2 DEF IInv, LaneInv
  <2>2. CountInv'
    BY <1>2 DEF IInv, CountInv, CountOf, Counted
  <2>3. OpenInv'
    BY <1>2 DEF IInv, OpenInv, OpenOf
  <2>4. QED
    BY <2>1, <2>2, <2>3
<1>11. QED
  BY <1>8, <1>9, <1>10 DEF IInv, FinalInv, TruthInv

LEMMA InitInv == Init => IInv
<1> SUFFICES ASSUME Init PROVE IInv
  OBVIOUS
<1>1. LogType
  <2>1. pending = <<>> /\ Len(pending) = 0 /\ pending \in Seq(Records)
    BY DEF Init, LogInit
  <2>2. Len(pending) <= Cap + BatchSize
    BY <2>1, LogAssumption
  <2>3. /\ closed \in BOOLEAN /\ lossy \in BOOLEAN /\ children \subseteq Records
        /\ closer \in [Closers -> {"idle", "waiting", "flushed", "failed", "noop"}]
        /\ rows \in [Requests -> Bodies \cup {Absent}]
    BY DEF Init, LogInit
  <2>4. QED
    BY <2>1, <2>2, <2>3 DEF LogType
<1>2. DispatchType
  <2>1. outbox \in [Requests -> Seq(Records)] /\ sent \in [Requests -> Seq(Records)]
    BY NoRecord DEF Init
  <2>2. /\ alias \in Lanes \cup {NoLane} /\ disabled \in BOOLEAN
        /\ registered \subseteq Lanes /\ changes \in 0..MaxChanges
    <3>1. changes = 0 /\ 0 \in 0..MaxChanges
      BY DispatchAssumption DEF Init
    <3>2. QED
      BY <3>1 DEF Init
  <2>3. /\ attempts \in [Requests -> Nat] /\ limit \in [Requests -> Nat]
        /\ \A q \in Requests : attempts[q] <= limit[q]
    BY DEF Init
  <2>4. QED
    BY <2>1, <2>2, <2>3 DEF Init, DispatchType, DispatchPcs, Answers, Clients
<1>3. LaneInv
  BY DEF Init, LaneInv
<1>4. /\ DOMAIN pending = {}
      /\ \A q \in Requests : /\ outbox[q] = <<>> /\ sent[q] = <<>> /\ rows[q] = Absent
                            /\ DOMAIN outbox[q] = {} /\ DOMAIN sent[q] = {}
                            /\ ~opened[q] /\ ~tracked[q]
  <2>1. DOMAIN (<<>>) = {}
    OBVIOUS
  <2>2. pending = <<>> /\ \A q \in Requests : /\ outbox[q] = <<>> /\ sent[q] = <<>> /\ rows[q] = Absent
                                             /\ ~opened[q] /\ ~tracked[q]
    BY DEF Init, LogInit
  <2>3. QED
    BY <2>1, <2>2, Zenon
<1>5. Absent \notin Outcomes
  BY DispatchAssumption, RecordAssumption DEF Outcomes
<1>6. CountInv
  BY <1>4 DEF CountInv, CountOf
<1>7. OpenInv
  BY <1>4 DEF OpenInv, OpenOf
<1>8. FinalInv
  BY <1>4, <1>5 DEF FinalInv, FinalOf
<1>9. TruthInv
  BY <1>4, <1>5 DEF TruthInv, TruthOf, Outcomes
<1>10. QED
  BY <1>1, <1>2, <1>3, <1>6, <1>7, <1>8, <1>9, TypeParts DEF IInv

LEMMA StepInv == IInv /\ [Next]_vars => IInv'
<1> SUFFICES ASSUME IInv, [Next]_vars PROVE IInv'
  OBVIOUS
<1>1. LogType /\ DispatchType
  BY TypeParts DEF IInv
<1>2. CASE \E q \in Requests : Serve(q)
  BY <1>2, ServeKeeps
<1>3. CASE Change
  <2>1. LogType' /\ UNCHANGED <<rows, pending, dispatchVars>>
    BY <1>1, <1>3 DEF Change, LogType, logVars
  <2>2. DispatchType'
    <3>1. UNCHANGED <<dpc, mode, tools, limit, attempts, excluded, lane, opened, tracked, outbox,
                      committed, hasUsage, failed, client, answer, sent, unopened>>
      BY <2>1 DEF dispatchVars, loopVars, bookVars, sendVars, histVars
    <3>2. alias' \in Lanes \cup {NoLane} /\ disabled' \in BOOLEAN /\ registered' \subseteq Lanes
          /\ changes' \in 0..MaxChanges
      <4>1. changes < MaxChanges /\ changes' = changes + 1 /\ changes \in 0..MaxChanges /\ MaxChanges \in Nat
        BY <1>1, <1>3, DispatchAssumption DEF Change, DispatchType
      <4>2. changes' \in 0..MaxChanges
        BY <4>1
      <4>3. \/ alias' \in Lanes \cup {NoLane} /\ UNCHANGED <<disabled, registered>>
            \/ disabled' = ~disabled /\ UNCHANGED <<alias, registered>>
            \/ registered' \subseteq Lanes /\ UNCHANGED <<alias, disabled>>
        BY <1>1, <1>3 DEF Change, DispatchType
      <4>4. QED
        BY <1>1, <4>2, <4>3 DEF DispatchType
    <3>3. QED
      BY <1>1, <3>1, <3>2 DEF DispatchType
  <2>3. TypeOK'
    BY <2>1, <2>2 DEF TypeOK, LogType, DispatchType
  <2>4. QED
    BY <2>1, <2>3, StillKeeps
<1>4. CASE LogApply /\ UNCHANGED <<planeVars, dispatchVars>>
  BY <1>4, ApplyKeeps
<1>5. CASE /\ \E c \in Closers : LogStartClose(c) \/ LogFinishClose(c)
           /\ UNCHANGED <<planeVars, dispatchVars>>
  <2>1. LogType' /\ UNCHANGED <<rows, pending, dispatchVars>>
    BY <1>1, <1>5, CloseLog
  <2>2. DispatchType'
    BY <1>1, <1>5 DEF DispatchType, planeVars, dispatchVars, loopVars, bookVars, sendVars, histVars
  <2>3. TypeOK'
    BY <2>1, <2>2 DEF TypeOK, LogType, DispatchType
  <2>4. QED
    BY <2>1, <2>3, StillKeeps
<1>6. CASE UNCHANGED vars
  <2>1. UNCHANGED <<logVars, planeVars, dispatchVars>>
    BY <1>6 DEF vars
  <2>2. LogType' /\ UNCHANGED <<rows, pending, dispatchVars>>
    BY <1>1, <2>1 DEF LogType, logVars
  <2>3. DispatchType'
    BY <1>1, <2>1 DEF DispatchType, planeVars, dispatchVars, loopVars, bookVars, sendVars, histVars
  <2>4. TypeOK'
    BY <2>2, <2>3 DEF TypeOK, LogType, DispatchType
  <2>5. QED
    BY <2>2, <2>4, StillKeeps
<1>7. QED
  BY <1>2, <1>3, <1>4, <1>5, <1>6 DEF Next

LEMMA Invariance == Spec => []IInv
BY InitInv, StepInv, PTL DEF Spec

-----------------------------------------------------------------------------
(***************************************************************************)
(* What Dispatch promises.                                                 *)
(***************************************************************************)

\* The variables of the dispatches, of the operator and of the log keep their types; no
\* dispatch makes more attempts than its limit, which the lanes of the registry set.
THEOREM DispatchTypeCorrect == Spec => []TypeOK
<1>1. IInv => TypeOK
  BY DEF IInv
<1>2. QED
  BY Invariance, <1>1, PTL

\* The log takes no attempt and no usage of a dispatch twice, whatever lanes fail and
\* whatever the queue drops meanwhile.
THEOREM NothingCountedTwice == Spec => []NoDoubleCount
<1>1. IInv => NoDoubleCount
  BY DEF IInv, CountInv, CountOf, NoDoubleCount
<1>2. QED
  BY Invariance, <1>1, PTL

\* Of every request whose rows the queue did not refuse, the log takes the row first and
\* then the attempts and the usage that refer to it.
THEOREM ParentComesFirst == Spec => []ParentFirst
<1>1. IInv => ParentFirst
  BY DEF IInv, OpenInv, OpenOf, ParentFirst
<1>2. QED
  BY Invariance, <1>1, PTL

\* A row that says complete is of a request whose client was handed everything its lane
\* sent: encode failures, hang-ups and error frames never become a success.
THEOREM CompleteIsTrue == Spec => []CompleteMeansDelivered
<1>1. IInv => CompleteMeansDelivered
  BY DEF IInv, TruthInv, TruthOf, CompleteMeansDelivered
<1>2. QED
  BY Invariance, <1>1, PTL

\* Once the headers of a stream are out, no step of anyone moves the request to another
\* lane or starts another attempt.
THEOREM CommittedToItsLane == Spec => NoFailoverAfterCommit
<1> DEFINE Bound == \A q \in Requests :
                      committed[q] # NoLane =>
                        /\ committed'[q] = committed[q] /\ lane'[q] = committed[q]
                        /\ attempts'[q] = attempts[q]
<1>1. IInv /\ [Next]_vars => Bound
  <2> SUFFICES ASSUME IInv, [Next]_vars, NEW q \in Requests, committed[q] # NoLane
               PROVE  /\ committed'[q] = committed[q] /\ lane'[q] = committed[q]
                      /\ attempts'[q] = attempts[q]
    OBVIOUS
  <2>1. LaneInv /\ DispatchType
    BY TypeParts DEF IInv
  <2>2. dpc[q] \in {"stream", "done"} /\ lane[q] = committed[q]
    BY <2>1 DEF LaneInv
  <2>3. ASSUME NEW p \in Requests, Serve(p)
        PROVE  committed'[q] = committed[q] /\ lane'[q] = lane[q] /\ attempts'[q] = attempts[q]
    <3>1. Frame(p) /\ Advance(p)
      BY <2>1, <2>3, TypeParts, ServeKinds, OfferSound DEF IInv, Sound
    <3>2. CASE p = q
      BY <2>2, <3>1, <3>2 DEF Advance
    <3>3. CASE p # q
      BY <3>1, <3>3 DEF Frame
    <3>4. QED
      BY <3>2, <3>3
  <2>4. ASSUME Change \/ UNCHANGED vars \/ UNCHANGED <<planeVars, dispatchVars>>
        PROVE  UNCHANGED <<committed, lane, attempts>>
    BY <2>4 DEF Change, vars, dispatchVars, sendVars
  <2>5. QED
    BY <2>2, <2>3, <2>4 DEF Next
<1>2. QED
  BY Invariance, <1>1, PTL DEF Spec, NoFailoverAfterCommit

\* A row with an outcome is not written again: no late in_flight record and no second
\* outcome of its request is on its way, in the log or in the dispatch.
THEOREM OutcomeStays == Spec => OutcomeIsFinal
<1> DEFINE Stays == \A q \in Requests : rows[q] \in {"complete", "failed"} => rows'[q] = rows[q]
<1>1. IInv /\ [Next]_vars => Stays
  <2> SUFFICES ASSUME IInv, [Next]_vars PROVE Stays
    OBVIOUS
  <2>1. CASE UNCHANGED rows
    BY <2>1
  <2>2. CASE LogApply /\ UNCHANGED <<planeVars, dispatchVars>>
    BY <2>2, ApplyKeeps DEF Outcomes
  <2>3. ASSUME NEW q \in Requests, Serve(q) PROVE UNCHANGED rows
    <3>1. LogType /\ DispatchType /\ LaneInv
      BY TypeParts DEF IInv
    <3>2. Offer(q) \/ Quiet \/ Books(q)
      BY <2>3, <3>1, ServeKinds
    <3>3. QED
      BY <3>1, <3>2, OfferShape DEF Quiet, Books, logVars
  <2>4. ASSUME Change \/ UNCHANGED vars PROVE UNCHANGED rows
    BY <2>4 DEF Change, vars, logVars
  <2>5. ASSUME NEW c \in Closers, LogStartClose(c) \/ LogFinishClose(c) PROVE UNCHANGED rows
    BY <2>5 DEF LogStartClose, LogFinishClose
  <2>6. QED
    BY <2>1, <2>2, <2>3, <2>4, <2>5 DEF Next
<1>2. QED
  BY Invariance, <1>1, PTL DEF Spec, OutcomeIsFinal

\* What the abstract log promises, and the writer that implements it keeps, holds of the log
\* the dispatches share: whatever a dispatch offers is a record, and each of its steps, of the
\* operator's and of the log's own is a step of the log's specification or leaves the log alone.
THEOREM DispatchesUseTheLog == Spec => LogSpec
<1>1. Init => LogInit
  BY DEF Init
<1>2. IInv /\ [Next]_vars => [LogNext]_logVars
  <2> SUFFICES ASSUME IInv, [Next]_vars PROVE [LogNext]_logVars
    OBVIOUS
  <2>1. ASSUME NEW q \in Requests, Serve(q) PROVE [LogNext]_logVars
    <3>1. LogType /\ DispatchType /\ LaneInv
      BY TypeParts DEF IInv
    <3>2. Offer(q) \/ Quiet \/ Books(q)
      BY <2>1, <3>1, ServeKinds
    <3>3. CASE Offer(q)
      <4>1. /\ outbox[q] \in Seq(Records) /\ outbox[q] # <<>>
            /\ LogAdmit(Head(outbox[q])) \/ LogRefuse(Head(outbox[q]))
        BY <3>1, <3>3 DEF Offer, Offered, Taken, Dropped, DispatchType
      <4>2. Head(outbox[q]) \in Records
        BY <4>1, HeadTailProperties
      <4>3. QED
        BY <4>1, <4>2 DEF LogNext
    <3>4. CASE Quiet \/ Books(q)
      BY <3>4 DEF Quiet, Books
    <3>5. QED
      BY <3>2, <3>3, <3>4
  <2>2. CASE LogApply \/ \E c \in Closers : LogStartClose(c) \/ LogFinishClose(c)
    BY <2>2 DEF LogNext
  <2>3. CASE Change \/ UNCHANGED vars
    BY <2>3 DEF Change, vars
  <2>4. QED
    BY <2>1, <2>2, <2>3 DEF Next
<1>3. QED
  BY Invariance, <1>1, <1>2, PTL DEF Spec, LogSpec
=============================================================================
