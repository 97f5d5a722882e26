--------------------- MODULE TelemetryRecordsProofs ---------------------
(***************************************************************************)
(* Lemmas about sequences of telemetry records and about the tables they   *)
(* leave, for the proofs about the writer and about the dispatches.        *)
(***************************************************************************)
EXTENDS TelemetryRecords, SequenceTheorems, WellFoundedInduction, TLAPS

-----------------------------------------------------------------------------
(***************************************************************************)
(* Lemmas about numbers and sequences.                                     *)
(***************************************************************************)
LEMMA MinExists ==
  ASSUME NEW T \in SUBSET Nat, T # {}
  PROVE  \E i \in T : \A j \in T : i <= j
<1> DEFINE R == OpToRel(<, Nat)
<1>1. IsWellFoundedOn(R, Nat)
  BY NatLessThanWellFounded
<1>2. \A i, j \in T : <<j, i>> \in R <=> j < i
  BY DEF OpToRel
<1> HIDE DEF R
<1>3. PICK i \in T : \A j \in T : ~(<<j, i>> \in R)
  BY <1>1, WFMin, Zenon
<1>4. \A j \in T : ~(j < i)
  BY <1>2, <1>3
<1>5. ASSUME NEW j \in T PROVE i <= j
  <2>1. i \in Nat /\ j \in Nat /\ ~(j < i)
    BY <1>4, <1>5
  <2>2. QED
    BY <2>1
<1>6. QED
  BY <1>5

LEMMA MaxExists ==
  ASSUME NEW n \in Nat, NEW S \in SUBSET (1..n), S # {}
  PROVE  \E i \in S : \A j \in S : j <= i
<1> DEFINE T == { n - i : i \in S }
<1>1. \A i \in S : i \in 1..n
  OBVIOUS
<1>2. T \in SUBSET Nat
  BY <1>1
<1>3. T # {}
  OBVIOUS
<1>4. PICK m \in T : \A k \in T : m <= k
  BY <1>2, <1>3, MinExists
<1>5. PICK i \in S : m = n - i
  BY <1>4
<1>6. \A j \in S : n - i <= n - j
  BY <1>4, <1>5
<1>7. QED
  BY <1>1, <1>6

\* Moving the head of one sequence to the end of another keeps their concatenation.
LEMMA MoveHead ==
  ASSUME NEW S, NEW s \in Seq(S), NEW t \in Seq(S), t # <<>>
  PROVE  /\ Append(s, Head(t)) \in Seq(S)
         /\ Len(Append(s, Head(t))) = Len(s) + 1
         /\ Append(s, Head(t)) # <<>>
         /\ Append(s, Head(t)) \o Tail(t) = s \o t
<1>1. Head(t) \in S /\ Tail(t) \in Seq(S)
  BY HeadTailProperties
<1>2. Append(s, Head(t)) = s \o <<Head(t)>>
  BY <1>1
<1>3. <<Head(t)>> \o Tail(t) = t
  BY <1>1
<1>4. Append(s, Head(t)) \o Tail(t) = s \o t
  BY <1>1, <1>2, <1>3, ConcatAssociative
<1>5. QED
  BY <1>1, <1>4

\* Appending to the second of two sequences appends to their concatenation.
LEMMA AppendRight ==
  ASSUME NEW S, NEW s \in Seq(S), NEW t \in Seq(S), NEW e \in S
  PROVE  s \o Append(t, e) = Append(s \o t, e)
<1>1. Append(t, e) = t \o <<e>> /\ Append(s \o t, e) = (s \o t) \o <<e>>
  OBVIOUS
<1>2. <<e>> \in Seq(S)
  OBVIOUS
<1>3. QED
  BY <1>1, <1>2, ConcatAssociative

LEMMA DropPrefix ==
  ASSUME NEW S, NEW s \in Seq(S), NEW t \in Seq(S)
  PROVE  SubSeq(s \o t, Len(s) + 1, Len(s \o t)) = t
<1> DEFINE u == SubSeq(s \o t, Len(s) + 1, Len(s \o t))
<1>1. s \o t \in Seq(S) /\ Len(s \o t) = Len(s) + Len(t) /\ Len(s) \in Nat /\ Len(t) \in Nat
  BY ConcatProperties
<1>2. \A i \in Len(s) + 1 .. Len(s \o t) : (s \o t)[i] \in S
  BY <1>1, ElementOfSeq
<1>3. u \in Seq(S) /\ Len(u) = Len(t) /\ \A i \in 1..Len(t) : u[i] = (s \o t)[Len(s) + i]
  BY <1>1, <1>2, SubSeqProperties
<1>4. \A i \in 1..Len(t) : u[i] = t[i]
  BY <1>1, <1>3, ConcatProperties
<1> HIDE DEF u
<1>5. u = t
  BY <1>3, <1>4, SeqEqual
<1>6. QED
  BY <1>5 DEF u

-----------------------------------------------------------------------------
(***************************************************************************)
(* Lemmas about the operators of TelemetryRecords.                         *)
(***************************************************************************)

\* The last request record the definition of Upserted chooses exists.
LEMMA LastRow ==
  ASSUME NEW s \in Seq(Records), NEW ok \in SUBSET DOMAIN s, NEW q \in Requests,
         RequestRows(s, ok, q) # {}
  PROVE  LET mine == RequestRows(s, ok, q)
             last == CHOOSE i \in mine : \A j \in mine : j <= i
         IN  /\ last \in mine /\ \A j \in mine : j <= last
             /\ last \in DOMAIN s /\ s[last].body \in Bodies
<1> DEFINE mine == RequestRows(s, ok, q)
           last == CHOOSE i \in mine : \A j \in mine : j <= i
<1>1. Len(s) \in Nat /\ DOMAIN s = 1..Len(s) /\ \A i \in DOMAIN s : s[i] \in Records
  BY LenProperties, ElementOfSeq
<1>2. mine \in SUBSET (1..Len(s)) /\ mine # {}
  BY <1>1 DEF RequestRows
<1>3. last \in mine /\ \A j \in mine : j <= last
  BY <1>1, <1>2, MaxExists
<1>4. last \in DOMAIN s /\ s[last].kind = "request"
  BY <1>3 DEF RequestRows
<1>5. s[last].body \in Bodies
  BY <1>1, <1>4 DEF Records
<1>6. QED
  BY <1>3, <1>4, <1>5

\* The row of a request after an upsert is the one it had, or the last one written.
LEMMA UpsertedRow ==
  ASSUME NEW t \in [Requests -> Bodies \cup {Absent}], NEW s \in Seq(Records), NEW ok \in SUBSET DOMAIN s, NEW q \in Requests
  PROVE  \/ RequestRows(s, ok, q) = {} /\ Upserted(t, s, ok)[q] = t[q]
         \/ \E i \in RequestRows(s, ok, q) :
              /\ \A j \in RequestRows(s, ok, q) : j <= i
              /\ i \in DOMAIN s /\ s[i].body \in Bodies
              /\ Upserted(t, s, ok)[q] = s[i].body
<1> DEFINE mine == RequestRows(s, ok, q)
           last == CHOOSE i \in mine : \A j \in mine : j <= i
<1>1. CASE mine = {}
  BY <1>1 DEF Upserted
<1>2. CASE mine # {}
  <2>1. Upserted(t, s, ok)[q] = s[last].body
    BY <1>2 DEF Upserted
  <2>2. /\ last \in mine /\ \A j \in mine : j <= last
        /\ last \in DOMAIN s /\ s[last].body \in Bodies
    BY <1>2, LastRow
  <2>3. QED
    BY <2>1, <2>2
<1>3. QED
  BY <1>1, <1>2

LEMMA UpsertedType ==
  ASSUME NEW t \in [Requests -> Bodies \cup {Absent}],
         NEW s \in Seq(Records), NEW ok \in SUBSET DOMAIN s
  PROVE  Upserted(t, s, ok) \in [Requests -> Bodies \cup {Absent}]
<1>1. \A q \in Requests : Upserted(t, s, ok)[q] \in Bodies \cup {Absent}
  BY UpsertedRow
<1>2. QED
  BY <1>1 DEF Upserted

LEMMA InsertedType ==
  ASSUME NEW s \in Seq(Records), NEW ok \in SUBSET DOMAIN s
  PROVE  Inserted(s, ok) \subseteq Records
BY LenProperties, ElementOfSeq DEF Inserted

\* What the positions of a prefix say does not depend on what follows it.
LEMMA PrefixRows ==
  ASSUME NEW t, NEW s \in Seq(Records), NEW u \in Seq(Records), NEW ok \in SUBSET DOMAIN s
  PROVE  /\ Upserted(t, s \o u, ok) = Upserted(t, s, ok)
         /\ Inserted(s \o u, ok) = Inserted(s, ok)
<1>1. \A i \in ok : (s \o u)[i] = s[i]
  BY LenProperties, ConcatProperties
<1>2. \A q \in Requests : RequestRows(s \o u, ok, q) = RequestRows(s, ok, q)
  BY <1>1 DEF RequestRows
<1>3. ASSUME NEW q \in Requests, RequestRows(s, ok, q) # {}
      PROVE  LET mine == RequestRows(s, ok, q)
                 last == CHOOSE i \in mine : \A j \in mine : j <= i
             IN  (s \o u)[last] = s[last]
  <2> DEFINE mine == RequestRows(s, ok, q)
             last == CHOOSE i \in mine : \A j \in mine : j <= i
  <2>1. Len(s) \in Nat /\ mine \in SUBSET (1..Len(s))
    BY LenProperties DEF RequestRows
  <2>2. last \in mine
    BY <1>3, <2>1, MaxExists
  <2>3. last \in ok
    BY <2>2 DEF RequestRows
  <2>4. QED
    BY <1>1, <2>3
<1>4. Upserted(t, s \o u, ok) = Upserted(t, s, ok)
  <2> DEFINE Body(v, q) == LET mine == RequestRows(v, ok, q) IN
                           IF mine = {} THEN t[q]
                           ELSE v[CHOOSE i \in mine : \A j \in mine : j <= i].body
  <2>1. ASSUME NEW q \in Requests PROVE Body(s \o u, q) = Body(s, q)
    <3>1. CASE RequestRows(s, ok, q) = {}
      BY <1>2, <3>1
    <3>2. CASE RequestRows(s, ok, q) # {}
      <4> DEFINE mine == RequestRows(s, ok, q)
                 last == CHOOSE i \in mine : \A j \in mine : j <= i
      <4>1. Body(s \o u, q) = (s \o u)[last].body
        BY <1>2, <3>2
      <4>2. Body(s, q) = s[last].body
        BY <3>2
      <4>3. (s \o u)[last] = s[last]
        BY <1>3, <3>2
      <4> HIDE DEF Body, last
      <4>4. QED
        BY <4>1, <4>2, <4>3
    <3>3. QED
      BY <3>1, <3>2
  <2>2. /\ Upserted(t, s \o u, ok) = [q \in Requests |-> Body(s \o u, q)]
        /\ Upserted(t, s, ok) = [q \in Requests |-> Body(s, q)]
    BY DEF Upserted
  <2> HIDE DEF Body
  <2>3. QED
    BY <2>1, <2>2
<1>5. Inserted(s \o u, ok) = Inserted(s, ok)
  BY <1>1 DEF Inserted
<1>6. QED
  BY <1>4, <1>5
=============================================================================
