--------------------------- MODULE StreamsProofs ---------------------------
(***************************************************************************)
(* Proofs about Streams, for every capacity of the channels and every      *)
(* length of an answer: the state is well typed, and what a client is      *)
(* shown is one well-formed stream.                                        *)
(***************************************************************************)
EXTENDS Streams, SequenceTheorems, FiniteSetTheorems, TLAPS

-----------------------------------------------------------------------------
(***************************************************************************)
(* Lemmas about sequences.                                                 *)
(***************************************************************************)

\* Associativity, under a name, so that it is used of the sequences at hand only.
Joins(s, t, u) == s \o (t \o u) = (s \o t) \o u

LEMMA Joined ==
  ASSUME NEW S, NEW s \in Seq(S), NEW t \in Seq(S), NEW u \in Seq(S)
  PROVE  Joins(s, t, u)
BY ConcatAssociative DEF Joins

\* Moving the head of one channel to the end of another.
LEMMA HeadMoves ==
  ASSUME NEW S, NEW s \in Seq(S), NEW t \in Seq(S), t # <<>>
  PROVE  /\ Append(s, Head(t)) \in Seq(S) /\ Tail(t) \in Seq(S) /\ Head(t) \in S
         /\ Len(Append(s, Head(t))) = Len(s) + 1
         /\ Append(s, Head(t)) \o Tail(t) = s \o t
<1>1. Head(t) \in S /\ Tail(t) \in Seq(S)
  BY HeadTailProperties
<1>2. Append(s, Head(t)) = s \o <<Head(t)>>
  BY <1>1
<1>3. <<Head(t)>> \o Tail(t) = t
  BY <1>1
<1>4. Append(s, Head(t)) \o Tail(t) = s \o t
  <2>1. <<Head(t)>> \in Seq(S)
    BY <1>1
  <2>2. Joins(s, <<Head(t)>>, Tail(t))
    BY <1>1, <2>1, Joined
  <2>3. QED
    BY <1>2, <1>3, <2>2 DEF Joins
<1>5. QED
  BY <1>1, <1>4, AppendProperties

\* Taking the first of a channel takes the first of what it leads to.
LEMMA HeadTaken ==
  ASSUME NEW S, NEW s \in Seq(S), NEW t \in Seq(S), s # <<>>
  PROVE  /\ Head(s) = (s \o t)[1] /\ Tail(s) \in Seq(S) /\ Len(Tail(s)) = Len(s) - 1
         /\ s \o t # <<>> /\ Tail(s) \o t = Tail(s \o t)
<1>1. /\ Tail(s) \in Seq(S) /\ Len(Tail(s)) = Len(s) - 1
      /\ \A i \in 1..Len(Tail(s)) : Tail(s)[i] = s[i + 1]
  BY HeadTailProperties
<1>2. /\ s \o t \in Seq(S) /\ Len(s \o t) = Len(s) + Len(t) /\ Len(s) \in Nat \ {0} /\ Len(t) \in Nat
      /\ \A i \in 1 .. Len(s) + Len(t) : (s \o t)[i] = IF i <= Len(s) THEN s[i] ELSE t[i - Len(s)]
  BY ConcatProperties, LenProperties, EmptySeq
<1>3. s \o t # <<>>
  BY <1>2, EmptySeq
<1>4. /\ Tail(s \o t) \in Seq(S) /\ Len(Tail(s \o t)) = Len(s \o t) - 1
      /\ \A i \in 1..Len(Tail(s \o t)) : Tail(s \o t)[i] = (s \o t)[i + 1]
  BY <1>2, <1>3, HeadTailProperties
<1>5. /\ Tail(s) \o t \in Seq(S) /\ Len(Tail(s) \o t) = Len(s) - 1 + Len(t)
      /\ \A i \in 1 .. Len(s) - 1 + Len(t) :
           (Tail(s) \o t)[i] = IF i <= Len(s) - 1 THEN Tail(s)[i] ELSE t[i - (Len(s) - 1)]
  BY <1>1, <1>2, ConcatProperties
<1>6. ASSUME NEW i \in 1 .. Len(s) - 1 + Len(t)
      PROVE  (Tail(s) \o t)[i] = Tail(s \o t)[i]
  <2>1. Tail(s \o t)[i] = (s \o t)[i + 1]
    BY <1>2, <1>4, <1>6
  <2>2. CASE i <= Len(s) - 1
    BY <1>1, <1>2, <1>5, <2>1, <2>2
  <2>3. CASE ~(i <= Len(s) - 1)
    BY <1>1, <1>2, <1>5, <2>1, <2>3
  <2>4. QED
    BY <2>2, <2>3
<1>7. Tail(s) \o t = Tail(s \o t)
  BY <1>2, <1>4, <1>5, <1>6, SeqEqual
<1>8. Head(s) = (s \o t)[1]
  BY <1>2
<1>9. QED
  BY <1>1, <1>3, <1>7, <1>8

\* One event dropped from the middle.
LEMMA MiddleDropped ==
  ASSUME NEW S, NEW s \in Seq(S), NEW t \in Seq(S), NEW e \in S
  PROVE  LET whole == s \o (<<e>> \o t)
             rest == s \o t
         IN  /\ whole \in Seq(S) /\ rest \in Seq(S)
             /\ Len(s) \in Nat /\ Len(rest) \in Nat /\ Len(rest) >= Len(s)
             /\ Len(whole) = Len(rest) + 1 /\ whole[Len(s) + 1] = e
             /\ \A i \in 1..Len(rest) : rest[i] = IF i <= Len(s) THEN whole[i] ELSE whole[i + 1]
<1> DEFINE u == <<e>> \o t
           whole == s \o u
           rest == s \o t
<1>1. Len(s) \in Nat /\ Len(t) \in Nat /\ <<e>> \in Seq(S) /\ Len(<<e>>) = 1 /\ <<e>>[1] = e
  BY LenProperties
<1>2. /\ u \in Seq(S) /\ Len(u) = 1 + Len(t)
      /\ \A i \in 1 .. 1 + Len(t) : u[i] = IF i <= 1 THEN <<e>>[i] ELSE t[i - 1]
  BY <1>1, ConcatProperties
<1> HIDE DEF u
<1>3. /\ whole \in Seq(S) /\ Len(whole) = Len(s) + Len(u)
      /\ \A i \in 1 .. Len(s) + Len(u) : whole[i] = IF i <= Len(s) THEN s[i] ELSE u[i - Len(s)]
  BY <1>2, ConcatProperties
<1>4. /\ rest \in Seq(S) /\ Len(rest) = Len(s) + Len(t)
      /\ \A i \in 1 .. Len(s) + Len(t) : rest[i] = IF i <= Len(s) THEN s[i] ELSE t[i - Len(s)]
  BY ConcatProperties
<1> HIDE DEF whole, rest
<1>5. whole[Len(s) + 1] = e
  <2>1. /\ Len(s) + 1 \in 1 .. Len(s) + Len(u) /\ ~(Len(s) + 1 <= Len(s))
        /\ Len(s) + 1 - Len(s) = 1
    BY <1>1, <1>2
  <2>2. whole[Len(s) + 1] = u[1]
    BY <1>3, <2>1
  <2>3. u[1] = e
    BY <1>1, <1>2
  <2>4. QED
    BY <2>2, <2>3
<1>6. ASSUME NEW i \in 1..Len(rest)
      PROVE  rest[i] = IF i <= Len(s) THEN whole[i] ELSE whole[i + 1]
  <2>1. CASE i <= Len(s)
    BY <1>1, <1>2, <1>3, <1>4, <2>1
  <2>2. CASE ~(i <= Len(s))
    <3>1. rest[i] = t[i - Len(s)] /\ i \in Nat /\ i <= Len(s) + Len(t)
      BY <1>1, <1>4, <2>2
    <3>2. whole[i + 1] = u[i + 1 - Len(s)]
      BY <1>1, <1>2, <1>3, <2>2, <3>1
    <3>3. u[i + 1 - Len(s)] = t[i - Len(s)]
      BY <1>1, <1>2, <2>2, <3>1
    <3>4. QED
      BY <2>2, <3>1, <3>2, <3>3
  <2>3. QED
    BY <2>1, <2>2
<1>7. QED
  BY <1>1, <1>2, <1>3, <1>4, <1>5, <1>6 DEF u, whole, rest

-----------------------------------------------------------------------------
(***************************************************************************)
(* Events and frames.                                                      *)
(***************************************************************************)
Values == Int \cup {"", "text", "thinking", "tool_use", "stop", "tool_calls"}
EventTypes ==
  {"start", "block", "text", "think", "sig", "call", "args", "callstop", "usage", "stop", "error"}
Events == [type : EventTypes, ix : Nat, x : Values]
FrameTypes ==
  {"message_start", "block_start", "delta", "block_stop", "message_delta", "message_stop",
   "role", "content", "reasoning", "call", "args", "finish", "usage", "[DONE]", "error"}
FrameSet == [f : FrameTypes, ix : Int, kind : Values, x : Values]

LEMMA EvType ==
  ASSUME NEW type \in EventTypes, NEW ix \in Nat, NEW x \in Values
  PROVE  /\ Ev(type, ix, x) \in Events
         /\ Ev(type, ix, x).type = type /\ Ev(type, ix, x).ix = ix /\ Ev(type, ix, x).x = x
BY DEF Ev, Events

LEMMA FrameType ==
  ASSUME NEW f \in FrameTypes, NEW ix \in Int, NEW kind \in Values, NEW x \in Values
  PROVE  /\ Frame(f, ix, kind, x) \in FrameSet
         /\ Frame(f, ix, kind, x).f = f /\ Frame(f, ix, kind, x).ix = ix
BY DEF Frame, FrameSet

LEMMA PlainType ==
  ASSUME NEW f \in FrameTypes
  PROVE  Plain(f) \in FrameSet /\ Plain(f).f = f
BY DEF Plain, Frame, FrameSet, None, Values

LEMMA TextFrame ==
  ASSUME NEW f \in FrameTypes, NEW x \in Values
  PROVE  Frame(f, None, "", x) \in FrameSet /\ Frame(f, None, "", x).f = f
<1>1. None \in Int /\ "" \in Values
  BY DEF None, Values
<1>2. QED
  BY <1>1 DEF Frame, FrameSet

LEMMA BlockStopType ==
  ASSUME NEW ix \in Int
  PROVE  LET x == Frame("block_stop", ix, "", None)
         IN  x \in FrameSet /\ x.f = "block_stop" /\ x.ix = ix
BY DEF Frame, FrameSet, FrameTypes, None, Values

LEMMA ValueTypes ==
  /\ \A n \in Int : n \in Values
  /\ {"", "text", "thinking", "tool_use", "stop", "tool_calls"} \subseteq Values
  /\ None \in Values /\ None \in Int /\ None \notin Nat
BY DEF Values, None

LEMMA FramesAppended ==
  ASSUME NEW fr \in Seq(FrameSet), NEW x \in FrameSet
  PROVE  /\ Append(fr, x) \in Seq(FrameSet) /\ Append(fr, x) # <<>>
         /\ Len(fr) \in Nat /\ DOMAIN fr = 1..Len(fr)
         /\ Len(Append(fr, x)) = Len(fr) + 1 /\ DOMAIN Append(fr, x) = 1 .. Len(fr) + 1
         /\ \A i \in 1..Len(fr) : Append(fr, x)[i] = fr[i]
         /\ Append(fr, x)[Len(fr) + 1] = x
         /\ \A i \in 1..Len(fr) : fr[i] \in FrameSet /\ fr[i].ix \in Int
         /\ x.ix \in Int
<1>1. \A i \in 1..Len(fr) : fr[i] \in FrameSet
  BY ElementOfSeq
<1>2. \A y \in FrameSet : y.ix \in Int
  BY DEF FrameSet
<1>3. QED
  BY <1>1, <1>2, AppendProperties, LenProperties

\* How many frames f of an index there are up to n.
Upto(fr, f, ix, n) == {i \in DOMAIN fr : fr[i].f = f /\ i <= n /\ fr[i].ix = ix}
Count(fr, f, ix, n) == Cardinality(Upto(fr, f, ix, n))

LEMMA UptoFinite ==
  ASSUME NEW fr \in Seq(FrameSet), NEW f, NEW ix, NEW n
  PROVE  IsFiniteSet(Upto(fr, f, ix, n)) /\ Count(fr, f, ix, n) \in Nat
<1>1. Upto(fr, f, ix, n) \in SUBSET (1..Len(fr)) /\ Len(fr) \in Nat
  BY LenProperties DEF Upto
<1>2. IsFiniteSet(1..Len(fr))
  BY <1>1, FS_Interval
<1>3. IsFiniteSet(Upto(fr, f, ix, n))
  BY <1>1, <1>2, FS_Subset
<1>4. QED
  BY <1>3, FS_CardinalityType DEF Count

LEMMA CountSome ==
  ASSUME NEW fr \in Seq(FrameSet), NEW f, NEW ix, NEW n, NEW i \in DOMAIN fr,
         fr[i].f = f, i <= n, fr[i].ix = ix
  PROVE  Count(fr, f, ix, n) > 0
<1>1. i \in Upto(fr, f, ix, n)
  BY DEF Upto
<1>2. IsFiniteSet(Upto(fr, f, ix, n)) /\ Count(fr, f, ix, n) \in Nat
  BY UptoFinite
<1>3. Count(fr, f, ix, n) # 0
  BY <1>1, <1>2, FS_EmptySet DEF Count
<1>4. QED
  BY <1>2, <1>3

LEMMA CountNone ==
  ASSUME NEW f, NEW ix, NEW n
  PROVE  Count(<<>>, f, ix, n) = 0
<1>1. Upto(<<>>, f, ix, n) = {}
  BY DEF Upto
<1>2. QED
  BY <1>1, FS_EmptySet DEF Count

LEMMA CountBefore ==
  ASSUME NEW fr \in Seq(FrameSet), NEW x \in FrameSet, NEW f \in FrameTypes, NEW ix \in Int,
         NEW n \in 1..Len(fr)
  PROVE  Count(Append(fr, x), f, ix, n) = Count(fr, f, ix, n)
<1>1. /\ Len(fr) \in Nat /\ DOMAIN fr = 1..Len(fr) /\ DOMAIN Append(fr, x) = 1 .. Len(fr) + 1
      /\ \A i \in 1..Len(fr) : Append(fr, x)[i] = fr[i]
  BY FramesAppended
<1>2. Upto(Append(fr, x), f, ix, n) = Upto(fr, f, ix, n)
  BY <1>1 DEF Upto
<1>3. QED
  BY <1>2 DEF Count

LEMMA CountAppended ==
  ASSUME NEW fr \in Seq(FrameSet), NEW x \in FrameSet, NEW f \in FrameTypes, NEW ix \in Int
  PROVE  Count(Append(fr, x), f, ix, Len(fr) + 1)
           = Count(fr, f, ix, Len(fr)) + (IF x.f = f /\ x.ix = ix THEN 1 ELSE 0)
<1> DEFINE g == Append(fr, x)
           k == Len(fr)
<1>1. /\ g \in Seq(FrameSet) /\ k \in Nat /\ DOMAIN fr = 1..k /\ DOMAIN g = 1..(k + 1)
      /\ \A i \in 1..k : g[i] = fr[i]
      /\ g[k + 1] = x
  BY FramesAppended
<1> HIDE DEF g, k
<1>2. Upto(g, f, ix, k + 1)
        = IF x.f = f /\ x.ix = ix THEN Upto(fr, f, ix, k) \cup {k + 1} ELSE Upto(fr, f, ix, k)
  BY <1>1 DEF Upto
<1>3. k + 1 \notin Upto(fr, f, ix, k)
  BY <1>1 DEF Upto
<1>4. IsFiniteSet(Upto(fr, f, ix, k)) /\ Count(fr, f, ix, k) \in Nat
  BY UptoFinite
<1>5. Cardinality(Upto(fr, f, ix, k) \cup {k + 1}) = Cardinality(Upto(fr, f, ix, k)) + 1
  BY <1>3, <1>4, FS_AddElement
<1>6. Count(g, f, ix, k + 1) = Count(fr, f, ix, k) + (IF x.f = f /\ x.ix = ix THEN 1 ELSE 0)
  <2>1. CASE x.f = f /\ x.ix = ix
    BY <1>2, <1>5, <2>1 DEF Count
  <2>2. CASE ~(x.f = f /\ x.ix = ix)
    BY <1>2, <1>4, <2>2 DEF Count
  <2>3. QED
    BY <2>1, <2>2
<1>7. QED
  BY <1>6 DEF g, k

LEMMA FrameConcat ==
  ASSUME NEW s \in Seq(FrameSet), NEW t \in Seq(FrameSet), NEW x \in FrameSet
  PROVE  s \o Append(t, x) = Append(s \o t, x)
<1>1. Append(t, x) = t \o <<x>> /\ Append(s \o t, x) = (s \o t) \o <<x>>
  BY ConcatProperties, AppendIsConcat
<1>2. <<x>> \in Seq(FrameSet)
  OBVIOUS
<1>3. Joins(s, t, <<x>>)
  BY <1>2, Joined
<1>4. QED
  BY <1>1, <1>3 DEF Joins

-----------------------------------------------------------------------------
(***************************************************************************)
(* What the Anthropic encoder's state says of the frames it has written.   *)
(***************************************************************************)
AnthropicEncoders ==
  [started : BOOLEAN, stopped : BOOLEAN, open : Nat \cup {None}, begun : SUBSET Nat]

\* The message's end is written once.
EndsAt(fr, k, end) ==
  /\ k \in DOMAIN fr /\ fr[k].f = end
  /\ \A i \in DOMAIN fr : fr[i].f = end => i = k

\* Every block begun before k was stopped before k.
StoppedBefore(fr, k) ==
  \A b \in DOMAIN fr : b < k /\ fr[b].f = "block_start" =>
    \E i \in DOMAIN fr : i < k /\ fr[i].f = "block_stop" /\ fr[i].ix = fr[b].ix

EndsGood(e, fr) ==
  /\ ~e.started => fr = <<>> /\ e.open = None /\ ~e.stopped
  /\ \A i \in DOMAIN fr : fr[i].f = "message_start" => i = 1
  /\ ~e.stopped => \A i \in DOMAIN fr : fr[i].f # "message_stop"
  /\ e.stopped => \E k \in DOMAIN fr : EndsAt(fr, k, "message_stop") /\ StoppedBefore(fr, k)

\* A begun index was started, an index is stopped no more often than started, the open one
\* less often, and every other that was started was stopped.
BlocksGood(e, fr) ==
  /\ \A i \in DOMAIN fr : fr[i].f = "delta" => Count(fr, "block_start", fr[i].ix, i) > 0
  /\ \A ix \in e.begun : Count(fr, "block_start", ix, Len(fr)) > 0
  /\ \A i \in DOMAIN fr : fr[i].f = "block_stop" =>
       Count(fr, "block_stop", fr[i].ix, i) <= Count(fr, "block_start", fr[i].ix, i)
  /\ \A ix \in Int : Count(fr, "block_stop", ix, Len(fr)) <= Count(fr, "block_start", ix, Len(fr))
  /\ e.open # None =>
       Count(fr, "block_stop", e.open, Len(fr)) < Count(fr, "block_start", e.open, Len(fr))
  /\ \A b \in DOMAIN fr : fr[b].f = "block_start" =>
       /\ fr[b].ix \in Nat
       /\ fr[b].ix = e.open \/ \E i \in DOMAIN fr : fr[i].f = "block_stop" /\ fr[i].ix = fr[b].ix

AnthropicGood(e, fr) ==
  e \in AnthropicEncoders /\ fr \in Seq(FrameSet) /\ EndsGood(e, fr) /\ BlocksGood(e, fr)

LEMMA EndsAppended ==
  ASSUME NEW e \in AnthropicEncoders, NEW d \in AnthropicEncoders,
         NEW fr \in Seq(FrameSet), NEW x \in FrameSet, EndsGood(e, fr), d.started,
         \/ ~e.started /\ ~d.stopped /\ x.f = "message_start"
         \/ e.started /\ d.stopped = e.stopped /\ x.f \notin {"message_start", "message_stop"}
         \/ /\ e.started /\ ~e.stopped /\ d.stopped /\ x.f = "message_stop"
            /\ StoppedBefore(fr, Len(fr) + 1)
  PROVE  EndsGood(d, Append(fr, x))
<1> DEFINE g == Append(fr, x)
           n == Len(fr)
<1>1. /\ n \in Nat /\ DOMAIN fr = 1..n /\ DOMAIN g = 1..(n + 1)
      /\ \A i \in 1..n : g[i] = fr[i]
      /\ g[n + 1] = x
  BY FramesAppended
<1>2. fr = <<>> => n = 0
  OBVIOUS
<1>3. \A k \in 1..(n + 1) : StoppedBefore(fr, k) => StoppedBefore(g, k)
  BY <1>1 DEF StoppedBefore
<1> HIDE DEF g
<1>4. CASE ~e.started /\ ~d.stopped /\ x.f = "message_start"
  BY <1>1, <1>2, <1>4 DEF EndsGood, g
<1>5. CASE e.started /\ d.stopped = e.stopped /\ x.f \notin {"message_start", "message_stop"}
  <2>1. ASSUME e.stopped PROVE \E k \in DOMAIN g : EndsAt(g, k, "message_stop") /\ StoppedBefore(g, k)
    <3>1. PICK k \in DOMAIN fr : EndsAt(fr, k, "message_stop") /\ StoppedBefore(fr, k)
      BY <2>1 DEF EndsGood
    <3>2. EndsAt(g, k, "message_stop") /\ k \in DOMAIN g
      BY <1>1, <1>5, <3>1 DEF EndsAt
    <3>3. StoppedBefore(g, k)
      BY <1>1, <1>3, <3>1
    <3>4. QED
      BY <3>2, <3>3
  <2>2. QED
    BY <1>1, <1>5, <2>1 DEF EndsGood, g
<1>6. CASE e.started /\ ~e.stopped /\ d.stopped /\ x.f = "message_stop" /\ StoppedBefore(fr, n + 1)
  <2>1. EndsAt(g, n + 1, "message_stop") /\ n + 1 \in DOMAIN g
    BY <1>1, <1>6 DEF EndsGood, EndsAt
  <2>2. StoppedBefore(g, n + 1)
    BY <1>1, <1>3, <1>6
  <2>3. \E k \in DOMAIN g : EndsAt(g, k, "message_stop") /\ StoppedBefore(g, k)
    BY <2>1, <2>2
  <2>4. QED
    BY <1>1, <1>6, <2>3 DEF EndsGood, g
<1>7. QED
  BY <1>4, <1>5, <1>6 DEF g

LEMMA BlocksAppended ==
  ASSUME NEW e \in AnthropicEncoders, NEW d \in AnthropicEncoders,
         NEW fr \in Seq(FrameSet), NEW x \in FrameSet, BlocksGood(e, fr),
         \/ /\ x.f \notin {"delta", "block_start", "block_stop"}
            /\ d.open = e.open /\ d.begun = e.begun
         \/ x.f = "delta" /\ x.ix \in e.begun /\ d.open = e.open /\ d.begun = e.begun
         \/ /\ x.f = "block_start" /\ e.open \in {None, x.ix} /\ x.ix \in Nat
            /\ d.open = x.ix /\ d.begun = e.begun \cup {x.ix}
         \/ /\ x.f = "block_stop" /\ e.open # None /\ x.ix = e.open
            /\ d.open = None /\ d.begun = e.begun
  PROVE  BlocksGood(d, Append(fr, x))
<1> DEFINE g == Append(fr, x)
           n == Len(fr)
<1>1. /\ n \in Nat /\ DOMAIN fr = 1..n /\ DOMAIN g = 1..(n + 1) /\ Len(g) = n + 1
      /\ \A i \in 1..n : g[i] = fr[i]
      /\ g[n + 1] = x
      /\ \A i \in 1..n : fr[i].ix \in Int
      /\ x.ix \in Int
  BY FramesAppended
<1>0. "block_start" \in FrameTypes /\ "block_stop" \in FrameTypes
  BY DEF FrameTypes
<1>2. ASSUME NEW ix \in Int, NEW m \in 1..n
      PROVE  /\ Count(g, "block_start", ix, m) = Count(fr, "block_start", ix, m)
             /\ Count(g, "block_stop", ix, m) = Count(fr, "block_stop", ix, m)
  BY <1>0, CountBefore
<1> DEFINE starts == [ix \in Int |-> Count(fr, "block_start", ix, n)]
           stops == [ix \in Int |-> Count(fr, "block_stop", ix, n)]
           starts2 == [ix \in Int |-> Count(g, "block_start", ix, n + 1)]
           stops2 == [ix \in Int |-> Count(g, "block_stop", ix, n + 1)]
<1>3. ASSUME NEW ix \in Int
      PROVE  /\ starts2[ix] = starts[ix] + (IF x.f = "block_start" /\ x.ix = ix THEN 1 ELSE 0)
             /\ stops2[ix] = stops[ix] + (IF x.f = "block_stop" /\ x.ix = ix THEN 1 ELSE 0)
             /\ starts[ix] \in Nat /\ stops[ix] \in Nat
  <2>1. starts[ix] \in Nat /\ stops[ix] \in Nat
    BY UptoFinite
  <2>2. Count(g, "block_start", ix, n + 1)
          = Count(fr, "block_start", ix, n) + (IF x.f = "block_start" /\ x.ix = ix THEN 1 ELSE 0)
    BY <1>0, CountAppended
  <2>3. Count(g, "block_stop", ix, n + 1)
          = Count(fr, "block_stop", ix, n) + (IF x.f = "block_stop" /\ x.ix = ix THEN 1 ELSE 0)
    BY <1>0, CountAppended
  <2>4. QED
    BY <2>1, <2>2, <2>3
<1>5. /\ e.open \in Nat \cup {None} /\ e.begun \subseteq Nat
      /\ d.open \in Nat \cup {None} /\ d.begun \subseteq Nat /\ None \in Int
  BY DEF AnthropicEncoders, None
<1>6. /\ \A ix \in e.begun : starts[ix] > 0
      /\ \A ix \in Int : stops[ix] <= starts[ix]
      /\ e.open # None => stops[e.open] < starts[e.open]
  BY <1>5 DEF BlocksGood
<1> HIDE DEF g, n, starts, stops, starts2, stops2
<1>7. /\ x.f = "delta" => x.ix \in e.begun
      /\ d.begun = e.begun \/ (d.begun = e.begun \cup {x.ix} /\ x.f = "block_start")
      /\ x.f = "block_stop" => x.ix = e.open /\ e.open # None
      /\ x.f = "block_start" => x.ix \in Nat
      /\ \/ d.open = e.open /\ x.f # "block_stop"
         \/ d.open = None /\ x.f = "block_stop" /\ x.ix = e.open
         \/ d.open = x.ix /\ x.f = "block_start" /\ e.open \in {None, x.ix}
  OBVIOUS
<1>8. \A i \in DOMAIN g : g[i].f = "delta" => Count(g, "block_start", g[i].ix, i) > 0
  <2>1. ASSUME NEW i \in 1..n, g[i].f = "delta" PROVE Count(g, "block_start", g[i].ix, i) > 0
    BY <1>1, <1>2, <2>1 DEF BlocksGood
  <2>2. ASSUME x.f = "delta" PROVE starts2[x.ix] > 0
    BY <1>1, <1>3, <1>6, <1>7, <2>2
  <2>3. QED
    BY <1>1, <2>1, <2>2 DEF starts2
<1>9. \A ix \in d.begun : starts2[ix] > 0
  <2> SUFFICES ASSUME NEW ix \in d.begun PROVE starts2[ix] > 0
    OBVIOUS
  <2>1. CASE ix \in e.begun
    BY <1>3, <1>5, <1>6, <2>1
  <2>2. CASE ix = x.ix /\ x.f = "block_start"
    BY <1>1, <1>3, <2>2
  <2>3. QED
    BY <1>7, <2>1, <2>2
<1>10. \A ix \in Int : stops2[ix] <= starts2[ix]
  <2> SUFFICES ASSUME NEW ix \in Int PROVE stops2[ix] <= starts2[ix]
    OBVIOUS
  <2>1. CASE x.f = "block_stop" /\ x.ix = ix
    BY <1>3, <1>6, <1>7, <2>1
  <2>2. CASE ~(x.f = "block_stop" /\ x.ix = ix)
    BY <1>3, <1>6, <2>2
  <2>3. QED
    BY <2>1, <2>2
<1>11. \A i \in DOMAIN g : g[i].f = "block_stop" =>
         Count(g, "block_stop", g[i].ix, i) <= Count(g, "block_start", g[i].ix, i)
  <2>1. ASSUME NEW i \in 1..n, g[i].f = "block_stop"
        PROVE  Count(g, "block_stop", g[i].ix, i) <= Count(g, "block_start", g[i].ix, i)
    BY <1>1, <1>2, <2>1 DEF BlocksGood
  <2>2. ASSUME x.f = "block_stop"
        PROVE  stops2[x.ix] <= starts2[x.ix]
    BY <1>10, <1>1
  <2>3. QED
    BY <1>1, <2>1, <2>2 DEF starts2, stops2
<1>12. d.open # None => stops2[d.open] < starts2[d.open]
  <2>1. CASE d.open = None
    BY <2>1
  <2>2. CASE d.open = e.open /\ x.f # "block_stop" /\ d.open # None
    BY <1>3, <1>5, <1>6, <2>2
  <2>3. CASE d.open = x.ix /\ x.f = "block_start"
    <3>1. starts2[x.ix] = starts[x.ix] + 1 /\ stops2[x.ix] = stops[x.ix]
      BY <1>1, <1>3, <2>3
    <3>2. stops[x.ix] <= starts[x.ix] /\ stops[x.ix] \in Nat /\ starts[x.ix] \in Nat
      BY <1>1, <1>3, <1>6
    <3>3. QED
      BY <2>3, <3>1, <3>2
  <2>4. QED
    BY <1>7, <2>1, <2>2, <2>3
<1>13. \A b \in DOMAIN g : g[b].f = "block_start" =>
         /\ g[b].ix \in Nat
         /\ g[b].ix = d.open \/ \E i \in DOMAIN g : g[i].f = "block_stop" /\ g[i].ix = g[b].ix
  <2>0. \A b \in DOMAIN g : g[b].f = "block_start" => g[b].ix \in Nat
    BY <1>1, <1>7 DEF BlocksGood
  <2> SUFFICES ASSUME NEW b \in DOMAIN g, g[b].f = "block_start", g[b].ix # d.open
               PROVE  \E i \in DOMAIN g : g[i].f = "block_stop" /\ g[i].ix = g[b].ix
    BY <2>0
  <2>1. CASE b = n + 1
    BY <1>1, <1>7, <2>1
  <2>2. CASE b # n + 1
    <3>1. b \in 1..n /\ fr[b] = g[b]
      BY <1>1, <2>2
    <3>2. CASE fr[b].ix = e.open
      <4>1. e.open # None
        BY <1>1, <2>0, <3>1, <3>2 DEF None
      <4>2. x.f = "block_stop" /\ x.ix = e.open
        BY <1>7, <3>1, <3>2, <4>1
      <4>3. n + 1 \in DOMAIN g /\ g[n + 1].f = "block_stop" /\ g[n + 1].ix = g[b].ix
        BY <1>1, <3>1, <3>2, <4>2
      <4>4. QED
        BY <4>3
    <3>3. CASE fr[b].ix # e.open
      <4>1. PICK i \in 1..n : fr[i].f = "block_stop" /\ fr[i].ix = fr[b].ix
        BY <1>1, <3>1, <3>3 DEF BlocksGood
      <4>2. i \in DOMAIN g /\ g[i] = fr[i]
        BY <1>1, <4>1
      <4>3. QED
        BY <3>1, <4>1, <4>2
    <3>4. QED
      BY <3>2, <3>3
  <2>3. QED
    BY <2>1, <2>2
<1>14. /\ \A ix \in d.begun : Count(g, "block_start", ix, Len(g)) > 0
       /\ \A ix \in Int : Count(g, "block_stop", ix, Len(g)) <= Count(g, "block_start", ix, Len(g))
       /\ d.open # None =>
            Count(g, "block_stop", d.open, Len(g)) < Count(g, "block_start", d.open, Len(g))
  <2>1. d.begun \subseteq Int /\ d.open \in Int
    BY <1>5
  <2>2. \A ix \in Int : /\ starts2[ix] = Count(g, "block_start", ix, Len(g))
                        /\ stops2[ix] = Count(g, "block_stop", ix, Len(g))
    BY <1>1 DEF starts2, stops2
  <2>3. QED
    BY <1>9, <1>10, <1>12, <2>1, <2>2
<1>15. BlocksGood(d, g)
  BY <1>8, <1>11, <1>13, <1>14 DEF BlocksGood
<1>16. QED
  BY <1>15 DEF g

\* One frame, and what the encoder remembers of it.
LEMMA AnthropicAppended ==
  ASSUME NEW e, NEW d \in AnthropicEncoders, NEW fr, NEW x \in FrameSet,
         AnthropicGood(e, fr), d.started,
         \/ /\ ~e.started /\ ~d.stopped /\ x.f = "message_start"
            /\ d.open = e.open /\ d.begun = e.begun
         \/ /\ e.started /\ d.stopped = e.stopped /\ x.f \in {"message_delta", "error"}
            /\ d.open = e.open /\ d.begun = e.begun
         \/ /\ e.started /\ d.stopped = e.stopped /\ x.f = "delta" /\ x.ix \in e.begun
            /\ d.open = e.open /\ d.begun = e.begun
         \/ /\ e.started /\ d.stopped = e.stopped /\ x.f = "block_start" /\ x.ix \in Nat
            /\ e.open \in {None, x.ix} /\ d.open = x.ix /\ d.begun = e.begun \cup {x.ix}
         \/ /\ e.started /\ d.stopped = e.stopped /\ x.f = "block_stop" /\ e.open # None
            /\ x.ix = e.open /\ d.open = None /\ d.begun = e.begun
         \/ /\ e.started /\ ~e.stopped /\ d.stopped /\ x.f = "message_stop"
            /\ e.open = None /\ d.open = None /\ d.begun = e.begun
  PROVE  AnthropicGood(d, Append(fr, x))
<1>1. e \in AnthropicEncoders /\ fr \in Seq(FrameSet) /\ EndsGood(e, fr) /\ BlocksGood(e, fr)
  BY DEF AnthropicGood
<1>2. EndsGood(d, Append(fr, x))
  <2>1. e.open = None => StoppedBefore(fr, Len(fr) + 1)
    <3>1. Len(fr) \in Nat /\ DOMAIN fr = 1..Len(fr)
      BY <1>1, LenProperties
    <3>2. e.open = None => \A b \in DOMAIN fr : fr[b].f = "block_start" =>
            \E i \in DOMAIN fr : fr[i].f = "block_stop" /\ fr[i].ix = fr[b].ix
      BY <1>1 DEF BlocksGood, None
    <3>3. QED
      BY <3>1, <3>2 DEF StoppedBefore
  <2>2. \/ ~e.started /\ ~d.stopped /\ x.f = "message_start"
        \/ e.started /\ d.stopped = e.stopped /\ x.f \notin {"message_start", "message_stop"}
        \/ e.started /\ ~e.stopped /\ d.stopped /\ x.f = "message_stop" /\ StoppedBefore(fr, Len(fr) + 1)
    BY <2>1
  <2>3. QED
    BY <1>1, <2>2, EndsAppended
<1>3. BlocksGood(d, Append(fr, x))
  <2>1. \/ /\ x.f \notin {"delta", "block_start", "block_stop"}
           /\ d.open = e.open /\ d.begun = e.begun
        \/ x.f = "delta" /\ x.ix \in e.begun /\ d.open = e.open /\ d.begun = e.begun
        \/ /\ x.f = "block_start" /\ e.open \in {None, x.ix} /\ x.ix \in Nat
           /\ d.open = x.ix /\ d.begun = e.begun \cup {x.ix}
        \/ /\ x.f = "block_stop" /\ e.open # None /\ x.ix = e.open
           /\ d.open = None /\ d.begun = e.begun
    OBVIOUS
  <2>2. QED
    BY <1>1, <2>1, BlocksAppended
<1>4. QED
  BY <1>1, <1>2, <1>3, FramesAppended DEF AnthropicGood

\* What a step of the encoder has written, after what the client has.
GoodOut(o, fr) == o.frames \in Seq(FrameSet) /\ AnthropicGood(o.e, fr \o o.frames)

LEMMA OutFields ==
  ASSUME NEW e, NEW frames1
  PROVE  Out(e, frames1).e = e /\ Out(e, frames1).frames = frames1
BY DEF Out

LEMMA OutAppended ==
  ASSUME NEW fr \in Seq(FrameSet), NEW s \in Seq(FrameSet), NEW x \in FrameSet, NEW d,
         AnthropicGood(d, Append(fr \o s, x))
  PROVE  GoodOut(Out(d, Append(s, x)), fr)
<1>1. Append(s, x) \in Seq(FrameSet)
  BY AppendProperties
<1>2. fr \o Append(s, x) = Append(fr \o s, x)
  BY FrameConcat
<1>3. QED
  BY <1>1, <1>2 DEF GoodOut, Out

LEMMA NothingOut ==
  ASSUME NEW e, NEW fr, AnthropicGood(e, fr)
  PROVE  GoodOut(Out(e, <<>>), fr) /\ Out(e, <<>>).e = e
<1>1. fr \in Seq(FrameSet) /\ fr \o <<>> = fr /\ <<>> \in Seq(FrameSet)
  BY ConcatEmptySeq, EmptySeq DEF AnthropicGood
<1>2. QED
  BY <1>1 DEF GoodOut, Out

LEMMA EnsureGood ==
  ASSUME NEW e, NEW fr, AnthropicGood(e, fr)
  PROVE  LET o == EnsureMessageStart(e)
         IN  /\ GoodOut(o, fr) /\ o.e.started
             /\ o.e.stopped = e.stopped /\ o.e.open = e.open /\ o.e.begun = e.begun
<1> DEFINE d == [e EXCEPT !.started = TRUE]
           x == Plain("message_start")
<1>1. e \in AnthropicEncoders /\ fr \in Seq(FrameSet)
  BY DEF AnthropicGood
<1>2. /\ d \in AnthropicEncoders /\ d.started
      /\ d.stopped = e.stopped /\ d.open = e.open /\ d.begun = e.begun
  BY <1>1 DEF AnthropicEncoders
<1>3. x \in FrameSet /\ x.f = "message_start"
  BY PlainType DEF FrameTypes
<1>4. <<>> \in Seq(FrameSet) /\ fr \o <<>> = fr
  BY <1>1, ConcatEmptySeq, EmptySeq
<1>5. CASE e.started
  <2>1. d = e
    BY <1>1, <1>5 DEF AnthropicEncoders
  <2>2. EnsureMessageStart(e) = Out(e, <<>>)
    BY <1>5, <2>1 DEF EnsureMessageStart, When
  <2>3. QED
    BY <1>5, <2>2, NothingOut
<1>6. CASE ~e.started
  <2>1. ~e.stopped
    BY <1>6 DEF AnthropicGood, EndsGood
  <2> HIDE DEF d, x
  <2>2. AnthropicGood(d, Append(fr, x))
    BY <1>2, <1>3, <1>6, <2>1, AnthropicAppended
  <2>3. Append(<<>>, x) = <<x>>
    OBVIOUS
  <2>4. EnsureMessageStart(e) = Out(d, Append(<<>>, x))
    BY <1>6, <2>3 DEF EnsureMessageStart, When, d, x
  <2>5. GoodOut(Out(d, Append(<<>>, x)), fr)
    BY <1>1, <1>3, <1>4, <2>2, OutAppended
  <2>6. QED
    BY <1>2, <2>4, <2>5, OutFields
<1>7. QED
  BY <1>5, <1>6

LEMMA StopActiveGood ==
  ASSUME NEW o, NEW fr \in Seq(FrameSet), NEW ix,
         GoodOut(o, fr), o.e.started
  PROVE  LET p == StopActiveBlock(o, ix)
         IN  /\ GoodOut(p, fr) /\ p.e.started /\ p.e.stopped = o.e.stopped
             /\ p.e.open \in {None, ix} /\ p.e.begun = o.e.begun
<1> DEFINE d == [o.e EXCEPT !.open = None]
           x == Frame("block_stop", o.e.open, "", None)
<1>1. CASE o.e.open \in {None, ix}
  <2>1. StopActiveBlock(o, ix) = o
    BY <1>1 DEF StopActiveBlock
  <2>2. QED
    BY <1>1, <2>1
<1>2. CASE o.e.open \notin {None, ix}
  <2>1. o.e \in AnthropicEncoders /\ o.frames \in Seq(FrameSet) /\ AnthropicGood(o.e, fr \o o.frames)
    BY DEF GoodOut, AnthropicGood
  <2>2. /\ d \in AnthropicEncoders /\ d.started /\ d.stopped = o.e.stopped /\ d.open = None
        /\ d.begun = o.e.begun /\ o.e.open \in Int
    BY <2>1 DEF AnthropicEncoders, None
  <2>3. x \in FrameSet /\ x.f = "block_stop" /\ x.ix = o.e.open
    <3>1. o.e.open \in Int
      BY <2>2
    <3>2. QED
      BY <3>1, BlockStopType
  <2>4. StopActiveBlock(o, ix) = Out(d, Append(o.frames, x))
    BY <1>2 DEF StopActiveBlock
  <2> HIDE DEF d, x
  <2>5. AnthropicGood(d, Append(fr \o o.frames, x))
    BY <1>2, <2>1, <2>2, <2>3, AnthropicAppended
  <2>6. GoodOut(Out(d, Append(o.frames, x)), fr)
    BY <2>1, <2>3, <2>5, OutAppended
  <2>7. QED
    BY <2>2, <2>4, <2>6, OutFields
<1>3. QED
  BY <1>1, <1>2

LEMMA StartBlockGood ==
  ASSUME NEW o, NEW fr \in Seq(FrameSet), NEW ix \in Nat, NEW kind \in Values, NEW id \in Values,
         GoodOut(o, fr), o.e.started, o.e.open \in {None, ix}
  PROVE  LET p == StartBlock(o, ix, kind, id)
         IN  GoodOut(p, fr) /\ p.e.started /\ p.e.stopped = o.e.stopped /\ ix \in p.e.begun
<1> DEFINE d == [o.e EXCEPT !.open = ix, !.begun = @ \cup {ix}]
           x == Frame("block_start", ix, kind, id)
<1>1. o.e \in AnthropicEncoders /\ o.frames \in Seq(FrameSet) /\ AnthropicGood(o.e, fr \o o.frames)
  BY DEF GoodOut, AnthropicGood
<1>2. /\ d \in AnthropicEncoders /\ d.started /\ d.stopped = o.e.stopped /\ d.open = ix
      /\ d.begun = o.e.begun \cup {ix}
  BY <1>1 DEF AnthropicEncoders
<1>3. x \in FrameSet /\ x.f = "block_start" /\ x.ix = ix
  BY FrameType DEF FrameTypes
<1>4. StartBlock(o, ix, kind, id) = Out(d, Append(o.frames, x))
  BY DEF StartBlock
<1> HIDE DEF d, x
<1>5. AnthropicGood(d, Append(fr \o o.frames, x))
  BY <1>1, <1>2, <1>3, AnthropicAppended
<1>6. GoodOut(Out(d, Append(o.frames, x)), fr)
  BY <1>1, <1>3, <1>5, OutAppended
<1>7. QED
  BY <1>2, <1>4, <1>6, OutFields

LEMMA StartOnceGood ==
  ASSUME NEW o, NEW fr \in Seq(FrameSet), NEW ix \in Nat, NEW kind \in Values, NEW id \in Values,
         GoodOut(o, fr), o.e.started, o.e.open \in {None, ix}
  PROVE  LET p == StartBlockOnce(o, ix, kind, id)
         IN  GoodOut(p, fr) /\ p.e.started /\ p.e.stopped = o.e.stopped /\ ix \in p.e.begun
<1>1. CASE ix \in o.e.begun
  <2>1. StartBlockOnce(o, ix, kind, id) = o
    BY <1>1 DEF StartBlockOnce
  <2>2. QED
    BY <1>1, <2>1
<1>2. CASE ix \notin o.e.begun
  <2>1. StartBlockOnce(o, ix, kind, id) = StartBlock(o, ix, kind, id)
    BY <1>2 DEF StartBlockOnce
  <2>2. QED
    BY <2>1, StartBlockGood
<1>3. QED
  BY <1>1, <1>2

LEMMA AtGood ==
  ASSUME NEW e, NEW fr, NEW ix, AnthropicGood(e, fr)
  PROVE  LET p == At(e, ix)
         IN  GoodOut(p, fr) /\ p.e.started /\ p.e.stopped = e.stopped /\ p.e.open \in {None, ix}
<1>1. fr \in Seq(FrameSet)
  BY DEF AnthropicGood
<1>2. LET o == EnsureMessageStart(e)
      IN  GoodOut(o, fr) /\ o.e.started /\ o.e.stopped = e.stopped
  BY EnsureGood
<1>3. QED
  BY <1>1, <1>2, StopActiveGood DEF At

LEMMA DeltaGood ==
  ASSUME NEW e, NEW fr, NEW ev \in Events, NEW kind \in Values, AnthropicGood(e, fr)
  PROVE  LET p == Delta(e, ev, kind)
         IN  GoodOut(p, fr) /\ p.e.started /\ p.e.stopped = e.stopped
<1> DEFINE o == StartBlockOnce(At(e, ev.ix), ev.ix, kind, None)
           x == Frame("delta", ev.ix, kind, ev.x)
<1>1. fr \in Seq(FrameSet) /\ ev.ix \in Nat /\ ev.x \in Values
  BY DEF AnthropicGood, Events
<1>2. x \in FrameSet /\ x.f = "delta" /\ x.ix = ev.ix
  <2>1. "delta" \in FrameTypes /\ ev.ix \in Int
    BY <1>1 DEF FrameTypes
  <2>2. QED
    BY <1>1, <2>1, FrameType
<1>3. LET p == At(e, ev.ix)
      IN  GoodOut(p, fr) /\ p.e.started /\ p.e.stopped = e.stopped /\ p.e.open \in {None, ev.ix}
  BY AtGood
<1>4. GoodOut(o, fr) /\ o.e.started /\ o.e.stopped = e.stopped /\ ev.ix \in o.e.begun
  BY <1>1, <1>3, StartOnceGood, ValueTypes
<1>5. Delta(e, ev, kind) = Out(o.e, Append(o.frames, x))
  BY DEF Delta
<1> HIDE DEF o, x
<1>6. o.e \in AnthropicEncoders /\ o.frames \in Seq(FrameSet) /\ AnthropicGood(o.e, fr \o o.frames)
  BY <1>4 DEF GoodOut, AnthropicGood
<1>7. AnthropicGood(o.e, Append(fr \o o.frames, x))
  BY <1>2, <1>4, <1>6, AnthropicAppended
<1>8. GoodOut(Out(o.e, Append(o.frames, x)), fr)
  BY <1>1, <1>2, <1>6, <1>7, OutAppended
<1>9. QED
  BY <1>4, <1>5, <1>8, OutFields

LastIs(fr, end) == fr # <<>> /\ fr[Len(fr)].f = end

LEMMA FinishGood ==
  ASSUME NEW o, NEW fr \in Seq(FrameSet), GoodOut(o, fr), o.e.started, ~o.e.stopped
  PROVE  LET p == Finish(o)
         IN  GoodOut(p, fr) /\ p.e.started /\ p.e.stopped /\ LastIs(p.frames, "message_stop")
<1> DEFINE c == StopActiveBlock(o, None)
           d == [c.e EXCEPT !.stopped = TRUE]
           x == Plain("message_delta")
           y == Plain("message_stop")
<1>1. GoodOut(c, fr) /\ c.e.started /\ ~c.e.stopped /\ c.e.open = None
  BY StopActiveGood
<1>2. x \in FrameSet /\ x.f = "message_delta" /\ y \in FrameSet /\ y.f = "message_stop"
  BY PlainType DEF FrameTypes
<1>3. Finish(o) = Out(d, c.frames \o <<x, y>>)
  BY DEF Finish
<1> HIDE DEF c, x, y
<1>4. c.e \in AnthropicEncoders /\ c.frames \in Seq(FrameSet) /\ AnthropicGood(c.e, fr \o c.frames)
  BY <1>1 DEF GoodOut, AnthropicGood
<1>5. /\ d \in AnthropicEncoders /\ d.started /\ d.stopped /\ d.open = None
      /\ d.begun = c.e.begun
  BY <1>1, <1>4 DEF AnthropicEncoders
<1> HIDE DEF d
<1>6. AnthropicGood(c.e, Append(fr \o c.frames, x))
  BY <1>1, <1>2, <1>4, AnthropicAppended
<1>7. fr \o Append(c.frames, x) = Append(fr \o c.frames, x) /\ Append(c.frames, x) \in Seq(FrameSet)
  BY <1>2, <1>4, FrameConcat, AppendProperties
<1>8. AnthropicGood(d, Append(fr \o Append(c.frames, x), y))
  BY <1>1, <1>2, <1>5, <1>6, <1>7, AnthropicAppended
<1>9. GoodOut(Out(d, Append(Append(c.frames, x), y)), fr)
  BY <1>2, <1>7, <1>8, OutAppended
<1>10. c.frames \o <<x, y>> = Append(Append(c.frames, x), y)
  BY <1>2, <1>4
<1>11. Finish(o) = Out(d, Append(Append(c.frames, x), y))
  BY <1>3, <1>10 DEF d
<1>12. LastIs(Append(Append(c.frames, x), y), "message_stop")
  BY <1>2, <1>7, FramesAppended DEF LastIs
<1>13. QED
  BY <1>5, <1>9, <1>11, <1>12, OutFields

\* Every event but an error: the first opens the message, and a stop ends it unless it has ended.
LEMMA AnthropicEventGood ==
  ASSUME NEW e, NEW fr, NEW ev \in Events, AnthropicGood(e, fr), ev.type # "error",
         e.started \/ ev.type \in {"start", "text", "think", "call", "sig"}
  PROVE  LET p == AnthropicEvent(e, ev)
         IN  /\ GoodOut(p, fr) /\ p.e.started
             /\ p.e.stopped => e.stopped \/ (ev.type = "stop" /\ LastIs(p.frames, "message_stop"))
<1> DEFINE p == AnthropicEvent(e, ev)
<1>1. e \in AnthropicEncoders /\ fr \in Seq(FrameSet) /\ fr \o <<>> = fr /\ <<>> \in Seq(FrameSet)
  BY ConcatEmptySeq, EmptySeq DEF AnthropicGood
<1>2. ev.type \in EventTypes /\ ev.ix \in Nat /\ ev.x \in Values
  BY DEF Events
<1>3. CASE ev.type = "start"
  <2>1. p = EnsureMessageStart(e)
    BY <1>3 DEF AnthropicEvent
  <2>2. QED
    BY <2>1, EnsureGood
<1>4. CASE ev.type = "block"
  <2>1. p = StartBlockOnce(At(e, ev.ix), ev.ix, ev.x, None)
    BY <1>4 DEF AnthropicEvent
  <2> HIDE DEF p
  <2>2. LET o == At(e, ev.ix)
        IN  GoodOut(o, fr) /\ o.e.started /\ o.e.stopped = e.stopped /\ o.e.open \in {None, ev.ix}
    BY AtGood
  <2>3. GoodOut(p, fr) /\ p.e.started /\ p.e.stopped = e.stopped
    BY <1>1, <1>2, <2>1, <2>2, StartOnceGood, ValueTypes
  <2>4. QED
    BY <2>3 DEF p
<1>5. CASE ev.type = "text"
  <2>1. p = Delta(e, ev, "text") /\ "text" \in Values
    BY <1>5, ValueTypes DEF AnthropicEvent
  <2> HIDE DEF p
  <2>2. GoodOut(p, fr) /\ p.e.started /\ p.e.stopped = e.stopped
    BY <2>1, DeltaGood
  <2>3. QED
    BY <2>2 DEF p
<1>6. CASE ev.type \in {"think", "sig"}
  <2>1. p = Delta(e, ev, "thinking") /\ "thinking" \in Values
    BY <1>6, ValueTypes DEF AnthropicEvent
  <2> HIDE DEF p
  <2>2. GoodOut(p, fr) /\ p.e.started /\ p.e.stopped = e.stopped
    BY <2>1, DeltaGood
  <2>3. QED
    BY <2>2 DEF p
<1>7. CASE ev.type = "args"
  <2>1. p = Delta(e, ev, "tool_use") /\ "tool_use" \in Values
    BY <1>7, ValueTypes DEF AnthropicEvent
  <2> HIDE DEF p
  <2>2. GoodOut(p, fr) /\ p.e.started /\ p.e.stopped = e.stopped
    BY <2>1, DeltaGood
  <2>3. QED
    BY <2>2 DEF p
<1>8. CASE ev.type = "call"
  <2>1. p = StartBlock(At(e, ev.ix), ev.ix, "tool_use", ev.x)
    BY <1>8 DEF AnthropicEvent
  <2> HIDE DEF p
  <2>2. LET o == At(e, ev.ix)
        IN  GoodOut(o, fr) /\ o.e.started /\ o.e.stopped = e.stopped /\ o.e.open \in {None, ev.ix}
    BY AtGood
  <2>3. GoodOut(p, fr) /\ p.e.started /\ p.e.stopped = e.stopped
    BY <1>1, <1>2, <2>1, <2>2, StartBlockGood, ValueTypes
  <2>4. QED
    BY <2>3 DEF p
<1>9. CASE ev.type = "callstop" /\ e.open = ev.ix
  <2> DEFINE d == [e EXCEPT !.open = None]
             x == Frame("block_stop", ev.ix, "", None)
  <2>1. p = Out(d, <<x>>)
    BY <1>9 DEF AnthropicEvent
  <2>2. d \in AnthropicEncoders /\ d.started /\ d.stopped = e.stopped /\ d.open = None /\ d.begun = e.begun
    BY <1>1, <1>9 DEF AnthropicEncoders
  <2>3. x \in FrameSet /\ x.f = "block_stop" /\ x.ix = ev.ix
    <3>1. ev.ix \in Int
      BY <1>2
    <3>2. QED
      BY <3>1, BlockStopType
  <2> HIDE DEF d, x, p
  <2>4. e.open # None
    BY <1>2, <1>9, ValueTypes
  <2>5. AnthropicGood(d, Append(fr, x))
    BY <1>9, <2>2, <2>3, <2>4, AnthropicAppended
  <2>6. <<x>> = Append(<<>>, x)
    OBVIOUS
  <2>7. GoodOut(Out(d, Append(<<>>, x)), fr)
    BY <1>1, <2>3, <2>5, OutAppended
  <2>8. p = Out(d, Append(<<>>, x))
    BY <2>1, <2>6
  <2>9. p.e = d
    BY <2>8 DEF Out
  <2>10. GoodOut(p, fr) /\ p.e.started /\ p.e.stopped = e.stopped
    BY <2>2, <2>7, <2>8, <2>9
  <2>11. QED
    BY <2>10 DEF p
<1>10. CASE ev.type = "stop" /\ ~e.stopped
  <2>1. p = Finish(EnsureMessageStart(e))
    BY <1>10 DEF AnthropicEvent
  <2>2. LET o == EnsureMessageStart(e)
        IN  GoodOut(o, fr) /\ o.e.started /\ ~o.e.stopped
    BY <1>10, EnsureGood
  <2>3. GoodOut(p, fr) /\ p.e.started /\ LastIs(p.frames, "message_stop")
    BY <1>1, <2>1, <2>2, FinishGood
  <2>4. QED
    BY <1>10, <2>3
<1>11. CASE \/ ev.type = "usage" \/ (ev.type = "callstop" /\ e.open # ev.ix)
            \/ (ev.type = "stop" /\ e.stopped)
  <2>1. p = Out(e, <<>>)
    BY <1>11 DEF AnthropicEvent
  <2>2. e.started
    BY <1>11
  <2>3. QED
    BY <2>1, <2>2, NothingOut
<1>12. QED
  BY <1>2, <1>3, <1>4, <1>5, <1>6, <1>7, <1>8, <1>9, <1>10, <1>11 DEF EventTypes

\* An error frame, and the end that dispatch makes of a stream it stops or finds closed.
LEMMA AnthropicErrorGood ==
  ASSUME NEW e, NEW fr, AnthropicGood(e, fr), e.started
  PROVE  AnthropicGood(e, fr \o <<Plain("error")>>)
<1>1. e \in AnthropicEncoders /\ fr \in Seq(FrameSet)
  BY DEF AnthropicGood
<1>2. Plain("error") \in FrameSet /\ Plain("error").f = "error"
  BY PlainType DEF FrameTypes
<1>3. AnthropicGood(e, Append(fr, Plain("error")))
  BY <1>1, <1>2, AnthropicAppended
<1>4. QED
  BY <1>1, <1>2, <1>3, AppendIsConcat

LEMMA AnthropicCloseGood ==
  ASSUME NEW e, NEW fr, AnthropicGood(e, fr), e.started
  PROVE  LET p == AnthropicClose(e)
         IN  /\ GoodOut(p, fr) /\ p.e.stopped
             /\ IF e.stopped THEN p.frames = <<>> ELSE LastIs(p.frames, "message_stop")
<1>1. fr \in Seq(FrameSet) /\ fr \o <<>> = fr /\ <<>> \in Seq(FrameSet)
  BY ConcatEmptySeq, EmptySeq DEF AnthropicGood
<1>2. GoodOut(Out(e, <<>>), fr) /\ Out(e, <<>>).e = e /\ Out(e, <<>>).frames = <<>>
  BY NothingOut, OutFields
<1>3. CASE e.stopped
  BY <1>2, <1>3 DEF AnthropicClose
<1>4. CASE ~e.stopped
  <2>1. AnthropicClose(e) = Finish(Out(e, <<>>))
    BY <1>4 DEF AnthropicClose
  <2>2. QED
    BY <1>1, <1>2, <1>4, <2>1, FinishGood
<1>5. QED
  BY <1>3, <1>4

-----------------------------------------------------------------------------
(***************************************************************************)
(* What the OpenAI encoder's state says of the frames it has written.      *)
(***************************************************************************)
OpenAIEncoders ==
  [started : BOOLEAN, sawToolCalls : BOOLEAN, stopped : BOOLEAN, closed : BOOLEAN, usage : BOOLEAN]

RoleGood(e, fr) ==
  /\ ~e.started => fr = <<>> /\ ~e.stopped
  /\ \A i \in DOMAIN fr : fr[i].f = "role" => i = 1
  /\ \A i \in DOMAIN fr : fr[i].f # "[DONE]"
  /\ ~e.stopped => \A i \in DOMAIN fr : fr[i].f # "finish"
  /\ e.stopped => \E k \in DOMAIN fr : EndsAt(fr, k, "finish")

OpenAIGood(e, fr) == e \in OpenAIEncoders /\ fr \in Seq(FrameSet) /\ ~e.closed /\ RoleGood(e, fr)

LEMMA OpenAIAppended ==
  ASSUME NEW e, NEW d \in OpenAIEncoders, NEW fr, NEW x \in FrameSet,
         OpenAIGood(e, fr), d.started, ~d.closed,
         \/ ~e.started /\ ~d.stopped /\ x.f = "role"
         \/ e.started /\ d.stopped = e.stopped /\ x.f \notin {"role", "finish", "[DONE]"}
         \/ e.started /\ ~e.stopped /\ d.stopped /\ x.f = "finish"
  PROVE  OpenAIGood(d, Append(fr, x))
<1> DEFINE g == Append(fr, x)
           n == Len(fr)
<1>1. e \in OpenAIEncoders /\ fr \in Seq(FrameSet) /\ ~e.closed /\ RoleGood(e, fr)
  BY DEF OpenAIGood
<1>2. /\ n \in Nat /\ DOMAIN fr = 1..n /\ DOMAIN g = 1..(n + 1) /\ g \in Seq(FrameSet)
      /\ \A i \in 1..n : g[i] = fr[i]
      /\ g[n + 1] = x
  BY <1>1, FramesAppended
<1>3. fr = <<>> => n = 0
  OBVIOUS
<1> HIDE DEF g, n
<1>4. RoleGood(d, g)
  <2>1. CASE ~e.started /\ ~d.stopped /\ x.f = "role"
    BY <1>1, <1>2, <1>3, <2>1 DEF RoleGood
  <2>2. CASE e.started /\ d.stopped = e.stopped /\ x.f \notin {"role", "finish", "[DONE]"}
    <3>1. ASSUME e.stopped PROVE \E k \in DOMAIN g : EndsAt(g, k, "finish")
      <4>1. PICK k \in DOMAIN fr : EndsAt(fr, k, "finish")
        BY <1>1, <3>1 DEF RoleGood
      <4>2. EndsAt(g, k, "finish") /\ k \in DOMAIN g
        BY <1>2, <2>2, <4>1 DEF EndsAt
      <4>3. QED
        BY <4>2
    <3>2. QED
      BY <1>1, <1>2, <2>2, <3>1 DEF RoleGood
  <2>3. CASE e.started /\ ~e.stopped /\ d.stopped /\ x.f = "finish"
    <3>1. EndsAt(g, n + 1, "finish") /\ n + 1 \in DOMAIN g
      BY <1>1, <1>2, <2>3 DEF RoleGood, EndsAt
    <3>2. \E k \in DOMAIN g : EndsAt(g, k, "finish")
      BY <3>1
    <3>3. QED
      BY <1>1, <1>2, <2>3, <3>2 DEF RoleGood
  <2>4. QED
    BY <2>1, <2>2, <2>3
<1>5. QED
  BY <1>2, <1>4 DEF OpenAIGood, g

OpenAIOut(p, fr) == p.frames \in Seq(FrameSet) /\ OpenAIGood(p.e, fr \o p.frames)

LEMMA OpenAINothing ==
  ASSUME NEW e, NEW d, NEW fr, OpenAIGood(e, fr), d \in OpenAIEncoders,
         d.started = e.started, d.stopped = e.stopped, d.closed = e.closed
  PROVE  OpenAIOut(Out(d, <<>>), fr) /\ Out(d, <<>>).e = d
<1>1. fr \in Seq(FrameSet) /\ fr \o <<>> = fr /\ <<>> \in Seq(FrameSet)
  BY ConcatEmptySeq, EmptySeq DEF OpenAIGood
<1>2. OpenAIGood(d, fr)
  BY DEF OpenAIGood, RoleGood
<1>3. QED
  BY <1>1, <1>2 DEF OpenAIOut, Out

LEMMA OpenAIOne ==
  ASSUME NEW d, NEW fr \in Seq(FrameSet), NEW x \in FrameSet, OpenAIGood(d, Append(fr, x))
  PROVE  OpenAIOut(Out(d, <<x>>), fr) /\ Out(d, <<x>>).e = d
<1>1. <<x>> \in Seq(FrameSet) /\ fr \o <<x>> = Append(fr, x)
  BY AppendIsConcat
<1>2. QED
  BY <1>1 DEF OpenAIOut, Out

LEMMA WithRoleGood ==
  ASSUME NEW e, NEW fr, NEW c \in OpenAIEncoders, NEW x \in FrameSet, OpenAIGood(e, fr),
         x.f \notin {"role", "finish", "[DONE]"},
         c.started = e.started, c.stopped = e.stopped, c.closed = e.closed
  PROVE  LET p == WithRole(c, x) IN OpenAIOut(p, fr) /\ p.e.started /\ p.e.stopped = e.stopped
<1> DEFINE d == [c EXCEPT !.started = TRUE]
           role == Plain("role")
<1>1. fr \in Seq(FrameSet) /\ ~e.closed /\ e \in OpenAIEncoders
  BY DEF OpenAIGood
<1>2. d \in OpenAIEncoders /\ d.started /\ d.stopped = e.stopped /\ ~d.closed
  BY <1>1 DEF OpenAIEncoders
<1>3. role \in FrameSet /\ role.f = "role"
  BY PlainType DEF FrameTypes
<1>4. CASE e.started
  <2>1. WithRole(c, x) = Out(d, <<x>>)
    <3>1. <<>> \o <<x>> = <<x>>
      OBVIOUS
    <3>2. QED
      BY <1>4, <3>1 DEF WithRole, When
  <2> HIDE DEF d, role
  <2>2. OpenAIGood(d, Append(fr, x))
    BY <1>2, <1>4, OpenAIAppended
  <2>3. QED
    BY <1>1, <1>2, <2>1, <2>2, OpenAIOne
<1>5. CASE ~e.started
  <2>0. ~e.stopped
    BY <1>5 DEF OpenAIGood, RoleGood
  <2>1. WithRole(c, x) = Out(d, <<role>> \o <<x>>)
    BY <1>5 DEF WithRole, When
  <2> HIDE DEF d, role
  <2>2. OpenAIGood(d, Append(fr, role))
    BY <1>2, <1>3, <1>5, <2>0, OpenAIAppended
  <2>3. OpenAIGood(d, Append(Append(fr, role), x))
    BY <1>2, <2>0, <2>2, OpenAIAppended
  <2>4. /\ <<role>> \o <<x>> \in Seq(FrameSet)
        /\ fr \o (<<role>> \o <<x>>) = Append(Append(fr, role), x)
    <3>1. /\ <<role>> \in Seq(FrameSet) /\ <<x>> \in Seq(FrameSet)
          /\ fr \o <<role>> = Append(fr, role) /\ Append(fr, role) \in Seq(FrameSet)
          /\ Append(fr, role) \o <<x>> = Append(Append(fr, role), x)
      BY <1>1, <1>3, AppendIsConcat, AppendProperties
    <3>2. Joins(fr, <<role>>, <<x>>)
      BY <1>1, <3>1, Joined
    <3>3. <<role>> \o <<x>> \in Seq(FrameSet)
      BY <3>1, ConcatProperties
    <3>4. QED
      BY <3>1, <3>2, <3>3 DEF Joins
  <2>5. OpenAIOut(Out(d, <<role>> \o <<x>>), fr) /\ Out(d, <<role>> \o <<x>>).e = d
    BY <2>3, <2>4 DEF OpenAIOut, Out
  <2>6. QED
    BY <1>2, <2>1, <2>5
<1>6. QED
  BY <1>4, <1>5

LEMMA OpenAIEventGood ==
  ASSUME NEW e, NEW fr, NEW ev \in Events, OpenAIGood(e, fr), ev.type # "error",
         e.started \/ ev.type \in {"start", "text", "think", "call", "sig"}
  PROVE  LET p == OpenAIEvent(e, ev)
         IN  /\ OpenAIOut(p, fr)
             /\ p.e.stopped => e.stopped \/ (ev.type = "stop" /\ LastIs(p.frames, "finish"))
             /\ e.started \/ ev.type # "sig" => p.e.started
<1> DEFINE p == OpenAIEvent(e, ev)
<1>1. e \in OpenAIEncoders /\ fr \in Seq(FrameSet) /\ ~e.closed
  BY DEF OpenAIGood
<1>2. ev.type \in EventTypes /\ ev.ix \in Int /\ ev.x \in Values
  BY DEF Events
<1>3. CASE ev.type = "start"
  <2> DEFINE d == [e EXCEPT !.started = TRUE]
  <2>1. d \in OpenAIEncoders /\ d.started /\ d.stopped = e.stopped /\ ~d.closed
    BY <1>1 DEF OpenAIEncoders
  <2>2. CASE e.started
    <3>1. p = Out(d, <<>>)
      BY <1>3, <2>2 DEF OpenAIEvent, When
    <3>2. d.started = e.started /\ d.stopped = e.stopped /\ d.closed = e.closed
      BY <1>1, <2>1, <2>2
    <3> HIDE DEF d
    <3>3. QED
      BY <2>1, <3>1, <3>2, OpenAINothing
  <2>3. CASE ~e.started
    <3>1. p = Out(d, <<Plain("role")>>)
      BY <1>3, <2>3 DEF OpenAIEvent, When
    <3>2. Plain("role") \in FrameSet /\ Plain("role").f = "role"
      BY PlainType DEF FrameTypes
    <3> HIDE DEF d
    <3>3. OpenAIGood(d, Append(fr, Plain("role")))
      <4>1. ~e.stopped
        BY <2>3 DEF OpenAIGood, RoleGood
      <4>2. QED
        BY <2>1, <2>3, <3>2, <4>1, OpenAIAppended
    <3>4. QED
      BY <1>1, <2>1, <3>1, <3>2, <3>3, OpenAIOne
  <2>4. QED
    BY <2>2, <2>3
<1>4. CASE ev.type = "text"
  <2> DEFINE x == Frame("content", None, "", ev.x)
  <2>1. p = WithRole(e, x)
    BY <1>4 DEF OpenAIEvent
  <2>2. x \in FrameSet /\ x.f = "content"
    <3>1. "content" \in FrameTypes
      BY DEF FrameTypes
    <3>2. QED
      BY <1>2, <3>1, TextFrame
  <2> HIDE DEF x
  <2>3. QED
    BY <1>1, <2>1, <2>2, WithRoleGood
<1>5. CASE ev.type = "think"
  <2> DEFINE x == Frame("reasoning", None, "", ev.x)
  <2>1. p = WithRole(e, x)
    BY <1>5 DEF OpenAIEvent
  <2>2. x \in FrameSet /\ x.f = "reasoning"
    <3>1. "reasoning" \in FrameTypes
      BY DEF FrameTypes
    <3>2. QED
      BY <1>2, <3>1, TextFrame
  <2> HIDE DEF x
  <2>3. QED
    BY <1>1, <2>1, <2>2, WithRoleGood
<1>6. CASE ev.type = "call"
  <2> DEFINE x == Frame("call", ev.ix, "", ev.x)
             c == [e EXCEPT !.sawToolCalls = TRUE]
  <2>1. p = WithRole(c, x)
    BY <1>6 DEF OpenAIEvent
  <2>2. x \in FrameSet /\ x.f = "call"
    BY <1>2 DEF Frame, FrameSet, FrameTypes, None, Values
  <2>3. /\ c \in OpenAIEncoders
        /\ c.started = e.started /\ c.stopped = e.stopped /\ c.closed = e.closed
    BY <1>1 DEF OpenAIEncoders
  <2> HIDE DEF x, c
  <2>4. QED
    BY <2>1, <2>2, <2>3, WithRoleGood
<1>7. CASE ev.type = "args"
  <2> DEFINE x == Frame("args", ev.ix, "", ev.x)
  <2>1. p = Out(e, <<x>>)
    BY <1>7 DEF OpenAIEvent
  <2>2. x \in FrameSet /\ x.f = "args"
    BY <1>2 DEF Frame, FrameSet, FrameTypes, None, Values
  <2> HIDE DEF x
  <2>3. OpenAIGood(e, Append(fr, x))
    BY <1>1, <1>7, <2>2, OpenAIAppended
  <2>4. QED
    BY <1>1, <1>7, <2>1, <2>2, <2>3, OpenAIOne
<1>8. CASE ev.type = "usage"
  <2> DEFINE d == [e EXCEPT !.usage = TRUE]
  <2>1. p = Out(d, <<>>)
    BY <1>8 DEF OpenAIEvent
  <2>2. /\ d \in OpenAIEncoders
        /\ d.started = e.started /\ d.stopped = e.stopped /\ d.closed = e.closed
    BY <1>1 DEF OpenAIEncoders
  <2> HIDE DEF d
  <2>3. QED
    BY <1>8, <2>1, <2>2, OpenAINothing
<1>9. CASE ev.type = "stop" /\ ~e.stopped
  <2> DEFINE d == [e EXCEPT !.stopped = TRUE]
             x == Frame("finish", None, IF e.sawToolCalls THEN "tool_calls" ELSE "stop", None)
  <2>1. p = Out(d, <<x>>)
    BY <1>9 DEF OpenAIEvent
  <2>2. d \in OpenAIEncoders /\ d.started /\ d.stopped /\ ~d.closed
    BY <1>1, <1>9 DEF OpenAIEncoders
  <2>3. x \in FrameSet /\ x.f = "finish"
    BY DEF Frame, FrameSet, FrameTypes, None, Values
  <2> HIDE DEF x, d
  <2>4. OpenAIGood(d, Append(fr, x))
    BY <1>1, <1>9, <2>2, <2>3, OpenAIAppended
  <2>5. OpenAIOut(p, fr) /\ p.e = d
    BY <1>1, <2>1, <2>3, <2>4, OpenAIOne
  <2>6. LastIs(p.frames, "finish")
    BY <2>1, <2>3 DEF Out, LastIs
  <2>7. QED
    BY <1>9, <2>2, <2>5, <2>6
<1>10. CASE ev.type \in {"block", "sig", "callstop"} \/ (ev.type = "stop" /\ e.stopped)
  <2>1. p = Out(e, <<>>)
    BY <1>10 DEF OpenAIEvent
  <2>2. QED
    BY <1>1, <1>10, <2>1, OpenAINothing
<1>11. QED
  BY <1>2, <1>3, <1>4, <1>5, <1>6, <1>7, <1>8, <1>9, <1>10 DEF EventTypes

LEMMA OpenAIErrorGood ==
  ASSUME NEW e, NEW fr, OpenAIGood(e, fr), e.started
  PROVE  OpenAIGood(e, fr \o <<Plain("error")>>)
<1>1. e \in OpenAIEncoders /\ fr \in Seq(FrameSet) /\ ~e.closed
  BY DEF OpenAIGood
<1>2. Plain("error") \in FrameSet /\ Plain("error").f = "error"
  BY PlainType DEF FrameTypes
<1>3. OpenAIGood(e, Append(fr, Plain("error")))
  BY <1>1, <1>2, OpenAIAppended
<1>4. QED
  BY <1>1, <1>2, <1>3, AppendIsConcat

-----------------------------------------------------------------------------
(***************************************************************************)
(* What a client is shown.                                                 *)
(***************************************************************************)
Ends(fr, end) == \E i \in DOMAIN fr : fr[i].f = end
Of(fr, f) == {i \in DOMAIN fr : fr[i].f = f}

OpenAIShape(fr) ==
  /\ \A i \in DOMAIN fr : fr[i].f = "role" => i = 1
  /\ \A i \in DOMAIN fr : fr[i].f = "[DONE]" => i = Len(fr)
  /\ Cardinality(Of(fr, "finish")) <= 1

AnthropicShape(fr) ==
  /\ \A i \in DOMAIN fr : fr[i].f = "message_start" => i = 1
  /\ Cardinality(Of(fr, "message_stop")) <= 1
  /\ \A i \in DOMAIN fr : fr[i].f = "delta" => Count(fr, "block_start", fr[i].ix, i) > 0
  /\ \A i \in DOMAIN fr : fr[i].f = "block_stop" =>
       Count(fr, "block_stop", fr[i].ix, i) <= Count(fr, "block_start", fr[i].ix, i)
  /\ \A i, b \in DOMAIN fr :
       fr[i].f = "message_stop" /\ fr[b].f = "block_start" /\ b < i =>
         Count(fr, "block_stop", fr[b].ix, i) > 0

Shown(fr, over) ==
  IF client = "openai" THEN OpenAIShape(fr) /\ (over /\ fr # <<>> => Ends(fr, "[DONE]"))
  ELSE AnthropicShape(fr) /\ (over /\ fr # <<>> => Ends(fr, "message_stop"))

LEMMA AtMostOne ==
  ASSUME NEW fr \in Seq(FrameSet), NEW f, NEW k, \A i \in DOMAIN fr : fr[i].f = f => i = k
  PROVE  Cardinality(Of(fr, f)) <= 1
<1>1. Of(fr, f) \in SUBSET {k}
  BY DEF Of
<1>2. IsFiniteSet({k}) /\ Cardinality({k}) = 1
  BY FS_Singleton
<1>3. QED
  BY <1>1, <1>2, FS_Subset

LEMMA AnthropicShown ==
  ASSUME NEW e, NEW fr, AnthropicGood(e, fr)
  PROVE  AnthropicShape(fr) /\ (e.stopped => Ends(fr, "message_stop"))
<1>1. e \in AnthropicEncoders /\ fr \in Seq(FrameSet) /\ EndsGood(e, fr) /\ BlocksGood(e, fr)
  BY DEF AnthropicGood
<1>2. Len(fr) \in Nat /\ DOMAIN fr = 1..Len(fr)
  BY <1>1, LenProperties
<1>3. \A i \in DOMAIN fr : fr[i].f = "message_start" => i = 1
  BY <1>1 DEF EndsGood
<1>4. /\ \A i \in DOMAIN fr : fr[i].f = "delta" => Count(fr, "block_start", fr[i].ix, i) > 0
      /\ \A i \in DOMAIN fr : fr[i].f = "block_stop" =>
           Count(fr, "block_stop", fr[i].ix, i) <= Count(fr, "block_start", fr[i].ix, i)
  BY <1>1 DEF BlocksGood
<1>5. CASE ~e.stopped
  <2>1. \A i \in DOMAIN fr : fr[i].f # "message_stop"
    BY <1>1, <1>5 DEF EndsGood
  <2>2. Cardinality(Of(fr, "message_stop")) <= 1
    BY <1>1, <2>1, AtMostOne
  <2>3. QED
    BY <1>3, <1>4, <1>5, <2>1, <2>2 DEF AnthropicShape
<1>6. CASE e.stopped
  <2>1. PICK k \in DOMAIN fr : EndsAt(fr, k, "message_stop") /\ StoppedBefore(fr, k)
    BY <1>1, <1>6 DEF EndsGood
  <2>2. fr[k].f = "message_stop" /\ \A i \in DOMAIN fr : fr[i].f = "message_stop" => i = k
    BY <2>1 DEF EndsAt
  <2>3. Cardinality(Of(fr, "message_stop")) <= 1
    BY <1>1, <2>2, AtMostOne
  <2>4. ASSUME NEW i \in DOMAIN fr, NEW b \in DOMAIN fr,
               fr[i].f = "message_stop", fr[b].f = "block_start", b < i
        PROVE  Count(fr, "block_stop", fr[b].ix, i) > 0
    <3>1. i = k
      BY <2>2, <2>4
    <3>2. PICK j \in DOMAIN fr : j < i /\ fr[j].f = "block_stop" /\ fr[j].ix = fr[b].ix
      BY <2>1, <2>4, <3>1 DEF StoppedBefore
    <3>3. j <= i
      BY <1>2, <3>2
    <3>4. QED
      BY <1>1, <3>2, <3>3, CountSome
  <2>5. Ends(fr, "message_stop")
    BY <2>2 DEF Ends
  <2>6. QED
    BY <1>3, <1>4, <2>3, <2>4, <2>5 DEF AnthropicShape
<1>7. QED
  BY <1>5, <1>6

LEMMA OpenAIShown ==
  ASSUME NEW e, NEW fr, OpenAIGood(e, fr)
  PROVE  OpenAIShape(fr)
<1>1. fr \in Seq(FrameSet) /\ RoleGood(e, fr)
  BY DEF OpenAIGood
<1>2. /\ \A i \in DOMAIN fr : fr[i].f = "role" => i = 1
      /\ \A i \in DOMAIN fr : fr[i].f = "[DONE]" => i = Len(fr)
  BY <1>1 DEF RoleGood
<1>3. CASE ~e.stopped
  <2>1. \A i \in DOMAIN fr : fr[i].f # "finish"
    BY <1>1, <1>3 DEF RoleGood
  <2>2. Cardinality(Of(fr, "finish")) <= 1
    BY <1>1, <2>1, AtMostOne
  <2>3. QED
    BY <1>2, <2>1, <2>2 DEF OpenAIShape
<1>4. CASE e.stopped
  <2>1. PICK k \in DOMAIN fr : EndsAt(fr, k, "finish")
    BY <1>1, <1>4 DEF RoleGood
  <2>2. \A i \in DOMAIN fr : fr[i].f = "finish" => i = k
    BY <2>1 DEF EndsAt
  <2>3. Cardinality(Of(fr, "finish")) <= 1
    BY <1>1, <2>2, AtMostOne
  <2>4. QED
    BY <1>2, <2>2, <2>3 DEF OpenAIShape
<1>5. QED
  BY <1>3, <1>4

\* The frames after a finished answer: its usage, and [DONE].
LEMMA DoneAppended ==
  ASSUME NEW fr \in Seq(FrameSet), NEW x \in FrameSet, OpenAIShape(fr), ~Ends(fr, "[DONE]"),
         x.f \in {"usage", "[DONE]"}
  PROVE  /\ OpenAIShape(Append(fr, x)) /\ Append(fr, x) \in Seq(FrameSet)
         /\ x.f = "[DONE]" => Ends(Append(fr, x), "[DONE]")
         /\ x.f = "usage" => ~Ends(Append(fr, x), "[DONE]")
<1> DEFINE g == Append(fr, x)
           n == Len(fr)
<1>1. /\ n \in Nat /\ DOMAIN fr = 1..n /\ DOMAIN g = 1..(n + 1) /\ g \in Seq(FrameSet) /\ Len(g) = n + 1
      /\ \A i \in 1..n : g[i] = fr[i]
      /\ g[n + 1] = x
  BY FramesAppended
<1> HIDE DEF g, n
<1>2. Of(g, "finish") = Of(fr, "finish")
  BY <1>1 DEF Of
<1>3. \A i \in DOMAIN fr : fr[i].f # "[DONE]"
  BY DEF Ends
<1>4. OpenAIShape(g)
  <2>1. /\ \A i \in DOMAIN g : g[i].f = "role" => i = 1
        /\ \A i \in DOMAIN g : g[i].f = "[DONE]" => i = Len(g)
    BY <1>1, <1>3 DEF OpenAIShape
  <2>2. Cardinality(Of(g, "finish")) <= 1
    BY <1>2 DEF OpenAIShape
  <2>3. QED
    BY <2>1, <2>2 DEF OpenAIShape
<1>5. x.f = "[DONE]" => Ends(g, "[DONE]")
  BY <1>1 DEF Ends
<1>6. x.f = "usage" => ~Ends(g, "[DONE]")
  BY <1>1, <1>3 DEF Ends
<1>7. QED
  BY <1>1, <1>4, <1>5, <1>6 DEF g

LEMMA OpenAICloseShown ==
  ASSUME NEW e, NEW fr, OpenAIGood(e, fr)
  PROVE  LET p == OpenAIClose(e, TRUE)
         IN  /\ p.frames \in Seq(FrameSet)
             /\ \A i \in DOMAIN p.frames : p.frames[i].f \in {"usage", "[DONE]"}
             /\ OpenAIShape(fr \o p.frames) /\ Ends(fr \o p.frames, "[DONE]")
<1> DEFINE p == OpenAIClose(e, TRUE)
           usage == Plain("usage")
           done == Plain("[DONE]")
<1>1. fr \in Seq(FrameSet) /\ ~e.closed /\ OpenAIShape(fr) /\ ~Ends(fr, "[DONE]")
  BY OpenAIShown DEF OpenAIGood, RoleGood, Ends
<1>2. usage \in FrameSet /\ usage.f = "usage" /\ done \in FrameSet /\ done.f = "[DONE]"
  BY PlainType DEF FrameTypes
<1>3. <<usage>> \in Seq(FrameSet) /\ <<done>> \in Seq(FrameSet)
  BY <1>2
<1>4. CASE e.usage
  <2>1. p.frames = <<usage>> \o <<done>>
    BY <1>1, <1>4 DEF OpenAIClose, When, Out
  <2> HIDE DEF p, usage, done
  <2>2. /\ OpenAIShape(Append(fr, usage)) /\ ~Ends(Append(fr, usage), "[DONE]")
        /\ Append(fr, usage) \in Seq(FrameSet)
    BY <1>1, <1>2, DoneAppended
  <2>3. LET g == Append(Append(fr, usage), done) IN OpenAIShape(g) /\ Ends(g, "[DONE]")
    BY <1>2, <2>2, DoneAppended
  <2>4. fr \o <<usage>> = Append(fr, usage)
        /\ Append(fr, usage) \o <<done>> = Append(Append(fr, usage), done)
    BY <1>1, <1>2, <2>2, AppendIsConcat
  <2>5. /\ fr \o (<<usage>> \o <<done>>) = (fr \o <<usage>>) \o <<done>>
        /\ <<usage>> \o <<done>> \in Seq(FrameSet)
    <3>1. Joins(fr, <<usage>>, <<done>>)
      BY <1>1, <1>3, Joined
    <3>2. <<usage>> \o <<done>> \in Seq(FrameSet)
      BY <1>3, ConcatProperties
    <3>3. QED
      BY <3>1, <3>2 DEF Joins
  <2>6. \A i \in DOMAIN (<<usage>> \o <<done>>) : (<<usage>> \o <<done>>)[i] \in {usage, done}
    OBVIOUS
  <2>7. QED
    BY <1>2, <2>1, <2>3, <2>4, <2>5, <2>6 DEF p
<1>5. CASE ~e.usage
  <2>1. p.frames = <<done>>
    <3>1. <<>> \o <<done>> = <<done>>
      OBVIOUS
    <3>2. QED
      BY <1>1, <1>5, <3>1 DEF OpenAIClose, When, Out
  <2> HIDE DEF p, usage, done
  <2>2. LET g == Append(fr, done) IN OpenAIShape(g) /\ Ends(g, "[DONE]")
    BY <1>1, <1>2, DoneAppended
  <2>3. fr \o <<done>> = Append(fr, done)
    BY <1>1, <1>2, AppendIsConcat
  <2>4. \A i \in DOMAIN <<done>> : <<done>>[i] = done
    OBVIOUS
  <2>5. QED
    BY <1>2, <1>3, <2>1, <2>2, <2>3, <2>4 DEF p
<1>6. QED
  BY <1>4, <1>5

LEMMA NothingShown ==
  OpenAIShape(<<>>) /\ AnthropicShape(<<>>)
<1>1. <<>> \in Seq(FrameSet) /\ DOMAIN <<>> = {}
  BY EmptySeq
<1>2. Of(<<>>, "finish") = {} /\ Of(<<>>, "message_stop") = {}
  BY DEF Of
<1>3. Cardinality(Of(<<>>, "finish")) = 0 /\ Cardinality(Of(<<>>, "message_stop")) = 0
  BY <1>2, FS_EmptySet
<1>4. QED
  BY <1>1, <1>3 DEF OpenAIShape, AnthropicShape

\* The frame that ends the message, and what may follow it of an answer that ends there.
TheEnd == IF client = "openai" THEN "finish" ELSE "message_stop"
Late == IF client = "openai" THEN {"error", "usage", "[DONE]"} ELSE {"error"}

Sealed(fr) == \A i, j \in DOMAIN fr : i < j /\ fr[i].f = TheEnd => fr[j].f \in Late

LEMMA SealedKeeps ==
  ASSUME NEW fr \in Seq(FrameSet), NEW t \in Seq(FrameSet), Sealed(fr),
         \A i \in DOMAIN t : t[i].f \in Late
  PROVE  Sealed(fr \o t)
<1> DEFINE g == fr \o t
           m == Len(fr)
           n == Len(t)
<1>1. /\ m \in Nat /\ n \in Nat /\ DOMAIN fr = 1..m /\ DOMAIN t = 1..n /\ DOMAIN g = 1..(m + n)
      /\ \A i \in 1..(m + n) : g[i] = IF i <= m THEN fr[i] ELSE t[i - m]
  BY ConcatProperties, LenProperties
<1> HIDE DEF g, m, n
<1>2. ASSUME NEW i \in DOMAIN g, NEW j \in DOMAIN g, i < j, g[i].f = TheEnd
      PROVE  g[j].f \in Late
  <2>1. CASE j <= m
    <3>1. i \in DOMAIN fr /\ j \in DOMAIN fr /\ g[i] = fr[i] /\ g[j] = fr[j]
      BY <1>1, <1>2, <2>1
    <3>2. QED
      BY <1>2, <3>1 DEF Sealed
  <2>2. CASE ~(j <= m)
    <3>1. j - m \in DOMAIN t /\ g[j] = t[j - m]
      BY <1>1, <1>2, <2>2
    <3>2. QED
      BY <3>1
  <2>3. QED
    BY <2>1, <2>2
<1>3. QED
  BY <1>2 DEF Sealed, g

\* Frames whose last is the only end of the message, and frames without an end.
LEMMA SealedByEnd ==
  ASSUME NEW fr \in Seq(FrameSet), NEW t \in Seq(FrameSet), NEW k,
         EndsAt(fr \o t, k, TheEnd), LastIs(t, TheEnd)
  PROVE  Sealed(fr \o t)
<1> DEFINE g == fr \o t
<1>1. /\ Len(fr) \in Nat /\ Len(t) \in Nat /\ Len(t) # 0 /\ DOMAIN g = 1 .. Len(fr) + Len(t)
      /\ \A i \in 1 .. Len(fr) + Len(t) : g[i] = IF i <= Len(fr) THEN fr[i] ELSE t[i - Len(fr)]
  BY ConcatProperties, LenProperties, EmptySeq DEF LastIs
<1>2. g[Len(fr) + Len(t)] = t[Len(t)] /\ Len(fr) + Len(t) \in DOMAIN g
  BY <1>1
<1>3. k = Len(fr) + Len(t) /\ \A i \in DOMAIN g : g[i].f = TheEnd => i = k
  BY <1>2 DEF EndsAt, LastIs
<1> HIDE DEF g
<1>4. \A i, j \in DOMAIN g : i < j => g[i].f # TheEnd
  BY <1>1, <1>3
<1>5. QED
  BY <1>4 DEF Sealed, g

LEMMA Unsealed ==
  ASSUME NEW fr, \A i \in DOMAIN fr : fr[i].f # TheEnd
  PROVE  Sealed(fr)
BY DEF Sealed

\* StreamWellFormed says this of the frames, now and after a step.
LEMMA ShownIsWellFormed ==
  ASSUME Shown(frames, Over /\ ~gone), Overrun \/ Sealed(frames), client \in Clients
  PROVE  StreamWellFormed
<1>1. CASE client = "openai"
  <2>1. OpenAIShape(frames) /\ (Over /\ ~gone /\ frames # <<>> => Ends(frames, "[DONE]"))
    BY <1>1 DEF Shown
  <2>2. Position("finish") = Of(frames, "finish")
    BY DEF Position, Of
  <2>3. Only("role", 1) /\ Only("[DONE]", Len(frames))
    BY <2>1 DEF OpenAIShape, Only, Position
  <2>4. \A i \in Position("finish"), j \in DOMAIN frames :
          j > i => Overrun \/ frames[j].f \in {"error", "usage", "[DONE]"}
    <3>1. \A i \in Position("finish") : i \in DOMAIN frames /\ frames[i].f = TheEnd
      BY <1>1 DEF Position, TheEnd
    <3>2. \A i, j \in DOMAIN frames : j > i /\ frames[i].f = TheEnd => Overrun \/ frames[j].f \in Late
      BY DEF Sealed
    <3>3. QED
      BY <1>1, <3>1, <3>2 DEF Late
  <2>5. Over /\ ~gone /\ frames # <<>> => Position("[DONE]") # {}
    BY <2>1 DEF Ends, Position
  <2>6. Cardinality(Position("finish")) <= 1
    BY <2>1, <2>2 DEF OpenAIShape
  <2>7. QED
    BY <1>1, <2>3, <2>4, <2>5, <2>6 DEF StreamWellFormed
<1>2. CASE client # "openai"
  <2>1. AnthropicShape(frames) /\ (Over /\ ~gone /\ frames # <<>> => Ends(frames, "message_stop"))
    BY <1>2 DEF Shown
  <2>2. Position("message_stop") = Of(frames, "message_stop")
    BY DEF Position, Of
  <2>3. ASSUME NEW f, NEW ix, NEW n
        PROVE  Cardinality({i \in Position(f) : i <= n /\ frames[i].ix = ix}) = Count(frames, f, ix, n)
    <3>1. {i \in Position(f) : i <= n /\ frames[i].ix = ix} = Upto(frames, f, ix, n)
      BY DEF Position, Upto
    <3>2. QED
      BY <3>1 DEF Count
  <2> DEFINE count(f, ix, n) == Cardinality({i \in Position(f) : i <= n /\ frames[i].ix = ix})
  <2>4. Only("message_start", 1) /\ Cardinality(Position("message_stop")) <= 1
    BY <2>1, <2>2 DEF AnthropicShape, Only, Position
  <2>5. \A i \in Position("message_stop"), j \in DOMAIN frames :
          j > i => Overrun \/ frames[j].f = "error"
    <3>1. \A i \in Position("message_stop") : i \in DOMAIN frames /\ frames[i].f = TheEnd
      BY <1>2 DEF Position, TheEnd
    <3>2. \A i, j \in DOMAIN frames : j > i /\ frames[i].f = TheEnd => Overrun \/ frames[j].f \in Late
      BY DEF Sealed
    <3>3. QED
      BY <1>2, <3>1, <3>2 DEF Late
  <2>6. \A i \in Position("delta") : count("block_start", frames[i].ix, i) > 0
    BY <2>1, <2>3 DEF AnthropicShape, Position
  <2>7. \A i \in Position("block_stop") :
          count("block_stop", frames[i].ix, i) <= count("block_start", frames[i].ix, i)
    BY <2>1, <2>3 DEF AnthropicShape, Position
  <2>8. \A i \in Position("message_stop"), b \in Position("block_start") :
          b < i => count("block_stop", frames[b].ix, i) > 0
    BY <2>1, <2>3 DEF AnthropicShape, Position
  <2>9. Over /\ ~gone /\ frames # <<>> => Position("message_stop") # {}
    BY <2>1 DEF Ends, Position
  <2>10. QED
    BY <1>2, <2>4, <2>5, <2>6, <2>7, <2>8, <2>9 DEF StreamWellFormed
<1>3. QED
  BY <1>1, <1>2

-----------------------------------------------------------------------------
(***************************************************************************)
(* What is on its way to dispatch, from the event it will receive next to  *)
(* the one the lane's goroutine made last.                                 *)
(***************************************************************************)
Held == IF filter.pc = "putting" THEN <<filter.held>> ELSE <<>>
Pipe == passed \o (Held \o (queue \o producer.pending))

Says(s, type) == \E i \in DOMAIN s : s[i].type = type

\* What comes after the end of an answer that ends there.
Ending == {"usage", "stop", "error"}
OnlyEnds(s) == \A i \in DOMAIN s : s[i].type \in Ending
StopLast(s) == \A i, j \in DOMAIN s : i < j /\ s[i].type = "stop" => s[j].type \in Ending

\* A stream opens with an event that opens the message for both clients, but for gemini's
\* signature, which opens an Anthropic message only and is followed by the thought.
Opens(s, hides) ==
  /\ s # <<>>
  /\ s[1].type \in {"error", "start", "text", "think", "call", "sig"}
  /\ s[1].type = "think" => ~hides
  /\ s[1].type = "sig" => ~hides /\ Len(s) > 1 /\ s[2].type = "think"

\* Events that do not end the answer.
Quiet == {ev \in Events : ev.type # "stop"}

LEMMA QuietEvents ==
  ASSUME NEW s \in Seq(Quiet)
  PROVE  s \in Seq(Events) /\ StopLast(s) /\ ~Says(s, "stop")
<1>1. s \in Seq(Events)
  <2>1. Quiet \subseteq Events
    BY DEF Quiet
  <2>2. QED
    BY <2>1, SeqDef
<1>2. \A i \in DOMAIN s : s[i].type # "stop"
  BY ElementOfSeq, LenProperties DEF Quiet
<1>3. QED
  BY <1>1, <1>2 DEF StopLast, Says

LEMMA QuietType ==
  ASSUME NEW type \in EventTypes \ {"stop"}, NEW ix \in Nat, NEW x \in Values
  PROVE  Ev(type, ix, x) \in Quiet /\ Ev(type, ix, x).type = type
BY EvType DEF Quiet

LEMMA SequenceElements ==
  ASSUME NEW s \in Seq(Events)
  PROVE  /\ Len(s) \in Nat /\ DOMAIN s = 1..Len(s)
         /\ \A i \in 1..Len(s) : s[i] \in Events
         /\ s = <<>> <=> Len(s) = 0
BY LenProperties, ElementOfSeq, EmptySeq

LEMMA PipeAppended ==
  ASSUME NEW s \in Seq(Events), NEW t \in Seq(Events), NEW hides, StopLast(t)
  PROVE  /\ s \o t \in Seq(Events)
         /\ StopLast(s) /\ (Says(s, "stop") => OnlyEnds(t)) => StopLast(s \o t)
         /\ OnlyEnds(s) /\ OnlyEnds(t) => OnlyEnds(s \o t)
         /\ Says(s \o t, "stop") => Says(s, "stop") \/ Says(t, "stop")
         /\ Opens(s, hides) => Opens(s \o t, hides)
         /\ s # <<>> => s \o t # <<>> /\ (s \o t)[1] = s[1]
<1> DEFINE m == Len(s)
           n == Len(t)
           w == s \o t
<1>1. /\ m \in Nat /\ DOMAIN s = 1..m /\ n \in Nat /\ DOMAIN t = 1..n
      /\ s # <<>> <=> m # 0
  BY SequenceElements
<1>2. /\ w \in Seq(Events) /\ Len(w) = m + n
      /\ \A i \in 1..(m + n) : w[i] = IF i <= m THEN s[i] ELSE t[i - m]
  BY ConcatProperties
<1>3. DOMAIN w = 1..(m + n) /\ (w # <<>> <=> m + n # 0)
  BY <1>2, SequenceElements
<1> HIDE DEF m, n, w
<1>4. ASSUME NEW i \in DOMAIN w
      PROVE  \/ i \in DOMAIN s /\ w[i] = s[i]
             \/ i > m /\ i - m \in DOMAIN t /\ w[i] = t[i - m]
  BY <1>1, <1>2, <1>3, <1>4
<1>5. ASSUME StopLast(s), Says(s, "stop") => OnlyEnds(t),
             NEW i \in DOMAIN w, NEW j \in DOMAIN w, i < j, w[i].type = "stop"
      PROVE  w[j].type \in Ending
  <2>1. i \in Nat /\ j \in Nat
    BY <1>1, <1>3, <1>5
  <2>2. CASE i \in DOMAIN s /\ w[i] = s[i]
    <3>1. Says(s, "stop") /\ OnlyEnds(t)
      BY <1>5, <2>2 DEF Says
    <3>2. CASE j \in DOMAIN s /\ w[j] = s[j]
      BY <1>5, <2>2, <3>2 DEF StopLast
    <3>3. CASE j - m \in DOMAIN t /\ w[j] = t[j - m]
      BY <3>1, <3>3 DEF OnlyEnds
    <3>4. QED
      BY <1>4, <3>2, <3>3
  <2>3. CASE i > m /\ i - m \in DOMAIN t /\ w[i] = t[i - m]
    <3>1. j - m \in DOMAIN t /\ w[j] = t[j - m] /\ i - m < j - m
      BY <1>1, <1>2, <1>3, <1>5, <2>1, <2>3
    <3>2. t[i - m].type = "stop"
      BY <1>5, <2>3
    <3>3. QED
      BY <2>3, <3>1, <3>2 DEF StopLast
  <2>4. QED
    BY <1>4, <2>2, <2>3
<1>6. StopLast(s) /\ (Says(s, "stop") => OnlyEnds(t)) => StopLast(w)
  BY <1>5 DEF StopLast
<1>7. OnlyEnds(s) /\ OnlyEnds(t) => OnlyEnds(w)
  BY <1>4 DEF OnlyEnds
<1>8. Says(w, "stop") => Says(s, "stop") \/ Says(t, "stop")
  BY <1>4 DEF Says
<1>9. s # <<>> => w # <<>> /\ w[1] = s[1]
  BY <1>1, <1>2, <1>3
<1>10. ASSUME Opens(s, hides) PROVE Opens(w, hides)
  <2>1. s # <<>> /\ Len(w) >= m /\ Len(w) \in Nat
    BY <1>1, <1>2, <1>10 DEF Opens
  <2>2. m > 1 => w[2] = s[2]
    BY <1>1, <1>2
  <2>3. QED
    BY <1>1, <1>9, <1>10, <2>1, <2>2 DEF Opens, m
<1>11. QED
  BY <1>2, <1>6, <1>7, <1>8, <1>9, <1>10 DEF w

LEMMA PipeTail ==
  ASSUME NEW s \in Seq(Events), NEW hides, s # <<>>
  PROVE  /\ Tail(s) \in Seq(Events) /\ s[1] \in Events /\ (StopLast(s) => StopLast(Tail(s)))
         /\ s[1].type = "stop" => Says(s, "stop") /\ (StopLast(s) => OnlyEnds(Tail(s)))
         /\ OnlyEnds(s) => s[1].type \in Ending /\ OnlyEnds(Tail(s))
         /\ Says(Tail(s), "stop") => Says(s, "stop")
         /\ Opens(s, hides) /\ s[1].type = "sig" =>
              ~hides /\ Tail(s) # <<>> /\ Tail(s)[1].type = "think"
<1> DEFINE n == Len(s)
           t == Tail(s)
<1>1. n \in Nat /\ n > 0 /\ DOMAIN s = 1..n /\ s[1] \in Events
  BY SequenceElements
<1>2. t \in Seq(Events) /\ Len(t) = n - 1 /\ \A i \in 1..Len(t) : t[i] = s[i + 1]
  BY HeadTailProperties
<1>3. DOMAIN t = 1..(n - 1) /\ (t = <<>> <=> n - 1 = 0)
  BY <1>2, SequenceElements
<1> HIDE DEF n, t
<1>4. \A i \in DOMAIN t : i + 1 \in DOMAIN s /\ t[i] = s[i + 1] /\ 1 < i + 1 /\ i \in Nat
  BY <1>1, <1>2, <1>3
<1>5. 1 \in DOMAIN s
  BY <1>1
<1>6. StopLast(s) => StopLast(t)
  <2>1. SUFFICES ASSUME StopLast(s), NEW i \in DOMAIN t, NEW j \in DOMAIN t, i < j, t[i].type = "stop"
                 PROVE  t[j].type \in Ending
    BY DEF StopLast
  <2>2. i + 1 < j + 1
    BY <1>4, <2>1
  <2>3. QED
    BY <1>4, <2>1, <2>2 DEF StopLast
<1>7. s[1].type = "stop" => Says(s, "stop") /\ (StopLast(s) => OnlyEnds(t))
  BY <1>4, <1>5 DEF StopLast, Says, OnlyEnds
<1>8. OnlyEnds(s) => s[1].type \in Ending /\ OnlyEnds(t)
  BY <1>4, <1>5 DEF OnlyEnds
<1>9. Says(t, "stop") => Says(s, "stop")
  BY <1>4 DEF Says
<1>10. Opens(s, hides) /\ s[1].type = "sig" => ~hides /\ t # <<>> /\ t[1].type = "think"
  BY <1>1, <1>2, <1>3 DEF Opens, n
<1>11. QED
  BY <1>1, <1>2, <1>6, <1>7, <1>8, <1>9, <1>10 DEF t

LEMMA PipeDropped ==
  ASSUME NEW s \in Seq(Events), NEW t \in Seq(Events), NEW ev \in Events, ev.type = "think"
  PROVE  LET whole == s \o (<<ev>> \o t)
             rest == s \o t
         IN  /\ rest \in Seq(Events)
             /\ StopLast(whole) => StopLast(rest)
             /\ OnlyEnds(whole) => OnlyEnds(rest)
             /\ Says(rest, "stop") => Says(whole, "stop")
             /\ Opens(whole, TRUE) => Opens(rest, TRUE)
<1> DEFINE whole == s \o (<<ev>> \o t)
           rest == s \o t
           m == Len(s)
           n == Len(rest)
<1>1. /\ whole \in Seq(Events) /\ rest \in Seq(Events)
      /\ m \in Nat /\ n \in Nat /\ n >= m /\ Len(whole) = n + 1 /\ whole[m + 1] = ev
      /\ \A i \in 1..n : rest[i] = IF i <= m THEN whole[i] ELSE whole[i + 1]
  BY MiddleDropped
<1>2. DOMAIN whole = 1..(n + 1) /\ DOMAIN rest = 1..n /\ (rest = <<>> <=> n = 0)
  BY <1>1, SequenceElements
<1> HIDE DEF whole, rest, m, n
<1> DEFINE at == [i \in 1..n |-> IF i <= m THEN i ELSE i + 1]
<1>3. /\ \A i \in DOMAIN rest : at[i] \in DOMAIN whole /\ rest[i] = whole[at[i]]
      /\ \A i, j \in DOMAIN rest : i < j => at[i] < at[j]
  BY <1>1, <1>2
<1> HIDE DEF at
<1>4. StopLast(whole) => StopLast(rest)
  BY <1>3 DEF StopLast
<1>5. OnlyEnds(whole) => OnlyEnds(rest)
  BY <1>3 DEF OnlyEnds
<1>6. Says(rest, "stop") => Says(whole, "stop")
  BY <1>3 DEF Says
<1>7. ASSUME Opens(whole, TRUE) PROVE Opens(rest, TRUE)
  <2>1. whole[1].type \notin {"think", "sig"} /\ whole[1].type \in {"error", "start", "text", "call"}
    BY <1>7 DEF Opens
  <2>2. m # 0
    BY <1>1, <2>1
  <2>3. n # 0 /\ rest[1] = whole[1]
    BY <1>1, <2>2
  <2>4. QED
    BY <1>2, <2>1, <2>3 DEF Opens
<1>8. QED
  BY <1>1, <1>4, <1>5, <1>6, <1>7 DEF whole, rest

-----------------------------------------------------------------------------
(***************************************************************************)
(* What a lane makes of a chunk.                                           *)
(***************************************************************************)
Chunks == [kind : Pieces, piece : Nat, call : Int, item : Int, new : BOOLEAN]

\* A chunk that may come after what was read.
Fits(c) ==
  /\ c \in Chunks
  /\ c.kind \in {"open", "args"} => c.call \in Nat
  /\ c.item \in Nat
  /\ c.kind \in {"args", "end"} => sent # <<>>
  /\ lane = "gemini" => c.kind # "args"
  /\ lane = "responses" /\ sent = <<>> => c.new

LEMMA NextChunkFits ==
  ASSUME sent \in Seq(Chunks), lane = "responses" /\ sent # <<>> => sent[1].new,
         NEW c \in NextChunks
  PROVE  Fits(c)
<1>1. Len(sent) \in Nat /\ DOMAIN sent = 1..Len(sent) /\ IsFiniteSet(1..Len(sent))
      /\ (sent = <<>> <=> Len(sent) = 0)
  BY LenProperties, EmptySeq, FS_Interval
<1>2. Calls \in Nat /\ (sent = <<>> => Calls = 0)
  <2> DEFINE opens == {i \in DOMAIN sent : sent[i].kind = "open"}
  <2>1. opens \in SUBSET (1..Len(sent)) /\ (sent = <<>> => opens = {})
    BY <1>1
  <2>2. IsFiniteSet(opens) /\ Cardinality(opens) \in Nat
    BY <1>1, <2>1, FS_Subset, FS_CardinalityType
  <2>3. sent = <<>> => Cardinality(opens) = 0
    BY <2>1, FS_EmptySet
  <2>4. QED
    BY <2>2, <2>3 DEF Calls
<1>3. Items \in Nat /\ (lane = "responses" /\ sent # <<>> => Items > 0)
  <2> DEFINE news == {i \in DOMAIN sent : sent[i].new}
  <2>1. news \in SUBSET (1..Len(sent)) /\ (lane = "responses" /\ sent # <<>> => 1 \in news)
    BY <1>1
  <2>2. IsFiniteSet(news) /\ Cardinality(news) \in Nat
    BY <1>1, <2>1, FS_Subset, FS_CardinalityType
  <2>3. news # {} => Cardinality(news) # 0
    BY <2>2, FS_EmptySet
  <2>4. QED
    BY <2>1, <2>2, <2>3 DEF Items
<1>4. Len(sent) + 1 \in Nat /\ None \in Int
  BY <1>1 DEF None
<1>5. ASSUME NEW kind \in Pieces, NEW call \in Int, NEW item \in Nat, NEW new \in BOOLEAN,
             c = Chunk(kind, call, item, new),
             kind \in {"open", "args"} => call \in Nat,
             kind \in {"args", "end"} => sent # <<>>,
             lane = "gemini" => kind # "args",
             lane = "responses" /\ sent = <<>> => new
      PROVE  Fits(c)
  <2>1. c = [kind |-> kind, piece |-> Len(sent) + 1, call |-> call, item |-> item, new |-> new]
    BY <1>5 DEF Chunk
  <2>2. c.kind = kind /\ c.call = call /\ c.item = item /\ c.new = new
    BY <2>1
  <2>3. c \in Chunks
    BY <1>4, <2>1 DEF Chunks
  <2>4. QED
    BY <1>5, <2>2, <2>3 DEF Fits
<1>6. ASSUME NEW kind \in {"text", "think"}, lane = "responses", c = Chunk(kind, None, Items, TRUE)
      PROVE  Fits(c)
  <2>1. kind \in Pieces /\ kind \notin {"open", "args", "end"}
    BY DEF Pieces
  <2>2. QED
    BY <1>3, <1>4, <1>5, <1>6, <2>1
<1>7. ASSUME NEW kind \in {"text", "think"}, lane = "responses", ContinuesItem(kind),
             c = Chunk(kind, None, Items - 1, FALSE)
      PROVE  Fits(c)
  <2>1. kind \in Pieces /\ kind \notin {"open", "args", "end"}
    BY DEF Pieces
  <2>2. sent # <<>> /\ Items - 1 \in Nat
    BY <1>3, <1>7 DEF ContinuesItem
  <2>3. QED
    BY <1>4, <1>5, <1>7, <2>1, <2>2
<1>8. ASSUME NEW kind \in {"text", "think"}, lane # "responses", c = Chunk(kind, None, 0, FALSE)
      PROVE  Fits(c)
  <2>1. kind \in Pieces /\ kind \notin {"open", "args", "end"}
    BY DEF Pieces
  <2>2. QED
    BY <1>4, <1>5, <1>8, <2>1
<1>9. ASSUME c = Chunk("open", Calls, Items, TRUE)
      PROVE  Fits(c)
  <2>1. "open" \in Pieces /\ "open" \notin {"args", "end"} /\ Calls \in Int /\ TRUE \in BOOLEAN
    BY <1>2 DEF Pieces
  <2>2. QED
    BY <1>2, <1>3, <1>5, <1>9, <2>1
<1>10. ASSUME lane # "gemini", NEW k \in 0..(Calls - 1), c = Chunk("args", k, 0, FALSE)
       PROVE  Fits(c)
  <2>1. k \in Nat /\ sent # <<>>
    BY <1>2
  <2>2. "args" \in Pieces /\ k \in Int /\ 0 \in Nat /\ FALSE \in BOOLEAN
    BY <2>1 DEF Pieces
  <2>3. QED
    BY <1>5, <1>10, <2>1, <2>2
<1>11. ASSUME sent # <<>>, c = Chunk("end", None, 0, FALSE)
       PROVE  Fits(c)
  BY <1>4, <1>5, <1>11 DEF Pieces
<1>12. QED
  BY <1>6, <1>7, <1>8, <1>9, <1>10, <1>11 DEF NextChunks

\* What becomes of a chunk that is not the end is no end; and the first of it opens the message.
LEMMA TranslatedQuiet ==
  ASSUME NEW c, Fits(c), lane \in Lanes, c.kind # "end"
  PROVE  /\ Translate(lane, c) \in Seq(Quiet)
         /\ lane = "gemini" => Opens(Translate(lane, c), FALSE)
<1>1. c.kind \in {"text", "think", "open", "args"} /\ c.piece \in Nat /\ c.item \in Nat
      /\ (c.kind \in {"open", "args"} => c.call \in Nat)
  BY DEF Fits, Chunks, Pieces
<1>2. /\ \A n \in Nat : n \in Values
      /\ "text" \in Values /\ None \in Values /\ 0 \in Nat
  BY DEF Values, None
<1>3. CASE lane \in {"hub", "codex", "chat"}
  <2>0. Translate(lane, c) = FromChunk(lane, c) /\ lane # "gemini"
    BY <1>3 DEF Translate
  <2> SUFFICES Translate(lane, c) \in Seq(Quiet)
    BY <2>0
  <2>1. CASE c.kind = "think"
    <3>1. Ev("think", 0, c.piece) \in Quiet
      BY <1>1, <1>2, QuietType DEF EventTypes
    <3>2. FromChunk(lane, c) = <<Ev("think", 0, c.piece)>>
      BY <2>1 DEF FromChunk
    <3>3. QED
      BY <2>0, <3>1, <3>2
  <2>2. CASE c.kind = "text"
    <3>1. Ev("text", 0, c.piece) \in Quiet
      BY <1>1, <1>2, QuietType DEF EventTypes
    <3>2. FromChunk(lane, c) = <<Ev("text", 0, c.piece)>>
      BY <2>2 DEF FromChunk
    <3>3. QED
      BY <2>0, <3>1, <3>2
  <2>3. CASE c.kind \in {"open", "args"}
    <3>1. /\ Ev("call", c.call, c.call) \in Quiet /\ Ev("args", c.call, c.piece) \in Quiet
          /\ Ev("callstop", c.call, None) \in Quiet
      BY <1>1, <1>2, <2>3, QuietType DEF EventTypes
    <3>2. \A b : When(b, Ev("callstop", c.call, None)) \in Seq(Quiet)
      BY <3>1 DEF When
    <3>3. /\ <<Ev("call", c.call, c.call), Ev("args", c.call, c.piece)>> \in Seq(Quiet)
          /\ <<Ev("args", c.call, c.piece)>> \in Seq(Quiet)
      BY <3>1
    <3> DEFINE end == When(lane \in {"hub", "codex"}, Ev("callstop", c.call, None))
               opening == <<Ev("call", c.call, c.call), Ev("args", c.call, c.piece)>>
               more == <<Ev("args", c.call, c.piece)>>
    <3>4. FromChunk(lane, c) \in {opening \o end, more \o end}
      BY <2>3 DEF FromChunk
    <3>5. end \in Seq(Quiet) /\ opening \in Seq(Quiet) /\ more \in Seq(Quiet)
      BY <3>2, <3>3
    <3> HIDE DEF end, opening, more
    <3>6. opening \o end \in Seq(Quiet) /\ more \o end \in Seq(Quiet)
      BY <3>5, ConcatProperties
    <3>7. QED
      BY <2>0, <3>4, <3>6
  <2>4. QED
    BY <1>1, <2>1, <2>2, <2>3
<1>4. CASE lane = "gemini"
  <2>0. Translate(lane, c) = FromGemini(c) /\ c.kind # "args"
    BY <1>4 DEF Translate, Fits
  <2>1. CASE c.kind = "think"
    <3>1. /\ Ev("sig", 0, None) \in Quiet /\ Ev("sig", 0, None).type = "sig"
          /\ Ev("think", 0, c.piece) \in Quiet /\ Ev("think", 0, c.piece).type = "think"
      BY <1>1, <1>2, QuietType DEF EventTypes
    <3>2. FromGemini(c) = <<Ev("sig", 0, None), Ev("think", 0, c.piece)>>
      BY <2>1 DEF FromGemini
    <3>3. QED
      BY <2>0, <3>1, <3>2 DEF Opens
  <2>2. CASE c.kind = "text"
    <3>1. Ev("text", 0, c.piece) \in Quiet /\ Ev("text", 0, c.piece).type = "text"
      BY <1>1, <1>2, QuietType DEF EventTypes
    <3>2. FromGemini(c) = <<Ev("text", 0, c.piece)>>
      BY <2>2 DEF FromGemini
    <3>3. QED
      BY <2>0, <3>1, <3>2 DEF Opens
  <2>3. CASE c.kind = "open"
    <3>1. /\ Ev("call", 0, c.call) \in Quiet /\ Ev("call", 0, c.call).type = "call"
          /\ Ev("args", 0, c.piece) \in Quiet /\ Ev("callstop", 0, None) \in Quiet
      BY <1>1, <1>2, <2>3, QuietType DEF EventTypes
    <3>2. FromGemini(c) = <<Ev("call", 0, c.call), Ev("args", 0, c.piece), Ev("callstop", 0, None)>>
      BY <2>3 DEF FromGemini
    <3>3. QED
      BY <2>0, <3>1, <3>2 DEF Opens
  <2>4. QED
    BY <1>1, <2>0, <2>1, <2>2, <2>3
<1>5. CASE lane = "responses"
  <2> DEFINE added == When(c.new, Ev("block", c.item, "text"))
  <2>0. Translate(lane, c) = FromResponses(c) /\ lane # "gemini"
    BY <1>5 DEF Translate
  <2> SUFFICES Translate(lane, c) \in Seq(Quiet)
    BY <2>0
  <2>1. added \in Seq(Quiet)
    <3>1. Ev("block", c.item, "text") \in Quiet
      BY <1>1, <1>2, QuietType DEF EventTypes
    <3>2. QED
      BY <3>1 DEF When
  <2>2. CASE c.kind = "think"
    <3>1. <<Ev("think", c.item, c.piece)>> \in Seq(Quiet)
      BY <1>1, <1>2, QuietType DEF EventTypes
    <3>2. FromResponses(c) = added \o <<Ev("think", c.item, c.piece)>>
      BY <2>2 DEF FromResponses
    <3>3. QED
      BY <2>0, <2>1, <3>1, <3>2, ConcatProperties
  <2>3. CASE c.kind = "text"
    <3>1. <<Ev("text", c.item, c.piece)>> \in Seq(Quiet)
      BY <1>1, <1>2, QuietType DEF EventTypes
    <3>2. FromResponses(c) = added \o <<Ev("text", c.item, c.piece)>>
      BY <2>3 DEF FromResponses
    <3>3. QED
      BY <2>0, <2>1, <3>1, <3>2, ConcatProperties
  <2>4. CASE c.kind \in {"open", "args"}
    <3>1. Ev("call", c.call, c.call) \in Quiet /\ Ev("args", c.call, c.piece) \in Quiet
      BY <1>1, <1>2, <2>4, QuietType DEF EventTypes
    <3>2. FromResponses(c) \in {<<Ev("call", c.call, c.call), Ev("args", c.call, c.piece)>>,
                                <<Ev("args", c.call, c.piece)>>}
      BY <2>4 DEF FromResponses
    <3>3. /\ <<Ev("call", c.call, c.call), Ev("args", c.call, c.piece)>> \in Seq(Quiet)
          /\ <<Ev("args", c.call, c.piece)>> \in Seq(Quiet)
      BY <3>1
    <3>4. QED
      BY <2>0, <3>2, <3>3
  <2>5. QED
    BY <1>1, <2>2, <2>3, <2>4
<1>6. QED
  BY <1>3, <1>4, <1>5 DEF Lanes

\* What is added to the pipe when a chunk is read.
Made(c) == (IF sent = <<>> THEN Opening(lane) ELSE <<>>) \o Translate(lane, c)

LEMMA MadeGood ==
  ASSUME NEW c, Fits(c), lane \in Lanes, NEW hides, hides => lane = "hub"
  PROVE  /\ Made(c) \in Seq(Events) /\ StopLast(Made(c))
         /\ Says(Made(c), "stop") => c.kind = "end"
         /\ c.kind = "end" => OnlyEnds(Made(c))
         /\ sent = <<>> => Opens(Made(c), hides)
<1>1. CASE c.kind = "end"
  <2>1. sent # <<>> /\ Translate(lane, c) = <<Ev("usage", 0, None), Ev("stop", 0, None)>>
    BY <1>1 DEF Fits, Translate, FromChunk, FromGemini, FromResponses, Lanes
  <2>2. /\ Ev("usage", 0, None) \in Events /\ Ev("usage", 0, None).type = "usage"
        /\ Ev("stop", 0, None) \in Events /\ Ev("stop", 0, None).type = "stop"
    <3>1. None \in Values /\ 0 \in Nat
      BY DEF None, Values
    <3>2. QED
      BY <3>1, EvType DEF EventTypes
  <2>3. Translate(lane, c) \in Seq(Events)
    BY <2>1, <2>2
  <2>4. Made(c) = Translate(lane, c)
    BY <2>1, <2>3, ConcatEmptySeq DEF Made
  <2>5. StopLast(Translate(lane, c)) /\ OnlyEnds(Translate(lane, c))
    <3>1. \A i \in DOMAIN Translate(lane, c) : Translate(lane, c)[i].type \in {"usage", "stop"}
      BY <2>1, <2>2
    <3>2. QED
      BY <3>1 DEF StopLast, OnlyEnds, Ending
  <2>6. QED
    BY <1>1, <2>1, <2>3, <2>4, <2>5
<1>2. CASE c.kind # "end"
  <2>1. Translate(lane, c) \in Seq(Quiet) /\ (lane = "gemini" => Opens(Translate(lane, c), FALSE))
    BY <1>2, TranslatedQuiet
  <2> DEFINE t == Translate(lane, c)
             start == <<Ev("start", 0, None)>>
  <2>2. Ev("start", 0, None) \in Quiet /\ Ev("start", 0, None).type = "start"
    BY QuietType, ValueTypes DEF EventTypes
  <2>3. \/ Made(c) = t /\ (sent = <<>> => lane = "gemini")
        \/ Made(c) = start \o t
    <3>1. <<>> \o t = t
      BY <2>1, ConcatEmptySeq
    <3>2. QED
      BY <3>1 DEF Made, Opening, When
  <2> HIDE DEF t
  <2>4. start \in Seq(Quiet) /\ Len(start) = 1 /\ start[1].type = "start"
    BY <2>2
  <2>5. CASE Made(c) = t /\ (sent = <<>> => lane = "gemini")
    <3>1. sent = <<>> => Opens(Made(c), hides)
      BY <2>1, <2>5 DEF Opens, t
    <3>2. QED
      BY <1>2, <2>1, <2>5, <3>1, QuietEvents DEF t
  <2>6. CASE Made(c) = start \o t
    <3>1. start \o t \in Seq(Quiet) /\ Len(start \o t) = 1 + Len(t) /\ Len(t) \in Nat
          /\ (start \o t)[1] = start[1]
      <4>1. /\ start \o t \in Seq(Quiet) /\ Len(start \o t) = Len(start) + Len(t)
            /\ \A i \in 1 .. Len(start) + Len(t) :
                 (start \o t)[i] = IF i <= Len(start) THEN start[i] ELSE t[i - Len(start)]
        BY <2>1, <2>4, ConcatProperties DEF t
      <4>2. Len(t) \in Nat
        BY <2>1, LenProperties DEF t
      <4>3. QED
        BY <2>4, <4>1, <4>2
    <3>2. start \o t # <<>>
      BY <3>1, EmptySeq
    <3>3. Opens(Made(c), hides)
      BY <2>4, <2>6, <3>1, <3>2 DEF Opens
    <3>4. QED
      BY <1>2, <2>6, <3>1, <3>3, QuietEvents
  <2>7. QED
    BY <2>3, <2>5, <2>6
<1>3. QED
  BY <1>1, <1>2

-----------------------------------------------------------------------------
(***************************************************************************)
(* The inductive invariant: the types; what is on its way to dispatch; and *)
(* what the encoder's state says of the frames.                            *)
(***************************************************************************)
UpstreamTypes ==
  /\ lane \in Lanes /\ client \in Clients /\ filtered \in BOOLEAN
  /\ filtered => lane = "hub"

SentTypes ==
  /\ sent \in Seq(Chunks)
  /\ Len(sent) <= MaxChunks + 1
  /\ lane = "responses" /\ sent # <<>> => sent[1].new

ProducerTypes ==
  producer \in [pc : {"reading", "last", "done"}, pending : Seq(Events), failed : BOOLEAN]

ChannelTypes ==
  /\ queue \in Seq(Events) /\ Len(queue) <= Cap
  /\ passed \in Seq(Events) /\ Len(passed) <= Cap
  /\ ~filtered => passed = <<>>

FilterTypes ==
  /\ filter \in [pc : {"off", "taking", "putting", "done", "quit"}, held : Events \cup {None}]
  /\ (filter.pc = "off") = ~filtered
  /\ filter.pc = "putting" => filter.held \in Events

HandlerTypes ==
  /\ timedOut \in BOOLEAN /\ gone \in BOOLEAN /\ stalled \in BOOLEAN /\ failing \in BOOLEAN
  /\ handler \in {"first", "loop", "left", "broke", "returned"}

StreamTypes ==
  UpstreamTypes /\ SentTypes /\ ProducerTypes /\ ChannelTypes /\ FilterTypes /\ HandlerTypes

PipeInv ==
  /\ Overrun \/ StopLast(Pipe)
  /\ Says(Pipe, "stop") => Ended
  /\ handler = "first" => (Pipe = <<>> /\ sent = <<>>) \/ Opens(Pipe, filtered)
  /\ handler = "loop" /\ ~gone =>
       \/ enc.started
       \/ ~filtered /\ client = "openai" /\ Pipe # <<>> /\ Pipe[1].type = "think"
  /\ handler = "loop" /\ ~gone /\ enc.stopped => Ended /\ (Overrun \/ OnlyEnds(Pipe))

Good(e, fr) == IF client = "openai" THEN OpenAIGood(e, fr) ELSE AnthropicGood(e, fr)

ShownInv ==
  /\ handler = "first" => enc = IF client = "openai" THEN NewOpenAI ELSE NewAnthropic
  /\ handler \in {"first", "left"} => frames = <<>>
  /\ failing => gone
  /\ handler \in {"first", "loop"} /\ ~gone => Good(enc, frames)
  /\ Shown(frames, Over /\ ~gone)
  /\ Overrun \/ Sealed(frames)

IInv == StreamTypes /\ PipeInv /\ ShownInv

-----------------------------------------------------------------------------
(***************************************************************************)
(* The steps of the lane's goroutine, and of the filter's.                 *)
(***************************************************************************)
LEMMA PipeType ==
  ASSUME StreamTypes
  PROVE  /\ producer.pending \in Seq(Events) /\ queue \o producer.pending \in Seq(Events)
         /\ Held \in Seq(Events) /\ Held \o (queue \o producer.pending) \in Seq(Events)
         /\ passed \in Seq(Events) /\ queue \in Seq(Events)
         /\ Pipe \in Seq(Events)
<1>1. producer.pending \in Seq(Events) /\ queue \in Seq(Events) /\ passed \in Seq(Events)
  BY DEF StreamTypes, ProducerTypes, ChannelTypes
<1>2. Held \in Seq(Events)
  <2>1. CASE filter.pc = "putting"
    <3>1. filter.held \in Events
      BY <2>1 DEF StreamTypes, FilterTypes
    <3>2. QED
      BY <2>1, <3>1 DEF Held
  <2>2. CASE filter.pc # "putting"
    BY <2>2, EmptySeq DEF Held
  <2>3. QED
    BY <2>1, <2>2
<1>3. queue \o producer.pending \in Seq(Events)
  BY <1>1, ConcatProperties
<1>4. Held \o (queue \o producer.pending) \in Seq(Events)
  BY <1>2, <1>3, ConcatProperties
<1>5. Pipe \in Seq(Events)
  BY <1>1, <1>4, ConcatProperties DEF Pipe
<1>6. QED
  BY <1>1, <1>2, <1>3, <1>4, <1>5

LEMMA PipeSame ==
  ASSUME PipeInv, Pipe' = Pipe, gone' \in {gone, TRUE}, UNCHANGED <<upstreamVars, sent, handlerVars>>
  PROVE  PipeInv'
BY DEF PipeInv, Ended, Overrun, upstreamVars, handlerVars

LEMMA PipeGrows ==
  ASSUME StreamTypes, PipeInv, NEW t \in Seq(Events), StopLast(t), Pipe' = Pipe \o t,
         Overrun => Overrun', Ended => Ended', Ended => Overrun' \/ OnlyEnds(t),
         Says(t, "stop") => Ended',
         sent = <<>> => Opens(t, filtered),
         UNCHANGED <<upstreamVars, gone, handlerVars>>
  PROVE  PipeInv'
<1>1. /\ Pipe \in Seq(Events) /\ (Overrun' \/ StopLast(Pipe))
      /\ Says(Pipe, "stop") => Ended /\ (Overrun' \/ OnlyEnds(t))
  BY PipeType DEF PipeInv
<1>2. /\ Overrun' \/ StopLast(Pipe \o t)
      /\ OnlyEnds(Pipe) /\ OnlyEnds(t) => OnlyEnds(Pipe \o t)
      /\ Says(Pipe \o t, "stop") => Says(Pipe, "stop") \/ Says(t, "stop")
      /\ Opens(Pipe, filtered) => Opens(Pipe \o t, filtered)
      /\ Pipe # <<>> => Pipe \o t # <<>> /\ (Pipe \o t)[1] = Pipe[1]
  BY <1>1, PipeAppended
<1>3. Pipe = <<>> => Pipe \o t = t
  BY ConcatEmptySeq
<1>4. handler' = "first" => Opens(Pipe', filtered')
  BY <1>2, <1>3 DEF PipeInv, upstreamVars, handlerVars
<1>5. handler' = "loop" /\ ~gone' =>
        \/ enc'.started
        \/ ~filtered' /\ client' = "openai" /\ Pipe' # <<>> /\ Pipe'[1].type = "think"
  BY <1>2 DEF PipeInv, upstreamVars, handlerVars
<1>6. handler' = "loop" /\ ~gone' /\ enc'.stopped => Ended' /\ (Overrun' \/ OnlyEnds(Pipe'))
  BY <1>2 DEF PipeInv, upstreamVars, handlerVars
<1>7. (Overrun' \/ StopLast(Pipe')) /\ (Says(Pipe', "stop") => Ended')
  BY <1>1, <1>2
<1>8. QED
  BY <1>4, <1>5, <1>6, <1>7 DEF PipeInv

\* What is added at the end of what is sent last is added at the end of all.
LEMMA QueueExtended ==
  ASSUME StreamTypes, NEW t \in Seq(Events)
  PROVE  passed \o (Held \o (queue \o t)) = (passed \o (Held \o queue)) \o t
<1>1. queue \in Seq(Events) /\ passed \in Seq(Events) /\ Held \in Seq(Events)
  BY PipeType
<1>2. Held \o queue \in Seq(Events)
  BY <1>1, ConcatProperties
<1>3. Joins(Held, queue, t) /\ Joins(passed, Held \o queue, t)
  BY <1>1, <1>2, Joined
<1>4. QED
  BY <1>3 DEF Joins

LEMMA PendingAdded ==
  ASSUME StreamTypes, producer.pending = <<>>, UNCHANGED <<passed, filter, queue>>,
         NEW t \in Seq(Events), producer'.pending = t
  PROVE  Pipe' = Pipe \o t
<1>1. queue \in Seq(Events) /\ passed \in Seq(Events) /\ Held \in Seq(Events)
  BY PipeType
<1>2. queue \o <<>> = queue
  BY <1>1, ConcatEmptySeq
<1>3. Pipe = passed \o (Held \o queue) /\ Pipe' = passed \o (Held \o (queue \o t))
  BY <1>2 DEF Pipe, Held
<1>4. passed \o (Held \o (queue \o t)) = (passed \o (Held \o queue)) \o t
  BY QueueExtended
<1>5. QED
  BY <1>3, <1>4

LEMMA LaneReadKeeps ==
  ASSUME StreamTypes, PipeInv, NEW c \in NextChunks, LaneRead(c)
  PROVE  StreamTypes' /\ PipeInv' /\ (Overrun => Overrun')
<1>1. /\ sent \in Seq(Chunks) /\ Fits(c) /\ c \in Chunks
  <2>1. sent \in Seq(Chunks) /\ (lane = "responses" /\ sent # <<>> => sent[1].new)
    BY DEF StreamTypes, SentTypes
  <2>2. QED
    BY <2>1, NextChunkFits DEF Fits
<1>2. /\ Made(c) \in Seq(Events) /\ StopLast(Made(c))
      /\ Says(Made(c), "stop") => c.kind = "end"
      /\ c.kind = "end" => OnlyEnds(Made(c))
      /\ sent = <<>> => Opens(Made(c), filtered)
  BY <1>1, MadeGood DEF StreamTypes, UpstreamTypes
<1>3. /\ producer.pc = "reading" /\ producer.pending = <<>>
      /\ sent' = Append(sent, c) /\ (Len(sent) < MaxChunks \/ Len(sent) = MaxChunks)
      /\ producer' = [producer EXCEPT !.pending = Made(c)]
      /\ UNCHANGED <<upstreamVars, filterVars, ctxVars, handlerVars, queue>>
  BY DEF LaneRead, Reading, LaneOnly, Made
<1>4. /\ sent' \in Seq(Chunks) /\ Len(sent') = Len(sent) + 1 /\ Len(sent) \in Nat
      /\ DOMAIN sent = 1..Len(sent) /\ DOMAIN sent' = 1 .. Len(sent) + 1
      /\ \A i \in 1..Len(sent) : sent'[i] = sent[i]
      /\ sent'[Len(sent) + 1] = c
      /\ sent' # <<>> /\ (sent # <<>> => sent'[1] = sent[1])
      /\ sent = <<>> => sent'[1] = c
  <2>1. /\ sent' \in Seq(Chunks) /\ Len(sent') = Len(sent) + 1 /\ Len(sent) \in Nat
        /\ \A i \in 1..Len(sent) : sent'[i] = sent[i]
        /\ sent'[Len(sent) + 1] = c
    BY <1>1, <1>3, AppendProperties, LenProperties
  <2>2. sent' # <<>> /\ (sent = <<>> <=> Len(sent) = 0)
    BY <1>1, <2>1, EmptySeq
  <2>3. DOMAIN sent = 1..Len(sent) /\ DOMAIN sent' = 1 .. Len(sent) + 1
    BY <1>1, <2>1, LenProperties
  <2>4. QED
    BY <2>1, <2>2, <2>3
<1>5. /\ c.kind = "end" => Ended'
      /\ Ended => Ended' /\ (Overrun' \/ c.kind = "end")
      /\ Overrun => Overrun'
  <2>1. \A i \in DOMAIN sent : i \in DOMAIN sent' /\ sent'[i] = sent[i] /\ i < Len(sent) + 1
    BY <1>4
  <2>2. Len(sent) + 1 \in DOMAIN sent'
    BY <1>4
  <2>3. QED
    BY <1>4, <2>1, <2>2 DEF Ended, Overrun
<1>6. Pipe' = Pipe \o Made(c)
  <2>1. producer'.pending = Made(c)
    BY <1>3 DEF StreamTypes, ProducerTypes
  <2>2. QED
    BY <1>2, <1>3, <2>1, PendingAdded DEF filterVars
<1>7. PipeInv'
  <2> DEFINE t == Made(c)
  <2>1. t \in Seq(Events) /\ StopLast(t) /\ Pipe' = Pipe \o t /\ (Says(t, "stop") => Ended')
        /\ (Overrun => Overrun') /\ (Ended => Ended') /\ (Ended => Overrun' \/ OnlyEnds(t))
        /\ (sent = <<>> => Opens(t, filtered)) /\ UNCHANGED <<upstreamVars, gone, handlerVars>>
    BY <1>2, <1>3, <1>5, <1>6 DEF ctxVars
  <2> HIDE DEF t
  <2>2. QED
    BY <2>1, PipeGrows
<1>8. StreamTypes'
  <2>1. SentTypes'
    <3>1. Len(sent') <= MaxChunks + 1
      BY <1>3, <1>4, StreamAssumption
    <3>2. lane' = "responses" /\ sent' # <<>> => sent'[1].new
      BY <1>1, <1>3, <1>4 DEF StreamTypes, SentTypes, Fits, upstreamVars
    <3>3. QED
      BY <1>4, <3>1, <3>2 DEF SentTypes
  <2>2. ProducerTypes'
    BY <1>2, <1>3 DEF StreamTypes, ProducerTypes
  <2>3. UpstreamTypes' /\ ChannelTypes' /\ FilterTypes' /\ HandlerTypes'
    BY <1>3 DEF StreamTypes, UpstreamTypes, ChannelTypes, FilterTypes, HandlerTypes,
                upstreamVars, filterVars, ctxVars, handlerVars
  <2>4. QED
    BY <2>1, <2>2, <2>3 DEF StreamTypes
<1>9. QED
  BY <1>5, <1>7, <1>8

\* The lane's steps that report an error.
LEMMA LaneErrorKeeps ==
  ASSUME StreamTypes, PipeInv, LaneErrorChunk \/ LaneReadError
  PROVE  StreamTypes' /\ PipeInv'
<1> DEFINE t == <<Ev("error", 0, None)>>
<1>1. /\ producer.pending = <<>> /\ ProducerTypes' /\ producer'.pending = t
      /\ UNCHANGED <<upstreamVars, sent, queue, filterVars, ctxVars, handlerVars>>
  <2>1. Ev("error", 0, None) \in Events
    <3>1. "error" \in EventTypes /\ 0 \in Nat /\ None \in Values
      BY DEF EventTypes, Values, None
    <3>2. QED
      BY <3>1, EvType
  <2>2. t \in Seq(Events)
    BY <2>1
  <2> HIDE DEF t
  <2>3. CASE LaneErrorChunk
    <3>1. producer' = [producer EXCEPT !.pending = t, !.failed = TRUE]
      BY <2>3 DEF LaneErrorChunk, t
    <3>2. QED
      BY <2>2, <2>3, <3>1 DEF LaneErrorChunk, Reading, LaneOnly, StreamTypes, ProducerTypes
  <2>4. CASE LaneReadError
    <3>1. producer' = [producer EXCEPT !.pc = "last", !.pending = t]
      BY <2>4 DEF LaneReadError, t
    <3>2. QED
      BY <2>2, <2>4, <3>1 DEF LaneReadError, Reading, LaneOnly, StreamTypes, ProducerTypes
  <2>5. QED
    BY <2>3, <2>4
<1>2. Ev("error", 0, None) \in Events /\ Ev("error", 0, None).type = "error"
  <2>1. "error" \in EventTypes /\ 0 \in Nat /\ None \in Values
    BY DEF EventTypes, Values, None
  <2>2. QED
    BY <2>1, EvType
<1>3. /\ t \in Seq(Events) /\ StopLast(t) /\ OnlyEnds(t) /\ ~Says(t, "stop")
      /\ Opens(t, filtered)
  <2>1. t \in Seq(Events) /\ DOMAIN t = {1} /\ t[1].type = "error" /\ t # <<>>
    BY <1>2
  <2> HIDE DEF t
  <2>2. QED
    BY <2>1 DEF StopLast, OnlyEnds, Ending, Says, Opens
<1> HIDE DEF t
<1>4. Pipe' = Pipe \o t
  BY <1>1, <1>3, PendingAdded DEF filterVars
<1>5. PipeInv'
  <2>1. (Ended' <=> Ended) /\ (Overrun' <=> Overrun) /\ gone' = gone
    BY <1>1 DEF Ended, Overrun, ctxVars
  <2>2. QED
    BY <1>1, <1>3, <1>4, <2>1, PipeGrows
<1>6. UpstreamTypes' /\ SentTypes' /\ ChannelTypes' /\ FilterTypes' /\ HandlerTypes'
  BY <1>1 DEF StreamTypes, UpstreamTypes, SentTypes, ChannelTypes, FilterTypes, HandlerTypes,
              Ended, upstreamVars, filterVars, ctxVars, handlerVars
<1>7. QED
  BY <1>1, <1>5, <1>6 DEF StreamTypes

\* The lane's steps that change nothing on the way: the body's end, and sending.
LEMMA LanePipe ==
  ASSUME StreamTypes, LaneEOF \/ BridgeQuits \/ LaneSend \/ LaneClose
  PROVE  /\ ProducerTypes' /\ queue' \in Seq(Events) /\ Len(queue') <= Cap
         /\ queue' \o producer'.pending = queue \o producer.pending
<1>1. CASE LaneEOF \/ BridgeQuits \/ LaneClose
  <2>1. \E pc \in {"last", "done"} : producer' = [producer EXCEPT !.pc = pc]
    BY <1>1 DEF LaneEOF, BridgeQuits, LaneClose
  <2>2. producer'.pending = producer.pending /\ ProducerTypes'
    BY <2>1 DEF StreamTypes, ProducerTypes
  <2>3. queue' = queue
    BY <1>1 DEF LaneEOF, BridgeQuits, LaneClose
  <2>4. QED
    BY <2>2, <2>3 DEF StreamTypes, ChannelTypes
<1>2. CASE LaneSend
  <2> DEFINE p == producer.pending
  <2>1. /\ p # <<>> /\ Len(queue) < Cap /\ queue' = Append(queue, Head(p))
        /\ producer' = [producer EXCEPT !.pending = Tail(p)]
        /\ p \in Seq(Events) /\ queue \in Seq(Events)
    BY <1>2 DEF LaneSend, StreamTypes, ProducerTypes, ChannelTypes
  <2> HIDE DEF p
  <2>2. /\ Append(queue, Head(p)) \in Seq(Events) /\ Tail(p) \in Seq(Events)
        /\ Len(Append(queue, Head(p))) = Len(queue) + 1
        /\ Append(queue, Head(p)) \o Tail(p) = queue \o p
    BY <2>1, HeadMoves
  <2>3. Len(queue) \in Nat
    BY <2>1, LenProperties
  <2>4. ProducerTypes' /\ producer'.pending = Tail(p)
    BY <2>1, <2>2 DEF StreamTypes, ProducerTypes
  <2>5. Len(queue') <= Cap
    BY <2>1, <2>2, <2>3, StreamAssumption
  <2>6. QED
    BY <2>1, <2>2, <2>4, <2>5 DEF p
<1>3. QED
  BY <1>1, <1>2

LEMMA LaneMovesKeeps ==
  ASSUME StreamTypes, PipeInv, LaneEOF \/ BridgeQuits \/ LaneSend \/ LaneClose
  PROVE  StreamTypes' /\ PipeInv'
<1>1. UNCHANGED <<upstreamVars, sent, filterVars, ctxVars, handlerVars>>
  BY DEF LaneEOF, BridgeQuits, LaneSend, LaneClose, LaneOnly
<1>2. /\ ProducerTypes' /\ queue' \in Seq(Events) /\ Len(queue') <= Cap
      /\ queue' \o producer'.pending = queue \o producer.pending
  BY LanePipe
<1>3. PipeInv'
  <2>1. Pipe' = Pipe
    BY <1>1, <1>2 DEF Pipe, Held, filterVars
  <2>2. QED
    BY <1>1, <2>1, PipeSame DEF ctxVars
<1>4. UpstreamTypes' /\ SentTypes' /\ ChannelTypes' /\ FilterTypes' /\ HandlerTypes'
  BY <1>1, <1>2 DEF StreamTypes, UpstreamTypes, SentTypes, ChannelTypes, FilterTypes, HandlerTypes,
                    Ended, upstreamVars, filterVars, ctxVars, handlerVars
<1>5. QED
  BY <1>2, <1>3, <1>4 DEF StreamTypes

\* The filter takes the first event of the lane's channel, and keeps it unless it is a thought.
LEMMA FilterTakes ==
  ASSUME StreamTypes, FilterTake
  PROVE  LET h == Head(queue)
             rest == Tail(queue) \o producer.pending
         IN  /\ h \in Events /\ rest \in Seq(Events) /\ filtered = TRUE
             /\ Tail(queue) \in Seq(Events) /\ Len(Tail(queue)) = Len(queue) - 1 /\ Len(queue) \in Nat
             /\ Pipe = passed \o (<<h>> \o rest) /\ Pipe' = passed \o (Held' \o rest)
             /\ h.type = "think" => Pipe' = passed \o rest
             /\ h.type # "think" => Pipe' = Pipe
<1> DEFINE h == Head(queue)
           rest == Tail(queue) \o producer.pending
<1>1. /\ filter.pc = "taking" /\ queue # <<>> /\ queue' = Tail(queue)
      /\ filter' = IF h.type = "think" THEN filter ELSE [pc |-> "putting", held |-> h]
      /\ UNCHANGED <<producer, passed>>
  BY DEF FilterTake, FilterOnly
<1>2. /\ queue \in Seq(Events) /\ passed \in Seq(Events) /\ producer.pending \in Seq(Events)
      /\ queue \o producer.pending \in Seq(Events)
  BY PipeType
<1>3. /\ h \in Events /\ Tail(queue) \in Seq(Events) /\ queue = <<h>> \o Tail(queue)
      /\ Len(Tail(queue)) = Len(queue) - 1 /\ Len(queue) \in Nat
  BY <1>1, <1>2, HeadTailProperties, LenProperties
<1>4. /\ rest \in Seq(Events)
      /\ queue \o producer.pending = <<h>> \o rest
  <2>1. <<h>> \in Seq(Events)
    BY <1>3
  <2>2. (<<h>> \o Tail(queue)) \o producer.pending = <<h>> \o (Tail(queue) \o producer.pending)
    <3>1. Joins(<<h>>, Tail(queue), producer.pending)
      BY <1>2, <1>3, <2>1, Joined
    <3>2. QED
      BY <3>1 DEF Joins
  <2>3. rest \in Seq(Events)
    BY <1>2, <1>3, ConcatProperties
  <2>4. QED
    BY <1>3, <2>2, <2>3
<1>5. filtered = TRUE
  BY <1>1 DEF StreamTypes, FilterTypes, UpstreamTypes
<1>6. Held = <<>> /\ Pipe = passed \o (<<h>> \o rest)
  <2>1. Held = <<>>
    BY <1>1 DEF Held
  <2>2. <<>> \o (queue \o producer.pending) = queue \o producer.pending
    BY <1>2, ConcatEmptySeq
  <2>3. QED
    BY <1>4, <2>1, <2>2 DEF Pipe
<1>7. Pipe' = passed \o (Held' \o rest)
  BY <1>1 DEF Pipe
<1> HIDE DEF h, rest
<1>8. ASSUME h.type = "think" PROVE Pipe' = passed \o rest
  <2>1. Held' = <<>> /\ <<>> \o rest = rest
    BY <1>1, <1>4, <1>8, ConcatEmptySeq DEF Held
  <2>2. QED
    BY <1>7, <2>1
<1>9. ASSUME h.type # "think" PROVE Pipe' = Pipe
  <2>1. Held' = <<h>>
    BY <1>1, <1>9 DEF Held
  <2>2. QED
    BY <1>6, <1>7, <2>1
<1>10. QED
  BY <1>3, <1>4, <1>5, <1>6, <1>7, <1>8, <1>9 DEF h, rest

LEMMA FilterTakeKeeps ==
  ASSUME StreamTypes, PipeInv, FilterTake
  PROVE  StreamTypes' /\ PipeInv'
<1> DEFINE h == Head(queue)
           rest == Tail(queue) \o producer.pending
<1>1. /\ filter.pc = "taking" /\ queue # <<>> /\ queue' = Tail(queue)
      /\ filter' = IF h.type = "think" THEN filter ELSE [pc |-> "putting", held |-> h]
      /\ UNCHANGED <<upstreamVars, sent, producer, ctxVars, handlerVars, passed>>
  BY DEF FilterTake, FilterOnly
<1>2. passed \in Seq(Events)
  BY PipeType
<1>3. /\ h \in Events /\ rest \in Seq(Events) /\ filtered = TRUE
      /\ Tail(queue) \in Seq(Events) /\ Len(Tail(queue)) = Len(queue) - 1 /\ Len(queue) \in Nat
      /\ Pipe = passed \o (<<h>> \o rest)
      /\ h.type = "think" => Pipe' = passed \o rest
      /\ h.type # "think" => Pipe' = Pipe
  BY FilterTakes
<1>4. UpstreamTypes' /\ SentTypes' /\ ProducerTypes' /\ HandlerTypes'
  BY <1>1 DEF StreamTypes, UpstreamTypes, SentTypes, ProducerTypes, HandlerTypes,
              Ended, upstreamVars, ctxVars, handlerVars
<1>5. ChannelTypes'
  BY <1>1, <1>3, StreamAssumption DEF StreamTypes, ChannelTypes, upstreamVars
<1>6. FilterTypes'
  BY <1>1, <1>3 DEF StreamTypes, FilterTypes, upstreamVars
<1>7. PipeInv'
  <2> HIDE DEF h, rest
  <2>1. CASE h.type = "think"
    <3>1. Pipe' = passed \o rest
      BY <1>3, <2>1
    <3>2. /\ StopLast(Pipe) => StopLast(Pipe')
          /\ OnlyEnds(Pipe) => OnlyEnds(Pipe')
          /\ Says(Pipe', "stop") => Says(Pipe, "stop")
          /\ Opens(Pipe, TRUE) => Opens(Pipe', TRUE)
      BY <1>2, <1>3, <2>1, <3>1, PipeDropped
    <3>3. Pipe # <<>>
      <4>1. passed \o (<<h>> \o rest) \in Seq(Events) /\ passed \o (<<h>> \o rest) # <<>>
        <5>1. /\ Len(passed \o (<<h>> \o rest)) = Len(passed \o rest) + 1 /\ Len(passed \o rest) \in Nat
              /\ passed \o (<<h>> \o rest) \in Seq(Events)
          BY <1>2, <1>3, MiddleDropped
        <5>2. QED
          BY <5>1, EmptySeq
      <4>2. QED
        BY <1>3, <4>1
    <3>4. handler' = "first" => Opens(Pipe', filtered')
      BY <1>1, <1>3, <3>2, <3>3 DEF PipeInv, upstreamVars, handlerVars
    <3>5. handler' = "loop" /\ ~gone' => enc'.started
      BY <1>1, <1>3 DEF PipeInv, ctxVars, handlerVars
    <3>6. handler' = "loop" /\ ~gone' /\ enc'.stopped => Ended' /\ (Overrun' \/ OnlyEnds(Pipe'))
      BY <1>1, <3>2 DEF PipeInv, ctxVars, handlerVars, Ended, Overrun
    <3>7. (Overrun' \/ StopLast(Pipe')) /\ (Says(Pipe', "stop") => Ended')
      BY <1>1, <3>2 DEF PipeInv, Ended, Overrun
    <3>8. QED
      BY <3>4, <3>5, <3>6, <3>7 DEF PipeInv
  <2>2. CASE h.type # "think"
    <3>1. Pipe' = Pipe
      BY <1>3, <2>2
    <3>2. QED
      BY <1>1, <3>1, PipeSame DEF ctxVars
  <2>3. QED
    BY <2>1, <2>2
<1>8. QED
  BY <1>4, <1>5, <1>6, <1>7 DEF StreamTypes

\* The filter's steps that change nothing on the way: its send, and its ends.
LEMMA FilterPipe ==
  ASSUME StreamTypes, FilterPut \/ FilterEnd \/ FilterQuit
  PROVE  FilterTypes' /\ passed' \in Seq(Events) /\ Len(passed') <= Cap /\ filtered = TRUE /\ Pipe' = Pipe
<1> DEFINE rest == queue \o producer.pending
<1>1. UNCHANGED <<upstreamVars, sent, producer, queue, ctxVars, handlerVars>>
  BY DEF FilterPut, FilterEnd, FilterQuit, FilterOnly
<1>2. rest \in Seq(Events) /\ passed \in Seq(Events)
  BY PipeType
<1>3. /\ FilterTypes' /\ passed' \in Seq(Events) /\ Len(passed') <= Cap /\ filtered = TRUE
      /\ passed' \o (Held' \o rest) = passed \o (Held \o rest)
  <2>1. CASE FilterPut
    <3> DEFINE x == filter.held
    <3>1. /\ filter.pc = "putting" /\ Len(passed) < Cap
          /\ passed' = Append(passed, x) /\ filter' = [pc |-> "taking", held |-> None]
      BY <2>1 DEF FilterPut
    <3>2. x \in Events /\ filtered = TRUE
      BY <3>1 DEF StreamTypes, FilterTypes, UpstreamTypes
    <3>3. FilterTypes'
      BY <1>1, <3>1, <3>2 DEF FilterTypes, upstreamVars
    <3>4. Held = <<x>> /\ Held' = <<>>
      BY <3>1 DEF Held
    <3> HIDE DEF x, rest
    <3>5. /\ Append(passed, x) = passed \o <<x>> /\ Append(passed, x) \in Seq(Events)
          /\ Len(Append(passed, x)) = Len(passed) + 1 /\ Len(passed) \in Nat
          /\ <<x>> \in Seq(Events)
      BY <1>2, <3>2, AppendIsConcat, AppendProperties, LenProperties
    <3>6. /\ (passed \o <<x>>) \o rest = passed \o (<<x>> \o rest)
          /\ <<>> \o rest = rest
      <4>1. Joins(passed, <<x>>, rest)
        BY <1>2, <3>5, Joined
      <4>2. <<>> \o rest = rest
        BY <1>2, ConcatEmptySeq
      <4>3. QED
        BY <4>1, <4>2 DEF Joins
    <3>7. Len(passed') <= Cap
      BY <3>1, <3>5, StreamAssumption
    <3>8. QED
      BY <3>1, <3>2, <3>3, <3>4, <3>5, <3>6, <3>7
  <2>2. CASE FilterEnd \/ FilterQuit
    <3>1. filter.pc = "taking" /\ passed' = passed
      BY <2>2 DEF FilterEnd, FilterQuit
    <3>2. \E pc \in {"done", "quit"} : filter' = [filter EXCEPT !.pc = pc]
      BY <2>2 DEF FilterEnd, FilterQuit
    <3>3. FilterTypes' /\ filter'.pc \in {"done", "quit"} /\ filtered = TRUE
      BY <1>1, <3>1, <3>2 DEF StreamTypes, UpstreamTypes, FilterTypes, upstreamVars
    <3>4. Held = <<>> /\ Held' = <<>>
      BY <3>1, <3>3 DEF Held
    <3>5. Len(passed) <= Cap
      BY DEF StreamTypes, ChannelTypes
    <3>6. QED
      BY <1>2, <3>1, <3>3, <3>4, <3>5
  <2>3. QED
    BY <2>1, <2>2
<1>4. Pipe' = Pipe
  BY <1>1, <1>3 DEF Pipe
<1>5. QED
  BY <1>3, <1>4

LEMMA FilterMovesKeeps ==
  ASSUME StreamTypes, PipeInv, FilterPut \/ FilterEnd \/ FilterQuit
  PROVE  StreamTypes' /\ PipeInv'
<1>1. UNCHANGED <<upstreamVars, sent, producer, queue, ctxVars, handlerVars>>
  BY DEF FilterPut, FilterEnd, FilterQuit, FilterOnly
<1>2. FilterTypes' /\ passed' \in Seq(Events) /\ Len(passed') <= Cap /\ filtered = TRUE /\ Pipe' = Pipe
  BY FilterPipe
<1>3. PipeInv'
  BY <1>1, <1>2, PipeSame DEF ctxVars
<1>4. UpstreamTypes' /\ SentTypes' /\ ProducerTypes' /\ ChannelTypes' /\ HandlerTypes'
  BY <1>1, <1>2 DEF StreamTypes, UpstreamTypes, SentTypes, ProducerTypes, ChannelTypes, HandlerTypes,
                    Ended, upstreamVars, ctxVars, handlerVars
<1>5. QED
  BY <1>2, <1>3, <1>4 DEF StreamTypes

\* What these steps leave alone, and a hang-up, keep what is said of the frames.
LEMMA ShownSame ==
  ASSUME StreamTypes, ShownInv, UNCHANGED <<upstreamVars, handlerVars>>, gone' \in {gone, TRUE},
         Overrun => Overrun'
  PROVE  ShownInv'
<1>1. UNCHANGED <<lane, client, filtered, handler, failing, enc, frames>>
  BY DEF upstreamVars, handlerVars
<1>0. (Overrun \/ Sealed(frames))'
  BY <1>1 DEF ShownInv, Sealed, TheEnd, Late
<1>2. CASE gone' = gone
  BY <1>0, <1>1, <1>2 DEF ShownInv, Shown, Good, Over
<1>3. CASE gone' = TRUE
  <2>1. Shown(frames, FALSE)
    BY DEF ShownInv, Shown
  <2>2. Shown(frames, Over /\ ~gone)'
    BY <1>1, <1>3, <2>1 DEF Shown
  <2>3. QED
    BY <1>0, <1>1, <1>3, <2>2 DEF ShownInv
<1>4. QED
  BY <1>2, <1>3

-----------------------------------------------------------------------------
(***************************************************************************)
(* The steps of dispatch.                                                  *)
(***************************************************************************)

\* Dispatch receives the first of what is on its way.
LEMMA Receives ==
  ASSUME StreamTypes, Receive, HandlerOnly
  PROVE  /\ Pipe \in Seq(Events) /\ Pipe # <<>> /\ Head(Incoming) = Pipe[1] /\ Pipe' = Tail(Pipe)
         /\ ChannelTypes'
         /\ UpstreamTypes' /\ SentTypes' /\ ProducerTypes' /\ FilterTypes'
         /\ UNCHANGED <<lane, client, filtered, sent, timedOut, gone, stalled>>
         /\ (Ended' <=> Ended) /\ (Overrun' <=> Overrun)
<1>1. UNCHANGED <<lane, client, filtered, sent, producer, filter, timedOut, gone, stalled>>
  BY DEF HandlerOnly, upstreamVars, ctxVars
<1>2. /\ passed \in Seq(Events) /\ queue \in Seq(Events) /\ producer.pending \in Seq(Events)
      /\ Held \o (queue \o producer.pending) \in Seq(Events) /\ queue \o producer.pending \in Seq(Events)
      /\ Pipe \in Seq(Events)
  BY PipeType
<1>3. UpstreamTypes' /\ SentTypes' /\ ProducerTypes' /\ FilterTypes'
      /\ (Ended' <=> Ended) /\ (Overrun' <=> Overrun)
  BY <1>1 DEF StreamTypes, UpstreamTypes, SentTypes, ProducerTypes, FilterTypes, Ended, Overrun
<1>4. CASE filtered
  <2> DEFINE t == Held \o (queue \o producer.pending)
  <2>1. Incoming = passed /\ passed # <<>> /\ passed' = Tail(passed) /\ queue' = queue
    BY <1>4 DEF Receive, Incoming
  <2>2. Pipe = passed \o t /\ Pipe' = Tail(passed) \o t
    BY <1>1, <2>1 DEF Pipe, Held
  <2> HIDE DEF t
  <2>3. t \in Seq(Events)
    BY <1>2 DEF t
  <2>4. /\ Head(passed) = (passed \o t)[1] /\ Tail(passed) \in Seq(Events)
        /\ Len(Tail(passed)) = Len(passed) - 1 /\ passed \o t # <<>>
        /\ Tail(passed) \o t = Tail(passed \o t) /\ Len(passed) \in Nat
    BY <1>2, <2>1, <2>3, HeadTaken, LenProperties
  <2>5. ChannelTypes'
    BY <1>1, <1>4, <2>1, <2>4, StreamAssumption DEF StreamTypes, ChannelTypes
  <2>6. QED
    BY <1>1, <1>2, <1>3, <2>1, <2>2, <2>4, <2>5
<1>5. CASE ~filtered
  <2> DEFINE t == producer.pending
  <2>1. Incoming = queue /\ queue # <<>> /\ queue' = Tail(queue) /\ passed' = passed
    BY <1>5 DEF Receive, Incoming
  <2>2. passed = <<>> /\ Held = <<>> /\ Held' = <<>>
    <3>1. filter.pc = "off" /\ filter'.pc = "off"
      BY <1>1, <1>5 DEF StreamTypes, FilterTypes
    <3>2. QED
      BY <1>5, <3>1 DEF StreamTypes, ChannelTypes, Held
  <2>3. t \in Seq(Events)
    BY <1>2
  <2>4. Pipe = passed \o (Held \o (queue \o t)) /\ Pipe' = passed \o (Held \o (Tail(queue) \o t))
    BY <1>1, <2>1, <2>2 DEF Pipe
  <2> HIDE DEF t
  <2>5. /\ Head(queue) = (queue \o t)[1] /\ Tail(queue) \in Seq(Events)
        /\ Len(Tail(queue)) = Len(queue) - 1 /\ queue \o t # <<>>
        /\ Tail(queue) \o t = Tail(queue \o t) /\ Len(queue) \in Nat
    BY <1>2, <2>1, <2>3, HeadTaken, LenProperties
  <2>6. /\ <<>> \o (<<>> \o (queue \o t)) = queue \o t
        /\ <<>> \o (<<>> \o (Tail(queue) \o t)) = Tail(queue) \o t
    <3>1. queue \o t \in Seq(Events) /\ Tail(queue) \o t \in Seq(Events)
      BY <1>2, <2>3, <2>5, ConcatProperties
    <3>2. QED
      BY <3>1, ConcatEmptySeq
  <2>7. Pipe = queue \o t /\ Pipe' = Tail(queue) \o t
    BY <2>2, <2>4, <2>6
  <2>8. ChannelTypes'
    BY <1>1, <1>5, <2>1, <2>5, StreamAssumption DEF StreamTypes, ChannelTypes
  <2>9. QED
    BY <1>1, <1>2, <1>3, <2>1, <2>5, <2>7, <2>8
<1>6. QED
  BY <1>4, <1>5

LEMMA Encodes ==
  ASSUME client \in Clients, NEW e, NEW fr, NEW ev \in Events, Good(e, fr),
         ev.type # "error", e.started \/ ev.type \in {"start", "text", "think", "call", "sig"}
  PROVE  LET p == Encoded(e, ev)
         IN  /\ Good(p.e, fr \o p.frames) /\ p.frames \in Seq(FrameSet)
             /\ p.e.stopped => e.stopped \/ (ev.type = "stop" /\ LastIs(p.frames, TheEnd))
             /\ e.stopped /\ ev.type \in Ending => p.frames = <<>>
             /\ client = "openai" => (e.started \/ ev.type # "sig" => p.e.started)
             /\ client # "openai" => p.e.started
<1>0. ASSUME e.stopped, ev.type \in Ending PROVE Encoded(e, ev).frames = <<>>
  BY <1>0 DEF Encoded, OpenAIEvent, AnthropicEvent, Ending, Out
<1>1. CASE client = "openai"
  <2>1. OpenAIGood(e, fr) /\ Encoded(e, ev) = OpenAIEvent(e, ev) /\ TheEnd = "finish"
    BY <1>1 DEF Good, Encoded, TheEnd
  <2>2. LET p == OpenAIEvent(e, ev)
        IN  /\ OpenAIOut(p, fr)
            /\ p.e.stopped => e.stopped \/ (ev.type = "stop" /\ LastIs(p.frames, "finish"))
            /\ e.started \/ ev.type # "sig" => p.e.started
    BY <2>1, OpenAIEventGood
  <2>3. QED
    BY <1>0, <1>1, <2>1, <2>2 DEF Good, OpenAIOut
<1>2. CASE client # "openai"
  <2>1. AnthropicGood(e, fr) /\ Encoded(e, ev) = AnthropicEvent(e, ev) /\ TheEnd = "message_stop"
    BY <1>2 DEF Good, Encoded, TheEnd
  <2>2. LET p == AnthropicEvent(e, ev)
        IN  /\ GoodOut(p, fr) /\ p.e.started
            /\ p.e.stopped => e.stopped \/ (ev.type = "stop" /\ LastIs(p.frames, "message_stop"))
    BY <2>1, AnthropicEventGood
  <2>3. QED
    BY <1>0, <1>2, <2>1, <2>2 DEF Good, GoodOut
<1>3. QED
  BY <1>1, <1>2

LEMMA GoodShown ==
  ASSUME NEW e, NEW fr, Good(e, fr)
  PROVE  Shown(fr, FALSE) /\ fr \in Seq(FrameSet)
BY OpenAIShown, AnthropicShown DEF Good, Shown, OpenAIGood, AnthropicGood

\* The encoder is stopped just when the message's end was written, once.
LEMMA GoodEnd ==
  ASSUME NEW e, NEW fr, Good(e, fr)
  PROVE  IF e.stopped THEN \E k : EndsAt(fr, k, TheEnd) ELSE \A i \in DOMAIN fr : fr[i].f # TheEnd
<1>1. CASE client = "openai"
  BY <1>1 DEF Good, OpenAIGood, RoleGood, TheEnd
<1>2. CASE client # "openai"
  BY <1>2 DEF Good, AnthropicGood, EndsGood, TheEnd
<1>3. QED
  BY <1>1, <1>2

\* An error's frame leaves the encoder as it is.
LEMMA ErrorEncoded ==
  ASSUME client \in Clients, NEW e, NEW fr, NEW ev \in Events, ev.type = "error", Good(e, fr), e.started
  PROVE  LET p == Encoded(e, ev)
         IN  /\ p.e = e /\ p.frames \in Seq(FrameSet) /\ Good(e, fr \o p.frames)
             /\ Sealed(fr) => Sealed(fr \o p.frames)
<1>1. Encoded(e, ev) = Out(e, <<Plain("error")>>)
  BY DEF Encoded, OpenAIEvent, AnthropicEvent
<1>2. Plain("error") \in FrameSet /\ Plain("error").f = "error"
  BY PlainType DEF FrameTypes
<1>3. Good(e, fr \o <<Plain("error")>>)
  BY OpenAIErrorGood, AnthropicErrorGood DEF Good
<1> DEFINE t == <<Plain("error")>>
<1>4. t \in Seq(FrameSet) /\ \A i \in DOMAIN t : t[i].f = "error"
  BY <1>2
<1>5. Sealed(fr) => Sealed(fr \o t)
  <2> HIDE DEF t
  <2>1. fr \in Seq(FrameSet) /\ "error" \in Late
    BY GoodShown DEF Late
  <2>2. QED
    BY <1>4, <2>1, SealedKeeps
<1>6. QED
  BY <1>1, <1>3, <1>4, <1>5 DEF Out

LEMMA Finishes ==
  ASSUME client \in Clients, NEW e, NEW fr, Good(e, fr), client # "openai" => e.started
  PROVE  /\ Finished(e).frames \in Seq(FrameSet) /\ Shown(fr \o Finished(e).frames, TRUE)
         /\ Sealed(fr) => Sealed(fr \o Finished(e).frames)
<1>0. fr \in Seq(FrameSet)
  BY GoodShown
<1>1. CASE client = "openai"
  <2>1. OpenAIGood(e, fr) /\ Finished(e) = OpenAIClose(e, TRUE) /\ {"usage", "[DONE]"} \subseteq Late
    BY <1>1 DEF Good, Finished, Late
  <2>2. LET p == OpenAIClose(e, TRUE)
        IN  /\ p.frames \in Seq(FrameSet)
            /\ \A i \in DOMAIN p.frames : p.frames[i].f \in {"usage", "[DONE]"}
            /\ OpenAIShape(fr \o p.frames) /\ Ends(fr \o p.frames, "[DONE]")
    BY <2>1, OpenAICloseShown
  <2>3. LET p == OpenAIClose(e, TRUE)
        IN  p.frames \in Seq(FrameSet) /\ \A i \in DOMAIN p.frames : p.frames[i].f \in Late
    BY <2>1, <2>2
  <2>4. Sealed(fr) => Sealed(fr \o OpenAIClose(e, TRUE).frames)
    BY <1>0, <2>3, SealedKeeps
  <2>5. QED
    BY <1>1, <2>1, <2>2, <2>4 DEF Shown
<1>2. CASE client # "openai"
  <2> DEFINE p == AnthropicClose(e)
  <2>1. AnthropicGood(e, fr) /\ Finished(e) = p /\ TheEnd = "message_stop"
    BY <1>2 DEF Good, Finished, TheEnd
  <2>2. /\ GoodOut(p, fr) /\ p.e.stopped
        /\ IF e.stopped THEN p.frames = <<>> ELSE LastIs(p.frames, "message_stop")
    BY <1>2, <2>1, AnthropicCloseGood
  <2> HIDE DEF p
  <2>3. p.frames \in Seq(FrameSet) /\ AnthropicGood(p.e, fr \o p.frames)
    BY <2>2 DEF GoodOut
  <2>4. AnthropicShape(fr \o p.frames) /\ Ends(fr \o p.frames, "message_stop")
    BY <2>2, <2>3, AnthropicShown
  <2>5. Sealed(fr) => Sealed(fr \o p.frames)
    <3>1. CASE e.stopped
      BY <1>0, <2>2, <3>1, ConcatEmptySeq
    <3>2. CASE ~e.stopped
      <4>1. Good(p.e, fr \o p.frames)
        BY <1>2, <2>3 DEF Good
      <4>2. PICK k : EndsAt(fr \o p.frames, k, TheEnd)
        BY <2>2, <4>1, GoodEnd
      <4>3. QED
        BY <1>0, <2>1, <2>2, <2>3, <3>2, <4>2, SealedByEnd
    <3>3. QED
      BY <3>1, <3>2
  <2>6. QED
    BY <1>2, <2>1, <2>3, <2>4, <2>5 DEF Shown
<1>3. QED
  BY <1>1, <1>2

LEMMA ShownMeanwhile ==
  ASSUME NEW fr, NEW over, Shown(fr, over)
  PROVE  Shown(fr, FALSE)
BY DEF Shown

\* An event that is not an error, received before and after the headers are committed.
LEMMA EventKeeps ==
  ASSUME IInv, Receive, HandlerOnly, Head(Incoming).type # "error",
         handler \in {"first", "loop"}, handler' = "loop",
         failing' \in BOOLEAN, failing' => gone,
         gone => frames' = frames,
         ~gone => Write(Encoded(enc, Head(Incoming)))
  PROVE  IInv'
<1> DEFINE ev == Head(Incoming)
           out == Encoded(enc, ev)
<1>1. /\ Pipe \in Seq(Events) /\ Pipe # <<>> /\ ev = Pipe[1] /\ Pipe' = Tail(Pipe)
      /\ ChannelTypes' /\ UpstreamTypes' /\ SentTypes' /\ ProducerTypes' /\ FilterTypes'
      /\ UNCHANGED <<lane, client, filtered, sent, timedOut, gone, stalled>>
      /\ (Ended' <=> Ended) /\ (Overrun' <=> Overrun)
  BY Receives DEF IInv
<1>2. StreamTypes'
  <2>1. HandlerTypes'
    BY <1>1 DEF IInv, StreamTypes, HandlerTypes
  <2>2. QED
    BY <1>1, <2>1 DEF StreamTypes
<1>3. (Overrun \/ StopLast(Pipe)) /\ (Says(Pipe, "stop") => Ended)
  BY DEF IInv, PipeInv
<1>4. /\ Pipe[1] \in Events /\ (StopLast(Pipe) => StopLast(Tail(Pipe)))
      /\ Pipe[1].type = "stop" => Says(Pipe, "stop") /\ (StopLast(Pipe) => OnlyEnds(Tail(Pipe)))
      /\ OnlyEnds(Pipe) => Pipe[1].type \in Ending /\ OnlyEnds(Tail(Pipe))
      /\ Says(Tail(Pipe), "stop") => Says(Pipe, "stop")
      /\ Opens(Pipe, filtered) /\ Pipe[1].type = "sig" =>
           ~filtered /\ Tail(Pipe) # <<>> /\ Tail(Pipe)[1].type = "think"
  BY <1>1, PipeTail
<1>5. (Overrun' \/ StopLast(Pipe')) /\ (Says(Pipe', "stop") => Ended')
  BY <1>1, <1>3, <1>4
<1>6. client \in Clients
  BY DEF IInv, StreamTypes, UpstreamTypes
<1> HIDE DEF ev, out
<1>7. CASE gone
  <2>1. PipeInv'
    BY <1>1, <1>5, <1>7 DEF PipeInv
  <2>2. Shown(frames, FALSE)
    BY ShownMeanwhile DEF IInv, ShownInv
  <2>3. Shown(frames, Over /\ ~gone)'
    BY <1>1, <1>7, <2>2 DEF Shown
  <2>4. ShownInv'
    <3>1. (Overrun \/ Sealed(frames))'
      BY <1>1, <1>7 DEF IInv, ShownInv, Sealed, TheEnd, Late
    <3>2. QED
      BY <1>1, <1>7, <2>3, <3>1 DEF ShownInv
  <2>5. QED
    BY <1>2, <2>1, <2>4 DEF IInv
<1>8. CASE ~gone
  <2>1. enc' = out.e /\ frames' = frames \o out.frames
    BY <1>8 DEF Write, ev, out
  <2>2. Good(enc, frames)
    BY <1>8 DEF IInv, ShownInv
  <2>3. ev \in Events /\ ev.type # "error" /\ ev = Pipe[1]
    BY <1>1, <1>4 DEF ev
  <2>4. /\ enc.stopped => Ended /\ (Overrun \/ OnlyEnds(Pipe))
        /\ enc.started \/ ev.type \in {"start", "text", "think", "call", "sig"}
        /\ ev.type = "sig" /\ ~enc.started => Opens(Pipe, filtered)
    <3>1. CASE handler = "first"
      <4>1. ~enc.stopped /\ Opens(Pipe, filtered)
        BY <1>1, <3>1 DEF IInv, ShownInv, PipeInv, NewOpenAI, NewAnthropic
      <4>2. QED
        BY <2>3, <4>1 DEF Opens
    <3>2. CASE handler = "loop"
      <4>1. enc.stopped => Ended /\ (Overrun \/ OnlyEnds(Pipe))
        BY <1>8, <3>2 DEF IInv, PipeInv
      <4>2. enc.started \/ Pipe[1].type = "think"
        BY <1>8, <3>2 DEF IInv, PipeInv
      <4>3. QED
        BY <2>3, <4>1, <4>2
    <3>3. QED
      BY <3>1, <3>2
  <2>5. /\ Good(out.e, frames \o out.frames) /\ out.frames \in Seq(FrameSet)
        /\ out.e.stopped => enc.stopped \/ (ev.type = "stop" /\ LastIs(out.frames, TheEnd))
        /\ enc.stopped /\ ev.type \in Ending => out.frames = <<>>
        /\ client = "openai" => (enc.started \/ ev.type # "sig" => out.e.started)
        /\ client # "openai" => out.e.started
    BY <1>6, <2>2, <2>3, <2>4, Encodes DEF out
  <2>6. PipeInv'
    <3>1. enc'.stopped => Ended' /\ (Overrun' \/ OnlyEnds(Pipe'))
      BY <1>1, <1>3, <1>4, <2>1, <2>3, <2>4, <2>5
    <3>2. \/ enc'.started
          \/ ~filtered' /\ client' = "openai" /\ Pipe' # <<>> /\ Pipe'[1].type = "think"
      BY <1>1, <1>4, <2>1, <2>3, <2>4, <2>5
    <3>3. QED
      BY <1>5, <3>1, <3>2 DEF PipeInv
  <2>7. ShownInv'
    <3>1. Good(enc', frames')
      BY <2>1, <2>5
    <3>2. Good(enc, frames)'
      BY <1>1, <3>1 DEF Good
    <3>3. Shown(frames', FALSE)
      BY <3>1, GoodShown
    <3>4. Shown(frames, Over /\ ~gone)'
      BY <1>1, <3>3 DEF Shown, Over
    <3>5. Overrun \/ Sealed(frames')
      <4>1. frames \in Seq(FrameSet)
        BY <2>2, GoodShown
      <4>2. CASE ~out.e.stopped
        BY <2>1, <2>5, <4>2, GoodEnd, Unsealed
      <4>3. CASE ~enc.stopped /\ out.e.stopped
        <5>1. PICK k : EndsAt(frames \o out.frames, k, TheEnd)
          BY <2>5, <4>3, GoodEnd
        <5>2. QED
          BY <2>1, <2>5, <4>1, <4>3, <5>1, SealedByEnd
      <4>4. CASE enc.stopped /\ ~Overrun
        <5>1. frames' = frames
          BY <1>4, <2>1, <2>3, <2>4, <2>5, <4>1, <4>4, ConcatEmptySeq
        <5>2. QED
          BY <4>4, <5>1 DEF IInv, ShownInv
      <4>5. QED
        BY <4>2, <4>3, <4>4
    <3>6. (Overrun \/ Sealed(frames))'
      BY <1>1, <3>5 DEF Sealed, TheEnd, Late
    <3>7. QED
      BY <1>1, <1>8, <3>2, <3>4, <3>6 DEF ShownInv
  <2>8. QED
    BY <1>2, <2>6, <2>7 DEF IInv
<1>9. QED
  BY <1>7, <1>8

\* The steps with which dispatch stops reading.
LEMMA OverKeeps ==
  ASSUME IInv, UpstreamTypes', SentTypes', ProducerTypes', ChannelTypes', FilterTypes',
         UNCHANGED <<lane, client, filtered, sent, timedOut, gone, stalled, failing>>,
         Overrun \/ StopLast(Pipe'), Overrun \/ Sealed(frames'), Says(Pipe', "stop") => Says(Pipe, "stop"),
         handler' \in {"left", "broke", "returned"}, handler' = "left" => frames' = <<>>,
         Shown(frames', ~gone)
  PROVE  IInv'
<1>1. StreamTypes'
  BY DEF IInv, StreamTypes, HandlerTypes
<1>2. PipeInv'
  BY DEF IInv, PipeInv, Ended, Overrun
<1>3. ShownInv'
  <2>1. Shown(frames, Over /\ ~gone)'
    BY DEF Shown
  <2>2. (Overrun \/ Sealed(frames))'
    BY DEF Overrun, Sealed, TheEnd, Late
  <2>3. QED
    BY <2>1, <2>2 DEF IInv, ShownInv
<1>4. QED
  BY <1>1, <1>2, <1>3 DEF IInv

LEMMA NextErrorKeeps ==
  ASSUME IInv, NextError
  PROVE  IInv'
<1> DEFINE ev == Head(Incoming)
           error == Encoded(enc, ev)
           end == Finished(error.e)
<1>1. /\ handler = "loop" /\ Receive /\ ev.type = "error" /\ handler' = "broke"
      /\ Write([e |-> end.e, frames |-> error.frames \o end.frames])
      /\ HandlerOnly /\ failing' = failing
  BY DEF NextError
<1>2. /\ Pipe \in Seq(Events) /\ Pipe # <<>> /\ ev = Pipe[1] /\ Pipe' = Tail(Pipe)
      /\ ChannelTypes' /\ UpstreamTypes' /\ SentTypes' /\ ProducerTypes' /\ FilterTypes'
      /\ UNCHANGED <<lane, client, filtered, sent, timedOut, gone, stalled>>
  BY <1>1, Receives DEF IInv
<1>3. (Overrun \/ StopLast(Pipe')) /\ (Says(Pipe', "stop") => Says(Pipe, "stop")) /\ ev \in Events
  <2>1. Overrun \/ StopLast(Pipe)
    BY DEF IInv, PipeInv
  <2>2. QED
    BY <1>2, <2>1, PipeTail
<1>4. client \in Clients
  BY DEF IInv, StreamTypes, UpstreamTypes
<1>5. frames' = IF gone THEN frames ELSE frames \o (error.frames \o end.frames)
  BY <1>1 DEF Write
<1> HIDE DEF ev, error, end
<1>6. Shown(frames', ~gone) /\ (Overrun \/ Sealed(frames'))
  <2>0. Overrun \/ Sealed(frames)
    BY DEF IInv, ShownInv
  <2>1. CASE gone
    <3>1. Shown(frames, FALSE)
      BY ShownMeanwhile DEF IInv, ShownInv
    <3>2. QED
      BY <1>5, <2>0, <2>1, <3>1 DEF Shown
  <2>2. CASE ~gone
    <3>1. Good(enc, frames) /\ enc.started
      BY <1>1, <1>2, <2>2 DEF IInv, ShownInv, PipeInv
    <3>2. /\ error.e = enc /\ error.frames \in Seq(FrameSet) /\ Good(enc, frames \o error.frames)
          /\ Sealed(frames) => Sealed(frames \o error.frames)
      BY <1>1, <1>3, <1>4, <3>1, ErrorEncoded DEF error
    <3> DEFINE fr == frames \o error.frames
    <3>3. /\ end.frames \in Seq(FrameSet) /\ Shown(fr \o end.frames, TRUE)
          /\ Sealed(fr) => Sealed(fr \o end.frames)
      <4>1. Good(enc, fr)
        BY <3>2
      <4> HIDE DEF fr
      <4>2. /\ Finished(enc).frames \in Seq(FrameSet) /\ Shown(fr \o Finished(enc).frames, TRUE)
            /\ Sealed(fr) => Sealed(fr \o Finished(enc).frames)
        BY <1>4, <3>1, <4>1, Finishes
      <4>3. QED
        BY <3>2, <4>2 DEF end
    <3>4. frames \in Seq(FrameSet)
      BY <3>1, GoodShown
    <3>5. frames \o (error.frames \o end.frames) = fr \o end.frames
      <4>1. Joins(frames, error.frames, end.frames)
        BY <3>2, <3>3, <3>4, Joined
      <4>2. QED
        BY <4>1 DEF Joins
    <3>6. QED
      BY <1>5, <2>0, <2>2, <3>2, <3>3, <3>5 DEF Shown
  <2>3. QED
    BY <2>1, <2>2
<1>7. QED
  BY <1>1, <1>2, <1>3, <1>6, OverKeeps

\* Dispatch finds the channel closed, or the client gone before the first event.
LEMMA ClosedKeeps ==
  ASSUME IInv, FirstClosed \/ ClientLeftFirst \/ NextClosed
  PROVE  IInv'
<1>1. UNCHANGED <<lane, client, filtered, sent, producer, filter, timedOut, gone, stalled, queue, passed, failing>>
  BY DEF FirstClosed, ClientLeftFirst, NextClosed, HandlerOnly, upstreamVars, ctxVars
<1>2. UpstreamTypes' /\ SentTypes' /\ ProducerTypes' /\ ChannelTypes' /\ FilterTypes'
  BY <1>1 DEF IInv, StreamTypes, UpstreamTypes, SentTypes, ProducerTypes, ChannelTypes, FilterTypes, Ended
<1>3. Pipe' = Pipe /\ (Overrun \/ StopLast(Pipe)) /\ (Overrun \/ Sealed(frames)) /\ Sealed(<<>>)
  BY <1>1, EmptySeq DEF Pipe, Held, IInv, PipeInv, ShownInv, Sealed
<1>4. client \in Clients
  BY DEF IInv, StreamTypes, UpstreamTypes
<1>5. CASE FirstClosed
  <2>1. handler' = "left" /\ frames' = <<>>
    BY <1>5 DEF FirstClosed, IInv, ShownInv
  <2>2. Shown(frames', ~gone)
    BY <2>1, NothingShown DEF Shown
  <2>3. QED
    BY <1>1, <1>2, <1>3, <2>1, <2>2, OverKeeps
<1>6. CASE ClientLeftFirst
  <2>1. handler' = "broke" /\ gone /\ frames' = <<>>
    BY <1>6 DEF ClientLeftFirst, IInv, ShownInv
  <2>2. Shown(frames', ~gone)
    BY <2>1, NothingShown DEF Shown
  <2>3. QED
    BY <1>1, <1>2, <1>3, <2>1, <2>2, OverKeeps
<1>7. CASE NextClosed
  <2>1. /\ handler = "loop" /\ handler' = "returned"
        /\ frames' = IF gone THEN frames ELSE frames \o Finished(enc).frames
    BY <1>7 DEF NextClosed, Write
  <2>2. Shown(frames', ~gone) /\ (Overrun \/ Sealed(frames'))
    <3>1. CASE gone
      <4>1. Shown(frames, FALSE)
        BY ShownMeanwhile DEF IInv, ShownInv
      <4>2. QED
        BY <1>3, <2>1, <3>1, <4>1 DEF Shown
    <3>2. CASE ~gone
      <4>1. Good(enc, frames) /\ (client # "openai" => enc.started)
        BY <2>1, <3>2 DEF IInv, ShownInv, PipeInv
      <4>2. /\ Shown(frames \o Finished(enc).frames, TRUE)
            /\ Sealed(frames) => Sealed(frames \o Finished(enc).frames)
        BY <1>4, <4>1, Finishes
      <4>3. QED
        BY <1>3, <2>1, <3>2, <4>2 DEF Shown
    <3>3. QED
      BY <3>1, <3>2
  <2>3. QED
    BY <1>1, <1>2, <1>3, <2>1, <2>2, OverKeeps
<1>8. QED
  BY <1>5, <1>6, <1>7

LEMMA FirstErrorKeeps ==
  ASSUME IInv, handler = "first", Receive, HandlerOnly, handler' = "left",
         UNCHANGED <<failing, enc, frames>>
  PROVE  IInv'
<1>1. /\ Pipe \in Seq(Events) /\ Pipe # <<>> /\ Pipe' = Tail(Pipe)
      /\ ChannelTypes' /\ UpstreamTypes' /\ SentTypes' /\ ProducerTypes' /\ FilterTypes'
      /\ UNCHANGED <<lane, client, filtered, sent, timedOut, gone, stalled>>
  BY Receives DEF IInv
<1>2. (Overrun \/ StopLast(Pipe')) /\ (Says(Pipe', "stop") => Says(Pipe, "stop"))
  <2>1. Overrun \/ StopLast(Pipe)
    BY DEF IInv, PipeInv
  <2>2. QED
    BY <1>1, <2>1, PipeTail
<1>3. frames' = <<>>
  BY DEF IInv, ShownInv
<1>4. Shown(frames', ~gone) /\ Sealed(frames')
  BY <1>3, NothingShown, EmptySeq DEF Shown, Sealed
<1>5. QED
  BY <1>1, <1>2, <1>3, <1>4, OverKeeps

-----------------------------------------------------------------------------
(***************************************************************************)
(* The theorems.                                                           *)
(***************************************************************************)
LEMMA InitInv ==
  ASSUME Init
  PROVE  IInv
<1>1. /\ lane \in Lanes /\ client \in Clients /\ filtered \in BOOLEAN /\ (filtered => lane = "hub")
      /\ sent = <<>> /\ queue = <<>> /\ passed = <<>>
      /\ producer = [pc |-> "reading", pending |-> <<>>, failed |-> FALSE]
      /\ filter = [pc |-> IF filtered THEN "taking" ELSE "off", held |-> None]
      /\ timedOut = FALSE /\ gone = FALSE /\ stalled = FALSE
      /\ handler = "first" /\ failing = FALSE
      /\ enc = IF client = "openai" THEN NewOpenAI ELSE NewAnthropic
      /\ frames = <<>>
  BY DEF Init
<1>2. StreamTypes
  <2>1. UpstreamTypes /\ HandlerTypes /\ FilterTypes
    BY <1>1 DEF UpstreamTypes, HandlerTypes, FilterTypes
  <2>2. ProducerTypes
    BY <1>1, EmptySeq DEF ProducerTypes
  <2>3. SentTypes /\ ChannelTypes
    <3>1. <<>> \in Seq(Chunks) /\ <<>> \in Seq(Events) /\ Len(<<>>) = 0
      BY EmptySeq
    <3>2. QED
      BY <1>1, <3>1, StreamAssumption DEF SentTypes, ChannelTypes
  <2>4. QED
    BY <2>1, <2>2, <2>3 DEF StreamTypes
<1>3. PipeInv
  <2>1. <<>> \o (<<>> \o (<<>> \o <<>>)) = <<>>
    OBVIOUS
  <2>2. Pipe = <<>>
    BY <1>1, <2>1 DEF Pipe, Held
  <2>3. StopLast(Pipe) /\ ~Says(Pipe, "stop")
    BY <2>2 DEF StopLast, Says
  <2>4. QED
    BY <1>1, <2>2, <2>3 DEF PipeInv
<1>4. ShownInv
  <2>1. Good(enc, <<>>)
    <3>1. <<>> \in Seq(FrameSet) /\ DOMAIN <<>> = {}
      BY EmptySeq
    <3>2. OpenAIGood(NewOpenAI, <<>>)
      BY <3>1 DEF OpenAIGood, OpenAIEncoders, NewOpenAI, RoleGood
    <3>3. AnthropicGood(NewAnthropic, <<>>)
      <4>1. NewAnthropic \in AnthropicEncoders
        BY DEF NewAnthropic, AnthropicEncoders
      <4>2. EndsGood(NewAnthropic, <<>>)
        BY <3>1 DEF NewAnthropic, EndsGood
      <4>3. \A ix \in Int :
              Count(<<>>, "block_stop", ix, Len(<<>>)) <= Count(<<>>, "block_start", ix, Len(<<>>))
        BY CountNone
      <4>4. BlocksGood(NewAnthropic, <<>>)
        BY <3>1, <4>3 DEF NewAnthropic, BlocksGood
      <4>5. QED
        BY <3>1, <4>1, <4>2, <4>4 DEF AnthropicGood
    <3>4. QED
      BY <1>1, <3>2, <3>3 DEF Good
  <2>2. Shown(<<>>, FALSE)
    BY NothingShown DEF Shown
  <2>3. Sealed(<<>>)
    BY EmptySeq DEF Sealed
  <2>4. QED
    BY <1>1, <2>1, <2>2, <2>3 DEF ShownInv, Over
<1>5. QED
  BY <1>2, <1>3, <1>4 DEF IInv

LEMMA NextInv ==
  ASSUME IInv, [Next]_vars
  PROVE  IInv'
<1> USE DEF IInv
<1>1. CASE Lane
  <2>1. StreamTypes' /\ PipeInv' /\ (Overrun => Overrun')
    <3>1. CASE \E c \in NextChunks : LaneRead(c)
      BY <3>1, LaneReadKeeps
    <3>2. CASE LaneErrorChunk \/ LaneEOF \/ LaneReadError \/ BridgeQuits \/ LaneSend \/ LaneClose
      <4>1. sent' = sent
        BY <3>2 DEF LaneErrorChunk, LaneEOF, LaneReadError, BridgeQuits, LaneSend, LaneClose
      <4>2. QED
        BY <3>2, <4>1, LaneErrorKeeps, LaneMovesKeeps DEF Overrun
    <3>3. QED
      BY <1>1, <3>1, <3>2 DEF Lane
  <2>2. UNCHANGED <<upstreamVars, handlerVars, gone>>
    BY <1>1 DEF Lane, LaneRead, LaneErrorChunk, LaneEOF, LaneReadError, BridgeQuits, LaneSend,
                LaneClose, LaneOnly, ctxVars
  <2>3. ShownInv'
    BY <2>1, <2>2, ShownSame
  <2>4. QED
    BY <2>1, <2>3
<1>2. CASE Filter
  <2>1. StreamTypes' /\ PipeInv'
    BY <1>2, FilterTakeKeeps, FilterMovesKeeps DEF Filter
  <2>2. UNCHANGED <<upstreamVars, handlerVars, gone, sent>>
    BY <1>2 DEF Filter, FilterTake, FilterPut, FilterEnd, FilterQuit, FilterOnly, ctxVars
  <2>3. ShownInv'
    BY <2>2, ShownSame DEF Overrun
  <2>4. QED
    BY <2>1, <2>3
<1>3. CASE FirstEvent
  <2>1. CASE Head(Incoming).type = "error"
    <3>1. /\ handler = "first" /\ Receive /\ HandlerOnly /\ handler' = "left"
          /\ UNCHANGED <<failing, enc, frames>>
      BY <1>3, <2>1 DEF FirstEvent
    <3>2. QED
      BY <3>1, FirstErrorKeeps
  <2>2. CASE Head(Incoming).type # "error"
    <3>1. /\ handler = "first" /\ Receive /\ HandlerOnly /\ handler' = "loop" /\ failing' = gone
          /\ Write(Encoded(enc, Head(Incoming)))
      BY <1>3, <2>2 DEF FirstEvent
    <3>2. gone \in BOOLEAN
      BY DEF StreamTypes, HandlerTypes
    <3>3. gone => frames' = frames
      BY <3>1 DEF Write
    <3>4. QED
      BY <2>2, <3>1, <3>2, <3>3, EventKeeps
  <2>3. QED
    BY <2>1, <2>2
<1>4. CASE FirstClosed \/ ClientLeftFirst \/ NextClosed
  BY <1>4, ClosedKeeps
<1>5. CASE NextEvent
  <2>1. /\ handler = "loop" /\ Receive /\ HandlerOnly /\ handler' = "loop"
        /\ Head(Incoming).type # "error" /\ failing' = (failing \/ gone)
        /\ IF failing' THEN UNCHANGED <<enc, frames>> ELSE Write(Encoded(enc, Head(Incoming)))
    BY <1>5 DEF NextEvent
  <2>2. gone \in BOOLEAN /\ failing \in BOOLEAN /\ (failing => gone)
    BY DEF StreamTypes, HandlerTypes, ShownInv
  <2>3. failing' = gone
    BY <2>1, <2>2
  <2>4. /\ gone => frames' = frames
        /\ ~gone => Write(Encoded(enc, Head(Incoming)))
    BY <2>1, <2>3
  <2>5. QED
    BY <2>1, <2>2, <2>3, <2>4, EventKeeps
<1>6. CASE NextError
  BY <1>6, NextErrorKeeps
<1>7. CASE ~Over /\ (Timeout \/ HangUp \/ Stall)
  <2>1. /\ UNCHANGED <<upstreamVars, sent, producer, queue, filterVars, handlerVars>>
        /\ timedOut' \in BOOLEAN /\ gone' \in BOOLEAN /\ stalled' \in BOOLEAN
        /\ gone' \in {gone, TRUE}
    BY <1>7 DEF Timeout, HangUp, Stall, Env, StreamTypes, HandlerTypes
  <2>2. StreamTypes'
    BY <2>1 DEF StreamTypes, UpstreamTypes, SentTypes, ProducerTypes, ChannelTypes, FilterTypes,
                HandlerTypes, Ended, upstreamVars, filterVars, handlerVars
  <2>3. Pipe' = Pipe
    BY <2>1 DEF Pipe, Held, filterVars
  <2>4. PipeInv'
    BY <2>1, <2>3, PipeSame
  <2>5. ShownInv'
    BY <2>1, ShownSame DEF Overrun
  <2>6. QED
    BY <2>2, <2>4, <2>5
<1>8. CASE UNCHANGED vars
  BY <1>8 DEF vars, StreamTypes, UpstreamTypes, SentTypes, ProducerTypes, ChannelTypes, FilterTypes,
              HandlerTypes, PipeInv, Pipe, Held, Ended, Overrun, ShownInv, Shown, Sealed, TheEnd, Late,
              Good, Over
<1>9. QED
  BY <1>1, <1>2, <1>3, <1>4, <1>5, <1>6, <1>7, <1>8 DEF Next, Dispatch

\* The invariant holds of every behaviour, which the next two theorems read off it.
THEOREM StreamInvariant == Spec => []IInv
<1>1. Init => IInv
  BY InitInv
<1>2. IInv /\ [Next]_vars => IInv'
  BY NextInv
<1>3. QED
  BY <1>1, <1>2, PTL DEF Spec

\* The state is well typed: no channel holds more than its capacity, no answer is longer than
\* the bound and its end, the filter's goroutine runs just when the answer is filtered, and a
\* dispatch that failed over has written nothing.
THEOREM StreamTypeCorrect == Spec => []TypeOK
<1>1. IInv => TypeOK
  BY DEF IInv, StreamTypes, UpstreamTypes, SentTypes, ProducerTypes, ChannelTypes, FilterTypes,
         HandlerTypes, ShownInv, TypeOK
<1>2. QED
  BY <1>1, StreamInvariant, PTL

\* Whatever a lane reads, in whatever order and after its finish too, wherever it fails, and
\* whenever the time is up or the client stalls or leaves, a client that is there is shown one
\* well-formed stream: opened once, closed once, no block written before it was begun, and none
\* begun before the message's end left open at it.  After that end there is nothing but an error,
\* the usage and [DONE], unless the upstream goes on with its answer after its finish.
THEOREM StreamsAreWellFormed == Spec => []StreamWellFormed
<1>1. IInv => StreamWellFormed
  BY ShownIsWellFormed DEF IInv, StreamTypes, UpstreamTypes, ShownInv
<1>2. QED
  BY <1>1, StreamInvariant, PTL
=============================================================================
