----------------------- MODULE StreamDeliveryProofs -----------------------
(***************************************************************************)
(* Proofs about Streams, for every capacity of the channels and every      *)
(* length of an answer: what the lane reads of an answer reaches the       *)
(* client in order and once, whole if nothing goes wrong, whatever the     *)
(* goroutines' speed, the filter, and the codec in between.                *)
(***************************************************************************)
EXTENDS StreamsProofs, WellFoundedInduction

-----------------------------------------------------------------------------
(***************************************************************************)
(* The decoder of an Anthropic client reads one frame after another.       *)
(***************************************************************************)
LEMMA LeastNumber ==
  ASSUME NEW T \in SUBSET Nat, T # {}
  PROVE  \E i \in T : \A j \in T : i <= j
<1> DEFINE R == OpToRel(<, Nat)
<1>1. IsWellFoundedOn(R, Nat)
  BY NatLessThanWellFounded
<1>2. \A i, j \in T : <<j, i>> \in R <=> j < i
  BY DEF OpToRel
<1> HIDE DEF R
<1>3. PICK i \in T : \A j \in T : ~(<<j, i>> \in R)
  BY <1>1, WFMin, Zenon
<1>4. \A j \in T : ~(j < i)
  BY <1>2, <1>3
<1>5. ASSUME NEW j \in T PROVE i <= j
  <2>1. i \in Nat /\ j \in Nat /\ ~(j < i)
    BY <1>4, <1>5
  <2>2. QED
    BY <2>1
<1>6. QED
  BY <1>5

\* read is what the decoder has after each of the first n frames.
Decoding(fr, n, read) ==
  read = [i \in 0..n |-> IF i = 0 THEN Blocks ELSE HandleEvent(read[i - 1], fr[i])]

LEMMA ReadingExtends ==
  ASSUME NEW fr, NEW n \in Nat, NEW read, Decoding(fr, n, read)
  PROVE  \E more : Decoding(fr, n + 1, more)
<1> DEFINE more == [i \in 0..(n + 1) |-> IF i <= n THEN read[i] ELSE HandleEvent(read[n], fr[n + 1])]
<1>1. ASSUME NEW i \in 0..n
      PROVE  read[i] = IF i = 0 THEN Blocks ELSE HandleEvent(read[i - 1], fr[i])
  BY DEF Decoding
<1>2. /\ \A i \in 0..n : more[i] = read[i]
      /\ more[n + 1] = HandleEvent(read[n], fr[n + 1])
  OBVIOUS
<1>3. more = [i \in 0..(n + 1) |-> more[i]]
  OBVIOUS
<1> HIDE DEF more
<1>4. ASSUME NEW i \in 0..(n + 1)
      PROVE  more[i] = IF i = 0 THEN Blocks ELSE HandleEvent(more[i - 1], fr[i])
  <2>1. CASE i \in 1..n
    <3>1. i - 1 \in 0..n /\ i \in 0..n /\ i # 0
      BY <2>1
    <3>2. more[i] = HandleEvent(read[i - 1], fr[i])
      BY <1>1, <1>2, <3>1
    <3>3. QED
      BY <1>2, <3>1, <3>2
  <2>2. CASE i = 0
    BY <1>1, <1>2, <2>2
  <2>3. CASE i = n + 1
    <3>1. i - 1 = n /\ n \in 0..n /\ i # 0
      BY <2>3
    <3>2. more[n] = read[n]
      BY <1>2, <3>1
    <3>3. QED
      BY <1>2, <2>3, <3>1, <3>2
  <2>4. QED
    BY <2>1, <2>2, <2>3
<1>5. [i \in 0..(n + 1) |-> more[i]]
        = [i \in 0..(n + 1) |-> IF i = 0 THEN Blocks ELSE HandleEvent(more[i - 1], fr[i])]
  BY <1>4
<1>6. Decoding(fr, n + 1, more)
  BY <1>3, <1>5 DEF Decoding
<1>7. QED
  BY <1>6

LEMMA ReadingExists ==
  ASSUME NEW fr, NEW n \in Nat
  PROVE  \E read : Decoding(fr, n, read)
<1> DEFINE bad == {m \in Nat : ~\E read : Decoding(fr, m, read)}
<1>1. SUFFICES ASSUME bad # {} PROVE FALSE
  OBVIOUS
<1>2. PICK m \in bad : \A j \in bad : m <= j
  <2>1. bad \in SUBSET Nat
    OBVIOUS
  <2> HIDE DEF bad
  <2>2. QED
    BY <1>1, <2>1, LeastNumber
<1>3. m # 0
  <2>1. Decoding(fr, 0, [i \in 0..0 |-> Blocks])
    BY DEF Decoding
  <2>2. QED
    BY <1>2, <2>1
<1>4. m - 1 \in Nat /\ m - 1 \notin bad /\ (m - 1) + 1 = m
  BY <1>2, <1>3
<1>5. PICK read : Decoding(fr, m - 1, read)
  BY <1>4
<1>6. \E more : Decoding(fr, m, more)
  BY <1>4, <1>5, ReadingExtends
<1>7. QED
  BY <1>2, <1>6

\* Two readings of frames that begin alike agree on the beginning.
Alike(fr, gr, m, n) == m \in Nat /\ n \in Nat /\ m <= n /\ \A i \in 1..m : fr[i] = gr[i]

LEMMA ReadingsAgree ==
  ASSUME NEW fr, NEW gr, NEW m, NEW n, Alike(fr, gr, m, n),
         NEW f, NEW g, Decoding(fr, m, f), Decoding(gr, n, g)
  PROVE  \A i \in 0..m : f[i] = g[i]
<1> USE DEF Alike
<1> DEFINE bad == {i \in 0..m : f[i] # g[i]}
<1>1. SUFFICES ASSUME bad # {} PROVE FALSE
  OBVIOUS
<1>2. PICK i \in bad : \A j \in bad : i <= j
  <2>1. bad \in SUBSET Nat
    OBVIOUS
  <2> HIDE DEF bad
  <2>2. QED
    BY <1>1, <2>1, LeastNumber
<1>3. i \in 0..m /\ i \in 0..n
  BY <1>2
<1>4. /\ f[i] = IF i = 0 THEN Blocks ELSE HandleEvent(f[i - 1], fr[i])
      /\ g[i] = IF i = 0 THEN Blocks ELSE HandleEvent(g[i - 1], gr[i])
  BY <1>3 DEF Decoding
<1>5. i # 0
  BY <1>2, <1>4
<1>6. i - 1 \in 0..m /\ i - 1 \notin bad /\ i \in 1..m
  BY <1>2, <1>3, <1>5
<1>7. f[i - 1] = g[i - 1] /\ fr[i] = gr[i]
  BY <1>6
<1>8. f[i] = g[i]
  BY <1>4, <1>7
<1>9. QED
  BY <1>2, <1>8

LEMMA DecodeReads ==
  ASSUME NEW fr, Len(fr) \in Nat
  PROVE  \E read : Decoding(fr, Len(fr), read) /\ Decode(fr) = read[Len(fr)]
<1> DEFINE read == CHOOSE f : Decoding(fr, Len(fr), f)
<1>1. Decoding(fr, Len(fr), read)
  BY ReadingExists
<1>2. read = CHOOSE f : f = [n \in 0..Len(fr) |-> IF n = 0 THEN Blocks ELSE HandleEvent(f[n - 1], fr[n])]
  BY DEF Decoding
<1>3. Decode(fr) = read[Len(fr)]
  BY <1>2 DEF Decode
<1>4. QED
  BY <1>1, <1>3

LEMMA DecodeNothing == Decode(<<>>) = Blocks
<1>1. PICK read : Decoding(<<>>, 0, read) /\ Decode(<<>>) = read[0]
  <2>1. Len(<<>>) = 0 /\ 0 \in Nat
    OBVIOUS
  <2>2. QED
    BY <2>1, DecodeReads
<1>2. read[0] = Blocks
  BY <1>1 DEF Decoding
<1>3. QED
  BY <1>1, <1>2

LEMMA DecodeAppended ==
  ASSUME NEW fr \in Seq(FrameSet), NEW x \in FrameSet
  PROVE  Decode(Append(fr, x)) = HandleEvent(Decode(fr), x)
<1> DEFINE gr == Append(fr, x)
           n == Len(fr)
<1>1. /\ n \in Nat /\ Len(gr) = n + 1 /\ n + 1 \in Nat
      /\ \A i \in 1..n : fr[i] = gr[i]
      /\ gr[n + 1] = x
  BY FramesAppended
<1> HIDE DEF gr, n
<1>2. PICK f : Decoding(fr, n, f) /\ Decode(fr) = f[n]
  BY <1>1, DecodeReads DEF n
<1>3. PICK g : Decoding(gr, n + 1, g) /\ Decode(gr) = g[n + 1]
  <2>1. Len(gr) \in Nat
    BY <1>1
  <2>2. \E g : Decoding(gr, Len(gr), g) /\ Decode(gr) = g[Len(gr)]
    BY <2>1, DecodeReads
  <2>3. QED
    BY <1>1, <2>2
<1>4. f[n] = g[n]
  <2> DEFINE k == n + 1
  <2>1. Alike(fr, gr, n, k) /\ Decoding(fr, n, f) /\ Decoding(gr, k, g)
    BY <1>1, <1>2, <1>3 DEF Alike
  <2> HIDE DEF k
  <2>2. \A i \in 0..n : f[i] = g[i]
    BY <2>1, ReadingsAgree
  <2>3. QED
    BY <1>1, <2>2
<1>5. g[n + 1] = HandleEvent(g[n], gr[n + 1])
  <2>1. n + 1 \in 0..(n + 1) /\ n + 1 # 0 /\ (n + 1) - 1 = n
    BY <1>1
  <2>2. g[n + 1] = HandleEvent(g[(n + 1) - 1], gr[n + 1])
    BY <1>3, <2>1 DEF Decoding
  <2>3. QED
    BY <2>1, <2>2
<1>6. QED
  BY <1>1, <1>2, <1>3, <1>4, <1>5 DEF gr

-----------------------------------------------------------------------------
(***************************************************************************)
(* What the lane has read.                                                 *)
(***************************************************************************)
Prose(c) == c.kind \in {"text", "think"}

\* Pieces are numbered; calls open in order and are opened before they are continued; the
\* items of the Responses API come in order.
NumberedInv ==
  \A i \in DOMAIN sent : sent[i].piece = i

CallsInv ==
  /\ \A i \in DOMAIN sent : IsCall(sent[i]) => sent[i].call \in 0..(Calls - 1)
  /\ \A i, j \in DOMAIN sent :
       i < j /\ sent[i].kind = "open" /\ sent[j].kind = "open" => sent[i].call < sent[j].call
  /\ \A j \in DOMAIN sent :
       sent[j].kind = "args" =>
         \E i \in DOMAIN sent : i < j /\ sent[i].kind = "open" /\ sent[i].call = sent[j].call
  /\ \A k \in 0..(Calls - 1) : \E i \in DOMAIN sent : sent[i].kind = "open" /\ sent[i].call = k
  /\ lane = "gemini" => \A i \in DOMAIN sent : sent[i].kind # "args"

ItemsInv ==
  lane = "responses" =>
    /\ \A i \in DOMAIN sent : Prose(sent[i]) => sent[i].item <= Items - 1
    /\ \A i, j \in DOMAIN sent :
         i < j /\ Prose(sent[i]) /\ Prose(sent[j]) => sent[i].item <= sent[j].item

SentInv == NumberedInv /\ CallsInv /\ ItemsInv

LEMMA SentElements ==
  ASSUME sent \in Seq(Chunks)
  PROVE  /\ Len(sent) \in Nat /\ DOMAIN sent = 1..Len(sent)
         /\ \A i \in DOMAIN sent : sent[i] \in Chunks
         /\ \A i \in DOMAIN sent : sent[i].kind \in Pieces /\ sent[i].call \in Int /\ sent[i].item \in Int
                                    /\ sent[i].new \in BOOLEAN
<1>1. Len(sent) \in Nat /\ DOMAIN sent = 1..Len(sent) /\ \A i \in DOMAIN sent : sent[i] \in Chunks
  BY LenProperties, ElementOfSeq
<1>2. ASSUME NEW c \in Chunks
      PROVE  c.kind \in Pieces /\ c.call \in Int /\ c.item \in Int /\ c.new \in BOOLEAN
  BY DEF Chunks
<1>3. QED
  BY <1>1, <1>2

LEMMA NextChunkIs ==
  ASSUME NEW c \in NextChunks
  PROVE  /\ c.piece = Len(sent) + 1
         /\ c.kind = "open" => c.call = Calls
         /\ c.kind = "args" => lane # "gemini" /\ c.call \in 0..(Calls - 1)
         /\ lane = "responses" /\ Prose(c) => (c.new /\ c.item = Items) \/ (~c.new /\ c.item = Items - 1)
<1>1. \/ \E kind \in {"text", "think"} :
            /\ c.kind = kind /\ c.piece = Len(sent) + 1
            /\ lane = "responses" => (c.new = TRUE /\ c.item = Items) \/ (c.new = FALSE /\ c.item = Items - 1)
      \/ c.kind = "open" /\ c.piece = Len(sent) + 1 /\ c.call = Calls
      \/ c.kind = "args" /\ c.piece = Len(sent) + 1 /\ lane # "gemini" /\ c.call \in 0..(Calls - 1)
      \/ c.kind = "end" /\ c.piece = Len(sent) + 1
  <2>1. CASE \E kind \in {"text", "think"} :
               \/ lane # "responses" /\ c = Chunk(kind, None, 0, FALSE)
               \/ lane = "responses" /\ c = Chunk(kind, None, Items, TRUE)
               \/ lane = "responses" /\ c = Chunk(kind, None, Items - 1, FALSE)
    <3>1. PICK kind \in {"text", "think"} :
            \/ lane # "responses" /\ c = Chunk(kind, None, 0, FALSE)
            \/ lane = "responses" /\ c = Chunk(kind, None, Items, TRUE)
            \/ lane = "responses" /\ c = Chunk(kind, None, Items - 1, FALSE)
      BY <2>1
    <3>2. /\ c.kind = kind /\ c.piece = Len(sent) + 1
          /\ lane = "responses" => (c.new = TRUE /\ c.item = Items) \/ (c.new = FALSE /\ c.item = Items - 1)
      BY <3>1 DEF Chunk
    <3>3. QED
      BY <3>2
  <2>2. CASE c = Chunk("open", Calls, Items, TRUE)
    BY <2>2 DEF Chunk
  <2>3. CASE lane # "gemini" /\ \E k \in 0..(Calls - 1) : c = Chunk("args", k, 0, FALSE)
    <3>1. PICK k \in 0..(Calls - 1) : c = Chunk("args", k, 0, FALSE)
      BY <2>3
    <3>2. c.kind = "args" /\ c.piece = Len(sent) + 1 /\ c.call = k
      BY <3>1 DEF Chunk
    <3>3. QED
      BY <2>3, <3>2
  <2>4. CASE c = Chunk("end", None, 0, FALSE)
    BY <2>4 DEF Chunk
  <2>5. QED
    BY <2>1, <2>2, <2>3, <2>4 DEF NextChunks
<1>2. QED
  BY <1>1 DEF Prose

\* The chunks there are, after one more.
LEMMA OneMore ==
  ASSUME sent \in Seq(Chunks), NEW c \in Chunks, sent' = Append(sent, c)
  PROVE  /\ DOMAIN sent' = 1..(Len(sent) + 1) /\ Len(sent) \in Nat /\ Len(sent') = Len(sent) + 1
         /\ sent' \in Seq(Chunks)
         /\ \A i \in 1..Len(sent) : i \in DOMAIN sent' /\ sent'[i] = sent[i]
         /\ sent'[Len(sent) + 1] = c
         /\ Calls \in Nat /\ Items \in Nat
         /\ Calls' = IF c.kind = "open" THEN Calls + 1 ELSE Calls
         /\ Items' = IF c.new THEN Items + 1 ELSE Items
<1> DEFINE n == Len(sent)
           opens == {i \in DOMAIN sent : sent[i].kind = "open"}
           news == {i \in DOMAIN sent : sent[i].new}
<1>1. /\ n \in Nat /\ DOMAIN sent = 1..n /\ sent' \in Seq(Chunks) /\ Len(sent') = n + 1
      /\ \A i \in 1..n : sent'[i] = sent[i]
      /\ sent'[n + 1] = c
  BY AppendProperties, LenProperties
<1>2. DOMAIN sent' = 1..(n + 1)
  BY <1>1, LenProperties
<1>3. IsFiniteSet(opens) /\ IsFiniteSet(news) /\ n + 1 \notin opens /\ n + 1 \notin news
  <2>1. IsFiniteSet(1..n)
    BY <1>1, FS_Interval
  <2>2. opens \in SUBSET (1..n) /\ news \in SUBSET (1..n)
    BY <1>1
  <2> HIDE DEF opens, news, n
  <2>3. n + 1 \notin 1..n
    BY <1>1
  <2>4. QED
    BY <2>1, <2>2, <2>3, FS_Subset
<1>4. /\ {i \in DOMAIN sent' : sent'[i].kind = "open"} = IF c.kind = "open" THEN opens \cup {n + 1} ELSE opens
      /\ {i \in DOMAIN sent' : sent'[i].new} = IF c.new THEN news \cup {n + 1} ELSE news
  <2>1. ASSUME NEW i \in DOMAIN sent' PROVE (i \in DOMAIN sent /\ sent'[i] = sent[i]) \/ i = n + 1
    BY <1>1, <1>2
  <2>2. \A i \in DOMAIN sent : i \in DOMAIN sent' /\ sent'[i] = sent[i] /\ i # n + 1
    BY <1>1, <1>2
  <2>3. n + 1 \in DOMAIN sent'
    BY <1>1, <1>2
  <2> HIDE DEF n
  <2>4. QED
    BY <1>1, <2>1, <2>2, <2>3
<1>5. /\ Cardinality(opens) \in Nat /\ Cardinality(news) \in Nat
      /\ Cardinality(opens \cup {n + 1}) = Cardinality(opens) + 1
      /\ Cardinality(news \cup {n + 1}) = Cardinality(news) + 1
  <2> HIDE DEF opens, news, n
  <2>1. QED
    BY <1>3, FS_CardinalityType, FS_AddElement
<1>6. Calls = Cardinality(opens) /\ Items = Cardinality(news)
  BY DEF Calls, Items
<1>7. Calls' = IF c.kind = "open" THEN Calls + 1 ELSE Calls
  <2>1. Calls' = Cardinality({i \in DOMAIN sent' : sent'[i].kind = "open"})
    BY DEF Calls
  <2> HIDE DEF opens, news, n
  <2>2. QED
    BY <1>4, <1>5, <1>6, <2>1
<1>8. Items' = IF c.new THEN Items + 1 ELSE Items
  <2>1. Items' = Cardinality({i \in DOMAIN sent' : sent'[i].new})
    BY DEF Items
  <2> HIDE DEF opens, news, n
  <2>2. QED
    BY <1>4, <1>5, <1>6, <2>1
<1>9. QED
  BY <1>1, <1>2, <1>5, <1>6, <1>7, <1>8

LEMMA SentGrows ==
  ASSUME sent \in Seq(Chunks), SentInv, lane' = lane, NEW c \in NextChunks, c \in Chunks,
         sent' = Append(sent, c)
  PROVE  SentInv'
<1> DEFINE n == Len(sent)
<1>1. /\ DOMAIN sent' = 1..(n + 1) /\ n \in Nat /\ DOMAIN sent = 1..n
      /\ \A i \in 1..n : sent'[i] = sent[i]
      /\ sent'[n + 1] = c
      /\ Calls \in Nat /\ Items \in Nat
      /\ Calls' = IF c.kind = "open" THEN Calls + 1 ELSE Calls
      /\ Items' = IF c.new THEN Items + 1 ELSE Items
  BY OneMore, SentElements
<1>2. /\ c.piece = n + 1
      /\ c.kind = "open" => c.call = Calls
      /\ c.kind = "args" => lane # "gemini" /\ c.call \in 0..(Calls - 1)
      /\ lane = "responses" /\ Prose(c) => (c.new /\ c.item = Items) \/ (~c.new /\ c.item = Items - 1)
  BY NextChunkIs
<1>3. \A i \in DOMAIN sent' : (i \in DOMAIN sent /\ sent'[i] = sent[i] /\ i < n + 1) \/ (i = n + 1 /\ sent'[i] = c)
  BY <1>1
<1>4. \A i \in DOMAIN sent : i \in DOMAIN sent' /\ sent'[i] = sent[i] /\ i \in Nat /\ i <= n
  BY <1>1
<1>5. \A i \in DOMAIN sent : sent[i].call \in Int /\ sent[i].item \in Int /\ sent[i].kind \in Pieces
  BY SentElements
<1>6. c.call \in Int /\ c.item \in Int /\ n + 1 \in DOMAIN sent' /\ Calls' \in Nat /\ Calls <= Calls'
  BY <1>1 DEF Chunks
<1> HIDE DEF n
<1>7. NumberedInv'
  BY <1>2, <1>3 DEF SentInv, NumberedInv
<1>8. CallsInv'
  <2>1. ASSUME NEW i \in DOMAIN sent', IsCall(sent'[i]) PROVE sent'[i].call \in 0..(Calls' - 1)
    <3>1. CASE i \in DOMAIN sent /\ sent'[i] = sent[i]
      <4>1. sent[i].call \in 0..(Calls - 1)
        BY <2>1, <3>1 DEF SentInv, CallsInv
      <4>2. QED
        BY <1>1, <1>6, <3>1, <4>1
    <3>2. CASE i = n + 1 /\ sent'[i] = c
      <4>1. c.kind \in {"open", "args"}
        BY <2>1, <3>2 DEF IsCall
      <4>2. QED
        BY <1>1, <1>2, <1>6, <3>2, <4>1
    <3>3. QED
      BY <1>3, <3>1, <3>2
  <2>2. ASSUME NEW i \in DOMAIN sent', NEW j \in DOMAIN sent', i < j,
               sent'[i].kind = "open", sent'[j].kind = "open"
        PROVE  sent'[i].call < sent'[j].call
    <3>1. i \in DOMAIN sent /\ sent'[i] = sent[i]
      BY <1>1, <1>3, <2>2
    <3>2. CASE j \in DOMAIN sent /\ sent'[j] = sent[j]
      BY <2>2, <3>1, <3>2 DEF SentInv, CallsInv
    <3>3. CASE j = n + 1 /\ sent'[j] = c
      <4>1. sent[i].call \in 0..(Calls - 1)
        BY <2>2, <3>1 DEF SentInv, CallsInv, IsCall
      <4>2. QED
        BY <1>1, <1>2, <2>2, <3>1, <3>3, <4>1
    <3>4. QED
      BY <1>3, <3>2, <3>3
  <2>3. ASSUME NEW j \in DOMAIN sent', sent'[j].kind = "args"
        PROVE  \E i \in DOMAIN sent' : i < j /\ sent'[i].kind = "open" /\ sent'[i].call = sent'[j].call
    <3>1. CASE j \in DOMAIN sent /\ sent'[j] = sent[j]
      <4>1. PICK i \in DOMAIN sent : i < j /\ sent[i].kind = "open" /\ sent[i].call = sent[j].call
        BY <2>3, <3>1 DEF SentInv, CallsInv
      <4>2. QED
        BY <1>4, <3>1, <4>1
    <3>2. CASE j = n + 1 /\ sent'[j] = c
      <4>1. c.call \in 0..(Calls - 1)
        BY <1>2, <2>3, <3>2
      <4>2. PICK i \in DOMAIN sent : sent[i].kind = "open" /\ sent[i].call = c.call
        BY <4>1 DEF SentInv, CallsInv
      <4>3. i < n + 1
        BY <1>1, <1>4
      <4>4. QED
        BY <1>4, <3>2, <4>2, <4>3
    <3>3. QED
      BY <1>3, <3>1, <3>2
  <2>4. ASSUME NEW k \in 0..(Calls' - 1)
        PROVE  \E i \in DOMAIN sent' : sent'[i].kind = "open" /\ sent'[i].call = k
    <3>1. CASE k \in 0..(Calls - 1)
      <4>1. PICK i \in DOMAIN sent : sent[i].kind = "open" /\ sent[i].call = k
        BY <3>1 DEF SentInv, CallsInv
      <4>2. QED
        BY <1>4, <4>1
    <3>2. CASE k \notin 0..(Calls - 1)
      <4>1. c.kind = "open" /\ k = Calls
        BY <1>1, <3>2
      <4>2. QED
        BY <1>1, <1>2, <1>6, <4>1
    <3>3. QED
      BY <3>1, <3>2
  <2>5. lane' = "gemini" => \A i \in DOMAIN sent' : sent'[i].kind # "args"
    BY <1>2, <1>3 DEF SentInv, CallsInv
  <2>6. QED
    BY <2>1, <2>2, <2>3, <2>4, <2>5 DEF CallsInv
<1>9. ItemsInv'
  <2>0. SUFFICES ASSUME lane = "responses"
                 PROVE  /\ \A i \in DOMAIN sent' : Prose(sent'[i]) => sent'[i].item <= Items' - 1
                        /\ \A i, j \in DOMAIN sent' :
                             i < j /\ Prose(sent'[i]) /\ Prose(sent'[j]) => sent'[i].item <= sent'[j].item
    BY DEF ItemsInv, Prose
  <2>1. Items' \in Nat /\ Items <= Items' /\ (Prose(c) => c.item <= Items' - 1 /\ Items - 1 <= c.item)
    BY <1>1, <1>2, <1>6, <2>0
  <2>2. \A i \in DOMAIN sent : Prose(sent[i]) => sent[i].item <= Items - 1
    BY <2>0 DEF SentInv, ItemsInv
  <2>3. ASSUME NEW i \in DOMAIN sent', Prose(sent'[i]) PROVE sent'[i].item <= Items' - 1
    <3>1. CASE i \in DOMAIN sent /\ sent'[i] = sent[i]
      BY <1>1, <1>5, <2>1, <2>2, <2>3, <3>1
    <3>2. CASE i = n + 1 /\ sent'[i] = c
      BY <2>1, <2>3, <3>2
    <3>3. QED
      BY <1>3, <3>1, <3>2
  <2>4. ASSUME NEW i \in DOMAIN sent', NEW j \in DOMAIN sent', i < j, Prose(sent'[i]), Prose(sent'[j])
        PROVE  sent'[i].item <= sent'[j].item
    <3>1. i \in DOMAIN sent /\ sent'[i] = sent[i]
      BY <1>1, <1>3, <2>4
    <3>2. CASE j \in DOMAIN sent /\ sent'[j] = sent[j]
      BY <2>0, <2>4, <3>1, <3>2 DEF SentInv, ItemsInv
    <3>3. CASE j = n + 1 /\ sent'[j] = c
      BY <1>1, <1>5, <1>6, <2>1, <2>2, <2>4, <3>1, <3>3
    <3>4. QED
      BY <1>3, <3>2, <3>3
  <2>5. QED
    BY <2>3, <2>4
<1>10. QED
  BY <1>7, <1>8, <1>9 DEF SentInv


-----------------------------------------------------------------------------
(***************************************************************************)
(* What there is to tell a client: of every chunk but the end its content, *)
(* and before it, when the chunk opens a call, the call.  These events are *)
(* numbered in the order in which they are to arrive.  The operators take  *)
(* the lane l, the client cl, and the chunks read S.                       *)
(***************************************************************************)
Marks == {"text", "think", "args", "call"}
EventOf(c) == IF IsCall(c) THEN "args" ELSE c.kind
Index(l, c) == IF IsCall(c) THEN (IF l = "gemini" THEN 0 ELSE c.call)
               ELSE IF l = "responses" THEN c.item ELSE 0

Saying(l, c) == Ev(EventOf(c), Index(l, c), c.piece)
Calling(l, c) == Ev("call", Index(l, c), c.call)

Written(l, S) == {Saying(l, S[p]) : p \in {q \in DOMAIN S : S[q].kind # "end"}}
                 \cup {Calling(l, S[p]) : p \in {q \in DOMAIN S : S[q].kind = "open"}}

\* What the filter lets through of it.
Due(l, hides, S) == {ev \in Written(l, S) : ~(hides /\ ev.type = "think")}

Opener(S, k) == CHOOSE o \in DOMAIN S : S[o].kind = "open" /\ S[o].call = k
Number(S, ev) == IF ev.type = "call" THEN 2 * Opener(S, ev.x) ELSE 2 * ev.x + 1

\* A gemini's signature holds nothing to tell.
Unsigned(s) == \A j \in DOMAIN s : s[j].type = "sig" => s[j].x = None

\* Events on their way: what they say was written, and they are in order.
Flows(l, S, s) ==
  /\ Unsigned(s)
  /\ \A j \in DOMAIN s : s[j].type \in Marks => s[j] \in Written(l, S)
  /\ \A i, j \in DOMAIN s :
       i < j /\ s[i].type \in Marks /\ s[j].type \in Marks => Number(S, s[i]) < Number(S, s[j])

\* The frames that tell of a call, and those that tell of a piece.
CallFrame(cl, fr) == IF cl = "openai" THEN fr.f = "call" ELSE fr.f = "block_start" /\ fr.x # None
PieceFrame(cl, fr) ==
  IF cl = "openai" THEN fr.f \in {"content", "reasoning", "args"} ELSE fr.f = "delta" /\ fr.x # None
Telling(cl, fr) == CallFrame(cl, fr) \/ PieceFrame(cl, fr)

FrameOf(type) == CASE type = "text" -> "content" [] type = "think" -> "reasoning" [] type = "args" -> "args"
KindOf(type) == CASE type = "text" -> "text" [] type = "think" -> "thinking" [] type = "args" -> "tool_use"

Tells(cl, fr, ev) ==
  /\ fr.x = ev.x
  /\ IF ev.type = "call" THEN CallFrame(cl, fr) /\ fr.ix = ev.ix
     ELSE /\ PieceFrame(cl, fr)
          /\ IF cl = "openai" THEN fr.f = FrameOf(ev.type) /\ (ev.type = "args" => fr.ix = ev.ix)
             ELSE fr.kind = KindOf(ev.type) /\ fr.ix = ev.ix

\* The event that a frame tells of.
Told(cl, l, S, fr) == IF CallFrame(cl, fr) THEN Ev("call", fr.ix, fr.x) ELSE Saying(l, S[fr.x])

Has(cl, l, S, fr, ev) == \E i \in DOMAIN fr : Telling(cl, fr[i]) /\ Told(cl, l, S, fr[i]) = ev

\* Frames received: they tell what is due, in order and without a gap.
ToldInOrder(cl, l, S, fr) ==
  \A i, j \in DOMAIN fr : i < j /\ Telling(cl, fr[i]) /\ Telling(cl, fr[j]) =>
    Number(S, Told(cl, l, S, fr[i])) < Number(S, Told(cl, l, S, fr[j]))
Arrived(cl, l, S, D, fr) ==
  /\ \A i \in DOMAIN fr : Telling(cl, fr[i]) =>
       /\ Told(cl, l, S, fr[i]) \in D /\ Tells(cl, fr[i], Told(cl, l, S, fr[i]))
       /\ \A ev \in D : Number(S, ev) < Number(S, Told(cl, l, S, fr[i])) => Has(cl, l, S, fr, ev)
  /\ ToldInOrder(cl, l, S, fr)

\* Nothing is lost on the way: what is due was received or is on its way, which comes later.
Continues(cl, l, S, D, fr, s) ==
  /\ \A ev \in D : Has(cl, l, S, fr, ev) \/ \E j \in DOMAIN s : s[j].type \in Marks /\ s[j] = ev
  /\ \A i \in DOMAIN fr, j \in DOMAIN s : Telling(cl, fr[i]) /\ s[j].type \in Marks =>
       Number(S, Told(cl, l, S, fr[i])) < Number(S, s[j])

\* A block of an Anthropic client that a delta or a message item starts is a new one.
StartsOnce(fr) ==
  \A i, j \in DOMAIN fr :
    i < j /\ fr[j].f = "block_start" /\ fr[j].x = None /\ fr[i].f \in {"delta", "block_start"}
      => fr[i].ix # fr[j].ix
Begun(e, fr) == \A i \in DOMAIN fr : fr[i].f \in {"delta", "block_start"} => fr[i].ix \in e.begun

Live == handler \in {"first", "loop"} /\ ~gone
OurDue == Due(lane, filtered, sent)

OrderInv ==
  /\ Flows(lane, sent, Pipe)
  /\ Arrived(client, lane, sent, OurDue, frames)
  /\ Live => Continues(client, lane, sent, OurDue, frames, Pipe)

BlocksInv ==
  /\ frames \in Seq(FrameSet)
  /\ client # "openai" => StartsOnce(frames) /\ (Live => Begun(enc, frames))

EndInv ==
  /\ producer.pc = "done" => producer.pending = <<>>
  /\ filtered => /\ \A i \in DOMAIN passed : passed[i].type # "think"
                 /\ filter.pc = "putting" => filter.held.type # "think"
  /\ filter.pc \in {"done", "quit"} /\ ~CtxDone => producer.pc = "done" /\ queue = <<>>
  /\ handler = "returned" /\ ~gone /\ ~timedOut =>
       producer.pc = "done" /\ \A ev \in OurDue : Has(client, lane, sent, frames, ev)

DInv == SentInv /\ OrderInv /\ BlocksInv /\ EndInv

\* The chunks read, as far as numbering them goes.
Chained(S) ==
  /\ S \in Seq(Chunks)
  /\ \A p \in DOMAIN S : S[p].piece = p /\ (S[p].kind = "open" => S[p].call \in Nat)
  /\ \A p, q \in DOMAIN S :
       p < q /\ S[p].kind = "open" /\ S[q].kind = "open" => S[p].call < S[q].call

LEMMA ChainedElements ==
  ASSUME NEW S, Chained(S)
  PROVE  /\ Len(S) \in Nat /\ DOMAIN S = 1..Len(S)
         /\ \A p \in DOMAIN S : p \in Nat /\ S[p] \in Chunks /\ S[p].kind \in Pieces /\ S[p].call \in Int
                                 /\ S[p].item \in Int
<1>1. Len(S) \in Nat /\ DOMAIN S = 1..Len(S) /\ \A p \in DOMAIN S : S[p] \in Chunks
  BY LenProperties, ElementOfSeq DEF Chained
<1>2. ASSUME NEW c \in Chunks
      PROVE  c.kind \in Pieces /\ c.call \in Int /\ c.item \in Int
  BY DEF Chunks
<1>3. QED
  BY <1>1, <1>2

LEMMA OpenerIs ==
  ASSUME NEW S, Chained(S), NEW p \in DOMAIN S, S[p].kind = "open"
  PROVE  Opener(S, S[p].call) = p
<1> DEFINE k == S[p].call
           o == Opener(S, k)
<1>1. o \in DOMAIN S /\ S[o].kind = "open" /\ S[o].call = k
  BY DEF Opener
<1>2. p \in Nat /\ o \in Nat /\ k \in Int
  BY <1>1, ChainedElements
<1>3. ~(p < o) /\ ~(o < p)
  BY <1>1, <1>2 DEF Chained
<1>4. QED
  BY <1>2, <1>3

\* What a chunk tells, and its number.
LEMMA SayingIs ==
  ASSUME NEW l, NEW S, Chained(S), NEW p \in DOMAIN S
  PROVE  /\ S[p].kind # "end" =>
              /\ Saying(l, S[p]).type \in Marks \ {"call"} /\ Saying(l, S[p]).x = p
              /\ Saying(l, S[p]).type = EventOf(S[p]) /\ Saying(l, S[p]).ix = Index(l, S[p])
              /\ Number(S, Saying(l, S[p])) = 2 * p + 1
         /\ S[p].kind = "open" =>
              /\ Calling(l, S[p]).type = "call" /\ Calling(l, S[p]).x = S[p].call
              /\ Calling(l, S[p]).ix = Index(l, S[p])
              /\ Number(S, Calling(l, S[p])) = 2 * p
<1>1. S[p].kind \in Pieces /\ S[p].piece = p
  BY ChainedElements DEF Chained
<1>2. ASSUME S[p].kind # "end"
      PROVE  /\ Saying(l, S[p]).type \in Marks \ {"call"} /\ Saying(l, S[p]).x = p
             /\ Saying(l, S[p]).type = EventOf(S[p]) /\ Saying(l, S[p]).ix = Index(l, S[p])
             /\ Number(S, Saying(l, S[p])) = 2 * p + 1
  <2>1. /\ Saying(l, S[p]).type = EventOf(S[p]) /\ Saying(l, S[p]).x = p
        /\ Saying(l, S[p]).ix = Index(l, S[p])
    BY <1>1 DEF Saying, Ev
  <2>2. EventOf(S[p]) \in Marks \ {"call"}
    BY <1>1, <1>2 DEF EventOf, IsCall, Marks, Pieces
  <2>3. QED
    BY <2>1, <2>2 DEF Number
<1>3. ASSUME S[p].kind = "open"
      PROVE  /\ Calling(l, S[p]).type = "call" /\ Calling(l, S[p]).x = S[p].call
             /\ Calling(l, S[p]).ix = Index(l, S[p])
             /\ Number(S, Calling(l, S[p])) = 2 * p
  <2>1. /\ Calling(l, S[p]).type = "call" /\ Calling(l, S[p]).x = S[p].call
        /\ Calling(l, S[p]).ix = Index(l, S[p])
    BY DEF Calling, Ev
  <2>2. QED
    BY <1>3, <2>1, OpenerIs DEF Number
<1>4. QED
  BY <1>2, <1>3

LEMMA WrittenIs ==
  ASSUME NEW l, NEW S, Chained(S), NEW ev \in Written(l, S)
  PROVE  /\ ev.type \in Marks /\ Number(S, ev) \in Nat /\ ev.x \in Nat
         /\ \E p \in DOMAIN S :
              /\ p \in Nat
              /\ \/ /\ S[p].kind # "end" /\ ev = Saying(l, S[p]) /\ ev.type # "call" /\ ev.x = p
                    /\ Number(S, ev) = 2 * p + 1
                 \/ /\ S[p].kind = "open" /\ ev = Calling(l, S[p]) /\ ev.type = "call"
                    /\ ev.x = S[p].call /\ Number(S, ev) = 2 * p
<1>1. PICK p \in DOMAIN S : \/ S[p].kind # "end" /\ ev = Saying(l, S[p])
                            \/ S[p].kind = "open" /\ ev = Calling(l, S[p])
  BY DEF Written
<1>2. p \in Nat
  BY ChainedElements
<1>3. "call" \in Marks
  BY DEF Marks
<1>4. CASE S[p].kind # "end" /\ ev = Saying(l, S[p])
  BY <1>2, <1>4, SayingIs
<1>5. CASE S[p].kind = "open" /\ ev = Calling(l, S[p])
  <2>1. S[p].call \in Nat
    BY <1>5 DEF Chained
  <2>2. QED
    BY <1>2, <1>3, <1>5, <2>1, SayingIs
<1>6. QED
  BY <1>1, <1>4, <1>5

After(S, c, T) == T = Append(S, c)

\* What one more chunk adds to what there is to tell.
News(l, c) == (IF c.kind = "end" THEN {} ELSE {Saying(l, c)})
              \cup (IF c.kind = "open" THEN {Calling(l, c)} ELSE {})

LEMMA WrittenGrows ==
  ASSUME NEW l, NEW S, NEW T, NEW c \in Chunks, Chained(S), Chained(T), After(S, c, T)
  PROVE  /\ Written(l, T) = Written(l, S) \cup News(l, c)
         /\ \A ev \in Written(l, S) :
              /\ Number(T, ev) = Number(S, ev) /\ Number(S, ev) \in Nat
              /\ Number(S, ev) < 2 * (Len(S) + 1)
         /\ c.kind # "end" => Saying(l, c).type \in Marks /\ Number(T, Saying(l, c)) = 2 * (Len(S) + 1) + 1
         /\ c.kind = "open" => Calling(l, c).type \in Marks /\ Number(T, Calling(l, c)) = 2 * (Len(S) + 1)
<1> DEFINE n == Len(S) + 1
<1>1. /\ n \in Nat /\ DOMAIN S = 1..(n - 1) /\ DOMAIN T = 1..n /\ n \in DOMAIN T /\ T[n] = c
      /\ \A p \in DOMAIN S : p \in DOMAIN T /\ T[p] = S[p] /\ p \in Nat /\ p < n
      /\ \A p \in DOMAIN T : p \in DOMAIN S \/ p = n
  BY AppendProperties, LenProperties, ChainedElements DEF Chained, After
<1> HIDE DEF n
<1>2. Written(l, T) = Written(l, S) \cup News(l, c)
  <2>1. Written(l, T) \subseteq Written(l, S) \cup News(l, c)
    BY <1>1 DEF Written, News
  <2>2. Written(l, S) \subseteq Written(l, T)
    BY <1>1 DEF Written
  <2>3. News(l, c) \subseteq Written(l, T)
    BY <1>1 DEF Written, News
  <2>4. QED
    BY <2>1, <2>2, <2>3
<1>3. ASSUME NEW ev \in Written(l, S)
      PROVE  Number(T, ev) = Number(S, ev) /\ Number(S, ev) \in Nat /\ Number(S, ev) < 2 * n
  <2>1. PICK p \in DOMAIN S :
          /\ p \in Nat
          /\ \/ S[p].kind # "end" /\ ev = Saying(l, S[p]) /\ Number(S, ev) = 2 * p + 1
             \/ S[p].kind = "open" /\ ev = Calling(l, S[p]) /\ Number(S, ev) = 2 * p
    BY WrittenIs
  <2>2. p \in DOMAIN T /\ T[p] = S[p] /\ p < n
    BY <1>1
  <2>3. Number(T, ev) = Number(S, ev)
    <3>1. /\ T[p].kind # "end" => Number(T, Saying(l, T[p])) = 2 * p + 1
          /\ T[p].kind = "open" => Number(T, Calling(l, T[p])) = 2 * p
      BY <2>2, SayingIs
    <3>2. QED
      BY <2>1, <2>2, <3>1
  <2>4. QED
    BY <1>1, <2>1, <2>2, <2>3
<1>4. /\ T[n].kind # "end" =>
           Saying(l, T[n]).type \in Marks \ {"call"} /\ Number(T, Saying(l, T[n])) = 2 * n + 1
      /\ T[n].kind = "open" => Calling(l, T[n]).type = "call" /\ Number(T, Calling(l, T[n])) = 2 * n
  BY <1>1, SayingIs
<1>5. /\ c.kind # "end" => Saying(l, c).type \in Marks /\ Number(T, Saying(l, c)) = 2 * n + 1
      /\ c.kind = "open" => Calling(l, c).type \in Marks /\ Number(T, Calling(l, c)) = 2 * n
  BY <1>1, <1>4 DEF Marks
<1>6. QED
  BY <1>2, <1>3, <1>5 DEF n

\* Events of which the marked ones tell a chunk: its call, if it opens one, and then its piece.
Conveys(l, c, t) ==
  /\ Unsigned(t)
  /\ \A j \in DOMAIN t : t[j].type \in Marks => t[j] \in News(l, c)
  /\ \A i, j \in DOMAIN t : i < j /\ t[i].type \in Marks /\ t[j].type \in Marks =>
       t[i] = Calling(l, c) /\ t[j] = Saying(l, c) /\ c.kind = "open"
  /\ \A ev \in News(l, c) : \E j \in DOMAIN t : t[j] = ev

LEMMA Concatenated ==
  ASSUME NEW X, NEW s \in Seq(X), NEW t \in Seq(X)
  PROVE  /\ s \o t \in Seq(X)
         /\ \A i \in DOMAIN (s \o t) : \/ i \in DOMAIN s /\ (s \o t)[i] = s[i]
                                       \/ i - Len(s) \in DOMAIN t /\ (s \o t)[i] = t[i - Len(s)] /\ i > Len(s)
         /\ \A i \in DOMAIN s : i \in DOMAIN (s \o t) /\ (s \o t)[i] = s[i] /\ i <= Len(s)
         /\ \A j \in DOMAIN t : j + Len(s) \in DOMAIN (s \o t) /\ (s \o t)[j + Len(s)] = t[j] /\ j + Len(s) > Len(s)
         /\ Len(s) \in Nat /\ DOMAIN (s \o t) \subseteq Nat /\ DOMAIN s \subseteq Nat /\ DOMAIN t \subseteq Nat
<1> DEFINE m == Len(s)
           n == Len(t)
           w == s \o t
<1>1. /\ m \in Nat /\ DOMAIN s = 1..m /\ n \in Nat /\ DOMAIN t = 1..n
      /\ w \in Seq(X) /\ Len(w) = m + n
      /\ \A i \in 1..(m + n) : w[i] = IF i <= m THEN s[i] ELSE t[i - m]
  BY ConcatProperties, LenProperties
<1>2. DOMAIN w = 1..(m + n)
  BY <1>1, LenProperties
<1> HIDE DEF m, n, w
<1>3. \A i \in DOMAIN w : \/ i \in DOMAIN s /\ w[i] = s[i]
                          \/ i - m \in DOMAIN t /\ w[i] = t[i - m] /\ i > m
  BY <1>1, <1>2
<1>4. \A i \in DOMAIN s : i \in DOMAIN w /\ w[i] = s[i] /\ i <= m
  BY <1>1, <1>2
<1>5. ASSUME NEW j \in DOMAIN t PROVE j + m \in DOMAIN w /\ w[j + m] = t[j] /\ j + m > m
  <2>1. j + m \in 1..(m + n) /\ ~(j + m <= m) /\ (j + m) - m = j
    BY <1>1
  <2>2. QED
    BY <1>1, <1>2, <2>1
<1>6. QED
  BY <1>1, <1>2, <1>3, <1>4, <1>5 DEF m, w

\* Events added to those on their way.
LEMMA FlowsOn ==
  ASSUME NEW l, NEW S, NEW T, NEW c \in Chunks, Chained(S), Chained(T), After(S, c, T),
         NEW s \in Seq(Events), NEW t \in Seq(Events), Flows(l, S, s), Conveys(l, c, t)
  PROVE  Flows(l, T, s \o t)
<1> DEFINE w == s \o t
           n == Len(S) + 1
           m == Len(s)
<1>1. /\ Written(l, T) = Written(l, S) \cup News(l, c)
      /\ \A ev \in Written(l, S) : Number(T, ev) = Number(S, ev) /\ Number(S, ev) \in Nat /\ Number(S, ev) < 2 * n
      /\ c.kind # "end" => Number(T, Saying(l, c)) = 2 * n + 1
      /\ c.kind = "open" => Number(T, Calling(l, c)) = 2 * n
      /\ n \in Nat
  <2>1. Len(S) \in Nat
    BY ChainedElements
  <2>2. Written(l, T) = Written(l, S) \cup News(l, c)
    BY WrittenGrows
  <2>3. /\ c.kind # "end" => Number(T, Saying(l, c)) = 2 * n + 1
        /\ c.kind = "open" => Number(T, Calling(l, c)) = 2 * n
    BY WrittenGrows
  <2>4. \A ev \in Written(l, S) : Number(T, ev) = Number(S, ev) /\ Number(S, ev) \in Nat /\ Number(S, ev) < 2 * n
    BY WrittenGrows
  <2>5. QED
    BY <2>1, <2>2, <2>3, <2>4
<1>2. /\ \A i \in DOMAIN w : \/ i \in DOMAIN s /\ w[i] = s[i]
                             \/ i - m \in DOMAIN t /\ w[i] = t[i - m] /\ i > m
      /\ \A i \in DOMAIN s : i <= m
      /\ m \in Nat /\ DOMAIN w \subseteq Nat
  BY Concatenated
<1> HIDE DEF w, n, m
<1>3. ASSUME NEW ev \in News(l, c) PROVE Number(T, ev) \in Nat /\ Number(T, ev) >= 2 * n
  BY <1>1 DEF News
<1>4. \A i \in DOMAIN w : w[i].type \in Marks => w[i] \in Written(l, T)
  BY <1>1, <1>2 DEF Flows, Conveys
<1>6. Unsigned(w)
  BY <1>2 DEF Flows, Conveys, Unsigned
<1>5. ASSUME NEW i \in DOMAIN w, NEW j \in DOMAIN w, i < j, w[i].type \in Marks, w[j].type \in Marks
      PROVE  Number(T, w[i]) < Number(T, w[j])
  <2>1. i \in Nat /\ j \in Nat
    BY <1>2
  <2>2. CASE j \in DOMAIN s /\ w[j] = s[j]
    <3>1. i \in DOMAIN s /\ w[i] = s[i]
      BY <1>2, <1>5, <2>1, <2>2
    <3>2. Number(S, s[i]) < Number(S, s[j]) /\ s[i] \in Written(l, S) /\ s[j] \in Written(l, S)
      BY <1>5, <2>2, <3>1 DEF Flows
    <3>3. QED
      BY <1>1, <2>2, <3>1, <3>2
  <2>3. CASE i \in DOMAIN s /\ w[i] = s[i] /\ j - m \in DOMAIN t /\ w[j] = t[j - m]
    <3>1. s[i] \in Written(l, S) /\ t[j - m] \in News(l, c)
      BY <1>5, <2>3 DEF Flows, Conveys
    <3>2. QED
      BY <1>1, <1>3, <2>3, <3>1
  <2>4. CASE i - m \in DOMAIN t /\ w[i] = t[i - m] /\ j - m \in DOMAIN t /\ w[j] = t[j - m]
    <3>1. i - m < j - m
      BY <1>2, <1>5, <2>1
    <3>2. t[i - m] = Calling(l, c) /\ t[j - m] = Saying(l, c) /\ c.kind = "open"
      BY <1>5, <2>4, <3>1 DEF Conveys
    <3>3. QED
      BY <1>1, <2>4, <3>2
  <2>5. QED
    BY <1>2, <2>2, <2>3, <2>4
<1>7. QED
  BY <1>4, <1>5, <1>6 DEF Flows, w

\* What is not marked does not matter.
Plainly(u) == Unsigned(u) /\ \A j \in DOMAIN u : u[j].type \notin Marks

LEMMA ConveysMore ==
  ASSUME NEW l, NEW c, NEW t \in Seq(Events), NEW u \in Seq(Events), Conveys(l, c, t), Plainly(u)
  PROVE  Conveys(l, c, u \o t) /\ Conveys(l, c, t \o u)
<1>1. Conveys(l, c, u \o t)
  <2> DEFINE w == u \o t
             m == Len(u)
  <2>1. /\ \A i \in DOMAIN w : \/ i \in DOMAIN u /\ w[i] = u[i]
                               \/ i - m \in DOMAIN t /\ w[i] = t[i - m] /\ i > m
        /\ \A j \in DOMAIN t : j + m \in DOMAIN w /\ w[j + m] = t[j]
        /\ m \in Nat /\ DOMAIN w \subseteq Nat
    BY Concatenated
  <2> HIDE DEF w, m
  <2>2. \A i \in DOMAIN w : w[i].type \in Marks => i - m \in DOMAIN t /\ w[i] = t[i - m]
    BY <2>1 DEF Plainly
  <2>3. \A i \in DOMAIN w : w[i].type \in Marks => w[i] \in News(l, c)
    BY <2>2 DEF Conveys
  <2>4. ASSUME NEW i \in DOMAIN w, NEW j \in DOMAIN w, i < j, w[i].type \in Marks, w[j].type \in Marks
        PROVE  w[i] = Calling(l, c) /\ w[j] = Saying(l, c) /\ c.kind = "open"
    <3>1. i - m < j - m /\ i - m \in DOMAIN t /\ w[i] = t[i - m] /\ j - m \in DOMAIN t /\ w[j] = t[j - m]
      BY <2>1, <2>2, <2>4
    <3>2. QED
      BY <2>4, <3>1 DEF Conveys
  <2>5. \A ev \in News(l, c) : \E j \in DOMAIN w : w[j] = ev
    BY <2>1 DEF Conveys
  <2>6. Unsigned(w)
    BY <2>1 DEF Conveys, Plainly, Unsigned
  <2>7. Conveys(l, c, w)
    BY <2>3, <2>4, <2>5, <2>6 DEF Conveys
  <2>8. QED
    BY <2>7 DEF w
<1>2. Conveys(l, c, t \o u)
  <2> DEFINE w == t \o u
             m == Len(t)
  <2>1. /\ \A i \in DOMAIN w : \/ i \in DOMAIN t /\ w[i] = t[i]
                               \/ i - m \in DOMAIN u /\ w[i] = u[i - m] /\ i > m
        /\ \A j \in DOMAIN t : j \in DOMAIN w /\ w[j] = t[j]
    BY Concatenated
  <2> HIDE DEF w, m
  <2>2. \A i \in DOMAIN w : w[i].type \in Marks => i \in DOMAIN t /\ w[i] = t[i]
    BY <2>1 DEF Plainly
  <2>3. \A i \in DOMAIN w : w[i].type \in Marks => w[i] \in News(l, c)
    BY <2>2 DEF Conveys
  <2>4. ASSUME NEW i \in DOMAIN w, NEW j \in DOMAIN w, i < j, w[i].type \in Marks, w[j].type \in Marks
        PROVE  w[i] = Calling(l, c) /\ w[j] = Saying(l, c) /\ c.kind = "open"
    BY <2>2, <2>4 DEF Conveys
  <2>5. \A ev \in News(l, c) : \E j \in DOMAIN w : w[j] = ev
    BY <2>1 DEF Conveys
  <2>6. Unsigned(w)
    BY <2>1 DEF Conveys, Plainly, Unsigned
  <2>7. Conveys(l, c, w)
    BY <2>3, <2>4, <2>5, <2>6 DEF Conveys
  <2>8. QED
    BY <2>7 DEF w
<1>3. QED
  BY <1>1, <1>2

LEMMA ConveysPiece ==
  ASSUME NEW l, NEW c, c.kind \in {"text", "think", "args"}
  PROVE  Conveys(l, c, <<Saying(l, c)>>)
<1> DEFINE t == <<Saying(l, c)>>
<1>1. DOMAIN t = {1} /\ t[1] = Saying(l, c)
  OBVIOUS
<1>2. News(l, c) = {Saying(l, c)}
  BY DEF News
<1>3. Saying(l, c).type # "sig"
  BY DEF Saying, Ev, EventOf, IsCall
<1> HIDE DEF t
<1>4. QED
  BY <1>1, <1>2, <1>3 DEF Conveys, Unsigned, t

LEMMA ConveysCall ==
  ASSUME NEW l, NEW c, c.kind = "open"
  PROVE  Conveys(l, c, <<Calling(l, c), Saying(l, c)>>)
<1> DEFINE t == <<Calling(l, c), Saying(l, c)>>
<1>1. DOMAIN t = {1, 2} /\ t[1] = Calling(l, c) /\ t[2] = Saying(l, c)
  OBVIOUS
<1>2. News(l, c) = {Saying(l, c), Calling(l, c)}
  BY DEF News
<1>3. Saying(l, c).type # "sig" /\ Calling(l, c).type # "sig"
  BY DEF Saying, Calling, Ev, EventOf, IsCall
<1> HIDE DEF t
<1>4. QED
  BY <1>1, <1>2, <1>3 DEF Conveys, Unsigned, t

LEMMA Typed ==
  ASSUME NEW c, Fits(c), lane \in Lanes, c.kind # "end"
  PROVE  /\ Saying(lane, c) \in Events
         /\ c.kind = "open" => Calling(lane, c) \in Events
<1>1. c.kind \in Pieces /\ c.item \in Nat /\ c.piece \in Nat /\ (IsCall(c) => c.call \in Nat)
  BY DEF Fits, Chunks, IsCall
<1>2. Index(lane, c) \in Nat
  BY <1>1 DEF Index
<1>3. EventOf(c) \in EventTypes /\ "call" \in EventTypes
  BY <1>1 DEF EventOf, IsCall, Pieces, EventTypes
<1>4. \A n \in Nat : n \in Values
  BY DEF Values
<1>5. Saying(lane, c) \in Events
  BY <1>1, <1>2, <1>3, <1>4, EvType DEF Saying
<1>6. c.kind = "open" => Calling(lane, c) \in Events
  BY <1>1, <1>2, <1>3, <1>4, EvType DEF Calling, IsCall
<1>7. QED
  BY <1>5, <1>6

LEMMA PlainEvent ==
  ASSUME NEW type \in EventTypes \ Marks, NEW ix \in Nat, NEW x \in Values, type = "sig" => x = None,
         NEW b
  PROVE  /\ When(b, Ev(type, ix, x)) \in Seq(Events) /\ Plainly(When(b, Ev(type, ix, x)))
         /\ <<Ev(type, ix, x)>> \in Seq(Events) /\ Plainly(<<Ev(type, ix, x)>>)
<1> DEFINE ev == Ev(type, ix, x)
<1>1. ev \in Events /\ ev.type = type /\ ev.x = x
  BY EvType
<1> HIDE DEF ev
<1>2. <<ev>> \in Seq(Events) /\ <<>> \in Seq(Events)
  BY <1>1, EmptySeq
<1>3. Plainly(<<ev>>) /\ Plainly(<<>>)
  BY <1>1 DEF Plainly, Unsigned
<1>4. QED
  BY <1>2, <1>3 DEF When, ev

\* Every lane makes of a chunk what conveys it.
LEMMA Translates ==
  ASSUME NEW c, Fits(c), lane \in Lanes
  PROVE  Conveys(lane, c, Translate(lane, c)) /\ Translate(lane, c) \in Seq(Events)
<1> DEFINE piece == <<Saying(lane, c)>>
           call == <<Calling(lane, c), Saying(lane, c)>>
<1>1. c.kind \in Pieces
  BY DEF Fits, Chunks
<1>2. /\ None \in Values /\ "text" \in Values /\ 0 \in Nat /\ c.item \in Nat
      /\ {"block", "sig", "callstop", "usage", "stop", "start"} \subseteq EventTypes \ Marks
  BY ValueTypes DEF EventTypes, Marks, Fits
<1>3. c.kind # "end" => piece \in Seq(Events)
  BY Typed
<1>4. c.kind = "open" => call \in Seq(Events) /\ Conveys(lane, c, call)
  BY Typed, ConveysCall
<1>5. c.kind \in {"text", "think", "args"} => Conveys(lane, c, piece)
  BY ConveysPiece
<1>6. ASSUME c.kind = "end"
      PROVE  Conveys(lane, c, Translate(lane, c)) /\ Translate(lane, c) \in Seq(Events)
  <2> DEFINE u == <<Ev("usage", 0, None), Ev("stop", 0, None)>>
  <2>1. Translate(lane, c) = u
    BY <1>6 DEF Translate, FromChunk, FromGemini, FromResponses, Lanes
  <2>2. /\ Ev("usage", 0, None) \in Events /\ Ev("usage", 0, None).type = "usage"
        /\ Ev("stop", 0, None) \in Events /\ Ev("stop", 0, None).type = "stop"
    BY <1>2, EvType
  <2>3. u \in Seq(Events) /\ DOMAIN u = {1, 2} /\ u[1].type = "usage" /\ u[2].type = "stop"
    BY <2>2
  <2>4. News(lane, c) = {}
    BY <1>6 DEF News
  <2> HIDE DEF u
  <2>5. \A j \in DOMAIN u : u[j].type \notin Marks /\ u[j].type # "sig"
    BY <2>3 DEF Marks
  <2>6. QED
    BY <2>1, <2>3, <2>4, <2>5 DEF Conveys, Unsigned
<1>7. ASSUME c.kind # "end", lane \in {"hub", "codex", "chat"}
      PROVE  Conveys(lane, c, Translate(lane, c)) /\ Translate(lane, c) \in Seq(Events)
  <2>1. Translate(lane, c) = FromChunk(lane, c)
    BY <1>7 DEF Translate
  <2>2. CASE c.kind \in {"text", "think"}
    <3>1. FromChunk(lane, c) = piece
      BY <1>7, <2>2 DEF FromChunk, Saying, EventOf, Index, IsCall
    <3>2. QED
      BY <1>3, <1>5, <2>1, <2>2, <3>1
  <2>3. CASE c.kind \in {"open", "args"}
    <3> DEFINE stop == When(lane \in {"hub", "codex"}, Ev("callstop", c.call, None))
    <3>1. stop \in Seq(Events) /\ Plainly(stop)
      <4>1. c.call \in Nat
        BY <2>3 DEF Fits
      <4>2. QED
        BY <1>2, <4>1, PlainEvent
    <3>2. FromChunk(lane, c) = IF c.kind = "open" THEN call \o stop ELSE piece \o stop
      BY <1>7, <2>3 DEF FromChunk, Saying, Calling, EventOf, Index, IsCall
    <3> HIDE DEF stop, call, piece
    <3>3. QED
      BY <1>3, <1>4, <1>5, <2>1, <2>3, <3>1, <3>2, ConveysMore, Concatenated
  <2>4. QED
    BY <1>1, <1>7, <2>2, <2>3 DEF Pieces
<1>8. ASSUME c.kind # "end", lane = "gemini"
      PROVE  Conveys(lane, c, Translate(lane, c)) /\ Translate(lane, c) \in Seq(Events)
  <2>1. Translate(lane, c) = FromGemini(c) /\ c.kind # "args"
    BY <1>8 DEF Translate, Fits
  <2>2. CASE c.kind = "text"
    <3>1. FromGemini(c) = piece
      BY <1>8, <2>2 DEF FromGemini, Saying, EventOf, Index, IsCall
    <3>2. QED
      BY <1>3, <1>5, <2>1, <2>2, <3>1
  <2>3. CASE c.kind = "think"
    <3> DEFINE sig == <<Ev("sig", 0, None)>>
    <3>1. sig \in Seq(Events) /\ Plainly(sig)
      BY <1>2, PlainEvent
    <3>2. FromGemini(c) = sig \o piece
      BY <1>8, <2>3 DEF FromGemini, Saying, EventOf, Index, IsCall
    <3> HIDE DEF sig, piece
    <3>3. QED
      BY <1>3, <1>5, <2>1, <2>3, <3>1, <3>2, ConveysMore, Concatenated
  <2>4. CASE c.kind = "open"
    <3> DEFINE stop == <<Ev("callstop", 0, None)>>
    <3>1. stop \in Seq(Events) /\ Plainly(stop)
      BY <1>2, PlainEvent
    <3>2. FromGemini(c) = call \o stop
      BY <1>8, <2>4 DEF FromGemini, Saying, Calling, EventOf, Index, IsCall
    <3> HIDE DEF stop, call
    <3>3. QED
      BY <1>4, <2>1, <2>4, <3>1, <3>2, ConveysMore, Concatenated
  <2>5. QED
    BY <1>1, <1>8, <2>1, <2>2, <2>3, <2>4 DEF Pieces
<1>9. ASSUME c.kind # "end", lane = "responses"
      PROVE  Conveys(lane, c, Translate(lane, c)) /\ Translate(lane, c) \in Seq(Events)
  <2>1. Translate(lane, c) = FromResponses(c)
    BY <1>9 DEF Translate
  <2>2. CASE c.kind \in {"text", "think"}
    <3> DEFINE added == When(c.new, Ev("block", c.item, "text"))
    <3>1. added \in Seq(Events) /\ Plainly(added)
      BY <1>2, PlainEvent
    <3>2. FromResponses(c) = added \o piece
      BY <1>9, <2>2 DEF FromResponses, Saying, EventOf, Index, IsCall
    <3> HIDE DEF added, piece
    <3>3. QED
      BY <1>3, <1>5, <2>1, <2>2, <3>1, <3>2, ConveysMore, Concatenated
  <2>3. CASE c.kind \in {"open", "args"}
    <3>1. FromResponses(c) = IF c.kind = "open" THEN call ELSE piece
      BY <1>9, <2>3 DEF FromResponses, Saying, Calling, EventOf, Index, IsCall
    <3>2. QED
      BY <1>3, <1>4, <1>5, <2>1, <2>3, <3>1
  <2>4. QED
    BY <1>1, <1>9, <2>2, <2>3 DEF Pieces
<1>10. QED
  BY <1>6, <1>7, <1>8, <1>9 DEF Lanes

LEMMA MadeConveys ==
  ASSUME NEW c, Fits(c), lane \in Lanes
  PROVE  Conveys(lane, c, Made(c)) /\ Made(c) \in Seq(Events)
<1> DEFINE t == Translate(lane, c)
           u == IF sent = <<>> THEN Opening(lane) ELSE <<>>
<1>1. Conveys(lane, c, t) /\ t \in Seq(Events)
  BY Translates
<1>2. u \in Seq(Events) /\ Plainly(u)
  <2>1. Opening(lane) \in Seq(Events) /\ Plainly(Opening(lane))
    BY PlainEvent, ValueTypes DEF Opening, EventTypes, Marks
  <2>2. <<>> \in Seq(Events) /\ Plainly(<<>>)
    BY EmptySeq DEF Plainly, Unsigned
  <2>3. QED
    BY <2>1, <2>2
<1>3. Made(c) = u \o t
  BY DEF Made
<1> HIDE DEF t, u
<1>4. QED
  BY <1>1, <1>2, <1>3, ConveysMore, Concatenated

\* The first of what is on its way, and what is left when it is taken.
LEMMA FlowsTail ==
  ASSUME NEW l, NEW S, NEW s \in Seq(Events), s # <<>>, Flows(l, S, s)
  PROVE  /\ Flows(l, S, Tail(s))
         /\ s[1].type \in Marks => s[1] \in Written(l, S)
         /\ \A j \in DOMAIN Tail(s) : s[1].type \in Marks /\ Tail(s)[j].type \in Marks =>
              Number(S, s[1]) < Number(S, Tail(s)[j])
         /\ \A j \in DOMAIN s : s[j] = s[1] \/ \E i \in DOMAIN Tail(s) : Tail(s)[i] = s[j]
         /\ \A j \in DOMAIN Tail(s) : \E i \in DOMAIN s : Tail(s)[j] = s[i]
<1> DEFINE n == Len(s)
           t == Tail(s)
<1>1. n \in Nat /\ n > 0 /\ DOMAIN s = 1..n
  BY SequenceElements
<1>2. t \in Seq(Events) /\ Len(t) = n - 1 /\ \A i \in 1..Len(t) : t[i] = s[i + 1]
  BY HeadTailProperties
<1>3. DOMAIN t = 1..(n - 1)
  BY <1>2, SequenceElements
<1> HIDE DEF n, t
<1>4. \A i \in DOMAIN t : i + 1 \in DOMAIN s /\ t[i] = s[i + 1] /\ 1 < i + 1 /\ i \in Nat
  BY <1>1, <1>2, <1>3
<1>5. 1 \in DOMAIN s
  BY <1>1
<1>6. ASSUME NEW i \in DOMAIN t, NEW j \in DOMAIN t, i < j, t[i].type \in Marks, t[j].type \in Marks
      PROVE  Number(S, t[i]) < Number(S, t[j])
  <2>1. i + 1 < j + 1
    BY <1>4, <1>6
  <2>2. QED
    BY <1>4, <1>6, <2>1 DEF Flows
<1>7. Flows(l, S, t)
  BY <1>4, <1>6 DEF Flows, Unsigned
<1>8. ASSUME NEW j \in DOMAIN s PROVE s[j] = s[1] \/ \E i \in DOMAIN t : t[i] = s[j]
  <2>1. CASE j # 1
    <3>1. j - 1 \in DOMAIN t /\ (j - 1) + 1 = j
      BY <1>1, <1>3, <2>1
    <3>2. t[j - 1] = s[j]
      BY <1>4, <3>1
    <3>3. QED
      BY <3>1, <3>2
  <2>2. QED
    BY <2>1
<1>9. QED
  BY <1>4, <1>5, <1>7, <1>8 DEF Flows, t

SomeOf(s, t) == \A j \in DOMAIN s : \E i \in DOMAIN t : s[j] = t[i]
AllBut(s, ev, t) == \A i \in DOMAIN s : s[i] = ev \/ \E j \in DOMAIN t : t[j] = s[i]

\* A thought dropped from the middle.
LEMMA FlowsDropped ==
  ASSUME NEW l, NEW S, NEW s \in Seq(Events), NEW t \in Seq(Events), NEW ev \in Events,
         Flows(l, S, s \o (<<ev>> \o t))
  PROVE  /\ Flows(l, S, s \o t)
         /\ SomeOf(s \o t, s \o (<<ev>> \o t)) /\ AllBut(s \o (<<ev>> \o t), ev, s \o t)
<1> DEFINE whole == s \o (<<ev>> \o t)
           rest == s \o t
           m == Len(s)
           n == Len(rest)
<1>1. /\ whole \in Seq(Events) /\ rest \in Seq(Events)
      /\ m \in Nat /\ n \in Nat /\ n >= m /\ Len(whole) = n + 1 /\ whole[m + 1] = ev
      /\ \A i \in 1..n : rest[i] = IF i <= m THEN whole[i] ELSE whole[i + 1]
  <2>1. /\ whole \in Seq(Events) /\ rest \in Seq(Events)
        /\ m \in Nat /\ n \in Nat /\ n >= m /\ Len(whole) = n + 1 /\ whole[m + 1] = ev
    BY MiddleDropped
  <2>2. \A i \in 1..n : rest[i] = IF i <= m THEN whole[i] ELSE whole[i + 1]
    BY MiddleDropped
  <2>3. QED
    BY <2>1, <2>2
<1>2. DOMAIN whole = 1..(n + 1) /\ DOMAIN rest = 1..n
  BY <1>1, SequenceElements
<1> HIDE DEF whole, rest, m, n
<1> DEFINE at == [i \in 1..n |-> IF i <= m THEN i ELSE i + 1]
<1>3. /\ \A i \in DOMAIN rest : at[i] \in DOMAIN whole /\ rest[i] = whole[at[i]]
      /\ \A i, j \in DOMAIN rest : i < j => at[i] < at[j]
  BY <1>1, <1>2
<1> HIDE DEF at
<1>4. Flows(l, S, rest)
  BY <1>3 DEF Flows, Unsigned, whole
<1>5. ASSUME NEW i \in DOMAIN whole
      PROVE  whole[i] = ev \/ \E j \in DOMAIN rest : rest[j] = whole[i]
  <2>1. CASE i <= m
    BY <1>1, <1>2, <2>1
  <2>2. CASE i = m + 1
    BY <1>1, <2>2
  <2>3. CASE i > m + 1
    <3>1. i - 1 \in DOMAIN rest /\ ~(i - 1 <= m) /\ (i - 1) + 1 = i
      BY <1>1, <1>2, <2>3
    <3>2. rest[i - 1] = whole[i]
      BY <1>1, <1>2, <3>1
    <3>3. QED
      BY <3>1, <3>2
  <2>4. QED
    BY <1>1, <1>2, <2>1, <2>2, <2>3
<1>6. SomeOf(rest, whole) /\ AllBut(whole, ev, rest)
  BY <1>3, <1>5 DEF SomeOf, AllBut
<1>7. QED
  BY <1>4, <1>6 DEF whole, rest

-----------------------------------------------------------------------------
(***************************************************************************)
(* What the encoders make of an event tells the client that event, once,   *)
(* and nothing else.                                                       *)
(***************************************************************************)
Hush(cl, g) == \A i \in DOMAIN g : ~Telling(cl, g[i])

TellsOnly(cl, g, ev) ==
  IF ev.type \in Marks
  THEN \E k \in DOMAIN g : Tells(cl, g[k], ev) /\ \A i \in DOMAIN g : Telling(cl, g[i]) => i = k
  ELSE Hush(cl, g)

LEMMA TellingIs ==
  ASSUME NEW cl, NEW fr, NEW ev, Tells(cl, fr, ev)
  PROVE  Telling(cl, fr)
BY DEF Tells, Telling

LEMMA HushNothing == \A cl : Hush(cl, <<>>) /\ <<>> \in Seq(FrameSet)
BY EmptySeq DEF Hush

LEMMA HushAppended ==
  ASSUME NEW cl, NEW g \in Seq(FrameSet), NEW x \in FrameSet, Hush(cl, g), ~Telling(cl, x)
  PROVE  Hush(cl, Append(g, x)) /\ Append(g, x) \in Seq(FrameSet)
<1> DEFINE h == Append(g, x)
           n == Len(g)
<1>1. /\ h \in Seq(FrameSet) /\ n \in Nat /\ DOMAIN g = 1..n /\ DOMAIN h = 1..(n + 1)
      /\ \A i \in 1..n : h[i] = g[i]
      /\ h[n + 1] = x
  BY FramesAppended
<1> HIDE DEF h, n
<1>2. \A i \in DOMAIN h : (i \in DOMAIN g /\ h[i] = g[i]) \/ h[i] = x
  BY <1>1
<1>3. QED
  BY <1>1, <1>2 DEF Hush, h

LEMMA HushOne ==
  ASSUME NEW cl, NEW x \in FrameSet, ~Telling(cl, x)
  PROVE  Hush(cl, <<x>>) /\ <<x>> \in Seq(FrameSet)
BY DEF Hush

LEMMA TellsAppended ==
  ASSUME NEW cl, NEW g \in Seq(FrameSet), NEW x \in FrameSet, Hush(cl, g), NEW ev,
         ev.type \in Marks, Tells(cl, x, ev)
  PROVE  TellsOnly(cl, Append(g, x), ev) /\ Append(g, x) \in Seq(FrameSet)
<1> DEFINE h == Append(g, x)
           n == Len(g)
<1>1. /\ h \in Seq(FrameSet) /\ n \in Nat /\ DOMAIN g = 1..n /\ DOMAIN h = 1..(n + 1)
      /\ \A i \in 1..n : h[i] = g[i]
      /\ h[n + 1] = x
  BY FramesAppended
<1> HIDE DEF h, n
<1>2. \A i \in DOMAIN h : (i \in DOMAIN g /\ h[i] = g[i]) \/ i = n + 1
  BY <1>1
<1>3. \A i \in DOMAIN h : Telling(cl, h[i]) => i = n + 1
  BY <1>2 DEF Hush
<1>4. n + 1 \in DOMAIN h
  BY <1>1
<1>5. QED
  BY <1>1, <1>3, <1>4 DEF TellsOnly, h

-----------------------------------------------------------------------------
(***************************************************************************)
(* OpenAIStreamEncoder.                                                    *)
(***************************************************************************)
LEMMA WithRoleTells ==
  ASSUME NEW e, NEW x \in FrameSet, NEW ev, ev.type \in Marks, Tells("openai", x, ev)
  PROVE  LET g == WithRole(e, x).frames IN TellsOnly("openai", g, ev) /\ g \in Seq(FrameSet)
<1> DEFINE u == When(~e.started, Plain("role"))
<1>1. Plain("role") \in FrameSet /\ ~Telling("openai", Plain("role"))
  <2>1. Plain("role") \in FrameSet /\ Plain("role").f = "role"
    BY PlainType DEF FrameTypes
  <2>2. QED
    BY <2>1 DEF Telling, CallFrame, PieceFrame
<1>2. u \in Seq(FrameSet) /\ Hush("openai", u)
  BY <1>1, HushOne, HushNothing DEF When
<1>3. WithRole(e, x).frames = u \o <<x>>
  BY DEF WithRole, Out
<1> HIDE DEF u
<1>4. u \o <<x>> = Append(u, x)
  BY <1>2, AppendIsConcat
<1>5. QED
  BY <1>2, <1>3, <1>4, TellsAppended

LEMMA OpenAITells ==
  ASSUME NEW e, NEW ev \in Events
  PROVE  LET g == OpenAIEvent(e, ev).frames IN TellsOnly("openai", g, ev) /\ g \in Seq(FrameSet)
<1>0. "" \in Values /\ None \in Int /\ None \in Values
  BY ValueTypes
<1>1. ev.type \in EventTypes /\ ev.ix \in Int /\ ev.x \in Values /\ "" \in Values /\ None \in Int
  <2>1. ev.type \in EventTypes /\ ev.ix \in Nat /\ ev.x \in Values
    BY DEF Events
  <2>2. ev.ix \in Int
    BY <2>1
  <2>3. QED
    BY <1>0, <2>1, <2>2
<1>2. {"content", "reasoning", "call", "args"} \subseteq FrameTypes
  BY DEF FrameTypes
<1>3. CASE ev.type = "text"
  <2> DEFINE x == Frame("content", None, "", ev.x)
  <2>1. x \in FrameSet
    BY <1>1, <1>2, FrameType
  <2>2. Tells("openai", x, ev)
    BY <1>3 DEF Tells, Frame, PieceFrame, FrameOf
  <2>3. OpenAIEvent(e, ev).frames = WithRole(e, x).frames
    BY <1>3 DEF OpenAIEvent
  <2> HIDE DEF x
  <2>4. ev.type \in Marks
    BY <1>3 DEF Marks
  <2>5. QED
    BY <2>1, <2>2, <2>3, <2>4, WithRoleTells
<1>4. CASE ev.type = "think"
  <2> DEFINE x == Frame("reasoning", None, "", ev.x)
  <2>1. x \in FrameSet
    BY <1>1, <1>2, FrameType
  <2>2. Tells("openai", x, ev)
    BY <1>4 DEF Tells, Frame, PieceFrame, FrameOf
  <2>3. OpenAIEvent(e, ev).frames = WithRole(e, x).frames
    BY <1>4 DEF OpenAIEvent
  <2> HIDE DEF x
  <2>4. ev.type \in Marks
    BY <1>4 DEF Marks
  <2>5. QED
    BY <2>1, <2>2, <2>3, <2>4, WithRoleTells
<1>5. CASE ev.type = "call"
  <2> DEFINE x == Frame("call", ev.ix, "", ev.x)
             d == [e EXCEPT !.sawToolCalls = TRUE]
  <2>1. x \in FrameSet
    BY <1>1, <1>2, FrameType
  <2>2. Tells("openai", x, ev)
    BY <1>5 DEF Tells, Frame, CallFrame
  <2>3. OpenAIEvent(e, ev).frames = WithRole(d, x).frames
    BY <1>5 DEF OpenAIEvent
  <2> HIDE DEF x, d
  <2>4. ev.type \in Marks
    BY <1>5 DEF Marks
  <2>5. QED
    BY <2>1, <2>2, <2>3, <2>4, WithRoleTells
<1>6. CASE ev.type = "args"
  <2> DEFINE x == Frame("args", ev.ix, "", ev.x)
  <2>1. x \in FrameSet
    BY <1>1, <1>2, FrameType
  <2>2. Tells("openai", x, ev)
    BY <1>6 DEF Tells, Frame, PieceFrame, FrameOf
  <2>3. OpenAIEvent(e, ev).frames = <<x>>
    BY <1>6 DEF OpenAIEvent, Out
  <2>4. <<x>> = Append(<<>>, x)
    OBVIOUS
  <2> HIDE DEF x
  <2>5. ev.type \in Marks
    BY <1>6 DEF Marks
  <2>6. QED
    BY <2>1, <2>2, <2>3, <2>4, <2>5, TellsAppended, HushNothing
<1>7. CASE ev.type \notin Marks
  <2>1. ASSUME NEW x \in FrameSet, x.f \notin {"content", "reasoning", "args", "call"}
        PROVE  Hush("openai", <<x>>) /\ <<x>> \in Seq(FrameSet)
    <3>1. ~Telling("openai", x)
      BY <2>1 DEF Telling, CallFrame, PieceFrame
    <3>2. QED
      BY <3>1, HushOne
  <2> DEFINE role == Plain("role")
             error == Plain("error")
  <2>2. /\ role \in FrameSet /\ role.f = "role" /\ error \in FrameSet /\ error.f = "error"
    BY PlainType DEF FrameTypes
  <2>3. ev.type \notin {"text", "think", "call", "args"}
    BY <1>7 DEF Marks
  <2>4. CASE ev.type = "start"
    <3>1. OpenAIEvent(e, ev).frames = When(~e.started, role)
      BY <2>4 DEF OpenAIEvent, Out
    <3> HIDE DEF role
    <3>2. QED
      BY <1>7, <2>1, <2>2, <3>1, HushNothing DEF When, TellsOnly
  <2>5. CASE ev.type = "stop" /\ ~e.stopped
    <3> DEFINE x == Frame("finish", None, IF e.sawToolCalls THEN "tool_calls" ELSE "stop", None)
    <3>2. x \in FrameSet /\ x.f = "finish"
      <4>1. (IF e.sawToolCalls THEN "tool_calls" ELSE "stop") \in Values /\ "finish" \in FrameTypes
        BY ValueTypes DEF FrameTypes
      <4>2. QED
        BY <1>0, <4>1 DEF Frame, FrameSet
    <3>3. OpenAIEvent(e, ev).frames = <<x>>
      BY <2>5 DEF OpenAIEvent, Out
    <3> HIDE DEF x
    <3>4. QED
      BY <1>7, <2>1, <3>2, <3>3 DEF TellsOnly
  <2>6. CASE ev.type = "error"
    <3>1. OpenAIEvent(e, ev).frames = <<error>>
      BY <2>6 DEF OpenAIEvent, Out
    <3> HIDE DEF error
    <3>2. QED
      BY <1>7, <2>1, <2>2, <3>1 DEF TellsOnly
  <2>7. CASE ev.type \notin {"start", "error"} /\ ~(ev.type = "stop" /\ ~e.stopped)
    <3>1. OpenAIEvent(e, ev).frames = <<>>
      BY <2>3, <2>7 DEF OpenAIEvent, Out
    <3>2. QED
      BY <1>7, <3>1, HushNothing DEF TellsOnly
  <2>8. QED
    BY <2>4, <2>5, <2>6, <2>7
<1>8. QED
  BY <1>3, <1>4, <1>5, <1>6, <1>7 DEF Marks

LEMMA OpenAICloseHush ==
  ASSUME NEW e
  PROVE  LET g == OpenAIClose(e, TRUE).frames IN Hush("openai", g) /\ g \in Seq(FrameSet)
<1> DEFINE done == Plain("[DONE]")
           u == When(TRUE /\ e.usage, Plain("usage"))
<1>1. /\ Plain("usage") \in FrameSet /\ Plain("usage").f = "usage"
      /\ done \in FrameSet /\ done.f = "[DONE]"
  BY PlainType DEF FrameTypes
<1>2. ~Telling("openai", Plain("usage")) /\ ~Telling("openai", done)
  BY <1>1 DEF Telling, CallFrame, PieceFrame
<1>3. u \in Seq(FrameSet) /\ Hush("openai", u)
  BY <1>1, <1>2, HushOne, HushNothing DEF When
<1>4. OpenAIClose(e, TRUE).frames = IF e.closed THEN <<>> ELSE u \o <<done>>
  BY DEF OpenAIClose, Out
<1> HIDE DEF u, done
<1>5. u \o <<done>> = Append(u, done)
  BY <1>1, <1>3, AppendIsConcat
<1>6. QED
  BY <1>1, <1>2, <1>3, <1>4, <1>5, HushAppended, HushNothing

-----------------------------------------------------------------------------
(***************************************************************************)
(* AnthropicStreamEncoder.  It also starts no block again that it has      *)
(* written to, unless for a call.                                          *)
(***************************************************************************)
LEMMA BegunAppended ==
  ASSUME NEW e, NEW d, NEW fr \in Seq(FrameSet), NEW x \in FrameSet, StartsOnce(fr), Begun(e, fr),
         e.begun \subseteq d.begun,
         x.f \in {"delta", "block_start"} => x.ix \in d.begun,
         x.f = "block_start" /\ x.x = None => x.ix \notin e.begun
  PROVE  StartsOnce(Append(fr, x)) /\ Begun(d, Append(fr, x))
<1> DEFINE h == Append(fr, x)
           n == Len(fr)
<1>1. /\ n \in Nat /\ DOMAIN fr = 1..n /\ DOMAIN h = 1..(n + 1)
      /\ \A i \in 1..n : h[i] = fr[i]
      /\ h[n + 1] = x
  BY FramesAppended
<1> HIDE DEF h, n
<1>2. \A i \in DOMAIN h : (i \in DOMAIN fr /\ h[i] = fr[i] /\ i < n + 1) \/ (i = n + 1 /\ h[i] = x)
  BY <1>1
<1>3. Begun(d, h)
  BY <1>2 DEF Begun
<1>4. ASSUME NEW i \in DOMAIN h, NEW j \in DOMAIN h, i < j, h[j].f = "block_start", h[j].x = None,
             h[i].f \in {"delta", "block_start"}
      PROVE  h[i].ix # h[j].ix
  <2>1. i \in DOMAIN fr /\ h[i] = fr[i]
    BY <1>1, <1>2, <1>4
  <2>2. CASE j \in DOMAIN fr /\ h[j] = fr[j]
    BY <1>4, <2>1, <2>2 DEF StartsOnce
  <2>3. CASE j = n + 1 /\ h[j] = x
    BY <1>4, <2>1, <2>3 DEF Begun
  <2>4. QED
    BY <1>2, <2>2, <2>3
<1>5. QED
  BY <1>3, <1>4 DEF StartsOnce, h

\* What an encoder has written that tells nothing.
Quietly(cl, o, fr) ==
  /\ o.e \in AnthropicEncoders /\ o.frames \in Seq(FrameSet) /\ Hush(cl, o.frames)
  /\ StartsOnce(fr \o o.frames) /\ Begun(o.e, fr \o o.frames)

\* One frame more.
LEMMA WritesMore ==
  ASSUME NEW cl, cl # "openai", NEW o, NEW fr \in Seq(FrameSet), Quietly(cl, o, fr),
         NEW d \in AnthropicEncoders, NEW x \in FrameSet,
         o.e.begun \subseteq d.begun,
         x.f \in {"delta", "block_start"} => x.ix \in d.begun,
         x.f = "block_start" /\ x.x = None => x.ix \notin o.e.begun
  PROVE  LET p == Out(d, Append(o.frames, x))
         IN  /\ p.e = d /\ p.frames = Append(o.frames, x) /\ p.frames \in Seq(FrameSet)
             /\ StartsOnce(fr \o p.frames) /\ Begun(p.e, fr \o p.frames)
             /\ x.x = None \/ x.f \notin {"delta", "block_start"} => Quietly(cl, p, fr)
<1> DEFINE g == fr \o o.frames
<1>1. o.frames \in Seq(FrameSet) /\ StartsOnce(g) /\ Begun(o.e, g)
  BY DEF Quietly
<1>2. g \in Seq(FrameSet) /\ fr \o Append(o.frames, x) = Append(g, x)
  BY <1>1, ConcatProperties, FrameConcat
<1> HIDE DEF g
<1> DEFINE b == o.e
<1>3. Begun(b, g) /\ b.begun \subseteq d.begun /\ (x.f = "block_start" /\ x.x = None => x.ix \notin b.begun)
  BY <1>1
<1> HIDE DEF b
<1>4. StartsOnce(Append(g, x)) /\ Begun(d, Append(g, x))
  BY <1>1, <1>2, <1>3, BegunAppended
<1>5. Append(o.frames, x) \in Seq(FrameSet)
  BY <1>1, AppendProperties
<1>6. ASSUME x.x = None \/ x.f \notin {"delta", "block_start"}
      PROVE  Hush(cl, Append(o.frames, x))
  <2>1. ~Telling(cl, x)
    BY <1>6 DEF Telling, CallFrame, PieceFrame
  <2>2. Hush(cl, o.frames)
    BY DEF Quietly
  <2>3. QED
    BY <1>1, <2>1, <2>2, HushAppended
<1>7. QED
  BY <1>2, <1>4, <1>5, <1>6 DEF Out, Quietly

\* A frame more that is neither of a block's content nor its start.
LEMMA QuietMore ==
  ASSUME NEW cl, cl # "openai", NEW o, NEW fr \in Seq(FrameSet), Quietly(cl, o, fr),
         NEW d \in AnthropicEncoders, NEW x \in FrameSet,
         d.begun = o.e.begun, x.f \notin {"delta", "block_start"}
  PROVE  Out(d, Append(o.frames, x)).e = d /\ Quietly(cl, Out(d, Append(o.frames, x)), fr)
<1>1. /\ o.e.begun \subseteq d.begun
      /\ x.f \in {"delta", "block_start"} => x.ix \in d.begun
      /\ x.f = "block_start" /\ x.x = None => x.ix \notin o.e.begun
  OBVIOUS
<1>2. LET p == Out(d, Append(o.frames, x))
      IN  p.e = d /\ (x.x = None \/ x.f \notin {"delta", "block_start"} => Quietly(cl, p, fr))
  BY <1>1, WritesMore
<1>3. QED
  BY <1>2

LEMMA NothingQuiet ==
  ASSUME NEW cl, NEW e \in AnthropicEncoders, NEW fr \in Seq(FrameSet), StartsOnce(fr), Begun(e, fr)
  PROVE  Quietly(cl, Out(e, <<>>), fr)
<1>1. fr \o <<>> = fr
  BY ConcatEmptySeq
<1>2. QED
  BY <1>1, HushNothing DEF Quietly, Out

LEMMA EnsureQuiet ==
  ASSUME NEW cl, cl # "openai", NEW e \in AnthropicEncoders, NEW fr \in Seq(FrameSet),
         StartsOnce(fr), Begun(e, fr)
  PROVE  LET o == EnsureMessageStart(e) IN Quietly(cl, o, fr) /\ o.e.begun = e.begun
<1> DEFINE d == [e EXCEPT !.started = TRUE]
           x == Plain("message_start")
           o == Out(e, <<>>)
<1>1. d \in AnthropicEncoders /\ d.begun = e.begun
  BY DEF AnthropicEncoders
<1>2. x \in FrameSet /\ x.f = "message_start"
  BY PlainType DEF FrameTypes
<1>3. Quietly(cl, o, fr) /\ o.e = e /\ o.frames = <<>>
  BY NothingQuiet DEF Out
<1>4. CASE e.started
  <2>1. d = e
    BY <1>4 DEF AnthropicEncoders
  <2>2. EnsureMessageStart(e) = o
    BY <1>4, <2>1 DEF EnsureMessageStart, When
  <2>3. QED
    BY <1>3, <2>2
<1>5. CASE ~e.started
  <2>1. EnsureMessageStart(e) = Out(d, Append(<<>>, x))
    <3>1. Append(<<>>, x) = <<x>>
      OBVIOUS
    <3>2. QED
      BY <1>5, <3>1 DEF EnsureMessageStart, When
  <2> HIDE DEF d, x, o
  <2>2. LET p == Out(d, Append(o.frames, x)) IN p.e = d /\ Quietly(cl, p, fr)
    <3>1. d.begun = o.e.begun /\ x.f \notin {"delta", "block_start"}
      BY <1>1, <1>2, <1>3
    <3>2. QED
      BY <1>1, <1>2, <1>3, <3>1, QuietMore
  <2>3. QED
    BY <1>1, <1>3, <2>1, <2>2
<1>6. QED
  BY <1>4, <1>5

LEMMA StopQuiet ==
  ASSUME NEW cl, cl # "openai", NEW o, NEW fr \in Seq(FrameSet), Quietly(cl, o, fr), NEW ix
  PROVE  LET p == StopActiveBlock(o, ix) IN Quietly(cl, p, fr) /\ p.e.begun = o.e.begun
<1> DEFINE d == [o.e EXCEPT !.open = None]
           x == Frame("block_stop", o.e.open, "", None)
<1>1. CASE o.e.open \in {None, ix}
  BY <1>1 DEF StopActiveBlock
<1>2. CASE o.e.open \notin {None, ix}
  <2>1. o.e \in AnthropicEncoders
    BY DEF Quietly
  <2>2. d \in AnthropicEncoders /\ d.begun = o.e.begun /\ o.e.open \in Int
    BY <2>1 DEF AnthropicEncoders, None
  <2>3. x \in FrameSet /\ x.f = "block_stop"
    <3>1. o.e.open \in Int
      BY <2>2
    <3>2. QED
      BY <3>1, BlockStopType
  <2>4. StopActiveBlock(o, ix) = Out(d, Append(o.frames, x))
    BY <1>2 DEF StopActiveBlock
  <2> HIDE DEF d, x
  <2>5. LET p == Out(d, Append(o.frames, x)) IN p.e = d /\ Quietly(cl, p, fr)
    <3>1. d.begun = o.e.begun /\ x.f \notin {"delta", "block_start"}
      BY <2>2, <2>3
    <3>2. QED
      BY <2>2, <2>3, <3>1, QuietMore
  <2>6. QED
    BY <2>2, <2>4, <2>5
<1>3. QED
  BY <1>1, <1>2

LEMMA AtQuiet ==
  ASSUME NEW cl, cl # "openai", NEW e \in AnthropicEncoders, NEW fr \in Seq(FrameSet),
         StartsOnce(fr), Begun(e, fr), NEW ix
  PROVE  Quietly(cl, At(e, ix), fr)
<1>1. Quietly(cl, EnsureMessageStart(e), fr)
  BY EnsureQuiet
<1>2. QED
  BY <1>1, StopQuiet DEF At

LEMMA StartOnceQuiet ==
  ASSUME NEW cl, cl # "openai", NEW o, NEW fr \in Seq(FrameSet), Quietly(cl, o, fr),
         NEW ix \in Nat, NEW kind \in Values
  PROVE  LET p == StartBlockOnce(o, ix, kind, None) IN Quietly(cl, p, fr) /\ ix \in p.e.begun
<1> DEFINE d == [o.e EXCEPT !.open = ix, !.begun = @ \cup {ix}]
           x == Frame("block_start", ix, kind, None)
<1>1. CASE ix \in o.e.begun
  BY <1>1 DEF StartBlockOnce
<1>2. CASE ix \notin o.e.begun
  <2>1. o.e \in AnthropicEncoders
    BY DEF Quietly
  <2>2. d \in AnthropicEncoders /\ d.begun = o.e.begun \cup {ix}
    BY <2>1 DEF AnthropicEncoders
  <2>3. x \in FrameSet /\ x.f = "block_start" /\ x.ix = ix /\ x.x = None
    <3>1. None \in Values
      BY ValueTypes
    <3>2. "block_start" \in FrameTypes /\ ix \in Int
      BY DEF FrameTypes
    <3>3. QED
      BY <3>1, <3>2 DEF Frame, FrameSet
  <2>4. StartBlockOnce(o, ix, kind, None) = Out(d, Append(o.frames, x))
    BY <1>2 DEF StartBlockOnce, StartBlock
  <2> HIDE DEF d, x
  <2>5. LET p == Out(d, Append(o.frames, x)) IN p.e = d /\ Quietly(cl, p, fr)
    <3>1. ix \in d.begun /\ o.e.begun \subseteq d.begun
      BY <2>2
    <3>2. x.ix \in d.begun /\ x.ix \notin o.e.begun
      BY <1>2, <2>3, <3>1
    <3>3. QED
      BY <2>2, <2>3, <3>1, <3>2, WritesMore
  <2>6. QED
    BY <2>2, <2>4, <2>5
<1>3. QED
  BY <1>1, <1>2

\* A frame that tells, after those that do not.
LEMMA TellsMore ==
  ASSUME NEW cl, cl # "openai", NEW o, NEW fr \in Seq(FrameSet), Quietly(cl, o, fr),
         NEW d \in AnthropicEncoders, NEW x \in FrameSet, NEW ev, ev.type \in Marks, Tells(cl, x, ev),
         o.e.begun \subseteq d.begun, x.ix \in d.begun,
         x.f = "block_start" => x.x # None
  PROVE  LET p == Out(d, Append(o.frames, x))
         IN  /\ TellsOnly(cl, p.frames, ev) /\ p.frames \in Seq(FrameSet)
             /\ StartsOnce(fr \o p.frames) /\ Begun(p.e, fr \o p.frames)
<1>1. o.frames \in Seq(FrameSet) /\ Hush(cl, o.frames)
  BY DEF Quietly
<1>2. LET p == Out(d, Append(o.frames, x))
      IN  /\ p.e = d /\ p.frames = Append(o.frames, x) /\ p.frames \in Seq(FrameSet)
          /\ StartsOnce(fr \o p.frames) /\ Begun(p.e, fr \o p.frames)
  BY WritesMore
<1>3. TellsOnly(cl, Append(o.frames, x), ev)
  BY <1>1, TellsAppended
<1>4. QED
  BY <1>2, <1>3

\* What an event makes of the frames written before.
WrittenOf(cl, p, ev, fr) ==
  /\ TellsOnly(cl, p.frames, ev) /\ p.frames \in Seq(FrameSet)
  /\ StartsOnce(fr \o p.frames) /\ Begun(p.e, fr \o p.frames)

LEMMA QuietTells ==
  ASSUME NEW cl, NEW p, NEW ev, NEW fr, Quietly(cl, p, fr), ev.type \notin Marks
  PROVE  WrittenOf(cl, p, ev, fr)
BY DEF Quietly, WrittenOf, TellsOnly

LEMMA DeltaTells ==
  ASSUME NEW cl, cl # "openai", NEW e \in AnthropicEncoders, NEW fr \in Seq(FrameSet),
         StartsOnce(fr), Begun(e, fr), NEW ev \in Events, NEW kind \in Values,
         \/ ev.type \in Marks /\ ev.type # "call" /\ kind = KindOf(ev.type) /\ ev.x # None
         \/ ev.type \notin Marks /\ ev.x = None
  PROVE  WrittenOf(cl, Delta(e, ev, kind), ev, fr)
<1> DEFINE o == StartBlockOnce(At(e, ev.ix), ev.ix, kind, None)
           d == o.e
           x == Frame("delta", ev.ix, kind, ev.x)
<1>1. ev.ix \in Nat /\ ev.x \in Values
  BY DEF Events
<1>2. x \in FrameSet /\ x.f = "delta" /\ x.ix = ev.ix /\ x.kind = kind /\ x.x = ev.x
  <2>1. "delta" \in FrameTypes /\ ev.ix \in Int
    BY <1>1 DEF FrameTypes
  <2>2. QED
    BY <1>1, <2>1 DEF Frame, FrameSet
<1>3. Quietly(cl, o, fr) /\ ev.ix \in d.begun
  BY <1>1, AtQuiet, StartOnceQuiet
<1>4. Delta(e, ev, kind) = Out(d, Append(o.frames, x))
  BY DEF Delta
<1>5. d \in AnthropicEncoders /\ o.e.begun \subseteq d.begun
  BY <1>3 DEF Quietly
<1> HIDE DEF o, x, d
<1>6. CASE ev.type \in Marks
  <2>1. Tells(cl, x, ev)
    BY <1>2, <1>6 DEF Tells, PieceFrame
  <2>2. QED
    BY <1>2, <1>3, <1>4, <1>5, <1>6, <2>1, TellsMore DEF WrittenOf
<1>7. CASE ev.type \notin Marks
  <2>1. x.x = None
    BY <1>2, <1>7
  <2>2. LET p == Out(d, Append(o.frames, x)) IN Quietly(cl, p, fr)
    BY <1>2, <1>3, <1>5, <2>1, WritesMore
  <2>3. QED
    BY <1>4, <1>7, <2>2, QuietTells
<1>8. QED
  BY <1>6, <1>7

LEMMA FinishQuiet ==
  ASSUME NEW cl, cl # "openai", NEW o, NEW fr \in Seq(FrameSet), Quietly(cl, o, fr)
  PROVE  Quietly(cl, Finish(o), fr)
<1> DEFINE q == StopActiveBlock(o, None)
           d == [q.e EXCEPT !.stopped = TRUE]
           x == Plain("message_delta")
           y == Plain("message_stop")
           r == Out(d, Append(q.frames, x))
<1>1. Quietly(cl, q, fr)
  BY StopQuiet
<1>2. q.e \in AnthropicEncoders /\ q.frames \in Seq(FrameSet)
  BY <1>1 DEF Quietly
<1>3. d \in AnthropicEncoders /\ d.begun = q.e.begun
  BY <1>2 DEF AnthropicEncoders
<1>4. x \in FrameSet /\ x.f = "message_delta" /\ y \in FrameSet /\ y.f = "message_stop"
  BY PlainType DEF FrameTypes
<1>5. Finish(o) = Out(d, q.frames \o <<x, y>>)
  BY DEF Finish
<1> HIDE DEF q, d, x, y
<1>6. q.frames \o <<x, y>> = Append(Append(q.frames, x), y)
  <2>1. <<x, y>> = Append(<<x>>, y) /\ <<x>> \in Seq(FrameSet)
    BY <1>4
  <2>2. q.frames \o Append(<<x>>, y) = Append(q.frames \o <<x>>, y)
    BY <1>2, <1>4, <2>1, FrameConcat
  <2>3. q.frames \o <<x>> = Append(q.frames, x)
    BY <1>2, <1>4, AppendIsConcat
  <2>4. QED
    BY <2>1, <2>2, <2>3
<1>7. r.e = d /\ r.frames = Append(q.frames, x) /\ Quietly(cl, r, fr)
  <2>1. x.f \notin {"delta", "block_start"}
    BY <1>4
  <2>2. Out(d, Append(q.frames, x)).frames = Append(q.frames, x)
    BY DEF Out
  <2>3. Out(d, Append(q.frames, x)).e = d /\ Quietly(cl, Out(d, Append(q.frames, x)), fr)
    BY <1>1, <1>3, <1>4, <2>1, QuietMore
  <2>4. QED
    BY <2>2, <2>3
<1> HIDE DEF r
<1>8. Quietly(cl, Out(d, Append(r.frames, y)), fr)
  <2>1. y.f \notin {"delta", "block_start"} /\ d.begun = r.e.begun
    BY <1>4, <1>7
  <2>2. QED
    BY <1>3, <1>4, <1>7, <2>1, QuietMore
<1>9. QED
  BY <1>5, <1>6, <1>7, <1>8

LEMMA AnthropicTells ==
  ASSUME NEW cl, cl # "openai", NEW e \in AnthropicEncoders, NEW fr \in Seq(FrameSet),
         StartsOnce(fr), Begun(e, fr), NEW ev \in Events,
         ev.type \in Marks => ev.x # None,
         ev.type = "sig" => ev.x = None
  PROVE  WrittenOf(cl, AnthropicEvent(e, ev), ev, fr)
<1> DEFINE p == AnthropicEvent(e, ev)
<1>1. ev.type \in EventTypes /\ ev.ix \in Nat /\ ev.x \in Values
  BY DEF Events
<1>2. CASE ev.type = "start"
  BY <1>2, EnsureQuiet, QuietTells DEF AnthropicEvent, Marks
<1>3. CASE ev.type = "block"
  <2>1. p = StartBlockOnce(At(e, ev.ix), ev.ix, ev.x, None)
    BY <1>3 DEF AnthropicEvent
  <2>2. Quietly(cl, p, fr)
    BY <1>1, <2>1, AtQuiet, StartOnceQuiet
  <2>3. QED
    BY <1>3, <2>2, QuietTells DEF Marks
<1>4. CASE ev.type = "text"
  <2>1. p = Delta(e, ev, "text") /\ "text" = KindOf(ev.type) /\ ev.type \in Marks
    BY <1>4 DEF AnthropicEvent, KindOf, Marks
  <2>2. QED
    BY <1>4, <2>1, DeltaTells, ValueTypes
<1>5. CASE ev.type = "think"
  <2>1. p = Delta(e, ev, "thinking") /\ "thinking" = KindOf(ev.type) /\ ev.type \in Marks
    BY <1>5 DEF AnthropicEvent, KindOf, Marks
  <2>2. QED
    BY <1>5, <2>1, DeltaTells, ValueTypes
<1>6. CASE ev.type = "sig"
  <2>1. p = Delta(e, ev, "thinking") /\ ev.type \notin Marks
    BY <1>6 DEF AnthropicEvent, Marks
  <2>2. QED
    BY <1>6, <2>1, DeltaTells, ValueTypes
<1>7. CASE ev.type = "args"
  <2>1. p = Delta(e, ev, "tool_use") /\ "tool_use" = KindOf(ev.type) /\ ev.type \in Marks
    BY <1>7 DEF AnthropicEvent, KindOf, Marks
  <2>2. QED
    BY <1>7, <2>1, DeltaTells, ValueTypes
<1>8. CASE ev.type = "call"
  <2> DEFINE o == At(e, ev.ix)
             d == [o.e EXCEPT !.open = ev.ix, !.begun = @ \cup {ev.ix}]
             x == Frame("block_start", ev.ix, "tool_use", ev.x)
  <2>1. p = Out(d, Append(o.frames, x))
    BY <1>8 DEF AnthropicEvent, StartBlock
  <2>2. Quietly(cl, o, fr)
    BY AtQuiet
  <2>3. d \in AnthropicEncoders /\ d.begun = o.e.begun \cup {ev.ix}
    <3>1. o.e \in AnthropicEncoders
      BY <2>2 DEF Quietly
    <3> HIDE DEF o
    <3>2. QED
      BY <1>1, <3>1 DEF AnthropicEncoders
  <2>4. x \in FrameSet /\ x.f = "block_start" /\ x.ix = ev.ix /\ x.x = ev.x
    <3>1. "tool_use" \in Values
      BY ValueTypes
    <3>2. "block_start" \in FrameTypes /\ ev.ix \in Int
      BY <1>1 DEF FrameTypes
    <3>3. QED
      BY <1>1, <3>1, <3>2 DEF Frame, FrameSet
  <2>5. ev.type \in Marks /\ ev.x # None
    BY <1>8 DEF Marks
  <2> HIDE DEF o, d, x, p
  <2>6. Tells(cl, x, ev)
    BY <1>8, <2>4, <2>5 DEF Tells, CallFrame
  <2>7. o.e.begun \subseteq d.begun /\ x.ix \in d.begun
    BY <2>3, <2>4
  <2>8. WrittenOf(cl, p, ev, fr)
    BY <2>1, <2>2, <2>3, <2>4, <2>5, <2>6, <2>7, TellsMore DEF WrittenOf
  <2>9. QED
    BY <2>8 DEF p
<1>9. CASE ev.type = "callstop" /\ e.open = ev.ix
  <2> DEFINE d == [e EXCEPT !.open = None]
             x == Frame("block_stop", ev.ix, "", None)
             o == Out(e, <<>>)
  <2>1. p = Out(d, <<x>>)
    BY <1>9 DEF AnthropicEvent
  <2>2. d \in AnthropicEncoders /\ d.begun = e.begun
    BY DEF AnthropicEncoders
  <2>3. x \in FrameSet /\ x.f = "block_stop"
    <3>1. ev.ix \in Int
      BY <1>1
    <3>2. QED
      BY <3>1, BlockStopType
  <2>4. <<x>> = Append(<<>>, x)
    OBVIOUS
  <2>5. Quietly(cl, o, fr) /\ o.e = e /\ o.frames = <<>>
    BY NothingQuiet DEF Out
  <2> HIDE DEF d, x, o, p
  <2>6. Quietly(cl, Out(d, Append(o.frames, x)), fr)
    BY <2>2, <2>3, <2>5, WritesMore
  <2>7. Quietly(cl, p, fr)
    BY <2>1, <2>4, <2>5, <2>6
  <2>8. QED
    BY <1>9, <2>7, QuietTells DEF Marks, p
<1>10. CASE ev.type = "stop" /\ ~e.stopped
  <2>1. p = Finish(EnsureMessageStart(e))
    BY <1>10 DEF AnthropicEvent
  <2>2. Quietly(cl, p, fr)
    BY <2>1, EnsureQuiet, FinishQuiet
  <2>3. QED
    BY <1>10, <2>2, QuietTells DEF Marks
<1>11. CASE ev.type = "error"
  <2> DEFINE x == Plain("error")
             o == Out(e, <<>>)
  <2>1. p = Out(e, <<x>>)
    BY <1>11 DEF AnthropicEvent
  <2>2. x \in FrameSet /\ x.f = "error"
    BY PlainType DEF FrameTypes
  <2>3. <<x>> = Append(<<>>, x)
    OBVIOUS
  <2>4. Quietly(cl, o, fr) /\ o.e = e /\ o.frames = <<>>
    BY NothingQuiet DEF Out
  <2> HIDE DEF x, o, p
  <2>5. Quietly(cl, Out(e, Append(o.frames, x)), fr)
    BY <2>2, <2>4, WritesMore
  <2>6. Quietly(cl, p, fr)
    BY <2>1, <2>3, <2>4, <2>5
  <2>7. QED
    BY <1>11, <2>6, QuietTells DEF Marks, p
<1>12. CASE \/ ev.type = "usage" \/ (ev.type = "callstop" /\ e.open # ev.ix)
            \/ (ev.type = "stop" /\ e.stopped)
  <2>1. p = Out(e, <<>>)
    BY <1>12 DEF AnthropicEvent
  <2>2. Quietly(cl, p, fr)
    BY <2>1, NothingQuiet
  <2>3. QED
    BY <1>12, <2>2, QuietTells DEF Marks
<1>13. QED
  BY <1>1, <1>2, <1>3, <1>4, <1>5, <1>6, <1>7, <1>8, <1>9, <1>10, <1>11, <1>12 DEF EventTypes

LEMMA AnthropicCloseQuiet ==
  ASSUME NEW cl, cl # "openai", NEW e \in AnthropicEncoders, NEW fr \in Seq(FrameSet),
         StartsOnce(fr), Begun(e, fr)
  PROVE  Quietly(cl, AnthropicClose(e), fr)
<1>1. Quietly(cl, Out(e, <<>>), fr)
  BY NothingQuiet
<1>2. QED
  BY <1>1, FinishQuiet, StopQuiet DEF AnthropicClose

-----------------------------------------------------------------------------
(***************************************************************************)
(* What is received, and what is on its way.                               *)
(***************************************************************************)
LEMMA TellsTold ==
  ASSUME NEW cl, NEW l, NEW S, Chained(S), NEW fr, NEW ev \in Written(l, S), Tells(cl, fr, ev)
  PROVE  Told(cl, l, S, fr) = ev /\ Telling(cl, fr)
<1>1. PICK p \in DOMAIN S : \/ S[p].kind # "end" /\ ev = Saying(l, S[p]) /\ ev.type # "call" /\ ev.x = p
                            \/ ev = Calling(l, S[p]) /\ ev.type = "call"
  BY WrittenIs
<1>2. CASE ev.type # "call"
  <2>1. PieceFrame(cl, fr) /\ fr.x = p /\ ev = Saying(l, S[p])
    BY <1>1, <1>2 DEF Tells
  <2>2. ~CallFrame(cl, fr)
    BY <2>1 DEF PieceFrame, CallFrame
  <2>3. QED
    BY <2>1, <2>2 DEF Told, Telling
<1>3. CASE ev.type = "call"
  <2>1. CallFrame(cl, fr) /\ fr.x = ev.x /\ fr.ix = ev.ix
    BY <1>3 DEF Tells
  <2>2. ev = Ev("call", ev.ix, ev.x)
    BY <1>1, <1>3 DEF Calling, Ev
  <2>3. QED
    BY <2>1, <2>2 DEF Told, Telling
<1>4. QED
  BY <1>2, <1>3

\* Frames that tell nothing change nothing.
LEMMA ArrivedHush ==
  ASSUME NEW cl, NEW l, NEW S, NEW D, NEW fr \in Seq(FrameSet), NEW g \in Seq(FrameSet), Hush(cl, g),
         Arrived(cl, l, S, D, fr)
  PROVE  /\ Arrived(cl, l, S, D, fr \o g)
         /\ \A ev : Has(cl, l, S, fr, ev) => Has(cl, l, S, fr \o g, ev)
         /\ \A s : Continues(cl, l, S, D, fr, s) => Continues(cl, l, S, D, fr \o g, s)
<1> DEFINE h == fr \o g
<1>1. /\ \A i \in DOMAIN h : \/ i \in DOMAIN fr /\ h[i] = fr[i]
                             \/ i - Len(fr) \in DOMAIN g /\ h[i] = g[i - Len(fr)]
      /\ \A i \in DOMAIN fr : i \in DOMAIN h /\ h[i] = fr[i]
  BY Concatenated
<1> HIDE DEF h
<1>2. \A i \in DOMAIN h : Telling(cl, h[i]) => i \in DOMAIN fr /\ h[i] = fr[i]
  BY <1>1 DEF Hush
<1>3. \A ev : Has(cl, l, S, fr, ev) => Has(cl, l, S, h, ev)
  BY <1>1 DEF Has
<1>4. ToldInOrder(cl, l, S, h)
  BY <1>2 DEF Arrived, ToldInOrder
<1>5. Arrived(cl, l, S, D, h)
  BY <1>2, <1>3, <1>4 DEF Arrived
<1>6. \A s : Continues(cl, l, S, D, fr, s) => Continues(cl, l, S, D, h, s)
  BY <1>2, <1>3 DEF Continues
<1>7. QED
  BY <1>3, <1>5, <1>6 DEF h

\* An event whose turn it is.
ItsTurn(cl, l, S, D, fr, ev) ==
  /\ \A d \in D : Number(S, d) < Number(S, ev) => Has(cl, l, S, fr, d)
  /\ \A i \in DOMAIN fr : Telling(cl, fr[i]) => Number(S, Told(cl, l, S, fr[i])) < Number(S, ev)

\* h has what fr has, and the event.
OneTold(cl, l, S, fr, h, ev) ==
  /\ \A d : Has(cl, l, S, fr, d) => Has(cl, l, S, h, d)
  /\ Has(cl, l, S, h, ev)
  /\ \A i \in DOMAIN h : Telling(cl, h[i]) =>
       Told(cl, l, S, h[i]) = ev \/ (i \in DOMAIN fr /\ h[i] = fr[i])

\* A frame that tells what comes next.
LEMMA ArrivedOne ==
  ASSUME NEW cl, NEW l, NEW S, NEW D, Chained(S), D \subseteq Written(l, S),
         NEW fr \in Seq(FrameSet), NEW g \in Seq(FrameSet), NEW ev \in D, TellsOnly(cl, g, ev),
         Arrived(cl, l, S, D, fr), ItsTurn(cl, l, S, D, fr, ev)
  PROVE  Arrived(cl, l, S, D, fr \o g) /\ OneTold(cl, l, S, fr, fr \o g, ev)
<1> DEFINE h == fr \o g
           m == Len(fr)
<1>1. /\ \A i \in DOMAIN h : \/ i \in DOMAIN fr /\ h[i] = fr[i]
                             \/ i - m \in DOMAIN g /\ h[i] = g[i - m] /\ i > m
      /\ \A i \in DOMAIN fr : i \in DOMAIN h /\ h[i] = fr[i] /\ i <= m
      /\ \A j \in DOMAIN g : j + m \in DOMAIN h /\ h[j + m] = g[j] /\ j + m > m
      /\ m \in Nat /\ DOMAIN h \subseteq Nat /\ DOMAIN g \subseteq Nat
  BY Concatenated
<1> HIDE DEF h, m
<1>2. ev.type \in Marks /\ ev \in Written(l, S) /\ Number(S, ev) \in Nat
  BY WrittenIs
<1>3. PICK k \in DOMAIN g : Tells(cl, g[k], ev) /\ \A i \in DOMAIN g : Telling(cl, g[i]) => i = k
  BY <1>2 DEF TellsOnly
<1>4. Told(cl, l, S, g[k]) = ev /\ Telling(cl, g[k])
  BY <1>2, <1>3, TellsTold
<1>5. ASSUME NEW i \in DOMAIN h, Telling(cl, h[i])
      PROVE  \/ i \in DOMAIN fr /\ h[i] = fr[i] /\ i <= m
             \/ i = k + m /\ h[i] = g[k]
  <2>1. CASE i \in DOMAIN fr /\ h[i] = fr[i]
    BY <1>1, <2>1
  <2>2. CASE i - m \in DOMAIN g /\ h[i] = g[i - m] /\ i > m
    <3>1. i - m = k
      BY <1>3, <1>5, <2>2
    <3>2. i = k + m
      BY <1>1, <3>1
    <3>3. QED
      BY <2>2, <3>1, <3>2
  <2>3. QED
    BY <1>1, <2>1, <2>2
<1>6. \A d : Has(cl, l, S, fr, d) => Has(cl, l, S, h, d)
  BY <1>1 DEF Has
<1>7. Has(cl, l, S, h, ev)
  BY <1>1, <1>4 DEF Has
<1>8. ASSUME NEW i \in DOMAIN h, Telling(cl, h[i])
      PROVE  /\ Told(cl, l, S, h[i]) \in D /\ Tells(cl, h[i], Told(cl, l, S, h[i]))
             /\ \A d \in D : Number(S, d) < Number(S, Told(cl, l, S, h[i])) => Has(cl, l, S, h, d)
  <2>1. CASE i \in DOMAIN fr /\ h[i] = fr[i]
    <3>1. /\ Told(cl, l, S, fr[i]) \in D /\ Tells(cl, fr[i], Told(cl, l, S, fr[i]))
          /\ \A d \in D : Number(S, d) < Number(S, Told(cl, l, S, fr[i])) => Has(cl, l, S, fr, d)
      BY <1>8, <2>1 DEF Arrived
    <3>2. QED
      BY <1>6, <2>1, <3>1
  <2>2. CASE h[i] = g[k]
    BY <1>3, <1>4, <1>6, <2>2 DEF ItsTurn
  <2>3. QED
    BY <1>5, <1>8, <2>1, <2>2
<1>9. ASSUME NEW i \in DOMAIN h, NEW j \in DOMAIN h, i < j, Telling(cl, h[i]), Telling(cl, h[j])
      PROVE  Number(S, Told(cl, l, S, h[i])) < Number(S, Told(cl, l, S, h[j]))
  <2>1. i \in Nat /\ j \in Nat /\ k \in Nat /\ k + m > m
    BY <1>1
  <2>2. CASE j \in DOMAIN fr /\ h[j] = fr[j] /\ j <= m
    <3>1. i \in DOMAIN fr /\ h[i] = fr[i]
      BY <1>1, <1>5, <1>9, <2>1, <2>2
    <3>2. QED
      BY <1>9, <2>2, <3>1 DEF Arrived, ToldInOrder
  <2>3. CASE j = k + m /\ h[j] = g[k]
    <3>1. i \in DOMAIN fr /\ h[i] = fr[i]
      BY <1>1, <1>5, <1>9, <2>1, <2>3
    <3>2. QED
      BY <1>4, <1>9, <2>3, <3>1 DEF ItsTurn
  <2>4. QED
    BY <1>5, <1>9, <2>2, <2>3
<1>10. Arrived(cl, l, S, D, h)
  BY <1>8, <1>9 DEF Arrived, ToldInOrder
<1>11. \A i \in DOMAIN h : Telling(cl, h[i]) =>
         Told(cl, l, S, h[i]) = ev \/ (i \in DOMAIN fr /\ h[i] = fr[i])
  BY <1>4, <1>5
<1>12. QED
  BY <1>6, <1>7, <1>10, <1>11 DEF h, OneTold

\* The client is told the first of what is on its way.
LEMMA FirstReceived ==
  ASSUME NEW cl, NEW l, NEW S, NEW D, Chained(S), D \subseteq Written(l, S),
         NEW fr \in Seq(FrameSet), NEW g \in Seq(FrameSet), NEW s \in Seq(Events), s # <<>>,
         Flows(l, S, s), TellsOnly(cl, g, s[1]), s[1].type \in Marks => s[1] \in D,
         Arrived(cl, l, S, D, fr), Continues(cl, l, S, D, fr, s)
  PROVE  Arrived(cl, l, S, D, fr \o g) /\ Continues(cl, l, S, D, fr \o g, Tail(s))
<1> DEFINE t == Tail(s)
           ev == s[1]
<1>1. /\ Flows(l, S, t)
      /\ \A j \in DOMAIN t : ev.type \in Marks /\ t[j].type \in Marks => Number(S, ev) < Number(S, t[j])
      /\ \A j \in DOMAIN s : s[j] = ev \/ \E i \in DOMAIN t : t[i] = s[j]
      /\ \A j \in DOMAIN t : \E i \in DOMAIN s : t[j] = s[i]
  BY FlowsTail
<1>2. 1 \in DOMAIN s
  BY SequenceElements
<1> HIDE DEF t
<1>3. CASE ev.type \notin Marks
  <2>1. Hush(cl, g)
    BY <1>3 DEF TellsOnly
  <2>2. /\ Arrived(cl, l, S, D, fr \o g) /\ Continues(cl, l, S, D, fr \o g, s)
    BY <2>1, ArrivedHush
  <2>3. Continues(cl, l, S, D, fr \o g, t)
    <3>1. ASSUME NEW d \in D PROVE Has(cl, l, S, fr \o g, d) \/ \E j \in DOMAIN t : t[j].type \in Marks /\ t[j] = d
      <4>1. CASE \E j \in DOMAIN s : s[j].type \in Marks /\ s[j] = d
        BY <1>1, <1>3, <4>1
      <4>2. QED
        BY <2>2, <4>1 DEF Continues
    <3>2. QED
      BY <1>1, <2>2, <3>1 DEF Continues
  <2>4. QED
    BY <2>2, <2>3 DEF t
<1>4. CASE ev.type \in Marks
  <2>1. ev \in D /\ ev \in Written(l, S)
    BY <1>4
  <2>2. ASSUME NEW d \in D, Number(S, d) < Number(S, ev) PROVE Has(cl, l, S, fr, d)
    <3>1. ASSUME NEW j \in DOMAIN t, t[j].type \in Marks, t[j] = d PROVE FALSE
      <4>1. Number(S, ev) < Number(S, d)
        BY <1>1, <1>4, <3>1
      <4>2. Number(S, ev) \in Nat /\ Number(S, d) \in Nat
        BY <2>1, WrittenIs
      <4>3. QED
        BY <2>2, <4>1, <4>2
    <3>2. d # ev
      BY <2>1, <2>2, WrittenIs
    <3>3. QED
      BY <1>1, <3>1, <3>2 DEF Continues
  <2>3. \A i \in DOMAIN fr : Telling(cl, fr[i]) => Number(S, Told(cl, l, S, fr[i])) < Number(S, ev)
    BY <1>2, <1>4 DEF Continues
  <2> HIDE DEF ev
  <2>4. Arrived(cl, l, S, D, fr \o g) /\ OneTold(cl, l, S, fr, fr \o g, ev)
    <3>1. TellsOnly(cl, g, ev)
      BY DEF ev
    <3>2. ItsTurn(cl, l, S, D, fr, ev)
      BY <2>2, <2>3 DEF ItsTurn
    <3>3. QED
      BY <2>1, <3>1, <3>2, ArrivedOne
  <2>5. ASSUME NEW d \in D
        PROVE  Has(cl, l, S, fr \o g, d) \/ \E j \in DOMAIN t : t[j].type \in Marks /\ t[j] = d
    <3>1. CASE \E j \in DOMAIN s : s[j].type \in Marks /\ s[j] = d
      BY <1>1, <2>4, <3>1 DEF OneTold
    <3>2. QED
      BY <2>4, <3>1 DEF Continues, OneTold
  <2>6. ASSUME NEW i \in DOMAIN (fr \o g), NEW j \in DOMAIN t, Telling(cl, (fr \o g)[i]), t[j].type \in Marks
        PROVE  Number(S, Told(cl, l, S, (fr \o g)[i])) < Number(S, t[j])
    <3>1. CASE Told(cl, l, S, (fr \o g)[i]) = ev
      BY <1>1, <1>4, <2>6, <3>1
    <3>2. CASE i \in DOMAIN fr /\ (fr \o g)[i] = fr[i]
      <4>1. PICK k \in DOMAIN s : t[j] = s[k]
        BY <1>1
      <4>2. QED
        BY <2>6, <3>2, <4>1 DEF Continues
    <3>3. QED
      BY <2>4, <2>6, <3>1, <3>2 DEF OneTold
  <2>7. QED
    BY <2>4, <2>5, <2>6 DEF Continues, t
<1>5. QED
  BY <1>3, <1>4

\* What is dropped was not due.
LEMMA ContinuesDropped ==
  ASSUME NEW cl, NEW l, NEW S, NEW D, NEW fr, NEW s \in Seq(Events), NEW t \in Seq(Events),
         NEW ev \in Events, ev \notin D, Flows(l, S, s \o (<<ev>> \o t)),
         Continues(cl, l, S, D, fr, s \o (<<ev>> \o t))
  PROVE  Continues(cl, l, S, D, fr, s \o t)
<1> DEFINE whole == s \o (<<ev>> \o t)
           rest == s \o t
<1>1. SomeOf(rest, whole) /\ AllBut(whole, ev, rest)
  BY FlowsDropped
<1>2. Continues(cl, l, S, D, fr, whole)
  OBVIOUS
<1> HIDE DEF whole, rest
<1>3. ASSUME NEW d \in D
      PROVE  Has(cl, l, S, fr, d) \/ \E j \in DOMAIN rest : rest[j].type \in Marks /\ rest[j] = d
  BY <1>1, <1>2 DEF Continues, AllBut
<1>4. ASSUME NEW i \in DOMAIN fr, NEW j \in DOMAIN rest, Telling(cl, fr[i]), rest[j].type \in Marks
      PROVE  Number(S, Told(cl, l, S, fr[i])) < Number(S, rest[j])
  <2>1. PICK k \in DOMAIN whole : rest[j] = whole[k]
    BY <1>1 DEF SomeOf
  <2>2. QED
    BY <1>2, <1>4, <2>1 DEF Continues
<1>5. QED
  BY <1>3, <1>4 DEF Continues, rest

\* The lane reads a chunk.
LEMMA ReadsOn ==
  ASSUME NEW cl, NEW l, NEW h, NEW S, NEW T, NEW c \in Chunks, Chained(S), Chained(T), After(S, c, T),
         NEW fr, Arrived(cl, l, S, Due(l, h, S), fr)
  PROVE  /\ Arrived(cl, l, T, Due(l, h, T), fr)
         /\ \A ev \in Due(l, h, S) : Has(cl, l, S, fr, ev) => Has(cl, l, T, fr, ev)
         /\ \A i \in DOMAIN fr : Telling(cl, fr[i]) =>
              /\ Number(T, Told(cl, l, T, fr[i])) = Number(S, Told(cl, l, S, fr[i]))
              /\ Number(T, Told(cl, l, T, fr[i])) < 2 * (Len(S) + 1)
              /\ Number(T, Told(cl, l, T, fr[i])) \in Nat
<1> DEFINE D == Due(l, h, S)
           E == Due(l, h, T)
           n == Len(S) + 1
<1>1. Written(l, T) = Written(l, S) \cup News(l, c)
  BY WrittenGrows
<1>2. /\ \A ev \in Written(l, S) : Number(T, ev) = Number(S, ev) /\ Number(S, ev) \in Nat /\ Number(S, ev) < 2 * n
      /\ n \in Nat
  <2>1. Len(S) \in Nat
    BY ChainedElements
  <2>2. \A ev \in Written(l, S) : Number(T, ev) = Number(S, ev) /\ Number(S, ev) \in Nat /\ Number(S, ev) < 2 * n
    BY WrittenGrows
  <2>3. QED
    BY <2>1, <2>2
<1>3. /\ c.kind # "end" => Number(T, Saying(l, c)) = 2 * n + 1
      /\ c.kind = "open" => Number(T, Calling(l, c)) = 2 * n
  BY WrittenGrows
<1> HIDE DEF n
<1>4. ASSUME NEW ev \in News(l, c) PROVE Number(T, ev) \in Nat /\ Number(T, ev) >= 2 * n
  BY <1>2, <1>3 DEF News
<1>5. /\ D \subseteq Written(l, S) /\ D \subseteq E
      /\ \A ev \in E : ev \in D \/ ev \in News(l, c)
  BY <1>1 DEF Due
<1> HIDE DEF D, E
<1>6. ASSUME NEW i \in DOMAIN fr, Telling(cl, fr[i])
      PROVE  /\ Told(cl, l, S, fr[i]) \in D /\ Tells(cl, fr[i], Told(cl, l, S, fr[i]))
             /\ Told(cl, l, T, fr[i]) = Told(cl, l, S, fr[i])
             /\ Number(T, Told(cl, l, T, fr[i])) = Number(S, Told(cl, l, S, fr[i]))
             /\ Number(T, Told(cl, l, T, fr[i])) < 2 * n /\ Number(T, Told(cl, l, T, fr[i])) \in Nat
  <2> DEFINE ev == Told(cl, l, S, fr[i])
  <2>1. ev \in D /\ Tells(cl, fr[i], ev)
    BY <1>6 DEF Arrived, D
  <2>2. ev \in Written(l, T) /\ ev \in Written(l, S)
    BY <1>1, <1>5, <2>1
  <2> HIDE DEF ev
  <2>3. Told(cl, l, T, fr[i]) = ev
    BY <2>1, <2>2, TellsTold
  <2>4. QED
    BY <1>2, <2>1, <2>2, <2>3 DEF ev
<1>7. \A ev \in D : Has(cl, l, S, fr, ev) => Has(cl, l, T, fr, ev)
  BY <1>6 DEF Has
<1>8. ASSUME NEW i \in DOMAIN fr, Telling(cl, fr[i]), NEW ev \in E,
             Number(T, ev) < Number(T, Told(cl, l, T, fr[i]))
      PROVE  Has(cl, l, T, fr, ev)
  <2>1. Number(T, Told(cl, l, T, fr[i])) < 2 * n /\ Number(T, Told(cl, l, T, fr[i])) \in Nat
    BY <1>6, <1>8
  <2>2. ev \in D
    BY <1>2, <1>4, <1>5, <1>8, <2>1
  <2>3. Number(S, ev) < Number(S, Told(cl, l, S, fr[i]))
    <3>1. Number(T, ev) = Number(S, ev)
      BY <1>2, <1>5, <2>2
    <3>2. QED
      BY <1>6, <1>8, <3>1
  <2>4. Has(cl, l, S, fr, ev)
    BY <1>8, <2>2, <2>3 DEF Arrived, D
  <2>5. QED
    BY <1>7, <2>2, <2>4
<1>9. ToldInOrder(cl, l, T, fr)
  <2>1. ToldInOrder(cl, l, S, fr)
    BY DEF Arrived
  <2>2. SUFFICES ASSUME NEW i \in DOMAIN fr, NEW j \in DOMAIN fr, i < j, Telling(cl, fr[i]), Telling(cl, fr[j])
                 PROVE  Number(T, Told(cl, l, T, fr[i])) < Number(T, Told(cl, l, T, fr[j]))
    BY DEF ToldInOrder
  <2>3. Number(S, Told(cl, l, S, fr[i])) < Number(S, Told(cl, l, S, fr[j]))
    BY <2>1, <2>2 DEF ToldInOrder
  <2>4. QED
    BY <1>6, <2>2, <2>3
<1>10. Arrived(cl, l, T, E, fr)
  <2>1. \A i \in DOMAIN fr : Telling(cl, fr[i]) =>
          /\ Told(cl, l, T, fr[i]) \in E /\ Tells(cl, fr[i], Told(cl, l, T, fr[i]))
          /\ \A ev \in E : Number(T, ev) < Number(T, Told(cl, l, T, fr[i])) => Has(cl, l, T, fr, ev)
    BY <1>5, <1>6, <1>8
  <2>2. QED
    BY <1>9, <2>1 DEF Arrived
<1>11. QED
  BY <1>6, <1>7, <1>10 DEF D, E, n

LEMMA ContinuesOn ==
  ASSUME NEW cl, NEW l, NEW h, NEW S, NEW T, NEW c \in Chunks, Chained(S), Chained(T), After(S, c, T),
         NEW fr, Arrived(cl, l, S, Due(l, h, S), fr),
         NEW s \in Seq(Events), NEW t \in Seq(Events), Conveys(l, c, t), Flows(l, S, s),
         Continues(cl, l, S, Due(l, h, S), fr, s)
  PROVE  Continues(cl, l, T, Due(l, h, T), fr, s \o t)
<1> DEFINE D == Due(l, h, S)
           E == Due(l, h, T)
           n == Len(S) + 1
           w == s \o t
           m == Len(s)
<1>1. Written(l, T) = Written(l, S) \cup News(l, c)
  BY WrittenGrows
<1>2. \A ev \in Written(l, S) : Number(T, ev) = Number(S, ev) /\ Number(S, ev) \in Nat /\ Number(S, ev) < 2 * n
  BY WrittenGrows
<1>3. n \in Nat
  BY ChainedElements
<1>4. /\ c.kind # "end" => Saying(l, c).type \in Marks /\ Number(T, Saying(l, c)) = 2 * n + 1
      /\ c.kind = "open" => Calling(l, c).type \in Marks /\ Number(T, Calling(l, c)) = 2 * n
  BY WrittenGrows
<1>5. \A ev \in D : Has(cl, l, S, fr, ev) => Has(cl, l, T, fr, ev)
  BY ReadsOn
<1>6. \A i \in DOMAIN fr : Telling(cl, fr[i]) =>
        /\ Number(T, Told(cl, l, T, fr[i])) = Number(S, Told(cl, l, S, fr[i]))
        /\ Number(T, Told(cl, l, T, fr[i])) < 2 * n
        /\ Number(T, Told(cl, l, T, fr[i])) \in Nat
  BY ReadsOn
<1>7. /\ \A i \in DOMAIN w : \/ i \in DOMAIN s /\ w[i] = s[i]
                             \/ i - m \in DOMAIN t /\ w[i] = t[i - m]
      /\ \A i \in DOMAIN s : i \in DOMAIN w /\ w[i] = s[i]
      /\ \A j \in DOMAIN t : j + m \in DOMAIN w /\ w[j + m] = t[j]
  BY Concatenated
<1> HIDE DEF n, w, m
<1>8. ASSUME NEW ev \in News(l, c)
      PROVE  ev.type \in Marks /\ Number(T, ev) \in Nat /\ Number(T, ev) >= 2 * n
  BY <1>3, <1>4 DEF News
<1>9. \A ev \in E : ev \in D \/ ev \in News(l, c)
  BY <1>1 DEF Due
<1>10. Continues(cl, l, S, D, fr, s)
  OBVIOUS
<1> HIDE DEF D, E
<1>11. ASSUME NEW ev \in E PROVE Has(cl, l, T, fr, ev) \/ \E j \in DOMAIN w : w[j].type \in Marks /\ w[j] = ev
  <2>1. CASE ev \in D
    <3>1. Has(cl, l, S, fr, ev) \/ \E j \in DOMAIN s : s[j].type \in Marks /\ s[j] = ev
      BY <1>10, <2>1 DEF Continues
    <3>2. QED
      BY <1>5, <1>7, <2>1, <3>1
  <2>2. CASE ev \in News(l, c)
    <3>1. PICK j \in DOMAIN t : t[j] = ev
      BY <2>2 DEF Conveys
    <3>2. QED
      BY <1>7, <1>8, <2>2, <3>1
  <2>3. QED
    BY <1>9, <1>11, <2>1, <2>2
<1>12. ASSUME NEW i \in DOMAIN fr, NEW j \in DOMAIN w, Telling(cl, fr[i]), w[j].type \in Marks
       PROVE  Number(T, Told(cl, l, T, fr[i])) < Number(T, w[j])
  <2>1. CASE j \in DOMAIN s /\ w[j] = s[j]
    <3>1. Number(S, Told(cl, l, S, fr[i])) < Number(S, s[j]) /\ s[j] \in Written(l, S)
      BY <1>10, <1>12, <2>1 DEF Continues, Flows
    <3>2. QED
      BY <1>2, <1>6, <1>12, <2>1, <3>1
  <2>2. CASE j - m \in DOMAIN t /\ w[j] = t[j - m]
    <3>1. w[j] \in News(l, c)
      BY <1>12, <2>2 DEF Conveys
    <3>2. QED
      BY <1>3, <1>6, <1>8, <1>12, <3>1
  <2>3. QED
    BY <1>7, <2>1, <2>2
<1>13. QED
  BY <1>11, <1>12 DEF Continues, w, E

-----------------------------------------------------------------------------
(***************************************************************************)
(* The steps of the lane's goroutine and of the filter's.                  *)
(***************************************************************************)
LEMMA SentChained ==
  ASSUME StreamTypes, SentInv
  PROVE  Chained(sent)
<1>1. sent \in Seq(Chunks)
  BY DEF StreamTypes, SentTypes
<1>2. ASSUME NEW p \in DOMAIN sent, sent[p].kind = "open" PROVE sent[p].call \in Nat
  <2>1. sent[p].call \in 0..(Calls - 1)
    BY <1>2 DEF SentInv, CallsInv, IsCall
  <2>2. QED
    BY <2>1
<1>3. \A p, q \in DOMAIN sent :
        p < q /\ sent[p].kind = "open" /\ sent[q].kind = "open" => sent[p].call < sent[q].call
  BY DEF SentInv, CallsInv
<1>4. \A p \in DOMAIN sent : sent[p].piece = p
  BY DEF SentInv, NumberedInv
<1>5. QED
  BY <1>1, <1>2, <1>3, <1>4 DEF Chained

\* Events that tell nothing change nothing.
LEMMA FlowsPlain ==
  ASSUME NEW cl, NEW l, NEW S, NEW D, NEW fr, NEW s \in Seq(Events), NEW t \in Seq(Events), Plainly(t),
         Flows(l, S, s)
  PROVE  /\ Flows(l, S, s \o t)
         /\ Continues(cl, l, S, D, fr, s) => Continues(cl, l, S, D, fr, s \o t)
<1> DEFINE w == s \o t
           m == Len(s)
<1>1. /\ \A i \in DOMAIN w : \/ i \in DOMAIN s /\ w[i] = s[i]
                             \/ i - m \in DOMAIN t /\ w[i] = t[i - m]
      /\ \A i \in DOMAIN s : i \in DOMAIN w /\ w[i] = s[i]
  BY Concatenated
<1> HIDE DEF w, m
<1>2. \A i \in DOMAIN w : w[i].type \in Marks => i \in DOMAIN s /\ w[i] = s[i]
  BY <1>1 DEF Plainly
<1>3. Unsigned(w)
  BY <1>1 DEF Flows, Plainly, Unsigned
<1>4. Flows(l, S, w)
  BY <1>2, <1>3 DEF Flows
<1>5. ASSUME Continues(cl, l, S, D, fr, s) PROVE Continues(cl, l, S, D, fr, w)
  <2>1. ASSUME NEW d \in D PROVE Has(cl, l, S, fr, d) \/ \E j \in DOMAIN w : w[j].type \in Marks /\ w[j] = d
    BY <1>1, <1>5 DEF Continues
  <2>2. ASSUME NEW i \in DOMAIN fr, NEW j \in DOMAIN w, Telling(cl, fr[i]), w[j].type \in Marks
        PROVE  Number(S, Told(cl, l, S, fr[i])) < Number(S, w[j])
    <3>1. j \in DOMAIN s /\ w[j] = s[j]
      BY <1>2, <2>2
    <3>2. QED
      BY <1>5, <2>2, <3>1 DEF Continues
  <2>3. QED
    BY <2>1, <2>2 DEF Continues
<1>6. QED
  BY <1>4, <1>5 DEF w

LEMMA SentSame ==
  ASSUME SentInv, UNCHANGED <<lane, sent>>
  PROVE  SentInv'
<1>1. Calls' = Calls /\ Items' = Items
  BY DEF Calls, Items
<1>2. QED
  BY <1>1 DEF SentInv, NumberedInv, CallsInv, ItemsInv, IsCall, Prose

LEMMA OrderSame ==
  ASSUME OrderInv, UNCHANGED <<lane, client, filtered, sent, frames>>, Pipe' = Pipe, Live' => Live
  PROVE  OrderInv'
BY DEF OrderInv, OurDue

LEMMA BlocksSame ==
  ASSUME BlocksInv, UNCHANGED <<client, frames>>, Live' => Live /\ enc' = enc
  PROVE  BlocksInv'
BY DEF BlocksInv

LEMMA LaneReadDelivers ==
  ASSUME StreamTypes, DInv, NEW c \in NextChunks, LaneRead(c)
  PROVE  DInv'
<1>1. /\ sent \in Seq(Chunks) /\ Fits(c) /\ c \in Chunks /\ lane \in Lanes
  <2>1. sent \in Seq(Chunks) /\ (lane = "responses" /\ sent # <<>> => sent[1].new)
    BY DEF StreamTypes, SentTypes
  <2>2. QED
    BY <2>1, NextChunkFits DEF Fits, StreamTypes, UpstreamTypes
<1>2. Conveys(lane, c, Made(c)) /\ Made(c) \in Seq(Events)
  BY <1>1, MadeConveys
<1>3. /\ producer.pc = "reading" /\ producer.pending = <<>>
      /\ sent' = Append(sent, c)
      /\ producer' = [producer EXCEPT !.pending = Made(c)]
      /\ UNCHANGED <<lane, client, filtered, filter, passed, timedOut, gone, handler, enc, frames, queue>>
  BY DEF LaneRead, Reading, LaneOnly, Made, upstreamVars, filterVars, ctxVars, handlerVars
<1>4. producer'.pending = Made(c) /\ producer'.pc = "reading"
  BY <1>3 DEF StreamTypes, ProducerTypes
<1>5. Pipe' = Pipe \o Made(c) /\ Pipe \in Seq(Events)
  BY <1>2, <1>3, <1>4, PendingAdded, PipeType
<1>6. SentInv'
  BY <1>1, <1>3, SentGrows DEF DInv
<1>7. /\ After(sent, c, sent') /\ Chained(sent)
      /\ Chained(sent')
  <2>1. Chained(sent)
    BY SentChained DEF DInv
  <2>2. sent' \in Seq(Chunks)
    BY <1>1, <1>3, AppendProperties
  <2>3. ASSUME NEW p \in DOMAIN sent', sent'[p].kind = "open" PROVE sent'[p].call \in Nat
    <3>1. sent'[p].call \in 0..(Calls' - 1)
      BY <1>6, <2>3 DEF SentInv, CallsInv, IsCall
    <3>2. QED
      BY <3>1
  <2>4. \A p, q \in DOMAIN sent' :
          p < q /\ sent'[p].kind = "open" /\ sent'[q].kind = "open" => sent'[p].call < sent'[q].call
    BY <1>6 DEF SentInv, CallsInv
  <2>5. \A p \in DOMAIN sent' : sent'[p].piece = p
    BY <1>6 DEF SentInv, NumberedInv
  <2>6. Chained(sent')
    BY <2>2, <2>3, <2>4, <2>5 DEF Chained
  <2>7. QED
    BY <1>3, <2>1, <2>6 DEF After
<1>8. OrderInv'
  <2>1. Flows(lane, sent, Pipe) /\ Arrived(client, lane, sent, Due(lane, filtered, sent), frames)
    BY DEF DInv, OrderInv, OurDue
  <2> DEFINE T == sent'
  <2>2. After(sent, c, T) /\ Chained(T)
    BY <1>7
  <2> HIDE DEF T
  <2>3. Flows(lane, T, Pipe \o Made(c))
    BY <1>1, <1>2, <1>5, <1>7, <2>1, <2>2, FlowsOn
  <2>4. Arrived(client, lane, T, Due(lane, filtered, T), frames)
    BY <1>1, <1>7, <2>1, <2>2, ReadsOn
  <2>5. ASSUME Live PROVE Continues(client, lane, T, Due(lane, filtered, T), frames, Pipe \o Made(c))
    <3>1. Continues(client, lane, sent, Due(lane, filtered, sent), frames, Pipe)
      BY <2>5 DEF DInv, OrderInv, OurDue
    <3>2. QED
      BY <1>1, <1>2, <1>5, <1>7, <2>1, <2>2, <3>1, ContinuesOn
  <2>6. Live' = Live /\ OurDue' = Due(lane, filtered, T)
    BY <1>3 DEF Live, OurDue, T
  <2>7. QED
    BY <1>3, <1>5, <2>3, <2>4, <2>5, <2>6 DEF OrderInv, T
<1>9. BlocksInv'
  <2>1. Live' = Live
    BY <1>3 DEF Live
  <2>2. QED
    BY <1>3, <2>1, BlocksSame DEF DInv
<1>10. EndInv'
  <2>1. CtxDone' = CtxDone
    BY <1>3 DEF CtxDone
  <2>2. producer.pc # "done"
    BY <1>3
  <2>3. QED
    BY <1>3, <1>4, <2>1, <2>2 DEF DInv, EndInv
<1>11. QED
  BY <1>6, <1>8, <1>9, <1>10 DEF DInv

LEMMA LaneErrorDelivers ==
  ASSUME StreamTypes, DInv, LaneErrorChunk \/ LaneReadError
  PROVE  DInv'
<1> DEFINE t == <<Ev("error", 0, None)>>
<1>1. /\ producer.pending = <<>> /\ producer.pc = "reading" /\ producer'.pc # "done"
      /\ producer'.pending = t
      /\ UNCHANGED <<lane, client, filtered, sent, filter, passed, timedOut, gone, handler, enc, frames, queue>>
  <2>1. UNCHANGED <<lane, client, filtered, sent, filter, passed, timedOut, gone, handler, enc, frames, queue>>
    BY DEF LaneErrorChunk, LaneReadError, LaneOnly, upstreamVars, filterVars, ctxVars, handlerVars
  <2>2. CASE LaneErrorChunk
    <3>1. producer' = [producer EXCEPT !.pending = t, !.failed = TRUE]
      BY <2>2 DEF LaneErrorChunk, t
    <3>2. QED
      BY <2>1, <2>2, <3>1 DEF LaneErrorChunk, Reading, StreamTypes, ProducerTypes
  <2>3. CASE LaneReadError
    <3>1. producer' = [producer EXCEPT !.pc = "last", !.pending = t]
      BY <2>3 DEF LaneReadError, t
    <3>2. QED
      BY <2>1, <2>3, <3>1 DEF LaneReadError, Reading, StreamTypes, ProducerTypes
  <2>4. QED
    BY <2>2, <2>3
<1>2. t \in Seq(Events) /\ Plainly(t)
  BY PlainEvent, ValueTypes DEF EventTypes, Marks
<1> HIDE DEF t
<1>3. Pipe' = Pipe \o t /\ Pipe \in Seq(Events)
  BY <1>1, <1>2, PendingAdded, PipeType
<1>4. Live' = Live /\ OurDue' = OurDue /\ CtxDone' = CtxDone
  BY <1>1 DEF Live, OurDue, CtxDone
<1>5. OrderInv'
  <2>1. Flows(lane, sent, Pipe) /\ Arrived(client, lane, sent, OurDue, frames)
    BY DEF DInv, OrderInv
  <2>2. Flows(lane, sent, Pipe \o t)
    BY <1>2, <1>3, <2>1, FlowsPlain
  <2>3. ASSUME Live PROVE Continues(client, lane, sent, OurDue, frames, Pipe \o t)
    <3>1. Continues(client, lane, sent, OurDue, frames, Pipe)
      BY <2>3 DEF DInv, OrderInv
    <3>2. QED
      BY <1>2, <1>3, <2>1, <3>1, FlowsPlain
  <2>4. QED
    BY <1>1, <1>3, <1>4, <2>1, <2>2, <2>3 DEF OrderInv
<1>6. SentInv' /\ BlocksInv'
  BY <1>1, <1>4, SentSame, BlocksSame DEF DInv
<1>7. EndInv'
  BY <1>1, <1>4 DEF DInv, EndInv
<1>8. QED
  BY <1>5, <1>6, <1>7 DEF DInv

LEMMA LaneMovesDelivers ==
  ASSUME StreamTypes, DInv, LaneEOF \/ BridgeQuits \/ LaneSend \/ LaneClose
  PROVE  DInv'
<1>1. UNCHANGED <<lane, client, filtered, sent, filter, passed, timedOut, gone, handler, enc, frames>>
  BY DEF LaneEOF, BridgeQuits, LaneSend, LaneClose, LaneOnly, upstreamVars, filterVars, ctxVars, handlerVars
<1>2. Pipe' = Pipe
  <2>1. queue' \o producer'.pending = queue \o producer.pending
    BY LanePipe
  <2>2. QED
    BY <1>1, <2>1 DEF Pipe, Held
<1>3. /\ producer.pc # "done"
      /\ producer'.pc = "done" => producer'.pending = <<>>
  <2>1. producer.pc = "done" => producer.pending = <<>>
    BY DEF DInv, EndInv
  <2>2. CASE LaneEOF \/ BridgeQuits
    BY <2>2 DEF LaneEOF, BridgeQuits, Reading, StreamTypes, ProducerTypes
  <2>3. CASE LaneSend
    BY <2>1, <2>3 DEF LaneSend, StreamTypes, ProducerTypes
  <2>4. CASE LaneClose
    BY <2>4 DEF LaneClose, StreamTypes, ProducerTypes
  <2>5. QED
    BY <2>2, <2>3, <2>4
<1>4. Live' = Live
  BY <1>1 DEF Live
<1>5. SentInv' /\ OrderInv' /\ BlocksInv'
  BY <1>1, <1>2, <1>4, SentSame, OrderSame, BlocksSame DEF DInv
<1>6. EndInv'
  <2>1. CtxDone' = CtxDone
    BY <1>1 DEF CtxDone
  <2>2. QED
    BY <1>1, <1>3, <2>1 DEF DInv, EndInv
<1>7. QED
  BY <1>5, <1>6 DEF DInv

LEMMA FilterTakeDelivers ==
  ASSUME StreamTypes, DInv, FilterTake
  PROVE  DInv'
<1> DEFINE h == Head(queue)
           rest == Tail(queue) \o producer.pending
<1>1. /\ filter.pc = "taking" /\ queue' = Tail(queue)
      /\ filter' = IF h.type = "think" THEN filter ELSE [pc |-> "putting", held |-> h]
      /\ UNCHANGED <<lane, client, filtered, sent, producer, passed, timedOut, gone, handler, enc, frames>>
  BY DEF FilterTake, FilterOnly, upstreamVars, ctxVars, handlerVars
<1>2. passed \in Seq(Events)
  BY PipeType
<1>3. /\ h \in Events /\ rest \in Seq(Events) /\ filtered = TRUE
      /\ Pipe = passed \o (<<h>> \o rest)
      /\ h.type = "think" => Pipe' = passed \o rest
      /\ h.type # "think" => Pipe' = Pipe
  BY FilterTakes
<1>4. Live' = Live /\ OurDue' = OurDue /\ CtxDone' = CtxDone
  BY <1>1 DEF Live, OurDue, CtxDone
<1>5. SentInv' /\ BlocksInv'
  BY <1>1, <1>4, SentSame, BlocksSame DEF DInv
<1>6. EndInv'
  BY <1>1, <1>3, <1>4 DEF DInv, EndInv
<1> HIDE DEF h, rest
<1>7. OrderInv'
  <2>1. CASE h.type = "think"
    <3>1. Pipe' = passed \o rest
      BY <1>3, <2>1
    <3>2. h \notin OurDue
      BY <1>3, <2>1 DEF OurDue, Due
    <3>3. Flows(lane, sent, passed \o (<<h>> \o rest)) /\ Arrived(client, lane, sent, OurDue, frames)
      BY <1>3 DEF DInv, OrderInv
    <3>4. Flows(lane, sent, passed \o rest)
      BY <1>2, <1>3, <3>3, FlowsDropped
    <3>5. ASSUME Live PROVE Continues(client, lane, sent, OurDue, frames, passed \o rest)
      <4>1. Continues(client, lane, sent, OurDue, frames, passed \o (<<h>> \o rest))
        BY <1>3, <3>5 DEF DInv, OrderInv
      <4>2. QED
        BY <1>2, <1>3, <3>2, <3>3, <4>1, ContinuesDropped
    <3>6. QED
      BY <1>1, <1>4, <3>1, <3>3, <3>4, <3>5 DEF OrderInv
  <2>2. CASE h.type # "think"
    BY <1>1, <1>3, <1>4, <2>2, OrderSame DEF DInv
  <2>3. QED
    BY <2>1, <2>2
<1>8. QED
  BY <1>5, <1>6, <1>7 DEF DInv

LEMMA FilterMovesDelivers ==
  ASSUME StreamTypes, DInv, FilterPut \/ FilterEnd \/ FilterQuit
  PROVE  DInv'
<1>1. UNCHANGED <<lane, client, filtered, sent, producer, queue, timedOut, gone, handler, enc, frames>>
  BY DEF FilterPut, FilterEnd, FilterQuit, FilterOnly, upstreamVars, ctxVars, handlerVars
<1>2. Pipe' = Pipe
  BY FilterPipe
<1>3. Live' = Live /\ CtxDone' = CtxDone /\ OurDue' = OurDue
  BY <1>1 DEF Live, CtxDone, OurDue
<1>4. SentInv' /\ OrderInv' /\ BlocksInv'
  BY <1>1, <1>2, <1>3, SentSame, OrderSame, BlocksSame DEF DInv
<1>5. filtered
  BY DEF FilterPut, FilterEnd, FilterQuit, StreamTypes, FilterTypes, UpstreamTypes
<1>6. /\ \A i \in DOMAIN passed : passed[i].type # "think"
      /\ filter.pc = "putting" => filter.held.type # "think"
  BY <1>5 DEF DInv, EndInv
<1>7. EndInv'
  <2>1. CASE FilterPut
    <3> DEFINE x == filter.held
    <3>1. /\ filter.pc = "putting" /\ passed' = Append(passed, x) /\ filter'.pc = "taking"
      BY <2>1 DEF FilterPut
    <3>2. passed \in Seq(Events) /\ x \in Events
      BY <3>1 DEF StreamTypes, ChannelTypes, FilterTypes
    <3>3. x.type # "think"
      BY <1>6, <3>1
    <3> HIDE DEF x
    <3>4. \A i \in DOMAIN passed' : passed'[i].type # "think"
      <4>1. /\ Len(passed) \in Nat /\ DOMAIN passed = 1..Len(passed)
            /\ DOMAIN Append(passed, x) = 1..(Len(passed) + 1)
            /\ \A i \in 1..Len(passed) : Append(passed, x)[i] = passed[i]
            /\ Append(passed, x)[Len(passed) + 1] = x
        BY <3>2, AppendProperties, LenProperties
      <4>2. QED
        BY <1>6, <3>1, <3>3, <4>1
    <3>5. QED
      BY <1>1, <1>3, <3>1, <3>4 DEF DInv, EndInv
  <2>2. CASE FilterEnd \/ FilterQuit
    <3>1. /\ filter.pc = "taking" /\ passed' = passed /\ filter'.pc # "putting"
          /\ ~CtxDone => producer.pc = "done" /\ queue = <<>>
      BY <2>2 DEF FilterEnd, FilterQuit, StreamTypes, FilterTypes
    <3>2. QED
      BY <1>1, <1>3, <3>1 DEF DInv, EndInv
  <2>3. QED
    BY <2>1, <2>2
<1>8. QED
  BY <1>4, <1>7 DEF DInv

-----------------------------------------------------------------------------
(***************************************************************************)
(* The steps of dispatch.                                                  *)
(***************************************************************************)

\* The encoder tells a client the event it is given, and nothing else.
LEMMA EventShown ==
  ASSUME IInv, BlocksInv, Live, NEW ev \in Events,
         ev.type \in Marks => ev.x # None,
         ev.type = "sig" => ev.x = None
  PROVE  LET p == Encoded(enc, ev)
         IN  /\ TellsOnly(client, p.frames, ev) /\ p.frames \in Seq(FrameSet)
             /\ client # "openai" => StartsOnce(frames \o p.frames) /\ Begun(p.e, frames \o p.frames)
<1>1. Good(enc, frames)
  BY DEF IInv, ShownInv, Live
<1>2. CASE client = "openai"
  <2>1. Encoded(enc, ev) = OpenAIEvent(enc, ev)
    BY <1>2 DEF Encoded
  <2>2. LET g == OpenAIEvent(enc, ev).frames IN TellsOnly("openai", g, ev) /\ g \in Seq(FrameSet)
    BY OpenAITells
  <2>3. QED
    BY <1>2, <2>1, <2>2
<1>3. CASE client # "openai"
  <2>1. Encoded(enc, ev) = AnthropicEvent(enc, ev)
    BY <1>3 DEF Encoded
  <2>2. enc \in AnthropicEncoders /\ frames \in Seq(FrameSet)
    BY <1>1, <1>3 DEF Good, AnthropicGood
  <2>3. StartsOnce(frames) /\ Begun(enc, frames)
    BY <1>3 DEF BlocksInv
  <2>4. WrittenOf(client, AnthropicEvent(enc, ev), ev, frames)
    BY <1>3, <2>2, <2>3, AnthropicTells
  <2>5. QED
    BY <2>1, <2>4 DEF WrittenOf
<1>4. QED
  BY <1>2, <1>3

\* The end of a stream tells nothing.
LEMMA EndShown ==
  ASSUME NEW e, NEW fr \in Seq(FrameSet),
         client # "openai" => e \in AnthropicEncoders /\ StartsOnce(fr) /\ Begun(e, fr)
  PROVE  LET p == Finished(e)
         IN  /\ Hush(client, p.frames) /\ p.frames \in Seq(FrameSet)
             /\ client # "openai" => StartsOnce(fr \o p.frames)
<1>1. CASE client = "openai"
  <2>1. Finished(e) = OpenAIClose(e, TRUE)
    BY <1>1 DEF Finished
  <2>2. LET g == OpenAIClose(e, TRUE).frames IN Hush("openai", g) /\ g \in Seq(FrameSet)
    BY OpenAICloseHush
  <2>3. QED
    BY <1>1, <2>1, <2>2
<1>2. CASE client # "openai"
  <2>1. Finished(e) = AnthropicClose(e)
    BY <1>2 DEF Finished
  <2>2. e \in AnthropicEncoders /\ StartsOnce(fr) /\ Begun(e, fr)
    BY <1>2
  <2>3. Quietly(client, AnthropicClose(e), fr)
    BY <1>2, <2>2, AnthropicCloseQuiet
  <2>4. QED
    BY <2>1, <2>3 DEF Quietly
<1>3. QED
  BY <1>1, <1>2

\* The event dispatch receives.
LEMMA Received ==
  ASSUME IInv, DInv, Receive, HandlerOnly
  PROVE  /\ Pipe \in Seq(Events) /\ Pipe # <<>> /\ Head(Incoming) = Pipe[1] /\ Pipe[1] \in Events
         /\ Pipe' = Tail(Pipe) /\ Flows(lane, sent, Tail(Pipe))
         /\ Pipe[1].type \in Marks => Pipe[1] \in OurDue /\ Pipe[1].x # None
         /\ Pipe[1].type = "sig" => Pipe[1].x = None
         /\ UNCHANGED <<lane, client, filtered, sent, producer, filter, timedOut, gone>>
         /\ filtered => \A i \in DOMAIN passed' : passed'[i].type # "think"
         /\ filter.pc \in {"done", "quit"} => queue' = queue
<1>1. /\ Pipe \in Seq(Events) /\ Pipe # <<>> /\ Head(Incoming) = Pipe[1] /\ Pipe' = Tail(Pipe)
      /\ UNCHANGED <<lane, client, filtered, sent, timedOut, gone>>
  BY Receives DEF IInv
<1>2. UNCHANGED <<producer, filter>>
  BY DEF HandlerOnly
<1>3. Flows(lane, sent, Pipe) /\ Chained(sent)
  BY SentChained DEF DInv, OrderInv, IInv
<1>4. 1 \in DOMAIN Pipe /\ Pipe[1] \in Events
  BY <1>1, SequenceElements
<1>5. Flows(lane, sent, Tail(Pipe)) /\ (Pipe[1].type \in Marks => Pipe[1] \in Written(lane, sent))
  BY <1>1, <1>3, FlowsTail
<1>6. Pipe[1].type = "sig" => Pipe[1].x = None
  BY <1>3, <1>4 DEF Flows, Unsigned
<1>7. filtered => /\ Pipe[1].type # "think" /\ queue' = queue
                  /\ \A i \in DOMAIN passed' : passed'[i].type # "think"
  <2>1. SUFFICES ASSUME filtered
                 PROVE  /\ Pipe[1].type # "think" /\ queue' = queue
                        /\ \A i \in DOMAIN passed' : passed'[i].type # "think"
    OBVIOUS
  <2>2. passed # <<>> /\ passed' = Tail(passed) /\ Head(passed) = Pipe[1] /\ queue' = queue
    BY <1>1, <2>1 DEF Receive, Incoming
  <2>3. passed \in Seq(Events) /\ \A i \in DOMAIN passed : passed[i].type # "think"
    BY <2>1 DEF IInv, StreamTypes, ChannelTypes, DInv, EndInv
  <2>4. /\ Head(passed) = passed[1] /\ 1 \in DOMAIN passed
        /\ Tail(passed) \in Seq(Events) /\ Len(Tail(passed)) = Len(passed) - 1 /\ Len(passed) \in Nat
        /\ DOMAIN passed = 1..Len(passed) /\ DOMAIN Tail(passed) = 1..(Len(passed) - 1)
        /\ \A i \in 1..(Len(passed) - 1) : Tail(passed)[i] = passed[i + 1]
    BY <2>2, <2>3, HeadTailProperties, LenProperties, SequenceElements
  <2>5. QED
    BY <2>2, <2>3, <2>4
<1>8. filter.pc \in {"done", "quit"} => filtered
  BY DEF IInv, StreamTypes, UpstreamTypes, FilterTypes
<1>9. Pipe[1].type \in Marks => Pipe[1] \in OurDue /\ Pipe[1].x # None
  <2>1. SUFFICES ASSUME Pipe[1].type \in Marks PROVE Pipe[1] \in OurDue /\ Pipe[1].x # None
    OBVIOUS
  <2> DEFINE ev == Pipe[1]
  <2>2. ev \in Written(lane, sent)
    BY <1>5, <2>1
  <2> HIDE DEF ev
  <2>3. ev.x \in Nat
    BY <1>3, <2>2, WrittenIs
  <2>4. ev.x # None
    BY <2>3, ValueTypes
  <2>5. QED
    BY <1>7, <2>2, <2>4 DEF OurDue, Due, ev
<1>10. QED
  BY <1>1, <1>2, <1>4, <1>5, <1>6, <1>7, <1>8, <1>9

\* A step with which dispatch goes on, or stops, keeps what is said of the end.
LEMMA EndKeeps ==
  ASSUME IInv, DInv, Receive, HandlerOnly, handler \in {"first", "loop"},
         handler' \in {"loop", "left", "broke"}
  PROVE  EndInv'
<1>1. /\ UNCHANGED <<lane, client, filtered, sent, producer, filter, timedOut, gone>>
      /\ filtered => \A i \in DOMAIN passed' : passed'[i].type # "think"
      /\ filter.pc \in {"done", "quit"} => queue' = queue
  BY Received
<1>2. ~CtxDone' => ~CtxDone
  BY <1>1 DEF CtxDone
<1>3. QED
  BY <1>1, <1>2 DEF DInv, EndInv

LEMMA EventDelivers ==
  ASSUME IInv, DInv, Receive, HandlerOnly, Head(Incoming).type # "error",
         handler \in {"first", "loop"}, handler' = "loop",
         gone => frames' = frames,
         ~gone => Write(Encoded(enc, Head(Incoming)))
  PROVE  DInv'
<1> DEFINE ev == Pipe[1]
<1>1. /\ Pipe \in Seq(Events) /\ Pipe # <<>> /\ Head(Incoming) = ev /\ ev \in Events
      /\ Pipe' = Tail(Pipe) /\ Flows(lane, sent, Tail(Pipe))
      /\ ev.type \in Marks => ev \in OurDue /\ ev.x # None
      /\ ev.type = "sig" => ev.x = None
      /\ UNCHANGED <<lane, client, filtered, sent, timedOut, gone>>
  BY Received
<1>2. SentInv'
  BY <1>1, SentSame DEF DInv
<1>3. EndInv'
  BY EndKeeps
<1>4. /\ Flows(lane, sent, Pipe) /\ Arrived(client, lane, sent, OurDue, frames)
      /\ Live => Continues(client, lane, sent, OurDue, frames, Pipe)
  BY DEF DInv, OrderInv
<1>5. OurDue' = OurDue /\ OurDue \subseteq Written(lane, sent)
  BY <1>1 DEF OurDue, Due
<1>6. CASE gone
  <2>1. ~Live' /\ frames' = frames
    BY <1>1, <1>6 DEF Live
  <2>2. OrderInv'
    BY <1>1, <1>4, <1>5, <2>1 DEF OrderInv
  <2>3. BlocksInv'
    BY <1>1, <2>1 DEF DInv, BlocksInv
  <2>4. QED
    BY <1>2, <1>3, <2>2, <2>3 DEF DInv
<1>7. CASE ~gone
  <2> DEFINE p == Encoded(enc, ev)
  <2>1. enc' = p.e /\ frames' = frames \o p.frames
    BY <1>1, <1>7 DEF Write
  <2>2. Live
    BY <1>7 DEF Live
  <2> HIDE DEF ev
  <2>3. /\ TellsOnly(client, p.frames, ev) /\ p.frames \in Seq(FrameSet)
        /\ client # "openai" => StartsOnce(frames \o p.frames) /\ Begun(p.e, frames \o p.frames)
    BY <1>1, <2>2, EventShown DEF DInv
  <2>4. frames \in Seq(FrameSet)
    BY <2>2, GoodShown DEF IInv, ShownInv, Live
  <2> DEFINE g == p.frames
  <2>5. g \in Seq(FrameSet) /\ TellsOnly(client, g, Pipe[1]) /\ (Pipe[1].type \in Marks => Pipe[1] \in OurDue)
    BY <1>1, <2>3 DEF ev
  <2>6. Chained(sent) /\ Continues(client, lane, sent, OurDue, frames, Pipe)
    BY <1>4, <2>2, SentChained DEF IInv, DInv
  <2> HIDE DEF g, p
  <2>7. /\ Arrived(client, lane, sent, OurDue, frames \o g)
        /\ Continues(client, lane, sent, OurDue, frames \o g, Tail(Pipe))
    BY <1>1, <1>4, <1>5, <2>4, <2>5, <2>6, FirstReceived
  <2>8. OrderInv'
    BY <1>1, <1>5, <2>1, <2>7 DEF OrderInv, g
  <2>9. BlocksInv'
    <3>1. frames \o p.frames \in Seq(FrameSet)
      BY <2>3, <2>4, ConcatProperties
    <3>2. QED
      BY <1>1, <2>1, <2>3, <3>1 DEF BlocksInv
  <2>10. QED
    BY <1>2, <1>3, <2>8, <2>9 DEF DInv
<1>8. QED
  BY <1>6, <1>7

LEMMA NextErrorDelivers ==
  ASSUME IInv, DInv, NextError
  PROVE  DInv'
<1> DEFINE ev == Pipe[1]
           error == Encoded(enc, ev)
           end == Finished(error.e)
<1>1. /\ handler = "loop" /\ Receive /\ Head(Incoming).type = "error" /\ handler' = "broke" /\ HandlerOnly
  BY DEF NextError
<1>2. /\ Pipe \in Seq(Events) /\ Pipe # <<>> /\ Head(Incoming) = ev /\ ev \in Events
      /\ Pipe' = Tail(Pipe) /\ Flows(lane, sent, Tail(Pipe))
      /\ UNCHANGED <<lane, client, filtered, sent, timedOut, gone>>
  BY <1>1, Received
<1>3. frames' = IF gone THEN frames ELSE frames \o (error.frames \o end.frames)
  BY <1>2 DEF NextError, Write
<1>4. SentInv' /\ EndInv'
  BY <1>1, <1>2, SentSame, EndKeeps DEF DInv
<1>5. Arrived(client, lane, sent, OurDue, frames)
  BY DEF DInv, OrderInv
<1>6. OurDue' = OurDue /\ ~Live'
  BY <1>1, <1>2 DEF OurDue, Live
<1>7. ev.type = "error"
  BY <1>1, <1>2
<1> HIDE DEF ev, error, end
<1>8. /\ Arrived(client, lane, sent, OurDue, frames') /\ frames' \in Seq(FrameSet)
      /\ client # "openai" => StartsOnce(frames')
  <2>1. CASE gone
    BY <1>3, <1>5, <2>1 DEF DInv, BlocksInv
  <2>2. CASE ~gone
    <3>1. Live /\ Good(enc, frames) /\ frames \in Seq(FrameSet) /\ enc.started
      <4>1. Live /\ Good(enc, frames) /\ frames \in Seq(FrameSet)
        BY <1>1, <2>2, GoodShown DEF IInv, ShownInv, Live
      <4>2. enc.started
        BY <1>1, <1>2, <1>7, <2>2 DEF ev, IInv, ShownInv, PipeInv
      <4>3. QED
        BY <4>1, <4>2
    <3>2. ev.type \notin Marks /\ ev.type # "sig"
      BY <1>7 DEF Marks
    <3> DEFINE g == error.frames
               fr == frames \o g
    <3>3. /\ TellsOnly(client, g, ev) /\ g \in Seq(FrameSet)
          /\ client # "openai" => StartsOnce(fr) /\ Begun(error.e, fr)
      BY <1>2, <3>1, <3>2, EventShown DEF DInv, error
    <3>4. error.e = enc /\ Good(enc, fr)
      BY <1>2, <1>7, <3>1, ErrorEncoded DEF error, IInv, StreamTypes, UpstreamTypes
    <3>5. client # "openai" => error.e \in AnthropicEncoders
      BY <3>4 DEF Good, AnthropicGood
    <3>6. Hush(client, g)
      BY <3>2, <3>3 DEF TellsOnly
    <3> HIDE DEF g
    <3>7. Arrived(client, lane, sent, OurDue, fr)
      BY <1>5, <3>1, <3>3, <3>6, ArrivedHush
    <3>8. fr \in Seq(FrameSet)
      BY <3>1, <3>3, ConcatProperties
    <3> HIDE DEF fr
    <3>9. /\ Hush(client, end.frames) /\ end.frames \in Seq(FrameSet)
          /\ client # "openai" => StartsOnce(fr \o end.frames)
      BY <3>3, <3>5, <3>8, EndShown DEF end
    <3>10. Arrived(client, lane, sent, OurDue, fr \o end.frames)
      BY <3>7, <3>8, <3>9, ArrivedHush
    <3>11. frames \o (g \o end.frames) = fr \o end.frames
      <4>1. Joins(frames, g, end.frames)
        BY <3>1, <3>3, <3>9, Joined
      <4>2. QED
        BY <4>1 DEF Joins, fr
    <3>12. QED
      <4>1. fr \o end.frames \in Seq(FrameSet)
        BY <3>8, <3>9, ConcatProperties
      <4>2. QED
        BY <1>3, <2>2, <3>9, <3>10, <3>11, <4>1 DEF g
  <2>3. QED
    BY <2>1, <2>2
<1>9. OrderInv'
  BY <1>2, <1>6, <1>8 DEF OrderInv
<1>10. BlocksInv'
  BY <1>2, <1>6, <1>8 DEF BlocksInv
<1>11. QED
  BY <1>4, <1>9, <1>10 DEF DInv

\* Once the channel is found closed, nothing is on its way, unless the context was done.
LEMMA NothingLeft ==
  ASSUME IInv, DInv, Closed, ~CtxDone
  PROVE  producer.pc = "done" /\ Pipe = <<>>
<1>1. producer.pc = "done" /\ queue = <<>> /\ passed = <<>> /\ filter.pc # "putting"
  BY DEF Closed, Incoming, DInv, EndInv, IInv, StreamTypes, FilterTypes, ChannelTypes, UpstreamTypes
<1>2. producer.pending = <<>> /\ Held = <<>>
  BY <1>1 DEF DInv, EndInv, Held
<1>3. <<>> \o (<<>> \o (<<>> \o <<>>)) = <<>>
  OBVIOUS
<1>4. QED
  BY <1>1, <1>2, <1>3 DEF Pipe

LEMMA ClosedDelivers ==
  ASSUME IInv, DInv, FirstClosed \/ ClientLeftFirst \/ NextClosed
  PROVE  DInv'
<1>1. UNCHANGED <<lane, client, filtered, sent, producer, filter, timedOut, gone, queue, passed>>
  BY DEF FirstClosed, ClientLeftFirst, NextClosed, HandlerOnly, upstreamVars, ctxVars
<1>2. Pipe' = Pipe /\ SentInv' /\ OurDue' = OurDue
  BY <1>1, SentSame DEF Pipe, Held, DInv, OurDue
<1>3. /\ handler \in {"first", "loop"} /\ handler' \in {"left", "broke", "returned"} /\ ~Live'
      /\ ~CtxDone' => ~CtxDone
  BY <1>1 DEF FirstClosed, ClientLeftFirst, NextClosed, Live, CtxDone
<1>4. CASE FirstClosed \/ ClientLeftFirst
  <2>1. frames' = frames /\ handler' # "returned"
    BY <1>4 DEF FirstClosed, ClientLeftFirst
  <2>2. OrderInv'
    BY <1>1, <1>2, <1>3, <2>1, OrderSame DEF DInv
  <2>3. BlocksInv'
    BY <1>1, <1>3, <2>1, BlocksSame DEF DInv
  <2>4. EndInv'
    BY <1>1, <1>3, <2>1 DEF DInv, EndInv
  <2>5. QED
    BY <1>2, <2>2, <2>3, <2>4 DEF DInv
<1>5. CASE NextClosed
  <2> DEFINE g == Finished(enc).frames
  <2>1. /\ handler = "loop" /\ Closed /\ handler' = "returned"
        /\ frames' = IF gone THEN frames ELSE frames \o g
    BY <1>5 DEF NextClosed, Write
  <2>2. Flows(lane, sent, Pipe) /\ Arrived(client, lane, sent, OurDue, frames)
    BY DEF DInv, OrderInv
  <2>3. CtxDone'
    BY <2>1 DEF CtxDone
  <2>4. /\ Arrived(client, lane, sent, OurDue, frames') /\ frames' \in Seq(FrameSet)
        /\ client # "openai" => StartsOnce(frames')
        /\ ~gone => \A ev : Has(client, lane, sent, frames, ev) => Has(client, lane, sent, frames', ev)
    <3>1. CASE gone
      BY <2>1, <2>2, <3>1 DEF DInv, BlocksInv
    <3>2. CASE ~gone
      <4>1. Live /\ Good(enc, frames) /\ frames \in Seq(FrameSet)
        BY <2>1, <3>2, GoodShown DEF IInv, ShownInv, Live
      <4>2. client # "openai" => enc \in AnthropicEncoders /\ StartsOnce(frames) /\ Begun(enc, frames)
        BY <4>1 DEF Good, AnthropicGood, DInv, BlocksInv
      <4>3. /\ Hush(client, g) /\ g \in Seq(FrameSet)
            /\ client # "openai" => StartsOnce(frames \o g)
        BY <4>1, <4>2, EndShown
      <4> HIDE DEF g
      <4>4. Arrived(client, lane, sent, OurDue, frames \o g)
        BY <2>2, <4>1, <4>3, ArrivedHush
      <4>5. \A ev : Has(client, lane, sent, frames, ev) => Has(client, lane, sent, frames \o g, ev)
        BY <2>2, <4>1, <4>3, ArrivedHush
      <4>6. frames \o g \in Seq(FrameSet)
        BY <4>1, <4>3, ConcatProperties
      <4>7. QED
        BY <2>1, <3>2, <4>3, <4>4, <4>5, <4>6
    <3>3. QED
      BY <3>1, <3>2
  <2> HIDE DEF g
  <2>5. OrderInv'
    BY <1>1, <1>2, <1>3, <2>2, <2>4 DEF OrderInv
  <2>6. BlocksInv'
    BY <1>1, <1>3, <2>4 DEF BlocksInv
  <2>7. ASSUME ~gone, ~timedOut
        PROVE  producer.pc = "done" /\ \A ev \in OurDue : Has(client, lane, sent, frames', ev)
    <3>1. ~CtxDone /\ Live
      BY <2>1, <2>7 DEF CtxDone, Live
    <3>2. producer.pc = "done" /\ Pipe = <<>>
      BY <2>1, <3>1, NothingLeft
    <3>3. Continues(client, lane, sent, OurDue, frames, Pipe)
      BY <3>1 DEF DInv, OrderInv
    <3>4. \A ev \in OurDue : Has(client, lane, sent, frames, ev)
      BY <3>2, <3>3 DEF Continues
    <3>5. QED
      BY <2>4, <2>7, <3>2, <3>4
  <2>8. EndInv'
    BY <1>1, <1>2, <2>3, <2>7 DEF DInv, EndInv
  <2>9. QED
    BY <1>2, <2>5, <2>6, <2>8 DEF DInv
<1>6. QED
  BY <1>4, <1>5

LEMMA FirstErrorDelivers ==
  ASSUME IInv, DInv, handler = "first", Receive, HandlerOnly, handler' = "left", frames' = frames
  PROVE  DInv'
<1>1. /\ Pipe' = Tail(Pipe) /\ Flows(lane, sent, Tail(Pipe))
      /\ UNCHANGED <<lane, client, filtered, sent, timedOut, gone>>
  BY Received
<1>2. ~Live' /\ OurDue' = OurDue
  BY <1>1 DEF Live, OurDue
<1>3. SentInv' /\ EndInv'
  BY <1>1, SentSame, EndKeeps DEF DInv
<1>4. OrderInv' /\ BlocksInv'
  BY <1>1, <1>2 DEF DInv, OrderInv, BlocksInv
<1>5. QED
  BY <1>3, <1>4 DEF DInv

-----------------------------------------------------------------------------
(***************************************************************************)
(* The invariant.                                                          *)
(***************************************************************************)
LEMMA InitDelivers ==
  ASSUME Init
  PROVE  DInv
<1>1. /\ sent = <<>> /\ queue = <<>> /\ passed = <<>> /\ producer.pending = <<>> /\ frames = <<>>
      /\ producer.pc = "reading" /\ handler = "first" /\ filter.pc \in {"taking", "off"}
  BY DEF Init
<1>2. DOMAIN <<>> = {} /\ <<>> \o (<<>> \o (<<>> \o <<>>)) = <<>>
  OBVIOUS
<1>3. Calls = 0 /\ Items = 0
  <2>1. {i \in DOMAIN sent : sent[i].kind = "open"} = {} /\ {i \in DOMAIN sent : sent[i].new} = {}
    BY <1>1, <1>2
  <2>2. QED
    BY <2>1, FS_EmptySet DEF Calls, Items
<1>4. SentInv
  BY <1>1, <1>2, <1>3 DEF SentInv, NumberedInv, CallsInv, ItemsInv
<1>5. Pipe = <<>>
  BY <1>1, <1>2 DEF Pipe, Held
<1>6. OurDue = {}
  BY <1>1, <1>2 DEF OurDue, Due, Written
<1>7. OrderInv
  BY <1>1, <1>2, <1>5, <1>6 DEF OrderInv, Flows, Unsigned, Arrived, ToldInOrder, Continues
<1>8. BlocksInv
  BY <1>1, <1>2 DEF BlocksInv, StartsOnce, Begun
<1>9. EndInv
  BY <1>1, <1>2 DEF EndInv
<1>10. QED
  BY <1>4, <1>7, <1>8, <1>9 DEF DInv

LEMMA NextDelivers ==
  ASSUME IInv, DInv, [Next]_vars
  PROVE  DInv'
<1>1. CASE Lane
  BY <1>1, LaneReadDelivers, LaneErrorDelivers, LaneMovesDelivers DEF Lane, IInv
<1>2. CASE Filter
  BY <1>2, FilterTakeDelivers, FilterMovesDelivers DEF Filter, IInv
<1>3. CASE FirstEvent
  <2>1. CASE Head(Incoming).type = "error"
    <3>1. /\ handler = "first" /\ Receive /\ HandlerOnly /\ handler' = "left" /\ frames' = frames
      BY <1>3, <2>1 DEF FirstEvent
    <3>2. QED
      BY <3>1, FirstErrorDelivers
  <2>2. CASE Head(Incoming).type # "error"
    <3>1. /\ handler = "first" /\ Receive /\ HandlerOnly /\ handler' = "loop"
          /\ Write(Encoded(enc, Head(Incoming)))
      BY <1>3, <2>2 DEF FirstEvent
    <3>2. gone => frames' = frames
      BY <3>1 DEF Write
    <3>3. QED
      BY <2>2, <3>1, <3>2, EventDelivers
  <2>3. QED
    BY <2>1, <2>2
<1>4. CASE FirstClosed \/ ClientLeftFirst \/ NextClosed
  BY <1>4, ClosedDelivers
<1>5. CASE NextEvent
  <2>1. /\ handler = "loop" /\ Receive /\ HandlerOnly /\ handler' = "loop"
        /\ Head(Incoming).type # "error" /\ failing' = (failing \/ gone)
        /\ IF failing' THEN UNCHANGED <<enc, frames>> ELSE Write(Encoded(enc, Head(Incoming)))
    BY <1>5 DEF NextEvent
  <2>2. gone \in BOOLEAN /\ failing \in BOOLEAN /\ (failing => gone)
    BY DEF IInv, StreamTypes, HandlerTypes, ShownInv
  <2>3. failing' = gone
    BY <2>1, <2>2
  <2>4. /\ gone => frames' = frames
        /\ ~gone => Write(Encoded(enc, Head(Incoming)))
    BY <2>1, <2>3
  <2>5. QED
    BY <2>1, <2>4, EventDelivers
<1>6. CASE NextError
  BY <1>6, NextErrorDelivers
<1>7. CASE ~Over /\ (Timeout \/ HangUp \/ Stall)
  <2>1. /\ UNCHANGED <<lane, client, filtered, sent, producer, queue, filter, passed, handler, enc, frames>>
        /\ gone => gone'
        /\ ~CtxDone' => ~CtxDone
        /\ handler # "returned"
    BY <1>7 DEF Timeout, HangUp, Stall, Env, upstreamVars, filterVars, handlerVars, CtxDone, Over
  <2>2. Pipe' = Pipe /\ (Live' => Live)
    BY <2>1 DEF Pipe, Held, Live
  <2>3. SentInv' /\ OrderInv' /\ BlocksInv'
    BY <2>1, <2>2, SentSame, OrderSame, BlocksSame DEF DInv
  <2>4. EndInv'
    BY <2>1 DEF DInv, EndInv
  <2>5. QED
    BY <2>3, <2>4 DEF DInv
<1>8. CASE UNCHANGED vars
  <2>1. UNCHANGED <<lane, client, filtered, sent, producer, queue, filter, passed, timedOut, gone, handler, enc, frames>>
    BY <1>8 DEF vars
  <2>2. Pipe' = Pipe /\ Live' = Live /\ OurDue' = OurDue /\ CtxDone' = CtxDone
    BY <2>1 DEF Pipe, Held, Live, OurDue, CtxDone
  <2>3. SentInv' /\ OrderInv' /\ BlocksInv'
    BY <2>1, <2>2, SentSame, OrderSame, BlocksSame DEF DInv
  <2>4. EndInv'
    BY <2>1, <2>2 DEF DInv, EndInv
  <2>5. QED
    BY <2>3, <2>4 DEF DInv
<1>9. QED
  BY <1>1, <1>2, <1>3, <1>4, <1>5, <1>6, <1>7, <1>8 DEF Next, Dispatch

\* In every behaviour, what a client has was read by the lane and let through by the filter, in
\* the order it was read, with nothing missing between.  While dispatch reads for a client that
\* is there, the rest is on its way behind it; and when dispatch returns to such a client, in
\* time, all of it is with the client.
THEOREM DeliveryInvariant == Spec => [](IInv /\ DInv)
<1>1. Init => IInv /\ DInv
  BY InitInv, InitDelivers
<1>2. IInv /\ DInv /\ [Next]_vars => IInv' /\ DInv'
  BY NextInv, NextDelivers
<1>3. QED
  BY <1>1, <1>2, PTL DEF Spec

-----------------------------------------------------------------------------
(***************************************************************************)
(* What a client reads: the frames that tell of a piece of some content.   *)
(***************************************************************************)
Bears(i, what) == PieceFrame(client, frames[i]) /\ What(sent[frames[i].x]) = what

LEMMA IndexIs == \A c : c.kind \in Pieces \ {"end"} => Index(lane, c) = IndexOf(c)
BY DEF Index, IndexOf, IsCall, Pieces

\* A frame of a piece has its content and its index.
LEMMA PieceReceived ==
  ASSUME StreamTypes, DInv, NEW i \in DOMAIN frames, PieceFrame(client, frames[i])
  PROVE  LET p == frames[i].x IN
         /\ p \in Answer /\ p \in Nat
         /\ Told(client, lane, sent, frames[i]) = Saying(lane, sent[p])
         /\ Number(sent, Told(client, lane, sent, frames[i])) = 2 * p + 1
         /\ client = "openai" =>
              frames[i].f = FrameOf(EventOf(sent[p])) /\ (IsCall(sent[p]) => frames[i].ix = IndexOf(sent[p]))
         /\ client # "openai" => frames[i].kind = KindOf(EventOf(sent[p])) /\ frames[i].ix = IndexOf(sent[p])
<1> DEFINE ev == Told(client, lane, sent, frames[i])
<1>1. Chained(sent)
  BY SentChained DEF DInv
<1>2. ev \in OurDue /\ Tells(client, frames[i], ev)
  BY DEF DInv, OrderInv, Arrived, Telling
<1>3. ev \in Written(lane, sent) /\ ~(filtered /\ ev.type = "think")
  BY <1>2 DEF OurDue, Due
<1>4. ~CallFrame(client, frames[i])
  BY DEF PieceFrame, CallFrame
<1> HIDE DEF ev
<1>5. PICK p \in DOMAIN sent :
        /\ p \in Nat
        /\ \/ /\ sent[p].kind # "end" /\ ev = Saying(lane, sent[p]) /\ ev.type # "call" /\ ev.x = p
              /\ Number(sent, ev) = 2 * p + 1
           \/ ev.type = "call"
  BY <1>1, <1>3, WrittenIs
<1>6. ev.type # "call"
  BY <1>2, <1>4 DEF Tells
<1>7. frames[i].x = p
  BY <1>2, <1>5, <1>6 DEF Tells
<1>8. ev.type = EventOf(sent[p]) /\ ev.ix = Index(lane, sent[p]) /\ sent[p].kind \in Pieces
  BY <1>1, <1>5, <1>6, SayingIs, ChainedElements
<1>9. Index(lane, sent[p]) = IndexOf(sent[p])
  BY <1>5, <1>6, <1>8, IndexIs
<1>10. p \in Answer
  BY <1>3, <1>5, <1>6, <1>8 DEF Answer, EventOf, IsCall
<1>11. /\ client = "openai" =>
            frames[i].f = FrameOf(ev.type) /\ (ev.type = "args" => frames[i].ix = ev.ix)
       /\ client # "openai" => frames[i].kind = KindOf(ev.type) /\ frames[i].ix = ev.ix
  BY <1>2, <1>6 DEF Tells
<1>12. IsCall(sent[p]) => ev.type = "args"
  BY <1>8 DEF EventOf
<1>13. QED
  BY <1>5, <1>6, <1>7, <1>8, <1>9, <1>10, <1>11, <1>12 DEF ev

\* A frame of a call.
LEMMA CallReceived ==
  ASSUME StreamTypes, DInv, NEW i \in DOMAIN frames, CallFrame(client, frames[i])
  PROVE  \E q \in DOMAIN sent :
           /\ q \in Nat /\ sent[q].kind = "open" /\ IsCall(sent[q])
           /\ frames[i].x = sent[q].call /\ frames[i].ix = IndexOf(sent[q])
           /\ Number(sent, Told(client, lane, sent, frames[i])) = 2 * q
<1> DEFINE ev == Told(client, lane, sent, frames[i])
<1>1. Chained(sent)
  BY SentChained DEF DInv
<1>2. ev \in OurDue /\ Tells(client, frames[i], ev)
  BY DEF DInv, OrderInv, Arrived, Telling
<1>3. ev \in Written(lane, sent) /\ ev.type = "call" /\ ev.x = frames[i].x /\ ev.ix = frames[i].ix
  BY <1>2 DEF OurDue, Due, Told, Ev
<1> HIDE DEF ev
<1>4. PICK q \in DOMAIN sent :
        /\ q \in Nat
        /\ \/ ev.type # "call"
           \/ /\ sent[q].kind = "open" /\ ev = Calling(lane, sent[q])
              /\ ev.x = sent[q].call /\ Number(sent, ev) = 2 * q
  BY <1>1, <1>3, WrittenIs
<1>5. ev.ix = Index(lane, sent[q])
  BY <1>1, <1>3, <1>4, SayingIs
<1>6. Index(lane, sent[q]) = IndexOf(sent[q]) /\ IsCall(sent[q])
  BY <1>3, <1>4, IndexIs DEF Pieces, IsCall
<1>7. QED
  BY <1>3, <1>4, <1>5, <1>6 DEF ev

\* What is due of a piece of the answer, and of a call.
LEMMA PieceDue ==
  ASSUME StreamTypes, SentInv, NEW p \in DOMAIN sent
  PROVE  /\ p \in Nat /\ sent[p].piece = p /\ sent[p].kind \in Pieces
         /\ p \in Answer =>
              /\ Saying(lane, sent[p]) \in OurDue /\ Number(sent, Saying(lane, sent[p])) = 2 * p + 1
              /\ Saying(lane, sent[p]).type # "call" /\ Saying(lane, sent[p]).x = p
         /\ sent[p].kind = "open" =>
              /\ Calling(lane, sent[p]) \in OurDue /\ Number(sent, Calling(lane, sent[p])) = 2 * p
              /\ Calling(lane, sent[p]).type = "call" /\ Calling(lane, sent[p]).x = sent[p].call
              /\ Calling(lane, sent[p]).ix = IndexOf(sent[p])
<1>1. Chained(sent)
  BY SentChained
<1>2. p \in Nat /\ sent[p].piece = p /\ sent[p].kind \in Pieces
  BY <1>1, ChainedElements DEF Chained
<1>3. ASSUME p \in Answer
      PROVE  /\ Saying(lane, sent[p]) \in OurDue /\ Number(sent, Saying(lane, sent[p])) = 2 * p + 1
             /\ Saying(lane, sent[p]).type # "call" /\ Saying(lane, sent[p]).x = p
  <2>1. sent[p].kind # "end" /\ ~(filtered /\ sent[p].kind = "think")
    BY <1>3 DEF Answer
  <2>2. /\ Saying(lane, sent[p]).type = EventOf(sent[p]) /\ Saying(lane, sent[p]).type # "call"
        /\ Saying(lane, sent[p]).x = p /\ Number(sent, Saying(lane, sent[p])) = 2 * p + 1
    BY <1>1, <2>1, SayingIs
  <2>3. EventOf(sent[p]) = "think" => sent[p].kind = "think"
    BY DEF EventOf
  <2>4. QED
    BY <2>1, <2>2, <2>3 DEF OurDue, Due, Written
<1>4. ASSUME sent[p].kind = "open"
      PROVE  /\ Calling(lane, sent[p]) \in OurDue /\ Number(sent, Calling(lane, sent[p])) = 2 * p
             /\ Calling(lane, sent[p]).type = "call" /\ Calling(lane, sent[p]).x = sent[p].call
             /\ Calling(lane, sent[p]).ix = IndexOf(sent[p])
  <2>1. /\ Calling(lane, sent[p]).type = "call" /\ Calling(lane, sent[p]).x = sent[p].call
        /\ Calling(lane, sent[p]).ix = Index(lane, sent[p]) /\ Number(sent, Calling(lane, sent[p])) = 2 * p
    BY <1>1, <1>4, SayingIs
  <2>2. Index(lane, sent[p]) = IndexOf(sent[p])
    BY <1>2, <1>4, IndexIs
  <2>3. QED
    BY <1>4, <2>1, <2>2 DEF OurDue, Due, Written
<1>5. QED
  BY <1>2, <1>3, <1>4

Had(ev) == Has(client, lane, sent, frames, ev)

LEMMA PieceHad ==
  ASSUME StreamTypes, DInv, NEW p \in Answer, Had(Saying(lane, sent[p]))
  PROVE  \E i \in DOMAIN frames : PieceFrame(client, frames[i]) /\ frames[i].x = p
<1>1. PICK i \in DOMAIN frames :
        Telling(client, frames[i]) /\ Told(client, lane, sent, frames[i]) = Saying(lane, sent[p])
  BY DEF Had, Has
<1>2. p \in DOMAIN sent
  BY DEF Answer
<1>3. Saying(lane, sent[p]).type # "call" /\ Saying(lane, sent[p]).x = p
  BY <1>2, PieceDue DEF DInv
<1>4. Tells(client, frames[i], Saying(lane, sent[p]))
  BY <1>1 DEF DInv, OrderInv, Arrived
<1>5. QED
  BY <1>3, <1>4 DEF Tells

LEMMA CallHad ==
  ASSUME StreamTypes, DInv, NEW q \in DOMAIN sent, sent[q].kind = "open", Had(Calling(lane, sent[q]))
  PROVE  \E i \in DOMAIN frames :
           CallFrame(client, frames[i]) /\ frames[i].x = sent[q].call /\ frames[i].ix = IndexOf(sent[q])
<1>1. PICK i \in DOMAIN frames :
        Telling(client, frames[i]) /\ Told(client, lane, sent, frames[i]) = Calling(lane, sent[q])
  BY DEF Had, Has
<1>2. /\ Calling(lane, sent[q]).type = "call" /\ Calling(lane, sent[q]).x = sent[q].call
      /\ Calling(lane, sent[q]).ix = IndexOf(sent[q])
  BY PieceDue DEF DInv
<1>3. Tells(client, frames[i], Calling(lane, sent[q]))
  BY <1>1 DEF DInv, OrderInv, Arrived
<1>4. QED
  BY <1>2, <1>3 DEF Tells

\* What was sent before something received has been received.
LEMMA HadBefore ==
  ASSUME DInv, NEW i \in DOMAIN frames, Telling(client, frames[i]), NEW ev \in OurDue,
         Number(sent, ev) < Number(sent, Told(client, lane, sent, frames[i]))
  PROVE  Had(ev)
BY DEF DInv, OrderInv, Arrived, Had

\* Frames come in the order of what they tell.
LEMMA InTurn ==
  ASSUME StreamTypes, DInv, NEW i \in DOMAIN frames, NEW j \in DOMAIN frames,
         PieceFrame(client, frames[i]), PieceFrame(client, frames[j])
  PROVE  i < j <=> frames[i].x < frames[j].x
<1> DEFINE m(k) == Number(sent, Told(client, lane, sent, frames[k]))
<1>1. /\ frames[i].x \in Nat /\ m(i) = 2 * frames[i].x + 1
      /\ frames[j].x \in Nat /\ m(j) = 2 * frames[j].x + 1
  BY PieceReceived
<1>2. (i < j => m(i) < m(j)) /\ (j < i => m(j) < m(i))
  BY DEF DInv, OrderInv, Arrived, ToldInOrder, Telling
<1>3. i \in Nat /\ j \in Nat
  <2>1. DOMAIN frames = 1..Len(frames) /\ Len(frames) \in Nat
    BY LenProperties DEF DInv, BlocksInv
  <2>2. QED
    BY <2>1
<1> HIDE DEF m
<1>4. QED
  BY <1>1, <1>2, <1>3

\* A call is opened before it is continued, at its index.
LEMMA OpenedBefore ==
  ASSUME StreamTypes, SentInv, NEW p \in DOMAIN sent, IsCall(sent[p])
  PROVE  \E o \in DOMAIN sent : /\ sent[o].kind = "open" /\ o <= p /\ IsCall(sent[o])
                                /\ sent[o].call = sent[p].call /\ IndexOf(sent[o]) = IndexOf(sent[p])
<1>1. p \in Nat
  BY PieceDue
<1>2. CASE sent[p].kind = "open"
  BY <1>1, <1>2
<1>3. CASE sent[p].kind = "args"
  <2>1. PICK o \in DOMAIN sent : o < p /\ sent[o].kind = "open" /\ sent[o].call = sent[p].call
    BY <1>3 DEF SentInv, CallsInv
  <2>2. o \in Nat
    BY PieceDue
  <2>3. QED
    BY <1>1, <1>3, <2>1, <2>2 DEF IndexOf, IsCall
<1>4. QED
  BY <1>2, <1>3 DEF IsCall

-----------------------------------------------------------------------------
(***************************************************************************)
(* An OpenAI client.                                                       *)
(***************************************************************************)

\* The last of a set of frames.
LEMMA LastOf ==
  ASSUME NEW n \in Nat, NEW T \in SUBSET (1..n), T # {}
  PROVE  \E m \in T : \A j \in T : j <= m
<1> DEFINE U == {n - i : i \in T}
<1>1. \A i \in T : n - i \in U /\ i \in Nat /\ n - i \in Nat
  OBVIOUS
<1>2. U \in SUBSET Nat /\ U # {}
  BY <1>1
<1> HIDE DEF U
<1>3. PICK u \in U : \A v \in U : u <= v
  BY <1>2, LeastNumber
<1>4. PICK m \in T : u = n - m
  BY <1>3 DEF U
<1>5. ASSUME NEW j \in T PROVE j <= m
  <2>1. n - m <= n - j /\ m \in Nat /\ j \in Nat
    BY <1>1, <1>3, <1>4
  <2>2. QED
    BY <2>1
<1>6. QED
  BY <1>5

\* A client knows the calls of an answer whose calls have an index each.
LEMMA CallKnown ==
  ASSUME StreamTypes, DInv, client = "openai", OwnCalls,
         NEW p \in DOMAIN sent, IsCall(sent[p]), NEW ix, ix = IndexOf(sent[p])
  PROVE  /\ \A id : Called(frames, ix, id) => id = sent[p].call
         /\ (\E i \in DOMAIN frames : frames[i].f = "call" /\ frames[i].ix = ix) =>
              Called(frames, ix, sent[p].call)
<1> DEFINE calls == {i \in DOMAIN frames : frames[i].f = "call" /\ frames[i].ix = ix}
<1>1. ASSUME NEW i \in calls PROVE frames[i].x = sent[p].call
  <2>1. CallFrame(client, frames[i])
    BY DEF CallFrame
  <2>2. PICK q \in DOMAIN sent : /\ IsCall(sent[q]) /\ frames[i].x = sent[q].call
                                 /\ frames[i].ix = IndexOf(sent[q])
    BY <2>1, CallReceived
  <2>3. What(sent[q]) = What(sent[p])
    BY <2>2 DEF OwnCalls
  <2>4. What(sent[q])[2] = sent[q].call /\ What(sent[p])[2] = sent[p].call
    BY <2>2 DEF What, IsCall
  <2>5. QED
    BY <2>2, <2>3, <2>4
<1>2. \A id : Called(frames, ix, id) => id = sent[p].call
  BY <1>1 DEF Called
<1>3. ASSUME calls # {} PROVE Called(frames, ix, sent[p].call)
  <2>1. DOMAIN frames = 1..Len(frames) /\ Len(frames) \in Nat
    BY LenProperties DEF DInv, BlocksInv
  <2>2. calls \in SUBSET (1..Len(frames))
    BY <2>1
  <2>3. PICK m \in calls : \A j \in calls : j <= m
    <3> HIDE DEF calls
    <3>1. QED
      BY <1>3, <2>1, <2>2, LastOf
  <2>4. QED
    BY <1>1, <2>3 DEF Called
<1>4. QED
  BY <1>2, <1>3

OpenAIHolds(fr, what) ==
  \/ what[1] = "text" /\ fr.f = "content"
  \/ what[1] = "think" /\ fr.f = "reasoning"
  \/ what[1] = "call" /\ fr.f = "args" /\ Called(frames, fr.ix, what[2])

\* It reads the frames that tell of what it looks for.
LEMMA OpenAIHoldsIt ==
  ASSUME StreamTypes, DInv, client = "openai", OwnCalls, NEW what \in Contents, NEW i \in DOMAIN frames
  PROVE  OpenAIHolds(frames[i], what) <=> Bears(i, what)
<1> DEFINE p == frames[i].x
<1>1. \/ what = <<"text", 0>> \/ what = <<"think", 0>>
      \/ \E k \in 0..(Calls - 1) : what = <<"call", k>>
  BY DEF Contents
<1>2. \/ what[1] = "text" /\ what = <<"text", 0>>
      \/ what[1] = "think" /\ what = <<"think", 0>>
      \/ what[1] = "call" /\ what = <<"call", what[2]>>
  BY <1>1
<1>3. OpenAIHolds(frames[i], what) => PieceFrame(client, frames[i])
  BY DEF OpenAIHolds, PieceFrame
<1>4. SUFFICES ASSUME PieceFrame(client, frames[i])
               PROVE  OpenAIHolds(frames[i], what) <=> What(sent[p]) = what
  BY <1>3 DEF Bears
<1>5. /\ p \in Answer /\ p \in Nat /\ Number(sent, Told(client, lane, sent, frames[i])) = 2 * p + 1
      /\ frames[i].f = FrameOf(EventOf(sent[p])) /\ (IsCall(sent[p]) => frames[i].ix = IndexOf(sent[p]))
  BY <1>4, PieceReceived
<1> HIDE DEF p
<1>6. p \in DOMAIN sent /\ sent[p].kind \in {"text", "think", "open", "args"}
  <2>1. p \in DOMAIN sent /\ sent[p].kind # "end"
    BY <1>5 DEF Answer
  <2>2. QED
    BY <2>1, PieceDue DEF Pieces, DInv
<1>7. CASE sent[p].kind = "text"
  <2>1. frames[i].f = "content" /\ What(sent[p]) = <<"text", 0>>
    BY <1>5, <1>7 DEF FrameOf, EventOf, IsCall, What
  <2>2. QED
    BY <1>2, <2>1 DEF OpenAIHolds
<1>8. CASE sent[p].kind = "think"
  <2>1. frames[i].f = "reasoning" /\ What(sent[p]) = <<"think", 0>>
    BY <1>5, <1>8 DEF FrameOf, EventOf, IsCall, What
  <2>2. QED
    BY <1>2, <2>1 DEF OpenAIHolds
<1>9. CASE IsCall(sent[p])
  <2>1. frames[i].f = "args" /\ What(sent[p]) = <<"call", sent[p].call>> /\ frames[i].ix = IndexOf(sent[p])
    BY <1>5, <1>9 DEF FrameOf, EventOf, IsCall, What
  <2>2. PICK o \in DOMAIN sent : /\ sent[o].kind = "open" /\ o <= p
                                 /\ IndexOf(sent[o]) = IndexOf(sent[p])
    BY <1>6, <1>9, OpenedBefore DEF DInv
  <2>3. o \in Nat /\ Calling(lane, sent[o]) \in OurDue /\ Number(sent, Calling(lane, sent[o])) = 2 * o
    BY <2>2, PieceDue DEF DInv
  <2>4. Had(Calling(lane, sent[o]))
    <3>1. 2 * o < 2 * p + 1
      BY <1>5, <2>2, <2>3
    <3>2. QED
      BY <1>4, <1>5, <2>3, <3>1, HadBefore DEF Telling
  <2>5. \E m \in DOMAIN frames : frames[m].f = "call" /\ frames[m].ix = frames[i].ix
    BY <2>1, <2>2, <2>4, CallHad DEF CallFrame
  <2>6. /\ \A id : Called(frames, frames[i].ix, id) => id = sent[p].call
        /\ Called(frames, frames[i].ix, sent[p].call)
    BY <1>6, <1>9, <2>1, <2>5, CallKnown
  <2>7. QED
    BY <1>2, <2>1, <2>6 DEF OpenAIHolds
<1>10. QED
  BY <1>6, <1>7, <1>8, <1>9 DEF IsCall

LEMMA OpenAIReadsThem ==
  ASSUME StreamTypes, DInv, client = "openai", OwnCalls, NEW what \in Contents
  PROVE  Reads(what) = {[at |-> <<0, i>>, x |-> frames[i].x] : i \in {j \in DOMAIN frames : Bears(j, what)}}
<1>1. Reads(what) = {[at |-> <<0, i>>, x |-> frames[i].x]
                       : i \in {j \in DOMAIN frames : OpenAIHolds(frames[j], what)}}
  BY DEF Reads, OpenAIReads, OpenAIHolds
<1>2. {j \in DOMAIN frames : OpenAIHolds(frames[j], what)} = {j \in DOMAIN frames : Bears(j, what)}
  BY OpenAIHoldsIt
<1>3. QED
  BY <1>1, <1>2

\* What is sent of some content is due, and what bears it is what was sent.
LEMMA BornIsSent ==
  ASSUME StreamTypes, DInv, NEW what, NEW i \in DOMAIN frames, Bears(i, what)
  PROVE  frames[i].x \in SentPieces(what) /\ frames[i].x \in Nat
<1> DEFINE p == frames[i].x
<1>1. p \in Answer /\ p \in Nat /\ What(sent[p]) = what
  BY PieceReceived DEF Bears
<1>2. p \in DOMAIN sent
  BY <1>1 DEF Answer
<1>3. sent[p].piece = p
  BY <1>2, PieceDue DEF DInv
<1>4. QED
  BY <1>1, <1>3 DEF SentPieces

LEMMA SentIsBorn ==
  ASSUME StreamTypes, DInv, NEW what, NEW y \in SentPieces(what)
  PROVE  /\ y \in Nat /\ y \in Answer /\ y \in DOMAIN sent /\ What(sent[y]) = what
         /\ Saying(lane, sent[y]) \in OurDue /\ Number(sent, Saying(lane, sent[y])) = 2 * y + 1
         /\ Had(Saying(lane, sent[y])) =>
              \E i \in DOMAIN frames : Bears(i, what) /\ frames[i].x = y
<1>1. PICK p \in Answer : What(sent[p]) = what /\ y = sent[p].piece
  BY DEF SentPieces
<1>2. p \in DOMAIN sent
  BY DEF Answer
<1>3. /\ p \in Nat /\ sent[p].piece = p
      /\ Saying(lane, sent[p]) \in OurDue /\ Number(sent, Saying(lane, sent[p])) = 2 * p + 1
  BY <1>2, PieceDue DEF DInv
<1>4. y = p
  BY <1>1, <1>3
<1>5. ASSUME Had(Saying(lane, sent[p]))
      PROVE  \E i \in DOMAIN frames : Bears(i, what) /\ frames[i].x = p
  <2>1. PICK i \in DOMAIN frames : PieceFrame(client, frames[i]) /\ frames[i].x = p
    BY <1>5, PieceHad
  <2>2. QED
    BY <1>1, <2>1 DEF Bears
<1>6. QED
  BY <1>1, <1>2, <1>3, <1>4, <1>5

\* Once a stream ended well, all of the answer has been received.
LEMMA AllHad ==
  ASSUME DInv, Clean, NEW ev \in OurDue
  PROVE  Had(ev)
BY DEF DInv, EndInv, Clean, Had

LEMMA DeliveredToOpenAI ==
  ASSUME StreamTypes, DInv
  PROVE  OpenAIIntact
<1>1. SUFFICES ASSUME client = "openai", OwnCalls, NEW what \in Contents
               PROVE  /\ InOrder(Reads(what)) /\ Read(what) \subseteq SentPieces(what)
                      /\ \A x \in Read(what), y \in SentPieces(what) : y < x => y \in Read(what)
                      /\ Clean => Read(what) = SentPieces(what)
  BY DEF OpenAIIntact
<1>2. Reads(what) = {[at |-> <<0, i>>, x |-> frames[i].x] : i \in {j \in DOMAIN frames : Bears(j, what)}}
  BY <1>1, OpenAIReadsThem
<1>3. Read(what) = {frames[i].x : i \in {j \in DOMAIN frames : Bears(j, what)}}
  <2>1. \A r \in Reads(what) : \E i \in {j \in DOMAIN frames : Bears(j, what)} : r.x = frames[i].x
    BY <1>2
  <2>2. ASSUME NEW i \in {j \in DOMAIN frames : Bears(j, what)}
        PROVE  \E r \in Reads(what) : r.x = frames[i].x
    <3> DEFINE r == [at |-> <<0, i>>, x |-> frames[i].x]
    <3>1. r \in Reads(what) /\ r.x = frames[i].x
      BY <1>2
    <3>2. QED
      BY <3>1
  <2>3. QED
    BY <2>1, <2>2 DEF Read
<1>4. ASSUME NEW r \in Reads(what), NEW s \in Reads(what)
      PROVE  r.x < s.x <=> r.at[1] < s.at[1] \/ (r.at[1] = s.at[1] /\ r.at[2] < s.at[2])
  <2>1. PICK i \in DOMAIN frames : Bears(i, what) /\ r = [at |-> <<0, i>>, x |-> frames[i].x]
    BY <1>2
  <2>2. PICK j \in DOMAIN frames : Bears(j, what) /\ s = [at |-> <<0, j>>, x |-> frames[j].x]
    BY <1>2
  <2>3. r.at[1] = 0 /\ s.at[1] = 0 /\ r.at[2] = i /\ s.at[2] = j /\ r.x = frames[i].x /\ s.x = frames[j].x
    BY <2>1, <2>2
  <2>4. i < j <=> frames[i].x < frames[j].x
    BY <2>1, <2>2, InTurn DEF Bears
  <2>5. QED
    BY <2>3, <2>4
<1>5. InOrder(Reads(what))
  BY <1>4 DEF InOrder
<1>6. Read(what) \subseteq SentPieces(what)
  BY <1>3, BornIsSent
<1>7. ASSUME NEW y \in SentPieces(what), Had(Saying(lane, sent[y])) PROVE y \in Read(what)
  BY <1>3, <1>7, SentIsBorn
<1>8. ASSUME NEW x \in Read(what), NEW y \in SentPieces(what), y < x PROVE y \in Read(what)
  <2>1. PICK i \in DOMAIN frames : Bears(i, what) /\ x = frames[i].x
    BY <1>3
  <2>2. x \in Nat /\ Number(sent, Told(client, lane, sent, frames[i])) = 2 * x + 1
    BY <2>1, PieceReceived DEF Bears
  <2>3. y \in Nat /\ Saying(lane, sent[y]) \in OurDue /\ Number(sent, Saying(lane, sent[y])) = 2 * y + 1
    BY SentIsBorn
  <2>4. Telling(client, frames[i]) /\ 2 * y + 1 < 2 * x + 1
    BY <1>8, <2>1, <2>2, <2>3 DEF Bears, Telling
  <2>5. Had(Saying(lane, sent[y]))
    BY <2>2, <2>3, <2>4, HadBefore
  <2>6. QED
    BY <1>7, <2>5
<1>9. ASSUME Clean PROVE SentPieces(what) \subseteq Read(what)
  BY <1>7, <1>9, AllHad, SentIsBorn
<1>10. QED
  BY <1>5, <1>6, <1>8, <1>9

-----------------------------------------------------------------------------
(***************************************************************************)
(* What the decoder of an Anthropic client has after n frames: of each     *)
(* delta its content, in the block at its index, in order; and of each     *)
(* block the id it was last started with.                                  *)
(***************************************************************************)
Kinds == {"text", "thinking", "tool_use"}
BlockSet == [kind : Values, id : Values, text : Seq(Int), think : Seq(Int), args : Seq(Int)]
Kept(b, kind) == IF kind = "text" THEN b.text ELSE IF kind = "thinking" THEN b.think ELSE b.args

Adds(fr) == fr.f = "delta" /\ fr.x # None

\* Frames the decoder can read: what they add is in order, of one kind at each index, and is
\* not followed by a new block there.
AddsKnown(fr) == \A i \in DOMAIN fr : Adds(fr[i]) => fr[i].kind \in Kinds /\ fr[i].x \in Nat
AddsRise(fr) == \A i, j \in DOMAIN fr : i < j /\ Adds(fr[i]) /\ Adds(fr[j]) => fr[i].x < fr[j].x
AddsOfAKind(fr) ==
  \A i, j \in DOMAIN fr : Adds(fr[i]) /\ Adds(fr[j]) /\ fr[i].ix = fr[j].ix => fr[i].kind = fr[j].kind
StartsFirst(fr) ==
  \A i, j \in DOMAIN fr : i < j /\ Adds(fr[i]) /\ fr[j].f = "block_start" => fr[i].ix # fr[j].ix
Readable(fr) == fr \in Seq(FrameSet) /\ AddsKnown(fr) /\ AddsRise(fr) /\ AddsOfAKind(fr) /\ StartsFirst(fr)

IsDecoder(d) == d = [blocks |-> d.blocks, completed |-> d.completed, error |-> d.error]
Rising(s) == \A m, n \in DOMAIN s : m < n => s[m] < s[n]
Holding(b, kind, x) == \E m \in DOMAIN Kept(b, kind) : Kept(b, kind)[m] = x
Source(fr, n, ix, kind, x) ==
  \E i \in 1..n : Adds(fr[i]) /\ fr[i].ix = ix /\ fr[i].kind = kind /\ fr[i].x = x
LastStart(fr, n, i) ==
  fr[i].f = "block_start" /\ \A j \in 1..n : fr[j].f = "block_start" /\ fr[j].ix = fr[i].ix => j <= i

BlocksTyped(bs) == \A ix \in DOMAIN bs : bs[ix] \in BlockSet
HasAdded(fr, n, bs) ==
  \A i \in 1..n : Adds(fr[i]) =>
    fr[i].ix \in DOMAIN bs /\ bs[fr[i].ix].kind = fr[i].kind /\ Holding(bs[fr[i].ix], fr[i].kind, fr[i].x)
HasOnly(fr, n, bs) ==
  \A ix \in DOMAIN bs, kind \in Kinds :
    \A m \in DOMAIN Kept(bs[ix], kind) : Source(fr, n, ix, kind, Kept(bs[ix], kind)[m])
HasInOrder(bs) == \A ix \in DOMAIN bs, kind \in Kinds : Rising(Kept(bs[ix], kind))
HasIds(fr, n, bs) ==
  \A i \in 1..n : LastStart(fr, n, i) => fr[i].ix \in DOMAIN bs /\ bs[fr[i].ix].id = fr[i].x

Decoded(fr, n, bs) ==
  BlocksTyped(bs) /\ HasAdded(fr, n, bs) /\ HasOnly(fr, n, bs) /\ HasInOrder(bs) /\ HasIds(fr, n, bs)

LEMMA PutBlockIs ==
  ASSUME NEW d, IsDecoder(d), NEW ix, NEW b
  PROVE  LET e == PutBlock(d, ix, b) IN
         /\ IsDecoder(e) /\ DOMAIN e.blocks = DOMAIN d.blocks \cup {ix} /\ e.blocks[ix] = b
         /\ \A j \in DOMAIN d.blocks : j # ix => e.blocks[j] = d.blocks[j]
<1> DEFINE bs == [j \in DOMAIN d.blocks \cup {ix} |-> IF j = ix THEN b ELSE d.blocks[j]]
           e == PutBlock(d, ix, b)
<1>1. e = [d EXCEPT !.blocks = bs]
  BY DEF PutBlock
<1>2. /\ DOMAIN bs = DOMAIN d.blocks \cup {ix} /\ bs[ix] = b
      /\ \A j \in DOMAIN d.blocks : j # ix => bs[j] = d.blocks[j]
  OBVIOUS
<1> HIDE DEF bs, e
<1>3. e = [blocks |-> bs, completed |-> d.completed, error |-> d.error]
  BY <1>1 DEF IsDecoder
<1>4. QED
  BY <1>2, <1>3 DEF IsDecoder, e

LEMMA BlockIs ==
  ASSUME NEW kind \in Values, NEW id \in Values
  PROVE  /\ Block(kind, id) \in BlockSet /\ Block(kind, id).kind = kind /\ Block(kind, id).id = id
         /\ \A k \in Kinds : Kept(Block(kind, id), k) = <<>>
<1>1. <<>> \in Seq(Int)
  OBVIOUS
<1>2. QED
  BY <1>1 DEF Block, BlockSet, Kept

LEMMA KeptType ==
  ASSUME NEW b \in BlockSet, NEW kind \in Kinds
  PROVE  Kept(b, kind) \in Seq(Int) /\ DOMAIN Kept(b, kind) = 1..Len(Kept(b, kind)) /\ Len(Kept(b, kind)) \in Nat
<1>1. Kept(b, kind) \in Seq(Int)
  BY DEF BlockSet, Kept
<1>2. QED
  BY <1>1, LenProperties

LEMMA GrownIs ==
  ASSUME NEW b \in BlockSet, NEW kind \in Kinds, NEW x \in Nat
  PROVE  /\ Grown(b, kind, x) \in BlockSet /\ Grown(b, kind, x).kind = kind /\ Grown(b, kind, x).id = b.id
         /\ Kept(Grown(b, kind, x), kind) = Append(Kept(b, kind), x)
         /\ \A k \in Kinds \ {kind} : Kept(Grown(b, kind, x), k) = Kept(b, k)
<1>1. x # None /\ x \in Int
  BY DEF None
<1>2. "text" \in Values /\ "thinking" \in Values /\ "tool_use" \in Values
  BY DEF Values
<1>3. b.text \in Seq(Int) /\ b.think \in Seq(Int) /\ b.args \in Seq(Int) /\ b.id \in Values
  BY DEF BlockSet
<1>4. Append(b.text, x) \in Seq(Int) /\ Append(b.think, x) \in Seq(Int) /\ Append(b.args, x) \in Seq(Int)
  BY <1>1, <1>3, AppendProperties
<1>5. b = [kind |-> b.kind, id |-> b.id, text |-> b.text, think |-> b.think, args |-> b.args]
  BY DEF BlockSet
<1>6. CASE kind = "text"
  <2>1. Grown(b, kind, x) = [b EXCEPT !.kind = "text", !.text = Append(b.text, x)]
    BY <1>1, <1>6 DEF Grown
  <2>2. Grown(b, kind, x) =
          [kind |-> "text", id |-> b.id, text |-> Append(b.text, x), think |-> b.think, args |-> b.args]
    BY <1>5, <2>1
  <2> DEFINE g == Grown(b, kind, x)
  <2>3. g \in BlockSet
    BY <1>2, <1>3, <1>4, <2>2 DEF BlockSet
  <2>4. /\ g.kind = "text" /\ g.id = b.id /\ g.text = Append(b.text, x)
        /\ g.think = b.think /\ g.args = b.args
    BY <2>2
  <2> HIDE DEF g
  <2>5. Kept(g, kind) = Append(Kept(b, kind), x) /\ \A k \in Kinds \ {kind} : Kept(g, k) = Kept(b, k)
    BY <1>6, <2>4 DEF Kept, Kinds
  <2>6. QED
    BY <1>6, <2>3, <2>4, <2>5 DEF g
<1>7. CASE kind = "thinking"
  <2>1. Grown(b, kind, x) = [b EXCEPT !.kind = "thinking", !.think = Append(b.think, x)]
    BY <1>1, <1>7 DEF Grown
  <2>2. Grown(b, kind, x) =
          [kind |-> "thinking", id |-> b.id, text |-> b.text, think |-> Append(b.think, x), args |-> b.args]
    BY <1>5, <2>1
  <2> DEFINE g == Grown(b, kind, x)
  <2>3. g \in BlockSet
    BY <1>2, <1>3, <1>4, <2>2 DEF BlockSet
  <2>4. /\ g.kind = "thinking" /\ g.id = b.id /\ g.think = Append(b.think, x)
        /\ g.text = b.text /\ g.args = b.args
    BY <2>2
  <2> HIDE DEF g
  <2>5. Kept(g, kind) = Append(Kept(b, kind), x) /\ \A k \in Kinds \ {kind} : Kept(g, k) = Kept(b, k)
    BY <1>7, <2>4 DEF Kept, Kinds
  <2>6. QED
    BY <1>7, <2>3, <2>4, <2>5 DEF g
<1>8. CASE kind = "tool_use"
  <2>1. Grown(b, kind, x) = [b EXCEPT !.kind = "tool_use", !.args = Append(b.args, x)]
    BY <1>1, <1>8 DEF Grown
  <2>2. Grown(b, kind, x) =
          [kind |-> "tool_use", id |-> b.id, text |-> b.text, think |-> b.think, args |-> Append(b.args, x)]
    BY <1>5, <2>1
  <2> DEFINE g == Grown(b, kind, x)
  <2>3. g \in BlockSet
    BY <1>2, <1>3, <1>4, <2>2 DEF BlockSet
  <2>4. /\ g.kind = "tool_use" /\ g.id = b.id /\ g.args = Append(b.args, x)
        /\ g.text = b.text /\ g.think = b.think
    BY <2>2
  <2> HIDE DEF g
  <2>5. Kept(g, kind) = Append(Kept(b, kind), x) /\ \A k \in Kinds \ {kind} : Kept(g, k) = Kept(b, k)
    BY <1>8, <2>4 DEF Kept, Kinds
  <2>6. QED
    BY <1>8, <2>3, <2>4, <2>5 DEF g
<1>9. QED
  BY <1>6, <1>7, <1>8 DEF Kinds

\* One more of a rising sequence.
LEMMA RisesOn ==
  ASSUME NEW s \in Seq(Int), NEW x \in Int, Rising(s), \A m \in DOMAIN s : s[m] < x
  PROVE  /\ Rising(Append(s, x))
         /\ \A m \in DOMAIN Append(s, x) : Append(s, x)[m] = x \/ (m \in DOMAIN s /\ Append(s, x)[m] = s[m])
         /\ \A m \in DOMAIN s : m \in DOMAIN Append(s, x) /\ Append(s, x)[m] = s[m]
         /\ \E m \in DOMAIN Append(s, x) : Append(s, x)[m] = x
<1> DEFINE t == Append(s, x)
           n == Len(s)
<1>1. /\ n \in Nat /\ DOMAIN s = 1..n /\ t \in Seq(Int) /\ Len(t) = n + 1 /\ t[n + 1] = x
      /\ \A m \in 1..n : t[m] = s[m]
  BY AppendProperties, LenProperties
<1>2. DOMAIN t = 1..(n + 1)
  BY <1>1, LenProperties
<1> HIDE DEF t, n
<1>3. \A m \in DOMAIN t : (m = n + 1 /\ t[m] = x) \/ (m \in DOMAIN s /\ t[m] = s[m])
  BY <1>1, <1>2
<1>4. \A m \in DOMAIN s : m \in DOMAIN t /\ t[m] = s[m] /\ m <= n
  BY <1>1, <1>2
<1>5. n + 1 \in DOMAIN t /\ t[n + 1] = x
  BY <1>1, <1>2
<1>6. ASSUME NEW a \in DOMAIN t, NEW b \in DOMAIN t, a < b PROVE t[a] < t[b]
  <2>1. a \in DOMAIN s /\ t[a] = s[a]
    BY <1>1, <1>2, <1>6
  <2>2. CASE b = n + 1
    BY <1>5, <2>1, <2>2
  <2>3. CASE b \in DOMAIN s /\ t[b] = s[b]
    BY <1>6, <2>1, <2>3 DEF Rising
  <2>4. QED
    BY <1>3, <2>2, <2>3
<1>7. QED
  BY <1>3, <1>4, <1>5, <1>6 DEF Rising, t

\* Frame n + 1 is read.
Reaches(fr, n) == Readable(fr) /\ n \in Nat /\ n + 1 \in DOMAIN fr

LEMMA ReachesIs ==
  ASSUME NEW fr, NEW n, Reaches(fr, n)
  PROVE  /\ n \in Nat /\ n + 1 \in DOMAIN fr /\ n + 1 \in 1..(n + 1)
         /\ \A i \in 1..(n + 1) : i \in DOMAIN fr /\ i \in Nat /\ ((i \in 1..n /\ i < n + 1) \/ i = n + 1)
         /\ \A i \in 1..n : i \in 1..(n + 1) /\ i \in DOMAIN fr /\ i < n + 1
         /\ \A ix, kind, x : Source(fr, n, ix, kind, x) => Source(fr, n + 1, ix, kind, x)
         /\ \A i \in 1..n : LastStart(fr, n + 1, i) => LastStart(fr, n, i)
         /\ fr[n + 1].f \in FrameTypes /\ fr[n + 1].ix \in Int /\ fr[n + 1].kind \in Values /\ fr[n + 1].x \in Values
<1>1. fr \in Seq(FrameSet) /\ n \in Nat /\ n + 1 \in DOMAIN fr
  BY DEF Reaches, Readable
<1>2. DOMAIN fr = 1..Len(fr) /\ Len(fr) \in Nat /\ fr[n + 1] \in FrameSet
  BY <1>1, LenProperties, ElementOfSeq
<1>3. /\ n + 1 \in 1..(n + 1)
      /\ \A i \in 1..(n + 1) : i \in DOMAIN fr /\ i \in Nat /\ ((i \in 1..n /\ i < n + 1) \/ i = n + 1)
      /\ \A i \in 1..n : i \in 1..(n + 1) /\ i \in DOMAIN fr /\ i < n + 1
  BY <1>1, <1>2
<1>4. \A ix, kind, x : Source(fr, n, ix, kind, x) => Source(fr, n + 1, ix, kind, x)
  BY <1>3 DEF Source
<1>5. \A i \in 1..n : LastStart(fr, n + 1, i) => LastStart(fr, n, i)
  BY <1>3 DEF LastStart
<1>6. /\ fr[n + 1].f \in FrameTypes /\ fr[n + 1].ix \in Int /\ fr[n + 1].kind \in Values
      /\ fr[n + 1].x \in Values
  BY <1>2 DEF FrameSet
<1>7. QED
  BY <1>1, <1>3, <1>4, <1>5, <1>6

\* A frame that puts nothing in a block.
LEMMA ReadsOver ==
  ASSUME NEW fr, NEW n, Reaches(fr, n), NEW bs, Decoded(fr, n, bs),
         ~Adds(fr[n + 1]), fr[n + 1].f # "block_start"
  PROVE  Decoded(fr, n + 1, bs)
<1>1. /\ \A i \in 1..(n + 1) : i \in DOMAIN fr /\ i \in Nat /\ ((i \in 1..n /\ i < n + 1) \/ i = n + 1)
      /\ \A ix, kind, x : Source(fr, n, ix, kind, x) => Source(fr, n + 1, ix, kind, x)
      /\ \A i \in 1..n : LastStart(fr, n + 1, i) => LastStart(fr, n, i)
  BY ReachesIs
<1>2. BlocksTyped(bs) /\ HasInOrder(bs)
  BY DEF Decoded
<1>3. HasAdded(fr, n + 1, bs)
  BY <1>1 DEF Decoded, HasAdded
<1>4. HasOnly(fr, n + 1, bs)
  BY <1>1 DEF Decoded, HasOnly
<1>5. ~LastStart(fr, n + 1, n + 1)
  BY DEF LastStart
<1>6. HasIds(fr, n + 1, bs)
  BY <1>1, <1>5 DEF Decoded, HasIds
<1>7. QED
  BY <1>2, <1>3, <1>4, <1>6 DEF Decoded

\* A block whose content and id are those of the block that was there, or none.
LEMMA ReadsSame ==
  ASSUME NEW fr, NEW n, NEW d, IsDecoder(d), Decoded(fr, n, d.blocks), NEW ix
  PROVE  Decoded(fr, n, PutBlock(d, ix, BlockAt(d, ix)).blocks)
<1> DEFINE bs == d.blocks
           b == BlockAt(d, ix)
           cs == PutBlock(d, ix, b).blocks
<1>1. /\ DOMAIN cs = DOMAIN bs \cup {ix} /\ cs[ix] = b
      /\ \A j \in DOMAIN bs : j # ix => cs[j] = bs[j]
  BY PutBlockIs
<1>2. ix \in DOMAIN bs => b = bs[ix]
  BY DEF BlockAt
<1>3. ix \notin DOMAIN bs => b \in BlockSet /\ \A k \in Kinds : Kept(b, k) = <<>>
  <2>1. "" \in Values /\ None \in Values
    BY ValueTypes DEF Values
  <2>2. QED
    BY <2>1, BlockIs DEF BlockAt
<1> HIDE DEF bs, b, cs
<1>4. /\ \A j \in DOMAIN bs : j \in DOMAIN cs /\ cs[j] = bs[j]
      /\ \A j \in DOMAIN cs : \/ j \in DOMAIN bs /\ cs[j] = bs[j]
                              \/ cs[j] \in BlockSet /\ \A k \in Kinds : Kept(cs[j], k) = <<>>
  BY <1>1, <1>2, <1>3
<1>5. Decoded(fr, n, bs)
  BY DEF bs
<1>6. BlocksTyped(cs)
  BY <1>4, <1>5 DEF Decoded, BlocksTyped
<1>7. HasAdded(fr, n, cs)
  BY <1>4, <1>5 DEF Decoded, HasAdded
<1>8. DOMAIN <<>> = {} /\ Rising(<<>>)
  BY DEF Rising
<1>9. HasOnly(fr, n, cs)
  BY <1>4, <1>5, <1>8 DEF Decoded, HasOnly
<1>10. HasInOrder(cs)
  BY <1>4, <1>5, <1>8 DEF Decoded, HasInOrder
<1>11. HasIds(fr, n, cs)
  BY <1>4, <1>5 DEF Decoded, HasIds
<1>12. QED
  BY <1>6, <1>7, <1>9, <1>10, <1>11 DEF Decoded, cs, b

\* A block starts.
LEMMA ReadsStart ==
  ASSUME NEW fr, NEW n, Reaches(fr, n), NEW d, IsDecoder(d), Decoded(fr, n, d.blocks),
         fr[n + 1].f = "block_start"
  PROVE  Decoded(fr, n + 1, PutBlock(d, fr[n + 1].ix, Block(fr[n + 1].kind, fr[n + 1].x)).blocks)
<1> DEFINE bs == d.blocks
           x == fr[n + 1]
           b == Block(x.kind, x.x)
           cs == PutBlock(d, x.ix, b).blocks
<1>1. /\ DOMAIN cs = DOMAIN bs \cup {x.ix} /\ cs[x.ix] = b
      /\ \A j \in DOMAIN bs : j # x.ix => cs[j] = bs[j]
  BY PutBlockIs
<1>2. /\ n + 1 \in DOMAIN fr /\ n + 1 \in 1..(n + 1) /\ x.kind \in Values /\ x.x \in Values
      /\ \A i \in 1..(n + 1) : i \in DOMAIN fr /\ i \in Nat /\ ((i \in 1..n /\ i < n + 1) \/ i = n + 1)
      /\ \A ix, kind, y : Source(fr, n, ix, kind, y) => Source(fr, n + 1, ix, kind, y)
      /\ \A i \in 1..n : LastStart(fr, n + 1, i) => LastStart(fr, n, i)
  BY ReachesIs
<1>3. b \in BlockSet /\ b.id = x.x /\ \A k \in Kinds : Kept(b, k) = <<>>
  BY <1>2, BlockIs
<1>4. Decoded(fr, n, bs) /\ x.f = "block_start" /\ x = fr[n + 1]
  OBVIOUS
<1> HIDE DEF bs, x, b, cs
<1>5. \A j \in DOMAIN cs : (j = x.ix /\ cs[j] = b) \/ (j \in DOMAIN bs /\ cs[j] = bs[j])
  BY <1>1
<1>6. \A j \in DOMAIN bs : j # x.ix => j \in DOMAIN cs /\ cs[j] = bs[j]
  BY <1>1
<1>7. BlocksTyped(cs)
  BY <1>3, <1>4, <1>5 DEF Decoded, BlocksTyped
<1>8. ASSUME NEW i \in 1..(n + 1), Adds(fr[i])
      PROVE  /\ fr[i].ix \in DOMAIN cs /\ cs[fr[i].ix].kind = fr[i].kind
             /\ Holding(cs[fr[i].ix], fr[i].kind, fr[i].x)
  <2>1. i # n + 1
    BY <1>4, <1>8 DEF Adds
  <2>2. i \in 1..n /\ i < n + 1 /\ i \in DOMAIN fr
    BY <1>2, <2>1
  <2>3. fr[i].ix # x.ix
    BY <1>2, <1>4, <1>8, <2>2 DEF Reaches, Readable, StartsFirst
  <2>4. /\ fr[i].ix \in DOMAIN bs /\ bs[fr[i].ix].kind = fr[i].kind
        /\ Holding(bs[fr[i].ix], fr[i].kind, fr[i].x)
    BY <1>4, <1>8, <2>2 DEF Decoded, HasAdded
  <2>5. QED
    BY <1>6, <2>3, <2>4
<1>9. HasAdded(fr, n + 1, cs)
  BY <1>8 DEF HasAdded
<1>10. DOMAIN <<>> = {} /\ Rising(<<>>)
  BY DEF Rising
<1>11. HasOnly(fr, n + 1, cs)
  BY <1>2, <1>3, <1>4, <1>5, <1>10 DEF Decoded, HasOnly
<1>12. HasInOrder(cs)
  BY <1>3, <1>4, <1>5, <1>10 DEF Decoded, HasInOrder
<1>13. ASSUME NEW i \in 1..(n + 1), LastStart(fr, n + 1, i)
       PROVE  fr[i].ix \in DOMAIN cs /\ cs[fr[i].ix].id = fr[i].x
  <2>1. CASE i = n + 1
    BY <1>1, <1>3, <1>4, <2>1
  <2>2. CASE i \in 1..n /\ i < n + 1
    <3>1. fr[i].ix # x.ix
      <4>1. i \in Nat /\ n \in Nat
        BY <1>2 DEF Reaches
      <4>2. ~(n + 1 <= i)
        BY <2>2, <4>1
      <4>3. QED
        BY <1>2, <1>4, <1>13, <4>2 DEF LastStart
    <3>2. fr[i].ix \in DOMAIN bs /\ bs[fr[i].ix].id = fr[i].x
      BY <1>2, <1>4, <1>13, <2>2 DEF Decoded, HasIds
    <3>3. QED
      BY <1>6, <3>1, <3>2
  <2>3. QED
    BY <1>2, <2>1, <2>2
<1>14. HasIds(fr, n + 1, cs)
  BY <1>13 DEF HasIds
<1>15. QED
  BY <1>7, <1>9, <1>11, <1>12, <1>14 DEF Decoded, cs, b, x

\* Content is added.
LEMMA ReadsDelta ==
  ASSUME NEW fr, NEW n, Reaches(fr, n), NEW d, IsDecoder(d), Decoded(fr, n, d.blocks),
         fr[n + 1].ix \in DOMAIN d.blocks, Adds(fr[n + 1])
  PROVE  Decoded(fr, n + 1, PutBlock(d, fr[n + 1].ix,
                                     Grown(d.blocks[fr[n + 1].ix], fr[n + 1].kind, fr[n + 1].x)).blocks)
<1> DEFINE bs == d.blocks
           x == fr[n + 1]
           a == bs[x.ix]
           b == Grown(a, x.kind, x.x)
           cs == PutBlock(d, x.ix, b).blocks
<1>1. /\ DOMAIN cs = DOMAIN bs \cup {x.ix} /\ cs[x.ix] = b
      /\ \A j \in DOMAIN bs : j # x.ix => cs[j] = bs[j]
  BY PutBlockIs
<1>2. /\ n \in Nat /\ n + 1 \in DOMAIN fr /\ n + 1 \in 1..(n + 1)
      /\ \A i \in 1..(n + 1) : i \in DOMAIN fr /\ i \in Nat /\ ((i \in 1..n /\ i < n + 1) \/ i = n + 1)
      /\ \A i \in 1..n : i \in DOMAIN fr /\ i < n + 1
      /\ \A ix, kind, y : Source(fr, n, ix, kind, y) => Source(fr, n + 1, ix, kind, y)
      /\ \A i \in 1..n : LastStart(fr, n + 1, i) => LastStart(fr, n, i)
  BY ReachesIs
<1>3. Decoded(fr, n, bs) /\ x = fr[n + 1] /\ Adds(x) /\ x.ix \in DOMAIN bs /\ a = bs[x.ix]
  OBVIOUS
<1>4. x.kind \in Kinds /\ x.x \in Nat
  BY <1>2, <1>3 DEF Reaches, Readable, AddsKnown
<1>5. a \in BlockSet
  BY <1>3 DEF Decoded, BlocksTyped
<1> HIDE DEF a
<1>6. /\ b \in BlockSet /\ b.kind = x.kind /\ b.id = a.id
      /\ Kept(b, x.kind) = Append(Kept(a, x.kind), x.x)
      /\ \A k \in Kinds \ {x.kind} : Kept(b, k) = Kept(a, k)
  BY <1>4, <1>5, GrownIs
<1> HIDE DEF bs, x, b, cs
<1>7. Kept(a, x.kind) \in Seq(Int) /\ Rising(Kept(a, x.kind))
  BY <1>3, <1>4, <1>5, KeptType DEF Decoded, HasInOrder
<1>8. ASSUME NEW m \in DOMAIN Kept(a, x.kind) PROVE Kept(a, x.kind)[m] < x.x
  <2>1. Source(fr, n, x.ix, x.kind, Kept(a, x.kind)[m])
    BY <1>3, <1>4 DEF Decoded, HasOnly
  <2>2. PICK i \in 1..n : Adds(fr[i]) /\ fr[i].x = Kept(a, x.kind)[m]
    BY <2>1 DEF Source
  <2>3. QED
    BY <1>2, <1>3, <2>2 DEF Reaches, Readable, AddsRise
<1>9. /\ Rising(Kept(b, x.kind))
      /\ \A m \in DOMAIN Kept(b, x.kind) :
           Kept(b, x.kind)[m] = x.x \/ (m \in DOMAIN Kept(a, x.kind) /\ Kept(b, x.kind)[m] = Kept(a, x.kind)[m])
      /\ \A m \in DOMAIN Kept(a, x.kind) : m \in DOMAIN Kept(b, x.kind) /\ Kept(b, x.kind)[m] = Kept(a, x.kind)[m]
      /\ \E m \in DOMAIN Kept(b, x.kind) : Kept(b, x.kind)[m] = x.x
  <2> DEFINE s == Kept(a, x.kind)
  <2>1. s \in Seq(Int) /\ Rising(s) /\ x.x \in Int /\ \A m \in DOMAIN s : s[m] < x.x
    BY <1>4, <1>7, <1>8
  <2> HIDE DEF s
  <2>2. /\ Rising(Append(s, x.x))
        /\ \A m \in DOMAIN Append(s, x.x) :
             Append(s, x.x)[m] = x.x \/ (m \in DOMAIN s /\ Append(s, x.x)[m] = s[m])
        /\ \A m \in DOMAIN s : m \in DOMAIN Append(s, x.x) /\ Append(s, x.x)[m] = s[m]
        /\ \E m \in DOMAIN Append(s, x.x) : Append(s, x.x)[m] = x.x
    BY <2>1, RisesOn
  <2>3. QED
    BY <1>6, <2>2 DEF s
<1>10. \A j \in DOMAIN cs : (j = x.ix /\ cs[j] = b) \/ (j # x.ix /\ j \in DOMAIN bs /\ cs[j] = bs[j])
  BY <1>1
<1>11. /\ \A j \in DOMAIN bs : j \in DOMAIN cs
       /\ \A j \in DOMAIN bs : j # x.ix => cs[j] = bs[j]
       /\ x.ix \in DOMAIN cs /\ cs[x.ix] = b
  BY <1>1
<1>12. BlocksTyped(cs)
  BY <1>3, <1>6, <1>10 DEF Decoded, BlocksTyped
<1>13. ASSUME NEW i \in 1..(n + 1), Adds(fr[i])
       PROVE  /\ fr[i].ix \in DOMAIN cs /\ cs[fr[i].ix].kind = fr[i].kind
              /\ Holding(cs[fr[i].ix], fr[i].kind, fr[i].x)
  <2>1. CASE i = n + 1
    BY <1>3, <1>6, <1>9, <1>11, <2>1 DEF Holding
  <2>2. CASE i \in 1..n
    <3>1. /\ fr[i].ix \in DOMAIN bs /\ bs[fr[i].ix].kind = fr[i].kind
          /\ Holding(bs[fr[i].ix], fr[i].kind, fr[i].x)
      BY <1>3, <1>13, <2>2 DEF Decoded, HasAdded
    <3>2. CASE fr[i].ix # x.ix
      BY <1>11, <3>1, <3>2
    <3>3. CASE fr[i].ix = x.ix
      <4>1. fr[i].kind = x.kind
        BY <1>2, <1>3, <1>13, <2>2, <3>3 DEF Reaches, Readable, AddsOfAKind
      <4>2. Holding(a, x.kind, fr[i].x)
        BY <1>3, <3>1, <3>3, <4>1
      <4>3. Holding(b, x.kind, fr[i].x)
        BY <1>9, <4>2 DEF Holding
      <4>4. QED
        BY <1>6, <1>11, <3>3, <4>1, <4>3
    <3>4. QED
      BY <3>2, <3>3
  <2>3. QED
    BY <1>2, <2>1, <2>2
<1>14. HasAdded(fr, n + 1, cs)
  BY <1>13 DEF HasAdded
<1>15. ASSUME NEW kind \in Kinds, NEW m \in DOMAIN Kept(b, kind)
       PROVE  Source(fr, n + 1, x.ix, kind, Kept(b, kind)[m])
  <2>1. \A l \in DOMAIN Kept(a, kind) : Source(fr, n + 1, x.ix, kind, Kept(a, kind)[l])
    BY <1>2, <1>3 DEF Decoded, HasOnly
  <2>2. CASE kind # x.kind
    BY <1>6, <2>1, <2>2
  <2>3. CASE kind = x.kind /\ Kept(b, kind)[m] = x.x
    BY <1>2, <1>3, <2>3 DEF Source
  <2>4. CASE kind = x.kind /\ m \in DOMAIN Kept(a, kind) /\ Kept(b, kind)[m] = Kept(a, kind)[m]
    BY <2>1, <2>4
  <2>5. QED
    BY <1>9, <2>2, <2>3, <2>4
<1>16. HasOnly(fr, n + 1, cs)
  <2>1. \A j \in DOMAIN bs, kind \in Kinds :
          \A m \in DOMAIN Kept(bs[j], kind) : Source(fr, n + 1, j, kind, Kept(bs[j], kind)[m])
    BY <1>2, <1>3 DEF Decoded, HasOnly
  <2>2. QED
    BY <1>10, <1>15, <2>1 DEF HasOnly
<1>17. ASSUME NEW kind \in Kinds PROVE Rising(Kept(b, kind))
  <2>1. Rising(Kept(a, kind))
    BY <1>3 DEF Decoded, HasInOrder
  <2>2. QED
    BY <1>6, <1>9, <2>1
<1>18. HasInOrder(cs)
  BY <1>3, <1>10, <1>17 DEF Decoded, HasInOrder
<1>19. ASSUME NEW i \in 1..(n + 1), LastStart(fr, n + 1, i)
       PROVE  fr[i].ix \in DOMAIN cs /\ cs[fr[i].ix].id = fr[i].x
  <2>1. i # n + 1
    BY <1>3, <1>19 DEF LastStart, Adds
  <2>2. i \in 1..n
    BY <1>2, <2>1
  <2>3. fr[i].ix \in DOMAIN bs /\ bs[fr[i].ix].id = fr[i].x
    BY <1>2, <1>3, <1>19, <2>2 DEF Decoded, HasIds
  <2>4. QED
    BY <1>3, <1>6, <1>11, <2>3
<1>20. HasIds(fr, n + 1, cs)
  BY <1>19 DEF HasIds
<1>21. QED
  BY <1>12, <1>14, <1>16, <1>18, <1>20 DEF Decoded, cs, b, a, x, bs

LEMMA ReadsOne ==
  ASSUME NEW fr, NEW n, Reaches(fr, n), NEW d, IsDecoder(d), Decoded(fr, n, d.blocks)
  PROVE  /\ IsDecoder(HandleEvent(d, fr[n + 1]))
         /\ Decoded(fr, n + 1, HandleEvent(d, fr[n + 1]).blocks)
<1> DEFINE x == fr[n + 1]
           e == HandleEvent(d, x)
<1>1. x.f \in FrameTypes /\ x.ix \in Int /\ x.kind \in Values /\ x.x \in Values
  BY ReachesIs
<1>2. CASE x.f = "block_start"
  <2>1. e = PutBlock(d, x.ix, Block(x.kind, x.x))
    BY <1>2 DEF HandleEvent
  <2>2. QED
    BY <1>2, <2>1, ReadsStart, PutBlockIs
<1>3. CASE x.f = "delta"
  <2> DEFINE a == BlockAt(d, x.ix)
             p == PutBlock(d, x.ix, a)
  <2>1. e = PutBlock(d, x.ix, Grown(a, x.kind, x.x))
    BY <1>3 DEF HandleEvent
  <2>2. /\ IsDecoder(p) /\ DOMAIN p.blocks = DOMAIN d.blocks \cup {x.ix} /\ p.blocks[x.ix] = a
        /\ \A j \in DOMAIN d.blocks : j # x.ix => p.blocks[j] = d.blocks[j]
    BY PutBlockIs
  <2>3. Decoded(fr, n, p.blocks)
    BY ReadsSame
  <2>4. CASE x.x = None
    <3>1. e = p /\ ~Adds(x)
      BY <2>1, <2>4 DEF Grown, Adds
    <3>2. Decoded(fr, n + 1, p.blocks)
      <4>1. x.f # "block_start"
        BY <1>3
      <4> HIDE DEF p
      <4>2. QED
        BY <2>3, <3>1, <4>1, ReadsOver
    <3>3. QED
      BY <2>2, <3>1, <3>2
  <2>5. CASE x.x # None
    <3> DEFINE g == Grown(a, x.kind, x.x)
    <3>1. Adds(x) /\ x.ix \in DOMAIN p.blocks
      BY <1>3, <2>2, <2>5 DEF Adds
    <3>2. Decoded(fr, n + 1, PutBlock(p, x.ix, Grown(p.blocks[x.ix], x.kind, x.x)).blocks)
      <4> HIDE DEF p
      <4>1. QED
        BY <2>2, <2>3, <3>1, ReadsDelta
    <3>3. PutBlock(p, x.ix, g).blocks = e.blocks
      <4>1. /\ p.blocks = [j \in DOMAIN d.blocks \cup {x.ix} |-> IF j = x.ix THEN a ELSE d.blocks[j]]
            /\ "blocks" \in DOMAIN d /\ "blocks" \in DOMAIN p
        BY <2>2 DEF PutBlock, IsDecoder
      <4> HIDE DEF p, g, a
      <4>2. PutBlock(p, x.ix, g).blocks =
              [j \in DOMAIN p.blocks \cup {x.ix} |-> IF j = x.ix THEN g ELSE p.blocks[j]]
        BY <4>1 DEF PutBlock
      <4>3. PutBlock(d, x.ix, g).blocks =
              [j \in DOMAIN d.blocks \cup {x.ix} |-> IF j = x.ix THEN g ELSE d.blocks[j]]
        BY <4>1 DEF PutBlock
      <4>4. [j \in DOMAIN p.blocks \cup {x.ix} |-> IF j = x.ix THEN g ELSE p.blocks[j]]
              = [j \in DOMAIN d.blocks \cup {x.ix} |-> IF j = x.ix THEN g ELSE d.blocks[j]]
        BY <2>2
      <4>5. QED
        BY <2>1, <4>2, <4>3, <4>4 DEF g
    <3>4. IsDecoder(e)
      BY <2>1, PutBlockIs
    <3>5. QED
      BY <2>2, <3>2, <3>3, <3>4
  <2>6. QED
    BY <2>4, <2>5
<1>4. CASE x.f \notin {"block_start", "delta"}
  <2>1. e.blocks = d.blocks /\ IsDecoder(e)
    BY <1>4 DEF HandleEvent, IsDecoder
  <2>2. ~Adds(x) /\ x.f # "block_start"
    BY <1>4 DEF Adds
  <2>3. Decoded(fr, n + 1, d.blocks)
    BY <2>2, ReadsOver
  <2>4. QED
    BY <2>1, <2>3
<1>5. QED
  BY <1>2, <1>3, <1>4

LEMMA AllDecoded ==
  ASSUME NEW fr, Readable(fr)
  PROVE  Decoded(fr, Len(fr), Decode(fr).blocks)
<1>1. Len(fr) \in Nat /\ DOMAIN fr = 1..Len(fr)
  BY LenProperties DEF Readable
<1>2. PICK read : Decoding(fr, Len(fr), read) /\ Decode(fr) = read[Len(fr)]
  BY <1>1, DecodeReads
<1>3. \A n \in 0..Len(fr) : read[n] = IF n = 0 THEN Blocks ELSE HandleEvent(read[n - 1], fr[n])
  BY <1>2 DEF Decoding
<1> DEFINE Fine(n) == IsDecoder(read[n]) /\ Decoded(fr, n, read[n].blocks)
<1>4. Fine(0)
  <2>1. 0 \in 0..Len(fr)
    BY <1>1
  <2>2. read[0] = Blocks
    BY <1>3, <2>1
  <2>3. Blocks.blocks = <<>> /\ IsDecoder(Blocks) /\ DOMAIN <<>> = {} /\ 1..0 = {}
    BY DEF Blocks, IsDecoder
  <2>4. Decoded(fr, 0, <<>>)
    BY <2>3 DEF Decoded, BlocksTyped, HasAdded, HasOnly, HasInOrder, HasIds
  <2>5. QED
    BY <2>2, <2>3, <2>4
<1>5. ASSUME NEW n \in 0..Len(fr), n + 1 \in 0..Len(fr), Fine(n) PROVE Fine(n + 1)
  <2>1. Reaches(fr, n)
    BY <1>1, <1>5 DEF Reaches
  <2>2. n + 1 # 0 /\ (n + 1) - 1 = n
    BY <1>1, <1>5
  <2>3. read[n + 1] = HandleEvent(read[n], fr[n + 1])
    BY <1>3, <1>5, <2>2
  <2>4. QED
    BY <1>5, <2>1, <2>3, ReadsOne
<1> HIDE DEF Fine
<1>6. Fine(Len(fr))
  <2> DEFINE bad == {n \in 0..Len(fr) : ~Fine(n)}
  <2>1. SUFFICES ASSUME bad # {} PROVE FALSE
    BY <1>1
  <2>2. PICK n \in bad : \A j \in bad : n <= j
    <3>1. bad \in SUBSET Nat
      BY <1>1
    <3> HIDE DEF bad
    <3>2. QED
      BY <2>1, <3>1, LeastNumber
  <2>3. n \in 0..Len(fr) /\ n # 0
    BY <1>4, <2>2
  <2>4. n - 1 \in 0..Len(fr) /\ n - 1 \notin bad /\ (n - 1) + 1 = n
    BY <1>1, <2>2, <2>3
  <2>5. Fine(n - 1)
    BY <2>4
  <2>6. Fine(n)
    <3> DEFINE m == n - 1
    <3>1. m \in 0..Len(fr) /\ m + 1 \in 0..Len(fr) /\ Fine(m) /\ m + 1 = n
      BY <2>3, <2>4, <2>5
    <3> HIDE DEF m
    <3>2. QED
      BY <1>5, <3>1
  <2>7. QED
    BY <2>2, <2>6
<1>7. QED
  BY <1>2, <1>6 DEF Fine

-----------------------------------------------------------------------------
(***************************************************************************)
(* An Anthropic client.                                                    *)
(***************************************************************************)
LEMMA WhatIs ==
  \A c : c.kind \in Pieces \ {"end"} =>
    \/ c.kind = "text" /\ ~IsCall(c) /\ What(c) = <<"text", 0>> /\ KindOf(EventOf(c)) = "text"
    \/ c.kind = "think" /\ ~IsCall(c) /\ What(c) = <<"think", 0>> /\ KindOf(EventOf(c)) = "thinking"
    \/ IsCall(c) /\ What(c) = <<"call", c.call>> /\ KindOf(EventOf(c)) = "tool_use"
BY DEF Pieces, What, IsCall, EventOf, KindOf

\* What a delta received says of its piece.
LEMMA DeltaReceived ==
  ASSUME StreamTypes, DInv, client = "anthropic", NEW i \in DOMAIN frames, Adds(frames[i])
  PROVE  LET p == frames[i].x IN
         /\ PieceFrame(client, frames[i]) /\ p \in Nat /\ p \in DOMAIN sent /\ p \in Answer
         /\ sent[p].kind \in Pieces \ {"end"}
         /\ frames[i].kind = KindOf(EventOf(sent[p])) /\ frames[i].kind \in Kinds
         /\ frames[i].ix = IndexOf(sent[p])
         /\ Number(sent, Told(client, lane, sent, frames[i])) = 2 * p + 1
<1> DEFINE p == frames[i].x
<1>1. PieceFrame(client, frames[i])
  BY DEF Adds, PieceFrame
<1>2. /\ p \in Answer /\ p \in Nat /\ Number(sent, Told(client, lane, sent, frames[i])) = 2 * p + 1
      /\ frames[i].kind = KindOf(EventOf(sent[p])) /\ frames[i].ix = IndexOf(sent[p])
  BY <1>1, PieceReceived
<1> HIDE DEF p
<1>3. p \in DOMAIN sent /\ sent[p].kind # "end"
  BY <1>2 DEF Answer
<1>4. sent[p].kind \in Pieces
  BY <1>3, PieceDue DEF DInv
<1>5. KindOf(EventOf(sent[p])) \in Kinds
  <2>1. KindOf(EventOf(sent[p])) \in {"text", "thinking", "tool_use"}
    BY <1>3, <1>4, WhatIs
  <2>2. QED
    BY <2>1 DEF Kinds
<1>6. QED
  BY <1>1, <1>2, <1>3, <1>4, <1>5 DEF p

\* At an index there is one content.
LEMMA OneContent ==
  ASSUME OwnIndexes, NEW p \in DOMAIN sent, NEW q \in DOMAIN sent,
         sent[p].kind \in Pieces \ {"end"}, sent[q].kind \in Pieces \ {"end"},
         IndexOf(sent[p]) = IndexOf(sent[q])
  PROVE  /\ What(sent[p]) = What(sent[q]) /\ KindOf(EventOf(sent[p])) = KindOf(EventOf(sent[q]))
         /\ IsCall(sent[p]) => IsCall(sent[q]) /\ sent[p].call = sent[q].call
<1>1. What(sent[p]) = What(sent[q])
  BY DEF OwnIndexes
<1>2. \A c : c.kind \in Pieces \ {"end"} =>
        \/ What(c)[1] = "text" /\ ~IsCall(c) /\ KindOf(EventOf(c)) = "text"
        \/ What(c)[1] = "think" /\ ~IsCall(c) /\ KindOf(EventOf(c)) = "thinking"
        \/ What(c)[1] = "call" /\ IsCall(c) /\ What(c)[2] = c.call /\ KindOf(EventOf(c)) = "tool_use"
  BY WhatIs
<1> DEFINE a == What(sent[p])
           b == What(sent[q])
<1>3. /\ \/ a[1] = "text" /\ ~IsCall(sent[p]) /\ KindOf(EventOf(sent[p])) = "text"
         \/ a[1] = "think" /\ ~IsCall(sent[p]) /\ KindOf(EventOf(sent[p])) = "thinking"
         \/ a[1] = "call" /\ IsCall(sent[p]) /\ a[2] = sent[p].call /\ KindOf(EventOf(sent[p])) = "tool_use"
      /\ \/ b[1] = "text" /\ ~IsCall(sent[q]) /\ KindOf(EventOf(sent[q])) = "text"
         \/ b[1] = "think" /\ ~IsCall(sent[q]) /\ KindOf(EventOf(sent[q])) = "thinking"
         \/ b[1] = "call" /\ IsCall(sent[q]) /\ b[2] = sent[q].call /\ KindOf(EventOf(sent[q])) = "tool_use"
  BY <1>2
<1>4. a = b
  BY <1>1
<1> HIDE DEF a, b
<1>5. QED
  BY <1>1, <1>3, <1>4

\* Once a piece of a call has been received, no call is begun at its index.
LEMMA NoCallAfter ==
  ASSUME StreamTypes, DInv, client = "anthropic", OwnIndexes, NEW i \in DOMAIN frames, NEW j \in DOMAIN frames,
         i < j, Adds(frames[i]), CallFrame(client, frames[j])
  PROVE  frames[i].ix # frames[j].ix
<1>1. SUFFICES ASSUME frames[i].ix = frames[j].ix PROVE FALSE
  OBVIOUS
<1> DEFINE p == frames[i].x
<1>2. /\ PieceFrame(client, frames[i]) /\ p \in Nat /\ p \in DOMAIN sent
      /\ sent[p].kind \in Pieces \ {"end"} /\ frames[i].ix = IndexOf(sent[p])
      /\ Number(sent, Told(client, lane, sent, frames[i])) = 2 * p + 1
  BY DeltaReceived
<1> HIDE DEF p
<1>3. PICK q \in DOMAIN sent :
        /\ q \in Nat /\ sent[q].kind = "open" /\ IsCall(sent[q]) /\ frames[j].ix = IndexOf(sent[q])
        /\ Number(sent, Told(client, lane, sent, frames[j])) = 2 * q
  BY CallReceived
<1>4. p < q
  <2>1. 2 * p + 1 < 2 * q
    BY <1>2, <1>3 DEF DInv, OrderInv, Arrived, ToldInOrder, Telling
  <2>2. QED
    BY <1>2, <1>3, <2>1
<1>5. IsCall(sent[p]) /\ sent[p].call = sent[q].call
  <2>1. sent[q].kind \in Pieces \ {"end"} /\ IndexOf(sent[q]) = IndexOf(sent[p])
    BY <1>1, <1>2, <1>3 DEF Pieces
  <2>2. QED
    BY <1>2, <1>3, <2>1, OneContent
<1>6. PICK o \in DOMAIN sent : sent[o].kind = "open" /\ o <= p /\ sent[o].call = sent[p].call
  BY <1>2, <1>5, OpenedBefore DEF DInv
<1>7. o \in Nat
  BY PieceDue DEF DInv
<1>8. o < q
  BY <1>2, <1>3, <1>4, <1>6, <1>7
<1>9. sent[o].call < sent[q].call /\ sent[q].call \in Int
  <2>1. sent[o].call < sent[q].call
    BY <1>3, <1>6, <1>8 DEF DInv, SentInv, CallsInv
  <2>2. Chained(sent)
    BY SentChained DEF DInv
  <2>3. QED
    BY <2>1, <2>2, ChainedElements
<1>10. QED
  BY <1>5, <1>6, <1>9

LEMMA FramesReadable ==
  ASSUME StreamTypes, DInv, client = "anthropic", OwnIndexes
  PROVE  Readable(frames)
<1>1. frames \in Seq(FrameSet)
  BY DEF DInv, BlocksInv
<1>2. AddsKnown(frames)
  BY DeltaReceived DEF AddsKnown
<1>3. AddsRise(frames)
  <2>1. ASSUME NEW i \in DOMAIN frames, NEW j \in DOMAIN frames, i < j, Adds(frames[i]), Adds(frames[j])
        PROVE  frames[i].x < frames[j].x
    <3>1. PieceFrame(client, frames[i]) /\ PieceFrame(client, frames[j])
      BY <2>1, DeltaReceived
    <3>2. QED
      BY <2>1, <3>1, InTurn
  <2>2. QED
    BY <2>1 DEF AddsRise
<1>4. AddsOfAKind(frames)
  <2>1. ASSUME NEW i \in DOMAIN frames, NEW j \in DOMAIN frames, Adds(frames[i]), Adds(frames[j]),
               frames[i].ix = frames[j].ix
        PROVE  frames[i].kind = frames[j].kind
    <3> DEFINE p == frames[i].x
               q == frames[j].x
    <3>1. /\ p \in DOMAIN sent /\ sent[p].kind \in Pieces \ {"end"}
          /\ frames[i].kind = KindOf(EventOf(sent[p])) /\ frames[i].ix = IndexOf(sent[p])
      BY <2>1, DeltaReceived
    <3>2. /\ q \in DOMAIN sent /\ sent[q].kind \in Pieces \ {"end"}
          /\ frames[j].kind = KindOf(EventOf(sent[q])) /\ frames[j].ix = IndexOf(sent[q])
      BY <2>1, DeltaReceived
    <3> HIDE DEF p, q
    <3>3. IndexOf(sent[p]) = IndexOf(sent[q])
      BY <2>1, <3>1, <3>2
    <3>4. QED
      BY <3>1, <3>2, <3>3, OneContent
  <2>2. QED
    BY <2>1 DEF AddsOfAKind
<1>5. StartsFirst(frames)
  <2>1. ASSUME NEW i \in DOMAIN frames, NEW j \in DOMAIN frames, i < j, Adds(frames[i]),
               frames[j].f = "block_start"
        PROVE  frames[i].ix # frames[j].ix
    <3>1. CASE frames[j].x = None
      <4>1. StartsOnce(frames) /\ frames[i].f = "delta"
        BY <2>1 DEF DInv, BlocksInv, Adds
      <4>2. QED
        BY <2>1, <3>1, <4>1 DEF StartsOnce
    <3>2. CASE frames[j].x # None
      <4>1. CallFrame(client, frames[j])
        BY <2>1, <3>2 DEF CallFrame
      <4>2. QED
        BY <2>1, <4>1, NoCallAfter
    <3>3. QED
      BY <3>1, <3>2
  <2>2. QED
    BY <2>1 DEF StartsFirst
<1>6. QED
  BY <1>1, <1>2, <1>3, <1>4, <1>5 DEF Readable

\* The id of the block that holds a piece of a call is the call's.
LEMMA IdsRead ==
  ASSUME StreamTypes, DInv, client = "anthropic", OwnIndexes, NEW i \in DOMAIN frames, Adds(frames[i]),
         IsCall(sent[frames[i].x])
  PROVE  Decode(frames).blocks[frames[i].ix].id = sent[frames[i].x].call
<1> DEFINE p == frames[i].x
           ix == frames[i].ix
           starts == {j \in DOMAIN frames : frames[j].f = "block_start" /\ frames[j].ix = ix}
<1>1. /\ PieceFrame(client, frames[i]) /\ p \in Nat /\ p \in DOMAIN sent
      /\ sent[p].kind \in Pieces \ {"end"} /\ ix = IndexOf(sent[p])
      /\ Number(sent, Told(client, lane, sent, frames[i])) = 2 * p + 1
  BY DeltaReceived
<1>2. DOMAIN frames = 1..Len(frames) /\ Len(frames) \in Nat
  BY LenProperties DEF DInv, BlocksInv
<1>3. IsCall(sent[p])
  OBVIOUS
<1> HIDE DEF p
<1>4. PICK o \in DOMAIN sent : sent[o].kind = "open" /\ o <= p /\ IndexOf(sent[o]) = IndexOf(sent[p])
  BY <1>1, <1>3, OpenedBefore DEF DInv
<1>5. o \in Nat /\ Calling(lane, sent[o]) \in OurDue /\ Number(sent, Calling(lane, sent[o])) = 2 * o
  BY <1>4, PieceDue DEF DInv
<1>6. Had(Calling(lane, sent[o]))
  <2>1. 2 * o < 2 * p + 1
    BY <1>1, <1>4, <1>5
  <2>2. QED
    BY <1>1, <1>5, <2>1, HadBefore DEF Telling
<1>7. PICK m \in DOMAIN frames : CallFrame(client, frames[m]) /\ frames[m].ix = ix
  BY <1>1, <1>4, <1>6, CallHad
<1>8. m \in starts
  BY <1>7 DEF CallFrame
<1>9. PICK last \in starts : \A j \in starts : j <= last
  <2>1. starts \in SUBSET (1..Len(frames)) /\ starts # {}
    BY <1>2, <1>8
  <2> HIDE DEF starts
  <2>2. QED
    BY <1>2, <2>1, LastOf
<1>10. last \in 1..Len(frames) /\ frames[last].f = "block_start" /\ frames[last].ix = ix
  BY <1>2
<1>11. CallFrame(client, frames[last])
  <2>1. CASE last = m
    BY <1>7, <2>1
  <2>2. CASE last # m
    <3>1. m < last
      BY <1>2, <1>8, <1>9, <2>2
    <3>2. StartsOnce(frames) /\ frames[m].f = "block_start"
      BY <1>8 DEF DInv, BlocksInv
    <3>3. frames[last].x # None
      BY <1>2, <1>7, <1>10, <3>1, <3>2 DEF StartsOnce
    <3>4. QED
      BY <1>10, <3>3 DEF CallFrame
  <2>3. QED
    BY <2>1, <2>2
<1>12. PICK q \in DOMAIN sent : /\ sent[q].kind = "open" /\ IsCall(sent[q])
                                /\ frames[last].x = sent[q].call /\ frames[last].ix = IndexOf(sent[q])
  BY <1>2, <1>11, CallReceived
<1>13. sent[p].call = sent[q].call
  <2>1. sent[q].kind \in Pieces \ {"end"} /\ IndexOf(sent[p]) = IndexOf(sent[q])
    BY <1>1, <1>10, <1>12 DEF Pieces
  <2>2. QED
    BY <1>1, <1>3, <2>1, OneContent
<1>14. LastStart(frames, Len(frames), last)
  BY <1>2, <1>9, <1>10 DEF LastStart
<1>15. Decode(frames).blocks[ix].id = frames[last].x
  <2>1. Decoded(frames, Len(frames), Decode(frames).blocks)
    BY FramesReadable, AllDecoded
  <2>2. QED
    BY <1>10, <1>14, <2>1 DEF Decoded, HasIds
<1>16. QED
  BY <1>12, <1>13, <1>15 DEF p

\* The kind of the blocks that hold some content, and which of them do.
KindFor(what) == IF what[1] = "text" THEN "text" ELSE IF what[1] = "think" THEN "thinking" ELSE "tool_use"
HoldsIt(b, what) == b.kind = KindFor(what) /\ (what[1] = "call" => b.id = what[2])

LEMMA AnthropicReadsThem ==
  ASSUME client = "anthropic", NEW what \in Contents
  PROVE  LET bs == Decode(frames).blocks IN
         Reads(what) = UNION {{[at |-> <<ix, n>>, x |-> Kept(bs[ix], KindFor(what))[n]]
                                 : n \in DOMAIN Kept(bs[ix], KindFor(what))}
                                : ix \in {j \in DOMAIN bs : HoldsIt(bs[j], what)}}
<1>1. Reads(what) = AnthropicReads(frames, what)
  BY DEF Reads
<1>2. \/ what[1] = "text" \/ what[1] = "think" \/ what[1] = "call"
  BY DEF Contents
<1>3. CASE what[1] = "text"
  BY <1>1, <1>3 DEF AnthropicReads, KindFor, HoldsIt, Kept
<1>4. CASE what[1] = "think"
  BY <1>1, <1>4 DEF AnthropicReads, KindFor, HoldsIt, Kept
<1>5. CASE what[1] = "call"
  BY <1>1, <1>5 DEF AnthropicReads, KindFor, HoldsIt, Kept
<1>6. QED
  BY <1>2, <1>3, <1>4, <1>5

\* It reads what is in such a block at some place of it.
ReadAt(what, ix, n, x) ==
  LET bs == Decode(frames).blocks IN
  /\ ix \in DOMAIN bs /\ HoldsIt(bs[ix], what)
  /\ n \in DOMAIN Kept(bs[ix], KindFor(what)) /\ x = Kept(bs[ix], KindFor(what))[n]

LEMMA ReadsAt ==
  ASSUME client = "anthropic", NEW what \in Contents
  PROVE  /\ \A r \in Reads(what) : ReadAt(what, r.at[1], r.at[2], r.x)
         /\ \A ix, n, x : ReadAt(what, ix, n, x) => \E r \in Reads(what) : r.x = x
<1> DEFINE bs == Decode(frames).blocks
           k(ix) == Kept(bs[ix], KindFor(what))
<1>1. Reads(what) = UNION {{[at |-> <<ix, n>>, x |-> k(ix)[n]] : n \in DOMAIN k(ix)}
                             : ix \in {j \in DOMAIN bs : HoldsIt(bs[j], what)}}
  BY AnthropicReadsThem
<1>2. \A ix, n, x : ReadAt(what, ix, n, x) <=>
        ix \in DOMAIN bs /\ HoldsIt(bs[ix], what) /\ n \in DOMAIN k(ix) /\ x = k(ix)[n]
  BY DEF ReadAt
<1> HIDE DEF bs, k
<1>3. ASSUME NEW r \in Reads(what) PROVE ReadAt(what, r.at[1], r.at[2], r.x)
  <2>1. PICK ix \in {j \in DOMAIN bs : HoldsIt(bs[j], what)} :
          r \in {[at |-> <<ix, n>>, x |-> k(ix)[n]] : n \in DOMAIN k(ix)}
    BY <1>1
  <2>2. PICK n \in DOMAIN k(ix) : r = [at |-> <<ix, n>>, x |-> k(ix)[n]]
    BY <2>1
  <2>3. r.at[1] = ix /\ r.at[2] = n /\ r.x = k(ix)[n]
    BY <2>2
  <2>4. QED
    BY <1>2, <2>1, <2>2, <2>3
<1>4. ASSUME NEW ix, NEW n, NEW x, ReadAt(what, ix, n, x) PROVE \E r \in Reads(what) : r.x = x
  <2> DEFINE r == [at |-> <<ix, n>>, x |-> k(ix)[n]]
  <2>1. ix \in DOMAIN bs /\ HoldsIt(bs[ix], what) /\ n \in DOMAIN k(ix) /\ x = k(ix)[n]
    BY <1>2, <1>4
  <2>2. r.x = x
    BY <2>1
  <2>3. r \in {[at |-> <<ix, m>>, x |-> k(ix)[m]] : m \in DOMAIN k(ix)}
    BY <2>1
  <2> HIDE DEF r
  <2>4. r \in Reads(what)
    BY <1>1, <2>1, <2>3
  <2>5. QED
    BY <2>2, <2>4
<1>5. QED
  BY <1>3, <1>4

\* What it reads was received, at the index where it reads it; and what was received it reads.
LEMMA ReadIsReceived ==
  ASSUME StreamTypes, DInv, client = "anthropic", OwnIndexes, NEW what \in Contents
  PROVE  /\ \A ix, n, x : ReadAt(what, ix, n, x) =>
              \E i \in DOMAIN frames : Bears(i, what) /\ Adds(frames[i]) /\ frames[i].ix = ix /\ frames[i].x = x
         /\ \A i \in DOMAIN frames : Bears(i, what) => \E n : ReadAt(what, frames[i].ix, n, frames[i].x)
<1> DEFINE bs == Decode(frames).blocks
           l == Len(frames)
<1>1. Decoded(frames, l, bs)
  BY FramesReadable, AllDecoded
<1>2. DOMAIN frames = 1..l /\ l \in Nat
  BY LenProperties DEF DInv, BlocksInv
<1>3. /\ \/ what[1] = "text" /\ what = <<"text", 0>> /\ KindFor(what) = "text"
         \/ what[1] = "think" /\ what = <<"think", 0>> /\ KindFor(what) = "thinking"
         \/ what[1] = "call" /\ what = <<"call", what[2]>> /\ KindFor(what) = "tool_use"
      /\ KindFor(what) \in Kinds
  BY DEF Contents, KindFor, Kinds
<1>4. \A i \in DOMAIN frames : Adds(frames[i]) /\ IsCall(sent[frames[i].x]) =>
        bs[frames[i].ix].id = sent[frames[i].x].call
  BY IdsRead
<1>5. \A ix, n, x : ReadAt(what, ix, n, x) <=>
        /\ ix \in DOMAIN bs /\ HoldsIt(bs[ix], what)
        /\ n \in DOMAIN Kept(bs[ix], KindFor(what)) /\ x = Kept(bs[ix], KindFor(what))[n]
  BY DEF ReadAt
<1> HIDE DEF bs, l
<1>6. ASSUME NEW ix, NEW n, NEW x, ReadAt(what, ix, n, x)
      PROVE  \E i \in DOMAIN frames : Bears(i, what) /\ Adds(frames[i]) /\ frames[i].ix = ix /\ frames[i].x = x
  <2>1. /\ ix \in DOMAIN bs /\ HoldsIt(bs[ix], what)
        /\ n \in DOMAIN Kept(bs[ix], KindFor(what)) /\ x = Kept(bs[ix], KindFor(what))[n]
    BY <1>5, <1>6
  <2>2. Source(frames, l, ix, KindFor(what), x)
    BY <1>1, <1>3, <2>1 DEF Decoded, HasOnly
  <2>3. PICK i \in 1..l : /\ Adds(frames[i]) /\ frames[i].ix = ix /\ frames[i].kind = KindFor(what)
                          /\ frames[i].x = x
    BY <2>2 DEF Source
  <2>4. /\ i \in DOMAIN frames /\ PieceFrame(client, frames[i])
        /\ sent[x].kind \in Pieces \ {"end"} /\ frames[i].kind = KindOf(EventOf(sent[x]))
    BY <1>2, <2>3, DeltaReceived
  <2>5. \/ ~IsCall(sent[x]) /\ What(sent[x]) = <<"text", 0>> /\ KindFor(what) = "text"
        \/ ~IsCall(sent[x]) /\ What(sent[x]) = <<"think", 0>> /\ KindFor(what) = "thinking"
        \/ IsCall(sent[x]) /\ What(sent[x]) = <<"call", sent[x].call>> /\ KindFor(what) = "tool_use"
    BY <2>3, <2>4, WhatIs
  <2>6. IsCall(sent[x]) => bs[ix].id = sent[x].call
    BY <1>4, <2>3, <2>4
  <2>7. What(sent[x]) = what
    BY <1>3, <2>1, <2>5, <2>6 DEF HoldsIt
  <2>8. QED
    BY <2>3, <2>4, <2>7 DEF Bears
<1>7. ASSUME NEW i \in DOMAIN frames, Bears(i, what) PROVE \E n : ReadAt(what, frames[i].ix, n, frames[i].x)
  <2> DEFINE x == frames[i].x
  <2>1. Adds(frames[i]) /\ What(sent[x]) = what
    BY <1>7 DEF Bears, PieceFrame, Adds
  <2>2. sent[x].kind \in Pieces \ {"end"} /\ frames[i].kind = KindOf(EventOf(sent[x]))
    BY <2>1, DeltaReceived
  <2>3. IsCall(sent[x]) => bs[frames[i].ix].id = sent[x].call
    BY <1>4, <2>1
  <2> HIDE DEF x
  <2>4. \/ ~IsCall(sent[x]) /\ What(sent[x])[1] = "text" /\ frames[i].kind = "text"
        \/ ~IsCall(sent[x]) /\ What(sent[x])[1] = "think" /\ frames[i].kind = "thinking"
        \/ /\ IsCall(sent[x]) /\ What(sent[x])[1] = "call" /\ What(sent[x])[2] = sent[x].call
           /\ frames[i].kind = "tool_use"
    BY <2>2, WhatIs
  <2>5. frames[i].kind = KindFor(what) /\ (what[1] = "call" => IsCall(sent[x]) /\ what[2] = sent[x].call)
    BY <2>1, <2>4 DEF KindFor
  <2>6. /\ frames[i].ix \in DOMAIN bs /\ bs[frames[i].ix].kind = frames[i].kind
        /\ Holding(bs[frames[i].ix], frames[i].kind, frames[i].x)
    BY <1>1, <1>2, <2>1 DEF Decoded, HasAdded
  <2>7. PICK n \in DOMAIN Kept(bs[frames[i].ix], KindFor(what)) :
          Kept(bs[frames[i].ix], KindFor(what))[n] = frames[i].x
    BY <2>5, <2>6 DEF Holding
  <2>8. HoldsIt(bs[frames[i].ix], what)
    BY <2>3, <2>5, <2>6 DEF HoldsIt
  <2>9. QED
    BY <1>5, <2>6, <2>7, <2>8
<1>8. QED
  BY <1>6, <1>7

\* Content at two indexes is at the indexes in the order it was sent.
LEMMA IndexesInOrder ==
  ASSUME StreamTypes, SentInv, NEW p \in DOMAIN sent, NEW q \in DOMAIN sent,
         sent[p].kind \in Pieces \ {"end"}, sent[q].kind \in Pieces \ {"end"},
         What(sent[p]) = What(sent[q]), IndexOf(sent[p]) # IndexOf(sent[q])
  PROVE  p < q <=> IndexOf(sent[p]) < IndexOf(sent[q])
<1>1. p \in Nat /\ q \in Nat /\ sent[p].item \in Int /\ sent[q].item \in Int
  <2>1. Chained(sent)
    BY SentChained
  <2>2. QED
    BY <2>1, ChainedElements
<1>2. /\ \/ What(sent[p])[1] \in {"text", "think"} /\ ~IsCall(sent[p])
         \/ What(sent[p])[1] = "call" /\ What(sent[p])[2] = sent[p].call /\ IsCall(sent[p])
      /\ \/ What(sent[q])[1] \in {"text", "think"} /\ ~IsCall(sent[q])
         \/ What(sent[q])[1] = "call" /\ What(sent[q])[2] = sent[q].call /\ IsCall(sent[q])
  <2>1. \A c : c.kind \in Pieces \ {"end"} =>
          \/ What(c)[1] \in {"text", "think"} /\ ~IsCall(c)
          \/ What(c)[1] = "call" /\ What(c)[2] = c.call /\ IsCall(c)
    BY WhatIs
  <2>2. QED
    BY <2>1
<1>3. ~IsCall(sent[p]) /\ ~IsCall(sent[q])
  <2>1. ASSUME IsCall(sent[p]) \/ IsCall(sent[q]) PROVE FALSE
    <3>1. IsCall(sent[p]) /\ IsCall(sent[q]) /\ sent[p].call = sent[q].call
      BY <1>2, <2>1
    <3>2. QED
      BY <3>1 DEF IndexOf, IsCall
  <2>2. QED
    BY <2>1
<1>4. Prose(sent[p]) /\ Prose(sent[q])
  BY <1>3 DEF Prose, IsCall, Pieces
<1>5. lane = "responses" /\ IndexOf(sent[p]) = sent[p].item /\ IndexOf(sent[q]) = sent[q].item
  BY <1>4 DEF IndexOf, Prose
<1>6. (p < q => sent[p].item <= sent[q].item) /\ (q < p => sent[q].item <= sent[p].item)
  BY <1>4, <1>5 DEF SentInv, ItemsInv
<1>7. QED
  BY <1>1, <1>5, <1>6

LEMMA DeliveredToAnthropic ==
  ASSUME StreamTypes, DInv
  PROVE  AnthropicIntact
<1>1. SUFFICES ASSUME client = "anthropic", OwnIndexes, Clean, NEW what \in Contents
               PROVE  InOrder(Reads(what)) /\ Read(what) = SentPieces(what)
  BY DEF AnthropicIntact
<1> DEFINE bs == Decode(frames).blocks
           kind == KindFor(what)
<1>2. /\ \A r \in Reads(what) : ReadAt(what, r.at[1], r.at[2], r.x)
      /\ \A ix, n, x : ReadAt(what, ix, n, x) => \E r \in Reads(what) : r.x = x
  BY <1>1, ReadsAt
<1>3. /\ \A ix, n, x : ReadAt(what, ix, n, x) =>
           \E i \in DOMAIN frames : Bears(i, what) /\ Adds(frames[i]) /\ frames[i].ix = ix /\ frames[i].x = x
      /\ \A i \in DOMAIN frames : Bears(i, what) => \E n : ReadAt(what, frames[i].ix, n, frames[i].x)
  BY <1>1, ReadIsReceived
<1>4. Read(what) \subseteq SentPieces(what)
  BY <1>2, <1>3, BornIsSent DEF Read
<1>5. SentPieces(what) \subseteq Read(what)
  <2>1. ASSUME NEW y \in SentPieces(what) PROVE y \in Read(what)
    <3>1. \E i \in DOMAIN frames : Bears(i, what) /\ frames[i].x = y
      BY <1>1, AllHad, SentIsBorn
    <3>2. QED
      BY <1>2, <1>3, <3>1 DEF Read
  <2>2. QED
    BY <2>1
<1>6. \A ix \in DOMAIN bs : /\ Rising(Kept(bs[ix], kind)) /\ DOMAIN Kept(bs[ix], kind) \subseteq Nat
                            /\ Kept(bs[ix], kind) \in Seq(Int)
  <2>1. Decoded(frames, Len(frames), bs)
    BY <1>1, FramesReadable, AllDecoded
  <2>2. kind \in Kinds
    BY DEF KindFor, Kinds
  <2> HIDE DEF bs, kind
  <2>3. \A ix \in DOMAIN bs : bs[ix] \in BlockSet /\ Rising(Kept(bs[ix], kind))
    BY <2>1, <2>2 DEF Decoded, BlocksTyped, HasInOrder
  <2>4. \A ix \in DOMAIN bs : /\ Kept(bs[ix], kind) \in Seq(Int) /\ Len(Kept(bs[ix], kind)) \in Nat
                              /\ DOMAIN Kept(bs[ix], kind) = 1..Len(Kept(bs[ix], kind))
    BY <2>2, <2>3, KeptType
  <2>5. QED
    BY <2>3, <2>4
<1>7. ASSUME NEW r \in Reads(what), NEW s \in Reads(what)
      PROVE  r.x < s.x <=> r.at[1] < s.at[1] \/ (r.at[1] = s.at[1] /\ r.at[2] < s.at[2])
  <2>1. ReadAt(what, r.at[1], r.at[2], r.x) /\ ReadAt(what, s.at[1], s.at[2], s.x)
    BY <1>2
  <2>2. PICK i \in DOMAIN frames : /\ Bears(i, what) /\ Adds(frames[i]) /\ frames[i].ix = r.at[1]
                                   /\ frames[i].x = r.x
    BY <1>3, <2>1
  <2>3. PICK j \in DOMAIN frames : /\ Bears(j, what) /\ Adds(frames[j]) /\ frames[j].ix = s.at[1]
                                   /\ frames[j].x = s.x
    BY <1>3, <2>1
  <2>4. /\ r.x \in Nat /\ r.x \in DOMAIN sent /\ sent[r.x].kind \in Pieces \ {"end"}
        /\ r.at[1] = IndexOf(sent[r.x]) /\ r.at[1] \in Int /\ What(sent[r.x]) = what
    <3>1. frames[i].ix \in Int
      <4>1. frames \in Seq(FrameSet)
        BY DEF DInv, BlocksInv
      <4>2. frames[i] \in FrameSet
        BY <4>1, ElementOfSeq, LenProperties
      <4>3. QED
        BY <4>2 DEF FrameSet
    <3>2. QED
      BY <1>1, <2>2, <3>1, DeltaReceived DEF Bears
  <2>5. /\ s.x \in Nat /\ s.x \in DOMAIN sent /\ sent[s.x].kind \in Pieces \ {"end"}
        /\ s.at[1] = IndexOf(sent[s.x]) /\ s.at[1] \in Int /\ What(sent[s.x]) = what
    <3>1. frames[j].ix \in Int
      <4>1. frames \in Seq(FrameSet)
        BY DEF DInv, BlocksInv
      <4>2. frames[j] \in FrameSet
        BY <4>1, ElementOfSeq, LenProperties
      <4>3. QED
        BY <4>2 DEF FrameSet
    <3>2. QED
      BY <1>1, <2>3, <3>1, DeltaReceived DEF Bears
  <2>6. CASE r.at[1] = s.at[1]
    <3> DEFINE k == Kept(bs[r.at[1]], kind)
    <3>1. /\ r.at[2] \in DOMAIN k /\ r.x = k[r.at[2]]
          /\ s.at[2] \in DOMAIN k /\ s.x = k[s.at[2]]
          /\ Rising(k) /\ DOMAIN k \subseteq Nat
      BY <1>6, <2>1, <2>6 DEF ReadAt
    <3> HIDE DEF k
    <3>2. /\ r.at[2] < s.at[2] => r.x < s.x
          /\ s.at[2] < r.at[2] => s.x < r.x
          /\ r.at[2] \in Nat /\ s.at[2] \in Nat
      BY <3>1 DEF Rising
    <3>3. r.at[2] = s.at[2] => r.x = s.x
      BY <3>1
    <3>4. QED
      BY <2>4, <2>5, <2>6, <3>2, <3>3
  <2>7. CASE r.at[1] # s.at[1]
    <3>1. r.x < s.x <=> r.at[1] < s.at[1]
      BY <2>4, <2>5, <2>7, IndexesInOrder DEF DInv
    <3>2. QED
      BY <2>7, <3>1
  <2>8. QED
    BY <2>6, <2>7
<1>8. InOrder(Reads(what))
  BY <1>7 DEF InOrder
<1>9. QED
  BY <1>4, <1>5, <1>8

-----------------------------------------------------------------------------
\* An OpenAI client has, of an answer whose calls each stream at an index of their own, nothing
\* that was not sent, nothing out of order or twice, no gap before what it has, and all of it
\* once the stream ended well (the lanes, filterReasoningStream, dispatch's loop and
\* OpenAIStreamEncoder).
THEOREM OpenAIClientsReadItAll == Spec => []OpenAIIntact
<1>1. IInv /\ DInv => OpenAIIntact
  BY DeliveredToOpenAI DEF IInv
<1>2. QED
  BY <1>1, DeliveryInvariant, PTL

\* An Anthropic client, of an answer whose lane gives each block an index of its own, reads in
\* the decoder's blocks, once the stream ended well, the whole of the answer in the order it
\* was sent, each call's arguments under its id (AnthropicStreamEncoder and the decoder of
\* pkg/spikes/anthropic).
THEOREM AnthropicClientsReadItAll == Spec => []AnthropicIntact
<1>1. IInv /\ DInv => AnthropicIntact
  BY DeliveredToAnthropic DEF IInv
<1>2. QED
  BY <1>1, DeliveryInvariant, PTL
=============================================================================
