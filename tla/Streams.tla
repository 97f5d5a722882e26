----------------------------- MODULE Streams -----------------------------
(***************************************************************************)
(* One streamed answer on its way from an upstream to a client, after the  *)
(* lane's Stream returned: the lane's goroutine turns chunks into events   *)
(* and sends them on a buffered channel, a second goroutine may drop the   *)
(* reasoning, and dispatch encodes what it receives (StreamCodecs).        *)
(*                                                                         *)
(* lane says whose goroutine it is: "hub" (StreamBridge, used by the       *)
(* openaicompat lanes), "codex", "chat" and "responses" (copilot), and     *)
(* "gemini" (antigravity).                                                 *)
(***************************************************************************)
EXTENDS StreamCodecs, FiniteSets, SequencesExt

CONSTANTS Cap,        \* the channels' capacity (64 in the code)
          MaxChunks   \* bound: the pieces of an answer

ASSUME StreamAssumption == Cap \in Nat \ {0} /\ MaxChunks \in Nat

VARIABLES
  lane, client, filtered,  \* whose answer, for which client, through the reasoning filter or not
  sent,     \* the chunks the lane has read, in order
  producer, \* the lane's goroutine: [pc, pending (what it is sending), failed]
  queue,    \* the lane's channel
  filter,   \* the filter's goroutine: [pc, held (what it is sending)]
  passed,   \* the filter's channel
  timedOut, \* the request's timeout has passed
  gone,     \* the client has hung up
  stalled,  \* the client has stopped reading, and a write of dispatch's does not return
  handler,  \* dispatch: "first", "loop", "left" (failed over), "broke" or "returned"
  failing,  \* deliveryFailed
  enc,      \* the encoder
  frames    \* what the client has received

vars == <<lane, client, filtered, sent, producer, queue, filter, passed,
          timedOut, gone, stalled, handler, failing, enc, frames>>

upstreamVars == <<lane, client, filtered>>
ctxVars == <<timedOut, gone, stalled>>
filterVars == <<filter, passed>>
handlerVars == <<handler, failing, enc, frames>>

Lanes == {"hub", "codex", "chat", "gemini", "responses"}
Clients == {"openai", "anthropic"}

Calls == Cardinality({i \in DOMAIN sent : sent[i].kind = "open"})
Items == Cardinality({i \in DOMAIN sent : sent[i].new})

Chunk(kind, call, item, new) ==
  [kind |-> kind, piece |-> Len(sent) + 1, call |-> call, item |-> item, new |-> new]

\* What the upstream may send next: an answer is any order of text, reasoning and calls; a
\* Responses item holds one kind, and gemini sends a call whole.
ContinuesItem(kind) == sent # <<>> /\ Last(sent).kind = kind
NextChunks ==
  LET prose(kind) ==
        IF lane # "responses" THEN {Chunk(kind, None, 0, FALSE)}
        ELSE {Chunk(kind, None, Items, TRUE)}
             \cup IF ContinuesItem(kind) THEN {Chunk(kind, None, Items - 1, FALSE)} ELSE {}
  IN prose("text") \cup prose("think")
     \cup {Chunk("open", Calls, Items, TRUE)}
     \cup (IF lane = "gemini" THEN {} ELSE {Chunk("args", k, 0, FALSE) : k \in 0..(Calls - 1)})
     \cup (IF sent # <<>> THEN {Chunk("end", None, 0, FALSE)} ELSE {})

Ended == \E i \in DOMAIN sent : sent[i].kind = "end"

\* reqCtx: the request's context, with the lane's timeout; cancelled when dispatch returns.
CtxDone == timedOut \/ gone \/ handler \in {"broke", "returned"}

Init ==
  /\ lane \in Lanes /\ client \in Clients
  /\ filtered \in (IF lane = "hub" THEN BOOLEAN ELSE {FALSE})
  /\ sent = <<>>
  /\ producer = [pc |-> "reading", pending |-> <<>>, failed |-> FALSE]
  /\ queue = <<>>
  /\ filter = [pc |-> IF filtered THEN "taking" ELSE "off", held |-> None]
  /\ passed = <<>>
  /\ timedOut = FALSE /\ gone = FALSE /\ stalled = FALSE
  /\ handler = "first" /\ failing = FALSE
  /\ enc = IF client = "openai" THEN NewOpenAI ELSE NewAnthropic
  /\ frames = <<>>

-----------------------------------------------------------------------------
(***************************************************************************)
(* The lane's goroutine.  A send is not cancellable in any of the lanes.   *)
(***************************************************************************)
Reading == producer.pc = "reading" /\ producer.pending = <<>>

LaneOnly == UNCHANGED <<upstreamVars, filterVars, ctxVars, handlerVars>>

\* The finish ends nothing: every lane reads on until the body ends, and turns what comes into
\* events as before.  A second "end" is a usage chunk of its own, or a finish said again.
LaneRead(c) ==
  /\ Reading
  /\ Len(sent) < MaxChunks \/ (Len(sent) = MaxChunks /\ c.kind = "end")
  /\ sent' = Append(sent, c)
  /\ producer' = [producer EXCEPT
       !.pending = (IF sent = <<>> THEN Opening(lane) ELSE <<>>) \o Translate(lane, c)]
  /\ LaneOnly /\ UNCHANGED queue

\* An error the goroutine reports and reads on after: llmhub's chunk.Err, gemini's
\* malformed_function_call.  One of them is enough, as dispatch stops reading there.
LaneErrorChunk ==
  /\ Reading /\ ~producer.failed /\ lane \in {"hub", "gemini"}
  /\ producer' = [producer EXCEPT !.pending = <<Ev("error", 0, None)>>, !.failed = TRUE]
  /\ LaneOnly /\ UNCHANGED <<sent, queue>>

\* The body ends, complete or not.
LaneEOF ==
  /\ Reading
  /\ producer' = [producer EXCEPT !.pc = "last"]
  /\ LaneOnly /\ UNCHANGED <<sent, queue>>

\* Reading fails, which it does once the context is done: an error is the last event.
LaneReadError ==
  /\ Reading /\ lane # "hub"
  /\ producer' = [producer EXCEPT !.pc = "last", !.pending = <<Ev("error", 0, None)>>]
  /\ LaneOnly /\ UNCHANGED <<sent, queue>>

\* StreamBridge selects on the context where it reads, and returns without a word.
BridgeQuits ==
  /\ Reading /\ lane = "hub" /\ CtxDone
  /\ producer' = [producer EXCEPT !.pc = "last"]
  /\ LaneOnly /\ UNCHANGED <<sent, queue>>

LaneSend ==
  /\ producer.pending # <<>> /\ Len(queue) < Cap
  /\ queue' = Append(queue, Head(producer.pending))
  /\ producer' = [producer EXCEPT !.pending = Tail(@)]
  /\ LaneOnly /\ UNCHANGED sent

LaneClose ==
  /\ producer.pc = "last" /\ producer.pending = <<>>
  /\ producer' = [producer EXCEPT !.pc = "done"]
  /\ LaneOnly /\ UNCHANGED <<sent, queue>>

-----------------------------------------------------------------------------
(***************************************************************************)
(* filterReasoningStream: between the bridge and dispatch unless the       *)
(* provider echoes reasoning.                                              *)
(***************************************************************************)
FilterOnly == UNCHANGED <<upstreamVars, sent, producer, ctxVars, handlerVars>>

FilterTake ==
  /\ filter.pc = "taking" /\ queue # <<>>
  /\ queue' = Tail(queue)
  /\ filter' = IF Head(queue).type = "think" THEN filter
               ELSE [pc |-> "putting", held |-> Head(queue)]
  /\ FilterOnly /\ UNCHANGED passed

\* A mutant: the send does not wait for room.
FilterPut_Drops ==
  /\ filter.pc = "putting"
  /\ passed' = IF Len(passed) < Cap THEN Append(passed, filter.held) ELSE passed
  /\ filter' = [pc |-> "taking", held |-> None]
  /\ FilterOnly /\ UNCHANGED queue

FilterPut ==
  /\ filter.pc = "putting" /\ Len(passed) < Cap
  /\ passed' = Append(passed, filter.held)
  /\ filter' = [pc |-> "taking", held |-> None]
  /\ FilterOnly /\ UNCHANGED queue

FilterEnd ==
  /\ filter.pc = "taking" /\ queue = <<>> /\ producer.pc = "done"
  /\ filter' = [filter EXCEPT !.pc = "done"]
  /\ FilterOnly /\ UNCHANGED <<queue, passed>>

FilterQuit ==
  /\ filter.pc = "taking" /\ CtxDone
  /\ filter' = [filter EXCEPT !.pc = IF producer.pc = "done" THEN "done" ELSE "quit"]
  /\ FilterOnly /\ UNCHANGED <<queue, passed>>

-----------------------------------------------------------------------------
(***************************************************************************)
(* Dispatch, once Stream has returned a channel.                           *)
(***************************************************************************)
Incoming == IF filtered THEN passed ELSE queue
Closed == Incoming = <<>> /\ (IF filtered THEN filter.pc \in {"done", "quit"} ELSE producer.pc = "done")

HandlerOnly == UNCHANGED <<upstreamVars, sent, producer, filter, ctxVars>>

Receive ==
  /\ Incoming # <<>>
  /\ IF filtered THEN passed' = Tail(passed) /\ UNCHANGED queue
                 ELSE queue' = Tail(queue) /\ UNCHANGED passed

Encoded(e, ev) == IF client = "openai" THEN OpenAIEvent(e, ev) ELSE AnthropicEvent(e, ev)
Finished(e) == IF client = "openai" THEN OpenAIClose(e, TRUE) ELSE AnthropicClose(e)

\* What the encoder writes reaches a client that is there.
Write(out) ==
  /\ ~stalled
  /\ enc' = out.e
  /\ frames' = IF gone THEN frames ELSE frames \o out.frames

\* A mutant: the first event is encoded before it is looked at.
FirstEvent_Eager ==
  /\ handler = "first" /\ Receive
  /\ handler' = IF Head(Incoming).type = "error" THEN "left" ELSE "loop"
  /\ failing' = gone /\ Write(Encoded(enc, Head(Incoming)))
  /\ HandlerOnly

\* The first event commits the headers; an error or an empty stream fails over instead, and
\* the channel is left as it is.
FirstEvent ==
  /\ handler = "first" /\ Receive
  /\ LET ev == Head(Incoming) IN
       IF ev.type = "error" THEN handler' = "left" /\ UNCHANGED <<failing, enc, frames>>
       ELSE handler' = "loop" /\ failing' = gone /\ Write(Encoded(enc, ev))
  /\ HandlerOnly

FirstClosed ==
  /\ handler = "first" /\ Closed
  /\ handler' = "left"
  /\ HandlerOnly /\ UNCHANGED <<queue, passed, failing, enc, frames>>

ClientLeftFirst ==
  /\ handler = "first" /\ gone
  /\ handler' = "broke"
  /\ HandlerOnly /\ UNCHANGED <<queue, passed, failing, enc, frames>>

\* A mutant: dispatch returns as soon as it finds the client gone.
NextEvent_NoDrain ==
  /\ handler = "loop" /\ Receive /\ Head(Incoming).type # "error"
  /\ failing' = (failing \/ gone)
  /\ IF failing' THEN UNCHANGED <<enc, frames>> ELSE Write(Encoded(enc, Head(Incoming)))
  /\ handler' = IF failing' THEN "returned" ELSE handler
  /\ HandlerOnly

\* An event of the rest of the stream.  When the client is gone dispatch goes on reading.
NextEvent ==
  /\ handler = "loop" /\ Receive /\ Head(Incoming).type # "error"
  /\ failing' = (failing \/ gone)
  /\ IF failing' THEN UNCHANGED <<enc, frames>> ELSE Write(Encoded(enc, Head(Incoming)))
  /\ HandlerOnly /\ UNCHANGED handler

\* An error mid-stream: its frame, the end of the stream, and no more reading.
NextError ==
  /\ handler = "loop" /\ Receive /\ Head(Incoming).type = "error"
  /\ handler' = "broke"
  /\ LET error == Encoded(enc, Head(Incoming))
         end == Finished(error.e)
     IN Write([e |-> end.e, frames |-> error.frames \o end.frames])
  /\ HandlerOnly /\ UNCHANGED failing

NextClosed ==
  /\ handler = "loop" /\ Closed
  /\ handler' = "returned"
  /\ Write(Finished(enc))
  /\ HandlerOnly /\ UNCHANGED <<queue, passed, failing>>

-----------------------------------------------------------------------------
Env == UNCHANGED <<upstreamVars, sent, producer, queue, filterVars, handlerVars>>

Timeout == ~timedOut /\ ~gone /\ timedOut' = TRUE /\ Env /\ UNCHANGED <<gone, stalled>>
HangUp == ~gone /\ gone' = TRUE /\ stalled' = FALSE /\ Env /\ UNCHANGED timedOut

\* A client that stays and stops reading.  Nothing bounds a write (the server sets no
\* WriteTimeout): one that blocks returns only if the client hangs up.  A client that reads on
\* after a while is only slow.
Stall ==
  /\ ~gone /\ ~stalled /\ (Incoming # <<>> \/ Closed)
  /\ stalled' = TRUE
  /\ Env /\ UNCHANGED <<timedOut, gone>>

Over == handler \in {"left", "broke", "returned"}

Lane == (\E c \in NextChunks : LaneRead(c)) \/ LaneErrorChunk \/ LaneEOF \/ LaneReadError
        \/ BridgeQuits \/ LaneSend \/ LaneClose
Filter == FilterTake \/ FilterPut \/ FilterEnd \/ FilterQuit
Dispatch == FirstEvent \/ FirstClosed \/ ClientLeftFirst \/ NextEvent \/ NextError \/ NextClosed

Next == Lane \/ Filter \/ Dispatch \/ (~Over /\ (Timeout \/ HangUp \/ Stall))

\* The goroutines run; the timeout passes; and a read of a request whose context is done
\* returns.  Nothing makes an upstream send or close, or a client read on or hang up.
Spec ==
  /\ Init /\ [][Next]_vars
  /\ WF_vars(LaneSend \/ LaneClose \/ BridgeQuits \/ (CtxDone /\ LaneReadError))
  /\ WF_vars(Filter) /\ WF_vars(Dispatch) /\ WF_vars(Timeout /\ ~Over)

-----------------------------------------------------------------------------
\* What the client should have: the pieces of the answer, by their content.
What(c) == IF c.kind \in {"text", "think"} THEN <<c.kind, 0>> ELSE <<"call", c.call>>
Answer == {i \in DOMAIN sent : sent[i].kind # "end" /\ ~(filtered /\ sent[i].kind = "think")}
SentPieces(what) == {sent[i].piece : i \in {j \in Answer : What(sent[j]) = what}}
Contents == {<<"text", 0>>, <<"think", 0>>} \cup {<<"call", k>> : k \in 0..(Calls - 1)}

Reads(what) == IF client = "openai" THEN OpenAIReads(frames, what) ELSE AnthropicReads(frames, what)
Read(what) == {r.x : r \in Reads(what)}

\* The client reads pieces in the order they were sent, and no piece twice.
InOrder(reads) ==
  \A r, s \in reads :
    r.x < s.x <=> r.at[1] < s.at[1] \/ (r.at[1] = s.at[1] /\ r.at[2] < s.at[2])

\* The stream ended for a client that is there, nothing went wrong, and the answer was whole.
Clean == handler = "returned" /\ Ended /\ ~gone /\ ~timedOut /\ ~failing

\* The index at which the lane puts a piece.
IndexOf(c) ==
  CASE c.kind \in {"text", "think"} -> IF lane = "responses" THEN c.item ELSE 0
    [] OTHER -> IF lane = "gemini" THEN 0 ELSE c.call
IsCall(c) == c.kind \in {"open", "args"}
OwnIndexes ==
  \A i, j \in {n \in DOMAIN sent : sent[n].kind # "end"} :
    IndexOf(sent[i]) = IndexOf(sent[j]) => What(sent[i]) = What(sent[j])
OwnCalls ==
  \A i, j \in {n \in DOMAIN sent : IsCall(sent[n])} :
    IndexOf(sent[i]) = IndexOf(sent[j]) => What(sent[i]) = What(sent[j])

TypeOK ==
  /\ lane \in Lanes /\ client \in Clients /\ filtered \in BOOLEAN
  /\ Len(sent) <= MaxChunks + 1
  /\ producer.pc \in {"reading", "last", "done"} /\ producer.failed \in BOOLEAN
  /\ Len(queue) <= Cap /\ Len(passed) <= Cap
  /\ filter.pc \in {"off", "taking", "putting", "done", "quit"}
  /\ (filter.pc = "off") = ~filtered
  /\ {timedOut, gone, stalled, failing} \subseteq BOOLEAN
  /\ handler \in {"first", "loop", "left", "broke", "returned"}
  /\ handler = "left" => frames = <<>>

Position(f) == {i \in DOMAIN frames : frames[i].f = f}
Only(f, place) == Position(f) \subseteq {place}

\* The upstream went on with its answer after its finish.
Overrun ==
  \E i, j \in DOMAIN sent : i < j /\ sent[i].kind = "end" /\ sent[j].kind # "end"

\* A client sees one well-formed stream, whatever the lane sends, fails or leaves out: the
\* opening frame once and first; the closing frame once, also when the upstream finishes twice
\* or goes on; an Anthropic block is only added to once begun, and stopped no more often than
\* begun, and none that was begun before the message's stop is open at it.  After the stop
\* there is at most an error, if the upstream keeps to its own finish: what it sends after it
\* is written after the stop, by encoders that look at stopped only to write the end once.
\* (EncodeEvent and Close of both encoders, and dispatch's calls of them, share that writing.)
StreamWellFormed ==
  IF client = "openai" THEN
    /\ Only("role", 1) /\ Only("[DONE]", Len(frames))
    /\ Cardinality(Position("finish")) <= 1
    /\ \A i \in Position("finish"), j \in DOMAIN frames :
         j > i => Overrun \/ frames[j].f \in {"error", "usage", "[DONE]"}
    /\ Over /\ ~gone /\ frames # <<>> => Position("[DONE]") # {}
  ELSE
    LET count(f, ix, n) == Cardinality({i \in Position(f) : i <= n /\ frames[i].ix = ix})
        stops == Position("message_stop")
    IN /\ Only("message_start", 1) /\ Cardinality(stops) <= 1
       /\ \A i \in stops, j \in DOMAIN frames : j > i => Overrun \/ frames[j].f = "error"
       /\ \A i \in Position("delta") : count("block_start", frames[i].ix, i) > 0
       /\ \A i \in Position("block_stop") :
            count("block_stop", frames[i].ix, i) <= count("block_start", frames[i].ix, i)
       /\ \A i \in stops, b \in Position("block_start") :
            b < i => count("block_stop", frames[b].ix, i) > 0
       /\ Over /\ ~gone /\ frames # <<>> => stops # {}

\* An OpenAI client has every piece of a whole answer, once, in order and with the call it
\* belongs to, and no piece that was not sent; before the end, what was sent first of each
\* content.  Gemini's calls all stream at index 0, so there this is claimed for answers of
\* one call.
OpenAIIntact ==
  client = "openai" /\ OwnCalls =>
    \A what \in Contents :
      /\ InOrder(Reads(what)) /\ Read(what) \subseteq SentPieces(what)
      /\ \A x \in Read(what), y \in SentPieces(what) : y < x => y \in Read(what)
      /\ Clean => Read(what) = SentPieces(what)

\* So has an Anthropic client, of an answer whose lane gives each block an index of its own.
AnthropicIntact ==
  client = "anthropic" /\ OwnIndexes /\ Clean =>
    \A what \in Contents : InOrder(Reads(what)) /\ Read(what) = SentPieces(what)

\* Dispatch comes to the end of every stream, and so does the lane's goroutine, unless dispatch
\* broke off reading, or failed over, or the filter stopped reading with the context done:
\* a client that hangs up mid-stream leaves no goroutine behind (handlers.go, "keep draining").
\* A client that stays and reads no more may hold them all, whatever the request's timeout.
StreamEnds ==
  \/ <>[]stalled
  \/ /\ <>Over
     /\ <>(producer.pc = "done" \/ handler \in {"broke", "left"} \/ filter.pc = "quit")
=============================================================================
