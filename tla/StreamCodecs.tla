-------------------------- MODULE StreamCodecs --------------------------
(***************************************************************************)
(* What the lanes make of their upstreams' chunks (StreamBridge, antigra-  *)
(* vity, codex, copilot's two APIs) and what the two stream encoders make  *)
(* of the IR events that come out, as operators from a state to the next   *)
(* state and the output; and the two kinds of client that read the result. *)
(*                                                                         *)
(* The content of a delta is the number of the piece the upstream sent, so *)
(* a client's text, reasoning or arguments are sequences of pieces.        *)
(***************************************************************************)
EXTENDS Integers, Sequences

None == -1

-----------------------------------------------------------------------------
(***************************************************************************)
(* IR events (pkg/ir/events.go): a type, a block or tool index, a content. *)
(***************************************************************************)
Ev(type, ix, x) == [type |-> type, ix |-> ix, x |-> x]

\* What one step of an upstream's answer holds.  kind is what it says: text, reasoning, a
\* fragment of a tool call (which opens the call or continues it), or the end.
Pieces == {"text", "think", "open", "args", "end"}

When(condition, event) == IF condition THEN <<event>> ELSE <<>>

\* OpenAI chunks: codex, copilot's chat API, and every lane behind hublane's StreamBridge.
\* Text and reasoning are at the choice's index, a tool call at its own; the bridge and codex
\* stop the call after each of its fragments, and the call's first fragment brings arguments.
FromChunk(lane, c) ==
  LET stops == lane \in {"hub", "codex"} IN
  CASE c.kind = "think" -> <<Ev("think", 0, c.piece)>>
    [] c.kind = "text"  -> <<Ev("text", 0, c.piece)>>
    [] c.kind = "open"  -> <<Ev("call", c.call, c.call), Ev("args", c.call, c.piece)>>
                           \o When(stops, Ev("callstop", c.call, None))
    [] c.kind = "args"  -> <<Ev("args", c.call, c.piece)>>
                           \o When(stops, Ev("callstop", c.call, None))
    [] c.kind = "end"   -> <<Ev("usage", 0, None), Ev("stop", 0, None)>>

\* Gemini chunks: every part is at blockIndex, which stays 0; a call comes whole.
FromGemini(c) ==
  CASE c.kind = "think" -> <<Ev("sig", 0, None), Ev("think", 0, c.piece)>>
    [] c.kind = "text"  -> <<Ev("text", 0, c.piece)>>
    [] c.kind = "open"  -> <<Ev("call", 0, c.call), Ev("args", 0, c.piece), Ev("callstop", 0, None)>>
    [] c.kind = "end"   -> <<Ev("usage", 0, None), Ev("stop", 0, None)>>

\* Responses events: item is the output index of the item the piece belongs to and new says it
\* is the item's first; a message and a reasoning item both start a text block at the output
\* index, a function call starts at the next tool index and is done when its item is.
FromResponses(c) ==
  LET added == When(c.new, Ev("block", c.item, "text")) IN
  CASE c.kind = "think" -> added \o <<Ev("think", c.item, c.piece)>>
    [] c.kind = "text"  -> added \o <<Ev("text", c.item, c.piece)>>
    [] c.kind = "open"  -> <<Ev("call", c.call, c.call), Ev("args", c.call, c.piece)>>
    [] c.kind = "args"  -> <<Ev("args", c.call, c.piece)>>
    [] c.kind = "end"   -> <<Ev("usage", 0, None), Ev("stop", 0, None)>>

\* The first answer of an upstream that gives its message an id; gemini's does not.
Opening(lane) == When(lane # "gemini", Ev("start", 0, None))

Translate(lane, c) ==
  CASE lane \in {"hub", "codex", "chat"} -> FromChunk(lane, c)
    [] lane = "gemini" -> FromGemini(c)
    [] lane = "responses" -> FromResponses(c)

-----------------------------------------------------------------------------
(***************************************************************************)
(* AnthropicStreamEncoder.  open is activeBlockIndex, begun startedBlocks. *)
(***************************************************************************)
Frame(f, ix, kind, x) == [f |-> f, ix |-> ix, kind |-> kind, x |-> x]
Plain(f) == Frame(f, None, "", None)

NewAnthropic == [started |-> FALSE, stopped |-> FALSE, open |-> None, begun |-> {}]

\* A step of the encoder: its next state, and the frames it has written so far.
Out(e, frames) == [e |-> e, frames |-> frames]

EnsureMessageStart(e) ==
  Out([e EXCEPT !.started = TRUE], When(~e.started, Plain("message_start")))

StopActiveBlock(o, ix) ==
  IF o.e.open \notin {None, ix}
  THEN Out([o.e EXCEPT !.open = None], Append(o.frames, Frame("block_stop", o.e.open, "", None)))
  ELSE o

StartBlock(o, ix, kind, id) ==
  Out([o.e EXCEPT !.open = ix, !.begun = @ \cup {ix}], Append(o.frames, Frame("block_start", ix, kind, id)))

StartBlockOnce(o, ix, kind, id) == IF ix \in o.e.begun THEN o ELSE StartBlock(o, ix, kind, id)

At(e, ix) == StopActiveBlock(EnsureMessageStart(e), ix)

\* A mutant: a delta starts its block again once the block was stopped.
Delta_Restarts(e, ev, kind) ==
  LET at == At(e, ev.ix)
      o == IF at.e.open = ev.ix THEN at ELSE StartBlock(at, ev.ix, kind, None)
  IN Out(o.e, Append(o.frames, Frame("delta", ev.ix, kind, ev.x)))

\* A delta starts its block unless the index was ever started.
Delta(e, ev, kind) ==
  LET o == StartBlockOnce(At(e, ev.ix), ev.ix, kind, None)
  IN Out(o.e, Append(o.frames, Frame("delta", ev.ix, kind, ev.x)))

\* The end of the message: close what is open, then message_delta and message_stop.
Finish(o) ==
  LET closed == StopActiveBlock(o, None)
  IN Out([closed.e EXCEPT !.stopped = TRUE],
         closed.frames \o <<Plain("message_delta"), Plain("message_stop")>>)

AnthropicEvent(e, ev) ==
  CASE ev.type = "start" -> EnsureMessageStart(e)
    [] ev.type = "block" -> StartBlockOnce(At(e, ev.ix), ev.ix, ev.x, None)
    [] ev.type = "text"  -> Delta(e, ev, "text")
    [] ev.type \in {"think", "sig"} -> Delta(e, ev, "thinking")
    [] ev.type = "args"  -> Delta(e, ev, "tool_use")
    [] ev.type = "call"  -> StartBlock(At(e, ev.ix), ev.ix, "tool_use", ev.x)
    [] ev.type = "callstop" /\ e.open = ev.ix ->
         Out([e EXCEPT !.open = None], <<Frame("block_stop", ev.ix, "", None)>>)
    [] ev.type = "stop" /\ ~e.stopped -> Finish(EnsureMessageStart(e))
    [] ev.type = "error" -> Out(e, <<Plain("error")>>)
    [] OTHER -> Out(e, <<>>)

\* A mutant: Close ends the message again.
AnthropicClose_Again(e) ==
  IF e.started THEN Finish(Out(e, <<>>)) ELSE StopActiveBlock(Out(e, <<>>), None)

AnthropicClose(e) ==
  IF e.stopped THEN Out(e, <<>>)
  ELSE IF e.started THEN Finish(Out(e, <<>>))
  ELSE StopActiveBlock(Out(e, <<>>), None)

-----------------------------------------------------------------------------
(***************************************************************************)
(* OpenAIStreamEncoder.                                                    *)
(***************************************************************************)
NewOpenAI ==
  [started |-> FALSE, sawToolCalls |-> FALSE, stopped |-> FALSE, closed |-> FALSE, usage |-> FALSE]

\* The role chunk, unless it was written.
WithRole(e, frame) ==
  Out([e EXCEPT !.started = TRUE], When(~e.started, Plain("role")) \o <<frame>>)

OpenAIEvent(e, ev) ==
  CASE ev.type = "start" -> Out([e EXCEPT !.started = TRUE], When(~e.started, Plain("role")))
    [] ev.type = "text"  -> WithRole(e, Frame("content", None, "", ev.x))
    [] ev.type = "think" -> WithRole(e, Frame("reasoning", None, "", ev.x))
    [] ev.type = "call"  ->
         WithRole([e EXCEPT !.sawToolCalls = TRUE], Frame("call", ev.ix, "", ev.x))
    [] ev.type = "args"  -> Out(e, <<Frame("args", ev.ix, "", ev.x)>>)
    [] ev.type = "usage" -> Out([e EXCEPT !.usage = TRUE], <<>>)
    [] ev.type = "stop" /\ ~e.stopped ->
         Out([e EXCEPT !.stopped = TRUE],
             <<Frame("finish", None, IF e.sawToolCalls THEN "tool_calls" ELSE "stop", None)>>)
    [] ev.type = "error" -> Out(e, <<Plain("error")>>)
    [] OTHER -> Out(e, <<>>)

\* includeUsage is the client's stream_options.include_usage.
OpenAIClose(e, includeUsage) ==
  IF e.closed THEN Out(e, <<>>)
  ELSE Out([e EXCEPT !.closed = TRUE],
           When(includeUsage /\ e.usage, Plain("usage")) \o <<Plain("[DONE]")>>)

-----------------------------------------------------------------------------
(***************************************************************************)
(* The clients.  An Anthropic client is the decoder of                     *)
(* pkg/spikes/anthropic: a block_start puts a new block at its index, a    *)
(* delta says what its block is.  An OpenAI client appends content,        *)
(* reasoning and, by index, the arguments of calls.                        *)
(***************************************************************************)
Block(kind, id) == [kind |-> kind, id |-> id, text |-> <<>>, think |-> <<>>, args |-> <<>>]

\* The block at an index after a delta of some kind; "sig" content is not looked at.
Grown(b, kind, x) ==
  IF x = None THEN b
  ELSE CASE kind = "text"     -> [b EXCEPT !.kind = kind, !.text = Append(@, x)]
         [] kind = "thinking" -> [b EXCEPT !.kind = kind, !.think = Append(@, x)]
         [] kind = "tool_use" -> [b EXCEPT !.kind = kind, !.args = Append(@, x)]

Blocks == [blocks |-> <<>>, completed |-> FALSE, error |-> FALSE]   \* NewDecoder

BlockAt(d, ix) == IF ix \in DOMAIN d.blocks THEN d.blocks[ix] ELSE Block("", None)
PutBlock(d, ix, b) ==
  [d EXCEPT !.blocks = [j \in DOMAIN d.blocks \cup {ix} |-> IF j = ix THEN b ELSE d.blocks[j]]]

HandleEvent(d, fr) ==
  CASE fr.f = "block_start"  -> PutBlock(d, fr.ix, Block(fr.kind, fr.x))
    [] fr.f = "delta"        -> PutBlock(d, fr.ix, Grown(BlockAt(d, fr.ix), fr.kind, fr.x))
    [] fr.f = "message_stop" -> [d EXCEPT !.completed = TRUE]
    [] fr.f = "error"        -> [d EXCEPT !.error = TRUE]
    [] OTHER -> d

Decode(frames) ==
  LET read[n \in 0..Len(frames)] ==
        IF n = 0 THEN Blocks ELSE HandleEvent(read[n - 1], frames[n])
  IN read[Len(frames)]

\* What a client has of some content (<<"text", 0>>, <<"think", 0>>, or <<"call", k>> for the
\* arguments of a call): its pieces, and where it reads each.  FullText goes through the
\* indexes in order.
AnthropicReads(frames, what) ==
  LET bs == Decode(frames).blocks
      kind == [text |-> "text", think |-> "thinking", call |-> "tool_use"][what[1]]
      field == [text |-> "text", think |-> "think", call |-> "args"][what[1]]
      Holds(b) == b.kind = kind /\ (kind = "tool_use" => b.id = what[2])
  IN UNION {{[at |-> <<ix, n>>, x |-> bs[ix][field][n]] : n \in DOMAIN bs[ix][field]}
              : ix \in {j \in DOMAIN bs : Holds(bs[j])}}

\* The id a client has for an index is the one of its last opening fragment.
Called(frames, ix, id) ==
  \E i \in DOMAIN frames :
    /\ frames[i].f = "call" /\ frames[i].ix = ix /\ frames[i].x = id
    /\ \A j \in DOMAIN frames : frames[j].f = "call" /\ frames[j].ix = ix => j <= i

OpenAIReads(frames, what) ==
  LET Holds(fr) == \/ what[1] = "text" /\ fr.f = "content"
                   \/ what[1] = "think" /\ fr.f = "reasoning"
                   \/ what[1] = "call" /\ fr.f = "args" /\ Called(frames, fr.ix, what[2])
  IN {[at |-> <<0, i>>, x |-> frames[i].x] : i \in {j \in DOMAIN frames : Holds(frames[j])}}
=============================================================================
