---------------------------- MODULE Exchanges ----------------------------
(***************************************************************************)
(* The conversions of a call that is not streamed: the client's body is    *)
(* decoded to IR (pkg/codec), a lane builds its upstream's request of it,  *)
(* and on the way back the lane reads the answer and a codec encodes it.   *)
(*                                                                         *)
(* Lanes are those of Streams: "hub" (openaicompat behind hublane),        *)
(* "codex", "chat" and "responses" (copilot), "gemini" (antigravity).      *)
(* A piece of content is the place x = <<turn, position>> it was given at. *)
(***************************************************************************)
EXTENDS Integers, Sequences, FiniteSets, SequencesExt

VARIABLES
  who,    \* [client, lane, echo]: whose call, through which lane, with EchoReasoning or not
  stage,  \* "asked", "decoded", then "sent" or "refused"; "answered", "read", "encoded"
  given,  \* what the client asked, or the upstream answered
  ir,     \* the IR in between
  made    \* what comes out at the other end

exchangeVars == <<who, stage, given, ir, made>>

NoId == 0
Nothing == [none |-> TRUE]

Part(kind, x, id) == [kind |-> kind, x |-> x, id |-> id, name |-> NoId, marked |-> FALSE]
TurnOf(role, parts) == [role |-> role, parts |-> parts]
If(condition, seq) == IF condition THEN seq ELSE <<>>
Without(parts, kinds) == SelectSeq(parts, LAMBDA p : p.kind \notin kinds)
OfKind(parts, kind) == SelectSeq(parts, LAMBDA p : p.kind = kind)

-----------------------------------------------------------------------------
(***************************************************************************)
(* What clients ask.  A conversation has a prompt, perhaps an answer with  *)
(* calls, and then their results, with some text before or after them.     *)
(* OpenAI puts each result in a message of its own; Anthropic has them in  *)
(* one user turn, may mark one block for caching, and knows blocks that    *)
(* the decoder does not.                                                   *)
(***************************************************************************)
Shapes(client) ==
  [system : IF client = "openai" THEN {"", "system", "developer"} ELSE {"", "system"},
   extra  : {"", "image", "document"},
   answer : {"", "text", "think"},    \* what stands before the calls
   calls  : 0..2,
   more   : IF client = "openai" THEN {"", "after"} ELSE {"", "before", "after"}]

Conversation(client, s) ==
  LET prompt == <<Part("text", <<2, 1>>, NoId)>> \o If(s.extra # "", <<Part(s.extra, <<2, 2>>, NoId)>>)
      answer == If(s.answer # "", <<Part(s.answer, <<3, 1>>, NoId)>>)
                \o [k \in 1..s.calls |-> Part("call", <<3, 1 + k>>, k)]
      results == [k \in 1..s.calls |-> Part("result", <<4, 1 + k>>, k)]
      text(n) == <<Part("text", <<4, n>>, NoId)>>
  IN If(s.system # "", <<TurnOf(s.system, <<Part("text", <<1, 1>>, NoId)>>)>>)
     \o <<TurnOf("user", prompt)>>
     \o If(answer # <<>>, <<TurnOf("assistant", answer)>>)
     \o (IF client = "openai"
         THEN [k \in 1..s.calls |-> TurnOf("tool", <<results[k]>>)]
              \o If(s.more = "after", <<TurnOf("user", text(4))>>)
         ELSE If(s.calls > 0 \/ s.more # "",
                 <<TurnOf("user", If(s.more = "before", text(1)) \o results \o If(s.more = "after", text(4)))>>))

PartsOf(turns) == FlattenSeq([i \in DOMAIN turns |-> turns[i].parts])
Marking(turns, x) ==
  LET marking(parts) == [j \in DOMAIN parts |-> [parts[j] EXCEPT !.marked = parts[j].x = x]]
  IN [i \in DOMAIN turns |-> TurnOf(turns[i].role, marking(turns[i].parts))]

\* The schema of a tool as the set of its nodes: the keyword a node hangs under, whether it
\* is an object, its properties and the required ones.  {} stands for no tools.
Nodes(under) ==
  [under : under, object : BOOLEAN, properties : SUBSET {"a", "b"}, required : SUBSET {"a"}]
Root == [under |-> "", object |-> TRUE, properties |-> {"a", "b"}, required |-> {"a"}]
Schemas == {{n} : n \in Nodes({""})} \cup {{Root, n} : n \in Nodes({"properties", "items", "definitions", "$defs"})}

Body(turns, tools) == [turns |-> turns, tools |-> tools]
Bodies(client) ==
  UNION {LET turns == Conversation(client, s)
             markable == IF client = "openai" THEN {} ELSE {p.x : p \in ToSet(Without(PartsOf(turns), {"think"}))}
         IN {Body(Marking(turns, x), tools) : x \in markable \cup {<<0, 0>>}, tools \in {{}, {Root}}}
         : s \in Shapes(client)}
  \cup {Body(<<TurnOf("user", <<Part("text", <<2, 1>>, NoId)>>)>>, tools) : tools \in Schemas}

-----------------------------------------------------------------------------
(***************************************************************************)
(* Decoding.                                                               *)
(***************************************************************************)
Breakpoint == Part("cache", <<0, 0>>, NoId)

\* A block that is not recognised leaves nothing, its mark neither; a mark becomes a
\* CacheControl block right after the one it stands on.
DecodeBlock(p) ==
  IF p.kind = "document" THEN <<>>
  ELSE <<[p EXCEPT !.marked = FALSE]>> \o If(p.marked, <<Breakpoint>>)

\* DecodeMessagesRequest.  Results have no name.
DecodeAnthropic(turns) ==
  [i \in DOMAIN turns |->
     [turns[i] EXCEPT !.parts = FlattenSeq([j \in DOMAIN @ |-> DecodeBlock(@[j])])]]

\* The tools of ExtraBody: []AnthropicTool here, []any of OpenAI's shape there.
AnthropicTools(tools) == IF tools = {} THEN "" ELSE "typed"
OpenAITools(tools) == IF tools = {} THEN "" ELSE "list"

\* DecodeChatCompletionRequest: the fields of a message in the decoder's order, and a result
\* with the name of its call.
DecodeOpenAI(turns) ==
  LET named(p) == IF p.kind = "result" THEN [p EXCEPT !.name = p.id] ELSE p
      decoded(parts) == OfKind(parts, "think") \o Without(parts, {"think", "call", "document"})
                        \o OfKind(parts, "call")
  IN [i \in DOMAIN turns |->
        TurnOf(IF turns[i].role = "developer" THEN "system" ELSE turns[i].role,
             [j \in DOMAIN decoded(turns[i].parts) |-> named(decoded(turns[i].parts)[j])])]

DecodeRequest ==
  /\ stage = "asked"
  /\ stage' = "decoded"
  /\ ir' = IF who.client = "openai"
           THEN [turns |-> DecodeOpenAI(given.turns), tools |-> OpenAITools(given.tools)]
           ELSE [turns |-> DecodeAnthropic(given.turns), tools |-> AnthropicTools(given.tools)]
  /\ UNCHANGED <<who, given, made>>

-----------------------------------------------------------------------------
(***************************************************************************)
(* The upstream's request: messages of [role, id, parts], where id is the  *)
(* call a tool message answers.                                            *)
(***************************************************************************)
Sent(role, id, parts) == [role |-> role, id |-> id, parts |-> parts]
Flat(turns, F(_)) == FlattenSeq([i \in DOMAIN turns |-> F(turns[i])])
Has(turn, kind) == \E i \in DOMAIN turn.parts : turn.parts[i].kind = kind

\* sanitizeReasoning.
Sanitized(turns, echo) ==
  IF echo THEN turns ELSE [i \in DOMAIN turns |-> [turns[i] EXCEPT !.parts = Without(@, {"think"})]]

\* IRToHubPrompt: a result becomes a tool message at once, the rest is gathered in cur; a mark
\* goes to the last part of target, which is cur or the tool message that came last.
MarkLast(parts) == IF parts = <<>> THEN parts ELSE [parts EXCEPT ![Len(parts)].marked = TRUE]

\* A mutant: a mark goes to the message under construction, whatever stands before it.
HubBlock_MarksCur(s, p) ==
  CASE p.kind = "cache"  -> [s EXCEPT !.cur = MarkLast(@)]
    [] p.kind = "result" -> [s EXCEPT !.tools = Append(@, Sent("tool", p.id, <<p>>)), !.target = "tool"]
    [] OTHER -> [s EXCEPT !.cur = Append(@, p), !.target = "cur"]

HubBlock(s, p) ==
  CASE p.kind = "cache" /\ s.target = "cur"  -> [s EXCEPT !.cur = MarkLast(@)]
    [] p.kind = "cache" /\ s.target = "tool" -> [s EXCEPT !.tools[Len(s.tools)].parts = MarkLast(@)]
    [] p.kind = "result" -> [s EXCEPT !.tools = Append(@, Sent("tool", p.id, <<p>>)), !.target = "tool"]
    [] OTHER -> [s EXCEPT !.cur = Append(@, p), !.target = "cur"]

HubMessages(turn) ==
  LET s == FoldLeft(HubBlock, [tools |-> <<>>, cur |-> <<>>, target |-> "cur"], turn.parts)
  IN s.tools \o If(s.cur # <<>>, <<Sent(turn.role, NoId, s.cur)>>)

\* BuildPayload (codex) and convertIRToChatMessages (copilot): one message for a turn; a turn
\* with results is a tool message for the last of them, its texts joined.  Codex keeps images
\* where there is no result.
ChatMessage(lane, turn) ==
  LET results == OfKind(turn.parts, "result")
      id == IF results = <<>> THEN NoId ELSE Last(results).id
      texts == SelectSeq(turn.parts, LAMBDA p : p.kind \in {"text", "result"})
      images == If(lane = "codex" /\ id = NoId, OfKind(turn.parts, "image"))
  IN Sent(IF id # NoId \/ (lane = "chat" /\ turn.role = "tool") THEN "tool" ELSE turn.role, id,
          texts \o images \o OfKind(turn.parts, "call"))

\* convertIRToResponsesInput: an item for each text, call and result.
ResponsesItems(turn) ==
  LET items == SelectSeq(turn.parts, LAMBDA p : p.kind \in {"text", "call", "result"})
  IN [i \in DOMAIN items |-> Sent(turn.role, IF items[i].kind = "result" THEN items[i].id ELSE NoId, <<items[i]>>)]

\* buildRequest (antigravity): the system's texts apart from the contents; a result without a
\* name is given that of its call, wherever it is (no body here has a result without a call).
GeminiMessages(turns) ==
  LET calls == {p.id : p \in ToSet(OfKind(PartsOf(turns), "call"))}
      named(p) == IF p.kind = "result" /\ p.name = NoId /\ p.id \in calls THEN [p EXCEPT !.name = p.id] ELSE p
      parts(t) == LET ps == Without(t.parts, {"cache"}) IN [j \in DOMAIN ps |-> named(ps[j])]
      systems == SelectSeq(turns, LAMBDA t : t.role = "system")
      others == SelectSeq(turns, LAMBDA t : t.role # "system")
      texts == Flat(systems, LAMBDA t : OfKind(t.parts, "text"))
  IN If(texts # <<>>, <<Sent("system", NoId, texts)>>)
     \o [i \in DOMAIN others |->
           Sent(IF others[i].role = "assistant" THEN "model" ELSE "user", NoId, parts(others[i]))]

\* ToolsFromExtra, buildRequest, extractChatTools and extractResponsesTools know lists of
\* maps; codex copies what is there.
ToolsFor(lane, tools) == IF tools = "typed" /\ lane # "codex" THEN "" ELSE tools

\* DetermineInitiator (copilot), with no override: an agent's call has a model's or a tool's
\* message behind it.
Initiator(turns) ==
  IF \E i \in DOMAIN turns : turns[i].role \in {"assistant", "tool"} \/ Has(turns[i], "call") \/ Has(turns[i], "result")
  THEN "agent" ELSE "user"

Request(lane, echo, decoded) ==
  LET turns == decoded.turns IN
  [messages |->
     CASE lane = "hub" -> Flat(Sanitized(turns, echo), HubMessages)
       [] lane \in {"codex", "chat"} -> [i \in DOMAIN turns |-> ChatMessage(lane, turns[i])]
       [] lane = "responses" -> Flat(turns, ResponsesItems)
       [] lane = "gemini" -> GeminiMessages(turns),
   tools |-> ToolsFor(lane, decoded.tools),
   initiator |-> IF lane \in {"chat", "responses"} THEN Initiator(turns) ELSE ""]

\* Keywords Google does not know are stripped with what hangs under them, "$defs" among them.
SanitizeGoogleSchema(schema) == {n \in schema : n.under # "$defs"}

ValidateToolSchema(schema) ==
  \A n \in schema : n.properties \cup n.required # {} => n.object /\ n.required \subseteq n.properties

Refusable ==
  who.lane = "gemini" /\ ToolsFor("gemini", ir.tools) # ""
  /\ ~ValidateToolSchema(SanitizeGoogleSchema(given.tools))

BuildRequest ==
  /\ stage = "decoded" /\ ~Refusable
  /\ stage' = "sent"
  /\ made' = Request(who.lane, who.echo, ir)
  /\ UNCHANGED <<who, given, ir>>

RefuseTools ==
  /\ stage = "decoded" /\ Refusable
  /\ stage' = "refused"
  /\ UNCHANGED <<who, given, ir, made>>

-----------------------------------------------------------------------------
(***************************************************************************)
(* Answers.  parts in the upstream's order; finish is what it says of the  *)
(* end, "" when it says nothing; twins: its two calls say the same.  An    *)
(* answer of codex and of copilot's chat API is a message of fields: a     *)
(* text, then calls.                                                       *)
(***************************************************************************)
Orders(lane) ==
  LET count(s, kind) == Cardinality({i \in DOMAIN s : s[i] = kind})
      fields == {text \o calls : text \in {<<>>, <<"text">>},
                                 calls \in {<<>>, <<"call">>, <<"call", "call">>}}
  IN IF lane \in {"codex", "chat"} THEN fields
     ELSE {s \in UNION {[1..n -> {"text", "think", "call"}] : n \in 0..3} : count(s, "call") <= 2}

Ends(lane, order) ==
  {"stop", "length"} \cup (IF lane = "responses" THEN {} ELSE {""})
  \cup (IF lane \in {"hub", "codex", "chat"} /\ "call" \in ToSet(order) THEN {"tool_calls"} ELSE {})

Answers(lane) ==
  UNION {{[parts |-> [i \in DOMAIN order |->
                        Part(order[i], <<1, i>>,
                             IF order[i] = "call" THEN Cardinality({j \in 1..i : order[j] = "call"}) ELSE NoId)],
           finish |-> finish, twins |-> twins]
          : finish \in Ends(lane, order),
            twins \in (IF Cardinality({i \in DOMAIN order : order[i] = "call"}) = 2 THEN BOOLEAN ELSE {FALSE})}
         : order \in Orders(lane)}

\* What the lane says of the end: HubResponseToIR passes the raw answer's word on, antigravity
\* makes a stop with calls "tool_calls", TranslateResponsesJSONToResponse says "stop" of every
\* completed answer.
LaneFinish(lane, answer) ==
  LET hasCalls == OfKind(answer.parts, "call") # <<>> IN
  CASE lane = "gemini" -> IF answer.finish = "length" THEN "max_tokens"
                          ELSE IF hasCalls THEN "tool_calls" ELSE "stop"
    [] lane = "responses" -> IF answer.finish = "length" THEN "incomplete" ELSE "stop"
    [] OTHER -> answer.finish

\* A call of gemini has no id: its id is a hash of what it says.
Hashed(answer) ==
  [i \in DOMAIN answer.parts |->
     IF answer.twins /\ answer.parts[i].id # NoId THEN [answer.parts[i] EXCEPT !.id = 1] ELSE answer.parts[i]]

\* The blocks of the IR: reasoning first behind the hub, and dropped unless the provider
\* echoes it (filterReasoningResponse).
Read(lane, echo, answer) ==
  [parts |->
     CASE lane = "hub" -> If(echo, OfKind(answer.parts, "think")) \o Without(answer.parts, {"think"})
       [] lane = "gemini" -> Hashed(answer)
       [] OTHER -> answer.parts,
   finish |-> LaneFinish(lane, answer)]

ReadReply ==
  /\ stage = "answered"
  /\ stage' = "read"
  /\ ir' = Read(who.lane, who.echo, given)
  /\ UNCHANGED <<who, given, made>>

\* A mutant: the upstream's word decides.
EncodeOpenAI_TrustsFinish(reply) ==
  [parts |-> OfKind(reply.parts, "text") \o OfKind(reply.parts, "think") \o OfKind(reply.parts, "call"),
   finish |-> CASE reply.finish = "" -> "stop"
                [] reply.finish = "max_tokens" -> "length"
                [] OTHER -> reply.finish]

\* EncodeChatCompletionResponse: calls decide the finish reason.
EncodeOpenAI(reply) ==
  [parts |-> OfKind(reply.parts, "text") \o OfKind(reply.parts, "think") \o OfKind(reply.parts, "call"),
   finish |-> IF OfKind(reply.parts, "call") # <<>> THEN "tool_calls"
              ELSE CASE reply.finish = "" -> "stop"
                     [] reply.finish = "max_tokens" -> "length"
                     [] OTHER -> reply.finish]

\* EncodeMessagesResponse: the lane's word decides, and the last block where there is none.
EncodeAnthropic(reply) ==
  [parts |-> reply.parts,
   finish |-> CASE reply.finish = "stop" -> "end_turn"
                [] reply.finish = "tool_calls" -> "tool_use"
                [] reply.finish = "length" -> "max_tokens"
                [] reply.finish = "" ->
                     IF reply.parts # <<>> /\ Last(reply.parts).kind = "call" THEN "tool_use" ELSE "end_turn"
                [] OTHER -> reply.finish]

EncodeReply ==
  /\ stage = "read"
  /\ stage' = "encoded"
  /\ made' = IF who.client = "openai" THEN EncodeOpenAI(ir) ELSE EncodeAnthropic(ir)
  /\ UNCHANGED <<who, given, ir>>

-----------------------------------------------------------------------------
Exchanging ==
  {[client |-> client, lane |-> lane, echo |-> echo] :
     client \in {"openai", "anthropic"}, lane \in {"hub", "codex", "chat", "responses", "gemini"}, echo \in BOOLEAN}

ExchangeInit ==
  /\ who \in {w \in Exchanging : w.echo => w.lane = "hub"}
  /\ \/ stage = "asked" /\ given \in Bodies(who.client)
     \/ stage = "answered" /\ given \in Answers(who.lane)
  /\ ir = Nothing /\ made = Nothing

ExchangeNext == DecodeRequest \/ BuildRequest \/ RefuseTools \/ ReadReply \/ EncodeReply

ExchangeSpec == ExchangeInit /\ [][ExchangeNext]_exchangeVars

-----------------------------------------------------------------------------
\* The kinds of content a lane has a place for.
Carried ==
  {"text", "call", "result"}
  \cup (IF who.lane \in {"hub", "codex", "gemini"} THEN {"image"} ELSE {})
  \cup (IF who.lane = "gemini" \/ who.echo THEN {"think"} ELSE {})

\* A turn of which the chat APIs' one tool message is not enough: several results, or a
\* result and text.
Merged(turn) == who.lane \in {"codex", "chat"} /\ Has(turn, "result") /\ Len(turn.parts) > 1

Roles == [system |-> "system", developer |-> "system", user |-> "user", assistant |-> "assistant", tool |-> "tool"]

SentParts == PartsOf(made.messages)

\* Each piece arrives once, a call and a result with its id, a mark on the block it stood on
\* behind the hub, and a result under its call's name at gemini.
PiecesArrive ==
  \A kind \in Carried :
    LET asked == OfKind(PartsOf(given.turns), kind)
        got == OfKind(SentParts, kind)
    IN /\ [i \in DOMAIN got |-> <<got[i].x, got[i].id>>] = [i \in DOMAIN asked |-> <<asked[i].x, asked[i].id>>]
       /\ who.lane = "hub" => \A i \in DOMAIN got : got[i].marked = asked[i].marked
       /\ who.lane = "gemini" => \A i \in DOMAIN got : kind = "result" => got[i].name = got[i].id

\* Nothing else arrives, and nothing of a later turn before something of an earlier one.
TurnsInOrder ==
  /\ \A p \in ToSet(SentParts) : p.kind \in Carried
  /\ \A i, j \in DOMAIN SentParts : i < j => SentParts[i].x[1] <= SentParts[j].x[1]

\* A text is said in the role it was given in, unless a tool message took it.
RolesKept ==
  \A t \in ToSet(given.turns), m \in ToSet(made.messages) :
    \A p \in ToSet(OfKind(t.parts, "text")), q \in ToSet(m.parts) :
      p.x = q.x /\ ~Merged(t) =>
        m.role = (IF who.lane = "gemini" /\ t.role = "assistant" THEN "model" ELSE Roles[t.role])

\* Where results are messages of their own they follow the calls at once, each for its call,
\* and no text comes between.
CallsAnswered ==
  who.lane \in {"hub", "codex", "chat"} /\ (\A t \in ToSet(given.turns) : ~Merged(t)) =>
    \A i \in DOMAIN made.messages :
      LET calls == OfKind(made.messages[i].parts, "call") IN
        \A k \in DOMAIN calls :
          /\ made.messages[i + k].role = "tool"
          /\ made.messages[i + k].id = calls[k].id
          /\ [j \in DOMAIN made.messages[i + k].parts |-> made.messages[i + k].parts[j].id] = <<calls[k].id>>

\* What a client asks arrives at the upstream of any lane: every piece the lane has a place
\* for, once, in its turn and role, with the ids that tie results to calls; a cached prefix
\* ends where the client said.  (Two codecs, five builders and their reorderings.)
RequestArrives ==
  stage = "sent" => PiecesArrive /\ TurnsInOrder /\ RolesKept /\ CallsAnswered

PlacesOf(parts, kind) == [i \in DOMAIN OfKind(parts, kind) |-> OfKind(parts, kind)[i].x]
CalledIds(parts) == {p.id : p \in ToSet(OfKind(parts, "call"))}

\* An Anthropic client is not told of a call when the lane says "stop" of an answer with calls
\* (the Responses API always), or says nothing and the call is not last.
Untold ==
  /\ who.client = "anthropic"
  /\ \/ who.lane # "gemini" /\ ir.finish = "stop"
     \/ ir.finish = "" /\ Last(ir.parts).kind # "call"

\* What an upstream answers arrives at the client: text, calls, and the reasoning the lane
\* reads, in order; two calls with two ids, but for gemini's that say the same; the client is
\* told to run calls if there are any and never if there are none; and an answer that was cut
\* short is not called complete.
ReplyArrives ==
  stage = "encoded" =>
    LET calls == OfKind(given.parts, "call")
        tells == made.finish \in {"tool_calls", "tool_use"}
        cut == given.finish = "length"
    IN /\ \A kind \in {"text", "call"} : PlacesOf(made.parts, kind) = PlacesOf(given.parts, kind)
       /\ PlacesOf(made.parts, "think")
            = (IF who.lane = "hub" /\ ~who.echo THEN <<>> ELSE PlacesOf(given.parts, "think"))
       /\ ~(who.lane = "gemini" /\ given.twins) => Cardinality(CalledIds(made.parts)) = Len(calls)
       /\ tells => calls # <<>>
       /\ calls # <<>> /\ ~cut /\ ~Untold => tells
       /\ cut => made.finish \notin {"stop", "end_turn"}

-----------------------------------------------------------------------------
\* What the sources say of it and the code does not do.

\* "tools against a lane without tool support is a 409", and otherwise passed through
\* (README:334, README:30): the tools of a client are in the request its lane makes.
ToolsArrive == stage = "sent" /\ given.tools # {} => made.tools # ""
=============================================================================
