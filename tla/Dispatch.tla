---------------------------- MODULE Dispatch ----------------------------
(***************************************************************************)
(* One proxy serving requests for one model: dispatchRequest               *)
(* (pkg/server/handlers.go) with the router it asks before every attempt,  *)
(* the operator who changes the catalog, the kill switch and the set of    *)
(* lanes while requests run, and the telemetry log that takes the rows     *)
(* (TelemetryLog, which TelemetryWriter implements).                       *)
(*                                                                         *)
(* A request id stands for its dispatch.  A dispatch offers its records to *)
(* the writer one by one, and other goroutines run between two of them:    *)
(* outbox holds the ones it is about to offer.                             *)
(***************************************************************************)
EXTENDS TelemetryLog, FiniteSets

CONSTANTS
  Lanes,       \* provider lanes the operator may register
  Serving,     \* those with an InferenceProvider
  ToolLanes,   \* those whose Capabilities.Tools is set
  PrefixLane,  \* the lane the model's "<lane>/" prefix names, or NoLane
  NoLane,
  Modes,       \* a subset of {"stream", "unary"}
  MaxChanges   \* bound: changes the operator makes

ASSUME DispatchAssumption ==
  /\ IsFiniteSet(Lanes) /\ Serving \subseteq Lanes /\ ToolLanes \subseteq Lanes
  /\ NoLane \notin Lanes /\ PrefixLane \in Lanes \cup {NoLane}
  /\ Modes \subseteq {"stream", "unary"}
  /\ Bodies = {"in_flight", "complete", "failed"}
  /\ ChildRows = Lanes \cup {"usage"} /\ Lanes \cap {"usage", "unknown", "unavailable"} = {}
  /\ MaxChanges \in Nat

VARIABLES
  alias,       \* the lane the catalog maps the model to, or NoLane
  disabled,    \* the model's state row is disabled
  registered,  \* the lanes in the registry
  changes,
  dpc,         \* where each dispatch is
  mode,        \* streaming or not
  tools,       \* toolsRequested
  attempts,    \* attemptCount
  limit,       \* maxAttempts
  excluded,    \* failedProviders
  lane,        \* provName
  opened,      \* requestOpened
  tracked,     \* requestTracked
  outbox,      \* records about to be offered to the writer, in order
  committed,   \* the lane whose stream got its headers, or NoLane
  hasUsage,    \* lastUsage # nil, or the response carries usage
  failed,      \* errorClass # "" or deliveryFailed
  client,      \* whether the client reads, stays and reads no more, or left (r.Context())
  answer,      \* history: what the client received
  sent,        \* history: the records of each dispatch the log took, in order
  unopened     \* history: requests one of whose own rows the log refused

planeVars == <<alias, disabled, registered, changes>>
loopVars  == <<mode, tools, limit>>
bookVars  == <<opened, tracked, outbox>>
sendVars  == <<committed, hasUsage, failed, answer>>
histVars  == <<sent, unopened>>
dispatchVars == <<dpc, attempts, excluded, lane, loopVars, bookVars, sendVars, client, histVars>>
vars == <<logVars, planeVars, dispatchVars>>

DispatchPcs == {"new", "route", "lookup", "call", "stream", "encode", "done"}
\* Of a stream, "sofar": every event up to now; "partial": one was missed, or an
\* error frame came instead; "cut": its lane closed it before the upstream was done.
Answers == {"nothing", "error", "sofar", "whole", "cut", "partial"}
Clients == {"reading", "stalled", "gone"}

Init ==
  /\ LogInit
  /\ alias \in Lanes \cup {NoLane} /\ disabled = FALSE
  /\ registered = Lanes /\ changes = 0
  /\ dpc = [q \in Requests |-> "new"]
  /\ mode \in [Requests -> Modes] /\ tools \in [Requests -> BOOLEAN]
  /\ attempts = [q \in Requests |-> 0] /\ limit = [q \in Requests |-> 0]
  /\ excluded = [q \in Requests |-> {}]
  /\ lane = [q \in Requests |-> NoLane]
  /\ opened = [q \in Requests |-> FALSE] /\ tracked = [q \in Requests |-> FALSE]
  /\ outbox = [q \in Requests |-> <<>>]
  /\ committed = [q \in Requests |-> NoLane]
  /\ hasUsage = [q \in Requests |-> FALSE] /\ failed = [q \in Requests |-> FALSE]
  /\ client = [q \in Requests |-> "reading"]
  /\ answer = [q \in Requests |-> "nothing"]
  /\ sent = [q \in Requests |-> <<>>] /\ unopened = {}

-----------------------------------------------------------------------------
(***************************************************************************)
(* The operator.                                                           *)
(***************************************************************************)
Change ==
  /\ changes < MaxChanges
  /\ changes' = changes + 1
  /\ \/ alias' \in (Lanes \cup {NoLane}) \ {alias} /\ UNCHANGED <<disabled, registered>>
     \/ disabled' = ~disabled /\ UNCHANGED <<alias, registered>>
     \/ \E l \in Lanes : registered' = registered \cup {l} /\ l \notin registered
        /\ UNCHANGED <<alias, disabled>>
     \/ \E l \in registered : registered' = registered \ {l} /\ UNCHANGED <<alias, disabled>>
  /\ UNCHANGED <<logVars, dispatchVars>>

Unknown == "unknown"
Unavailable == "unavailable"

\* RegistryRouter.Route: the kill switch, the alias, the prefix.
RouteTo(without) ==
  IF disabled THEN Unknown
  ELSE IF registered = {} THEN Unavailable
  ELSE IF alias # NoLane
       THEN IF alias \in registered \ without THEN alias ELSE Unavailable
  ELSE IF PrefixLane \in registered
       THEN IF PrefixLane \in without THEN Unavailable ELSE PrefixLane
  ELSE Unknown

-----------------------------------------------------------------------------
(***************************************************************************)
(* Telemetry of a dispatch.                                                *)
(***************************************************************************)
RequestRow(q, outcome) == [kind |-> "request", req |-> q, body |-> outcome]
ChildRow(q, what) == [kind |-> "child", req |-> q, body |-> what]

\* Mutant: the request row is not opened before its children.
Opening_Never(q) == <<>>

\* openRequestRow: the row is marked as opened whatever the queue says to it.
Opening(q) == IF opened[q] THEN <<>> ELSE << RequestRow(q, "in_flight") >>

\* Mutant: the row is opened after its children.
Book_OpensLast(q, records) ==
  /\ outbox' = [outbox EXCEPT ![q] = records \o Opening(q)]
  /\ opened' = [opened EXCEPT ![q] = TRUE]

Book(q, records) ==
  /\ outbox' = [outbox EXCEPT ![q] = Opening(q) \o records]
  /\ opened' = [opened EXCEPT ![q] = TRUE]

TrackAttempt(q) ==
  /\ Book(q, << ChildRow(q, lane[q]) >>)
  /\ UNCHANGED tracked

\* The usage row of the request, if there is one.
Usage(q) == IF hasUsage[q] THEN << ChildRow(q, "usage") >> ELSE <<>>

\* recordRequest, after trackUsage on the paths that have usage to report.
RecordRequest(q, before, outcome) ==
  /\ Book(q, before \o (IF tracked[q] THEN <<>> ELSE << RequestRow(q, outcome) >>))
  /\ tracked' = [tracked EXCEPT ![q] = TRUE]

Goto(q, where) == dpc' = [dpc EXCEPT ![q] = where]
Answer(q, what) == answer' = [answer EXCEPT ![q] = what]

Gone(q) == client[q] = "gone"

\* A write to a client that reads no more does not return while the client stays:
\* the server sets no WriteTimeout.
CanWrite(q) == client[q] # "stalled"

\* A step of the dispatch itself, when it has nothing left to offer.
At(q, where) == dpc[q] = where /\ outbox[q] = <<>>

\* The log takes the next record.
Taken(q) ==
  /\ outbox[q] # <<>>
  /\ LogAdmit(Head(outbox[q]))
  /\ sent' = [sent EXCEPT ![q] = Append(@, Head(outbox[q]))]
  /\ UNCHANGED unopened

\* The record is dropped: the queue is full or closed.
Dropped(q) ==
  /\ outbox[q] # <<>>
  /\ LogRefuse(Head(outbox[q]))
  /\ unopened' = IF Head(outbox[q]).kind = "request" THEN unopened \cup {q} ELSE unopened
  /\ UNCHANGED sent

\* Mutant: a record that finds the queue full waits for room.
Offered_Blocking(q) == Taken(q)

Offered(q) == Taken(q) \/ Dropped(q)

\* The next record is offered; the dispatch goes on either way.
Offer(q) ==
  /\ Offered(q)
  /\ outbox' = [outbox EXCEPT ![q] = Tail(@)]
  /\ UNCHANGED <<planeVars, dpc, attempts, excluded, lane, loopVars, opened, tracked,
                 sendVars, client>>

-----------------------------------------------------------------------------
(***************************************************************************)
(* The attempt loop.                                                       *)
(***************************************************************************)

\* The least value of maxAttempts.
LeastAttempts == 3

Start(q) ==
  /\ dpc[q] = "new"
  /\ Goto(q, "route")
  /\ limit' = [limit EXCEPT ![q] =
       IF Cardinality(registered) > LeastAttempts THEN Cardinality(registered)
       ELSE LeastAttempts]
  /\ UNCHANGED <<logVars, planeVars, attempts, excluded, lane, mode, tools, bookVars,
                 sendVars, client, histVars>>

\* Mutant: one attempt too many.
MoreAttempts_OffByOne(q) == attempts[q] <= limit[q]

MoreAttempts(q) == attempts[q] < limit[q]

\* A lane is found: look it up in the registry.
Routed(q) ==
  /\ At(q, "route") /\ MoreAttempts(q)
  /\ attempts' = [attempts EXCEPT ![q] = @ + 1]
  /\ RouteTo(excluded[q]) \in Lanes
  /\ lane' = [lane EXCEPT ![q] = RouteTo(excluded[q])]
  /\ Goto(q, "lookup")
  /\ UNCHANGED <<logVars, planeVars, excluded, loopVars, bookVars, sendVars, client, histVars>>

\* Unknown or disabled model: 404, and nothing is recorded.
RouteUnknown(q) ==
  /\ At(q, "route") /\ MoreAttempts(q)
  /\ attempts' = [attempts EXCEPT ![q] = @ + 1]
  /\ RouteTo(excluded[q]) = Unknown
  /\ Answer(q, "error") /\ Goto(q, "done")
  /\ UNCHANGED <<logVars, planeVars, excluded, lane, loopVars, bookVars,
                 committed, hasUsage, failed, client, histVars>>

\* No lane left: the row is closed if an attempt opened it.
RouteUnavailable(q) ==
  /\ At(q, "route") /\ MoreAttempts(q)
  /\ attempts' = [attempts EXCEPT ![q] = @ + 1]
  /\ RouteTo(excluded[q]) = Unavailable
  /\ IF opened[q] THEN RecordRequest(q, <<>>, "failed") ELSE UNCHANGED bookVars
  /\ Answer(q, "error") /\ Goto(q, "done")
  /\ UNCHANGED <<logVars, planeVars, excluded, lane, loopVars,
                 committed, hasUsage, failed, client, histVars>>

\* maxAttempts attempts failed.
AllFailed(q) ==
  /\ At(q, "route") /\ ~MoreAttempts(q)
  /\ RecordRequest(q, <<>>, "failed")
  /\ Answer(q, "error") /\ Goto(q, "done")
  /\ UNCHANGED <<logVars, planeVars, attempts, excluded, lane, loopVars,
                 committed, hasUsage, failed, client, histVars>>

\* Mutant: the lane is not excluded from the next attempt.
Exclude_Not(q) == UNCHANGED excluded

Exclude(q) == excluded' = [excluded EXCEPT ![q] = @ \cup {lane[q]}]

Available(l) == l \in registered \cap Serving

\* The lane was removed since Route named it, or serves no inference.
LookupMiss(q) ==
  /\ At(q, "lookup") /\ ~Available(lane[q])
  /\ Exclude(q) /\ Goto(q, "route")
  /\ UNCHANGED <<logVars, planeVars, attempts, lane, loopVars, bookVars, sendVars,
                 client, histVars>>

\* The lane has no tool calls: 409, and nothing is recorded.
ToolsRefused(q) ==
  /\ At(q, "lookup") /\ Available(lane[q])
  /\ tools[q] /\ lane[q] \notin ToolLanes
  /\ Answer(q, "error") /\ Goto(q, "done")
  /\ UNCHANGED <<logVars, planeVars, attempts, excluded, lane, loopVars, bookVars,
                 committed, hasUsage, failed, client, histVars>>

Call(q) ==
  /\ At(q, "lookup") /\ Available(lane[q])
  /\ tools[q] => lane[q] \in ToolLanes
  /\ Goto(q, "call")
  /\ UNCHANGED <<logVars, planeVars, attempts, excluded, lane, loopVars, bookVars,
                 sendVars, client, histVars>>

\* The call fails, or the stream ends or fails before its first event: the
\* attempt is recorded and another lane may be tried.
CallFailed(q) ==
  /\ At(q, "call")
  /\ TrackAttempt(q)
  /\ Exclude(q) /\ Goto(q, "route")
  /\ UNCHANGED <<logVars, planeVars, attempts, lane, loopVars, sendVars, client, histVars>>

-----------------------------------------------------------------------------
(***************************************************************************)
(* A streaming answer.                                                     *)
(***************************************************************************)

\* The client left while the first event was awaited.
GoneBeforeFirst(q) ==
  /\ At(q, "call") /\ mode[q] = "stream" /\ Gone(q)
  /\ RecordRequest(q, <<>>, "failed")
  /\ Goto(q, "done")
  /\ UNCHANGED <<logVars, planeVars, attempts, excluded, lane, loopVars, sendVars,
                 client, histVars>>

\* The first event: the headers are sent, then the event, which may not be
\* encodable.  A usage event in this place is not remembered.
FirstEvent(q) ==
  /\ At(q, "call") /\ mode[q] = "stream"
  /\ committed' = [committed EXCEPT ![q] = lane[q]]
  /\ TrackAttempt(q)
  /\ \E encoded \in BOOLEAN :
       /\ failed' = [failed EXCEPT ![q] = ~encoded]
       /\ Answer(q, IF encoded THEN "sofar" ELSE "partial")
  /\ Goto(q, "stream")
  /\ UNCHANGED <<logVars, planeVars, attempts, excluded, lane, loopVars, hasUsage,
                 client, histVars>>

\* Mutant: a client that hung up does not fail the delivery.
Delivered_IgnoresClient(q, encoded) == ~failed[q] /\ encoded

\* Whether the next event reaches the client: once one did not, none does.
Delivered(q, encoded) == ~failed[q] /\ ~Gone(q) /\ encoded

\* One more event.  The usage events are cumulative: the last one counts.  Once one was
\* not delivered they are only taken from the channel.
NextEvent(q) ==
  /\ At(q, "stream") /\ (failed[q] \/ CanWrite(q))
  /\ \E usage, encoded \in BOOLEAN :
       /\ hasUsage' = [hasUsage EXCEPT ![q] = @ \/ usage]
       /\ failed' = [failed EXCEPT ![q] = ~Delivered(q, encoded)]
       /\ Answer(q, IF ~failed[q] /\ ~Gone(q) /\ encoded THEN answer[q] ELSE "partial")
  /\ UNCHANGED <<logVars, planeVars, dpc, attempts, excluded, lane, loopVars, bookVars,
                 committed, client, histVars>>

\* The stream ended, by itself or with an error frame; the encoder is closed.
\* The row claims a complete stream only when nothing failed it.
Terminate(q, error, closes) ==
  LET whole == ~error /\ closes /\ ~failed[q] IN
  /\ RecordRequest(q, Usage(q), IF whole THEN "complete" ELSE "failed")
  /\ Goto(q, "done")

\* The channel is closed; how says what the client has then, if it missed nothing.
Closed(q, how) ==
  /\ At(q, "stream") /\ CanWrite(q)
  /\ \E closes \in BOOLEAN :
       /\ Terminate(q, FALSE, closes)
       /\ Answer(q, IF answer[q] = "sofar" /\ closes THEN how ELSE "partial")
  /\ UNCHANGED <<logVars, planeVars, attempts, excluded, lane, loopVars,
                 committed, hasUsage, failed, client, histVars>>

EndOfStream(q) == Closed(q, "whole")

\* The request's context is done, by the lane's timeout or because the client left:
\* StreamBridge and filterReasoningStream close the channel and say nothing of it.
StreamCut(q) == Closed(q, "cut")

\* Mutant: an error in mid-stream is met with another lane.
MidStreamError_Failover(q) ==
  /\ At(q, "stream") /\ CanWrite(q)
  /\ Exclude(q) /\ Goto(q, "route")
  /\ UNCHANGED <<logVars, planeVars, attempts, lane, loopVars, bookVars, sendVars,
                 client, histVars>>

MidStreamError(q) ==
  /\ At(q, "stream") /\ CanWrite(q)
  /\ Terminate(q, TRUE, TRUE)
  /\ Answer(q, "partial")
  /\ UNCHANGED <<logVars, planeVars, attempts, excluded, lane, loopVars,
                 committed, hasUsage, failed, client, histVars>>

-----------------------------------------------------------------------------
(***************************************************************************)
(* A single answer.                                                        *)
(***************************************************************************)
Generated(q) ==
  /\ At(q, "call") /\ mode[q] = "unary"
  /\ \E usage \in BOOLEAN :
       /\ Book(q, << ChildRow(q, lane[q]) >>
                  \o (IF usage THEN << ChildRow(q, "usage") >> ELSE <<>>))
       /\ hasUsage' = [hasUsage EXCEPT ![q] = usage]
  /\ Goto(q, "encode")
  /\ UNCHANGED <<logVars, planeVars, attempts, excluded, lane, loopVars, tracked,
                 committed, failed, answer, client, histVars>>

EncodeFailed(q) ==
  /\ At(q, "encode") /\ CanWrite(q)
  /\ RecordRequest(q, <<>>, "failed")
  /\ Answer(q, "error") /\ Goto(q, "done")
  /\ UNCHANGED <<logVars, planeVars, attempts, excluded, lane, loopVars,
                 committed, hasUsage, failed, client, histVars>>

\* Writing to a client that left may fail.
WriteFailed(q) ==
  /\ At(q, "encode") /\ Gone(q)
  /\ RecordRequest(q, <<>>, "failed")
  /\ Answer(q, "partial") /\ Goto(q, "done")
  /\ UNCHANGED <<logVars, planeVars, attempts, excluded, lane, loopVars,
                 committed, hasUsage, failed, client, histVars>>

Written(q) ==
  /\ At(q, "encode") /\ CanWrite(q)
  /\ RecordRequest(q, <<>>, "complete")
  /\ Answer(q, "whole") /\ Goto(q, "done")
  /\ UNCHANGED <<logVars, planeVars, attempts, excluded, lane, loopVars,
                 committed, hasUsage, failed, client, histVars>>

-----------------------------------------------------------------------------
\* The client stays and reads no more, and what it was sent fills the connection.
Stall(q) ==
  /\ client[q] = "reading" /\ dpc[q] \in {"stream", "encode"}
  /\ client' = [client EXCEPT ![q] = "stalled"]
  /\ UNCHANGED <<logVars, planeVars, dpc, attempts, excluded, lane, loopVars, bookVars,
                 sendVars, histVars>>

\* The client hangs up: what is being written to it fails.
HangUp(q) ==
  /\ ~Gone(q) /\ dpc[q] \notin {"new", "done"}
  /\ client' = [client EXCEPT ![q] = "gone"]
  /\ UNCHANGED <<logVars, planeVars, dpc, attempts, excluded, lane, loopVars, bookVars,
                 sendVars, histVars>>

\* What the upstream alone decides.
UpstreamEnds(q) == CallFailed(q) \/ EndOfStream(q) \/ StreamCut(q)

Proceed(q) ==
  \/ Offer(q)
  \/ Routed(q) \/ RouteUnknown(q) \/ RouteUnavailable(q) \/ AllFailed(q)
  \/ LookupMiss(q) \/ ToolsRefused(q) \/ Call(q)
  \/ EncodeFailed(q) \/ WriteFailed(q) \/ Written(q)

Serve(q) ==
  \/ Start(q) \/ Proceed(q) \/ UpstreamEnds(q)
  \/ GoneBeforeFirst(q) \/ FirstEvent(q) \/ NextEvent(q) \/ MidStreamError(q)
  \/ Generated(q)
  \/ Stall(q) \/ HangUp(q)

Next ==
  \/ \E q \in Requests : Serve(q)
  \/ Change
  \/ (LogApply \/ \E c \in Closers : LogStartClose(c) \/ LogFinishClose(c)) /\ UNCHANGED <<planeVars, dispatchVars>>

Spec == Init /\ [][Next]_vars

\* A dispatch runs in a goroutine of its own and never blocks on the writer; the
\* timeout of the lane ends every call and every stream.  Nothing is assumed of the
\* client.
Fairness == \A q \in Requests : WF_vars(Proceed(q)) /\ WF_vars(UpstreamEnds(q))
FairSpec == Spec /\ Fairness

-----------------------------------------------------------------------------
TypeOK ==
  /\ pending \in Seq(Records) /\ Len(pending) <= Cap + BatchSize
  /\ closed \in BOOLEAN /\ lossy \in BOOLEAN
  /\ closer \in [Closers -> {"idle", "waiting", "flushed", "failed", "noop"}]
  /\ rows \in [Requests -> Bodies \cup {Absent}]
  /\ children \subseteq Records
  /\ alias \in Lanes \cup {NoLane} /\ disabled \in BOOLEAN
  /\ registered \subseteq Lanes /\ changes \in 0..MaxChanges
  /\ dpc \in [Requests -> DispatchPcs]
  /\ mode \in [Requests -> Modes] /\ tools \in [Requests -> BOOLEAN]
  /\ attempts \in [Requests -> Nat] /\ limit \in [Requests -> Nat]
  /\ \A q \in Requests : attempts[q] <= limit[q]
  /\ excluded \in [Requests -> SUBSET Lanes]
  /\ lane \in [Requests -> Lanes \cup {NoLane}]
  /\ opened \in [Requests -> BOOLEAN] /\ tracked \in [Requests -> BOOLEAN]
  /\ outbox \in [Requests -> Seq(Records)]
  /\ committed \in [Requests -> Lanes \cup {NoLane}]
  /\ hasUsage \in [Requests -> BOOLEAN] /\ failed \in [Requests -> BOOLEAN]
  /\ client \in [Requests -> Clients]
  /\ answer \in [Requests -> Answers]
  /\ sent \in [Requests -> Seq(Records)] /\ unopened \subseteq Requests

\* A dispatch never counts a lane's attempt or its usage twice: no lane is tried
\* again after it failed, and one usage row stands for the whole stream.
NoDoubleCount ==
  \A q \in Requests : \A i, j \in DOMAIN sent[q] :
    i # j /\ sent[q][i].kind = "child" => sent[q][i] # sent[q][j]

\* Attempts and usage follow the row they refer to through the queue, so that the
\* writer meets the parent first in whatever batches it cuts; unless the queue
\* refused that row.
ParentFirst ==
  \A q \in Requests \ unopened :
    sent[q] # <<>> => sent[q][1].kind = "request"

\* The table says of a request that it is complete only when every event of its lane
\* was handed to the client in time: no encode failure, no hang-up and no error frame
\* in mid-stream is ever recorded as a success, whichever came first.
CompleteMeansDelivered ==
  \A q \in Requests : rows[q] = "complete" => answer[q] \in {"whole", "cut"}

\* The first byte binds a request to its lane: whatever fails afterwards, no other
\* lane is tried and the stream is not begun again.
NoFailoverAfterCommit ==
  [][\A q \in Requests :
       committed[q] # NoLane =>
         /\ committed'[q] = committed[q] /\ lane'[q] = committed[q]
         /\ attempts'[q] = attempts[q]]_vars

\* The outcome of a request is final: a row that has one is not written again,
\* by a late in_flight record or by a second outcome.
OutcomeIsFinal ==
  [][\A q \in Requests : rows[q] \in {"complete", "failed"} => rows'[q] = rows[q]]_vars

\* Every dispatch ends, whatever the operator and the writer do meanwhile and whether its
\* client reads or leaves; it does not while a client that reads no more stays for good.
DispatchEnds ==
  \A q \in Requests :
    \/ <>[](client[q] = "stalled")
    \/ dpc[q] = "route" ~> (dpc[q] = "done" /\ outbox[q] = <<>>)

\* "A stream is only complete when nothing failed it: an upstream error, an encode
\* failure or a client that hung up all leave stream_complete=0" (handlers.go): the
\* row of a stream its lane cut short does not say complete.
CutIsNotComplete == \A q \in Requests : answer[q] = "cut" => rows[q] # "complete"
=============================================================================
