-------------------------- MODULE FreebuffLane --------------------------
(***************************************************************************)
(* The Freebuff lane: requests of openaicompat's Generate and Stream over  *)
(* the account actor (pkg/spikes/freebuff/actor.go), which holds the lease *)
(* file, knows the account's upstream session and keeps a heartbeat.       *)
(*                                                                         *)
(* The account has one session upstream, bound to one model.  Several      *)
(* actors share the account and the lease file: two daemons, or a lane and *)
(* the one it replaced.  A step is what happens between two HTTP calls or  *)
(* two holds of the actor's mutex.                                         *)
(***************************************************************************)
EXTENDS Naturals

CONSTANTS
  Actors,      \* account actors on one lease file
  Requests,    \* goroutines serving requests of this lane
  Models, Toolsets,
  Asks,        \* what requests ask for: a model, a toolset and whether to stream
  None,
  MaxArrivals, \* bound: requests served
  MaxIds,      \* bound: sessions the upstream opens
  MaxBeats     \* bound: calls of the heartbeats

ASSUME LaneAssumption ==
  /\ None \notin Actors \cup Models \cup Toolsets
  /\ None \notin [id : Nat, model : Models \cup {None}]
  /\ Asks \subseteq [model : Models, tools : Toolsets, stream : BOOLEAN]
  /\ MaxArrivals \in Nat /\ MaxIds \in Nat /\ MaxBeats \in Nat

VARIABLES
  fileOwner,  \* external: the actor whose descriptor holds the lease file's lock
  locked,     \* isLocked of each actor
  known,      \* its instanceID and boundModel
  sig,        \* Provider.freebuffToolsSig of its lane
  beating,    \* the actors whose heartbeat runs
  beats,      \* calls of the heartbeats so far
  beat,       \* the session its last call answered with, until it is adopted
  session,    \* external: the account's session
  minted,     \* external: sessions opened so far
  rpc,        \* where each request is
  on,         \* the actor of its lane
  asked,      \* what it asks for
  seen,       \* the session the last call answered with, None for no news (a 404)
  switch,     \* sigChanged
  conflicted, \* Bind met a conflict and deletes the session
  carried,    \* freebuff_instance_id of its chat
  arrivals,
  overlapped, \* history: actors that let a second request in
  disturbed,  \* history: requests whose session something else changed
  misled      \* history: requests whose calls left the actor with a session that is not the account's

actorVars == <<locked, known, sig, beating, beats, beat>>
upVars    == <<session, minted>>
workVars  == <<seen, switch, conflicted, carried>>
reqVars   == <<on, asked, arrivals>>
histVars  == <<overlapped, disturbed, misled>>
vars == <<fileOwner, actorVars, upVars, rpc, reqVars, workVars, histVars>>

-----------------------------------------------------------------------------
Session(i, m) == [id |-> i, model |-> m]
NoSession == Session(0, None)
Sessions == [id : 1..MaxIds, model : Models] \cup {NoSession}

\* What an actor can hold: its id and its model are set apart (BindUnnamed).
Copies == [id : 0..MaxIds, model : Models \cup {None}]

NoAsk == [model |-> None, tools |-> None, stream |-> FALSE]

\* A request is in service from the moment Acquire lets it in until it calls Release.
LifecyclePcs == {"reconcile", "apply", "sign", "choose", "delete", "cleared", "bind", "adopt"}
ChatPcs == {"prepare", "chat", "finish"}
ServicePcs == {"mark", "release"} \cup LifecyclePcs \cup ChatPcs
Pcs == {"idle", "acquire", "trylock"} \cup ServicePcs

InService(r) == rpc[r] \in ServicePcs

Init ==
  /\ fileOwner = None
  /\ locked = [a \in Actors |-> FALSE]
  /\ known = [a \in Actors |-> NoSession]
  /\ sig = [a \in Actors |-> None]
  /\ beating = {} /\ beats = 0 /\ beat = [a \in Actors |-> None]
  /\ \/ session = NoSession /\ minted = 0
     \/ MaxIds > 0 /\ minted = 1 /\ \E m \in Models : session = Session(1, m)
  /\ rpc = [r \in Requests |-> "idle"]
  /\ on = [r \in Requests |-> None] /\ asked = [r \in Requests |-> NoAsk]
  /\ arrivals = 0
  /\ seen = [r \in Requests |-> None]
  /\ switch = [r \in Requests |-> FALSE] /\ conflicted = [r \in Requests |-> FALSE]
  /\ carried = [r \in Requests |-> 0]
  /\ overlapped = {} /\ disturbed = {} /\ misled = {}

Goto(r, where) == rpc' = [rpc EXCEPT ![r] = where]

\* The lifecycle or the chat of r is over, and with it what applyRequestTransforms knew.
Leave(r, where) ==
  /\ Goto(r, where)
  /\ seen' = [seen EXCEPT ![r] = None]
  /\ switch' = [switch EXCEPT ![r] = FALSE] /\ conflicted' = [conflicted EXCEPT ![r] = FALSE]
  /\ carried' = [carried EXCEPT ![r] = 0]

Know(r, s) == known' = [known EXCEPT ![on[r]] = s]

-----------------------------------------------------------------------------
(***************************************************************************)
(* The lease.                                                              *)
(***************************************************************************)
Arrive(r) ==
  /\ rpc[r] = "idle" /\ arrivals < MaxArrivals
  /\ arrivals' = arrivals + 1
  /\ on' \in { [on EXCEPT ![r] = a] : a \in Actors }
  /\ asked' \in { [asked EXCEPT ![r] = k] : k \in Asks }
  /\ Goto(r, "acquire")
  /\ UNCHANGED <<fileOwner, actorVars, upVars, workVars, histVars>>

Others(r) == { q \in Requests \ {r} : InService(q) }

\* r is let in; whoever else is in service shares the account with it from now on.
LetIn(r) ==
  /\ overlapped' = IF \E q \in Others(r) : on[q] = on[r] THEN overlapped \cup {on[r]}
                   ELSE overlapped
  /\ disturbed' = IF Others(r) = {} THEN disturbed
                  ELSE disturbed \cup Others(r) \cup {r}
  /\ UNCHANGED misled

\* Acquire: an actor that holds the lease already lets the next request in.
FoundLocked(r) ==
  /\ rpc[r] = "acquire" /\ locked[on[r]]
  /\ LetIn(r)
  /\ Goto(r, "reconcile")
  /\ UNCHANGED <<fileOwner, actorVars, upVars, reqVars, workVars>>

NotLocked(r) ==
  /\ rpc[r] = "acquire" /\ ~locked[on[r]]
  /\ Goto(r, "trylock")
  /\ UNCHANGED <<fileOwner, actorVars, upVars, reqVars, workVars, histVars>>

\* Mutant: a lock that was not obtained is taken for one.
Lockable_Always(a) == a \in Actors

\* The file's lock is taken without the mutex; a descriptor that has it gets it again.
Lockable(a) == fileOwner \in {None, a}

TryLock(r) ==
  /\ rpc[r] = "trylock" /\ Lockable(on[r])
  /\ fileOwner' = on[r]
  /\ LetIn(r)
  /\ Goto(r, "mark")
  /\ UNCHANGED <<actorVars, upVars, reqVars, workVars>>

Mark(r) ==
  /\ rpc[r] = "mark"
  /\ locked' = [locked EXCEPT ![on[r]] = TRUE]
  /\ Goto(r, "reconcile")
  /\ UNCHANGED <<fileOwner, known, sig, beating, beats, beat, upVars, reqVars, workVars,
                 histVars>>

Forget(r) ==
  /\ Goto(r, "idle")
  /\ on' = [on EXCEPT ![r] = None] /\ asked' = [asked EXCEPT ![r] = NoAsk]
  /\ disturbed' = disturbed \ {r} /\ misled' = misled \ {r}
  /\ UNCHANGED <<arrivals, workVars>>

\* The request's context ends while another process holds the lease.
GiveUp(r) ==
  /\ rpc[r] = "trylock"
  /\ Forget(r)
  /\ UNCHANGED <<fileOwner, actorVars, upVars, overlapped>>

\* Release: the first of several requests to leave unlocks the file for all.
Unlock(a) ==
  /\ locked' = [locked EXCEPT ![a] = FALSE]
  /\ fileOwner' = IF locked[a] /\ fileOwner = a THEN None ELSE fileOwner

Release(r) ==
  /\ rpc[r] = "release"
  /\ Unlock(on[r])
  /\ Forget(r)
  /\ overlapped' = IF \E q \in Others(r) : on[q] = on[r] THEN overlapped
                   ELSE overlapped \ {on[r]}
  /\ UNCHANGED <<known, sig, beating, beats, beat, upVars>>

-----------------------------------------------------------------------------
(***************************************************************************)
(* The session lifecycle before every chat.                                *)
(***************************************************************************)

\* An error of the toolset, of the session check, of the switch or of Bind; a call
\* that was executed and whose answer was lost is one of them.
LifecycleFails(r) ==
  /\ \/ rpc[r] \in {"reconcile", "apply", "bind", "adopt"}
     \/ rpc[r] \in {"delete", "cleared"} /\ ~conflicted[r]
  /\ Leave(r, "release")
  /\ UNCHANGED <<fileOwner, actorVars, upVars, reqVars, histVars>>

\* StartHeartbeat, then GET the session: the upstream answers with what it has, or with a
\* 404, after which the actor keeps what it knew, a session that is over among it.
AskSession(r) ==
  /\ rpc[r] = "reconcile"
  /\ beating' = beating \cup {on[r]}
  /\ \/ seen' = [seen EXCEPT ![r] = session] /\ UNCHANGED misled
     \/ /\ seen' = [seen EXCEPT ![r] = None]
        /\ misled' = IF known[on[r]] \in {NoSession, session} THEN misled ELSE misled \cup {r}
  /\ Goto(r, "apply")
  /\ UNCHANGED <<fileOwner, locked, known, sig, beats, beat, upVars, reqVars, switch,
                 conflicted, carried, overlapped, disturbed>>

\* Mutant: the body of a 404 is adopted too.
Reconcile_NotFound(r) ==
  /\ rpc[r] = "apply"
  /\ Know(r, seen[r])
  /\ seen' = [seen EXCEPT ![r] = None]
  /\ Goto(r, "sign")
  /\ UNCHANGED <<fileOwner, locked, sig, beating, beats, beat, upVars, reqVars, switch,
                 conflicted, carried, histVars>>

Reconcile(r) ==
  /\ rpc[r] = "apply"
  /\ IF seen[r] = None THEN UNCHANGED known ELSE Know(r, seen[r])
  /\ seen' = [seen EXCEPT ![r] = None]
  /\ Goto(r, "sign")
  /\ UNCHANGED <<fileOwner, locked, sig, beating, beats, beat, upVars, reqVars, switch,
                 conflicted, carried, histVars>>

\* The toolset of the lane's last request is replaced before the switch it asks for.
Sign(r) ==
  /\ rpc[r] = "sign"
  /\ switch' = [switch EXCEPT ![r] = sig[on[r]] \notin {None, asked[r].tools}]
  /\ sig' = [sig EXCEPT ![on[r]] = asked[r].tools]
  /\ Goto(r, "choose")
  /\ UNCHANGED <<fileOwner, locked, known, beating, beats, beat, upVars, reqVars, seen,
                 conflicted, carried, histVars>>

\* Mutant: only a change of the toolset ends the session.
Preparation_ToolsOnly(bound, r) ==
  IF bound = None THEN "bind" ELSE IF switch[r] THEN "delete" ELSE "prepare"

\* What the session needs before the chat.
Preparation(bound, r) ==
  IF bound = None THEN "bind"
  ELSE IF bound # asked[r].model \/ switch[r] THEN "delete" ELSE "prepare"

Choose(r) ==
  /\ rpc[r] = "choose"
  /\ Goto(r, Preparation(known[on[r]].model, r))
  /\ UNCHANGED <<fileOwner, actorVars, upVars, reqVars, workVars, histVars>>

\* DELETE the session ...
EndSession(r) ==
  /\ rpc[r] = "delete"
  /\ session' = NoSession
  /\ Goto(r, "cleared")
  /\ UNCHANGED <<fileOwner, actorVars, minted, reqVars, workVars, histVars>>

\* ... and forget it.
DeleteSession(r) ==
  /\ rpc[r] = "cleared"
  /\ Know(r, NoSession)
  /\ Goto(r, "bind")
  /\ UNCHANGED <<fileOwner, locked, sig, beating, beats, beat, upVars, reqVars, workVars,
                 histVars>>

\* Bind ignores an error of the deletion between its two calls.
DeleteIgnored(r) ==
  /\ rpc[r] \in {"delete", "cleared"} /\ conflicted[r]
  /\ Goto(r, "bind")
  /\ UNCHANGED <<fileOwner, actorVars, upVars, reqVars, workVars, histVars>>

\* POST the session: the upstream opens one, in place of the one it may have ...
OpenSession(r) ==
  /\ rpc[r] = "bind" /\ minted < MaxIds
  /\ minted' = minted + 1
  /\ session' = Session(minted + 1, asked[r].model)
  /\ seen' = [seen EXCEPT ![r] = session']
  /\ Goto(r, "adopt")
  /\ UNCHANGED <<fileOwner, actorVars, reqVars, switch, conflicted, carried, histVars>>

\* ... or reports a conflict with it, which is met once with a deletion.
Conflict(r) ==
  /\ rpc[r] = "bind" /\ session # NoSession /\ ~conflicted[r]
  /\ conflicted' = [conflicted EXCEPT ![r] = TRUE]
  /\ Goto(r, "delete")
  /\ UNCHANGED <<fileOwner, actorVars, upVars, reqVars, seen, switch, carried, histVars>>

Bind(r) ==
  /\ rpc[r] = "adopt"
  /\ Know(r, seen[r])
  /\ misled' = misled \ {r}
  /\ seen' = [seen EXCEPT ![r] = None]
  /\ Goto(r, "prepare")
  /\ UNCHANGED <<fileOwner, locked, sig, beating, beats, beat, upVars, reqVars, switch,
                 conflicted, carried, overlapped, disturbed>>

\* An answer without an instance id, or one that cannot be decoded, sets the model alone.
BindUnnamed(r) ==
  /\ rpc[r] = "adopt"
  /\ Know(r, [known[on[r]] EXCEPT !.model = asked[r].model])
  /\ misled' = misled \cup {r}
  /\ seen' = [seen EXCEPT ![r] = None]
  /\ Goto(r, "prepare")
  /\ UNCHANGED <<fileOwner, locked, sig, beating, beats, beat, upVars, reqVars, switch,
                 conflicted, carried, overlapped, disturbed>>

-----------------------------------------------------------------------------
(***************************************************************************)
(* The chat.                                                               *)
(***************************************************************************)

\* StartRun, whose error is ignored, then the metadata of the chat.
Prepare(r) ==
  /\ rpc[r] = "prepare"
  /\ carried' = [carried EXCEPT ![r] = known[on[r]].id]
  /\ Goto(r, "chat")
  /\ UNCHANGED <<fileOwner, actorVars, upVars, reqVars, seen, switch, conflicted, histVars>>

\* The chat is answered and read to its end, or cut, or cancelled: the relay goroutine of
\* a stream runs on after Stream has returned, and finishes the run like Generate does.
ChatEnds(r) ==
  /\ rpc[r] = "chat"
  /\ Leave(r, "finish")
  /\ UNCHANGED <<fileOwner, actorVars, upVars, reqVars, histVars>>

\* Mutant: Stream returns the error and keeps the lease.
AfterChatError_Keep(r) == IF asked[r].stream THEN "idle" ELSE "finish"

\* The chat is refused: Generate finishes its run as failed, Stream leaves it open.
AfterChatError(r) == IF asked[r].stream THEN "release" ELSE "finish"

ChatFails(r) ==
  /\ rpc[r] = "chat"
  /\ Leave(r, AfterChatError(r))
  /\ UNCHANGED <<fileOwner, actorVars, upVars, reqVars, histVars>>

\* FinishRun returns, with or without an error.
FinishRun(r) ==
  /\ rpc[r] = "finish"
  /\ Goto(r, "release")
  /\ UNCHANGED <<fileOwner, actorVars, upVars, reqVars, workVars, histVars>>

-----------------------------------------------------------------------------
(***************************************************************************)
(* The heartbeat, which takes no lease, and the upstream.                  *)
(***************************************************************************)
BeatAsk(a) ==
  /\ a \in beating /\ beat[a] = None /\ beats < MaxBeats
  /\ beats' = beats + 1
  /\ beat' = [beat EXCEPT ![a] = session]
  /\ UNCHANGED <<fileOwner, locked, known, sig, beating, upVars, rpc, reqVars, workVars,
                 histVars>>

\* An answer with a session is adopted, even when the session was replaced since.
BeatAdopt(a) ==
  /\ beat[a] # None
  /\ beat' = [beat EXCEPT ![a] = None]
  /\ known' = IF beat[a] = NoSession THEN known ELSE [known EXCEPT ![a] = beat[a]]
  /\ disturbed' = IF beat[a] \in {NoSession, session} THEN disturbed
                  ELSE disturbed \cup { r \in Requests : InService(r) /\ on[r] = a }
  /\ UNCHANGED <<fileOwner, locked, sig, beating, beats, upVars, rpc, reqVars, workVars,
                 overlapped, misled>>

\* The upstream ends the session by itself.
SessionExpires ==
  /\ session # NoSession
  /\ session' = NoSession
  /\ disturbed' = disturbed \cup { r \in Requests : InService(r) }
  /\ UNCHANGED <<fileOwner, actorVars, minted, rpc, reqVars, workVars, overlapped, misled>>

Next ==
  \/ \E r \in Requests :
       \/ Arrive(r) \/ FoundLocked(r) \/ NotLocked(r) \/ TryLock(r) \/ Mark(r) \/ GiveUp(r)
       \/ LifecycleFails(r) \/ AskSession(r) \/ Reconcile(r) \/ Sign(r) \/ Choose(r)
       \/ EndSession(r) \/ DeleteSession(r) \/ DeleteIgnored(r)
       \/ OpenSession(r) \/ Conflict(r) \/ Bind(r) \/ BindUnnamed(r)
       \/ Prepare(r) \/ ChatEnds(r) \/ ChatFails(r) \/ FinishRun(r) \/ Release(r)
  \/ \E a \in Actors : BeatAsk(a) \/ BeatAdopt(a)
  \/ SessionExpires

Spec == Init /\ [][Next]_vars

-----------------------------------------------------------------------------
TypeOK ==
  /\ fileOwner \in Actors \cup {None} /\ locked \in [Actors -> BOOLEAN]
  /\ known \in [Actors -> Copies]
  /\ sig \in [Actors -> Toolsets \cup {None}]
  /\ beating \subseteq Actors /\ beats \in 0..MaxBeats
  /\ beat \in [Actors -> Sessions \cup {None}]
  /\ session \in Sessions /\ minted \in 0..MaxIds /\ session.id <= minted
  /\ rpc \in [Requests -> Pcs]
  /\ on \in [Requests -> Actors \cup {None}]
  /\ asked \in [Requests -> Asks \cup {NoAsk}]
  /\ \A r \in Requests : rpc[r] # "idle" => on[r] \in Actors /\ asked[r] \in Asks
  /\ arrivals \in 0..MaxArrivals
  /\ seen \in [Requests -> Sessions \cup {None}]
  /\ switch \in [Requests -> BOOLEAN] /\ conflicted \in [Requests -> BOOLEAN]
  /\ carried \in [Requests -> 0..MaxIds]
  /\ overlapped \subseteq Actors /\ disturbed \subseteq Requests /\ misled \subseteq Requests

\* The lease is given back on every way out of a request, an error before the first
\* byte and a client that left among them: an actor without a request in service holds
\* neither the flag nor the file, however its requests overlapped.
LeaseReturned ==
  \A a \in Actors :
    locked[a] \/ fileOwner = a => \E r \in Requests : on[r] = a /\ InService(r)

\* Two actors, of two daemons or of a lane and its successor, serve requests at the same
\* time only if one of them has let two of its own requests overlap.
LeaseBetweenActors ==
  \A r, q \in Requests :
    InService(r) /\ InService(q) /\ on[r] # on[q] => {on[r], on[q]} \cap overlapped # {}

\* A request that has the account to itself chats on a live session of its model, and
\* names that session: the switch is complete before the chat.  Excepted are the answers
\* that leave a lone request with a session that is over, or without the id of its own: a
\* 404 of the session check while the actor knows a session the account no longer has, and
\* an answer of Bind that names no instance.
ChatOnOwnSession ==
  \A r \in Requests \ (disturbed \cup misled) :
    rpc[r] = "chat" => session = Session(carried[r], asked[r].model)
=============================================================================
