----------------------------- MODULE Logins -----------------------------
(***************************************************************************)
(* How an operator signs in over MCP: initiate_oauth_login, then           *)
(* check_oauth_login or submit_oauth_code.  antigravity catches the        *)
(* browser's redirect on a local port ("loopback"); xai polls until the    *)
(* user approves a device code ("device"); codex does all in one blocking  *)
(* call ("blocking").  The pending flow belongs to the lane's provider     *)
(* object, which a rebuild of the lane replaces.                           *)
(***************************************************************************)
EXTENDS Naturals, FiniteSets

CONSTANTS
  LoginKinds,
  Operators,    \* MCP calls about the login of the lane
  MaxFlows,     \* bound: StartLogin calls
  MaxObjects    \* bound: provider objects of the lane

ASSUME LoginAssumption ==
  /\ LoginKinds \subseteq {"loopback", "device", "blocking"}
  /\ MaxFlows \in Nat /\ MaxObjects \in Nat \ {0}

Flows == 1..MaxFlows
Objects == 1..MaxObjects

VARIABLES
  kind,
  lane,      \* the lane's provider object
  pending,   \* pendingAuth or pendingXAI of each object, 0 for none
  listener,  \* on the loopback port: the flow whose code it takes, 0 for none, and who opened it
  loopback,  \* the objects whose loopback field is that listener, and the call about to set it
  started,   \* flows so far
  consent,   \* external and codeCh: where the code of each flow is
  login,     \* each call: where it is, its object, its flow, the code it holds
  late,      \* the calls whose context is done
  saved,     \* flows whose credential is in the store
  completed  \* flows whose login answered ok

objectVars == <<lane, pending>>
portVars == <<listener, loopback>>
loginVars == <<kind, objectVars, portVars, started, consent, login, late, saved, completed>>

NoLogin == [pc |-> "idle", obj |-> 1, flow |-> 0, code |-> 0]
NoListener == [flow |-> 0, by |-> "nobody"]

LoginInit ==
  /\ kind \in LoginKinds
  /\ lane = 1 /\ pending = [o \in Objects |-> 0]
  /\ listener = NoListener /\ loopback = {}
  /\ started = 0 /\ consent = [f \in Flows |-> "none"]
  /\ login = [c \in Operators |-> NoLogin] /\ late = {}
  /\ saved = {} /\ completed = {}

In(c, pc) == login[c].pc = pc
Obj(c) == login[c].obj
Flow(c) == login[c].flow
Turn(c, pc) == login' = [login EXCEPT ![c].pc = pc]
Answer(c) == login' = [login EXCEPT ![c] = NoLogin] /\ late' = late \ {c}

-----------------------------------------------------------------------------
(***************************************************************************)
(* The listener on the loopback port.                                      *)
(***************************************************************************)
Listening == listener # NoListener

Listen(f, by, holder) == listener' = [flow |-> f, by |-> by] /\ loopback' = {holder}

\* close() frees the port at once, and Serve returns: who has the listener has none alive.
Close == listener' = NoListener /\ loopback' = {}

\* stopLoopback, of an object whose listener it may be or not.
StopLoopback(o) == IF o \in loopback THEN Close ELSE UNCHANGED portVars

\* The request that called StartLogin is over.
RequestEnds ==
  /\ Listening /\ listener.by = "start" /\ loopback \cap Operators = {} /\ Close
  /\ UNCHANGED <<kind, objectVars, started, consent, login, late, saved, completed>>

IdleTimeout ==
  /\ Listening /\ Close
  /\ UNCHANGED <<kind, objectVars, started, consent, login, late, saved, completed>>

-----------------------------------------------------------------------------
(***************************************************************************)
(* StartLogin.                                                             *)
(***************************************************************************)
\* A new flow: a random state of its own, or the device code the provider gave.
StartLogin(c) ==
  /\ In(c, "idle") /\ started < MaxFlows
  /\ started' = started + 1
  /\ login' = [login EXCEPT ![c] =
       [pc |-> CASE kind = "loopback" -> "stop" [] kind = "device" -> "publish" [] OTHER -> "poll",
        obj |-> lane, flow |-> started', code |-> 0]]
  /\ UNCHANGED <<kind, objectVars, portVars, consent, late, saved, completed>>

\* A previous attempt may still hold the port.
StartStops(c) ==
  /\ In(c, "stop") /\ StopLoopback(Obj(c)) /\ Turn(c, "serve")
  /\ UNCHANGED <<kind, objectVars, started, consent, late, saved, completed>>

StartServes(c) ==
  /\ In(c, "serve") /\ ~Listening
  /\ Listen(Flow(c), "start", c) /\ Turn(c, "publish")
  /\ UNCHANGED <<kind, objectVars, started, consent, late, saved, completed>>

PortBusy(c) ==
  /\ In(c, "serve") /\ Listening /\ Answer(c)
  /\ UNCHANGED <<kind, objectVars, portVars, started, consent, saved, completed>>

\* The flow is the object's pending one; the user gets its URL.
Publish(c) ==
  /\ In(c, "publish")
  /\ pending' = [pending EXCEPT ![Obj(c)] = Flow(c)]
  /\ loopback' = IF c \in loopback THEN {Obj(c)} ELSE loopback \ {Obj(c)}
  /\ Answer(c)
  /\ UNCHANGED <<kind, lane, listener, started, consent, saved, completed>>

-----------------------------------------------------------------------------
\* External: the user consents, again after a code that led to nothing; the code is in the
\* address the browser is sent to, or the device code is approved.
Consent(f) ==
  /\ f <= started /\ consent[f] \in {"none", "lost"}
  /\ consent' = [consent EXCEPT ![f] = "given"]
  /\ UNCHANGED <<kind, objectVars, portVars, started, login, late, saved, completed>>

\* The browser follows the redirect; the state must be the flow's.
Redirect ==
  /\ kind = "loopback" /\ Listening /\ consent[listener.flow] = "given"
  /\ consent' = [consent EXCEPT ![listener.flow] = "channel"]
  /\ UNCHANGED <<kind, objectVars, portVars, started, login, late, saved, completed>>

-----------------------------------------------------------------------------
(***************************************************************************)
(* CompleteLogin.                                                          *)
(***************************************************************************)
Check(c) ==
  /\ In(c, "idle") /\ pending[lane] # 0
  /\ login' = [login EXCEPT ![c] =
       [pc |-> IF kind = "loopback" THEN "arm" ELSE "poll", obj |-> lane,
        flow |-> pending[lane], code |-> 0]]
  /\ UNCHANGED <<kind, objectVars, portVars, started, consent, late, saved, completed>>

\* ensureLoopback
Arm(c) ==
  /\ In(c, "arm") /\ Turn(c, "wait")
  /\ IF pending[Obj(c)] = Flow(c) /\ ~Listening
     THEN Listen(Flow(c), "arm", Obj(c))
     ELSE UNCHANGED portVars
  /\ UNCHANGED <<kind, objectVars, started, consent, late, saved, completed>>

\* A code that arrives with the deadline wins.
TakeCode(c) ==
  /\ In(c, "wait") /\ consent[Flow(c)] = "channel"
  /\ consent' = [consent EXCEPT ![Flow(c)] = "held"]
  /\ login' = [login EXCEPT ![c].pc = "exchange", ![c].code = Flow(c)]
  /\ UNCHANGED <<kind, objectVars, portVars, started, late, saved, completed>>

\* submit_oauth_code: whatever flow the code is of, the pending one is completed with it.
Submit(c, f) ==
  /\ kind = "loopback" /\ In(c, "idle") /\ pending[lane] # 0 /\ consent[f] = "given"
  /\ consent' = [consent EXCEPT ![f] = "held"]
  /\ login' = [login EXCEPT ![c] =
       [pc |-> "exchange", obj |-> lane, flow |-> pending[lane], code |-> f]]
  /\ UNCHANGED <<kind, objectVars, portVars, started, late, saved, completed>>

\* The call's 90 seconds are over: a wait or a poll that has nothing answers "pending".
Deadline(c) ==
  /\ In(c, "wait") \/ In(c, "poll") \/ In(c, "exchange")
  /\ late' = late \cup {c}
  /\ UNCHANGED <<kind, objectVars, portVars, started, consent, login, saved, completed>>

StillPending(c) ==
  /\ c \in late
  /\ In(c, "poll") \/ (In(c, "wait") /\ consent[Flow(c)] # "channel")
  /\ Answer(c)
  /\ UNCHANGED <<kind, objectVars, portVars, started, consent, saved, completed>>

\* The exchange happens in the call's context, so that of a late call fails at once.
Exchange(c) ==
  /\ In(c, "exchange") /\ c \notin late
  /\ consent' = [consent EXCEPT ![login[c].code] = "spent"]
  /\ Turn(c, "forget")
  /\ UNCHANGED <<kind, objectVars, portVars, started, late, saved, completed>>

ExchangeFails(c) ==
  /\ In(c, "exchange")
  /\ consent' = [consent EXCEPT ![login[c].code] = "lost"]
  /\ StopLoopback(Obj(c))
  /\ Answer(c)
  /\ UNCHANGED <<kind, objectVars, started, saved, completed>>

\* PollToken: the provider gives the tokens of an approved code once.
PollApproved(c) ==
  /\ In(c, "poll") /\ c \notin late /\ consent[Flow(c)] = "given"
  /\ consent' = [consent EXCEPT ![Flow(c)] = "spent"]
  /\ Turn(c, IF kind = "device" THEN "forget" ELSE "store")
  /\ UNCHANGED <<kind, objectVars, portVars, started, late, saved, completed>>

PollRefused(c) ==
  /\ In(c, "poll") /\ Answer(c)
  /\ UNCHANGED <<kind, objectVars, portVars, started, consent, saved, completed>>

\* Whatever flow is pending now, it is no more,
Forget(c) ==
  /\ In(c, "forget")
  /\ pending' = [pending EXCEPT ![Obj(c)] = 0]
  /\ Turn(c, IF kind = "loopback" THEN "stopAfter" ELSE "store")
  /\ UNCHANGED <<kind, lane, portVars, started, consent, late, saved, completed>>

\* nor has it a listener.
StopAfter(c) ==
  /\ In(c, "stopAfter") /\ StopLoopback(Obj(c)) /\ Turn(c, "store")
  /\ UNCHANGED <<kind, objectVars, started, consent, late, saved, completed>>

StoreCredential(c) ==
  /\ In(c, "store")
  /\ saved' = saved \cup {Flow(c)} /\ completed' = completed \cup {Flow(c)}
  /\ Answer(c)
  /\ UNCHANGED <<kind, objectVars, portVars, started, consent>>

StoreFails_Swallowed(c) ==
  /\ In(c, "store")
  /\ completed' = completed \cup {Flow(c)}
  /\ Answer(c)
  /\ UNCHANGED <<kind, objectVars, portVars, started, consent, saved>>

\* The manager refused the credential or could not write it; codex drops the error.
StoreFails(c) ==
  /\ In(c, "store")
  /\ completed' = IF kind = "blocking" THEN completed \cup {Flow(c)} ELSE completed
  /\ Answer(c)
  /\ UNCHANGED <<kind, objectVars, portVars, started, consent, saved>>

-----------------------------------------------------------------------------
\* The lane is added again or rebuilt: a new object without a pending flow.
ReplaceLane ==
  /\ lane < MaxObjects /\ lane' = lane + 1
  /\ UNCHANGED <<kind, pending, portVars, started, consent, login, late, saved, completed>>

LoginNext ==
  \/ RequestEnds \/ IdleTimeout \/ Redirect
  \/ \E f \in Flows : Consent(f)
  \/ \E c \in Operators :
       \/ StartLogin(c) \/ StartStops(c) \/ StartServes(c) \/ PortBusy(c) \/ Publish(c)
       \/ Check(c) \/ Arm(c) \/ TakeCode(c) \/ Deadline(c) \/ StillPending(c)
       \/ \E f \in Flows : Submit(c, f)
       \/ Exchange(c) \/ ExchangeFails(c) \/ PollApproved(c) \/ PollRefused(c)
       \/ Forget(c) \/ StopAfter(c) \/ StoreCredential(c) \/ StoreFails(c)
  \/ ReplaceLane

LoginSpec == LoginInit /\ [][LoginNext]_loginVars
-----------------------------------------------------------------------------
LoginTypeOK ==
  /\ kind \in LoginKinds /\ lane \in Objects
  /\ pending \in [Objects -> 0..MaxFlows]
  /\ listener \in [flow : Flows, by : {"start", "arm"}] \cup {NoListener}
  /\ loopback \subseteq Objects \cup Operators
  /\ started \in 0..MaxFlows
  /\ consent \in [Flows -> {"none", "given", "channel", "held", "spent", "lost"}]
  /\ login \in [Operators ->
       [pc : {"idle", "stop", "serve", "publish", "arm", "wait", "poll", "exchange", "forget",
              "stopAfter", "store"},
        obj : Objects, flow : 0..MaxFlows, code : 0..MaxFlows]]
  /\ late \subseteq Operators /\ saved \subseteq Flows /\ completed \subseteq Flows

\* The login that answered "completed" left its credential in the store: an error of the
\* store is the login's error.  codex answers ok whatever the store did.
CompletedIsSaved == kind # "blocking" => completed \subseteq saved
=============================================================================
