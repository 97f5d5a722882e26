------------------------- MODULE CredentialManager -------------------------
(***************************************************************************)
(* The credential manager of one OAuth lane (pkg/auth/manager.go) with the *)
(* goroutines that drive it: requests that send a token upstream and retry *)
(* once on a rejection, the proactive refresher's tick, interactive logins *)
(* and the forced refresh of the antigravity lane.  Every operation of the *)
(* manager works on one key, so one key is modelled.                       *)
(*                                                                         *)
(* A goroutine takes one step between two points where another one can     *)
(* run: a lock, a file operation, a call of the token endpoint.            *)
(***************************************************************************)
EXTENDS Integers

CONSTANTS
  Procs,      \* goroutines using the manager
  None,       \* no credential, no leader
  Tasks,      \* the entry points a goroutine may start with: a subset of EntryTasks
  Refreshers, \* whether a refresher is installed: a subset of BOOLEAN
  Answers,    \* external: what the token endpoint may do to a refresh token it is sent
  MaxMint,    \* bound: credentials the token endpoint issues
  MaxGen,     \* bound: the generation of the credential found at start-up
  MaxCrash    \* bound: crashes of the daemon

EntryTasks == {"send", "tick", "login", "force"}

\* It answers without a refresh token, with a new one beside the old, or with one in its place.
EndpointAnswers == {"keep", "rotate", "revoke"}

ASSUME CredAssumption ==
  /\ None \notin Procs /\ None \notin [id : Nat, grant : Nat, gen : Nat]
  /\ Tasks \subseteq EntryTasks
  /\ Refreshers \subseteq BOOLEAN /\ Answers \subseteq EndpointAnswers
  /\ MaxMint \in Nat /\ MaxGen \in Nat /\ MaxCrash \in Nat

VARIABLES
  disk,         \* the credential file: None or a credential
  cache,        \* Manager.cache[key]: None or a credential
  revoked,      \* key \in Manager.revoked
  hasRefresher, \* Manager.refresher # nil
  leader,       \* the goroutine running the singleflight function, or None
  pc,           \* where each goroutine is
  task,         \* what it is doing
  cred,         \* the credential it has in hand: the local variable of each function
  rejected,     \* the credential the upstream rejected in this request
  minted,       \* how many credentials were ever issued; also the newest id
  life,         \* remaining lifetime of each issued access token, see Life
  live,         \* external: refresh tokens the token endpoint accepts
  durable,      \* history: ids that were ever on disk
  overtaken,    \* history: goroutines whose generation check predates a rename by another
  interrupted,  \* history: an issued credential was lost to a crash or an I/O error
  undercut,     \* history: a refresh token was revoked that somebody else goes on to use
  crashes

mgrVars  == <<disk, cache, revoked, leader>>
procVars == <<pc, task, cred, rejected>>
tokVars  == <<minted, life, live>>
histVars == <<durable, overtaken, interrupted, undercut, crashes>>
vars == <<disk, cache, revoked, hasRefresher, leader, pc, task, cred, rejected,
          minted, life, live, durable, overtaken, interrupted, undercut, crashes>>

-----------------------------------------------------------------------------
(***************************************************************************)
(* Credentials.  An access token is known by its id, the refresh token     *)
(* beside it by the id of the credential it was first issued with.  The    *)
(* distances to expiry the code compares are the life of the access token: *)
(*   3  more than CredentialRefreshLead (10 minutes) left                  *)
(*   2  more than the manager's lazy window (5 minutes) left               *)
(*   1  inside the lazy window       0  expired                            *)
(***************************************************************************)
Credential(i, t, g) == [id |-> i, grant |-> t, gen |-> g]
Credentials == [id : 1..MaxMint, grant : 1..MaxMint, gen : Nat]
Life == 0..3

Fresh(c)    == life[c.id] > 1
NearEnd(c)  == life[c.id] < 3
Expired(c)  == life[c.id] = 0

Idle == "idle"
Retries == {"refresh", "resend"}
AllTasks == EntryTasks \cup Retries \cup {"tickget"}

\* Steps of Get and Peek before the singleflight, of the function it runs, and
\* of persist and the publication after it.
LookupPcs == {"read", "load", "fill", "probe", "check", "join"}
FlightPcs == {"latest", "recheck", "reffail", "give", "fail"}
WritePcs  == {"refresh", "cas", "stale", "rename", "publish"}
Pcs == {Idle, "wait", "got"} \cup LookupPcs \cup FlightPcs \cup WritePcs

\* Where a goroutine relies on the credential it has in hand.
HoldingPcs == {"fill", "probe", "check", "recheck", "reffail", "give", "got"} \cup WritePcs

-----------------------------------------------------------------------------
\* A daemon starts with an empty cache over whatever an earlier one persisted.
Init ==
  /\ \/ disk = None /\ minted = 0
     \/ /\ MaxMint > 0
        /\ \E g \in 0..MaxGen : disk = Credential(1, 1, g)
        /\ minted = 1
  /\ cache = None /\ revoked = FALSE
  /\ hasRefresher \in Refreshers
  /\ leader = None
  /\ pc = [p \in Procs |-> Idle]
  /\ task = [p \in Procs |-> Idle]
  /\ cred = [p \in Procs |-> None]
  /\ rejected = [p \in Procs |-> 0]
  /\ life = [i \in 1..MaxMint |-> 3]
  /\ live = 1..minted
  /\ durable = 1..minted
  /\ overtaken = {}
  /\ interrupted = FALSE /\ undercut = FALSE
  /\ crashes = 0

Goto(p, where) == pc' = [pc EXCEPT ![p] = where]
Hold(p, c) == cred' = [cred EXCEPT ![p] = c]

\* The operation returns to its caller, which forgets what it had in hand.
Return(p) ==
  /\ Goto(p, Idle)
  /\ task' = [task EXCEPT ![p] = Idle]
  /\ Hold(p, None)
  /\ rejected' = [rejected EXCEPT ![p] = 0]

Continue(p, where) == Goto(p, where) /\ UNCHANGED <<task, rejected>>

\* The token endpoint issues one more credential with the refresh token t.
Mint(t, g) == Credential(minted + 1, t, g)

-----------------------------------------------------------------------------
(***************************************************************************)
(* Entry points.                                                           *)
(***************************************************************************)

\* Generate asks for a token before it sends; Provider.Refresh of the
\* antigravity lane begins with a Get; the refresher's round peeks first.
StartGet(p) ==
  /\ pc[p] = Idle
  /\ \E t \in Tasks \ {"login"} :
       /\ task' = [task EXCEPT ![p] = t]
       /\ Goto(p, "read")
  /\ UNCHANGED <<mgrVars, hasRefresher, cred, rejected, tokVars, histVars>>

\* The human approved the sign-in: the poll of the device flow returned a new
\* grant, which the login stores at generation 0.
StartLogin(p) ==
  /\ pc[p] = Idle /\ "login" \in Tasks
  /\ minted < MaxMint
  /\ minted' = minted + 1
  /\ live' = live \cup {minted + 1}
  /\ task' = [task EXCEPT ![p] = "login"]
  /\ Hold(p, Mint(minted + 1, 0))
  /\ Goto(p, "cas")
  /\ UNCHANGED <<mgrVars, hasRefresher, rejected, life, histVars>>

\* What the goroutine does with the token Get gave it.  A request sends it; the
\* upstream may answer 401 or 403 to any token, and the first such answer is met
\* with Invalidate("") and a Get before the request is sent once more.
Accepted(p) ==
  /\ pc[p] = "got" /\ task[p] \in {"send", "resend", "tickget"}
  /\ Return(p)
  /\ UNCHANGED <<mgrVars, hasRefresher, tokVars, histVars>>

Rejected(p) ==
  /\ pc[p] = "got" /\ task[p] = "send"
  /\ revoked' = TRUE
  /\ rejected' = [rejected EXCEPT ![p] = cred[p].id]
  /\ task' = [task EXCEPT ![p] = "refresh"]
  /\ Hold(p, None)
  /\ Goto(p, "read")
  /\ UNCHANGED <<disk, cache, leader, hasRefresher, tokVars, histVars>>

Resend(p) ==
  /\ pc[p] = "got" /\ task[p] = "refresh"
  /\ task' = [task EXCEPT ![p] = "resend"]
  /\ Hold(p, None)
  /\ Goto(p, "read")
  /\ UNCHANGED <<mgrVars, hasRefresher, rejected, tokVars, histVars>>

\* antigravity's Refresh calls the refresher itself, outside the singleflight.
ForceRefresh(p) ==
  /\ pc[p] = "got" /\ task[p] = "force"
  /\ Continue(p, "refresh")
  /\ UNCHANGED <<mgrVars, hasRefresher, cred, tokVars, histVars>>

-----------------------------------------------------------------------------
(***************************************************************************)
(* Get and Peek up to the singleflight.                                    *)
(***************************************************************************)
Looked(p) == IF task[p] = "tick" THEN "probe" ELSE "check"

ReadCache(p) ==
  /\ pc[p] = "read"
  /\ \/ cache # None /\ Hold(p, cache) /\ Continue(p, Looked(p))
     \/ cache = None /\ Continue(p, "load") /\ UNCHANGED cred
  /\ UNCHANGED <<mgrVars, hasRefresher, tokVars, histVars>>

\* Mutant: a missing file is not an error.
LoadFromDisk_MissingOK(p) ==
  /\ pc[p] = "load"
  /\ Hold(p, disk) /\ Continue(p, "fill")
  /\ UNCHANGED <<mgrVars, hasRefresher, tokVars, histVars>>

LoadFromDisk(p) ==
  /\ pc[p] = "load"
  /\ \/ disk = None /\ Return(p)
     \/ disk # None /\ Hold(p, disk) /\ Continue(p, "fill")
  /\ UNCHANGED <<mgrVars, hasRefresher, tokVars, histVars>>

\* The loaded copy is cached without a second look at the cache.
FillCache(p) ==
  /\ pc[p] = "fill"
  /\ cache' = cred[p]
  /\ Continue(p, Looked(p))
  /\ UNCHANGED <<disk, revoked, leader, hasRefresher, cred, tokVars, histVars>>

\* The refresher leaves a credential alone that is outside the lead window, and
\* otherwise calls the lane's Refresh: Invalidate("") and a Get.
Probe(p) ==
  /\ pc[p] = "probe"
  /\ \/ ~NearEnd(cred[p]) /\ Return(p) /\ UNCHANGED revoked
     \/ /\ NearEnd(cred[p])
        /\ revoked' = TRUE
        /\ task' = [task EXCEPT ![p] = "tickget"]
        /\ Hold(p, None)
        /\ Goto(p, "read")
        /\ UNCHANGED rejected
  /\ UNCHANGED <<disk, cache, leader, hasRefresher, tokVars, histVars>>

\* Ready to be handed out without a refresh.
Usable(c) == Fresh(c) /\ ~revoked

CheckFresh(p) ==
  /\ pc[p] = "check"
  /\ Continue(p, IF Usable(cred[p]) THEN "got" ELSE "join")
  /\ UNCHANGED <<mgrVars, hasRefresher, cred, tokVars, histVars>>

\* Mutant: every caller runs the function itself.
Join_NoFlight(p) ==
  /\ pc[p] = "join"
  /\ Hold(p, None) /\ leader' = p /\ Continue(p, "latest")
  /\ UNCHANGED <<disk, cache, revoked, hasRefresher, tokVars, histVars>>

\* singleflight.Do: the first caller runs the function, the others wait for it.
Join(p) ==
  /\ pc[p] = "join"
  /\ Hold(p, None)
  /\ \/ leader = None /\ leader' = p /\ Continue(p, "latest")
     \/ leader # None /\ UNCHANGED leader /\ Continue(p, "wait")
  /\ UNCHANGED <<disk, cache, revoked, hasRefresher, tokVars, histVars>>

-----------------------------------------------------------------------------
(***************************************************************************)
(* The function the singleflight runs, persist, and the publication.       *)
(***************************************************************************)
FlightStart(p) ==
  /\ pc[p] = "latest"
  /\ Hold(p, cache) /\ Continue(p, "recheck")
  /\ UNCHANGED <<mgrVars, hasRefresher, tokVars, histVars>>

\* Another flight may have refreshed meanwhile; without a refresher the token
\* is good until it expires.
Recheck(p) ==
  /\ pc[p] = "recheck"
  /\ Continue(p, IF Usable(cred[p]) THEN "give"
                 ELSE IF hasRefresher THEN "refresh"
                 ELSE IF Expired(cred[p]) THEN "fail" ELSE "give")
  /\ UNCHANGED <<mgrVars, hasRefresher, cred, tokVars, histVars>>

Unsaved(p) == pc[p] \in {"cas", "rename"}

\* Whoever revokes the refresh token t it has sent leaves another with a dead one: a goroutine
\* about to write a credential that kept t, or the file, which holds t and will refuse the
\* generation of the answer.
Undercuts(p, t) ==
  \/ \E q \in Procs \ {p} : Unsaved(q) /\ cred[q].grant = t
  \/ disk # None /\ disk.grant = t /\ disk.gen > cred[p].gen + 1

\* The endpoint accepts p's refresh token and issues a credential that carries t.
Granted(p, t) ==
  /\ cred[p].grant \in live /\ minted < MaxMint
  /\ minted' = minted + 1
  /\ \/ "keep" \in Answers /\ t = cred[p].grant /\ UNCHANGED <<live, undercut>>
     \/ "rotate" \in Answers /\ t = minted + 1 /\ live' = live \cup {t} /\ UNCHANGED undercut
     \/ /\ "revoke" \in Answers /\ t = minted + 1
        /\ live' = (live \ {cred[p].grant}) \cup {t}
        /\ undercut' = (undercut \/ Undercuts(p, cred[p].grant))

\* Mutant: the old refresh token is put back over the one in the answer.
RefreshOK_KeepsOld(p) ==
  /\ pc[p] = "refresh"
  /\ \E t \in 1..MaxMint : Granted(p, t) /\ Hold(p, Mint(cred[p].grant, cred[p].gen + 1))
  /\ Continue(p, "cas")
  /\ UNCHANGED <<mgrVars, hasRefresher, life, durable, overtaken, interrupted, crashes>>

\* An answer without a refresh token leaves the old one in the credential.
RefreshOK(p) ==
  /\ pc[p] = "refresh"
  /\ \E t \in 1..MaxMint : Granted(p, t) /\ Hold(p, Mint(t, cred[p].gen + 1))
  /\ Continue(p, "cas")
  /\ UNCHANGED <<mgrVars, hasRefresher, life, durable, overtaken, interrupted, crashes>>

\* What follows an error of the refresher.
RefresherFailed(p) ==
  \/ leader = p /\ Continue(p, "reffail") /\ UNCHANGED cred
  \/ leader # p /\ Return(p)

\* The endpoint refuses, or cannot be reached.
RefreshError(p) ==
  /\ pc[p] = "refresh"
  /\ RefresherFailed(p)
  /\ UNCHANGED <<mgrVars, hasRefresher, tokVars, histVars>>

\* The endpoint issued a credential and the answer never arrived.
RefreshAnswerLost(p) ==
  /\ pc[p] = "refresh"
  /\ \E t \in 1..MaxMint : Granted(p, t)
  /\ interrupted' = TRUE
  /\ RefresherFailed(p)
  /\ UNCHANGED <<mgrVars, hasRefresher, life, durable, overtaken, crashes>>

\* The old token is still handed out unless it expired or somebody revoked it.
RefreshFailed(p) ==
  /\ pc[p] = "reffail"
  /\ Continue(p, IF Expired(cred[p]) \/ revoked THEN "fail" ELSE "give")
  /\ UNCHANGED <<mgrVars, hasRefresher, cred, tokVars, histVars>>

\* Mutant: the generation on disk is not compared.
Stale_Never(c) == FALSE

\* persist reads the generation on disk and refuses an older one ...
Stale(c) == disk # None /\ c.gen < disk.gen

CheckGeneration(p) ==
  /\ pc[p] = "cas"
  /\ Continue(p, IF Stale(cred[p]) THEN "stale" ELSE "rename")
  /\ UNCHANGED <<mgrVars, hasRefresher, cred, tokVars, histVars>>

\* Mutant: the error of persist is ignored and the credential published.
PersistFailed_Ignored(p) == Continue(p, "publish") /\ UNCHANGED cred

\* What follows an error of persist: nothing was published.
PersistFailed(p) ==
  \/ leader = p /\ Continue(p, "fail") /\ UNCHANGED cred
  \/ leader # p /\ Return(p)

RefusedStale(p) ==
  /\ pc[p] = "stale"
  /\ PersistFailed(p)
  /\ UNCHANGED <<mgrVars, hasRefresher, tokVars, histVars>>

\* ... and later, in a step of its own, renames the temporary file over it.
Rename(p) ==
  /\ pc[p] = "rename"
  /\ disk' = cred[p]
  /\ durable' = durable \cup {cred[p].id}
  /\ overtaken' = (overtaken \cup {q \in Procs : pc[q] = "rename"}) \ {p}
  /\ Continue(p, "publish")
  /\ UNCHANGED <<cache, revoked, leader, hasRefresher, cred, tokVars, interrupted, undercut, crashes>>

\* Creating, writing, syncing or renaming the temporary file fails.
PersistIOError(p) ==
  /\ pc[p] = "rename"
  /\ PersistFailed(p)
  /\ interrupted' = TRUE
  /\ overtaken' = overtaken \ {p}
  /\ UNCHANGED <<mgrVars, hasRefresher, tokVars, durable, undercut, crashes>>

Publish(p) ==
  /\ pc[p] = "publish"
  /\ cache' = cred[p]
  /\ revoked' = FALSE
  /\ \/ leader = p /\ Continue(p, "give") /\ UNCHANGED cred
     \/ leader # p /\ Return(p)
  /\ UNCHANGED <<disk, leader, hasRefresher, tokVars, histVars>>

\* Mutant: the flight ends for its leader alone.
Flight_LeaderOnly(p) == {p}

\* The flight ends for its leader and for everyone who joined it.
Flight(p) == {q \in Procs : q = p \/ pc[q] = "wait"}

Give(p) ==
  /\ pc[p] = "give"
  /\ leader' = None
  /\ pc' = [q \in Procs |-> IF q \in Flight(p) THEN "got" ELSE pc[q]]
  /\ cred' = [q \in Procs |-> IF q \in Flight(p) THEN cred[p] ELSE cred[q]]
  /\ UNCHANGED <<disk, cache, revoked, hasRefresher, task, rejected, tokVars, histVars>>

Fail(p) ==
  /\ pc[p] = "fail"
  /\ leader' = None
  /\ pc' = [q \in Procs |-> IF q \in Flight(p) THEN Idle ELSE pc[q]]
  /\ task' = [q \in Procs |-> IF q \in Flight(p) THEN Idle ELSE task[q]]
  /\ cred' = [q \in Procs |-> IF q \in Flight(p) THEN None ELSE cred[q]]
  /\ rejected' = [q \in Procs |-> IF q \in Flight(p) THEN 0 ELSE rejected[q]]
  /\ UNCHANGED <<disk, cache, revoked, hasRefresher, tokVars, histVars>>

-----------------------------------------------------------------------------
(***************************************************************************)
(* The environment: time passes, the daemon crashes and starts again.      *)
(***************************************************************************)
Age(i) ==
  /\ i <= minted /\ life[i] > 0
  /\ life' = [life EXCEPT ![i] = @ - 1]
  /\ UNCHANGED <<mgrVars, hasRefresher, procVars, minted, live, histVars>>

Crash ==
  /\ crashes < MaxCrash
  /\ crashes' = crashes + 1
  /\ interrupted' = (interrupted \/ \E p \in Procs : Unsaved(p))
  /\ overtaken' = {}
  /\ cache' = None /\ revoked' = FALSE /\ leader' = None
  /\ pc' = [p \in Procs |-> Idle]
  /\ task' = [p \in Procs |-> Idle]
  /\ cred' = [p \in Procs |-> None]
  /\ rejected' = [p \in Procs |-> 0]
  /\ UNCHANGED <<disk, hasRefresher, tokVars, durable, undercut>>

Begin(p) == StartGet(p) \/ StartLogin(p)

Step(p) ==
  \/ Accepted(p) \/ Rejected(p) \/ Resend(p) \/ ForceRefresh(p)
  \/ ReadCache(p) \/ LoadFromDisk(p) \/ FillCache(p) \/ Probe(p)
  \/ CheckFresh(p) \/ Join(p) \/ FlightStart(p) \/ Recheck(p)
  \/ RefreshOK(p) \/ RefreshError(p) \/ RefreshAnswerLost(p) \/ RefreshFailed(p)
  \/ CheckGeneration(p) \/ RefusedStale(p) \/ Rename(p) \/ PersistIOError(p)
  \/ Publish(p) \/ Give(p) \/ Fail(p)

Next ==
  \/ \E p \in Procs : Begin(p) \/ Step(p)
  \/ \E i \in 1..MaxMint : Age(i)
  \/ Crash

Spec == Init /\ [][Next]_vars

\* A goroutine that entered the manager goes on: locks are held for a few
\* instructions, file operations return, and every token call has a deadline.
Fairness == \A p \in Procs : WF_vars(Step(p))
FairSpec == Spec /\ Fairness

-----------------------------------------------------------------------------
MgrType ==
  /\ disk \in Credentials \cup {None}
  /\ cache \in Credentials \cup {None}
  /\ revoked \in BOOLEAN /\ hasRefresher \in BOOLEAN
  /\ leader \in Procs \cup {None}
  /\ minted \in 0..MaxMint
  /\ life \in [1..MaxMint -> Life]
  /\ live \subseteq 1..MaxMint /\ durable \subseteq 1..MaxMint
  /\ overtaken \subseteq Procs
  /\ interrupted \in BOOLEAN /\ undercut \in BOOLEAN
  /\ crashes \in 0..MaxCrash

ProcType ==
  /\ pc \in [Procs -> Pcs]
  /\ task \in [Procs -> AllTasks \cup {Idle}]
  /\ cred \in [Procs -> Credentials \cup {None}]
  /\ rejected \in [Procs -> 0..MaxMint]

Holding == \A p \in Procs : pc[p] \in HoldingPcs => cred[p] # None

\* Types, and every step that looks into the credential in hand has one.
TypeOK == MgrType /\ ProcType /\ Holding

\* Store and Get persist before they publish: whatever the process holds in its
\* cache or has handed to a caller was on disk, at every interleaving and after
\* every failed write.
PublishedIsDurable ==
  /\ cache # None => cache.id \in durable
  /\ \A p \in Procs : pc[p] = "got" => cred[p].id \in durable

\* The singleflight: one goroutine at a time is between its latest read and its
\* answer, and nobody waits for a flight that does not exist.
OneFlight ==
  \A p \in Procs :
    /\ pc[p] \in FlightPcs => leader = p
    /\ pc[p] \in WritePcs /\ task[p] \notin {"login", "force"} => leader = p
    /\ pc[p] = "wait" => leader \notin {None, p}

\* The endpoint revokes refresh tokens that an earlier answer of it had told the lane to keep.
Mixes == {"keep", "revoke"} \subseteq Answers

\* A token endpoint never leaves the lane without a way back, whether it lets refresh tokens be
\* kept, adds new ones or replaces them: unless a crash, an I/O error or a lost answer took a
\* refresh token with it, either the file holds a refresh token the endpoint accepts or a
\* goroutine is about to write one.  Where one endpoint does now this and now that, a refresh
\* outside the singleflight or from an old copy can have a token revoked that another goroutine
\* or the file was given to keep; that alone is excepted.
NoGrantLost ==
  \/ interrupted \/ (undercut /\ Mixes)
  \/ disk = None \/ disk.grant \in live
  \/ \E p \in Procs : Unsaved(p) /\ cred[p].grant \in live

\* persist enforces the generation CAS as long as no other write comes between
\* its check and its rename: then the stored generation never goes back.
GenerationCAS ==
  [][\A p \in Procs :
       pc[p] = "rename" /\ pc'[p] = "publish" /\ p \notin overtaken /\ disk # None
         => disk'.gen >= disk.gen]_vars

\* "only a dead refresh token needs another initiate_oauth_login" (README.md): an
\* interactive login repairs a lane, its credential is never refused as stale.
LoginAccepted == \A p \in Procs : ~(pc[p] = "stale" /\ task[p] = "login")

\* "the lane invalidates it, mints a fresh one and retries exactly once" (README.md):
\* the retry after a rejection carries another token than the rejected one.
RetryCarriesFreshToken ==
  \A p \in Procs : pc[p] = "got" /\ task[p] = "resend" => cred[p].id # rejected[p]

\* Every Get ends: nobody waits for ever on a flight.
GetReturns == \A p \in Procs : pc[p] = "wait" ~> pc[p] # "wait"
=============================================================================
