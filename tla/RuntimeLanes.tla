-------------------------- MODULE RuntimeLanes --------------------------
(***************************************************************************)
(* The lanes an operator adds and removes at runtime: the definitions the  *)
(* store of pkg/server keeps and writes to providers.json, the registry    *)
(* requests are routed by, and the MCP calls that change one after the     *)
(* other: add_provider, remove_provider, and the rebuild of a lane after a *)
(* login.  A live lane is known by the definition it was built from.       *)
(***************************************************************************)
EXTENDS FiniteSets

CONSTANTS
  LaneNames,
  OpenAIDefs, CustomDefs, \* definitions: openai-compatible lanes and custom-wire lanes
  BuiltIn,                \* lanes registerProviders finds credentials for at every start
  FromScan,               \* what such a lane is built from
  LaneCalls,              \* MCP calls about lanes
  NoDef

Defs == OpenAIDefs \cup CustomDefs

ASSUME LanesAssumption ==
  /\ OpenAIDefs \cap CustomDefs = {} /\ BuiltIn \subseteq LaneNames
  /\ NoDef \notin Defs \cup {FromScan} /\ FromScan \notin Defs

VARIABLES
  registry,  \* what each live lane was built from
  stored,    \* providers and custom of the store
  lanesFile, \* providers.json
  unread,    \* the store started empty because it could not read the file
  laneCall   \* each call: what it does, where it is, the lane and the definition it holds,
             \* and (history) whether no other call was about the lane meanwhile

storeVars == <<stored, lanesFile, unread>>
laneVars == <<registry, storeVars, laneCall>>

NoLanes == [l \in LaneNames |-> NoDef]
NoCall == [op |-> "none", pc |-> "idle", lane |-> NoDef, def |-> NoDef, alone |-> TRUE]
Scanned == [l \in LaneNames |-> IF l \in BuiltIn THEN FromScan ELSE NoDef]

LanesInit ==
  /\ registry = Scanned /\ stored = NoLanes /\ lanesFile = NoLanes /\ unread = FALSE
  /\ laneCall = [c \in LaneCalls |-> NoCall]

\* A call that begins, and every call about the same lane, share it from now on.
Begin(c, op, pc, l, d) ==
  /\ laneCall[c].pc = "idle"
  /\ LET others == {o \in LaneCalls : laneCall[o].pc # "idle" /\ laneCall[o].lane = l} IN
     laneCall' = [o \in LaneCalls |->
       CASE o = c -> [op |-> op, pc |-> pc, lane |-> l, def |-> d, alone |-> others = {}]
         [] o \in others -> [laneCall[o] EXCEPT !.alone = FALSE]
         [] OTHER -> laneCall[o]]

At(c, pc) == laneCall[c].pc = pc
Step(c, pc) == laneCall' = [laneCall EXCEPT ![c].pc = pc]
End(c) == laneCall' = [laneCall EXCEPT ![c] = NoCall]
On(c) == laneCall[c].lane

-----------------------------------------------------------------------------
(***************************************************************************)
(* The store: every change clones the maps, writes the file and publishes  *)
(* the clones, in one critical section.  A failed write changes nothing.   *)
(***************************************************************************)
Save_Early(next) ==
  /\ stored' = next
  /\ \/ lanesFile' = next /\ unread' = FALSE
     \/ UNCHANGED <<lanesFile, unread>>

Save(next) == stored' = next /\ lanesFile' = next /\ unread' = FALSE

\* The maps with the change of the call.
Saved(c) ==
  [stored EXCEPT ![On(c)] = IF laneCall[c].op = "add" THEN laneCall[c].def ELSE NoDef]

Register(l, d) == registry' = [registry EXCEPT ![l] = d]

\* add_provider builds the lane first; one that cannot be built ends the call there.
AddBegin(c, l, d) ==
  /\ Begin(c, "add", "store", l, d)
  /\ UNCHANGED <<registry, storeVars>>

AddStore(c) ==
  /\ At(c, "store")
  /\ Save(Saved(c))
  /\ Step(c, IF laneCall[c].def \in OpenAIDefs THEN "reread" ELSE "register")
  /\ UNCHANGED registry

\* What the store holds now is the lane's definition, if it can be built.
AddReread(c) ==
  /\ At(c, "reread")
  /\ LET now == stored[On(c)] IN
     \E d \in {laneCall[c].def} \cup ({now} \cap OpenAIDefs) :
       laneCall' = [laneCall EXCEPT ![c].pc = "register", ![c].def = d]
  /\ UNCHANGED <<registry, storeVars>>

AddRegister(c) ==
  /\ laneCall[c].op = "add" /\ At(c, "register")
  /\ Register(On(c), laneCall[c].def)
  /\ End(c)
  /\ UNCHANGED storeVars

\* The error of a failed write: the call is over and nothing has changed.
AddFails(c) ==
  /\ At(c, "store") /\ End(c)
  /\ UNCHANGED <<registry, storeVars>>

-----------------------------------------------------------------------------
\* remove_provider looks for the lane among the openai-compatible definitions only (inStore).
RemoveBegin(c, l) ==
  /\ Begin(c, "remove", "remove", l, IF stored[l] \in OpenAIDefs THEN stored[l] ELSE NoDef)
  /\ UNCHANGED <<registry, storeVars>>

RemoveStored(c) ==
  /\ At(c, "remove") /\ stored[On(c)] # NoDef
  /\ Save(Saved(c))
  /\ Step(c, "unregister")
  /\ UNCHANGED <<registry>>

RemoveFails_GoesOn(c) ==
  /\ At(c, "remove")
  /\ Step(c, "unregister")
  /\ UNCHANGED <<registry, storeVars>>

\* The store does not know the lane, or could not write.  The error ends the call for a lane
\* that inStore says is there; for any other it is taken to mean "not runtime-registered".
RemoveFails(c) ==
  /\ At(c, "remove")
  /\ IF laneCall[c].def # NoDef THEN End(c) ELSE Step(c, "unregister")
  /\ UNCHANGED <<registry, storeVars>>

RemoveUnregister(c) ==
  /\ At(c, "unregister")
  /\ Register(On(c), NoDef)
  /\ End(c)
  /\ UNCHANGED storeVars

-----------------------------------------------------------------------------
\* After a login RebuildLane reads the definition and lets go of the lock,
RebuildBegin(c, l) ==
  /\ stored[l] # NoDef
  /\ Begin(c, "rebuild", "register", l, stored[l])
  /\ UNCHANGED <<registry, storeVars>>

\* builds the lane and discovers its models, either of which may fail,
RebuildFails(c) ==
  /\ laneCall[c].op = "rebuild" /\ End(c)
  /\ UNCHANGED <<registry, storeVars>>

\* and registers it.
RebuildRegister(c) ==
  /\ laneCall[c].op = "rebuild" /\ At(c, "register")
  /\ Register(On(c), laneCall[c].def)
  /\ End(c)
  /\ UNCHANGED storeVars

-----------------------------------------------------------------------------
Writing(c) == At(c, "store") \/ (At(c, "remove") /\ stored[On(c)] # NoDef)

\* A stop or a crash, which may come when a change is written and not published; then
\* registerProviders, the store and Restore run, and a lane that cannot be built is left out.
LanesRestart ==
  /\ \/ UNCHANGED lanesFile
     \/ \E c \in LaneCalls : Writing(c) /\ lanesFile' = Saved(c)
  /\ unread' \in {FALSE, lanesFile' # NoLanes}
  /\ stored' = IF unread' THEN NoLanes ELSE lanesFile'
  /\ \E broken \in SUBSET LaneNames :
       registry' = [l \in LaneNames |->
         IF stored'[l] # NoDef /\ l \notin broken THEN stored'[l] ELSE Scanned[l]]
  /\ laneCall' = [c \in LaneCalls |-> NoCall]

LanesNext ==
  \/ \E c \in LaneCalls :
       \/ \E l \in LaneNames :
            RemoveBegin(c, l) \/ RebuildBegin(c, l) \/ \E d \in Defs : AddBegin(c, l, d)
       \/ AddStore(c) \/ AddReread(c) \/ AddRegister(c) \/ AddFails(c)
       \/ RemoveStored(c) \/ RemoveFails(c) \/ RemoveUnregister(c)
       \/ RebuildRegister(c) \/ RebuildFails(c)
  \/ LanesRestart

LanesSpec == LanesInit /\ [][LanesNext]_laneVars
-----------------------------------------------------------------------------
LanesTypeOK ==
  /\ registry \in [LaneNames -> Defs \cup {FromScan, NoDef}]
  /\ stored \in [LaneNames -> Defs \cup {NoDef}] /\ lanesFile \in [LaneNames -> Defs \cup {NoDef}]
  /\ unread \in BOOLEAN
  /\ laneCall \in [LaneCalls ->
       [op : {"none", "add", "remove", "rebuild"},
        pc : {"idle", "store", "reread", "register", "remove", "unregister"},
        lane : LaneNames \cup {NoDef}, def : Defs \cup {NoDef}, alone : BOOLEAN]]

\* The store a restart reads is the store that runs: a definition is published only when it
\* is on disk.  A store that could not read its file knows no lane, and keeps the file as it
\* is until its next change.
StoreIsFile == IF unread THEN stored = NoLanes ELSE stored = lanesFile

\* A call that ends well and had its lane to itself leaves the lane live as the store has it,
\* whatever state earlier races, failed builds and failed calls left it in.  A rebuild that
\* fails leaves it as it was; and the removal of a custom-wire lane takes the error of a
\* failed write for a lane nobody stored, and answers ok.
SoleCallSettles ==
  [][\A c \in LaneCalls :
       LET call == laneCall[c]  l == call.lane IN
       call.alone /\ call.pc \in {"register", "unregister"} /\ laneCall'[c].pc = "idle"
         => \/ registry'[l] = stored[l]
            \/ call.op = "rebuild" /\ registry'[l] = registry[l]
            \/ call.op = "remove" /\ stored[l] \in CustomDefs
            \/ LanesRestart]_laneVars
=============================================================================
