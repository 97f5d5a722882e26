-------------------------- MODULE AliasCatalog --------------------------
(***************************************************************************)
(* The model aliases of pkg/server: the catalog and its file, the rows the *)
(* state manager keeps for them, the kill switch those rows are, and the   *)
(* MCP calls that change either.  A canonical id is "<lane>/<model>"; an   *)
(* alias is another name for one.                                          *)
(***************************************************************************)
EXTENDS FiniteSets, Naturals, FileStates

CONSTANTS
  Aliases, Ids,   \* the names: aliases, canonical ids
  AliasConfig,    \* Server.Models of the configuration
  Admins,         \* MCP calls that change the catalog
  MaxToggles,     \* bound: toggle_model calls
  MaxDamage       \* bound: times somebody damages the file

ASSUME CatalogAssumption ==
  /\ Absent \notin Ids \cup {"on", "off"} /\ Aliases \cap Ids = {}
  /\ NoFile # Garbage /\ {NoFile, Garbage} \cap [Aliases -> Ids \cup {Absent}] = {}
  /\ AliasConfig \in [Aliases -> Ids \cup {Absent}]
  /\ MaxToggles \in Nat /\ MaxDamage \in Nat

VARIABLES
  aliases, aliasFile,
  saving,         \* the catalog has a file to write
  rows,           \* Models of the snapshot: the Enabled bit of the names that have a row
  owned,          \* catalogOwned
  admin,          \* each call: where it is, the list it works from, what it will delete
  toggles, damage

syncVars == <<rows, owned>>
catalogVars == <<aliases, aliasFile, saving, syncVars, admin, toggles, damage>>

Catalog == INSTANCE ConfigOverlay WITH Key <- Aliases, Value <- Ids, Configured <- AliasConfig

Names == Aliases \cup Ids
NoAlias == [a \in Aliases |-> Absent]
Idle == [pc |-> "idle", list |-> NoAlias, gone |-> {}]
Served(table) == {a \in Aliases : table[a] # Absent}

\* The rows after a sync: those of the aliases gone are deleted, a row that is there keeps
\* its bit, and a new one is enabled.
SyncedRows_Enables(old, list, gone) ==
  [n \in Names |-> CASE n \in Served(list) -> "on"
                     [] n \in gone \ Served(list) -> Absent
                     [] OTHER -> old[n]]

SyncedRows(old, list, gone) ==
  [n \in Names |-> CASE n \in Served(list) -> IF old[n] = Absent THEN "on" ELSE old[n]
                     [] n \in gone \ Served(list) -> Absent
                     [] OTHER -> old[n]]

NoRow == [n \in Names |-> Absent]

CatalogInit ==
  /\ aliases = AliasConfig /\ aliasFile = NoFile /\ saving = TRUE
  /\ rows = SyncedRows(NoRow, aliases, {}) /\ owned = Served(aliases)
  /\ admin = [c \in Admins |-> Idle]
  /\ toggles = 0 /\ damage = 0

-----------------------------------------------------------------------------
(***************************************************************************)
(* set_model_alias and remove_model_alias.                                 *)
(***************************************************************************)
\* The write and, when it went well, the publication of Set and Remove, under the catalog's lock.
SaveAliases_Early(next) ==
  /\ aliases' = next
  /\ \/ aliasFile' = IF saving THEN next ELSE aliasFile
     \/ saving /\ UNCHANGED aliasFile

SaveAliases(next) ==
  /\ aliasFile' = IF saving THEN next ELSE aliasFile
  /\ aliases' = next

\* The change is saved and published; then the call syncs the state.
ChangeAlias(c, next) ==
  /\ admin[c].pc = "idle"
  /\ SaveAliases(next)
  /\ admin' = [admin EXCEPT ![c].pc = "list"]
  /\ UNCHANGED <<saving, syncVars, toggles, damage>>

SetAlias(c, a, i) == ChangeAlias(c, Catalog!Put(aliases, a, i))
RemoveAlias(c, a) == ChangeAlias(c, Catalog!Drop(aliases, a))

\* syncCatalogToState reads the catalog,
SyncList(c) ==
  /\ admin[c].pc = "list"
  /\ admin' = [admin EXCEPT ![c].pc = "diff", ![c].list = aliases]
  /\ UNCHANGED <<aliases, aliasFile, saving, syncVars, toggles, damage>>

\* compares it with what the last sync installed,
SyncDiff(c) ==
  /\ admin[c].pc = "diff"
  /\ admin' = [admin EXCEPT ![c].pc = "update", ![c].gone = owned \ Served(admin[c].list)]
  /\ UNCHANGED <<aliases, aliasFile, saving, syncVars, toggles, damage>>

\* updates the snapshot, which is one atomic step,
SyncUpdate(c) ==
  /\ admin[c].pc = "update"
  /\ rows' = SyncedRows(rows, admin[c].list, admin[c].gone)
  /\ admin' = [admin EXCEPT ![c].pc = "own", ![c].gone = {}]
  /\ UNCHANGED <<aliases, aliasFile, saving, owned, toggles, damage>>

\* and remembers what it installed.
SyncOwn(c) ==
  /\ admin[c].pc = "own"
  /\ owned' = Served(admin[c].list)
  /\ admin' = [admin EXCEPT ![c] = Idle]
  /\ UNCHANGED <<aliases, aliasFile, saving, rows, toggles, damage>>

-----------------------------------------------------------------------------
\* toggle_model: any name gets a row.
Toggle(n, bit) ==
  /\ toggles < MaxToggles /\ toggles' = toggles + 1
  /\ rows' = [rows EXCEPT ![n] = bit]
  /\ UNCHANGED <<aliases, aliasFile, saving, owned, admin, damage>>

\* The daemon starts on the file it finds.  One it cannot parse costs the catalog the
\* configured aliases as well, and the file: it saves nothing from then on.
Boot(file) ==
  /\ aliases' = IF file = Garbage THEN NoAlias ELSE Catalog!Overlaid(file)
  /\ saving' = (file # Garbage)
  /\ rows' = SyncedRows(NoRow, aliases', {}) /\ owned' = Served(aliases')
  /\ admin' = [c \in Admins |-> Idle]

\* A stop, or a crash, which may come when a change is written and not published.
CatalogRestart ==
  /\ \E file \in {aliasFile} \cup (IF saving THEN Catalog!Changes(aliases) ELSE {}) :
       aliasFile' = file /\ Boot(file)
  /\ UNCHANGED <<toggles, damage>>

Damage ==
  /\ damage < MaxDamage /\ damage' = damage + 1
  /\ aliasFile' = Garbage
  /\ UNCHANGED <<aliases, saving, syncVars, admin, toggles>>

CatalogNext ==
  \/ \E c \in Admins : \/ \E a \in Aliases : RemoveAlias(c, a) \/ \E i \in Ids : SetAlias(c, a, i)
                       \/ SyncList(c) \/ SyncDiff(c) \/ SyncUpdate(c) \/ SyncOwn(c)
  \/ \E n \in Names, bit \in {"on", "off"} : Toggle(n, bit)
  \/ CatalogRestart \/ Damage

CatalogSpec == CatalogInit /\ [][CatalogNext]_catalogVars
-----------------------------------------------------------------------------
\* modelIsDisabled: a row of the name, of its canonical id, or of an alias of it.
Off(n) == rows[n] = "off"
Disabled(m) ==
  \/ Off(m)
  \/ m \in Served(aliases) /\ Off(aliases[m])
  \/ m \in Ids /\ \E a \in Served(aliases) : aliases[a] = m /\ Off(a)

AliasOf(a, i) == a \in Served(aliases) /\ aliases[a] = i
Related(m) == {m} \cup {n \in Names : AliasOf(n, m) \/ AliasOf(m, n)}

CatalogTypeOK ==
  /\ aliases \in Catalog!Tables /\ aliasFile \in Catalog!Tables \cup {NoFile, Garbage}
  /\ saving \in BOOLEAN
  /\ rows \in [Names -> {"on", "off", Absent}] /\ owned \subseteq Aliases
  /\ admin \in [Admins -> [pc : {"idle", "list", "diff", "update", "own"},
                           list : Catalog!Tables, gone : SUBSET Aliases]]

\* A model that toggle_model switched off stays off under every name it is served by, until
\* the operator switches one of its names on, changes an alias of it or restarts the daemon,
\* whatever else is administered meanwhile.  One race is not ruled out: a sync that works
\* from a list older than the catalog deletes the row of an alias that has come since, and
\* the switch with it.
KillSwitchHolds ==
  [][\A m \in Names :
       Disabled(m) /\ (m \in Ids \/ aliases'[m] # Absent) =>
         \/ Disabled(m)'
         \/ \E n \in Related(m) : Toggle(n, "on")
         \/ \E a \in Aliases : aliases'[a] # aliases[a] /\ a \in Related(m)
         \/ \E c \in Admins : SyncUpdate(c) /\ admin[c].list # aliases
         \/ CatalogRestart]_catalogVars

\* What the catalog serves, it serves again after a restart at any moment, unless somebody
\* damaged the file: a change is published only when it is on disk.  After a start on a
\* damaged file nothing is saved any more.
CatalogSurvives == saving /\ aliasFile # Garbage => Catalog!Survives(aliases, aliasFile)
=============================================================================
