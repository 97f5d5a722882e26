------------------------- MODULE ConfigOverlay -------------------------
(***************************************************************************)
(* A table that starts as the configuration, is overlaid by a file at boot *)
(* and rewrites the whole file at every change: what the alias catalog and *)
(* the timeout manager of pkg/server have in common.                       *)
(***************************************************************************)
EXTENDS FileStates
CONSTANTS Key, Value, Configured

Tables == [Key -> Value \cup {Absent}]

\* What a boot reads; runtime entries win, and an entry the file lacks is the configured one.
Overlaid(file) ==
  [k \in Key |-> IF file \in Tables /\ file[k] # Absent THEN file[k] ELSE Configured[k]]

Put(table, k, v) == [table EXCEPT ![k] = v]
Drop(table, k) == [table EXCEPT ![k] = Absent]
Changes(table) == {Put(table, k, v) : k \in Key, v \in Value} \cup {Drop(table, k) : k \in Key}

\* A restart serves the table again.  An entry of the configuration that was dropped at
\* runtime is back: the file can only add and replace.
Survives(table, file) ==
  \A k \in Key : table[k] # Overlaid(file)[k] => table[k] = Absent /\ Configured[k] # Absent
=============================================================================
