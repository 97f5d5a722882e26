-------------------------- MODULE LaneTimeouts --------------------------
(***************************************************************************)
(* The timeout manager of pkg/server: how long a request may take on a     *)
(* lane, configured, overridden by set_provider_timeout, and saved.        *)
(***************************************************************************)
EXTENDS FileStates
CONSTANTS TimedLanes, Durations, TimeoutConfig

ASSUME TimeoutAssumption ==
  /\ Absent \notin Durations /\ TimeoutConfig \in [TimedLanes -> Durations \cup {Absent}]
  /\ NoFile # Garbage /\ {NoFile, Garbage} \cap [TimedLanes -> Durations \cup {Absent}] = {}

VARIABLES timeouts, timeoutFile
timeoutVars == <<timeouts, timeoutFile>>

Timeouts == INSTANCE ConfigOverlay
              WITH Key <- TimedLanes, Value <- Durations, Configured <- TimeoutConfig

TimeoutInit == timeouts = TimeoutConfig /\ timeoutFile = NoFile

\* Set and Remove write the whole table, and publish it when that went well.
ChangeTimeout ==
  \E next \in Timeouts!Changes(timeouts) : timeoutFile' = next /\ timeouts' = next

\* A manager that cannot parse its file has the configuration, and the file is written
\* over by the next change.
TimeoutRestart ==
  /\ timeoutFile' \in {timeoutFile} \cup Timeouts!Changes(timeouts)
  /\ timeouts' = Timeouts!Overlaid(timeoutFile')

DamageTimeouts == timeoutFile' = Garbage /\ UNCHANGED timeouts

TimeoutNext == ChangeTimeout \/ TimeoutRestart \/ DamageTimeouts

TimeoutSpec == TimeoutInit /\ [][TimeoutNext]_timeoutVars
-----------------------------------------------------------------------------
TimeoutTypeOK == timeouts \in Timeouts!Tables /\ timeoutFile \in Timeouts!Tables \cup {NoFile, Garbage}

\* A restart at any moment sets the timeouts requests had, but on a damaged file.
TimeoutsSurvive == timeoutFile # Garbage => Timeouts!Survives(timeouts, timeoutFile)
=============================================================================
