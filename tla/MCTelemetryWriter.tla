------------------------ MODULE MCTelemetryWriter ------------------------
(* Values of the constants of TelemetryWriter for TLC. *)
EXTENDS TelemetryWriter, TLC

CONSTANTS r1, r2, c1, c2

RequestSymmetry == Permutations({r1, r2}) \cup Permutations({c1, c2})
=============================================================================
