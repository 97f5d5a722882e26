--------------------------- MODULE FileStates ---------------------------
\* What a persisted table may lack, and what its file may be besides a table: not there, or
\* damaged by somebody (the daemon itself replaces it by a rename and cannot).
CONSTANTS Absent, NoFile, Garbage
=============================================================================
