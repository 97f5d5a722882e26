------------------------- MODULE MCFreebuffLane -------------------------
\* FreebuffLane with what TLC needs: what the requests ask for, and the symmetry of the
\* safety run, whose properties compare actors and requests only for equality.
EXTENDS FreebuffLane, TLC
CONSTANTS m1, m2, t1, t2

\* A stream on one model with one toolset, a unary call on the other with the other.
TwoAsks ==
  { [model |-> m1, tools |-> t1, stream |-> TRUE],
    [model |-> m2, tools |-> t2, stream |-> FALSE] }

LaneSymmetry == Permutations(Actors) \cup Permutations(Requests)
=============================================================================
