--------------------------- MODULE MCChangeTracking ---------------------------
(***************************************************************************)
(* Two changes, two saves and two undos, which may meet on one change.     *)
(***************************************************************************)
EXTENDS ChangeTracking, TLC

CONSTANTS c1, c2, v1, v2, u1, u2

\* No request is special, and no liveness property is checked.
MCSymmetry ==
  Permutations({c1, c2}) \cup Permutations({v1, v2}) \cup Permutations({u1, u2})
==============================================================================
