--------------------------- MODULE MCControlPlane ---------------------------
(***************************************************************************)
(* ControlPlane for TLC: a version that builds and one that does not (as a *)
(* config bundle: key sets always apply).                                  *)
(***************************************************************************)
EXTENDS ControlPlane

CONSTANTS v1, v2

TwoVersions == {v1, v2}
BrokenVersions == {v2}
=============================================================================
