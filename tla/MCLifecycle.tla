---------------------------- MODULE MCLifecycle ----------------------------
(***************************************************************************)
(* Two connectors and three configurations: one without models, one on one *)
(* provider, one on both.                                                  *)
(***************************************************************************)
EXTENDS Lifecycle

CONSTANTS c1, c2

ThreeConfigurations == <<{c1}, {c1, c2}, {}>>
=============================================================================
