------------------------------ MODULE Upstream ------------------------------
(***************************************************************************)
(* What a handler may rely on when it calls runtime.connector: the         *)
(* candidate routes of the model are used up one by one, the call is       *)
(* answered by the first one that gives an acceptable answer, it ends      *)
(* without one only when no candidate is left.  Which route comes first,   *)
(* and why an answer is not acceptable, is not said.                       *)
(***************************************************************************)
EXTENDS Naturals

CONSTANT Routes       \* positions that a model's routes can have

VARIABLES
    phase,      \* "idle", "calling", "answered" or "exhausted"
    remaining   \* the routes that have not been used up

vars == <<phase, remaining>>

Init == phase = "idle" /\ remaining = {}

Start(routes) ==
    /\ phase = "idle"
    /\ phase' = "calling"
    /\ remaining' = routes

Answer(r) ==
    /\ phase = "calling"
    /\ phase' = "answered"
    /\ remaining' = remaining \ {r}

Refuse(r) ==
    /\ phase = "calling"
    /\ remaining' = remaining \ {r}
    /\ phase' = IF remaining' = {} THEN "exhausted" ELSE "calling"

End ==
    /\ phase \in {"answered", "exhausted"}
    /\ phase' = "idle"
    /\ remaining' = {}

(* The handler that called is gone. *)
Abandon ==
    /\ phase = "calling"
    /\ phase' = "idle"
    /\ remaining' = {}

Next ==
    \/ \E routes \in (SUBSET Routes) \ {{}} : Start(routes)
    \/ \E r \in remaining : Answer(r) \/ Refuse(r)
    \/ End
    \/ Abandon

Spec == Init /\ [][Next]_vars
=============================================================================
