----------------------------- MODULE Operations -----------------------------
(***************************************************************************)
(* A gateway in operation: reloads (Reload) and key management (Ctl) of    *)
(* one process that starts, stops and starts again.  It starts with the    *)
(* keys of its file; a reload leaves them alone.                           *)
(*                                                                         *)
(* MaxEvents bounds what comes from outside: edits, rotations, new         *)
(* bundles, reload requests, commands and stops.                           *)
(***************************************************************************)
EXTENDS Ctl

CONSTANT MaxEvents

ASSUME OperationsAssumption == MaxEvents \in Nat

VARIABLE events

vars == <<reloadVars, ctlVars, events>>

TypeOK == ReloadTypeOK /\ CtlTypeOK /\ events \in 0..MaxEvents

Init == ReloadInit /\ CtlInit /\ events = 0

Event == events < MaxEvents /\ events' = events + 1

Start == StartUp /\ LoadKeys /\ UNCHANGED events

Stop == Event /\ Crash /\ LoseKeys

World ==
    /\ Event
    /\ \/ \E file \in Files : Edit(file)
       \/ \E material \in Materials : Rotate(material)
       \/ Publish
       \/ \E r \in {"sighup", "admin"} : Begin(r)
    /\ UNCHANGED ctlVars

Proceed ==
    /\ \/ Poll
       \/ \E r \in Reloaders : ReadMaterial(r) \/ SwapMaterial(r) \/ Store(r)
    /\ UNCHANGED <<ctlVars, events>>

Command ==
    /\ Event
    /\ \/ \E o \in Operators, token \in BOOLEAN :
            \/ \E expires_at \in Expiries : key_create_online(o, expires_at, token)
            \/ \E id \in KeyIds : key_revoke(o, id, token)
       \/ \E expires_at \in Expiries : key_create_offline(expires_at)
    /\ UNCHANGED reloadVars

Serve ==
    /\ \/ \E o \in Operators :
            \/ create_key(o)
            \/ delete_key(o)
            \/ Audit(o)
            \/ require_admin_token(o)
            \/ AdminClient_create_key(o)
            \/ AdminClient_revoke_key(o)
            \/ Lose(o)
       \/ PullKeys
    /\ UNCHANGED <<reloadVars, events>>

Next == Start \/ Stop \/ World \/ Proceed \/ Command \/ Serve

Spec == Init /\ [][Next]_vars
-----------------------------------------------------------------------------
(* The inductive invariant of the whole: the two parts share the gateway,  *)
(* whose mode decides who owns the keys.                                   *)
IInv == ReloadInv /\ CtlInv /\ events \in 0..MaxEvents
=============================================================================
