-------------------------- MODULE LifecycleProofs --------------------------
(***************************************************************************)
(* Proofs about module Lifecycle, for every set of requests, connectors    *)
(* and generations of the runtime.                                         *)
(***************************************************************************)
EXTENDS Lifecycle, TLAPS

(* The start of the process satisfies the invariant. *)
LEMMA InitOK == Init => IInv
<1> SUFFICES ASSUME Init PROVE IInv
    OBVIOUS
<1>1. server \in [Servers -> {"none", "starting", "serving", "draining", "failed", "done"}]
      /\ server["admin"] # "failed" /\ server["proxy"] = "none" /\ server["admin"] = "none"
    BY DEF Init, Servers
<1>2. probe \in [pc : {"none", "load", "probing"}, pending : SUBSET Connectors, any : BOOLEAN]
    BY DEF Init, NotProbing
<1>3. TypeOK
    BY <1>1, <1>2 DEF Init, TypeOK
<1>4. NoOrphans /\ DrainIsTold /\ CutOnlyAfterTimeout /\ ExitStatusIsTrue
    BY <1>1 DEF Init, NoOrphans, DrainIsTold, CutOnlyAfterTimeout, ExitStatusIsTrue, Servers
<1>5. QED
    BY <1>3, <1>4 DEF IInv

(* Exit ends requests only if the drain timeout has passed or there are    *)
(* none; that is what its callers have to show.                            *)
LEMMA ExitOK ==
    ASSUME IInv, NEW how \in {"ok", "error", "forced"}, Exit(how),
           elapsed \/ \A r \in Requests : requests[r] \notin Servers,
           how = "ok" => \A s \in Servers : server[s] = "done",
           how = "error" => server["proxy"] \in {"none", "failed"}
    PROVE  IInv'
<1>1. TypeOK'
    BY DEF IInv, TypeOK, Exit, environment, Servers, NotProbing
<1>2. NoOrphans'
    BY DEF IInv, TypeOK, NoOrphans, Exit, Servers
<1>3. CutOnlyAfterTimeout'
    BY DEF IInv, TypeOK, CutOnlyAfterTimeout, Exit
<1>4. DrainIsTold' /\ ExitStatusIsTrue'
    BY DEF IInv, DrainIsTold, ExitStatusIsTrue, Exit, Servers
<1>5. QED
    BY <1>1, <1>2, <1>3, <1>4 DEF IInv

(* A server's task goes on to a state in which it still has its requests,  *)
(* or has none to lose.                                                    *)
LEMMA BecomeOK ==
    ASSUME IInv, main = "join", NEW s \in Servers,
           NEW state \in {"serving", "draining", "failed", "done"}, Become(s, state),
           state = "failed" => s = "proxy",
           state \in {"draining", "done"} => shutdown,
           state \in {"failed", "done"} => \A r \in Requests : requests[r] # s
    PROVE  IInv'
<1>1. TypeOK'
    BY DEF IInv, TypeOK, Become, readiness, environment, Servers
<1>2. NoOrphans'
    BY DEF IInv, TypeOK, NoOrphans, Become, Servers
<1>3. CutOnlyAfterTimeout'
    BY DEF IInv, TypeOK, CutOnlyAfterTimeout, Become
<1>4. DrainIsTold' /\ ExitStatusIsTrue'
    BY DEF IInv, TypeOK, DrainIsTold, ExitStatusIsTrue, Become
<1>5. QED
    BY <1>1, <1>2, <1>3, <1>4 DEF IInv

(* Every step of the process keeps the invariant. *)
LEMMA StepOK == IInv /\ [Next]_vars => IInv'
<1> SUFFICES ASSUME IInv, [Next]_vars PROVE IInv'
    OBVIOUS
<1> USE DEF IInv
<1>1. CASE Build
    <2>1. \A r \in Requests : requests[r] \notin Servers
        BY <1>1 DEF Build, NoOrphans, Servers
    <2>2. CASE Exit("error")
        BY <1>1, <2>1, <2>2, ExitOK DEF Build, NoOrphans, Servers
    <2>3. CASE main' = "bind_admin" /\ UNCHANGED <<tls, server, shutdown, elapsed, exit, requests>>
               /\ UNCHANGED readiness /\ UNCHANGED environment
        BY <1>1, <2>3 DEF Build, TypeOK, NoOrphans, DrainIsTold, CutOnlyAfterTimeout, ExitStatusIsTrue, readiness, environment
    <2>4. QED
        BY <1>1, <2>2, <2>3 DEF Build
<1>2. CASE BindAdmin
    <2>1. \A r \in Requests : requests[r] \notin Servers
        BY <1>2 DEF BindAdmin, NoOrphans, Servers
    <2>2. CASE Exit("error")
        BY <1>2, <2>1, <2>2, ExitOK DEF BindAdmin, NoOrphans, Servers
    <2>3. CASE /\ main' = "join"
               /\ server' = [proxy |-> "starting", admin |-> "serving"]
               /\ probe' = [NotProbing EXCEPT !.pc = "load"]
               /\ UNCHANGED <<tls, shutdown, elapsed, exit, requests, ready>>
               /\ UNCHANGED environment
        <3>1. server' \in [Servers -> {"none", "starting", "serving", "draining", "failed", "done"}]
              /\ server'["admin"] # "failed"
            BY <2>3 DEF Servers
        <3>2. probe' \in [pc : {"none", "load", "probing"}, pending : SUBSET Connectors, any : BOOLEAN]
            BY <2>3 DEF NotProbing
        <3>3. TypeOK'
            BY <1>2, <2>3, <3>1, <3>2 DEF BindAdmin, TypeOK, environment
        <3>4. NoOrphans' /\ DrainIsTold' /\ CutOnlyAfterTimeout' /\ ExitStatusIsTrue'
            BY <1>2, <2>1, <2>3 DEF BindAdmin, TypeOK, NoOrphans, DrainIsTold, CutOnlyAfterTimeout,
                                    ExitStatusIsTrue, Servers
        <3>5. QED
            BY <3>3, <3>4
    <2>4. QED
        BY <1>2, <2>2, <2>3 DEF BindAdmin
<1>3. CASE BindProxy
    <2>1. \A r \in Requests : requests[r] # "proxy"
        BY <1>3 DEF BindProxy, NoOrphans, Servers
    <2>2. QED
        BY <1>3, <2>1, BecomeOK DEF BindProxy, Servers
<1>4. CASE Joined
    <2>1. \A r \in Requests : requests[r] \notin Servers
        BY <1>4 DEF Joined, NoOrphans, Servers
    <2>2. QED
        BY <1>4, <2>1, ExitOK DEF Joined, Servers
<1>5. ASSUME NEW s \in Servers, NEW r \in Requests, Accept(s, r) PROVE IInv'
    BY <1>5 DEF Accept, TypeOK, NoOrphans, DrainIsTold, CutOnlyAfterTimeout, ExitStatusIsTrue, readiness, environment, Servers
<1>6. ASSUME NEW r \in Requests, Finish(r) PROVE IInv'
    BY <1>6 DEF Finish, TypeOK, NoOrphans, DrainIsTold, CutOnlyAfterTimeout, ExitStatusIsTrue, readiness, environment, Servers
<1>7. CASE Signal
    BY <1>7 DEF Signal, TypeOK, NoOrphans, DrainIsTold, CutOnlyAfterTimeout, ExitStatusIsTrue, readiness, environment
<1>8. ASSUME NEW s \in Servers, StopAccepting(s) PROVE IInv'
    BY <1>8, BecomeOK DEF StopAccepting
<1>9. ASSUME NEW s \in Servers, Drained(s) PROVE IInv'
    BY <1>9, BecomeOK DEF Drained, DrainIsTold
<1>10. CASE Elapse
    BY <1>10 DEF Elapse, TypeOK, NoOrphans, DrainIsTold, CutOnlyAfterTimeout, ExitStatusIsTrue, readiness, environment
<1>11. CASE TlsCutOff
    <2>1. TypeOK'
        BY <1>11 DEF TlsCutOff, TypeOK, readiness, environment, Servers
    <2>2. NoOrphans'
        BY <1>11 DEF TlsCutOff, TypeOK, NoOrphans, Servers
    <2>3. CutOnlyAfterTimeout'
        BY <1>11 DEF TlsCutOff, CutOnlyAfterTimeout
    <2>4. DrainIsTold' /\ ExitStatusIsTrue'
        BY <1>11 DEF TlsCutOff, TypeOK, DrainIsTold, ExitStatusIsTrue, Servers
    <2>5. QED
        BY <2>1, <2>2, <2>3, <2>4
<1>12. CASE ForceExit
    BY <1>12, ExitOK DEF ForceExit
<1>13. CASE ProbeStart
    BY <1>13, LifecycleAssumption
       DEF ProbeStart, TypeOK, NoOrphans, DrainIsTold, CutOnlyAfterTimeout, ExitStatusIsTrue, process, environment
<1>14. ASSUME NEW c \in Connectors, ProbeReply(c) PROVE IInv'
    BY <1>14 DEF ProbeReply, TypeOK, NoOrphans, DrainIsTold, CutOnlyAfterTimeout, ExitStatusIsTrue, process, environment
<1>15. CASE SetReady
    BY <1>15 DEF SetReady, TypeOK, NoOrphans, DrainIsTold, CutOnlyAfterTimeout, ExitStatusIsTrue, process, environment, NotProbing
<1>16. ASSUME NEW g \in Generations, Reload(g) PROVE IInv'
    BY <1>16 DEF Reload, TypeOK, NoOrphans, DrainIsTold, CutOnlyAfterTimeout, ExitStatusIsTrue, process, readiness
<1>17. ASSUME NEW c \in Connectors, Flip(c) PROVE IInv'
    BY <1>17 DEF Flip, TypeOK, NoOrphans, DrainIsTold, CutOnlyAfterTimeout, ExitStatusIsTrue, process, readiness
<1>18. CASE UNCHANGED vars
    BY <1>18 DEF vars, TypeOK, NoOrphans, DrainIsTold, CutOnlyAfterTimeout, ExitStatusIsTrue
<1>19. QED
    BY <1>1, <1>2, <1>3, <1>4, <1>5, <1>6, <1>7, <1>8, <1>9, <1>10, <1>11, <1>12, <1>13,
       <1>14, <1>15, <1>16, <1>17, <1>18 DEF Next

(* However listeners fail, servers end and signals come, a request that    *)
(* was accepted is cut off only after the drain timeout has passed.        *)
THEOREM NothingIsCutEarly == Spec => []CutOnlyAfterTimeout
<1>1. IInv => CutOnlyAfterTimeout
    BY DEF IInv
<1>2. QED
    BY <1>1, InitOK, StepOK, PTL DEF Spec

(* The status that main returns tells a drain that ran its course from a   *)
(* start, or a proxy listener, that failed.                                *)
THEOREM StatusIsTold == Spec => []ExitStatusIsTrue
<1>1. IInv => ExitStatusIsTrue
    BY DEF IInv
<1>2. QED
    BY <1>1, InitOK, StepOK, PTL DEF Spec
=============================================================================
