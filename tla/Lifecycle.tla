----------------------------- MODULE Lifecycle -----------------------------
(***************************************************************************)
(* The gateway process (main.rs): startup, the two servers and their       *)
(* graceful drain with its hard cap, and the readiness prober.             *)
(*                                                                         *)
(* run binds the admin listener itself, but the proxy listener is bound    *)
(* by the proxy's own task, next to the prober's.  One signal goes to both *)
(* servers through a watch channel, which keeps it for a server that is    *)
(* not listening yet.  Requests may last for ever: nothing is assumed of   *)
(* clients and providers.                                                  *)
(***************************************************************************)
EXTENDS Naturals

CONSTANTS
    Connectors,     \* connectors that can be probed
    Backing,        \* generation of the runtime -> connectors backing its models
    Requests        \* slots for requests in flight, of either API

Generations == DOMAIN Backing

ASSUME LifecycleAssumption ==
    /\ Generations # {}
    /\ \A g \in Generations : Backing[g] \subseteq Connectors

VARIABLES
    main,       \* where run is
    tls,        \* whether listen.tls is configured
    server,     \* the state of the task of each server
    shutdown,   \* the value in the watch channel
    elapsed,    \* drain_timeout has passed since the signal
    exit,       \* how the process ended
    requests,   \* slot -> the server that handles it, or what became of it
    runtime,    \* generation behind the runtime handle
    up,         \* connector -> whether its provider answers now
    probe,      \* the prober: connectors still to answer, and the verdict so far
    ready       \* AppState::ready

vars == <<main, tls, server, shutdown, elapsed, exit, requests, runtime, up, probe, ready>>
process == <<main, tls, server, shutdown, elapsed, exit, requests>>
readiness == <<probe, ready>>
environment == <<runtime, up>>

Servers == {"proxy", "admin"}
NotProbing == [pc |-> "none", pending |-> {}, any |-> FALSE]

TypeOK ==
    /\ main \in {"build", "bind_admin", "join", "exited"}
    /\ tls \in BOOLEAN
    /\ server \in [Servers -> {"none", "starting", "serving", "draining", "failed", "done"}]
    /\ server["admin"] # "failed"
    /\ shutdown \in BOOLEAN /\ elapsed \in BOOLEAN
    /\ exit \in {"none", "ok", "error", "forced"}
    /\ (main = "exited") = (exit # "none")
    /\ requests \in [Requests -> {"free", "cut"} \cup Servers]
    /\ runtime \in Generations
    /\ up \in [Connectors -> BOOLEAN]
    /\ probe \in [pc : {"none", "load", "probing"}, pending : SUBSET Connectors, any : BOOLEAN]
    /\ ready \in BOOLEAN

Init ==
    /\ main = "build"
    /\ tls \in BOOLEAN
    /\ server = [s \in Servers |-> "none"]
    /\ shutdown = FALSE
    /\ elapsed = FALSE
    /\ exit = "none"
    /\ requests = [r \in Requests |-> "free"]
    /\ runtime \in Generations
    /\ up \in [Connectors -> BOOLEAN]
    /\ probe = NotProbing
    /\ ready = FALSE
-----------------------------------------------------------------------------
(***************************************************************************)
(* run.                                                                    *)
(***************************************************************************)

(* The process ends, and with it every task and every open connection. *)
Exit(how) ==
    /\ main' = "exited"
    /\ exit' = how
    /\ requests' = [r \in Requests |-> IF requests[r] \in Servers THEN "cut" ELSE requests[r]]
    /\ probe' = NotProbing
    /\ UNCHANGED <<tls, server, shutdown, elapsed, ready>>
    /\ UNCHANGED environment

(* Addresses, runtime and TLS material; a fault in any of them ends it. *)
Build ==
    /\ main = "build"
    /\ \/ /\ main' = "bind_admin"
          /\ UNCHANGED <<tls, server, shutdown, elapsed, exit, requests>>
          /\ UNCHANGED readiness /\ UNCHANGED environment
       \/ Exit("error")

(* TcpListener::bind for the admin API, and the tasks that follow it. *)
BindAdmin ==
    /\ main = "bind_admin"
    /\ \/ /\ main' = "join"
          /\ server' = [proxy |-> "starting", admin |-> "serving"]
          /\ probe' = [NotProbing EXCEPT !.pc = "load"]
          /\ UNCHANGED <<tls, shutdown, elapsed, exit, requests, ready>>
          /\ UNCHANGED environment
       \/ Exit("error")

Become(s, state) ==
    /\ server' = [server EXCEPT ![s] = state]
    /\ UNCHANGED <<main, tls, shutdown, elapsed, exit, requests>>
    /\ UNCHANGED readiness /\ UNCHANGED environment

(* The proxy's task binds its listener, or returns the error. *)
BindProxy ==
    /\ main = "join"
    /\ server["proxy"] = "starting"
    /\ \/ Become("proxy", "serving")
       \/ Become("proxy", "failed")

(* Mutant: the first server to end takes the process with it. *)
Joined_first ==
    /\ main = "join"
    /\ \E s \in Servers : server[s] \in {"done", "failed"}
    /\ Exit("ok")

(* Mutant: the results of the tasks, inside those of the join, are not     *)
(* looked at.                                                              *)
Joined_results_dropped ==
    /\ main = "join"
    /\ server["proxy"] \in {"done", "failed"}
    /\ server["admin"] = "done"
    /\ Exit("ok")

(* try_join! waits for both tasks: a task that returned an error is a task *)
(* that did not panic.                                                     *)
Joined ==
    /\ main = "join"
    /\ server["proxy"] \in {"done", "failed"}
    /\ server["admin"] = "done"
    /\ Exit(IF server["proxy"] = "failed" THEN "error" ELSE "ok")
-----------------------------------------------------------------------------
(***************************************************************************)
(* Requests and the drain.                                                 *)
(***************************************************************************)

Accept(s, r) ==
    /\ main = "join"
    /\ server[s] = "serving"
    /\ requests[r] = "free"
    /\ requests' = [requests EXCEPT ![r] = s]
    /\ UNCHANGED <<main, tls, server, shutdown, elapsed, exit>>
    /\ UNCHANGED readiness /\ UNCHANGED environment

Finish(r) ==
    /\ main = "join"
    /\ requests[r] \in Servers
    /\ requests' = [requests EXCEPT ![r] = "free"]
    /\ UNCHANGED <<main, tls, server, shutdown, elapsed, exit>>
    /\ UNCHANGED readiness /\ UNCHANGED environment

(* shutdown_signal returned: tx.send(true), and the timer starts. *)
Signal ==
    /\ main = "join"
    /\ ~ shutdown
    /\ shutdown' = TRUE
    /\ UNCHANGED <<main, tls, server, elapsed, exit, requests>>
    /\ UNCHANGED readiness /\ UNCHANGED environment

(* rx.changed() returned, for a server that is up. *)
StopAccepting(s) ==
    /\ main = "join"
    /\ shutdown
    /\ server[s] = "serving"
    /\ Become(s, "draining")

Drained(s) ==
    /\ main = "join"
    /\ server[s] = "draining"
    /\ \A r \in Requests : requests[r] # s
    /\ Become(s, "done")

Elapse ==
    /\ main = "join"
    /\ shutdown /\ ~ elapsed
    /\ elapsed' = TRUE
    /\ UNCHANGED <<main, tls, server, shutdown, exit, requests>>
    /\ UNCHANGED readiness /\ UNCHANGED environment

(* graceful_shutdown(Some(drain_timeout)) of the TLS server: connections   *)
(* that are left are closed.                                               *)
TlsCutOff ==
    /\ main = "join"
    /\ tls /\ elapsed
    /\ server["proxy"] = "draining"
    /\ server' = [server EXCEPT !["proxy"] = "done"]
    /\ requests' = [r \in Requests |-> IF requests[r] = "proxy" THEN "cut" ELSE requests[r]]
    /\ UNCHANGED <<main, tls, shutdown, elapsed, exit>>
    /\ UNCHANGED readiness /\ UNCHANGED environment

(* Mutant: the cap is left to the servers, as axum_server has one. *)
ForceExit_tls_only ==
    /\ main = "join"
    /\ elapsed /\ tls
    /\ Exit("forced")

(* std::process::exit(0) at the end of the drain timeout. *)
ForceExit ==
    /\ main = "join"
    /\ elapsed
    /\ Exit("forced")
-----------------------------------------------------------------------------
(***************************************************************************)
(* The readiness prober.                                                   *)
(***************************************************************************)

(* Mutant: the connector is taken from the runtime once, before the loop,  *)
(* so that a reload does not change what is probed.                        *)
ProbeStart_first_generation ==
    /\ main = "join"
    /\ probe.pc = "load"
    /\ probe' = [pc |-> "probing", pending |-> Backing[CHOOSE g \in Generations : TRUE],
                 any |-> Backing[CHOOSE g \in Generations : TRUE] = {}]
    /\ UNCHANGED ready
    /\ UNCHANGED process /\ UNCHANGED environment

(* runtime.load() and Registry::reachable up to its await: the distinct    *)
(* connectors behind the models; none at all counts as reachable.          *)
ProbeStart ==
    /\ main = "join"
    /\ probe.pc = "load"
    /\ probe' = [pc |-> "probing", pending |-> Backing[runtime], any |-> Backing[runtime] = {}]
    /\ UNCHANGED ready
    /\ UNCHANGED process /\ UNCHANGED environment

(* One connector's reachable(), which has a timeout of its own. *)
ProbeReply(c) ==
    /\ main = "join"
    /\ c \in probe.pending
    /\ probe' = [probe EXCEPT !.pending = @ \ {c}, !.any = @ \/ up[c]]
    /\ UNCHANGED ready
    /\ UNCHANGED process /\ UNCHANGED environment

(* set_ready once all have answered, then the pause between two rounds. *)
SetReady ==
    /\ main = "join"
    /\ probe.pc = "probing" /\ probe.pending = {}
    /\ ready' = probe.any
    /\ probe' = [NotProbing EXCEPT !.pc = "load"]
    /\ UNCHANGED process /\ UNCHANGED environment

(* A reload, of whatever origin, while the process runs. *)
Reload(g) ==
    /\ main \in {"bind_admin", "join"}
    /\ g # runtime
    /\ runtime' = g
    /\ UNCHANGED up
    /\ UNCHANGED process /\ UNCHANGED readiness

(* A provider goes down or comes back. *)
Flip(c) ==
    /\ main # "exited"
    /\ up' = [up EXCEPT ![c] = ~ @]
    /\ UNCHANGED runtime
    /\ UNCHANGED process /\ UNCHANGED readiness

Next ==
    \/ Build \/ BindAdmin \/ BindProxy \/ Joined
    \/ \E s \in Servers, r \in Requests : Accept(s, r)
    \/ \E r \in Requests : Finish(r)
    \/ Signal
    \/ \E s \in Servers : StopAccepting(s) \/ Drained(s)
    \/ Elapse \/ TlsCutOff \/ ForceExit
    \/ ProbeStart
    \/ \E c \in Connectors : ProbeReply(c)
    \/ SetReady
    \/ \E g \in Generations : Reload(g)
    \/ \E c \in Connectors : Flip(c)

(* Timers expire, and tasks that can go on do so; requests, signals and    *)
(* the outside world are free.                                             *)
Fairness ==
    /\ WF_vars(Build) /\ WF_vars(BindAdmin) /\ WF_vars(BindProxy) /\ WF_vars(Joined)
    /\ WF_vars(Elapse) /\ WF_vars(ForceExit)
    /\ WF_vars(ProbeStart) /\ WF_vars(SetReady)
    /\ \A c \in Connectors : WF_vars(ProbeReply(c))

Spec == Init /\ [][Next]_vars /\ Fairness
-----------------------------------------------------------------------------
(***************************************************************************)
(* Properties.                                                             *)
(***************************************************************************)

(* A request that was accepted is cut off only after the drain timeout has *)
(* passed: neither server's end takes the other's requests with it.        *)
CutOnlyAfterTimeout == (\E r \in Requests : requests[r] = "cut") => elapsed

(* What the process ends with is what happened: with success, if it is not *)
(* forced, only when it was told to and both servers went on to their end; *)
(* with an error only when the proxy was never there to serve anyone.      *)
ExitStatusIsTrue ==
    /\ exit = "ok" => shutdown /\ \A s \in Servers : server[s] = "done"
    /\ exit = "error" => server["proxy"] \in {"none", "failed"}

(***************************************************************************)
(* The inductive invariant behind these two: a request that is being       *)
(* handled is handled by a server that listens or drains, so a server that *)
(* has ended, or never began, has none; and no server drains untold.       *)
(***************************************************************************)
NoOrphans ==
    /\ \A r \in Requests : requests[r] \in Servers => server[requests[r]] \in {"serving", "draining"}
    /\ main \in {"build", "bind_admin"} => \A s \in Servers : server[s] = "none"

DrainIsTold == \A s \in Servers : server[s] \in {"draining", "done"} => shutdown

IInv == TypeOK /\ NoOrphans /\ DrainIsTold /\ CutOnlyAfterTimeout /\ ExitStatusIsTrue

(* Once it has been told to, the process ends, though requests of either   *)
(* server may never finish, and whether or not the proxy ever listened.    *)
ExitsAfterSignal == shutdown ~> main = "exited"

Reachable(g, u) == Backing[g] = {} \/ \E c \in Backing[g] : u[c]

(* When neither configuration nor providers change any more, /admin/readyz *)
(* settles on whether a provider of the current configuration answers,     *)
(* whatever reloads and outages came before, or during a round of probes.  *)
ReadinessSettles ==
    \A g \in Generations, u \in [Connectors -> BOOLEAN] :
        <>[](main = "join" /\ runtime = g /\ up = u) => <>[](ready = Reachable(g, u))
=============================================================================
