---------------------------- MODULE ControlPlane ----------------------------
(***************************************************************************)
(* The Control Node link of api mode: ControlNodeClient's poll loop        *)
(* (control_plane/client.rs), the link status that GET /admin/status shows *)
(* (control_plane/status.rs) and the way api mode starts                   *)
(* (control_plane.rs).                                                     *)
(*                                                                         *)
(* The client is one sequential task.  Each poll is two steps, since the   *)
(* Control Node may publish, fail or recover, and an operator may reload   *)
(* the local file or edit the keys, between the moment it answers and the  *)
(* moment the client applies the answer: the Control Node answers, from    *)
(* its state at that moment and the ETag in the request; then the client   *)
(* applies the answer.  A request that gets no answer within               *)
(* REQUEST_TIMEOUT is a "transport" failure.                               *)
(*                                                                         *)
(* Data abstraction: a bundle or key set is its version, and the ETag of a *)
(* version is the version itself; a bundle either builds or never does;    *)
(* config_reloaded audit events, log lines and times are left out.         *)
(***************************************************************************)
EXTENDS Integers

CONSTANTS
    None,          \* Rust's Option::None
    Local,         \* what the gateway's own file or its operator set up
    Versions,      \* versions of config bundles and of key sets
    Broken,        \* config versions that build_runtime rejects
    Faults,        \* what may be wrong with the Control Node or the path to it
    Startups,      \* ways to start: "file", "not_started", "api"
    LocalEdits,    \* resources that operators change in place, beside the link
    MaxFailures    \* where consecutive_failures saturates (u32::MAX in the code)

VARIABLES
    cn,         \* the Control Node: current versions, current fault
    client,     \* ControlNodeClient: program counter, ETags, answer, results
    serving,    \* the version in the RuntimeHandle and in the KeyStore
    status,     \* status::Inner
    \* History, read by properties only:
    followed,   \* the version that the Control Node had at its last good answer
    edited,     \* the resources that were edited in place since they were applied
    audited     \* the last control_plane.sync event, and the parity of their number

vars == <<cn, client, serving, status, followed, edited, audited>>

Resources == {"config", "keys"}

Reason == {"not_started", "unauthorized", "transport", "unexpected_status",
           "invalid_body", "build_failed"}

ASSUME ControlPlaneAssumption ==
    /\ Broken \subseteq Versions
    /\ Faults \subseteq {"unauthorized", "transport", "unexpected_status", "invalid_body"}
    /\ Startups \subseteq {"file", "not_started", "api"}
    /\ LocalEdits \subseteq Resources
    /\ MaxFailures \in Nat \ {0}
    /\ None \notin Versions /\ Local \notin Versions /\ None # Local
    /\ None \notin Reason

Version == Versions \cup {None}
Result == [reason : Reason \cup {None}, version : Version]
Answer == [reason : Reason \cup {None}, version : Version, etag : Version]
SyncFailure == [resource : Resources, reason : Reason]

TypeOK ==
    /\ cn \in [config : Versions, keys : Versions, fault : Faults \cup {None}]
    /\ client \in [pc : {"off", "identity", "sleep", "fetch", "apply", "record"},
                   at : Resources, etag : [Resources -> Version],
                   answer : Answer, result : [Resources -> Result]]
    /\ serving \in [Resources -> Versions \cup {Local}]
    /\ status \in [state : {"file", "pending", "synced", "degraded"},
                   version : [Resources -> Version], identity : BOOLEAN,
                   last_failure : SyncFailure \cup {None},
                   consecutive_failures : 0..MaxFailures]
    /\ followed \in [Resources -> Version]
    /\ edited \in SUBSET LocalEdits
    /\ audited \in [outcome : {"none", "success", "failure"},
                    failure : SyncFailure \cup {None}, parity : {0, 1}]

NoAnswer == [reason |-> None, version |-> None, etag |-> None]
Ok(version) == [reason |-> None, version |-> version]
Err(reason) == [reason |-> reason, version |-> None]

(* control_plane::start: file mode, api mode without its prerequisites, or *)
(* api mode with a client.                                                 *)
Init ==
    /\ cn \in [config : Versions, keys : Versions, fault : Faults \cup {None}]
    /\ serving = [res \in Resources |-> Local]
    /\ \E startup \in Startups :
          /\ client = [pc |-> IF startup = "api" THEN "identity" ELSE "off",
                       at |-> "config", etag |-> [res \in Resources |-> None],
                       answer |-> NoAnswer, result |-> [res \in Resources |-> Ok(None)]]
          /\ status =
                [state |-> CASE startup = "file" -> "file"
                             [] startup = "api" -> "pending"
                             [] startup = "not_started" -> "degraded",
                 version |-> [res \in Resources |-> None], identity |-> FALSE,
                 last_failure |-> IF startup = "not_started"
                                  THEN [resource |-> "config", reason |-> "not_started"]
                                  ELSE None,
                 consecutive_failures |-> 0]
    /\ followed = [res \in Resources |-> None]
    /\ edited = {}
    /\ audited = [outcome |-> "none", failure |-> None, parity |-> 0]
-----------------------------------------------------------------------------
(***************************************************************************)
(* The client.                                                             *)
(***************************************************************************)

(* log_identity: one attempt, never fatal. *)
LogIdentity ==
    /\ client.pc = "identity"
    /\ client' = [client EXCEPT !.pc = "sleep"]
    /\ \E known \in {FALSE, cn.fault = None} : status' = [status EXCEPT !.identity = known]
    /\ UNCHANGED <<cn, serving, followed, edited, audited>>

(* The loop in run starts a tick. *)
Wake ==
    /\ client.pc = "sleep"
    /\ client' = [client EXCEPT !.pc = "fetch", !.at = "config"]
    /\ UNCHANGED <<cn, serving, status, followed, edited, audited>>

(* fetch: what a conditional GET can come back with.  A 200 may lack the   *)
(* ETag header.                                                            *)
answers(res) ==
    IF cn.fault # None
    THEN {[reason |-> cn.fault, version |-> None, etag |-> None]}
    ELSE IF client.etag[res] = cn[res]
    THEN {NoAnswer}
    ELSE {[reason |-> None, version |-> cn[res], etag |-> etag] : etag \in {cn[res], None}}

Fetch ==
    /\ client.pc = "fetch"
    /\ \E answer \in answers(client.at) :
          client' = [client EXCEPT !.pc = "apply", !.answer = answer]
    /\ followed' = IF cn.fault = None THEN [followed EXCEPT ![client.at] = cn[client.at]]
                   ELSE followed
    /\ UNCHANGED <<cn, serving, status, edited, audited>>

builds(res, version) == res = "config" => version \notin Broken

(* The client goes on with the next resource, or with record_tick. *)
Polled(result, etag) ==
    client' = [client EXCEPT
                 !.pc = IF client.at = "config" THEN "fetch" ELSE "record",
                 !.at = "keys", !.etag[client.at] = etag,
                 !.answer = NoAnswer, !.result[client.at] = result]

(* Mutant: the ETag is committed whether or not the bundle builds. *)
ApplyNothing_commits ==
    LET answer == client.answer
    IN  /\ client.pc = "apply"
        /\ answer.version # None => ~ builds(client.at, answer.version)
        /\ Polled(CASE answer.reason # None  -> Err(answer.reason)
                    [] answer.version # None -> Err("build_failed")
                    [] OTHER                 -> Ok(None),
                  IF answer.version # None THEN answer.etag ELSE client.etag[client.at])
        /\ UNCHANGED <<cn, serving, status, followed, edited, audited>>

(* poll_config and poll_keys when nothing is to be applied: 304, a failed  *)
(* fetch, or a bundle that does not build, whose ETag is not committed.    *)
ApplyNothing ==
    LET answer == client.answer
    IN  /\ client.pc = "apply"
        /\ answer.version # None => ~ builds(client.at, answer.version)
        /\ Polled(CASE answer.reason # None  -> Err(answer.reason)
                    [] answer.version # None -> Err("build_failed")
                    [] OTHER                 -> Ok(None),
                  client.etag[client.at])
        /\ UNCHANGED <<cn, serving, status, followed, edited, audited>>

(* ... and when a new bundle or key set goes live: RuntimeHandle::store or *)
(* KeyStore::replace_all, then the ETag.                                   *)
ApplyModified ==
    LET answer == client.answer
    IN  /\ client.pc = "apply"
        /\ answer.version # None
        /\ builds(client.at, answer.version)
        /\ serving' = [serving EXCEPT ![client.at] = answer.version]
        /\ Polled(Ok(answer.version), answer.etag)
        /\ edited' = edited \ {client.at}
        /\ UNCHANGED <<cn, status, followed, audited>>

(* record_tick: the failure to surface, config's before keys'. *)
failures ==
    LET failed == {res \in Resources : client.result[res].reason # None}
        first  == IF "config" \in failed THEN "config" ELSE "keys"
    IN  {[resource |-> res, reason |-> client.result[res].reason] : res \in failed \cap {first}}

(* Mutant: a failing tick discards the version that it did apply. *)
versions_all_or_nothing ==
    [res \in Resources |->
        IF client.result[res].version # None /\ failures = {} THEN client.result[res].version
        ELSE status.version[res]]

(* Versions update independently. *)
versions ==
    [res \in Resources |->
        IF client.result[res].version # None THEN client.result[res].version
        ELSE status.version[res]]

Audit(outcome, failure) ==
    audited' = [outcome |-> outcome, failure |-> failure, parity |-> 1 - audited.parity]

(* Mutant: consecutive_failures does not saturate. *)
failure_count_unbounded == status.consecutive_failures + 1

failure_count ==
    IF status.consecutive_failures < MaxFailures THEN status.consecutive_failures + 1
    ELSE MaxFailures

(* Mutant: the transition depends on the shape of the failure alone. *)
is_transition_by_shape(failure) == status.last_failure # failure

is_transition(failure) == status.state # "degraded" \/ status.last_failure # failure

(* Mutant: the poll loop ends with the first failing tick. *)
TickFails_ends_loop ==
    /\ client.pc = "record"
    /\ \E failure \in failures :
          /\ status' = [status EXCEPT !.state = "degraded", !.version = versions,
                                      !.last_failure = failure,
                                      !.consecutive_failures = failure_count]
          /\ IF is_transition(failure) THEN Audit("failure", failure) ELSE UNCHANGED audited
    /\ client' = [client EXCEPT !.pc = "off"]
    /\ UNCHANGED <<cn, serving, followed, edited>>

(* tick's call of record_tick, and the audit event for its transition. *)
TickFails ==
    /\ client.pc = "record"
    /\ \E failure \in failures :
          /\ status' = [status EXCEPT !.state = "degraded", !.version = versions,
                                      !.last_failure = failure,
                                      !.consecutive_failures = failure_count]
          /\ IF is_transition(failure) THEN Audit("failure", failure) ELSE UNCHANGED audited
    /\ client' = [client EXCEPT !.pc = "sleep"]
    /\ UNCHANGED <<cn, serving, followed, edited>>

TickSucceeds ==
    /\ client.pc = "record"
    /\ failures = {}
    /\ status' = [status EXCEPT !.state = "synced", !.version = versions,
                                !.consecutive_failures = 0]
    /\ IF status.state = "degraded" THEN Audit("success", None) ELSE UNCHANGED audited
    /\ client' = [client EXCEPT !.pc = "sleep"]
    /\ UNCHANGED <<cn, serving, followed, edited>>

Client ==
    \/ LogIdentity \/ Wake \/ Fetch \/ ApplyNothing \/ ApplyModified
    \/ TickFails \/ TickSucceeds
-----------------------------------------------------------------------------
(***************************************************************************)
(* The surroundings.                                                       *)
(***************************************************************************)

(* The Control Node publishes a bundle, a key set, or both at once. *)
Publish(config, keys) ==
    /\ cn' = [cn EXCEPT !.config = config, !.keys = keys]
    /\ UNCHANGED <<client, serving, status, followed, edited, audited>>

(* The Control Node, the network or the token fails, or recovers. *)
Fault(fault) ==
    /\ cn' = [cn EXCEPT !.fault = fault]
    /\ UNCHANGED <<client, serving, status, followed, edited, audited>>

(* POST /admin/config/reload or SIGHUP stores a runtime built from the     *)
(* local file; POST or DELETE /admin/keys changes the key store.           *)
LocalEdit(res) ==
    /\ serving' = [serving EXCEPT ![res] = Local]
    /\ edited' = edited \cup {res}
    /\ UNCHANGED <<cn, client, status, followed, audited>>

Next ==
    \/ Client
    \/ \E config, keys \in Versions : Publish(config, keys)
    \/ \E fault \in Faults \cup {None} : Fault(fault)
    \/ \E res \in LocalEdits : LocalEdit(res)

Spec == Init /\ [][Next]_vars

(* The loop runs on its own tokio task; every request it makes ends by     *)
(* REQUEST_TIMEOUT, and its sleep ends after the interval.                 *)
FairSpec == Spec /\ WF_vars(Client)
-----------------------------------------------------------------------------
(***************************************************************************)
(* Properties.                                                             *)
(***************************************************************************)

(* "Synced" is true: between ticks, a link that shows as synced serves the *)
(* very config and keys that the Control Node had when it answered the     *)
(* last polls, 304 answers included, except for what was edited in place.  *)
(* (An ETag is committed only after its resource has been applied.)        *)
SyncedMeansFollowed ==
    status.state = "synced" /\ client.pc = "sleep" =>
        \A res \in Resources \ edited : serving[res] = followed[res]

(* Between ticks, the status shows exactly the versions that are applied,  *)
(* whichever of the two polls failed or succeeded in whichever tick; local *)
(* config or keys show as no version, unless they replaced an applied one. *)
StatusShowsApplied ==
    client.pc = "sleep" =>
        \A res \in Resources \ edited :
            status.version[res] = IF serving[res] = Local THEN None ELSE serving[res]

(* The audit trail is that of the link.  Nothing is missing: between ticks *)
(* its last event is the very failure that the link is degraded by, and no *)
(* failure if the link is synced.  Nothing is repeated: control_plane.sync *)
(* events "fire on those transitions only", so a step that writes one      *)
(* changes the link's state or the shape of its failure.                   *)
AuditAgreesWithLink ==
    /\ [](client.pc = "sleep" =>
             /\ status.state = "degraded" =>
                   audited.outcome = "failure" /\ audited.failure = status.last_failure
             /\ status.state # "degraded" => audited.outcome # "failure")
    /\ [][audited' # audited =>
             \/ status'.state # status.state
             \/ status'.last_failure # status.last_failure]_vars

(***************************************************************************)
(* The inductive invariant behind these three.  In the middle of a tick    *)
(* the versions to be shown are those of the polls that are over and, for  *)
(* the rest, those of the status; an ETag stands for what is served; and   *)
(* an answer that is not a failure is of the version that was followed.    *)
(***************************************************************************)
Done(res) ==
    \/ client.pc = "record"
    \/ client.pc \in {"fetch", "apply"} /\ client.at = "keys" /\ res = "config"

Shown(res) ==
    IF Done(res) /\ client.result[res].version # None THEN client.result[res].version
    ELSE status.version[res]

AnswerInv ==
    LET answer == client.answer
    IN  client.pc = "apply" =>
          \/ answer.reason # None /\ answer.version = None
          \/ /\ answer.reason = None
             /\ answer.version # None /\ answer.version = followed[client.at]
             /\ answer.etag \in {answer.version, None}
          \/ /\ answer.reason = None
             /\ answer.version = None
             /\ client.etag[client.at] # None
             /\ client.etag[client.at] = followed[client.at]

ServedInv ==
    \A res \in Resources \ edited :
        /\ client.etag[res] # None => serving[res] = client.etag[res]
        /\ Shown(res) = IF serving[res] = Local THEN None ELSE serving[res]
        /\ Done(res) /\ client.result[res].reason = None => serving[res] = followed[res]

LinkInv ==
    /\ client.pc = "identity" => status.state = "pending"
    /\ client.pc # "off" =>
          /\ status.state = "degraded" =>
                audited.outcome = "failure" /\ audited.failure = status.last_failure
          /\ status.state # "degraded" => audited.outcome # "failure"

IInv == TypeOK /\ AnswerInv /\ ServedInv /\ SyncedMeansFollowed /\ LinkInv

(* If the client was started, then once the Control Node stays healthy and *)
(* keeps publishing a bundle that builds, the link ends up synced and the  *)
(* gateway serves just that bundle and key set, whatever failed before,    *)
(* except for what is edited in place.  An edit does not outlast the next  *)
(* publication: it is replaced again and again, unless the client already  *)
(* holds the ETag of what is published, so that every poll ends in 304.    *)
Converges ==
    \A config \in Versions \ Broken, keys \in Versions :
        /\ client.pc = "identity"
        /\ <>[](cn = [config |-> config, keys |-> keys, fault |-> None])
        => /\ <>[](/\ status.state = "synced"
                   /\ serving.config = config \/ "config" \in edited
                   /\ serving.keys = keys \/ "keys" \in edited)
           /\ []<>(serving.config = config \/ client.etag["config"] = config)
           /\ []<>(serving.keys = keys \/ client.etag["keys"] = keys)

(* In api mode, a Control Node that stays unreachable, or keeps publishing *)
(* bundles that do not build, ends up as a degraded link: the fallback to  *)
(* the last-known-good config does not stay silent.                        *)
OutageIsReported ==
    /\ status.state # "file"
    /\ <>[](cn.fault # None \/ cn.config \in Broken)
    => <>[](status.state = "degraded")
=============================================================================
