------------------------- MODULE ControlPlaneProofs -------------------------
(***************************************************************************)
(* Proofs about module ControlPlane, for every set of versions, of broken  *)
(* ones, of faults and of resources that operators edit in place.          *)
(***************************************************************************)
EXTENDS ControlPlane, TLAPS

Client0 == [pc : {"off", "identity", "sleep", "fetch", "apply", "record"}, at : Resources,
            etag : [Resources -> Version], answer : Answer, result : [Resources -> Result]]

(* What TypeOK says of the client, field by field. *)
LEMMA ClientFields ==
    ASSUME TypeOK
    PROVE  /\ client.at \in Resources /\ client.etag \in [Resources -> Version]
           /\ client.result \in [Resources -> Result] /\ client.answer \in Answer
           /\ client.pc \in {"off", "identity", "sleep", "fetch", "apply", "record"}
    BY DEF TypeOK

(* A poll that is over leaves its result and the ETag of its resource. *)
LEMMA PolledFields ==
    ASSUME TypeOK, NEW result \in Result, NEW etag \in Version, Polled(result, etag),
           client.pc = "apply"
    PROVE  /\ client' \in Client0
           /\ client'.pc = IF client.at = "config" THEN "fetch" ELSE "record"
           /\ client'.at = "keys"
           /\ client'.answer = NoAnswer
           /\ client'.etag = [client.etag EXCEPT ![client.at] = etag]
           /\ client'.result = [client.result EXCEPT ![client.at] = result]
<1>1. client' = [client EXCEPT !.pc = IF client.at = "config" THEN "fetch" ELSE "record",
                               !.at = "keys", !.etag = [client.etag EXCEPT ![client.at] = etag],
                               !.answer = NoAnswer,
                               !.result = [client.result EXCEPT ![client.at] = result]]
    BY DEF Polled
<1>2. NoAnswer \in Answer
    BY DEF NoAnswer, Answer, Version
<1>3. [client.etag EXCEPT ![client.at] = etag] \in [Resources -> Version]
      /\ [client.result EXCEPT ![client.at] = result] \in [Resources -> Result]
    BY ClientFields
<1>4. client \in Client0
    BY DEF TypeOK, Client0
<1>5. QED
    BY <1>1, <1>2, <1>3, <1>4 DEF Client0, Resources

(* The start of the gateway satisfies the invariant. *)
LEMMA InitOK == Init => IInv
<1> SUFFICES ASSUME Init PROVE IInv
    OBVIOUS
<1>1. PICK startup \in Startups :
        /\ client = [pc |-> IF startup = "api" THEN "identity" ELSE "off",
                     at |-> "config", etag |-> [res \in Resources |-> None],
                     answer |-> NoAnswer, result |-> [res \in Resources |-> Ok(None)]]
        /\ status = [state |-> CASE startup = "file" -> "file"
                                 [] startup = "api" -> "pending"
                                 [] startup = "not_started" -> "degraded",
                     version |-> [res \in Resources |-> None], identity |-> FALSE,
                     last_failure |-> IF startup = "not_started"
                                      THEN [resource |-> "config", reason |-> "not_started"]
                                      ELSE None,
                     consecutive_failures |-> 0]
    BY DEF Init
<1>2. startup \in {"file", "not_started", "api"}
    BY ControlPlaneAssumption
<1>3. client \in Client0
    BY <1>1 DEF Client0, Resources, NoAnswer, Answer, Ok, Result, Version
<1>4. status \in [state : {"file", "pending", "synced", "degraded"},
                  version : [Resources -> Version], identity : BOOLEAN,
                  last_failure : SyncFailure \cup {None}, consecutive_failures : 0..MaxFailures]
    <2>1. [resource |-> "config", reason |-> "not_started"] \in SyncFailure
        BY DEF SyncFailure, Resources, Reason
    <2>2. 0 \in 0..MaxFailures
        BY ControlPlaneAssumption
    <2>3. [res \in Resources |-> None] \in [Resources -> Version]
        BY DEF Version
    <2>4. QED
        BY <1>1, <1>2, <2>1, <2>2, <2>3
<1>5. TypeOK
    BY <1>3, <1>4 DEF Init, TypeOK, Client0, Version
<1>6. AnswerInv /\ ServedInv
    BY <1>1 DEF Init, AnswerInv, ServedInv, Shown, Done, Resources, Ok
<1>7. SyncedMeansFollowed /\ LinkInv
    BY <1>1, <1>2 DEF Init, SyncedMeansFollowed, LinkInv
<1>8. QED
    BY <1>5, <1>6, <1>7 DEF IInv
-----------------------------------------------------------------------------
(***************************************************************************)
(* One lemma per step of the client.                                       *)
(***************************************************************************)
LEMMA LogIdentityOK == IInv /\ LogIdentity => IInv'
<1> SUFFICES ASSUME IInv, LogIdentity PROVE IInv'
    OBVIOUS
<1>1. client' = [client EXCEPT !.pc = "sleep"] /\ client.pc = "identity"
    BY DEF LogIdentity
<1>2. PICK known \in BOOLEAN : status' = [status EXCEPT !.identity = known]
    BY DEF LogIdentity
<1>3. TypeOK'
    BY <1>1, <1>2 DEF LogIdentity, IInv, TypeOK
<1>4. status'.state = "pending" /\ status'.version = status.version
      /\ status'.last_failure = status.last_failure
    BY <1>1, <1>2 DEF IInv, TypeOK, LinkInv
<1>5. AnswerInv' /\ SyncedMeansFollowed' /\ LinkInv'
    BY <1>1, <1>4 DEF LogIdentity, IInv, TypeOK, AnswerInv, SyncedMeansFollowed, LinkInv
<1>6. ServedInv'
    BY <1>1, <1>4 DEF LogIdentity, IInv, TypeOK, ServedInv, Shown, Done
<1>7. QED
    BY <1>3, <1>5, <1>6 DEF IInv

LEMMA WakeOK == IInv /\ Wake => IInv'
<1> SUFFICES ASSUME IInv, Wake PROVE IInv'
    OBVIOUS
<1>1. client' = [client EXCEPT !.pc = "fetch", !.at = "config"] /\ client.pc = "sleep"
    BY DEF Wake
<1>2. TypeOK'
    BY <1>1 DEF Wake, IInv, TypeOK, Resources
<1>3. AnswerInv' /\ SyncedMeansFollowed' /\ LinkInv'
    BY <1>1 DEF Wake, IInv, TypeOK, AnswerInv, SyncedMeansFollowed, LinkInv
<1>4. ServedInv'
    BY <1>1 DEF Wake, IInv, TypeOK, ServedInv, Shown, Done
<1>5. QED
    BY <1>2, <1>3, <1>4 DEF IInv

LEMMA FetchOK == IInv /\ Fetch => IInv'
<1> SUFFICES ASSUME IInv, Fetch PROVE IInv'
    OBVIOUS
<1> DEFINE at == client.at
<1>1. PICK answer \in answers(at) : client' = [client EXCEPT !.pc = "apply", !.answer = answer]
    BY DEF Fetch
<1>2. at \in Resources /\ cn[at] \in Versions /\ cn[at] # None
    BY ControlPlaneAssumption DEF IInv, TypeOK, Resources
<1>3. answer \in Answer
    BY <1>2, ControlPlaneAssumption
       DEF answers, Answer, NoAnswer, Version, Reason, IInv, TypeOK
<1>4. client' \in Client0
    BY <1>1, <1>3 DEF IInv, TypeOK, Client0
<1>5. followed' = IF cn.fault = None THEN [followed EXCEPT ![at] = cn[at]] ELSE followed
    BY DEF Fetch
<1>6. TypeOK'
    BY <1>2, <1>4, <1>5 DEF Fetch, IInv, TypeOK, Client0, Version
<1>7. /\ client'.pc = "apply" /\ client'.at = at /\ client'.answer = answer
      /\ client'.etag = client.etag /\ client'.result = client.result
    BY <1>1 DEF IInv, TypeOK
<1>8. AnswerInv'
    <2>1. CASE cn.fault # None
        BY <1>7, <2>1 DEF answers, AnswerInv
    <2>2. CASE cn.fault = None /\ client.etag[at] = cn[at]
        BY <1>2, <1>5, <1>7, <2>2 DEF answers, AnswerInv, NoAnswer, IInv, TypeOK
    <2>3. CASE cn.fault = None /\ client.etag[at] # cn[at]
        <3>1. answer.reason = None /\ answer.version = cn[at] /\ answer.etag \in {cn[at], None}
            BY <2>3 DEF answers
        <3>2. followed'[at] = cn[at]
            BY <1>2, <1>5, <2>3 DEF IInv, TypeOK
        <3>3. QED
            BY <1>2, <1>7, <3>1, <3>2 DEF AnswerInv
    <2>4. QED
        BY <2>1, <2>2, <2>3
<1>9. SyncedMeansFollowed' /\ LinkInv'
    BY <1>7 DEF Fetch, IInv, SyncedMeansFollowed, LinkInv
<1>10. ServedInv'
    <2> SUFFICES ASSUME NEW res \in Resources \ edited
                 PROVE  /\ client'.etag[res] # None => serving'[res] = client'.etag[res]
                        /\ Shown(res)' = IF serving'[res] = Local THEN None ELSE serving'[res]
                        /\ Done(res)' /\ client'.result[res].reason = None
                              => serving'[res] = followed'[res]
        BY DEF ServedInv, Fetch
    <2>1. Done(res)' = Done(res) /\ Shown(res)' = Shown(res) /\ serving' = serving
        BY <1>7 DEF Fetch, Done, Shown
    <2>2. Done(res) => res # at
        BY <1>7 DEF Fetch, Done
    <2>3. Done(res) => followed'[res] = followed[res]
        BY <1>5, <2>2 DEF IInv, TypeOK
    <2>4. QED
        BY <1>7, <2>1, <2>3 DEF IInv, ServedInv
<1>11. QED
    BY <1>6, <1>8, <1>9, <1>10 DEF IInv

LEMMA ApplyNothingOK == IInv /\ ApplyNothing => IInv'
<1> SUFFICES ASSUME IInv, ApplyNothing PROVE IInv'
    OBVIOUS
<1> DEFINE at == client.at
           answer == client.answer
           result == CASE answer.reason # None  -> Err(answer.reason)
                       [] answer.version # None -> Err("build_failed")
                       [] OTHER                 -> Ok(None)
<1>1. client.pc = "apply" /\ Polled(result, client.etag[at])
    BY DEF ApplyNothing
<1>2. at \in Resources /\ answer \in Answer /\ client.etag[at] \in Version
    BY ClientFields DEF IInv
<1>3. result \in Result /\ result.version = None
    BY <1>2 DEF Err, Ok, Result, Version, Answer, Reason
<1>4. result.reason = None => answer.reason = None /\ answer.version = None
    BY ControlPlaneAssumption DEF Err, Ok, Reason
<1> HIDE DEF result
<1>5. /\ client' \in Client0 /\ client'.at = "keys"
      /\ client'.pc = IF at = "config" THEN "fetch" ELSE "record"
      /\ client'.etag = [client.etag EXCEPT ![at] = client.etag[at]]
      /\ client'.result = [client.result EXCEPT ![at] = result]
    BY <1>1, <1>2, <1>3, PolledFields DEF IInv
<1>6. client'.etag = client.etag
    BY <1>5, ClientFields DEF IInv
<1>7. TypeOK'
    BY <1>5 DEF ApplyNothing, IInv, TypeOK, Client0
<1>8. AnswerInv' /\ SyncedMeansFollowed' /\ LinkInv'
    BY <1>1, <1>5 DEF ApplyNothing, IInv, AnswerInv, SyncedMeansFollowed, LinkInv
<1>9. ServedInv'
    <2> SUFFICES ASSUME NEW res \in Resources \ edited
                 PROVE  /\ client'.etag[res] # None => serving'[res] = client'.etag[res]
                        /\ Shown(res)' = IF serving'[res] = Local THEN None ELSE serving'[res]
                        /\ Done(res)' /\ client'.result[res].reason = None
                              => serving'[res] = followed'[res]
        BY DEF ServedInv, ApplyNothing
    <2>1. serving' = serving /\ followed' = followed /\ status' = status
        BY DEF ApplyNothing
    <2>2. CASE res = at
        <3>1. client'.result[res] = result /\ ~ Done(res)
            BY <1>1, <1>2, <1>5, <2>2, ClientFields DEF IInv, Done
        <3>2. Shown(res) = status.version[res] /\ Shown(res)' = status.version[res]
            BY <1>3, <2>1, <3>1 DEF Shown
        <3>3. result.reason = None => serving[res] = followed[res]
            BY <1>1, <1>4, <2>2 DEF IInv, AnswerInv, ServedInv
        <3>4. QED
            BY <1>6, <2>1, <3>1, <3>2, <3>3 DEF IInv, ServedInv
    <2>3. CASE res # at
        <3>1. client'.result[res] = client.result[res]
            BY <1>5, <2>3, ClientFields DEF IInv
        <3>2. Done(res)' = Done(res)
            BY <1>1, <1>2, <1>5, <2>3 DEF Done, Resources
        <3>3. Shown(res)' = Shown(res)
            BY <2>1, <3>1, <3>2 DEF Shown
        <3>4. QED
            BY <1>6, <2>1, <3>1, <3>2, <3>3 DEF IInv, ServedInv
    <2>4. QED
        BY <2>2, <2>3
<1>10. QED
    BY <1>7, <1>8, <1>9 DEF IInv

LEMMA ApplyModifiedOK == IInv /\ ApplyModified => IInv'
<1> SUFFICES ASSUME IInv, ApplyModified PROVE IInv'
    OBVIOUS
<1> DEFINE at == client.at
           answer == client.answer
<1>1. /\ client.pc = "apply" /\ Polled(Ok(answer.version), answer.etag)
      /\ serving' = [serving EXCEPT ![at] = answer.version] /\ edited' = edited \ {at}
      /\ status' = status /\ followed' = followed
    BY DEF ApplyModified
<1>2. /\ answer.version \in Versions /\ answer.version = followed[at]
      /\ answer.etag \in {answer.version, None} /\ at \in Resources
    BY <1>1, ClientFields DEF ApplyModified, IInv, AnswerInv, Answer, Version
<1>3. Ok(answer.version) \in Result /\ answer.etag \in Version
    BY <1>2 DEF Ok, Result, Version
<1>4. /\ client' \in Client0 /\ client'.at = "keys"
      /\ client'.pc = IF at = "config" THEN "fetch" ELSE "record"
      /\ client'.etag = [client.etag EXCEPT ![at] = answer.etag]
      /\ client'.result = [client.result EXCEPT ![at] = Ok(answer.version)]
    BY <1>1, <1>3, PolledFields DEF IInv
<1>5. TypeOK'
    BY <1>1, <1>2, <1>4 DEF ApplyModified, IInv, TypeOK, Client0
<1>6. AnswerInv' /\ SyncedMeansFollowed' /\ LinkInv'
    BY <1>1, <1>4 DEF ApplyModified, IInv, AnswerInv, SyncedMeansFollowed, LinkInv
<1>7. ServedInv'
    <2> SUFFICES ASSUME NEW res \in Resources \ edited'
                 PROVE  /\ client'.etag[res] # None => serving'[res] = client'.etag[res]
                        /\ Shown(res)' = IF serving'[res] = Local THEN None ELSE serving'[res]
                        /\ Done(res)' /\ client'.result[res].reason = None
                              => serving'[res] = followed'[res]
        BY DEF ServedInv
    <2>1. CASE res = at
        <3>1. client'.result[res] = Ok(answer.version) /\ client'.etag[res] = answer.etag
            BY <1>4, <2>1, ClientFields DEF IInv
        <3>2. serving'[res] = answer.version
            BY <1>1, <2>1 DEF IInv, TypeOK
        <3>3. Done(res)'
            BY <1>2, <1>4, <2>1 DEF Done, Resources
        <3>4. Shown(res)' = answer.version
            BY <1>2, <3>1, <3>3, ControlPlaneAssumption DEF Shown, Ok
        <3>5. QED
            BY <1>1, <1>2, <2>1, <3>1, <3>2, <3>4, ControlPlaneAssumption
    <2>2. CASE res # at
        <3>1. client'.result[res] = client.result[res] /\ client'.etag[res] = client.etag[res]
            BY <1>4, <2>2, ClientFields DEF IInv
        <3>2. serving'[res] = serving[res] /\ res \in Resources \ edited
            BY <1>1, <2>2 DEF IInv, TypeOK
        <3>3. Done(res)' = Done(res)
            BY <1>1, <1>2, <1>4, <2>2 DEF Done, Resources
        <3>4. Shown(res)' = Shown(res)
            BY <1>1, <3>1, <3>3 DEF Shown
        <3>5. QED
            BY <1>1, <3>1, <3>2, <3>3, <3>4 DEF IInv, ServedInv
    <2>3. QED
        BY <2>1, <2>2
<1>8. QED
    BY <1>5, <1>6, <1>7 DEF IInv

(* The versions that record_tick stores are those to be shown. *)
LEMMA VersionsShown ==
    ASSUME TypeOK, client.pc = "record"
    PROVE  versions \in [Resources -> Version] /\ \A res \in Resources : versions[res] = Shown(res)
<1>1. \A res \in Resources : client.result[res].version \in Version /\ status.version[res] \in Version
    BY DEF TypeOK, Result
<1>2. QED
    BY <1>1 DEF versions, Shown, Done

(* record_tick ends a tick: what was to be shown is shown. *)
LEMMA TickServed ==
    ASSUME IInv, client.pc = "record", client' = [client EXCEPT !.pc = "sleep"],
           status'.version = versions, UNCHANGED <<serving, followed, edited>>
    PROVE  ServedInv' /\ AnswerInv'
<1>1. client'.pc = "sleep" /\ client'.etag = client.etag
    BY DEF IInv, TypeOK
<1>2. \A res \in Resources : Shown(res)' = Shown(res) /\ ~ Done(res)'
    BY <1>1, VersionsShown DEF IInv, Shown, Done
<1>3. QED
    BY <1>1, <1>2 DEF IInv, ServedInv, AnswerInv

LEMMA TickFailsOK == IInv /\ TickFails => IInv'
<1> SUFFICES ASSUME IInv, TickFails PROVE IInv'
    OBVIOUS
<1>1. PICK failure \in failures :
        /\ status' = [status EXCEPT !.state = "degraded", !.version = versions,
                                    !.last_failure = failure,
                                    !.consecutive_failures = failure_count]
        /\ IF is_transition(failure) THEN Audit("failure", failure) ELSE UNCHANGED audited
    BY DEF TickFails
<1>2. client.pc = "record" /\ client' = [client EXCEPT !.pc = "sleep"]
    BY DEF TickFails
<1>3. failure \in SyncFailure
    <2>1. PICK res \in Resources : /\ client.result[res].reason # None
                                   /\ failure = [resource |-> res, reason |-> client.result[res].reason]
        BY DEF failures
    <2>2. client.result[res] \in Result
        BY DEF IInv, TypeOK
    <2>3. QED
        BY <2>1, <2>2 DEF Result, SyncFailure
<1>4. failure_count \in 0..MaxFailures
    BY ControlPlaneAssumption DEF failure_count, IInv, TypeOK
<1>5. versions \in [Resources -> Version]
    BY <1>2, VersionsShown DEF IInv
<1>6. /\ status'.state = "degraded" /\ status'.version = versions
      /\ status'.last_failure = failure
    BY <1>1 DEF IInv, TypeOK
<1>7. TypeOK'
    <2>1. status' \in [state : {"file", "pending", "synced", "degraded"},
                       version : [Resources -> Version], identity : BOOLEAN,
                       last_failure : SyncFailure \cup {None}, consecutive_failures : 0..MaxFailures]
        BY <1>1, <1>3, <1>4, <1>5 DEF IInv, TypeOK
    <2>2. audited' \in [outcome : {"none", "success", "failure"},
                        failure : SyncFailure \cup {None}, parity : {0, 1}]
        BY <1>1, <1>3 DEF IInv, TypeOK, Audit
    <2>3. QED
        BY <1>2, <2>1, <2>2 DEF TickFails, IInv, TypeOK
<1>8. LinkInv' /\ SyncedMeansFollowed'
    <2>1. CASE is_transition(failure)
        BY <1>1, <1>2, <1>6, <2>1 DEF Audit, LinkInv, SyncedMeansFollowed, IInv, TypeOK
    <2>2. CASE ~ is_transition(failure)
        BY <1>1, <1>2, <1>6, <2>2 DEF is_transition, LinkInv, SyncedMeansFollowed, IInv, TypeOK
    <2>3. QED
        BY <2>1, <2>2
<1>9. ServedInv' /\ AnswerInv'
    BY <1>2, <1>6, TickServed DEF TickFails
<1>10. QED
    BY <1>7, <1>8, <1>9 DEF IInv

LEMMA TickSucceedsOK == IInv /\ TickSucceeds => IInv'
<1> SUFFICES ASSUME IInv, TickSucceeds PROVE IInv'
    OBVIOUS
<1>1. /\ client.pc = "record" /\ client' = [client EXCEPT !.pc = "sleep"]
      /\ status' = [status EXCEPT !.state = "synced", !.version = versions,
                                  !.consecutive_failures = 0]
    BY DEF TickSucceeds
<1>2. versions \in [Resources -> Version]
    BY <1>1, VersionsShown DEF IInv
<1>3. /\ status'.state = "synced" /\ status'.version = versions
      /\ status'.last_failure = status.last_failure
    BY <1>1 DEF IInv, TypeOK
<1>4. TypeOK'
    <2>1. status' \in [state : {"file", "pending", "synced", "degraded"},
                       version : [Resources -> Version], identity : BOOLEAN,
                       last_failure : SyncFailure \cup {None}, consecutive_failures : 0..MaxFailures]
        <3>1. 0 \in 0..MaxFailures
            BY ControlPlaneAssumption
        <3>2. QED
            BY <1>1, <1>2, <3>1 DEF IInv, TypeOK
    <2>2. audited' \in [outcome : {"none", "success", "failure"},
                        failure : SyncFailure \cup {None}, parity : {0, 1}]
        BY DEF TickSucceeds, IInv, TypeOK, Audit
    <2>3. QED
        BY <1>1, <2>1, <2>2 DEF TickSucceeds, IInv, TypeOK
<1>5. LinkInv'
    BY <1>1, <1>3 DEF TickSucceeds, Audit, LinkInv, IInv, TypeOK
<1>6. SyncedMeansFollowed'
    <2>1. \A res \in Resources : client.result[res].reason = None
        BY DEF TickSucceeds, failures, Resources
    <2>2. \A res \in Resources \ edited : serving[res] = followed[res]
        BY <1>1, <2>1 DEF IInv, ServedInv, Done
    <2>3. QED
        BY <2>2 DEF TickSucceeds, SyncedMeansFollowed
<1>7. ServedInv' /\ AnswerInv'
    BY <1>1, <1>3, TickServed DEF TickSucceeds
<1>8. QED
    BY <1>4, <1>5, <1>6, <1>7 DEF IInv
-----------------------------------------------------------------------------
(***************************************************************************)
(* The surroundings, and all together.                                     *)
(***************************************************************************)

(* Only the Control Node has changed: nothing but its type depends on it. *)
LEMMA ControlNodeOK ==
    ASSUME IInv, UNCHANGED <<client, serving, status, followed, edited, audited>>,
           cn' \in [config : Versions, keys : Versions, fault : Faults \cup {None}]
    PROVE  IInv'
    BY DEF IInv, TypeOK, AnswerInv, ServedInv, Shown, Done, SyncedMeansFollowed, LinkInv

LEMMA LocalEditOK == ASSUME IInv, NEW res \in LocalEdits, LocalEdit(res) PROVE IInv'
<1>1. \A q \in Resources \ edited' : q \in Resources \ edited /\ serving'[q] = serving[q]
    BY DEF LocalEdit, IInv, TypeOK
<1>2. TypeOK'
    BY ControlPlaneAssumption DEF LocalEdit, IInv, TypeOK
<1>3. AnswerInv' /\ LinkInv'
    BY DEF LocalEdit, IInv, AnswerInv, LinkInv
<1>4. ServedInv' /\ SyncedMeansFollowed'
    BY <1>1 DEF LocalEdit, IInv, ServedInv, Shown, Done, SyncedMeansFollowed
<1>5. QED
    BY <1>2, <1>3, <1>4 DEF IInv

LEMMA StepOK == IInv /\ [Next]_vars => IInv'
<1> SUFFICES ASSUME IInv, [Next]_vars PROVE IInv'
    OBVIOUS
<1>1. CASE Client
    BY <1>1, LogIdentityOK, WakeOK, FetchOK, ApplyNothingOK, ApplyModifiedOK, TickFailsOK,
       TickSucceedsOK DEF Client
<1>2. ASSUME NEW config \in Versions, NEW keys \in Versions, Publish(config, keys) PROVE IInv'
    <2>1. cn' \in [config : Versions, keys : Versions, fault : Faults \cup {None}]
        BY <1>2 DEF Publish, IInv, TypeOK
    <2>2. QED
        BY <1>2, <2>1, ControlNodeOK DEF Publish
<1>3. ASSUME NEW fault \in Faults \cup {None}, Fault(fault) PROVE IInv'
    <2>1. cn' \in [config : Versions, keys : Versions, fault : Faults \cup {None}]
        BY <1>3 DEF Fault, IInv, TypeOK
    <2>2. QED
        BY <1>3, <2>1, ControlNodeOK DEF Fault
<1>4. ASSUME NEW res \in LocalEdits, LocalEdit(res) PROVE IInv'
    BY <1>4, LocalEditOK
<1>5. CASE UNCHANGED vars
    BY <1>5, ControlNodeOK DEF vars, IInv, TypeOK
<1>6. QED
    BY <1>1, <1>2, <1>3, <1>4, <1>5 DEF Next

(* The step of the audit log: an event is written only where the state of  *)
(* the link, or the failure that it is degraded by, changes.               *)
LEMMA AuditStep ==
    ASSUME IInv, [Next]_vars
    PROVE  [audited' # audited => \/ status'.state # status.state
                                  \/ status'.last_failure # status.last_failure]_vars
<1>1. CASE TickFails
    <2>1. PICK failure \in failures :
            /\ status' = [status EXCEPT !.state = "degraded", !.version = versions,
                                        !.last_failure = failure,
                                        !.consecutive_failures = failure_count]
            /\ IF is_transition(failure) THEN Audit("failure", failure) ELSE UNCHANGED audited
        BY <1>1 DEF TickFails
    <2>2. status'.state = "degraded" /\ status'.last_failure = failure
        BY <2>1 DEF IInv, TypeOK
    <2>3. QED
        BY <2>1, <2>2 DEF is_transition
<1>2. CASE TickSucceeds
    <2>1. status'.state = "synced"
        BY <1>2 DEF TickSucceeds, IInv, TypeOK
    <2>2. QED
        BY <1>2, <2>1 DEF TickSucceeds
<1>3. CASE LogIdentity \/ Wake \/ Fetch \/ ApplyNothing \/ ApplyModified
    BY <1>3 DEF LogIdentity, Wake, Fetch, ApplyNothing, ApplyModified
<1>4. ASSUME NEW config \in Versions, NEW keys \in Versions, Publish(config, keys)
      PROVE  audited' = audited
    BY <1>4 DEF Publish
<1>5. ASSUME NEW fault \in Faults \cup {None}, Fault(fault) PROVE audited' = audited
    BY <1>5 DEF Fault
<1>6. ASSUME NEW res \in LocalEdits, LocalEdit(res) PROVE audited' = audited
    BY <1>6 DEF LocalEdit
<1>7. QED
    BY <1>1, <1>2, <1>3, <1>4, <1>5, <1>6 DEF Next, Client
-----------------------------------------------------------------------------
(***************************************************************************)
(* The theorems.                                                           *)
(***************************************************************************)

(* IInv is inductive: it holds of every reachable state of the link. *)
THEOREM InductiveInvariant == Spec => []IInv
    BY InitOK, StepOK, PTL DEF Spec

(* status::Inner, the client and the versions it serves keep their shape;  *)
(* consecutive_failures does not leave its range.                          *)
THEOREM TypeCorrect == Spec => []TypeOK
<1>1. IInv => TypeOK
    BY DEF IInv
<1>2. QED
    BY <1>1, InductiveInvariant, PTL

(* A link that shows as synced serves what the Control Node had at its     *)
(* last answers, whatever publishes, faults, broken bundles and edits came *)
(* between the steps of the polls.                                         *)
THEOREM SyncedIsTrue == Spec => []SyncedMeansFollowed
<1>1. IInv => SyncedMeansFollowed
    BY DEF IInv
<1>2. QED
    BY <1>1, InductiveInvariant, PTL

(* GET /admin/status shows the versions that are applied, each updated by  *)
(* its own poll, in every tick.                                            *)
THEOREM StatusIsTrue == Spec => []StatusShowsApplied
<1>1. IInv => StatusShowsApplied
    <2> SUFFICES ASSUME IInv, client.pc = "sleep", NEW res \in Resources \ edited
                 PROVE  status.version[res] = IF serving[res] = Local THEN None ELSE serving[res]
        BY DEF StatusShowsApplied
    <2>1. ~ Done(res)
        BY DEF Done
    <2>2. QED
        BY <2>1 DEF IInv, ServedInv, Shown
<1>2. QED
    BY <1>1, InductiveInvariant, PTL

(* The control_plane.sync events are those of the link's transitions: none *)
(* is missing and none is repeated, in however long a series of failing    *)
(* ticks and recoveries.                                                   *)
THEOREM AuditIsTrue == Spec => AuditAgreesWithLink
<1> DEFINE Agrees == client.pc = "sleep" =>
                        /\ status.state = "degraded" =>
                              audited.outcome = "failure" /\ audited.failure = status.last_failure
                        /\ status.state # "degraded" => audited.outcome # "failure"
           Moves == audited' # audited => \/ status'.state # status.state
                                          \/ status'.last_failure # status.last_failure
<1>1. IInv => Agrees
    BY DEF IInv, LinkInv
<1>2. IInv /\ [Next]_vars => [Moves]_vars
    BY AuditStep
<1> HIDE DEF Agrees, Moves
<1>3. Spec => []Agrees /\ [][Moves]_vars
    BY <1>1, <1>2, InductiveInvariant, PTL DEF Spec
<1>4. QED
    BY <1>3 DEF AuditAgreesWithLink, Agrees, Moves
=============================================================================
