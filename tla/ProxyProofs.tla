---------------------------- MODULE ProxyProofs ----------------------------
(***************************************************************************)
(* Proofs about module Proxy, for every set of keys, requests, costs and   *)
(* bounds that satisfies ProxyAssumption.                                  *)
(***************************************************************************)
EXTENDS Proxy, FiniteSetTheorems, TLAPS
-----------------------------------------------------------------------------
(***************************************************************************)
(* Sets of contributors and the cost they stand for.                       *)
(***************************************************************************)

(* Multiplication by a natural number is monotone. *)
LEMMA ScaleMonotone ==
    ASSUME NEW c \in Nat, NEW m \in Nat, NEW n \in Nat, m <= n
    PROVE  c * m <= c * n
<1>1. PICK d \in Nat : n = m + d
    BY n - m \in Nat
<1>2. c * n = c * m + c * d
    BY <1>1
<1>3. c * d \in Nat /\ c * m \in Nat
    OBVIOUS
<1>4. QED
    BY <1>2, <1>3

(* One contributor fewer leaves room for one cost more. *)
LEMMA ScaleStep ==
    ASSUME NEW c \in Nat, NEW m \in Nat, NEW n \in Nat, m < n
    PROVE  c * m + c <= c * n
<1>1. c * (m + 1) <= c * n
    BY ScaleMonotone, m + 1 \in Nat, m + 1 <= n
<1>2. c * (m + 1) = c * m + c
    OBVIOUS
<1>3. QED
    BY <1>1, <1>2

(* A set of requests weighs at most as much as a larger one, and one cost  *)
(* less than a larger one that has a request more.                         *)
LEMMA WeightMonotone ==
    ASSUME NEW S \in SUBSET Requests, NEW T \in SUBSET S
    PROVE  /\ MaxCost * Cardinality(T) \in Nat
           /\ MaxCost * Cardinality(T) <= MaxCost * Cardinality(S)
           /\ \A r \in S \ T : MaxCost * Cardinality(T) + MaxCost <= MaxCost * Cardinality(S)
<1>1. IsFiniteSet(S) /\ IsFiniteSet(T)
    BY FS_Subset, ProxyAssumption
<1>2. Cardinality(S) \in Nat /\ Cardinality(T) \in Nat /\ MaxCost \in Nat
    BY <1>1, FS_CardinalityType, ProxyAssumption
<1>3. Cardinality(T) <= Cardinality(S)
    BY <1>1, FS_Subset
<1>4. MaxCost * Cardinality(T) <= MaxCost * Cardinality(S)
    BY <1>2, <1>3, ScaleMonotone
<1>5. ASSUME NEW r \in S \ T
      PROVE  MaxCost * Cardinality(T) + MaxCost <= MaxCost * Cardinality(S)
    <2>1. Cardinality(T) # Cardinality(S)
        BY <1>1, <1>5, FS_Subset
    <2>2. Cardinality(T) < Cardinality(S)
        BY <2>1, <1>2, <1>3
    <2>3. QED
        BY <1>2, <2>2, ScaleStep
<1>6. MaxCost * Cardinality(T) \in Nat
    BY <1>2
<1>7. QED
    BY <1>4, <1>5, <1>6
-----------------------------------------------------------------------------
(***************************************************************************)
(* Types.                                                                  *)
(***************************************************************************)

(* The codes that the clock can be read as. *)
LEMMA PeriodTokenType ==
    ASSUME TypeOK, NEW r \in Requests, req[r].pc # "idle", limit(r) # None
    PROVE  period_token(r) \in Nat /\ period_token(r) \in Tokens
<1>1. limit(r).period \in DOMAIN Calendar /\ now \in Instants
    BY ProxyAssumption DEF TypeOK, Request, limit
<1>2. QED
    BY <1>1, ProxyAssumption DEF Tokens, period_token, current_period_token

(* A slot of the request table, and what a step may put in its place. *)
LEMMA RequestFacts ==
    ASSUME TypeOK, NEW r \in Requests
    PROVE  /\ req[r] \in Request
           /\ req[r] \in RequestRecord
           /\ req[r].pc # "idle" =>
                 /\ req[r].key \in Keys
                 /\ req[r].endpoint \in {"chat", "embeddings"}
                 /\ req[r].model \in Models
                 /\ req[r].body \in Bodies
<1>1. req[r] \in Request
    BY DEF TypeOK
<1>2. QED
    BY <1>1 DEF Request, RequestRecord

(* The updates of an active request that the handlers make. *)
LEMMA AdmittedType ==
    ASSUME NEW v \in RequestRecord, NEW k \in Keys, NEW endpoint \in {"chat", "embeddings"},
           NEW stream \in BOOLEAN, NEW model \in Models, NEW body \in Bodies,
           NEW idem \in IdemKeys \cup {None}
    PROVE  [v EXCEPT !.pc = "begin", !.key = k, !.endpoint = endpoint, !.stream = stream,
                     !.model = model, !.body = body, !.idem = idem] \in Request
<1> DEFINE w == [v EXCEPT !.pc = "begin", !.key = k, !.endpoint = endpoint,
                          !.stream = stream, !.model = model, !.body = body, !.idem = idem]
<1>1. "begin" \in PCs
    BY DEF PCs
<1>2. w \in RequestRecord
    BY <1>1, Zenon DEF RequestRecord
<1>3. w.key \in Keys /\ w.endpoint \in {"chat", "embeddings"}
    BY Zenon DEF RequestRecord
<1>4. w.model \in Models /\ w.body \in Bodies
    BY Zenon DEF RequestRecord
<1>5. QED
    BY <1>2, <1>3, <1>4, Zenon DEF Request

(* Begin: the runtime snapshot is loaded. *)
LEMMA LoadedType ==
    ASSUME NEW v \in Request, v.pc # "idle", NEW pc \in PCs, NEW rt \in Gens
    PROVE  [v EXCEPT !.rt = rt, !.pc = pc] \in Request
<1>1. [v EXCEPT !.rt = rt, !.pc = pc] \in RequestRecord
    BY Zenon DEF Request, RequestRecord
<1>2. QED
    BY <1>1, Zenon DEF Request, RequestRecord

(* PreCheckToken and RecordToken: a period code is read from the clock. *)
LEMMA TimedType ==
    ASSUME NEW v \in Request, v.pc # "idle", NEW pc \in PCs, NEW token \in Nat
    PROVE  [v EXCEPT !.pc = pc, !.token = token] \in Request
<1>1. [v EXCEPT !.pc = pc, !.token = token] \in RequestRecord
    BY Zenon DEF Request, RequestRecord
<1>2. QED
    BY <1>1, Zenon DEF Request, RequestRecord

(* RunPlugins: the plugin chain leaves a body behind. *)
LEMMA InspectedType ==
    ASSUME NEW v \in Request, v.pc # "idle", NEW pc \in PCs, NEW body \in Bodies
    PROVE  [v EXCEPT !.body = body, !.pc = pc] \in Request
<1>1. [v EXCEPT !.body = body, !.pc = pc] \in RequestRecord
    BY Zenon DEF Request, RequestRecord
<1>2. QED
    BY <1>1, Zenon DEF Request, RequestRecord

(* CacheGet: a response is taken from the cache. *)
LEMMA HitType ==
    ASSUME NEW v \in Request, v.pc # "idle", NEW pc \in PCs, NEW hit \in Response
    PROVE  [v EXCEPT !.pc = pc, !.hit = hit] \in Request
<1>1. [v EXCEPT !.pc = pc, !.hit = hit] \in RequestRecord
    BY Zenon DEF Request, RequestRecord
<1>2. QED
    BY <1>1, Zenon DEF Request, RequestRecord

(* DispatchOk: the upstream call has returned. *)
LEMMA AnsweredType ==
    ASSUME NEW v \in Request, v.pc # "idle", NEW pc \in PCs, NEW ok \in BOOLEAN, NEW cost \in Costs \cup {None}
    PROVE  [v EXCEPT !.ok = ok, !.cost = cost, !.pc = pc] \in Request
<1>1. [v EXCEPT !.ok = ok, !.cost = cost, !.pc = pc] \in RequestRecord
    BY Zenon DEF Request, RequestRecord
<1>2. QED
    BY <1>1, Zenon DEF Request, RequestRecord

(* StreamUsage: the observer has found the usage. *)
LEMMA ObservedType ==
    ASSUME NEW v \in Request, v.pc # "idle", NEW pc \in PCs, NEW cost \in Costs \cup {None}
    PROVE  [v EXCEPT !.found_usage = TRUE, !.cost = cost, !.pc = pc] \in Request
<1>1. [v EXCEPT !.found_usage = TRUE, !.cost = cost, !.pc = pc] \in RequestRecord
    BY Zenon DEF Request, RequestRecord
<1>2. QED
    BY <1>1, Zenon DEF Request, RequestRecord

(* The request table after one slot was given a request. *)
LEMMA UpdateType ==
    ASSUME TypeOK, NEW r \in Requests, NEW v \in Request,
           req' = [req EXCEPT ![r] = v]
    PROVE  req' \in [Requests -> Request]
BY DEF TypeOK

(* A step that only moves a request to another program counter. *)
LEMMA GotoType ==
    ASSUME TypeOK, NEW r \in Requests, req[r].pc # "idle",
           NEW pc \in PCs, Goto(r, pc)
    PROVE  req' \in [Requests -> Request]
<1>1. [req[r] EXCEPT !.pc = pc] \in Request
    BY RequestFacts DEF Request, RequestRecord
<1>2. req' = [req EXCEPT ![r] = [req[r] EXCEPT !.pc = pc]]
    BY DEF Goto
<1>3. QED
    BY <1>1, <1>2, UpdateType

(* A response that a handler builds names what its request was about. *)
LEMMA OwnResponseType ==
    ASSUME TypeOK, NEW r \in Requests, req[r].pc # "idle"
    PROVE  OwnResponse(r) \in Response
<1>1. identifier(req[r].key) \in Ids
    BY RequestFacts DEF Ids
<1>2. QED
    BY <1>1, RequestFacts DEF RequestRecord, OwnResponse, Response

(* A free slot. *)
LEMMA NoRequestType == NoRequest \in Request /\ NoRequest \in RequestRecord
BY ProxyAssumption DEF NoRequest, Request, RequestRecord, PCs, Gens

(* The gateway starts with well-typed state. *)
LEMMA TypeInit == Init => TypeOK
BY NoRequestType, ProxyAssumption DEF Init, TypeOK, Instants, Gens

(* Every step keeps the types; Record needs the cost and the code. *)
LEMMA TypeStep == TypeOK /\ ReadyToRecord /\ [Next]_vars => TypeOK'
<1> SUFFICES ASSUME TypeOK, ReadyToRecord, [Next]_vars PROVE TypeOK'
    OBVIOUS
<1>1. ASSUME NEW r \in Requests, NEW k \in Keys, NEW call \in Calls, NEW model \in Models,
             NEW body \in Bodies, NEW idem \in IdemKeys \cup {None},
             Arrive(r, k, call, model, body, idem)
      PROVE  TypeOK'
    <2> DEFINE v == [NoRequest EXCEPT !.pc = "begin", !.key = k, !.endpoint = call.endpoint,
                                      !.stream = call.stream, !.model = model,
                                      !.body = body, !.idem = idem]
    <2>1. call.endpoint \in {"chat", "embeddings"} /\ call.stream \in BOOLEAN
        BY ProxyAssumption
    <2>2. v \in Request
        BY <2>1, NoRequestType, AdmittedType, ZenonT(60)
    <2>3. req' \in [Requests -> Request]
        BY <1>1, <2>2, UpdateType DEF Arrive
    <2>4. QED
        BY <1>1, <2>3 DEF Arrive, TypeOK
<1>2. ASSUME NEW r \in Requests, Begin(r) PROVE TypeOK'
    <2> DEFINE pc == IF ~ allows_model(req[r].key, req[r].model) THEN "done"
                     ELSE IF limit(r) = None THEN "plugins" ELSE "pre_token"
               v  == [req[r] EXCEPT !.rt = runtime, !.pc = pc]
    <2> HIDE DEF pc
    <2>1. v \in Request
        <3>1. pc \in PCs
            BY DEF pc, PCs
        <3>2. QED
            BY <1>2, <3>1, RequestFacts, LoadedType DEF Begin, TypeOK
    <2>2. req' = [req EXCEPT ![r] = v]
        BY <1>2 DEF Begin, pc
    <2>3. req' \in [Requests -> Request]
        BY <2>1, <2>2, UpdateType
    <2>4. QED
        BY <1>2, <2>3 DEF Begin, TypeOK
<1>3. ASSUME NEW r \in Requests, PreCheckToken(r) PROVE TypeOK'
    <2> DEFINE v == [req[r] EXCEPT !.pc = "pre_check", !.token = period_token(r)]
    <2>1. period_token(r) \in Nat
        BY <1>3, PeriodTokenType DEF PreCheckToken, ReadyToRecord
    <2>2. v \in Request
        BY <1>3, <2>1, RequestFacts, TimedType DEF PreCheckToken, PCs
    <2>3. req' = [req EXCEPT ![r] = v]
        BY <1>3 DEF PreCheckToken
    <2>4. req' \in [Requests -> Request]
        BY <2>2, <2>3, UpdateType
    <2>5. QED
        BY <1>3, <2>4 DEF PreCheckToken, TypeOK
<1>4. ASSUME NEW r \in Requests, PreCheck(r) PROVE TypeOK'
    <2>1. req' \in [Requests -> Request]
        BY <1>4, GotoType DEF PreCheck, PCs
    <2>2. QED
        BY <1>4, <2>1 DEF PreCheck, TypeOK
<1>5. ASSUME NEW r \in Requests, RunPlugins(r) PROVE TypeOK'
    <2>1. CASE Goto(r, "done")
        <3>1. req' \in [Requests -> Request]
            BY <1>5, <2>1, GotoType DEF RunPlugins, PCs
        <3>2. QED
            BY <1>5, <3>1 DEF RunPlugins, TypeOK
    <2>2. ASSUME NEW body \in Bodies, NEW pc \in {"lookup", "dispatch"},
                 req' = [req EXCEPT ![r].body = body, ![r].pc = pc]
          PROVE  TypeOK'
        <3>1. [req[r] EXCEPT !.body = body, !.pc = pc] \in Request
            BY <1>5, <2>2, RequestFacts, InspectedType DEF RunPlugins, PCs
        <3>2. req' = [req EXCEPT ![r] = [req[r] EXCEPT !.body = body, !.pc = pc]]
            BY <2>2
        <3>3. req' \in [Requests -> Request]
            BY <3>1, <3>2, UpdateType
        <3>4. QED
            BY <1>5, <3>3 DEF RunPlugins, TypeOK
    <2>3. QED
        BY <1>5, <2>1, <2>2 DEF RunPlugins
<1>6. ASSUME NEW r \in Requests, CacheGet(r) PROVE TypeOK'
    <2>1. ASSUME NEW e \in cache[req[r].rt],
                 req' = [req EXCEPT ![r].pc = "done", ![r].hit = e.response]
          PROVE  TypeOK'
        <3> DEFINE v == [req[r] EXCEPT !.pc = "done", !.hit = e.response]
        <3>1. e.response \in Response
            BY <2>1, RequestFacts DEF TypeOK, RequestRecord
        <3>2. v \in Request
            BY <1>6, <3>1, RequestFacts, HitType DEF CacheGet, PCs
        <3>3. req' = [req EXCEPT ![r] = v]
            BY <2>1
        <3>4. req' \in [Requests -> Request]
            BY <3>2, <3>3, UpdateType
        <3>5. QED
            BY <1>6, <3>4 DEF CacheGet, TypeOK
    <2>2. CASE Goto(r, "dispatch")
        <3>1. req' \in [Requests -> Request]
            BY <1>6, <2>2, GotoType DEF CacheGet, PCs
        <3>2. QED
            BY <1>6, <3>1 DEF CacheGet, TypeOK
    <2>3. QED
        BY <1>6, <2>1, <2>2 DEF CacheGet
<1>7. ASSUME NEW r \in Requests, DispatchErr(r) PROVE TypeOK'
    <2>1. req' \in [Requests -> Request]
        BY <1>7, GotoType DEF DispatchErr, PCs
    <2>2. QED
        BY <1>7, <2>1 DEF DispatchErr, TypeOK
<1>8. ASSUME NEW r \in Requests, NEW ok \in BOOLEAN, NEW cost \in Costs \cup {None},
             DispatchOk(r, ok, cost)
      PROVE  TypeOK'
    <2> DEFINE pc == IF MustRecord(r, cost) THEN "record_token"
                     ELSE IF req[r].stream THEN "streaming" ELSE "respond"
               v  == [req[r] EXCEPT !.ok = ok, !.cost = cost, !.pc = pc]
    <2> HIDE DEF pc
    <2>1. v \in Request
        <3>1. pc \in PCs
            BY DEF pc, PCs
        <3>2. QED
            BY <1>8, <3>1, RequestFacts, AnsweredType DEF DispatchOk
    <2>2. req' = [req EXCEPT ![r] = v]
        BY <1>8 DEF DispatchOk, pc
    <2>3. req' \in [Requests -> Request]
        BY <2>1, <2>2, UpdateType
    <2>4. QED
        BY <1>8, <2>3 DEF DispatchOk, TypeOK
<1>9. ASSUME NEW r \in Requests, NEW cost \in Costs \cup {None}, StreamUsage(r, cost)
      PROVE  TypeOK'
    <2> DEFINE pc == IF MustRecord(r, cost) THEN "record_token" ELSE req[r].pc
               v  == [req[r] EXCEPT !.found_usage = TRUE, !.cost = cost, !.pc = pc]
    <2> HIDE DEF pc
    <2>1. v \in Request
        <3>1. pc \in PCs
            BY <1>9 DEF StreamUsage, pc, PCs
        <3>2. QED
            BY <1>9, <3>1, RequestFacts, ObservedType DEF StreamUsage
    <2>2. req' = [req EXCEPT ![r] = v]
        BY <1>9 DEF StreamUsage, pc
    <2>3. req' \in [Requests -> Request]
        BY <2>1, <2>2, UpdateType
    <2>4. QED
        BY <1>9, <2>3 DEF StreamUsage, TypeOK
<1>10. ASSUME NEW r \in Requests, StreamEnd(r) PROVE TypeOK'
    <2>1. req' \in [Requests -> Request]
        BY <1>10, GotoType DEF StreamEnd, PCs
    <2>2. QED
        BY <1>10, <2>1 DEF StreamEnd, TypeOK
<1>11. ASSUME NEW r \in Requests, RecordToken(r) PROVE TypeOK'
    <2> DEFINE v == [req[r] EXCEPT !.pc = "record", !.token = period_token(r)]
    <2>1. period_token(r) \in Nat
        BY <1>11, PeriodTokenType DEF RecordToken, ReadyToRecord
    <2>2. v \in Request
        BY <1>11, <2>1, RequestFacts, TimedType DEF RecordToken, PCs
    <2>3. req' = [req EXCEPT ![r] = v]
        BY <1>11 DEF RecordToken
    <2>4. req' \in [Requests -> Request]
        BY <2>2, <2>3, UpdateType
    <2>5. QED
        BY <1>11, <2>4 DEF RecordToken, TypeOK
<1>12. ASSUME NEW r \in Requests, Record(r) PROVE TypeOK'
    <2> DEFINE id == identifier(req[r].key)
    <2>1. req[r].cost \in Nat /\ req[r].token \in Tokens /\ req[r].token \in Nat
        BY <1>12, RequestFacts, ProxyAssumption DEF Record, ReadyToRecord, RequestRecord
    <2>2. id \in Ids
        BY <1>12, RequestFacts DEF Record, Ids
    <2>3. record(spend[id], req[r].token, req[r].cost) \in SpendState
        BY <2>1, <2>2 DEF TypeOK, record, SpendState
    <2>4. spend' \in [Ids -> SpendState \cup {None}]
        BY <1>12, <2>2, <2>3 DEF Record, TypeOK
    <2>5. ledger' \in [Ids -> [Tokens -> Nat]]
        BY <1>12, <2>1, <2>2 DEF Record, TypeOK
    <2>6. charges' \in [Requests -> Nat]
        BY <1>12 DEF Record, TypeOK
    <2>7. req' \in [Requests -> Request]
        BY <1>12, GotoType DEF Record, PCs
    <2>8. QED
        BY <1>12, <2>4, <2>5, <2>6, <2>7 DEF Record, TypeOK
<1>13. ASSUME NEW r \in Requests, RespondCached(r) PROVE TypeOK'
    <2>1. req' \in [Requests -> Request]
        BY <1>13, GotoType DEF RespondCached, PCs
    <2>2. OwnResponse(r) \in Response
        BY <1>13, OwnResponseType DEF RespondCached
    <2>3. cache_key_for(r) \in CacheKey /\ req[r].rt \in Gens
        BY <1>13, RequestFacts DEF RespondCached, CacheKey, cache_key_for, RequestRecord, Ids
    <2>4. cache' \in [Gens -> SUBSET [key : CacheKey, response : Response]]
        BY <1>13, <2>2, <2>3 DEF RespondCached, CacheInsert, TypeOK
    <2>5. QED
        BY <1>13, <2>1, <2>4 DEF RespondCached, TypeOK
<1>14. ASSUME NEW r \in Requests, RespondDrainFails(r) PROVE TypeOK'
    <2>1. req' \in [Requests -> Request]
        BY <1>14, GotoType DEF RespondDrainFails, PCs
    <2>2. QED
        BY <1>14, <2>1 DEF RespondDrainFails, TypeOK
<1>15. ASSUME NEW r \in Requests, RespondUncached(r) PROVE TypeOK'
    <2>1. req' \in [Requests -> Request]
        BY <1>15, GotoType DEF RespondUncached, PCs
    <2>2. QED
        BY <1>15, <2>1 DEF RespondUncached, TypeOK
<1>16. ASSUME NEW r \in Requests, Disconnect(r) PROVE TypeOK'
    <2>1. req' \in [Requests -> Request]
        BY <1>16, GotoType DEF Disconnect, PCs
    <2>2. QED
        BY <1>16, <2>1 DEF Disconnect, TypeOK
<1>17. ASSUME NEW r \in Requests, Leave(r) PROVE TypeOK'
    <2>1. req' \in [Requests -> Request]
        BY <1>17, NoRequestType, UpdateType DEF Leave
    <2>2. QED
        BY <1>17, <2>1 DEF Leave, TypeOK
<1>18. CASE Reload
    BY <1>18, ProxyAssumption DEF Reload, TypeOK, Gens
<1>19. ASSUME NEW g \in Gens, Evict(g) PROVE TypeOK'
    BY <1>19 DEF Evict, TypeOK
<1>20. ASSUME NEW id \in Revocable, ForgetSpend(id) PROVE TypeOK'
    BY <1>20 DEF ForgetSpend, TypeOK
<1>21. CASE Tick
    BY <1>21, ProxyAssumption DEF Tick, TypeOK, Instants
<1>22. CASE UNCHANGED vars
    BY <1>22 DEF vars, TypeOK
<1>23. QED
    BY <1>1, <1>2, <1>3, <1>4, <1>5, <1>6, <1>7, <1>8, <1>9, <1>10, <1>11, <1>12, <1>13,
       <1>14, <1>15, <1>16, <1>17, <1>18, <1>19, <1>20, <1>21, <1>22 DEF Next, Handle
-----------------------------------------------------------------------------
(***************************************************************************)
(* Who is about to be charged.                                             *)
(***************************************************************************)

(* A step that replaces one slot leaves the other slots alone. *)
LEMMA SlotUpdate ==
    ASSUME TypeOK, NEW r \in Requests, NEW v, req' = [req EXCEPT ![r] = v]
    PROVE  req'[r] = v /\ \A q \in Requests \ {r} : req'[q] = req[q]
BY DEF TypeOK

(* A step that moves a request changes nothing else of it. *)
LEMMA GotoFields ==
    ASSUME TypeOK, NEW r \in Requests, NEW pc, Goto(r, pc)
    PROVE  /\ req'[r].pc = pc
           /\ req'[r].key = req[r].key
           /\ req'[r].token = req[r].token
           /\ req'[r].cost = req[r].cost
           /\ req'[r].stream = req[r].stream
           /\ req'[r].found_usage = req[r].found_usage
           /\ \A q \in Requests \ {r} : req'[q] = req[q]
<1>1. req[r] \in RequestRecord
    BY RequestFacts
<1>2. QED
    BY <1>1 DEF Goto, TypeOK, RequestRecord

(* The part of ReadyToRecord that is about one request. *)
Ready(v) ==
    /\ v.pc \in {"pre_token", "pre_check", "record_token", "record"} => v.key.spend_limit # None
    /\ v.pc \in {"record_token", "record"} =>
          /\ v.cost \in Costs
          /\ v.stream => v.found_usage
    /\ v.pc = "record" => v.token \in Tokens

(* ReadyToRecord looks at each request by itself. *)
LEMMA ReadyIsPerRequest == ReadyToRecord <=> \A r \in Requests : Ready(req[r])
BY DEF ReadyToRecord, Ready, limit

(* A step that changes one request has only that one to account for. *)
LEMMA ReadyOne ==
    ASSUME ReadyToRecord, NEW r \in Requests, Ready(req'[r]),
           \A q \in Requests \ {r} : req'[q] = req[q]
    PROVE  ReadyToRecord'
<1>1. \A q \in Requests : Ready(req[q])
    BY ReadyIsPerRequest
<1>2. \A q \in Requests : Ready(req'[q])
    BY <1>1
<1>3. QED
    BY <1>2 DEF ReadyToRecord, Ready, limit

(* Nobody is about to be charged when the gateway starts. *)
LEMMA ReadyInit == Init => ReadyToRecord
BY DEF Init, ReadyToRecord, NoRequest

(* No step sends a request to Record without a budget, cost and code. *)
LEMMA ReadyStep == TypeOK /\ ReadyToRecord /\ [Next]_vars => ReadyToRecord'
<1> SUFFICES ASSUME TypeOK, ReadyToRecord, [Next]_vars PROVE ReadyToRecord'
    OBVIOUS
<1>0. ASSUME NEW r \in Requests, NEW pc \in PCs, Goto(r, pc),
             pc \notin {"pre_token", "pre_check", "record_token", "record"}
      PROVE  ReadyToRecord'
    BY <1>0, GotoFields, ReadyOne DEF Ready
<1>1. ASSUME NEW r \in Requests, NEW k \in Keys, NEW call \in Calls, NEW model \in Models,
             NEW body \in Bodies, NEW idem \in IdemKeys \cup {None},
             Arrive(r, k, call, model, body, idem)
      PROVE  ReadyToRecord'
    <2> DEFINE v == [NoRequest EXCEPT !.pc = "begin", !.key = k, !.endpoint = call.endpoint,
                                      !.stream = call.stream, !.model = model,
                                      !.body = body, !.idem = idem]
    <2>0. v.pc = "begin"
        BY NoRequestType, Zenon DEF RequestRecord
    <2>1. req'[r].pc = "begin"
        <3> HIDE DEF v
        <3>1. req' = [req EXCEPT ![r] = v]
            BY <1>1 DEF Arrive, v
        <3>2. QED
            BY <2>0, <3>1, SlotUpdate
    <2>2. \A q \in Requests \ {r} : req'[q] = req[q]
        BY <1>1, SlotUpdate DEF Arrive
    <2>3. QED
        BY <2>1, <2>2, ReadyOne DEF Ready
<1>2. ASSUME NEW r \in Requests, Begin(r) PROVE ReadyToRecord'
    <2>1. \A q \in Requests \ {r} : req'[q] = req[q]
        BY <1>2 DEF Begin, TypeOK
    <2>2. /\ req'[r].pc \in {"done", "plugins", "pre_token"}
          /\ req'[r].pc = "pre_token" => limit(r) # None
          /\ req'[r].key = req[r].key
        BY <1>2, RequestFacts DEF Begin, TypeOK, RequestRecord
    <2>3. QED
        BY <2>1, <2>2, ReadyOne DEF Ready, limit
<1>3. ASSUME NEW r \in Requests, PreCheckToken(r) PROVE ReadyToRecord'
    <2>1. \A q \in Requests \ {r} : req'[q] = req[q]
        BY <1>3 DEF PreCheckToken, TypeOK
    <2>2. req'[r].pc = "pre_check" /\ req'[r].key = req[r].key
        BY <1>3, RequestFacts DEF PreCheckToken, TypeOK, RequestRecord
    <2>3. limit(r) # None
        BY <1>3 DEF PreCheckToken, ReadyToRecord
    <2>4. QED
        BY <2>1, <2>2, <2>3, ReadyOne DEF Ready, limit
<1>4. ASSUME NEW r \in Requests, PreCheck(r) PROVE ReadyToRecord'
    BY <1>4, <1>0 DEF PreCheck, PCs
<1>5. ASSUME NEW r \in Requests, RunPlugins(r) PROVE ReadyToRecord'
    <2>1. \A q \in Requests \ {r} : req'[q] = req[q]
        BY <1>5 DEF RunPlugins, Goto, TypeOK
    <2>2. req'[r].pc \in {"done", "lookup", "dispatch"}
        <3>1. CASE Goto(r, "done")
            BY <3>1, GotoFields
        <3>2. ASSUME NEW body \in Bodies, NEW pc \in {"lookup", "dispatch"},
                     req' = [req EXCEPT ![r].body = body, ![r].pc = pc]
              PROVE  req'[r].pc = pc
            BY <3>2, RequestFacts DEF TypeOK, RequestRecord
        <3>3. QED
            BY <1>5, <3>1, <3>2 DEF RunPlugins
    <2>3. QED
        BY <2>1, <2>2, ReadyOne DEF Ready
<1>6. ASSUME NEW r \in Requests, CacheGet(r) PROVE ReadyToRecord'
    <2>1. \A q \in Requests \ {r} : req'[q] = req[q]
        BY <1>6 DEF CacheGet, Goto, TypeOK
    <2>2. req'[r].pc \in {"done", "dispatch"}
        BY <1>6, RequestFacts DEF CacheGet, Goto, TypeOK, RequestRecord
    <2>3. QED
        BY <2>1, <2>2, ReadyOne DEF Ready
<1>7. ASSUME NEW r \in Requests, DispatchErr(r) PROVE ReadyToRecord'
    BY <1>7, <1>0 DEF DispatchErr, PCs
<1>8. ASSUME NEW r \in Requests, NEW ok \in BOOLEAN, NEW cost \in Costs \cup {None},
             DispatchOk(r, ok, cost)
      PROVE  ReadyToRecord'
    <2>1. \A q \in Requests \ {r} : req'[q] = req[q]
        BY <1>8 DEF DispatchOk, TypeOK
    <2>2. /\ req'[r].pc \in {"record_token", "streaming", "respond"}
          /\ req'[r].pc = "record_token" => MustRecord(r, cost)
          /\ req'[r].key = req[r].key
          /\ req'[r].cost = cost
          /\ req'[r].stream = req[r].stream
        BY <1>8, RequestFacts DEF DispatchOk, TypeOK, RequestRecord
    <2>3. MustRecord(r, cost) => cost \in Costs /\ limit(r) # None /\ ~ req[r].stream
        BY <1>8, RequestFacts DEF MustRecord, DispatchOk, RequestRecord
    <2>4. QED
        BY <2>1, <2>2, <2>3, ReadyOne DEF Ready, limit
<1>9. ASSUME NEW r \in Requests, NEW cost \in Costs \cup {None}, StreamUsage(r, cost)
      PROVE  ReadyToRecord'
    <2>1. \A q \in Requests \ {r} : req'[q] = req[q]
        BY <1>9 DEF StreamUsage, TypeOK
    <2>2. /\ req'[r].pc \in {"record_token", "streaming"}
          /\ req'[r].pc = "record_token" => MustRecord(r, cost)
          /\ req'[r].key = req[r].key
          /\ req'[r].cost = cost
          /\ req'[r].found_usage = TRUE
        BY <1>9, RequestFacts DEF StreamUsage, TypeOK, RequestRecord
    <2>3. MustRecord(r, cost) => cost \in Costs /\ limit(r) # None
        BY DEF MustRecord
    <2>4. QED
        BY <2>1, <2>2, <2>3, ReadyOne DEF Ready, limit
<1>10. ASSUME NEW r \in Requests, StreamEnd(r) PROVE ReadyToRecord'
    BY <1>10, <1>0 DEF StreamEnd, PCs
<1>11. ASSUME NEW r \in Requests, RecordToken(r) PROVE ReadyToRecord'
    <2>1. \A q \in Requests \ {r} : req'[q] = req[q]
        BY <1>11 DEF RecordToken, TypeOK
    <2>2. /\ req'[r].pc = "record"
          /\ req'[r].token = period_token(r)
          /\ req'[r].key = req[r].key
          /\ req'[r].cost = req[r].cost
          /\ req'[r].stream = req[r].stream
          /\ req'[r].found_usage = req[r].found_usage
        BY <1>11, RequestFacts DEF RecordToken, TypeOK, RequestRecord
    <2>3. Ready(req[r]) /\ req[r].pc = "record_token"
        BY <1>11, ReadyIsPerRequest DEF RecordToken
    <2>4. period_token(r) \in Tokens
        BY <2>3, PeriodTokenType DEF Ready, limit
    <2>5. QED
        BY <2>1, <2>2, <2>3, <2>4, ReadyOne DEF Ready
<1>12. ASSUME NEW r \in Requests, Record(r) PROVE ReadyToRecord'
    BY <1>12, <1>0 DEF Record, PCs
<1>13. ASSUME NEW r \in Requests, RespondCached(r) \/ RespondDrainFails(r) \/ RespondUncached(r)
       PROVE  ReadyToRecord'
    BY <1>13, <1>0 DEF RespondCached, RespondDrainFails, RespondUncached, PCs
<1>14. ASSUME NEW r \in Requests, Disconnect(r) PROVE ReadyToRecord'
    BY <1>14, <1>0 DEF Disconnect, PCs
<1>15. ASSUME NEW r \in Requests, Leave(r) PROVE ReadyToRecord'
    <2>0. NoRequest.pc = "idle"
        BY DEF NoRequest
    <2>1. req'[r].pc = "idle" /\ \A q \in Requests \ {r} : req'[q] = req[q]
        BY <1>15, <2>0, SlotUpdate DEF Leave
    <2>2. QED
        BY <2>1, ReadyOne DEF Ready
<1>16. ASSUME UNCHANGED req PROVE ReadyToRecord'
    BY <1>16 DEF ReadyToRecord, limit
<1>17. ASSUME NEW g \in Gens, Evict(g) PROVE ReadyToRecord'
    BY <1>16, <1>17 DEF Evict
<1>18. ASSUME NEW id \in Revocable, ForgetSpend(id) PROVE ReadyToRecord'
    BY <1>16, <1>18 DEF ForgetSpend
<1>19. CASE Reload \/ Tick \/ UNCHANGED vars
    BY <1>16, <1>19 DEF Reload, Tick, vars
<1>20. QED
    BY <1>1, <1>2, <1>3, <1>4, <1>5, <1>6, <1>7, <1>8, <1>9, <1>10, <1>11, <1>12, <1>13,
       <1>14, <1>15, <1>17, <1>18, <1>19 DEF Next, Handle
-----------------------------------------------------------------------------
(***************************************************************************)
(* The steps, as far as the spend of a period depends on them.             *)
(***************************************************************************)

(* The step is of request r: no other slot, no entry and not the clock. *)
Only(r) ==
    /\ UNCHANGED <<now, spend>>
    /\ \A q \in Requests \ {r} : req'[q] = req[q]

(* Slot r is freed, or takes a request that has not read the clock. *)
Fresh(r) ==
    \/ req'[r].pc = "idle"
    \/ req'[r].pc = "begin" /\ req'[r].token = 0

(* Request r keeps its key and its period code, and does not become one    *)
(* that may be charged later.                                              *)
Quiet(r) ==
    /\ req[r].pc # "idle"
    /\ req'[r].pc # "pre_check"
    /\ req'[r].key = req[r].key
    /\ req'[r].token = req[r].token
    /\ Uncharged(r)' => Uncharged(r) \/ limit(r) = None

(* Moving on without becoming chargeable is a quiet step. *)
LEMMA QuietGoto ==
    ASSUME TypeOK, NEW r \in Requests, NEW pc, Goto(r, pc), req[r].pc # "idle",
           \/ pc \in {"done", "respond"}
           \/ pc = "dispatch" /\ req[r].pc = "lookup"
    PROVE  Quiet(r) /\ \A q \in Requests \ {r} : req'[q] = req[q]
BY GotoFields DEF Quiet, Uncharged

(* A step frees or quietly moves a slot, reads the clock, compares,
   records, forgets, or lets time pass; no other step matters to spend. *)
LEMMA StepCases ==
    ASSUME TypeOK, ReadyToRecord, [Next]_vars
    PROVE  \/ \E r \in Requests : Only(r) /\ (\/ Fresh(r) \/ Quiet(r) \/ PreCheck(r)
                                            \/ PreCheckToken(r) \/ RecordToken(r))
           \/ \E r \in Requests : Record(r)
           \/ UNCHANGED <<now, spend, req>>
           \/ \E id \in Revocable : ForgetSpend(id)
           \/ Tick
<1> DEFINE Goal == \E r \in Requests : Only(r) /\ (\/ Fresh(r) \/ Quiet(r) \/ PreCheck(r)
                                                 \/ PreCheckToken(r) \/ RecordToken(r))
<1>1. ASSUME NEW r \in Requests, NEW k \in Keys, NEW call \in Calls, NEW model \in Models,
             NEW body \in Bodies, NEW idem \in IdemKeys \cup {None},
             Arrive(r, k, call, model, body, idem)
      PROVE  Goal
    <2> DEFINE v == [NoRequest EXCEPT !.pc = "begin", !.key = k, !.endpoint = call.endpoint,
                                      !.stream = call.stream, !.model = model,
                                      !.body = body, !.idem = idem]
    <2>1. v.pc = "begin"
        BY NoRequestType, Zenon DEF RequestRecord
    <2>2. v.token = NoRequest.token
        BY NoRequestType, Zenon DEF RequestRecord
    <2>3. NoRequest.token = 0
        BY DEF NoRequest
    <2>4. req' = [req EXCEPT ![r] = v] /\ UNCHANGED <<now, spend>>
        BY <1>1 DEF Arrive
    <2> HIDE DEF v
    <2>5. Only(r) /\ Fresh(r)
        BY <2>1, <2>2, <2>3, <2>4, SlotUpdate DEF Only, Fresh
    <2>6. QED
        BY <2>5
<1>2. ASSUME NEW r \in Requests, Leave(r) PROVE Goal
    <2>1. NoRequest.pc = "idle"
        BY DEF NoRequest
    <2>2. Only(r) /\ Fresh(r)
        BY <1>2, <2>1, SlotUpdate DEF Leave, Only, Fresh
    <2>3. QED
        BY <2>2
<1>3. ASSUME NEW r \in Requests, Begin(r) PROVE Goal
    <2>1. Only(r)
        BY <1>3 DEF Begin, TypeOK, Only
    <2>2. /\ req'[r].pc \in {"done", "plugins", "pre_token"}
          /\ req'[r].pc = "plugins" => limit(r) = None
          /\ req'[r].key = req[r].key
          /\ req'[r].token = req[r].token
        BY <1>3, RequestFacts DEF Begin, TypeOK, RequestRecord
    <2>3. Quiet(r)
        BY <1>3, <2>2 DEF Begin, Quiet, Uncharged
    <2>4. QED
        BY <2>1, <2>3
<1>4. ASSUME NEW r \in Requests, RunPlugins(r) PROVE Goal
    <2>1. CASE Goto(r, "done")
        BY <1>4, <2>1, QuietGoto DEF RunPlugins, Only
    <2>2. ASSUME NEW body \in Bodies, NEW pc \in {"lookup", "dispatch"},
                 req' = [req EXCEPT ![r].body = body, ![r].pc = pc]
          PROVE  Goal
        <3>1. req'[r].pc = pc /\ req'[r].key = req[r].key /\ req'[r].token = req[r].token
            BY <2>2, RequestFacts DEF TypeOK, RequestRecord
        <3>2. Quiet(r)
            BY <1>4, <3>1 DEF RunPlugins, Quiet, Uncharged
        <3>3. Only(r)
            BY <1>4, <2>2 DEF RunPlugins, Only, TypeOK
        <3>4. QED
            BY <3>2, <3>3
    <2>3. QED
        BY <1>4, <2>1, <2>2 DEF RunPlugins
<1>5. ASSUME NEW r \in Requests, CacheGet(r) PROVE Goal
    <2>1. CASE Goto(r, "dispatch")
        BY <1>5, <2>1, QuietGoto DEF CacheGet, Only
    <2>2. ASSUME NEW hit, req' = [req EXCEPT ![r].pc = "done", ![r].hit = hit]
          PROVE  Goal
        <3>1. req'[r].pc = "done" /\ req'[r].key = req[r].key /\ req'[r].token = req[r].token
            BY <2>2, RequestFacts DEF TypeOK, RequestRecord
        <3>2. Quiet(r)
            BY <1>5, <3>1 DEF CacheGet, Quiet, Uncharged
        <3>3. Only(r)
            BY <1>5, <2>2 DEF CacheGet, Only, TypeOK
        <3>4. QED
            BY <3>2, <3>3
    <2>3. QED
        BY <1>5, <2>1, <2>2 DEF CacheGet
<1>6. ASSUME NEW r \in Requests, NEW ok \in BOOLEAN, NEW cost \in Costs \cup {None},
             DispatchOk(r, ok, cost)
      PROVE  Goal
    <2>1. Only(r)
        BY <1>6 DEF DispatchOk, TypeOK, Only
    <2>2. /\ req'[r].pc \in {"record_token", "streaming", "respond"}
          /\ req'[r].key = req[r].key
          /\ req'[r].token = req[r].token
        BY <1>6, RequestFacts DEF DispatchOk, TypeOK, RequestRecord
    <2>3. Quiet(r)
        BY <1>6, <2>2 DEF DispatchOk, Quiet, Uncharged
    <2>4. QED
        BY <2>1, <2>3
<1>7. ASSUME NEW r \in Requests, NEW cost \in Costs \cup {None}, StreamUsage(r, cost)
      PROVE  Goal
    <2>1. Only(r)
        BY <1>7 DEF StreamUsage, TypeOK, Only
    <2>2. /\ req'[r].pc \in {"record_token", "streaming"}
          /\ req'[r].key = req[r].key
          /\ req'[r].token = req[r].token
        BY <1>7, RequestFacts DEF StreamUsage, TypeOK, RequestRecord
    <2>3. Quiet(r)
        BY <1>7, <2>2 DEF StreamUsage, Quiet, Uncharged
    <2>4. QED
        BY <2>1, <2>3
<1>8. ASSUME NEW r \in Requests,
             \/ DispatchErr(r) \/ StreamEnd(r) \/ Disconnect(r)
             \/ RespondCached(r) \/ RespondDrainFails(r) \/ RespondUncached(r)
      PROVE  Goal
    <2>1. Goto(r, "done") /\ req[r].pc # "idle" /\ UNCHANGED <<now, spend>>
        BY <1>8 DEF DispatchErr, StreamEnd, Disconnect, RespondCached, RespondDrainFails,
                    RespondUncached
    <2>2. QED
        BY <2>1, QuietGoto DEF Only
<1>9. ASSUME NEW r \in Requests, PreCheckToken(r) \/ PreCheck(r) \/ RecordToken(r)
      PROVE  Goal
    <2>1. UNCHANGED <<now, spend>>
        BY <1>9 DEF PreCheckToken, PreCheck, RecordToken
    <2>2. \A q \in Requests \ {r} : req'[q] = req[q]
        <3>1. CASE PreCheck(r)
            BY <3>1 DEF PreCheck, Goto, TypeOK
        <3>2. CASE PreCheckToken(r)
            BY <3>2 DEF PreCheckToken, TypeOK
        <3>3. CASE RecordToken(r)
            BY <3>3 DEF RecordToken, TypeOK
        <3>4. QED
            BY <1>9, <3>1, <3>2, <3>3
    <2>3. QED
        BY <1>9, <2>1, <2>2 DEF Only
<1>10. ASSUME NEW g \in Gens, Evict(g) PROVE UNCHANGED <<now, spend, req>>
    BY <1>10 DEF Evict
<1>11. CASE Reload \/ UNCHANGED vars
    BY <1>11 DEF Reload, vars
<1>12. ASSUME NEW r \in Requests, Handle(r) PROVE Goal \/ Record(r)
    BY <1>1, <1>2, <1>3, <1>4, <1>5, <1>6, <1>7, <1>8, <1>9, <1>12 DEF Handle
<1>13. QED
    BY <1>10, <1>11, <1>12 DEF Next
-----------------------------------------------------------------------------
(***************************************************************************)
(* Period codes are not ahead of the clock.                                *)
(***************************************************************************)

(* No codes are in hand when the gateway starts. *)
LEMMA TokensInit == Init => TokensNotAhead
BY DEF Init, TokensNotAhead, NoRequest

(* What a later instant reads is no smaller. *)
LEMMA CalendarMonotone ==
    ASSUME TypeOK, TypeOK', now <= now', NEW k \in Keys, k.spend_limit # None
    PROVE  LET p == k.spend_limit.period
           IN  /\ current_period_token(p, now) \in Nat
               /\ current_period_token(p, now') \in Nat
               /\ current_period_token(p, now) <= current_period_token(p, now')
<1>1. k.spend_limit.period \in DOMAIN Calendar /\ now \in Instants /\ now' \in Instants
    BY ProxyAssumption DEF TypeOK
<1>2. QED
    BY <1>1, ProxyAssumption DEF current_period_token

(* The entry of a key holds a code that its budget's period has reached. *)
EntriesNotAhead ==
    \A id \in Ids : \A k \in SpendingKeys(id) : spend[id] # None =>
        spend[id].period_token <= current_period_token(k.spend_limit.period, now)

RequestNotAhead(r) ==
    req[r].pc # "idle" /\ limit(r) # None => req[r].token <= period_token(r)

(* Codes are read from the clock, and the clock only goes on. *)
LEMMA TokensStep ==
    ASSUME TypeOK, TypeOK', ReadyToRecord, TokensNotAhead, [Next]_vars
    PROVE  TokensNotAhead'
<1>1. EntriesNotAhead /\ \A r \in Requests : RequestNotAhead(r)
    BY DEF TokensNotAhead, EntriesNotAhead, RequestNotAhead
<1>2. ASSUME UNCHANGED <<now, spend>> PROVE EntriesNotAhead'
    BY <1>1, <1>2 DEF EntriesNotAhead
<1>3. ASSUME NEW q \in Requests, req'[q] = req[q], now <= now' PROVE RequestNotAhead(q)'
    <2>1. SUFFICES ASSUME req[q].pc # "idle", limit(q) # None
                   PROVE  req[q].token <= current_period_token(limit(q).period, now')
        BY <1>3 DEF RequestNotAhead, limit, period_token
    <2>2. req[q].token <= current_period_token(limit(q).period, now)
        BY <1>1, <2>1 DEF RequestNotAhead, period_token
    <2>3. req[q].key \in Keys /\ req[q].token \in Nat
        BY <2>1, RequestFacts DEF RequestRecord
    <2>4. QED
        BY <1>3, <2>1, <2>2, <2>3, CalendarMonotone DEF limit
<1>4. ASSUME NEW r \in Requests, Only(r), RequestNotAhead(r)' PROVE TokensNotAhead'
    <2>1. now <= now'
        BY <1>4 DEF Only, TypeOK, Instants
    <2>2. \A q \in Requests : RequestNotAhead(q)'
        BY <1>3, <1>4, <2>1 DEF Only
    <2>3. EntriesNotAhead'
        BY <1>2, <1>4 DEF Only
    <2>4. QED
        BY <2>2, <2>3 DEF TokensNotAhead, EntriesNotAhead, RequestNotAhead
<1>5. ASSUME NEW r \in Requests, Only(r), Fresh(r) PROVE TokensNotAhead'
    <2>1. SUFFICES ASSUME req'[r].pc # "idle", limit(r)' # None, req'[r].token = 0
                   PROVE  0 <= period_token(r)'
        BY <1>4, <1>5 DEF Fresh, RequestNotAhead
    <2>2. req'[r].key \in Keys
        BY <2>1 DEF TypeOK, Request
    <2>3. period_token(r)' \in Nat
        BY <2>1, <2>2, ProxyAssumption DEF TypeOK, limit, period_token, current_period_token
    <2>4. QED
        BY <2>3
<1>6. ASSUME NEW r \in Requests, Only(r), Quiet(r) PROVE TokensNotAhead'
    <2>1. limit(r)' = limit(r) /\ period_token(r)' = period_token(r)
        BY <1>6 DEF Quiet, Only, limit, period_token
    <2>2. RequestNotAhead(r)'
        BY <1>1, <1>6, <2>1 DEF Quiet, RequestNotAhead
    <2>3. QED
        BY <1>4, <1>6, <2>2
<1>7. ASSUME NEW r \in Requests, Only(r), PreCheck(r) PROVE TokensNotAhead'
    <2>1. req[r].pc # "idle" /\ req'[r].key = req[r].key /\ req'[r].token = req[r].token
        BY <1>7, GotoFields DEF PreCheck
    <2>2. limit(r)' = limit(r) /\ period_token(r)' = period_token(r)
        BY <1>7, <2>1 DEF Only, limit, period_token
    <2>3. RequestNotAhead(r)'
        BY <1>1, <2>1, <2>2 DEF RequestNotAhead
    <2>4. QED
        BY <1>4, <1>7, <2>3
<1>8. ASSUME NEW r \in Requests, Only(r), PreCheckToken(r) \/ RecordToken(r)
      PROVE  TokensNotAhead'
    <2>1. req'[r].token = period_token(r) /\ req'[r].key = req[r].key
        <3>1. CASE PreCheckToken(r)
            BY <3>1, RequestFacts DEF PreCheckToken, TypeOK, RequestRecord
        <3>2. CASE RecordToken(r)
            BY <3>2, RequestFacts DEF RecordToken, TypeOK, RequestRecord
        <3>3. QED
            BY <1>8, <3>1, <3>2
    <2>2. period_token(r)' = period_token(r)
        BY <1>8, <2>1 DEF Only, limit, period_token
    <2>3. period_token(r) \in Nat
        BY <1>8, PeriodTokenType DEF PreCheckToken, RecordToken, ReadyToRecord
    <2>4. RequestNotAhead(r)'
        BY <2>1, <2>2, <2>3 DEF RequestNotAhead
    <2>5. QED
        BY <1>4, <1>8, <2>4
<1>9. ASSUME NEW r \in Requests, Record(r) PROVE TokensNotAhead'
    <2> DEFINE id == identifier(req[r].key)
    <2>1. /\ req[r].pc # "idle"
          /\ req'[r].key = req[r].key /\ req'[r].token = req[r].token
          /\ \A q \in Requests \ {r} : req'[q] = req[q]
          /\ now' = now
        BY <1>9, GotoFields DEF Record
    <2>2. \A q \in Requests : RequestNotAhead(q)'
        <3>1. RequestNotAhead(r)'
            BY <1>1, <2>1 DEF RequestNotAhead, limit, period_token
        <3>2. now <= now'
            BY <2>1 DEF TypeOK, Instants
        <3>3. QED
            BY <1>3, <2>1, <3>1, <3>2
    <2>3. limit(r) # None /\ req[r].key \in Keys /\ id \in Ids
        BY <1>9, RequestFacts DEF Record, ReadyToRecord, Ids
    <2>4. req[r].token <= period_token(r)
        BY <1>1, <2>1, <2>3 DEF RequestNotAhead
    <2>5. spend'[id] = record(spend[id], req[r].token, req[r].cost)
        BY <1>9, <2>3 DEF Record, TypeOK
    <2>6. spend'[id].period_token = req[r].token
        <3>1. CASE spend[id] = None \/ spend[id].period_token # req[r].token
            BY <2>5, <3>1 DEF record
        <3>2. CASE spend[id] # None /\ spend[id].period_token = req[r].token
            BY <2>3, <2>5, <3>2 DEF record, TypeOK, SpendState
        <3>3. QED
            BY <3>1, <3>2
    <2>7. ASSUME NEW k \in SpendingKeys(id)
          PROVE  spend'[id].period_token <= current_period_token(k.spend_limit.period, now')
        <3>1. k.spend_limit.period = limit(r).period
            BY <2>3, ProxyAssumption DEF SpendingKeys, limit
        <3>2. QED
            BY <2>1, <2>4, <2>6, <3>1 DEF period_token
    <2>8. \A j \in Ids \ {id} : spend'[j] = spend[j]
        BY <1>9 DEF Record, TypeOK
    <2>9. EntriesNotAhead'
        BY <1>1, <2>1, <2>7, <2>8 DEF EntriesNotAhead
    <2>10. QED
        BY <2>2, <2>9 DEF TokensNotAhead, EntriesNotAhead, RequestNotAhead
<1>10. CASE UNCHANGED <<now, spend, req>>
    BY <1>10 DEF TokensNotAhead, limit, period_token
<1>11. ASSUME NEW id \in Revocable, ForgetSpend(id) PROVE TokensNotAhead'
    <2>1. \A q \in Requests : RequestNotAhead(q)'
        BY <1>1, <1>11 DEF ForgetSpend, RequestNotAhead, limit, period_token
    <2>2. EntriesNotAhead'
        BY <1>1, <1>11 DEF ForgetSpend, EntriesNotAhead, TypeOK
    <2>3. QED
        BY <2>1, <2>2 DEF TokensNotAhead, EntriesNotAhead, RequestNotAhead
<1>12. CASE Tick
    <2>1. now <= now' /\ UNCHANGED <<spend, req>>
        BY <1>12 DEF Tick, TypeOK, Instants
    <2>2. \A q \in Requests : RequestNotAhead(q)'
        BY <1>3, <2>1
    <2>3. ASSUME NEW id \in Ids, NEW k \in SpendingKeys(id), spend[id] # None
          PROVE  spend[id].period_token <= current_period_token(k.spend_limit.period, now')
        <3>1. spend[id].period_token <= current_period_token(k.spend_limit.period, now)
            BY <1>1, <2>3 DEF EntriesNotAhead
        <3>2. spend[id].period_token \in Nat
            BY <2>3 DEF TypeOK, SpendState
        <3>3. QED
            BY <2>1, <3>1, <3>2, CalendarMonotone DEF SpendingKeys
    <2>4. EntriesNotAhead'
        BY <2>1, <2>3 DEF EntriesNotAhead
    <2>5. QED
        BY <2>2, <2>4 DEF TokensNotAhead, EntriesNotAhead, RequestNotAhead
<1>13. QED
    BY <1>5, <1>6, <1>7, <1>8, <1>9, <1>10, <1>11, <1>12, StepCases
-----------------------------------------------------------------------------
(***************************************************************************)
(* The overshoot of a budget.                                              *)
(***************************************************************************)

(* OvershootInv for one identifier, with the contributors as a parameter. *)
Within(id, entry, S) ==
    \E k \in SpendingKeys(id) :
        entry.cumulative_usd + MaxCost * Cardinality(S)
            < k.spend_limit.amount_usd + MaxCost * Cardinality(Requests)

(* The numbers in OvershootInv are natural numbers. *)
LEMMA Quantities ==
    ASSUME NEW id \in Ids, NEW k \in SpendingKeys(id), NEW S \in SUBSET Requests
    PROVE  /\ k.spend_limit.amount_usd \in Nat \ {0}
           /\ MaxCost \in Nat
           /\ MaxCost * Cardinality(S) \in Nat
           /\ MaxCost * Cardinality(Requests) \in Nat
           /\ MaxCost * Cardinality(S) <= MaxCost * Cardinality(Requests)
BY WeightMonotone, ProxyAssumption DEF SpendingKeys

(* Fewer contributors to the same entry keep it within the bound. *)
LEMMA FewerContributors ==
    ASSUME NEW id \in Ids, NEW entry \in SpendState, NEW S \in SUBSET Requests,
           NEW T \in SUBSET S, Within(id, entry, S)
    PROVE  Within(id, entry, T)
<1>1. PICK k \in SpendingKeys(id) :
          entry.cumulative_usd + MaxCost * Cardinality(S)
              < k.spend_limit.amount_usd + MaxCost * Cardinality(Requests)
    BY DEF Within
<1>2. entry.cumulative_usd \in Nat
    BY DEF SpendState
<1>3. /\ MaxCost * Cardinality(T) \in Nat
      /\ MaxCost * Cardinality(S) \in Nat
      /\ MaxCost * Cardinality(T) <= MaxCost * Cardinality(S)
    BY WeightMonotone
<1>4. entry.cumulative_usd + MaxCost * Cardinality(T)
          < k.spend_limit.amount_usd + MaxCost * Cardinality(Requests)
    BY <1>1, <1>2, <1>3, Quantities
<1>5. QED
    BY <1>4 DEF Within

(* There are no entries when the gateway starts. *)
LEMMA OvershootInit == Init => OvershootInv
BY DEF Init, OvershootInv

(* A step that leaves the entries alone and gives none a new contributor. *)
LEMMA NoNewContributor ==
    ASSUME TypeOK, OvershootInv, UNCHANGED spend,
           \A q \in Requests, id \in Ids : spend[id] # None /\ MayAdd(q, id)' => MayAdd(q, id)
    PROVE  OvershootInv'
<1>1. SUFFICES ASSUME NEW id \in Ids, spend[id] # None
               PROVE  Within(id, spend[id], Contributors(id)')
    BY DEF OvershootInv, Within
<1>2. Within(id, spend[id], Contributors(id)) /\ spend[id] \in SpendState
    BY <1>1 DEF OvershootInv, Within, TypeOK
<1>3. Contributors(id)' \in SUBSET Contributors(id) /\ Contributors(id) \in SUBSET Requests
    BY <1>1 DEF Contributors
<1>4. QED
    BY <1>2, <1>3, FewerContributors

(* Every step keeps the entries, with all who may still add, in bounds. *)
LEMMA OvershootStep ==
    ASSUME TypeOK, TypeOK', ReadyToRecord, TokensNotAhead, OvershootInv, [Next]_vars
    PROVE  OvershootInv'
<1>1. ASSUME NEW r \in Requests, Only(r),
             \A id \in Ids : spend[id] # None /\ MayAdd(r, id)' => MayAdd(r, id)
      PROVE  OvershootInv'
    <2>1. ASSUME NEW q \in Requests \ {r}, NEW id \in Ids, MayAdd(q, id)'
          PROVE  MayAdd(q, id)
        BY <1>1, <2>1 DEF Only, MayAdd, Uncharged, limit
    <2>2. QED
        BY <1>1, <2>1, NoNewContributor DEF Only
<1>2. ASSUME NEW r \in Requests, Only(r), Fresh(r) PROVE OvershootInv'
    BY <1>1, <1>2 DEF Fresh, MayAdd, Uncharged
<1>3. ASSUME NEW r \in Requests, Only(r), Quiet(r) PROVE OvershootInv'
    <2>1. limit(r)' = limit(r) /\ UNCHANGED spend
        BY <1>3 DEF Quiet, Only, limit
    <2>2. ASSUME NEW id \in Ids, MayAdd(r, id)' PROVE MayAdd(r, id)
        BY <1>3, <2>1, <2>2 DEF Quiet, MayAdd
    <2>3. QED
        BY <1>1, <1>3, <2>2
<1>4. ASSUME NEW r \in Requests, Only(r), PreCheckToken(r) PROVE OvershootInv'
    <2>1. /\ req'[r].pc = "pre_check"
          /\ req'[r].token = period_token(r)
          /\ req'[r].key = req[r].key
        BY <1>4, RequestFacts DEF PreCheckToken, TypeOK, RequestRecord
    <2>2. limit(r) # None /\ req[r].key \in Keys
        BY <1>4, RequestFacts DEF PreCheckToken, ReadyToRecord
    <2>3. ASSUME NEW id \in Ids, spend[id] # None PROVE ~ MayAdd(r, id)'
        <3>1. SUFFICES ASSUME identifier(req[r].key) = id
                       PROVE  ~ (period_token(r) < spend[id].period_token)
            BY <1>4, <2>1 DEF Only, MayAdd, Uncharged
        <3>2. req[r].key \in SpendingKeys(id)
            BY <2>2, <3>1 DEF SpendingKeys, limit
        <3>3. spend[id].period_token <= period_token(r)
            BY <2>3, <3>2 DEF TokensNotAhead, period_token, limit
        <3>4. spend[id].period_token \in Nat /\ period_token(r) \in Nat
            BY <1>4, <2>2, <2>3, PeriodTokenType DEF PreCheckToken, TypeOK, SpendState
        <3>5. QED
            BY <3>3, <3>4
    <2>4. QED
        BY <1>1, <1>4, <2>3
<1>5. ASSUME NEW r \in Requests, Only(r), RecordToken(r) PROVE OvershootInv'
    <2>1. /\ req[r].pc = "record_token"
          /\ req'[r].token = period_token(r)
          /\ req'[r].key = req[r].key
        BY <1>5, RequestFacts DEF RecordToken, TypeOK, RequestRecord
    <2>2. limit(r) # None
        BY <2>1 DEF ReadyToRecord
    <2>3. req[r].token <= period_token(r) /\ req[r].token \in Nat /\ period_token(r) \in Nat
        BY <2>1, <2>2, RequestFacts, PeriodTokenType DEF TokensNotAhead, RequestRecord
    <2>4. req'[r].pc = "record"
        BY <1>5, RequestFacts DEF RecordToken, TypeOK, RequestRecord
    <2>5. ASSUME NEW id \in Ids, spend[id] # None, MayAdd(r, id)' PROVE MayAdd(r, id)
        <3>1. identifier(req[r].key) = id /\ period_token(r) <= spend[id].period_token
            BY <1>5, <2>1, <2>4, <2>5 DEF Only, MayAdd
        <3>2. spend[id].period_token \in Nat
            BY <2>5 DEF TypeOK, SpendState
        <3>3. req[r].token <= spend[id].period_token
            BY <2>3, <3>1, <3>2
        <3>4. QED
            BY <2>1, <2>2, <3>1, <3>3 DEF MayAdd, Uncharged
    <2>6. QED
        BY <1>1, <1>5, <2>5
<1>6. ASSUME NEW r \in Requests, Only(r), PreCheck(r) PROVE OvershootInv'
    <2>0. PICK id \in Ids : id = identifier(req[r].key)
        BY <1>6, RequestFacts DEF PreCheck, Ids
    <2>1. /\ req[r].pc = "pre_check"
          /\ req'[r].pc \in {"plugins", "done"}
          /\ req'[r].pc = "plugins" => pre_check(spend[id], req[r].token, limit(r))
          /\ req'[r].key = req[r].key
          /\ req'[r].token = req[r].token
          /\ spend' = spend
        BY <1>6, <2>0, GotoFields DEF PreCheck
    <2>2. limit(r) # None /\ req[r].key \in Keys
        BY <2>1, RequestFacts DEF ReadyToRecord
    <2>3. CASE \A j \in Ids : spend[j] # None /\ MayAdd(r, j)' => MayAdd(r, j)
        BY <1>1, <1>6, <2>3
    <2>4. ASSUME NEW j \in Ids, spend[j] # None, MayAdd(r, j)', ~ MayAdd(r, j)
          PROVE  OvershootInv'
        <3>1. j = id /\ req'[r].pc = "plugins" /\ req[r].token <= spend[id].period_token
            BY <2>0, <2>1, <2>4 DEF MayAdd, Uncharged
        <3>2. ~ (req[r].token < spend[id].period_token)
            BY <2>0, <2>1, <2>2, <2>4, <3>1 DEF MayAdd
        <3>3. spend[id] \in SpendState /\ req[r].token \in Nat
            BY <2>2, <2>4, <3>1, RequestFacts DEF TypeOK, RequestRecord
        <3>4. spend[id].period_token = req[r].token
            BY <3>1, <3>2, <3>3 DEF SpendState
        <3>5. spend[id].cumulative_usd < limit(r).amount_usd
            BY <2>1, <2>4, <3>1, <3>4 DEF pre_check
        <3>6. Within(id, spend[id], Contributors(id)')
            <4>1. req[r].key \in SpendingKeys(id)
                BY <2>0, <2>2 DEF SpendingKeys, limit
            <4>2. Contributors(id)' \in SUBSET Requests
                BY DEF Contributors
            <4>3. spend[id].cumulative_usd \in Nat
                BY <3>3 DEF SpendState
            <4>4. spend[id].cumulative_usd + MaxCost * Cardinality(Contributors(id)')
                      < req[r].key.spend_limit.amount_usd + MaxCost * Cardinality(Requests)
                BY <2>2, <3>5, <4>1, <4>2, <4>3, Quantities DEF limit
            <4>5. QED
                BY <4>1, <4>4 DEF Within
        <3>7. ASSUME NEW i \in Ids \ {id}, spend[i] # None
              PROVE  Within(i, spend[i], Contributors(i)')
            <4>1. ASSUME NEW q \in Requests, MayAdd(q, i)' PROVE MayAdd(q, i)
                BY <1>6, <2>0, <2>1, <3>7, <4>1 DEF Only, MayAdd, Uncharged, limit
            <4>2. Contributors(i)' \in SUBSET Contributors(i) /\ Contributors(i) \in SUBSET Requests
                BY <4>1 DEF Contributors
            <4>3. Within(i, spend[i], Contributors(i)) /\ spend[i] \in SpendState
                BY <3>7 DEF OvershootInv, Within, TypeOK
            <4>4. QED
                BY <4>2, <4>3, FewerContributors
        <3>8. QED
            BY <2>1, <3>6, <3>7 DEF OvershootInv, Within
    <2>5. QED
        BY <2>3, <2>4
<1>7. ASSUME NEW r \in Requests, Record(r) PROVE OvershootInv'
    <2>0. PICK id \in Ids : id = identifier(req[r].key)
        BY <1>7, RequestFacts DEF Record, Ids
    <2> DEFINE new == record(spend[id], req[r].token, req[r].cost)
    <2>1. /\ req[r].pc = "record"
          /\ req'[r].pc = IF req[r].stream THEN "streaming" ELSE "respond"
          /\ req'[r].found_usage = req[r].found_usage
          /\ \A q \in Requests \ {r} : req'[q] = req[q]
        BY <1>7, GotoFields DEF Record
    <2>2. /\ limit(r) # None
          /\ req[r].key \in Keys
          /\ req[r].cost \in Costs
          /\ req[r].stream => req[r].found_usage
          /\ req[r].token \in Nat
        BY <2>1, RequestFacts DEF ReadyToRecord, RequestRecord
    <2>3. \A i \in Ids : ~ MayAdd(r, i)'
        BY <2>1, <2>2 DEF MayAdd, Uncharged
    <2>4. spend'[id] = new /\ \A i \in Ids \ {id} : spend'[i] = spend[i]
        BY <1>7, <2>0 DEF Record, TypeOK
    <2>5. req[r].cost \in Nat /\ req[r].cost <= MaxCost /\ MaxCost \in Nat
        <3>1. req[r].cost \in 0..MaxCost /\ MaxCost \in Nat
            BY <2>2, ProxyAssumption
        <3>2. QED
            BY <3>1
    <2>6. ASSUME NEW i \in Ids \ {id}, spend[i] # None
          PROVE  Within(i, spend'[i], Contributors(i)')
        <3>1. ASSUME NEW q \in Requests, MayAdd(q, i)' PROVE MayAdd(q, i)
            BY <2>1, <2>3, <2>4, <3>1 DEF MayAdd, Uncharged, limit
        <3>2. Contributors(i)' \in SUBSET Contributors(i) /\ Contributors(i) \in SUBSET Requests
            BY <3>1 DEF Contributors
        <3>3. Within(i, spend[i], Contributors(i)) /\ spend[i] \in SpendState
            BY <2>6 DEF OvershootInv, Within, TypeOK
        <3>4. QED
            BY <2>4, <3>2, <3>3, FewerContributors
    <2>7. Within(id, spend'[id], Contributors(id)')
        <3>1. CASE spend[id] = None \/ spend[id].period_token # req[r].token
            <4>1. spend'[id].cumulative_usd = req[r].cost
                BY <2>4, <3>1 DEF record
            <4>2. Contributors(id)' \in SUBSET Requests /\ r \in Requests \ Contributors(id)'
                BY <2>3 DEF Contributors
            <4>3. /\ MaxCost * Cardinality(Contributors(id)') \in Nat
                  /\ MaxCost * Cardinality(Contributors(id)') + MaxCost
                        <= MaxCost * Cardinality(Requests)
                BY <4>2, WeightMonotone
            <4>4. req[r].key \in SpendingKeys(id)
                BY <2>0, <2>2 DEF SpendingKeys, limit
            <4>5. spend'[id].cumulative_usd + MaxCost * Cardinality(Contributors(id)')
                      < req[r].key.spend_limit.amount_usd + MaxCost * Cardinality(Requests)
                BY <2>2, <2>5, <4>1, <4>2, <4>3, <4>4, Quantities
            <4>6. QED
                BY <4>4, <4>5 DEF Within
        <3>2. CASE spend[id] # None /\ spend[id].period_token = req[r].token
            <4>1. spend[id] \in SpendState
                BY <2>2, <3>2 DEF TypeOK
            <4>2. /\ spend'[id].cumulative_usd = spend[id].cumulative_usd + req[r].cost
                  /\ spend'[id].period_token = spend[id].period_token
                BY <2>4, <3>2, <4>1 DEF record, SpendState
            <4>3. ASSUME NEW q \in Requests, MayAdd(q, id)' PROVE MayAdd(q, id)
                BY <2>1, <2>3, <4>2, <4>3 DEF MayAdd, Uncharged, limit
            <4>4. MayAdd(r, id)
                BY <2>0, <2>1, <2>2, <3>2 DEF MayAdd, Uncharged
            <4>5. /\ Contributors(id) \in SUBSET Requests
                  /\ Contributors(id)' \in SUBSET Contributors(id)
                  /\ r \in Contributors(id) \ Contributors(id)'
                BY <2>3, <4>3, <4>4 DEF Contributors
            <4>6. /\ MaxCost * Cardinality(Contributors(id)') \in Nat
                  /\ MaxCost * Cardinality(Contributors(id)') + MaxCost
                        <= MaxCost * Cardinality(Contributors(id))
                BY <4>5, WeightMonotone
            <4>7. PICK k \in SpendingKeys(id) :
                      spend[id].cumulative_usd + MaxCost * Cardinality(Contributors(id))
                          < k.spend_limit.amount_usd + MaxCost * Cardinality(Requests)
                BY <2>2, <3>2 DEF OvershootInv
            <4>8. spend[id].cumulative_usd \in Nat
                BY <4>1 DEF SpendState
            <4>9. spend'[id].cumulative_usd + MaxCost * Cardinality(Contributors(id)')
                      < k.spend_limit.amount_usd + MaxCost * Cardinality(Requests)
                BY <2>2, <2>5, <4>2, <4>5, <4>6, <4>7, <4>8, Quantities
            <4>10. QED
                BY <4>9 DEF Within
        <3>3. QED
            BY <3>1, <3>2
    <2>8. QED
        BY <2>4, <2>6, <2>7 DEF OvershootInv, Within
<1>8. CASE UNCHANGED <<now, spend, req>>
    <2>1. ASSUME NEW q \in Requests, NEW id \in Ids, MayAdd(q, id)' PROVE MayAdd(q, id)
        BY <1>8, <2>1 DEF MayAdd, Uncharged, limit
    <2>2. QED
        BY <1>8, <2>1, NoNewContributor
<1>9. CASE Tick
    <2>1. ASSUME NEW q \in Requests, NEW id \in Ids, MayAdd(q, id)' PROVE MayAdd(q, id)
        BY <1>9, <2>1 DEF Tick, MayAdd, Uncharged, limit
    <2>2. QED
        BY <1>9, <2>1, NoNewContributor DEF Tick
<1>10. ASSUME NEW id \in Revocable, ForgetSpend(id) PROVE OvershootInv'
    <2>1. spend'[id] = None /\ \A i \in Ids \ {id} : spend'[i] = spend[i]
        BY <1>10, ProxyAssumption DEF ForgetSpend, TypeOK
    <2>2. ASSUME NEW i \in Ids \ {id} PROVE Contributors(i)' = Contributors(i)
        BY <1>10, <2>1, <2>2 DEF ForgetSpend, Contributors, MayAdd, Uncharged, limit
    <2>3. QED
        BY <2>1, <2>2 DEF OvershootInv
<1>11. QED
    BY <1>2, <1>3, <1>4, <1>5, <1>6, <1>7, <1>8, <1>9, <1>10, StepCases
-----------------------------------------------------------------------------
(***************************************************************************)
(* The theorems.                                                           *)
(***************************************************************************)

(* The handlers keep the shape of their state (proxy.rs, auth.rs) for any  *)
(* keys, requests, costs, calendar and bounds.                             *)
THEOREM TypeCorrect == Spec => []TypeOK
<1>1. Init => TypeOK /\ ReadyToRecord
    BY TypeInit, ReadyInit
<1>2. TypeOK /\ ReadyToRecord /\ [Next]_vars => (TypeOK /\ ReadyToRecord)'
    BY TypeStep, ReadyStep
<1>3. QED
    BY <1>1, <1>2, PTL DEF Spec

(* IInv is inductive: the types, who is about to be charged, clock reads   *)
(* that are not ahead of the clock, and the budget with all those who may  *)
(* still add to an entry counted in.                                       *)
THEOREM InductiveInvariant == Spec => []IInv
<1>1. Init => IInv
    BY TypeInit, ReadyInit, TokensInit, OvershootInit DEF IInv
<1>2. IInv /\ [Next]_vars => IInv'
    <2> SUFFICES ASSUME IInv, [Next]_vars PROVE IInv'
        OBVIOUS
    <2>1. TypeOK /\ ReadyToRecord /\ TokensNotAhead /\ OvershootInv
        BY DEF IInv
    <2>2. TypeOK' /\ ReadyToRecord'
        BY <2>1, TypeStep, ReadyStep
    <2>3. TokensNotAhead' /\ OvershootInv'
        BY <2>1, <2>2, TokensStep, OvershootStep
    <2>4. QED
        BY <2>2, <2>3 DEF IInv
<1>3. QED
    BY <1>1, <1>2, PTL DEF Spec

(* However many requests, rollovers, stale clock reads and revocations     *)
(* interleave, the spend that SpendTracker::record leaves in a key's entry *)
(* is below a budget of the key plus one maximal cost per concurrently     *)
(* handled request.                                                        *)
THEOREM BoundedOvershoot == Spec => []OvershootBound
<1>1. IInv => OvershootBound
    <2>1. SUFFICES ASSUME IInv, NEW id \in Ids, spend[id] # None
                   PROVE  Within(id, spend[id], {})
        <3>1. Cardinality({}) = 0
            BY FS_EmptySet
        <3>2. ASSUME NEW id \in Ids, spend[id] # None, TypeOK, Within(id, spend[id], {})
              PROVE  \E k \in SpendingKeys(id) : spend[id].cumulative_usd
                         < k.spend_limit.amount_usd + MaxCost * Cardinality(Requests)
            <4>1. spend[id].cumulative_usd \in Nat /\ MaxCost \in Nat
                BY <3>2, ProxyAssumption DEF TypeOK, SpendState
            <4>2. spend[id].cumulative_usd + MaxCost * Cardinality({}) = spend[id].cumulative_usd
                BY <3>1, <4>1
            <4>3. QED
                BY <3>2, <4>2 DEF Within
        <3>3. QED
            BY <3>2 DEF OvershootBound, IInv
    <2>2. spend[id] \in SpendState
        BY <2>1 DEF IInv, TypeOK
    <2>3. Within(id, spend[id], Contributors(id)) /\ Contributors(id) \in SUBSET Requests
        BY <2>1 DEF IInv, OvershootInv, Within, Contributors
    <2>4. QED
        BY <2>2, <2>3, FewerContributors
<1>2. QED
    BY <1>1, InductiveInvariant, PTL
-----------------------------------------------------------------------------
(***************************************************************************)
(* The spend entries.                                                      *)
(***************************************************************************)

(* Only Record and ForgetSpend touch entries and ledger. *)
LEMMA AccountSteps ==
    ASSUME [Next]_vars
    PROVE  \/ UNCHANGED <<spend, ledger>>
           \/ \E r \in Requests : Record(r)
           \/ \E id \in Revocable : ForgetSpend(id)
<1>1. ASSUME NEW r \in Requests, Handle(r)
      PROVE  UNCHANGED <<spend, ledger>> \/ Record(r)
    BY <1>1 DEF Handle, Arrive, Begin, PreCheckToken, PreCheck, RunPlugins, CacheGet, DispatchErr,
                DispatchOk, StreamUsage, StreamEnd, RecordToken, RespondCached,
                RespondDrainFails, RespondUncached, Disconnect, Leave
<1>2. CASE Reload \/ (\E g \in Gens : Evict(g)) \/ Tick \/ UNCHANGED vars
    BY <1>2 DEF Reload, Evict, Tick, vars
<1>3. QED
    BY <1>1, <1>2 DEF Next

(* record on an entry and on the ledger of its period code. *)
LEMMA LedgerStep ==
    ASSUME TypeOK, ReadyToRecord, LedgerInv, [Next]_vars
    PROVE  LedgerInv'
<1>1. CASE UNCHANGED <<spend, ledger>>
    BY <1>1 DEF LedgerInv
<1>2. ASSUME NEW id \in Revocable, ForgetSpend(id)
      PROVE  LedgerInv'
    <2>1. id \in Ids
        BY ProxyAssumption
    <2>2. \A other \in Ids : \/ spend'[other] = None
                             \/ spend'[other] = spend[other] /\ ledger'[other] = ledger[other]
        BY <1>2, <2>1 DEF ForgetSpend, TypeOK
    <2>3. QED
        BY <2>2 DEF LedgerInv
<1>3. ASSUME NEW r \in Requests, Record(r)
      PROVE  LedgerInv'
    <2> DEFINE id == identifier(req[r].key)
               token == req[r].token
               cost == req[r].cost
    <2>1. /\ spend' = [spend EXCEPT ![id] = record(spend[id], token, cost)]
          /\ ledger' = [ledger EXCEPT ![id][token] = @ + cost]
          /\ req[r].pc = "record"
        BY <1>3 DEF Record
    <2>2. token \in Tokens /\ token \in Nat /\ cost \in Nat
        BY <2>1, RequestFacts, ProxyAssumption DEF ReadyToRecord, RequestRecord
    <2>3. id \in Ids
        BY <2>1, RequestFacts DEF Ids
    <2> HIDE DEF id, token, cost
    <2>4. /\ spend'[id] = record(spend[id], token, cost)
          /\ ledger'[id][token] = ledger[id][token] + cost
          /\ ledger[id][token] \in Nat
          /\ \A other \in Ids \ {id} : spend'[other] = spend[other] /\ ledger'[other] = ledger[other]
        BY <2>1, <2>2, <2>3 DEF TypeOK
    <2>5. /\ record(spend[id], token, cost).period_token = token
          /\ record(spend[id], token, cost).cumulative_usd <= ledger[id][token] + cost
        <3>1. CASE spend[id] = None \/ spend[id].period_token # token
            BY <2>2, <2>4, <3>1 DEF record
        <3>2. CASE spend[id] # None /\ spend[id].period_token = token
            <4>1. spend[id] \in SpendState
                BY <2>3, <3>2 DEF TypeOK
            <4>2. record(spend[id], token, cost) = [spend[id] EXCEPT !.cumulative_usd = @ + cost]
                BY <3>2 DEF record
            <4>3. /\ record(spend[id], token, cost).cumulative_usd = spend[id].cumulative_usd + cost
                  /\ record(spend[id], token, cost).period_token = token
                  /\ spend[id].cumulative_usd \in Nat
                BY <3>2, <4>1, <4>2 DEF SpendState
            <4>4. spend[id].cumulative_usd <= ledger[id][token]
                BY <2>3, <3>2 DEF LedgerInv
            <4>5. QED
                BY <2>2, <2>4, <4>3, <4>4
        <3>3. QED
            BY <3>1, <3>2
    <2>6. ASSUME NEW other \in Ids, spend'[other] # None
          PROVE  /\ spend'[other].period_token \in Tokens
                 /\ spend'[other].cumulative_usd <= ledger'[other][spend'[other].period_token]
        <3>1. CASE other = id
            BY <2>2, <2>4, <2>5, <3>1
        <3>2. CASE other # id
            BY <2>4, <2>6, <3>2 DEF LedgerInv
        <3>3. QED
            BY <3>1, <3>2
    <2>7. QED
        BY <2>6 DEF LedgerInv
<1>4. QED
    BY <1>1, <1>2, <1>3, AccountSteps
-----------------------------------------------------------------------------
(***************************************************************************)
(* The cache.                                                              *)
(***************************************************************************)
LEMMA CacheSteps ==
    ASSUME [Next]_vars
    PROVE  \/ UNCHANGED cache
           \/ \E r \in Requests : RespondCached(r)
           \/ \E g \in Gens : Evict(g)
<1>1. ASSUME NEW r \in Requests, Handle(r)
      PROVE  UNCHANGED cache \/ RespondCached(r)
    BY <1>1 DEF Handle, Arrive, Begin, PreCheckToken, PreCheck, RunPlugins, CacheGet, DispatchErr,
                DispatchOk, StreamUsage, StreamEnd, RecordToken, Record,
                RespondDrainFails, RespondUncached, Disconnect, Leave
<1>2. CASE Reload \/ (\E id \in Revocable : ForgetSpend(id)) \/ Tick \/ UNCHANGED vars
    BY <1>2 DEF Reload, ForgetSpend, Tick, vars
<1>3. QED
    BY <1>1, <1>2 DEF Next

(* A response is filed under its own key, in the cache of its own runtime. *)
LEMMA OwnResponseFiled ==
    ASSUME TypeOK, NEW r \in Requests
    PROVE  Filed([key |-> cache_key_for(r), response |-> OwnResponse(r)], req[r].rt)
    BY DEF Filed, cache_key_for, OwnResponse

LEMMA CacheStep ==
    ASSUME TypeOK, CacheInv, [Next]_vars
    PROVE  CacheInv'
<1>1. CASE UNCHANGED cache
    BY <1>1 DEF CacheInv, Filed
<1>2. ASSUME NEW g \in Gens, Evict(g)
      PROVE  CacheInv'
    <2>1. \A h \in Gens : cache'[h] \subseteq cache[h]
        BY <1>2 DEF Evict, TypeOK
    <2>2. QED
        BY <2>1 DEF CacheInv, Filed
<1>3. ASSUME NEW r \in Requests, RespondCached(r)
      PROVE  CacheInv'
    <2> DEFINE own == [key |-> cache_key_for(r), response |-> OwnResponse(r)]
    <2>1. cache' = [cache EXCEPT ![req[r].rt] =
                      {e \in cache[req[r].rt] : e.key # cache_key_for(r)} \cup {own}]
        BY <1>3 DEF RespondCached, CacheInsert
    <2>2. Filed(own, req[r].rt)
        BY OwnResponseFiled
    <2> HIDE DEF own
    <2>3. ASSUME NEW g \in Gens, NEW e \in cache'[g]
          PROVE  Filed(e, g)
        <3>1. e \in cache[g] \/ (g = req[r].rt /\ e = own)
            BY <2>1, <2>3 DEF TypeOK
        <3>2. QED
            BY <2>2, <3>1 DEF CacheInv
    <2>4. QED
        BY <2>3 DEF CacheInv, Filed
<1>4. QED
    BY <1>1, <1>2, <1>3, CacheSteps
-----------------------------------------------------------------------------
(***************************************************************************)
(* The requests.                                                           *)
(***************************************************************************)
Settled(v, n) == Charged(v, n) /\ OwnHit(v)

(* A step that changes one request has only that one to account for. *)
LEMMA SettledOne ==
    ASSUME TypeOK, \A q \in Requests : Settled(req[q], charges[q]),
           NEW r \in Requests, NEW v, NEW n, Settled(v, n),
           req' = [req EXCEPT ![r] = v], charges' = [charges EXCEPT ![r] = n]
    PROVE  (\A q \in Requests : Settled(req[q], charges[q]))'
<1>1. ASSUME NEW q \in Requests
      PROVE  Settled(req'[q], charges'[q])
    <2>1. CASE q = r
        BY <2>1 DEF TypeOK
    <2>2. CASE q # r
        BY <2>2 DEF TypeOK
    <2>3. QED
        BY <2>1, <2>2
<1>2. QED
    BY <1>1 DEF Settled, Charged, OwnHit

(* Moving on without a charge, to where as much was due before. *)
LEMMA SettledGoto ==
    ASSUME TypeOK, \A q \in Requests : Settled(req[q], charges[q]),
           NEW r \in Requests, NEW pc, Goto(r, pc), UNCHANGED charges,
           req[r].pc \notin {"idle", "done"},
           \/ /\ req[r].pc \in {"begin", "pre_token", "pre_check", "plugins", "lookup", "dispatch"}
              /\ pc \in {"plugins", "dispatch", "done"}
           \/ req[r].pc \in {"respond", "streaming"} /\ pc = "done"
    PROVE  (\A q \in Requests : Settled(req[q], charges[q]))'
<1> DEFINE v == [req[r] EXCEPT !.pc = pc]
<1>1. req[r] \in RequestRecord /\ Settled(req[r], charges[r])
    BY RequestFacts
<1>2. /\ v.pc = pc /\ v.cost = req[r].cost /\ v.key = req[r].key /\ v.hit = req[r].hit
      /\ v.found_usage = req[r].found_usage
    BY <1>1 DEF RequestRecord
<1>3. req' = [req EXCEPT ![r] = v] /\ charges' = [charges EXCEPT ![r] = charges[r]]
    BY DEF Goto, TypeOK
<1> HIDE DEF v
<1>4. v.hit = None
    BY <1>1, <1>2 DEF Settled, OwnHit
<1>5. Charged(v, charges[r])
    BY <1>1, <1>2 DEF Settled, Charged
<1>6. QED
    BY <1>3, <1>4, <1>5, SettledOne DEF Settled, OwnHit

(* A hit is of the request's own runtime and scope. *)
LEMMA HitIsOwn ==
    ASSUME TypeOK, CacheInv, NEW r \in Requests, req[r].pc # "idle",
           NEW e \in cache[req[r].rt], e.key = cache_key_for(r)
    PROVE  /\ e.response.gen = req[r].rt
           /\ e.response.scope = identifier(req[r].key)
           /\ e.response.model = req[r].model
           /\ e.response.idem = req[r].idem
           /\ req[r].idem = None => e.response.body = req[r].body
<1>1. /\ req[r].rt \in Gens /\ req[r].idem \in IdemKeys \cup {None} /\ req[r].body \in Bodies
    BY RequestFacts DEF RequestRecord
<1>2. e \in [key : CacheKey, response : Response] /\ Filed(e, req[r].rt)
    BY <1>1 DEF TypeOK, CacheInv
<1>3. e.response.body \in Bodies /\ e.response.idem \in IdemKeys \cup {None}
    BY <1>2 DEF Response
<1>4. /\ e.key.scope = identifier(req[r].key) /\ e.key.model = req[r].model
      /\ e.key.content = IF req[r].idem # None THEN req[r].idem ELSE req[r].body
    BY DEF cache_key_for
<1>5. IdemKeys \cap Bodies = {}
    BY ProxyAssumption
<1>6. /\ e.response.gen = req[r].rt /\ e.response.scope = identifier(req[r].key)
      /\ e.response.model = req[r].model
    BY <1>2, <1>4 DEF Filed
<1>7. (IF e.response.idem # None THEN e.response.idem ELSE e.response.body)
        = IF req[r].idem # None THEN req[r].idem ELSE req[r].body
    BY <1>2, <1>4 DEF Filed
<1>8. e.response.idem = req[r].idem /\ (req[r].idem = None => e.response.body = req[r].body)
    BY <1>1, <1>3, <1>5, <1>7
<1>9. QED
    BY <1>6, <1>8

LEMMA SettledStep ==
    ASSUME TypeOK, ReadyToRecord, CacheInv, \A q \in Requests : Settled(req[q], charges[q]),
           [Next]_vars
    PROVE  (\A q \in Requests : Settled(req[q], charges[q]))'
<1> DEFINE Goal == (\A q \in Requests : Settled(req[q], charges[q]))'
<1> HIDE DEF Goal
<1>0. ASSUME NEW r \in Requests, UNCHANGED charges
      PROVE  charges' = [charges EXCEPT ![r] = charges[r]]
    BY <1>0 DEF TypeOK
<1>1. ASSUME NEW r \in Requests, NEW k \in Keys, NEW call \in Calls, NEW model \in Models,
             NEW body \in Bodies, NEW idem \in IdemKeys \cup {None},
             Arrive(r, k, call, model, body, idem)
      PROVE  Goal
    <2> DEFINE v == [NoRequest EXCEPT !.pc = "begin", !.key = k, !.endpoint = call.endpoint,
                                      !.stream = call.stream, !.model = model,
                                      !.body = body, !.idem = idem]
    <2>1. v.pc = "begin" /\ v.cost = None /\ v.hit = None
        BY DEF NoRequest
    <2>2. req' = [req EXCEPT ![r] = v] /\ charges' = [charges EXCEPT ![r] = 0]
        BY <1>1 DEF Arrive
    <2> HIDE DEF v
    <2>3. Settled(v, 0)
        BY <2>1 DEF Settled, Charged, OwnHit
    <2>4. QED
        BY <2>2, <2>3, SettledOne DEF Goal
<1>2. ASSUME NEW r \in Requests, Begin(r) PROVE Goal
    <2> DEFINE pc == IF ~ allows_model(req[r].key, req[r].model) THEN "done"
                     ELSE IF limit(r) = None THEN "plugins" ELSE "pre_token"
               v  == [req[r] EXCEPT !.rt = runtime, !.pc = pc]
    <2>1. pc \in {"done", "plugins", "pre_token"}
        OBVIOUS
    <2>2. req[r].pc = "begin" /\ req' = [req EXCEPT ![r] = v] /\ UNCHANGED charges
        BY <1>2 DEF Begin
    <2> HIDE DEF pc
    <2>3. v.pc = pc /\ v.cost = req[r].cost /\ v.hit = req[r].hit
        BY RequestFacts DEF RequestRecord
    <2> HIDE DEF v
    <2>4. Settled(req[r], charges[r])
        OBVIOUS
    <2>5. Settled(v, charges[r])
        BY <2>1, <2>2, <2>3, <2>4 DEF Settled, Charged, OwnHit
    <2>6. QED
        BY <1>0, <2>2, <2>5, SettledOne DEF Goal
<1>3. ASSUME NEW r \in Requests, PreCheckToken(r) PROVE Goal
    <2> DEFINE v == [req[r] EXCEPT !.pc = "pre_check", !.token = period_token(r)]
    <2>1. req[r].pc = "pre_token" /\ req' = [req EXCEPT ![r] = v] /\ UNCHANGED charges
        BY <1>3 DEF PreCheckToken
    <2>2. v.pc = "pre_check" /\ v.cost = req[r].cost /\ v.hit = req[r].hit
        BY RequestFacts DEF RequestRecord
    <2> HIDE DEF v
    <2>3. Settled(req[r], charges[r])
        OBVIOUS
    <2>4. Settled(v, charges[r])
        BY <2>1, <2>2, <2>3 DEF Settled, Charged, OwnHit
    <2>5. QED
        BY <1>0, <2>1, <2>4, SettledOne DEF Goal
<1>4. ASSUME NEW r \in Requests, PreCheck(r) PROVE Goal
    BY <1>4, SettledGoto DEF PreCheck, Goal
<1>5. ASSUME NEW r \in Requests, RunPlugins(r) PROVE Goal
    <2>1. CASE Goto(r, "done")
        BY <1>5, <2>1, SettledGoto DEF RunPlugins, Goal
    <2>2. ASSUME NEW body \in Bodies, NEW pc \in {"lookup", "dispatch"},
                 req' = [req EXCEPT ![r].body = body, ![r].pc = pc]
          PROVE  Goal
        <3> DEFINE v == [req[r] EXCEPT !.body = body, !.pc = pc]
        <3>1. req' = [req EXCEPT ![r] = v] /\ req[r].pc = "plugins" /\ UNCHANGED charges
            BY <1>5, <2>2 DEF RunPlugins
        <3>2. v.pc = pc /\ v.cost = req[r].cost /\ v.hit = req[r].hit
            BY RequestFacts DEF RequestRecord
        <3> HIDE DEF v
        <3>3. Settled(req[r], charges[r])
            OBVIOUS
        <3>4. Settled(v, charges[r])
            BY <3>1, <3>2, <3>3 DEF Settled, Charged, OwnHit
        <3>5. QED
            BY <1>0, <3>1, <3>4, SettledOne DEF Goal
    <2>3. QED
        BY <1>5, <2>1, <2>2 DEF RunPlugins
<1>6. ASSUME NEW r \in Requests, CacheGet(r) PROVE Goal
    <2>1. req[r].pc = "lookup" /\ UNCHANGED charges
        BY <1>6 DEF CacheGet
    <2>2. CASE Goto(r, "dispatch")
        BY <2>1, <2>2, SettledGoto DEF Goal
    <2>3. ASSUME NEW e \in cache[req[r].rt], e.key = cache_key_for(r),
                 req' = [req EXCEPT ![r].pc = "done", ![r].hit = e.response]
          PROVE  Goal
        <3> DEFINE v == [req[r] EXCEPT !.pc = "done", !.hit = e.response]
        <3>1. req' = [req EXCEPT ![r] = v]
            BY <2>3
        <3>2. /\ v.pc = "done" /\ v.cost = req[r].cost /\ v.hit = e.response /\ v.rt = req[r].rt
              /\ v.key = req[r].key /\ v.model = req[r].model /\ v.idem = req[r].idem
              /\ v.body = req[r].body
            BY RequestFacts DEF RequestRecord
        <3> HIDE DEF v
        <3>3. OwnHit(v)
            BY <2>1, <2>3, <3>2, HitIsOwn DEF OwnHit
        <3>4. Charged(req[r], charges[r])
            BY DEF Settled
        <3>5. Charged(v, charges[r])
            BY <2>1, <3>2, <3>4 DEF Charged
        <3>6. QED
            BY <1>0, <2>1, <3>1, <3>3, <3>5, SettledOne DEF Settled, Goal
    <2>4. QED
        BY <1>6, <2>2, <2>3 DEF CacheGet
<1>7. ASSUME NEW r \in Requests, NEW ok \in BOOLEAN, NEW cost \in Costs \cup {None},
             DispatchOk(r, ok, cost)
      PROVE  Goal
    <2> DEFINE due == cost # None /\ req[r].key.spend_limit # None
               pc == IF due THEN "record_token" ELSE IF req[r].stream THEN "streaming" ELSE "respond"
               v  == [req[r] EXCEPT !.ok = ok, !.cost = cost, !.pc = pc]
    <2>1. /\ req[r].pc = "dispatch" /\ req' = [req EXCEPT ![r] = v] /\ UNCHANGED charges
          /\ req[r].stream => cost = None
        BY <1>7 DEF DispatchOk, MustRecord, limit
    <2>2. /\ pc \in {"record_token", "streaming", "respond"}
          /\ pc # "record_token" => ~ due
          /\ pc = "streaming" => req[r].stream
        OBVIOUS
    <2> HIDE DEF pc
    <2>3. v.pc = pc /\ v.cost = cost /\ v.hit = req[r].hit /\ v.key = req[r].key
        BY RequestFacts DEF RequestRecord
    <2> HIDE DEF v
    <2>4. Settled(req[r], charges[r])
        OBVIOUS
    <2>5. Settled(v, charges[r])
        BY <2>1, <2>2, <2>3, <2>4 DEF Settled, Charged, OwnHit
    <2>6. QED
        BY <1>0, <2>1, <2>5, SettledOne DEF Goal
<1>8. ASSUME NEW r \in Requests, NEW cost \in Costs \cup {None}, StreamUsage(r, cost)
      PROVE  Goal
    <2> DEFINE due == cost # None /\ req[r].key.spend_limit # None
               pc == IF due THEN "record_token" ELSE "streaming"
               v  == [req[r] EXCEPT !.found_usage = TRUE, !.cost = cost, !.pc = pc]
    <2>1. /\ req[r].pc = "streaming" /\ ~ req[r].found_usage
          /\ req' = [req EXCEPT ![r] = v] /\ UNCHANGED charges
        BY <1>8 DEF StreamUsage, MustRecord, limit
    <2>2. pc \in {"record_token", "streaming"} /\ (pc # "record_token" => ~ due)
        OBVIOUS
    <2> HIDE DEF pc
    <2>3. /\ v.pc = pc /\ v.cost = cost /\ v.hit = req[r].hit /\ v.key = req[r].key
          /\ v.found_usage
        BY RequestFacts DEF RequestRecord
    <2> HIDE DEF v
    <2>4. Settled(req[r], charges[r])
        OBVIOUS
    <2>5. Settled(v, charges[r])
        BY <2>1, <2>2, <2>3, <2>4 DEF Settled, Charged, OwnHit
    <2>6. QED
        BY <1>0, <2>1, <2>5, SettledOne DEF Goal
<1>9. ASSUME NEW r \in Requests, RecordToken(r) PROVE Goal
    <2> DEFINE v == [req[r] EXCEPT !.pc = "record", !.token = period_token(r)]
    <2>1. req[r].pc = "record_token" /\ req' = [req EXCEPT ![r] = v] /\ UNCHANGED charges
        BY <1>9 DEF RecordToken
    <2>2. v.pc = "record" /\ v.cost = req[r].cost /\ v.hit = req[r].hit
        BY RequestFacts DEF RequestRecord
    <2> HIDE DEF v
    <2>3. Settled(req[r], charges[r])
        OBVIOUS
    <2>4. Settled(v, charges[r])
        BY <2>1, <2>2, <2>3 DEF Settled, Charged, OwnHit
    <2>5. QED
        BY <1>0, <2>1, <2>4, SettledOne DEF Goal
<1>10. ASSUME NEW r \in Requests, Record(r) PROVE Goal
    <2> DEFINE pc == IF req[r].stream THEN "streaming" ELSE "respond"
               v == [req[r] EXCEPT !.pc = pc]
    <2>1. /\ req[r].pc = "record" /\ req' = [req EXCEPT ![r] = v]
          /\ charges' = [charges EXCEPT ![r] = charges[r] + 1]
        BY <1>10 DEF Record, Goto
    <2>2. pc \in {"streaming", "respond"} /\ (pc = "streaming" => req[r].stream)
        OBVIOUS
    <2> HIDE DEF pc
    <2>3. /\ v.pc = pc /\ v.cost = req[r].cost /\ v.hit = req[r].hit /\ v.key = req[r].key
          /\ v.found_usage = req[r].found_usage
        BY RequestFacts DEF RequestRecord
    <2> HIDE DEF v
    <2>4. /\ req[r].cost # None /\ req[r].key.spend_limit # None
          /\ req[r].stream => req[r].found_usage
        <3>1. /\ req[r].cost \in Costs /\ req[r].key.spend_limit # None
              /\ req[r].stream => req[r].found_usage
            BY <2>1 DEF ReadyToRecord, limit
        <3>2. Costs \subseteq Nat /\ None \notin Nat
            BY ProxyAssumption
        <3>3. QED
            BY <3>1, <3>2
    <2>5. charges[r] = 0 /\ req[r].hit = None
        BY <2>1 DEF Settled, Charged, OwnHit
    <2>6. Charged(v, 1) /\ OwnHit(v)
        BY <2>2, <2>3, <2>4, <2>5 DEF Charged, OwnHit
    <2>7. charges' = [charges EXCEPT ![r] = 1]
        BY <2>1, <2>5
    <2>8. QED
        BY <2>1, <2>6, <2>7, SettledOne DEF Settled, Goal
<1>11. ASSUME NEW r \in Requests, Leave(r) PROVE Goal
    <2>1. Settled(NoRequest, 0)
        BY DEF NoRequest, Settled, Charged, OwnHit
    <2>2. QED
        BY <1>11, <2>1, SettledOne DEF Leave, Goal
<1>12. ASSUME NEW r \in Requests,
              \/ DispatchErr(r) \/ StreamEnd(r) \/ RespondCached(r) \/ RespondDrainFails(r)
              \/ RespondUncached(r) \/ Disconnect(r)
       PROVE  Goal
    BY <1>12, SettledGoto DEF DispatchErr, StreamEnd, RespondCached, RespondDrainFails,
                              RespondUncached, Disconnect, Goal
<1>13. CASE UNCHANGED <<req, charges>>
    BY <1>13 DEF Goal, Settled, Charged, OwnHit
<1>14. CASE Reload \/ (\E g \in Gens : Evict(g)) \/ (\E id \in Revocable : ForgetSpend(id))
            \/ Tick \/ UNCHANGED vars
    BY <1>13, <1>14 DEF Reload, Evict, ForgetSpend, Tick, vars
<1>15. QED
    BY <1>1, <1>2, <1>3, <1>4, <1>5, <1>6, <1>7, <1>8, <1>9, <1>10, <1>11, <1>12, <1>14
       DEF Next, Handle, Goal
-----------------------------------------------------------------------------
(***************************************************************************)
(* The theorems.                                                           *)
(***************************************************************************)

(* BooksInv is inductive. *)
THEOREM BooksAreKept == Spec => []BooksInv
<1>1. Init => BooksInv
    <2> SUFFICES ASSUME Init PROVE BooksInv
        OBVIOUS
    <2>1. LedgerInv /\ CacheInv
        BY DEF Init, LedgerInv, CacheInv
    <2>2. \A r \in Requests : Charged(req[r], charges[r]) /\ OwnHit(req[r])
        BY DEF Init, NoRequest, Charged, OwnHit
    <2>3. QED
        BY <2>1, <2>2, TypeInit, ReadyInit DEF BooksInv
<1>2. BooksInv /\ [Next]_vars => BooksInv'
    <2> SUFFICES ASSUME BooksInv, [Next]_vars PROVE BooksInv'
        OBVIOUS
    <2>1. TypeOK' /\ ReadyToRecord' /\ LedgerInv' /\ CacheInv'
        BY TypeStep, ReadyStep, LedgerStep, CacheStep DEF BooksInv
    <2>2. (\A r \in Requests : Settled(req[r], charges[r]))'
        BY SettledStep DEF BooksInv, Settled
    <2>3. QED
        BY <2>1, <2>2 DEF BooksInv, Settled
<1>3. QED
    BY <1>1, <1>2, PTL DEF Spec

(* SpendTracker::record: an entry holds no more than what was recorded     *)
(* under its period code, for any calendar, costs and interleaving.        *)
THEOREM NoOvercount == Spec => []NeverOvercounts
<1>1. BooksInv => NeverOvercounts
    BY DEF BooksInv, LedgerInv, NeverOvercounts
<1>2. QED
    BY <1>1, BooksAreKept, PTL

(* A request that chat_completions or embeddings has finished was charged  *)
(* exactly as often as it owes: once, or not at all.                       *)
THEOREM OneCharge == Spec => []ChargedExactlyOnce
<1>1. BooksInv => ChargedExactlyOnce
    BY DEF BooksInv, Charged, ChargedExactlyOnce, MustRecord, limit
<1>2. QED
    BY <1>1, BooksAreKept, PTL

(* What CacheGet serves was made for the same virtual key, model and       *)
(* idempotency key or body, whatever was inserted or evicted meanwhile.    *)
THEOREM HitsOfOwnScope == Spec => []HitIsOfOwnScope
<1>1. BooksInv => HitIsOfOwnScope
    BY DEF BooksInv, OwnHit, HitIsOfOwnScope
<1>2. QED
    BY <1>1, BooksAreKept, PTL

(* ... and by the runtime that the request has loaded, for any number of   *)
(* reloads in between.                                                     *)
THEOREM HitsOfOwnRuntime == Spec => []HitIsOfOwnRuntime
<1>1. BooksInv => HitIsOfOwnRuntime
    BY DEF BooksInv, OwnHit, HitIsOfOwnRuntime
<1>2. QED
    BY <1>1, BooksAreKept, PTL
=============================================================================
