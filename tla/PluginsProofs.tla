---------------------------- MODULE PluginsProofs ----------------------------
(***************************************************************************)
(* Proofs about module Plugins, for every chain of plugins, their bindings,*)
(* budgets and policies, and every number of requests that share the       *)
(* ticker.                                                                 *)
(***************************************************************************)
EXTENDS Plugins, TLAPS
-----------------------------------------------------------------------------
(***************************************************************************)
(* The chain and the trail.                                                *)
(***************************************************************************)
LEMMA ChainType ==
    /\ Len(Chain) \in Nat
    /\ \A i \in 1..Len(Chain) :
          /\ Chain[i].latency_budget_ms \in Nat /\ Chain[i].on_timeout \in FailModes
          /\ budget_ticks(Chain[i]) \in Nat /\ budget_ticks(Chain[i]) >= 1
          /\ budget_ticks(Chain[i]) >= Chain[i].latency_budget_ms
<1>1. Len(Chain) \in Nat
    BY PluginsAssumption
<1>2. ASSUME NEW i \in 1..Len(Chain)
      PROVE  Chain[i].latency_budget_ms \in Nat /\ Chain[i].on_timeout \in FailModes
    <2> DEFINE E == [kind : Kinds, bind_routes : SUBSET Models,
                     latency_budget_ms : Nat, on_timeout : FailModes]
    <2>1. Chain \in Seq(E)
        BY PluginsAssumption
    <2> HIDE DEF E
    <2>2. Chain[i] \in E
        BY <1>2, <2>1
    <2>3. QED
        BY <2>2 DEF E
<1>3. ASSUME NEW i \in 1..Len(Chain)
      PROVE  /\ budget_ticks(Chain[i]) \in Nat /\ budget_ticks(Chain[i]) >= 1
             /\ budget_ticks(Chain[i]) >= Chain[i].latency_budget_ms
    BY <1>2, <1>3 DEF budget_ticks
<1>4. QED
    BY <1>1, <1>2, <1>3

LEMMA FreeType == Free \in Slot /\ Free.pc = "free" /\ Free.index = 0
    BY PluginsAssumption, ChainType DEF Free, Slot, NoBody

(* One more entry: it is of a later plugin, and saw what the last one gave. *)
LEMMA Extend ==
    ASSUME NEW t \in Seq(Entry), NEW e \in Entry, InOrder(t),
           \A p \in Visited(t) : p < e.plugin,
           t # <<>> => t[Len(t)].gave = e.saw
    PROVE  /\ Append(t, e) \in Seq(Entry)
           /\ Append(t, e) # <<>> /\ Append(t, e)[Len(Append(t, e))] = e
           /\ Visited(Append(t, e)) = Visited(t) \cup {e.plugin}
           /\ InOrder(Append(t, e))
           /\ Len(Append(t, e)) = Len(t) + 1 /\ \A i \in 1..Len(t) : Append(t, e)[i] = t[i]
           /\ \A i \in 1..Len(Append(t, e)) : i \in 1..Len(t) \/ i = Len(t) + 1
<1> DEFINE u == Append(t, e)
<1>1. /\ Len(t) \in Nat /\ Len(u) = Len(t) + 1 /\ u[Len(t) + 1] = e /\ u \in Seq(Entry)
      /\ \A i \in 1..Len(t) : u[i] = t[i]
    OBVIOUS
<1> HIDE DEF u
<1>2. u # <<>> /\ u[Len(u)] = e
    BY <1>1
<1>3. \A i \in 1..Len(u) : i \in 1..Len(t) \/ i = Len(t) + 1
    BY <1>1
<1>4. \A i \in 1..Len(t) : i \in 1..Len(u)
    BY <1>1
<1>5. Len(t) + 1 \in 1..Len(u)
    BY <1>1
<1>6. Visited(u) = Visited(t) \cup {e.plugin}
    <2>1. ASSUME NEW p \in Visited(u) PROVE p \in Visited(t) \cup {e.plugin}
        BY <1>1, <1>3 DEF Visited
    <2>2. ASSUME NEW p \in Visited(t) \cup {e.plugin} PROVE p \in Visited(u)
        BY <1>1, <1>4, <1>5 DEF Visited
    <2>3. QED
        BY <2>1, <2>2
<1>7. InOrder(u)
    <2> SUFFICES ASSUME NEW i \in 1..Len(u), NEW j \in 1..Len(u), j = i + 1
                 PROVE  u[i].plugin < u[j].plugin /\ u[j].saw = u[i].gave
        BY DEF InOrder
    <2>1. i \in 1..Len(t)
        BY <1>1
    <2>2. CASE j \in 1..Len(t)
        BY <1>1, <2>1, <2>2 DEF InOrder
    <2>3. CASE j = Len(t) + 1
        <3>1. i = Len(t) /\ t # <<>> /\ t[i].plugin \in Visited(t)
            BY <1>1, <2>1, <2>3 DEF Visited
        <3>2. QED
            BY <1>1, <2>1, <2>3, <3>1
    <2>4. QED
        BY <1>3, <2>2, <2>3
<1>8. QED
    BY <1>1, <1>2, <1>3, <1>6, <1>7 DEF u
-----------------------------------------------------------------------------
(***************************************************************************)
(* IInv holds initially, and every step keeps it.                          *)
(***************************************************************************)

(* A slot without a trail that is at the start of the chain. *)
LEMMA AtStart ==
    ASSUME NEW q \in Slot, q.index = 0, q.pc \notin Running \cup {"rejected"},
           q.pc = "forwarded" => Len(Chain) = 0
    PROVE  SlotInv(q, <<>>)
<1>1. Visited(<<>>) = {}
    BY DEF Visited
<1>2. Passed(q) = {}
    BY ChainType DEF Passed, Bound
<1>3. QED
    BY <1>1, <1>2 DEF SlotInv, InOrder

LEMMA InitOK == Init => IInv
<1> SUFFICES ASSUME Init PROVE IInv
    OBVIOUS
<1>1. TypeOK
    BY FreeType DEF Init, TypeOK
<1>2. SlotInv(Free, <<>>)
    BY FreeType, AtStart DEF Running
<1>3. QED
    BY <1>1, <1>2 DEF IInv, Init

(* A step of one slot is judged by what it makes of that slot. *)
LEMMA OneSlot ==
    ASSUME IInv, NEW r \in Requests, NEW q \in Slot, NEW t \in Seq(Entry), SlotInv(q, t),
           req' = [req EXCEPT ![r] = q], trail' = [trail EXCEPT ![r] = t]
    PROVE  IInv'
<1>1. TypeOK'
    BY DEF IInv, TypeOK
<1>2. ASSUME NEW s \in Requests
      PROVE  SlotInv(req'[s], trail'[s])
    <2>1. CASE s = r
        BY <2>1 DEF IInv, TypeOK
    <2>2. CASE s # r
        BY <2>2 DEF IInv, TypeOK
    <2>3. QED
        BY <2>1, <2>2
<1>3. (\A s \in Requests : SlotInv(req[s], trail[s]))'
    BY <1>2 DEF SlotInv, Visited, Passed, Bound, InOrder, Harmless, Stops, InTime
<1>4. QED
    BY <1>1, <1>3 DEF IInv

LEMMA ArriveOK ==
    ASSUME IInv, NEW r \in Requests, NEW model \in Models, NEW body \in Bodies,
           Arrive(r, model, body)
    PROVE  IInv'
<1> DEFINE q == [pc |-> IF Chain = <<>> THEN "forwarded" ELSE "next",
                 model |-> model, index |-> 0, body |-> body, left |-> 0, ran |-> 0]
<1>1. req[r].pc = "free" /\ req' = [req EXCEPT ![r] = q] /\ UNCHANGED trail
    BY DEF Arrive
<1>2. /\ q \in Slot /\ q.index = 0 /\ q.pc \notin Running \cup {"rejected"}
      /\ q.pc = "forwarded" => Chain = <<>>
    BY ChainType DEF Slot, Running, Done
<1>3. trail[r] = <<>> /\ trail' = [trail EXCEPT ![r] = <<>>] /\ <<>> \in Seq(Entry)
    BY <1>1 DEF IInv, SlotInv, TypeOK
<1> HIDE DEF q
<1>4. QED
    BY <1>1, <1>2, <1>3, AtStart, OneSlot

LEMMA LeaveOK ==
    ASSUME IInv, NEW r \in Requests, Leave(r)
    PROVE  IInv'
<1>1. SlotInv(Free, <<>>) /\ <<>> \in Seq(Entry)
    BY FreeType, AtStart DEF Running
<1>2. QED
    BY <1>1, FreeType, OneSlot DEF Leave

(***************************************************************************)
(* The host's steps on the slot of a request whose turn it is to go on to  *)
(* the next entry of the chain.                                            *)
(***************************************************************************)
AfterStep(q, index, body) ==
    [q EXCEPT !.pc = IF index = Len(Chain) THEN "forwarded" ELSE "next",
              !.index = index, !.body = body]

LEMMA AfterStepType ==
    ASSUME NEW q \in Slot, NEW index \in 0..Len(Chain), NEW body \in Bodies
    PROVE  LET p == AfterStep(q, index, body)
           IN  /\ p \in Slot /\ p.index = index /\ p.body = body /\ p.model = q.model
               /\ p.pc \in {"forwarded", "next"} /\ (p.pc = "forwarded" => index = Len(Chain))
    BY DEF AfterStep, Slot, Done

LEMMA ProceedSlot ==
    ASSUME TypeOK, NEW r \in Requests, NEW index, NEW body, Proceed(r, index, body)
    PROVE  req' = [req EXCEPT ![r] = AfterStep(req[r], index, body)]
    BY DEF Proceed, AfterStep, TypeOK, Slot

(* Passed over one plugin: of what the slot has passed, only it is new. *)
LEMMA PassedNext ==
    ASSUME NEW q \in Slot, NEW p \in Slot, q.pc = "next", p.pc \notin Running,
           p.model = q.model, p.index = q.index + 1
    PROVE  /\ Passed(p) = Passed(q) \cup ({p.index} \cap Bound(q.model))
           /\ \A i \in Passed(q) : i < p.index
<1>1. q.index \in Nat /\ p.index = q.index + 1 /\ q.pc \notin Running
    BY ChainType DEF Slot, Running
<1>2. \A i \in Bound(q.model) : i \in Nat
    BY ChainType DEF Bound
<1>3. QED
    BY <1>1, <1>2 DEF Passed

(* The invoked plugin decided: of what the slot has passed, it is new. *)
LEMMA PassedCurrent ==
    ASSUME NEW q \in Slot, NEW p \in Slot, q.pc \in Running, p.pc \notin Running,
           p.model = q.model, p.index = q.index, q.index \in Bound(q.model)
    PROVE  /\ Passed(p) = Passed(q) \cup {q.index}
           /\ \A i \in Passed(q) : i < q.index
    BY DEF Passed

LEMMA SkipOK ==
    ASSUME IInv, NEW r \in Requests, Skip(r)
    PROVE  IInv'
<1> DEFINE q == req[r]
           next == q.index + 1
           p == AfterStep(q, next, q.body)
           t == trail[r]
<1>1. /\ q.pc = "next" /\ next <= Len(Chain) /\ ~ applies_to(Chain[next], q.model)
      /\ Proceed(r, next, q.body) /\ UNCHANGED trail
    BY DEF Skip
<1>2. q \in Slot /\ t \in Seq(Entry) /\ SlotInv(q, t) /\ q.body \in Bodies
    BY DEF IInv, TypeOK, Slot
<1>3. next \in 0..Len(Chain)
    BY <1>1, <1>2, ChainType DEF Slot
<1>4. /\ p \in Slot /\ p.index = next /\ p.body = q.body /\ p.model = q.model
      /\ p.pc \in {"forwarded", "next"} /\ (p.pc = "forwarded" => next = Len(Chain))
    BY <1>2, <1>3, AfterStepType
<1>5. req' = [req EXCEPT ![r] = p] /\ trail' = [trail EXCEPT ![r] = t]
    BY <1>1, ProceedSlot DEF IInv, TypeOK
<1> HIDE DEF p, q, t
<1>6. Passed(p) = Passed(q)
    <2>1. next \notin Bound(q.model)
        BY <1>1 DEF Bound
    <2>2. p.pc \notin Running
        BY <1>4 DEF Running
    <2>3. Passed(p) = Passed(q) \cup ({p.index} \cap Bound(q.model))
        BY <1>1, <1>2, <1>4, <2>2, PassedNext
    <2>4. QED
        BY <1>4, <2>1, <2>3
<1>7. SlotInv(p, t)
    BY <1>1, <1>2, <1>4, <1>6 DEF SlotInv, Running
<1>8. QED
    BY <1>2, <1>4, <1>5, <1>7, OneSlot

LEMMA InspectNativeOK ==
    ASSUME IInv, NEW r \in Requests, InspectNative(r)
    PROVE  IInv'
<1> DEFINE q == req[r]
           next == q.index + 1
           body == Redacted[q.body]
           p == AfterStep(q, next, body)
           t == trail[r]
           e == [plugin |-> next, saw |-> q.body, gave |-> body, ran |-> 0,
                 did |-> IF body = q.body THEN "pass" ELSE "modify"]
<1>1. /\ q.pc = "next" /\ next <= Len(Chain) /\ applies_to(Chain[next], q.model)
      /\ Proceed(r, next, body) /\ trail' = [trail EXCEPT ![r] = Append(t, e)]
    BY DEF InspectNative
<1>2. q \in Slot /\ t \in Seq(Entry) /\ SlotInv(q, t) /\ q.body \in Bodies
    BY DEF IInv, TypeOK, Slot
<1>3. next \in 1..Len(Chain) /\ next \in 0..Len(Chain) /\ body \in Bodies
    BY <1>1, <1>2, ChainType, PluginsAssumption, SMTT(20) DEF Slot
<1>4. /\ p \in Slot /\ p.index = next /\ p.body = body /\ p.model = q.model
      /\ p.pc \in {"forwarded", "next"} /\ (p.pc = "forwarded" => next = Len(Chain))
    BY <1>2, <1>3, AfterStepType
<1>5. req' = [req EXCEPT ![r] = p]
    BY <1>1, ProceedSlot DEF IInv
<1>6. /\ e \in Entry /\ e.plugin = next /\ e.saw = q.body /\ e.gave = body
      /\ e.did \in {"pass", "modify"}
    BY <1>2, <1>3 DEF Entry, Outcomes
<1> HIDE DEF p, q, t, e, body
<1>7. Passed(p) = Passed(q) \cup {next} /\ \A i \in Passed(q) : i < next
    <2>1. next \in Bound(q.model)
        BY <1>1, <1>3 DEF Bound
    <2>2. p.pc \notin Running
        BY <1>4 DEF Running
    <2>3. QED
        BY <1>1, <1>2, <1>4, <2>1, <2>2, PassedNext
<1>8. /\ Append(t, e) \in Seq(Entry)
      /\ Append(t, e) # <<>> /\ Append(t, e)[Len(Append(t, e))] = e
      /\ Visited(Append(t, e)) = Passed(p)
      /\ InOrder(Append(t, e))
      /\ Len(Append(t, e)) = Len(t) + 1 /\ \A i \in 1..Len(t) : Append(t, e)[i] = t[i]
      /\ \A i \in 1..Len(Append(t, e)) : i \in 1..Len(t) \/ i = Len(t) + 1
    <2>1. Visited(t) = Passed(q) /\ InOrder(t) /\ (t # <<>> => t[Len(t)].gave = q.body)
        BY <1>2 DEF SlotInv
    <2>2. QED
        BY <1>2, <1>6, <1>7, <2>1, Extend
<1>9. Harmless(e) /\ InTime(e)
    BY <1>6 DEF Harmless, InTime
<1> DEFINE u == Append(t, e)
<1> HIDE DEF u
<1>10. SlotInv(p, u)
    <2>1. \A i \in 1..Len(u) : Harmless(u[i]) /\ InTime(u[i])
        BY <1>1, <1>2, <1>8, <1>9 DEF SlotInv, u
    <2>2. QED
        BY <1>4, <1>6, <1>8, <2>1 DEF SlotInv, Running, u
<1>11. QED
    BY <1>1, <1>4, <1>5, <1>8, <1>10, OneSlot DEF u

LEMMA InvokeOK ==
    ASSUME IInv, NEW r \in Requests, Invoke(r)
    PROVE  IInv'
<1> DEFINE q == req[r]
           next == q.index + 1
           p == [q EXCEPT !.pc = "instantiate", !.index = next, !.ran = 0,
                          !.left = budget_ticks(Chain[next])]
           t == trail[r]
<1>1. /\ q.pc = "next" /\ next <= Len(Chain) /\ applies_to(Chain[next], q.model)
      /\ req' = [req EXCEPT ![r].pc = "instantiate", ![r].index = next, ![r].ran = 0,
                            ![r].left = budget_ticks(Chain[next])]
      /\ UNCHANGED trail
    BY DEF Invoke
<1>2. q \in Slot /\ t \in Seq(Entry) /\ SlotInv(q, t)
    BY DEF IInv, TypeOK
<1>3. next \in 1..Len(Chain) /\ next \in 0..Len(Chain) /\ budget_ticks(Chain[next]) \in Nat
    BY <1>1, <1>2, ChainType DEF Slot
<1>4. /\ p \in Slot /\ p.index = next /\ p.body = q.body /\ p.model = q.model
      /\ p.pc = "instantiate" /\ p.ran = 0 /\ p.left = budget_ticks(Chain[next])
    BY <1>2, <1>3 DEF Slot, Running
<1>5. req' = [req EXCEPT ![r] = p] /\ trail' = [trail EXCEPT ![r] = t]
    BY <1>1 DEF IInv, TypeOK, Slot
<1> HIDE DEF p, q, t
<1>6. Passed(p) = Passed(q)
    <2>1. q.index \in Nat /\ \A i \in Bound(q.model) : i \in Nat
        BY <1>2, ChainType DEF Slot, Bound
    <2>2. QED
        BY <1>1, <1>4, <2>1 DEF Passed, Running
<1>7. p.index \in Bound(p.model) /\ p.left + p.ran = budget_ticks(Chain[p.index])
    BY <1>1, <1>3, <1>4 DEF Bound
<1>8. SlotInv(p, t)
    BY <1>1, <1>2, <1>4, <1>6, <1>7 DEF SlotInv, Running
<1>9. QED
    BY <1>2, <1>4, <1>5, <1>8, OneSlot

(***************************************************************************)
(* The steps of an invoked guest.                                          *)
(***************************************************************************)
LEMMA InstantiatedOK ==
    ASSUME IInv, NEW r \in Requests, Instantiated(r)
    PROVE  IInv'
<1> DEFINE q == req[r]
           p == [q EXCEPT !.pc = "call"]
           t == trail[r]
<1>1. q \in Slot /\ t \in Seq(Entry) /\ SlotInv(q, t) /\ q.pc = "instantiate"
    BY DEF IInv, TypeOK, Instantiated
<1>2. req' = [req EXCEPT ![r] = p] /\ trail' = [trail EXCEPT ![r] = t]
    BY DEF Instantiated, IInv, TypeOK, Slot
<1>3. /\ p \in Slot /\ p.pc = "call" /\ p.model = q.model /\ p.index = q.index
      /\ p.body = q.body /\ p.left = q.left /\ p.ran = q.ran
    BY <1>1 DEF Slot, Running
<1> HIDE DEF p, q, t
<1>4. Passed(p) = Passed(q)
    BY <1>1, <1>3 DEF Passed, Running
<1>5. SlotInv(p, t)
    BY <1>1, <1>3, <1>4 DEF SlotInv, Running
<1>6. QED
    BY <1>1, <1>2, <1>3, <1>5, OneSlot

(* What an invocation comes to, for every way it may end. *)
LEMMA DecideOK ==
    ASSUME IInv, NEW r \in Requests, req[r].pc \in Running,
           NEW did \in Outcomes, NEW decision, NEW body \in Bodies, Decide(r, did, decision, body),
           decision = "reject" =>
               /\ body = req[r].body
               /\ \/ did = "reject"
                  \/ did \in {"failed", "interrupted"} /\ plugin(r).on_timeout = "fail-closed",
           decision # "reject" =>
               /\ did # "reject"
               /\ did \in {"failed", "interrupted"} =>
                     plugin(r).on_timeout = "fail-open" /\ body = req[r].body,
           did = "interrupted" => req[r].left = 0
    PROVE  IInv'
<1> DEFINE q == req[r]
           p == IF decision = "reject" THEN [q EXCEPT !.pc = "rejected"]
                ELSE AfterStep(q, q.index, body)
           t == trail[r]
           e == [plugin |-> q.index, saw |-> q.body, gave |-> body, did |-> did, ran |-> q.ran]
           u == Append(t, e)
<1>1. q \in Slot /\ t \in Seq(Entry) /\ SlotInv(q, t) /\ q.pc \in Running
    BY DEF IInv, TypeOK
<1>2. /\ q.index \in Bound(q.model) /\ q.left + q.ran = budget_ticks(Chain[q.index])
      /\ q.index \in 1..Len(Chain) /\ q.index \in 0..Len(Chain) /\ q.left \in Nat /\ q.ran \in Nat
      /\ q.body \in Bodies
    BY <1>1, ChainType DEF SlotInv, Bound, Slot
<1>3. req' = [req EXCEPT ![r] = p] /\ trail' = [trail EXCEPT ![r] = u]
    <2>1. trail' = [trail EXCEPT ![r] = u]
        BY DEF Decide
    <2>2. CASE decision = "reject"
        BY <2>1, <2>2 DEF Decide, IInv, TypeOK, Slot
    <2>3. CASE decision # "reject"
        BY <2>1, <2>3, ProceedSlot DEF Decide, IInv
    <2>4. QED
        BY <2>2, <2>3
<1>4. /\ p \in Slot /\ p.index = q.index /\ p.body = body /\ p.model = q.model
      /\ p.pc \in {"forwarded", "next", "rejected"}
      /\ p.pc = "forwarded" => q.index = Len(Chain)
      /\ p.pc = "rejected" <=> decision = "reject"
    <2>1. CASE decision = "reject"
        BY <1>1, <1>2, <2>1 DEF Slot, Done
    <2>2. CASE decision # "reject"
        BY <1>1, <1>2, <2>2, AfterStepType
    <2>3. QED
        BY <2>1, <2>2
<1>5. /\ e \in Entry /\ e.plugin = q.index /\ e.saw = q.body /\ e.gave = body
      /\ e.did = did /\ e.ran = q.ran
    BY <1>2 DEF Entry
<1>6. did = "interrupted" => q.left = 0
    OBVIOUS
<1>7. (p.pc # "rejected" => Harmless(e)) /\ (p.pc = "rejected" => Stops(e))
    <2>1. p.pc # "rejected" => Harmless(e)
        BY <1>4, <1>5 DEF Harmless, plugin
    <2>2. p.pc = "rejected" => Stops(e)
        BY <1>4, <1>5 DEF Stops, plugin
    <2>3. QED
        BY <2>1, <2>2
<1> HIDE DEF p, q, t, e
<1>8. Passed(p) = Passed(q) \cup {q.index} /\ \A i \in Passed(q) : i < q.index
    BY <1>1, <1>2, <1>4, PassedCurrent DEF Running
<1>9. /\ u \in Seq(Entry) /\ u # <<>> /\ u[Len(u)] = e
      /\ Visited(u) = Passed(p) /\ InOrder(u)
      /\ Len(u) = Len(t) + 1 /\ \A i \in 1..Len(t) : u[i] = t[i]
      /\ \A i \in 1..Len(u) : i \in 1..Len(t) \/ i = Len(t) + 1
    <2>1. Visited(t) = Passed(q) /\ InOrder(t) /\ (t # <<>> => t[Len(t)].gave = q.body)
        BY <1>1 DEF SlotInv
    <2>2. QED
        BY <1>1, <1>5, <1>8, <2>1, Extend
<1>10. InTime(e)
    BY <1>2, <1>5, <1>6, ChainType DEF InTime
<1> HIDE DEF u
<1>11. SlotInv(p, u)
    <2>1. \A i \in 1..Len(u) : InTime(u[i])
        BY <1>1, <1>9, <1>10 DEF SlotInv
    <2>2. \A i \in 1..Len(u) : Harmless(u[i]) \/ (p.pc = "rejected" /\ i = Len(u))
        BY <1>1, <1>7, <1>9 DEF SlotInv, Running
    <2>4. p.pc = "rejected" => Stops(u[Len(u)]) /\ u[Len(u)].plugin = p.index
        BY <1>4, <1>5, <1>7, <1>9
    <2>3. p.pc \notin Running
        BY <1>4 DEF Running
    <2>5. QED
        BY <1>4, <1>5, <1>9, <2>1, <2>2, <2>3, <2>4 DEF SlotInv
<1>12. QED
    BY <1>3, <1>4, <1>9, <1>11, OneSlot

(* Fail and Interrupt, by the plugin's policy. *)
LEMMA circuit_breakOK ==
    ASSUME IInv, NEW r \in Requests, req[r].pc \in Running, NEW did \in {"failed", "interrupted"},
           circuit_break(r, did), did = "interrupted" => req[r].left = 0
    PROVE  IInv'
<1> DEFINE decision == IF plugin(r).on_timeout = "fail-open" THEN "pass" ELSE "reject"
<1>1. Decide(r, did, decision, req[r].body)
    BY DEF circuit_break
<1>2. req[r].body \in Bodies /\ did \in Outcomes
    BY DEF IInv, TypeOK, Slot, Outcomes
<1>3. /\ decision # "reject" => did # "reject" /\ plugin(r).on_timeout = "fail-open"
      /\ decision = "reject" => plugin(r).on_timeout = "fail-closed"
    <2>1. req[r].index \in 1..Len(Chain)
        BY DEF IInv, SlotInv, Bound
    <2>2. plugin(r).on_timeout \in FailModes
        BY <2>1, ChainType DEF plugin
    <2>3. QED
        BY <2>2 DEF FailModes
<1> HIDE DEF decision
<1>4. QED
    BY <1>1, <1>2, <1>3, DecideOK

LEMMA ReturnOK ==
    ASSUME IInv, NEW r \in Requests, Return(r)
    PROVE  IInv'
<1>1. req[r].pc \in Running /\ req[r].body \in Bodies
    BY DEF Return, Running, IInv, TypeOK, Slot
<1>2. CASE Decide(r, "pass", "pass", req[r].body)
    BY <1>1, <1>2, DecideOK DEF Outcomes
<1>3. ASSUME NEW body \in Bodies, Decide(r, "modify", "modify", body) PROVE IInv'
    BY <1>1, <1>3, DecideOK DEF Outcomes
<1>4. CASE Decide(r, "reject", "reject", req[r].body)
    BY <1>1, <1>4, DecideOK DEF Outcomes
<1>5. QED
    BY <1>2, <1>3, <1>4 DEF Return

(* The ticker: every invocation's own budget and no other. *)
LEMMA TickOK ==
    ASSUME IInv, Tick
    PROVE  IInv'
<1> DEFINE ticked(q) == IF q.pc \in Running /\ q.left > 0
                        THEN [q EXCEPT !.left = @ - 1, !.ran = @ + 1] ELSE q
<1>1. req' = [r \in Requests |-> ticked(req[r])] /\ trail' = trail
    BY DEF Tick
<1>2. ASSUME NEW q \in Slot
      PROVE  /\ ticked(q) \in Slot /\ ticked(q).pc = q.pc /\ ticked(q).model = q.model
             /\ ticked(q).index = q.index /\ ticked(q).body = q.body
             /\ ticked(q).left + ticked(q).ran = q.left + q.ran
    <2>1. CASE q.pc \in Running /\ q.left > 0
        <3>1. ticked(q) = [q EXCEPT !.left = q.left - 1, !.ran = q.ran + 1]
            BY <2>1
        <3>2. q.left \in Nat /\ q.ran \in Nat /\ q.left - 1 \in Nat /\ q.ran + 1 \in Nat
            BY <2>1 DEF Slot
        <3> HIDE DEF ticked
        <3>3. ASSUME NEW a \in Nat, NEW b \in Nat, ticked(q) = [q EXCEPT !.left = a, !.ran = b]
              PROVE  /\ ticked(q) \in Slot /\ ticked(q).pc = q.pc /\ ticked(q).model = q.model
                     /\ ticked(q).index = q.index /\ ticked(q).body = q.body
                     /\ ticked(q).left = a /\ ticked(q).ran = b
            BY <3>3 DEF Slot
        <3> DEFINE a == q.left - 1
                   b == q.ran + 1
        <3>4. a \in Nat /\ b \in Nat /\ a + b = q.left + q.ran
            BY <3>2
        <3> HIDE DEF a, b
        <3>5. /\ ticked(q) \in Slot /\ ticked(q).pc = q.pc /\ ticked(q).model = q.model
              /\ ticked(q).index = q.index /\ ticked(q).body = q.body
              /\ ticked(q).left = a /\ ticked(q).ran = b
            BY <3>1, <3>3, <3>4 DEF a, b
        <3>6. QED
            BY <3>4, <3>5
    <2>2. CASE ~ (q.pc \in Running /\ q.left > 0)
        BY <2>2
    <2>3. QED
        BY <2>1, <2>2
<1> HIDE DEF ticked
<1>3. TypeOK'
    BY <1>1, <1>2 DEF IInv, TypeOK
<1>4. ASSUME NEW q \in Slot, NEW t, SlotInv(q, t)
      PROVE  SlotInv(ticked(q), t)
    <2>1. Passed(ticked(q)) = Passed(q)
        BY <1>2 DEF Passed
    <2>2. QED
        BY <1>2, <1>4, <2>1 DEF SlotInv
<1>5. ASSUME NEW r \in Requests
      PROVE  SlotInv(req'[r], trail'[r])
    BY <1>1, <1>4 DEF IInv, TypeOK
<1>6. (\A r \in Requests : SlotInv(req[r], trail[r]))'
    BY <1>5 DEF SlotInv, Visited, Passed, Bound, InOrder, Harmless, Stops, InTime
<1>7. QED
    BY <1>3, <1>6 DEF IInv

LEMMA StepOK == IInv /\ [Next]_vars => IInv'
<1> SUFFICES ASSUME IInv, [Next]_vars PROVE IInv'
    OBVIOUS
<1>1. CASE UNCHANGED vars
    BY <1>1 DEF vars, IInv, TypeOK, SlotInv, Visited, Passed, Bound, InOrder, Harmless, Stops, InTime
<1>2. ASSUME NEW r \in Requests, Fail(r) PROVE IInv'
    BY <1>2, circuit_breakOK DEF Fail
<1>3. ASSUME NEW r \in Requests, Interrupt(r) PROVE IInv'
    BY <1>3, circuit_breakOK DEF Interrupt
<1>4. QED
    BY <1>1, <1>2, <1>3, ArriveOK, SkipOK, InspectNativeOK, InvokeOK, InstantiatedOK, ReturnOK,
       LeaveOK, TickOK DEF Next
-----------------------------------------------------------------------------
(***************************************************************************)
(* The theorems.                                                           *)
(***************************************************************************)

(* IInv is inductive: every slot's trail follows its way down the chain. *)
THEOREM InductiveInvariant == Spec => []IInv
    BY InitOK, StepOK, PTL DEF Spec

(* What run_plugins forwards has been through every plugin bound to the    *)
(* model, in order, none of which rejected it or failed closed.            *)
THEOREM ChainIsComplete == Spec => []ForwardedThroughTheChain
<1>1. IInv => ForwardedThroughTheChain
    <2> SUFFICES ASSUME IInv, NEW r \in Requests, req[r].pc = "forwarded"
                 PROVE  LET t == trail[r]
                            n == Len(t)
                        IN  /\ Visited(t) = Bound(req[r].model)
                            /\ \A i \in 1..n :
                                  /\ Harmless(t[i])
                                  /\ i < n => t[i].plugin < t[i + 1].plugin /\ t[i + 1].saw = t[i].gave
                            /\ n > 0 => t[n].gave = req[r].body
        BY DEF ForwardedThroughTheChain
    <2> DEFINE q == req[r]
               t == trail[r]
    <2>1. q \in Slot /\ t \in Seq(Entry) /\ SlotInv(q, t) /\ q.pc = "forwarded"
        BY DEF IInv, TypeOK
    <2> HIDE DEF q, t
    <2>2. Len(t) \in Nat /\ (Len(t) > 0 => t # <<>>)
        BY <2>1
    <2>3. Passed(q) = Bound(q.model)
        BY <2>1, ChainType DEF SlotInv, Passed, Running, Bound
    <2>4. Visited(t) = Bound(q.model)
        BY <2>1, <2>3 DEF SlotInv
    <2>5. ASSUME NEW i \in 1..Len(t)
          PROVE  /\ Harmless(t[i])
                 /\ i < Len(t) => t[i].plugin < t[i + 1].plugin /\ t[i + 1].saw = t[i].gave
        <3>1. i < Len(t) => i + 1 \in 1..Len(t)
            BY <2>2
        <3>2. QED
            BY <2>1, <3>1 DEF SlotInv, InOrder
    <2>6. Len(t) > 0 => t[Len(t)].gave = q.body
        BY <2>1, <2>2 DEF SlotInv
    <2>7. QED
        BY <2>4, <2>5, <2>6 DEF q, t
<1>2. QED
    BY <1>1, InductiveInvariant, PTL

(* What run_plugins rejects was stopped by the last plugin that ran, for a *)
(* cause its policy names, and by none of those before it.                 *)
THEOREM RejectionHasACause == Spec => []RejectedByTheLastToRun
<1>1. IInv => RejectedByTheLastToRun
    <2> SUFFICES ASSUME IInv, NEW r \in Requests, req[r].pc = "rejected"
                 PROVE  LET t == trail[r]
                            n == Len(t)
                        IN  /\ n > 0 /\ Stops(t[n])
                            /\ \A i \in 1..(n - 1) : Harmless(t[i])
                            /\ Visited(t) = {i \in Bound(req[r].model) : i <= t[n].plugin}
        BY DEF RejectedByTheLastToRun
    <2> DEFINE q == req[r]
               t == trail[r]
    <2>1. q \in Slot /\ t \in Seq(Entry) /\ SlotInv(q, t) /\ q.pc = "rejected"
        BY DEF IInv, TypeOK
    <2> HIDE DEF q, t
    <2>2. t # <<>> /\ Stops(t[Len(t)]) /\ t[Len(t)].plugin = q.index
        BY <2>1 DEF SlotInv
    <2>3. Len(t) \in Nat /\ Len(t) > 0
        BY <2>1, <2>2
    <2>4. \A i \in 1..(Len(t) - 1) : Harmless(t[i])
        BY <2>1, <2>3 DEF SlotInv
    <2>5. Passed(q) = {i \in Bound(q.model) : i <= q.index}
        <3>1. q.index \in Nat /\ \A i \in Bound(q.model) : i \in Nat
            BY <2>1, ChainType DEF Slot, Bound
        <3>2. QED
            BY <2>1, <3>1 DEF Passed, Running
    <2>6. Visited(t) = {i \in Bound(q.model) : i <= t[Len(t)].plugin}
        BY <2>1, <2>2, <2>5 DEF SlotInv
    <2>7. QED
        BY <2>2, <2>3, <2>4, <2>6 DEF q, t
<1>2. QED
    BY <1>1, InductiveInvariant, PTL

(* A guest is interrupted only after the whole of its own budget, for any  *)
(* chain and any number of requests on the shared epoch ticker.            *)
THEOREM BudgetIsGranted == Spec => []InterruptedAfterOwnBudget
<1>1. IInv => InterruptedAfterOwnBudget
    BY DEF IInv, SlotInv, InTime, InterruptedAfterOwnBudget
<1>2. QED
    BY <1>1, InductiveInvariant, PTL
=============================================================================
