-------------------------- MODULE OperationsProofs --------------------------
(***************************************************************************)
(* Proofs about module Operations, for every configuration file, every     *)
(* certificate, every list of bundles, any number of operators and keys.   *)
(***************************************************************************)
EXTENDS Operations, TLAPS
-----------------------------------------------------------------------------
(***************************************************************************)
(* Reload: ReloadInv holds initially, and the steps of Reload keep it.     *)
(***************************************************************************)
Fields == {"pc", "alone", "before", "runtime", "tls", "material", "version"}

(* The jobs and the gateway of a state in which the invariant holds. *)
LEMMA ReloadFacts ==
    ASSUME ReloadInv
    PROVE  /\ version \in Nat /\ version <= Len(Bundles)
           /\ \A r \in Reloaders :
                 /\ DOMAIN jobs[r] = Fields /\ jobs[r].alone \in BOOLEAN
                 /\ jobs[r].pc \in {"idle", "read", "swap", "store"}
                 /\ jobs[r].version \in 0..version
                 /\ JobInv(r)
           /\ DOMAIN jobs = Reloaders
           /\ DOMAIN gateway = {"up", "config_path", "base", "etag", "runtime", "tls"}
           /\ gateway.up \in BOOLEAN /\ gateway.etag \in 0..version
           /\ gateway.up => gateway.runtime # None
           /\ gateway.tls \in Parsed \cup {None}
           /\ disk.file \in Files /\ disk.material \in Materials /\ DOMAIN disk = {"file", "material"}
<1>1. version \in Nat /\ version <= Len(Bundles) /\ gateway.etag \in 0..version
    BY ReloadAssumption DEF ReloadInv, ReloadTypeOK
<1>2. QED
    BY <1>1 DEF ReloadInv, ReloadTypeOK, ReloadShape, JobInv, Fields

(* A job that has company is not alone. *)
LEMMA Company ==
    ASSUME ReloadInv, NEW r \in Reloaders, ~ Idle(r), NEW q \in Reloaders \ {r}
    PROVE  ~ jobs[q].alone
    BY ReloadFacts DEF JobInv

LEMMA UnsettledKind == Unsettled.kind = "none" /\ NoJob.pc = "idle" /\ NoJob.alone = FALSE
                       /\ NoJob.version = 0 /\ DOMAIN NoJob = Fields
    BY DEF Unsettled, NoJob, Fields

LEMMA DisturbedFacts ==
    ASSUME ReloadInv
    PROVE  /\ DOMAIN Disturbed = Reloaders
           /\ \A q \in Reloaders :
                 /\ DOMAIN Disturbed[q] = Fields /\ Disturbed[q].alone = FALSE
                 /\ Disturbed[q].pc = jobs[q].pc /\ Disturbed[q].runtime = jobs[q].runtime
                 /\ Disturbed[q].tls = jobs[q].tls
                 /\ Disturbed[q].material = jobs[q].material /\ Disturbed[q].version = jobs[q].version
    BY ReloadFacts DEF Disturbed, Fields

LEMMA MaterialParsed ==
    ASSUME NEW m \in Materials, NEW tls, Readable(m, tls)
    PROVE  Material(m, tls) \in Parsed
<1> DEFINE b == tls = "mtls"
<1>1. b \in BOOLEAN /\ m.server /\ (b => m.ca)
    BY DEF Readable
<1>2. Material(m, tls) = [material |-> m, mtls |-> b]
    BY DEF Material
<1> HIDE DEF b
<1>3. QED
    BY <1>1, <1>2 DEF Parsed

LEMMA ReloadInitOK == ReloadInit => ReloadInv
<1> SUFFICES ASSUME ReloadInit PROVE ReloadInv
    OBVIOUS
<1>1. PICK path \in BOOLEAN : gateway = Down(path)
    BY DEF ReloadInit
<1>2. /\ DOMAIN gateway = {"up", "config_path", "base", "etag", "runtime", "tls"}
      /\ gateway.up = FALSE /\ gateway.etag = 0 /\ gateway.tls = None
    BY <1>1 DEF Down
<1>3. /\ DOMAIN jobs = Reloaders /\ \A r \in Reloaders : jobs[r] = NoJob
      /\ version = 0 /\ settled.kind = "none"
    BY UnsettledKind DEF ReloadInit
<1>4. DOMAIN disk = {"file", "material"} /\ disk.file \in Files /\ disk.material \in Materials
    BY DEF ReloadInit
<1>5. ReloadTypeOK /\ ReloadShape
    <2>1. ReloadTypeOK
        <3>1. version \in 0..Len(Bundles) /\ gateway.etag \in 0..Len(Bundles)
            BY <1>2, <1>3, ReloadAssumption
        <3>2. gateway.up \in BOOLEAN /\ (gateway.up => gateway.runtime # None)
            BY <1>2
        <3>3. \A r \in Reloaders : jobs[r].pc \in {"idle", "read", "swap", "store"}
            BY <1>3, UnsettledKind
        <3>4. QED
            BY <1>2, <1>3, <1>4, <3>1, <3>2, <3>3 DEF ReloadTypeOK
    <2>2. ReloadShape
        BY <1>2, <1>3, <1>4, UnsettledKind DEF ReloadShape, Fields
    <2>3. QED
        BY <2>1, <2>2
<1>6. \A r \in Reloaders : JobInv(r) /\ FileInv(r)
    BY <1>3, UnsettledKind DEF JobInv, FileInv, Idle
<1>7. PollInv /\ SettledInv
    BY <1>3, UnsettledKind DEF PollInv, SettledInv, Idle, Reloaders, FailedReloadKeepsOld, ReloadIsLikeARestart
<1>8. QED
    BY <1>2, <1>3, <1>5, <1>6, <1>7 DEF ReloadInv, Reloaders

(* Something changes around the reloads, or one is refused. *)
LEMMA DisturbOK ==
    ASSUME ReloadInv, jobs' = Disturbed, UNCHANGED gateway,
           DOMAIN disk' = {"file", "material"}, disk'.file \in Files, disk'.material \in Materials,
           version' \in version..Len(Bundles),
           \/ settled' = Unsettled
           \/ /\ settled' = [kind |-> "failed", before |-> Live]
              /\ gateway.up /\ \A q \in Reloaders : Idle(q)
    PROVE  ReloadInv'
<1>1. version' \in Nat /\ version' <= Len(Bundles) /\ version <= version'
    BY ReloadFacts, ReloadAssumption
<1>2. \A r \in Reloaders :
          /\ DOMAIN jobs'[r] = Fields /\ jobs'[r].alone = FALSE /\ jobs'[r].pc = jobs[r].pc
          /\ jobs'[r].runtime = jobs[r].runtime /\ jobs'[r].material = jobs[r].material
          /\ jobs'[r].tls = jobs[r].tls /\ jobs'[r].version = jobs[r].version
    BY DisturbedFacts
<1>3. settled'.kind \in {"none", "failed"}
    BY UnsettledKind
<1>4. ReloadTypeOK' /\ ReloadShape' /\ gateway'.etag <= version'
    <2>1. gateway'.etag \in 0..Len(Bundles) /\ version' \in 0..Len(Bundles) /\ gateway'.etag <= version'
        BY <1>1, ReloadFacts, ReloadAssumption
    <2>2. ReloadTypeOK'
        BY <1>2, <1>3, <2>1, ReloadFacts DEF ReloadTypeOK
    <2>3. ReloadShape'
        BY <1>2, DisturbedFacts, ReloadFacts DEF ReloadShape, Fields
    <2>4. QED
        BY <2>1, <2>2, <2>3
<1>5. \A r \in Reloaders : JobInv(r)' /\ FileInv(r)'
    <2>1. \A r \in Reloaders : jobs'[r].version \in 0..version'
        BY <1>1, <1>2, ReloadFacts
    <2>2. QED
        BY <1>2, <2>1, ReloadFacts DEF JobInv, FileInv, Idle
<1>6. PollInv'
    BY <1>2 DEF ReloadInv, PollInv, Idle, Reloaders
<1>7. SettledInv'
    <2>1. Live' = Live
        BY DEF Live
    <2>2. CASE settled' = Unsettled
        BY <2>2, UnsettledKind DEF SettledInv, FailedReloadKeepsOld, ReloadIsLikeARestart
    <2>3. CASE settled' = [kind |-> "failed", before |-> Live] /\ gateway.up /\ \A q \in Reloaders : Idle(q)
        <3>1. settled'.kind = "failed" /\ settled'.before = Live'
            BY <2>1, <2>3
        <3>2. QED
            BY <1>2, <2>3, <3>1 DEF SettledInv, FailedReloadKeepsOld, ReloadIsLikeARestart, Idle
    <2>4. QED
        BY <2>2, <2>3
<1>8. QED
    BY <1>4, <1>5, <1>6, <1>7 DEF ReloadInv, Reloaders

(* A job begins. *)
LEMMA BeganOK ==
    ASSUME ReloadInv, NEW r \in Reloaders, Idle(r), gateway.up,
           NEW pc \in {"read", "store"}, NEW runtime, NEW tls, NEW v \in 0..version,
           jobs' = Began(r, pc, runtime, tls, v), runtime # None, settled' = Unsettled,
           UNCHANGED <<disk, version, gateway>>,
           r # "poll" => /\ runtime = build_runtime(load(File)) /\ tls = load(File)["listen.tls"]
                         /\ pc = "store" => gateway.tls = None \/ tls = None,
           r = "poll" => /\ pc = "store" /\ v = version /\ v >= 1
                         /\ runtime = build_runtime(apply_config(gateway.base, Bundles[v]))
    PROVE  ReloadInv'
<1>1. \A q \in Reloaders \ {r} :
          /\ DOMAIN jobs'[q] = Fields /\ jobs'[q].alone = FALSE /\ jobs'[q].pc = jobs[q].pc
          /\ jobs'[q].runtime = jobs[q].runtime /\ jobs'[q].material = jobs[q].material
          /\ jobs'[q].tls = jobs[q].tls /\ jobs'[q].version = jobs[q].version
    BY DisturbedFacts DEF Began
<1>2. DOMAIN jobs' = Reloaders
    BY DisturbedFacts DEF Began
<1>3. jobs'[r] = [pc |-> pc, alone |-> \A q \in Reloaders \ {r} : Idle(q), before |-> Live,
                  runtime |-> runtime, tls |-> tls, material |-> None, version |-> v]
    BY DisturbedFacts DEF Began
<1>4. /\ DOMAIN jobs'[r] = Fields /\ jobs'[r].alone \in BOOLEAN
      /\ jobs'[r].alone => \A q \in Reloaders \ {r} : Idle(q)
    BY <1>3 DEF Fields
<1>5. /\ jobs'[r].pc = pc /\ jobs'[r].before = Live /\ jobs'[r].runtime = runtime
      /\ jobs'[r].tls = tls /\ jobs'[r].version = v
    BY <1>3
<1>6. /\ File' = File /\ Live' = Live
      /\ disk' = disk /\ version' = version /\ gateway' = gateway
    BY DEF File, Live
<1>7. settled'.kind = "none"
    BY UnsettledKind
<1>8. ReloadTypeOK' /\ ReloadShape' /\ gateway'.etag <= version'
    <2>1. \A q \in Reloaders : /\ DOMAIN jobs'[q] = Fields /\ jobs'[q].alone \in BOOLEAN
                              /\ jobs'[q].pc \in {"idle", "read", "swap", "store"}
        BY <1>1, <1>4, <1>5, ReloadFacts
    <2>2. ReloadTypeOK' /\ gateway'.etag <= version'
        BY <1>6, <1>7, <2>1 DEF ReloadInv, ReloadTypeOK
    <2>3. ReloadShape'
        BY <1>2, <1>6, <2>1 DEF ReloadInv, ReloadShape, Fields
    <2>4. QED
        BY <2>2, <2>3
<1>9. ASSUME NEW q \in Reloaders
      PROVE  JobInv(q)'
    <2>1. CASE q = r
        BY <1>1, <1>4, <1>5, <1>6, <2>1, ReloadFacts DEF JobInv, Idle
    <2>2. CASE q # r
        BY <1>1, <1>6, <2>2, ReloadFacts DEF JobInv, Idle
    <2>3. QED
        BY <2>1, <2>2
<1>10. ASSUME NEW q \in {"sighup", "admin"}
       PROVE  FileInv(q)'
    <2>1. CASE q = r
        BY <1>5, <1>6, <2>1 DEF FileInv
    <2>2. CASE q # r
        BY <1>1, <2>2 DEF FileInv, Reloaders
    <2>3. QED
        BY <2>1, <2>2
<1>11. PollInv'
    <2>1. CASE r = "poll"
        BY <1>5, <1>6, <2>1 DEF PollInv
    <2>2. CASE r # "poll"
        BY <1>1, <1>6, <2>2 DEF ReloadInv, PollInv, Idle, Reloaders
    <2>3. QED
        BY <2>1, <2>2
<1>12. SettledInv'
    BY <1>7 DEF SettledInv, FailedReloadKeepsOld, ReloadIsLikeARestart
<1>13. QED
    BY <1>8, <1>9, <1>10, <1>11, <1>12 DEF ReloadInv

(* A job ends, and with it what it was alone with. *)
LEMMA EndedOK ==
    ASSUME ReloadInv, NEW r \in Reloaders, ~ Idle(r), jobs' = [jobs EXCEPT ![r] = NoJob],
           UNCHANGED <<disk, version>>,
           DOMAIN gateway' = {"up", "config_path", "base", "etag", "runtime", "tls"},
           gateway'.up = gateway.up, gateway'.base = gateway.base, gateway'.tls = gateway.tls,
           gateway'.etag \in 0..version, gateway'.runtime # None,
           settled'.kind \in {"none", "failed", "file", "bundle"},
           settled'.kind # "none" => jobs[r].alone,
           FailedReloadKeepsOld', ReloadIsLikeARestart',
           settled'.kind = "bundle" =>
               /\ version >= 1
               /\ gateway'.runtime = build_runtime(apply_config(gateway.base, Bundles[version]))
    PROVE  ReloadInv'
<1>1. gateway.up /\ version' = version /\ disk' = disk
    BY ReloadFacts DEF JobInv
<1>2. DOMAIN jobs' = Reloaders /\ jobs'[r] = NoJob /\ \A q \in Reloaders \ {r} : jobs'[q] = jobs[q]
    BY ReloadFacts
<1>3. \A q \in Reloaders \ {r} : ~ jobs'[q].alone
    BY <1>2, Company
<1>4. ReloadTypeOK'
    <2>1. gateway'.etag \in 0..Len(Bundles)
        BY ReloadFacts, ReloadAssumption
    <2>2. \A q \in Reloaders : jobs'[q].pc \in {"idle", "read", "swap", "store"}
        BY <1>2, ReloadFacts, UnsettledKind
    <2>3. QED
        BY <1>1, <2>1, <2>2 DEF ReloadInv, ReloadTypeOK
<1>5. ReloadShape' /\ gateway'.etag <= version'
    <2>1. \A q \in Reloaders : DOMAIN jobs'[q] = Fields /\ jobs'[q].alone \in BOOLEAN
        BY <1>2, ReloadFacts, UnsettledKind
    <2>2. gateway'.etag <= version'
        BY <1>1, ReloadFacts
    <2>3. QED
        BY <1>1, <1>2, <2>1, <2>2, ReloadFacts DEF ReloadShape, Fields
<1>6. ASSUME NEW q \in Reloaders
      PROVE  JobInv(q)'
    <2>1. CASE q = r
        <3>1. 0 \in 0..version'
            BY <1>1, ReloadFacts
        <3>2. QED
            BY <1>2, <2>1, <3>1, UnsettledKind DEF JobInv, Idle
    <2>2. CASE q # r
        BY <1>1, <1>2, <1>3, <2>2, ReloadFacts DEF JobInv, Idle
    <2>3. QED
        BY <2>1, <2>2
<1>7. ASSUME NEW q \in {"sighup", "admin"}
      PROVE  FileInv(q)'
    BY <1>2, <1>3, UnsettledKind DEF FileInv, Idle, Reloaders
<1>8. PollInv'
    <2>1. CASE r = "poll"
        BY <1>2, <2>1, UnsettledKind DEF PollInv, Idle
    <2>2. CASE r # "poll"
        BY <1>2, <1>3, <2>2 DEF ReloadInv, PollInv, Idle, Reloaders
    <2>3. QED
        BY <2>1, <2>2
<1>9. SettledInv'
    <2>1. settled'.kind # "none" => \A q \in Reloaders : Idle(q)'
        BY <1>2, UnsettledKind, ReloadFacts DEF JobInv, Idle
    <2>2. QED
        BY <1>1, <2>1 DEF SettledInv
<1>10. QED
    BY <1>4, <1>5, <1>6, <1>7, <1>8, <1>9 DEF ReloadInv

LEMMA StartUpOK ==
    ASSUME ReloadInv, StartUp
    PROVE  ReloadInv'
<1> DEFINE config == load(File)
           runtime == build_runtime(config)
           tls == IF config = None THEN None ELSE config["listen.tls"]
           material == IF tls = None THEN None ELSE Material(disk.material, tls)
<1>1. /\ ~ gateway.up /\ runtime # None
      /\ gateway' = [gateway EXCEPT !.up = TRUE, !.base = config, !.etag = 0,
                                    !.runtime = runtime, !.tls = material]
      /\ disk' = disk /\ version' = version /\ jobs' = jobs /\ settled' = settled
    BY DEF StartUp
<1>2. material \in Parsed \cup {None}
    <2>1. disk.material \in Materials /\ (tls # None => Readable(disk.material, tls))
        BY ReloadFacts DEF StartUp
    <2>2. QED
        BY <2>1, MaterialParsed
<1> HIDE DEF material, runtime, tls, config
<1>3. /\ DOMAIN gateway' = {"up", "config_path", "base", "etag", "runtime", "tls"}
      /\ gateway'.up = TRUE /\ gateway'.etag = 0 /\ gateway'.runtime = runtime
      /\ gateway'.tls = material
    BY <1>1, ReloadFacts
<1>4. \A r \in Reloaders : Idle(r) /\ Idle(r)'
    BY <1>1, ReloadFacts DEF JobInv, Idle
<1>5. settled'.kind = "none"
    BY <1>1 DEF ReloadInv, SettledInv, ReloadTypeOK
<1>6. ReloadTypeOK' /\ gateway'.etag <= version'
    <2>1. gateway'.etag \in 0..Len(Bundles) /\ gateway'.etag <= version'
        BY <1>1, <1>3, ReloadFacts, ReloadAssumption
    <2>2. QED
        BY <1>1, <1>2, <1>3, <1>5, <2>1 DEF ReloadInv, ReloadTypeOK
<1>7. ReloadShape'
    BY <1>1, <1>3 DEF ReloadInv, ReloadShape
<1>8. \A r \in Reloaders : JobInv(r)' /\ FileInv(r)'
    BY <1>1, <1>3, <1>4, ReloadFacts DEF JobInv, FileInv, Idle
<1>9. PollInv' /\ SettledInv'
    BY <1>4, <1>5 DEF PollInv, SettledInv, Reloaders, FailedReloadKeepsOld, ReloadIsLikeARestart
<1>10. QED
    BY <1>6, <1>7, <1>8, <1>9 DEF ReloadInv, Reloaders

LEMMA CrashOK ==
    ASSUME ReloadInv, Crash
    PROVE  ReloadInv'
<1>1. /\ gateway' = Down(gateway.config_path) /\ disk' = disk /\ version' = version
      /\ jobs' = [r \in Reloaders |-> NoJob] /\ settled' = Unsettled
    BY DEF Crash
<1>2. /\ DOMAIN gateway' = {"up", "config_path", "base", "etag", "runtime", "tls"}
      /\ gateway'.up = FALSE /\ gateway'.etag = 0 /\ gateway'.tls = None
    BY <1>1 DEF Down
<1>3. /\ DOMAIN jobs' = Reloaders /\ settled'.kind = "none"
      /\ \A r \in Reloaders :
            /\ jobs'[r].pc = "idle" /\ jobs'[r].alone = FALSE /\ jobs'[r].version = 0
            /\ DOMAIN jobs'[r] = Fields
    BY <1>1, UnsettledKind
<1>4. ReloadTypeOK' /\ gateway'.etag <= version'
    <2>1. gateway'.etag \in 0..Len(Bundles) /\ gateway'.etag <= version'
        BY <1>1, <1>2, ReloadFacts, ReloadAssumption
    <2>2. gateway'.up \in BOOLEAN /\ (gateway'.up => gateway'.runtime # None)
        BY <1>2
    <2>3. QED
        BY <1>1, <1>2, <1>3, <2>1, <2>2 DEF ReloadInv, ReloadTypeOK
<1>5. ReloadShape'
    BY <1>1, <1>2, <1>3 DEF ReloadInv, ReloadShape, Fields
<1>6. \A r \in Reloaders : JobInv(r)' /\ FileInv(r)'
    <2>1. 0 \in 0..version'
        BY <1>1, ReloadFacts
    <2>2. QED
        BY <1>3, <2>1 DEF JobInv, FileInv, Idle
<1>7. PollInv' /\ SettledInv'
    BY <1>3 DEF PollInv, SettledInv, Idle, Reloaders, FailedReloadKeepsOld, ReloadIsLikeARestart
<1>8. QED
    BY <1>4, <1>5, <1>6, <1>7 DEF ReloadInv, Reloaders

LEMMA RefusedOK ==
    ASSUME ReloadInv, Refused, gateway.up, UNCHANGED <<disk, version, gateway>>
    PROVE  ReloadInv'
<1>1. /\ jobs' = Disturbed /\ gateway' = gateway
      /\ \/ settled' = Unsettled
         \/ /\ settled' = [kind |-> "failed", before |-> Live]
            /\ gateway.up /\ \A q \in Reloaders : Idle(q)
    BY DEF Refused
<1>2. /\ DOMAIN disk' = {"file", "material"} /\ disk'.file \in Files /\ disk'.material \in Materials
      /\ version' \in version..Len(Bundles)
    BY ReloadFacts, ReloadAssumption
<1>3. QED
    BY <1>1, <1>2, DisturbOK

LEMMA BeginOK ==
    ASSUME ReloadInv, NEW r \in {"sighup", "admin"}, Begin(r)
    PROVE  ReloadInv'
<1> DEFINE config == load(File)
           runtime == build_runtime(config)
           tls == config["listen.tls"]
           pc == FirstStep(config)
<1>1. gateway.up /\ Idle(r) /\ UNCHANGED <<disk, version, gateway>> /\ r \in Reloaders /\ r # "poll"
    BY DEF Begin, Reloaders
<1>2. CASE Refused
    BY <1>1, <1>2, RefusedOK
<1>3. CASE runtime # None /\ jobs' = Began(r, pc, runtime, tls, 0) /\ settled' = Unsettled
    <2>1. pc \in {"read", "store"} /\ (pc = "store" => gateway.tls = None \/ tls = None)
        BY DEF FirstStep
    <2>2. 0 \in 0..version
        BY ReloadFacts
    <2>3. runtime = build_runtime(load(File)) /\ tls = load(File)["listen.tls"]
        OBVIOUS
    <2> HIDE DEF runtime, tls, pc
    <2>4. QED
        BY <1>1, <1>3, <2>1, <2>2, <2>3, BeganOK
<1>4. QED
    BY <1>2, <1>3 DEF Begin

LEMMA PollOK ==
    ASSUME ReloadInv, Poll
    PROVE  ReloadInv'
<1> DEFINE runtime == build_runtime(apply_config(gateway.base, Bundles[version]))
<1>1. /\ gateway.up /\ Idle("poll") /\ UNCHANGED <<disk, version, gateway>> /\ "poll" \in Reloaders
      /\ version # gateway.etag
    BY DEF Poll, ApiMode, Reloaders
<1>2. CASE Refused
    BY <1>1, <1>2, RefusedOK
<1>3. CASE runtime # None /\ jobs' = Began("poll", "store", runtime, None, version) /\ settled' = Unsettled
    <2>1. version \in 0..version /\ version >= 1
        BY <1>1, ReloadFacts
    <2>2. runtime = build_runtime(apply_config(gateway.base, Bundles[version]))
        OBVIOUS
    <2> HIDE DEF runtime
    <2>3. QED
        BY <1>1, <1>3, <2>1, <2>2, BeganOK
<1>4. QED
    BY <1>2, <1>3 DEF Poll

LEMMA WorldOK ==
    ASSUME ReloadInv,
           (\E file \in Files : Edit(file)) \/ (\E material \in Materials : Rotate(material)) \/ Publish
    PROVE  ReloadInv'
<1>1. jobs' = Disturbed /\ gateway' = gateway /\ settled' = Unsettled
    BY DEF Edit, Rotate, Publish
<1>2. DOMAIN disk' = {"file", "material"} /\ disk'.file \in Files /\ disk'.material \in Materials
    BY ReloadFacts DEF Edit, Rotate, Publish
<1>3. version' \in version..Len(Bundles)
    BY ReloadFacts, ReloadAssumption DEF Edit, Rotate, Publish
<1>4. QED
    BY <1>1, <1>2, <1>3, DisturbOK

(* A job that is alone, but for what it has not settled, goes on. *)
LEMMA GoesOnOK ==
    ASSUME ReloadInv, NEW r \in {"sighup", "admin"}, ~ Idle(r),
           DOMAIN jobs' = Reloaders, \A q \in Reloaders \ {r} : jobs'[q] = jobs[q],
           DOMAIN jobs'[r] = Fields, jobs'[r].alone = jobs[r].alone,
           jobs'[r].runtime = jobs[r].runtime, jobs'[r].version = jobs[r].version,
           jobs'[r].pc \in {"swap", "store"}, 
           jobs'[r].pc = "swap" => Material(jobs'[r].material, jobs'[r].tls) \in Parsed,
           UNCHANGED <<disk, version, settled>>,
           DOMAIN gateway' = DOMAIN gateway, gateway'.up = gateway.up, gateway'.base = gateway.base,
           gateway'.etag = gateway.etag, gateway'.runtime = gateway.runtime,
           gateway'.tls \in Parsed \cup {None},
           FileInv(r)'
    PROVE  ReloadInv'
<1>1. r \in Reloaders /\ r # "poll" /\ gateway.up /\ jobs[r].runtime # None
    BY ReloadFacts DEF JobInv, Reloaders
<1>2. \A q \in Reloaders \ {r} : ~ jobs[q].alone
    BY <1>1, Company
<1>3. settled'.kind = "none" /\ disk' = disk /\ version' = version
    BY <1>1 DEF ReloadInv, SettledInv, ReloadTypeOK
<1>4. ReloadTypeOK' /\ gateway'.etag <= version'
    <2>1. \A q \in Reloaders : jobs'[q].pc \in {"idle", "read", "swap", "store"}
        BY ReloadFacts
    <2>2. QED
        BY <1>3, <2>1 DEF ReloadInv, ReloadTypeOK
<1>5. ReloadShape'
    <2>1. \A q \in Reloaders : DOMAIN jobs'[q] = Fields /\ jobs'[q].alone \in BOOLEAN
        BY <1>1, ReloadFacts
    <2>2. QED
        BY <1>3, <2>1 DEF ReloadInv, ReloadShape, Fields
<1>6. ASSUME NEW q \in Reloaders
      PROVE  JobInv(q)'
    <2>1. CASE q = r
        BY <1>1, <1>3, <2>1, ReloadFacts DEF JobInv, Idle
    <2>2. CASE q # r
        BY <1>1, <1>2, <1>3, <2>2, ReloadFacts DEF JobInv, Idle
    <2>3. QED
        BY <2>1, <2>2
<1>7. ASSUME NEW q \in {"sighup", "admin"}
      PROVE  FileInv(q)'
    <2>1. CASE q # r
        BY <1>2, <2>1 DEF FileInv, Reloaders
    <2>2. QED
        BY <2>1
<1>8. PollInv'
    BY <1>1, <1>2 DEF ReloadInv, PollInv, Idle, Reloaders
<1>9. SettledInv'
    BY <1>3 DEF SettledInv, FailedReloadKeepsOld, ReloadIsLikeARestart
<1>10. QED
    BY <1>4, <1>5, <1>6, <1>7, <1>8, <1>9 DEF ReloadInv

LEMMA ReadMaterialOK ==
    ASSUME ReloadInv, NEW r \in Reloaders, ReadMaterial(r)
    PROVE  ReloadInv'
<1>1. /\ jobs[r].pc = "read" /\ r \in {"sighup", "admin"} /\ ~ Idle(r)
      /\ disk' = disk /\ version' = version /\ gateway' = gateway
    BY ReloadFacts DEF ReadMaterial, JobInv, Reloaders, Idle
<1>2. FileInv(r) /\ File' = File /\ Live' = Live
    BY <1>1 DEF ReloadInv, File, Live
<1>3. CASE Readable(disk.material, jobs[r].tls)
    <2>1. jobs' = [jobs EXCEPT ![r].pc = "swap", ![r].material = disk.material] /\ settled' = settled
        BY <1>3 DEF ReadMaterial
    <2>2. /\ DOMAIN jobs' = Reloaders /\ \A q \in Reloaders \ {r} : jobs'[q] = jobs[q]
          /\ DOMAIN jobs'[r] = Fields /\ jobs'[r].alone = jobs[r].alone
          /\ jobs'[r].runtime = jobs[r].runtime /\ jobs'[r].version = jobs[r].version
          /\ jobs'[r].pc = "swap" /\ jobs'[r].material = disk.material /\ jobs'[r].tls = jobs[r].tls
        BY <2>1, ReloadFacts DEF Fields
    <2>3. FileInv(r)'
        BY <1>1, <1>2, <2>2 DEF FileInv, Idle
    <2>4. Material(jobs'[r].material, jobs'[r].tls) \in Parsed
        BY <1>3, <2>2, ReloadFacts, MaterialParsed
    <2>5. gateway'.tls \in Parsed \cup {None}
        BY <1>1, ReloadFacts
    <2>6. QED
        BY <1>1, <2>1, <2>2, <2>3, <2>4, <2>5, GoesOnOK
<1>4. CASE ~ Readable(disk.material, jobs[r].tls)
    <2>1. Ends(r, "failed")
        BY <1>4 DEF ReadMaterial
    <2>2. /\ jobs' = [jobs EXCEPT ![r] = NoJob]
          /\ settled'.kind \in {"none", "failed"}
          /\ settled'.kind # "none" => jobs[r].alone /\ settled'.before = jobs[r].before
        BY <2>1, UnsettledKind DEF Ends
    <2>3. FailedReloadKeepsOld' /\ ReloadIsLikeARestart'
        BY <1>1, <1>2, <2>2 DEF FileInv, Idle, FailedReloadKeepsOld, ReloadIsLikeARestart
    <2>4. gateway.up /\ gateway.runtime # None /\ gateway.etag \in 0..version
        BY <1>1, ReloadFacts DEF JobInv
    <2>5. DOMAIN gateway' = {"up", "config_path", "base", "etag", "runtime", "tls"}
        BY <1>1, ReloadFacts
    <2>6. QED
        BY <1>1, <2>2, <2>3, <2>4, <2>5, EndedOK
<1>5. QED
    BY <1>3, <1>4

LEMMA SwapMaterialOK ==
    ASSUME ReloadInv, NEW r \in Reloaders, SwapMaterial(r)
    PROVE  ReloadInv'
<1> DEFINE material == Material(jobs[r].material, jobs[r].tls)
<1>1. /\ jobs[r].pc = "swap" /\ r \in {"sighup", "admin"} /\ ~ Idle(r)
      /\ material \in Parsed
      /\ disk' = disk /\ version' = version /\ settled' = settled
    BY ReloadFacts DEF SwapMaterial, JobInv, Reloaders, Idle
<1>2. jobs' = [jobs EXCEPT ![r].pc = "store"] /\ gateway' = [gateway EXCEPT !.tls = material]
    BY DEF SwapMaterial
<1>3. material \in Parsed
    BY <1>1
<1>4. FileInv(r)
    BY <1>1 DEF ReloadInv
<1>5. jobs[r].alone => material = Material(disk.material, jobs[r].tls)
    BY <1>1, <1>4 DEF FileInv
<1> HIDE DEF material
<1>6. /\ DOMAIN jobs' = Reloaders /\ \A q \in Reloaders \ {r} : jobs'[q] = jobs[q]
      /\ DOMAIN jobs'[r] = Fields /\ jobs'[r].alone = jobs[r].alone
      /\ jobs'[r].runtime = jobs[r].runtime /\ jobs'[r].version = jobs[r].version
      /\ jobs'[r].pc = "store" /\ jobs'[r].tls = jobs[r].tls
    BY <1>2, ReloadFacts DEF Fields
<1>7. /\ DOMAIN gateway' = DOMAIN gateway /\ gateway'.up = gateway.up /\ gateway'.base = gateway.base
      /\ gateway'.etag = gateway.etag /\ gateway'.runtime = gateway.runtime
      /\ gateway'.tls = material /\ gateway'.config_path = gateway.config_path
    BY <1>2, ReloadFacts
<1>8. File' = File
    BY <1>1, <1>7 DEF File
<1>9. FileInv(r)'
    BY <1>1, <1>4, <1>5, <1>6, <1>7, <1>8 DEF FileInv, Idle
<1>10. QED
    BY <1>1, <1>3, <1>6, <1>7, <1>9, GoesOnOK

LEMMA StoreOK ==
    ASSUME ReloadInv, NEW r \in Reloaders, Store(r)
    PROVE  ReloadInv'
<1> DEFINE etag == IF r = "poll" THEN jobs[r].version ELSE gateway.etag
           kind == IF r = "poll" THEN "bundle" ELSE "file"
<1>1. /\ jobs[r].pc = "store" /\ ~ Idle(r) /\ disk' = disk /\ version' = version
      /\ gateway' = [gateway EXCEPT !.runtime = jobs[r].runtime, !.etag = etag]
      /\ Ends(r, kind)
    BY DEF Store, Idle
<1>2. etag \in 0..version /\ jobs[r].runtime # None /\ gateway.up
    BY <1>1, ReloadFacts DEF JobInv
<1>3. /\ jobs' = [jobs EXCEPT ![r] = NoJob]
      /\ settled'.kind \in {"none", kind} /\ (settled'.kind # "none" => jobs[r].alone)
    BY <1>1, UnsettledKind DEF Ends
<1> HIDE DEF etag
<1>4. /\ DOMAIN gateway' = {"up", "config_path", "base", "etag", "runtime", "tls"}
      /\ gateway'.up = gateway.up /\ gateway'.base = gateway.base /\ gateway'.tls = gateway.tls
      /\ gateway'.etag = etag /\ gateway'.runtime = jobs[r].runtime
      /\ gateway'.config_path = gateway.config_path
    BY <1>1, ReloadFacts
<1>5. File' = File
    BY <1>1, <1>4 DEF File
<1>6. CASE r = "poll"
    <2>1. PollInv /\ settled'.kind \in {"none", "bundle"}
        BY <1>3, <1>6 DEF ReloadInv
    <2>2. settled'.kind = "bundle" =>
              /\ version >= 1
              /\ gateway'.runtime = build_runtime(apply_config(gateway.base, Bundles[version]))
        BY <1>1, <1>3, <1>4, <1>6, <2>1 DEF PollInv
    <2>3. FailedReloadKeepsOld' /\ ReloadIsLikeARestart'
        BY <2>1 DEF FailedReloadKeepsOld, ReloadIsLikeARestart
    <2>4. QED
        BY <1>1, <1>2, <1>3, <1>4, <2>1, <2>2, <2>3, EndedOK
<1>7. CASE r # "poll"
    <2>1. FileInv(r) /\ settled'.kind \in {"none", "file"}
        BY <1>3, <1>7 DEF ReloadInv, Reloaders
    <2>2. settled'.kind = "file" =>
              /\ gateway'.runtime = build_runtime(load(File))
              /\ gateway'.tls # None /\ load(File)["listen.tls"] # None =>
                    gateway'.tls = Material(disk.material, load(File)["listen.tls"])
        BY <1>1, <1>3, <1>4, <2>1 DEF FileInv
    <2>3. FailedReloadKeepsOld' /\ ReloadIsLikeARestart'
        BY <1>1, <1>5, <2>1, <2>2 DEF FailedReloadKeepsOld, ReloadIsLikeARestart
    <2>4. QED
        BY <1>1, <1>2, <1>3, <1>4, <2>1, <2>3, EndedOK
<1>8. QED
    BY <1>6, <1>7

LEMMA ReloadUnchanged ==
    ASSUME ReloadInv, UNCHANGED reloadVars
    PROVE  ReloadInv'
<1>1. disk' = disk /\ version' = version /\ gateway' = gateway /\ jobs' = jobs /\ settled' = settled
    BY DEF reloadVars
<1>2. File' = File /\ Live' = Live
    BY <1>1 DEF File, Live
<1>3. QED
    BY <1>1, <1>2 DEF ReloadInv, ReloadTypeOK, ReloadShape, JobInv, FileInv, PollInv, SettledInv,
                      Idle, FailedReloadKeepsOld, ReloadIsLikeARestart
-----------------------------------------------------------------------------
(***************************************************************************)
(* A bundle is like a file.                                                *)
(***************************************************************************)

(* What the mapping of a bundle fills in is what serde fills in. *)
LEMMA SameDefaults ==
    ASSUME NEW b, IsBundle(b)
    PROVE  /\ Each(map_model, b.models) = Each(ModelOfFile, b.models)
           /\ Each(map_plugin, b.plugins) = Each(PluginOfFile, b.plugins)
<1>1. ASSUME NEW m PROVE map_model(m) = ModelOfFile(m)
    BY DEF map_model, ModelOfFile, DEFAULT_MODEL, default_model
<1>2. ASSUME NEW p, Fillable(p, DEFAULT_PLUGIN)
      PROVE  map_plugin(p) = PluginOfFile(p)
    <2>1. ASSUME NEW f \in DOMAIN DEFAULT_PLUGIN
          PROVE  DEFAULT_PLUGIN[f] = default_plugin[f]
        BY <2>1 DEF DEFAULT_PLUGIN, default_plugin
    <2>2. QED
        BY <1>2, <2>1 DEF Fillable, map_plugin, PluginOfFile, Filled
<1>3. Each(map_model, b.models) = Each(ModelOfFile, b.models)
    BY <1>1 DEF Each
<1>4. Each(map_plugin, b.plugins) = Each(PluginOfFile, b.plugins)
    BY <1>2 DEF Each, IsBundle
<1>5. QED
    BY <1>3, <1>4

LEMMA SamePrices ==
    ASSUME NEW base,
           NEW kept, kept = Restrict(base, {s \in DOMAIN base : FALSE => s \notin PriceSettings}),
           NEW prices, prices = Restrict(base, PriceSettings \cap DOMAIN base),
           NEW other, other = Restrict(base, DOMAIN base \ PriceSettings)
    PROVE  Over(<<>>, kept) = Over(prices, other)
<1>1. /\ DOMAIN kept = DOMAIN base /\ \A s \in DOMAIN base : kept[s] = base[s]
      /\ DOMAIN prices = PriceSettings \cap DOMAIN base
      /\ \A s \in DOMAIN prices : prices[s] = base[s]
      /\ DOMAIN other = DOMAIN base \ PriceSettings /\ \A s \in DOMAIN other : other[s] = base[s]
    BY DEF Restrict
<1>2. DOMAIN <<>> = {}
    OBVIOUS
<1>3. Over(<<>>, kept) = [s \in DOMAIN base |-> base[s]]
    BY <1>1, <1>2 DEF Over
<1>4. Over(prices, other) = [s \in DOMAIN base |-> base[s]]
    <2>1. DOMAIN prices \cup DOMAIN other = DOMAIN base
        BY <1>1
    <2>2. QED
        BY <1>1, <2>1 DEF Over
<1>5. QED
    BY <1>3, <1>4

LEMMA BundleLikeFile ==
    ASSUME NEW base, NEW b, IsBundle(b)
    PROVE  LET prices == IF b.pricing = None THEN Restrict(base, PriceSettings \cap DOMAIN base)
                         ELSE b.pricing
               other  == Restrict(base, DOMAIN base \ PriceSettings)
               lists  == "models" :> Each(ModelOfFile, b.models)
                         @@ "plugins" :> Each(PluginOfFile, b.plugins)
           IN  apply_config(base, b) = Over(lists, Over(b.settings, Over(prices, other)))
<1> DEFINE prices == IF b.pricing = None THEN Restrict(base, PriceSettings \cap DOMAIN base)
                     ELSE b.pricing
           other  == Restrict(base, DOMAIN base \ PriceSettings)
           kept   == Restrict(base, {s \in DOMAIN base : b.pricing # None => s \notin PriceSettings})
           priced == IF b.pricing = None THEN <<>> ELSE b.pricing
           lists  == "models" :> Each(ModelOfFile, b.models)
                     @@ "plugins" :> Each(PluginOfFile, b.plugins)
           mapped == "models" :> Each(map_model, b.models)
                     @@ "plugins" :> Each(map_plugin, b.plugins)
<1>1. mapped = lists
    BY SameDefaults
<1>2. Over(priced, kept) = Over(prices, other)
    <2>1. CASE b.pricing = None
        <3>1. kept = Restrict(base, {s \in DOMAIN base : FALSE => s \notin PriceSettings})
            BY <2>1
        <3>2. QED
            BY <2>1, <3>1, SamePrices
    <2>2. CASE b.pricing # None
        <3>1. {s \in DOMAIN base : b.pricing # None => s \notin PriceSettings} = DOMAIN base \ PriceSettings
            BY <2>2
        <3>2. QED
            BY <2>2, <3>1
    <2>3. QED
        BY <2>1, <2>2
<1>3. apply_config(base, b) = Over(mapped, Over(b.settings, Over(priced, kept)))
    BY DEF apply_config
<1> HIDE DEF prices, other, kept, priced, lists, mapped
<1>4. apply_config(base, b) = Over(lists, Over(b.settings, Over(prices, other)))
    BY <1>1, <1>2, <1>3
<1>5. QED
    BY <1>4 DEF prices, other, lists

LEMMA BundleOK == ReloadInv => BundleIsLikeAFile
<1> SUFFICES ASSUME ReloadInv, settled.kind = "bundle" PROVE BundleIsLikeAFile
    BY DEF BundleIsLikeAFile
<1>1. /\ version >= 1
      /\ gateway.runtime = build_runtime(apply_config(gateway.base, Bundles[version]))
    BY DEF ReloadInv, SettledInv
<1>2. IsBundle(Bundles[version])
    BY <1>1, ReloadFacts, ReloadAssumption
<1>3. QED
    BY <1>1, <1>2, BundleLikeFile DEF BundleIsLikeAFile
-----------------------------------------------------------------------------
(***************************************************************************)
(* Ctl: the key store as a set of ids.                                     *)
(***************************************************************************)
LEMMA IdsInserted ==
    ASSUME NEW S, KeyStore!IsKeyStore(S), NEW id, NEW expires_at
    PROVE  LET T == KeyStore!insert(S, Key(id, expires_at))
           IN  /\ KeyStore!IsKeyStore(T) /\ Ids(T) \subseteq Ids(S) \cup {id}
               /\ (\A k \in S : k.hash = k.id) =>
                     Ids(T) = Ids(S) \cup {id} /\ \A k \in T : k.hash = k.id
<1> DEFINE k0 == Key(id, expires_at)
           T == {j \in S : j.hash # k0.hash} \cup {k0}
<1>1. k0.id = id /\ k0.hash = id
    BY DEF Key
<1>2. KeyStore!insert(S, Key(id, expires_at)) = T
    BY DEF KeyStore!insert
<1> HIDE DEF k0
<1>3. KeyStore!IsKeyStore(T)
    BY DEF KeyStore!IsKeyStore
<1>4. Ids(T) \subseteq Ids(S) \cup {id}
    BY <1>1 DEF Ids
<1>5. ASSUME \A k \in S : k.hash = k.id
      PROVE  Ids(T) = Ids(S) \cup {id} /\ \A k \in T : k.hash = k.id
    <2>1. Ids(S) \cup {id} \subseteq Ids(T)
        BY <1>1, <1>5 DEF Ids
    <2>2. QED
        BY <1>1, <1>4, <1>5, <2>1
<1>6. QED
    BY <1>2, <1>3, <1>4, <1>5

LEMMA IdsRemoved ==
    ASSUME NEW S, KeyStore!IsKeyStore(S), NEW id
    PROVE  LET T == {k \in S : k.id # id}
           IN  KeyStore!IsKeyStore(T) /\ Ids(T) = Ids(S) \ {id}
    BY DEF KeyStore!IsKeyStore, Ids

LEMMA FreshKey ==
    ASSUME Fresh # {}
    PROVE  generate_key \in KeyIds \ DOMAIN asked
    BY Zenon DEF Fresh, generate_key

LEMMA AskedDomain ==
    ASSUME NEW expires_at
    PROVE  DOMAIN Asked(expires_at) = DOMAIN asked \cup {generate_key}
    BY DEF Asked, Over

LEMMA CtlFacts ==
    ASSUME CtlInv, NEW o \in Operators
    PROVE  /\ calls[o] \in Call /\ DOMAIN calls = Operators
           /\ calls[o].pc \in {"idle", "sent", "handled", "answered"}
           /\ calls[o].kind \in {None, "create", "revoke"}
           /\ calls[o].answer \in {None, 201, 204, 401, 404}
           /\ calls[o].found \in BOOLEAN /\ calls[o].token \in BOOLEAN
           /\ calls[o].pc = "answered" <=> calls[o].answer # None
           /\ CallInv(o)
           /\ DOMAIN asked \subseteq KeyIds
<1>1. /\ calls \in [Operators -> Call] /\ (calls[o].pc = "answered" <=> calls[o].answer # None)
      /\ CallInv(o) /\ DOMAIN asked \subseteq KeyIds
    BY DEF CtlInv, CtlTypeOK
<1>2. calls[o] \in Call /\ DOMAIN calls = Operators
    BY <1>1
<1>3. QED
    BY <1>1, <1>2 DEF Call

(* The commands of the others. *)
LEMMA SameCall ==
    ASSUME NEW o, calls'[o] = calls[o]
    PROVE  /\ Creating(o)' <=> Creating(o)
           /\ Revoking(o)' <=> Revoking(o)
           /\ Revoked(o)' <=> Revoked(o)
           /\ \A kind : Unrecorded(o, kind)' <=> Unrecorded(o, kind)
    BY DEF Creating, Revoking, Revoked, Unrecorded

LEMMA CtlInitOK == Init => CtlInv
<1> SUFFICES ASSUME Init PROVE CtlInv
    OBVIOUS
<1>1. /\ keys = {} /\ listed = {} /\ calls = [o \in Operators |-> NoCall] /\ asked = <<>>
      /\ trail = Trail({}) /\ told = Untold
    BY DEF Init, CtlInit
<1>2. ~ gateway.up
    BY DEF Init, ReloadInit, Down
<1>3. NoCall \in Call /\ NoCall.pc = "idle" /\ NoCall.answer = None /\ ~ NoCall.found
    BY DEF NoCall, Call
<1>4. Ids({}) = {} /\ KeyStore!IsKeyStore({}) /\ DOMAIN asked = {}
    BY <1>1 DEF Ids, KeyStore!IsKeyStore
<1>5. trail \in [start : SUBSET KeyIds, created : SUBSET KeyIds, revoked : [KeyIds -> Nat]]
    BY <1>1, <1>4 DEF Trail
<1>6. /\ told \in [issued : SUBSET DOMAIN asked, revoked : SUBSET DOMAIN asked,
                   tried : SUBSET DOMAIN asked]
      /\ told.issued = {} /\ told.revoked = {}
    BY <1>1, <1>4 DEF Untold
<1>7. CtlTypeOK
    BY <1>1, <1>3, <1>4, <1>5, <1>6 DEF CtlTypeOK
<1>8. \A o \in Operators : ~ Creating(o) /\ ~ Revoking(o) /\ ~ Revoked(o) /\ CallInv(o)
    BY <1>1, <1>3, CtlAssumption DEF Creating, Revoking, Revoked, CallInv
<1>9. Born = {} /\ Gone = {}
    BY <1>6, <1>8 DEF Born, Gone
<1>10. QED
    BY <1>1, <1>2, <1>4, <1>7, <1>8, <1>9 DEF CtlInv
-----------------------------------------------------------------------------
(***************************************************************************)
(* Ctl: steps that leave the key store and the audit log alone.            *)
(***************************************************************************)
LEMMA QuietOK ==
    ASSUME CtlInv, UNCHANGED <<gateway, keys, listed, asked, trail>>,
           calls' \in [Operators -> Call],
           \A o \in Operators : calls'[o].pc = "answered" <=> calls'[o].answer # None,
           told' \in [issued : SUBSET DOMAIN asked, revoked : SUBSET DOMAIN asked,
                      tried : SUBSET DOMAIN asked],
           told.tried \subseteq told'.tried, Born' \subseteq Born, Gone' \subseteq Gone,
           \A o \in Operators : /\ Unrecorded(o, "create")' <=> Unrecorded(o, "create")
                                /\ Unrecorded(o, "revoke")' <=> Unrecorded(o, "revoke")
                                /\ Unrecorded(o, "create") \/ Unrecorded(o, "revoke") =>
                                      calls'[o].id = calls[o].id,
           \A o \in Operators : CallInv(o)'
    PROVE  CtlInv'
<1>1. /\ gateway' = gateway /\ keys' = keys /\ listed' = listed /\ asked' = asked /\ trail' = trail
      /\ ApiMode' = ApiMode
    BY DEF ApiMode
<1>2. CtlTypeOK'
    BY <1>1 DEF CtlInv, CtlTypeOK
<1>3. Added' = Added /\ Removed' = Removed
    BY DEF Added, Removed
<1>4. ~ gateway'.up => Born' = {} /\ Gone' = {}
    BY <1>1 DEF CtlInv
<1>5. KnownInv => KnownInv'
    BY <1>1 DEF KnownInv
<1>6. TrailInv => TrailInv'
    BY <1>1, <1>3 DEF TrailInv
<1>7. (\A k \in listed' : k.hash = k.id) /\ KeyStore!IsKeyStore(listed')
    BY <1>1 DEF CtlInv
<1>8. QED
    BY <1>1, <1>2, <1>4, <1>5, <1>6, <1>7 DEF CtlInv

LEMMA NoCallFacts ==
    /\ NoCall \in Call /\ NoCall.pc = "idle" /\ NoCall.answer = None /\ NoCall.kind = None
    /\ ~ NoCall.found
    BY DEF NoCall, Call

(* A command begins. *)
LEMMA CommandOK ==
    ASSUME CtlInv, NEW o \in Operators, NEW token \in BOOLEAN,
           UNCHANGED gateway,
           \/ \E expires_at \in Expiries : key_create_online(o, expires_at, token)
           \/ \E id \in KeyIds : key_revoke(o, id, token)
    PROVE  CtlInv'
<1>1. PICK kind \in {"create", "revoke"}, id \in KeyIds \cup {None}, expires_at \in Expiries \cup {None} :
          /\ Sent(o, kind, id, expires_at, token)
          /\ kind = "revoke" => id \in DOMAIN asked /\ told' = [told EXCEPT !.tried = told.tried \cup {id}]
          /\ kind = "create" => told' = told
          /\ UNCHANGED <<keys, listed, asked, trail>>
    BY DEF key_create_online, key_revoke
<1> DEFINE c == [pc |-> "sent", kind |-> kind, id |-> id, expires_at |-> expires_at,
                 token |-> token, found |-> FALSE, answer |-> None]
<1>2. calls[o].pc = "idle" /\ calls' = [calls EXCEPT ![o] = c]
    BY <1>1 DEF Sent
<1>3. c \in Call
    BY DEF Call
<1>4. c.pc = "sent" /\ c.kind = kind /\ c.id = id /\ c.answer = None /\ ~ c.found
    OBVIOUS
<1> HIDE DEF c
<1>5. /\ calls' \in [Operators -> Call] /\ calls'[o] = c
      /\ \A p \in Operators \ {o} : calls'[p] = calls[p]
    BY <1>2, <1>3 DEF CtlInv, CtlTypeOK
<1>6. \A p \in Operators : calls'[p].pc = "answered" <=> calls'[p].answer # None
    BY <1>4, <1>5, CtlFacts
<1>7. /\ told' \in [issued : SUBSET DOMAIN asked, revoked : SUBSET DOMAIN asked,
                    tried : SUBSET DOMAIN asked]
      /\ told'.issued = told.issued /\ told'.revoked = told.revoked /\ told.tried \subseteq told'.tried
      /\ kind = "revoke" => id \in told'.tried
    BY <1>1 DEF CtlInv, CtlTypeOK
<1>8. /\ ~ Creating(o) /\ ~ Creating(o)' /\ ~ Revoked(o) /\ ~ Revoked(o)'
      /\ \A k : ~ Unrecorded(o, k) /\ ~ Unrecorded(o, k)'
    BY <1>2, <1>4, <1>5, CtlFacts, CtlAssumption DEF Creating, Revoked, Revoking, Unrecorded
<1>9. Born' = Born /\ Gone' = Gone
    BY <1>5, <1>7, <1>8, SameCall DEF Born, Gone
<1>10. ASSUME NEW p \in Operators
       PROVE  CallInv(p)'
    <2>1. CASE p = o
        <3>1. calls'[p].kind # None /\ calls'[p].pc = "sent" /\ ~ calls'[p].found
            <4>1. kind # None
                BY CtlAssumption
            <4>2. calls'[p] = c
                BY <1>5, <2>1
            <4>3. QED
                BY <1>4, <4>1, <4>2
        <3>2. Revoking(p)' => calls'[p].id \in DOMAIN asked' /\ calls'[p].id \in told'.tried
            BY <1>1, <1>4, <1>5, <1>7, <2>1 DEF Revoking
        <3>3. ~ Creating(p)'
            BY <1>8, <2>1
        <3>4. QED
            BY <3>1, <3>2, <3>3 DEF CallInv
    <2>2. CASE p # o
        BY <1>1, <1>5, <1>7, <1>9, <2>2, CtlFacts, SameCall DEF CallInv
    <2>3. QED
        BY <2>1, <2>2
<1>11. QED
    BY <1>1, <1>5, <1>6, <1>7, <1>8, <1>9, <1>10, SameCall, QuietOK

(* What the steps of a call do to its record. *)
IsAnswered(c, d, status) == d = [c EXCEPT !.pc = "answered", !.answer = status]
IsHandled(c, d, id) ==
    \E found \in BOOLEAN : d = [c EXCEPT !.pc = "handled", !.id = id, !.found = found]

LEMMA AnsweredCall ==
    ASSUME NEW c \in Call, NEW status \in {201, 204, 401, 404},
           NEW d, IsAnswered(c, d, status)
    PROVE  /\ d \in Call /\ d.pc = "answered" /\ d.answer = status /\ d.kind = c.kind /\ d.id = c.id
           /\ d.found = c.found
<1>1. d = [pc |-> "answered", kind |-> c.kind, id |-> c.id, expires_at |-> c.expires_at,
           token |-> c.token, found |-> c.found, answer |-> status]
    BY ZenonT(60) DEF Call, IsAnswered
<1>2. /\ c.kind \in {None, "create", "revoke"} /\ c.id \in KeyIds \cup {None}
      /\ c.expires_at \in Expiries \cup {None} /\ c.token \in BOOLEAN /\ c.found \in BOOLEAN
    BY DEF Call
<1>3. d \in Call
    BY <1>1, <1>2 DEF Call
<1>4. QED
    BY <1>1, <1>3

LEMMA HandledCall ==
    ASSUME NEW c \in Call, NEW id \in KeyIds, NEW d, IsHandled(c, d, id)
    PROVE  /\ d \in Call /\ d.pc = "handled" /\ d.id = id /\ d.kind = c.kind
           /\ d.answer = c.answer
<1>0. PICK found \in BOOLEAN : d = [c EXCEPT !.pc = "handled", !.id = id, !.found = found]
    BY DEF IsHandled
<1>1. d = [pc |-> "handled", kind |-> c.kind, id |-> id, expires_at |-> c.expires_at,
           token |-> c.token, found |-> found, answer |-> c.answer]
    BY <1>0 DEF Call
<1>2. /\ c.kind \in {None, "create", "revoke"} /\ c.expires_at \in Expiries \cup {None}
      /\ c.token \in BOOLEAN /\ c.answer \in {None, 201, 204, 401, 404}
    BY DEF Call
<1>3. d \in Call
    BY <1>1, <1>2 DEF Call
<1>4. QED
    BY <1>1, <1>3

LEMMA RefusedTokenOK ==
    ASSUME CtlInv, NEW o \in Operators, require_admin_token(o), UNCHANGED gateway
    PROVE  CtlInv'
<1>1. /\ calls[o].pc = "sent" /\ calls' = [calls EXCEPT ![o].pc = "answered", ![o].answer = 401]
      /\ UNCHANGED <<keys, listed, asked, trail, told>>
    BY DEF require_admin_token
<1>2. calls[o] \in Call /\ calls \in [Operators -> Call]
    BY DEF CtlInv, CtlTypeOK
<1>3. /\ calls' \in [Operators -> Call]
      /\ calls'[o].pc = "answered" /\ calls'[o].answer = 401 /\ calls'[o].kind = calls[o].kind
      /\ calls'[o].id = calls[o].id
      /\ \A p \in Operators \ {o} : calls'[p] = calls[p]
    <2>1. IsAnswered(calls[o], calls'[o], 401)
        BY <1>1, <1>2 DEF IsAnswered
    <2>2. 401 \in {201, 204, 401, 404}
        OBVIOUS
    <2>3. /\ calls'[o] \in Call /\ calls'[o].pc = "answered" /\ calls'[o].answer = 401
          /\ calls'[o].kind = calls[o].kind /\ calls'[o].id = calls[o].id
        BY <1>2, <2>1, <2>2, AnsweredCall
    <2>4. QED
        BY <1>1, <1>2, <2>3
<1>4. \A p \in Operators : calls'[p].pc = "answered" <=> calls'[p].answer # None
    BY <1>3, CtlFacts, CtlAssumption
<1>5. /\ ~ Creating(o) /\ ~ Creating(o)' /\ ~ Revoked(o) /\ ~ Revoked(o)'
      /\ \A k : ~ Unrecorded(o, k) /\ ~ Unrecorded(o, k)'
      /\ Revoking(o)' <=> Revoking(o)
    BY <1>1, <1>3, CtlFacts, CtlAssumption DEF Creating, Revoked, Revoking, Unrecorded
<1>6. Born' = Born /\ Gone' = Gone
    BY <1>1, <1>3, <1>5, SameCall DEF Born, Gone
<1>7. ASSUME NEW p \in Operators
      PROVE  CallInv(p)'
    <2>1. CASE p = o
        BY <1>1, <1>3, <1>5, <1>6, <2>1, CtlFacts DEF CallInv
    <2>2. CASE p # o
        BY <1>1, <1>3, <1>6, <2>2, CtlFacts, SameCall DEF CallInv
    <2>3. QED
        BY <2>1, <2>2
<1>8. /\ told' \in [issued : SUBSET DOMAIN asked, revoked : SUBSET DOMAIN asked,
                    tried : SUBSET DOMAIN asked]
      /\ told.tried \subseteq told'.tried
    BY <1>1 DEF CtlInv, CtlTypeOK
<1>9. QED
    BY <1>1, <1>3, <1>4, <1>5, <1>6, <1>7, <1>8, SameCall, QuietOK

(* A command is over: its operator has an answer, or never will. *)
LEMMA OverOK ==
    ASSUME CtlInv, NEW o \in Operators, UNCHANGED gateway,
           AdminClient_create_key(o) \/ AdminClient_revoke_key(o) \/ Lose(o)
    PROVE  CtlInv'
<1>1. /\ calls[o].pc \in {"sent", "answered"} /\ calls' = [calls EXCEPT ![o] = NoCall]
      /\ UNCHANGED <<keys, listed, asked, trail>>
      /\ \/ told' = told
         \/ Creating(o) /\ told' = [told EXCEPT !.issued = told.issued \cup {calls[o].id}]
         \/ Revoked(o) /\ told' = [told EXCEPT !.revoked = told.revoked \cup {calls[o].id}]
    BY DEF AdminClient_create_key, AdminClient_revoke_key, Lose, Creating, Revoked, Revoking
<1>2. /\ calls' \in [Operators -> Call] /\ calls'[o] = NoCall
      /\ \A p \in Operators \ {o} : calls'[p] = calls[p]
    BY <1>1, NoCallFacts DEF CtlInv, CtlTypeOK
<1>3. \A p \in Operators : calls'[p].pc = "answered" <=> calls'[p].answer # None
    BY <1>2, NoCallFacts, CtlFacts
<1>4. Creating(o) \/ Revoked(o) => calls[o].id \in DOMAIN asked
    BY CtlFacts DEF CallInv, Revoked
<1>5. /\ told' \in [issued : SUBSET DOMAIN asked, revoked : SUBSET DOMAIN asked,
                    tried : SUBSET DOMAIN asked]
      /\ told'.tried = told.tried
      /\ told'.issued \subseteq told.issued \cup {id \in {calls[o].id} : Creating(o)}
      /\ told'.revoked \subseteq told.revoked \cup {id \in {calls[o].id} : Revoked(o)}
    <2>1. told \in [issued : SUBSET DOMAIN asked, revoked : SUBSET DOMAIN asked,
                    tried : SUBSET DOMAIN asked]
        BY DEF CtlInv, CtlTypeOK
    <2>2. QED
        BY <1>1, <1>4, <2>1
<1>6. ~ Creating(o)' /\ ~ Revoking(o)' /\ ~ Revoked(o)' /\ \A k : ~ Unrecorded(o, k) /\ ~ Unrecorded(o, k)'
    BY <1>1, <1>2, NoCallFacts, CtlAssumption DEF Creating, Revoked, Revoking, Unrecorded
<1>7. Born' \subseteq Born /\ Gone' \subseteq Gone
    BY <1>2, <1>5, <1>6, SameCall DEF Born, Gone
<1>8. ASSUME NEW p \in Operators
      PROVE  CallInv(p)'
    <2>1. CASE p = o
        BY <1>2, <1>6, <2>1, NoCallFacts DEF CallInv
    <2>2. CASE p # o
        BY <1>1, <1>2, <1>5, <1>7, <2>2, CtlFacts, SameCall DEF CallInv
    <2>3. QED
        BY <2>1, <2>2
<1>9. QED
    BY <1>1, <1>2, <1>3, <1>5, <1>6, <1>7, <1>8, SameCall, QuietOK
-----------------------------------------------------------------------------
(***************************************************************************)
(* Ctl: the handlers.                                                      *)
(***************************************************************************)
LEMMA KeysUnaffected ==
    ASSUME CtlInv, UNCHANGED <<listed>>
    PROVE  (\A k \in listed' : k.hash = k.id) /\ KeyStore!IsKeyStore(listed')
    BY DEF CtlInv

LEMMA CreateKeyOK ==
    ASSUME CtlInv, NEW o \in Operators, create_key(o), UNCHANGED gateway
    PROVE  CtlInv'
<1> DEFINE g == generate_key
<1>1. /\ gateway.up /\ calls[o].pc = "sent" /\ calls[o].kind = "create"
      /\ keys' = KeyStore!insert(keys, Key(g, calls[o].expires_at))
      /\ asked' = Asked(calls[o].expires_at)
      /\ calls' = [calls EXCEPT ![o].pc = "handled", ![o].id = g, ![o].found = TRUE]
      /\ listed' = listed /\ trail' = trail /\ told' = told
    BY DEF create_key, Serving, Handled
<1>2. g \in KeyIds \ DOMAIN asked /\ DOMAIN asked' = DOMAIN asked \cup {g}
    BY <1>1, FreshKey, AskedDomain DEF create_key
<1>3. /\ KeyStore!IsKeyStore(keys') /\ Ids(keys') \subseteq Ids(keys) \cup {g}
      /\ (\A k \in keys : k.hash = k.id) =>
            Ids(keys') = Ids(keys) \cup {g} /\ \A k \in keys' : k.hash = k.id
    BY <1>1, IdsInserted DEF CtlInv, CtlTypeOK
<1> HIDE DEF g
<1>4. calls[o] \in Call /\ calls \in [Operators -> Call] /\ calls[o].answer = None
    BY <1>1, CtlFacts DEF CtlInv, CtlTypeOK
<1>5. /\ calls' \in [Operators -> Call]
      /\ calls'[o].pc = "handled" /\ calls'[o].id = g /\ calls'[o].kind = "create"
      /\ calls'[o].answer = None /\ calls'[o].found = TRUE
      /\ \A p \in Operators \ {o} : calls'[p] = calls[p]
    <2>1. IsHandled(calls[o], calls'[o], g) /\ g \in KeyIds
        BY <1>1, <1>2, <1>4 DEF IsHandled
    <2>2. /\ calls'[o] \in Call /\ calls'[o].pc = "handled" /\ calls'[o].id = g
          /\ calls'[o].kind = calls[o].kind /\ calls'[o].answer = calls[o].answer
        BY <1>4, <2>1, HandledCall
    <2>3. calls'[o].found = TRUE
        BY <1>1, <1>4 DEF Call
    <2>4. QED
        BY <1>1, <1>4, <2>2, <2>3
<1>6. calls'[o].found
    BY <1>5
<1>7. gateway' = gateway /\ ApiMode' = ApiMode
    BY DEF ApiMode
<1>8. CtlTypeOK'
    <2>1. \A p \in Operators : calls'[p].pc = "answered" <=> calls'[p].answer # None
        BY <1>5, CtlFacts
    <2>2. told \in [issued : SUBSET DOMAIN asked', revoked : SUBSET DOMAIN asked',
                    tried : SUBSET DOMAIN asked']
        BY <1>2 DEF CtlInv, CtlTypeOK
    <2>3. Ids(keys') \subseteq KeyIds \cup Ids(Distributed)
        BY <1>2, <1>3 DEF CtlInv, CtlTypeOK
    <2>4. Ids(listed') \subseteq DOMAIN asked' /\ DOMAIN asked' \subseteq KeyIds
        BY <1>1, <1>2 DEF CtlInv, CtlTypeOK
    <2>5. trail' \in [start : SUBSET KeyIds, created : SUBSET KeyIds, revoked : [KeyIds -> Nat]]
        BY <1>1 DEF CtlInv, CtlTypeOK
    <2>6. QED
        BY <1>1, <1>3, <1>5, <2>1, <2>2, <2>3, <2>4, <2>5 DEF CtlTypeOK
<1>9. /\ ~ Creating(o) /\ Creating(o)' /\ ~ Revoking(o) /\ ~ Revoking(o)' /\ ~ Revoked(o) /\ ~ Revoked(o)'
      /\ \A k : ~ Unrecorded(o, k)
      /\ Unrecorded(o, "create")' /\ ~ Unrecorded(o, "revoke")'
    BY <1>1, <1>4, <1>5, <1>6, CtlAssumption DEF Creating, Revoked, Revoking, Unrecorded
<1>10. Born' = Born \cup {g} /\ Gone' = Gone /\ Added' = Added \cup {g} /\ Removed' = Removed
    <2>1. Born' = Born \cup {g}
        BY <1>1, <1>2, <1>5, <1>9, SameCall DEF Born
    <2>2. Gone' = Gone
        BY <1>1, <1>5, <1>9, SameCall DEF Gone
    <2>3. Added' = Added \cup {g}
        BY <1>2, <1>5, <1>9, SameCall DEF Added
    <2>4. Removed' = Removed
        BY <1>5, <1>9, SameCall DEF Removed
    <2>5. QED
        BY <2>1, <2>2, <2>3, <2>4
<1>11. ASSUME NEW p \in Operators
       PROVE  CallInv(p)'
    <2>1. CASE p = o
        BY <1>1, <1>2, <1>5, <1>6, <1>7, <1>9, <2>1, CtlAssumption DEF CallInv
    <2>2. CASE p # o
        BY <1>1, <1>2, <1>5, <1>7, <1>10, <2>2, CtlFacts, SameCall DEF CallInv
    <2>3. QED
        BY <2>1, <2>2
<1>12. g \notin Gone /\ g \notin Removed
    <2>1. told.revoked \subseteq DOMAIN asked
        BY DEF CtlInv, CtlTypeOK
    <2>2. \A p \in Operators : Revoked(p) \/ Unrecorded(p, "revoke") => calls[p].id \in DOMAIN asked
        BY CtlFacts DEF CallInv, Revoked, Revoking, Unrecorded
    <2>3. QED
        BY <1>2, <2>1, <2>2 DEF Gone, Removed
<1>13. ASSUME gateway.up, ~ ApiMode
       PROVE  KnownInv' /\ TrailInv'
    <2>1. KnownInv /\ TrailInv
        BY <1>13 DEF CtlInv
    <2>2. Ids(keys') = Ids(keys) \cup {g} /\ \A k \in keys' : k.hash = k.id
        BY <1>3, <2>1 DEF KnownInv
    <2>3. KnownInv'
        BY <1>1, <1>2, <1>10, <1>12, <2>1, <2>2 DEF KnownInv
    <2>4. trail.revoked[g] = 0
        BY <1>2, <2>1 DEF TrailInv
    <2>5. Ids(keys') = {id \in (trail'.start \cup trail'.created \cup Added') \ Removed' :
                           trail'.revoked[id] = 0}
        BY <1>1, <1>10, <1>12, <2>1, <2>2, <2>4 DEF TrailInv
    <2>6. \A p, q \in Operators :
              Unrecorded(p, "revoke")' /\ Unrecorded(q, "revoke")' /\ calls'[p].id = calls'[q].id => p = q
        BY <1>5, <1>9, <2>1, SameCall DEF TrailInv
    <2>7. QED
        BY <1>1, <1>2, <1>10, <2>1, <2>3, <2>5, <2>6 DEF TrailInv
<1>14. QED
    BY <1>1, <1>7, <1>8, <1>11, <1>13, KeysUnaffected DEF CtlInv

LEMMA DeleteKeyOK ==
    ASSUME CtlInv, NEW o \in Operators, delete_key(o), UNCHANGED gateway
    PROVE  CtlInv'
<1> DEFINE x == calls[o].id
<1>1. /\ gateway.up /\ calls[o].pc = "sent" /\ calls[o].kind = "revoke"
      /\ keys' = {k \in keys : k.id # x}
      /\ calls' = [calls EXCEPT ![o].pc = "handled", ![o].id = x, ![o].found = x \in Ids(keys)]
      /\ listed' = listed /\ asked' = asked /\ trail' = trail /\ told' = told
    BY DEF delete_key, Serving, Handled
<1>2. Revoking(o) /\ x \in DOMAIN asked /\ x \in KeyIds
    BY <1>1, CtlFacts DEF CallInv, Revoking
<1>3. KeyStore!IsKeyStore(keys') /\ Ids(keys') = Ids(keys) \ {x}
    BY <1>1, IdsRemoved, ZenonT(60) DEF CtlInv, CtlTypeOK
<1>4. calls[o] \in Call /\ calls \in [Operators -> Call] /\ calls[o].answer = None
    BY <1>1, CtlFacts DEF CtlInv, CtlTypeOK
<1> HIDE DEF x
<1>5. /\ calls' \in [Operators -> Call]
      /\ calls'[o].pc = "handled" /\ calls'[o].id = x /\ calls'[o].kind = "revoke"
      /\ calls'[o].answer = None
      /\ \A p \in Operators \ {o} : calls'[p] = calls[p]
    <2>1. IsHandled(calls[o], calls'[o], x)
        <3>1. PICK found \in BOOLEAN :
                  calls' = [calls EXCEPT ![o].pc = "handled", ![o].id = x, ![o].found = found]
            <4>1. CASE x \in Ids(keys)
                <5>1. calls' = [calls EXCEPT ![o].pc = "handled", ![o].id = x, ![o].found = TRUE]
                    BY <1>1, <4>1
                <5>2. QED
                    BY <5>1
            <4>2. CASE x \notin Ids(keys)
                <5>1. (x \in Ids(keys)) = FALSE
                    BY <4>2
                <5>2. calls' = [calls EXCEPT ![o].pc = "handled", ![o].id = x, ![o].found = FALSE]
                    BY <1>1, <5>1, Zenon
                <5>3. QED
                    BY <5>2
            <4>3. QED
                BY <4>1, <4>2
        <3>2. calls'[o] = [calls[o] EXCEPT !.pc = "handled", !.id = x, !.found = found]
            BY <1>4, <3>1
        <3>3. QED
            BY <3>2 DEF IsHandled
    <2>2. /\ calls'[o] \in Call /\ calls'[o].pc = "handled" /\ calls'[o].id = x
          /\ calls'[o].kind = calls[o].kind /\ calls'[o].answer = calls[o].answer
        BY <1>2, <1>4, <2>1, HandledCall
    <2>3. QED
        BY <1>1, <1>4, <2>2
<1>6. calls'[o].found <=> x \in Ids(keys)
    BY <1>1, <1>4 DEF Call
<1>7. gateway' = gateway /\ ApiMode' = ApiMode
    BY DEF ApiMode
<1>8. CtlTypeOK'
    <2>1. \A p \in Operators : calls'[p].pc = "answered" <=> calls'[p].answer # None
        BY <1>5, CtlFacts
    <2>2. Ids(keys') \subseteq KeyIds \cup Ids(Distributed)
        BY <1>3 DEF CtlInv, CtlTypeOK
    <2>3. QED
        BY <1>1, <1>3, <1>5, <2>1, <2>2 DEF CtlInv, CtlTypeOK
<1>9. /\ ~ Creating(o) /\ ~ Creating(o)' /\ Revoking(o)' /\ ~ Revoked(o) /\ Revoked(o)'
      /\ \A k : ~ Unrecorded(o, k)
      /\ ~ Unrecorded(o, "create")'
      /\ Unrecorded(o, "revoke")' <=> x \in Ids(keys)
    BY <1>1, <1>4, <1>5, <1>6, CtlAssumption DEF Creating, Revoked, Revoking, Unrecorded
<1>10. /\ Born' = Born /\ Gone' = Gone \cup {x} /\ Added' = Added
       /\ Removed' = IF x \in Ids(keys) THEN Removed \cup {x} ELSE Removed
    <2>1. Born' = Born
        BY <1>1, <1>5, <1>9, SameCall DEF Born
    <2>2. Gone' = Gone \cup {x}
        BY <1>1, <1>2, <1>5, <1>9, SameCall DEF Gone
    <2>3. Added' = Added
        BY <1>5, <1>9, SameCall DEF Added
    <2>4. Removed' = IF x \in Ids(keys) THEN Removed \cup {x} ELSE Removed
        BY <1>2, <1>5, <1>9, SameCall DEF Removed
    <2>5. QED
        BY <2>1, <2>2, <2>3, <2>4
<1>11. x \in Born => x \in told.tried
    BY <1>2, CtlFacts DEF CallInv, x
<1>12. ASSUME NEW p \in Operators
       PROVE  CallInv(p)'
    <2>1. CASE p = o
        BY <1>1, <1>2, <1>5, <1>7, <1>9, <1>10, <1>11, <2>1, CtlAssumption DEF CallInv
    <2>2. CASE p # o
        BY <1>1, <1>5, <1>7, <1>10, <2>2, CtlFacts, SameCall DEF CallInv
    <2>3. QED
        BY <2>1, <2>2
<1>13. ASSUME gateway.up, ~ ApiMode
       PROVE  KnownInv' /\ TrailInv'
    <2>1. KnownInv /\ TrailInv
        BY <1>13 DEF CtlInv
    <2>2. KnownInv'
        BY <1>1, <1>3, <1>10, <1>11, <2>1 DEF KnownInv
    <2>3. x \in Ids(keys) => trail.revoked[x] = 0 /\ x \notin Removed
        BY <2>1 DEF TrailInv
    <2>4. Ids(keys') = {id \in (trail'.start \cup trail'.created \cup Added') \ Removed' :
                           trail'.revoked[id] = 0}
        BY <1>1, <1>3, <1>10, <2>1 DEF TrailInv
    <2>5. \A id \in Removed' : trail'.revoked[id] = 0
        BY <1>1, <1>10, <2>1, <2>3 DEF TrailInv
    <2>6. ASSUME NEW p \in Operators, NEW q \in Operators, Unrecorded(p, "revoke")',
                 Unrecorded(q, "revoke")', calls'[p].id = calls'[q].id
          PROVE  p = q
        <3>1. ASSUME NEW r \in Operators \ {o}, Unrecorded(r, "revoke")', calls'[r].id = x
              PROVE  x \in Removed
            BY <1>2, <1>5, <3>1, SameCall DEF Removed
        <3>2. Unrecorded(o, "revoke")' => x \notin Removed
            BY <1>9, <2>3
        <3>3. CASE p = o \/ q = o
            BY <1>5, <2>6, <3>1, <3>2, <3>3
        <3>4. CASE p # o /\ q # o
            BY <1>5, <2>1, <2>6, <3>4, SameCall DEF TrailInv
        <3>5. QED
            BY <3>3, <3>4
    <2>7. QED
        BY <1>1, <2>1, <2>2, <2>4, <2>5, <2>6 DEF TrailInv
<1>14. QED
    BY <1>1, <1>7, <1>8, <1>12, <1>13, KeysUnaffected DEF CtlInv

LEMMA AuditOK ==
    ASSUME CtlInv, NEW o \in Operators, Audit(o), UNCHANGED gateway
    PROVE  CtlInv'
<1> DEFINE x == calls[o].id
           status == IF calls[o].kind = "create" THEN 201 ELSE IF calls[o].found THEN 204 ELSE 404
<1>1. /\ gateway.up /\ calls[o].pc = "handled"
      /\ trail' = IF calls[o].kind = "create" THEN [trail EXCEPT !.created = trail.created \cup {x}]
                  ELSE IF calls[o].found THEN [trail EXCEPT !.revoked[x] = trail.revoked[x] + 1] ELSE trail
      /\ calls' = [calls EXCEPT ![o].pc = "answered", ![o].answer = status]
      /\ keys' = keys /\ listed' = listed /\ asked' = asked /\ told' = told
    BY DEF Audit
<1>2. calls[o].kind \in {"create", "revoke"} /\ x \in DOMAIN asked /\ x \in KeyIds
    BY <1>1, CtlFacts DEF CallInv, Revoking, Creating
<1>3. status \in {201, 204, 401, 404}
    OBVIOUS
<1>4. /\ calls[o].kind = "create" => status = 201
      /\ calls[o].kind = "revoke" => status \in {204, 404}
    OBVIOUS
<1> HIDE DEF x, status
<1>5. calls[o] \in Call /\ calls \in [Operators -> Call] /\ calls[o].answer = None
    BY <1>1, CtlFacts DEF CtlInv, CtlTypeOK
<1>6. /\ calls' \in [Operators -> Call]
      /\ calls'[o].pc = "answered" /\ calls'[o].answer = status /\ calls'[o].kind = calls[o].kind
      /\ calls'[o].id = x
      /\ \A p \in Operators \ {o} : calls'[p] = calls[p]
    <2>1. IsAnswered(calls[o], calls'[o], status)
        BY <1>1, <1>5 DEF IsAnswered
    <2>2. /\ calls'[o] \in Call /\ calls'[o].pc = "answered" /\ calls'[o].answer = status
          /\ calls'[o].kind = calls[o].kind /\ calls'[o].id = calls[o].id
        BY <1>3, <1>5, <2>1, AnsweredCall
    <2>3. QED
        BY <1>1, <1>5, <2>2 DEF x
<1>7. gateway' = gateway /\ ApiMode' = ApiMode
    BY DEF ApiMode
<1>8. trail \in [start : SUBSET KeyIds, created : SUBSET KeyIds, revoked : [KeyIds -> Nat]]
    BY DEF CtlInv, CtlTypeOK
<1>9. CtlTypeOK'
    <2>1. \A p \in Operators : calls'[p].pc = "answered" <=> calls'[p].answer # None
        BY <1>3, <1>6, CtlFacts, CtlAssumption
    <2>2. trail' \in [start : SUBSET KeyIds, created : SUBSET KeyIds, revoked : [KeyIds -> Nat]]
        BY <1>1, <1>2, <1>8
    <2>3. QED
        BY <1>1, <1>6, <2>1, <2>2 DEF CtlInv, CtlTypeOK
<1>10. /\ Creating(o)' <=> Creating(o)
       /\ Revoking(o)' <=> Revoking(o)
       /\ Revoked(o)' <=> Revoked(o)
       /\ \A k : ~ Unrecorded(o, k)'
    BY <1>1, <1>2, <1>4, <1>6 DEF Creating, Revoked, Revoking, Unrecorded
<1>11. Born' = Born /\ Gone' = Gone
    BY <1>1, <1>6, <1>10, SameCall DEF Born, Gone, x
<1>12. ASSUME NEW p \in Operators
       PROVE  CallInv(p)'
    <2>1. CASE p = o
        BY <1>1, <1>2, <1>6, <1>7, <1>10, <1>11, <2>1, CtlFacts, CtlAssumption DEF CallInv, x
    <2>2. CASE p # o
        BY <1>1, <1>6, <1>7, <1>11, <2>2, CtlFacts, SameCall DEF CallInv
    <2>3. QED
        BY <2>1, <2>2
<1>13. ASSUME KnownInv PROVE KnownInv'
    BY <1>1, <1>11, <1>13 DEF KnownInv
<1>14. ASSUME TrailInv, calls[o].kind = "create"
       PROVE  TrailInv'
    <2>1. /\ trail'.start = trail.start /\ trail'.revoked = trail.revoked
          /\ trail'.created = trail.created \cup {x}
        BY <1>1, <1>8, <1>14
    <2>2. Unrecorded(o, "create") /\ ~ Unrecorded(o, "revoke")
        BY <1>1, <1>14, CtlFacts DEF CallInv, Creating, Unrecorded
    <2>3. Removed' = Removed
        BY <1>6, <1>10, <2>2, SameCall DEF Removed
    <2>4. Added' \subseteq Added /\ Added \subseteq Added' \cup {x} /\ x \in Added
        BY <1>2, <1>6, <1>10, <2>2, SameCall DEF Added, x
    <2>5. \A p, q \in Operators :
              Unrecorded(p, "revoke")' /\ Unrecorded(q, "revoke")' /\ calls'[p].id = calls'[q].id => p = q
        BY <1>6, <1>10, <1>14, SameCall DEF TrailInv
    <2>6. trail'.start \cup trail'.created \cup Added' = trail.start \cup trail.created \cup Added
        BY <2>1, <2>4
    <2>7. QED
        BY <1>1, <1>2, <1>14, <2>1, <2>3, <2>5, <2>6 DEF TrailInv
<1>15. ASSUME TrailInv, calls[o].kind = "revoke", calls[o].found
       PROVE  TrailInv'
    <2>1. Unrecorded(o, "revoke") /\ ~ Unrecorded(o, "create") /\ x \in Removed
        BY <1>1, <1>2, <1>15 DEF Unrecorded, Removed, x
    <2>2. trail.revoked[x] = 0
        BY <1>15, <2>1 DEF TrailInv
    <2>3. /\ trail'.start = trail.start /\ trail'.created = trail.created /\ trail'.revoked[x] = 1
          /\ \A id \in KeyIds \ {x} : trail'.revoked[id] = trail.revoked[id]
        BY <1>1, <1>2, <1>8, <1>15, <2>2
    <2>4. Added' = Added
        BY <1>6, <1>10, <2>1, SameCall DEF Added
    <2>5. Removed' = Removed \ {x}
        <3>1. \A p \in Operators \ {o} : Unrecorded(p, "revoke") => calls[p].id # x
            BY <1>15, <2>1 DEF TrailInv, x
        <3>2. QED
            BY <1>6, <1>10, <2>1, <3>1, SameCall DEF Removed, x
    <2>6. \A p, q \in Operators :
              Unrecorded(p, "revoke")' /\ Unrecorded(q, "revoke")' /\ calls'[p].id = calls'[q].id => p = q
        BY <1>6, <1>10, <1>15, SameCall DEF TrailInv
    <2>7. trail'.start \cup trail'.created \cup Added' \subseteq KeyIds
        BY <1>8, <2>3, <2>4 DEF Added
    <2>8. Ids(keys') = {id \in (trail'.start \cup trail'.created \cup Added') \ Removed' :
                           trail'.revoked[id] = 0}
        BY <1>1, <1>2, <1>15, <2>1, <2>3, <2>4, <2>5, <2>7 DEF TrailInv
    <2>9. /\ \A id \in KeyIds : trail'.revoked[id] <= 1
          /\ \A id \in KeyIds \ DOMAIN asked : trail'.revoked[id] = 0
          /\ \A id \in Removed' : trail'.revoked[id] = 0
        BY <1>2, <1>15, <2>3, <2>5 DEF TrailInv, Removed
    <2>10. QED
        BY <1>1, <1>15, <2>3, <2>6, <2>8, <2>9 DEF TrailInv
<1>16. ASSUME TrailInv, calls[o].kind = "revoke", ~ calls[o].found
       PROVE  TrailInv'
    <2>1. trail' = trail
        BY <1>1, <1>16
    <2>2. \A k : ~ Unrecorded(o, k)
        BY <1>16 DEF Unrecorded
    <2>3. Added' = Added /\ Removed' = Removed
        BY <1>6, <1>10, <2>2, SameCall DEF Added, Removed
    <2>4. \A p, q \in Operators :
              Unrecorded(p, "revoke")' /\ Unrecorded(q, "revoke")' /\ calls'[p].id = calls'[q].id => p = q
        BY <1>6, <1>10, <1>16, SameCall DEF TrailInv
    <2>5. QED
        BY <1>1, <1>16, <2>1, <2>3, <2>4 DEF TrailInv
<1>17. gateway.up /\ ~ ApiMode => KnownInv' /\ TrailInv'
    BY <1>2, <1>13, <1>14, <1>15, <1>16 DEF CtlInv
<1>18. QED
    BY <1>1, <1>7, <1>9, <1>12, <1>17, KeysUnaffected DEF CtlInv

LEMMA PullKeysOK ==
    ASSUME CtlInv, PullKeys, UNCHANGED gateway
    PROVE  CtlInv'
<1>1. /\ ApiMode /\ gateway' = gateway /\ keys' = Distributed
      /\ listed' = listed /\ calls' = calls /\ asked' = asked /\ trail' = trail /\ told' = told
    BY DEF PullKeys
<1>2. ApiMode' /\ gateway'.up
    BY <1>1 DEF ApiMode
<1>3. CtlTypeOK'
    BY <1>1, CtlAssumption DEF CtlInv, CtlTypeOK
<1>4. ASSUME NEW o \in Operators PROVE CallInv(o)'
    <2>1. Born' = Born
        BY <1>1 DEF Born, Creating
    <2>2. QED
        BY <1>1, <2>1, CtlFacts, SameCall DEF CallInv
<1>5. QED
    BY <1>1, <1>2, <1>3, <1>4, KeysUnaffected DEF CtlInv

LEMMA CreateOfflineOK ==
    ASSUME CtlInv, NEW expires_at, key_create_offline(expires_at), UNCHANGED gateway
    PROVE  CtlInv'
<1> DEFINE g == generate_key
           k0 == Key(g, None)
<1>1. /\ gateway' = gateway /\ listed' = listed \cup {k0}
      /\ keys' = keys /\ calls' = calls /\ trail' = trail /\ told' = told
    BY DEF key_create_offline
<1>2. g \in KeyIds \ DOMAIN asked /\ DOMAIN asked' = DOMAIN asked \cup {g}
    BY FreshKey, AskedDomain DEF key_create_offline
<1>3. k0.id = g /\ k0.hash = g
    BY DEF Key
<1> HIDE DEF g, k0
<1>4. /\ \A k \in listed : k.hash = k.id
      /\ KeyStore!IsKeyStore(listed) /\ Ids(listed) \subseteq DOMAIN asked
    BY DEF CtlInv, CtlTypeOK
<1>5. /\ Ids(listed') = Ids(listed) \cup {g}
      /\ \A k \in listed : k.id # g
    BY <1>1, <1>2, <1>3, <1>4 DEF Ids
<1>6. (\A k \in listed' : k.hash = k.id) /\ KeyStore!IsKeyStore(listed')
    BY <1>1, <1>3, <1>4, <1>5 DEF KeyStore!IsKeyStore
<1>7. CtlTypeOK'
    <2>1. told' \in [issued : SUBSET DOMAIN asked', revoked : SUBSET DOMAIN asked',
                     tried : SUBSET DOMAIN asked']
        BY <1>1, <1>2 DEF CtlInv, CtlTypeOK
    <2>2. QED
        BY <1>1, <1>2, <1>5, <2>1 DEF CtlInv, CtlTypeOK
<1>8. /\ ApiMode' = ApiMode /\ Born' = Born /\ Gone' = Gone /\ Added' = Added /\ Removed' = Removed
    BY <1>1 DEF ApiMode, Born, Gone, Added, Removed, Creating, Revoked, Revoking, Unrecorded
<1>9. ASSUME NEW o \in Operators PROVE CallInv(o)'
    BY <1>1, <1>2, <1>8, CtlFacts, SameCall DEF CallInv
<1>10. KnownInv => KnownInv'
    BY <1>1, <1>2, <1>8 DEF KnownInv
<1>11. TrailInv => TrailInv'
    BY <1>1, <1>2, <1>8, SameCall DEF TrailInv
<1>12. QED
    BY <1>1, <1>6, <1>7, <1>8, <1>9, <1>10, <1>11 DEF CtlInv
-----------------------------------------------------------------------------
(***************************************************************************)
(* Ctl: the process starts, stops, and reloads.                            *)
(***************************************************************************)
LEMMA TrailOf ==
    ASSUME NEW store, Ids(store) \subseteq KeyIds
    PROVE  /\ Trail(store) \in [start : SUBSET KeyIds, created : SUBSET KeyIds, revoked : [KeyIds -> Nat]]
           /\ Trail(store).start = Ids(store) /\ Trail(store).created = {}
           /\ \A id \in KeyIds : Trail(store).revoked[id] = 0
    BY DEF Trail

LEMMA UntoldFacts ==
    /\ Untold.issued = {} /\ Untold.revoked = {} /\ Untold.tried = {}
    /\ \A S : Untold \in [issued : SUBSET S, revoked : SUBSET S, tried : SUBSET S]
    BY DEF Untold

LEMMA LoadKeysOK ==
    ASSUME CtlInv, ~ gateway.up, gateway'.up, LoadKeys
    PROVE  CtlInv'
<1>1. PICK store \in {listed, {}} :
          /\ keys' = store /\ trail' = Trail(store) /\ told' = Untold
          /\ listed' = listed /\ calls' = calls /\ asked' = asked
    BY DEF LoadKeys
<1>2. /\ \A k \in store : k.hash = k.id
      /\ KeyStore!IsKeyStore(store) /\ Ids(store) \subseteq DOMAIN asked /\ DOMAIN asked \subseteq KeyIds
    BY DEF CtlInv, CtlTypeOK, KeyStore!IsKeyStore, Ids
<1>3. Ids(store) \subseteq KeyIds
    BY <1>2
<1>4. CtlTypeOK'
    BY <1>1, <1>2, <1>3, TrailOf, UntoldFacts DEF CtlInv, CtlTypeOK
<1>5. \A o \in Operators : ~ Creating(o) /\ ~ Revoked(o) /\ \A k : ~ Unrecorded(o, k)
    <2>1. Born = {} /\ Gone = {}
        BY DEF CtlInv
    <2>2. ASSUME NEW o \in Operators, Creating(o) \/ Revoked(o) PROVE FALSE
        <3>1. calls[o].id \in KeyIds
            BY <2>2, CtlFacts DEF CallInv, Revoked
        <3>2. QED
            BY <2>1, <2>2, <3>1 DEF Born, Gone
    <2>3. ASSUME NEW o \in Operators PROVE calls[o].pc # "handled"
        BY CtlFacts DEF CallInv
    <2>4. QED
        BY <2>2, <2>3 DEF Unrecorded
<1>6. /\ \A o \in Operators : ~ Creating(o)' /\ ~ Revoked(o)' /\ \A k : ~ Unrecorded(o, k)'
      /\ \A o \in Operators : Revoking(o)' <=> Revoking(o)
    BY <1>1, <1>5, SameCall
<1>7. Born' = {} /\ Gone' = {} /\ Added' = {} /\ Removed' = {}
    BY <1>1, <1>6, UntoldFacts DEF Born, Gone, Added, Removed
<1>8. ASSUME NEW o \in Operators PROVE CallInv(o)'
    BY <1>1, <1>6, <1>7, CtlFacts DEF CallInv
<1>9. KnownInv'
    BY <1>1, <1>2, <1>7 DEF KnownInv
<1>10. TrailInv'
    BY <1>1, <1>2, <1>3, <1>6, <1>7, TrailOf DEF TrailInv
<1>11. QED
    BY <1>1, <1>4, <1>8, <1>9, <1>10, KeysUnaffected DEF CtlInv

LEMMA LoseKeysOK ==
    ASSUME CtlInv, ~ gateway'.up, LoseKeys
    PROVE  CtlInv'
<1>1. /\ keys' = {} /\ trail' = Trail({}) /\ told' = Untold /\ listed' = listed /\ asked' = asked
      /\ calls' = [o \in Operators |-> NoCall]
    BY DEF LoseKeys
<1>2. Ids({}) = {} /\ KeyStore!IsKeyStore({})
    BY DEF Ids, KeyStore!IsKeyStore
<1>3. CtlTypeOK'
    BY <1>1, <1>2, TrailOf, UntoldFacts, NoCallFacts DEF CtlInv, CtlTypeOK
<1>4. \A o \in Operators : ~ Creating(o)' /\ ~ Revoked(o)' /\ ~ Revoking(o)' /\ CallInv(o)'
    BY <1>1, NoCallFacts, CtlAssumption DEF Creating, Revoked, Revoking, CallInv
<1>5. Born' = {} /\ Gone' = {}
    BY <1>1, <1>4, UntoldFacts DEF Born, Gone
<1>6. QED
    BY <1>1, <1>3, <1>4, <1>5, KeysUnaffected DEF CtlInv

LEMMA CtlUnchanged ==
    ASSUME CtlInv, UNCHANGED ctlVars, gateway'.up = gateway.up, gateway'.base = gateway.base
    PROVE  CtlInv'
<1>1. /\ keys' = keys /\ trail' = trail /\ told' = told /\ listed' = listed /\ asked' = asked
      /\ calls' = calls
    BY DEF ctlVars
<1>2. /\ ApiMode' = ApiMode /\ Born' = Born /\ Gone' = Gone /\ Added' = Added /\ Removed' = Removed
    BY <1>1 DEF ApiMode, Born, Gone, Added, Removed, Creating, Revoked, Revoking, Unrecorded
<1>3. CtlTypeOK'
    BY <1>1 DEF CtlInv, CtlTypeOK
<1>4. ASSUME NEW o \in Operators PROVE CallInv(o)'
    BY <1>1, <1>2, CtlFacts, SameCall DEF CallInv
<1>5. KnownInv => KnownInv'
    BY <1>1, <1>2 DEF KnownInv
<1>6. TrailInv => TrailInv'
    BY <1>1, <1>2, SameCall DEF TrailInv
<1>7. QED
    BY <1>1, <1>2, <1>3, <1>4, <1>5, <1>6, KeysUnaffected DEF CtlInv
-----------------------------------------------------------------------------
(***************************************************************************)
(* The two parts together.                                                 *)
(***************************************************************************)

(* An event from outside stays within its bound. *)
LEMMA EventOK ==
    ASSUME events \in 0..MaxEvents, Event
    PROVE  events' \in 0..MaxEvents
BY OperationsAssumption DEF Event

(* The process starts and stops: both parts move at once. *)
LEMMA ProcessOK ==
    ASSUME IInv, Start \/ Stop
    PROVE  IInv'
<1>1. CASE Start
    <2>1. ~ gateway.up /\ gateway'.up
        BY <1>1, ReloadFacts DEF Start, StartUp, IInv, ReloadInv, ReloadShape
    <2>2. ReloadInv'
        BY <1>1, StartUpOK DEF IInv, Start
    <2>3. CtlInv'
        BY <1>1, <2>1, LoadKeysOK DEF IInv, Start
    <2>4. QED
        BY <1>1, <2>2, <2>3 DEF IInv, Start
<1>2. CASE Stop
    <2>1. ~ gateway'.up
        BY <1>2 DEF Stop, Crash, Down
    <2>2. ReloadInv'
        BY <1>2, CrashOK DEF IInv, Stop
    <2>3. CtlInv'
        BY <1>2, <2>1, LoseKeysOK DEF IInv, Stop
    <2>4. QED
        BY <1>2, <2>2, <2>3, EventOK DEF IInv, Stop
<1>3. QED
    BY <1>1, <1>2

(* Files, bundles and reloads leave the keys alone. *)
LEMMA ReloadsOK ==
    ASSUME IInv, World \/ Proceed
    PROVE  IInv'
<1>1. UNCHANGED ctlVars
    BY DEF World, Proceed
<1>2. events' \in 0..MaxEvents
    BY EventOK DEF World, Proceed, IInv
<1>3. ReloadInv' /\ gateway'.up = gateway.up /\ gateway'.base = gateway.base
    <2>1. CASE (\E file \in Files : Edit(file)) \/ (\E material \in Materials : Rotate(material)) \/ Publish
        BY <2>1, WorldOK DEF IInv, Edit, Rotate, Publish
    <2>2. ASSUME NEW r \in {"sighup", "admin"}, Begin(r)
          PROVE  ReloadInv' /\ gateway' = gateway
        <3>1. ReloadInv'
            BY <2>2, BeginOK DEF IInv
        <3>2. QED
            BY <2>2, <3>1 DEF Begin
    <2>3. CASE Poll
        <3>1. ReloadInv'
            BY <2>3, PollOK DEF IInv
        <3>2. QED
            BY <2>3, <3>1 DEF Poll
    <2>4. ASSUME NEW r \in Reloaders, ReadMaterial(r)
          PROVE  ReloadInv' /\ gateway' = gateway
        <3>1. ReloadInv'
            BY <2>4, ReadMaterialOK DEF IInv
        <3>2. QED
            BY <2>4, <3>1 DEF ReadMaterial
    <2>5. ASSUME NEW r \in Reloaders, SwapMaterial(r)
          PROVE  ReloadInv' /\ gateway'.up = gateway.up /\ gateway'.base = gateway.base
        <3>1. ReloadInv'
            BY <2>5, SwapMaterialOK DEF IInv
        <3>2. QED
            BY <2>5, <3>1 DEF SwapMaterial, IInv, ReloadInv, ReloadShape
    <2>6. ASSUME NEW r \in Reloaders, Store(r)
          PROVE  ReloadInv' /\ gateway'.up = gateway.up /\ gateway'.base = gateway.base
        <3>1. ReloadInv'
            BY <2>6, StoreOK DEF IInv
        <3>2. QED
            BY <2>6, <3>1 DEF Store, IInv, ReloadInv, ReloadShape
    <2>7. QED
        BY <2>1, <2>2, <2>3, <2>4, <2>5, <2>6 DEF World, Proceed
<1>4. CtlInv'
    BY <1>1, <1>3, CtlUnchanged DEF IInv
<1>5. QED
    BY <1>2, <1>3, <1>4 DEF IInv

(* Commands and their handlers leave the reloads alone. *)
LEMMA CommandsOK ==
    ASSUME IInv, Command \/ Serve
    PROVE  IInv'
<1>1. UNCHANGED reloadVars /\ gateway' = gateway
    BY DEF Command, Serve, reloadVars
<1>2. events' \in 0..MaxEvents
    BY EventOK DEF Command, Serve, IInv
<1>3. ReloadInv'
    BY <1>1, ReloadUnchanged DEF IInv
<1>4. CtlInv'
    <2>1. ASSUME NEW o \in Operators, NEW token \in BOOLEAN,
                 \/ \E expires_at \in Expiries : key_create_online(o, expires_at, token)
                 \/ \E id \in KeyIds : key_revoke(o, id, token)
          PROVE  CtlInv'
        BY <1>1, <2>1, CommandOK DEF IInv
    <2>2. ASSUME NEW expires_at \in Expiries, key_create_offline(expires_at)
          PROVE  CtlInv'
        BY <1>1, <2>2, CreateOfflineOK DEF IInv
    <2>3. ASSUME NEW o \in Operators, create_key(o)
          PROVE  CtlInv'
        BY <1>1, <2>3, CreateKeyOK DEF IInv
    <2>4. ASSUME NEW o \in Operators, delete_key(o)
          PROVE  CtlInv'
        BY <1>1, <2>4, DeleteKeyOK DEF IInv
    <2>5. ASSUME NEW o \in Operators, Audit(o)
          PROVE  CtlInv'
        BY <1>1, <2>5, AuditOK DEF IInv
    <2>6. ASSUME NEW o \in Operators, require_admin_token(o)
          PROVE  CtlInv'
        BY <1>1, <2>6, RefusedTokenOK DEF IInv
    <2>7. ASSUME NEW o \in Operators,
                 AdminClient_create_key(o) \/ AdminClient_revoke_key(o) \/ Lose(o)
          PROVE  CtlInv'
        BY <1>1, <2>7, OverOK DEF IInv
    <2>8. CASE PullKeys
        BY <1>1, <2>8, PullKeysOK DEF IInv
    <2>9. QED
        BY <2>1, <2>2, <2>3, <2>4, <2>5, <2>6, <2>7, <2>8 DEF Command, Serve
<1>5. QED
    BY <1>2, <1>3, <1>4 DEF IInv

LEMMA StutterOK ==
    ASSUME IInv, UNCHANGED vars
    PROVE  IInv'
<1>1. UNCHANGED reloadVars /\ UNCHANGED ctlVars /\ events' = events /\ gateway' = gateway
    BY DEF vars, reloadVars
<1>2. ReloadInv'
    BY <1>1, ReloadUnchanged DEF IInv
<1>3. CtlInv'
    BY <1>1, CtlUnchanged DEF IInv
<1>4. QED
    BY <1>1, <1>2, <1>3 DEF IInv

(* A gateway in operation, reloaded and managed by whatever operators at   *)
(* once, keeps the inductive invariant.                                    *)
THEOREM InductiveInvariant == Spec => []IInv
<1>1. Init => IInv
    BY ReloadInitOK, CtlInitOK, OperationsAssumption DEF Init, IInv
<1>2. IInv /\ [Next]_vars => IInv'
    BY ProcessOK, ReloadsOK, CommandsOK, StutterOK DEF Next
<1>3. QED
    BY <1>1, <1>2, PTL DEF Spec

(* The state of the gateway, of its reloads and of its operators has its   *)
(* type: a gateway that is up has a runtime, and every key in the store is *)
(* one that was generated or distributed.                                  *)
THEOREM TypeCorrect == Spec => []TypeOK
<1>1. IInv => TypeOK
    BY DEF IInv, ReloadInv, CtlInv, TypeOK
<1>2. QED
    BY <1>1, InductiveInvariant, PTL

(* runtime::reload on SIGHUP and from the admin API, whatever interleaves  *)
(* with it: one that ends with an error has left the runtime and the TLS   *)
(* material as they were.                                                  *)
THEOREM FailureKeepsOld == Spec => []FailedReloadKeepsOld
<1>1. IInv => FailedReloadKeepsOld
    BY DEF IInv, ReloadInv, SettledInv
<1>2. QED
    BY <1>1, InductiveInvariant, PTL

(* A reload that nothing disturbed leaves the gateway with the runtime and *)
(* the TLS material that a start from the same files would build.          *)
THEOREM ReloadLikeRestart == Spec => []ReloadIsLikeARestart
<1>1. IInv => ReloadIsLikeARestart
    BY DEF IInv, ReloadInv, SettledInv
<1>2. QED
    BY <1>1, InductiveInvariant, PTL

(* A bundle that poll_config applies has the effect of a local file of the *)
(* same content: map_model, map_plugin and overlaid_with lose and add      *)
(* nothing.                                                                *)
THEOREM BundleLikeAFile == Spec => []BundleIsLikeAFile
<1>1. IInv => BundleIsLikeAFile
    BY BundleOK DEF IInv
<1>2. QED
    BY <1>1, InductiveInvariant, PTL

(* What AdminClient::create_key and revoke_key tell an operator stays true *)
(* until the gateway stops, for any number of operators and of lost        *)
(* requests and answers.                                                   *)
THEOREM OperatorsKnow == Spec => []OperatorsKnowTheKeys
<1>1. IInv => OperatorsKnowTheKeys
    <2> SUFFICES ASSUME IInv, gateway.up, ~ ApiMode
                 PROVE  /\ told.issued \ told.tried \subseteq Ids(keys)
                        /\ told.revoked \cap Ids(keys) = {}
        BY DEF OperatorsKnowTheKeys
    <2>1. KnownInv
        BY DEF IInv, CtlInv
    <2>2. told.issued \subseteq KeyIds /\ told.revoked \subseteq KeyIds
        BY DEF IInv, CtlInv, CtlTypeOK
    <2>3. told.issued \subseteq Born /\ told.revoked \subseteq Gone
        BY <2>2 DEF Born, Gone
    <2>4. QED
        BY <2>1, <2>3 DEF KnownInv
<1>2. QED
    BY <1>1, InductiveInvariant, PTL

(* The audit events of create_key and delete_key account for the keys of   *)
(* the store whenever no handler is between its change and its event.      *)
THEOREM AuditTells == Spec => []AuditTellsTheKeys
<1>1. IInv => AuditTellsTheKeys
    <2> SUFFICES ASSUME IInv, gateway.up, ~ ApiMode, \A o \in Operators : calls[o].pc # "handled"
                 PROVE  /\ \A id \in KeyIds : trail.revoked[id] <= 1
                        /\ Ids(keys) = {id \in trail.start \cup trail.created : trail.revoked[id] = 0}
        BY DEF AuditTellsTheKeys
    <2>1. TrailInv
        BY DEF IInv, CtlInv
    <2>2. Added = {} /\ Removed = {}
        BY DEF Added, Removed, Unrecorded
    <2>3. QED
        BY <2>1, <2>2 DEF TrailInv
<1>2. QED
    BY <1>1, InductiveInvariant, PTL
=============================================================================
