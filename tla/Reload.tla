------------------------------- MODULE Reload -------------------------------
(***************************************************************************)
(* How a running gateway gets its runtime and its TLS material: at the     *)
(* start from the configuration file, then by reloads, on SIGHUP and by    *)
(* the admin API (runtime.rs, tls.rs, main.rs, admin.rs), and from the     *)
(* Control Node's bundles (control_plane/client.rs).  They run on          *)
(* different threads and share nothing but the handles they store into.    *)
(*                                                                         *)
(* A reload reads the configuration and builds a runtime, then reads the   *)
(* TLS files, swaps the material, and stores the runtime; files change     *)
(* under it.  The gateway may stop and start again.                        *)
(***************************************************************************)
EXTENDS Config

CONSTANTS
    Files,          \* contents of the configuration file
    Materials,      \* certificate, key and CA files: [id, server, ca], the last two
                    \* say whether they parse
    Bundles         \* what the Control Node distributes, by version

ASSUME ReloadAssumption ==
    /\ Len(Bundles) \in Nat
    /\ \A i \in 1..Len(Bundles) : IsBundle(Bundles[i])

Reloaders == {"sighup", "admin", "poll"}

VARIABLES
    disk,       \* the files: configuration and TLS material
    version,    \* the Control Node's current version of the configuration
    gateway,    \* the process: is it up, was it started with --config, its
                \* configuration at the start, ETag, live runtime and material
    jobs,       \* reloads in progress
    \* History, read by properties only:
    settled     \* what the last reload came to, if it was alone and nothing has
                \* changed since it began

reloadVars == <<disk, version, gateway, jobs, settled>>

NoJob == [pc |-> "idle", alone |-> FALSE, before |-> None, runtime |-> None, tls |-> None,
          material |-> None, version |-> 0]

Unsettled == [kind |-> "none", before |-> None]

Down(config_path) ==
    [up |-> FALSE, config_path |-> config_path, base |-> None, etag |-> 0, runtime |-> None,
     tls |-> None]

(* TLS files: the server's are always read, the CA's for mutual TLS. *)
Readable(material, tls) == material.server /\ (tls = "mtls" => material.ca)

Material(material, tls) == [material |-> material, mtls |-> tls = "mtls"]

(* What a listener may serve with: files that parse, the CA's too where it *)
(* asks for client certificates.                                           *)
Parsed == {t \in [material : Materials, mtls : BOOLEAN] :
              t.material.server /\ (t.mtls => t.material.ca)}

(* Also: the listener never has material that does not parse, and a        *)
(* gateway that is up has a runtime.                                       *)
ReloadTypeOK ==
    /\ disk.file \in Files /\ disk.material \in Materials
    /\ version \in 0..Len(Bundles)
    /\ gateway.up \in BOOLEAN /\ gateway.etag \in 0..Len(Bundles)
    /\ gateway.up => gateway.runtime # None
    /\ gateway.tls \in Parsed \cup {None}
    /\ \A r \in Reloaders : jobs[r].pc \in {"idle", "read", "swap", "store"}
    /\ settled.kind \in {"none", "failed", "file", "bundle"}

ReloadInit ==
    /\ disk \in [file : Files, material : Materials]
    /\ version = 0
    /\ \E config_path \in BOOLEAN : gateway = Down(config_path)
    /\ jobs = [r \in Reloaders |-> NoJob]
    /\ settled = Unsettled
-----------------------------------------------------------------------------
File == IF gateway.config_path THEN disk.file ELSE <<>>

(* control_plane::start: the mode is the one of the start. *)
ApiMode == gateway.up /\ gateway.base["control_plane.mode"] = "api"

Idle(r) == jobs[r].pc = "idle"

Live == <<gateway.runtime, gateway.tls>>

(* Something changed: no reload in progress can be said to be alone. *)
Disturbed == [r \in Reloaders |-> [jobs[r] EXCEPT !.alone = FALSE]]

(* A job begins: it is alone if it is the only one. *)
Began(r, pc, runtime, tls, v) ==
    [Disturbed EXCEPT ![r] = [pc |-> pc, alone |-> \A q \in Reloaders \ {r} : Idle(q), before |-> Live,
                              runtime |-> runtime, tls |-> tls, material |-> None, version |-> v]]

(* No runtime can be built: the job ends as it begins. *)
Refused ==
    /\ jobs' = Disturbed
    /\ settled' = IF \A q \in Reloaders : Idle(q) THEN [kind |-> "failed", before |-> Live]
                  ELSE Unsettled

Ends(r, kind) ==
    /\ jobs' = [jobs EXCEPT ![r] = NoJob]
    /\ settled' = IF jobs[r].alone THEN [kind |-> kind, before |-> jobs[r].before] ELSE Unsettled
-----------------------------------------------------------------------------
(***************************************************************************)
(* The process.                                                            *)
(***************************************************************************)

(* run: nothing is up if anything fails, which what depends on the world   *)
(* (see Begin) may do at any time.                                         *)
StartUp ==
    LET config  == load(File)
        runtime == build_runtime(config)
        tls     == IF config = None THEN None ELSE config["listen.tls"]
    IN  /\ ~ gateway.up
        /\ runtime # None
        /\ tls # None => Readable(disk.material, tls)
        /\ gateway' = [gateway EXCEPT !.up = TRUE, !.base = config, !.etag = 0,
                          !.runtime = runtime,
                          !.tls = IF tls = None THEN None ELSE Material(disk.material, tls)]
        /\ UNCHANGED <<disk, version, jobs, settled>>

Crash ==
    /\ gateway.up
    /\ gateway' = Down(gateway.config_path)
    /\ jobs' = [r \in Reloaders |-> NoJob]
    /\ settled' = Unsettled
    /\ UNCHANGED <<disk, version>>
-----------------------------------------------------------------------------
(***************************************************************************)
(* runtime::reload, by the SIGHUP task and by admin requests; of the       *)
(* latter, one at a time here.                                             *)
(***************************************************************************)

(* The TLS files are read if the listener has TLS and the file still does. *)
FirstStep(config) ==
    IF gateway.tls # None /\ config["listen.tls"] # None THEN "read" ELSE "store"

(* Mutant: the runtime is stored before the TLS files are read. *)
Begin_stores(r) ==
    LET config  == load(File)
        runtime == build_runtime(config)
    IN  /\ gateway.up /\ Idle(r)
        /\ r = "admin" => gateway.config_path
        /\ runtime # None
        /\ jobs' = Began(r, FirstStep(config), runtime, config["listen.tls"], 0)
        /\ settled' = Unsettled
        /\ gateway' = [gateway EXCEPT !.runtime = runtime]
        /\ UNCHANGED <<disk, version>>

(* Config::load and build_runtime.  Without --config, the admin API has    *)
(* nothing to reload from; SIGHUP loads the defaults.  A configuration     *)
(* that can be built may still not be: a plugin is downloaded, and HTTP    *)
(* clients are set up.                                                     *)
Begin(r) ==
    LET config  == load(File)
        runtime == build_runtime(config)
    IN  /\ gateway.up /\ Idle(r)
        /\ r = "admin" => gateway.config_path
        /\ \/ Refused
           \/ /\ runtime # None
              /\ jobs' = Began(r, FirstStep(config), runtime, config["listen.tls"], 0)
              /\ settled' = Unsettled
        /\ UNCHANGED <<disk, version, gateway>>

(* Mutant: a CA file without a certificate is as good as any. *)
ReadMaterial_any_ca(r) ==
    /\ jobs[r].pc = "read"
    /\ IF disk.material.server
       THEN /\ jobs' = [jobs EXCEPT ![r].pc = "swap", ![r].material = disk.material]
            /\ UNCHANGED settled
       ELSE Ends(r, "failed")
    /\ UNCHANGED <<disk, version, gateway>>

(* reload_certs: all files are parsed before the swap. *)
ReadMaterial(r) ==
    /\ jobs[r].pc = "read"
    /\ IF Readable(disk.material, jobs[r].tls)
       THEN /\ jobs' = [jobs EXCEPT ![r].pc = "swap", ![r].material = disk.material]
            /\ UNCHANGED settled
       ELSE Ends(r, "failed")
    /\ UNCHANGED <<disk, version, gateway>>

(* Mutant: a new certificate, and the old verifier. *)
SwapMaterial_only(r) ==
    /\ jobs[r].pc = "swap"
    /\ gateway' = [gateway EXCEPT !.tls.material = jobs[r].material]
    /\ jobs' = [jobs EXCEPT ![r].pc = "store"]
    /\ UNCHANGED <<disk, version, settled>>

SwapMaterial(r) ==
    /\ jobs[r].pc = "swap"
    /\ gateway' = [gateway EXCEPT !.tls = Material(jobs[r].material, jobs[r].tls)]
    /\ jobs' = [jobs EXCEPT ![r].pc = "store"]
    /\ UNCHANGED <<disk, version, settled>>

Store(r) ==
    /\ jobs[r].pc = "store"
    /\ gateway' = [gateway EXCEPT !.runtime = jobs[r].runtime,
                                  !.etag = IF r = "poll" THEN jobs[r].version ELSE @]
    /\ Ends(r, IF r = "poll" THEN "bundle" ELSE "file")
    /\ UNCHANGED <<disk, version>>
-----------------------------------------------------------------------------
(***************************************************************************)
(* ControlNodeClient::poll_config.                                         *)
(***************************************************************************)
Poll ==
    LET runtime == build_runtime(apply_config(gateway.base, Bundles[version]))
    IN  /\ ApiMode /\ Idle("poll")
        /\ version # gateway.etag
        /\ \/ Refused
           \/ /\ runtime # None
              /\ jobs' = Began("poll", "store", runtime, None, version)
              /\ settled' = Unsettled
        /\ UNCHANGED <<disk, version, gateway>>
-----------------------------------------------------------------------------
(***************************************************************************)
(* Files and bundles change.                                               *)
(***************************************************************************)
Edit(file) ==
    /\ file # disk.file
    /\ disk' = [disk EXCEPT !.file = file]
    /\ jobs' = Disturbed
    /\ settled' = Unsettled
    /\ UNCHANGED <<version, gateway>>

Rotate(material) ==
    /\ material # disk.material
    /\ disk' = [disk EXCEPT !.material = material]
    /\ jobs' = Disturbed
    /\ settled' = Unsettled
    /\ UNCHANGED <<version, gateway>>

Publish ==
    /\ version < Len(Bundles)
    /\ version' = version + 1
    /\ jobs' = Disturbed
    /\ settled' = Unsettled
    /\ UNCHANGED <<disk, gateway>>
-----------------------------------------------------------------------------
(***************************************************************************)
(* Properties.                                                             *)
(***************************************************************************)

(* A reload that ends with an error has changed nothing, neither the       *)
(* runtime nor the TLS material, wherever it failed: "On any failure the   *)
(* old runtime and the old TLS material both stay in place".               *)
FailedReloadKeepsOld == settled.kind = "failed" => Live = settled.before

(* A reload that was alone, and whose files have not changed since it      *)
(* began, leaves the gateway as a start from these files would: the same   *)
(* runtime, the same material and the same mutual TLS, if the listener has *)
(* TLS and the file still does.                                            *)
ReloadIsLikeARestart ==
    settled.kind = "file" =>
        LET config == load(File)
        IN  /\ gateway.runtime = build_runtime(config)
            /\ gateway.tls # None /\ config["listen.tls"] # None =>
                  gateway.tls = Material(disk.material, config["listen.tls"])

(* A bundle that is applied has the effect of a local file with the same   *)
(* content, what it leaves out included, and nothing of an older bundle or *)
(* of a later local file is left.                                          *)
BundleIsLikeAFile ==
    settled.kind = "bundle" =>
        LET bundle == Bundles[version]
            prices == IF bundle.pricing = None
                      THEN Restrict(gateway.base, PriceSettings \cap DOMAIN gateway.base)
                      ELSE bundle.pricing
            other  == Restrict(gateway.base, DOMAIN gateway.base \ PriceSettings)
            lists  == "models" :> Each(ModelOfFile, bundle.models)
                      @@ "plugins" :> Each(PluginOfFile, bundle.plugins)
        IN  gateway.runtime =
                build_runtime(Over(lists, Over(bundle.settings, Over(prices, other))))

(***************************************************************************)
(* The inductive invariant: what holds of a reload that is alone while it  *)
(* is under way, and that nothing moves what has settled.                  *)
(***************************************************************************)
ReloadShape ==
    /\ DOMAIN gateway = {"up", "config_path", "base", "etag", "runtime", "tls"}
    /\ DOMAIN disk = {"file", "material"}
    /\ DOMAIN jobs = Reloaders
    /\ \A r \in Reloaders :
          /\ DOMAIN jobs[r] = {"pc", "alone", "before", "runtime", "tls", "material", "version"}
          /\ jobs[r].alone \in BOOLEAN

JobInv(r) ==
    /\ jobs[r].pc \in {"read", "swap"} => r # "poll"
    /\ ~ Idle(r) => gateway.up /\ jobs[r].runtime # None
    /\ jobs[r].pc = "swap" => Material(jobs[r].material, jobs[r].tls) \in Parsed
    /\ jobs[r].alone => \A q \in Reloaders \ {r} : Idle(q)
    /\ jobs[r].version \in 0..version

(* The reload of a file: what it has read is what the files hold, and a    *)
(* failure would leave what was there before.                              *)
FileInv(r) ==
    jobs[r].alone /\ ~ Idle(r) =>
        /\ jobs[r].runtime = build_runtime(load(File))
        /\ jobs[r].tls = load(File)["listen.tls"]
        /\ jobs[r].pc = "read" => jobs[r].before = Live
        /\ jobs[r].pc = "swap" => jobs[r].material = disk.material
        /\ jobs[r].pc = "store" /\ gateway.tls # None /\ jobs[r].tls # None =>
              gateway.tls = Material(disk.material, jobs[r].tls)

(* The application of a bundle. *)
PollInv ==
    ~ Idle("poll") =>
        /\ jobs["poll"].version >= 1
        /\ jobs["poll"].alone => jobs["poll"].version = version
        /\ jobs["poll"].runtime =
              build_runtime(apply_config(gateway.base, Bundles[jobs["poll"].version]))

SettledInv ==
    /\ settled.kind # "none" => gateway.up /\ \A r \in Reloaders : Idle(r)
    /\ FailedReloadKeepsOld /\ ReloadIsLikeARestart
    /\ settled.kind = "bundle" =>
          /\ version >= 1
          /\ gateway.runtime = build_runtime(apply_config(gateway.base, Bundles[version]))

ReloadInv ==
    /\ ReloadTypeOK /\ ReloadShape
    /\ gateway.etag <= version
    /\ \A r \in Reloaders : JobInv(r)
    /\ \A r \in {"sighup", "admin"} : FileInv(r)
    /\ PollInv
    /\ SettledInv
=============================================================================
