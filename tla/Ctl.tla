-------------------------------- MODULE Ctl --------------------------------
(***************************************************************************)
(* Operators who issue, list and revoke virtual keys with vaultplane-ctl   *)
(* (vaultplane-ctl/src/main.rs) through the admin API (admin.rs), and a    *)
(* network that loses requests and answers.  A handler changes the key     *)
(* store, then records an audit event and answers; handlers of different   *)
(* requests interleave between the two.                                    *)
(*                                                                         *)
(* Data abstraction: of a key, its id (which stands for its token and its  *)
(* hash, derived from the same random bytes) and its expiry; the other     *)
(* attributes travel together and no property tells them apart.  The rate  *)
(* and spend state that delete_key clears is in Admission and Proxy.       *)
(***************************************************************************)
EXTENDS Reload, FiniteSets

CONSTANTS
    Operators,
    KeyIds,         \* what generate_key may return: each value once
    Expiries,       \* arguments of --expires-at, None included
    Distributed     \* the Control Node's keys

KeyStore == INSTANCE Auth WITH Unparseable <- Malformed, TicksPerSecond <- 1

ASSUME CtlAssumption ==
    /\ None \notin Nat /\ None \notin {"create", "revoke"}
    /\ KeyStore!IsKeyStore(Distributed)

VARIABLES
    keys,       \* the key store
    listed,     \* auth.keys in the configuration file
    calls,      \* the command each operator has under way
    \* History, read by properties only:
    asked,      \* the expiry asked for, of the keys generated so far
    trail,      \* what the audit events since the start say
    told        \* what operators know since the start: keys they were told are
                \* issued, those they were told are gone, those they tried to revoke

ctlVars == <<keys, listed, calls, asked, trail, told>>

NoCall == [pc |-> "idle", kind |-> None, id |-> None, expires_at |-> None, token |-> FALSE,
           found |-> FALSE, answer |-> None]

Call == [pc : {"idle", "sent", "handled", "answered"}, kind : {None, "create", "revoke"},
         id : KeyIds \cup {None}, expires_at : Expiries \cup {None}, token : BOOLEAN,
         found : BOOLEAN, answer : {None, 201, 204, 401, 404}]

Ids(store) == {k.id : k \in store}
Key(id, expires_at) == [id |-> id, hash |-> id, expires_at |-> expires_at]

Untold == [issued |-> {}, revoked |-> {}, tried |-> {}]

(* The audit log of a gateway that starts with the keys in store. *)
Trail(store) == [start |-> Ids(store), created |-> {}, revoked |-> [id \in KeyIds |-> 0]]

CtlTypeOK ==
    /\ KeyStore!IsKeyStore(keys) /\ Ids(keys) \subseteq KeyIds \cup Ids(Distributed)
    /\ Ids(listed) \subseteq DOMAIN asked /\ DOMAIN asked \subseteq KeyIds
    /\ calls \in [Operators -> Call]
    /\ \A o \in Operators : calls[o].pc = "answered" <=> calls[o].answer # None
    /\ trail \in [start : SUBSET KeyIds, created : SUBSET KeyIds, revoked : [KeyIds -> Nat]]
    /\ told \in [issued : SUBSET DOMAIN asked, revoked : SUBSET DOMAIN asked,
                 tried : SUBSET DOMAIN asked]

CtlInit ==
    /\ keys = {} /\ listed = {}
    /\ calls = [o \in Operators |-> NoCall]
    /\ asked = <<>>
    /\ trail = Trail({}) /\ told = Untold
-----------------------------------------------------------------------------
(***************************************************************************)
(* The admin API.                                                          *)
(***************************************************************************)
Fresh == KeyIds \ DOMAIN asked

(* A fresh id is as good as any other. *)
generate_key == CHOOSE id \in Fresh : TRUE

Asked(expires_at) == Over([id \in {generate_key} |-> expires_at], asked)

(* A request reaches the gateway; require_admin_token lets it pass. *)
Serving(o, kind) ==
    gateway.up /\ calls[o].pc = "sent" /\ calls[o].kind = kind /\ calls[o].token

Handled(o, id, found) == [calls EXCEPT ![o].pc = "handled", ![o].id = id, ![o].found = found]

create_key(o) ==
    /\ Serving(o, "create") /\ Fresh # {}
    /\ keys' = KeyStore!insert(keys, Key(generate_key, calls[o].expires_at))
    /\ asked' = Asked(calls[o].expires_at)
    /\ calls' = Handled(o, generate_key, TRUE)
    /\ UNCHANGED <<listed, trail, told>>

(* KeyStore::remove_by_id; ids are unique, as generate_key's are. *)
delete_key(o) ==
    LET id == calls[o].id
    IN  /\ Serving(o, "revoke")
        /\ keys' = {k \in keys : k.id # id}
        /\ calls' = Handled(o, id, id \in Ids(keys))
        /\ UNCHANGED <<listed, asked, trail, told>>

(* Mutant: every revocation is recorded as one that found its key. *)
Audit_always_found(o) ==
    LET call == calls[o]
    IN  /\ gateway.up /\ call.pc = "handled"
        /\ trail' = IF call.kind = "create" THEN [trail EXCEPT !.created = @ \cup {call.id}]
                    ELSE [trail EXCEPT !.revoked[call.id] = @ + 1]
        /\ calls' = [calls EXCEPT ![o].pc = "answered", ![o].answer =
                        IF call.kind = "create" THEN 201 ELSE IF call.found THEN 204 ELSE 404]
        /\ UNCHANGED <<keys, listed, asked, told>>

(* The end of create_key and of delete_key: the audit event, the answer. *)
Audit(o) ==
    LET call == calls[o]
    IN  /\ gateway.up /\ call.pc = "handled"
        /\ trail' = IF call.kind = "create" THEN [trail EXCEPT !.created = @ \cup {call.id}]
                    ELSE IF call.found THEN [trail EXCEPT !.revoked[call.id] = @ + 1] ELSE trail
        /\ calls' = [calls EXCEPT ![o].pc = "answered", ![o].answer =
                        IF call.kind = "create" THEN 201 ELSE IF call.found THEN 204 ELSE 404]
        /\ UNCHANGED <<keys, listed, asked, told>>

require_admin_token(o) ==
    /\ gateway.up /\ calls[o].pc = "sent" /\ ~ calls[o].token
    /\ calls' = [calls EXCEPT ![o].pc = "answered", ![o].answer = 401]
    /\ UNCHANGED <<keys, listed, asked, trail, told>>
-----------------------------------------------------------------------------
(***************************************************************************)
(* vaultplane-ctl.                                                         *)
(***************************************************************************)

(* A command calls the admin API, with or without its token. *)
Sent(o, kind, id, expires_at, token) ==
    /\ calls[o].pc = "idle"
    /\ calls' = [calls EXCEPT ![o] =
                    [pc |-> "sent", kind |-> kind, id |-> id, expires_at |-> expires_at,
                     token |-> token, found |-> FALSE, answer |-> None]]

(* key create --endpoint *)
key_create_online(o, expires_at, token) ==
    /\ Sent(o, "create", None, expires_at, token)
    /\ UNCHANGED <<keys, listed, asked, trail, told>>

(* key revoke: an operator has the id from key create or key list. *)
key_revoke(o, id, token) ==
    /\ id \in DOMAIN asked
    /\ Sent(o, "revoke", id, None, token)
    /\ told' = [told EXCEPT !.tried = @ \cup {id}]
    /\ UNCHANGED <<keys, listed, asked, trail>>

(* AdminClient::create_key: the token is shown, or an error. *)
AdminClient_create_key(o) ==
    /\ calls[o].pc = "answered" /\ calls[o].kind = "create"
    /\ calls' = [calls EXCEPT ![o] = NoCall]
    /\ told' = IF calls[o].answer = 201 THEN [told EXCEPT !.issued = @ \cup {calls[o].id}] ELSE told
    /\ UNCHANGED <<keys, listed, asked, trail>>

(* Mutant: revoke_key takes every answer for a success. *)
AdminClient_revoke_key_any_status(o) ==
    /\ calls[o].pc = "answered" /\ calls[o].kind = "revoke"
    /\ calls' = [calls EXCEPT ![o] = NoCall]
    /\ told' = [told EXCEPT !.revoked = @ \cup {calls[o].id}]
    /\ UNCHANGED <<keys, listed, asked, trail>>

(* AdminClient::revoke_key: revoked, not there, or an error that says      *)
(* nothing of the key.                                                     *)
AdminClient_revoke_key(o) ==
    /\ calls[o].pc = "answered" /\ calls[o].kind = "revoke"
    /\ calls' = [calls EXCEPT ![o] = NoCall]
    /\ told' = IF calls[o].answer \in {204, 404}
               THEN [told EXCEPT !.revoked = @ \cup {calls[o].id}] ELSE told
    /\ UNCHANGED <<keys, listed, asked, trail>>

(* key create without --endpoint: the record it prints goes into the file. *)
(* It has no expires_at, whatever was asked.                               *)
key_create_offline(expires_at) ==
    /\ Fresh # {}
    /\ listed' = listed \cup {Key(generate_key, None)}
    /\ asked' = Asked(expires_at)
    /\ UNCHANGED <<keys, calls, trail, told>>
-----------------------------------------------------------------------------
(***************************************************************************)
(* The rest of the world.                                                  *)
(***************************************************************************)

(* A request or an answer is lost: the command fails.  A handler that has  *)
(* begun never awaits and so runs to its end.                              *)
Lose(o) ==
    /\ calls[o].pc \in {"sent", "answered"}
    /\ calls' = [calls EXCEPT ![o] = NoCall]
    /\ UNCHANGED <<keys, listed, asked, trail, told>>

(* The key store of a gateway that starts: the file's keys. *)
LoadKeys ==
    LET store == IF gateway.config_path THEN listed ELSE {}
    IN  /\ keys' = store /\ trail' = Trail(store) /\ told' = Untold
        /\ UNCHANGED <<listed, calls, asked>>

LoseKeys ==
    /\ keys' = {} /\ trail' = Trail({}) /\ told' = Untold
    /\ calls' = [o \in Operators |-> NoCall]
    /\ UNCHANGED <<listed, asked>>

(* poll_keys: replace_all. *)
PullKeys ==
    /\ ApiMode
    /\ keys' = Distributed
    /\ UNCHANGED <<listed, calls, asked, trail, told>>
-----------------------------------------------------------------------------
(***************************************************************************)
(* Properties, of a gateway whose keys no Control Node replaces.           *)
(***************************************************************************)

(* What an operator was told of a key stays true until the gateway stops,  *)
(* whatever other operators do and whatever is lost: an issued key that    *)
(* nobody tried to revoke is accepted, and a key that was reported revoked *)
(* or missing is not.                                                      *)
OperatorsKnowTheKeys ==
    gateway.up /\ ~ ApiMode =>
        /\ told.issued \ told.tried \subseteq Ids(keys)
        /\ told.revoked \cap Ids(keys) = {}

(* The audit log accounts for the key store: when no handler is between    *)
(* its change and its event, the keys of the start and those created, less *)
(* those revoked, are the keys there are; and no key is revoked twice.     *)
AuditTellsTheKeys ==
    gateway.up /\ ~ ApiMode /\ (\A o \in Operators : calls[o].pc # "handled") =>
        /\ \A id \in KeyIds : trail.revoked[id] <= 1
        /\ Ids(keys) = {id \in trail.start \cup trail.created : trail.revoked[id] = 0}

(***************************************************************************)
(* The inductive invariant: what the commands under way will tell, and     *)
(* what the handlers between their change and their event will record.     *)
(***************************************************************************)
Creating(o) == calls[o].kind = "create" /\ (calls[o].pc = "handled" \/ calls[o].answer = 201)
Revoking(o) == calls[o].kind = "revoke" /\ calls[o].pc # "idle"
Revoked(o)  == Revoking(o) /\ (calls[o].pc = "handled" \/ calls[o].answer \in {204, 404})

(* Keys issued since the start, and keys that operators know, or are about *)
(* to be told, are gone.                                                   *)
Born == {id \in KeyIds : id \in told.issued \/ \E o \in Operators : Creating(o) /\ calls[o].id = id}
Gone == {id \in KeyIds : id \in told.revoked \/ \E o \in Operators : Revoked(o) /\ calls[o].id = id}

(* Changes of the key store that have no audit event yet. *)
Unrecorded(o, kind) == calls[o].kind = kind /\ calls[o].pc = "handled" /\ calls[o].found
Added   == {id \in KeyIds : \E o \in Operators : Unrecorded(o, "create") /\ calls[o].id = id}
Removed == {id \in KeyIds : \E o \in Operators : Unrecorded(o, "revoke") /\ calls[o].id = id}

CallInv(o) ==
    /\ calls[o].pc # "idle" => calls[o].kind # None
    /\ Creating(o) \/ Revoking(o) => calls[o].id \in DOMAIN asked
    /\ Creating(o) /\ calls[o].pc = "handled" => calls[o].found
    /\ calls[o].pc = "sent" => ~ calls[o].found
    /\ Revoking(o) /\ calls[o].id \in Born => calls[o].id \in told.tried
    /\ calls[o].pc = "handled" => gateway.up

KnownInv ==
    /\ Ids(keys) \subseteq DOMAIN asked
    /\ \A k \in keys : k.hash = k.id
    /\ Born \ told.tried \subseteq Ids(keys)
    /\ Gone \cap Ids(keys) = {}

TrailInv ==
    /\ trail.start \cup trail.created \subseteq DOMAIN asked
    /\ \A id \in KeyIds : trail.revoked[id] <= 1
    /\ \A id \in KeyIds \ DOMAIN asked : trail.revoked[id] = 0
    /\ \A id \in Removed : trail.revoked[id] = 0
    /\ \A o, p \in Operators :
          Unrecorded(o, "revoke") /\ Unrecorded(p, "revoke") /\ calls[o].id = calls[p].id => o = p
    /\ Ids(keys) = {id \in (trail.start \cup trail.created \cup Added) \ Removed :
                      trail.revoked[id] = 0}

CtlInv ==
    /\ CtlTypeOK
    /\ \A k \in listed : k.hash = k.id
    /\ KeyStore!IsKeyStore(listed)
    /\ \A o \in Operators : CallInv(o)
    /\ ~ gateway.up => Born = {} /\ Gone = {}
    /\ gateway.up /\ ~ ApiMode => KnownInv /\ TrailInv

(* A key expires when the operator who created it asked ("Reject the key   *)
(* after this instant").  Does not hold of keys created offline.           *)
KeysExpireAsAsked ==
    \A k \in keys : k.id \in DOMAIN asked => k.expires_at = asked[k.id]
=============================================================================
