----------------------------- MODULE AuthWrappers -----------------------------
(***************************************************************************)
(* The authorizing wrappers of label/middleware_auth.go (AuthedLabelService), *)
(* authorizer/secret.go (SecretService) and authorizer/backup.go            *)
(* (BackupService) in front of the services they delegate to.  Each call  *)
(* is made by a caller with one permission set (Contexts); a call runs its *)
(* checks and, if they pass, the delegated call, in one step: the wrappers *)
(* hold no state of their own, and the delegated services are the state   *)
(* (labels, mappings, secrets, backups).                                   *)
(*                                                                         *)
(* The permission checks live in package authorizer (authorize.go) and    *)
(* influxdb.Permission.Matches, outside this repository: a permission     *)
(* [action, type, org, id] grants a request of the same action and type   *)
(* when its org and id are Any or equal to the request's.  A request      *)
(* without an id (create, org-wide) is met only by a permission with id   *)
(* Any.                                                                    *)
(***************************************************************************)
EXTENDS Integers, FiniteSets

CONSTANTS
    Orgs, LabelIDs, Names, Keys,
    Resources,      \* [type, id, org] of the resources labels are put on
    BadTypes,       \* resource types ResourceType.Valid refuses
    UnknownIDs,     \* resource ids the org resolver does not find
    Contexts,       \* name -> the permission set of a caller
    Any,            \* an unset org or id in a permission
    NoID            \* the id of a request about no single resource

VARIABLES
    labels,         \* the label service's labels [id, org, name]
    mappings,       \* its label mappings [label, rtype, rid]
    secrets,        \* org -> the keys the secret service holds
    backups,        \* contexts that took a backup (BackupKVStore, BackupShard)
    ret             \* the last call: [op, ctx, err, val]

vars == <<labels, mappings, secrets, backups, ret>>

\* Permission.Matches for one permission and one request.
Matches(p, action, type, id, org) ==
    /\ p.action = action /\ p.type = type
    /\ p.org \in {Any, org}
    /\ p.id \in {Any, id}

Allowed(ctx, action, type, id, org) == \E p \in Contexts[ctx] : Matches(p, action, type, id, org)

\* authorizer.AuthorizeRead / AuthorizeWrite: the resource with its id.
AuthorizeRead(ctx, type, id, org) == Allowed(ctx, "read", type, id, org)
AuthorizeWrite(ctx, type, id, org) == Allowed(ctx, "write", type, id, org)
\* AuthorizeCreate and AuthorizeOrgWriteResource: every resource of the
\* type in the org; AuthorizeOrgReadResource the same for read.
AuthorizeCreate(ctx, type, org) == Allowed(ctx, "write", type, NoID, org)
AuthorizeOrgWriteResource(ctx, type, org) == Allowed(ctx, "write", type, NoID, org)
AuthorizeOrgReadResource(ctx, type, org) == Allowed(ctx, "read", type, NoID, org)
\* AuthorizeFindLabels: the labels the caller may read.
AuthorizeFindLabels(ctx, ls) == {l \in ls : AuthorizeRead(ctx, "labels", l.id, l.org)}
\* IsAllowedAll(OperPermissions()): read and write on every type, any org.
IsAllowedAll(ctx) ==
    \A a \in {"read", "write"}, t \in {r.type : r \in Resources} \union {"labels", "secrets"} :
        Allowed(ctx, a, t, NoID, Any)

ByID(id) == {l \in labels : l.id = id}
LabelOf(id) == CHOOSE l \in ByID(id) : TRUE
OrgOfResource(type, id) == {r.org : r \in {x \in Resources : x.type = type /\ x.id = id}}

Reply(op, ctx, err, val) == ret' = [op |-> op, ctx |-> ctx, err |-> err, val |-> val]
Denied(op, ctx) == Reply(op, ctx, "unauthorized", {}) /\ UNCHANGED <<labels, mappings, secrets, backups>>
Fails(op, ctx, e) == Reply(op, ctx, e, {}) /\ UNCHANGED <<labels, mappings, secrets, backups>>
Reads(op, ctx, val) == Reply(op, ctx, "nil", val) /\ UNCHANGED <<labels, mappings, secrets, backups>>

----------------------------------------------------------------------------
(* AuthedLabelService *)

\* CreateLabel: create permission on labels of the label's org, then the
\* label service stores it under a fresh id.
CreateLabel(ctx, org, name) ==
    IF ~AuthorizeCreate(ctx, "labels", org) THEN Denied("CreateLabel", ctx)
    ELSE \E id \in LabelIDs \ {l.id : l \in labels} :
            /\ labels' = labels \union {[id |-> id, org |-> org, name |-> name]}
            /\ Reply("CreateLabel", ctx, "nil", {})
            /\ UNCHANGED <<mappings, secrets, backups>>

\* Mutant: the fetched labels are returned without AuthorizeFindLabels.
FindLabelsUnfiltered(ctx, org) == Reads("FindLabels", ctx, {l \in labels : l.org = org})

\* FindLabels: fetch by the filter's org, then keep the readable ones.
FindLabels(ctx, org) ==
    Reads("FindLabels", ctx, AuthorizeFindLabels(ctx, {l \in labels : l.org = org}))

\* FindLabelByID: fetch first, then read permission on the label.
FindLabelByID(ctx, id) ==
    CASE ByID(id) = {} -> Fails("FindLabelByID", ctx, "not found")
      [] ~AuthorizeRead(ctx, "labels", id, LabelOf(id).org) -> Denied("FindLabelByID", ctx)
      [] OTHER -> Reads("FindLabelByID", ctx, {LabelOf(id)})

\* FindResourceLabels: a valid type, the resource's org from the
\* resolver, read permission on the resource, then the readable labels
\* mapped to it.
FindResourceLabels(ctx, type, id) ==
    CASE type \in BadTypes -> Fails("FindResourceLabels", ctx, "invalid type")
      [] OrgOfResource(type, id) = {} -> Fails("FindResourceLabels", ctx, "not found")
      [] ~AuthorizeRead(ctx, type, id, CHOOSE o \in OrgOfResource(type, id) : TRUE) ->
            Denied("FindResourceLabels", ctx)
      [] OTHER ->
            LET ls == {l \in labels : \E m \in mappings : m.label = l.id /\ m.rtype = type /\ m.rid = id}
            IN  Reads("FindResourceLabels", ctx, AuthorizeFindLabels(ctx, ls))

\* Mutant: an update is allowed with read permission.
UpdateLabelReadCheck(ctx, id, name) ==
    CASE ByID(id) = {} -> Fails("UpdateLabel", ctx, "not found")
      [] ~AuthorizeRead(ctx, "labels", id, LabelOf(id).org) -> Denied("UpdateLabel", ctx)
      [] OTHER -> /\ labels' = (labels \ ByID(id)) \union {[LabelOf(id) EXCEPT !.name = name]}
                  /\ Reply("UpdateLabel", ctx, "nil", {})
                  /\ UNCHANGED <<mappings, secrets, backups>>

\* UpdateLabel: fetch, write permission on the label, then update it.
UpdateLabel(ctx, id, name) ==
    CASE ByID(id) = {} -> Fails("UpdateLabel", ctx, "not found")
      [] ~AuthorizeWrite(ctx, "labels", id, LabelOf(id).org) -> Denied("UpdateLabel", ctx)
      [] OTHER -> /\ labels' = (labels \ ByID(id)) \union {[LabelOf(id) EXCEPT !.name = name]}
                  /\ Reply("UpdateLabel", ctx, "nil", {})
                  /\ UNCHANGED <<mappings, secrets, backups>>

\* DeleteLabel: fetch, write permission, then the label service removes
\* the label and its mappings.
DeleteLabel(ctx, id) ==
    CASE ByID(id) = {} -> Fails("DeleteLabel", ctx, "not found")
      [] ~AuthorizeWrite(ctx, "labels", id, LabelOf(id).org) -> Denied("DeleteLabel", ctx)
      [] OTHER -> /\ labels' = labels \ ByID(id)
                  /\ mappings' = {m \in mappings : m.label # id}
                  /\ Reply("DeleteLabel", ctx, "nil", {})
                  /\ UNCHANGED <<secrets, backups>>

\* CreateLabelMapping and DeleteLabelMapping: fetch the label, write
\* permission on it and on the resource, both under the label's org, then
\* the mapping is added or removed.
ChangeMapping(op, ctx, m) ==
    CASE ByID(m.label) = {} -> Fails(op, ctx, "not found")
      [] ~AuthorizeWrite(ctx, "labels", m.label, LabelOf(m.label).org) -> Denied(op, ctx)
      [] ~AuthorizeWrite(ctx, m.rtype, m.rid, LabelOf(m.label).org) -> Denied(op, ctx)
      [] OTHER -> /\ mappings' = IF op = "CreateLabelMapping" THEN mappings \union {m}
                                 ELSE mappings \ {m}
                  /\ Reply(op, ctx, "nil", {})
                  /\ UNCHANGED <<labels, secrets, backups>>

CreateLabelMapping(ctx, m) == ChangeMapping("CreateLabelMapping", ctx, m)
DeleteLabelMapping(ctx, m) == ChangeMapping("DeleteLabelMapping", ctx, m)

----------------------------------------------------------------------------
(* SecretService (authorizer/secret.go) *)

\* LoadSecret: org-wide read on secrets, then the key's value.
LoadSecret(ctx, org, key) ==
    CASE ~AuthorizeOrgReadResource(ctx, "secrets", org) -> Denied("LoadSecret", ctx)
      [] key \notin secrets[org] -> Fails("LoadSecret", ctx, "not found")
      [] OTHER -> Reads("LoadSecret", ctx, {key})

\* GetSecretKeys: org-wide read on secrets, then the org's keys.
GetSecretKeys(ctx, org) ==
    IF ~AuthorizeOrgReadResource(ctx, "secrets", org) THEN Denied("GetSecretKeys", ctx)
    ELSE Reads("GetSecretKeys", ctx, secrets[org])

SetSecrets(op, ctx, org, ks) ==
    /\ secrets' = [secrets EXCEPT ![org] = ks]
    /\ Reply(op, ctx, "nil", {})
    /\ UNCHANGED <<labels, mappings, backups>>

\* PutSecret: create permission on secrets of the org, then one key set.
PutSecret(ctx, org, key) ==
    IF ~AuthorizeCreate(ctx, "secrets", org) THEN Denied("PutSecret", ctx)
    ELSE SetSecrets("PutSecret", ctx, org, secrets[org] \union {key})

\* Mutant: PutSecrets checks write only.
PutSecretsNoRead(ctx, org, m) ==
    IF ~AuthorizeOrgWriteResource(ctx, "secrets", org) THEN Denied("PutSecrets", ctx)
    ELSE SetSecrets("PutSecrets", ctx, org, m)

\* PutSecrets: org-wide read, then org-wide write; the secret service then
\* keeps exactly the keys of m, deleting the org's other secrets.
PutSecrets(ctx, org, m) ==
    CASE ~AuthorizeOrgReadResource(ctx, "secrets", org) -> Denied("PutSecrets", ctx)
      [] ~AuthorizeOrgWriteResource(ctx, "secrets", org) -> Denied("PutSecrets", ctx)
      [] OTHER -> SetSecrets("PutSecrets", ctx, org, m)

\* PatchSecrets: org-wide write, then the keys of m are added or updated.
PatchSecrets(ctx, org, m) ==
    IF ~AuthorizeOrgWriteResource(ctx, "secrets", org) THEN Denied("PatchSecrets", ctx)
    ELSE SetSecrets("PatchSecrets", ctx, org, secrets[org] \union m)

\* DeleteSecret: org-wide write, then the given keys are removed.
DeleteSecret(ctx, org, ks) ==
    IF ~AuthorizeOrgWriteResource(ctx, "secrets", org) THEN Denied("DeleteSecret", ctx)
    ELSE SetSecrets("DeleteSecret", ctx, org, secrets[org] \ ks)

----------------------------------------------------------------------------
(* BackupService (authorizer/backup.go) *)

\* BackupKVStore and BackupShard: every operator permission, then the
\* backup is streamed to the caller.
Backup(op, ctx) ==
    IF ~IsAllowedAll(ctx) THEN Denied(op, ctx)
    ELSE /\ backups' = backups \union {ctx}
         /\ Reply(op, ctx, "nil", {})
         /\ UNCHANGED <<labels, mappings, secrets>>

BackupKVStore(ctx) == Backup("BackupKVStore", ctx)
BackupShard(ctx) == Backup("BackupShard", ctx)

----------------------------------------------------------------------------
Mapping == [label : LabelIDs, rtype : {r.type : r \in Resources}, rid : {r.id : r \in Resources}]
ResourceMappings == {[label |-> l, rtype |-> r.type, rid |-> r.id] : l \in LabelIDs, r \in Resources}

Init ==
    /\ labels = {}
    /\ mappings = {}
    /\ secrets = [o \in Orgs |-> {}]
    /\ backups = {}
    /\ ret = [op |-> "none", ctx |-> "none", err |-> "nil", val |-> {}]

Next ==
    \E ctx \in DOMAIN Contexts :
        \/ \E org \in Orgs, name \in Names : CreateLabel(ctx, org, name)
        \/ \E org \in Orgs : FindLabels(ctx, org)
        \/ \E id \in LabelIDs : FindLabelByID(ctx, id)
        \/ \E type \in {r.type : r \in Resources} \union BadTypes,
              id \in {r.id : r \in Resources} \union UnknownIDs :
              FindResourceLabels(ctx, type, id)
        \/ \E id \in LabelIDs, name \in Names : UpdateLabel(ctx, id, name)
        \/ \E id \in LabelIDs : DeleteLabel(ctx, id)
        \/ \E m \in ResourceMappings : CreateLabelMapping(ctx, m)
        \/ \E m \in mappings : DeleteLabelMapping(ctx, m)
        \/ \E org \in Orgs, key \in Keys : LoadSecret(ctx, org, key)
        \/ \E org \in Orgs : GetSecretKeys(ctx, org)
        \/ \E org \in Orgs, key \in Keys : PutSecret(ctx, org, key)
        \/ \E org \in Orgs, m \in SUBSET Keys : PutSecrets(ctx, org, m)
        \/ \E org \in Orgs, m \in SUBSET Keys : PatchSecrets(ctx, org, m)
        \/ \E org \in Orgs, ks \in SUBSET Keys : DeleteSecret(ctx, org, ks)
        \/ BackupKVStore(ctx)
        \/ BackupShard(ctx)

Spec == Init /\ [][Next]_vars

----------------------------------------------------------------------------
TypeOK ==
    /\ labels \subseteq [id : LabelIDs, org : Orgs, name : Names]
    /\ mappings \subseteq Mapping
    /\ secrets \in [Orgs -> SUBSET Keys]
    /\ backups \subseteq DOMAIN Contexts

\* Every label a successful FindLabels, FindLabelByID or
\* FindResourceLabels returns is one the caller may read under the label's
\* own org: no lookup path of AuthedLabelService leaks a label, including
\* the labels of a resource the caller may read.
ReadsOnlyAuthorized ==
    [][ret'.op \in {"FindLabels", "FindLabelByID", "FindResourceLabels"} =>
         \A l \in ret'.val : AuthorizeRead(ret'.ctx, "labels", l.id, l.org)]_vars

\* A step that creates, renames or deletes a label, or adds or removes a
\* mapping of it, is taken by a caller with write permission on that label
\* under the label's org (for a label created, on the new id).
LabelChangesAuthorized ==
    [][/\ \A l \in (labels \ labels') \union (labels' \ labels) :
              AuthorizeWrite(ret'.ctx, "labels", l.id, l.org)
       /\ \A m \in (mappings \ mappings') \union (mappings' \ mappings) :
              \E l \in labels \union labels' : l.id = m.label /\ AuthorizeWrite(ret'.ctx, "labels", l.id, l.org)]_vars

\* A step that changes an org's secrets is taken by a caller with
\* org-wide write on its secrets, and one that drops secrets other than by
\* an explicit DeleteSecret (PutSecrets replacing the set) also holds
\* org-wide read, as the comment in PutSecrets requires.
SecretChangesAuthorized ==
    [][\A o \in Orgs :
         /\ secrets'[o] # secrets[o] => AuthorizeOrgWriteResource(ret'.ctx, "secrets", o)
         /\ secrets[o] \ secrets'[o] # {} /\ ret'.op # "DeleteSecret" =>
                AuthorizeOrgReadResource(ret'.ctx, "secrets", o)]_vars

\* A step that adds or removes a label mapping is taken by a caller who may
\* write the labelled resource under the org that owns the resource.
MappingResourceAuthorized ==
    [][\A m \in (mappings \ mappings') \union (mappings' \ mappings) :
         \A o \in OrgOfResource(m.rtype, m.rid) : AuthorizeWrite(ret'.ctx, m.rtype, m.rid, o)]_vars

====
