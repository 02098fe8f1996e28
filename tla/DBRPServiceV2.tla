---------------------------- MODULE DBRPServiceV2 ----------------------------
(***************************************************************************)
(* The DBRP mapping service V2 as the conformance suite                   *)
(* testing/dbrp_mapping_v2.go states it.  The service itself (package     *)
(* dbrp) is not in this repository: every action is what the suite's      *)
(* cases require of Create, FindByID, FindMany, Update and Delete,         *)
(* generalised from its fixtures.                                          *)
(*                                                                         *)
(* A mapping is identified by (org, id): the suite notes that "in the      *)
(* 'same ID' concept, orgID must match too", FindByID with another org is  *)
(* not found, and Delete with another org leaves the mapping.  Each        *)
(* (org, db) with mappings has one default; when the default goes, "the    *)
(* first one becomes the default one", the one of lowest id.              *)
(***************************************************************************)
EXTENDS Integers, FiniteSets

CONSTANTS
    Orgs,               \* organization IDs
    IDs,                \* mapping IDs, ordered
    Databases,          \* valid database names
    UnusedDatabases,    \* valid names no mapping has ("wont_change")
    InvalidDatabases,   \* names dbrp validation refuses ("./")
    RPs,                \* retention policy names
    Buckets,            \* buckets the bucket service finds
    MissingBuckets,     \* buckets it reports not found
    Nil                 \* an unset filter field

VARIABLES
    dbrps,              \* the stored mappings
    ret                 \* the return of the last call

vars == <<dbrps, ret>>

Mapping == [id: IDs, org: Orgs, db: Databases, rp: RPs, default: BOOLEAN, bucket: Buckets]

InDB(org, db) == {x \in dbrps : x.org = org /\ x.db = db}
ByID(org, id) == {x \in dbrps : x.org = org /\ x.id = id}

\* "The first one becomes the default one."
First(S) == CHOOSE x \in S : \A y \in S : x.id <= y.id

\* d becomes the default of its (org, db); the others of it are unset.
MakeDefault(S, d) ==
    {IF x.org = d.org /\ x.db = d.db THEN [x EXCEPT !.default = (x.id = d.id)] ELSE x
       : x \in S}

\* After m's default leaves, the first remaining mapping of its database
\* takes it over, if any remains.
PromoteFirst(S, org, db) ==
    LET rest == {x \in S : x.org = org /\ x.db = db}
    IN  IF rest = {} THEN S ELSE MakeDefault(S, First(rest))

\* The errors a Create may return: the same (org, id), the same
\* (org, db, rp), or a bucket the bucket service does not find.  The suite
\* tests each alone, so when several apply any of them may be returned.
CreateErrors(m) ==
    (IF ByID(m.org, m.id) # {} THEN {"exists: id"} ELSE {})
    \union (IF \E x \in dbrps : x.org = m.org /\ x.db = m.db /\ x.rp = m.rp
            THEN {"exists: org, db, rp"} ELSE {})
    \union (IF m.bucket \in MissingBuckets THEN {"bucket not found"} ELSE {})

\* Create: on success the mapping is stored and is the default of its
\* database when asked or when it is the first one; the caller's mapping
\* gets the stored Default ("defaults are ok").
Create(m) ==
    LET errs == CreateErrors(m)
        d    == m.default \/ InDB(m.org, m.db) = {}
        new  == [m EXCEPT !.default = d]
    IN  \/ /\ errs # {}
           /\ \E e \in errs : ret' = [op |-> "Create", err |-> e, m |-> m]
           /\ UNCHANGED dbrps
        \/ /\ errs = {}
           /\ dbrps' = IF d THEN MakeDefault(dbrps \union {new}, new) ELSE dbrps \union {new}
           /\ ret' = [op |-> "Create", err |-> "nil", m |-> new]

\* FindByID: the mapping of that org and id, or not found.
FindByID(org, id) ==
    /\ ret' = IF ByID(org, id) = {}
              THEN [op |-> "FindByID", err |-> "not found", m |-> Nil]
              ELSE [op |-> "FindByID", err |-> "nil", m |-> CHOOSE x \in ByID(org, id) : TRUE]
    /\ UNCHANGED dbrps

\* DBRPMappingFilterV2: every set field must match.
MatchesFilter(f, x) ==
    \A k \in {"id", "org", "bucket", "db", "rp", "default"} : f[k] = Nil \/ f[k] = x[k]

FindMany(f) ==
    /\ ret' = [op |-> "FindMany", err |-> "nil", ms |-> {x \in dbrps : MatchesFilter(f, x)}]
    /\ UNCHANGED dbrps

\* Mutant: the conflict is looked up under the argument's database, which
\* Update ignores.
UpdateErrorsArgDB(m, cur) ==
    (IF ByID(m.org, m.id) = {} THEN {"not found"} ELSE {})
    \union (IF m.db \in InvalidDatabases THEN {"invalid"} ELSE {})
    \union (IF \E x \in dbrps : x.org = m.org /\ x.db = m.db /\ x.rp = m.rp /\ x.id # m.id
            THEN {"exists: org, db, rp"} ELSE {})

\* The errors of an Update: no mapping with that (org, id), an invalid
\* database name in the argument, or another mapping of the same org and
\* stored database already using the new retention policy.
UpdateErrors(m, cur) ==
    (IF ByID(m.org, m.id) = {} THEN {"not found"} ELSE {})
    \union (IF m.db \in InvalidDatabases THEN {"invalid"} ELSE {})
    \union (IF \E o \in cur : \E x \in dbrps :
                   x.org = m.org /\ x.db = o.db /\ x.rp = m.rp /\ x.id # m.id
            THEN {"exists: org, db, rp"} ELSE {})

\* Mutant: the bucket is taken from the argument too.
UpdatedWithBucket(old, m) == [old EXCEPT !.rp = m.rp, !.bucket = m.bucket]

\* The stored mapping after a successful Update: only the retention policy
\* and the Default flag change ("update unchangeable fields").
Updated(old, m) == [old EXCEPT !.rp = m.rp]

\* Mutant: an unset Default re-elects the first mapping whether or not
\* this one was the default.
UpdateDefaultAlwaysPromote(S, upd, m, old) ==
    LET others == InDB(old.org, old.db) \ {old}
    IN  CASE m.default     -> MakeDefault(S, upd)
          [] others # {}   -> MakeDefault(S, First(others))
          [] OTHER         -> S

\* The Default flag of an Update: set -> the mapping becomes the default;
\* unset on the default -> the first other mapping of its database takes
\* over, and with no other it stays the default ("update default when
\* only one dbrp is present").
UpdateDefault(S, upd, m, old) ==
    LET others == InDB(old.org, old.db) \ {old}
    IN  CASE m.default                   -> MakeDefault(S, upd)
          [] old.default /\ others # {}  -> MakeDefault(S, First(others))
          [] OTHER                       -> S

Update(m) ==
    LET cur  == ByID(m.org, m.id)
        errs == UpdateErrors(m, cur)
    IN  \/ /\ errs # {}
           /\ \E e \in errs : ret' = [op |-> "Update", err |-> e, m |-> m]
           /\ UNCHANGED dbrps
        \/ /\ errs = {}
           /\ LET old == CHOOSE x \in cur : TRUE
                  upd == Updated(old, m)
              IN  dbrps' = UpdateDefault((dbrps \ {old}) \union {upd}, upd, m, old)
           /\ ret' = [op |-> "Update", err |-> "nil", m |-> m]

\* Mutant: a deleted default is not handed over.
DeleteNoPromote(org, id) ==
    /\ dbrps' = dbrps \ ByID(org, id)
    /\ ret' = [op |-> "Delete", err |-> "nil", m |-> [org |-> org, id |-> id]]

\* Mutant: the delete goes by id alone, in every org.
DeleteAnyOrg(org, id) ==
    LET cur == ByID(org, id)
    IN  /\ dbrps' = IF cur = {} THEN dbrps
                    ELSE LET old  == CHOOSE x \in cur : TRUE
                             rest == {x \in dbrps : x.id # id}
                         IN  IF old.default THEN PromoteFirst(rest, org, old.db) ELSE rest
        /\ ret' = [op |-> "Delete", err |-> "nil", m |-> [org |-> org, id |-> id]]

\* Delete: removes the mapping of that (org, id), if any, and returns nil
\* either way ("delete non-existing dbrp"); a deleted default hands over
\* to the first remaining mapping of its database.
Delete(org, id) ==
    LET cur == ByID(org, id)
    IN  /\ dbrps' = IF cur = {} THEN dbrps
                    ELSE LET old == CHOOSE x \in cur : TRUE
                         IN  IF old.default THEN PromoteFirst(dbrps \ {old}, org, old.db)
                             ELSE dbrps \ {old}
        /\ ret' = [op |-> "Delete", err |-> "nil", m |-> [org |-> org, id |-> id]]

----------------------------------------------------------------------------
\* The arguments callers pass: any mapping for Create, and for Update also
\* invalid database names and buckets, which Update must ignore.
CreateArgs == [id: IDs, org: Orgs, db: Databases, rp: RPs, default: BOOLEAN,
               bucket: Buckets \union MissingBuckets]
UpdateArgs == [id: IDs, org: Orgs, db: Databases \union UnusedDatabases \union InvalidDatabases, rp: RPs,
               default: BOOLEAN, bucket: Buckets \union MissingBuckets]

\* The filters FindMany is called with.
CONSTANT Filters

Init ==
    /\ dbrps = {}
    /\ ret = [op |-> "none", err |-> "nil"]

Next ==
    \/ \E m \in CreateArgs : Create(m)
    \/ \E m \in UpdateArgs : Update(m)
    \/ \E o \in Orgs, i \in IDs : Delete(o, i) \/ FindByID(o, i)
    \/ \E f \in Filters : FindMany(f)

Spec == Init /\ [][Next]_vars

----------------------------------------------------------------------------
\* Stored mappings are well formed: a valid database and a bucket the
\* bucket service finds.
TypeOK == dbrps \subseteq Mapping

\* Every (org, db) that has mappings has exactly one default, across any
\* sequence of Creates, Updates and Deletes: what the suite checks after
\* each call ("basic create", "create mapping for same db changes
\* default", "delete default dbrp", "unset default when more dbrps are
\* present").
OneDefaultPerDatabase ==
    \A o \in Orgs, b \in Databases :
        InDB(o, b) # {} => Cardinality({x \in InDB(o, b) : x.default}) = 1

\* No two stored mappings share (org, id) or (org, db, rp): Create and
\* Update refuse both ("error on create dbrp with same orgID, db and rp",
\* "update to same orgID, db, and rp").
KeysUnique ==
    \A x, y \in dbrps :
        x # y => /\ <<x.org, x.id>> # <<y.org, y.id>>
                 /\ <<x.org, x.db, x.rp>> # <<y.org, y.db, y.rp>>

DefaultIDs(S, o, b) == {x.id : x \in {y \in S : y.org = o /\ y.db = b /\ y.default}}

\* The default of a database moves only when a call names a new default
\* (Create or Update with Default set) or when the default mapping itself
\* is deleted or unset; "create mapping for same db does not change
\* default".
DefaultStable ==
    [][\A o \in Orgs, b \in Databases :
         LET before == DefaultIDs(dbrps, o, b)
             after  == DefaultIDs(dbrps', o, b)
         IN  (before # {} /\ after # {} /\ before # after) =>
                 /\ ret'.err = "nil"
                 /\ ret'.m.org = o
                 /\ \/ ret'.op \in {"Create", "Update"} /\ ret'.m.default /\ ret'.m.id \in after
                    \/ ret'.op \in {"Delete", "Update"} /\ ret'.m.id \in before]_vars

\* Each call changes the mappings of one (org, db) only: a default moved
\* in one org never touches the same database name in another org
\* ("delete default dbrp" keeps org 2's default).
PerDatabaseIsolation ==
    [][\E o \in Orgs, b \in Databases :
         \A x \in dbrps \union dbrps' :
             (x.org # o \/ x.db # b) => (x \in dbrps <=> x \in dbrps')]_vars

=============================================================================
