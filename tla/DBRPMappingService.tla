------------------------- MODULE DBRPMappingService -------------------------
(***************************************************************************)
(* The in-memory DBRP mapping service of inmem/dbrp_mapping_service.go:  *)
(* mappings (cluster, database, retention policy) -> bucket kept in a     *)
(* sync.Map under the key path.Join(cluster, db, rp), used by concurrent  *)
(* callers.                                                                *)
(*                                                                         *)
(* A name is a sequence of path segments: "cpu" is <<"cpu">>, "" is <<>>  *)
(* and "a/b" is <<"a", "b">>.  path.Join of names whose segments are not   *)
(* "." or ".." joins the non-empty names with "/", which on segment        *)
(* sequences is concatenation.                                             *)
(*                                                                         *)
(* Every sync.Map Load, Store and Delete is one atomic step.  Create is   *)
(* two steps, the Load of loadDBRPMapping and the Store of PutDBRPMapping, *)
(* with the decision between them local to the caller.  A Range is a step *)
(* per key, as sync.Map documents it: no key is visited twice, a key      *)
(* present from the start to the end is visited, a key stored during the  *)
(* call may or may not be, and each visit loads the key's value then.     *)
(***************************************************************************)
EXTENDS Integers, Sequences, FiniteSets, Functions, TLC

CONSTANTS
    Procs,          \* concurrent callers of the service
    Mappings,       \* mappings callers pass to Create
    Queries,        \* <<cluster, db, rp>> argument triples of FindBy and Delete
    Filters,        \* DBRPMappingFilter values passed to Find and FindMany
    Nil,            \* an unset filter field (a nil pointer)
    NoMapping,      \* the result of a failed lookup
    MaxOps          \* bound on the number of calls in a behaviour

VARIABLES
    kv,             \* the sync.Map: key -> mapping
    pc,             \* pc[p]: "idle", "store" (Create between Load and Store)
                    \* or "range" (FindMany or Find inside its Range)
    pending,        \* pending[p]: [m, existing] of the Create in progress
    ret,            \* ret[p]: the last return of a call of p
    ops,            \* calls started so far
    scan,           \* scan[p]: the Range in progress of p
    hist,           \* hist[p]: every mapping in the map at some point of p's Range
    stable          \* stable[p]: the mappings in the map throughout p's Range

vars == <<kv, pc, pending, ret, ops, scan, hist, stable>>

\* encodeDBRPMappingKey: path.Join(cluster, db, rp).
encodeDBRPMappingKey(cluster, db, rp) == cluster \o db \o rp

\* influxdb.DBRPMapping.Validate (outside this repository): every name
\* non-empty and free of "/", i.e. a single segment.
Validate(m) == \A f \in {"cluster", "database", "rp"} : Len(m[f]) = 1

KeyOf(m) == encodeDBRPMappingKey(m.cluster, m.database, m.rp)

\* loadDBRPMapping: the sync.Map Load under the encoded key.
loadDBRPMapping(cluster, db, rp) ==
    LET k == encodeDBRPMappingKey(cluster, db, rp)
    IN  IF k \in DOMAIN kv THEN kv[k] ELSE NoMapping

\* Mutant: the key is encoded with db and rp exchanged.
PutDBRPMappingSwapped(m) ==
    kv' = (encodeDBRPMappingKey(m.cluster, m.rp, m.database) :> m) @@ kv

\* PutDBRPMapping: the sync.Map Store under the encoded key.
PutDBRPMapping(m) ==
    kv' = (encodeDBRPMappingKey(m.cluster, m.database, m.rp) :> m) @@ kv

\* The filterFunc of FindMany: every set field must equal the mapping's.
Matches(filter, m) ==
    /\ filter.cluster = Nil \/ filter.cluster = m.cluster
    /\ filter.database = Nil \/ filter.database = m.database
    /\ filter.rp = Nil \/ filter.rp = m.rp
    /\ filter.default = Nil \/ filter.default = m.default

AllSet(filter) == filter.cluster # Nil /\ filter.database # Nil /\ filter.rp # Nil
NoneSet(filter) == filter.cluster = Nil /\ filter.database = Nil /\ filter.rp = Nil

\* The FindBy shortcut of FindMany when cluster, db and rp are all set.
FindManyByKey(filter) ==
    LET m == loadDBRPMapping(filter.cluster, filter.database, filter.rp)
    IN  IF m = NoMapping THEN [err |-> "not found", mappings |-> {}]
        ELSE [err |-> "nil", mappings |-> {m}]

NoScan == [op |-> "none", filter |-> Nil, start |-> {}, visited |-> {}, acc |-> <<>>]

\* filterDBRPMappings, first step: sync.Map.Range starts over the keys
\* the map holds now, with an empty result.
StartRange(p, op, filter) ==
    /\ pc' = [pc EXCEPT ![p] = "range"]
    /\ scan' = [scan EXCEPT ![p] =
          [op |-> op, filter |-> filter, start |-> DOMAIN kv, visited |-> {}, acc |-> <<>>]]

Idle(p) == pc[p] = "idle" /\ ops < MaxOps
Return(p, r) == ret' = [ret EXCEPT ![p] = r]

----------------------------------------------------------------------------
Init ==
    /\ kv = <<>>
    /\ pc = [p \in Procs |-> "idle"]
    /\ pending = [p \in Procs |-> [m |-> NoMapping, existing |-> NoMapping]]
    /\ ret = [p \in Procs |-> [op |-> "none"]]
    /\ ops = 0
    /\ scan = [p \in Procs |-> NoScan]
    /\ hist = [p \in Procs |-> {}]
    /\ stable = [p \in Procs |-> {}]

\* Create, first step: Validate, whose error is dropped (return nil), then
\* the Load of loadDBRPMapping.
CreateLoad(p, m) ==
    /\ Idle(p)
    /\ ops' = ops + 1
    /\ IF ~Validate(m)
       THEN /\ Return(p, [op |-> "Create", m |-> m, err |-> "nil"])
            /\ UNCHANGED <<kv, pc, pending, scan>>
       ELSE /\ pending' = [pending EXCEPT ![p] =
                 [m |-> m, existing |-> loadDBRPMapping(m.cluster, m.database, m.rp)]]
            /\ pc' = [pc EXCEPT ![p] = "store"]
            /\ UNCHANGED <<kv, ret, scan>>

\* Mutant: the existing mapping is not compared; Create always stores.
CreateStoreNoConflict(p) ==
    /\ pc[p] = "store"
    /\ PutDBRPMapping(pending[p].m)
    /\ Return(p, [op |-> "Create", m |-> pending[p].m, err |-> "nil"])
    /\ pc' = [pc EXCEPT ![p] = "idle"]
    /\ UNCHANGED <<pending, ops, scan>>

\* Create, second step: not found or an equal mapping -> PutDBRPMapping
\* (the Store); a different mapping -> the EConflict error.
CreateStore(p) ==
    LET m == pending[p].m
        existing == pending[p].existing
    IN  /\ pc[p] = "store"
        /\ IF existing = NoMapping \/ existing = m
           THEN /\ PutDBRPMapping(m)
                /\ Return(p, [op |-> "Create", m |-> m, err |-> "nil"])
           ELSE /\ Return(p, [op |-> "Create", m |-> m, err |-> "conflict"])
                /\ UNCHANGED kv
        /\ pc' = [pc EXCEPT ![p] = "idle"]
        /\ UNCHANGED <<pending, ops, scan>>

\* Delete: the sync.Map Delete of the encoded key; always returns nil.
Delete(p, q) ==
    /\ Idle(p)
    /\ kv' = Restrict(kv, DOMAIN kv \ {encodeDBRPMappingKey(q[1], q[2], q[3])})
    /\ Return(p, [op |-> "Delete", q |-> q, err |-> "nil"])
    /\ ops' = ops + 1
    /\ UNCHANGED <<pc, pending, scan>>

\* FindBy: loadDBRPMapping.
FindBy(p, q) ==
    /\ Idle(p)
    /\ Return(p, [op |-> "FindBy", q |-> q, m |-> loadDBRPMapping(q[1], q[2], q[3])])
    /\ ops' = ops + 1
    /\ UNCHANGED <<kv, pc, pending, scan>>

\* FindMany: FindBy when cluster, db and rp are all set, otherwise
\* filterDBRPMappings with the filterFunc, a Range over the map.
FindMany(p, f) ==
    /\ Idle(p)
    /\ IF AllSet(f)
       THEN LET r == FindManyByKey(f)
            IN  /\ Return(p, [op |-> "FindMany", filter |-> f, err |-> r.err,
                              mappings |-> r.mappings, n |-> Cardinality(r.mappings)])
                /\ UNCHANGED <<pc, scan>>
       ELSE StartRange(p, "FindMany", f) /\ UNCHANGED ret
    /\ ops' = ops + 1
    /\ UNCHANGED <<kv, pending>>

\* Find: EInvalid without cluster, db and rp; FindBy with all three;
\* otherwise FindMany, whose first mapping it returns at the Range's end.
Find(p, f) ==
    /\ Idle(p)
    /\ \/ /\ NoneSet(f)
          /\ Return(p, [op |-> "Find", filter |-> f, err |-> "invalid", m |-> NoMapping])
          /\ UNCHANGED <<pc, scan>>
       \/ /\ AllSet(f)
          /\ LET m == loadDBRPMapping(f.cluster, f.database, f.rp)
             IN  Return(p, [op |-> "Find", filter |-> f,
                            err |-> IF m = NoMapping THEN "not found" ELSE "nil", m |-> m])
          /\ UNCHANGED <<pc, scan>>
       \/ /\ ~NoneSet(f) /\ ~AllSet(f)
          /\ StartRange(p, "Find", f)
          /\ UNCHANGED ret
    /\ ops' = ops + 1
    /\ UNCHANGED <<kv, pending>>

\* One call of the Range callback: a key not yet visited, of the start or
\* stored since, is loaded; the type assertion holds (only mappings are
\* stored), and filterDBRPMappings appends the mapping when fn accepts it.
\* A key deleted since the start is skipped.
RangeStep(p) ==
    /\ pc[p] = "range"
    /\ \E k \in (scan[p].start \union DOMAIN kv) \ scan[p].visited :
          scan' = [scan EXCEPT ![p].visited = @ \union {k},
                               ![p].acc = IF k \in DOMAIN kv /\ Matches(scan[p].filter, kv[k])
                                          THEN Append(@, kv[k]) ELSE @]
    /\ UNCHANGED <<kv, pc, pending, ret, ops>>

\* Mutant: the Range returns before visiting every key it started with.
RangeEndEarly(p) ==
    /\ pc[p] = "range"
    /\ LET s == scan[p] IN
       IF s.op = "FindMany"
       THEN Return(p, [op |-> "FindMany", filter |-> s.filter, err |-> "nil",
                       mappings |-> Range(s.acc), n |-> Len(s.acc)])
       ELSE Return(p, [op |-> "Find", filter |-> s.filter,
                       err |-> IF s.acc = <<>> THEN "not found" ELSE "nil",
                       m |-> IF s.acc = <<>> THEN NoMapping ELSE s.acc[1]])
    /\ pc' = [pc EXCEPT ![p] = "idle"]
    /\ scan' = [scan EXCEPT ![p] = NoScan]
    /\ UNCHANGED <<kv, pending, ops>>

\* The Range returns once every key of the start still in the map was
\* visited.  FindMany returns the mappings and their count; Find returns
\* errDBRPMappingNotFound when there are none, else mappings[0], the
\* first one the Range visited.
RangeEnd(p) ==
    /\ pc[p] = "range"
    /\ scan[p].start \cap DOMAIN kv \subseteq scan[p].visited
    /\ LET s == scan[p] IN
       IF s.op = "FindMany"
       THEN Return(p, [op |-> "FindMany", filter |-> s.filter, err |-> "nil",
                       mappings |-> Range(s.acc), n |-> Len(s.acc)])
       ELSE Return(p, [op |-> "Find", filter |-> s.filter,
                       err |-> IF s.acc = <<>> THEN "not found" ELSE "nil",
                       m |-> IF s.acc = <<>> THEN NoMapping ELSE s.acc[1]])
    /\ pc' = [pc EXCEPT ![p] = "idle"]
    /\ scan' = [scan EXCEPT ![p] = NoScan]
    /\ UNCHANGED <<kv, pending, ops>>

\* History variables, for RangeWithinCall only: during a Range of p, the
\* mappings the map held at some point and those it held at every point.
Observe ==
    /\ hist' = [q \in Procs |->
          IF pc'[q] = "range"
          THEN (IF pc[q] = "range" THEN hist[q] ELSE {}) \union Range(kv')
          ELSE {}]
    /\ stable' = [q \in Procs |->
          IF pc'[q] = "range"
          THEN (IF pc[q] = "range" THEN stable[q] ELSE Range(kv')) \cap Range(kv')
          ELSE {}]

Next ==
    /\ \E p \in Procs :
        \/ \E m \in Mappings : CreateLoad(p, m)
        \/ CreateStore(p)
        \/ \E q \in Queries : Delete(p, q) \/ FindBy(p, q)
        \/ \E f \in Filters : FindMany(p, f) \/ Find(p, f)
        \/ RangeStep(p) \/ RangeEnd(p)
    /\ Observe

Spec == Init /\ [][Next]_vars

----------------------------------------------------------------------------
\* Every entry of the map is a mapping stored under its own encoded key.
TypeOK ==
    /\ \A k \in DOMAIN kv : kv[k] \in Mappings /\ k = KeyOf(kv[k])
    /\ pc \in [Procs -> {"idle", "store", "range"}]
    /\ \A p \in Procs : pc[p] = "range" <=> scan[p].op \in {"FindMany", "Find"}
    /\ \A p \in Procs : pc[p] = "store" => pending[p].m \in Mappings
    /\ ops \in 0..MaxOps

\* The service implements AtomicDBRP: seen from its callers, every call
\* takes effect at once on a map of (cluster, db, rp) triples.  A Create
\* takes effect at its Store (or its conflict return); its Load is
\* internal.
Triples == {<<kv[k].cluster, kv[k].database, kv[k].rp>> : k \in DOMAIN kv}
AbsStore == [t \in Triples |-> kv[encodeDBRPMappingKey(t[1], t[2], t[3])]]
Atomic == INSTANCE AtomicDBRP WITH store <- AbsStore
AtomicRefinement == Atomic!Spec

\* Create refuses a mapping that differs from the one stored under its key
\* ("dbrp mapping already exists"), so a stored mapping is never replaced
\* by a different one; only Delete takes it away.
NoReplace == [][\A k \in DOMAIN kv \cap DOMAIN kv' : kv'[k] = kv[k]]_kv

\* FindBy(cluster, db, rp) returns only the mapping of that cluster, db and
\* retention policy, or none.
FindByMatchesQuery ==
    \A p \in Procs :
        ret[p].op = "FindBy" /\ ret[p].m # NoMapping =>
            <<ret[p].m.cluster, ret[p].m.database, ret[p].m.rp>> = ret[p].q

\* When Create returns nil, the mapping is stored.
CreateAckMeansStored ==
    [][\A p \in Procs :
         (ret'[p] # ret[p] /\ ret'[p].op = "Create" /\ ret'[p].err = "nil") =>
             KeyOf(ret'[p].m) \in DOMAIN kv' /\ kv'[KeyOf(ret'[p].m)] = ret'[p].m]_vars

\* sync.Map.Range "does not necessarily correspond to any consistent
\* snapshot": FindMany and Find, whose Range runs while other callers
\* Create and Delete, return only matching mappings the map held at some
\* point of the call, and miss none it held throughout; Find returns
\* errDBRPMappingNotFound only if no match was there throughout.
RangeWithinCall ==
    [][\A p \in Procs :
         pc[p] = "range" /\ pc'[p] = "idle" =>
            LET seen == {m \in hist[p] : Matches(scan[p].filter, m)}
                kept == {m \in stable[p] : Matches(scan[p].filter, m)}
            IN  IF scan[p].op = "FindMany"
                THEN kept \subseteq ret'[p].mappings /\ ret'[p].mappings \subseteq seen
                ELSE /\ ret'[p].m \in seen \union {NoMapping}
                     /\ kept # {} => ret'[p].err = "nil"]_vars

====
