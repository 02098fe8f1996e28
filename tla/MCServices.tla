----------------------------- MODULE MCServices -----------------------------
(***************************************************************************)
(* The service components checked in one run, one of them chosen at the *)
(* start: the authorizing wrappers (AuthWrappers) called by five kinds of *)
(* caller; the metrics recorder handler (RecorderHandler) consuming three *)
(* messages; the in-memory v1 DBRP mapping service (DBRPMappingService,   *)
(* valid mappings and plain names) with one caller against AtomicDBRP, or *)
(* with two concurrent callers whose Ranges interleave with Creates and   *)
(* Deletes; the v2 DBRP service (DBRPServiceV2); or the source proxy     *)
(* (SourceProxy) forwarding an InfluxQL, Flux or other query.  The bounded DBRP      *)
(* inputs are those of MCDBRPMappingService and MCDBRPServiceV2.  The     *)
(* variables of the components not chosen keep their initial values.      *)
(***************************************************************************)
EXTENDS Naturals

CONSTANTS Any, NoID, None, oA, oB, l1, l2, n1, n2, k1, k2, m1, m2, m3,
          Nil, NoMapping, p1, p2

VARIABLES cmd, labels, mappings, secrets, backups, ret,
          mailbox, msg, pc, acked, recorded, failed, crashes, dups,
          kv, vpc, pending, ret1, ops, scan, hist, stable,
          kvc, pcc, pendingc, retc, opsc, scanc, histc, stablec, dbrps, ret2,
          preq, ppc, sent, presp, out, presult

authVars == <<labels, mappings, secrets, backups, ret>>
recVars == <<mailbox, msg, pc, acked, recorded, failed, crashes, dups>>
v1vars == <<kv, vpc, pending, ret1, ops, scan, hist, stable>>
v1cvars == <<kvc, pcc, pendingc, retc, opsc, scanc, histc, stablec>>
v2vars == <<dbrps, ret2>>
dbrpVars == <<v1vars, v1cvars, v2vars>>
proxyVars == <<preq, ppc, sent, presp, out, presult>>

P(action, type, org, id) == [action |-> action, type |-> type, org |-> org, id |-> id]
RW(type, org) == {P(a, type, org, Any) : a \in {"read", "write"}}

\* An admin of org oA; a reader of label l1 wherever it lives; a writer of
\* oA's secrets; a reader and writer of them; an operator.
MCContexts ==
    [admin    |-> RW("labels", oA) \union RW("buckets", oA),
     l1reader |-> {P("read", "labels", Any, l1)},
     swriter  |-> {P("write", "secrets", oA, Any)},
     sadmin   |-> RW("secrets", oA),
     operator |-> UNION {RW(t, Any) : t \in {"labels", "buckets", "secrets"}}]

MCResources == {[type |-> "buckets", id |-> "bA", org |-> oA],
                [type |-> "buckets", id |-> "bB", org |-> oB]}

Auth == INSTANCE AuthWrappers
          WITH Orgs <- {oA, oB}, LabelIDs <- {l1, l2}, Names <- {n1, n2}, Keys <- {k1, k2},
               Resources <- MCResources, BadTypes <- {"bogus"},
               UnknownIDs <- {"bC"}, Contexts <- MCContexts

Rec == INSTANCE RecorderHandler
          WITH Msgs <- {m1, m2, m3}, Valid <- {m1, m2}, MaxCrashes <- 1, MaxDups <- 1

V1Data == INSTANCE MCDBRPMappingService
            WITH Procs <- {p1}, Mappings <- {}, Queries <- {}, Filters <- {}, MaxOps <- 6,
                 pc <- vpc, ret <- ret1

\* The inputs, computed once.
V1Mappings == V1Data!ValidMappings
V1Queries == V1Data!PlainQueries
V1Filters == V1Data!MCFilters

V1 == INSTANCE MCDBRPMappingService
        WITH Procs <- {p1}, Mappings <- V1Mappings, Queries <- V1Queries,
             Filters <- V1Filters, MaxOps <- 6, pc <- vpc, ret <- ret1

\* Two callers, on a copy of the service's variables.
V1C == INSTANCE MCDBRPMappingService
         WITH Procs <- {p1, p2}, Mappings <- V1Mappings, Queries <- V1Queries,
              Filters <- V1Filters, MaxOps <- 3,
              kv <- kvc, pc <- pcc, pending <- pendingc, ret <- retc, ops <- opsc,
              scan <- scanc, hist <- histc, stable <- stablec

V2Data == INSTANCE MCDBRPServiceV2
            WITH Orgs <- {"o1", "o2"}, IDs <- {1, 2, 3}, Databases <- {"d1"},
                 UnusedDatabases <- {"wont_change"}, InvalidDatabases <- {"./"},
                 RPs <- {"r1", "r2", "r3"}, Buckets <- {"b1"}, MissingBuckets <- {"b2"},
                 Filters <- {}, ret <- ret2

V2Filters == V2Data!MCFilters

V2 == INSTANCE MCDBRPServiceV2
        WITH Orgs <- {"o1", "o2"}, IDs <- {1, 2, 3}, Databases <- {"d1"},
             UnusedDatabases <- {"wont_change"}, InvalidDatabases <- {"./"},
             RPs <- {"r1", "r2", "r3"}, Buckets <- {"b1"}, MissingBuckets <- {"b2"},
             Filters <- V2Filters, ret <- ret2

\* An InfluxQL query as an *influxql.Compiler and as a value of another
\* type reporting the same compiler type; a Flux query; a query of another
\* language.  The server answers 2xx, 3xx or 5xx with a body of 0 to 2
\* chunks.
Compiler(type, pointer) ==
    [type |-> type, pointer |-> pointer, db |-> "db0", cluster |-> "c0", query |-> "q0", rp |-> "autogen"]

ProxyRequests ==
    {[compiler |-> Compiler("influxql", TRUE)], [compiler |-> Compiler("influxql", FALSE)],
     [compiler |-> Compiler("flux", TRUE)], [compiler |-> Compiler("repl", TRUE)]}

ProxyResponses ==
    {[status |-> s, body |-> b] : s \in {200, 302, 500}, b \in {<<>>, <<"c1">>, <<"c1", "c2">>}}

Proxy == INSTANCE SourceProxy
           WITH Requests <- ProxyRequests, Responses <- ProxyResponses,
                req <- preq, pc <- ppc, resp <- presp, result <- presult

Init ==
    /\ cmd \in {"auth", "recorder", "v1", "v1c", "v2", "proxy"}
    /\ Auth!Init /\ Rec!Init /\ V1!Init /\ V1C!Init /\ V2!Init /\ Proxy!Init
    \* the proxy's request is chosen only when the proxy runs
    /\ cmd # "proxy" => preq = [compiler |-> Compiler("flux", TRUE)]

Next ==
    \/ cmd = "auth" /\ Auth!Next /\ UNCHANGED <<cmd, recVars, dbrpVars, proxyVars>>
    \/ cmd = "recorder" /\ Rec!Next /\ UNCHANGED <<cmd, authVars, dbrpVars, proxyVars>>
    \/ cmd = "v1" /\ V1!Next /\ UNCHANGED <<cmd, authVars, recVars, v1cvars, v2vars, proxyVars>>
    \/ cmd = "v1c" /\ V1C!Next /\ UNCHANGED <<cmd, authVars, recVars, v1vars, v2vars, proxyVars>>
    \/ cmd = "v2" /\ V2!Next /\ UNCHANGED <<cmd, authVars, recVars, v1vars, v1cvars, proxyVars>>
    \/ cmd = "proxy" /\ Proxy!Next /\ UNCHANGED <<cmd, authVars, recVars, dbrpVars>>

\* The recorder's fairness, for the behaviours that run it.
Fairness ==
    /\ WF_recVars(cmd = "recorder" /\ Rec!HandlerStep)
    /\ \A m \in {m1, m2, m3} : WF_recVars(cmd = "recorder" /\ Rec!Deliver(m))

Spec == Init /\ [][Next]_<<cmd, authVars, recVars, dbrpVars, proxyVars>> /\ Fairness

\* States are told apart without the auth wrappers' and the v2 service's
\* last replies: no action reads them, and the properties read only their
\* next values, which the action fixes.
ServicesView == <<cmd, labels, mappings, secrets, backups, recVars, v1vars, v1cvars, dbrps, proxyVars>>

----------------------------------------------------------------------------
\* The state of each component has its type (the others keep their
\* initial values).
TypeOK ==
    /\ cmd = "auth" => Auth!TypeOK
    /\ cmd = "recorder" => Rec!TypeOK
    /\ cmd = "v1" => V1!TypeOK
    /\ cmd = "v1c" => V1C!TypeOK
    /\ cmd = "v2" => V2!TypeOK
    /\ cmd = "proxy" => Proxy!TypeOK

\* AuthedLabelService: every label a lookup returns is readable by the caller.
ReadsOnlyAuthorized == Auth!ReadsOnlyAuthorized

\* AuthedLabelService: labels and their mappings change only at the hands
\* of a caller with write permission on the label.
LabelChangesAuthorized == Auth!LabelChangesAuthorized

\* SecretService: secrets change only with org-wide write, and PutSecrets
\* drops keys only with org-wide read as well.
SecretChangesAuthorized == Auth!SecretChangesAuthorized

\* CreateLabelMapping and DeleteLabelMapping: the caller may write the
\* labelled resource under the resource's own org.
MappingResourceAuthorized == Auth!MappingResourceAuthorized

\* RecorderHandler: a decodable message is acknowledged only after Record
\* was tried on it.
AckAfterAttempt == cmd = "recorder" => Rec!AckAfterAttempt

\* RecorderHandler: every message is eventually acknowledged.
EveryMessageAcked == cmd = "recorder" => Rec!EveryMessageAcked

\* SourceProxyQueryService.Query: w receives only the body of a response
\* CheckError accepted, from its start, and all of it when Query returns
\* nil.
RelaysOnlyAcceptedBody == cmd = "proxy" => Proxy!RelaysOnlyAcceptedBody

\* v1: seen from its one caller, the service implements AtomicDBRP.  This
\* is V1!AtomicRefinement with the steps of the other components, which
\* leave the v1 variables alone, told apart first: they are stuttering
\* steps of AtomicDBRP.
AtomicRefinement ==
    /\ V1!Atomic!Init
    /\ [][cmd # "v1" \/ V1!Atomic!Next]_<<V1!AbsStore, ret1>>

\* v1, two callers: FindMany and Find return what the map held during
\* their Range, and every match it held throughout.
RangeWithinCall == V1C!RangeWithinCall

\* v2: every org and database with mappings has exactly one default, after
\* any sequence of Creates, Updates and Deletes.
OneDefaultPerDatabase == cmd = "v2" => V2!OneDefaultPerDatabase

\* v2: no two stored mappings share (org, id) or (org, db, rp).
KeysUnique == cmd = "v2" => V2!KeysUnique

\* v2: a database's default moves only when a call names a new default or
\* the default mapping itself is deleted or unset.
DefaultStable == V2!DefaultStable

\* v2: each call changes the mappings of one (org, db) only.
PerDatabaseIsolation == V2!PerDatabaseIsolation
====
