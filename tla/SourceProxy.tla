----------------------------- MODULE SourceProxy -----------------------------
(***************************************************************************)
(* SourceProxyQueryService.Query of http/source_proxy_service.go: a query *)
(* is forwarded to the source's server, by the compiler's language to     *)
(* /query (InfluxQL, as a form) or /api/v2/query (Flux, as JSON), and the *)
(* server's answer is copied to the caller's writer w.                    *)
(*                                                                         *)
(* The network, the server and w are the environment: NewURL, the body's  *)
(* encoding, NewRequest and hc.Do may fail, the server answers with any   *)
(* status and body, and io.Copy may fail on a read or a write after part  *)
(* of the body was copied.  A body is a sequence of chunks; w receives    *)
(* whole chunks.                                                           *)
(***************************************************************************)
EXTENDS Integers, Sequences, SequencesExt

CONSTANTS
    Requests,       \* the query.ProxyRequests a caller may pass
    Responses,      \* the server's possible answers [status, body]
    None

VARIABLES
    req,            \* the request
    pc,             \* "start", "build", "do", "check", "copy" or "done"
    sent,           \* the HTTP request sent to the server
    resp,           \* the server's response, once hc.Do returned one
    out,            \* what was written to w
    result          \* "none", "ok" or "error"

vars == <<req, pc, sent, resp, out, result>>

\* The HTTP request each path builds: queryInfluxQL posts the compiler's
\* DB, Cluster (as org), Query and RP as a form to /query; queryFlux posts
\* the whole request, JSON encoded, to /api/v2/query.
HTTPRequest(r) ==
    IF r.compiler.type = "influxql"
    THEN [path |-> "/query", contentType |-> "application/x-www-form-urlencoded",
          body |-> [db |-> r.compiler.db, org |-> r.compiler.cluster,
                    q |-> r.compiler.query, rp |-> r.compiler.rp]]
    ELSE [path |-> "/api/v2/query", contentType |-> "application/json", body |-> r]

\* http.CheckError: nil for a 2xx status; otherwise the error is decoded
\* from the response body.
CheckError(status) == status \div 100 = 2

Fail == result' = "error" /\ pc' = "done"

Init ==
    /\ req \in Requests
    /\ pc = "start" /\ sent = None /\ resp = None /\ out = <<>> /\ result = "none"

\* Query's switch on CompilerType(), and in queryInfluxQL the assertion
\* that the compiler is an *influxql.Compiler.
Query ==
    /\ pc = "start"
    /\ IF \/ req.compiler.type = "flux"
          \/ req.compiler.type = "influxql" /\ req.compiler.pointer
       THEN pc' = "build" /\ UNCHANGED result
       ELSE Fail
    /\ UNCHANGED <<req, sent, resp, out>>

\* NewURL, the body's encoding, http.NewRequest and the headers; the
\* first three may fail.
BuildRequest ==
    /\ pc = "build"
    /\ \/ Fail /\ UNCHANGED sent
       \/ sent' = HTTPRequest(req) /\ pc' = "do" /\ UNCHANGED result
    /\ UNCHANGED <<req, resp, out>>

\* hc.Do: a transport error, or the server's response.
Do ==
    /\ pc = "do"
    /\ \/ Fail /\ UNCHANGED resp
       \/ \E r \in Responses : resp' = r /\ pc' = "check" /\ UNCHANGED result
    /\ UNCHANGED <<req, sent, out>>

\* Mutant: the status is not checked before the body is copied.
CheckSkipped ==
    /\ pc = "check"
    /\ pc' = "copy"
    /\ UNCHANGED <<req, sent, resp, out, result>>

\* CheckError(resp): an error status is returned as the error, its body
\* read into the error and not written to w.
Check ==
    /\ pc = "check"
    /\ IF CheckError(resp.status) THEN pc' = "copy" /\ UNCHANGED result ELSE Fail
    /\ UNCHANGED <<req, sent, resp, out>>

\* io.Copy(w, resp.Body), a chunk per step: a chunk is written, or a read
\* or write fails and Query returns the error with what was written so
\* far left in w, or the body is exhausted and Query returns nil.
Copy ==
    /\ pc = "copy"
    /\ \/ Fail /\ UNCHANGED out
       \/ /\ Len(out) < Len(resp.body)
          /\ out' = Append(out, resp.body[Len(out) + 1])
          /\ UNCHANGED <<pc, result>>
       \/ /\ Len(out) = Len(resp.body)
          /\ result' = "ok" /\ pc' = "done"
          /\ UNCHANGED out
    /\ UNCHANGED <<req, sent, resp>>

Next == Query \/ BuildRequest \/ Do \/ Check \/ Copy

Spec == Init /\ [][Next]_vars

----------------------------------------------------------------------------
TypeOK ==
    /\ pc \in {"start", "build", "do", "check", "copy", "done"}
    /\ result \in {"none", "ok", "error"}
    /\ resp \in Responses \union {None}
    /\ (pc = "done") = (result # "none")

\* What Query writes to w is part of the body of a response CheckError
\* accepted, in order and from its start: never an error response's body,
\* even when io.Copy then fails; and it is the whole body when Query
\* returns nil.
RelaysOnlyAcceptedBody ==
    /\ out # <<>> => resp # None /\ CheckError(resp.status) /\ IsPrefix(out, resp.body)
    /\ result = "ok" => /\ resp # None /\ CheckError(resp.status)
                        /\ out = resp.body

====
