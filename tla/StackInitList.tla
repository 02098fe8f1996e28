---------------------------- MODULE StackInitList ----------------------------
(***************************************************************************)
(* `influx stacks init` and `influx stacks ls`: stackInitRunEFn and        *)
(* stackListRunEFn of cmd/influx/template.go, with writeStack.  The org   *)
(* is looked up, init creates a stack and ls lists the stacks of the      *)
(* --stack-id and --stack-name filters, and the result is printed as JSON *)
(* or a table.  The service calls and the JSON write may fail: those are   *)
(* the environment's choices.                                              *)
(***************************************************************************)
EXTENDS Sequences, SequencesExt

CONSTANTS
    Args,           \* [cmd, name, urls, stackIDs, names, json] the command may get
    ValidIDs,       \* raw IDs platform.IDFromString accepts
    None

VARIABLES
    args,
    pc,             \* "start", "call", "print" or "done"
    call,           \* the StackCreate or ListFilter passed to the service
    printed,        \* "json" or "table" once the stacks are printed
    result

vars == <<args, pc, call, printed, result>>

\* The stack IDs of --stack-id, parsed in order; the first that does not
\* parse is returned as the error.
ParsedIDs(a) == [ok |-> \A k \in DOMAIN a.stackIDs : a.stackIDs[k] \in ValidIDs, ids |-> a.stackIDs]

\* What the service is called with: StackCreate{OrgID, Name, Description,
\* TemplateURLs} for init, ListFilter{StackIDs, Names} for ls.
Request(a) ==
    IF a.cmd = "init" THEN [org |-> TRUE, name |-> a.name, urls |-> a.urls]
    ELSE [org |-> TRUE, stackIDs |-> ParsedIDs(a).ids, names |-> a.names]

Fail == result' = "error" /\ pc' = "done"

Init ==
    /\ args \in Args
    /\ pc = "start" /\ call = None /\ printed = None /\ result = "none"

\* svcFn and org.getID, which may fail; for ls then the ID parsing.
Start ==
    /\ pc = "start"
    /\ \/ Fail
       \/ /\ args.cmd = "ls" => ParsedIDs(args).ok
          /\ pc' = "call"
          /\ UNCHANGED result
    /\ UNCHANGED <<args, call, printed>>

\* templateSVC.InitStack or ListStacks; either may fail.
Call ==
    /\ pc = "call"
    /\ \/ Fail /\ UNCHANGED call
       \/ call' = Request(args) /\ pc' = "print" /\ UNCHANGED result
    /\ UNCHANGED <<args, printed>>

\* writeStack or the ls output: writeJSON, which may fail, with --json;
\* otherwise the table rows, written without an error.
WriteStacks ==
    /\ pc = "print"
    /\ \/ args.json /\ Fail /\ UNCHANGED printed
       \/ /\ printed' = IF args.json THEN "json" ELSE "table"
          /\ result' = "ok" /\ pc' = "done"
    /\ UNCHANGED <<args, call>>

Next == Start \/ Call \/ WriteStacks

Spec == Init /\ [][Next]_vars

----------------------------------------------------------------------------
TypeOK ==
    /\ pc \in {"start", "call", "print", "done"}
    /\ result \in {"none", "error", "ok"}
    /\ printed \in {None, "json", "table"}

====
