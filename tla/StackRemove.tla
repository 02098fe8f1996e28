----------------------------- MODULE StackRemove -----------------------------
(***************************************************************************)
(* `influx stacks rm`: stackRemoveRunEFn of cmd/influx/template.go.  The   *)
(* stacks ListStacks returns for the --stack-id values are printed and,    *)
(* one at a time, confirmed and deleted; the first failure ends the        *)
(* command.  The service calls and the answers are the environment's.     *)
(***************************************************************************)
EXTENDS Integers, Sequences, SequencesExt, FiniteSets

CONSTANTS
    Args,           \* [ids: raw --stack-id values, force, json] the command may get
    ValidIDs,       \* raw IDs platform.IDFromString accepts
    Existing,       \* IDs of the org's stacks
    Answers,        \* what the user may type at the (y/n) prompt
    None

VARIABLES
    args, pc,
    listed,         \* the stacks ListStacks returned, in its order
    i,              \* the loop index into listed
    answers,        \* stack -> what was typed for it
    deleted,        \* stacks DeleteStack removed
    failed,         \* the stack whose DeleteStack failed, or None
    result

vars == <<args, pc, listed, i, answers, deleted, failed, result>>

getInput(typed, default) == IF typed = "" THEN default ELSE typed

\* Mutant: the answer is compared case-insensitively, as apply does.
ConfirmedFoldCase(a) == args.force \/ getInput(a, "n") \in {"y", "Y"}

\* A stack is confirmed by --force or by an answer of exactly "y".
Confirmed(a) == args.force \/ getInput(a, "n") = "y"

\* Mutant: the stacks are taken from the arguments, not from ListStacks.
StartFromArgs ==
    /\ pc = "start"
    /\ \/ result' = "error" /\ pc' = "done" /\ UNCHANGED listed
       \/ /\ \A k \in DOMAIN args.ids : args.ids[k] \in ValidIDs
          /\ listed' \in SetToSeqs(Range(args.ids))
          /\ pc' = "loop"
          /\ UNCHANGED result
    /\ UNCHANGED <<args, i, answers, deleted, failed>>

\* svcFn, org.getID, the ID parsing and ListStacks; any may fail.  The
\* order of the listed stacks is the store's.
Start ==
    /\ pc = "start"
    /\ \/ result' = "error" /\ pc' = "done" /\ UNCHANGED listed
       \/ /\ \A k \in DOMAIN args.ids : args.ids[k] \in ValidIDs
          /\ listed' \in SetToSeqs(Range(args.ids) \cap Existing)
          /\ pc' = "loop"
          /\ UNCHANGED result
    /\ UNCHANGED <<args, i, answers, deleted, failed>>

\* Mutant: a failed delete is skipped and the loop goes on.
RemoveOneContinue ==
    LET s == listed[i] IN
    /\ pc = "loop" /\ i <= Len(listed)
    /\ \/ /\ args.json
          /\ result' = "error" /\ pc' = "done"
          /\ UNCHANGED <<i, answers, deleted, failed>>
       \/ \E a \in IF args.force THEN {None} ELSE Answers :
             /\ answers' = answers @@ (s :> a)
             /\ i' = i + 1
             /\ UNCHANGED <<pc, result>>
             /\ CASE ~Confirmed(a) -> UNCHANGED <<deleted, failed>>
                  [] OTHER -> \/ deleted' = deleted \union {s} /\ UNCHANGED failed
                              \/ failed' = s /\ UNCHANGED deleted
    /\ UNCHANGED <<args, listed>>

\* Mutant: a declined stack ends the loop (return) instead of skipping to
\* the next (continue).
RemoveOneStopOnDecline ==
    LET s == listed[i] IN
    /\ pc = "loop" /\ i <= Len(listed)
    /\ \/ /\ args.json
          /\ result' = "error" /\ pc' = "done"
          /\ UNCHANGED <<i, answers, deleted, failed>>
       \/ \E a \in IF args.force THEN {None} ELSE Answers :
             /\ answers' = answers @@ (s :> a)
             /\ CASE ~Confirmed(a) ->
                        result' = "ok" /\ pc' = "done" /\ UNCHANGED <<i, deleted, failed>>
                  [] OTHER ->
                        \/ deleted' = deleted \union {s} /\ i' = i + 1
                           /\ UNCHANGED <<pc, result, failed>>
                        \/ failed' = s /\ result' = "error" /\ pc' = "done"
                           /\ UNCHANGED <<i, deleted>>
    /\ UNCHANGED <<args, listed>>

\* One turn of the loop: printStack (only writeJSON can fail), the prompt
\* with default "n" unless --force, where only "y" confirms, and
\* DeleteStack, whose error ends the command.
RemoveOne ==
    LET s == listed[i] IN
    /\ pc = "loop" /\ i <= Len(listed)
    /\ \/ /\ args.json
          /\ result' = "error" /\ pc' = "done"
          /\ UNCHANGED <<i, answers, deleted, failed>>
       \/ \E a \in IF args.force THEN {None} ELSE Answers :
             /\ answers' = answers @@ (s :> a)
             /\ CASE ~Confirmed(a) ->
                        i' = i + 1 /\ UNCHANGED <<pc, result, deleted, failed>>
                  [] OTHER ->
                        \/ deleted' = deleted \union {s} /\ i' = i + 1
                           /\ UNCHANGED <<pc, result, failed>>
                        \/ failed' = s /\ result' = "error" /\ pc' = "done"
                           /\ UNCHANGED <<i, deleted>>
    /\ UNCHANGED <<args, listed>>

Finish ==
    /\ pc = "loop" /\ i > Len(listed)
    /\ result' = "ok" /\ pc' = "done"
    /\ UNCHANGED <<args, listed, i, answers, deleted, failed>>

Init ==
    /\ args \in Args
    /\ pc = "start" /\ listed = <<>> /\ i = 1
    /\ answers = <<>> /\ deleted = {} /\ failed = None /\ result = "none"

Next == Start \/ RemoveOne \/ Finish

Spec == Init /\ [][Next]_vars

----------------------------------------------------------------------------
TypeOK ==
    /\ pc \in {"start", "loop", "done"}
    /\ result \in {"none", "error", "ok"}
    /\ deleted \subseteq Existing
    /\ failed \in Existing \union {None}

\* When stacks rm returns nil, every listed stack was put to the user (or
\* forced) and the stacks removed are exactly those forced or answered
\* exactly "y" (the comparison at line 820 is case-sensitive): a declined
\* stack is skipped, not the end of the loop, and none confirmed is left.
DeletedExactlyConfirmed ==
    result = "ok" =>
        /\ DOMAIN answers = Range(listed)
        /\ deleted = {s \in Range(listed) : args.force \/ answers[s] = "y"}

\* When a DeleteStack fails, no stack listed after it has been removed:
\* the error ends the loop, so the user is told of the first failure and
\* the later stacks are untouched.
NothingDeletedAfterFailure ==
    failed # None =>
        \A s \in deleted : IndexFirstSubSeq(<<s>>, listed) < IndexFirstSubSeq(<<failed>>, listed)

====
