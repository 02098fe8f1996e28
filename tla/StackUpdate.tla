----------------------------- MODULE StackUpdate -----------------------------
(***************************************************************************)
(* `influx stacks update`: stackUpdateRunEFn of cmd/influx/template.go.   *)
(* The --addResource "kind=id" pairs are parsed, UpdateStack is called,    *)
(* and when resources were added and no --file is given the user is asked *)
(* up to three times whether to export a new template.  A raw pair is a   *)
(* sequence of tokens, "=" the separator.                                  *)
(***************************************************************************)
EXTENDS Integers, Sequences, SequencesExt

CONSTANTS
    Args,           \* [stackID, resources, file, json] the command may get
    ValidIDs,       \* raw IDs platform.IDFromString accepts
    KindFold,       \* word -> the kind templateKindFold finds for it, for the known ones
    Answers,        \* what the user may type at the (y/n) prompt
    MaxTries        \* the prompt loop's bound: make([]struct{}, 3)

VARIABLES
    args, pc,
    additional,     \* update.AdditionalResources
    updated,        \* UpdateStack succeeded
    answers,        \* what was typed, in order
    exported,       \* exportTemplate succeeded
    result

vars == <<args, pc, additional, updated, answers, exported, result>>

getInput(typed, default) == IF typed = "" THEN default ELSE typed

\* strings.SplitN(s, "=", 2).
SplitEq(s) ==
    LET k == SelectInSeq(s, LAMBDA c : c = "=")
    IN  IF k = 0 THEN <<s>> ELSE <<SubSeq(s, 1, k - 1), SubSeq(s, k + 1, Len(s))>>

\* templateKindFold: the kind whose name equals the word under case
\* folding, else KindUnknown (the empty name), which kind.OK() rejects.
templateKindFold(w) == IF w \in DOMAIN KindFold THEN KindFold[w] ELSE <<>>

\* Mutant: the kind is checked but the word itself is stored, not folded.
ParseResourceRawKind(acc, res) ==
    LET parts == SplitEq(res) IN
    CASE acc.err # "none"       -> acc
      [] Len(parts) < 2         -> [acc EXCEPT !.failed = Append(@, res)]
      [] templateKindFold(parts[1]) = <<>> -> [acc EXCEPT !.err = "kind"]
      [] parts[2] \notin ValidIDs -> [acc EXCEPT !.err = "id"]
      [] OTHER -> [acc EXCEPT !.added = Append(@, [kind |-> parts[1], id |-> parts[2]])]

\* Mutant: a pair without "=" is skipped and not reported.
ParseResourceSkipMalformed(acc, res) ==
    LET parts == SplitEq(res) IN
    CASE acc.err # "none"       -> acc
      [] Len(parts) < 2         -> acc
      [] templateKindFold(parts[1]) = <<>> -> [acc EXCEPT !.err = "kind"]
      [] parts[2] \notin ValidIDs -> [acc EXCEPT !.err = "id"]
      [] OTHER -> [acc EXCEPT !.added = Append(@, [kind |-> templateKindFold(parts[1]), id |-> parts[2]])]

\* The parse loop: a pair without "=" is collected and reported after the
\* loop; the kind is folded, and an unknown kind or a bad ID returns at
\* once.
ParseResource(acc, res) ==
    LET parts == SplitEq(res) IN
    CASE acc.err # "none"       -> acc
      [] Len(parts) < 2         -> [acc EXCEPT !.failed = Append(@, res)]
      [] templateKindFold(parts[1]) = <<>> -> [acc EXCEPT !.err = "kind"]
      [] parts[2] \notin ValidIDs -> [acc EXCEPT !.err = "id"]
      [] OTHER -> [acc EXCEPT !.added = Append(@, [kind |-> templateKindFold(parts[1]), id |-> parts[2]])]

ParseResources(rs) == FoldLeft(ParseResource, [err |-> "none", failed |-> <<>>, added |-> <<>>], rs)

\* svcFn, the stack ID, the pairs, UpdateStack and writeStack (only
\* writeJSON can fail); then nothing more without added resources, the
\* export straight away with --file, and the prompt without.
Start ==
    LET p == ParseResources(args.resources) IN
    /\ pc = "start"
    /\ \/ result' = "error" /\ pc' = "done" /\ UNCHANGED <<additional, updated>>
       \/ /\ args.stackID \in ValidIDs /\ p.err = "none" /\ p.failed = <<>>
          /\ updated' = TRUE /\ additional' = p.added
          /\ \/ args.json /\ result' = "error" /\ pc' = "done"
             \/ p.added = <<>> /\ result' = "ok" /\ pc' = "done"
             \/ p.added # <<>> /\ args.file # "" /\ pc' = "export" /\ UNCHANGED result
             \/ p.added # <<>> /\ args.file = "" /\ pc' = "prompt" /\ UNCHANGED result
    /\ UNCHANGED <<args, answers, exported>>

\* Mutant: "n" does not return; the loop asks again.
PromptNoReturn ==
    /\ pc = "prompt"
    /\ \E a \in Answers :
          /\ answers' = Append(answers, a)
          /\ IF getInput(a, "n") = "y" THEN pc' = "export"
             ELSE pc' = IF Len(answers') = MaxTries THEN "export" ELSE "prompt"
    /\ UNCHANGED <<args, additional, updated, exported, result>>

\* "Export a new template with these updates ...? (y/n)", default "n":
\* "y" breaks to the export, "n" returns, anything else asks again, and
\* after MaxTries answers the loop ends and the export follows.
Prompt ==
    /\ pc = "prompt"
    /\ \E a \in Answers :
          /\ answers' = Append(answers, a)
          /\ CASE getInput(a, "n") = "y" -> pc' = "export" /\ UNCHANGED result
               [] getInput(a, "n") = "n" -> pc' = "done" /\ result' = "ok"
               [] OTHER -> pc' = (IF Len(answers') = MaxTries THEN "export" ELSE "prompt")
                           /\ UNCHANGED result
    /\ UNCHANGED <<args, additional, updated, exported>>

\* exportTemplate with the stack's ID.
Export ==
    /\ pc = "export"
    /\ \/ exported' = TRUE /\ result' = "ok"
       \/ result' = "error" /\ UNCHANGED exported
    /\ pc' = "done"
    /\ UNCHANGED <<args, additional, updated, answers>>

Init ==
    /\ args \in Args
    /\ pc = "start" /\ additional = <<>> /\ updated = FALSE
    /\ answers = <<>> /\ exported = FALSE /\ result = "none"

Next == Start \/ Prompt \/ Export

Spec == Init /\ [][Next]_vars

----------------------------------------------------------------------------
TypeOK ==
    /\ pc \in {"start", "prompt", "export", "done"}
    /\ result \in {"none", "error", "ok"}
    /\ additional \in Seq([kind: Range(KindFold), id: ValidIDs])
    /\ Len(answers) <= MaxTries

\* The stack is updated only when every --addResource pair was well formed,
\* and then with all of them, in order and each of the kind its word names
\* under case folding: one malformed pair stops the update rather than
\* being dropped from it.
UpdatedAsGiven ==
    updated =>
        /\ Len(additional) = Len(args.resources)
        /\ \A k \in 1..Len(additional) : additional[k] = [kind |-> KindFold[SplitEq(args.resources[k])[1]],
                                                         id |-> SplitEq(args.resources[k])[2]]

\* The prompt asks "Export a new template ...? (y/n)" with default "n":
\* without --file a template is exported only when the user typed "y".
\* The loop recognises only "y" and "n", so three refusals it does not
\* recognise ("N", "no") end it, and the code exports anyway.
ExportOnlyOnYes ==
    (exported /\ args.file = "") => getInput(Last(answers), "n") = "y"
====
