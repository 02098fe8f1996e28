---------------------------- MODULE MCTemplateCLI ----------------------------
(***************************************************************************)
(* One invocation of the influx CLI runs one of the template commands:    *)
(* `apply`, `stacks rm`, `stacks update`, one of the `export` commands,   *)
(* `stacks init` or `stacks ls`, or `template validate`, chosen when it *)
(* starts.  The           *)
(* The variables of the commands not run keep their initial values.       *)
(***************************************************************************)
EXTENDS TemplateCLIData

CONSTANT None

VARIABLES
    cmd,
    aflags, apc, piped, envRefs, secrets, queue, actions, conflicts, answer, asked, aresult,
    rargs, rpc, listed, i, ranswers, deleted, failed, rresult,
    uargs, upc, additional, updated, uanswers, exported, uresult,
    eargs, epc, request, written, eresult,
    sargs, spc, call, printed, sresult,
    vargs, vpc, locals, remotes, parsed, isTTY, vresult

avars == <<aflags, apc, piped, envRefs, secrets, queue, actions, conflicts, answer, asked, aresult>>
rvars == <<rargs, rpc, listed, i, ranswers, deleted, failed, rresult>>
uvars == <<uargs, upc, additional, updated, uanswers, exported, uresult>>
evars == <<eargs, epc, request, written, eresult>>
svars == <<sargs, spc, call, printed, sresult>>
vvars == <<vargs, vpc, locals, remotes, parsed, isTTY, vresult>>

A == INSTANCE TemplateApply
        WITH Flags <- ApplyFlags, EnvKeys <- ApplyEnvKeys, SecretKeys <- ApplySecretKeys,
             Answers <- ApplyAnswers, ConfirmAnswers <- ApplyConfirmAnswers,
             Lower <- ApplyLower, DecodableIDs <- ApplyDecodableIDs,
             flags <- aflags, pc <- apc, result <- aresult

R == INSTANCE StackRemove
        WITH Args <- RemoveArgs, ValidIDs <- RemoveValidIDs, Existing <- RemoveExisting,
             Answers <- RemoveAnswers,
             args <- rargs, pc <- rpc, answers <- ranswers, result <- rresult

U == INSTANCE StackUpdate
        WITH Args <- UpdateArgs, ValidIDs <- UpdateValidIDs, KindFold <- UpdateKindFold,
             Answers <- UpdateAnswers, MaxTries <- 3,
             args <- uargs, pc <- upc, answers <- uanswers, result <- uresult

\* The export invocations, computed once.
Exports == ExportInvocations(FilterValues \union MalformedFilters)

E == INSTANCE TemplateExport
        WITH Invocations <- Exports, Kinds <- ExportKinds, KindValues <- ExportKindValues,
             KindFold <- ExportKindFold, Lower <- ExportLower, ValidIDs <- ExportValidIDs,
             args <- eargs, pc <- epc, result <- eresult

SI == INSTANCE StackInitList
        WITH Args <- StackArgs, ValidIDs <- StackValidIDs,
             args <- sargs, pc <- spc, result <- sresult

\* template validate: --file and --template-url lists, --recurse,
\* --encoding, and stdin a terminal or piped YAML or JSON.
ReadInvocations ==
    [files: ReadFiles, urls: ReadURLs, recurse: BOOLEAN, encoding: {"", "yaml", "json"},
     stdin: {None, "yaml", "json"}]

TR == INSTANCE TemplateRead
        WITH Invocations <- ReadInvocations, Kind <- ReadKind, Unreadable <- ReadUnreadable,
             Format <- ReadFormat, args <- vargs, pc <- vpc, result <- vresult

\* The arguments of a command that is not run are fixed to one value.
Idle(v, S) == v = CHOOSE x \in S : TRUE

Init ==
    /\ cmd \in {"apply", "rm", "update", "export", "stacks", "validate"}
    /\ cmd # "apply" => Idle(aflags, ApplyFlags)
    /\ cmd # "rm" => Idle(rargs, RemoveArgs)
    /\ cmd # "update" => Idle(uargs, UpdateArgs)
    /\ cmd # "export" => Idle(eargs, Exports)
    /\ cmd # "stacks" => Idle(sargs, StackArgs)
    /\ cmd # "validate" => Idle(vargs, ReadInvocations)
    /\ A!Init /\ R!Init /\ U!Init /\ E!Init /\ SI!Init /\ TR!Init

Next ==
    \/ cmd = "apply" /\ A!Next /\ UNCHANGED <<cmd, rvars, uvars, evars, svars, vvars>>
    \/ cmd = "rm" /\ R!Next /\ UNCHANGED <<cmd, avars, uvars, evars, svars, vvars>>
    \/ cmd = "update" /\ U!Next /\ UNCHANGED <<cmd, avars, rvars, evars, svars, vvars>>
    \/ cmd = "export" /\ E!Next /\ UNCHANGED <<cmd, avars, rvars, uvars, svars, vvars>>
    \/ cmd = "stacks" /\ SI!Next /\ UNCHANGED <<cmd, avars, rvars, uvars, evars, vvars>>
    \/ cmd = "validate" /\ TR!Next /\ UNCHANGED <<cmd, avars, rvars, uvars, evars, svars>>

Spec == Init /\ [][Next]_<<cmd, avars, rvars, uvars, evars, svars, vvars>>

----------------------------------------------------------------------------
\* The state of each command has its type (TemplateApply, StackRemove and
\* StackUpdate's, TemplateExport's, StackInitList's and TemplateRead's
\* TypeOK).
TypeOK == A!TypeOK /\ R!TypeOK /\ U!TypeOK /\ E!TypeOK /\ SI!TypeOK /\ TR!TypeOK

\* apply: no prompt is shown when the template was piped, and a terminal
\* session applies unforced only after confirming its last value prompt.
PromptsOnlyTerminal == A!PromptsOnlyTerminal

\* apply: a template with conflicts is applied only with --force conflict
\* or after a terminal user confirmed or forced it.
ConflictsNeedOverride == A!ConflictsNeedOverride

\* stacks rm: on success, exactly the forced or confirmed listed stacks
\* were removed.
DeletedExactlyConfirmed == R!DeletedExactlyConfirmed

\* stacks rm: after a failed DeleteStack no later stack has been removed.
NothingDeletedAfterFailure == R!NothingDeletedAfterFailure

\* stacks update: the update goes ahead only with every --addResource pair
\* well formed, and then with all of them in order.
UpdatedAsGiven == U!UpdatedAsGiven

\* export: a template is written only if every listed ID parses, and then
\* of exactly the listed resources.
ExportAsListed == E!ExportAsListed

\* export all: every --filter narrows the export.
FiltersApplied == E!FiltersApplied

\* template validate: pkger parsed exactly the files, URLs and stdin the
\* command named, each once.
ReadsExactlyTheNamed == TR!ReadsExactlyTheNamed
====
