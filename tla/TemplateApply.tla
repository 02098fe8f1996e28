---------------------------- MODULE TemplateApply ----------------------------
(***************************************************************************)
(* The `influx apply` command: applyRunEFn of cmd/influx/template.go with  *)
(* the helpers it calls (mapKeys, missingValKeys, parseTemplateActions,    *)
(* getInput).  The flags are fixed before RunE starts; the service calls   *)
(* (org lookup, template read, DryRun, Apply) and the user's answers are   *)
(* the environment's choices.                                              *)
(*                                                                         *)
(* readTemplate's second result, named isTTY in the code, is TRUE when the *)
(* template came through a pipe on stdin (inStdIn: stdin is not a         *)
(* character device); it is called piped here.  Then no prompt can be     *)
(* answered, and the code asks none.                                       *)
(*                                                                         *)
(* Command-line strings are sequences of tokens: a word stands for a run  *)
(* of letters, and "=" and ":" are the separators the code splits on.     *)
(***************************************************************************)
EXTENDS Integers, Sequences, SequencesExt, FiniteSets

CONSTANTS
    Flags,          \* the flag values apply may be started with
    EnvKeys,        \* env-ref keys a template may leave missing
    SecretKeys,     \* secret keys a dry run may report missing
    Answers,        \* what the user may type at a value prompt
    ConfirmAnswers, \* what the user may type at the (y/n) prompt
    Lower,          \* strings.ToLower on the words and answers used
    DecodableIDs    \* stack IDs platform.ID.DecodeFromString accepts

VARIABLES
    flags,          \* [force, stackID, filters, envRefs, secrets, json]
    pc,             \* where applyRunEFn is
    piped,          \* readTemplate's isTTY
    envRefs,        \* providedEnvRefs
    secrets,        \* providedSecrets
    queue,          \* keys still to prompt for
    actions,        \* parseTemplateActions' result
    conflicts,      \* dryRunImpact.Diff.HasConflicts()
    answer,         \* the answer to the confirmation prompt
    asked,          \* the prompts shown, in order: "env", "secret", "confirm"
    result          \* how the command ended

vars == <<flags, pc, piped, envRefs, secrets, queue, actions, conflicts, answer, asked, result>>

Skip == <<"$$skip-this-key$$">>

\* strings.SplitN(s, sep, 2).
SplitN(s, sep) ==
    LET i == SelectInSeq(s, LAMBDA c : c = sep)
    IN  IF i = 0 THEN <<s>> ELSE <<SubSeq(s, 1, i - 1), SubSeq(s, i + 1, Len(s))>>

ToLower(s) == [i \in DOMAIN s |-> Lower[s[i]]]

\* strconv.ParseBool; an unparsable value is false (the error is dropped).
ParseBool(s) == s \in {"1", "t", "T", "TRUE", "true", "True"}

\* getInput: the typed line, or the default for an empty one.
getInput(typed, default) == IF typed = <<>> THEN default ELSE typed

\* Mutant: the check that the key was provided is dropped.
mapKeysAnyKey(provided, kvPairs) ==
    LET Set(out, pair) ==
            LET pieces == SplitN(pair, "=")
            IN  IF Len(pieces) < 2 THEN out
                ELSE [k \in DOMAIN out \union {pieces[1]} |-> IF k = pieces[1] THEN pieces[2] ELSE out[k]]
    IN  FoldLeft(Set, [k \in provided |-> <<>>], kvPairs)

\* mapKeys: every provided key with "", then each "k=v" pair whose key is
\* provided sets its value; pairs without "=" or with other keys are
\* skipped.
mapKeys(provided, kvPairs) ==
    LET Set(out, pair) ==
            LET pieces == SplitN(pair, "=")
            IN  IF Len(pieces) < 2 \/ pieces[1] \notin DOMAIN out THEN out
                ELSE [out EXCEPT ![pieces[1]] = pieces[2]]
    IN  FoldLeft(Set, [k \in provided |-> <<>>], kvPairs)

\* missingValKeys: the keys whose value is "", in sorted order (at most
\* one key of each kind is missing at once in the model, so the order is
\* the only one).
missingValKeys(m) == SetToSeq({k \in DOMAIN m : m[k] = <<>>})

\* parseTemplateActions, one argument at a time; the first error or panic
\* ends it.  For "resource" the code checks len(pair), which is always 2
\* there, and then indexes pp[1]: a value without ":" panics.
ParseAction(acc, raw) ==
    LET pair == SplitN(raw, "=")
        pp   == SplitN(pair[Len(pair)], ":")
    IN  CASE acc.status # "ok" \/ Len(pair) < 2 -> acc
          [] ToLower(pair[1]) = <<"kind">> ->
               [acc EXCEPT !.opts = Append(@, [skip |-> "kind", kind |-> pair[2]])]
          [] ToLower(pair[1]) = <<"resource">> /\ Len(pair) # 2 -> [acc EXCEPT !.status = "error"]
          [] ToLower(pair[1]) = <<"resource">> /\ Len(pp) < 2 -> [acc EXCEPT !.status = "panic"]
          [] ToLower(pair[1]) = <<"resource">> ->
               [acc EXCEPT !.opts = Append(@, [skip |-> "resource", kind |-> pp[1], name |-> pp[2]])]
          [] OTHER -> [acc EXCEPT !.status = "error"]

parseTemplateActions(args) == FoldLeft(ParseAction, [status |-> "ok", opts |-> <<>>], args)
----------------------------------------------------------------------------
\* validOrgFlags, svcFn, org.getID and readTemplate: any may fail.  On
\* success the template's missing env refs are filled from --env-ref and
\* the rest are prompted for.
Start ==
    /\ pc = "start"
    /\ \/ /\ result' = "error"
          /\ pc' = "done"
          /\ UNCHANGED <<piped, envRefs, queue>>
       \/ /\ \E p \in BOOLEAN, missing \in SUBSET EnvKeys :
                /\ piped' = p
                /\ envRefs' = mapKeys(missing, flags.envRefs)
                /\ queue' = IF p THEN <<>> ELSE missingValKeys(envRefs')
          /\ pc' = "envPrompt"
          /\ UNCHANGED result
    /\ UNCHANGED <<flags, secrets, actions, conflicts, answer, asked>>

\* "Please provide environment reference value for key ...", default "".
PromptEnvRef ==
    /\ pc = "envPrompt"
    /\ queue # <<>>
    /\ \E typed \in Answers :
           envRefs' = [envRefs EXCEPT ![Head(queue)] = getInput(typed, <<>>)]
    /\ queue' = Tail(queue)
    /\ asked' = Append(asked, "env")
    /\ UNCHANGED <<flags, pc, piped, secrets, actions, conflicts, answer, result>>

\* Mutant: the secrets are prompted for whatever the input is.
SecretPromptsAlways(keys) == missingValKeys(keys)

\* The secrets left to prompt for: none when the template was piped.
SecretPrompts(keys) == IF piped THEN <<>> ELSE missingValKeys(keys)

\* The stack ID is decoded, the --filter actions parsed, and DryRun run;
\* its missing secrets are filled from --secret and the rest prompted for.
DryRun ==
    LET parsed == parseTemplateActions(flags.filters)
    IN  /\ pc = "envPrompt"
        /\ queue = <<>>
        /\ CASE flags.stackID # "" /\ flags.stackID \notin DecodableIDs ->
                    result' = "error" /\ pc' = "done" /\ UNCHANGED <<secrets, queue, conflicts>>
             [] parsed.status = "panic" ->
                    result' = "panic" /\ pc' = "done" /\ UNCHANGED <<secrets, queue, conflicts>>
             [] parsed.status = "error" ->
                    result' = "error" /\ pc' = "done" /\ UNCHANGED <<secrets, queue, conflicts>>
             [] OTHER ->
                    \/ result' = "error" /\ pc' = "done" /\ UNCHANGED <<secrets, queue, conflicts>>
                    \/ /\ \E missing \in SUBSET SecretKeys, c \in BOOLEAN :
                              /\ secrets' = mapKeys(missing, flags.secrets)
                              /\ queue' = SecretPrompts(secrets')
                              /\ conflicts' = c
                       /\ pc' = "secretPrompt"
                       /\ UNCHANGED result
        /\ actions' = parsed.opts
        /\ UNCHANGED <<flags, piped, envRefs, answer, asked>>

\* "Please provide secret value for key ... (optional, press enter to
\* skip)": an empty answer or the skip default leaves the secret unset.
PromptSecret ==
    /\ pc = "secretPrompt"
    /\ queue # <<>>
    /\ \E typed \in Answers :
           LET v == getInput(typed, Skip)
           IN  secrets' = IF v # <<>> /\ v # Skip THEN [secrets EXCEPT ![Head(queue)] = v]
                          ELSE secrets
    /\ queue' = Tail(queue)
    /\ asked' = Append(asked, "secret")
    /\ UNCHANGED <<flags, pc, piped, envRefs, actions, conflicts, answer, result>>

\* Mutant: the prompt is asked of the piped session, read as "is a TTY".
NeedsConfirmInverted == piped /\ ~ParseBool(flags.force) /\ flags.force # "conflict"

\* Mutant: the conflict check is made for the terminal session instead.
BlockedByConflictsTerminal == flags.force # "conflict" /\ ~piped /\ conflicts

\* The confirmation is asked of a terminal session unless --force parses
\* as true or is "conflict".
NeedsConfirm == ~piped /\ ~ParseBool(flags.force) /\ flags.force # "conflict"

\* A piped session with conflicts stops unless --force is "conflict".
BlockedByConflicts == flags.force # "conflict" /\ piped /\ conflicts

\* printTemplateDiff (only writeJSON can fail), the confirmation prompt
\* with default "n", and the conflict check, in the code's order.
Confirm ==
    /\ pc = "secretPrompt"
    /\ queue = <<>>
    /\ \/ /\ flags.json
          /\ result' = "error" /\ pc' = "done" /\ UNCHANGED <<answer, asked>>
       \/ \E typed \in IF NeedsConfirm THEN ConfirmAnswers ELSE {<<"none">>} :
             /\ answer' = typed
             /\ asked' = IF NeedsConfirm THEN Append(asked, "confirm") ELSE asked
             /\ CASE NeedsConfirm /\ ToLower(getInput(typed, <<"n">>)) # <<"y">> ->
                         result' = "aborted" /\ pc' = "done"
                  [] BlockedByConflicts ->
                         result' = "conflicts" /\ pc' = "done"
                  [] OTHER ->
                         pc' = "apply" /\ UNCHANGED result
    /\ UNCHANGED <<flags, piped, envRefs, secrets, queue, actions, conflicts>>

\* svc.Apply with the env refs, actions and secrets gathered above.
Apply ==
    /\ pc = "apply"
    /\ result' \in {"applied", "error"}
    /\ pc' = "done"
    /\ UNCHANGED <<flags, piped, envRefs, secrets, queue, actions, conflicts, answer, asked>>

Init ==
    /\ flags \in Flags
    /\ pc = "start"
    /\ piped = FALSE
    /\ envRefs = <<>>
    /\ secrets = <<>>
    /\ queue = <<>>
    /\ actions = <<>>
    /\ conflicts = FALSE
    /\ answer = <<"none">>
    /\ asked = <<>>
    /\ result = "none"

Next == Start \/ PromptEnvRef \/ DryRun \/ PromptSecret \/ Confirm \/ Apply

Spec == Init /\ [][Next]_vars

----------------------------------------------------------------------------
TypeOK ==
    /\ pc \in {"start", "envPrompt", "secretPrompt", "apply", "done"}
    /\ result \in {"none", "error", "panic", "aborted", "conflicts", "applied"}
    /\ piped \in BOOLEAN /\ conflicts \in BOOLEAN
    /\ DOMAIN envRefs \subseteq EnvKeys /\ DOMAIN secrets \subseteq SecretKeys

\* The prompts go to the terminal only: when the template came through the
\* pipe, stdin holds the template and no prompt (env ref, secret or
\* confirmation) is shown.  A terminal session that applies without
\* --force true or conflict was shown the confirmation, and after its last
\* value prompt: the user confirms the values given.  The three prompts
\* are guarded apart in applyRunEFn (lines 214, 246, 262).
PromptsOnlyTerminal ==
    /\ piped => asked = <<>>
    /\ result = "applied" /\ ~piped /\ ~ParseBool(flags.force) /\ flags.force # "conflict" =>
           asked # <<>> /\ Last(asked) = "confirm" /\ ToLower(answer) = <<"y">>

\* A template with conflicts is applied only with --force conflict or after
\* a terminal user confirmed (or forced) it: the HasConflicts check.
ConflictsNeedOverride ==
    result = "applied" /\ conflicts =>
        \/ flags.force = "conflict"
        \/ ~piped /\ (ToLower(answer) = <<"y">> \/ ParseBool(flags.force))

\* The command returns an error or succeeds; it never panics on any
\* --filter value.
NoPanic == result # "panic"

====
