---------------------------- MODULE TemplateExport ----------------------------
(***************************************************************************)
(* `influx export`, `influx export all` and `influx export stack`:        *)
(* exportRunEFn, exportAllRunEFn and exportStackRunEFn of                 *)
(* cmd/influx/template.go, with the helpers they call (newResourcesToClone,*)
(* toInfluxIDs, templateKindFold, readLines, exportTemplate,              *)
(* writeTemplate, createTemplateBuf).  A command builds the export        *)
(* options from its flags, the template service exports, and the template *)
(* is written.  The service calls, the org lookup and the writes may fail: *)
(* those are the environment's choices.                                    *)
(*                                                                         *)
(* Command-line strings are sequences of tokens: a word stands for a run  *)
(* of letters or digits, and ",", "=", "\n", " " and "." are the          *)
(* characters the code splits or trims on.  stdin is what was piped to   *)
(* the command; when it is a terminal inStdIn fails and the arguments     *)
(* stay, as they do for an empty pipe, so it is then <<>>.                *)
(***************************************************************************)
EXTENDS Integers, Sequences, SequencesExt

CONSTANTS
    Invocations,    \* the flags and arguments a command may be started with
    Kinds,          \* the kinds of the per-kind flags, in resTypes' order
    KindValues,     \* the strings pkger.Kind.OK accepts (exact case)
    KindFold,       \* word -> the kind templateKindFold finds, for the words used
    Lower,          \* strings.ToLower on the words used
    ValidIDs,       \* lower-case strings platform.IDFromString accepts
    None

VARIABLES
    args,           \* the invocation
    pc,             \* "start", "export", "write" or "done"
    request,        \* the options passed to templateSVC.Export
    written,        \* [to, encoding, template] of the template written
    result

vars == <<args, pc, request, written, result>>

\* strings.Split(s, sep): every piece between separators.
RECURSIVE Split(_, _)
Split(s, sep) ==
    LET i == SelectInSeq(s, LAMBDA c : c = sep)
    IN  IF i = 0 THEN <<s>> ELSE <<SubSeq(s, 1, i - 1)>> \o Split(SubSeq(s, i + 1, Len(s)), sep)

\* strings.SplitN(s, sep, 2).
SplitN(s, sep) ==
    LET i == SelectInSeq(s, LAMBDA c : c = sep)
    IN  IF i = 0 THEN <<s>> ELSE <<SubSeq(s, 1, i - 1), SubSeq(s, i + 1, Len(s))>>

\* strings.TrimSpace: the leading and trailing blanks dropped.
TrimSpace(s) ==
    LET text == {i \in DOMAIN s : s[i] # " "}
    IN  IF text = {} THEN <<>> ELSE SubSeq(s, Min(text), Max(text))

ToLower(s) == [i \in DOMAIN s |-> Lower[s[i]]]

Resource(kind, id, name) == [kind |-> kind, id |-> id, name |-> name]

\* Mutant: an ID that does not parse is skipped instead of reported.
toInfluxIDsSkipInvalid(idStrs) ==
    LET normed == [k \in DOMAIN idStrs |-> TrimSpace(ToLower(idStrs[k]))]
        ids    == SelectSeq(normed, LAMBDA a : a # <<>> /\ a \in ValidIDs)
    IN  [err |-> FALSE, ids |-> ids]

\* toInfluxIDs: each argument lower-cased and trimmed; blank ones skipped;
\* one that IDFromString rejects is collected and, after the loop, makes
\* the whole call fail.
toInfluxIDs(idStrs) ==
    LET normed == [k \in DOMAIN idStrs |-> TrimSpace(ToLower(idStrs[k]))]
        ids    == SelectSeq(normed, LAMBDA a : a # <<>>)
    IN  [err |-> \E k \in DOMAIN ids : ids[k] \notin ValidIDs, ids |-> ids]

\* newResourcesToClone: a resource per ID, then one per non-empty name.
newResourcesToClone(kind, idStrs, names) ==
    LET r == toInfluxIDs(idStrs) IN
    [err |-> r.err,
     resources |-> {Resource(kind, r.ids[k], <<>>) : k \in DOMAIN r.ids}
                   \union {Resource(kind, <<>>, names[k]) : k \in {k \in DOMAIN names : names[k] # <<>>}}]

\* templateKindFold: the kind equal to the string under case folding, or
\* KindUnknown.
templateKindFold(resType) == IF resType \in DOMAIN KindFold THEN KindFold[resType] ELSE None

\* readLines: the lines of stdin, trimmed, the blank ones skipped.
readLines(in) ==
    LET lines == [k \in DOMAIN Split(in, "\n") |-> TrimSpace(Split(in, "\n")[k])]
    IN  SelectSeq(lines, LAMBDA l : l # <<>>)

\* The options exportRunEFn builds, or the error it returns before calling
\* Export: the per-kind flags in order, the --stack-id, then with
\* --resource-type the IDs of the arguments, or of stdin when it is piped
\* and has lines.
ExportOptions(a) ==
    LET perKind   == [k \in DOMAIN Kinds |->
                        newResourcesToClone(Kinds[k], Split(a.ids[k], ","), Split(a.names[k], ","))]
        resKind   == templateKindFold(a.resourceType)
        stdinInpt == readLines(a.stdin)
        typeArgs  == IF stdinInpt # <<>> THEN stdinInpt ELSE a.args
        byType    == newResourcesToClone(resKind, typeArgs, <<>>)
        typed     == a.resourceType # <<>>
    IN  [err |-> \/ \E k \in DOMAIN perKind : perKind[k].err
                 \/ a.stackID # <<>> /\ a.stackID \notin ValidIDs
                 \/ typed /\ resKind = None
                 \/ typed /\ byType.err,
         resources |-> UNION {perKind[k].resources : k \in DOMAIN perKind}
                       \union (IF typed THEN byType.resources ELSE {}),
         stackID |-> a.stackID, org |-> FALSE, labelNames |-> <<>>, kinds |-> <<>>]

\* The loop of exportAllRunEFn over --filter: a value without "=" is
\* skipped; labelName adds a label name; kind and resourceKind add a kind
\* that must be OK; any other key is an error.
AddFilter(acc, filter) ==
    LET pair == SplitN(filter, "=") IN
    CASE acc.err \/ Len(pair) < 2 -> acc
      [] pair[1] = <<"labelName">> -> [acc EXCEPT !.labelNames = Append(@, pair[2])]
      [] pair[1] \in {<<"kind">>, <<"resourceKind">>} /\ pair[2] \in KindValues ->
             [acc EXCEPT !.kinds = Append(@, pair[2])]
      [] OTHER -> [acc EXCEPT !.err = TRUE]

ExportAllOptions(a) ==
    FoldLeft(AddFilter, [err |-> FALSE, resources |-> {}, stackID |-> <<>>, org |-> TRUE,
                         labelNames |-> <<>>, kinds |-> <<>>], a.filters)

\* exportStackRunEFn: the stack ID argument, not trimmed nor lower-cased.
ExportStackOptions(a) ==
    [err |-> a.args[1] \notin ValidIDs, resources |-> {}, stackID |-> a.args[1], org |-> FALSE,
     labelNames |-> <<>>, kinds |-> <<>>]

Options(a) ==
    CASE a.cmd = "export" -> ExportOptions(a)
      [] a.cmd = "all"    -> ExportAllOptions(a)
      [] a.cmd = "stack"  -> ExportStackOptions(a)

\* filepath.Ext: the suffix from the last "." on, or nothing.
Ext(path) ==
    LET dot == SelectLastInSeq(path, LAMBDA c : c = ".")
    IN  IF dot = 0 THEN <<>> ELSE SubSeq(path, dot, Len(path))

\* createTemplateBuf: JSON for the extension ".json", YAML for any other.
createTemplateBuf(outPath) == IF Ext(outPath) = <<".", "json">> THEN "json" ELSE "yaml"

----------------------------------------------------------------------------
Init ==
    /\ args \in Invocations
    /\ pc = "start" /\ request = None /\ written = None /\ result = "none"

Fail == result' = "error" /\ pc' = "done"

\* svcFn, for export all org.getID, then the options: svcFn and getID
\* may fail whatever the flags, the options by the flags.
Start ==
    /\ pc = "start"
    /\ \/ Fail /\ UNCHANGED request
       \/ /\ ~Options(args).err
          /\ request' = Options(args)
          /\ pc' = "export"
          /\ UNCHANGED result
    /\ UNCHANGED <<args, written>>

\* exportTemplate: templateSVC.Export with the options; it may fail.
Export ==
    /\ pc = "export"
    /\ \/ Fail
       \/ pc' = "write" /\ UNCHANGED result
    /\ UNCHANGED <<args, request, written>>

\* writeTemplate: the template encoded after the file's extension, then
\* copied to stdout (no --file) or written to the file; either may fail.
Write ==
    /\ pc = "write"
    /\ \/ Fail /\ UNCHANGED written
       \/ /\ written' = [to |-> args.file, encoding |-> createTemplateBuf(args.file),
                         template |-> request]
          /\ result' = "ok" /\ pc' = "done"
    /\ UNCHANGED <<args, request>>

Next == Start \/ Export \/ Write

Spec == Init /\ [][Next]_vars

----------------------------------------------------------------------------
TypeOK ==
    /\ pc \in {"start", "export", "write", "done"}
    /\ result \in {"none", "error", "ok"}
    /\ (pc \in {"export", "write"} \/ result = "ok") => request # None

\* The resources `influx export` names: for each kind flag, every listed ID
\* lower-cased and trimmed and every non-empty name; with --resource-type,
\* the IDs of stdin's lines or, when none were piped, of the arguments.
Listed(a) ==
    LET ids(k)   == {TrimSpace(ToLower(x)) : x \in Range(Split(a.ids[k], ","))} \ {<<>>}
        names(k) == Range(Split(a.names[k], ",")) \ {<<>>}
        lines    == {TrimSpace(l) : l \in Range(Split(a.stdin, "\n"))} \ {<<>>}
        typeIDs  == {TrimSpace(ToLower(x)) : x \in IF lines # {} THEN lines ELSE Range(a.args)} \ {<<>>}
    IN  UNION {{Resource(Kinds[k], x, <<>>) : x \in ids(k)} \union
               {Resource(Kinds[k], <<>>, n) : n \in names(k)} : k \in DOMAIN Kinds}
        \union (IF a.resourceType = <<>> THEN {}
                ELSE {Resource(templateKindFold(a.resourceType), x, <<>>) : x \in typeIDs})

\* `influx export` writes a template only if every ID it was given parses,
\* and then of exactly the resources listed: none dropped, as a skipped bad
\* ID would be, and none added.
ExportAsListed ==
    written # None /\ args.cmd = "export" =>
        /\ written.template.resources = Listed(args)
        /\ \A x \in {r.id : r \in Listed(args)} \ {<<>>} : x \in ValidIDs

\* `influx export all --filter`: every filter given narrows the export,
\* by label name or by kind, as the flag's help has it ("format:
\* --filter=labelName=example"); an unknown key is refused.
FiltersApplied ==
    written # None /\ args.cmd = "all" =>
        \A k \in DOMAIN args.filters :
            LET pair == SplitN(args.filters[k], "=") IN
            /\ Len(pair) = 2
            /\ pair[2] \in Range(written.template.labelNames) \union Range(written.template.kinds)

====
