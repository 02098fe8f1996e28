--------------------------- MODULE TemplateCLIData ---------------------------
(* The arguments and answers the template CLI models are checked with.    *)
(* apply: --force values that ParseBool takes as true, as false and not   *)
(* at all; --filter lists that parse, fail, and hit the unchecked index;  *)
(* env-ref and secret arguments that match, miss, or lack "=".            *)
(* stacks rm: two stacks of the org, one ID of no stack, a malformed ID.  *)
(* stacks update: pairs that parse, lack "=", name an unknown kind or a   *)
(* bad ID.                                                                 *)
(* export: ID lists with blanks, padding, upper case and a bad ID; names   *)
(* with an empty piece; --resource-type with arguments or piped stdin;    *)
(* --filter values that parse, are refused or lack "="; a stack ID in     *)
(* upper case.  stacks init and ls: with and without a name, URLs, IDs   *)
(* (one of them malformed) and --json.  template validate: a directory   *)
(* with a subdirectory, a file named twice and through its directory, a  *)
(* directory with an unreadable subdirectory, a missing file, a URL with *)
(* a query after its extension, and an argument url.Parse refuses.       *)
EXTENDS Sequences, TLC

ApplyEnvKeys == {<<"e1">>}
ApplySecretKeys == {<<"s1">>}

FilterLists ==
    {<<>>,
     <<<<"kind", "=", "Bucket">>>>,
     <<<<"KIND", "=", "Bucket">>, <<"resource", "=", "Label", ":", "l1">>>>,
     <<<<"skip">>, <<"Resource", "=", "Label", ":", "l1">>>>,
     <<<<"skipKind", "=", "Bucket">>>>,
     <<<<"resource", "=", "Label">>>>}

KVArgs(k) == {<<>>, <<<<k, "=", "v">>>>, <<<<k>>>>, <<<<"x", "=", "v">>, <<k, "=", "w">>>>}

ApplyFlags ==
    [force: {"", "true", "T", "false", "yes", "conflict"},
     stackID: {"", "0000000000000001", "bad"},
     filters: FilterLists,
     envRefs: KVArgs("e1"),
     secrets: KVArgs("s1"),
     json: BOOLEAN]

ApplyAnswers == {<<>>, <<"v">>, <<"$$skip-this-key$$">>}
ApplyConfirmAnswers == {<<>>, <<"y">>, <<"Y">>, <<"yes">>, <<"n">>}

ApplyLower ==
    [w \in {"kind", "KIND", "resource", "Resource", "skip", "skipKind", "x", "e1", "s1",
            "v", "w", "y", "Y", "yes", "n", "none", "Bucket", "Label", "l1", "=", ":",
            "$$skip-this-key$$"} |->
        CASE w = "KIND" -> "kind" [] w = "Resource" -> "resource" [] w = "skipKind" -> "skipkind"
          [] w = "Y" -> "y" [] w = "Bucket" -> "bucket" [] w = "Label" -> "label"
          [] OTHER -> w]

ApplyDecodableIDs == {"0000000000000001"}

RemoveValidIDs == {"1", "2", "3"}
RemoveExisting == {"1", "2"}
RemoveArgs ==
    [ids: {<<"1", "2">>, <<"2", "3", "1">>, <<"1", "bad">>, <<"3">>},
     force: BOOLEAN, json: BOOLEAN]
RemoveAnswers == {"", "y", "Y", "n"}

UpdateValidIDs == {<<"0001">>, <<"0002">>}
UpdateKindFold == (<<"Bucket">> :> <<"Bucket">>) @@ (<<"bucket">> :> <<"Bucket">>)
                  @@ (<<"Label">> :> <<"Label">>) @@ (<<"label">> :> <<"Label">>)
Pairs == {<<"Bucket", "=", "0001">>, <<"label", "=", "0002">>, <<"Label", "=", "0002">>,
          <<"Bucket", "0001">>, <<"Bucket", "=", "x">>, <<"Widget", "=", "0001">>}
UpdateArgs ==
    [stackID: UpdateValidIDs \union {<<"x">>},
     resources: {<<>>} \union {<<r>> : r \in Pairs} \union
                {<<<<"Bucket", "0001">>, <<"Label", "=", "0002">>>>,
                 <<<<"Bucket", "=", "0001">>, <<"Label", "=", "0002">>>>},
     file: {"", "t.yml"}, json: BOOLEAN]
UpdateAnswers == {"", "y", "n", "N", "no"}
ExportKinds == <<"Bucket", "Label">>
ExportKindValues == {<<"Bucket">>, <<"Label">>}
ExportKindFold == (<<"bucket">> :> "Bucket") @@ (<<"Bucket">> :> "Bucket") @@ (<<"label">> :> "Label")
ExportLower ==
    [w \in {"0001", "000A", "000a", "bad", " ", ","} |-> IF w = "000A" THEN "000a" ELSE w]
ExportValidIDs == {<<"0001">>, <<"000a">>}

NoFile == <<>>
JSONFile == <<"t", ".", "json">>
JsonnetFile == <<"t", ".", "jsonnet">>

Invocation(cmd, ids, names, stackID, type, file, filters) ==
    [cmd |-> cmd, ids |-> ids, names |-> names, stackID |-> stackID,
     resourceType |-> type.rt, args |-> type.args, stdin |-> type.stdin,
     filters |-> filters, file |-> file]

NoType == [rt |-> <<>>, args |-> <<>>, stdin |-> <<>>]
ByType ==
    {NoType,
     [rt |-> <<"bucket">>, args |-> <<<<"0001">>>>, stdin |-> <<>>],
     [rt |-> <<"bucket">>, args |-> <<<<"0001">>>>, stdin |-> <<"000A", "\n", " ", "\n">>],
     [rt |-> <<"label">>, args |-> <<<<" ", "000a">>>>, stdin |-> <<"\n">>],
     [rt |-> <<"widget">>, args |-> <<<<"0001">>>>, stdin |-> <<>>]}

ExportIDs ==
    {<<r, <<>>>> : r \in {<<>>, <<"0001", ",", " ", "000A">>, <<"0001", ",", "bad">>, <<"0001", ",", ",">>}}
    \union {<<<<>>, <<"000a">>>>}
ExportNames == {<<<<>>, <<>>>>, <<<<"cpu", ",", ",">>, <<>>>>}

\* --filter lists of export all: well formed, refused, and lacking "=".
FilterValues ==
    {<<>>, <<<<"labelName", "=", "foo">>>>, <<<<"kind", "=", "Bucket">>, <<"resourceKind", "=", "Label">>>>,
     <<<<"kind", "=", "bucket">>>>, <<<<"x", "=", "y">>>>}
MalformedFilters == {<<<<"labelName">>>>, <<<<"labelName", "=", "foo">>, <<"kind">>>>}

ExportInvocations(filters) ==
    {Invocation("export", i, n, s, t, f, <<>>) :
        i \in ExportIDs, n \in ExportNames, s \in {<<>>, <<"0001">>, <<"bad">>}, t \in ByType,
        f \in {NoFile, JSONFile, JsonnetFile}}
    \union {Invocation("all", <<<<>>, <<>>>>, <<<<>>, <<>>>>, <<>>, NoType, f, fl) :
                fl \in filters, f \in {NoFile, JSONFile}}
    \union {Invocation("stack", <<<<>>, <<>>>>, <<<<>>, <<>>>>, <<>>, [NoType EXCEPT !.args = <<a>>],
                       NoFile, <<>>) : a \in {<<"0001">>, <<"000A">>, <<"bad">>}}
StackValidIDs == {"0001", "0002"}
StackArgs ==
    {[cmd |-> "init", name |-> n, urls |-> u, stackIDs |-> <<>>, names |-> <<>>, json |-> j] :
        n \in {"", "s1"}, u \in {<<>>, <<"t.yml">>}, j \in BOOLEAN}
    \union
    {[cmd |-> "ls", name |-> "", urls |-> <<>>, stackIDs |-> ids, names |-> ns, json |-> j] :
        ids \in {<<>>, <<"0001", "0002">>, <<"0001", "bad">>}, ns \in {<<>>, <<"s1">>}, j \in BOOLEAN}
\* The file system of `template validate`, as character sequences.
RD == <<"d">>
RDA == <<"d", "/", "a", ".", "y", "m", "l">>
RDB == <<"d", "/", "b", ".", "j", "s", "o", "n">>
RDS == <<"d", "/", "s">>
RDSC == <<"d", "/", "s", "/", "c", ".", "j", "s", "o", "n", "n", "e", "t">>
RE == <<"e">>
REF == <<"e", "/", "f">>
REZ == <<"e", "/", "z">>
RMissing == <<"m", ".", "y", "m", "l">>
RURL == <<"h", "t", "t", "p", "s", ":", "/", "/", "h", "/", "t", ".", "j", "s", "o", "n">>
RURLQuery == <<"h", "t", "t", "p", ":", "/", "/", "h", "/", "t", ".", "y", "m", "l", "?", "r">>
RBad == <<"%", "z">>

ReadKind == (RD :> "dir") @@ (RDA :> "file") @@ (RDB :> "file") @@ (RDS :> "dir") @@ (RDSC :> "file")
            @@ (RE :> "dir") @@ (REF :> "file") @@ (REZ :> "dir")
ReadUnreadable == {REZ}
ReadFormat == (RDA :> "yaml") @@ (RDB :> "json") @@ (RDSC :> "jsonnet") @@ (REF :> "yaml")
              @@ (RURL :> "json") @@ (RURLQuery :> "yaml")
ReadFiles == {<<>>, <<RD>>, <<RD, RDA>>, <<RDA, RDA>>, <<RE>>, <<RMissing>>, <<RBad>>}
ReadURLs == {<<>>, <<RURL>>, <<RURL, RURL>>, <<RURLQuery>>, <<RDSC>>}
====
