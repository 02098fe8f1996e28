----------------------------- MODULE TemplateRead -----------------------------
(***************************************************************************)
(* `influx template validate`: readTemplate of cmd/influx/template.go     *)
(* with readRawTemplatesFromFiles, readFilesFromPath,                     *)
(* readRawTemplatesFromURLs, the encoding choices (convertFileEncoding,   *)
(* convertURLEncoding, convertEncoding) and inStdIn, then                 *)
(* template.Validate.  apply reads its template with the same readTemplate;*)
(* TemplateApply takes only its outcome.                                   *)
(*                                                                         *)
(* Paths and URLs are sequences of characters, so that url.Parse,          *)
(* filepath.Ext and strings.HasPrefix work as they do on strings.  The    *)
(* file system is the constant Kind (each existing path a "file" or a     *)
(* "dir") with the directories ReadDir fails on; what a file or URL holds *)
(* is its Format.  The environment decides what the code cannot: a URL's  *)
(* fetch, the parse of pkger's EncodingSource (it guesses the encoding),  *)
(* pkger.Combine and Template.Validate may fail.                          *)
(***************************************************************************)
EXTENDS Integers, Sequences, SequencesExt, Bags

CONSTANTS
    Invocations,    \* [files, urls, recurse, encoding, stdin] the command may get
    Kind,           \* existing path -> "file" or "dir"
    Unreadable,     \* directories ioutil.ReadDir fails on
    Format,         \* file or URL -> "json", "yaml" or "jsonnet"
    None

VARIABLES
    args,           \* stdin is None for a terminal, else what was piped
    pc,             \* "start", "files", "urls", "stdin", "validate" or "done"
    locals,         \* the arguments taken as files, as u.String() gives them
    remotes,        \* the arguments taken as URLs
    parsed,         \* bag of the sources pkger.Parse read
    isTTY,          \* readTemplate's second result
    result

vars == <<args, pc, locals, remotes, parsed, isTTY, result>>

Chars(s) == {s[i] : i \in DOMAIN s}
HasPrefix(s, p) == IsPrefix(p, s)
Letters == {"a", "b", "c", "d", "e", "f", "g", "h", "i", "j", "k", "l", "m", "n", "o", "p",
            "q", "r", "s", "t", "u", "v", "w", "x", "y", "z"}
Digits == {"0", "1", "2", "3", "4", "5", "6", "7", "8", "9"}
Hex == Digits \union {"a", "b", "c", "d", "e", "f", "A", "B", "C", "D", "E", "F"}

\* url.Parse: the scheme is the run of letters (then also digits, "+",
\* "-", ".") before the first ":", an error if that run is empty; a colon
\* in a first segment that is no scheme and a "%" not followed by two
\* hex digits are errors.  (Upper-case letters, which url.Parse lowers,
\* are left out: no input has them.)  u.String() escapes a
\* space of the path as "%20".
ParseURL(s) ==
    LET colon  == SelectInSeq(s, LAMBDA c : c = ":")
        lead   == IF colon = 0 THEN <<>> ELSE SubSeq(s, 1, colon - 1)
        scheme == IF colon > 0 /\ \A i \in DOMAIN lead :
                        lead[i] \in Letters \/ (i > 1 /\ lead[i] \in Digits \union {"+", "-", "."})
                  THEN lead ELSE <<>>
        badEsc == \E i \in DOMAIN s : s[i] = "%" /\ (i + 2 > Len(s) \/ {s[i + 1], s[i + 2]} \notin SUBSET Hex)
    IN  [err    |-> \/ colon = 1 \/ badEsc
                    \/ colon > 0 /\ scheme = <<>> /\ "/" \notin Chars(lead),
         scheme |-> scheme,
         str    |-> FoldLeft(LAMBDA acc, c : acc \o (IF c = " " THEN <<"%", "2", "0">> ELSE <<c>>), <<>>, s)]

\* filepath.Ext and path.Ext: from the last "." of the last element on.
Ext(p) ==
    LET dot == SelectLastInSeq(p, LAMBDA c : c = ".")
        sep == SelectLastInSeq(p, LAMBDA c : c = "/")
    IN  IF dot > sep THEN SubSeq(p, dot, Len(p)) ELSE <<>>

\* convertEncoding: the --encoding flag, or pkger's EncodingSource.
convertEncoding(flag) ==
    CASE flag = "json" -> "json" [] flag \in {"yml", "yaml"} -> "yaml"
      [] flag = "jsonnet" -> "jsonnet" [] OTHER -> "source"

\* convertFileEncoding and convertURLEncoding: by prefix of the extension,
\* ".jsonnet" before ".json", else the flag.
convertFileEncoding(p, flag) ==
    LET ext == Ext(p) IN
    CASE HasPrefix(ext, <<".", "j", "s", "o", "n", "n", "e", "t">>) -> "jsonnet"
      [] HasPrefix(ext, <<".", "j", "s", "o", "n">>) -> "json"
      [] HasPrefix(ext, <<".", "y", "m", "l">>) \/ HasPrefix(ext, <<".", "y", "a", "m", "l">>) -> "yaml"
      [] OTHER -> convertEncoding(flag)

\* pkger.Parse: a JSON document is also YAML and Jsonnet; for
\* EncodingSource pkger guesses, and guessOK is how the guess went.
Parses(enc, fmt, guessOK) ==
    CASE enc = "json" -> fmt = "json"
      [] enc = "yaml" -> fmt \in {"yaml", "json"}
      [] enc = "jsonnet" -> fmt \in {"jsonnet", "json"}
      [] OTHER -> guessOK

\* The entries of directory d: filepath.Join(d, name) for each name.
Children(d) ==
    {p \in DOMAIN Kind : /\ Len(p) > Len(d) + 1 /\ SubSeq(p, 1, Len(d)) = d /\ p[Len(d) + 1] = "/"
                         /\ "/" \notin Chars(SubSeq(p, Len(d) + 2, Len(p)))}

\* Mutant: subdirectories are walked whether or not --recurse was given.
RECURSIVE readFilesFromPathAlwaysRecurse(_, _)
readFilesFromPathAlwaysRecurse(p, recurse) ==
    CASE p \notin DOMAIN Kind -> [err |-> TRUE, files |-> {}]
      [] Kind[p] = "file" -> [err |-> FALSE, files |-> {p}]
      [] p \in Unreadable -> [err |-> TRUE, files |-> {}]
      [] OTHER ->
           LET rs == {readFilesFromPathAlwaysRecurse(c, recurse) : c \in {c \in Children(p) : Kind[c] = "dir"}}
           IN  [err |-> \E r \in rs : r.err,
                files |-> {c \in Children(p) : Kind[c] = "file"} \union UNION {r.files : r \in rs}]

\* readFilesFromPath: os.Stat fails on a missing path; a file is itself;
\* a directory gives its files and, with recurse, those of its
\* subdirectories; ReadDir may fail.
RECURSIVE readFilesFromPath(_, _)
readFilesFromPath(p, recurse) ==
    CASE p \notin DOMAIN Kind -> [err |-> TRUE, files |-> {}]
      [] Kind[p] = "file" -> [err |-> FALSE, files |-> {p}]
      [] p \in Unreadable -> [err |-> TRUE, files |-> {}]
      [] OTHER ->
           LET subs == {c \in Children(p) : Kind[c] = "dir"}
               rs   == IF recurse THEN {readFilesFromPath(c, TRUE) : c \in subs} ELSE {}
           IN  [err |-> \E r \in rs : r.err,
                files |-> {c \in Children(p) : Kind[c] = "file"} \union UNION {r.files : r \in rs}]

\* convertURLEncoding: the same choice on path.Ext of the URL.
convertURLEncoding(u, flag) == convertFileEncoding(u, flag)

\* The source pkger reads from stdin.
Stdin == <<"stdin">>

Fail == result' = "error" /\ pc' = "done"

Init ==
    /\ args \in Invocations
    /\ pc = "start" /\ locals = <<>> /\ remotes = <<>> /\ parsed = EmptyBag
    /\ isTTY = FALSE /\ result = "none"

\* readTemplate's loop over --file then --template-url: each is parsed as
\* a URL, and goes to remotes when its scheme starts with "http".
Start ==
    /\ pc = "start"
    /\ LET raws == args.files \o args.urls
           us   == [k \in DOMAIN raws |-> ParseURL(raws[k])]
           isRemote(u) == HasPrefix(u.scheme, <<"h", "t", "t", "p">>)
           strs(sel)   == [k \in DOMAIN sel |-> sel[k].str]
       IN  IF \E k \in DOMAIN raws : us[k].err
           THEN Fail /\ UNCHANGED <<locals, remotes>>
           ELSE /\ locals' = strs(SelectSeq(us, LAMBDA u : ~isRemote(u)))
                /\ remotes' = strs(SelectSeq(us, isRemote))
                /\ pc' = "files" /\ UNCHANGED result
    /\ UNCHANGED <<args, parsed, isTTY>>

\* readRawTemplatesFromFiles: the files of every path, each once, each
\* parsed in the encoding its extension names.
ReadFiles ==
    /\ pc = "files"
    /\ LET walks  == [k \in DOMAIN locals |-> readFilesFromPath(locals[k], args.recurse)]
           mFiles == UNION {walks[k].files : k \in DOMAIN locals}
       IN  IF \E k \in DOMAIN locals : walks[k].err
           THEN Fail /\ UNCHANGED parsed
           ELSE \E guessOK \in [mFiles -> BOOLEAN] :
                  IF \A f \in mFiles : Parses(convertFileEncoding(f, args.encoding), Format[f], guessOK[f])
                  THEN parsed' = SetToBag(mFiles) /\ pc' = "urls" /\ UNCHANGED result
                  ELSE Fail /\ UNCHANGED parsed
    /\ UNCHANGED <<args, locals, remotes, isTTY>>

\* readRawTemplatesFromURLs: each URL once, fetched (which may fail) and
\* parsed in the encoding its extension names.
ReadURLs ==
    /\ pc = "urls"
    /\ LET mURLs == ToSet(remotes) IN
       \E fetched \in SUBSET mURLs, guessOK \in [mURLs -> BOOLEAN] :
          IF \A u \in mURLs : u \in fetched /\ Parses(convertURLEncoding(u, args.encoding), Format[u], guessOK[u])
          THEN parsed' = parsed (+) SetToBag(mURLs) /\ pc' = "stdin" /\ UNCHANGED result
          ELSE Fail /\ UNCHANGED parsed
    /\ UNCHANGED <<args, locals, remotes, isTTY>>

\* inStdIn, then pkger.Combine: a terminal gives isTTY false; a pipe is
\* parsed in the --encoding and gives isTTY true, its parse error
\* included.  Combine may fail.
ReadStdin ==
    /\ pc = "stdin"
    /\ isTTY' = (args.stdin # None)
    /\ \E guessOK \in BOOLEAN, combined \in BOOLEAN :
         IF args.stdin # None /\ ~Parses(convertEncoding(args.encoding), args.stdin, guessOK)
         THEN Fail /\ UNCHANGED parsed
         ELSE /\ parsed' = IF args.stdin = None THEN parsed ELSE parsed (+) SetToBag({Stdin})
              /\ IF combined THEN pc' = "validate" /\ UNCHANGED result ELSE Fail
    /\ UNCHANGED <<args, locals, remotes>>

\* The validate command's runE: template.Validate().
Validate ==
    /\ pc = "validate"
    /\ \E ok \in BOOLEAN : result' = IF ok THEN "ok" ELSE "error"
    /\ pc' = "done"
    /\ UNCHANGED <<args, locals, remotes, parsed, isTTY>>

Next == Start \/ ReadFiles \/ ReadURLs \/ ReadStdin \/ Validate

Spec == Init /\ [][Next]_vars

----------------------------------------------------------------------------
TypeOK ==
    /\ pc \in {"start", "files", "urls", "stdin", "validate", "done"}
    /\ result \in {"none", "ok", "error"}
    /\ isTTY \in BOOLEAN

\* The directory tree, and what a walk of p should read: p itself if it
\* is a file, else the files below it, only its own entries without
\* --recurse.
Tree == [node |-> DOMAIN Kind, edge |-> {e \in (DOMAIN Kind) \X (DOMAIN Kind) : e[2] \in Children(e[1])}]
RECURSIVE Reach(_)
Reach(S) == LET T == S \union {e[2] : e \in {e \in Tree.edge : e[1] \in S}}
            IN  IF T = S THEN S ELSE Reach(T)
Below(p, recurse) == IF recurse THEN Reach(Children(p)) ELSE Children(p)
Named(a) ==
    LET raws   == ToSet(a.files) \union ToSet(a.urls)
        remote == {r \in raws : HasPrefix(r, <<"h", "t", "t", "p", ":">>) \/ HasPrefix(r, <<"h", "t", "t", "p", "s", ":">>)}
        walked(p) == IF Kind[p] = "file" THEN {p} ELSE {f \in Below(p, a.recurse) : Kind[f] = "file"}
        files  == UNION {walked(p) : p \in (raws \ remote) \cap DOMAIN Kind}
    IN  files \union remote \union (IF a.stdin # None THEN {Stdin} ELSE {})

\* When `template validate` gets as far as validating, pkger parsed each
\* file named, each file of a directory named (of its subdirectories too
\* with --recurse), each URL and the piped stdin, exactly once: a file
\* named twice, directly and through its directory, is read once.
ReadsExactlyTheNamed ==
    pc = "validate" \/ result = "ok" => parsed = SetToBag(Named(args))

====
