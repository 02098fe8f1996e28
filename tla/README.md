# TLA+ models of the Flux storage pushdown, DBRP mapping, template CLI, authorization wrapper and metrics recorder code

This directory holds TLA+ models of the code under `src/influxdb-master`. Each model was written from the Go source. Each has TLC configurations that check it, and `PROJECT.json` records:

- the runs and what each shows;
- the mutants that show each property can fail;
- the source lines every definition models;
- the findings;
- the hazards of the code.

## 1. Inventory of the system

| Part | Source | State | Operations | Interactions |
|---|---|---|---|---|
| Predicate translator and merger | `query/stdlib/influxdata/influxdb/storage_predicate.go` | none (pure) | `ToStoragePredicate`, `toStoragePredicateHelper`, `toComparisonOperator`, `mergePredicates` | Called by the filter pushdown rule. Its output is the storage engine's `datatypes.Predicate`. |
| Physical operator specs | `.../influxdb/operators.go` | a plan node's fields: bucket name/ID, bounds, filter, group keys, aggregates | `Copy`, `LookupBucketID`, `TimeBounds`, `PlanDetails` | Built and rewritten by the pushdown rules (rules.go, which is not in this repository; only `rules_test.go` is). |
| In-memory DBRP mapping service | `inmem/dbrp_mapping_service.go` | a `sync.Map` from `path.Join(cluster, db, rp)` to a mapping | `Create`, `Delete`, `FindBy`, `Find`, `FindMany`, `PutDBRPMapping` | Shared by concurrent request handlers. |
| DBRP V2 conformance suite | `testing/dbrp_mapping_v2.go`, `testing/util.go` | test fixtures | table-driven tests | States the V2 rules: one default per database, default reassignment on delete. |
| Template CLI | `cmd/influx/template.go` | flags; the user's answers | `apply` (confirm/force/conflict decision), `parseTemplateActions`, stack init/ls/update/remove, `export` (by ID and name, all, stack), `readTemplate` | Talks HTTP to the server and reads the terminal. |
| Scraper recorder | `gather/recorder.go` | none of its own; the subscription holds the unacknowledged messages | `Process`, `PointWriter.Record` | Consumes a NATS subscription. It defers the Ack, decodes, records, and acknowledges on every path, errors included. |
| Authorization wrappers | `label/middleware_auth.go`, `authorizer/secret.go`, `authorizer/backup.go` | none of their own; the delegated services hold labels, mappings, secrets | every method: the permission checks, then the delegated call | Sit in front of the label, secret and backup services. The permission checks are in package `authorizer`'s `authorize.go`, which is not in this repository. |
| HTTP source proxy | `http/source_proxy_service.go` | none | `Query`, `queryFlux`, `queryInfluxQL` | Forwards a query to the source's server (`/query` as a form, `/api/v2/query` as JSON) and copies the answer to the caller's writer. |
| Small support files | mock session service, coordinator config, UUID, migration list, `tools.go`, an InfluxQL spectest fixture | | | No behaviour to check. |

### Hard behaviours and what makes each part correct

- **Translator.** A pushed-down predicate must select exactly the rows the Flux filter keeps. This depends on:
  - the operator table;
  - the reserved tag keys used for `_measurement` and `_field`;
  - `_value` becoming a field reference.
- **Translator errors.** An expression with an unsupported node must be refused. The error wrapping ("left hand side"/"right hand side") must name the node that was refused.
- **Merger.** `mergePredicates` must build `p1 op (p2 op ... pn)` and refuse an empty list.
- **DBRP service.** It is called concurrently. `Create` is a Load followed by a Store, with a decision between them. The key encoding, `path.Join`, is not injective. `Find` and `FindMany` go through `sync.Map.Range`, which is not a snapshot: a key stored or deleted during the Range may or may not be seen, and `Find` returns the first match in an unspecified order. A `Validate` error is swallowed. A correct service would behave as an atomic map keyed by the triple. It would never replace a stored mapping through `Create`, and it would acknowledge only what it stored.

- **Pushdown rules.** Each rule replaces Flux transformations by a storage read that must return the same tables. The hard cases:
  - a filter only partly pushable, merged into an existing predicate;
  - the absent-tag convention: storage reads a missing tag as `""`, Flux as null;
  - group/window transposition, where a count must be re-aggregated by sum and a mean cannot be;
  - a pushed aggregate followed by a filter.

  The driver applies rules until none matches, so the rules must also terminate.

- **Authorization wrappers.** Each method must check, before delegating, the permission for exactly what the delegated call reads or changes. Lookups fetch first and filter after. `PutSecrets` needs read as well as write, because it deletes the keys not given. The label-mapping methods authorize the resource under the *label's* org.
- **Recorder.** `Process` is called by the subscription for each delivery. The `defer m.Ack()` acknowledges on every path. A crash before the Ack leaves the message for redelivery, and the ack wait can also run out while a message is still being processed.
- **Template CLI.** `apply` collects env refs and secrets from flags and prompts, dry-runs, asks for confirmation and applies. Whether it prompts depends on the value `readTemplate` calls `isTTY`, which is true when the template came through a *pipe*: the name reads the wrong way round. Whether it applies also depends on the `--force` string (`true` by `strconv.ParseBool`, or the word `conflict`) and on the dry run's conflicts. `stacks rm` deletes stacks one by one and stops at the first failure. `stacks update` parses `kind=id` pairs, updates, and asks up to three times before exporting a template. `export` builds its options from per-kind ID and name lists (every ID must parse), from `--resource-type` with the IDs of the arguments or of piped lines, or (`export all`) from `--filter key=value` pairs; the template is JSON for a `.json` file and YAML otherwise.

## 2. Modules

| Module | Models |
|---|---|
| `StoragePredicate` | The translator and merger as RECURSIVE operators over expression records `[type, op, left, right, value]` and node records `[nodeType, value, children]`. Strings are sequences of character codes, because TLC cannot take a prefix of a string. |
| `PredicateTranslation` | One call of the translator or the merger per behaviour (`call`, `result`), checked against a reference semantics. `EvalExpr` is what a Flux predicate means on a row. `EvalNode` is what a storage tree means on the row's series. `FaultPaths` are the unsupported nodes in post order. |
| `MCPredicateTranslation` | The bounded inputs for that check: 57 comparisons (faulty ones included), logical pairs, three-level expressions over five comparisons, 24 rows, and merges of up to 3 predicates. |
| `DBRPMappingService` | The inmem service. `kv` is the sync.Map. `pc`/`pending` hold a Create between its Load and its Store. `ret` holds the last return of each caller. `ops` bounds the calls (`MaxOps`). Load, Store and Delete are atomic steps. A `Find` or `FindMany` that does not name the whole triple starts a Range (`scan`: the keys present at the start, those visited, the matches collected); `RangeStep` visits one key not yet visited, present at the start or stored since, and reads its current value; `RangeEnd` returns once every key present both at the start and now has been visited. That is `sync.Map.Range`'s documented contract. The history variables `hist` and `stable` hold the mappings the map held at some point of the Range and at every point of it. `Validate` is defined outside this repository; it is modelled from its documented rule (non-empty names without "/"). |
| `DBRPServiceV2` | The V2 DBRP service as its conformance suite `testing/dbrp_mapping_v2.go` states it; the service is not in this repository. `dbrps` is the set of stored mappings `[id, org, db, rp, default, bucket]`. `ret` is the last call's return. Create, FindByID, FindMany, Update and Delete are the suite's cases, generalised: identity is (org, id); a database's default is the one named last; on losing it, the lowest id takes over ("the first one becomes the default one"); Update changes only the retention policy and the default flag. Where several errors apply at once (the suite tests each alone), any of them may be returned. |
| `MCDBRPServiceV2` | Two orgs sharing database name `d1`, ids 1..3, three retention policies (so a database can hold three mappings), a missing bucket, and Update arguments with an invalid name (`./`) and a valid unused one (`wont_change`), as in the suite. |
| `AtomicDBRP` | The abstract service: an atomic map from triples to mappings. |
| `MCDBRPMappingService` | The inputs. Names are segment sequences: `a`, `b`, `a/a`, and the empty name. The mappings differ in database and in the Default flag. The queries include a pair of triples that collide under `path.Join`. |

| `PredicateSemantics` | What a Flux predicate means on a row (`EvalExpr`, with a missing column read as null and comparisons with null false) and what a storage predicate means on a series (`EvalNode`, with a missing tag read as `""`). `StorageRow` turns a point into the row the storage engine filters. Shared by the translator check and the planner. |
| `FluxTables` | The reference meaning of `range`, `filter`, `group` (by/except), `window` (tumbling, clipped to the range) and the aggregates and selectors. A stream is `[cols, rows]`: the group-key columns and all rows; the tables are the rows sharing a key. A mean is kept exact as `Scale * sum \div count`. |
| `PushdownPlanner` | The operator specs of `operators.go` as records, `LookupBucketID`, and the eight rewrite rules as actions on a plan, a sequence of nodes with the source first. `orig` is the plan the driver started from, `plan` the current one. `Eval` runs a plan over the bucket's points. A `from` is resolved as the spec says, a physical node through `LookupBucketID`. |
| `MCPushdownPlanner` | One bucket of five points, three series: host `a`, host `b`, and no host. 7 filters (pushable, unpushable, partly pushable), 3 groups, a 2-wide window and 7 aggregates. Plans are `from \|> range` followed by up to two filters or groups, an optional window and an optional aggregate, plus four bucket references that fail: 1780 plans. |

| `TemplateApply` | `applyRunEFn` with `mapKeys`, `missingValKeys`, `parseTemplateActions` and `getInput`. The flags are fixed at Init. `pc` follows the function's steps: Start, the env-ref prompts, DryRun, the secret prompts, Confirm (print, prompt, conflict check) and Apply. The service calls may fail, and the user's answers are chosen from small sets. Command-line strings are token sequences, with `=` and `:` as the separators the code splits on. `ToLower` is a table over the words used. `asked` is a history variable: the prompts shown, in order. |
| `StackRemove` | `stackRemoveRunEFn`. `listed` is what ListStacks returns, in any order. One `RemoveOne` step per loop turn: print, prompt unless `--force`, then `DeleteStack`. |
| `StackUpdate` | `stackUpdateRunEFn`: the `--addResource` parse loop (a pair without `=` is collected and reported after the loop; the kind is folded by `templateKindFold`, a table from the words used to their kind; an unknown kind or bad ID returns at once), UpdateStack and writeStack, the prompt loop (`MaxTries` = 3), and exportTemplate. |
| `TemplateCLIData` | The arguments and answers for the template CLI checks. `apply` gets six `--force` values (true, `T`, false, the unparsable `yes`, `conflict`, empty), three stack IDs, six filter lists (one is `resource=Label`), and env-ref and secret arguments that match, miss or lack `=`. `stacks rm` gets ID lists over two existing stacks, one absent and one malformed ID. `stacks update` gets pairs of each kind (`Bucket`, `bucket`, `Label`, `label`, and the unknown `Widget`), valid and not, and the answers `y`, `n`, empty, `N` and `no`. `export` gets, for buckets and labels, ID lists with a valid, an upper-case, a blank-padded and a malformed ID, name lists with an empty name, `--resource-type` in two cases and an unknown one, with arguments or piped lines, a bad `--stack-id`, files `t.json`, `t.jsonnet` and none; `template validate` gets a tree `d` (with `d/a.yml`, `d/b.json` and `d/s/c.jsonnet`), a directory `e` whose subdirectory cannot be read, a missing file, a file named twice or both directly and through its directory, a malformed `%` escape, https and http URLs (one named twice, one with a query), a local path given as a URL, three encodings and a terminal or a piped YAML or JSON stdin; `export all` gets well-formed label and kind filters, an unknown kind and key and (in the violation run only) a filter without `=`. |
| `TemplateExport` | `exportRunEFn`, `exportAllRunEFn` and `exportStackRunEFn` with `newResourcesToClone`, `toInfluxIDs`, `templateKindFold`, `readLines`, `exportTemplate`, `writeTemplate` and `createTemplateBuf`. Three steps: Start (svcFn, getID and the options, or the first error), Export and Write; each may fail. Strings are token sequences; `Split`, `SplitN`, `TrimSpace`, `ToLower` and `filepath.Ext` are operators on them. `Listed` is a reference definition of the resources an `export` names. |
| `TemplateRead` | `template validate`: `readTemplate` with `readRawTemplatesFromFiles`, `readFilesFromPath`, `readRawTemplatesFromURLs`, the encoding choices and `inStdIn`, then `Validate`. Paths and URLs are character sequences, so `url.Parse` (its scheme, its errors, the `%20` escaping of `u.String()`), `filepath.Ext` and `strings.HasPrefix` act as on strings. The file system is a constant (`Kind`: file or dir, and the directories `ReadDir` fails on). `parsed` is the bag of sources pkger parsed, so a source read twice shows. A URL's fetch, pkger's guessed encoding, `Combine` and `Validate` may fail. The reference `Named` computes what should be read from the directory tree by reachability over its edges. |
| `StackInitList` | `stackInitRunEFn` and `stackListRunEFn` with `writeStack`: the org lookup, the `--stack-id` parse (ls), the service call, and the JSON or table output. |
| `MCTemplateCLI` | One CLI invocation: `cmd` chooses `apply`, `stacks rm`, `stacks update`, `export` (export, export all, export stack) or `stacks` (init, ls) or `validate` at Init. The other commands' variables keep their initial values. Each module is instantiated with renamed variables. |
| `MCTemplateApply`, `MCStackUpdate` | One command alone, for the violation runs. |
| `MCQuery` | One pushdown run: `cmd` chooses the translator (inputs of `MCPredicateTranslation`) or the rewrite driver (the pass plans of `MCPushdownPlanner`). Each invariant is stated for the part it is about. |

| `AuthWrappers` | Every method of `AuthedLabelService`, `SecretService` and `BackupService` as one action: its checks in code order, each failing one an early return, then the delegated call. The state is the delegated services': `labels` `[id, org, name]`, `mappings` `[label, rtype, rid]`, `secrets` (org to keys) and `backups`. `ret` is the last call's `[op, ctx, err, val]`. A caller (`ctx`) is a named permission set. The permission semantics follow `Permission.Matches`: same action and type, and the permission's org and id are `Any` or equal. Requests about a whole org (create, org-wide read/write) carry no id, so only id `Any` meets them. The label service removes a label's mappings with it; `PutSecrets` leaves exactly the keys given. |
| `RecorderHandler` | `Process` as four steps of one handler goroutine: Receive, Unmarshal (an undecodable message goes straight to the Ack), Record (written, or a `Points`/`WritePoints` error that is logged), and the deferred Ack. The subscription is modelled as the at-least-once NATS streaming subscription that manual acks imply: `Deliver` (re)delivers any message neither acknowledged, queued nor in hand; `RedeliverInFlight` queues a second copy when the ack wait runs out during processing (at most `MaxDups`); `Crash` loses the buffer and the message in hand (at most `MaxCrashes`). |
| `SourceProxy` | `SourceProxyQueryService.Query`: the dispatch on the compiler type (and the `*influxql.Compiler` assertion), then one action per step of `queryFlux`/`queryInfluxQL`: the request built, `hc.Do`, `CheckError`, and `io.Copy` a chunk at a time. `NewURL`, the encoding, `NewRequest`, `hc.Do` and the copy may fail; the server answers with any status and body. `out` is what reached the caller's writer. |
| `MCServices` | One services run: `cmd` chooses the wrappers, with five callers (an admin of org A's labels and buckets, a reader of label `l1` only, a writer of A's secrets, a reader and writer of them, an operator), two orgs, two labels, a bucket in each org, an unknown resource id and an invalid type; or the recorder, with three messages (one undecodable), one crash and one in-flight redelivery; or the v1 DBRP service with one caller and 6 calls (`v1`, inputs of `MCDBRPMappingService`); or with two callers and 3 calls (`v1c`, a second copy of its variables); or the v2 DBRP service (`v2`, inputs of `MCDBRPServiceV2`); or the source proxy (`proxy`: InfluxQL requests with and without the pointer type, a Flux one and an unsupported type, against answers 200, 302 and 500 with bodies of zero, one and two chunks). The input sets are zero-arity definitions of this module, so TLC computes them once. `AtomicRefinement` is stated as `[][cmd # "v1" \/ Atomic!Next]_<<AbsStore, ret1>>`, so the abstract next-state relation is evaluated only on v1 steps. |

The refinement mapping sends `store` to the function from each stored mapping's triple to `kv` at that triple's encoded key. A Create takes effect at its Store step.

## 3. Runs

| Run | Expect | What it shows |
|---|---|---|
| `query_pass` | pass | The translator part: the translation preserves meaning on every bounded row, an error names the first faulty node in the order the code visits nodes, and merging is the right fold. The planner part: every sequence of rule applications from the 1780 plans keeps the plan well formed, each step returns the same tables (or fails with the same error code) as the original, and each step strictly lowers a plan weight (filter 1 plus its conjuncts, window 2, physical node 0, other 1), so the driver reaches a fixed point. All eight rules fire, as do partial pushdown and merging into an existing predicate. 14,449 states. |
| *(in `services_pass`)* | | The v1 part: with one caller the service refines `AtomicDBRP`, over 6 calls and 4 valid mappings sharing 2 keys, so conflicts, repeats, deletes and every Find branch occur. The v2 part: every sequence of calls keeps exactly one default per (org, database) and unique (org, id) and (org, db, rp); the default moves only when a call names a new one, or deletes or unsets the old; each call changes one (org, database) only (4096 stored states, all within 7 calls). The v2 `ret` is left out of the state's identity (`VIEW`): no action reads it, and the properties read only the value a step gives it. |
| `dbrp_concurrent_create` | violation of `NoReplace` | Two callers both Load "not found" and then both Store. The second mapping replaces the first, and both Creates return nil. |
| `dbrp_key_collision` | violation of `FindByMatchesQuery` | `path.Join("a/a","a","")` equals `path.Join("a","a","a")`. |
| `dbrp_invalid_create` | violation of `CreateAckMeansStored` | Create returns nil for a mapping that fails `Validate`. |
| `pushdown_filter_after_aggregate` | violation of `PlanMeaningPreserved` | The spec (section 4.4) lets the filter rule merge into any Read* node. Merging a filter into a `ReadWindowAggregate`, or into a `ReadGroup` with an `AggregateMethod`, filters the points before the aggregate. |
| `template_cli` | pass | 255,701 states over every flag, argument, answer and service failure. `export` writes a template only when every listed ID parses, and then of exactly the resources listed (`ExportAsListed`, against the reference `Listed`): every ID lower-cased and trimmed, blanks and empty names dropped, `--resource-type` IDs from piped lines when there are any. `apply` shows no prompt at all (env ref, secret or confirmation) when the template was piped, and a terminal session that applies without `--force` true or `conflict` was shown the confirmation after its last value prompt and typed `y`/`Y` (`PromptsOnlyTerminal`, over the history `asked` of prompts shown). With conflicts, it applies only with `--force conflict` or after a terminal confirmation. When `stacks rm` succeeds, every listed stack was put to the user and exactly those forced or answered with an exact `y` were removed (`DeletedExactlyConfirmed`: a declined stack is skipped, not the end of the loop), and after a failed delete nothing later in the list is removed. `stacks update` goes ahead only when every pair is well formed, and then with all of them, each of the kind `templateKindFold` gives its word. `template validate` validates only after pkger parsed exactly the sources named (`ReadsExactlyTheNamed`): each named file, the files of a named directory (below it with `--recurse`, its own entries without), each URL and piped stdin, each once even when named twice or reached both directly and through its directory. |
| `template_apply_filter_panic` | violation of `NoPanic` | `--filter resource=Label`: `parseTemplateActions` checks `len(pair)` where it means `len(pp)`, and then reads `pp[1]`. |
| `stack_update_export_without_yes` | violation of `ExportOnlyOnYes` | Refusing three times with `N` or `no` at "Export a new template ...? (y/n)" (default `n`) exhausts the loop, which recognises only the exact `y` and `n`, and the template is exported. |
| `pushdown_tag_inequality` | violation of `PlanMeaningPreserved` | `r.host != "a"` pushed to storage keeps the series without a host tag (read as `""`), which the Flux filter drops (null). |
| `services_pass` | pass | Wrappers: every label a lookup returns (`FindLabels`, `FindLabelByID`, `FindResourceLabels`) is readable by the caller; labels and mappings change only by a caller with write on the label; secrets change only with org-wide write, and `PutSecrets` drops keys only with org-wide read too. Recorder: a decodable message is acknowledged only after Record was tried on it, and every message is eventually acknowledged despite a crash and a redelivery. DBRP: the row above, and with two callers and concurrent Creates and Deletes (`RangeWithinCall`), FindMany returns only mappings the map held at some point of its Range and every matching mapping it held throughout; Find returns such a mapping, or not found only if no match was held throughout. Proxy: what reaches the caller is a prefix of the body of a response `CheckError` accepted, never an error response's body, and is the whole body when `Query` returns nil (`RelaysOnlyAcceptedBody`). 103,406 states (the wrappers' and v2's `ret` are left out of the state's identity: no action reads them). |
| `export_all_malformed_filter` | violation of `FiltersApplied` | `influx export all --filter labelName`: the value has no `=`, the loop `continue`s past it, and every resource of the org is exported. An unknown key or kind is refused with an error. |
| `label_mapping_cross_org` | violation of `MappingResourceAuthorized` | An admin of org A's labels and buckets maps label `l1` of org A onto bucket `bB` of org B: `CreateLabelMapping` checks write on the bucket under the label's org (`l.OrgID`), which the admin has. |

Only the recorder's liveness property assumes fairness: weak fairness on the handler's steps (the goroutine runs whenever it has a message) and on `Deliver` of each message (the server keeps redelivering what is unacknowledged after the ack wait). Crashes and in-flight redeliveries are bounded, so they cannot starve the handler. In `MCServices` the fairness is conditioned on `cmd = "recorder"`, and `EveryMessageAcked` is stated for the behaviours that run the recorder.

Every other property is a safety property. The specifications stop by design, and deadlock is therefore not checked:

- a translator call ends after one step;
- the v1 service becomes idle once its callers have made `MaxOps` calls;
- the planner stops when no rule matches;
- a CLI command returns;
- the recorder waits for new messages once every message is acknowledged.

The planner's termination is not a liveness property under fairness. It is the action property `RewriteShrinksPlan`: every step lowers a natural-number weight, so every behaviour is finite.

### What the service models assume

- **Permissions.** `authorizer.AuthorizeRead`, `AuthorizeWrite`, `AuthorizeCreate`, `AuthorizeOrgReadResource`, `AuthorizeOrgWriteResource`, `AuthorizeFindLabels` and `IsAllowedAll` are not in this repository. They are modelled from `Permission.Matches`' rule as described in the module table.
- **Delegated services.** The label, secret and backup services are not in this repository. The model's label service stores any mapping it is given. Whether the real one refuses a mapping across orgs decides whether the `label_mapping_cross_org` finding can be exploited.
- **NATS.** The `nats` package is not in this repository. Manual acknowledgement with redelivery after the ack wait is an assumption the code's `m.Ack()` implies.

### What the template model assumes

- **`getInput`.** It calls `internal2.GetInput` (package `cmd/internal`, not in this repository) with a go-input UI. It is modelled as: the typed line, or the default for an empty one.
- **The `--force` help text.** It reads `TTY input, if template will have destructive changes, proceed if set "true"`. With piped input (`isTTY`) and conflicts, `--force true` is refused; only `--force conflict` proceeds. `ConflictsNeedOverride` checks what the code does. Whether "TTY input" in the help means piped or terminal input is not clear enough to call the code wrong.
- **ListStacks.** It returns the named stacks that exist, in any order.

### What the rule model follows where spec and tests differ

`rules.go` is not in the repository, so the rules follow the spec, with `rules_test.go` deciding where the two differ:

- **Mean.** The window-aggregate rule pushes `mean` (test `SimplePassMean`), although spec section 4.6 says it never does. The transpose rule excludes mean.
- **Tag comparisons with `""`.** `r.host == ""` is not pushed; `r.host != ""` and `r._value == ""` are.
- **Exists.** `exists` becomes `!= ""`.
- **Merging.** Merged filters keep `existing AND new`.
- **Bucket resolution.** `LookupBucketID` resolves the name before the ID. The spec prefers the ID. No generated plan sets both, because `from()` rejects that.

## 4. Plan

1. *(done, partly)* **Bucket lookup and plan-node specs** (`operators.go`). Model `LookupBucketID` and `TimeBounds`. A violation run will check the spec's "explicit ID preferred" rule against the code, which looks up the name first.
2. *(done, partly: window offsets, calendar durations, createEmpty, the ReadTagKeys/ReadTagValues rules and multi-successor plans remain)* **Pushdown rules** (spec_modelled, because rules.go is absent). Model the filter, range, group and window-aggregate pushdowns as rewrite actions on a plan. They compose with `StoragePredicate` through `mergePredicates`. Properties:
   - rewriting reaches a fixed point;
   - a pushed filter keeps the rows the original plan keeps;
   - shared `GroupKeys`/`Aggregates` slices from the shallow `Copy` are never mutated through a copy.
3. *(V2 contract and per-key Range done)* **DBRP V1 vs V2.** Add the default-uniqueness rule of the V2 suite as a property of the V1 service. With two callers, refinement of `AtomicDBRP` fails first on the Create race, so linearizability of Range is stated as `RangeWithinCall` instead.
4. *(done, partly: pkger's Parse and Combine and the printers remain)* **Template CLI.** `parseTemplateActions`, the apply decision, `stacks rm` and the `stacks update` prompt loop.
5. *(done)* **Recorder.** `Process` as a consumer of an at-least-once subscription, with a crash and an in-flight redelivery.
6. *(done)* **Authorization wrappers.** Every method, with the permissions each delegated read or change needs.

The project keeps to twelve runs. Pass runs of related parts are composed into one, the way `MCTemplateCLI` composes the CLI commands (`MCQuery`, `MCServices`).

7. **Recorder duplicates.** A redelivery during processing, or a crash after Record and before the Ack, records a message twice. Whether this matters depends on `WritePoints` of the same points being idempotent, which is in the storage engine, not this repository.

## 5. Not modelled

- **HTTP, terminal and file I/O, and formatting.** These have no state that the properties distinguish. The source proxy's I/O is modelled by its outcomes.
- **The small support files.** They have no behaviour to check: `v1/coordinator/config.go` is a struct of defaults with a constructor, `kv/migration/all/all.go` a fixed list of migrations, `query/influxql/spectests/aggregates.go` test-case tables of queries and their expected Flux, `chronograf/id/uuid.go` a call to a UUID library, `mock/session_service.go` a mock and `tools.go` tool imports.
- **Plan-node slices.** The shallow `Copy` of `GroupKeys`/`Aggregates` (`operators.go:47`, `:138`) is not modelled, because the model's specs are values. The code that could append through a copy is in `rules.go`, which is absent.
- **pkger and the printers.** `pkger.Parse`, `Combine` and `Template.Validate` are not in this file; they are modelled as outcomes (a JSON document also parses as YAML and Jsonnet). `apply` takes only `readTemplate`'s outcome; `TemplateRead` models the reader for `template validate`. The summary and diff printers are output formatting. No run relates the encoding `export -f t.jsonnet` writes (YAML: `createTemplateBuf` chooses JSON only for `.json`) to the one a later `-f t.jsonnet` reads (Jsonnet): they are separate invocations, and it is listed as a hazard.
- **Paths with spaces.** `readTemplate` stats `url.Parse(path).String()`, which writes a space as `%20`; `ParseURL` models this, but no bounded path holds a space. It is listed as a hazard.
- **A `null` recorder message.** `json.Unmarshal` of `null` sets `collected` to nil without an error, and `*collected` panics (`recorder.go:55`). What the panic does to the subscriber depends on the nats package, which is not in this repository; it is listed as a hazard.
- **Time.** `TimeBounds` and relative times are not modelled: bounds are absolute integers.
- **Record failures.** A batch whose Record fails is logged and acknowledged, so it is dropped. This is what the code chooses to do; no text in the repository asks for a retry to check against.
- **sync.Map internals.** Load, Store and Delete are atomic and Range is a step per key, which is its documented contract.
