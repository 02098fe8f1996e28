--------------------------- MODULE PushdownPlanner ---------------------------
(***************************************************************************)
(* The physical-plan pushdown of the storage source: the physical operator *)
(* specs of query/stdlib/influxdata/influxdb/operators.go, the bucket      *)
(* lookup they carry, and the rewrite rules of spec §4.3-§4.9 applied by   *)
(* the planner's driver until none matches.                                *)
(*                                                                         *)
(* A plan is a pipeline: a sequence of nodes, the source first.  Logical   *)
(* nodes are from, range, filter, group, window and agg; physical nodes     *)
(* are ReadRange, ReadGroup and ReadWindowAggregate, whose spec records    *)
(* have the fields of ReadRangePhysSpec, ReadGroupPhysSpec and             *)
(* ReadWindowAggregatePhysSpec (the embedded ReadRangePhysSpec is field    *)
(* rr).  The rules' code (rules.go) is not part of this repository; they   *)
(* are modelled from the specification, with the rule tests of             *)
(* rules_test.go deciding what the specification leaves open.             *)
(*                                                                         *)
(* orig is the plan the driver started from; plan is the current plan.    *)
(***************************************************************************)
EXTENDS Integers, Sequences, SequencesExt, FiniteSets

CONSTANTS
    FieldKeyTagKey, MeasurementTagKey, NoExpr, ObjectName, Tags, Start, Stop, Scale,
    NoPredicate,        \* a nil *datatypes.Predicate
    Buckets,            \* the BucketLookup: bucket name -> ID
    DecodeID,           \* platform.ID.DecodeFromString: decodable ID strings -> ID
    Data,               \* bucket ID -> its points
    MaxDuration,        \* math.MaxInt64 nanoseconds, the window of a bare aggregate
    FilterTargets,      \* node kinds PushDownFilterRule merges a filter into
    Capabilities,       \* feature flags on the compilation context
    InitialPlans        \* the logical plans the driver may be given

INSTANCE FluxTables

VARIABLES plan, orig
vars == <<plan, orig>>

PhysicalKinds == {"ReadRange", "ReadGroup", "ReadWindowAggregate"}

----------------------------------------------------------------------------
(* operators.go *)

\* ReadRangePhysSpec: bucket name or ID, pushed-down Filter, Bounds.
ReadRangePhysSpec(bucket, bucketID) ==
    [Bucket |-> bucket, BucketID |-> bucketID, Filter |-> NoPredicate,
     Bounds |-> <<Start, Stop>>]

\* ReadGroupPhysSpec: the range spec with GroupMode, GroupKeys and the
\* AggregateMethod ("" until the group aggregate rule sets it).
ReadGroupPhysSpec(rr, mode, keys) ==
    [rr |-> rr, GroupMode |-> mode, GroupKeys |-> keys, AggregateMethod |-> ""]

\* ReadWindowAggregatePhysSpec with one aggregate and the default
\* CreateEmpty/TimeColumn.
ReadWindowAggregatePhysSpec(rr, every, agg) ==
    [rr |-> rr, WindowEvery |-> every, Offset |-> 0, Aggregates |-> <<agg>>,
     CreateEmpty |-> FALSE, TimeColumn |-> ""]

RR(n) == IF n.kind = "ReadRange" THEN n.spec ELSE n.spec.rr

\* Copy of the node's ReadRangePhysSpec with a new Filter; the copy is a
\* value, so sharing GroupKeys/Aggregates with the original is harmless
\* here (see README).
CopyWithFilter(n, pred) ==
    IF n.kind = "ReadRange" THEN [n EXCEPT !.spec.Filter = pred]
    ELSE [n EXCEPT !.spec.rr.Filter = pred]

LookupBucketID(rr) ==
    CASE rr.Bucket # "" /\ rr.Bucket \in DOMAIN Buckets ->
           [ok |-> TRUE, id |-> Buckets[rr.Bucket]]
      [] rr.Bucket # "" -> [ok |-> FALSE, code |-> "NotFound"]
      [] rr.BucketID # "" /\ rr.BucketID \in DOMAIN DecodeID ->
           [ok |-> TRUE, id |-> DecodeID[rr.BucketID]]
      [] rr.BucketID # "" -> [ok |-> FALSE, code |-> "Invalid"]
      [] OTHER -> [ok |-> FALSE, code |-> "Invalid"]

----------------------------------------------------------------------------
(* What a plan computes. *)

\* from(bucket: ...) as the specification resolves it: an explicit ID
\* first, then a name.
FromBucket(b) ==
    CASE b.id # "" /\ b.id \in DOMAIN DecodeID -> [ok |-> TRUE, id |-> DecodeID[b.id]]
      [] b.id # "" -> [ok |-> FALSE, code |-> "Invalid"]
      [] b.name \in DOMAIN Buckets -> [ok |-> TRUE, id |-> Buckets[b.name]]
      [] b.name # "" -> [ok |-> FALSE, code |-> "NotFound"]
      [] OTHER -> [ok |-> FALSE, code |-> "Invalid"]

\* The tables a physical node reads from the storage engine.
ReadStream(n, id) ==
    LET rr   == RR(n)
        base == RangeOp({p \in Data[id] :
                           rr.Filter = NoPredicate \/
                           EvalNode(rr.Filter.root, StorageRow(p, Tags))})
    IN  CASE n.kind = "ReadRange" -> base
          [] n.kind = "ReadGroup" ->
               LET g == GroupOp(n.spec.GroupMode, n.spec.GroupKeys, base)
               IN  IF n.spec.AggregateMethod = "" THEN g
                   ELSE AggOp(n.spec.AggregateMethod, g)
          [] n.kind = "ReadWindowAggregate" ->
               AggOp(n.spec.Aggregates[1], WindowOp(n.spec.WindowEvery, base))

Apply(s, n) ==
    CASE n.kind = "filter" -> FilterOp(n.fn, s)
      [] n.kind = "group"  -> GroupOp(n.mode, n.keys, s)
      [] n.kind = "window" -> WindowOp(n.every, s)
      [] n.kind = "agg"    -> AggOp(n.fn, s)

\* The result of running a plan: its tables or the error that fails it.
Eval(p) ==
    IF p[1].kind = "from"
    THEN LET b == FromBucket(p[1].bucket)
         IN  IF ~b.ok THEN b
             ELSE [ok |-> TRUE, s |-> FoldLeft(Apply, RangeOp(Data[b.id]), SubSeq(p, 3, Len(p)))]
    ELSE LET b == LookupBucketID(RR(p[1]))
         IN  IF ~b.ok THEN b
             ELSE [ok |-> TRUE, s |-> FoldLeft(Apply, ReadStream(p[1], b.id), Tail(p))]


----------------------------------------------------------------------------
(* The filter decomposition of spec §4.4 and §4.1 (rules.go). *)

AndExpr(l, r) == [type |-> "Logical", op |-> "and", left |-> l, right |-> r, value |-> 0]

\* The conjuncts of a filter body: its top-level "and" operands.
RECURSIVE Conjuncts(_)
Conjuncts(e) ==
    IF e.type = "Logical" /\ e.op = "and" THEN Conjuncts(e.left) \o Conjuncts(e.right)
    ELSE <<e>>

\* The conjunction of a non-empty list of expressions, left-nested.
Conjunction(es) == FoldLeft(AndExpr, Head(es), Tail(es))

\* exists r.k becomes r.k != "" before translation (spec §4.1).
RECURSIVE RewriteExists(_)
RewriteExists(e) ==
    CASE e.type = "Exists" ->
           [type |-> "Binary", op |-> "!=", left |-> [e EXCEPT !.type = "Member"],
            right |-> [type |-> "String", op |-> "", left |-> NoExpr, right |-> NoExpr,
                       value |-> <<>>], value |-> 0]
      [] e.type = "Logical" ->
           [e EXCEPT !.left = RewriteExists(e.left), !.right = RewriteExists(e.right)]
      [] OTHER -> e

IsLiteral(e) == e.type \in LiteralTypes
IsRowMember(e) == e.type = "Member" /\ e.value[1] = ObjectName

\* Whether a conjunct can be pushed: comparisons of a column of r with a
\* literal, except an inequality on the value column and the tag test
\* r.k == "" (which the storage engine cannot tell from a missing tag);
\* exists r.k; and/or of pushable expressions.
RECURSIVE IsPushable(_)

\* Mutant: r.k == "" on a tag is pushed like any other tag comparison.
IsPushableEmptyTag(e) ==
    CASE e.type = "Logical" -> IsPushable(e.left) /\ IsPushable(e.right)
      [] e.type = "Exists" -> e.value[1] = ObjectName
      [] e.type = "Binary" ->
           /\ IsRowMember(e.left) /\ IsLiteral(e.right)
           /\ e.op \in DOMAIN ComparisonOps
           /\ e.left.value[2] = ValueKey => e.op \notin {"<", "<=", ">", ">="}
      [] OTHER -> FALSE

IsPushable(e) ==
    CASE e.type = "Logical" -> IsPushable(e.left) /\ IsPushable(e.right)
      [] e.type = "Exists" -> e.value[1] = ObjectName
      [] e.type = "Binary" ->
           /\ IsRowMember(e.left) /\ IsLiteral(e.right)
           /\ e.op \in DOMAIN ComparisonOps
           /\ e.left.value[2] = ValueKey => e.op \notin {"<", "<=", ">", ">="}
           /\ e.left.value[2] \in Tags /\ e.op = "==" => e.right.value # <<>>
      [] OTHER -> FALSE

\* The window and aggregate column preconditions of spec §4.6.
WindowAligned(w) ==
    /\ w.period = w.every /\ w.offset >= 0
    /\ w.timeColumn = "_time" /\ w.startColumn = "_start" /\ w.stopColumn = "_stop"

AggOnValue(a) == a.column = ValueKey

----------------------------------------------------------------------------
(* The rewrite rules.  Each replaces the k nodes from position i by a      *)
(* replacement sequence; every rule needs single-successor neighbours,     *)
(* which a pipeline has.                                                    *)

Splice(i, k, repl) == SubSeq(plan, 1, i - 1) \o repl \o SubSeq(plan, i + k, Len(plan))

Window3(i) == i + 2 <= Len(plan)

\* Mutant: the range node is left behind the new ReadRange.
PushDownRangeRuleKeepsRange(i) ==
    /\ i + 1 <= Len(plan)
    /\ plan[i].kind = "from" /\ plan[i + 1].kind = "range"
    /\ plan' = Splice(i, 1, <<[kind |-> "ReadRange",
                  spec |-> ReadRangePhysSpec(plan[i].bucket.name, plan[i].bucket.id)]>>)

\* PushDownRangeRule: from -> range => ReadRange.
PushDownRangeRule(i) ==
    /\ i + 1 <= Len(plan)
    /\ plan[i].kind = "from" /\ plan[i + 1].kind = "range"
    /\ plan' = Splice(i, 2, <<[kind |-> "ReadRange",
                  spec |-> ReadRangePhysSpec(plan[i].bucket.name, plan[i].bucket.id)]>>)

\* Mutant: a fully pushed filter node is kept instead of removed.
PushDownFilterRuleKeepsFilter(i) ==
    /\ i + 1 <= Len(plan)
    /\ plan[i].kind \in FilterTargets /\ plan[i + 1].kind = "filter"
    /\ LET cs   == Conjuncts(plan[i + 1].fn)
           push == SelectSeq(cs, IsPushable)
           rest == SelectSeq(cs, LAMBDA c : ~IsPushable(c))
           pred == ToStoragePredicate(RewriteExists(Conjunction(push)), ObjectName)
           old  == RR(plan[i]).Filter
           new  == IF old = NoPredicate THEN pred.pred
                   ELSE mergePredicates("and", <<old, pred.pred>>).pred
       IN  /\ push # <<>>
           /\ pred.ok
           /\ plan' = Splice(i, 2, <<CopyWithFilter(plan[i], new)>> \o
                        (IF rest = <<>> THEN <<plan[i + 1]>>
                         ELSE <<[kind |-> "filter", fn |-> Conjunction(rest)]>>))

\* PushDownFilterRule: Read* -> filter => Read*{Filter merged} [-> filter
\* of the unpushable remainder].  The pushable conjuncts are translated as
\* one conjunction and merged after an existing Filter.
PushDownFilterRule(i) ==
    /\ i + 1 <= Len(plan)
    /\ plan[i].kind \in FilterTargets /\ plan[i + 1].kind = "filter"
    /\ LET cs   == Conjuncts(plan[i + 1].fn)
           push == SelectSeq(cs, IsPushable)
           rest == SelectSeq(cs, LAMBDA c : ~IsPushable(c))
           pred == ToStoragePredicate(RewriteExists(Conjunction(push)), ObjectName)
           old  == RR(plan[i]).Filter
           new  == IF old = NoPredicate THEN pred.pred
                   ELSE mergePredicates("and", <<old, pred.pred>>).pred
       IN  /\ push # <<>>
           /\ pred.ok
           /\ plan' = Splice(i, 2, <<CopyWithFilter(plan[i], new)>> \o
                        (IF rest = <<>> THEN <<>>
                         ELSE <<[kind |-> "filter", fn |-> Conjunction(rest)]>>))

\* PushDownGroupRule: ReadRange -> group(mode: "by") => ReadGroup.
PushDownGroupRule(i) ==
    /\ i + 1 <= Len(plan)
    /\ plan[i].kind = "ReadRange" /\ plan[i + 1].kind = "group"
    /\ plan[i + 1].mode = "by"
    /\ plan' = Splice(i, 2, <<[kind |-> "ReadGroup",
                  spec |-> ReadGroupPhysSpec(plan[i].spec, "by", plan[i + 1].keys)]>>)

WindowAggregates == {"min", "max", "mean", "count", "sum", "first", "last"}

\* PushDownWindowAggregateRule: ReadRange -> window -> agg => ReadWindowAggregate.
PushDownWindowAggregateRule(i) ==
    /\ Window3(i)
    /\ plan[i].kind = "ReadRange" /\ plan[i + 1].kind = "window" /\ plan[i + 2].kind = "agg"
    /\ WindowAligned(plan[i + 1]) /\ ~plan[i + 1].createEmpty
    /\ plan[i + 2].fn \in WindowAggregates /\ AggOnValue(plan[i + 2])
    /\ plan' = Splice(i, 3, <<[kind |-> "ReadWindowAggregate",
                  spec |-> ReadWindowAggregatePhysSpec(plan[i].spec, plan[i + 1].every,
                                                       plan[i + 2].fn)]>>)

\* PushDownBareAggregateRule: ReadRange -> agg => ReadWindowAggregate over
\* one window of MaxDuration.
PushDownBareAggregateRule(i) ==
    /\ i + 1 <= Len(plan)
    /\ plan[i].kind = "ReadRange" /\ plan[i + 1].kind = "agg"
    /\ plan[i + 1].fn \in {"count", "sum", "first", "last"} /\ AggOnValue(plan[i + 1])
    /\ plan' = Splice(i, 2, <<[kind |-> "ReadWindowAggregate",
                  spec |-> ReadWindowAggregatePhysSpec(plan[i].spec, MaxDuration,
                                                       plan[i + 1].fn)]>>)

\* PushDownGroupAggregateRule: ReadGroup (no AggregateMethod) -> agg =>
\* ReadGroup{AggregateMethod}.
PushDownGroupAggregateRule(i) ==
    /\ i + 1 <= Len(plan)
    /\ plan[i].kind = "ReadGroup" /\ plan[i].spec.AggregateMethod = ""
    /\ plan[i + 1].kind = "agg"
    /\ plan[i + 1].fn \in {"count", "sum", "first", "last", "max", "min"}
    /\ AggOnValue(plan[i + 1])
    /\ plan' = Splice(i, 2, <<[plan[i] EXCEPT !.spec.AggregateMethod = plan[i + 1].fn]>>)

TransposeAggregates == {"min", "max", "first", "last", "sum", "count"}

\* GroupWindowAggregateTransposeRule (with the capability): ReadGroup(by)
\* -> window -> agg => ReadWindowAggregate -> group(keys, _start, _stop)
\* -> agg, count re-aggregated by sum.
GroupWindowAggregateTransposeRule(i) ==
    /\ "GroupWindowAggregateTranspose" \in Capabilities
    /\ Window3(i)
    /\ plan[i].kind = "ReadGroup" /\ plan[i].spec.GroupMode = "by"
    /\ plan[i].spec.AggregateMethod = ""
    /\ plan[i + 1].kind = "window" /\ plan[i + 2].kind = "agg"
    /\ WindowAligned(plan[i + 1]) /\ ~plan[i + 1].createEmpty
    /\ plan[i + 2].fn \in TransposeAggregates /\ AggOnValue(plan[i + 2])
    /\ LET fn == plan[i + 2].fn
       IN  plan' = Splice(i, 3,
             << [kind |-> "ReadWindowAggregate",
                 spec |-> ReadWindowAggregatePhysSpec(plan[i].spec.rr, plan[i + 1].every, fn)],
                [kind |-> "group", mode |-> "by",
                 keys |-> plan[i].spec.GroupKeys \union {"_start", "_stop"}],
                [plan[i + 2] EXCEPT !.fn = IF fn = "count" THEN "sum" ELSE fn] >>)

\* MergeFiltersRule: filter(a) -> filter(b) => filter(b and a).
MergeFiltersRule(i) ==
    /\ i + 1 <= Len(plan)
    /\ plan[i].kind = "filter" /\ plan[i + 1].kind = "filter"
    /\ plan' = Splice(i, 2, <<[kind |-> "filter", fn |-> AndExpr(plan[i + 1].fn, plan[i].fn)]>>)

----------------------------------------------------------------------------
Init ==
    /\ orig \in InitialPlans
    /\ plan = orig

\* One step of the rewrite driver: some rule rewrites some position.  At
\* the fixed point no rule matches and planning ends.
Next ==
    /\ UNCHANGED orig
    /\ \E i \in 1..Len(plan) :
          \/ PushDownRangeRule(i)
          \/ PushDownFilterRule(i)
          \/ PushDownGroupRule(i)
          \/ PushDownWindowAggregateRule(i)
          \/ PushDownBareAggregateRule(i)
          \/ PushDownGroupAggregateRule(i)
          \/ GroupWindowAggregateTransposeRule(i)
          \/ MergeFiltersRule(i)

Spec == Init /\ [][Next]_vars

----------------------------------------------------------------------------
\* The source comes first and is the only physical node, a range follows
\* a from and nothing else, and every pushed
\* Filter is a well-formed storage predicate tree.
TypeOK ==
    /\ Len(plan) >= 1
    /\ plan[1].kind \in {"from"} \union PhysicalKinds
    /\ \A j \in 2..Len(plan) : plan[j].kind \in {"range", "filter", "group", "window", "agg"}
    /\ \A j \in 2..Len(plan) : plan[j].kind = "range" <=> (j = 2 /\ plan[1].kind = "from")
    /\ plan[1].kind \in PhysicalKinds =>
         RR(plan[1]).Filter = NoPredicate \/ IsPredicateTree(RR(plan[1]).Filter.root)

\* Every rewrite keeps what the query computes: the plan returns the same
\* tables, or fails with the same error code, as the plan the driver was
\* given.  This is about the pushability test, the conjunct split and the
\* Filter merge of the filter rule, the group/aggregate methods the rules
\* fold into the read specs, the count->sum re-aggregation of the
\* transpose, and LookupBucketID's resolution of the bucket.
PlanMeaningPreserved == Eval(plan) = Eval(orig)

\* The weight of the part of a plan left to the query engine: a filter
\* counts one more than its conjuncts, a window two, other logical nodes
\* one, physical reads nothing.
Weight(n) ==
    CASE n.kind = "filter" -> 1 + Len(Conjuncts(n.fn))
      [] n.kind = "window" -> 2
      [] n.kind \in PhysicalKinds -> 0
      [] OTHER -> 1
PlanWeight(p) == FoldLeft(LAMBDA acc, n : acc + Weight(n), 0, p)

\* Every rewrite strictly shrinks that weight, so the driver, which
\* applies rules until none matches, always reaches its fixed point (no
\* rule undoes another or re-matches its own output).
RewriteShrinksPlan == [][PlanWeight(plan') < PlanWeight(plan)]_plan

=============================================================================
