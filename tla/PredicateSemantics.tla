------------------------- MODULE PredicateSemantics -------------------------
(***************************************************************************)
(* Reference meanings against which the translator and the pushdown rules *)
(* are checked: what a Flux predicate means on a row, and what a storage   *)
(* predicate tree means on the series the row belongs to.                  *)
(*                                                                         *)
(* A row maps column names to typed values [type, v]; a string is a        *)
(* sequence of character codes and a regex the set of strings it matches.  *)
(* A tag the row's series lacks is not in the row's domain: Flux reads it  *)
(* as null, and a comparison with null is null, which filter() drops; the  *)
(* storage engine reads it as the empty string.                            *)
(***************************************************************************)
EXTENDS Integers, Sequences, SequencesExt

CONSTANTS FieldKeyTagKey, MeasurementTagKey, NoExpr, ObjectName

INSTANCE StoragePredicate

ValueType == [String |-> "string", Integer |-> "number", Float |-> "number",
              Boolean |-> "bool", Regexp |-> "regex"]

Null == [type |-> "null", v |-> <<>>]

RECURSIVE LexLess(_, _)
LexLess(a, b) ==
    /\ b # <<>>
    /\ \/ a = <<>>
       \/ a[1] < Head(b)
       \/ a[1] = Head(b) /\ LexLess(Tail(a), Tail(b))

Less(a, b) == IF a.type = "number" THEN a.v < b.v ELSE LexLess(a.v, b.v)
Matches(a, re) == re.type = "regex" /\ a.type = "string" /\ a.v \in re.v

\* Flux comparison operators on row values; null on either side is null.
FluxCompare(op, a, b) ==
    /\ a.type # "null" /\ b.type # "null"
    /\ CASE op = "==" -> a = b
         [] op = "!=" -> a # b
         [] op = "<"  -> Less(a, b)
         [] op = "<=" -> Less(a, b) \/ a = b
         [] op = ">"  -> Less(b, a)
         [] op = ">=" -> Less(b, a) \/ a = b
         [] op = "=~" -> Matches(a, b)
         [] op = "!~" -> ~Matches(a, b)
         [] op = "startswith" -> IsPrefix(b.v, a.v)

\* What a filter function body means for one row (null counts as false).
RECURSIVE EvalExpr(_, _)
EvalExpr(e, row) ==
    CASE e.type = "Logical" /\ e.op = "and" ->
           EvalExpr(e.left, row) /\ EvalExpr(e.right, row)
      [] e.type = "Logical" /\ e.op = "or" ->
           EvalExpr(e.left, row) \/ EvalExpr(e.right, row)
      [] e.type = "Binary" ->
           FluxCompare(e.op, EvalExpr(e.left, row), EvalExpr(e.right, row))
      [] e.type = "Exists" -> e.value[2] \in DOMAIN row
      [] e.type = "Member" -> IF e.value[2] \in DOMAIN row THEN row[e.value[2]] ELSE Null
      [] OTHER -> [type |-> ValueType[e.type], v |-> e.value]

\* The series a row belongs to, as the storage engine keys it: the
\* measurement and field under their reserved tag keys, the value apart;
\* columns outside Tags (time, window bounds) are not part of it.
StorageRow(row, Tags) ==
    [tags  |-> [k \in (DOMAIN row \cap Tags) \union {MeasurementTagKey, FieldKeyTagKey} |->
                  CASE k = MeasurementTagKey -> row[MeasurementKey].v
                    [] k = FieldKeyTagKey    -> row[FieldKey].v
                    [] OTHER                 -> row[k].v],
     field |-> row[ValueKey].v]

StorageCompare(cmp, a, b) ==
    CASE cmp = "ComparisonEqual"        -> a = b
      [] cmp = "ComparisonNotEqual"     -> a # b
      [] cmp = "ComparisonLess"         -> Less(a, b)
      [] cmp = "ComparisonLessEqual"    -> Less(a, b) \/ a = b
      [] cmp = "ComparisonGreater"      -> Less(b, a)
      [] cmp = "ComparisonGreaterEqual" -> Less(b, a) \/ a = b
      [] cmp = "ComparisonRegex"        -> Matches(a, b)
      [] cmp = "ComparisonNotRegex"     -> ~Matches(a, b)
      [] cmp = "ComparisonStartsWith"   -> IsPrefix(b.v, a.v)

\* What the storage engine makes of a predicate node on a series row; a
\* tag the series lacks reads as the empty string.
RECURSIVE EvalNode(_, _)
EvalNode(n, srow) ==
    CASE n.nodeType = "LogicalExpression" /\ n.value = "LogicalAnd" ->
           EvalNode(n.children[1], srow) /\ EvalNode(n.children[2], srow)
      [] n.nodeType = "LogicalExpression" /\ n.value = "LogicalOr" ->
           EvalNode(n.children[1], srow) \/ EvalNode(n.children[2], srow)
      [] n.nodeType = "ComparisonExpression" ->
           StorageCompare(n.value, EvalNode(n.children[1], srow),
                                   EvalNode(n.children[2], srow))
      [] n.nodeType = "TagRef" ->
           [type |-> "string",
            v |-> IF n.value \in DOMAIN srow.tags THEN srow.tags[n.value] ELSE <<>>]
      [] n.nodeType = "FieldRef" -> [type |-> "number", v |-> srow.field]
      [] n.nodeType = "Literal" -> [type |-> ValueType[n.value.type], v |-> n.value.v]

\* The shape of a storage predicate tree: logical nodes join two
\* expressions, comparisons compare two value leaves.
RECURSIVE IsPredicateTree(_)
IsPredicateTree(n) ==
    CASE n.nodeType = "LogicalExpression" ->
           /\ n.value \in {"LogicalAnd", "LogicalOr"}
           /\ Len(n.children) = 2
           /\ \A i \in 1..2 : IsPredicateTree(n.children[i])
      [] n.nodeType = "ComparisonExpression" ->
           /\ n.value \in Range(ComparisonOps)
           /\ Len(n.children) = 2
           /\ \A i \in 1..2 : n.children[i].nodeType \in {"TagRef", "FieldRef", "Literal"}
      [] OTHER -> FALSE

=============================================================================
