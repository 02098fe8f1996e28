-------------------------- MODULE StoragePredicate --------------------------
(***************************************************************************)
(* The predicate translator and merger of                                  *)
(* query/stdlib/influxdata/influxdb/storage_predicate.go.                  *)
(*                                                                         *)
(* A Flux semantic expression is a record with the uniform shape          *)
(*   [type, op, left, right, value]                                        *)
(* where left/right are sub-expressions (or NoExpr) and value the payload  *)
(* of a literal or, for a member expression r.k, the pair <<r, k>>.       *)
(* A storage node (datatypes.Node) is a record                             *)
(*   [nodeType, value, children]                                           *)
(* with children a sequence of nodes.  Translation returns a Result:       *)
(* [ok |-> TRUE, node |-> n] or [ok |-> FALSE, err |-> [kind, path]]       *)
(* where path is the list of errors.Wrap contexts ("left hand side" /     *)
(* "right hand side") from the root down to the failing node.             *)
(***************************************************************************)
EXTENDS Integers, Sequences, TLC

CONSTANTS
    FieldKeyTagKey,     \* models.FieldKeyTagKey ("\xff"), a model value
    MeasurementTagKey,  \* models.MeasurementTagKey ("\x00"), a model value
    NoExpr              \* absent child of a leaf expression

\* datatypes.FieldKey, datatypes.MeasurementKey, datatypes.ValueKey
FieldKey       == "_field"
MeasurementKey == "_measurement"
ValueKey       == "_value"

\* ast.LogicalOperatorKind -> datatypes.Node_Logical, as in the switch of
\* toStoragePredicateHelper.
LogicalOps == [and |-> "LogicalAnd", or |-> "LogicalOr"]

\* Mutant: the entries for < and <= exchanged.
ComparisonOpsLessSwapped ==
    ("==" :> "ComparisonEqual") @@ ("!=" :> "ComparisonNotEqual") @@
    ("=~" :> "ComparisonRegex") @@ ("!~" :> "ComparisonNotRegex") @@
    ("startswith" :> "ComparisonStartsWith") @@
    ("<" :> "ComparisonLessEqual") @@ ("<=" :> "ComparisonLess") @@
    (">" :> "ComparisonGreater") @@ (">=" :> "ComparisonGreaterEqual")

\* toComparisonOperator: ast.OperatorKind -> datatypes.Node_Comparison.
ComparisonOps ==
    ("==" :> "ComparisonEqual") @@ ("!=" :> "ComparisonNotEqual") @@
    ("=~" :> "ComparisonRegex") @@ ("!~" :> "ComparisonNotRegex") @@
    ("startswith" :> "ComparisonStartsWith") @@
    ("<" :> "ComparisonLess") @@ ("<=" :> "ComparisonLessEqual") @@
    (">" :> "ComparisonGreater") @@ (">=" :> "ComparisonGreaterEqual")

\* The semantic literal types and the datatypes.Node_* value they become.
LiteralTypes == {"String", "Integer", "Boolean", "Float", "Regexp"}

Ok(n)            == [ok |-> TRUE, node |-> n]
Fail(kind)       == [ok |-> FALSE, err |-> [kind |-> kind, path |-> <<>>]]
Wrap(res, side)  == [ok |-> FALSE,
                     err |-> [res.err EXCEPT !.path = <<side>> \o @]]

Node(t, v, ch)   == [nodeType |-> t, value |-> v, children |-> ch]

\* The MemberExpression case: r.k is accepted only for the bound object r;
\* three well-known keys map to fixed references, any other to a tag ref.
MemberNode(n, objectName) ==
    IF n.value[1] # objectName THEN Fail("unknown object")
    ELSE CASE n.value[2] = FieldKey ->
                Ok(Node("TagRef", FieldKeyTagKey, <<>>))
           [] n.value[2] = MeasurementKey ->
                Ok(Node("TagRef", MeasurementTagKey, <<>>))
           [] n.value[2] = ValueKey ->
                Ok(Node("FieldRef", ValueKey, <<>>))
           [] OTHER -> Ok(Node("TagRef", n.value[2], <<>>))

(***************************************************************************)
(* toStoragePredicateHelper.  Both sides are translated (left first, and   *)
(* the right side only when the left succeeded) before the operator is     *)
(* looked up, so an operator error is reported only for a node whose       *)
(* sub-expressions translate.                                              *)
(***************************************************************************)
RECURSIVE toStoragePredicateHelper(_, _)

\* Mutant: the operator is looked up before the operands are translated.
HelperOperatorFirst(n, objectName) ==
  IF n.type \in {"Logical", "Binary"} /\ n.op \notin DOMAIN ComparisonOps
                                      /\ n.op \notin DOMAIN LogicalOps
  THEN Fail(IF n.type = "Logical" THEN "unknown logical operator" ELSE "unknown operator")
  ELSE LET left  == toStoragePredicateHelper(n.left, objectName)
           right == toStoragePredicateHelper(n.right, objectName)
           ops   == IF n.type = "Logical" THEN LogicalOps ELSE ComparisonOps
       IN CASE n.type \in {"Logical", "Binary"} ->
                 IF ~left.ok THEN Wrap(left, "left hand side")
                 ELSE IF ~right.ok THEN Wrap(right, "right hand side")
                 ELSE Ok(Node(IF n.type = "Logical" THEN "LogicalExpression"
                                                   ELSE "ComparisonExpression",
                              ops[n.op], <<left.node, right.node>>))
            [] n.type \in LiteralTypes ->
                 Ok(Node("Literal", [type |-> n.type, v |-> n.value], <<>>))
            [] n.type = "Member" -> MemberNode(n, objectName)
            [] n.type = "Duration" -> Fail("duration literal")
            [] n.type = "DateTime" -> Fail("time literal")
            [] OTHER -> Fail("unsupported expression type")

\* Mutant: a binary expression is built with the logical node type.
HelperBinaryAsLogical(n, objectName) ==
  CASE n.type \in {"Logical", "Binary"} ->
         LET left  == toStoragePredicateHelper(n.left, objectName)
             right == toStoragePredicateHelper(n.right, objectName)
             ops   == IF n.type = "Logical" THEN LogicalOps ELSE ComparisonOps
         IN  IF ~left.ok THEN Wrap(left, "left hand side")
             ELSE IF ~right.ok THEN Wrap(right, "right hand side")
             ELSE IF n.op \notin DOMAIN ops
                  THEN Fail(IF n.type = "Logical" THEN "unknown logical operator"
                                                  ELSE "unknown operator")
             ELSE Ok(Node("LogicalExpression", ops[n.op], <<left.node, right.node>>))
    [] n.type \in LiteralTypes ->
         Ok(Node("Literal", [type |-> n.type, v |-> n.value], <<>>))
    [] n.type = "Member" -> MemberNode(n, objectName)
    [] n.type = "Duration" -> Fail("duration literal")
    [] n.type = "DateTime" -> Fail("time literal")
    [] OTHER -> Fail("unsupported expression type")

toStoragePredicateHelper(n, objectName) ==
  CASE n.type \in {"Logical", "Binary"} ->
         LET left  == toStoragePredicateHelper(n.left, objectName)
             right == toStoragePredicateHelper(n.right, objectName)
             ops   == IF n.type = "Logical" THEN LogicalOps ELSE ComparisonOps
         IN  IF ~left.ok THEN Wrap(left, "left hand side")
             ELSE IF ~right.ok THEN Wrap(right, "right hand side")
             ELSE IF n.op \notin DOMAIN ops
                  THEN Fail(IF n.type = "Logical" THEN "unknown logical operator"
                                                  ELSE "unknown operator")
             ELSE Ok(Node(IF n.type = "Logical" THEN "LogicalExpression"
                                               ELSE "ComparisonExpression",
                          ops[n.op], <<left.node, right.node>>))
    [] n.type \in LiteralTypes ->
         Ok(Node("Literal", [type |-> n.type, v |-> n.value], <<>>))
    [] n.type = "Member" -> MemberNode(n, objectName)
    [] n.type = "Duration" -> Fail("duration literal")
    [] n.type = "DateTime" -> Fail("time literal")
    [] OTHER -> Fail("unsupported expression type")

\* ToStoragePredicate wraps the root node in a datatypes.Predicate.
ToStoragePredicate(n, objectName) ==
    LET res == toStoragePredicateHelper(n, objectName)
    IN  IF res.ok THEN [ok |-> TRUE, pred |-> [root |-> res.node]] ELSE res

(***************************************************************************)
(* mergePredicates: nests the predicates backwards, p1 op (p2 op (... pn)) *)
(* by a loop from the last-but-one predicate down to the first.            *)
(***************************************************************************)
\* Mutant: the loop stops before index 0 (for i := len-2; i > 0; i--).
mergePredicatesDropFirst(op, predicates) ==
  IF predicates = <<>> THEN Fail("at least one predicate is needed")
  ELSE IF op \notin DOMAIN LogicalOps THEN Fail("unknown logical operator")
  ELSE LET n == Len(predicates)
           RECURSIVE Nest(_, _)
           Nest(i, root) ==
             IF i < 2 THEN root
             ELSE Nest(i - 1, Node("LogicalExpression", LogicalOps[op],
                                   <<predicates[i].root, root>>))
       IN  [ok |-> TRUE, pred |-> [root |-> Nest(n - 1, predicates[n].root)]]

mergePredicates(op, predicates) ==
  IF predicates = <<>> THEN Fail("at least one predicate is needed")
  ELSE IF op \notin DOMAIN LogicalOps THEN Fail("unknown logical operator")
  ELSE LET n == Len(predicates)
           RECURSIVE Nest(_, _)
           \* root after the iterations i = n-1 .. k of the Go loop
           Nest(i, root) ==
             IF i < 1 THEN root
             ELSE Nest(i - 1, Node("LogicalExpression", LogicalOps[op],
                                   <<predicates[i].root, root>>))
       IN  [ok |-> TRUE, pred |-> [root |-> Nest(n - 1, predicates[n].root)]]

=============================================================================
