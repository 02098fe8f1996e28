------------------------ MODULE PredicateTranslation ------------------------
(***************************************************************************)
(* Checks the translator and merger of StoragePredicate against reference *)
(* definitions: what a Flux row predicate means, what a storage predicate  *)
(* tree means to the storage engine, and in which order the translator     *)
(* meets faults.  A behaviour is one call of the translator or the merger *)
(* on a bounded input and its result; both are pure functions that return  *)
(* in one step, so a behaviour ends there (the run does not check         *)
(* deadlock).                                                              *)
(***************************************************************************)
EXTENDS Integers, Sequences, SequencesExt, FiniteSets

CONSTANTS
    FieldKeyTagKey, MeasurementTagKey, NoExpr,
    ObjectName,     \* the bound row variable of the filter function, r
    Exprs,          \* bounded set of semantic expressions to translate
    MergeAtoms,     \* expressions whose translations are merged
    MaxMerge,       \* longest predicate list given to mergePredicates
    Rows            \* Flux rows: column name -> typed value

INSTANCE PredicateSemantics

VARIABLES call, result
vars == <<call, result>>

ASSUME \A e \in MergeAtoms : ToStoragePredicate(e, ObjectName).ok

----------------------------------------------------------------------------
(* The reference meanings are those of PredicateSemantics; a Rows     *)
(* element carries every column, so the null cases do not arise here.    *)

\* The fault a node has by itself, regardless of its children.
SupportedComparisons == {"==", "!=", "=~", "!~", "startswith", "<", "<=", ">", ">="}
OwnFault(e) ==
    CASE e.type = "Logical" /\ e.op \notin {"and", "or"} -> "unknown logical operator"
      [] e.type = "Binary" /\ e.op \notin SupportedComparisons -> "unknown operator"
      [] e.type = "Member" /\ e.value[1] # ObjectName -> "unknown object"
      [] e.type = "Duration" -> "duration literal"
      [] e.type = "DateTime" -> "time literal"
      [] e.type \in {"Logical", "Binary", "Member", "String", "Integer",
                     "Float", "Boolean", "Regexp"} -> "none"
      [] OTHER -> "unsupported expression type"

\* Paths to all nodes, children before their parent, left before right.
RECURSIVE PostOrder(_)
PostOrder(e) ==
    IF e.type \in {"Logical", "Binary"}
    THEN [i \in 1..Len(PostOrder(e.left)) |->
              <<"left hand side">> \o PostOrder(e.left)[i]]
         \o [i \in 1..Len(PostOrder(e.right)) |->
              <<"right hand side">> \o PostOrder(e.right)[i]]
         \o << <<>> >>
    ELSE << <<>> >>

RECURSIVE SubExpr(_, _)
SubExpr(e, path) ==
    IF path = <<>> THEN e
    ELSE SubExpr(IF Head(path) = "left hand side" THEN e.left ELSE e.right, Tail(path))

FaultPaths(e) == SelectSeq(PostOrder(e), LAMBDA p : OwnFault(SubExpr(e, p)) # "none")

----------------------------------------------------------------------------
Init ==
    /\ call = [fn |-> "none"]
    /\ result = [ok |-> TRUE]

\* ToStoragePredicate(expr, "r") as called by the filter pushdown rule.
Translate(e) ==
    /\ call.fn = "none"
    /\ call' = [fn |-> "ToStoragePredicate", expr |-> e]
    /\ result' = ToStoragePredicate(e, ObjectName)

\* mergePredicates(op, ps...) on the translations of atoms.
Merge(op, atoms) ==
    /\ call.fn = "none"
    /\ call' = [fn |-> "mergePredicates", op |-> op, atoms |-> atoms]
    /\ result' = mergePredicates(op,
                   [i \in DOMAIN atoms |-> ToStoragePredicate(atoms[i], ObjectName).pred])

Next ==
    \/ \E e \in Exprs : Translate(e)
    \/ \E op \in {"and", "or"}, atoms \in BoundedSeq(MergeAtoms, MaxMerge) :
          Merge(op, atoms)

Spec == Init /\ [][Next]_vars

----------------------------------------------------------------------------
TypeOK ==
    /\ call.fn \in {"none", "ToStoragePredicate", "mergePredicates"}
    /\ result.ok \in BOOLEAN
    /\ call.fn # "none" /\ result.ok => IsPredicateTree(result.pred.root)
    /\ ~result.ok => result.err.kind \in
          {"unknown logical operator", "unknown operator", "unknown object",
           "duration literal", "time literal", "unsupported expression type",
           "at least one predicate is needed"}

\* A translated filter selects exactly the rows the Flux filter function
\* keeps: for every row, the storage engine's evaluation of the predicate
\* tree on the row's series equals Flux's evaluation of the expression.
\* This is about the operator table, the reserved tag keys chosen for
\* r._field / r._measurement / r._value and the AND/OR mapping.
TranslationPreservesMeaning ==
    (call.fn = "ToStoragePredicate" /\ result.ok) =>
        \A row \in Rows :
            EvalNode(result.pred.root, StorageRow(row, DOMAIN row)) = EvalExpr(call.expr, row)

\* The translator fails exactly on expressions with some unsupported node,
\* and the error it reports, with its chain of "left hand side" / "right
\* hand side" wrappings, names the first such node in the order the
\* recursion visits them (both operands before the node's own operator).
TranslationErrorIsFirstFault ==
    call.fn = "ToStoragePredicate" =>
        LET faults == FaultPaths(call.expr)
        IN  /\ result.ok = (faults = <<>>)
            /\ ~result.ok =>
                 /\ result.err.path = faults[1]
                 /\ result.err.kind = OwnFault(SubExpr(call.expr, faults[1]))

\* Merging is the right fold p1 op (p2 op (... op pn)) that the storage
\* wire format expects, and it refuses an empty list.
MergeIsRightFold ==
    call.fn = "mergePredicates" =>
        LET roots == [i \in DOMAIN call.atoms |->
                        ToStoragePredicate(call.atoms[i], ObjectName).pred.root]
            join(p, acc) == Node("LogicalExpression", LogicalOps[call.op], <<p, acc>>)
        IN  IF roots = <<>> THEN ~result.ok
            ELSE result.ok /\ result.pred.root = FoldRight(join, Front(roots), Last(roots))

=============================================================================
