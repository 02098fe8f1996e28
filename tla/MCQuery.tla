-------------------------------- MODULE MCQuery --------------------------------
(***************************************************************************)
(* The Flux storage pushdown checked in one run, one part chosen at the   *)
(* start: the predicate translator (PredicateTranslation on the inputs of *)
(* MCPredicateTranslation) or the rewrite driver (PushdownPlanner on the  *)
(* pass plans of MCPushdownPlanner, with the filter rule merging into      *)
(* ReadRange and the transpose capability on).  The variables of the part *)
(* not chosen keep their initial values.                                   *)
(***************************************************************************)
CONSTANTS FieldKeyTagKey, MeasurementTagKey, NoExpr, NoPredicate

VARIABLES cmd, call, result, plan, orig

pvars == <<call, result>>
dvars == <<plan, orig>>

PlanData == INSTANCE MCPushdownPlanner
              WITH InitialPlans <- {}, FilterTargets <- {"ReadRange"},
                   Capabilities <- {"GroupWindowAggregateTranspose"}

PTData == INSTANCE MCPredicateTranslation

\* The inputs, computed once.
TranslateExprs == PTData!MCExprs
TranslateMergeAtoms == PTData!MCMergeAtoms
TranslateRows == PTData!MCRows
PassPlans == PlanData!PassPlans

PT == INSTANCE PredicateTranslation
        WITH ObjectName <- PTData!R, Exprs <- TranslateExprs, MergeAtoms <- TranslateMergeAtoms,
             MaxMerge <- 3, Rows <- TranslateRows

PP == INSTANCE MCPushdownPlanner
        WITH InitialPlans <- PassPlans, FilterTargets <- {"ReadRange"},
             Capabilities <- {"GroupWindowAggregateTranspose"}

\* The plan of the part not run is fixed to one value.
Idle(v, S) == v = CHOOSE x \in S : TRUE

Init ==
    \/ cmd = "translate" /\ Idle(orig, PassPlans) /\ PT!Init /\ PP!Init
    \/ cmd = "plan" /\ PT!Init /\ PP!Init

Next ==
    \/ cmd = "translate" /\ PT!Next /\ UNCHANGED <<cmd, dvars>>
    \/ cmd = "plan" /\ PP!Next /\ UNCHANGED <<cmd, pvars>>

Spec == Init /\ [][Next]_<<cmd, pvars, dvars>>

----------------------------------------------------------------------------
\* The part not run keeps a state its own run checks; each invariant is
\* stated for the part it is about.

\* Both parts' states have their types.
TypeOK == PT!TypeOK /\ PP!TypeOK

\* A translated filter selects exactly the rows the Flux filter function
\* keeps (the operator table, the reserved tag keys, the AND/OR mapping).
TranslationPreservesMeaning == cmd = "translate" => PT!TranslationPreservesMeaning

\* The translator fails exactly on expressions with an unsupported node,
\* and its error names the first such node in the recursion's order.
TranslationErrorIsFirstFault == cmd = "translate" => PT!TranslationErrorIsFirstFault

\* mergePredicates is the right fold the storage wire format expects, and
\* refuses an empty list.
MergeIsRightFold == cmd = "translate" => PT!MergeIsRightFold

\* Every rewrite of the driver keeps what the query computes: the same
\* tables, or the same error code.
PlanMeaningPreserved == cmd = "plan" => PP!PlanMeaningPreserved

\* Every rewrite strictly shrinks the plan's weight, so the driver reaches
\* its fixed point.
RewriteShrinksPlan == PP!RewriteShrinksPlan
====
