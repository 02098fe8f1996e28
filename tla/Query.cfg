\* The translator on every bounded expression, and the rewrite driver on
\* every bounded plan.  Both stop (one call; the rewrite fixed point): no
\* deadlock check.
CONSTANTS
    FieldKeyTagKey = FieldKeyTagKey
    MeasurementTagKey = MeasurementTagKey
    NoExpr = NoExpr
    NoPredicate = NoPredicate
SPECIFICATION Spec
INVARIANTS
    TypeOK
    TranslationPreservesMeaning
    TranslationErrorIsFirstFault
    MergeIsRightFold
    
PROPERTIES
    RewriteShrinksPlan
CHECK_DEADLOCK FALSE
