\* Spec §4.4 lets the filter rule merge a filter into any Read* node,
\* ReadGroup and ReadWindowAggregate included, also after they carry an
\* aggregate.
CONSTANTS
    FieldKeyTagKey = FieldKeyTagKey
    MeasurementTagKey = MeasurementTagKey
    NoExpr = NoExpr
    NoPredicate = NoPredicate
    InitialPlans <- AfterAggregatePlans
    FilterTargets <- ReadKinds
    Capabilities = {}
SPECIFICATION Spec
INVARIANT PlanMeaningPreserved
CHECK_DEADLOCK FALSE
