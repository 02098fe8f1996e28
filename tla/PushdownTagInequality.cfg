\* A filter r.host != "a" over a bucket with a series that has no host
\* tag; spec §4.4 counts a tag inequality as pushable.
CONSTANTS
    FieldKeyTagKey = FieldKeyTagKey
    MeasurementTagKey = MeasurementTagKey
    NoExpr = NoExpr
    NoPredicate = NoPredicate
    InitialPlans <- TagInequalityPlans
    FilterTargets = {"ReadRange"}
    Capabilities = {}
SPECIFICATION Spec
INVARIANT PlanMeaningPreserved
CHECK_DEADLOCK FALSE
