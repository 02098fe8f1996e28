\* One caller; FindBy with the cluster name "a/a", which path.Join runs into the database.
CONSTANTS
    Procs = {p1}
    Nil = Nil
    NoMapping = NoMapping
    MaxOps = 6
    Mappings <- ValidMappings
    Queries <- CollidingQueries
    Filters <- MCFilters
SPECIFICATION Spec
INVARIANTS
    FindByMatchesQuery
CHECK_DEADLOCK FALSE
