\* Two callers: Create's Load and Store interleave with another Create.
CONSTANTS
    Procs = {p1, p2}
    Nil = Nil
    NoMapping = NoMapping
    MaxOps = 3
    Mappings <- ValidMappings
    Queries <- PlainQueries
    Filters <- MCFilters
SPECIFICATION Spec
PROPERTIES
    NoReplace
CHECK_DEADLOCK FALSE
