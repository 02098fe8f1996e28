\* One caller; Create of mappings that fail Validate.
CONSTANTS
    Procs = {p1}
    Nil = Nil
    NoMapping = NoMapping
    MaxOps = 6
    Mappings <- AllMappings
    Queries <- PlainQueries
    Filters <- MCFilters
SPECIFICATION Spec
PROPERTIES
    CreateAckMeansStored
CHECK_DEADLOCK FALSE
