\* export all with a --filter value that lacks "=" (labelName alone, or
\* kind beside a labelName filter): it is skipped and the export is not
\* narrowed by it.
CONSTANTS
  None = None
SPECIFICATION Spec
INVARIANT FiltersApplied
CHECK_DEADLOCK FALSE
