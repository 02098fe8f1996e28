CONSTANTS
  None = None
SPECIFICATION Spec
INVARIANT TypeOK
INVARIANT PromptsOnlyTerminal
INVARIANT ConflictsNeedOverride
INVARIANT DeletedExactlyConfirmed
INVARIANT NothingDeletedAfterFailure
INVARIANT UpdatedAsGiven
INVARIANT ExportAsListed
CHECK_DEADLOCK FALSE
INVARIANT ReadsExactlyTheNamed
