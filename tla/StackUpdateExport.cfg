CONSTANTS
  Args <- UpdateArgs
  ValidIDs <- UpdateValidIDs
  KindFold <- UpdateKindFold
  Answers <- UpdateAnswers
  MaxTries = 3
SPECIFICATION Spec
INVARIANT ExportOnlyOnYes
CHECK_DEADLOCK FALSE
