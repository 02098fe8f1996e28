CONSTANTS
  Flags <- ApplyFlags
  EnvKeys <- ApplyEnvKeys
  SecretKeys <- ApplySecretKeys
  Answers <- ApplyAnswers
  ConfirmAnswers <- ApplyConfirmAnswers
  Lower <- ApplyLower
  DecodableIDs <- ApplyDecodableIDs
SPECIFICATION Spec
INVARIANT NoPanic
CHECK_DEADLOCK FALSE
