SPECIFICATION Safety
CONSTANTS
  r1 = r1
  r2 = r2
  Requests <- MCRequests
  Modes <- MCModes
  Threshold = 2
  OpenTicks = 1
  ErrorCodes = {"CORPUS_INCONSISTENT", "DEPENDENCY_UNAVAILABLE", "MODE_UNAVAILABLE"}
  Disconnects = {"client_disconnect", "engine_shutdown"}
INVARIANTS
  TypeOK
  NoOrphans
PROPERTIES
  BlamedOnEvidence
  AnswerFitsResults
