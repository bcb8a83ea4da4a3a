SPECIFICATION Spec
CONSTANTS
  Clients = {c1}
  MaxJobs = 2
  MaxTokens = 1
  MaxUpdates = 1
  MaxChanges = 1
INVARIANT TypeOK
INVARIANT AppliedOnce
PROPERTY FinalIsFinal
PROPERTY CommitIsAuthorised
\* All jobs are decided and every bound is reached.
CHECK_DEADLOCK FALSE
