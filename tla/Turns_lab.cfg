CONSTANTS
  Submits = {s1}
  Approvals = {a1, a2, a3}
  Verifies = {v1}
  Agents <- MCAgents
  Fallback <- MCFallback
  MaxMatches = 2
  ExecutorCommits = FALSE
  Serial = TRUE
SPECIFICATION Spec
INVARIANTS NeverStranded OneResultPerMatch VerificationsStand
PROPERTIES ImplementsLifecycle NoRunAfterDecline
CHECK_DEADLOCK FALSE
