CONSTANTS
  Submits = {s1}
  Approvals = {a1, a2}
  Verifies = {}
  Agents <- MCAgents
  Fallback <- MCFallback
  MaxMatches = 2
  ExecutorCommits = TRUE
  Serial = FALSE
SPECIFICATION FairSpec
INVARIANTS NoMatchLost EachRunWasApproved
PROPERTY ResponsesEnd
CHECK_DEADLOCK FALSE
