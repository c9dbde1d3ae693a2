CONSTANTS
  Submits = {s1, s2}
  Approvals = {a1, a2}
  Verifies = {}
  Agents <- MCAgents
  Fallback = "assist"
  MaxMatches = 0
  ExecutorCommits = FALSE
  Serial = FALSE
  MaxFaults = 1
SPECIFICATION ChatSpec
INVARIANTS QuestionsStayAnswerable AnswersWhatWasShown OnlyCutEventsAreLost ForksOnlyWhenUnfinished
SYMMETRY MCSymmetry
CHECK_DEADLOCK FALSE
