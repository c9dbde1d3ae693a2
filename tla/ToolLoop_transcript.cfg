\* Expected to fail: a pause forgets the other calls of its response.
CONSTANTS
  Calls <- MCCalls
  SideEffects <- MCSideEffects
  Results <- MCResults
  MaxRounds = 3
  Window = 3
  MaxBatch = 2
SPECIFICATION Spec
INVARIANT TranscriptAnswered
CHECK_DEADLOCK FALSE
