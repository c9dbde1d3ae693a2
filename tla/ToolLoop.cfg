\* One more call than rounds, so that the round cap is reached; two calls in a
\* response, so that a pause can come before, after or without a sibling.
CONSTANTS
  Calls <- MCCalls
  SideEffects <- MCSideEffects
  Results <- MCResults
  MaxRounds = 3
  Window = 3
  MaxBatch = 2
SPECIFICATION FairSpec
INVARIANTS
  NoUnapprovedEffect
  EachCallRunsOnce
  RunsWithinRounds
  SpinningStops
PROPERTIES
  ImplementsGate
  TerminatesIfAnswered
\* The loop ends, and after that nothing runs.
CHECK_DEADLOCK FALSE
