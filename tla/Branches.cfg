\* One root that may split twice over; every outcome, a throwing branch, a
\* cancel request at any moment; and a step of each shape.
SPECIFICATION MCSpec
CONSTANTS
  MaxBranches = 4
  Workers = 2
  RootFanouts = {0, 2}
  Fanouts = {1, 2}
  Caps = {1}
  Policies = {"fail-fast", "all-settled"}
  MaxPosts = 2
  MaxFaults = 1
  Visit <- MCVisit
  StepConf <- MCStepConf
  MaxRestarts = 1
INVARIANTS
  BranchesTypeOK
  SlotsBounded
  DecidedTrackIsClosed
  AnswerIsWhole
  NonIdempotentRunsOnce
  AnswersRecordedOnce
  BudgetIsTheRuns
PROPERTIES
  SettledStays
  JoinContract
  ImplementsTrack
  TrackTerminates
  CancelEndsVisit
