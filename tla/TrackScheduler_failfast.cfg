\* Two branches, no fault: does a failure always end the track?
SPECIFICATION Spec
CONSTANTS
  MaxBranches = 4
  Workers = 2
  RootFanouts = {2}
  Fanouts = {1}
  Caps = {1}
  Policies = {"fail-fast"}
  MaxPosts = 1
  MaxFaults = 0
INVARIANT FailureTerminalizes
