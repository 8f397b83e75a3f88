\* Nested splits without faults: is every registered join run?
SPECIFICATION Spec
CONSTANTS
  MaxBranches = 4
  Workers = 2
  RootFanouts = {0}
  Fanouts = {1}
  Caps = {1}
  Policies = {"fail-fast"}
  MaxPosts = 1
  MaxFaults = 0
INVARIANT EveryJoinRuns
