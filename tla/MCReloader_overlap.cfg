SPECIFICATION FairSpec
CONSTANTS
  p1 = p1
  p2 = p2
  Workers = {rules, config}
  Host = host
  Pods <- MCPods
  UsesHost = TRUE
  UsesEndpoints = TRUE
  Retries = 1
  MaxSubsets <- MCMaxSubsets
  MaxChanges = 2
  MaxFlips = 1
INVARIANTS TypeOK
PROPERTIES KeepsPromise Settles
CHECK_DEADLOCK FALSE
