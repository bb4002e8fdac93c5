SPECIFICATION StatusSpec
CONSTANTS
  g1 = g1
  g2 = g2
  n1 = n1
  n2 = n2
  n3 = n3
  none = none
  Group = {g1, g2}
  Node = {n1, n2, n3}
  NoGroup = none
  GroupOf <- MCGroupOf
  Observation <- StatusObservation
  Candidates = {{n1}}
  Increase = {1}
  ProvisionTime = 1
  MaxCloudProviderNodeDeletionTime = 1
  MaxNodeStartupTime = 3
  MaxStatusSettingDelayAfterCreation = 2
  InitialNodeGroupBackoffDuration = 1
  MaxNodeGroupBackoffDuration = 2
  NodeGroupBackoffResetTimeout = 3
  OkTotalUnreadyCount = 0
  MaxTotalUnreadyPercentage = 45
  MaxTime = 2
  MaxCalls = 3
  MaxUpdates = 2
PROPERTIES
  TransitionsAdvance
  BackoffReported
CHECK_DEADLOCK FALSE
