SPECIFICATION Spec
CONSTANTS
  g1 = g1
  g2 = g2
  n1 = n1
  n2 = n2
  n3 = n3
  none = none
  Group = {g1}
  Node = {n1, n2, n3}
  NoGroup = none
  GroupOf <- MCGroupOf
  Observation <- MCObservation
  Increase = {1}
  ProvisionTime = 1
  MaxCloudProviderNodeDeletionTime = 1
  MaxNodeStartupTime = 3
  MaxStatusSettingDelayAfterCreation = 2
  InitialNodeGroupBackoffDuration = 2
  MaxNodeGroupBackoffDuration = 3
  NodeGroupBackoffResetTimeout = 3
  OkTotalUnreadyCount = 0
  MaxTotalUnreadyPercentage = 45
  MaxTime = 5
  MaxCalls = 3
  MaxUpdates = 3
INVARIANT
  RangesFollowRequests
PROPERTIES
  PendingSpares
  FailureBacksOff
  BackoffLeaves
  BackoffGrowth
  ObservationsKeepStart
CHECK_DEADLOCK FALSE
