SPECIFICATION Spec
CONSTANTS
  n1 = n1
  n2 = n2
  n3 = n3
  n4 = n4
  n5 = n5
  n6 = n6
  NoNode = NoNode
  Node <- OneGroupNodes
  NGroups = 1
  MinSize <- OneGroupMin
  MaxSize <- OneGroupMax
  AwsMin <- OneGroupAwsMin
  AwsMax <- OneGroupAwsMax
  InitGroup <- OneGroup
  InitSize <- OneGroupSize
  BadProvider = {}
  Guarded = {n2}
  ReadyPolls = 1
  DeletePolls = 1
  Budget <- SafetyBudget
INVARIANTS
  SizeWithinBounds
  SliceInBounds
  TaintAccounted
PROPERTIES
  TerminatesOnlyConfirmed
  KeepsContract
