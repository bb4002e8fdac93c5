SPECIFICATION Spec
CONSTANTS
  n1 = n1
  n2 = n2
  n3 = n3
  n4 = n4
  n5 = n5
  n6 = n6
  NoNode = NoNode
  Node <- OneGroupNodes
  NGroups = 1
  MinSize <- OneGroupMin
  MaxSize <- OneGroupMax
  AwsMin <- OneGroupMin
  AwsMax <- OneGroupMax
  InitGroup <- OneGroup
  InitSize <- OneGroupSize
  BadProvider = {n1}
  Guarded = {}
  ReadyPolls = 1
  DeletePolls = 1
  Budget <- Calm
PROPERTY NotReadyReplaced
