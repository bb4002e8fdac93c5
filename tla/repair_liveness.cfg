SPECIFICATION Spec
CONSTANTS
  n1 = n1
  n2 = n2
  n3 = n3
  n4 = n4
  n5 = n5
  n6 = n6
  NoNode = NoNode
  Node <- SmallNodes
  NGroups = 2
  MinSize <- SmallMin
  MaxSize <- SmallMax
  AwsMin <- SmallMin
  AwsMax <- SmallMax
  InitGroup <- SmallGroups
  InitSize <- SmallSize
  BadProvider = {}
  Guarded = {}
  ReadyPolls = 1
  DeletePolls = 1
  Budget <- LivenessBudget
PROPERTIES
  PassTerminates
  NotReadyReplaced
