SPECIFICATION Spec
CONSTANTS
  n1 = n1
  n2 = n2
  n3 = n3
  n4 = n4
  n5 = n5
  n6 = n6
  NoNode = NoNode
  Node <- TwoGroupsNodes
  NGroups = 2
  MinSize <- TwoGroupsMin
  MaxSize <- TwoGroupsMax
  AwsMin <- TwoGroupsMin
  AwsMax <- TwoGroupsMax
  InitGroup <- TwoGroups
  InitSize <- TwoGroupsSize
  BadProvider = {n6}
  Guarded = {}
  ReadyPolls = 1
  DeletePolls = 1
  Budget <- NeutralBudget
SYMMETRY TwoGroupsSymmetry
INVARIANTS
  SizeRestored
  SurgeBounded
PROPERTY ReplacedOnReturn
