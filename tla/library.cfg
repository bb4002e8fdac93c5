\* The parts of the library, one at a time.
SPECIFICATION Spec
CONSTANTS
  Node = {n1, n2, n3}
  maxUsageRecorded = 1
  MaxTime = 2
  MaxPodTime = 2
  MaxVerdicts = 1
  Group = {g1, g2, g3}
  Size = {0, 1, 2, 3}
  Request = {0, 1, 3, 5}
  NodePod <- MCPod
  About <- MCAbout
  Budgets <- MCBudgets
  Grace = 1
  PodDeletionTimeout = 0
  Asg = {"a1", "a2"}
  Key = {"k1", "k2"}
  Limits <- MCLimits
  Provider = {"aws", "gce"}
  Specs <- MCSpecs
  AutoSpecs <- MCAutoSpecs
  NoSpec = NoSpec
  Atoi <- MCAtoi
  NotANumber = NotANumber
  MaxChanges = 2
  Content <- MCContent
  Blank = Blank
  Garbage = Garbage
  Writer = {w1, w2}
  NoWriter = NoWriter
  MaxRevision = 4
  MaxVersion = 4
  maxItems = 2
  itemLifetime = 2
  MaxLogged = 6
  MaxClock = 6
  Own = {i1, i2, i3}
  Started = {i1, i2}
  Foreign = {f1}
  Unmanaged = {u1}
  MinSize = 1
  AwsMin = 0
  AwsMax = 3
  MaxResize = 1
INVARIANTS
  NoOutdatedVerdict
  UseIsRecorded
  LoopInvariant
  Balanced
  SelectionsAgree
  GroupsAsAsked
  FetchedIsCurrent
  LogIsRecent
  DeletesOwn
PROPERTIES
  WritesOwnOnly
  DecreaseSpares
SYMMETRY NodeSymmetry
CHECK_DEADLOCK FALSE
