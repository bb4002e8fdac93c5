SPECIFICATION Spec
CONSTANTS
  web = web
  db = db
  late = late
  Pod = {web, db, late}
  Stateful = {db}
  Listed = {web, db}
  Dying = {}
  Sweeps = 2
  Budget <- TwoOfAll
CHECK_DEADLOCK FALSE
INVARIANTS
  DrainSound
  AbandonReleases
PROPERTIES
  SuccessorSpared
  KeepsContract
  EvictorsFinish
  DeleteNodeReturns
