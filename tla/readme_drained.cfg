SPECIFICATION Spec
CONSTANTS
  web = web
  db = db
  late = late
  Pod = {web, db, late}
  Stateful = {db}
  Listed = {web, db}
  Dying = {}
  Sweeps = 1
  Budget <- RecoverOnce
CHECK_DEADLOCK FALSE
PROPERTY DrainedBeforeRemoval
