SPECIFICATION Spec
CONSTANTS
  w1 = w1  w2 = w2  Workers = {w1, w2}  MaxTokens = 3  MaxChanges = 1  MaxAttempts = 2
  ann = ann  bob = bob  Users = {ann, bob}  Founder = ann  Caller = bob
  owner = owner  clerk = clerk  Roles = {owner, clerk}  Owner = owner
  edit = edit  Keys = {edit}
  p1 = p1  p2 = p2  Processes = {p1, p2}
  t1 = t1  t2 = t2  Threads = {t1, t2}  ProcessOf <- ThreadProcess
  Ttl = 2  MaxCommits = 3
  TrialDays = 2  GraceDays = 1  LeaseDays = 2  MonthStarts <- Calendar
  MaxDay = 4  MaxPayments = 2  MaxPatches = 2  Dates = {1, 4}  SignIns = {1, 2}
SYMMETRY Alike
CONSTRAINT Bounds
INVARIANT RotatesOnce
INVARIANT ClosedSessionsStayClosed
INVARIANT LockStands
INVARIANT OldKeysExpire
INVARIANT OwnerRemains
INVARIANT LeaseWithinAccess
INVARIANT PeriodsDisjoint
INVARIANT CodeWorksOnce
CHECK_DEADLOCK FALSE
