CONSTANTS
  a1 = a1
  a2 = a2
  move = move
  reply = reply
  delete = delete
  None = None
  Ids = {a1}
  Intents = {move}
  Class <- MutationOnly
  Plans = {p1, p2}
  Servers = {s1, s2}
  MaxTime = 2
  StaleAfter = 1
  AutoExpireAfter = 0
  ExpireAfter = 1
  ArchiveAfter = 1
SPECIFICATION Spec
INVARIANTS
  AttemptsConsistent
  OneExecutionPerApproval
  VerdictMatchesEffect
PROPERTIES
  ClosedIsFinal
  AttemptedOnce
SYMMETRY ServerSymmetry
CHECK_DEADLOCK FALSE
