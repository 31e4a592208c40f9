CONSTANTS
  a1 = a1
  a2 = a2
  move = move
  reply = reply
  delete = delete
  None = None
  Ids = {a1}
  Intents = {move, reply, delete}
  Class <- AllClasses
  Plans = {p1, p2}
  Servers = {api}
  MaxTime = 3
  StaleAfter = 1
  AutoExpireAfter = 1
  ExpireAfter = 2
  ArchiveAfter = 2
SPECIFICATION Spec
INVARIANTS
  AuditIsSound
PROPERTIES
  ImplementsLedger
CHECK_DEADLOCK FALSE
