CONSTANTS
  first = first
  second = second
  again = again
  quiet = quiet
  NoFile = NoFile
  Files = {first, second, again, quiet}
  Locked = {first, again}
  Empty = {quiet}
  Members = {second}
  Stem <- Names
  Scope <- OneMonth
  Account <- Accounts
  Expected <- TwoOfThem
  PdfRegimes <- Deployed
  MaxJobs = 2
  MaxFaults = 2
SPECIFICATION PSpec
INVARIANTS
  RecordsAreTrue
PROPERTIES
  EveryFileIsRead
  JobsEnd
CHECK_DEADLOCK FALSE
