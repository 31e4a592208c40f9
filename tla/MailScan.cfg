CONSTANTS
  None = None
  NoPath = NoPath
  MessageIds = {m1, m2}
  Accounts = {"home", "work"}
  Providers <- MCProviders
  Fallible <- MCFallible
  MaxFailures = 2
  MaxBatch = 2
  MaxPerCycle = 3
  MaxAlerts = 2
  Attempts = 2
  Regimes <- MCAllRegimes
  d1 = d1
  d2 = d2
  x1 = x1
  x2 = x2
  x3 = x3
  Docs = {d1, d2}
  FileNames = {n1}
  Mails = {x1, x2, x3}
  RouterRegimes <- MCAllRouterRegimes
SPECIFICATION AgentSpec
INVARIANTS
  ScanIsSound
  RouterIsSound
PROPERTIES
  MailIsProcessed
  MailsAreHandled
CHECK_DEADLOCK FALSE
