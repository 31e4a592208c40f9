CONSTANTS
  plain = plain
  other = other
  anonymous = anonymous
  huge = huge
  None = None
  Messages = {plain, anonymous, huge}
  WithId = {plain, huge}
  Oversized = {huge}
  Regimes <- Circumstances
  MaxUid = 2
  MaxValidity = 2
  MaxFaults = 1
  MaxAlerts = 3
SPECIFICATION FairSpec
INVARIANTS
  IntakeIsSound
PROPERTIES
  SavedIsQuiet
  EveryMessageIsSaved
