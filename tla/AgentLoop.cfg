CONSTANTS
  FetchLimit = 2
  MaxPerHour = 2
  Regimes <- Deployed
SPECIFICATION FairSpec
INVARIANTS
  RepliesStand
PROPERTIES
  CommandsInReachAreAnswered
  RequestsAreCarriedOut
