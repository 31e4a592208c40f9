SPECIFICATION OSpec
INVARIANTS
  LedgerIsWhole
  OperatorWordStands
  EditsArrive
PROPERTIES
  CategorisedStays
CHECK_DEADLOCK FALSE
CONSTANTS
  None = None
  Lines <- MCLines
  TextOf <- MCText
  IdentityOf <- MCIdentity
  OwnerOf <- MCOwner
  Automatic = {"p"}
  Variants <- MCVariants
  Transfers <- MCTransfers
  Sheets <- MCSheets
  Hits <- MCHits
  TokensOf <- MCTokens
  LikeHits <- MCLike
  Names <- MCNames
  Known = {"Food", "Other"}
  Reserved <- MCReserved
  Seeded <- MCSeeded
  Teachable <- MCTeachable
  Requests = {1, 2}
  Drains = {1, 2}
  Regimes <- MCRegimes
