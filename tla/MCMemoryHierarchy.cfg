SPECIFICATION Spec
CONSTANTS
  b1 = b1
  b2 = b2
  b3 = b3
  Tiles <- MCTiles
  Controllers <- MCControllers
  Banks <- MCBanks
  TileOf <- MCTileOf
  Home <- MCHome
  Offers <- MCOffers
  MaxRequests = 2
  DirectorySize = 2
  ReplaceWidth = 4
  RouterBuffer = 1
  LineWords = 2
  Lines = 4
  InputSize = 4
  RemoteSize = 3
  NoValue = NoValue
  Free = Free
INVARIANTS AssertionsHold BanksSeeTheirStores RequestsFollowTranslation
PROPERTIES  EveryFetchAnswered
