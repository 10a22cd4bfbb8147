SPECIFICATION FairSpec
CONSTANTS
  None = None
  Source = {s1, s2}
  NumCores = 2
  NumChannels = 1
  Connectable <- TwoCores
  Capacity = 3
  InBufferSize = 2
  DrainBeforeRelease = TRUE
  SquashUnacquired = FALSE
INVARIANTS
  TypeOK
  SendsOwedCredits
  ClaimsMeetSettledPorts
  CreditsConserved
PROPERTIES
  ImplementsRemoteChannel
  EveryClaimDecided
