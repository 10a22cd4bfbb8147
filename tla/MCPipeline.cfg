CONSTANTS
    Programs <- MCPrograms
    Regs <- MCRegs
    Channel = 2
    FirstDatum = 20
    ChannelSize = 1
    OutputSize = 1
    MaxCredits = 1
    MaxData = 3
    MaxNxipk = 1
    MaxRepeats = 2
    Allows = {}
SPECIFICATION Spec
INVARIANTS AssertionsHold EffectsInOrder CreditsConserved SparesNextPacket
PROPERTIES UnstallEndsRepetition EveryInstructionLeaves
CHECK_DEADLOCK FALSE
