\* A core and a bank, with simulate() or the debugger.
SPECIFICATION Spec
CONSTANTS
    core = core
    bank = bank
    Components <- MCComponents
    Cores <- MCCores
    Reasons <- MCReasons
    BigStep = 2
    IdleLimit = 3
    ProgressInterval = 4
    Timeout = 6
    MaxIdleTime = 2
    Latency = 2
    MaxInstructions = 2
    MaxSyscalls = 2
    MaxCycles = 2
INVARIANTS
    StallTimesExact
    GivesUpIffStuck
CHECK_DEADLOCK FALSE
