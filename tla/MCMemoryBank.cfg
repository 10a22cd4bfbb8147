\* Hits under misses, refills and evictions; reservations, line operations and requests that skip the cache.
SPECIFICATION FairSpec
CONSTANTS
    None = None
    a = a
    b = b
    c = c
    core1 = core1
    core2 = core2
    l2 = l2
    Tag <- MCTag
    ZeroTag = a
    LineOf <- MCLineOf
    WordsPerLine = 2
    NumLines = 2
    Dest <- MCDest
    CoreDest <- MCCoreDest
    Val <- MCVal
    EndOfPacketWords = {0}
    AtomicUpdate <- MCAtomicUpdate
    InitialMem <- MCInitialMem
    hitUnderMiss = TRUE
    InputSize = 2
    OutputSize = 1
    OutQueue <- MCOutQueue
    QueueOf <- MCQueueOf
    Workloads <- MCWorkloads
    MaxRequests = 3
    LatePayload = FALSE
INVARIANTS
    AssertionsHold
PROPERTIES
    ImplementsMemoryService
    EveryRequestServed
CHECK_DEADLOCK FALSE
