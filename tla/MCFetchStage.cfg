\* With two words to a line, packet 2, 3, 4 takes a line and a half, packet 6,
\* 7, 8, 9 takes two, and 13 is a packet of one instruction. 31, 32 is in the
\* cache at the start, and other cores send 41, 42.
CONSTANTS
    CacheSize = 7
    NumTags = 3
    MaxPacket = 2
    LineWords = 2
    Ends = {4, 9, 13, 32, 42}
    Boot = 31
    Packets = {2, 6, 13}
    Remote = {41}
    FifoSize = 3
    ReturnChannels = {1}
    Operations = {"fetch", "fetchpst", "fill"}
    Back = 1
    Ahead = 2
    MaxFetches = 3
    MaxJumps = 1
    MaxRemote = 1
    MaxNxipk = 1
    MaxEvents = 3
    Allows = {}
SPECIFICATION Spec
INVARIANTS StoresKeepPackets
PROPERTIES ImplementsPacketStream EveryRequestBegins
CHECK_DEADLOCK FALSE
