SPECIFICATION FairSpec
CONSTANTS
  None = None
  Width = 2
  Height = 2
  BufferSize = 1
  Connected <- MCConnected
  Packets <- MCPackets
  MaxLength = 2
INVARIANTS
  LinksAscend
PROPERTIES
  ImplementsCrossbar
  EveryBufferDrains
