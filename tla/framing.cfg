SPECIFICATION Spec
CONSTANTS
  Radix = 2
  MaxVarintLength = 2
  TypeUnit = 1
  MaxPacketSize = 5
  Chunks <- SmallChunks
  MaxBuffered = 6
INVARIANTS TypeOK LengthExact
PROPERTY ImplementsStream
