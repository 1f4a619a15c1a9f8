SPECIFICATION MCSpec
CONSTANT MaxPacketId = 4
INVARIANT TypeOK
PROPERTIES ImplementsPool LongestRest
