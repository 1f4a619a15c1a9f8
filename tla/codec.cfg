SPECIFICATION Spec
CONSTANTS
  Radix = 128
  MaxVarintLength = 4
  TypeUnit = 16
  MaxPacketSize = 300
  MaxStringLength = 258
  DefaultInitialSize = 16
  Inputs <- SampleInputs
  Followers <- NextPackets
  WrongBytes = {0, 1, 38, 128, 255}
  MaxDamaged = 20
  TopicNames <- ShortTopicNames
INVARIANTS RoundTrip FramesAgree Forwardable RoutedAsSpecified FiltersAsSpecified
CHECK_DEADLOCK FALSE
