SPECIFICATION Spec
CONSTANTS
  MaxPacketId = 3
  Topics = {"a"}
  MaxAlias = 0
  Chunks <- NarrowChunks
  Tasks = {r1}
  MaxInputs = 4
  Calls = {"publish"}
  Hooks = {}
  Failing = {}
  ConnackCodes = {0}
  Outcomes <- NoOutcomes
  PublishQoS = {1, 2}
  TopicAliasMaximum = 0
  PubackAfterDelivery = FALSE
INVARIANT ReceiveMaximumRespected
