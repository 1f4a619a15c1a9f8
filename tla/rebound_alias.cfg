SPECIFICATION Spec
CONSTANTS
  MaxPacketId = 1
  Topics = {"a", "b"}
  MaxAlias = 1
  Chunks <- RebindingChunks
  Tasks = {r1}
  MaxInputs = 5
  Calls = {}
  Hooks = {"onPublish"}
  Failing = {}
  ConnackCodes = {0}
  Outcomes <- NoOutcomes
  PublishQoS = {}
  TopicAliasMaximum = 1
  PubackAfterDelivery = FALSE
INVARIANT DeliveredAsMeant
