SPECIFICATION FairSpec
CONSTANTS
  MaxPacketId = 1
  Topics = {"a"}
  MaxAlias = 0
  Chunks <- LivenessChunks
  Tasks = {r1, r2}
  MaxInputs = 5
  Calls = {"disconnect", "timeout"}
  Hooks = {"onPublish", "onSubscribe", "onDisconnect"}
  Failing = {}
  ConnackCodes = {0}
  Outcomes <- NoOutcomes
  PublishQoS = {}
  TopicAliasMaximum = 0
  PubackAfterDelivery = FALSE
PROPERTIES CallsReturn FramesAreRead ReleasedIsDelivered
