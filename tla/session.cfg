SPECIFICATION Spec
CONSTANTS
  MaxPacketId = 1
  Topics = {"a"}
  MaxAlias = 1
  Chunks <- SessionChunks
  Tasks = {r1, r2}
  MaxInputs = 5
  Calls = {"publish", "reset", "disconnect", "timeout"}
  Hooks = {"onPublish", "onDisconnect", "onSubscribe", "onError"}
  Failing = {"onConnect", "onSend", "onPublish", "onDisconnect", "onError", "encode", "onSubscribe"}
  ConnackCodes = {0, 135}
  Outcomes <- AllOutcomes
  PublishQoS = {0}
  TopicAliasMaximum = 1
  PubackAfterDelivery = TRUE
SYMMETRY TaskSymmetry
INVARIANTS QoS2AtMostOnce PubackMeansHandled TimerFollowsState CloseIsReported
