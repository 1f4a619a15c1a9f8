SPECIFICATION Spec
CONSTANTS
  MaxPacketId = 1
  Topics = {"a"}
  MaxAlias = 0
  Chunks <- ClosingChunks
  Tasks = {r1, r2}
  MaxInputs = 4
  Calls = {"disconnect"}
  Hooks = {"onDisconnect"}
  Failing = {}
  ConnackCodes = {0}
  Outcomes <- NoOutcomes
  PublishQoS = {}
  TopicAliasMaximum = 0
  PubackAfterDelivery = FALSE
PROPERTY ClosedStaysClosed
