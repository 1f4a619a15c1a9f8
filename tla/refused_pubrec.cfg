SPECIFICATION Spec
CONSTANTS
  MaxPacketId = 2
  Topics = {"a"}
  MaxAlias = 0
  Chunks <- RefusingChunks
  Tasks = {r1}
  MaxInputs = 5
  Calls = {"publish"}
  Hooks = {}
  Failing = {}
  ConnackCodes = {0}
  Outcomes <- NoOutcomes
  PublishQoS = {1, 2}
  TopicAliasMaximum = 0
  PubackAfterDelivery = FALSE
INVARIANT ExhaustedOnlyByFlows
