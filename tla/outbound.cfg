SPECIFICATION Spec
CONSTANTS
  MaxPacketId = 2
  Topics = {"a", "b"}
  MaxAlias = 1
  Chunks <- OutboundChunks
  Tasks = {r1, r2}
  MaxInputs = 7
  Calls = {"publish", "reset"}
  Hooks = {}
  Failing = {"onSend"}
  ConnackCodes = {0}
  Outcomes <- NoOutcomes
  PublishQoS = {0, 1, 2}
  TopicAliasMaximum = 0
  PubackAfterDelivery = FALSE
SYMMETRY TaskSymmetry
INVARIANTS TypeOK FlowIdsHeld IdsMatchFlows AliasesAgree
PROPERTY FlowNeverReplaced
