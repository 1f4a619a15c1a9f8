SPECIFICATION Spec
CONSTANTS
  MaxPacketId = 2
  ReceiveMaximum = 2
  QoS1Messages = {q1}
  QoS2Messages = {q2, r2}
  MaxConnections = 4
INVARIANTS TypeOK RestoredIdsMatchFlows
PROPERTIES ImplementsDelivery ExchangesEnd
CHECK_DEADLOCK FALSE
