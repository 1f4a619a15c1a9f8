--------------------------- MODULE QoSFlowTracker ---------------------------
(***************************************************************************)
(* The QoS flow tracker: class QoSFlowTracker in src/state/qos-flow.ts.    *)
(* It holds the exchanges the server has begun (outbound) and the QoS 2    *)
(* messages of the client that wait for PUBREL (inbound), both keyed by    *)
(* packet id.  Every method is synchronous, hence one step or a part of    *)
(* one.  The methods are operators over the two Maps; MqttWire composes    *)
(* them with their callers.                                                *)
(***************************************************************************)
EXTENDS Integers, FiniteSets

CONSTANTS MaxPacketId,      \* the width of a packet id (65535 in the code)
          ReceiveMaximum    \* the constructor's argument

VARIABLES outbound,   \* packet id -> flow, NoFlow where the Map has no entry
          inbound

flowVars == <<outbound, inbound>>

FlowIds == 0..MaxPacketId

NoFlow == [type |-> "none"]

QoS1Flow(packet, now) ==
    [type |-> "qos1-outbound", packet |-> packet, sentAt |-> now, retryCount |-> 0]
QoS2Flow(packet, phase, now) ==
    [type |-> "qos2-outbound", packet |-> packet, state |-> phase,
     sentAt |-> now, retryCount |-> 0]
InboundFlow(packet) == [type |-> "qos2-inbound", packet |-> packet]

FlowInit == /\ outbound = [id \in FlowIds |-> NoFlow]
            /\ inbound = [id \in FlowIds |-> NoFlow]

\* The constructor clamps its argument to what the protocol allows.
Limit == IF ReceiveMaximum < 1 THEN 1
         ELSE IF ReceiveMaximum > MaxPacketId THEN MaxPacketId ELSE ReceiveMaximum

Live(flows) == {id \in FlowIds : flows[id] # NoFlow}

CanSendOutbound == Cardinality(Live(outbound)) < Limit

StartQoS1Outbound(id, packet, now) ==
    outbound' = [outbound EXCEPT ![id] = QoS1Flow(packet, now)] /\ UNCHANGED inbound

StartQoS2Outbound(id, packet, now) ==
    /\ outbound' = [outbound EXCEPT ![id] = QoS2Flow(packet, "awaiting-pubrec", now)]
    /\ UNCHANGED inbound

\* The flow a PUBACK, PUBREC or PUBCOMP may act on.
AwaitsPuback(id)  == outbound[id].type = "qos1-outbound"
AwaitsPubrec(id)  == /\ outbound[id].type = "qos2-outbound"
                     /\ outbound[id].state = "awaiting-pubrec"
AwaitsPubcomp(id) == /\ outbound[id].type = "qos2-outbound"
                     /\ outbound[id].state = "awaiting-pubcomp"

EndOutbound(id) == outbound' = [outbound EXCEPT ![id] = NoFlow] /\ UNCHANGED inbound

\* handlePuback(): the result's success is AwaitsPuback(id).
HandlePuback(id) == IF AwaitsPuback(id) THEN EndOutbound(id) ELSE UNCHANGED flowVars

\* handlePubrec(): a reason code of 0x80 or above ends the flow and reports failure;
\* the result's success is AwaitsPubrec(id) /\ ~refused.
HandlePubrec(id, refused, now) ==
    \/ /\ AwaitsPubrec(id) /\ refused
       /\ EndOutbound(id)
    \/ /\ AwaitsPubrec(id) /\ ~refused
       /\ outbound' = [outbound EXCEPT
              ![id] = QoS2Flow(outbound[id].packet, "awaiting-pubcomp", now)]
       /\ UNCHANGED inbound
    \/ /\ ~AwaitsPubrec(id)
       /\ UNCHANGED flowVars

\* handlePubcomp(): the result's success is AwaitsPubcomp(id).
HandlePubcomp(id) == IF AwaitsPubcomp(id) THEN EndOutbound(id) ELSE UNCHANGED flowVars

HasInbound(id) == inbound[id] # NoFlow

StartQoS2Inbound(id, packet) ==
    inbound' = [inbound EXCEPT ![id] = InboundFlow(packet)] /\ UNCHANGED outbound

\* handlePubrel(): returns inbound[id] and forgets it.
HandlePubrel(id) == inbound' = [inbound EXCEPT ![id] = NoFlow] /\ UNCHANGED outbound

-----------------------------------------------------------------------------
(* Retries and persistence, for the application that keeps sessions: no code  *)
(* of the wire calls these.                                                   *)

IncrementRetryRestarts(id, now) ==   \* mutated: the flow starts again from PUBLISH
    /\ outbound' = [outbound EXCEPT ![id] =
           IF @.type = "qos2-outbound"
           THEN [@ EXCEPT !.state = "awaiting-pubrec", !.sentAt = now, !.retryCount = @ + 1]
           ELSE [@ EXCEPT !.sentAt = now, !.retryCount = @ + 1]]
    /\ UNCHANGED inbound

\* incrementRetry() of a flow that there is.
IncrementRetry(id, now) ==
    /\ outbound' = [outbound EXCEPT ![id].sentAt = now, ![id].retryCount = @ + 1]
    /\ UNCHANGED inbound

FlowsNeedingRetryLate(timeout, now) ==   \* mutated: > for >=
    {id \in Live(outbound) : now - outbound[id].sentAt > timeout}

FlowsNeedingRetryAtOnce(timeout, now) ==   \* mutated: the timeout is not tested
    Live(outbound)

\* getFlowsNeedingRetry(), by their ids.
FlowsNeedingRetry(timeout, now) ==
    {id \in Live(outbound) : now - outbound[id].sentAt >= timeout}

\* restore(): entries are set, others stay.
RestoreFlows(outboundFlows, inboundFlows) ==
    /\ outbound' = [id \in FlowIds |-> IF id \in Live(outboundFlows) THEN outboundFlows[id]
                                       ELSE outbound[id]]
    /\ inbound' = [id \in FlowIds |-> IF id \in Live(inboundFlows) THEN inboundFlows[id]
                                      ELSE inbound[id]]

ClearFlows == /\ outbound' = [id \in FlowIds |-> NoFlow]
              /\ inbound' = [id \in FlowIds |-> NoFlow]
=============================================================================
