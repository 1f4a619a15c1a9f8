----------------------------- MODULE MCMqttWire -----------------------------
(* The frames and values the configurations of MqttWire choose from. *)
EXTENDS MqttWire, TLC

Packet(type) == [type |-> type]
Connect(version, keepAlive) ==
    [type |-> "CONNECT", version |-> version, keepAlive |-> keepAlive,
     receiveMaximum |-> Absent, topicAliasMaximum |-> Absent]
ConnectWith(receiveMaximum, topicAliasMaximum) ==
    [type |-> "CONNECT", version |-> "5.0", keepAlive |-> 0,
     receiveMaximum |-> receiveMaximum, topicAliasMaximum |-> topicAliasMaximum]
Publication(qos, id, topic, alias) ==
    [type |-> "PUBLISH", qos |-> qos, packetId |-> id, topic |-> topic, alias |-> alias]
Ack(type, id) == [type |-> type, packetId |-> id]
Pubrec(id, refused) == [type |-> "PUBREC", packetId |-> id, refused |-> refused]

Single(frames) == {<<frame>> : frame \in frames}

\* The order of tasks does not matter to anything: they are interchangeable.
TaskSymmetry == Permutations(Tasks)

\* What onPublish may answer: nothing, and with a failure.
NoOutcomes == {NoOutcome}
AllOutcomes == {NoOutcome, 135}

\* Acknowledgements in any order, valid or not, of a client that refuses nothing; under
\* MQTT 5.0 it takes one topic alias.
OutboundChunks ==
    {<<ConnectWith(65535, 1)>>, <<Connect("3.1.1", 0)>>}
    \cup Single({Ack(type, id) : type \in {"PUBACK", "PUBCOMP"}, id \in Ids})
    \cup Single({Pubrec(id, FALSE) : id \in Ids})

\* Messages of the client, with duplicates, and PUBREL also for unknown ids; alias 1 is
\* used before and after it is known.
InboundChunks ==
    {<<Connect("5.0", 0)>>, <<Connect("3.1.1", 0)>>}
    \cup Single({Publication(qos, 1, "a", NoAlias) : qos \in 1..2})
    \cup Single({Ack("PUBREL", id) : id \in 0..1})
    \cup {<<Publication(2, 1, "a", 1), Ack("PUBREL", 1), Ack("PUBREL", 1)>>,
          <<Publication(0, 0, "", 1)>>}

\* Opening, requests, closing and every kind of error.
LifecycleChunks ==
    {<<Connect("5.0", 1)>>, <<Connect("3.1.1", 1)>>, <<Connect("5.0", 0)>>,
     <<Packet("SUBSCRIBE"), Packet("UNSUBSCRIBE"), Packet("PINGREQ"), Packet("AUTH")>>,
     <<Packet("DISCONNECT")>>, <<Packet("BadFrame")>>, <<Packet("Malformed")>>,
     <<Packet("SUBACK"), Packet("PINGREQ")>>,
     <<Publication(1, 1, "a", NoAlias), Publication(0, 0, "a", 1)>>}

\* All of these.
SessionChunks == InboundChunks \cup LifecycleChunks

\* A QoS 2 message that ends, and acknowledgements for ids that nothing waits for.
RefusingChunks == {<<Connect("5.0", 0)>>} \cup Single({Pubrec(id, TRUE) : id \in Ids})

\* A client that allows one unacknowledged message.
NarrowChunks == {<<ConnectWith(1, 0)>>}

\* The client gives alias 1 to another topic between PUBLISH and PUBREL.
RebindingChunks ==
    {<<ConnectWith(65535, 0)>>}
    \cup Single({Publication(2, 1, topic, 1) : topic \in Topics \cup {""}})
    \cup Single({Publication(0, 0, topic, 1) : topic \in Topics})
    \cup Single({Ack("PUBREL", 1)})

\* Opening and closing.
ClosingChunks == {<<Connect("5.0", 0)>>, <<Packet("DISCONNECT")>>}

\* For the liveness properties: a frame behind a frame whose hook is pending, a frame the
\* framer rejects, and a whole QoS 2 exchange.
LivenessChunks ==
    {<<Connect("5.0", 1), Publication(1, 1, "a", NoAlias), Packet("PINGREQ")>>,
     <<Packet("SUBSCRIBE"), Publication(0, 0, "a", NoAlias)>>,
     <<Packet("Malformed"), Packet("PINGREQ")>>, <<Packet("BadFrame")>>, <<Packet("DISCONNECT")>>,
     <<Publication(2, 1, "a", NoAlias), Ack("PUBREL", 1)>>}
=============================================================================
